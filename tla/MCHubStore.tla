----------------------------- MODULE MCHubStore -----------------------------
(* Symmetry for model-checking HubStore.                                   *)
EXTENDS HubStore, TLC

\* Commands, node events, runs and tasks are interchangeable ids.
Symmetry ==
    Permutations(Command) \cup Permutations(NodeEvent)
        \cup Permutations(Run) \cup Permutations(Task)
=============================================================================
