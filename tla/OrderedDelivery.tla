--------------------------- MODULE OrderedDelivery ---------------------------
(***************************************************************************)
(* What the client link promises: a log grows by one event at a time, and  *)
(* a client reads it in order, repeating nothing and skipping at most      *)
(* events that were logged and not broadcast, however often its connection *)
(* is lost.                                                                *)
(***************************************************************************)
EXTENDS Naturals

VARIABLES
    head,   \* sequence of the newest event
    unsent, \* events logged and not broadcast
    read    \* sequence of the last event the client holds

vars == <<head, unsent, read>>

Init == head \in Nat /\ unsent = {} /\ read = 0

Publish ==
    /\ head' = head + 1
    /\ unsent' \in {unsent, unsent \cup {head + 1}}
    /\ UNCHANGED read

Deliver ==
    /\ \E s \in (read + 1)..head : /\ (read + 1)..(s - 1) \subseteq unsent
                                   /\ read' = s
    /\ UNCHANGED <<head, unsent>>

Next == Publish \/ Deliver

Spec == Init /\ [][Next]_vars
=============================================================================
