--------------------------- MODULE MCTrackerServer ---------------------------
(* The rows of a small instance: edits before, after and at the same         *)
(* distance from a save, saves at one moment in two projects, rows of two    *)
(* machines in one batch, and a row whose time is no number.                 *)
EXTENDS TrackerServer

Row(time, machine, source, project, entity, actor, language, tokens) ==
    [time |-> time, machine |-> machine, source |-> source, project |-> project,
     entity |-> entity, type |-> "file", write |-> TRUE, actor |-> actor,
     language |-> language, tokens |-> tokens]

MCBatches ==
    LET save == Row(2, "m1", "editor-files", "p1", "e1", "human", "rust", 0)
        before == Row(0, "m1", "claude-code", "p1", "e1", "agent", None, 2)
        after == Row(4, "m1", "codex-cli", "p1", "e1", "agent", "rust", 1)
        other == Row(2, "m1", "editor-files", "p2", "e2", "human", None, 0)
        later == Row(7, "m1", "editor-files", "p2", "e1", "human", "unknown", 0)
        theirs == Row(3, "m2", "editor-files", "p1", "e1", "human", "rust", 0)
        nobodys == Row(3, None, "editor-files", "p1", "e1", "human", "rust", 0)
        bad == Row(None, "m1", "editor-files", "p1", "e1", "human", "rust", 0)
    IN  {<<save>>, <<before>>, <<bad, after>>, <<other, later>>, <<other>>, <<save, theirs>>,
         <<nobodys>>}

MCItems ==
    {[time |-> 5, project |-> None, alternate_project |-> "p2", entity |-> "e1",
      category |-> "ai coding", write |-> TRUE]}
=============================================================================
