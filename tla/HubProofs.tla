----------------------------- MODULE HubProofs -----------------------------
(***************************************************************************)
(* Proofs about HubStore, for every set of ids, and about ClientFeed, the   *)
(* stream of its log, for every capacity and number of faults.             *)
(***************************************************************************)
EXTENDS HubStore, ClientFeed, SequenceTheorems, TLAPS

(***************************************************************************)
(* What a step can do to the log: nothing, append a command's event with   *)
(* its receipt, or append a node event.                                    *)
(***************************************************************************)
CommandAppend(c, draft) ==
    /\ receipts[c] = None
    /\ events' = events \cup {Stamp(next_sequence, MintedFor(c), c, draft)}
    /\ receipts' = [receipts EXCEPT ![c] = [sequence |-> next_sequence,
                                            event_id |-> MintedFor(c)]]

NodeAppend(e, draft) ==
    /\ \A row \in events : row.event_id # e
    /\ events' = events \cup {Stamp(next_sequence, e, None, draft)}
    /\ receipts' = receipts

LogStep ==
    \/ UNCHANGED <<events, receipts>>
    \/ \E c \in Command, draft \in EventDraft : CommandAppend(c, draft)
    \/ \E e \in NodeEvent, draft \in EventDraft : NodeAppend(e, draft)

\* The conjunct ReceiptsMatchLog needs to be inductive: an id tells which path
\* its event took into the log.
IdsByOrigin ==
    \A e \in events : IF e.command_id = None THEN e.event_id \in NodeEvent
                      ELSE e.event_id = e.command_id

LogInv == /\ head_sequence \in Nat
          /\ Gapless
          /\ ReceiptsMatchLog
          /\ IdsByOrigin

-----------------------------------------------------------------------------
\* An empty log has no sequences, and a non-empty one has some.
LEMMA EmptyLog == (events = {}) <=> (SequencesOf(events) = {})
  BY DEF SequencesOf

\* MAX(sequence) of a gapless log is its length.
LEMMA MaxOfInterval ==
  ASSUME NEW n \in Nat, n # 0
  PROVE  Max(1..n) = n
  <1>1. n \in 1..n /\ \A y \in 1..n : n >= y
    OBVIOUS
  <1>2. \A x \in 1..n : (\A y \in 1..n : x >= y) => x = n
    BY <1>1
  <1> QED BY <1>1, <1>2 DEF Max

\* The sequence an append takes is one past the head.
LEMMA NextIsHeadPlusOne == next_sequence = head_sequence + 1
  BY DEF next_sequence, head_sequence

\* Appending one row with the next sequence keeps the log gapless.
LEMMA AppendKeepsGapless ==
  ASSUME head_sequence \in Nat, Gapless,
         NEW row, row.sequence = next_sequence,
         events' = events \cup {row}
  PROVE  /\ (head_sequence \in Nat)'
         /\ Gapless'
  <1> DEFINE h == head_sequence
  <1>1. next_sequence = h + 1 /\ SequencesOf(events) = 1..h
    BY NextIsHeadPlusOne DEF Gapless
  <1>2. SequencesOf(events') = SequencesOf(events) \cup {row.sequence}
    BY DEF SequencesOf
  <1>3. SequencesOf(events') = 1..(h + 1)
    <2>1. \A m \in Nat : (1..m) \cup {m + 1} = 1..(m + 1)
      OBVIOUS
    <2> QED BY <1>1, <1>2, <2>1
  <1>4. head_sequence' = h + 1
    <2>1. events' # {}
      OBVIOUS
    <2>2. head_sequence' = Max(SequencesOf(events'))
      BY <2>1 DEF head_sequence, SequencesOf
    <2> QED BY <2>2, <1>3, MaxOfInterval
  <1>5. \A e \in events : e.sequence # row.sequence
    <2> SUFFICES ASSUME NEW e \in events, e.sequence = row.sequence PROVE FALSE
      OBVIOUS
    <2>1. e.sequence \in 1..h
      BY <1>1 DEF SequencesOf
    <2> QED BY <2>1, <1>1
  <1>6. \A e, f \in events' : e.sequence = f.sequence => e = f
    BY <1>5 DEF Gapless
  <1> QED BY <1>3, <1>4, <1>6 DEF Gapless, SequencesOf

-----------------------------------------------------------------------------
\* A stamped draft is a row of the events table.
LEMMA StampType ==
  ASSUME NEW s \in Nat \ {0}, NEW id \in EventId, NEW c \in Command \cup {None},
         NEW draft \in EventDraft
  PROVE  Stamp(s, id, c, draft) \in Event
  BY DEF Stamp, Event, EventDraft

\* Typed arguments make append_command_bundle a typed step of the log.
LEMMA BundleStep ==
  ASSUME TypeOK, head_sequence \in Nat,
         NEW c \in Command, NEW draft \in EventDraft, NEW entity, NEW dispatch,
         entity = "task" => draft.task_id \in Task,
         entity = "run" => draft.task_id \in Task /\ draft.run_id \in Run,
         dispatch # None => /\ dispatch.node_id \in Node
                            /\ dispatch.work \in WorkKind
                            /\ dispatch.run_id \in Run,
         append_command_bundle(c, draft, entity, dispatch)
  PROVE  TypeOK' /\ LogStep
  <1>1. CASE UNCHANGED storeVars
    BY <1>1 DEF TypeOK, LogStep, storeVars
  <1>2. CASE receipts[c] = None /\ ~(UNCHANGED storeVars)
    <2>1. next_sequence \in Nat \ {0}
      BY NextIsHeadPlusOne
    <2>2. CommandAppend(c, draft) /\ LogStep
      BY <1>2 DEF append_command_bundle, CommitBundle, CommandAppend, LogStep
    <2>3. events' \in SUBSET Event
      <3>1. Stamp(next_sequence, MintedFor(c), c, draft) \in Event
        BY <2>1, StampType DEF MintedFor, EventId
      <3> QED BY <2>2, <3>1 DEF CommandAppend, TypeOK
    <2>4. receipts' \in [Command -> Receipt \cup {None}]
      BY <2>1, <2>2 DEF CommandAppend, TypeOK, Receipt, MintedFor, EventId
    <2>5. tasks' \in [Task -> TaskStatus \cup {None}]
      BY <1>2 DEF append_command_bundle, CommitBundle, TypeOK, insert_task_row, SetTaskStatus,
                  TaskStatus
    <2>6. runs' \in [Run -> RunRow \cup {None}]
      BY <1>2 DEF append_command_bundle, CommitBundle, TypeOK, insert_run_row, RunRow, RunStatus,
                  EventDraft
    <2>7. dispatches' \in Seq(Dispatch)
      <3>1. CASE dispatch = None
        BY <1>2, <3>1 DEF append_command_bundle, CommitBundle, TypeOK, EnqueueDispatch
      <3>2. CASE dispatch # None
        <4> DEFINE d == [command_id |-> c, node_id |-> dispatch.node_id,
                         work |-> dispatch.work, run_id |-> dispatch.run_id,
                         acked |-> FALSE]
        <4>1. d \in Dispatch
          BY <3>2 DEF Dispatch
        <4>2. dispatches' = Append(dispatches, d)
          BY <1>2, <3>2 DEF append_command_bundle, CommitBundle, EnqueueDispatch
        <4>3. dispatches \in Seq(Dispatch)
          BY DEF TypeOK
        <4> HIDE DEF d
        <4> QED BY <4>1, <4>2, <4>3
      <3> QED BY <3>1, <3>2
    <2> QED
      BY <1>2, <2>2, <2>3, <2>4, <2>5, <2>6, <2>7 DEF append_command_bundle, CommitBundle, TypeOK
  <1> QED BY <1>1, <1>2 DEF append_command_bundle, CommitBundle

\* The same for append_node_event.
LEMMA NodeEventStep ==
  ASSUME TypeOK, head_sequence \in Nat,
         NEW e \in NodeEvent, NEW draft \in EventDraft,
         append_node_event(e, draft)
  PROVE  TypeOK' /\ LogStep
  <1>1. CASE UNCHANGED storeVars
    BY <1>1 DEF TypeOK, LogStep, storeVars
  <1>2. CASE ~(UNCHANGED storeVars)
    <2>1. next_sequence \in Nat \ {0}
      BY NextIsHeadPlusOne
    <2>2. NodeAppend(e, draft) /\ LogStep
      BY <1>2 DEF append_node_event, NodeAppend, LogStep
    <2>3. events' \in SUBSET Event
      <3>1. Stamp(next_sequence, e, None, draft) \in Event
        BY <2>1, StampType DEF EventId
      <3> QED BY <2>2, <3>1 DEF NodeAppend, TypeOK
    <2>4. apply_terminal_lifecycle_and_wake(e, draft)
      BY <1>2 DEF append_node_event
    <2>5. CASE draft.kind \in TerminalKind /\ draft.run_id # None
      <3>1. draft.run_id \in Run /\ StatusOf(draft.kind) \in RunStatus \cap TaskStatus
        BY <2>5 DEF EventDraft, StatusOf, TerminalKind, RunStatus, TaskStatus
      <3>2. runs' \in [Run -> RunRow \cup {None}]
        BY <2>4, <2>5, <3>1 DEF apply_terminal_lifecycle_and_wake, TypeOK, RunRow
      <3>3. tasks' \in [Task -> TaskStatus \cup {None}]
        BY <2>4, <2>5, <3>1 DEF apply_terminal_lifecycle_and_wake, TypeOK, SetTaskStatus
      <3>4. wakes' \in [NodeEvent -> Wake \cup {None}]
        <4>1. CASE wakes' = wakes
          BY <4>1 DEF TypeOK
        <4>2. CASE wakes' # wakes
          <5>1. /\ draft.kind \in {"run.completed", "run.failed"}
                /\ workers[draft.task_id] \in Channel
            BY <2>4, <2>5, <4>2 DEF apply_terminal_lifecycle_and_wake, TypeOK,
                                    TerminalKind
          <5> DEFINE w == [sequence |-> next_sequence,
                           channel |-> workers[draft.task_id],
                           run_id |-> draft.run_id, kind |-> draft.kind,
                           attempt_count |-> 0, state |-> "due"]
          <5>2. w \in Wake
            BY <2>1, <3>1, <5>1 DEF Wake
          <5>3. wakes' = [wakes EXCEPT ![e] = w]
            BY <2>4, <2>5, <4>2 DEF apply_terminal_lifecycle_and_wake
          <5> QED BY <5>2, <5>3 DEF TypeOK
        <4> QED BY <4>1, <4>2
      <3> QED
        BY <1>2, <2>2, <2>3, <3>2, <3>3, <3>4 DEF append_node_event, TypeOK
    <2>6. CASE ~(draft.kind \in TerminalKind /\ draft.run_id # None)
      <3>1. UNCHANGED <<runs, tasks, wakes>>
        BY <2>4, <2>6 DEF apply_terminal_lifecycle_and_wake
      <3> QED BY <1>2, <2>2, <2>3, <3>1 DEF append_node_event, TypeOK
    <2> QED BY <2>2, <2>5, <2>6
  <1> QED BY <1>1, <1>2

\* Updating a wake's attempts and state leaves a wake.
LEMMA WakeUpdate ==
  ASSUME NEW w \in Wake, NEW n \in Nat, NEW s \in {"due", "deferred", "processed"}
  PROVE  /\ [w EXCEPT !.attempt_count = n, !.state = s] \in Wake
         /\ [w EXCEPT !.state = s] \in Wake
  BY DEF Wake

-----------------------------------------------------------------------------
\* Every step of the store keeps the types and does one of the three things a
\* step can do to the log.
LEMMA StoreStep ==
  ASSUME TypeOK, head_sequence \in Nat, [Next]_storeVars
  PROVE  TypeOK' /\ LogStep
  <1> USE ConstantsAssumption
  <1>0. /\ HubNode \in Node
        /\ {"task.created", "run.started", "message.user", "approval.resolved",
            "message.assistant.completed", "node.connected", "node.disconnected"}
           \cup TerminalKind \subseteq EventKind
        /\ "run.interrupted" \in EventKind
        /\ {"start_run", "send_prompt", "interrupt_run"} \subseteq WorkKind
    BY DEF EventKind, TerminalKind, WorkKind
  <1>1. ASSUME NEW c \in Command, NEW t \in Task, CreateTask(c, t)
        PROVE  TypeOK' /\ LogStep
    <2> DEFINE d == Draft("task.created", t, None, HubNode)
    <2>1. d \in EventDraft /\ d.task_id \in Task
      BY <1>0 DEF Draft, EventDraft
    <2>2. append_command_bundle(c, d, "task", None)
      BY <1>1 DEF CreateTask
    <2> HIDE DEF d
    <2> QED BY <2>1, <2>2, BundleStep
  <1>2. ASSUME NEW c \in Command, NEW t \in Task, NEW r \in Run, NEW n \in Node,
               StartRun(c, t, r, n)
        PROVE  TypeOK' /\ LogStep
    <2> DEFINE d == Draft("run.started", t, r, n)
               w == [node_id |-> n, work |-> "start_run", run_id |-> r]
    <2>1. d \in EventDraft /\ d.task_id \in Task /\ d.run_id \in Run
      BY <1>0 DEF Draft, EventDraft
    <2>2. w.node_id \in Node /\ w.work \in WorkKind /\ w.run_id \in Run
      BY <1>0
    <2>3. append_command_bundle(c, d, "run", w)
      BY <1>2 DEF StartRun
    <2> HIDE DEF d, w
    <2> QED BY <2>1, <2>2, <2>3, BundleStep
  <1>3. ASSUME NEW c \in Command, NEW t \in Task, NEW r \in Run,
               start_hub_assistant_run(c, t, r)
        PROVE  TypeOK' /\ LogStep
    <2> DEFINE d == Draft("run.started", t, r, HubNode)
    <2>1. d \in EventDraft /\ d.task_id \in Task /\ d.run_id \in Run
      BY <1>0 DEF Draft, EventDraft
    <2>2. append_command_bundle(c, d, "run", None)
      BY <1>3 DEF start_hub_assistant_run
    <2> HIDE DEF d
    <2> QED BY <2>1, <2>2, BundleStep
  <1>4. ASSUME NEW c \in Command, NEW t \in Task, NEW r \in Run \cup {None},
               SendUserMessage(c, t, r)
        PROVE  TypeOK' /\ LogStep
    <2>1. PICK n \in OwnerOf(t, r) \ {HubNode} :
              append_command_bundle(c,
                  Draft("message.user", t, r, IF n = None THEN HubNode ELSE n), "none",
                  IF n = None \/ r = None THEN None
                  ELSE [node_id |-> n, work |-> "send_prompt", run_id |-> r])
      BY <1>4 DEF SendUserMessage
    <2>2. n \in Node \cup {None}
      BY DEF OwnerOf, TypeOK, RunRow
    <2> DEFINE d == Draft("message.user", t, r, IF n = None THEN HubNode ELSE n)
               w == IF n = None \/ r = None THEN None
                    ELSE [node_id |-> n, work |-> "send_prompt", run_id |-> r]
    <2>3. d \in EventDraft
      BY <1>0, <2>2 DEF Draft, EventDraft
    <2>4. w # None => w.node_id \in Node /\ w.work \in WorkKind /\ w.run_id \in Run
      BY <1>0, <2>2
    <2>5. append_command_bundle(c, d, "none", w)
      BY <2>1
    <2> HIDE DEF d, w
    <2> QED BY <2>3, <2>4, <2>5, BundleStep
  <1>5. ASSUME NEW c \in Command, NEW r \in Run, append_hub_assistant_message(c, r)
        PROVE  TypeOK' /\ LogStep
    <2> DEFINE d == Draft("message.user", runs[r].task_id, r, HubNode)
    <2>1. d \in EventDraft
      BY <1>0, <1>5 DEF append_hub_assistant_message, Draft, EventDraft, TypeOK, RunRow
    <2>2. append_command_bundle(c, d, "none", None)
      BY <1>5 DEF append_hub_assistant_message
    <2> HIDE DEF d
    <2> QED BY <2>1, <2>2, BundleStep
  <1>6. ASSUME NEW c \in Command, NEW r \in Run, InterruptRun(c, r)
        PROVE  TypeOK' /\ LogStep
    <2>1. CASE runs[r] # None
      <3> DEFINE d == Draft("run.interrupted", runs[r].task_id, r, runs[r].node_id)
                 w == [node_id |-> runs[r].node_id, work |-> "interrupt_run",
                       run_id |-> r]
      <3>1. runs[r] \in RunRow
        BY <2>1 DEF TypeOK
      <3>2. d \in EventDraft
        BY <1>0, <3>1 DEF Draft, EventDraft, RunRow
      <3>3. w.node_id \in Node /\ w.work \in WorkKind /\ w.run_id \in Run
        BY <1>0, <3>1 DEF RunRow
      <3>4. append_command_bundle(c, d, "none", w)
        BY <1>6, <2>1 DEF InterruptRun
      <3> HIDE DEF d, w
      <3> QED BY <3>2, <3>3, <3>4, BundleStep
    <2>2. CASE runs[r] = None
      <3> DEFINE d == Draft("run.interrupted", SystemTask, r, HubNode)
      <3>1. d \in EventDraft
        BY <1>0 DEF Draft, EventDraft
      <3>2. append_command_bundle(c, d, "none", None)
        BY <1>6, <2>2 DEF InterruptRun
      <3> HIDE DEF d
      <3> QED BY <3>1, <3>2, BundleStep
    <2> QED BY <2>1, <2>2
  <1>7. ASSUME NEW c \in Command, NEW a \in Approval, LogApprovalResolved(c, a)
        PROVE  TypeOK' /\ LogStep
    <2> DEFINE d == Draft("approval.resolved", approvals[a].task_id,
                          approvals[a].run_id, HubNode)
    <2>1. d \in EventDraft
      BY <1>0, <1>7 DEF LogApprovalResolved, Draft, EventDraft, TypeOK, ApprovalRow
    <2>2. append_command_bundle(c, d, "none", None)
      BY <1>7 DEF LogApprovalResolved
    <2> HIDE DEF d
    <2> QED BY <2>1, <2>2, BundleStep
  <1>8. ASSUME NEW e \in NodeEvent, NEW r \in Run,
               NEW kind \in TerminalKind \cup {"message.assistant.completed"},
               RunEvent(e, r, kind)
        PROVE  TypeOK' /\ LogStep
    <2> DEFINE d == Draft(kind, runs[r].task_id, r, runs[r].node_id)
    <2>1. d \in EventDraft
      BY <1>0, <1>8 DEF RunEvent, Draft, EventDraft, TypeOK, RunRow
    <2>2. append_node_event(e, d)
      BY <1>8 DEF RunEvent
    <2> HIDE DEF d
    <2> QED BY <2>1, <2>2, NodeEventStep
  <1>9. ASSUME NEW e \in NodeEvent, NEW n \in Node \ {HubNode},
               NEW kind \in {"node.connected", "node.disconnected"},
               NodeLifecycleEvent(e, n, kind)
        PROVE  TypeOK' /\ LogStep
    <2> DEFINE d == Draft(kind, SystemTask, None, n)
    <2>1. d \in EventDraft
      BY <1>0 DEF Draft, EventDraft
    <2>2. append_node_event(e, d)
      BY <1>9 DEF NodeLifecycleEvent
    <2> HIDE DEF d
    <2> QED BY <2>1, <2>2, NodeEventStep
  <1>10. ASSUME NEW c \in Command, NEW n \in Node, acknowledge_dispatch_from(c, n)
         PROVE  TypeOK' /\ LogStep
    <2>1. dispatches' \in Seq(Dispatch)
      <3>1. \A i \in DOMAIN dispatches : dispatches[i] \in Dispatch
        BY DEF TypeOK
      <3>2. \A i \in DOMAIN dispatches : dispatches'[i] \in Dispatch
        BY <1>10, <3>1 DEF acknowledge_dispatch_from, Dispatch
      <3>3. Len(dispatches) \in Nat /\ DOMAIN dispatches = 1..Len(dispatches)
        BY DEF TypeOK
      <3>4. dispatches' = [i \in 1..Len(dispatches) |-> dispatches'[i]]
        BY <1>10, <3>3 DEF acknowledge_dispatch_from
      <3> QED BY <3>2, <3>3, <3>4
    <2> QED BY <1>10, <2>1 DEF acknowledge_dispatch_from, TypeOK, LogStep
  <1>11. ASSUME NEW ch \in Channel, NEW t \in Task, register_assistant_worker(ch, t)
         PROVE  TypeOK' /\ LogStep
    BY <1>11 DEF register_assistant_worker, TypeOK, LogStep
  <1>12. ASSUME NEW e \in NodeEvent, complete_assistant_wake(e)
         PROVE  TypeOK' /\ LogStep
    <2>1. CASE wakes' = wakes
      BY <1>12, <2>1 DEF complete_assistant_wake, TypeOK, LogStep
    <2>2. CASE wakes' # wakes
      <3>1. wakes[e] \in Wake
        BY <1>12, <2>2 DEF complete_assistant_wake, TypeOK
      <3>2. wakes' = [wakes EXCEPT ![e] = [wakes[e] EXCEPT !.state = "processed"]]
        BY <1>12, <2>2 DEF complete_assistant_wake
      <3>3. wakes' \in [NodeEvent -> Wake \cup {None}]
        BY <3>1, <3>2, WakeUpdate DEF TypeOK
      <3> QED BY <1>12, <3>3 DEF complete_assistant_wake, TypeOK, LogStep
    <2> QED BY <2>1, <2>2
  <1>13. ASSUME NEW e \in NodeEvent, defer_assistant_wake(e)
         PROVE  TypeOK' /\ LogStep
    <2>1. CASE wakes' = wakes
      BY <1>13, <2>1 DEF defer_assistant_wake, TypeOK, LogStep
    <2>2. CASE wakes' # wakes
      <3>1. wakes[e] \in Wake
        BY <1>13, <2>2 DEF defer_assistant_wake, TypeOK
      <3>2. wakes[e].attempt_count + 1 \in Nat
        BY <3>1 DEF Wake
      <3>3. wakes' = [wakes EXCEPT ![e] =
                         [wakes[e] EXCEPT !.attempt_count = wakes[e].attempt_count + 1,
                                          !.state = "deferred"]]
        BY <1>13, <2>2 DEF defer_assistant_wake, TypeOK
      <3>4. wakes' \in [NodeEvent -> Wake \cup {None}]
        BY <3>1, <3>2, <3>3, WakeUpdate DEF TypeOK
      <3> QED BY <1>13, <3>4 DEF defer_assistant_wake, TypeOK, LogStep
    <2> QED BY <2>1, <2>2
  <1>14. ASSUME NEW e \in NodeEvent, WakeBecomesDue(e)
         PROVE  TypeOK' /\ LogStep
    <2>1. wakes[e] \in Wake
      BY <1>14 DEF WakeBecomesDue, TypeOK
    <2>2. wakes' = [wakes EXCEPT ![e] = [wakes[e] EXCEPT !.state = "due"]]
      BY <1>14 DEF WakeBecomesDue
    <2>3. wakes' \in [NodeEvent -> Wake \cup {None}]
      BY <2>1, <2>2, WakeUpdate DEF TypeOK
    <2> QED BY <1>14, <2>3 DEF WakeBecomesDue, TypeOK, LogStep
  <1>15. ASSUME NEW a \in Approval, NEW r \in Run, runs[r] # None,
                request_approval(a, r, runs[r].task_id)
         PROVE  TypeOK' /\ LogStep
    BY <1>15 DEF request_approval, TypeOK, LogStep, RunRow, ApprovalRow, Decision
  <1>16. ASSUME NEW a \in Approval, NEW d \in Decision, NEW actor \in Actor,
                resolve_approval(a, d, actor)
         PROVE  TypeOK' /\ LogStep
    <2>1. approvals[a] \in ApprovalRow
      BY <1>16 DEF resolve_approval, TypeOK
    <2> DEFINE row == [approvals[a] EXCEPT !.decision = d, !.resolved_by = actor]
    <2>2. row \in ApprovalRow
      BY <2>1 DEF ApprovalRow
    <2>3. approvals' \in {approvals, [approvals EXCEPT ![a] = row]}
      BY <1>16 DEF resolve_approval, TypeOK
    <2> HIDE DEF row
    <2>4. approvals' \in [Approval -> ApprovalRow \cup {None}]
      BY <2>2, <2>3 DEF TypeOK
    <2> QED BY <1>16, <2>4 DEF resolve_approval, TypeOK, LogStep
  <1>17. ASSUME NEW n \in Node, NEW status \in {"connected", "disconnected"},
                upsert_node(n, status)
         PROVE  TypeOK' /\ LogStep
    BY <1>17 DEF upsert_node, TypeOK, LogStep
  <1>18. CASE UNCHANGED storeVars
    BY <1>18 DEF storeVars, TypeOK, LogStep
  <1> QED
    BY <1>1, <1>2, <1>3, <1>4, <1>5, <1>6, <1>7, <1>8, <1>9, <1>10, <1>11, <1>12,
       <1>13, <1>14, <1>15, <1>16, <1>17, <1>18 DEF Next

-----------------------------------------------------------------------------
\* A step on the log preserves the log's invariant.
LEMMA LogInvStep ==
  ASSUME TypeOK, LogInv, LogStep
  PROVE  LogInv'
  <1> USE ConstantsAssumption
  <1>1. CASE UNCHANGED <<events, receipts>>
    BY <1>1 DEF LogInv, Gapless, ReceiptsMatchLog, IdsByOrigin, head_sequence,
                SequencesOf
  <1>2. ASSUME NEW c \in Command, NEW draft \in EventDraft, CommandAppend(c, draft)
        PROVE  LogInv'
    <2> DEFINE row == Stamp(next_sequence, MintedFor(c), c, draft)
    <2>1. /\ row.sequence = next_sequence
          /\ row.event_id = c
          /\ row.command_id = c
      BY DEF Stamp, MintedFor
    <2>2. /\ receipts[c] = None
          /\ events' = events \cup {row}
          /\ receipts' = [receipts EXCEPT ![c] = [sequence |-> next_sequence,
                                                  event_id |-> c]]
      BY <1>2 DEF CommandAppend, MintedFor
    <2> HIDE DEF row
    <2>3. (head_sequence \in Nat)' /\ Gapless'
      BY <2>1, <2>2, AppendKeepsGapless DEF LogInv
    <2>4. \A e \in events : e.command_id # c /\ e.event_id # c
      <3> SUFFICES ASSUME NEW e \in events PROVE e.command_id # c /\ e.event_id # c
        OBVIOUS
      <3>1. e.command_id # c
        BY <2>2 DEF LogInv, ReceiptsMatchLog
      <3>2. e.command_id = None => e.event_id \in NodeEvent
        BY DEF LogInv, IdsByOrigin
      <3>3. e.command_id # None => e.event_id = e.command_id
        BY DEF LogInv, IdsByOrigin
      <3> QED BY <3>1, <3>2, <3>3
    <2>5. IdsByOrigin'
      BY <2>1, <2>2 DEF IdsByOrigin, LogInv
    <2>6. receipts'[c] = [sequence |-> next_sequence, event_id |-> c]
      BY <2>2 DEF TypeOK
    <2>7. receipts'[c] # None
      <3>1. [sequence |-> next_sequence, event_id |-> c] \in Receipt
        BY NextIsHeadPlusOne DEF Receipt, EventId, LogInv
      <3> QED BY <2>6, <3>1, NoneAssumption
    <2>8. \A b \in Command : b # c => receipts'[b] = receipts[b]
      BY <2>2 DEF TypeOK
    <2>9. \A b \in Command : receipts'[b] # None
                             <=> \E e \in events' : e.command_id = b
      BY <2>1, <2>2, <2>4, <2>7, <2>8 DEF LogInv, ReceiptsMatchLog
    <2>10. \A e \in events' : e.command_id # None =>
               receipts'[e.command_id] = [sequence |-> e.sequence,
                                          event_id |-> e.event_id]
      <3> SUFFICES ASSUME NEW e \in events', e.command_id # None
                   PROVE  receipts'[e.command_id] = [sequence |-> e.sequence,
                                                     event_id |-> e.event_id]
        OBVIOUS
      <3>1. CASE e = row
        BY <2>1, <2>6, <3>1
      <3>2. CASE e \in events
        <4>1. e.command_id \in Command /\ e.command_id # c
          BY <2>4, <3>2 DEF TypeOK, Event
        <4> QED BY <2>8, <3>2, <4>1 DEF LogInv, ReceiptsMatchLog
      <3> QED BY <2>2, <3>1, <3>2
    <2>11. \A e, f \in events' : e.event_id = f.event_id => e = f
      BY <2>1, <2>2, <2>4 DEF LogInv, ReceiptsMatchLog
    <2> QED BY <2>3, <2>5, <2>9, <2>10, <2>11 DEF LogInv, ReceiptsMatchLog
  <1>3. ASSUME NEW x \in NodeEvent, NEW draft \in EventDraft, NodeAppend(x, draft)
        PROVE  LogInv'
    <2> DEFINE row == Stamp(next_sequence, x, None, draft)
    <2>1. /\ row.sequence = next_sequence
          /\ row.event_id = x
          /\ row.command_id = None
      BY DEF Stamp
    <2>2. /\ \A e \in events : e.event_id # x
          /\ events' = events \cup {row}
          /\ receipts' = receipts
      BY <1>3 DEF NodeAppend
    <2> HIDE DEF row
    <2>3. (head_sequence \in Nat)' /\ Gapless'
      BY <2>1, <2>2, AppendKeepsGapless DEF LogInv
    <2>4. IdsByOrigin'
      BY <2>1, <2>2 DEF IdsByOrigin, LogInv
    <2>5. ReceiptsMatchLog'
      BY <2>1, <2>2 DEF LogInv, ReceiptsMatchLog
    <2> QED BY <2>3, <2>4, <2>5 DEF LogInv
  <1> QED BY <1>1, <1>2, <1>3 DEF LogStep

StoreInv == TypeOK /\ LogInv

\* The initial database satisfies the invariant.
LEMMA StoreInvInit == Init => StoreInv
  <1> SUFFICES ASSUME Init PROVE StoreInv
    OBVIOUS
  <1>1. TypeOK
    <2>1. <<>> \in Seq(Dispatch)
      OBVIOUS
    <2> QED BY <2>1 DEF Init, TypeOK
  <1>2. LogInv
    BY DEF Init, LogInv, Gapless, ReceiptsMatchLog, IdsByOrigin, head_sequence,
           SequencesOf
  <1> QED BY <1>1, <1>2 DEF StoreInv

\* Every reachable database is well typed, its log is gapless, and its receipts
\* name the events of their commands.
THEOREM StoreInvariant == Spec => []StoreInv
  <1>1. StoreInv /\ [Next]_storeVars => StoreInv'
    <2> SUFFICES ASSUME StoreInv, [Next]_storeVars PROVE StoreInv'
      OBVIOUS
    <2>1. TypeOK' /\ LogStep
      BY StoreStep DEF StoreInv, LogInv
    <2>2. LogInv'
      BY <2>1, LogInvStep DEF StoreInv
    <2> QED BY <2>1, <2>2 DEF StoreInv
  <1> QED BY <1>1, StoreInvInit, PTL DEF Spec

\* The tables of HubStore keep their types.
THEOREM TypeCorrect == Spec => []TypeOK
  BY StoreInvariant, PTL DEF StoreInv

\* The event log's sequences are 1..n without a gap or a repetition, whatever
\* mix of commands, retries and node events is applied.
THEOREM LogIsGapless == Spec => []Gapless
  BY StoreInvariant, PTL DEF StoreInv, LogInv

\* Receipts and log agree: a command has at most one event, and its receipt
\* always names it.
THEOREM ReceiptsAreExact == Spec => []ReceiptsMatchLog
  BY StoreInvariant, PTL DEF StoreInv, LogInv

-----------------------------------------------------------------------------
(* The tables and the log.  A step commits a bundle, reports an event of a *)
(* node, or leaves log, receipts, runs and tasks alone.                    *)

\* What the hub puts into a bundle: a row is inserted by the event that announces it,
\* for an id nothing has named yet, and a start_run goes to the run's own node.
Announces(draft, entity, dispatch) ==
    /\ \/ /\ entity = "task" /\ draft.kind = "task.created" /\ draft.run_id = None
          /\ draft.task_id \in Task /\ FreshTask(draft.task_id)
       \/ /\ entity = "run" /\ draft.kind = "run.started"
          /\ draft.task_id \in Task /\ draft.run_id \in Run /\ FreshRun(draft.run_id)
       \/ entity = "none" /\ draft.kind \notin {"task.created", "run.started"}
    /\ \/ dispatch = None
       \/ /\ dispatch \in NodeWork
          /\ dispatch.work = "start_run" =>
                 /\ entity = "run"
                 /\ dispatch.run_id = draft.run_id /\ dispatch.node_id = draft.node_id

Commits(c, draft, entity, dispatch) ==
    /\ receipts[c] = None
    /\ CommitBundle(c, draft, entity, dispatch)
    /\ Announces(draft, entity, dispatch)

\* An event a node reports is of a run the hub knows, and announces none.
Reports(e, draft) ==
    /\ \A row \in events : row.event_id # e
    /\ events' = events \cup {Stamp(next_sequence, e, None, draft)}
    /\ apply_terminal_lifecycle_and_wake(e, draft)
    /\ UNCHANGED <<receipts, dispatches, workers, approvals, nodeRows>>
    /\ draft.kind \notin {"task.created", "run.started"}
    /\ draft.kind \in TerminalKind => draft.run_id \in Run /\ runs[draft.run_id] # None

\* Other steps may acknowledge a dispatch, retry or finish a wake, or decide an
\* approval, none of which is undone.
Updates ==
    /\ UNCHANGED <<events, receipts, runs, tasks>>
    /\ DOMAIN dispatches' = DOMAIN dispatches
    /\ \A i \in DOMAIN dispatches :
           /\ dispatches'[i].command_id = dispatches[i].command_id
           /\ dispatches'[i].work = dispatches[i].work
           /\ dispatches'[i].run_id = dispatches[i].run_id
           /\ dispatches'[i].node_id = dispatches[i].node_id
           /\ dispatches[i].acked => dispatches'[i] = dispatches[i]
    /\ \A e \in NodeEvent :
           /\ wakes'[e] = None <=> wakes[e] = None
           /\ wakes[e] # None => /\ wakes'[e].sequence = wakes[e].sequence
                                 /\ wakes'[e].kind = wakes[e].kind
                                 /\ wakes'[e].run_id = wakes[e].run_id
                                 /\ wakes[e].state = "processed" => wakes'[e] = wakes[e]
    /\ \A a \in Approval : approvals[a] # None /\ approvals[a].decision # "pending" =>
           approvals'[a] = approvals[a]

RowStep ==
    \/ \E c \in Command, draft \in EventDraft, entity \in {"task", "run", "none"},
          dispatch \in NodeWork \cup {None} : Commits(c, draft, entity, dispatch)
    \/ \E e \in NodeEvent, draft \in EventDraft : Reports(e, draft)
    \/ Updates

LEMMA SameIsUpdate == UNCHANGED storeVars => Updates
  BY DEF storeVars, Updates

\* A bundle is committed, or the command was a retry.
LEMMA BundleIsRowStep ==
  ASSUME NEW c \in Command, NEW draft \in EventDraft, NEW entity \in {"task", "run", "none"},
         NEW dispatch \in NodeWork \cup {None}, Announces(draft, entity, dispatch),
         append_command_bundle(c, draft, entity, dispatch)
  PROVE  RowStep
  <1>1. CASE UNCHANGED storeVars
    BY <1>1, SameIsUpdate DEF RowStep
  <1>2. CASE Commits(c, draft, entity, dispatch)
    BY <1>2 DEF RowStep
  <1> QED BY <1>1, <1>2 DEF append_command_bundle, Commits

LEMMA NodeEventIsRowStep ==
  ASSUME NEW e \in NodeEvent, NEW draft \in EventDraft, append_node_event(e, draft),
         draft.kind \notin {"task.created", "run.started"},
         draft.kind \in TerminalKind => draft.run_id \in Run /\ runs[draft.run_id] # None
  PROVE  RowStep
  <1>1. CASE UNCHANGED storeVars
    BY <1>1, SameIsUpdate DEF RowStep
  <1>2. CASE Reports(e, draft)
    BY <1>2 DEF RowStep
  <1> QED BY <1>1, <1>2 DEF append_node_event, Reports

\* A wake that is retried, put off or finished keeps what it reports.
LEMMA WakeIsRowStep ==
  ASSUME TypeOK, NEW x \in NodeEvent, NEW w,
         /\ wakes[x] # None /\ wakes[x].state # "processed"
         /\ wakes' = [wakes EXCEPT ![x] = w] /\ w \in Wake
         /\ w.sequence = wakes[x].sequence /\ w.kind = wakes[x].kind /\ w.run_id = wakes[x].run_id,
         UNCHANGED <<events, receipts, runs, tasks, dispatches, approvals>>
  PROVE  RowStep
  <1>1. wakes'[x] = w /\ w # None /\ \A e \in NodeEvent : e # x => wakes'[e] = wakes[e]
    BY NoneAssumption DEF TypeOK
  <1>2. Updates
    BY <1>1 DEF Updates
  <1> QED BY <1>2 DEF RowStep

LEMMA RowSteps ==
  ASSUME TypeOK, [Next]_storeVars
  PROVE  RowStep
  <1> USE ConstantsAssumption
  <1>0. /\ HubNode \in Node
        /\ {"task.created", "run.started", "message.user", "approval.resolved",
            "message.assistant.completed", "node.connected", "node.disconnected"}
           \cup TerminalKind \subseteq EventKind
        /\ "run.interrupted" \in EventKind
        /\ {"start_run", "send_prompt", "interrupt_run"} \subseteq WorkKind
    BY DEF EventKind, TerminalKind, WorkKind
  <1>1. ASSUME NEW c \in Command, NEW t \in Task, CreateTask(c, t) PROVE RowStep
    <2> DEFINE d == Draft("task.created", t, None, HubNode)
    <2>1. d \in EventDraft /\ Announces(d, "task", None)
      BY <1>0, <1>1 DEF Draft, EventDraft, Announces, CreateTask
    <2>2. append_command_bundle(c, d, "task", None)
      BY <1>1 DEF CreateTask
    <2> HIDE DEF d
    <2> QED BY <2>1, <2>2, BundleIsRowStep
  <1>2. ASSUME NEW c \in Command, NEW t \in Task, NEW r \in Run, NEW n \in Node,
               StartRun(c, t, r, n)
        PROVE  RowStep
    <2> DEFINE d == Draft("run.started", t, r, n)
               w == [node_id |-> n, work |-> "start_run", run_id |-> r]
    <2>1. d \in EventDraft /\ w \in NodeWork /\ Announces(d, "run", w)
      BY <1>0, <1>2 DEF Draft, EventDraft, NodeWork, Announces, StartRun
    <2>2. append_command_bundle(c, d, "run", w)
      BY <1>2 DEF StartRun
    <2> HIDE DEF d, w
    <2> QED BY <2>1, <2>2, BundleIsRowStep
  <1>3. ASSUME NEW c \in Command, NEW t \in Task, NEW r \in Run, start_hub_assistant_run(c, t, r)
        PROVE  RowStep
    <2> DEFINE d == Draft("run.started", t, r, HubNode)
    <2>1. d \in EventDraft /\ Announces(d, "run", None)
      BY <1>0, <1>3 DEF Draft, EventDraft, Announces, start_hub_assistant_run
    <2>2. append_command_bundle(c, d, "run", None)
      BY <1>3 DEF start_hub_assistant_run
    <2> HIDE DEF d
    <2> QED BY <2>1, <2>2, BundleIsRowStep
  <1>4. ASSUME NEW c \in Command, NEW t \in Task, NEW r \in Run \cup {None},
               SendUserMessage(c, t, r)
        PROVE  RowStep
    <2>1. PICK n \in OwnerOf(t, r) \ {HubNode} :
              append_command_bundle(c,
                  Draft("message.user", t, r, IF n = None THEN HubNode ELSE n), "none",
                  IF n = None \/ r = None THEN None
                  ELSE [node_id |-> n, work |-> "send_prompt", run_id |-> r])
      BY <1>4 DEF SendUserMessage
    <2>2. n \in Node \cup {None}
      BY DEF OwnerOf, TypeOK, RunRow
    <2> DEFINE d == Draft("message.user", t, r, IF n = None THEN HubNode ELSE n)
               w == IF n = None \/ r = None THEN None
                    ELSE [node_id |-> n, work |-> "send_prompt", run_id |-> r]
    <2>3. d \in EventDraft /\ d.kind = "message.user"
      BY <1>0, <2>2 DEF Draft, EventDraft
    <2>4. w \in NodeWork \cup {None} /\ (w # None => w.work = "send_prompt")
      BY <1>0, <2>2 DEF NodeWork
    <2>5. append_command_bundle(c, d, "none", w)
      BY <2>1
    <2> HIDE DEF d, w
    <2>6. Announces(d, "none", w)
      BY <2>3, <2>4 DEF Announces
    <2> QED BY <2>3, <2>4, <2>5, <2>6, BundleIsRowStep
  <1>5. ASSUME NEW c \in Command, NEW r \in Run, append_hub_assistant_message(c, r)
        PROVE  RowStep
    <2> DEFINE d == Draft("message.user", runs[r].task_id, r, HubNode)
    <2>1. d \in EventDraft /\ Announces(d, "none", None)
      BY <1>0, <1>5 DEF append_hub_assistant_message, Draft, EventDraft, TypeOK, RunRow, Announces
    <2>2. append_command_bundle(c, d, "none", None)
      BY <1>5 DEF append_hub_assistant_message
    <2> HIDE DEF d
    <2> QED BY <2>1, <2>2, BundleIsRowStep
  <1>6. ASSUME NEW c \in Command, NEW r \in Run, InterruptRun(c, r) PROVE RowStep
    <2>1. CASE runs[r] # None
      <3> DEFINE d == Draft("run.interrupted", runs[r].task_id, r, runs[r].node_id)
                 w == [node_id |-> runs[r].node_id, work |-> "interrupt_run", run_id |-> r]
      <3>1. runs[r] \in RunRow
        BY <2>1 DEF TypeOK
      <3>2. d \in EventDraft /\ w \in NodeWork /\ Announces(d, "none", w)
        BY <1>0, <3>1 DEF Draft, EventDraft, RunRow, NodeWork, Announces
      <3>3. append_command_bundle(c, d, "none", w)
        BY <1>6, <2>1 DEF InterruptRun
      <3> HIDE DEF d, w
      <3> QED BY <3>2, <3>3, BundleIsRowStep
    <2>2. CASE runs[r] = None
      <3> DEFINE d == Draft("run.interrupted", SystemTask, r, HubNode)
      <3>1. d \in EventDraft /\ Announces(d, "none", None)
        BY <1>0 DEF Draft, EventDraft, Announces
      <3>2. append_command_bundle(c, d, "none", None)
        BY <1>6, <2>2 DEF InterruptRun
      <3> HIDE DEF d
      <3> QED BY <3>1, <3>2, BundleIsRowStep
    <2> QED BY <2>1, <2>2
  <1>7. ASSUME NEW c \in Command, NEW a \in Approval, LogApprovalResolved(c, a) PROVE RowStep
    <2> DEFINE d == Draft("approval.resolved", approvals[a].task_id,
                          approvals[a].run_id, HubNode)
    <2>1. d \in EventDraft /\ Announces(d, "none", None)
      BY <1>0, <1>7 DEF LogApprovalResolved, Draft, EventDraft, TypeOK, ApprovalRow, Announces
    <2>2. append_command_bundle(c, d, "none", None)
      BY <1>7 DEF LogApprovalResolved
    <2> HIDE DEF d
    <2> QED BY <2>1, <2>2, BundleIsRowStep
  <1>8. ASSUME NEW e \in NodeEvent, NEW r \in Run,
               NEW kind \in TerminalKind \cup {"message.assistant.completed"},
               RunEvent(e, r, kind)
        PROVE  RowStep
    <2> DEFINE d == Draft(kind, runs[r].task_id, r, runs[r].node_id)
    <2>1. d \in EventDraft /\ d.kind \notin {"task.created", "run.started"} /\ d.run_id = r
      BY <1>0, <1>8 DEF RunEvent, Draft, EventDraft, TypeOK, RunRow, TerminalKind
    <2>2. append_node_event(e, d) /\ runs[r] # None
      BY <1>8 DEF RunEvent
    <2> HIDE DEF d
    <2> QED BY <2>1, <2>2, NodeEventIsRowStep
  <1>9. ASSUME NEW e \in NodeEvent, NEW n \in Node \ {HubNode},
               NEW kind \in {"node.connected", "node.disconnected"},
               NodeLifecycleEvent(e, n, kind)
        PROVE  RowStep
    <2> DEFINE d == Draft(kind, SystemTask, None, n)
    <2>1. /\ d \in EventDraft /\ d.kind \notin {"task.created", "run.started"}
          /\ d.kind \notin TerminalKind
      BY <1>0 DEF Draft, EventDraft, TerminalKind
    <2>2. append_node_event(e, d)
      BY <1>9 DEF NodeLifecycleEvent
    <2> HIDE DEF d
    <2> QED BY <2>1, <2>2, NodeEventIsRowStep
  <1>10. ASSUME NEW c \in Command, NEW n \in Node, acknowledge_dispatch_from(c, n) PROVE RowStep
    <2>1. \A i \in DOMAIN dispatches : dispatches[i] \in Dispatch
      BY DEF TypeOK
    <2>2. /\ DOMAIN dispatches' = DOMAIN dispatches
          /\ \A i \in DOMAIN dispatches :
                 \/ dispatches'[i] = dispatches[i]
                 \/ dispatches'[i] = [dispatches[i] EXCEPT !.acked = TRUE]
          /\ UNCHANGED <<events, receipts, runs, tasks, wakes, approvals>>
      BY <1>10 DEF acknowledge_dispatch_from
    <2>3. \A d \in Dispatch : LET a == [d EXCEPT !.acked = TRUE]
                             IN  /\ a.command_id = d.command_id /\ a.node_id = d.node_id
                                 /\ a.work = d.work /\ a.run_id = d.run_id
                                 /\ d.acked => a = d
      BY DEF Dispatch
    <2>4. Updates
      BY <2>1, <2>2, <2>3 DEF Updates
    <2> QED BY <2>4 DEF RowStep
  <1>11. ASSUME NEW ch \in Channel, NEW t \in Task, register_assistant_worker(ch, t)
         PROVE  RowStep
    BY <1>11 DEF register_assistant_worker, RowStep, Updates
  <1>12. ASSUME NEW e \in NodeEvent,
                \/ complete_assistant_wake(e) \/ defer_assistant_wake(e) \/ WakeBecomesDue(e)
         PROVE  RowStep
    <2>0. UNCHANGED <<events, receipts, runs, tasks, dispatches, workers, approvals, nodeRows>>
      BY <1>12 DEF complete_assistant_wake, defer_assistant_wake, WakeBecomesDue
    <2>1. CASE wakes' = wakes
      BY <2>0, <2>1, SameIsUpdate DEF storeVars, RowStep
    <2>2. CASE wakes' # wakes
      <3>1. wakes[e] \in Wake /\ wakes[e] # None /\ wakes[e].state # "processed"
        BY <1>12, <2>2 DEF complete_assistant_wake, defer_assistant_wake, WakeBecomesDue, TypeOK
      <3>2. \E n \in Nat, st \in {"due", "deferred", "processed"} :
                wakes' = [wakes EXCEPT ![e] = [wakes[e] EXCEPT !.attempt_count = n, !.state = st]]
        <4>1. wakes[e].attempt_count \in Nat /\ wakes[e].attempt_count + 1 \in Nat
          BY <3>1 DEF Wake
        <4>2. [wakes[e] EXCEPT !.attempt_count = wakes[e].attempt_count] = wakes[e]
          BY <3>1 DEF Wake
        <4>3. CASE complete_assistant_wake(e)
          <5>1. wakes' = [wakes EXCEPT ![e] =
                     [wakes[e] EXCEPT !.attempt_count = wakes[e].attempt_count,
                                      !.state = "processed"]]
            BY <2>2, <4>2, <4>3 DEF complete_assistant_wake
          <5> QED BY <4>1, <5>1
        <4>4. CASE defer_assistant_wake(e)
          <5>1. wakes' = [wakes EXCEPT ![e] =
                     [wakes[e] EXCEPT !.attempt_count = wakes[e].attempt_count + 1,
                                      !.state = "deferred"]]
            BY <2>2, <4>4 DEF defer_assistant_wake, TypeOK
          <5> QED BY <4>1, <5>1
        <4>5. CASE WakeBecomesDue(e)
          <5>1. wakes' = [wakes EXCEPT ![e] =
                     [wakes[e] EXCEPT !.attempt_count = wakes[e].attempt_count,
                                      !.state = "due"]]
            BY <4>2, <4>5 DEF WakeBecomesDue
          <5> QED BY <4>1, <5>1
        <4> QED BY <1>12, <4>3, <4>4, <4>5
      <3>3. PICK n \in Nat, st \in {"due", "deferred", "processed"} :
                wakes' = [wakes EXCEPT ![e] = [wakes[e] EXCEPT !.attempt_count = n, !.state = st]]
        BY <3>2
      <3> DEFINE w == [wakes[e] EXCEPT !.attempt_count = n, !.state = st]
      <3>4. /\ w \in Wake /\ w.sequence = wakes[e].sequence /\ w.kind = wakes[e].kind
            /\ w.run_id = wakes[e].run_id
        BY <3>1, WakeUpdate DEF Wake
      <3>5. wakes' = [wakes EXCEPT ![e] = w]
        BY <3>3
      <3> HIDE DEF w
      <3> QED BY <2>0, <3>1, <3>4, <3>5, WakeIsRowStep
    <2> QED BY <2>1, <2>2
  <1>13. ASSUME NEW a \in Approval, NEW r \in Run, request_approval(a, r, runs[r].task_id)
         PROVE  RowStep
    <2>1. Updates
      BY <1>13 DEF request_approval, Updates, TypeOK
    <2> QED BY <2>1 DEF RowStep
  <1>14. ASSUME NEW a \in Approval, NEW d \in Decision, NEW actor \in Actor,
                resolve_approval(a, d, actor)
         PROVE  RowStep
    <2>1. Updates
      BY <1>14 DEF resolve_approval, Updates, TypeOK
    <2> QED BY <2>1 DEF RowStep
  <1>15. ASSUME NEW n \in Node, NEW status \in {"connected", "disconnected"},
                upsert_node(n, status)
         PROVE  RowStep
    BY <1>15 DEF upsert_node, RowStep, Updates
  <1>16. CASE UNCHANGED storeVars
    BY <1>16, SameIsUpdate DEF RowStep
  <1> QED
    BY <1>1, <1>2, <1>3, <1>4, <1>5, <1>6, <1>7, <1>8, <1>9, <1>10, <1>11, <1>12,
       <1>13, <1>14, <1>15, <1>16 DEF Next

-----------------------------------------------------------------------------
\* What a commit does to each table.
LEMMA CommitEffects ==
  ASSUME TypeOK, LogInv, NEW c \in Command, NEW draft \in EventDraft,
         NEW entity \in {"task", "run", "none"}, NEW dispatch \in NodeWork \cup {None},
         Commits(c, draft, entity, dispatch)
  PROVE  /\ \E row \in Event :
                /\ events' = events \cup {row} /\ row.command_id = c /\ row.kind = draft.kind
                /\ row.task_id = draft.task_id /\ row.run_id = draft.run_id
         /\ \A b \in Command : receipts[b] # None => receipts'[b] = receipts[b]
         /\ receipts'[c] # None
         /\ \A r \in Run : IF entity = "run" /\ r = draft.run_id
                           THEN /\ runs[r] = None /\ runs'[r] # None
                                /\ runs'[r].status = "started"
                                /\ runs'[r].node_id = draft.node_id
                           ELSE runs'[r] = runs[r]
         /\ \A t \in Task : IF entity = "task" /\ t = draft.task_id
                            THEN tasks[t] = None /\ tasks'[t] # None
                            ELSE tasks'[t] # None <=> tasks[t] # None
  <1> USE ConstantsAssumption
  <1>0. next_sequence \in Nat \ {0}
    BY NextIsHeadPlusOne DEF LogInv
  <1>1. \E row \in Event :
            /\ events' = events \cup {row} /\ row.command_id = c /\ row.kind = draft.kind
            /\ row.task_id = draft.task_id /\ row.run_id = draft.run_id
    <2> DEFINE row == Stamp(next_sequence, MintedFor(c), c, draft)
    <2>1. row \in Event
      BY <1>0, StampType DEF MintedFor, EventId
    <2>2. /\ row.command_id = c /\ row.kind = draft.kind
          /\ row.task_id = draft.task_id /\ row.run_id = draft.run_id
      BY DEF Stamp
    <2>3. events' = events \cup {row}
      BY DEF Commits, CommitBundle
    <2> HIDE DEF row
    <2> QED BY <2>1, <2>2, <2>3
  <1>2. receipts'[c] # None /\ \A b \in Command : receipts[b] # None => receipts'[b] = receipts[b]
    <2> DEFINE rec == [sequence |-> next_sequence, event_id |-> MintedFor(c)]
    <2>1. rec \in Receipt
      BY <1>0 DEF Receipt, MintedFor, EventId
    <2>2. receipts[c] = None /\ receipts' = [receipts EXCEPT ![c] = rec]
      BY DEF Commits, CommitBundle
    <2> HIDE DEF rec
    <2> QED BY <2>1, <2>2, NoneAssumption DEF TypeOK
  <1>3. ASSUME NEW r \in Run
        PROVE  IF entity = "run" /\ r = draft.run_id
               THEN /\ runs[r] = None /\ runs'[r] # None
                    /\ runs'[r].status = "started" /\ runs'[r].node_id = draft.node_id
               ELSE runs'[r] = runs[r]
    <2>1. CASE entity = "run"
      <3> DEFINE new == [task_id |-> draft.task_id, node_id |-> draft.node_id,
                         status |-> "started"]
      <3>1. draft.task_id \in Task /\ draft.run_id \in Run /\ runs[draft.run_id] = None
        BY <2>1 DEF Commits, Announces, FreshRun
      <3>2. new \in RunRow
        BY <3>1 DEF RunRow, RunStatus, EventDraft
      <3>3. runs' = [runs EXCEPT ![draft.run_id] = new]
        BY <2>1 DEF Commits, CommitBundle, insert_run_row
      <3>4. new.status = "started" /\ new.node_id = draft.node_id /\ new # None
        BY <3>2, NoneAssumption
      <3> HIDE DEF new
      <3> QED BY <2>1, <3>1, <3>3, <3>4 DEF TypeOK
    <2>2. CASE entity # "run"
      BY <2>2 DEF Commits, CommitBundle
    <2> QED BY <2>1, <2>2
  <1>4. ASSUME NEW t \in Task
        PROVE  IF entity = "task" /\ t = draft.task_id
               THEN tasks[t] = None /\ tasks'[t] # None
               ELSE tasks'[t] # None <=> tasks[t] # None
    <2>0. "open" # None /\ "running" # None
      BY NoneAssumption DEF TaskStatus
    <2>1. CASE entity = "task"
      <3>1. draft.task_id \in Task /\ tasks[draft.task_id] = None
        BY <2>1 DEF Commits, Announces, FreshTask
      <3>2. tasks' = [tasks EXCEPT ![draft.task_id] = "open"]
        BY <2>1 DEF Commits, CommitBundle, insert_task_row
      <3> QED BY <2>0, <2>1, <3>1, <3>2 DEF TypeOK
    <2>2. CASE entity = "run"
      <3>1. tasks' = SetTaskStatus(draft.task_id, "running")
        BY <2>2 DEF Commits, CommitBundle
      <3> QED BY <2>0, <2>2, <3>1 DEF SetTaskStatus, TypeOK
    <2>3. CASE entity = "none"
      BY <2>3 DEF Commits, CommitBundle
    <2> QED BY <2>1, <2>2, <2>3
  <1> QED BY <1>1, <1>2, <1>3, <1>4

\* What a node's event does to each table.
LEMMA ReportEffects ==
  ASSUME TypeOK, LogInv, NEW x \in NodeEvent, NEW draft \in EventDraft, Reports(x, draft)
  PROVE  /\ \E row \in Event :
                /\ events' = events \cup {row} /\ row.command_id = None /\ row.event_id = x
                /\ row.sequence = next_sequence /\ row.kind = draft.kind
                /\ row.task_id = draft.task_id /\ row.run_id = draft.run_id
         /\ \A r \in Run :
                /\ runs'[r] = None <=> runs[r] = None
                /\ runs[r] # None => runs'[r].node_id = runs[r].node_id
                /\ runs[r] # None =>
                       runs'[r].status = IF draft.kind \in TerminalKind /\ draft.run_id = r
                                         THEN StatusOf(draft.kind) ELSE runs[r].status
         /\ \A t \in Task : tasks'[t] # None <=> tasks[t] # None
         /\ \A e \in NodeEvent : e # x => wakes'[e] = wakes[e]
         /\ \/ wakes'[x] = wakes[x]
            \/ /\ wakes'[x].sequence = next_sequence
               /\ wakes'[x].kind = draft.kind /\ wakes'[x].run_id = draft.run_id
  <1> USE ConstantsAssumption
  <1>0. next_sequence \in Nat \ {0}
    BY NextIsHeadPlusOne DEF LogInv
  <1>1. \E row \in Event :
            /\ events' = events \cup {row} /\ row.command_id = None /\ row.event_id = x
            /\ row.sequence = next_sequence /\ row.kind = draft.kind
            /\ row.task_id = draft.task_id /\ row.run_id = draft.run_id
    <2> DEFINE row == Stamp(next_sequence, x, None, draft)
    <2>1. row \in Event
      BY <1>0, StampType DEF EventId
    <2>2. /\ row.command_id = None /\ row.event_id = x /\ row.sequence = next_sequence
          /\ row.kind = draft.kind /\ row.task_id = draft.task_id /\ row.run_id = draft.run_id
      BY DEF Stamp
    <2>3. events' = events \cup {row}
      BY DEF Reports
    <2> HIDE DEF row
    <2> QED BY <2>1, <2>2, <2>3
  <1>2. CASE ~(draft.kind \in TerminalKind /\ draft.run_id # None)
    <2>1. UNCHANGED <<runs, tasks, wakes>> /\ draft.kind \notin TerminalKind
      BY <1>2 DEF Reports, apply_terminal_lifecycle_and_wake
    <2> QED BY <1>1, <2>1
  <1>3. CASE draft.kind \in TerminalKind /\ draft.run_id # None
    <2>0. /\ draft.run_id \in Run /\ runs[draft.run_id] \in RunRow
          /\ StatusOf(draft.kind) \in TaskStatus /\ StatusOf(draft.kind) # None
          /\ apply_terminal_lifecycle_and_wake(x, draft)
      <3>1. draft.run_id \in Run /\ runs[draft.run_id] \in RunRow
        BY <1>3 DEF Reports, TypeOK
      <3>2. StatusOf(draft.kind) \in TaskStatus
        BY <1>3 DEF StatusOf, TerminalKind, TaskStatus
      <3> QED BY <3>1, <3>2, NoneAssumption DEF Reports
    <2>1. \A r \in Run :
              /\ runs'[r] = None <=> runs[r] = None
              /\ runs[r] # None => runs'[r].node_id = runs[r].node_id
              /\ runs[r] # None =>
                     runs'[r].status = IF draft.kind \in TerminalKind /\ draft.run_id = r
                                       THEN StatusOf(draft.kind) ELSE runs[r].status
      <3> DEFINE new == [runs[draft.run_id] EXCEPT !.status = StatusOf(draft.kind)]
      <3>1. /\ new.status = StatusOf(draft.kind) /\ new.node_id = runs[draft.run_id].node_id
            /\ new \in RunRow
        BY <1>3, <2>0 DEF RunRow, StatusOf, TerminalKind, RunStatus
      <3>2. runs' = [runs EXCEPT ![draft.run_id] = new]
        BY <1>3, <2>0, NoneAssumption DEF apply_terminal_lifecycle_and_wake
      <3>3. new # None /\ runs[draft.run_id] # None
        BY <2>0, <3>1, NoneAssumption
      <3> HIDE DEF new
      <3> QED BY <1>3, <2>0, <3>1, <3>2, <3>3 DEF TypeOK
    <2>2. \A t \in Task : tasks'[t] # None <=> tasks[t] # None
      <3>1. tasks' = SetTaskStatus(draft.task_id, StatusOf(draft.kind))
        BY <1>3, <2>0 DEF apply_terminal_lifecycle_and_wake
      <3> QED BY <2>0, <3>1 DEF SetTaskStatus, TypeOK
    <2>3. /\ \A e \in NodeEvent : e # x => wakes'[e] = wakes[e]
          /\ \/ wakes'[x] = wakes[x]
             \/ /\ wakes'[x].sequence = next_sequence
                /\ wakes'[x].kind = draft.kind /\ wakes'[x].run_id = draft.run_id
      <3> DEFINE w == [sequence |-> next_sequence, channel |-> workers[draft.task_id],
                       run_id |-> draft.run_id, kind |-> draft.kind,
                       attempt_count |-> 0, state |-> "due"]
      <3>1. wakes' = wakes \/ wakes' = [wakes EXCEPT ![x] = w]
        BY <1>3, <2>0 DEF apply_terminal_lifecycle_and_wake
      <3>2. w.sequence = next_sequence /\ w.kind = draft.kind /\ w.run_id = draft.run_id
        OBVIOUS
      <3> HIDE DEF w
      <3> QED BY <3>1, <3>2 DEF TypeOK
    <2> QED BY <1>1, <2>1, <2>2, <2>3
  <1> QED BY <1>2, <1>3

-----------------------------------------------------------------------------
\* A new dispatch is of a command that had no receipt, so no earlier row is its own.
LEMMA DispatchesKept ==
  ASSUME TypeOK, LogInv, DispatchesMatchReceipts, RowStep
  PROVE  DispatchesMatchReceipts'
  <1>0. /\ dispatches \in Seq(Dispatch) /\ Len(dispatches) \in Nat
        /\ DOMAIN dispatches = 1..Len(dispatches)
        /\ \A i \in DOMAIN dispatches : /\ dispatches[i].command_id \in Command
                                         /\ dispatches[i].run_id \in Run
    <2>1. dispatches \in Seq(Dispatch)
      BY DEF TypeOK
    <2>2. \A i \in DOMAIN dispatches : dispatches[i] \in Dispatch
      BY <2>1
    <2>3. \A d \in Dispatch : d.command_id \in Command /\ d.run_id \in Run
      BY DEF Dispatch
    <2> QED BY <2>1, <2>2, <2>3
  <1>1. ASSUME NEW c \in Command, NEW draft \in EventDraft, NEW entity \in {"task", "run", "none"},
               NEW dispatch \in NodeWork \cup {None}, Commits(c, draft, entity, dispatch)
        PROVE  DispatchesMatchReceipts'
    <2>1. /\ \A b \in Command : receipts[b] # None => receipts'[b] # None
          /\ receipts[c] = None /\ receipts'[c] # None
          /\ \A r \in Run : runs[r] # None => runs'[r] = runs[r]
          /\ entity = "run" => /\ draft.run_id \in Run /\ runs'[draft.run_id] # None
                               /\ runs'[draft.run_id].node_id = draft.node_id
      BY <1>1, CommitEffects DEF Commits, Announces
    <2>2. CASE dispatch = None
      <3>1. dispatches' = dispatches
        BY <1>1, <2>2 DEF Commits, CommitBundle, EnqueueDispatch
      <3> QED BY <1>0, <2>1, <3>1 DEF DispatchesMatchReceipts
    <2>3. CASE dispatch # None
      <3> DEFINE d == [command_id |-> c, node_id |-> dispatch.node_id, work |-> dispatch.work,
                       run_id |-> dispatch.run_id, acked |-> FALSE]
      <3>1. dispatches' = Append(dispatches, d)
        BY <1>1, <2>3 DEF Commits, CommitBundle, EnqueueDispatch
      <3>2. /\ d \in Dispatch /\ d.command_id = c
            /\ d.work = "start_run" => /\ entity = "run" /\ d.run_id = draft.run_id
                                       /\ d.node_id = draft.node_id
        BY <1>1, <2>3 DEF NodeWork, Dispatch, Commits, Announces
      <3> HIDE DEF d
      <3>3. /\ DOMAIN dispatches' = 1..(Len(dispatches) + 1)
            /\ dispatches'[Len(dispatches) + 1] = d
            /\ \A i \in DOMAIN dispatches : dispatches'[i] = dispatches[i]
        BY <1>0, <3>1, <3>2
      <3>4. \A i \in DOMAIN dispatches' : i \in DOMAIN dispatches \/ i = Len(dispatches) + 1
        BY <1>0, <3>3
      <3>5. \A i \in DOMAIN dispatches : dispatches[i].command_id # c
        BY <2>1 DEF DispatchesMatchReceipts
      <3>6. \A i \in DOMAIN dispatches' : receipts'[dispatches'[i].command_id] # None
        BY <1>0, <2>1, <3>2, <3>3, <3>4 DEF DispatchesMatchReceipts
      <3>7. \A i, j \in DOMAIN dispatches' :
                dispatches'[i].command_id = dispatches'[j].command_id => i = j
        BY <3>2, <3>3, <3>4, <3>5 DEF DispatchesMatchReceipts
      <3>8. \A i \in DOMAIN dispatches' : dispatches'[i].work = "start_run" =>
                /\ runs'[dispatches'[i].run_id] # None
                /\ runs'[dispatches'[i].run_id].node_id = dispatches'[i].node_id
        BY <1>0, <2>1, <3>2, <3>3, <3>4 DEF DispatchesMatchReceipts
      <3> QED BY <3>6, <3>7, <3>8 DEF DispatchesMatchReceipts
    <2> QED BY <2>2, <2>3
  <1>2. ASSUME NEW e \in NodeEvent, NEW draft \in EventDraft, Reports(e, draft)
        PROVE  DispatchesMatchReceipts'
    <2>1. \A r \in Run : /\ runs'[r] = None <=> runs[r] = None
                         /\ runs[r] # None => runs'[r].node_id = runs[r].node_id
      BY <1>2, ReportEffects
    <2>2. UNCHANGED <<receipts, dispatches>>
      BY <1>2 DEF Reports
    <2> QED BY <1>0, <2>1, <2>2 DEF DispatchesMatchReceipts
  <1>3. CASE Updates
    BY <1>3 DEF Updates, DispatchesMatchReceipts
  <1> QED BY <1>1, <1>2, <1>3 DEF RowStep

\* A row and the event that announces it appear in one transaction.
LEMMA EntitiesKept ==
  ASSUME TypeOK, LogInv, EntitiesMatchLog, RowStep
  PROVE  EntitiesMatchLog'
  <1> USE ConstantsAssumption
  <1>1. ASSUME NEW c \in Command, NEW draft \in EventDraft, NEW entity \in {"task", "run", "none"},
               NEW dispatch \in NodeWork \cup {None}, Commits(c, draft, entity, dispatch)
        PROVE  EntitiesMatchLog'
    <2>1. PICK row \in Event :
              /\ events' = events \cup {row} /\ row.kind = draft.kind
              /\ row.task_id = draft.task_id /\ row.run_id = draft.run_id
      BY <1>1, CommitEffects
    <2>2. /\ entity = "task" => /\ draft.kind = "task.created" /\ draft.task_id \in Task
                                /\ \A e \in events : e.task_id # draft.task_id
          /\ entity = "run" => /\ draft.kind = "run.started" /\ draft.run_id \in Run
                               /\ \A e \in events : e.run_id # draft.run_id
          /\ entity = "none" => draft.kind \notin {"task.created", "run.started"}
      BY <1>1 DEF Commits, Announces, FreshTask, FreshRun
    <2>3. \A t \in Task : tasks'[t] # None
              <=> \E e \in events' : e.kind = "task.created" /\ e.task_id = t
      <3> TAKE t \in Task
      <3>1. tasks'[t] # None <=> tasks[t] # None \/ (entity = "task" /\ t = draft.task_id)
        BY <1>1, CommitEffects
      <3> QED BY <2>1, <2>2, <3>1 DEF EntitiesMatchLog
    <2>4. \A r \in Run : runs'[r] # None
              <=> \E e \in events' : e.kind = "run.started" /\ e.run_id = r
      <3> TAKE r \in Run
      <3>1. runs'[r] # None <=> runs[r] # None \/ (entity = "run" /\ r = draft.run_id)
        BY <1>1, CommitEffects
      <3> QED BY <2>1, <2>2, <3>1 DEF EntitiesMatchLog
    <2>5. ASSUME NEW e \in events', NEW f \in events',
                 e.kind \in {"task.created", "run.started"}, e.kind = f.kind,
                 e.task_id = f.task_id, e.run_id = f.run_id
          PROVE  e = f
      BY <2>1, <2>2, <2>5 DEF EntitiesMatchLog
    <2> QED BY <2>3, <2>4, <2>5 DEF EntitiesMatchLog
  <1>2. ASSUME NEW x \in NodeEvent, NEW draft \in EventDraft, Reports(x, draft)
        PROVE  EntitiesMatchLog'
    <2>1. PICK row \in Event :
              events' = events \cup {row} /\ row.kind \notin {"task.created", "run.started"}
      BY <1>2, ReportEffects DEF Reports
    <2>2. /\ \A t \in Task : tasks'[t] # None <=> tasks[t] # None
          /\ \A r \in Run : runs'[r] # None <=> runs[r] # None
      BY <1>2, ReportEffects
    <2> QED BY <2>1, <2>2 DEF EntitiesMatchLog
  <1>3. CASE Updates
    BY <1>3 DEF Updates, EntitiesMatchLog
  <1> QED BY <1>1, <1>2, <1>3 DEF RowStep

\* The newest of a set of events is the one past all others.
LEMMA LatestIsNewest ==
  ASSUME NEW evs, NEW row \in evs, \A e \in evs : e.sequence \in Nat,
         \A e \in evs : e # row => e.sequence < row.sequence
  PROVE  Latest(evs) = row
  <1>1. \A e \in evs : e.sequence <= row.sequence
    OBVIOUS
  <1>2. ASSUME NEW e \in evs, \A f \in evs : f.sequence <= e.sequence PROVE e = row
    BY <1>2
  <1> QED BY <1>1, <1>2 DEF Latest

\* An outcome a node reports is the newest and sets the status it shows; no other
\* event of the log is an outcome.
LEMMA RunStatusKept ==
  ASSUME TypeOK, LogInv, RunStatusFromLog, RowStep
  PROVE  RunStatusFromLog'
  <1> USE ConstantsAssumption
  <1>0. \A e \in events : e.sequence \in Nat /\ e.sequence < next_sequence
    <2>1. \A e \in events : e.sequence \in 1..head_sequence
      BY DEF LogInv, Gapless, SequencesOf
    <2> QED BY <2>1, NextIsHeadPlusOne DEF LogInv
  <1>1. ASSUME NEW c \in Command, NEW draft \in EventDraft, NEW entity \in {"task", "run", "none"},
               NEW dispatch \in NodeWork \cup {None}, Commits(c, draft, entity, dispatch)
        PROVE  RunStatusFromLog'
    <2>1. PICK row \in Event : events' = events \cup {row} /\ row.command_id = c
      BY <1>1, CommitEffects
    <2>2. \A r \in Run : RunOutcomes(r)' = RunOutcomes(r)
      BY <2>1 DEF RunOutcomes
    <2> SUFFICES ASSUME NEW r \in Run, runs'[r] # None
                 PROVE  runs'[r].status = IF RunOutcomes(r) = {} THEN "started"
                                          ELSE StatusOf(Latest(RunOutcomes(r)).kind)
      BY <2>2 DEF RunStatusFromLog
    <2>3. CASE entity = "run" /\ r = draft.run_id
      <3>1. runs'[r].status = "started"
        BY <1>1, <2>3, CommitEffects
      <3>2. RunOutcomes(r) = {}
        BY <1>1, <2>3 DEF Commits, Announces, FreshRun, RunOutcomes
      <3> QED BY <3>1, <3>2
    <2>4. CASE ~(entity = "run" /\ r = draft.run_id)
      <3>1. runs'[r] = runs[r]
        BY <1>1, <2>4, CommitEffects
      <3> QED BY <3>1 DEF RunStatusFromLog
    <2> QED BY <2>3, <2>4
  <1>2. ASSUME NEW x \in NodeEvent, NEW draft \in EventDraft, Reports(x, draft)
        PROVE  RunStatusFromLog'
    <2>1. PICK row \in Event :
              /\ events' = events \cup {row} /\ row.command_id = None
              /\ row.sequence = next_sequence /\ row.kind = draft.kind
              /\ row.run_id = draft.run_id
      BY <1>2, ReportEffects
    <2> SUFFICES ASSUME NEW r \in Run, runs'[r] # None
                 PROVE  runs'[r].status = IF RunOutcomes(r)' = {} THEN "started"
                                          ELSE StatusOf(Latest(RunOutcomes(r)').kind)
      BY DEF RunStatusFromLog, Latest
    <2>2. /\ runs[r] # None
          /\ runs'[r].status = IF draft.kind \in TerminalKind /\ draft.run_id = r
                               THEN StatusOf(draft.kind) ELSE runs[r].status
      BY <1>2, ReportEffects
    <2>3. CASE draft.kind \in TerminalKind /\ draft.run_id = r
      <3>1. row \in RunOutcomes(r)' /\ RunOutcomes(r)' \subseteq events \cup {row}
        BY <2>1, <2>3 DEF RunOutcomes
      <3>2. \A e \in events \cup {row} : /\ e.sequence \in Nat
                                         /\ e # row => e.sequence < row.sequence
        BY <1>0, <2>1 DEF Event
      <3>3. Latest(RunOutcomes(r)') = row
        BY <3>1, <3>2, LatestIsNewest
      <3> QED BY <2>1, <2>2, <2>3, <3>1, <3>3
    <2>4. CASE ~(draft.kind \in TerminalKind /\ draft.run_id = r)
      <3>1. RunOutcomes(r)' = RunOutcomes(r)
        BY <2>1, <2>4 DEF RunOutcomes
      <3> QED BY <2>2, <2>4, <3>1 DEF RunStatusFromLog
    <2> QED BY <2>3, <2>4
  <1>3. CASE Updates
    <2>1. UNCHANGED <<events, runs>>
      BY <1>3 DEF Updates
    <2> QED BY <2>1 DEF RunStatusFromLog, RunOutcomes, Latest
  <1> QED BY <1>1, <1>2, <1>3 DEF RowStep

LEMMA WakesKept ==
  ASSUME TypeOK, LogInv, WakesMatchLog, RowStep
  PROVE  WakesMatchLog'
  <1>1. ASSUME NEW c \in Command, NEW draft \in EventDraft, NEW entity \in {"task", "run", "none"},
               NEW dispatch \in NodeWork \cup {None}, Commits(c, draft, entity, dispatch)
        PROVE  WakesMatchLog'
    BY <1>1 DEF Commits, CommitBundle, WakesMatchLog
  <1>2. ASSUME NEW x \in NodeEvent, NEW draft \in EventDraft, Reports(x, draft)
        PROVE  WakesMatchLog'
    <2>1. PICK row \in Event :
              /\ events' = events \cup {row} /\ row.event_id = x /\ row.sequence = next_sequence
              /\ row.kind = draft.kind /\ row.run_id = draft.run_id
      BY <1>2, ReportEffects
    <2>2. /\ \A e \in NodeEvent : e # x => wakes'[e] = wakes[e]
          /\ \/ wakes'[x] = wakes[x]
             \/ /\ wakes'[x].sequence = next_sequence
                /\ wakes'[x].kind = draft.kind /\ wakes'[x].run_id = draft.run_id
      BY <1>2, ReportEffects
    <2> QED BY <2>1, <2>2 DEF WakesMatchLog
  <1>3. CASE Updates
    BY <1>3 DEF Updates, WakesMatchLog
  <1> QED BY <1>1, <1>2, <1>3 DEF RowStep

TablesInv == StoreInv /\ RowsMatchLog

\* Receipts, rows, statuses, dispatches and wakes stay in step with the log under
\* every mix of commands, retries, node events and acknowledgements.
THEOREM TablesInvariant == Spec => []TablesInv
  <1>1. Init => TablesInv
    <2>1. Init => RowsMatchLog
      BY DEF Init, RowsMatchLog, DispatchesMatchReceipts, EntitiesMatchLog, RunStatusFromLog,
             WakesMatchLog
    <2> QED BY <2>1, StoreInvInit DEF TablesInv
  <1>2. TablesInv /\ StoreInv' /\ [Next]_storeVars => TablesInv'
    <2> SUFFICES ASSUME TablesInv, StoreInv', [Next]_storeVars PROVE RowsMatchLog'
      BY DEF TablesInv
    <2>1. TypeOK /\ LogInv /\ RowsMatchLog
      BY DEF TablesInv, StoreInv
    <2>2. RowStep
      BY <2>1, RowSteps
    <2> QED BY <2>1, <2>2, DispatchesKept, EntitiesKept, RunStatusKept, WakesKept DEF RowsMatchLog
  <1> QED BY <1>1, <1>2, StoreInvariant, PTL DEF Spec

\* Every table tells the log's story.
THEOREM RowsAreTrue == Spec => []RowsMatchLog
  BY TablesInvariant, PTL DEF TablesInv

\* No transaction takes back a logged event, a receipt, an acknowledgement, a processed
\* wake or a decision.
THEOREM FactsAreDurable == Spec => DurableFactsPersist
  <1> DEFINE Durable ==
        /\ events \subseteq events'
        /\ \A c \in Command : receipts[c] # None => receipts'[c] = receipts[c]
        /\ \A i \in DOMAIN dispatches :
               /\ i \in DOMAIN dispatches'
               /\ dispatches[i].acked => dispatches'[i] = dispatches[i]
        /\ \A e \in NodeEvent : wakes[e] # None /\ wakes[e].state = "processed" =>
               wakes'[e] = wakes[e]
        /\ \A a \in Approval : approvals[a] # None /\ approvals[a].decision # "pending" =>
               approvals'[a] = approvals[a]
  <1>1. ASSUME TablesInv, [Next]_storeVars PROVE Durable
    <2>0. TypeOK /\ LogInv /\ WakesMatchLog /\ RowStep
      BY <1>1, RowSteps DEF TablesInv, StoreInv, RowsMatchLog
    <2>1. ASSUME NEW c \in Command, NEW draft \in EventDraft,
                 NEW entity \in {"task", "run", "none"}, NEW dispatch \in NodeWork \cup {None},
                 Commits(c, draft, entity, dispatch)
          PROVE  Durable
      <3>1. /\ events \subseteq events'
            /\ \A b \in Command : receipts[b] # None => receipts'[b] = receipts[b]
        BY <2>0, <2>1, CommitEffects
      <3>2. UNCHANGED <<wakes, approvals>>
        BY <2>1 DEF Commits, CommitBundle
      <3>3. \A i \in DOMAIN dispatches : i \in DOMAIN dispatches' /\ dispatches'[i] = dispatches[i]
        <4> DEFINE d == [command_id |-> c, node_id |-> dispatch.node_id, work |-> dispatch.work,
                         run_id |-> dispatch.run_id, acked |-> FALSE]
        <4>1. dispatches' = dispatches \/ (dispatch # None /\ dispatches' = Append(dispatches, d))
          BY <2>1 DEF Commits, CommitBundle, EnqueueDispatch
        <4>2. dispatch # None => d \in Dispatch
          BY DEF NodeWork, Dispatch
        <4> HIDE DEF d
        <4> QED BY <2>0, <4>1, <4>2 DEF TypeOK
      <3> QED BY <3>1, <3>2, <3>3
    <2>2. ASSUME NEW x \in NodeEvent, NEW draft \in EventDraft, Reports(x, draft)
          PROVE  Durable
      <3>1. /\ events \subseteq events' /\ UNCHANGED <<receipts, dispatches, approvals>>
            /\ \A row \in events : row.event_id # x
        BY <2>2 DEF Reports
      <3>2. \A e \in NodeEvent : e # x => wakes'[e] = wakes[e]
        BY <2>0, <2>2, ReportEffects
      <3>3. wakes[x] = None
        BY <2>0, <3>1 DEF WakesMatchLog
      <3> QED BY <3>1, <3>2, <3>3
    <2>3. CASE Updates
      BY <2>3 DEF Updates
    <2> QED BY <2>0, <2>1, <2>2, <2>3 DEF RowStep
  <1>2. TablesInv /\ [Next]_storeVars => [Durable]_storeVars
    BY <1>1
  <1> QED BY <1>2, TablesInvariant, PTL DEF Spec, DurableFactsPersist

-----------------------------------------------------------------------------
(* The clients of the log: ClientFeed, whose head is the last sequence of    *)
(* this store. A client lacks only what was never broadcast, and the feed    *)
(* implements OrderedDelivery.                                               *)

\* Messages on the bus are logged events, oldest first.
BusAscends ==
    /\ \A i \in 1..Len(bus) : bus[i] <= head
    /\ \A i, j \in 1..Len(bus) : i < j => bus[i] < bus[j]

\* Only logged events are in flight.
FramesLogged == \A i \in 1..Len(wire) : wire[i] <= head

\* The last frame sent, or the cursor when the client has taken them all.
LastSent == IF wire = <<>> THEN cursor ELSE wire[Len(wire)]

\* An open link has sent everything through pos.
WireEndsAtPos ==
    /\ phase \in {"closed", "subscribed"} => wire = <<>>
    /\ phase \in {"sending", "live", "lagged"} => pos = LastSent /\ pos <= head

\* The receiver will still take event s from the bus.
OnItsWay(s) == \E i \in next..Len(bus) : bus[i] = s

\* What the tail being streamed will not cover is on its way, or was never sent.
NothingSkipped ==
    /\ phase # "closed" => next <= Len(bus) + 1
    /\ phase = "sending" =>
           /\ pos <= target /\ target <= head
           /\ \A s \in (target + 1)..head : s \in unsent \/ OnItsWay(s)
    /\ phase = "live" => \A s \in (pos + 1)..head : s \in unsent \/ OnItsWay(s)

\* What the panel holds and what is in flight to it.
PanelInv ==
    /\ HolesWereUnsent /\ cursor <= head
    /\ FramesFollowCursor /\ FramesLogged

FeedInv ==
    /\ FeedTypeOK
    /\ PanelInv
    /\ BusAscends
    /\ WireEndsAtPos
    /\ NothingSkipped

LEMMA FeedStarts ==
  FeedInit => FeedInv
  BY FeedAssumption DEF FeedInit, FeedInv, PanelInv, FeedTypeOK, HolesWereUnsent,
         FramesFollowCursor, FramesLogged, BusAscends, WireEndsAtPos, LastSent,
         NothingSkipped, Phase

\* A frame that continues the last one sent keeps the frames in order.
LEMMA SendFrame ==
  ASSUME FeedInv, NEW v \in Nat, LastSent < v, (LastSent + 1)..(v - 1) \subseteq unsent,
         v <= head,
         Len(wire) < WireCap,
         wire' = Append(wire, v), UNCHANGED <<cursor, unsent, head>>
  PROVE  /\ wire' \in Seq(Nat) /\ Len(wire') <= WireCap
         /\ LastSent' = v
         /\ FramesFollowCursor' /\ FramesLogged'
  <1> USE FeedAssumption
  <1>1. wire \in Seq(Nat) /\ Len(wire) \in Nat /\ cursor \in Nat
    BY LenProperties DEF FeedInv, FeedTypeOK
  <1>2. /\ wire' \in Seq(Nat) /\ Len(wire') = Len(wire) + 1
        /\ \A i \in 1..Len(wire) : wire'[i] = wire[i]
        /\ wire'[Len(wire) + 1] = v
    BY <1>1, AppendProperties
  <1>3. LastSent' = v
    BY <1>1, <1>2, EmptySeq DEF LastSent
  <1>4. ASSUME NEW i \in 1..Len(wire')
        PROVE  (Before(i) < wire[i] /\ (Before(i) + 1)..(wire[i] - 1) \subseteq unsent)'
    <2>1. CASE i = Len(wire) + 1
      <3>1. Before(i)' = LastSent
        BY <1>1, <1>2, <2>1, EmptySeq DEF Before, LastSent
      <3> QED BY <1>2, <2>1, <3>1
    <2>2. CASE i # Len(wire) + 1
      <3>1. i \in 1..Len(wire) /\ wire'[i] = wire[i]
        BY <1>1, <1>2, <2>2
      <3>2. Before(i)' = Before(i)
        BY <1>1, <1>2, <3>1 DEF Before
      <3> QED BY <3>1, <3>2 DEF FeedInv, PanelInv, FramesFollowCursor
    <2> QED BY <2>1, <2>2
  <1>5. FramesLogged'
    BY <1>1, <1>2 DEF FeedInv, PanelInv, FramesLogged
  <1> QED BY <1>1, <1>2, <1>3, <1>4, <1>5 DEF FramesFollowCursor

\* The client takes the first frame: it becomes the cursor, the rest follow it.
LEMMA TakeFrame ==
  ASSUME FeedInv, ClientReceive
  PROVE  /\ wire # <<>> /\ Len(wire) \in Nat \ {0} /\ phase \in {"sending", "live", "lagged"}
         /\ Head(wire) \in Nat /\ cursor < Head(wire) /\ cursor' = Head(wire)
         /\ (cursor + 1)..(Head(wire) - 1) \subseteq unsent
         /\ wire' \in Seq(Nat) /\ Len(wire') = Len(wire) - 1
         /\ LastSent' = LastSent
         /\ FramesFollowCursor' /\ FramesLogged' /\ Head(wire) <= head
  <1>1. /\ wire # <<>> /\ wire' = Tail(wire) /\ UNCHANGED <<unsent, head>>
        /\ cursor' = IF Head(wire) > cursor THEN Head(wire) ELSE cursor
    BY DEF ClientReceive
  <1>2. wire \in Seq(Nat) /\ Len(wire) \in Nat \ {0} /\ cursor \in Nat
    BY <1>1, LenProperties, EmptySeq DEF FeedInv, FeedTypeOK
  <1>3. /\ Head(wire) = wire[1] /\ Head(wire) \in Nat
        /\ wire' \in Seq(Nat) /\ Len(wire') = Len(wire) - 1
        /\ \A i \in 1..(Len(wire) - 1) : wire'[i] = wire[i + 1]
    BY <1>1, <1>2, HeadTailProperties
  <1>4. cursor < wire[1] /\ (cursor + 1)..(wire[1] - 1) \subseteq unsent
    <2>1. 1 \in 1..Len(wire) /\ Before(1) = cursor
      BY <1>2 DEF Before
    <2> QED BY <2>1 DEF FeedInv, PanelInv, FramesFollowCursor
  <1>5. cursor' = wire[1]
    BY <1>1, <1>2, <1>3, <1>4
  <1>6. LastSent' = LastSent
    <2>1. CASE Len(wire) = 1
      <3>1. wire' = <<>>
        BY <2>1, <1>3, EmptySeq
      <3> QED BY <2>1, <3>1, <1>1, <1>5 DEF LastSent
    <2>2. CASE Len(wire) # 1
      <3>1. Len(wire') \in 1..(Len(wire) - 1) /\ wire' # <<>>
        BY <2>2, <1>2, <1>3, EmptySeq
      <3>2. wire'[Len(wire')] = wire[Len(wire)]
        BY <3>1, <1>2, <1>3
      <3> QED BY <3>1, <3>2, <1>1 DEF LastSent
    <2> QED BY <2>1, <2>2
  <1>7. ASSUME NEW i \in 1..Len(wire')
        PROVE  (Before(i) < wire[i] /\ (Before(i) + 1)..(wire[i] - 1) \subseteq unsent)'
    <2>1. i \in 1..(Len(wire) - 1) /\ i + 1 \in 1..Len(wire) /\ wire'[i] = wire[i + 1]
      BY <1>2, <1>3
    <2>2. Before(i)' = Before(i + 1)
      <3>1. CASE i = 1
        BY <3>1, <1>5 DEF Before
      <3>2. CASE i # 1
        <4>1. i - 1 \in 1..(Len(wire) - 1) /\ (i - 1) + 1 = i /\ (i + 1) - 1 = i /\ i + 1 # 1
          BY <3>2, <2>1, <1>2
        <4>2. wire'[i - 1] = wire[i]
          BY <4>1, <1>3
        <4> QED BY <3>2, <4>1, <4>2 DEF Before
      <3> QED BY <3>1, <3>2
    <2> QED BY <2>1, <2>2, <1>1 DEF FeedInv, PanelInv, FramesFollowCursor
  <1>8. phase \in {"sending", "live", "lagged"}
    BY <1>1 DEF FeedInv, FeedTypeOK, WireEndsAtPos, Phase
  <1>9. FramesLogged' /\ Head(wire) <= head
    BY <1>1, <1>2, <1>3 DEF FeedInv, PanelInv, FramesLogged
  <1> QED BY <1>1, <1>2, <1>3, <1>4, <1>5, <1>6, <1>7, <1>8, <1>9 DEF FramesFollowCursor

\* A step that leaves the wire and the panel alone leaves their invariants alone.
LEMMA PanelUnchanged ==
  ASSUME FeedInv, UNCHANGED <<wire, cursor, seen>>, unsent \subseteq unsent',
         head \in Nat, head' \in Nat, head <= head'
  PROVE  PanelInv' /\ LastSent' = LastSent
  <1>1. cursor \in Nat /\ Len(wire) \in Nat /\ \A i \in 1..Len(wire) : wire[i] \in Nat
    BY LenProperties DEF FeedInv, FeedTypeOK
  <1>2. (cursor <= head)' /\ FramesLogged'
    BY <1>1 DEF FeedInv, PanelInv, FramesLogged
  <1>3. HolesWereUnsent' /\ LastSent' = LastSent
    BY DEF FeedInv, PanelInv, HolesWereUnsent, LastSent
  <1>4. FramesFollowCursor'
    BY DEF FeedInv, PanelInv, FramesFollowCursor, Before
  <1> QED BY <1>2, <1>3, <1>4 DEF PanelInv

\* Every step keeps the invariant.
LEMMA FeedStep ==
  ASSUME FeedInv, [FeedNext]_feedVars
  PROVE  FeedInv'
  <1> USE FeedAssumption
  <1>0. Len(bus) \in Nat /\ Len(wire) \in Nat /\ bus \in Seq(Nat) /\ head \in Nat
    BY LenProperties DEF FeedInv, FeedTypeOK
  <1>1. CASE append_and_broadcast
    <2>0. /\ head' = head + 1
          /\ UNCHANGED <<phase, next, pos, target, wire, cursor, seen, drops>>
      BY <1>1 DEF append_and_broadcast
    <2>1. CASE bus' = Append(bus, head + 1) /\ unsent' = unsent
      <3>1. /\ bus' \in Seq(Nat) /\ Len(bus') = Len(bus) + 1
            /\ \A i \in 1..Len(bus) : bus'[i] = bus[i]
            /\ bus'[Len(bus) + 1] = head + 1
        BY <2>1, <1>0, AppendProperties
      <3>2. PanelInv' /\ LastSent' = LastSent
        BY <2>0, <2>1, <1>0, PanelUnchanged
      <3>3. FeedTypeOK' /\ WireEndsAtPos'
        BY <2>0, <2>1, <3>1, <3>2, <1>0 DEF FeedInv, FeedTypeOK, WireEndsAtPos
      <3>4. BusAscends'
        <4>1. \A i \in 1..Len(bus') : i \in 1..Len(bus) \/ i = Len(bus) + 1
          BY <3>1, <1>0
        <4>2. \A i \in 1..Len(bus') : bus'[i] <= head'
          BY <4>1, <3>1, <2>0, <1>0 DEF FeedInv, BusAscends
        <4>3. ASSUME NEW i \in 1..Len(bus'), NEW j \in 1..Len(bus'), i < j
              PROVE  bus'[i] < bus'[j]
          <5>1. i \in 1..Len(bus)
            BY <4>3, <3>1, <1>0
          <5>2. CASE j \in 1..Len(bus)
            BY <5>1, <5>2, <3>1, <4>3 DEF FeedInv, BusAscends
          <5>3. CASE j = Len(bus) + 1
            BY <5>1, <5>3, <3>1, <1>0 DEF FeedInv, BusAscends
          <5> QED BY <5>2, <5>3, <4>1
        <4> QED BY <4>2, <4>3 DEF BusAscends
      <3>5. NothingSkipped'
        <4>1. (phase # "closed" => next <= Len(bus) + 1)'
          BY <2>0, <3>1, <1>0 DEF FeedInv, FeedTypeOK, NothingSkipped
        <4>2. ASSUME NEW s \in Nat, s <= head, OnItsWay(s) PROVE OnItsWay(s)'
          <5>1. PICK i \in next..Len(bus) : bus[i] = s
            BY <4>2 DEF OnItsWay
          <5>2. i \in next'..Len(bus') /\ bus'[i] = s
            BY <5>1, <2>0, <3>1, <1>0 DEF FeedInv, FeedTypeOK
          <5> QED BY <5>2 DEF OnItsWay
        <4>3. ASSUME phase # "closed", NEW s \in Nat, s = head + 1 PROVE OnItsWay(s)'
          <5>1. Len(bus) + 1 \in next'..Len(bus')
            BY <4>3, <2>0, <3>1, <1>0 DEF FeedInv, FeedTypeOK, NothingSkipped
          <5> QED BY <4>3, <5>1, <3>1 DEF OnItsWay
        <4>4. ASSUME NEW b \in Nat, phase # "closed",
                     \A s \in (b + 1)..head : s \in unsent \/ OnItsWay(s)
              PROVE  \A s \in (b + 1)..head' : s \in unsent' \/ OnItsWay(s)'
          <5>1. \A s \in (b + 1)..head' : s \in (b + 1)..head \/ s = head + 1
            BY <2>0, <1>0
          <5>2. \A s \in (b + 1)..head : s \in unsent' \/ OnItsWay(s)'
            BY <4>4, <4>2, <2>1, <1>0
          <5>3. head + 1 \in Nat
            BY <1>0
          <5> QED BY <5>1, <5>2, <5>3, <4>3, <4>4
        <4>5. pos \in Nat /\ target \in Nat
          BY DEF FeedInv, FeedTypeOK
        <4>6. (phase = "sending" =>
                  /\ pos <= target /\ target <= head
                  /\ \A s \in (target + 1)..head : s \in unsent \/ OnItsWay(s))'
          BY <2>0, <4>4, <4>5, <1>0 DEF FeedInv, NothingSkipped
        <4>7. (phase = "live" => \A s \in (pos + 1)..head : s \in unsent \/ OnItsWay(s))'
          BY <2>0, <4>4, <4>5 DEF FeedInv, NothingSkipped
        <4> QED BY <4>1, <4>6, <4>7 DEF NothingSkipped
      <3> QED BY <3>2, <3>3, <3>4, <3>5 DEF FeedInv
    <2>2. CASE unsent' = unsent \cup {head + 1} /\ bus' = bus
      <3>1. PanelInv' /\ LastSent' = LastSent
        BY <2>0, <2>2, <1>0, PanelUnchanged
      <3>2. FeedTypeOK' /\ WireEndsAtPos' /\ BusAscends'
        <4>1. unsent' \in SUBSET Nat
          BY <2>2, <1>0 DEF FeedInv, FeedTypeOK
        <4> QED BY <2>0, <2>2, <3>1, <4>1, <1>0
                DEF FeedInv, FeedTypeOK, WireEndsAtPos, BusAscends
      <3>3. NothingSkipped'
        <4>1. ASSUME NEW b \in Nat, \A s \in (b + 1)..head : s \in unsent \/ OnItsWay(s)
              PROVE  \A s \in (b + 1)..head' : s \in unsent' \/ OnItsWay(s)'
          <5>1. \A s \in (b + 1)..head' : s \in (b + 1)..head \/ s = head + 1
            BY <2>0, <1>0
          <5> QED BY <5>1, <4>1, <2>0, <2>2 DEF OnItsWay
        <4>2. pos \in Nat /\ target \in Nat
          BY DEF FeedInv, FeedTypeOK
        <4> QED BY <2>0, <2>2, <4>1, <4>2, <1>0 DEF FeedInv, NothingSkipped
      <3> QED BY <3>1, <3>2, <3>3 DEF FeedInv
    <2> QED BY <1>1, <2>1, <2>2 DEF append_and_broadcast
  <1>2. CASE Connect
    <2>1. PanelInv' /\ LastSent' = LastSent
      BY <1>2, <1>0, PanelUnchanged DEF Connect
    <2> QED BY <1>2, <2>1, <1>0 DEF Connect, FeedInv, FeedTypeOK, BusAscends, WireEndsAtPos,
                                    NothingSkipped, Phase
  <1>3. CASE snapshot
    <2>1. PanelInv' /\ LastSent' = LastSent
      BY <1>3, <1>0, PanelUnchanged DEF snapshot
    <2>2. LastSent = cursor
      BY <1>3 DEF snapshot, FeedInv, WireEndsAtPos, LastSent
    <2>3. FeedTypeOK' /\ BusAscends' /\ WireEndsAtPos'
      BY <1>3, <2>1, <2>2 DEF snapshot, FeedInv, PanelInv, FeedTypeOK, BusAscends,
                                  WireEndsAtPos, Phase
    <2>4. NothingSkipped'
      <3>1. (target' + 1)..head' = {} /\ pos' <= target' /\ target' <= head'
        BY <1>3, <1>0 DEF snapshot, FeedInv, PanelInv, FeedTypeOK
      <3> QED BY <1>3, <3>1 DEF snapshot, FeedInv, NothingSkipped
    <2> QED BY <2>1, <2>3, <2>4 DEF FeedInv
  <1>4. CASE SendTail
    <2>1. /\ wire' = Append(wire, pos + 1) /\ pos' = pos + 1
          /\ pos < target /\ Len(wire) < WireCap /\ phase = "sending"
          /\ UNCHANGED <<head, unsent, bus, phase, next, target, cursor, seen, drops>>
      BY <1>4 DEF SendTail
    <2>2. pos = LastSent /\ pos \in Nat /\ target \in Nat /\ target <= head
      BY <2>1 DEF FeedInv, FeedTypeOK, WireEndsAtPos, NothingSkipped
    <2>3. /\ wire' \in Seq(Nat) /\ Len(wire') <= WireCap
          /\ LastSent' = pos + 1 /\ FramesFollowCursor' /\ FramesLogged'
      <3>1. /\ pos + 1 \in Nat /\ LastSent < pos + 1 /\ pos + 1 <= head
            /\ (LastSent + 1)..((pos + 1) - 1) \subseteq unsent
        BY <2>1, <2>2, <1>0
      <3> HIDE FeedAssumption
      <3> QED BY <2>1, <3>1, SendFrame
    <2>4. FeedTypeOK' /\ PanelInv' /\ BusAscends'
      BY <2>1, <2>2, <2>3 DEF FeedInv, FeedTypeOK, PanelInv, HolesWereUnsent, BusAscends
    <2>5. WireEndsAtPos'
      BY <2>1, <2>2, <2>3, <1>0 DEF WireEndsAtPos
    <2>6. NothingSkipped'
      BY <2>1, <2>2 DEF FeedInv, NothingSkipped, OnItsWay
    <2> QED BY <2>3, <2>4, <2>5, <2>6 DEF FeedInv
  <1>5. CASE TailSent
    <2>1. PanelInv' /\ LastSent' = LastSent
      BY <1>5, <1>0, PanelUnchanged DEF TailSent
    <2> QED BY <1>5, <2>1 DEF TailSent, FeedInv, FeedTypeOK, BusAscends, WireEndsAtPos,
                              NothingSkipped, OnItsWay, Phase
  <1>6. CASE LiveRecv
    <2>1. /\ phase = "live" /\ next \in 1..Len(bus) /\ next' = next + 1
          /\ UNCHANGED <<head, unsent, bus, phase, target, cursor, seen, drops>>
      <3>1. /\ phase = "live" /\ next' = next + 1 /\ Len(bus) - next + 1 \in 1..Cap
            /\ UNCHANGED <<head, unsent, bus, phase, target, cursor, seen, drops>>
        BY <1>6 DEF LiveRecv, Backlog
      <3> QED BY <3>1, <1>0 DEF FeedInv, FeedTypeOK
    <2>2. bus[next] \in Nat /\ bus[next] <= head /\ pos \in Nat /\ next \in Nat
      BY <2>1, <1>0 DEF FeedInv, FeedTypeOK, BusAscends
    <2>3. ASSUME NEW s \in Nat, OnItsWay(s) PROVE s = bus[next] \/ (bus[next] < s /\ OnItsWay(s)')
      <3>1. PICK i \in next..Len(bus) : bus[i] = s
        BY <2>3 DEF OnItsWay
      <3>2. CASE i = next
        BY <3>1, <3>2
      <3>3. CASE i # next
        <4>1. i \in next'..Len(bus') /\ bus'[i] = s
          BY <3>1, <3>3, <2>1, <2>2, <1>0
        <4>2. bus[next] < bus[i]
          BY <3>1, <3>3, <2>1, <2>2, <1>0 DEF FeedInv, BusAscends
        <4> QED BY <3>1, <4>1, <4>2 DEF OnItsWay
      <3> QED BY <3>2, <3>3
    <2>4. \A s \in (pos + 1)..head : s \in unsent \/ s = bus[next]
                                     \/ (bus[next] < s /\ OnItsWay(s)')
      BY <2>1, <2>2, <2>3, <1>0 DEF FeedInv, NothingSkipped
    <2>5. (phase # "closed" => next <= Len(bus) + 1)'
      BY <2>1, <1>0
    <2>6. CASE bus[next] > pos
      <3>1. pos' = bus[next] /\ wire' = Append(wire, bus[next]) /\ Len(wire) < WireCap
        BY <1>6, <2>6 DEF LiveRecv
      <3>2. pos = LastSent
        BY <2>1 DEF FeedInv, WireEndsAtPos
      <3>3. (pos + 1)..(bus[next] - 1) \subseteq unsent
        BY <2>2, <2>4, <1>0
      <3>4. /\ wire' \in Seq(Nat) /\ Len(wire') <= WireCap
            /\ LastSent' = bus[next] /\ FramesFollowCursor' /\ FramesLogged'
        BY <2>1, <2>2, <2>6, <3>1, <3>2, <3>3, SendFrame
      <3>5. FeedTypeOK' /\ PanelInv' /\ BusAscends'
        BY <2>1, <2>2, <3>1, <3>4 DEF FeedInv, FeedTypeOK, PanelInv, HolesWereUnsent,
                                      BusAscends
      <3>6. WireEndsAtPos'
        BY <2>1, <2>2, <3>1, <3>4 DEF WireEndsAtPos
      <3>7. NothingSkipped'
        <4>1. \A s \in (pos' + 1)..head' : s \in unsent' \/ OnItsWay(s)'
          BY <2>1, <2>2, <2>4, <2>6, <3>1, <1>0
        <4> QED BY <2>1, <2>5, <4>1 DEF NothingSkipped
      <3> QED BY <3>4, <3>5, <3>6, <3>7 DEF FeedInv
    <2>7. CASE ~(bus[next] > pos)
      <3>1. UNCHANGED <<pos, wire>>
        BY <1>6, <2>7 DEF LiveRecv
      <3>2. PanelInv' /\ LastSent' = LastSent
        BY <2>1, <3>1, <1>0, PanelUnchanged
      <3>3. FeedTypeOK' /\ BusAscends' /\ WireEndsAtPos'
        BY <2>1, <2>2, <3>1, <3>2 DEF FeedInv, FeedTypeOK, BusAscends, WireEndsAtPos
      <3>4. NothingSkipped'
        <4>1. \A s \in (pos' + 1)..head' : s \in unsent' \/ OnItsWay(s)'
          BY <2>1, <2>2, <2>4, <2>7, <3>1, <1>0
        <4> QED BY <2>1, <2>5, <4>1 DEF NothingSkipped
      <3> QED BY <3>2, <3>3, <3>4 DEF FeedInv
    <2> QED BY <2>6, <2>7
  <1>7. CASE Lagged
    <2>1. PanelInv' /\ LastSent' = LastSent
      BY <1>7, <1>0, PanelUnchanged DEF Lagged
    <2> QED BY <1>7, <2>1, <1>0 DEF Lagged, Backlog, FeedInv, FeedTypeOK, BusAscends,
                                    WireEndsAtPos, NothingSkipped, Phase
  <1>8. CASE Resync
    <2>1. PanelInv' /\ LastSent' = LastSent
      BY <1>8, <1>0, PanelUnchanged DEF Resync
    <2>2. NothingSkipped'
      BY <1>8, <1>0 DEF Resync, FeedInv, FeedTypeOK, WireEndsAtPos, NothingSkipped
    <2> QED BY <1>8, <2>1, <2>2 DEF Resync, FeedInv, FeedTypeOK, BusAscends,
                                    WireEndsAtPos, Phase
  <1>9. CASE ClientReceive
    <2>1. /\ seen' = seen \cup {Head(wire)}
          /\ UNCHANGED <<head, unsent, bus, phase, next, pos, target, drops>>
      BY <1>9 DEF ClientReceive
    <2>2. /\ Len(wire) \in Nat \ {0} /\ phase \in {"sending", "live", "lagged"}
          /\ Head(wire) \in Nat /\ cursor < Head(wire) /\ cursor' = Head(wire)
          /\ (cursor + 1)..(Head(wire) - 1) \subseteq unsent
          /\ wire' \in Seq(Nat) /\ Len(wire') = Len(wire) - 1
          /\ LastSent' = LastSent /\ FramesFollowCursor' /\ FramesLogged' /\ Head(wire) <= head
      BY <1>9, TakeFrame
    <2>3. cursor \in Nat /\ seen \subseteq 1..cursor /\ (1..cursor) \ seen \subseteq unsent
          /\ seen \subseteq Nat
      BY DEF FeedInv, PanelInv, FeedTypeOK, HolesWereUnsent
    <2>4. HolesWereUnsent'
      <3> DEFINE h == Head(wire)
      <3>1. seen \cup {h} \subseteq 1..h
        <4>1. h \in 1..h /\ \A s \in 1..cursor : s \in 1..h
          BY <2>2, <2>3
        <4> HIDE DEF h
        <4> QED BY <2>3, <4>1
      <3>2. \A s \in 1..h : s \in 1..cursor \/ s \in (cursor + 1)..(h - 1) \/ s = h
        BY <2>2, <2>3
      <3>3. (1..h) \ (seen \cup {h}) \subseteq unsent
        <4> HIDE DEF h
        <4> QED BY <2>2, <2>3, <3>2 DEF h
      <3> QED BY <2>1, <2>2, <3>1, <3>3 DEF HolesWereUnsent
    <2>5. FeedTypeOK'
      <3>1. seen' \in SUBSET Nat /\ Len(wire') <= WireCap
        <4>1. seen \cup {Head(wire)} \subseteq Nat
          BY <2>2, <2>3
        <4>2. Len(wire) <= WireCap
          BY DEF FeedInv, FeedTypeOK
        <4> QED BY <2>1, <2>2, <4>1, <4>2
      <3> QED BY <2>1, <2>2, <3>1 DEF FeedInv, FeedTypeOK
    <2>6. PanelInv'
      BY <2>1, <2>2, <2>4 DEF PanelInv
    <2>7. BusAscends' /\ WireEndsAtPos' /\ NothingSkipped'
      BY <2>1, <2>2 DEF FeedInv, BusAscends, WireEndsAtPos, NothingSkipped, OnItsWay
    <2> QED BY <2>2, <2>4, <2>5, <2>6, <2>7 DEF FeedInv
  <1>10. CASE Drop
    BY <1>10, <1>0 DEF Drop, FeedInv, PanelInv, FeedTypeOK, HolesWereUnsent,
                       FramesFollowCursor,
                       FramesLogged, BusAscends, WireEndsAtPos, NothingSkipped, Phase
  <1>11. CASE HubRestart
    BY <1>11, <1>0 DEF HubRestart, FeedInv, PanelInv, FeedTypeOK, HolesWereUnsent,
                       FramesFollowCursor,
                       FramesLogged, BusAscends, WireEndsAtPos, NothingSkipped, Phase
  <1>12. CASE UNCHANGED feedVars
    BY <1>12 DEF feedVars, FeedInv, PanelInv, FeedTypeOK, HolesWereUnsent,
                 FramesFollowCursor,
                 Before, FramesLogged, BusAscends, WireEndsAtPos, LastSent, NothingSkipped,
                 OnItsWay
  <1> QED BY <1>1, <1>2, <1>3, <1>4, <1>5, <1>6, <1>7, <1>8, <1>9, <1>10, <1>11,
             <1>12 DEF FeedNext, Progress

\* The inductive invariant of the client feed.
THEOREM FeedInvariant ==
  FeedSpec => []FeedInv
  BY FeedStarts, FeedStep, PTL DEF FeedSpec

\* A panel lacks nothing below its cursor but events that were never broadcast,
\* whatever the bus capacity, the socket buffer, the lag and the number of lost
\* links and hub restarts.
THEOREM ClientLacksOnlyUnsent ==
  FeedSpec => []HolesWereUnsent
  <1>1. FeedInv => HolesWereUnsent
    BY DEF FeedInv, PanelInv
  <1> QED BY <1>1, FeedInvariant, PTL

\* handle_client never sends a frame twice or out of order on one link, and
\* passes over nothing that was broadcast.
THEOREM FramesAreOrdered ==
  FeedSpec => []FramesFollowCursor
  <1>1. FeedInv => FramesFollowCursor
    BY DEF FeedInv, PanelInv
  <1> QED BY <1>1, FeedInvariant, PTL

\* The feed implements ordered delivery: each step logs one event, moves the
\* cursor to the next event that was broadcast, or is invisible to the client.
THEOREM FeedImplementsOrderedDelivery ==
  FeedSpec => ImplementsOrderedDelivery
  <1>1. FeedInit => Abstract!Init
    BY FeedAssumption DEF FeedInit, Abstract!Init
  <1>2. FeedInv /\ [FeedNext]_feedVars => [Abstract!Next]_(Abstract!vars)
    <2> SUFFICES ASSUME FeedInv, [FeedNext]_feedVars
                 PROVE  [Abstract!Next]_(Abstract!vars)
      OBVIOUS
    <2>1. CASE append_and_broadcast
      BY <2>1 DEF append_and_broadcast, Abstract!Next, Abstract!Publish
    <2>2. CASE ClientReceive
      <3>1. /\ Head(wire) \in Nat /\ cursor < Head(wire) /\ Head(wire) <= head
            /\ cursor' = Head(wire)
            /\ (cursor + 1)..(Head(wire) - 1) \subseteq unsent
        BY <2>2, TakeFrame
      <3>2. UNCHANGED <<head, unsent>>
        BY <2>2 DEF ClientReceive
      <3>3. Head(wire) \in (cursor + 1)..head
        BY <3>1 DEF FeedInv, FeedTypeOK
      <3> QED BY <3>1, <3>2, <3>3 DEF Abstract!Next, Abstract!Deliver
    <2>3. CASE Progress \/ Drop \/ HubRestart \/ UNCHANGED feedVars
      BY <2>3 DEF Progress, Connect, snapshot, SendTail, TailSent,
                  LiveRecv, Lagged,
                  Resync, Drop, HubRestart, feedVars, Abstract!vars
    <2> QED BY <2>1, <2>2, <2>3 DEF FeedNext
  <1> QED BY <1>1, <1>2, FeedInvariant, PTL DEF FeedSpec, Abstract!Spec,
             ImplementsOrderedDelivery
=============================================================================
