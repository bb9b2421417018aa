------------------------------ MODULE HubStore ------------------------------
(***************************************************************************)
(* The durable control-plane store: struct Hub of                          *)
(* crates/stackhour-domain/src/store.rs.  One SQLite database holds the    *)
(* event log, the command receipts, the task, run, approval and node rows, *)
(* the dispatches a node has not acknowledged yet, and the wakes owed to   *)
(* the hub-local assistant.                                                *)
(*                                                                         *)
(* Every public method is one transaction, so each is one action here.  A  *)
(* transaction that fails rolls back and changes nothing: it is a          *)
(* stuttering step.  Titles, payloads and timestamps are left out.         *)
(***************************************************************************)
EXTENDS Integers, Sequences, FiniteSetsExt

CONSTANTS
    Command,     \* ids of client commands
    NodeEvent,   \* event ids minted outside append_command_bundle
    Task, Run, Approval, Channel, Actor,
    Node,        \* node ids, HubNode among them
    HubNode,     \* hub_node(): owner of hub-originated events
    SystemTask,  \* system_task(): the nil task id, never a row
    None,        \* an absent optional value
    MaxAttempts  \* bound on a wake's attempt_count

ASSUME ConstantsAssumption ==
    /\ HubNode \in Node
    /\ SystemTask \notin Task
    /\ Command \cap NodeEvent = {}
    /\ None \notin Command \cup NodeEvent \cup Task \cup Run \cup Approval
                   \cup Channel \cup Actor \cup Node
    /\ SystemTask # None
    /\ MaxAttempts \in Nat

VARIABLES
    events,      \* the events table, a set of rows
    receipts,    \* command_receipts, by command
    tasks, runs, \* status / row by id, None when absent
    dispatches,  \* pending_dispatches in rowid order
    workers,     \* assistant_workers: the channel a task reports to
    wakes,       \* assistant_wakes, by event
    approvals,
    nodeRows     \* nodes: the stored connection status

storeVars == <<events, receipts, tasks, runs, dispatches, workers, wakes,
               approvals, nodeRows>>

TaskStatus == {"open", "running", "completed", "failed", "interrupted"}
RunStatus == {"started", "completed", "failed", "interrupted"}
Decision == {"pending", "allowed", "denied"}
TerminalKind == {"run.completed", "run.failed", "run.interrupted"}
EventKind == TerminalKind \cup
    {"task.created", "run.started", "message.user", "message.assistant.completed",
     "approval.resolved", "node.connected", "node.disconnected"}
WorkKind == {"start_run", "send_prompt", "interrupt_run"}

EventId == Command \cup NodeEvent

EventDraft == [kind : EventKind, task_id : Task \cup {SystemTask},
               run_id : Run \cup {None}, node_id : Node]

Event == [sequence : Nat \ {0}, event_id : EventId, command_id : Command \cup {None},
          kind : EventKind, task_id : Task \cup {SystemTask},
          run_id : Run \cup {None}, node_id : Node]

Dispatch == [command_id : Command, node_id : Node, work : WorkKind, run_id : Run,
             acked : BOOLEAN]

RunRow == [task_id : Task, node_id : Node, status : RunStatus]
Receipt == [sequence : Nat \ {0}, event_id : EventId]
Wake == [sequence : Nat \ {0}, channel : Channel, run_id : Run,
         kind : {"run.completed", "run.failed"}, attempt_count : Nat,
         state : {"due", "deferred", "processed"}]
ApprovalRow == [run_id : Run, task_id : Task, decision : Decision,
                resolved_by : Actor \cup {None}]
NodeWork == [node_id : Node, work : WorkKind, run_id : Run]

\* A SQL NULL is no row and no status.
ASSUME NoneAssumption ==
    None \notin Receipt \cup RunRow \cup Wake \cup ApprovalRow \cup NodeWork
                \cup TaskStatus

TypeOK ==
    /\ events \in SUBSET Event
    /\ receipts \in [Command -> Receipt \cup {None}]
    /\ tasks \in [Task -> TaskStatus \cup {None}]
    /\ runs \in [Run -> RunRow \cup {None}]
    /\ dispatches \in Seq(Dispatch)
    /\ workers \in [Task -> Channel \cup {None}]
    /\ wakes \in [NodeEvent -> Wake \cup {None}]
    /\ approvals \in [Approval -> ApprovalRow \cup {None}]
    /\ nodeRows \in [Node -> {"connected", "disconnected", None}]

Init ==
    /\ events = {}
    /\ receipts = [c \in Command |-> None]
    /\ tasks = [t \in Task |-> None]
    /\ runs = [r \in Run |-> None]
    /\ dispatches = <<>>
    /\ workers = [t \in Task |-> None]
    /\ wakes = [e \in NodeEvent |-> None]
    /\ approvals = [a \in Approval |-> None]
    /\ nodeRows = [n \in Node |-> None]

-----------------------------------------------------------------------------
(* The event log.                                                          *)

SequencesOf(evs) == {e.sequence : e \in evs}

\* Mutant of next_sequence: the head is handed out again.
next_sequenceRepeats == IF events = {} THEN 1 ELSE Max(SequencesOf(events))

\* COALESCE(MAX(sequence), 0) + 1
next_sequence == IF events = {} THEN 1 ELSE Max(SequencesOf(events)) + 1

head_sequence == IF events = {} THEN 0 ELSE Max(SequencesOf(events))

\* A row of the events table: a draft stamped with what the hub assigns.
Stamp(seq, id, c, draft) ==
    [sequence |-> seq, event_id |-> id, command_id |-> c, kind |-> draft.kind,
     task_id |-> draft.task_id, run_id |-> draft.run_id, node_id |-> draft.node_id]

Draft(kind, t, r, n) == [kind |-> kind, task_id |-> t, run_id |-> r, node_id |-> n]

\* EventId::new() inside append_command_bundle: a fresh id, used at most once
\* because the receipt guards the insert.
MintedFor(c) == c

\* UPDATE tasks SET status ... WHERE task_id: no row, no effect.
SetTaskStatus(t, status) ==
    IF t \in Task /\ tasks[t] # None THEN [tasks EXCEPT ![t] = status] ELSE tasks

insert_task_row(draft) == [tasks EXCEPT ![draft.task_id] = "open"]

insert_run_row(draft) ==
    [runs EXCEPT ![draft.run_id] = [task_id |-> draft.task_id,
                                    node_id |-> draft.node_id,
                                    status |-> "started"]]

\* The INSERT into pending_dispatches; dispatch is None or the node work.
EnqueueDispatch(c, dispatch) ==
    IF dispatch = None THEN dispatches
    ELSE Append(dispatches, [command_id |-> c, node_id |-> dispatch.node_id,
                             work |-> dispatch.work, run_id |-> dispatch.run_id,
                             acked |-> FALSE])

\* The transaction's writes: event, receipt, entity row and dispatch together.
\* entity is "none", "task" or "run".
CommitBundle(c, draft, entity, dispatch) ==
    /\ events' = events \cup {Stamp(next_sequence, MintedFor(c), c, draft)}
    /\ receipts' = [receipts EXCEPT ![c] = [sequence |-> next_sequence,
                                            event_id |-> MintedFor(c)]]
    /\ tasks' = CASE entity = "task" -> insert_task_row(draft)
                  [] entity = "run" -> SetTaskStatus(draft.task_id, "running")
                  [] OTHER -> tasks
    /\ runs' = IF entity = "run" THEN insert_run_row(draft) ELSE runs
    /\ dispatches' = EnqueueDispatch(c, dispatch)
    /\ UNCHANGED <<workers, wakes, approvals, nodeRows>>

\* Mutant of append_command_bundle: the receipt is not looked up first.
append_command_bundleUnchecked(c, draft, entity, dispatch) ==
    CommitBundle(c, draft, entity, dispatch)

\* A command that has a receipt writes nothing.
append_command_bundle(c, draft, entity, dispatch) ==
    \/ receipts[c] # None /\ UNCHANGED storeVars
    \/ receipts[c] = None /\ CommitBundle(c, draft, entity, dispatch)

\* The status a terminal event gives its run and its task.
StatusOf(kind) == CASE kind = "run.completed" -> "completed"
                    [] kind = "run.failed" -> "failed"
                    [] kind = "run.interrupted" -> "interrupted"

\* Only terminal events that name a run touch the rows; completed and failed
\* ones of a registered worker also leave a wake.
apply_terminal_lifecycle_and_wake(e, draft) ==
    IF draft.kind \in TerminalKind /\ draft.run_id # None
    THEN /\ runs' = IF runs[draft.run_id] = None THEN runs
                    ELSE [runs EXCEPT ![draft.run_id].status = StatusOf(draft.kind)]
         /\ tasks' = SetTaskStatus(draft.task_id, StatusOf(draft.kind))
         /\ wakes' = IF /\ draft.kind # "run.interrupted"
                        /\ draft.task_id \in Task
                        /\ workers[draft.task_id] # None
                     THEN [wakes EXCEPT ![e] =
                              [sequence |-> next_sequence,
                               channel |-> workers[draft.task_id],
                               run_id |-> draft.run_id, kind |-> draft.kind,
                               attempt_count |-> 0, state |-> "due"]]
                     ELSE wakes
    ELSE UNCHANGED <<runs, tasks, wakes>>

\* Mutant of append_node_event: a resent event is not logged again, but its
\* lifecycle is applied again.
append_node_eventReapplies(e, draft) ==
    /\ events' = IF \E row \in events : row.event_id = e THEN events
                 ELSE events \cup {Stamp(next_sequence, e, None, draft)}
    /\ apply_terminal_lifecycle_and_wake(e, draft)
    /\ UNCHANGED <<receipts, dispatches, workers, approvals, nodeRows>>

\* De-duplicated by event id before a sequence is assigned.
append_node_event(e, draft) ==
    \/ /\ \E row \in events : row.event_id = e
       /\ UNCHANGED storeVars
    \/ /\ \A row \in events : row.event_id # e
       /\ events' = events \cup {Stamp(next_sequence, e, None, draft)}
       /\ apply_terminal_lifecycle_and_wake(e, draft)
       /\ UNCHANGED <<receipts, dispatches, workers, approvals, nodeRows>>

-----------------------------------------------------------------------------
(* Dispatches, wakes, approvals and nodes.                                 *)

\* Unacknowledged rows of one node, in rowid order.
pending_dispatches(n) ==
    SelectSeq(dispatches, LAMBDA d : d.node_id = n /\ ~d.acked)

acknowledge_dispatch_from(c, n) ==
    /\ dispatches' = [i \in DOMAIN dispatches |->
                         IF dispatches[i].command_id = c /\ dispatches[i].node_id = n
                         THEN [dispatches[i] EXCEPT !.acked = TRUE]
                         ELSE dispatches[i]]
    /\ UNCHANGED <<events, receipts, tasks, runs, workers, wakes, approvals, nodeRows>>

register_assistant_worker(ch, t) ==
    /\ workers' = [workers EXCEPT ![t] = ch]
    /\ UNCHANGED <<events, receipts, tasks, runs, dispatches, wakes, approvals, nodeRows>>

\* WHERE processed_at IS NULL: completing twice changes nothing.
complete_assistant_wake(e) ==
    /\ wakes' = IF wakes[e] # None /\ wakes[e].state # "processed"
                THEN [wakes EXCEPT ![e].state = "processed"] ELSE wakes
    /\ UNCHANGED <<events, receipts, tasks, runs, dispatches, workers, approvals, nodeRows>>

\* One more attempt, and not due again before its delay has passed.
defer_assistant_wake(e) ==
    /\ wakes' = IF wakes[e] # None /\ wakes[e].state # "processed"
                THEN [wakes EXCEPT ![e].attempt_count = @ + 1, ![e].state = "deferred"]
                ELSE wakes
    /\ UNCHANGED <<events, receipts, tasks, runs, dispatches, workers, approvals, nodeRows>>

\* The clock passes next_attempt_at.
WakeBecomesDue(e) ==
    /\ wakes[e] # None /\ wakes[e].state = "deferred"
    /\ wakes' = [wakes EXCEPT ![e].state = "due"]
    /\ UNCHANGED <<events, receipts, tasks, runs, dispatches, workers, approvals, nodeRows>>

request_approval(a, r, t) ==
    /\ approvals[a] = None
    /\ approvals' = [approvals EXCEPT ![a] = [run_id |-> r, task_id |-> t,
                                              decision |-> "pending",
                                              resolved_by |-> None]]
    /\ UNCHANGED <<events, receipts, tasks, runs, dispatches, workers, wakes, nodeRows>>

\* Mutant of resolve_approval: the last decision wins.
resolve_approvalLastWins(a, decision, actor) ==
    /\ decision # "pending"
    /\ approvals[a] # None
    /\ approvals' = [approvals EXCEPT ![a].decision = decision, ![a].resolved_by = actor]
    /\ UNCHANGED <<events, receipts, tasks, runs, dispatches, workers, wakes, nodeRows>>

\* The first decision wins; a later one is a no-op that reports the first.
resolve_approval(a, decision, actor) ==
    /\ decision # "pending"
    /\ approvals[a] # None
    /\ approvals' = IF approvals[a].decision = "pending"
                    THEN [approvals EXCEPT ![a].decision = decision,
                                           ![a].resolved_by = actor]
                    ELSE approvals
    /\ UNCHANGED <<events, receipts, tasks, runs, dispatches, workers, wakes, nodeRows>>

upsert_node(n, status) ==
    /\ nodeRows' = [nodeRows EXCEPT ![n] = status]
    /\ UNCHANGED <<events, receipts, tasks, runs, dispatches, workers, wakes, approvals>>

-----------------------------------------------------------------------------
(* What the hub asks of the store: the bundles HubState::apply_command_inner *)
(* builds and the node events HubState::accepts_node_event lets through.     *)

\* TaskId::new() and RunId::new(): ids nothing has named yet.
FreshTask(t) == /\ tasks[t] = None
                /\ \A e \in events : e.task_id # t
FreshRun(r) == /\ runs[r] = None
               /\ \A e \in events : e.run_id # r

CreateTask(c, t) ==
    /\ FreshTask(t)
    /\ append_command_bundle(c, Draft("task.created", t, None, HubNode), "task", None)

\* A run goes to a node the hub knows; its task is the client's word, unchecked.
StartRun(c, t, r, n) ==
    /\ FreshRun(r)
    /\ n # HubNode /\ nodeRows[n] # None
    /\ append_command_bundle(c, Draft("run.started", t, r, n), "run",
           [node_id |-> n, work |-> "start_run", run_id |-> r])

\* The hub-local assistant's own run: same rows, no dispatch.
start_hub_assistant_run(c, t, r) ==
    /\ FreshRun(r)
    /\ append_command_bundle(c, Draft("run.started", t, r, HubNode), "run", None)

\* run_binding, then the task's cached node: None when the cache is cold.
OwnerOf(t, r) ==
    IF r # None /\ runs[r] # None THEN {runs[r].node_id}
    ELSE {None} \cup {runs[x].node_id : x \in {y \in Run : /\ runs[y] # None
                                                           /\ runs[y].task_id = t}}

\* A hub-owned run is refused; a message without a node or a run has no dispatch.
SendUserMessage(c, t, r) ==
    \E n \in OwnerOf(t, r) \ {HubNode} :
        append_command_bundle(c,
            Draft("message.user", t, r, IF n = None THEN HubNode ELSE n), "none",
            IF n = None \/ r = None THEN None
            ELSE [node_id |-> n, work |-> "send_prompt", run_id |-> r])

append_hub_assistant_message(c, r) ==
    /\ runs[r] # None /\ runs[r].node_id = HubNode
    /\ append_command_bundle(c, Draft("message.user", runs[r].task_id, r, HubNode),
           "none", None)

\* The request is logged as run.interrupted; an unknown run is filed under the
\* system task and dispatched nowhere.
InterruptRun(c, r) ==
    \/ /\ runs[r] # None /\ runs[r].node_id # HubNode
       /\ append_command_bundle(c,
              Draft("run.interrupted", runs[r].task_id, r, runs[r].node_id), "none",
              [node_id |-> runs[r].node_id, work |-> "interrupt_run", run_id |-> r])
    \/ /\ runs[r] = None
       /\ append_command_bundle(c, Draft("run.interrupted", SystemTask, r, HubNode),
              "none", None)

\* The second of ResolveApproval's two transactions.
LogApprovalResolved(c, a) ==
    /\ approvals[a] # None /\ approvals[a].decision # "pending"
    /\ append_command_bundle(c,
           Draft("approval.resolved", approvals[a].task_id, approvals[a].run_id, HubNode),
           "none", None)

\* A run's own node (the hub itself for the assistant) reports on it.
RunEvent(e, r, kind) ==
    /\ runs[r] # None
    /\ append_node_event(e, Draft(kind, runs[r].task_id, r, runs[r].node_id))

NodeLifecycleEvent(e, n, kind) ==
    append_node_event(e, Draft(kind, SystemTask, None, n))

Next ==
    \/ \E c \in Command, t \in Task : CreateTask(c, t)
    \/ \E c \in Command, t \in Task, r \in Run, n \in Node : StartRun(c, t, r, n)
    \/ \E c \in Command, t \in Task, r \in Run : start_hub_assistant_run(c, t, r)
    \/ \E c \in Command, t \in Task, r \in Run \cup {None} : SendUserMessage(c, t, r)
    \/ \E c \in Command, r \in Run : append_hub_assistant_message(c, r)
    \/ \E c \in Command, r \in Run : InterruptRun(c, r)
    \/ \E c \in Command, a \in Approval : LogApprovalResolved(c, a)
    \/ \E e \in NodeEvent, r \in Run,
          kind \in TerminalKind \cup {"message.assistant.completed"} : RunEvent(e, r, kind)
    \/ \E e \in NodeEvent, n \in Node \ {HubNode},
          kind \in {"node.connected", "node.disconnected"} : NodeLifecycleEvent(e, n, kind)
    \/ \E c \in Command, n \in Node : acknowledge_dispatch_from(c, n)
    \/ \E ch \in Channel, t \in Task : register_assistant_worker(ch, t)
    \/ \E e \in NodeEvent : complete_assistant_wake(e)
    \/ \E e \in NodeEvent : /\ wakes[e] # None => wakes[e].attempt_count < MaxAttempts
                            /\ defer_assistant_wake(e)
    \/ \E e \in NodeEvent : WakeBecomesDue(e)
    \/ \E a \in Approval, r \in Run : /\ runs[r] # None
                                      /\ request_approval(a, r, runs[r].task_id)
    \/ \E a \in Approval, d \in Decision, actor \in Actor : resolve_approval(a, d, actor)
    \/ \E n \in Node \ {HubNode}, status \in {"connected", "disconnected"} :
          upsert_node(n, status)

Spec == Init /\ [][Next]_storeVars

-----------------------------------------------------------------------------
(* Safety.                                                                 *)

\* The log's sequences are exactly 1..n, each used once: "the tail is provably
\* gapless" although a sequence is only ever MAX + 1.
Gapless ==
    /\ SequencesOf(events) = 1..head_sequence
    /\ \A e, f \in events : e.sequence = f.sequence => e = f

\* A command has a receipt exactly when its event is in the log, the receipt
\* names that event, and no event id occurs twice: a retry has one effect.
ReceiptsMatchLog ==
    /\ \A c \in Command : receipts[c] # None <=> \E e \in events : e.command_id = c
    /\ \A e \in events : e.command_id # None =>
           receipts[e.command_id] = [sequence |-> e.sequence, event_id |-> e.event_id]
    /\ \A e, f \in events : e.event_id = f.event_id => e = f

\* A dispatch row exists only for an accepted command, never twice, and a
\* start_run row names the node of the run's own row.
DispatchesMatchReceipts ==
    /\ \A i \in DOMAIN dispatches : receipts[dispatches[i].command_id] # None
    /\ \A i, j \in DOMAIN dispatches :
           dispatches[i].command_id = dispatches[j].command_id => i = j
    /\ \A i \in DOMAIN dispatches :
           dispatches[i].work = "start_run" =>
               /\ runs[dispatches[i].run_id] # None
               /\ runs[dispatches[i].run_id].node_id = dispatches[i].node_id

\* "A restart cannot leave an event without its task or run" - nor a row
\* without the one event that announced it.
EntitiesMatchLog ==
    /\ \A t \in Task : tasks[t] # None
           <=> \E e \in events : e.kind = "task.created" /\ e.task_id = t
    /\ \A r \in Run : runs[r] # None
           <=> \E e \in events : e.kind = "run.started" /\ e.run_id = r
    /\ \A e, f \in events : /\ e.kind \in {"task.created", "run.started"}
                            /\ e.kind = f.kind
                            /\ e.task_id = f.task_id
                            /\ e.run_id = f.run_id
                            => e = f

\* The newest event of a set.
Latest(evs) == CHOOSE e \in evs : \A f \in evs : f.sequence <= e.sequence

RunOutcomes(r) == {e \in events : /\ e.run_id = r
                                  /\ e.kind \in TerminalKind
                                  /\ e.command_id = None}

\* A run row shows the newest outcome its own node reported; a client's
\* interrupt request, although logged as run.interrupted, never moves it.
RunStatusFromLog ==
    \A r \in Run : runs[r] # None =>
        runs[r].status = IF RunOutcomes(r) = {} THEN "started"
                         ELSE StatusOf(Latest(RunOutcomes(r)).kind)

\* Every wake points at the completed or failed node event it was created with.
WakesMatchLog ==
    \A e \in NodeEvent : wakes[e] # None =>
        \E row \in events : /\ row.event_id = e
                            /\ row.sequence = wakes[e].sequence
                            /\ row.kind = wakes[e].kind
                            /\ row.run_id = wakes[e].run_id

\* No transaction takes back a durable fact: a logged event, a receipt, a
\* dispatch acknowledgement, a processed wake, a first approval decision.
DurableFactsPersist ==
    [][/\ events \subseteq events'
       /\ \A c \in Command : receipts[c] # None => receipts'[c] = receipts[c]
       /\ \A i \in DOMAIN dispatches : /\ i \in DOMAIN dispatches'
                                       /\ dispatches[i].acked => dispatches'[i] = dispatches[i]
       /\ \A e \in NodeEvent : wakes[e] # None /\ wakes[e].state = "processed" =>
              wakes'[e] = wakes[e]
       /\ \A a \in Approval : approvals[a] # None /\ approvals[a].decision # "pending" =>
              approvals'[a] = approvals[a]
      ]_storeVars

\* Every table tells the log's story, whatever transactions interleave and are
\* retried: dispatches belong to accepted commands, rows to the events that
\* announced them, statuses to the newest outcome, wakes to the event they report.
RowsMatchLog ==
    /\ DispatchesMatchReceipts
    /\ EntitiesMatchLog
    /\ RunStatusFromLog
    /\ WakesMatchLog
=============================================================================
