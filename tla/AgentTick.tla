----------------------------- MODULE AgentTick -----------------------------
(***************************************************************************)
(* One tracker agent: tick of crates/stackhour-agent/src/lib.rs with its   *)
(* two files, the offline queue (queue.rs) and the watcher offsets         *)
(* (state.rs, tail.rs), and the server's idempotent ingest                 *)
(* (stackhour-server/src/ingest.rs, stackhour-store/src/db.rs).            *)
(*                                                                         *)
(* Heartbeats are numbered in the order a watcher reads them from its      *)
(* source.  The process may die between any two file operations, and in    *)
(* the middle of the one that is not atomic, the queue append.             *)
(***************************************************************************)
EXTENDS Integers, Sequences, FiniteSets, SequencesExt

CONSTANTS
    MaxRows,        \* heartbeats the source produces
    MaxBatch,       \* rows that fit in MAX_SEND_BYTES
    MaxTickFaults   \* crashes, failed writes and failed posts

ASSUME AgentAssumption ==
    /\ MaxRows \in Nat /\ MaxBatch \in Nat \ {0} /\ MaxTickFaults \in Nat

VARIABLES
    source,   \* heartbeats available to the watcher
    offset,   \* agent-state.json: how far the watcher has read
    queue,    \* complete lines of queue.jsonl; 0 is a line that does not parse
    torn,     \* whether queue.jsonl ends in half a line
    server,   \* rows of the heartbeats table, in insertion order
    pc,       \* where tick is
    memory,   \* the offset in memory
    fresh,    \* rows this tick's watchers returned
    pending,  \* what the tick may send
    taken,    \* rows of the batch the server confirmed
    spoiled,  \* history: rows an append lost, by an error or on a half line
    tick_faults

tickVars == <<source, offset, queue, torn, server, pc, memory, fresh, pending, taken,
              spoiled, tick_faults>>

Row == 1..MaxRows
Garbage == 0

TickTypeOK ==
    /\ source \in 0..MaxRows /\ offset \in 0..MaxRows /\ memory \in 0..MaxRows
    /\ queue \in Seq(Row \cup {Garbage}) /\ torn \in BOOLEAN
    /\ server \in Seq(Row)
    /\ pc \in {"idle", "collected", "persisted", "saved", "confirmed"}
    /\ fresh \in Seq(Row) /\ pending \in Seq(Row)
    /\ taken \in 0..MaxBatch /\ tick_faults \in 0..MaxTickFaults
    /\ spoiled \in SUBSET Row

TickInit ==
    /\ source = 0 /\ offset = 0 /\ queue = <<>> /\ torn = FALSE /\ server = <<>>
    /\ pc = "idle" /\ memory = 0 /\ fresh = <<>> /\ pending = <<>> /\ taken = 0
    /\ spoiled = {} /\ tick_faults = 0

TickFault == tick_faults < MaxTickFaults /\ tick_faults' = tick_faults + 1

\* The elements of s at a set of positions, in order: the k-th is the one that
\* has k of the positions up to it.
Rank(at, i) == Cardinality({j \in at : j <= i})
Kept(s, at) == [k \in 1..Cardinality(at) |-> s[CHOOSE i \in at : Rank(at, i) = k]]

\* Bad lines are silently dropped.
read_queue == Kept(queue, {i \in DOMAIN queue : queue[i] # Garbage})

\* The first appended row lands on the half line, if there is one.
Appended(rows) ==
    IF torn /\ rows # <<>> THEN queue \o <<Garbage>> \o Tail(rows) ELSE queue \o rows

\* INSERT OR IGNORE on the dedupe key: a row that is there, or came earlier in the
\* batch, is skipped.
Inserted(table, rows) ==
    {i \in DOMAIN rows : /\ ~Contains(table, rows[i])
                         /\ \A j \in 1..(i - 1) : rows[j] # rows[i]}
insert_heartbeats(table, rows) == table \o Kept(rows, Inserted(table, rows))

-----------------------------------------------------------------------------

\* The user works.
Produce ==
    /\ source < MaxRows
    /\ source' = source + 1
    /\ UNCHANGED <<offset, queue, torn, server, pc, memory, fresh, pending, taken,
                   spoiled, tick_faults>>

\* Mutant of run_watchers: the offset is saved before the rows are on disk.
run_watchersSavesFirst ==
    /\ pc = "idle"
    /\ pc' = "collected"
    /\ fresh' = [i \in 1..(source - offset) |-> offset + i]
    /\ memory' = source /\ offset' = source
    /\ pending' = read_queue \o [i \in 1..(source - offset) |-> offset + i]
    /\ UNCHANGED <<source, queue, torn, server, taken, spoiled, tick_faults>>

\* load_state, run_watchers, read_queue.
run_watchers ==
    /\ pc = "idle"
    /\ pc' = "collected"
    /\ fresh' = [i \in 1..(source - offset) |-> offset + i]
    /\ memory' = source
    /\ pending' = read_queue \o [i \in 1..(source - offset) |-> offset + i]
    /\ UNCHANGED <<source, offset, queue, torn, server, taken, spoiled, tick_faults>>

append_queue ==
    /\ pc = "collected"
    /\ pc' = "persisted"
    /\ queue' = Appended(fresh)
    /\ torn' = (torn /\ fresh = <<>>)
    /\ spoiled' = IF torn /\ fresh # <<>> THEN spoiled \cup {Head(fresh)} ELSE spoiled
    /\ UNCHANGED <<source, offset, server, memory, fresh, pending, taken, tick_faults>>

\* An append that does not succeed has written nothing, all of it, or some rows
\* and half of the next one.
PartialAppend ==
    \/ UNCHANGED <<queue, torn>>
    \/ \E n \in 0..Len(fresh) :
           /\ queue' = Appended(SubSeq(fresh, 1, n))
           /\ torn' = (n < Len(fresh))

\* The error is logged and the tick goes on.
AppendFails ==
    /\ pc = "collected" /\ fresh # <<>>
    /\ TickFault
    /\ pc' = "persisted"
    /\ PartialAppend
    /\ spoiled' = spoiled \cup {n \in ToSet(fresh) : ~Contains(queue', n)}
    /\ UNCHANGED <<source, offset, server, memory, fresh, pending, taken>>

save_state ==
    /\ pc = "persisted"
    /\ pc' = "saved"
    /\ \/ offset' = memory /\ UNCHANGED tick_faults
       \/ TickFault /\ UNCHANGED offset
    /\ UNCHANGED <<source, queue, torn, server, memory, fresh, pending, taken, spoiled>>

NothingToSend ==
    /\ pc = "saved" /\ pending = <<>>
    /\ pc' = "idle"
    /\ UNCHANGED <<source, offset, queue, torn, server, memory, fresh, pending, taken,
                   spoiled, tick_faults>>

\* The leading rows that fit; the first one always does.
take_send_batch == IF Len(pending) < MaxBatch THEN Len(pending) ELSE MaxBatch

post_ingest ==
    /\ pc = "saved" /\ pending # <<>>
    /\ pc' = "confirmed"
    /\ server' = insert_heartbeats(server, SubSeq(pending, 1, take_send_batch))
    /\ taken' = take_send_batch
    /\ UNCHANGED <<source, offset, queue, torn, memory, fresh, pending, spoiled, tick_faults>>

\* No answer: the batch may or may not have been inserted.
PostFails ==
    /\ pc = "saved" /\ pending # <<>>
    /\ TickFault
    /\ pc' = "idle"
    /\ server' \in {server, insert_heartbeats(server, SubSeq(pending, 1, take_send_batch))}
    /\ UNCHANGED <<source, offset, queue, torn, memory, fresh, pending, taken, spoiled>>

\* Mutant of save_queue: the rows that did not fit in the batch go with it.
save_queueDropsRest ==
    /\ pc = "confirmed"
    /\ pc' = "idle"
    /\ queue' = <<>> /\ torn' = FALSE
    /\ UNCHANGED <<source, offset, server, memory, fresh, pending, taken, spoiled,
                   tick_faults>>

\* The queue is rewritten with what was not sent, or the rewrite fails.
save_queue ==
    /\ pc = "confirmed"
    /\ pc' = "idle"
    /\ \/ /\ queue' = SubSeq(pending, taken + 1, Len(pending))
          /\ torn' = FALSE
          /\ UNCHANGED tick_faults
       \/ TickFault /\ UNCHANGED <<queue, torn>>
    /\ UNCHANGED <<source, offset, server, memory, fresh, pending, taken, spoiled>>

\* The process dies; launchd or systemd starts it again.
Crash ==
    /\ pc # "idle"
    /\ TickFault
    /\ pc' = "idle"
    /\ UNCHANGED <<source, offset, queue, torn, server, memory, fresh, pending, taken,
                   spoiled>>

\* It dies inside append_queue.
CrashInAppend ==
    /\ pc = "collected" /\ fresh # <<>>
    /\ TickFault
    /\ pc' = "idle"
    /\ PartialAppend
    /\ UNCHANGED <<source, offset, server, memory, fresh, pending, taken, spoiled>>

TickStep == \/ run_watchers \/ append_queue \/ save_state \/ NothingToSend \/ post_ingest
            \/ save_queue

TickNext == Produce \/ TickStep \/ AppendFails \/ PostFails \/ Crash \/ CrashInAppend

TickSpec == TickInit /\ [][TickNext]_tickVars

\* The agent's loop goes on, and the service manager restarts it.
TickFairSpec == TickSpec /\ WF_tickVars(TickStep)

-----------------------------------------------------------------------------
(* Correctness.                                                            *)

InQueue(n) == Contains(queue, n)
Stored(n) == Contains(server, n)

\* "SACRED ORDERING": an offset never runs ahead of what is on disk or on the
\* server, so that a crash replays work and loses none - a lost append aside.
NoActivityLost == \A n \in 1..offset : InQueue(n) \/ Stored(n) \/ n \in spoiled

\* "Ingest is idempotent on the dedupe key": replays, resends after a lost answer
\* and stale queue files never count a heartbeat twice.
StoredOnce == \A i, j \in DOMAIN server : server[i] = server[j] => i = j

\* "The queue is rewritten ONLY after the server confirms": a row leaves the queue
\* only when the server has it.
QueueDropsOnlyStored ==
    [][\A n \in Row : InQueue(n) => InQueue(n)' \/ Stored(n)']_tickVars

\* Once faults stop, every heartbeat that no append has lost reaches the server.
EventuallyStored == \A n \in Row : (n <= source) ~> (Stored(n) \/ n \in spoiled)

\* Crashes between any two file operations, torn appends and lost answers neither lose
\* a heartbeat whose own append succeeded nor count one twice.
ActivityKept == TickTypeOK /\ NoActivityLost /\ StoredOnce

\* The queue empties only into the server, and does so in the end.
TicksDeliver == QueueDropsOnlyStored /\ EventuallyStored
=============================================================================
