------------------------------ MODULE NodeLink ------------------------------
(***************************************************************************)
(* The link between the hub and one execution node, across reconnections:  *)
(* handle_node and the node registry of crates/stackhour-hub/src/lib.rs,   *)
(* the connection loop of crates/stackhour-node/src/lib.rs and the outbox  *)
(* of crates/stackhour-node/src/engine.rs.                                 *)
(*                                                                         *)
(* Commands travel down: a durable pending_dispatches row, a live send, a  *)
(* replay after every reconnection, an acknowledgement.  Events travel up: *)
(* an in-memory outbox, a resend after every reconnection and heartbeat, a *)
(* log de-duplicated by event id, an acknowledgement.  The two tables are  *)
(* HubStore's dispatches and events, cut down to one node.                 *)
(*                                                                         *)
(* Each connection has its own handler on the hub, and the two ends notice *)
(* a broken link at different times: an old handler may still be draining  *)
(* its socket while the node is already talking to a new one.              *)
(***************************************************************************)
EXTENDS Integers, Sequences, SequencesExt

CONSTANTS
    Command,            \* commands dispatched to the node
    MaxEvents,          \* events the node's engine emits, one task after another
    MaxConn,            \* connections the node opens; more than the faults where
                        \* liveness is checked, so that it can always dial again
    MaxFaults,          \* broken links, failed appends and hub crashes
    MaxNodeCrashes,
    PromptHandshake     \* the hub handles a hello before the node gives up on it
                        \* and its reconnect delay has passed

ASSUME LinkAssumption ==
    /\ MaxEvents \in Nat /\ MaxConn \in Nat /\ MaxFaults \in Nat
    /\ MaxNodeCrashes \in Nat
    /\ MaxConn > 0
    /\ PromptHandshake \in BOOLEAN

Conn == 1..MaxConn
EventId == 1..MaxEvents
DispatchFrame == {"dispatch"} \X Command
EventAckFrame == {"event_ack"} \X EventId
EventFrame == {"event"} \X EventId
CommandAckFrame == {"command_ack"} \X Command

VARIABLES
    dispatched, \* pending_dispatches, in rowid order
    acked,      \* rows with acknowledged_at
    log,        \* node events of the log, in sequence order
    status,     \* nodes.status
    routing,    \* commands committed by a client handler and not yet routed
    slot,       \* HubState.nodes: the connection that owns the node's entry
    handler,    \* where handle_node is, per connection
    todo,       \* what replay_pending has read and not yet routed
    broken,     \* links that have failed
    down, up,   \* frames in flight, per connection
    conns,      \* connections opened so far
    session,    \* the node's current connection, 0 when it has none
    joined,     \* whether that session has passed the handshake and attach
    tx,         \* OutboxState.tx
    attaching,  \* what attach has copied and not yet sent
    pending,    \* OutboxState.pending_events
    emitting,   \* the send emit_draft is about to make: <<event, tx>>
    emitted,    \* events emitted so far
    node_seen,  \* CliState.seen
    executed,   \* commands the engine acted on since it started
    acking,     \* ack tasks spawned and not yet run
    unrouted,   \* history: commands whose client handler left before routing
                \* them, and that no replay has read since
    faults, crashes

hubVars == <<dispatched, acked, log, status, routing, slot, handler, todo,
            unrouted>>
linkVars == <<broken, down, up, conns>>
outboxVars == <<tx, attaching, pending, emitting, emitted>>
engineVars == <<node_seen, executed, acking>>
vars == <<hubVars, linkVars, session, joined, outboxVars, engineVars, faults, crashes>>

HandlerPhase == {"none", "hello", "welcomed", "registered", "recorded", "replaying",
                 "looping", "leaving", "done", "failed"}

TypeOK ==
    /\ dispatched \in Seq(Command) /\ acked \in SUBSET Command
    /\ log \in Seq(EventId)
    /\ status \in {"connected", "disconnected"}
    /\ routing \in SUBSET Command /\ unrouted \in SUBSET Command
    /\ slot \in Conn \cup {0}
    /\ handler \in [Conn -> HandlerPhase]
    /\ todo \in [Conn -> SUBSET Command]
    /\ broken \in SUBSET Conn
    /\ down \in [Conn -> Seq(DispatchFrame \cup EventAckFrame)]
    /\ up \in [Conn -> Seq(EventFrame \cup CommandAckFrame)]
    /\ conns \in 0..MaxConn
    /\ session \in Conn \cup {0} /\ joined \in BOOLEAN
    /\ tx \in Conn \cup {0}
    /\ attaching \in Seq(EventId) /\ pending \in Seq(EventId)
    /\ emitting \in Seq(EventId \X (Conn \cup {0})) /\ emitted \in 0..MaxEvents
    /\ node_seen \in SUBSET Command /\ executed \in Seq(Command) /\ acking \in SUBSET Command
    /\ faults \in 0..MaxFaults /\ crashes \in 0..MaxNodeCrashes

\* The hub knows the node from an earlier enrolment; nothing is connected.
Init ==
    /\ dispatched = <<>> /\ acked = {} /\ log = <<>>
    /\ status = "disconnected" /\ routing = {} /\ unrouted = {} /\ slot = 0
    /\ handler = [k \in Conn |-> "none"] /\ todo = [k \in Conn |-> {}]
    /\ broken = {} /\ conns = 0
    /\ down = [k \in Conn |-> <<>>] /\ up = [k \in Conn |-> <<>>]
    /\ session = 0 /\ joined = FALSE
    /\ tx = 0 /\ attaching = <<>> /\ pending = <<>> /\ emitting = <<>> /\ emitted = 0
    /\ node_seen = {} /\ executed = <<>> /\ acking = {}
    /\ faults = 0 /\ crashes = 0

-----------------------------------------------------------------------------
(* The hub.                                                                *)

\* down after route_to_node: the frame joins the owner's queue, or is dropped.
route_to_node(frame) ==
    IF slot = 0 THEN down ELSE [down EXCEPT ![slot] = Append(@, frame)]

\* A client command commits with its dispatch row; its handler holds the work.
apply_command(c) ==
    /\ ~Contains(dispatched, c)
    /\ dispatched' = Append(dispatched, c)
    /\ routing' = routing \cup {c}
    /\ UNCHANGED <<unrouted, acked, log, status, slot, handler, todo, linkVars, session,
                   joined, outboxVars, engineVars, faults, crashes>>

\* Mutant of RouteEffect: the hub takes a live send for an acknowledgement.
RouteEffectAcks(c) ==
    /\ c \in routing
    /\ routing' = routing \ {c}
    /\ down' = route_to_node(<<"dispatch", c>>)
    /\ acked' = IF slot = 0 THEN acked ELSE acked \cup {c}
    /\ UNCHANGED <<unrouted, dispatched, log, status, slot, handler, todo, broken, up,
                   conns, session, joined, outboxVars, engineVars, faults, crashes>>

\* After the receipt is sent, the work goes to the node's connection.
RouteEffect(c) ==
    /\ c \in routing
    /\ routing' = routing \ {c}
    /\ down' = route_to_node(<<"dispatch", c>>)
    /\ UNCHANGED <<unrouted, dispatched, acked, log, status, slot, handler, todo,
                   broken, up, conns, session, joined, outboxVars, engineVars, faults,
                   crashes>>

\* The receipt cannot be sent: the handler leaves its loop without routing.
ReceiptFails(c) ==
    /\ c \in routing
    /\ routing' = routing \ {c}
    /\ unrouted' = unrouted \cup {c}
    /\ UNCHANGED <<dispatched, acked, log, status, slot, handler, todo, linkVars,
                   session, joined, outboxVars, engineVars, faults, crashes>>

Advance(k, from, to) == handler[k] = from /\ handler' = [handler EXCEPT ![k] = to]

\* The NodeHello is read and answered.
SendWelcome(k) ==
    /\ Advance(k, "hello", "welcomed")
    /\ UNCHANGED <<unrouted, dispatched, acked, log, status, routing, slot, todo,
                   linkVars, session, joined, outboxVars, engineVars, faults, crashes>>

\* Reading the hello or sending the welcome fails on a dead socket.
HandshakeFails(k) ==
    /\ k \in broken
    /\ Advance(k, "hello", "failed")
    /\ UNCHANGED <<unrouted, dispatched, acked, log, status, routing, slot, todo,
                   linkVars, session, joined, outboxVars, engineVars, faults, crashes>>

register_node(k) ==
    /\ Advance(k, "welcomed", "registered")
    /\ slot' = k
    /\ UNCHANGED <<unrouted, dispatched, acked, log, status, routing, todo, linkVars,
                   session, joined, outboxVars, engineVars, faults, crashes>>

on_node_connected(k) ==
    /\ Advance(k, "registered", "recorded")
    /\ status' = "connected"
    /\ UNCHANGED <<unrouted, dispatched, acked, log, routing, slot, todo, linkVars,
                   session, joined, outboxVars, engineVars, faults, crashes>>

pending_dispatches == {c \in Command : Contains(dispatched, c) /\ c \notin acked}

\* Mutant of ReadPending: nothing is replayed.
ReadPendingNothing(k) ==
    /\ Advance(k, "recorded", "replaying")
    /\ UNCHANGED <<unrouted, dispatched, acked, log, status, routing, slot, todo,
                   linkVars, session, joined, outboxVars, engineVars, faults, crashes>>

\* replay_pending reads the rows under the store lock ...
ReadPending(k) ==
    /\ Advance(k, "recorded", "replaying")
    /\ todo' = [todo EXCEPT ![k] = pending_dispatches]
    /\ unrouted' = {}
    /\ UNCHANGED <<dispatched, acked, log, status, routing, slot, linkVars, session,
                   joined, outboxVars, engineVars, faults, crashes>>

\* ... and routes them one by one in rowid order, each through the registry.
RoutePending(k) ==
    /\ handler[k] = "replaying"
    /\ \E i \in DOMAIN dispatched :
           /\ dispatched[i] \in todo[k] /\ \A j \in 1..(i - 1) : dispatched[j] \notin todo[k]
           /\ todo' = [todo EXCEPT ![k] = @ \ {dispatched[i]}]
           /\ down' = route_to_node(<<"dispatch", dispatched[i]>>)
    /\ UNCHANGED <<unrouted, dispatched, acked, log, status, routing, slot, handler,
                   broken, up, conns, session, joined, outboxVars, engineVars, faults,
                   crashes>>

EnterLoop(k) ==
    /\ todo[k] = {}
    /\ Advance(k, "replaying", "looping")
    /\ UNCHANGED <<unrouted, dispatched, acked, log, status, routing, slot, todo,
                   linkVars, session, joined, outboxVars, engineVars, faults, crashes>>

\* De-duplicated by event id.
Logged(e) == IF Contains(log, e) THEN log ELSE Append(log, e)

CanRead(k) == handler[k] = "looping" /\ up[k] # <<>>

\* A node event: appended unless its id is known, then acknowledged to whichever
\* connection owns the slot.
ReceiveEvent(k) ==
    \E e \in EventId :
        /\ CanRead(k) /\ Head(up[k]) = <<"event", e>>
        /\ up' = [up EXCEPT ![k] = Tail(@)]
        /\ log' = Logged(e)
        /\ down' = route_to_node(<<"event_ack", e>>)
        /\ UNCHANGED <<unrouted, dispatched, acked, status, routing, slot, handler,
                       todo, broken, conns, session, joined, outboxVars, engineVars,
                       faults, crashes>>

\* Mutant of AppendFails: the event is acknowledged although it was not stored.
AppendFailsAcks(k) ==
    /\ CanRead(k) /\ Head(up[k]) \in EventFrame
    /\ faults < MaxFaults /\ faults' = faults + 1
    /\ up' = [up EXCEPT ![k] = Tail(@)]
    /\ down' = route_to_node(<<"event_ack", Head(up[k])[2]>>)
    /\ UNCHANGED <<hubVars, broken, conns, session, joined, outboxVars, engineVars,
                   crashes>>

\* The append, or reading the event back for the broadcast, fails: no
\* acknowledgement.
AppendFails(k) ==
    /\ CanRead(k) /\ Head(up[k]) \in EventFrame
    /\ faults < MaxFaults /\ faults' = faults + 1
    /\ up' = [up EXCEPT ![k] = Tail(@)]
    /\ log' \in {log, Logged(Head(up[k])[2])}
    /\ UNCHANGED <<unrouted, dispatched, acked, status, routing, slot, handler, todo,
                   broken, down, conns, session, joined, outboxVars, engineVars,
                   crashes>>

acknowledge_dispatch_from(k) ==
    \E c \in Command :
        /\ CanRead(k) /\ Head(up[k]) = <<"command_ack", c>>
        /\ up' = [up EXCEPT ![k] = Tail(@)]
        /\ acked' = acked \cup {c}
        /\ UNCHANGED <<unrouted, dispatched, log, status, routing, slot, handler, todo,
                       broken, down, conns, session, joined, outboxVars, engineVars,
                       faults, crashes>>

\* The loop ends on a dead link, whatever it has not read yet is gone; the entry
\* is removed only if this connection still owns it.
unregister_node(k) ==
    /\ k \in broken /\ handler[k] = "looping"
    /\ handler' = [handler EXCEPT ![k] = IF slot = k THEN "leaving" ELSE "done"]
    /\ slot' = IF slot = k THEN 0 ELSE slot
    /\ up' = [up EXCEPT ![k] = <<>>]
    /\ down' = [down EXCEPT ![k] = IF session = k THEN @ ELSE <<>>]
    /\ UNCHANGED <<unrouted, dispatched, acked, log, status, routing, todo, broken,
                   conns, session, joined, outboxVars, engineVars, faults, crashes>>

on_node_disconnected(k) ==
    /\ Advance(k, "leaving", "done")
    /\ status' = "disconnected"
    /\ UNCHANGED <<unrouted, dispatched, acked, log, routing, slot, todo, linkVars,
                   session, joined, outboxVars, engineVars, faults, crashes>>

HandlerStep(k) ==
    \/ SendWelcome(k) \/ HandshakeFails(k) \/ register_node(k) \/ on_node_connected(k)
    \/ ReadPending(k) \/ RoutePending(k) \/ EnterLoop(k)
    \/ ReceiveEvent(k) \/ acknowledge_dispatch_from(k)
    \/ unregister_node(k) \/ on_node_disconnected(k)

-----------------------------------------------------------------------------
(* The node.                                                               *)

\* connect_once dials and sends its hello.
Dial ==
    /\ session = 0 /\ conns < MaxConn
    /\ PromptHandshake => \A k \in Conn : handler[k] \notin {"hello", "welcomed"}
    /\ conns' = conns + 1
    /\ session' = conns + 1
    /\ handler' = [handler EXCEPT ![conns + 1] = "hello"]
    /\ UNCHANGED <<unrouted, dispatched, acked, log, status, routing, slot, todo,
                   broken, down, up, joined, outboxVars, engineVars, faults, crashes>>

\* With the welcome in hand, attach publishes the sender and copies the pending
\* events under the lock ...
Attach ==
    /\ session # 0 /\ tx = 0
    /\ handler[session] \notin {"none", "hello", "failed"}
    /\ tx' = session
    /\ attaching' = pending
    /\ UNCHANGED <<hubVars, linkVars, session, joined, pending, emitting, emitted,
                   engineVars, faults, crashes>>

\* ... and sends the copies after releasing it.
AttachSend ==
    /\ tx # 0 /\ ~joined /\ attaching # <<>>
    /\ attaching' = Tail(attaching)
    /\ up' = [up EXCEPT ![tx] = Append(@, <<"event", Head(attaching)>>)]
    /\ UNCHANGED <<hubVars, broken, down, conns, session, joined, tx, pending, emitting,
                   emitted, engineVars, faults, crashes>>

StartReceiving ==
    /\ tx # 0 /\ ~joined /\ attaching = <<>>
    /\ joined' = TRUE
    /\ UNCHANGED <<hubVars, linkVars, session, outboxVars, engineVars, faults, crashes>>

\* receive_loop, HubToNode::DispatchCommand: the engine acts on a command it has
\* not seen, and in both cases a task is spawned to acknowledge it.
dispatch ==
    \E c \in Command :
        /\ joined /\ down[session] # <<>> /\ Head(down[session]) = <<"dispatch", c>>
        /\ down' = [down EXCEPT ![session] = Tail(@)]
        /\ node_seen' = node_seen \cup {c}
        /\ executed' = IF c \in node_seen THEN executed ELSE Append(executed, c)
        /\ acking' = acking \cup {c}
        /\ UNCHANGED <<hubVars, broken, up, conns, session, joined, outboxVars, faults,
                       crashes>>

\* The queue without the first entry of e, if it has one.
Acknowledged(queue, e) ==
    IF Contains(queue, e)
    THEN RemoveAt(queue, CHOOSE i \in DOMAIN queue :
                             queue[i] = e /\ \A j \in 1..(i - 1) : queue[j] # e)
    ELSE queue

\* receive_loop, HubToNode::EventAck.
acknowledge_event ==
    \E e \in EventId :
        /\ joined /\ down[session] # <<>> /\ Head(down[session]) = <<"event_ack", e>>
        /\ down' = [down EXCEPT ![session] = Tail(@)]
        /\ pending' = Acknowledged(pending, e)
        /\ UNCHANGED <<hubVars, broken, up, conns, session, joined, tx, attaching,
                       emitting, emitted, engineVars, faults, crashes>>

\* The session is over: teardown detaches the outbox.
Detach ==
    /\ session \in broken
    /\ session' = 0 /\ joined' = FALSE
    /\ tx' = 0 /\ attaching' = <<>>
    /\ down' = [down EXCEPT ![session] = <<>>]
    /\ UNCHANGED <<hubVars, broken, up, conns, pending, emitting, emitted, engineVars,
                   faults, crashes>>

SessionStep == \/ Dial \/ Attach \/ AttachSend \/ StartReceiving \/ dispatch
               \/ acknowledge_event \/ Detach

\* A frame sent on connection k, unless that channel is closed.
SendUp(k, frame) ==
    IF k = 0 \/ k # session THEN up ELSE [up EXCEPT ![k] = Append(@, frame)]

\* The ack task: without a sender the acknowledgement is dropped.
ack(c) ==
    /\ c \in acking
    /\ acking' = acking \ {c}
    /\ up' = SendUp(tx, <<"command_ack", c>>)
    /\ UNCHANGED <<hubVars, broken, down, conns, session, joined, outboxVars, node_seen,
                   executed, faults, crashes>>

\* emit_draft: under the lock the event joins the outbox and the sender is copied.
\* One engine task emits its events one after another.
emit_draft ==
    /\ emitted < MaxEvents /\ emitting = <<>>
    /\ emitted' = emitted + 1
    /\ pending' = Append(pending, emitted + 1)
    /\ emitting' = IF tx = 0 THEN <<>> ELSE <<<<emitted + 1, tx>>>>
    /\ UNCHANGED <<hubVars, linkVars, session, joined, tx, attaching, engineVars,
                   faults, crashes>>

EmitSend ==
    /\ emitting # <<>>
    /\ emitting' = <<>>
    /\ up' = SendUp(emitting[1][2], <<"event", emitting[1][1]>>)
    /\ UNCHANGED <<hubVars, broken, down, conns, session, joined, tx, attaching,
                   pending, emitted, engineVars, faults, crashes>>

\* The heartbeat resends what is unacknowledged.  Bound: not while events of an
\* earlier round are still in flight.
resend_pending ==
    /\ tx # 0 /\ pending # <<>>
    /\ \A i \in DOMAIN up[tx] : up[tx][i] \notin EventFrame
    /\ down[tx] = <<>>
    /\ up' = [up EXCEPT ![tx] = @ \o [i \in DOMAIN pending |-> <<"event", pending[i]>>]]
    /\ UNCHANGED <<hubVars, broken, down, conns, session, joined, outboxVars,
                   engineVars, faults, crashes>>

-----------------------------------------------------------------------------
(* Faults.                                                                 *)

LinkBreaks(k) ==
    /\ k <= conns /\ k \notin broken
    /\ faults < MaxFaults /\ faults' = faults + 1
    /\ broken' = broken \cup {k}
    /\ UNCHANGED <<hubVars, down, up, conns, session, joined, outboxVars, engineVars,
                   crashes>>

\* The hub process dies: the tables survive, the registry, the handlers and the
\* clients' unrouted work do not.
HubCrash ==
    /\ faults < MaxFaults /\ faults' = faults + 1
    /\ routing' = {} /\ slot' = 0
    /\ handler' = [k \in Conn |-> CASE handler[k] = "none" -> "none"
                                     [] handler[k] \in {"hello", "failed"} -> "failed"
                                     [] OTHER -> "done"]
    /\ todo' = [k \in Conn |-> {}]
    /\ broken' = 1..conns
    /\ up' = [k \in Conn |-> <<>>]
    /\ down' = [k \in Conn |-> IF k = session THEN down[k] ELSE <<>>]
    /\ UNCHANGED <<unrouted, dispatched, acked, log, status, conns, session, joined,
                   outboxVars, engineVars, crashes>>

\* The node process dies: outbox, seen set and engine are in memory only.
NodeCrash ==
    /\ crashes < MaxNodeCrashes /\ crashes' = crashes + 1
    /\ broken' = broken \cup ({session} \ {0})
    /\ session' = 0 /\ joined' = FALSE
    /\ tx' = 0 /\ attaching' = <<>> /\ pending' = <<>> /\ emitting' = <<>>
    /\ node_seen' = {} /\ executed' = <<>> /\ acking' = {}
    /\ down' = IF session = 0 THEN down ELSE [down EXCEPT ![session] = <<>>]
    /\ UNCHANGED <<hubVars, up, conns, emitted, faults>>

Next ==
    \/ \E c \in Command : apply_command(c) \/ RouteEffect(c) \/ ReceiptFails(c)
    \/ \E k \in Conn : HandlerStep(k) \/ AppendFails(k) \/ LinkBreaks(k)
    \/ SessionStep
    \/ \E c \in Command : ack(c)
    \/ emit_draft \/ EmitSend \/ resend_pending
    \/ HubCrash \/ NodeCrash

Spec == Init /\ [][Next]_vars

\* Every task that can run is eventually run; nothing obliges clients to send,
\* the engine to emit, or faults to happen.
FairSpec ==
    /\ Spec
    /\ \A c \in Command : WF_vars(RouteEffect(c)) /\ WF_vars(ack(c))
    /\ \A k \in Conn : WF_vars(HandlerStep(k))
    /\ WF_vars(SessionStep)
    /\ WF_vars(EmitSend)
    /\ WF_vars(resend_pending)

-----------------------------------------------------------------------------
(* Correctness.                                                            *)

Unique(s) == \A i, j \in DOMAIN s : s[i] = s[j] => i = j

\* Replays, duplicate dispatches and stale connections never make the engine act
\* twice on one command while the node process lives.
ExecutedAtMostOnce == Unique(executed)

\* "UUID de-duplication makes any replay harmless": resent events are logged once.
LoggedOnce == Unique(log)

\* An acknowledged dispatch is one the node took: its row may leave the replay set.
AckedWasTaken == crashes = 0 => acked \subseteq node_seen

\* Until the hub has logged it, an emitted event is in the outbox, so that an
\* acknowledgement never discards the only copy.
NoEventLost ==
    crashes = 0 => \A e \in 1..emitted : Contains(log, e) \/ Contains(pending, e)

Registered == {"registered", "recorded", "replaying", "looping"}

\* The registry entry never points at a finished handler, and while the newest
\* connection's handler is up the entry is its own: a stale socket cannot
\* unregister a newer connection.
SlotIsNewest ==
    /\ slot # 0 => handler[slot] \in Registered
    /\ \A k \in Conn :
           handler[k] \in Registered /\ (\A j \in Conn : j > k => handler[j] = "none")
               => slot = k

\* The bound on connections is used up: the last one is lost.
LinksUsedUp == conns = MaxConn /\ (session = 0 \/ MaxConn \in broken)

\* "If that node disconnects before acknowledging the command, the hub sends the
\* pending command after it reconnects": once faults stop, every accepted command
\* is acknowledged, unless its client handler left handle_client's loop before
\* routing it and the node has not reconnected since.
CommandsAcknowledged ==
    \A c \in Command :
        Contains(dispatched, c) ~> (c \in acked \/ c \in unrouted \/ LinksUsedUp)

\* Every event the node emitted reaches the log.
EventsLogged ==
    \A e \in EventId :
        (e <= emitted) ~> (Contains(log, e) \/ crashes > 0 \/ LinksUsedUp)

\* Through handshakes, replays and stale sockets a command is at the node once: the
\* registry sends it down the newest connection, the node acts on it once, and it is
\* acknowledged by nobody else.
CommandsTakenOnce == SlotIsNewest /\ AckedWasTaken /\ ExecutedAtMostOnce

\* Through resends, failed appends and lost acknowledgements an event is in the
\* outbox until it is in the log, and in the log once.
EventsKept == TypeOK /\ LoggedOnce /\ NoEventLost

\* Once faults stop, replay and resend bring both sides together: what was routed is
\* acknowledged and what was emitted is logged.
LinkDelivers == CommandsAcknowledged /\ EventsLogged
=============================================================================
