----------------------------- MODULE ClientFeed -----------------------------
(***************************************************************************)
(* One client's event feed: handle_client of                               *)
(* crates/stackhour-hub/src/lib.rs, the broadcast bus it listens to, and   *)
(* the cursor the control panel (assets/control.html) keeps.  Handlers of  *)
(* different clients share only the log and the bus, which they never      *)
(* write, so one client stands for all.                                    *)
(*                                                                         *)
(* The log is its head sequence: HubStore shows that sequences are 1..head.*)
(***************************************************************************)
EXTENDS Integers, Sequences

CONSTANTS
    Cap,          \* EVENT_BUS_CAPACITY
    WireCap,      \* frames the socket buffers before sink.send blocks
    MaxHead,      \* bound on the log
    MaxDrops      \* bound on lost links and hub restarts

ASSUME FeedAssumption ==
    /\ Cap \in Nat \ {0}
    /\ WireCap \in Nat \ {0}
    /\ MaxHead \in Nat
    /\ MaxDrops \in Nat

VARIABLES
    head,    \* head of the durable log
    unsent,  \* logged events that were never broadcast
    bus,     \* sequences sent on the broadcast channel since the hub started
    phase,   \* where handle_client is
    next,    \* the receiver's position in the bus
    pos,     \* highest sequence sent on this connection (last_delivered)
    target,  \* end of the tail being streamed
    wire,    \* frames in flight to the client
    cursor,  \* state.cursor of the panel
    seen,    \* keys of state.events of the panel
    drops    \* links lost so far

feedVars == <<head, unsent, bus, phase, next, pos, target, wire, cursor, seen, drops>>

Phase == {"closed", "subscribed", "sending", "live", "lagged"}

FeedTypeOK ==
    /\ head \in Nat
    /\ unsent \in SUBSET Nat
    /\ bus \in Seq(Nat)
    /\ phase \in Phase
    /\ next \in Nat \ {0}
    /\ pos \in Nat
    /\ target \in Nat
    /\ wire \in Seq(Nat) /\ Len(wire) <= WireCap
    /\ cursor \in Nat
    /\ seen \in SUBSET Nat
    /\ drops \in 0..MaxDrops

\* The hub starts over a log of any length; the panel starts empty.
FeedInit ==
    /\ head \in 0..MaxHead
    /\ unsent = {} /\ bus = <<>>
    /\ phase = "closed"
    /\ next = 1 /\ pos = 0 /\ target = 0
    /\ wire = <<>>
    /\ cursor = 0 /\ seen = {}
    /\ drops = 0

\* The event commits and is broadcast under the store lock.  A fetch_event
\* error returns early: the event is logged and never sent.
append_and_broadcast ==
    /\ head < MaxHead
    /\ head' = head + 1
    /\ \/ bus' = Append(bus, head + 1) /\ UNCHANGED unsent
       \/ unsent' = unsent \cup {head + 1} /\ UNCHANGED bus
    /\ UNCHANGED <<phase, next, pos, target, wire, cursor, seen, drops>>

\* Mutant of Connect: a lost link is never dialled again.
ConnectOnce ==
    /\ phase = "closed" /\ drops = 0
    /\ phase' = "subscribed"
    /\ next' = Len(bus) + 1
    /\ UNCHANGED <<head, unsent, bus, pos, target, wire, cursor, seen, drops>>

\* connect() opens the socket; the handler joins the bus at its tail before it
\* reads anything.
Connect ==
    /\ phase = "closed"
    /\ phase' = "subscribed"
    /\ next' = Len(bus) + 1
    /\ UNCHANGED <<head, unsent, bus, pos, target, wire, cursor, seen, drops>>

\* The Subscribe frame carries the panel's cursor; the tail after it is read.
snapshot ==
    /\ phase = "subscribed"
    /\ phase' = "sending"
    /\ pos' = cursor
    /\ target' = head
    /\ UNCHANGED <<head, unsent, bus, next, wire, cursor, seen, drops>>

\* One frame of the catch-up tail, or of a resync.
SendTail ==
    /\ phase = "sending"
    /\ pos < target
    /\ Len(wire) < WireCap
    /\ pos' = pos + 1
    /\ wire' = Append(wire, pos + 1)
    /\ UNCHANGED <<head, unsent, bus, phase, next, target, cursor, seen, drops>>

\* Mutant of TailSent: the handler joins the bus only after the catch-up.
TailSentThenSubscribe ==
    /\ phase = "sending"
    /\ pos = target
    /\ phase' = "live"
    /\ next' = Len(bus) + 1
    /\ UNCHANGED <<head, unsent, bus, pos, target, wire, cursor, seen, drops>>

TailSent ==
    /\ phase = "sending"
    /\ pos = target
    /\ phase' = "live"
    /\ UNCHANGED <<head, unsent, bus, next, pos, target, wire, cursor, seen, drops>>

\* Messages the receiver has yet to take.
Backlog == Len(bus) - next + 1

\* live.recv() = Ok: deliver what is newer than last_delivered, skip the rest.
LiveRecv ==
    /\ phase = "live"
    /\ Backlog \in 1..Cap
    /\ bus[next] > pos => Len(wire) < WireCap
    /\ next' = next + 1
    /\ IF bus[next] > pos
       THEN /\ pos' = bus[next]
            /\ wire' = Append(wire, bus[next])
       ELSE UNCHANGED <<pos, wire>>
    /\ UNCHANGED <<head, unsent, bus, phase, target, cursor, seen, drops>>

\* Mutant of Lagged: the handler goes on without a resync.
LaggedIgnored ==
    /\ phase = "live"
    /\ Backlog > Cap
    /\ next' = Len(bus) - Cap + 1
    /\ UNCHANGED <<head, unsent, bus, phase, pos, target, wire, cursor, seen, drops>>

\* live.recv() = Lagged: the receiver restarts at the oldest message kept.
Lagged ==
    /\ phase = "live"
    /\ Backlog > Cap
    /\ next' = Len(bus) - Cap + 1
    /\ phase' = "lagged"
    /\ UNCHANGED <<head, unsent, bus, pos, target, wire, cursor, seen, drops>>

\* The resync reads the log after last_delivered.
Resync ==
    /\ phase = "lagged"
    /\ phase' = "sending"
    /\ target' = head
    /\ UNCHANGED <<head, unsent, bus, next, pos, wire, cursor, seen, drops>>

\* handleMessage, event_delivery.
ClientReceive ==
    /\ wire # <<>>
    /\ wire' = Tail(wire)
    /\ cursor' = IF Head(wire) > cursor THEN Head(wire) ELSE cursor
    /\ seen' = seen \cup {Head(wire)}
    /\ UNCHANGED <<head, unsent, bus, phase, next, pos, target, drops>>

\* The socket dies in any phase; frames in flight are lost.
Drop ==
    /\ phase # "closed"
    /\ drops < MaxDrops
    /\ drops' = drops + 1
    /\ phase' = "closed"
    /\ wire' = <<>>
    /\ UNCHANGED <<head, unsent, bus, next, pos, target, cursor, seen>>

\* A restarted hub has an empty bus and no links; the log is durable.
HubRestart ==
    /\ drops < MaxDrops
    /\ drops' = drops + 1
    /\ phase' = "closed"
    /\ wire' = <<>>
    /\ bus' = <<>>
    /\ UNCHANGED <<head, unsent, next, pos, target, cursor, seen>>

\* What the handler and the panel do whenever they can.
Progress == \/ Connect \/ snapshot \/ SendTail \/ TailSent \/ LiveRecv
            \/ Lagged \/ Resync

FeedNext == append_and_broadcast \/ Progress \/ ClientReceive \/ Drop \/ HubRestart

FeedSpec == FeedInit /\ [][FeedNext]_feedVars

\* The handler's task is polled while it is ready, the panel's reconnect timer
\* fires, and a link that holds delivers its frames.
FeedFairSpec == FeedSpec /\ WF_feedVars(Progress) /\ WF_feedVars(ClientReceive)

-----------------------------------------------------------------------------
(* Correctness.                                                            *)

\* "The client never keeps a hole": what it lacks below its cursor was never
\* broadcast, because fetch_event failed after the commit.  Lag, resync, lost links
\* and hub restarts lose nothing by themselves.
HolesWereUnsent == seen \subseteq 1..cursor /\ (1..cursor) \ seen \subseteq unsent

\* The event before the i-th frame in flight.
Before(i) == IF i = 1 THEN cursor ELSE wire[i - 1]

\* "Neither a gap nor a duplicate": each frame in flight is newer than the one
\* before it, and between the two nothing that was broadcast is missing.
FramesFollowCursor ==
    \A i \in 1..Len(wire) :
        Before(i) < wire[i] /\ (Before(i) + 1)..(wire[i] - 1) \subseteq unsent

Abstract == INSTANCE OrderedDelivery WITH read <- cursor

\* handle_client, the bus and the panel together implement ordered delivery.
ImplementsOrderedDelivery == Abstract!Spec

\* Once links stop failing, every event that was broadcast reaches the client.
EventuallyDelivered == \A s \in 1..MaxHead : (head >= s) ~> (s \in seen \cup unsent)
=============================================================================
