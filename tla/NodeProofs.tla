----------------------------- MODULE NodeProofs -----------------------------
(***************************************************************************)
(* Proofs about NodeLink, for any number of commands, events, connections  *)
(* and faults: what an acknowledgement means at either end of the link, in *)
(* spite of replays, resends, stale sockets and hub crashes.  Then the     *)
(* engine that takes the commands, for any commands and runs: an interrupt *)
(* reaches the process it is meant for, and never a later prompt.          *)
(***************************************************************************)
EXTENDS NodeLink, CliEngine, SequenceTheorems, WellFoundedInduction, TLAPS

-----------------------------------------------------------------------------
(* Sequences.                                                              *)

\* A non-empty set of naturals has a least element.
LEMMA LeastNat ==
  ASSUME NEW T, T \subseteq Nat, T # {}
  PROVE  \E x \in T : \A y \in T : x <= y
  <1>1. PICK x \in T : \A y \in T : ~(<<y, x>> \in OpToRel(<, Nat))
    BY NatLessThanWellFounded, WFMin
  <1>2. ASSUME NEW y \in T PROVE x <= y
    <2>1. ~(<<y, x>> \in {ss \in Nat \X Nat : ss[1] < ss[2]})
      BY <1>1 DEF OpToRel
    <2>2. x \in Nat /\ y \in Nat
      OBVIOUS
    <2> QED BY <2>1, <2>2
  <1> QED BY <1>2

\* What Append contains, and that it keeps a sequence free of duplicates.
LEMMA AppendContains ==
  ASSUME NEW S, NEW s \in Seq(S), NEW x \in S
  PROVE  /\ Append(s, x) \in Seq(S)
         /\ \A y : Contains(Append(s, x), y) <=> Contains(s, y) \/ y = x
         /\ Unique(s) /\ ~Contains(s, x) => Unique(Append(s, x))
  BY DEF Contains, Unique

\* Reading the head of a queue adds nothing to it.
LEMMA TailContains ==
  ASSUME NEW S, NEW s \in Seq(S), s # <<>>
  PROVE  /\ Head(s) \in S /\ Tail(s) \in Seq(S) /\ Contains(s, Head(s))
         /\ \A y : Contains(Tail(s), y) => Contains(s, y)
  BY DEF Contains

\* RemoveAt loses nothing but the element it removes.
LEMMA RemoveAtKeeps ==
  ASSUME NEW S, NEW s \in Seq(S), NEW n \in 1..Len(s)
  PROVE  /\ RemoveAt(s, n) \in Seq(S)
         /\ \A y : Contains(s, y) /\ y # s[n] => Contains(RemoveAt(s, n), y)
  <1> DEFINE a == SubSeq(s, 1, n - 1)
             b == SubSeq(s, n + 1, Len(s))
  <1>0. n \in Nat /\ Len(s) \in Nat /\ n - 1 \in 0..Len(s)
    OBVIOUS
  <1>1. a \in Seq(S) /\ Len(a) = n - 1 /\ \A i \in 1..(n - 1) : a[i] = s[i]
    BY <1>0
  <1>2. b \in Seq(S) /\ Len(b) = Len(s) - n /\ \A i \in 1..(Len(s) - n) : b[i] = s[n + i]
    BY <1>0
  <1> HIDE DEF a, b
  <1> DEFINE t == a \o b
  <1>3. /\ t \in Seq(S) /\ Len(t) = Len(s) - 1
        /\ \A i \in 1..(Len(s) - 1) : t[i] = IF i <= n - 1 THEN a[i] ELSE b[i - (n - 1)]
    <2>1. /\ t \in Seq(S) /\ Len(t) = Len(a) + Len(b)
          /\ \A i \in 1..(Len(a) + Len(b)) : t[i] = IF i <= Len(a) THEN a[i] ELSE b[i - Len(a)]
      BY <1>1, <1>2, ConcatProperties
    <2>2. Len(a) = n - 1 /\ Len(a) + Len(b) = Len(s) - 1
      BY <1>0, <1>1, <1>2
    <2> QED BY <2>1, <2>2
  <1>4. RemoveAt(s, n) = t
    BY DEF RemoveAt, a, b
  <1> HIDE DEF t
  <1>5. ASSUME NEW y, Contains(s, y), y # s[n] PROVE Contains(t, y)
    <2>1. PICK i \in 1..Len(s) : s[i] = y /\ i # n
      BY <1>5 DEF Contains
    <2>2. CASE i < n
      <3>1. i \in 1..Len(t) /\ t[i] = y
        BY <1>0, <1>1, <1>3, <2>1, <2>2
      <3> QED BY <3>1 DEF Contains
    <2>3. CASE i > n
      <3>1. i - 1 \in 1..Len(t) /\ t[i - 1] = b[i - n] /\ i - n \in 1..(Len(s) - n)
        BY <1>0, <1>3, <2>1, <2>3
      <3>2. t[i - 1] = y
        BY <1>0, <1>2, <2>1, <3>1
      <3> QED BY <3>1, <3>2 DEF Contains
    <2> QED BY <2>1, <2>2, <2>3, <1>0
  <1> QED BY <1>3, <1>4, <1>5

\* An acknowledgement takes no other event out of the outbox.
LEMMA AcknowledgedKeeps ==
  ASSUME NEW S, NEW s \in Seq(S), NEW e
  PROVE  /\ Acknowledged(s, e) \in Seq(S)
         /\ \A y : Contains(s, y) /\ y # e => Contains(Acknowledged(s, e), y)
  <1>1. CASE ~Contains(s, e)
    BY <1>1 DEF Acknowledged
  <1>2. CASE Contains(s, e)
    <2> DEFINE First(i) == s[i] = e /\ \A j \in 1..(i - 1) : s[j] # e
               n == CHOOSE i \in DOMAIN s : First(i)
    <2>1. \E i \in DOMAIN s : First(i)
      <3> DEFINE T == {i \in 1..Len(s) : s[i] = e}
      <3>1. T \subseteq Nat /\ T # {}
        BY <1>2 DEF Contains
      <3>2. PICK x \in T : \A y \in T : x <= y
        BY <3>1, LeastNat
      <3>3. \A j \in 1..(x - 1) : s[j] # e
        BY <3>2
      <3> QED BY <3>2, <3>3
    <2>2. n \in 1..Len(s) /\ s[n] = e
      BY <2>1
    <2>3. Acknowledged(s, e) = RemoveAt(s, n)
      BY <1>2 DEF Acknowledged
    <2> HIDE DEF n
    <2> QED BY <2>2, <2>3, RemoveAtKeeps
  <1> QED BY <1>1, <1>2

-----------------------------------------------------------------------------
(* The inductive invariant.                                                *)

\* A session is a dialled connection, and what the outbox sends on is the session.
SessionIsOpen ==
    /\ \A k \in Conn : handler[k] = "none" <=> k > conns
    /\ session <= conns
    /\ tx # 0 => tx = session
    /\ joined => tx # 0

\* The registry entry is a live handler's.
SlotIsLive == slot # 0 => handler[slot] \in Registered

\* The engine acted on commands it has seen, on each once.
ExecutedWasSeen == Unique(executed) /\ \A i \in DOMAIN executed : executed[i] \in node_seen

\* Whatever stands for an acknowledgement, in a task, on the wire or in the table,
\* is of a command the node has seen.
AcksAreTaken ==
    crashes = 0 =>
        /\ acked \subseteq node_seen /\ acking \subseteq node_seen
        /\ \A k \in Conn, c \in Command : Contains(up[k], <<"command_ack", c>>) => c \in node_seen

\* The hub acknowledges only what its log holds.
AcksAreLogged ==
    \A k \in Conn, e \in EventId : Contains(down[k], <<"event_ack", e>>) => Contains(log, e)

CommandInv == ExecutedWasSeen /\ AcksAreTaken
EventInv == AcksAreLogged /\ LoggedOnce /\ NoEventLost
LinkInv == TypeOK /\ SessionIsOpen /\ SlotIsLive /\ CommandInv /\ EventInv

\* With a prompt handshake only the newest connection can still be in one, and the
\* newest connection that registered keeps the entry.
HandshakeIsNewest ==
    /\ \A k \in Conn : handler[k] \in {"hello", "welcomed"} => k = conns
    /\ \A k \in Conn : k = conns /\ handler[k] \in Registered => slot = k

DownFrame == DispatchFrame \cup EventAckFrame
UpFrame == EventFrame \cup CommandAckFrame

LEMMA LinkInit == Init => LinkInv /\ HandshakeIsNewest
  <1> SUFFICES ASSUME Init PROVE LinkInv /\ HandshakeIsNewest
    OBVIOUS
  <1> USE LinkAssumption
  <1>1. TypeOK
    <2>1. \A S : <<>> \in Seq(S)
      BY EmptySeq
    <2>2. 0 \in 0..MaxConn /\ 0 \in 0..MaxEvents /\ 0 \in 0..MaxFaults /\ 0 \in 0..MaxNodeCrashes
      OBVIOUS
    <2> QED BY <2>1, <2>2 DEF Init, TypeOK, HandlerPhase
  <1>2. SessionIsOpen /\ SlotIsLive
    BY DEF Init, SessionIsOpen, SlotIsLive, Conn
  <1>3. CommandInv
    BY DEF Init, CommandInv, ExecutedWasSeen, AcksAreTaken, Unique, Contains
  <1>4. EventInv
    BY DEF Init, EventInv, AcksAreLogged, LoggedOnce, NoEventLost, Unique, Contains
  <1>5. HandshakeIsNewest
    BY DEF Init, HandshakeIsNewest, Registered
  <1> QED BY <1>1, <1>2, <1>3, <1>4, <1>5 DEF LinkInv

\* route_to_node puts its frame into one queue, or into none.
LEMMA RouteAdds ==
  ASSUME TypeOK, NEW f \in DownFrame
  PROVE  /\ route_to_node(f) \in [Conn -> Seq(DownFrame)]
         /\ \A k \in Conn : \A y : Contains(route_to_node(f)[k], y) => Contains(down[k], y) \/ y = f
  <1>1. down \in [Conn -> Seq(DownFrame)] /\ slot \in Conn \cup {0}
    BY DEF TypeOK, DownFrame
  <1>2. \A k \in Conn : /\ Append(down[k], f) \in Seq(DownFrame)
                        /\ \A y : Contains(Append(down[k], f), y) => Contains(down[k], y) \/ y = f
    BY <1>1, AppendContains
  <1> QED BY <1>1, <1>2 DEF route_to_node

\* A frame sent up joins one queue.
LEMMA SendAdds ==
  ASSUME TypeOK, NEW f \in UpFrame, NEW k \in Conn
  PROVE  /\ [up EXCEPT ![k] = Append(@, f)] \in [Conn -> Seq(UpFrame)]
         /\ \A j \in Conn : \A y : Contains([up EXCEPT ![k] = Append(@, f)][j], y) =>
                                   Contains(up[j], y) \/ y = f
  <1>1. up \in [Conn -> Seq(UpFrame)]
    BY DEF TypeOK, UpFrame
  <1>2. /\ Append(up[k], f) \in Seq(UpFrame)
        /\ \A y : Contains(Append(up[k], f), y) => Contains(up[k], y) \/ y = f
    BY <1>1, AppendContains
  <1> QED BY <1>1, <1>2

LEMMA SendUpAdds ==
  ASSUME TypeOK, NEW f \in UpFrame, NEW k \in Conn \cup {0}
  PROVE  /\ SendUp(k, f) \in [Conn -> Seq(UpFrame)]
         /\ \A j \in Conn : \A y : Contains(SendUp(k, f)[j], y) => Contains(up[j], y) \/ y = f
  <1>1. up \in [Conn -> Seq(UpFrame)]
    BY DEF TypeOK, UpFrame
  <1>2. CASE k = 0 \/ k # session
    BY <1>1, <1>2 DEF SendUp
  <1>3. CASE ~(k = 0 \/ k # session)
    BY <1>3, SendAdds DEF SendUp
  <1> QED BY <1>2, <1>3

\* The heartbeat adds event frames only.
LEMMA ResendAdds ==
  ASSUME TypeOK, NEW k \in Conn,
         NEW w, w = [up EXCEPT ![k] = @ \o [i \in DOMAIN pending |-> <<"event", pending[i]>>]]
  PROVE  /\ w \in [Conn -> Seq(UpFrame)]
         /\ \A j \in Conn : \A y : Contains(w[j], y) => Contains(up[j], y) \/ y \in EventFrame
  <1> DEFINE b == [i \in DOMAIN pending |-> <<"event", pending[i]>>]
  <1>1. up \in [Conn -> Seq(UpFrame)] /\ up[k] \in Seq(UpFrame)
    BY DEF TypeOK, UpFrame
  <1>2. /\ b \in Seq(UpFrame) /\ Len(b) = Len(pending)
        /\ \A i \in 1..Len(pending) : b[i] \in EventFrame
    <2>1. pending \in Seq(EventId) /\ DOMAIN pending = 1..Len(pending) /\ Len(pending) \in Nat
      BY DEF TypeOK
    <2>2. \A i \in 1..Len(pending) : pending[i] \in EventId
      BY <2>1
    <2>3. \A i \in 1..Len(pending) : b[i] = <<"event", pending[i]>> /\ b[i] \in EventFrame
      BY <2>1, <2>2 DEF EventFrame
    <2>4. b \in [1..Len(pending) -> UpFrame]
      BY <2>1, <2>3 DEF UpFrame
    <2> QED BY <2>1, <2>3, <2>4, IsASeq, LenProperties
  <1> HIDE DEF b
  <1>3. up[k] \o b \in Seq(UpFrame)
    BY <1>1, <1>2, ConcatProperties
  <1>4. ASSUME NEW y, Contains(up[k] \o b, y) PROVE Contains(up[k], y) \/ y \in EventFrame
    <2> DEFINE a == up[k]
               t == a \o b
    <2>1. /\ Len(a) \in Nat /\ Len(b) \in Nat /\ Len(t) = Len(a) + Len(b)
          /\ \A i \in 1..(Len(a) + Len(b)) : t[i] = IF i <= Len(a) THEN a[i] ELSE b[i - Len(a)]
      BY <1>1, <1>2, ConcatProperties, LenProperties
    <2> HIDE DEF a, t
    <2>2. PICK i \in 1..Len(t) : t[i] = y
      BY <1>4 DEF Contains, a, t
    <2>3. CASE i <= Len(a)
      <3>1. a[i] = y /\ i \in 1..Len(a)
        BY <2>1, <2>2, <2>3
      <3> QED BY <3>1 DEF Contains, a
    <2>4. CASE i > Len(a)
      <3>1. b[i - Len(a)] = y /\ i - Len(a) \in 1..Len(b)
        BY <2>1, <2>2, <2>4
      <3> QED BY <3>1, <1>2
    <2> QED BY <2>1, <2>2, <2>3, <2>4
  <1>5. w = [up EXCEPT ![k] = up[k] \o b]
    BY DEF b
  <1> QED BY <1>1, <1>3, <1>4, <1>5

-----------------------------------------------------------------------------
(* Type correctness.                                                       *)

LEMMA TypeStep == TypeOK /\ SessionIsOpen /\ [Next]_vars => TypeOK'
  <1> SUFFICES ASSUME TypeOK, SessionIsOpen, [Next]_vars PROVE TypeOK'
    OBVIOUS
  <1> USE LinkAssumption DEF hubVars, linkVars, outboxVars, engineVars
  <1>0. /\ up \in [Conn -> Seq(UpFrame)] /\ down \in [Conn -> Seq(DownFrame)]
        /\ \A S : <<>> \in Seq(S)
        /\ Conn \subseteq Nat /\ 0 \notin Conn
    BY EmptySeq DEF TypeOK, UpFrame, DownFrame, Conn
  <1>1. ASSUME NEW c \in Command, apply_command(c) PROVE TypeOK'
    <2>1. Append(dispatched, c) \in Seq(Command)
      BY DEF TypeOK
    <2> QED BY <1>1, <2>1 DEF apply_command, TypeOK
  <1>2. ASSUME NEW c \in Command, RouteEffect(c) PROVE TypeOK'
    <2>1. down' \in [Conn -> Seq(DownFrame)]
      BY <1>2, RouteAdds DEF RouteEffect, DownFrame, DispatchFrame
    <2> QED BY <1>2, <2>1 DEF RouteEffect, TypeOK, DownFrame
  <1>3. ASSUME NEW c \in Command, ReceiptFails(c) PROVE TypeOK'
    BY <1>3 DEF ReceiptFails, TypeOK
  <1>4. ASSUME NEW k \in Conn,
               \/ SendWelcome(k) \/ HandshakeFails(k) \/ register_node(k) \/ on_node_connected(k)
               \/ EnterLoop(k) \/ on_node_disconnected(k)
        PROVE  TypeOK'
    <2>1. handler' \in [Conn -> HandlerPhase]
      BY <1>4 DEF SendWelcome, HandshakeFails, register_node, on_node_connected, EnterLoop,
                  on_node_disconnected, Advance, TypeOK, HandlerPhase
    <2> QED BY <1>4, <2>1 DEF SendWelcome, HandshakeFails, register_node, on_node_connected,
                              EnterLoop, on_node_disconnected, TypeOK
  <1>5. ASSUME NEW k \in Conn, ReadPending(k) PROVE TypeOK'
    BY <1>5 DEF ReadPending, Advance, pending_dispatches, TypeOK, HandlerPhase
  <1>6. ASSUME NEW k \in Conn, RoutePending(k) PROVE TypeOK'
    <2>1. PICK i \in DOMAIN dispatched : RoutePending(k)!2!(i)
      BY <1>6 DEF RoutePending
    <2>2. dispatched[i] \in Command
      BY DEF TypeOK
    <2>3. down' \in [Conn -> Seq(DownFrame)]
      BY <2>1, <2>2, RouteAdds DEF DownFrame, DispatchFrame
    <2> QED BY <1>6, <2>1, <2>3 DEF RoutePending, TypeOK, DownFrame
  <1>7. ASSUME NEW k \in Conn, CanRead(k) PROVE Tail(up[k]) \in Seq(UpFrame)
    BY <1>0, <1>7, TailContains DEF CanRead
  <1>8. ASSUME NEW e \in EventId PROVE Logged(e) \in Seq(EventId)
    BY DEF Logged, TypeOK
  <1>9. ASSUME NEW k \in Conn, ReceiveEvent(k) PROVE TypeOK'
    <2>1. PICK e \in EventId : ReceiveEvent(k)!(e)
      BY <1>9 DEF ReceiveEvent
    <2>2. down' \in [Conn -> Seq(DownFrame)]
      BY <2>1, RouteAdds DEF DownFrame, EventAckFrame
    <2>3. up' \in [Conn -> Seq(UpFrame)] /\ log' \in Seq(EventId)
      BY <2>1, <1>0, <1>7, <1>8
    <2> QED BY <2>1, <2>2, <2>3 DEF TypeOK, DownFrame, UpFrame
  <1>10. ASSUME NEW k \in Conn, AppendFails(k) PROVE TypeOK'
    <2>1. up' \in [Conn -> Seq(UpFrame)] /\ log' \in Seq(EventId)
      BY <1>10, <1>0, <1>7, <1>8 DEF AppendFails, EventFrame, TypeOK
    <2>2. faults' \in 0..MaxFaults
      BY <1>10 DEF AppendFails, TypeOK
    <2>3. UNCHANGED <<unrouted, dispatched, acked, status, routing, slot, handler, todo, broken,
                      down, conns, session, joined, outboxVars, engineVars, crashes>>
      BY <1>10 DEF AppendFails
    <2> QED BY <2>1, <2>2, <2>3 DEF TypeOK, UpFrame
  <1>11. ASSUME NEW k \in Conn, acknowledge_dispatch_from(k) PROVE TypeOK'
    <2>1. PICK c \in Command : acknowledge_dispatch_from(k)!(c)
      BY <1>11 DEF acknowledge_dispatch_from
    <2>2. up' \in [Conn -> Seq(UpFrame)]
      BY <2>1, <1>0, <1>7
    <2> QED BY <2>1, <2>2 DEF TypeOK, UpFrame
  <1>12. ASSUME NEW k \in Conn, unregister_node(k) PROVE TypeOK'
    <2>1. /\ up' \in [Conn -> Seq(UpFrame)] /\ down' \in [Conn -> Seq(DownFrame)]
      BY <1>12, <1>0 DEF unregister_node
    <2>2. handler' \in [Conn -> HandlerPhase]
      BY <1>12 DEF unregister_node, TypeOK, HandlerPhase
    <2>3. slot' \in Conn \cup {0}
      BY <1>12 DEF unregister_node, TypeOK
    <2> QED BY <1>12, <2>1, <2>2, <2>3 DEF unregister_node, TypeOK, UpFrame, DownFrame
  <1>13. CASE Dial
    <2>1. conns + 1 \in Conn /\ conns + 1 \in 0..MaxConn
      BY <1>13 DEF Dial, TypeOK, Conn
    <2> QED BY <1>13, <2>1 DEF Dial, TypeOK, HandlerPhase
  <1>14. CASE Attach \/ StartReceiving
    BY <1>14 DEF Attach, StartReceiving, TypeOK
  <1>15. CASE AttachSend
    <2>1. /\ tx \in Conn /\ Head(attaching) \in EventId /\ Tail(attaching) \in Seq(EventId)
      BY <1>15 DEF AttachSend, TypeOK
    <2>2. up' \in [Conn -> Seq(UpFrame)]
      BY <1>15, <2>1, SendAdds DEF AttachSend, UpFrame, EventFrame
    <2> QED BY <1>15, <2>1, <2>2 DEF AttachSend, TypeOK, UpFrame
  <1>16. joined => session \in Conn
    BY DEF SessionIsOpen, TypeOK
  <1>17. CASE dispatch
    <2>1. PICK c \in Command : dispatch!(c)
      BY <1>17 DEF dispatch
    <2>2. down' \in [Conn -> Seq(DownFrame)]
      BY <2>1, <1>0, <1>16, TailContains
    <2>3. executed' \in Seq(Command)
      BY <2>1 DEF TypeOK
    <2> QED BY <2>1, <2>2, <2>3 DEF TypeOK, DownFrame
  <1>18. CASE acknowledge_event
    <2>1. PICK e \in EventId : acknowledge_event!(e)
      BY <1>18 DEF acknowledge_event
    <2>2. down' \in [Conn -> Seq(DownFrame)]
      BY <2>1, <1>0, <1>16, TailContains
    <2>3. pending' \in Seq(EventId)
      BY <2>1, AcknowledgedKeeps DEF TypeOK
    <2> QED BY <2>1, <2>2, <2>3 DEF TypeOK, DownFrame
  <1>19. CASE Detach
    <2>1. down' \in [Conn -> Seq(DownFrame)]
      BY <1>19, <1>0 DEF Detach
    <2> QED BY <1>19, <2>1, <1>0 DEF Detach, TypeOK, DownFrame
  <1>20. ASSUME NEW c \in Command, ack(c) PROVE TypeOK'
    <2>1. up' \in [Conn -> Seq(UpFrame)]
      <3>1. tx \in Conn \cup {0}
        BY DEF TypeOK
      <3> QED BY <3>1, <1>20, SendUpAdds DEF ack, UpFrame, CommandAckFrame
    <2> QED BY <1>20, <2>1 DEF ack, TypeOK, UpFrame
  <1>21. CASE emit_draft
    <2>1. emitted + 1 \in EventId /\ emitted + 1 \in 0..MaxEvents
      BY <1>21 DEF emit_draft, TypeOK, EventId
    <2>2. pending' \in Seq(EventId)
      BY <1>21, <2>1 DEF emit_draft, TypeOK
    <2>3. emitting' \in Seq(EventId \X (Conn \cup {0}))
      <3>1. tx \in Conn \cup {0}
        BY DEF TypeOK
      <3>2. <<<<emitted + 1, tx>>>> \in Seq(EventId \X (Conn \cup {0}))
        BY <2>1, <3>1
      <3> QED BY <1>21, <3>2, <1>0 DEF emit_draft
    <2> QED BY <1>21, <2>1, <2>2, <2>3 DEF emit_draft, TypeOK
  <1>22. CASE EmitSend
    <2>1. emitting[1] \in EventId \X (Conn \cup {0})
      BY <1>22 DEF EmitSend, TypeOK
    <2>2. up' \in [Conn -> Seq(UpFrame)]
      BY <1>22, <2>1, SendUpAdds DEF EmitSend, UpFrame, EventFrame
    <2> QED BY <1>22, <2>2, <1>0 DEF EmitSend, TypeOK, UpFrame
  <1>23. CASE resend_pending
    <2>1. tx \in Conn
      BY <1>23 DEF resend_pending, TypeOK
    <2>2. up' \in [Conn -> Seq(UpFrame)]
      BY <1>23, <2>1, ResendAdds DEF resend_pending
    <2> QED BY <1>23, <2>2 DEF resend_pending, TypeOK, UpFrame
  <1>24. ASSUME NEW k \in Conn, LinkBreaks(k) PROVE TypeOK'
    BY <1>24 DEF LinkBreaks, TypeOK
  <1>25. CASE HubCrash
    <2>1. up' \in [Conn -> Seq(UpFrame)] /\ down' \in [Conn -> Seq(DownFrame)]
      BY <1>25, <1>0 DEF HubCrash
    <2>2. 1..conns \subseteq Conn
      BY DEF TypeOK, Conn
    <2>3. handler' \in [Conn -> HandlerPhase]
      BY <1>25 DEF HubCrash, HandlerPhase
    <2>4. /\ routing' \in SUBSET Command /\ slot' \in Conn \cup {0}
          /\ todo' \in [Conn -> SUBSET Command] /\ broken' \in SUBSET Conn
          /\ faults' \in 0..MaxFaults
      <3>1. /\ routing' = {} /\ slot' = 0 /\ todo' = [k \in Conn |-> {}]
            /\ broken' = 1..conns /\ faults < MaxFaults /\ faults' = faults + 1
        BY <1>25 DEF HubCrash
      <3> QED BY <3>1, <2>2 DEF TypeOK
    <2>5. /\ UNCHANGED <<unrouted, dispatched, acked, log, status, conns, session, joined, tx,
                         attaching, pending, emitting, emitted, node_seen, executed, acking, crashes>>
      BY <1>25 DEF HubCrash
    <2> QED BY <2>1, <2>3, <2>4, <2>5 DEF TypeOK, UpFrame, DownFrame
  <1>26. CASE NodeCrash
    <2>1. down' \in [Conn -> Seq(DownFrame)]
      BY <1>26, <1>0 DEF NodeCrash, TypeOK
    <2>2. broken' \in SUBSET Conn /\ crashes' \in 0..MaxNodeCrashes
      BY <1>26 DEF NodeCrash, TypeOK
    <2>3. /\ session' = 0 /\ joined' = FALSE /\ tx' = 0 /\ attaching' = <<>> /\ pending' = <<>>
          /\ emitting' = <<>> /\ node_seen' = {} /\ executed' = <<>> /\ acking' = {}
          /\ UNCHANGED <<hubVars, up, conns, emitted, faults>>
      BY <1>26 DEF NodeCrash
    <2>4. /\ attaching' \in Seq(EventId) /\ pending' \in Seq(EventId)
          /\ emitting' \in Seq(EventId \X (Conn \cup {0})) /\ executed' \in Seq(Command)
          /\ session' \in Conn \cup {0} /\ tx' \in Conn \cup {0} /\ joined' \in BOOLEAN
          /\ node_seen' \in SUBSET Command /\ acking' \in SUBSET Command
      BY <2>3, <1>0
    <2>5. UNCHANGED <<hubVars, up, conns, emitted, faults>>
      BY <2>3
    <2> QED BY <2>1, <2>2, <2>4, <2>5 DEF TypeOK, DownFrame
  <1>27. CASE UNCHANGED vars
    BY <1>27 DEF vars, TypeOK
  <1> QED BY <1>1, <1>2, <1>3, <1>4, <1>5, <1>6, <1>9, <1>10, <1>11, <1>12, <1>13, <1>14, <1>15,
             <1>17, <1>18, <1>19, <1>20, <1>21, <1>22, <1>23, <1>24, <1>25, <1>26, <1>27
          DEF Next, HandlerStep, SessionStep

-----------------------------------------------------------------------------
(* Connections.                                                            *)

\* One handler moves on along a transition of handle_node, and the registry entry is
\* taken, given up or left alone.
Moves(k, v) ==
    /\ handler' = [handler EXCEPT ![k] = v]
    /\ v # "none" /\ handler[k] # "none" /\ UNCHANGED <<conns, session, tx, joined>>
    /\ \/ v = "registered" /\ handler[k] = "welcomed" /\ slot' = k
       \/ v \notin Registered /\ handler[k] \notin Registered /\ UNCHANGED slot
       \/ v \in Registered /\ handler[k] \in Registered /\ UNCHANGED slot
       \/ /\ v \notin Registered /\ handler[k] \in Registered
          /\ slot' = IF slot = k THEN 0 ELSE slot
    /\ v \in {"hello", "welcomed"} => handler[k] = "hello"

LEMMA HandlersMove ==
  ASSUME TypeOK, NEW k \in Conn,
         \/ SendWelcome(k) \/ HandshakeFails(k) \/ register_node(k) \/ on_node_connected(k)
         \/ ReadPending(k) \/ EnterLoop(k) \/ unregister_node(k) \/ on_node_disconnected(k)
  PROVE  \E v \in HandlerPhase : Moves(k, v)
  <1> USE DEF Moves, Advance, Registered, HandlerPhase, linkVars, outboxVars
  <1>1. CASE SendWelcome(k)
    <2>1. Moves(k, "welcomed")
      BY <1>1 DEF SendWelcome
    <2> QED BY <2>1
  <1>2. CASE HandshakeFails(k)
    <2>1. Moves(k, "failed")
      BY <1>2 DEF HandshakeFails
    <2> QED BY <2>1
  <1>3. CASE register_node(k)
    <2>1. Moves(k, "registered")
      BY <1>3 DEF register_node
    <2> QED BY <2>1
  <1>4. CASE on_node_connected(k)
    <2>1. Moves(k, "recorded")
      BY <1>4 DEF on_node_connected
    <2> QED BY <2>1
  <1>5. CASE ReadPending(k)
    <2>1. Moves(k, "replaying")
      BY <1>5 DEF ReadPending
    <2> QED BY <2>1
  <1>6. CASE EnterLoop(k)
    <2>1. Moves(k, "looping")
      BY <1>6 DEF EnterLoop
    <2> QED BY <2>1
  <1>7. CASE unregister_node(k)
    <2>1. Moves(k, IF slot = k THEN "leaving" ELSE "done")
      BY <1>7 DEF unregister_node
    <2> QED BY <2>1
  <1>8. CASE on_node_disconnected(k)
    <2>1. Moves(k, "done")
      BY <1>8 DEF on_node_disconnected
    <2> QED BY <2>1
  <1> QED BY <1>1, <1>2, <1>3, <1>4, <1>5, <1>6, <1>7, <1>8

\* The steps that touch neither a handler nor the registry nor the session.
LEMMA QuietSteps ==
  ASSUME \/ \E c \in Command : apply_command(c) \/ RouteEffect(c) \/ ReceiptFails(c) \/ ack(c)
         \/ \E k \in Conn : \/ RoutePending(k) \/ ReceiveEvent(k) \/ AppendFails(k)
                            \/ acknowledge_dispatch_from(k) \/ LinkBreaks(k)
         \/ AttachSend \/ dispatch \/ acknowledge_event \/ emit_draft \/ EmitSend
         \/ resend_pending \/ UNCHANGED vars
  PROVE  UNCHANGED <<handler, slot, conns, session, tx, joined>>
  <1> USE DEF vars, hubVars, linkVars, outboxVars
  <1>1. ASSUME NEW c \in Command,
               apply_command(c) \/ RouteEffect(c) \/ ReceiptFails(c) \/ ack(c)
        PROVE  UNCHANGED <<handler, slot, conns, session, tx, joined>>
    BY <1>1 DEF apply_command, RouteEffect, ReceiptFails, ack
  <1>2. ASSUME NEW k \in Conn,
               \/ RoutePending(k) \/ ReceiveEvent(k) \/ AppendFails(k)
               \/ acknowledge_dispatch_from(k) \/ LinkBreaks(k)
        PROVE  UNCHANGED <<handler, slot, conns, session, tx, joined>>
    BY <1>2 DEF RoutePending, ReceiveEvent, AppendFails, acknowledge_dispatch_from, LinkBreaks
  <1>3. CASE \/ AttachSend \/ dispatch \/ acknowledge_event \/ emit_draft \/ EmitSend
             \/ resend_pending \/ UNCHANGED vars
    BY <1>3 DEF AttachSend, dispatch, acknowledge_event, emit_draft, EmitSend, resend_pending
  <1> QED BY <1>1, <1>2, <1>3

LEMMA SessionKept ==
  TypeOK /\ SessionIsOpen /\ SlotIsLive /\ [Next]_vars => SessionIsOpen' /\ SlotIsLive'
  <1> SUFFICES ASSUME TypeOK, SessionIsOpen, SlotIsLive, [Next]_vars
               PROVE  SessionIsOpen' /\ SlotIsLive'
    OBVIOUS
  <1> USE LinkAssumption
  <1>0. /\ handler \in [Conn -> HandlerPhase] /\ slot \in Conn \cup {0} /\ conns \in Nat
        /\ session \in Conn \cup {0} /\ tx \in Conn \cup {0}
        /\ Conn \subseteq Nat /\ 0 \notin Conn
    BY DEF TypeOK, Conn
  <1>1. CASE UNCHANGED <<handler, slot, conns, session, tx, joined>>
    BY <1>1 DEF SessionIsOpen, SlotIsLive
  <1>2. ASSUME NEW k \in Conn, NEW v \in HandlerPhase, Moves(k, v)
        PROVE  SessionIsOpen' /\ SlotIsLive'
    <2>1. SessionIsOpen'
      BY <1>0, <1>2 DEF Moves, SessionIsOpen
    <2>2. SlotIsLive'
      BY <1>0, <1>2 DEF Moves, SlotIsLive, Registered
    <2> QED BY <2>1, <2>2
  <1>3. CASE Dial
    <2>1. /\ conns + 1 \in Conn /\ tx = 0 /\ ~joined /\ handler[conns + 1] = "none"
          /\ conns' = conns + 1 /\ session' = conns + 1
          /\ handler' = [handler EXCEPT ![conns + 1] = "hello"] /\ UNCHANGED <<slot, tx, joined>>
      BY <1>0, <1>3 DEF Dial, TypeOK, Conn, SessionIsOpen, outboxVars
    <2>2. \A k \in Conn : handler'[k] = "none" <=> k > conns'
      <3> TAKE k \in Conn
      <3>1. CASE k = conns + 1
        BY <1>0, <2>1, <3>1
      <3>2. CASE k # conns + 1
        BY <1>0, <2>1, <3>2 DEF SessionIsOpen
      <3> QED BY <3>1, <3>2
    <2>3. SessionIsOpen'
      BY <1>0, <2>1, <2>2 DEF SessionIsOpen
    <2>4. SlotIsLive'
      BY <1>0, <2>1 DEF SlotIsLive, Registered
    <2> QED BY <2>3, <2>4
  <1>4. CASE Attach \/ StartReceiving \/ Detach
    BY <1>0, <1>4 DEF Attach, StartReceiving, Detach, SessionIsOpen, SlotIsLive, hubVars,
                      linkVars,
                     outboxVars
  <1>5. CASE HubCrash
    <2>1. /\ \A k \in Conn : handler'[k] = "none" <=> handler[k] = "none"
          /\ slot' = 0 /\ UNCHANGED <<conns, session, tx, joined>>
      BY <1>0, <1>5 DEF HubCrash, outboxVars
    <2> QED BY <2>1 DEF SessionIsOpen, SlotIsLive
  <1>6. CASE NodeCrash
    BY <1>0, <1>6 DEF NodeCrash, SessionIsOpen, SlotIsLive, hubVars
  <1> QED BY <1>1, <1>2, <1>3, <1>4, <1>5, <1>6, HandlersMove, QuietSteps
          DEF Next, HandlerStep, SessionStep

\* A handshake that is over before the next dial leaves the entry to the newest.
LEMMA HandshakeStep ==
  ASSUME PromptHandshake
  PROVE  TypeOK /\ SessionIsOpen /\ SlotIsLive /\ HandshakeIsNewest /\ [Next]_vars
             => HandshakeIsNewest'
  <1> SUFFICES ASSUME TypeOK, SessionIsOpen, SlotIsLive, HandshakeIsNewest, [Next]_vars
               PROVE  HandshakeIsNewest'
    OBVIOUS
  <1> USE LinkAssumption
  <1>0. /\ handler \in [Conn -> HandlerPhase] /\ slot \in Conn \cup {0} /\ conns \in Nat
        /\ Conn \subseteq Nat /\ 0 \notin Conn
    BY DEF TypeOK, Conn
  <1>1. CASE UNCHANGED <<handler, slot, conns, session, tx, joined>>
    BY <1>1 DEF HandshakeIsNewest
  <1>2. ASSUME NEW k \in Conn, NEW v \in HandlerPhase, Moves(k, v)
        PROVE  HandshakeIsNewest'
    BY <1>0, <1>2 DEF Moves, HandshakeIsNewest, Registered
  <1>3. CASE Dial
    <2>1. /\ conns' = conns + 1 /\ handler' = [handler EXCEPT ![conns + 1] = "hello"]
          /\ \A k \in Conn : handler[k] \notin {"hello", "welcomed"}
      BY <1>3 DEF Dial
    <2> QED BY <1>0, <2>1 DEF HandshakeIsNewest, Registered
  <1>4. CASE Attach \/ StartReceiving \/ Detach \/ NodeCrash
    BY <1>4 DEF Attach, StartReceiving, Detach, NodeCrash, HandshakeIsNewest, hubVars, linkVars
  <1>5. CASE HubCrash
    <2>1. \A k \in Conn : handler'[k] \in {"none", "failed", "done"}
      BY <1>0, <1>5 DEF HubCrash
    <2> QED BY <2>1 DEF HandshakeIsNewest, Registered
  <1> QED BY <1>1, <1>2, <1>3, <1>4, <1>5, HandlersMove, QuietSteps
          DEF Next, HandlerStep, SessionStep

-----------------------------------------------------------------------------
(* Frames on the wire.                                                     *)

\* The only acknowledgements of commands that appear are those of the ack tasks.
LEMMA UpStep ==
  ASSUME TypeOK, [Next]_vars, NEW k \in Conn, NEW c \in Command,
         Contains(up'[k], <<"command_ack", c>>)
  PROVE  Contains(up[k], <<"command_ack", c>>) \/ c \in acking
  <1> USE DEF hubVars, linkVars, outboxVars, engineVars
  <1> DEFINE f == <<"command_ack", c>>
             Goal == Contains(up[k], f) \/ c \in acking
  <1>0. /\ up \in [Conn -> Seq(UpFrame)] /\ ~Contains(<<>>, f)
        /\ \A e : f # <<"event", e>>
        /\ f \notin EventFrame
    <2>1. up \in [Conn -> Seq(UpFrame)] /\ ~Contains(<<>>, f)
      BY DEF TypeOK, UpFrame, Contains
    <2>2. \A e : f # <<"event", e>>
      OBVIOUS
    <2>3. \A x \in EventFrame : x[1] = "event"
      BY DEF EventFrame
    <2>4. f[1] = "command_ack"
      OBVIOUS
    <2> QED BY <2>1, <2>2, <2>3, <2>4
  <1>1. CASE UNCHANGED up
    BY <1>1
  <1>2. ASSUME NEW j \in Conn, up[j] # <<>>, up' = [up EXCEPT ![j] = Tail(@)] PROVE Goal
    BY <1>0, <1>2, TailContains
  <1>3. ASSUME NEW j \in Conn, ReceiveEvent(j) \/ AppendFails(j) \/ acknowledge_dispatch_from(j)
        PROVE  Goal
    BY <1>2, <1>3 DEF ReceiveEvent, AppendFails, acknowledge_dispatch_from, CanRead
  <1>4. ASSUME NEW j \in Conn, unregister_node(j) PROVE Goal
    BY <1>0, <1>4 DEF unregister_node
  <1>5. CASE AttachSend
    <2>1. tx \in Conn /\ <<"event", Head(attaching)>> \in UpFrame
      BY <1>5 DEF AttachSend, TypeOK, UpFrame, EventFrame
    <2> QED BY <1>0, <1>5, <2>1, SendAdds DEF AttachSend
  <1>6. ASSUME NEW d \in Command, ack(d) PROVE Goal
    <2>1. tx \in Conn \cup {0} /\ <<"command_ack", d>> \in UpFrame
      BY DEF TypeOK, UpFrame, CommandAckFrame
    <2>2. Contains(up[k], f) \/ f = <<"command_ack", d>>
      BY <1>6, <2>1, SendUpAdds DEF ack
    <2> QED BY <1>6, <2>2 DEF ack
  <1>7. CASE EmitSend
    <2>1. emitting[1][2] \in Conn \cup {0} /\ <<"event", emitting[1][1]>> \in UpFrame
      <3>1. emitting[1] \in EventId \X (Conn \cup {0})
        BY <1>7 DEF EmitSend, TypeOK
      <3> QED BY <3>1 DEF UpFrame, EventFrame
    <2> QED BY <1>0, <1>7, <2>1, SendUpAdds DEF EmitSend
  <1>8. CASE resend_pending
    <2>1. tx \in Conn
      BY <1>8 DEF resend_pending, TypeOK
    <2> QED BY <1>0, <1>8, <2>1, ResendAdds DEF resend_pending
  <1>9. CASE HubCrash
    <2>1. up'[k] = <<>>
      BY <1>9 DEF HubCrash
    <2> QED BY <1>0, <2>1
  <1>10. \/ UNCHANGED up \/ AttachSend \/ EmitSend \/ resend_pending \/ HubCrash
         \/ \E d \in Command : ack(d)
         \/ \E j \in Conn : \/ ReceiveEvent(j) \/ AppendFails(j) \/ acknowledge_dispatch_from(j)
                            \/ unregister_node(j)
    <2>1. ASSUME NEW d \in Command, apply_command(d) \/ RouteEffect(d) \/ ReceiptFails(d)
          PROVE  UNCHANGED up
      BY <2>1 DEF apply_command, RouteEffect, ReceiptFails
    <2>2. ASSUME NEW j \in Conn,
                 \/ SendWelcome(j) \/ HandshakeFails(j) \/ register_node(j)
                 \/ on_node_connected(j) \/ ReadPending(j) \/ RoutePending(j) \/ EnterLoop(j)
                 \/ on_node_disconnected(j) \/ LinkBreaks(j)
          PROVE  UNCHANGED up
      BY <2>2 DEF SendWelcome, HandshakeFails, register_node, on_node_connected, ReadPending,
                  RoutePending, EnterLoop, on_node_disconnected, LinkBreaks
    <2>3. CASE \/ Dial \/ Attach \/ StartReceiving \/ dispatch \/ acknowledge_event \/ Detach
               \/ emit_draft \/ NodeCrash \/ UNCHANGED vars
      BY <2>3 DEF Dial, Attach, StartReceiving, dispatch, acknowledge_event, Detach, emit_draft,
                  NodeCrash, vars
    <2> QED BY <2>1, <2>2, <2>3 DEF Next, HandlerStep, SessionStep
  <1> QED BY <1>1, <1>3, <1>4, <1>5, <1>6, <1>7, <1>8, <1>9, <1>10

\* The hub puts an acknowledgement on the wire once the event is in the log.
LEMMA DownStep ==
  ASSUME TypeOK, SessionIsOpen, [Next]_vars, NEW k \in Conn, NEW e \in EventId,
         Contains(down'[k], <<"event_ack", e>>)
  PROVE  Contains(down[k], <<"event_ack", e>>) \/ Contains(log', e)
  <1> USE LinkAssumption DEF hubVars, linkVars, outboxVars, engineVars
  <1> DEFINE f == <<"event_ack", e>>
             Goal == Contains(down[k], f) \/ Contains(log', e)
  <1>0. /\ down \in [Conn -> Seq(DownFrame)] /\ ~Contains(<<>>, f)
        /\ \A c : f # <<"dispatch", c>>
    BY DEF TypeOK, DownFrame, Contains
  <1>1. CASE UNCHANGED down
    BY <1>1
  <1>2. ASSUME NEW c \in Command, down' = route_to_node(<<"dispatch", c>>) PROVE Goal
    BY <1>0, <1>2, RouteAdds DEF DownFrame, DispatchFrame
  <1>3. ASSUME NEW j \in Conn, RoutePending(j) PROVE Goal
    <2>1. PICK i \in DOMAIN dispatched : down' = route_to_node(<<"dispatch", dispatched[i]>>)
      BY <1>3 DEF RoutePending
    <2>2. dispatched[i] \in Command
      BY DEF TypeOK
    <2> QED BY <1>2, <2>1, <2>2
  <1>4. ASSUME NEW j \in Conn, ReceiveEvent(j) PROVE Goal
    <2>1. PICK d \in EventId : log' = Logged(d) /\ down' = route_to_node(<<"event_ack", d>>)
      BY <1>4 DEF ReceiveEvent
    <2>2. Contains(log', d)
      BY <2>1, AppendContains DEF Logged, TypeOK
    <2>3. Contains(down[k], f) \/ f = <<"event_ack", d>>
      BY <2>1, RouteAdds DEF DownFrame, EventAckFrame
    <2> QED BY <2>2, <2>3
  <1>5. ASSUME NEW j \in Conn, unregister_node(j) PROVE Goal
    BY <1>0, <1>5 DEF unregister_node
  <1>6. CASE dispatch \/ acknowledge_event
    <2>1. session \in Conn /\ down[session] # <<>> /\ down' = [down EXCEPT ![session] = Tail(@)]
      BY <1>6 DEF dispatch, acknowledge_event, SessionIsOpen, TypeOK
    <2> QED BY <1>0, <2>1, TailContains
  <1>7. CASE Detach \/ NodeCrash
    <2>1. down'[k] = down[k] \/ down'[k] = <<>>
      BY <1>0, <1>7 DEF Detach, NodeCrash
    <2> QED BY <1>0, <2>1
  <1>8. CASE HubCrash
    <2>1. down'[k] = down[k] \/ down'[k] = <<>>
      BY <1>8 DEF HubCrash
    <2> QED BY <1>0, <2>1
  <1>9. \/ UNCHANGED down \/ dispatch \/ acknowledge_event \/ Detach \/ NodeCrash \/ HubCrash
        \/ \E c \in Command : down' = route_to_node(<<"dispatch", c>>)
        \/ \E j \in Conn : RoutePending(j) \/ ReceiveEvent(j) \/ unregister_node(j)
    <2>1. ASSUME NEW c \in Command, apply_command(c) \/ ReceiptFails(c) \/ ack(c)
          PROVE  UNCHANGED down
      BY <2>1 DEF apply_command, ReceiptFails, ack
    <2>2. ASSUME NEW c \in Command, RouteEffect(c) PROVE down' = route_to_node(<<"dispatch", c>>)
      BY <2>2 DEF RouteEffect
    <2>3. ASSUME NEW j \in Conn,
                 \/ SendWelcome(j) \/ HandshakeFails(j) \/ register_node(j)
                 \/ on_node_connected(j) \/ ReadPending(j) \/ EnterLoop(j) \/ AppendFails(j)
                 \/ acknowledge_dispatch_from(j) \/ on_node_disconnected(j) \/ LinkBreaks(j)
          PROVE  UNCHANGED down
      BY <2>3 DEF SendWelcome, HandshakeFails, register_node, on_node_connected, ReadPending,
                  EnterLoop, AppendFails, acknowledge_dispatch_from, on_node_disconnected,
                  LinkBreaks
    <2>4. CASE \/ Dial \/ Attach \/ AttachSend \/ StartReceiving \/ emit_draft \/ EmitSend
               \/ resend_pending \/ UNCHANGED vars
      BY <2>4 DEF Dial, Attach, AttachSend, StartReceiving, emit_draft, EmitSend, resend_pending,
                  vars
    <2> QED BY <2>1, <2>2, <2>3, <2>4 DEF Next, HandlerStep, SessionStep
  <1> QED BY <1>1, <1>2, <1>3, <1>4, <1>5, <1>6, <1>7, <1>8, <1>9

-----------------------------------------------------------------------------
(* Commands.                                                               *)

\* The steps after which the engine and the acknowledged rows are as before.
LEMMA EngineSteps ==
  ASSUME [Next]_vars
  PROVE  \/ UNCHANGED <<acked, node_seen, executed, acking, crashes>>
         \/ dispatch \/ NodeCrash
         \/ \E c \in Command : ack(c)
         \/ \E k \in Conn : acknowledge_dispatch_from(k)
  <1> USE DEF vars, hubVars, linkVars, outboxVars, engineVars
  <1> DEFINE Same == UNCHANGED <<acked, node_seen, executed, acking, crashes>>
  <1>1. ASSUME NEW c \in Command, apply_command(c) \/ RouteEffect(c) \/ ReceiptFails(c)
        PROVE  Same
    BY <1>1 DEF apply_command, RouteEffect, ReceiptFails
  <1>2. ASSUME NEW k \in Conn,
               \/ SendWelcome(k) \/ HandshakeFails(k) \/ register_node(k) \/ on_node_connected(k)
               \/ ReadPending(k) \/ RoutePending(k) \/ EnterLoop(k) \/ ReceiveEvent(k)
               \/ unregister_node(k) \/ on_node_disconnected(k) \/ AppendFails(k) \/ LinkBreaks(k)
        PROVE  Same
    BY <1>2 DEF SendWelcome, HandshakeFails, register_node, on_node_connected, ReadPending,
                RoutePending, EnterLoop, ReceiveEvent, unregister_node, on_node_disconnected,
                AppendFails, LinkBreaks
  <1>3. CASE \/ Dial \/ Attach \/ AttachSend \/ StartReceiving \/ acknowledge_event \/ Detach
             \/ emit_draft \/ EmitSend \/ resend_pending \/ HubCrash \/ UNCHANGED vars
    BY <1>3 DEF Dial, Attach, AttachSend, StartReceiving, acknowledge_event, Detach, emit_draft,
                EmitSend, resend_pending, HubCrash
  <1> QED BY <1>1, <1>2, <1>3 DEF Next, HandlerStep, SessionStep

LEMMA CommandStep == TypeOK /\ CommandInv /\ [Next]_vars => CommandInv'
  <1> SUFFICES ASSUME TypeOK, CommandInv, [Next]_vars PROVE CommandInv'
    OBVIOUS
  <1> USE LinkAssumption DEF hubVars, linkVars, outboxVars, engineVars
  <1>0. crashes \in Nat /\ executed \in Seq(Command)
    BY DEF TypeOK
  \* What a step other than a node crash must keep, given what it adds.
  <1>1. ASSUME node_seen \subseteq node_seen', acking' \subseteq node_seen' \cup acking, UNCHANGED crashes,
               crashes = 0 => acked' \subseteq acked \cup node_seen'
        PROVE  AcksAreTaken'
    BY <1>1, UpStep DEF CommandInv, AcksAreTaken
  <1>2. CASE UNCHANGED <<acked, node_seen, executed, acking, crashes>>
    <2>1. AcksAreTaken'
      BY <1>1, <1>2
    <2> QED BY <1>2, <2>1 DEF CommandInv, ExecutedWasSeen, Unique
  <1>3. CASE dispatch
    <2>1. PICK c \in Command : /\ node_seen' = node_seen \cup {c} /\ acking' = acking \cup {c}
                               /\ executed' = IF c \in node_seen THEN executed ELSE Append(executed, c)
                               /\ UNCHANGED <<acked, crashes>>
      BY <1>3 DEF dispatch
    <2>2. AcksAreTaken'
      BY <1>1, <2>1
    <2>3. ExecutedWasSeen'
      <3>1. CASE c \in node_seen
        BY <2>1, <3>1 DEF CommandInv, ExecutedWasSeen, Unique
      <3>2. CASE c \notin node_seen
        <4>1. ~Contains(executed, c)
          BY <1>0, <3>2 DEF CommandInv, ExecutedWasSeen, Contains
        <4>2. Unique(Append(executed, c))
          BY <1>0, <4>1, AppendContains DEF CommandInv, ExecutedWasSeen
        <4>3. \A i \in DOMAIN executed' : executed'[i] \in node_seen'
          BY <1>0, <2>1, <3>2 DEF CommandInv, ExecutedWasSeen
        <4> QED BY <2>1, <3>2, <4>2, <4>3 DEF ExecutedWasSeen, Unique
      <3> QED BY <3>1, <3>2
    <2> QED BY <2>2, <2>3 DEF CommandInv
  <1>4. ASSUME NEW c \in Command, ack(c) PROVE CommandInv'
    <2>1. acking' = acking \ {c} /\ UNCHANGED <<acked, node_seen, executed, crashes>>
      BY <1>4 DEF ack
    <2>2. AcksAreTaken'
      BY <1>1, <2>1
    <2> QED BY <2>1, <2>2 DEF CommandInv, ExecutedWasSeen, Unique
  <1>5. ASSUME NEW k \in Conn, acknowledge_dispatch_from(k) PROVE CommandInv'
    <2>1. PICK c \in Command : /\ up[k] # <<>> /\ Head(up[k]) = <<"command_ack", c>>
                               /\ acked' = acked \cup {c}
                               /\ UNCHANGED <<node_seen, executed, acking, crashes>>
      BY <1>5 DEF acknowledge_dispatch_from, CanRead
    <2>2. Contains(up[k], <<"command_ack", c>>)
      BY <2>1, TailContains DEF TypeOK
    <2>3. crashes = 0 => c \in node_seen
      BY <2>2 DEF CommandInv, AcksAreTaken
    <2>4. AcksAreTaken'
      BY <1>1, <2>1, <2>3
    <2> QED BY <2>1, <2>4 DEF CommandInv, ExecutedWasSeen, Unique
  <1>6. CASE NodeCrash
    <2>1. crashes' = crashes + 1 /\ executed' = <<>>
      BY <1>6 DEF NodeCrash
    <2> QED BY <1>0, <2>1 DEF CommandInv, AcksAreTaken, ExecutedWasSeen, Unique
  <1> QED BY <1>2, <1>3, <1>4, <1>5, <1>6, EngineSteps

-----------------------------------------------------------------------------
(* Events.                                                                 *)

\* The steps after which the outbox and the log are as before.
LEMMA OutboxSteps ==
  ASSUME [Next]_vars
  PROVE  \/ UNCHANGED <<log, pending, emitted, crashes>>
         \/ emit_draft \/ acknowledge_event \/ NodeCrash
         \/ \E k \in Conn : ReceiveEvent(k) \/ AppendFails(k)
  <1> USE DEF vars, hubVars, linkVars, outboxVars, engineVars
  <1> DEFINE Same == UNCHANGED <<log, pending, emitted, crashes>>
  <1>1. ASSUME NEW c \in Command, apply_command(c) \/ RouteEffect(c) \/ ReceiptFails(c) \/ ack(c)
        PROVE  Same
    BY <1>1 DEF apply_command, RouteEffect, ReceiptFails, ack
  <1>2. ASSUME NEW k \in Conn,
               \/ SendWelcome(k) \/ HandshakeFails(k) \/ register_node(k) \/ on_node_connected(k)
               \/ ReadPending(k) \/ RoutePending(k) \/ EnterLoop(k)
               \/ acknowledge_dispatch_from(k) \/ unregister_node(k) \/ on_node_disconnected(k)
               \/ LinkBreaks(k)
        PROVE  Same
    BY <1>2 DEF SendWelcome, HandshakeFails, register_node, on_node_connected, ReadPending,
                RoutePending, EnterLoop, acknowledge_dispatch_from, unregister_node,
                on_node_disconnected, LinkBreaks
  <1>3. CASE \/ Dial \/ Attach \/ AttachSend \/ StartReceiving \/ dispatch \/ Detach
             \/ EmitSend \/ resend_pending \/ HubCrash \/ UNCHANGED vars
    BY <1>3 DEF Dial, Attach, AttachSend, StartReceiving, dispatch, Detach, EmitSend,
                resend_pending, HubCrash
  <1> QED BY <1>1, <1>2, <1>3 DEF Next, HandlerStep, SessionStep

\* Logging an event keeps the log without duplicates and loses nothing of it.
LEMMA LoggedKeeps ==
  ASSUME TypeOK, LoggedOnce, NEW e \in EventId
  PROVE  /\ Unique(Logged(e))
         /\ \A y : Contains(log, y) => Contains(Logged(e), y)
  <1>1. log \in Seq(EventId) /\ Unique(log)
    BY DEF TypeOK, LoggedOnce
  <1>2. CASE Contains(log, e)
    BY <1>1, <1>2 DEF Logged
  <1>3. CASE ~Contains(log, e)
    BY <1>1, <1>3, AppendContains DEF Logged
  <1> QED BY <1>2, <1>3

LEMMA EventStep == TypeOK /\ SessionIsOpen /\ EventInv /\ [Next]_vars => EventInv'
  <1> SUFFICES ASSUME TypeOK, SessionIsOpen, EventInv, [Next]_vars PROVE EventInv'
    OBVIOUS
  <1> USE LinkAssumption DEF hubVars, linkVars, outboxVars, engineVars
  <1>0. /\ crashes \in Nat /\ emitted \in Nat /\ emitted <= MaxEvents
        /\ pending \in Seq(EventId) /\ log \in Seq(EventId)
    BY DEF TypeOK
  <1>1. ASSUME \A y : Contains(log, y) => Contains(log', y) PROVE AcksAreLogged'
    BY <1>1, DownStep DEF EventInv, AcksAreLogged
  <1>2. CASE UNCHANGED <<log, pending, emitted, crashes>>
    <2>1. AcksAreLogged'
      BY <1>1, <1>2
    <2> QED BY <1>2, <2>1 DEF EventInv, LoggedOnce, NoEventLost, Unique
  <1>3. ASSUME NEW e \in EventId, log' = Logged(e), UNCHANGED <<pending, emitted, crashes>>
        PROVE  EventInv'
    <2>1. Unique(log') /\ \A y : Contains(log, y) => Contains(log', y)
      BY <1>3, LoggedKeeps DEF EventInv
    <2>2. AcksAreLogged'
      BY <1>1, <2>1
    <2>3. NoEventLost'
      BY <1>3, <2>1 DEF EventInv, NoEventLost
    <2> QED BY <2>1, <2>2, <2>3 DEF EventInv, LoggedOnce, Unique
  <1>4. ASSUME NEW k \in Conn, ReceiveEvent(k) PROVE EventInv'
    <2>1. \E e \in EventId : log' = Logged(e) /\ UNCHANGED <<pending, emitted, crashes>>
      BY <1>4 DEF ReceiveEvent
    <2> QED BY <1>3, <2>1
  <1>5. ASSUME NEW k \in Conn, AppendFails(k) PROVE EventInv'
    <2>1. /\ UNCHANGED <<pending, emitted, crashes>> /\ Head(up[k])[2] \in EventId
          /\ log' = log \/ log' = Logged(Head(up[k])[2])
      BY <1>5 DEF AppendFails, EventFrame
    <2> QED BY <1>2, <1>3, <2>1
  <1>6. CASE emit_draft
    <2>1. /\ emitted' = emitted + 1 /\ pending' = Append(pending, emitted + 1)
          /\ emitted + 1 \in EventId /\ UNCHANGED <<log, crashes>>
      BY <1>0, <1>6 DEF emit_draft, EventId
    <2>2. AcksAreLogged'
      BY <1>1, <2>1
    <2>3. NoEventLost'
      <3> SUFFICES ASSUME crashes = 0, NEW e \in 1..(emitted + 1)
                   PROVE  Contains(log, e) \/ Contains(pending', e)
        BY <2>1 DEF NoEventLost
      <3>1. \A y : Contains(pending', y) <=> Contains(pending, y) \/ y = emitted + 1
        BY <1>0, <2>1, AppendContains
      <3>2. e = emitted + 1 \/ e \in 1..emitted
        BY <1>0
      <3> QED BY <3>1, <3>2 DEF EventInv, NoEventLost
    <2> QED BY <2>1, <2>2, <2>3 DEF EventInv, LoggedOnce, Unique
  <1>7. CASE acknowledge_event
    <2>1. PICK e \in EventId : /\ joined /\ down[session] # <<>>
                               /\ Head(down[session]) = <<"event_ack", e>>
                               /\ pending' = Acknowledged(pending, e)
                               /\ UNCHANGED <<log, emitted, crashes>>
      BY <1>7 DEF acknowledge_event
    <2>2. Contains(log, e)
      <3>1. session \in Conn /\ down[session] \in Seq(DownFrame)
        BY <2>1 DEF SessionIsOpen, TypeOK, DownFrame
      <3>2. Contains(down[session], <<"event_ack", e>>)
        BY <2>1, <3>1, TailContains
      <3> QED BY <3>1, <3>2 DEF EventInv, AcksAreLogged
    <2>3. \A y : Contains(pending, y) /\ y # e => Contains(pending', y)
      BY <1>0, <2>1, AcknowledgedKeeps
    <2>4. AcksAreLogged'
      BY <1>1, <2>1
    <2>5. NoEventLost'
      BY <2>1, <2>2, <2>3 DEF EventInv, NoEventLost
    <2> QED BY <2>1, <2>4, <2>5 DEF EventInv, LoggedOnce, Unique
  <1>8. CASE NodeCrash
    <2>1. crashes' = crashes + 1 /\ UNCHANGED log
      BY <1>8 DEF NodeCrash
    <2>2. AcksAreLogged'
      BY <1>1, <2>1
    <2> QED BY <1>0, <2>1, <2>2 DEF EventInv, NoEventLost, LoggedOnce, Unique
  <1> QED BY <1>2, <1>4, <1>5, <1>6, <1>7, <1>8, OutboxSteps

-----------------------------------------------------------------------------
(* The results.                                                            *)

LEMMA LinkStep == LinkInv /\ [Next]_vars => LinkInv'
  BY TypeStep, SessionKept, CommandStep, EventStep DEF LinkInv

\* The inductive invariant of the link.
THEOREM LinkInvariant == Spec => []LinkInv
  <1>1. Init => LinkInv
    BY LinkInit
  <1> QED BY <1>1, LinkStep, PTL DEF Spec

\* However often events are resent, appends fail, acknowledgements are lost and either
\* side reconnects, an emitted event is in the outbox until it is in the log, and in
\* the log once.
THEOREM EventsAreKept == Spec => []EventsKept
  <1>1. LinkInv => EventsKept
    BY DEF LinkInv, EventInv, EventsKept
  <1> QED BY <1>1, LinkInvariant, PTL

\* The newest connection that registered owns the registry entry.
LEMMA NewestHasSlot == ASSUME LinkInv, HandshakeIsNewest PROVE SlotIsNewest
  <1> USE LinkAssumption
  <1>0. conns \in Nat /\ Conn \subseteq Nat /\ 0 \notin Conn /\ (conns # 0 => conns \in Conn)
    BY DEF LinkInv, TypeOK, Conn
  <1>1. ASSUME NEW k \in Conn, handler[k] \in Registered,
               \A j \in Conn : j > k => handler[j] = "none"
        PROVE  slot = k
    <2>1. k <= conns
      BY <1>0, <1>1 DEF LinkInv, SessionIsOpen, Registered
    <2>2. ~(conns > k)
      BY <1>0, <1>1 DEF LinkInv, SessionIsOpen
    <2>3. k = conns
      BY <1>0, <2>1, <2>2
    <2> QED BY <1>1, <2>3 DEF HandshakeIsNewest
  <1> QED BY <1>1 DEF LinkInv, SlotIsLive, SlotIsNewest

\* Provided a connection's handshake is over before the node dials again, a command
\* goes to the newest connection, is acted on at most once in the life of the node
\* process, and is acknowledged by nobody else.
THEOREM CommandsAreTakenOnce ==
  ASSUME PromptHandshake
  PROVE  Spec => []CommandsTakenOnce
  <1>1. Init => HandshakeIsNewest
    BY LinkInit
  <1>2. LinkInv /\ HandshakeIsNewest /\ [Next]_vars => HandshakeIsNewest'
    BY HandshakeStep DEF LinkInv
  <1>3. LinkInv /\ HandshakeIsNewest => CommandsTakenOnce
    BY NewestHasSlot
       DEF LinkInv, CommandInv, ExecutedWasSeen, AcksAreTaken, CommandsTakenOnce,
           AckedWasTaken, ExecutedAtMostOnce
  <1> QED BY <1>1, <1>2, <1>3, LinkInvariant, PTL DEF Spec

\* Without that proviso: whichever connection has the entry, its handler is live, no
\* command is acted on twice and no dispatch is taken for acknowledged that the node
\* has not seen.
THEOREM AcknowledgementsAreTrue ==
  Spec => [](SlotIsLive /\ AckedWasTaken /\ ExecutedAtMostOnce)
  <1>1. LinkInv => SlotIsLive /\ AckedWasTaken /\ ExecutedAtMostOnce
    BY DEF LinkInv, CommandInv, ExecutedWasSeen, AcksAreTaken, AckedWasTaken, ExecutedAtMostOnce
  <1> QED BY <1>1, LinkInvariant, PTL

-----------------------------------------------------------------------------
(* The engine behind the link: CliEngine. Whatever arrives, in whatever    *)
(* order, and however many prompts overlap on a run, interrupt marks and   *)
(* job entries never outlive the prompts they stand for.                   *)

\* Nothing is spawned or reported for a prompt before it is taken.
UnseenIsIdle ==
    \A c \in Prompt : c \notin seen => process[c] = "none" /\ reported[c] = None

\* Each part needs the others: stop_run marks a run because it has a job, and the
\* job is what keeps the mark from outliving its prompt.
EngineInv == EngineTypeOK /\ JobsAreOpen /\ MarkHasPrompt /\ UnseenIsIdle

LEMMA EngineStarts ==
  EngineInit => EngineInv
  BY EngineAssumption DEF EngineInit, EngineInv, EngineTypeOK, JobsAreOpen,
         MarkHasPrompt, Open, Prompt, UnseenIsIdle

LEMMA RunOfType ==
  \A c \in CommandId : RunOf(c) \in Run
  BY EngineAssumption DEF RunOf

\* stop_run marks only a run that has an open prompt.
LEMMA StopRunMarksOpen ==
  ASSUME EngineInv, NEW r \in Run, stop_run(r), UNCHANGED <<jobs, reported>>,
         seen \subseteq seen'
  PROVE  /\ interrupted' \in SUBSET Run
         /\ stopping' \in Prompt \cup {None}
         /\ JobsAreOpen' /\ MarkHasPrompt'
  <1>1. \A x \in Run : Open(x) \subseteq Open(x)'
    BY DEF Open
  <1>2. JobsAreOpen'
    BY <1>1 DEF EngineInv, JobsAreOpen
  <1>3. MarkHasPrompt'
    <2>1. CASE jobs[r] = None
      BY <2>1, <1>1 DEF stop_run, EngineInv, EngineTypeOK, MarkHasPrompt
    <2>2. CASE jobs[r] # None
      <3>1. jobs[r] \in Open(r)
        BY <2>2 DEF EngineInv, JobsAreOpen
      <3> QED BY <2>2, <3>1, <1>1 DEF stop_run, EngineInv, EngineTypeOK,
                                      MarkHasPrompt
    <2> QED BY <2>1, <2>2
  <1> QED BY <1>2, <1>3 DEF stop_run, EngineInv, EngineTypeOK

LEMMA EngineStep ==
  EngineInv /\ [EngineNext]_cliVars => EngineInv'
  <1> SUFFICES ASSUME EngineInv, [EngineNext]_cliVars PROVE EngineInv'
    OBVIOUS
  <1> USE EngineAssumption DEF EngineInv
  <1>0. UnseenIsIdle'
    <2> USE DEF UnseenIsIdle, EngineTypeOK
    <2>1. ASSUME NEW c \in CommandId,
                 \/ DispatchAgain(c) \/ DispatchStartRun(c)
                 \/ DispatchRefused(c)
                 \/ DispatchInterrupt(c) \/ cancel(c)
          PROVE  UnseenIsIdle'
      BY <2>1 DEF DispatchAgain, DispatchStartRun, DispatchRefused,
                  DispatchInterrupt,
                  cancel, Fresh, cliVars
    <2>2. ASSUME NEW c \in CommandId, DispatchPrompt(c) PROVE UnseenIsIdle'
      BY <2>2 DEF DispatchPrompt, Fresh
    <2>3. CASE terminate \/ UNCHANGED cliVars
      BY <2>3 DEF terminate, cliVars
    <2>4. ASSUME NEW c \in Prompt, NEW outcome \in {"succeeded", "failed"},
                 ProcessExit(c, outcome) \/ Complete(c)
          PROVE  UnseenIsIdle'
      BY <2>4 DEF ProcessExit, Complete
    <2> QED BY <2>1, <2>2, <2>3, <2>4 DEF EngineNext
  <1> USE <1>0
  <1>1. ASSUME NEW c \in CommandId, DispatchAgain(c) PROVE EngineInv'
    BY <1>1 DEF DispatchAgain, cliVars, EngineTypeOK, JobsAreOpen,
                MarkHasPrompt, Open
  <1>2. ASSUME NEW c \in CommandId, DispatchStartRun(c) PROVE EngineInv'
    <2>1. EngineTypeOK'
      BY <1>2, RunOfType DEF DispatchStartRun, Fresh, EngineTypeOK
    <2>2. \A x \in Run : Open(x) \subseteq Open(x)'
      BY <1>2 DEF DispatchStartRun, Fresh, Open
    <2> QED BY <1>2, <2>1, <2>2 DEF DispatchStartRun, EngineTypeOK, JobsAreOpen,
                                    MarkHasPrompt
  <1>3. ASSUME NEW c \in CommandId, DispatchRefused(c) PROVE EngineInv'
    <2>1. EngineTypeOK'
      BY <1>3 DEF DispatchRefused, Fresh, EngineTypeOK
    <2>2. \A x \in Run : Open(x) \subseteq Open(x)'
      BY <1>3 DEF DispatchRefused, Fresh, Open, EngineTypeOK
    <2> QED BY <1>3, <2>1, <2>2 DEF DispatchRefused, EngineTypeOK, JobsAreOpen,
                                    MarkHasPrompt
  <1>4. ASSUME NEW c \in CommandId, DispatchPrompt(c) PROVE EngineInv'
    <2>1. EngineTypeOK'
      BY <1>4, RunOfType DEF DispatchPrompt, Fresh, EngineTypeOK
    <2>2. \A x \in Run : Open(x) \subseteq Open(x)'
      BY <1>4 DEF DispatchPrompt, Fresh, Open
    <2>3. JobsAreOpen'
      <3> SUFFICES ASSUME NEW r \in Run, jobs'[r] # None PROVE jobs'[r] \in Open(r)'
        BY DEF JobsAreOpen
      <3>1. CASE r = RunOf(c)
        <4>0. c \notin seen /\ c \in Prompt
          BY <1>4 DEF DispatchPrompt, Fresh
        <4>1. reported[c] = None
          BY <4>0 DEF UnseenIsIdle
        <4> QED BY <1>4, <3>1, <4>1 DEF DispatchPrompt, Fresh, Open,
                                        EngineTypeOK
      <3>2. CASE r # RunOf(c)
        BY <1>4, <3>2, <2>2 DEF DispatchPrompt, EngineTypeOK, JobsAreOpen
      <3> QED BY <3>1, <3>2
    <2> QED BY <1>4, <2>1, <2>2, <2>3 DEF DispatchPrompt, EngineTypeOK,
                                          MarkHasPrompt
  <1>5. ASSUME NEW c \in CommandId, DispatchInterrupt(c) PROVE EngineInv'
    <2>1. /\ stop_run(RunOf(c))
          /\ seen \subseteq seen' /\ seen' \in SUBSET CommandId
          /\ UNCHANGED <<runs, jobs, command_runs, process, signalled, reported, overlapped>>
      BY <1>5 DEF DispatchInterrupt, Fresh, EngineTypeOK
    <2> QED BY <2>1, RunOfType, StopRunMarksOpen DEF EngineTypeOK
  <1>6. ASSUME NEW c \in CommandId, cancel(c) PROVE EngineInv'
    <2>1. /\ stop_run(command_runs[c]) /\ command_runs[c] \in Run
          /\ UNCHANGED <<runs, jobs, command_runs, seen, process, signalled, reported,
                         overlapped>>
      BY <1>6 DEF cancel, EngineTypeOK
    <2> QED BY <2>1, StopRunMarksOpen DEF EngineTypeOK
  <1>7. CASE terminate
    BY <1>7 DEF terminate, EngineTypeOK, JobsAreOpen, MarkHasPrompt,
                Open
  <1>8. ASSUME NEW c \in Prompt, NEW outcome \in {"succeeded", "failed"},
               ProcessExit(c, outcome)
        PROVE  EngineInv'
    BY <1>8 DEF ProcessExit, EngineTypeOK, JobsAreOpen, MarkHasPrompt,
                Open
  <1>9. ASSUME NEW c \in Prompt, Complete(c) PROVE EngineInv'
    <2>0. c \in CommandId /\ RunOf(c) \in Run
      BY RunOfType DEF Prompt
    <2>1. EngineTypeOK'
      BY <1>9, <2>0 DEF Complete, OutcomeOf, EngineTypeOK
    <2>2. \A x \in Run : x # RunOf(c) => Open(x) \subseteq Open(x)'
      BY <1>9 DEF Complete, OutcomeOf, Open, EngineTypeOK
    <2>3. JobsAreOpen'
      BY <1>9, <2>0, <2>2 DEF Complete, EngineTypeOK, JobsAreOpen
    <2>4. MarkHasPrompt'
      BY <1>9, <2>0, <2>2 DEF Complete, EngineTypeOK, MarkHasPrompt
    <2> QED BY <2>1, <2>3, <2>4
  <1>10. CASE UNCHANGED cliVars
    BY <1>10 DEF cliVars, EngineTypeOK, JobsAreOpen, MarkHasPrompt, Open
  <1> QED BY <1>1, <1>2, <1>3, <1>4, <1>5, <1>6, <1>7, <1>8, <1>9, <1>10 DEF EngineNext

\* The inductive invariant of the engine.
THEOREM EngineInvariant ==
  EngineSpec => []EngineInv
  BY EngineStarts, EngineStep, PTL DEF EngineSpec

\* An interrupt mark never survives the prompts it was meant for.
THEOREM MarksAreConsumed ==
  EngineSpec => []MarkHasPrompt
  <1>1. EngineInv => MarkHasPrompt
    BY DEF EngineInv
  <1> QED BY <1>1, EngineInvariant, PTL

\* stop_run only ever finds the job of a prompt that is still unreported.
THEOREM JobsStayOpen ==
  EngineSpec => []JobsAreOpen
  <1>1. EngineInv => JobsAreOpen
    BY DEF EngineInv
  <1> QED BY <1>1, EngineInvariant, PTL

-----------------------------------------------------------------------------
(* Interrupts, while a run gets one prompt at a time.                      *)

\* A process runs only for a prompt without an outcome.
RunningIsUnreported == \A c \in Prompt : process[c] = "running" => reported[c] = None

\* An open prompt of a run that was never prompted twice holds the run's job entry:
\* there is at most one.
OpenIsFiled ==
    \A c \in Prompt :
        RunOf(c) \notin overlapped /\ c \in Open(RunOf(c)) =>
        jobs[RunOf(c)] = c

\* What stop_run is about to signal, or has signalled, was taken; until it is
\* reported its run is marked, and the report is what the mark says.
StoppedIsMarked ==
    \A c \in Prompt : c = stopping \/ c \in signalled =>
        /\ c \in seen
        /\ RunOf(c) \notin overlapped =>
               /\ reported[c] = None => RunOf(c) \in interrupted
               /\ c \in signalled => reported[c] \in {None, "run.interrupted"}

StopInv == RunningIsUnreported /\ OpenIsFiled /\ StoppedIsMarked

LEMMA StopInit ==
  EngineInit => StopInv
  BY EngineAssumption DEF EngineInit, StopInv, RunningIsUnreported, OpenIsFiled, StoppedIsMarked,
         Open,
                          Prompt

\* A prompt whose process has ended, or runs, was taken; without an outcome it is open.
LEMMA SpawnedIsOpen ==
  ASSUME EngineInv, NEW c \in Prompt, process[c] # "none", reported[c] = None
  PROVE  c \in Open(RunOf(c))
  BY DEF EngineInv, UnseenIsIdle, Open

\* stop_run copies the open job of the run it marks.
LEMMA StopRunMarks ==
  ASSUME EngineInv, StopInv, NEW r \in Run, stop_run(r),
         seen \subseteq seen',
         UNCHANGED <<jobs, process, signalled, reported, overlapped>>,
         \A c \in Prompt : c \in seen' => c \in seen
  PROVE  StopInv'
  <1>1. RunningIsUnreported' /\ OpenIsFiled'
    BY DEF StopInv, RunningIsUnreported, OpenIsFiled, Open
  <1>2. ASSUME NEW c \in Prompt, c = stopping'
        PROVE  /\ c \in seen /\ RunOf(c) \in interrupted'
               /\ c \in signalled => reported[c] = None
    <2>1. jobs[r] = c /\ c # None
      BY <1>2, EngineAssumption DEF stop_run, Prompt
    <2>2. c \in Open(r)
      BY <2>1 DEF EngineInv, JobsAreOpen
    <2> QED BY <2>1, <2>2 DEF stop_run, Open
  <1>3. interrupted \subseteq interrupted'
    BY DEF stop_run
  <1>4. StoppedIsMarked'
    BY <1>2, <1>3 DEF StopInv, StoppedIsMarked
  <1> QED BY <1>1, <1>4 DEF StopInv

LEMMA StopStep ==
  EngineInv /\ StopInv /\ [EngineNext]_cliVars => StopInv'
  <1> SUFFICES ASSUME EngineInv, StopInv, [EngineNext]_cliVars PROVE StopInv'
    OBVIOUS
  <1> USE EngineAssumption
  <1>0. EngineTypeOK
    BY DEF EngineInv
  <1>1. ASSUME NEW c \in CommandId, DispatchAgain(c) \/ DispatchStartRun(c)
        PROVE  StopInv'
    <2>1. /\ UNCHANGED <<jobs, interrupted, process, stopping, signalled, reported, overlapped>>
          /\ seen \subseteq seen'
          /\ \A d \in Prompt : d \in seen' => d \in seen
      BY <1>1 DEF DispatchAgain, DispatchStartRun, Fresh, cliVars,
                  Prompt
    <2> QED BY <2>1 DEF StopInv, RunningIsUnreported, OpenIsFiled, StoppedIsMarked, Open
  <1>2. ASSUME NEW c \in CommandId, DispatchRefused(c) PROVE StopInv'
    <2>1. /\ c \in Prompt /\ c \notin seen /\ seen' = seen \cup {c}
          /\ reported' = [reported EXCEPT ![c] = "run.failed"]
          /\ UNCHANGED <<jobs, interrupted, process, stopping, signalled, overlapped>>
      BY <1>2 DEF DispatchRefused, Fresh
    <2>2. process[c] # "running"
      BY <2>1 DEF EngineInv, UnseenIsIdle
    <2>3. RunningIsUnreported'
      BY <2>1, <2>2, <1>0 DEF StopInv, RunningIsUnreported, EngineTypeOK
    <2>4. OpenIsFiled'
      BY <2>1, <1>0 DEF StopInv, OpenIsFiled, Open, EngineTypeOK
    <2>5. StoppedIsMarked'
      BY <2>1, <1>0 DEF StopInv, StoppedIsMarked, EngineTypeOK
    <2> QED BY <2>3, <2>4, <2>5 DEF StopInv
  <1>3. ASSUME NEW c \in CommandId, DispatchPrompt(c) PROVE StopInv'
    <2>1. /\ c \in Prompt /\ c \notin seen /\ seen' = seen \cup {c}
          /\ jobs' = [jobs EXCEPT ![RunOf(c)] = c]
          /\ overlapped' = IF Open(RunOf(c)) = {} THEN overlapped
                           ELSE overlapped \cup {RunOf(c)}
          /\ UNCHANGED <<interrupted, stopping, signalled, reported>>
      BY <1>3 DEF DispatchPrompt, Fresh
    <2>2. reported[c] = None
      BY <2>1 DEF EngineInv, UnseenIsIdle
    <2>3. RunningIsUnreported'
      <3>1. \A d \in Prompt : d # c => process'[d] = process[d]
        BY <1>3, <1>0 DEF DispatchPrompt, EngineTypeOK
      <3> QED BY <2>1, <2>2, <3>1 DEF StopInv, RunningIsUnreported
    <2>4. OpenIsFiled'
      <3> SUFFICES ASSUME NEW d \in Prompt, RunOf(d) \notin overlapped',
                          d \in Open(RunOf(d))'
                   PROVE  jobs'[RunOf(d)] = d
        BY DEF OpenIsFiled
      <3>0. RunOf(c) \in Run
        BY RunOfType
      <3>1. CASE d = c
        BY <3>0, <3>1, <2>1, <1>0 DEF EngineTypeOK
      <3>2. CASE d # c
        <4>1. RunOf(d) \notin overlapped /\ d \in Open(RunOf(d))
          BY <3>2, <2>1 DEF Open
        <4>2. jobs[RunOf(d)] = d
          BY <4>1 DEF StopInv, OpenIsFiled
        <4>3. RunOf(d) # RunOf(c)
          BY <4>1, <2>1
        <4> QED BY <4>2, <4>3, <2>1, <1>0 DEF EngineTypeOK
      <3> QED BY <3>1, <3>2
    <2>5. StoppedIsMarked'
      BY <2>1 DEF StopInv, StoppedIsMarked
    <2> QED BY <2>3, <2>4, <2>5 DEF StopInv
  <1>4. ASSUME NEW c \in CommandId, DispatchInterrupt(c) PROVE StopInv'
    <2>1. /\ stop_run(RunOf(c)) /\ seen \subseteq seen'
          /\ UNCHANGED <<jobs, process, signalled, reported, overlapped>>
          /\ \A d \in Prompt : d \in seen' => d \in seen
      BY <1>4 DEF DispatchInterrupt, Fresh, Prompt
    <2> QED BY <2>1, RunOfType, StopRunMarks
  <1>5. ASSUME NEW c \in CommandId, cancel(c) PROVE StopInv'
    <2>1. /\ stop_run(command_runs[c]) /\ command_runs[c] \in Run
          /\ UNCHANGED <<seen, jobs, process, signalled, reported, overlapped>>
      BY <1>5, <1>0 DEF cancel, EngineTypeOK
    <2> QED BY <2>1, StopRunMarks
  <1>6. CASE terminate
    <2>1. /\ UNCHANGED <<jobs, seen, interrupted, process, reported, overlapped>>
          /\ stopping' = None
          /\ signalled' \subseteq signalled \cup {stopping}
          /\ signalled' # signalled => process[stopping] = "running" /\ stopping \in Prompt
      BY <1>6, <1>0 DEF terminate, EngineTypeOK
    <2>2. RunningIsUnreported' /\ OpenIsFiled'
      BY <2>1 DEF StopInv, RunningIsUnreported, OpenIsFiled, Open
    <2>3. StoppedIsMarked'
      BY <2>1 DEF StopInv, StoppedIsMarked, RunningIsUnreported, Prompt
    <2> QED BY <2>2, <2>3 DEF StopInv
  <1>7. ASSUME NEW c \in Prompt, NEW outcome \in {"succeeded", "failed"},
               ProcessExit(c, outcome)
        PROVE  StopInv'
    <2>1. RunningIsUnreported'
      BY <1>7, <1>0 DEF ProcessExit, EngineTypeOK, StopInv, RunningIsUnreported
    <2>2. OpenIsFiled' /\ StoppedIsMarked'
      BY <1>7 DEF ProcessExit, StopInv, OpenIsFiled, StoppedIsMarked, Open
    <2> QED BY <2>1, <2>2 DEF StopInv
  <1>8. ASSUME NEW c \in Prompt, Complete(c) PROVE StopInv'
    <2>1. /\ process[c] \in {"succeeded", "failed"} /\ reported[c] = None
          /\ jobs' = [jobs EXCEPT ![RunOf(c)] = None]
          /\ interrupted' = interrupted \ {RunOf(c)}
          /\ reported' = [reported EXCEPT ![c] = OutcomeOf(c)]
          /\ UNCHANGED <<seen, process, stopping, signalled, overlapped>>
      BY <1>8 DEF Complete
    <2>2. c \in Open(RunOf(c))
      BY <2>1, SpawnedIsOpen
    \* Of a run that is not overlapped, c was the only open prompt.
    <2>3. ASSUME NEW d \in Prompt, d # c, RunOf(d) \notin overlapped,
                 d \in Open(RunOf(d))
          PROVE  RunOf(d) # RunOf(c)
      BY <2>2, <2>3 DEF StopInv, OpenIsFiled
    <2>4. RunOf(c) \in Run /\ OutcomeOf(c) # None
      BY RunOfType DEF Prompt, OutcomeOf
    <2>5. RunningIsUnreported'
      BY <2>1, <1>0 DEF StopInv, RunningIsUnreported, EngineTypeOK
    <2>6. OpenIsFiled'
      <3> SUFFICES ASSUME NEW d \in Prompt, RunOf(d) \notin overlapped',
                          d \in Open(RunOf(d))'
                   PROVE  jobs'[RunOf(d)] = d
        BY DEF OpenIsFiled
      <3>1. d # c /\ RunOf(d) \notin overlapped /\ d \in Open(RunOf(d))
        BY <2>1, <2>4, <1>0 DEF Open, EngineTypeOK
      <3>2. RunOf(d) # RunOf(c) /\ jobs[RunOf(d)] = d
        BY <3>1, <2>3 DEF StopInv, OpenIsFiled
      <3> QED BY <3>2, <2>1, <1>0 DEF EngineTypeOK
    <2>7. StoppedIsMarked'
      <3> SUFFICES ASSUME NEW d \in Prompt, d = stopping \/ d \in signalled
                   PROVE  /\ d \in seen
                          /\ RunOf(d) \notin overlapped =>
                                 /\ reported'[d] = None => RunOf(d) \in interrupted'
                                 /\ d \in signalled =>
                                        reported'[d] \in {None, "run.interrupted"}
        BY <2>1 DEF StoppedIsMarked
      <3>1. /\ d \in seen
            /\ RunOf(d) \notin overlapped =>
                   /\ reported[d] = None => RunOf(d) \in interrupted
                   /\ d \in signalled => reported[d] \in {None, "run.interrupted"}
        BY DEF StopInv, StoppedIsMarked
      <3>2. CASE d = c
        BY <3>1, <3>2, <2>1, <2>4, <1>0 DEF OutcomeOf, EngineTypeOK
      <3>3. CASE d # c
        <4>1. reported'[d] = reported[d]
          BY <3>3, <2>1, <1>0 DEF EngineTypeOK
        <4>2. RunOf(d) \notin overlapped /\ reported[d] = None =>
                  RunOf(d) # RunOf(c)
          BY <3>1, <3>3, <2>3 DEF Open
        <4> QED BY <3>1, <4>1, <4>2, <2>1
      <3> QED BY <3>2, <3>3
    <2> QED BY <2>5, <2>6, <2>7 DEF StopInv
  <1>9. CASE UNCHANGED cliVars
    BY <1>9 DEF cliVars, StopInv, RunningIsUnreported, OpenIsFiled, StoppedIsMarked,
                Open
  <1> QED BY <1>1, <1>2, <1>3, <1>4, <1>5, <1>6, <1>7, <1>8, <1>9 DEF EngineNext

\* An interrupt finds the process of its run, whatever arrives in whatever order, and
\* what was signalled is reported as interrupted: StopsReachTheirRun of every run of
\* the engine, for any commands and runs.
THEOREM StopsReach ==
  EngineSpec => []StopsReachTheirRun
  <1>1. EngineInv /\ StopInv => StopsReachTheirRun
    <2> SUFFICES ASSUME EngineInv, StopInv PROVE StopsReachTheirRun
      OBVIOUS
    <2>1. RunningIsStoppable
      <3> SUFFICES ASSUME NEW c \in Prompt, process[c] = "running",
                          RunOf(c) \notin overlapped
                   PROVE  jobs[RunOf(c)] = c
        BY DEF RunningIsStoppable
      <3>1. c \in Open(RunOf(c))
        BY SpawnedIsOpen DEF StopInv, RunningIsUnreported
      <3> QED BY <3>1 DEF StopInv, OpenIsFiled
    <2>2. SignalMeansInterrupted
      BY DEF EngineInv, EngineTypeOK, StopInv, StoppedIsMarked, SignalMeansInterrupted
    <2> QED BY <2>1, <2>2 DEF EngineInv, StopsReachTheirRun
  <1>2. EngineInv /\ StopInv /\ [EngineNext]_cliVars => StopInv'
    BY StopStep
  <1> QED BY <1>1, <1>2, StopInit, EngineInvariant, PTL DEF EngineSpec
=============================================================================
