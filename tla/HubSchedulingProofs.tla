------------------------ MODULE HubSchedulingProofs ------------------------
(***************************************************************************)
(* For every number of nodes, connections, requests, broken links, node    *)
(* restarts and hub crashes: accepted work has a place and gets there, a   *)
(* node is asked in the order StartRun, prompt, and a run is given to a    *)
(* node that offers the engine.                                            *)
(***************************************************************************)
EXTENDS HubScheduling, WellFoundedInduction, TLAPS

-----------------------------------------------------------------------------
(* The inductive invariant.                                                *)

InLog(c) == \E i \in DOMAIN dispatched : dispatched[i] = c
Inside == {"chosen", "created", "started", "running", "asked"}
Attached == {"registered", "recorded", "replaying", "live"}
StartOf(c) == <<c[1], "start">>

Typed ==
    /\ TypeOK
    /\ down \in [Node -> [Conn -> Seq(Command)]]
    /\ up \in [Node -> [Conn -> Seq(Command)]]

\* Whoever is inside create_worker_task holds the gate, and the entry of the node it has
\* chosen stays in the registry.
GateHeld ==
    \A w \in Worker :
        /\ pc[w] \in Inside <=> gate = w
        /\ gate = w => /\ reserved[w] \in Node /\ slot[reserved[w]] # NoConn
                       /\ preferred[w] \in {NoNode, reserved[w]}

\* How far a worker's request has come in the store.
WorkerStored ==
    \A w \in Worker :
        /\ pc[w] \in {"new", "rejected", "chosen"} => w \notin tasks
        /\ pc[w] \in {"new", "rejected", "chosen", "created"} => bound[w] = NoNode
        /\ pc[w] \in {"started", "running", "asked", "done"} => bound[w] = reserved[w] /\ bound[w] # NoNode
        /\ pc[w] \in {"asked", "done"} => InLog(<<w, "prompt">>)
        /\ InLog(<<w, "prompt">>) => pc[w] \in {"asked", "done", "cut"}

\* A stored StartRun binds its run, and comes before the prompts of the run.
LogOrdered ==
    /\ \A r \in Request : InLog(<<r, "start">>) <=> bound[r] # NoNode
    /\ \A j \in DOMAIN dispatched : dispatched[j][2] = "prompt" =>
           \E i \in DOMAIN dispatched : i < j /\ dispatched[i] = StartOf(dispatched[j])
    /\ \A r \in Request : bound[r] # NoNode => preferred[r] \in {NoNode, bound[r]}
    /\ \A c \in unrouted : InLog(c) /\ c[1] \in Direct
    /\ overtaken \subseteq Direct

\* The registry and the connections.
LinksOrdered ==
    \A n \in Node :
        /\ session[n] \in {NoConn, conns[n]} /\ slot[n] <= conns[n]
        /\ slot[n] # NoConn => handler[n][slot[n]] \in Attached
        /\ \A k \in Conn :
              /\ k > conns[n] => handler[n][k] = "none"
              /\ handler[n][k] = "hello" => k = conns[n]
              /\ k = session[n] /\ handler[n][k] \in Attached => slot[n] = k
              /\ k # session[n] => down[n][k] = <<>>
              /\ handler[n][k] # "replaying" => todo[n][k] = {}

\* What the rows of the nodes say.
RowsTell ==
    /\ StatusFollowsRegistry
    /\ \A n \in Node : slot[n] # NoConn =>
           \/ row[n].offers = hello[n][slot[n]]
           \/ n \in outdated \/ handler[n][slot[n]] = "registered"
    /\ \A n \in Node, k \in Conn :
           handler[n][k] = "unregistered" => slot[n] = NoConn \/ n \in latecomer

\* Commands are stored and travel to the node their run is bound to.
AtTarget ==
    /\ \A n \in Node, k \in Conn :
           /\ \A i \in todo[n][k] : bound[dispatched[i][1]] = n
           /\ \A c \in Range(down[n][k]) \cup Range(up[n][k]) : InLog(c) /\ bound[c[1]] = n
    /\ \A n \in Node : \A c \in seen[n] : InLog(c) /\ bound[c[1]] = n
    /\ \A c \in acked : InLog(c)

\* A StartRun that was handled has left its run, or the process has ended since.
StartsHandled ==
    /\ \A n \in Node : \A c \in seen[n] : c[2] = "start" => c[1] \in runs[n]
    /\ \A n \in Node, k \in Conn : \A c \in Range(up[n][k]) :
           c[2] = "start" => c[1] \in runs[n] \cup forgotten
    /\ \A c \in acked : c[2] = "start" => c[1] \in runs[bound[c[1]]] \cup forgotten

Excused == forgotten \cup straddled \cup overtaken

\* A prompt on its way to a node has its StartRun ahead of it, on the way or handled ...
DownOrdered ==
    \A n \in Node, k \in Conn : \A j \in DOMAIN down[n][k] : down[n][k][j][2] = "prompt" =>
        \/ down[n][k][j][1] \in Excused \cup runs[n]
        \/ \E i \in DOMAIN down[n][k] : i < j /\ down[n][k][i] = StartOf(down[n][k][j])

\* ... and so has one that a replay is going to send.
TodoOrdered ==
    \A n \in Node, k \in Conn : slot[n] = k /\ session[n] = k =>
        \A j \in todo[n][k] : dispatched[j][2] = "prompt" =>
            \/ dispatched[j][1] \in Excused \cup runs[n]
            \/ StartOf(dispatched[j]) \in Range(down[n][k])
            \/ \E i \in todo[n][k] : i < j /\ dispatched[i] = StartOf(dispatched[j])

StartsAhead == DownOrdered /\ TodoOrdered

\* Once create_worker_task has sent a StartRun into a connection that lives, it is there.
WorkerStartSent ==
    \A w \in Worker : gate = w /\ pc[w] \in {"running", "asked"} =>
        LET n == reserved[w] IN
        slot[n] = session[n] => \/ w \in runs[n] \cup forgotten
                                \/ <<w, "start">> \in Range(down[n][slot[n]])

\* Stored by create_worker_task and not yet sent by it.
InHand(c) == /\ c[1] \in Worker /\ gate = c[1]
             /\ \/ pc[c[1]] = "started" /\ c[2] = "start"
                \/ pc[c[1]] = "asked" /\ c[2] = "prompt"

\* Work stored for a node whose connection lives is handled, on its way, or will be read by
\* the replay of that connection.
WorkArrives ==
    \A n \in Node : slot[n] # NoConn /\ slot[n] = session[n] =>
        \A c \in Range(dispatched) \ unrouted : bound[c[1]] = n /\ ~InHand(c) =>
            \/ c \in seen[n] \cup acked \cup Range(down[n][slot[n]])
            \/ handler[n][slot[n]] \in {"registered", "recorded"}
            \/ \E i \in todo[n][slot[n]] : dispatched[i] = c

RefusedExcused == refused \subseteq Excused

SchedInv ==
    /\ Typed /\ GateHeld /\ WorkerStored /\ LogOrdered
    /\ LinksOrdered /\ RowsTell
    /\ AtTarget /\ StartsHandled /\ StartsAhead
    /\ WorkerStartSent /\ WorkArrives /\ RefusedExcused
-----------------------------------------------------------------------------
(* Sequences of commands.                                                  *)

\* What one more element adds.
LEMMA AppendFacts ==
  ASSUME NEW S, NEW s \in Seq(S), NEW e \in S
  PROVE  /\ Append(s, e) \in Seq(S) /\ Len(Append(s, e)) = Len(s) + 1
         /\ DOMAIN s = 1 .. Len(s) /\ DOMAIN Append(s, e) = 1 .. (Len(s) + 1)
         /\ Len(s) \in Nat
         /\ \A i \in DOMAIN s : i \in DOMAIN Append(s, e) /\ i < Len(s) + 1 /\ Append(s, e)[i] = s[i]
         /\ Append(s, e)[Len(s) + 1] = e /\ Len(s) + 1 \in DOMAIN Append(s, e)
         /\ \A i \in DOMAIN Append(s, e) : i \in DOMAIN s \/ i = Len(s) + 1
         /\ Range(Append(s, e)) = Range(s) \cup {e}
  <1> DEFINE a == Append(s, e)
  <1>1. /\ a \in Seq(S) /\ Len(a) = Len(s) + 1 /\ DOMAIN s = 1 .. Len(s) /\ Len(s) \in Nat
        /\ DOMAIN a = 1 .. (Len(s) + 1)
        /\ \A i \in 1 .. Len(s) : a[i] = s[i]
        /\ a[Len(s) + 1] = e
    OBVIOUS
  <1> HIDE DEF a
  <1>2. /\ \A i \in DOMAIN s : i \in DOMAIN a /\ i < Len(s) + 1 /\ a[i] = s[i]
        /\ Len(s) + 1 \in DOMAIN a
        /\ \A i \in DOMAIN a : i \in DOMAIN s \/ i = Len(s) + 1
    BY <1>1
  <1>3. Range(a) = Range(s) \cup {e}
    BY <1>1, <1>2 DEF Range
  <1> QED BY <1>1, <1>2, <1>3 DEF a

\* What the first element takes away.
LEMMA TailFacts ==
  ASSUME NEW S, NEW s \in Seq(S), s # <<>>
  PROVE  /\ Tail(s) \in Seq(S) /\ Head(s) \in S /\ Head(s) = s[1] /\ 1 \in DOMAIN s
         /\ DOMAIN s \subseteq Nat /\ DOMAIN Tail(s) \subseteq Nat
         /\ \A j \in DOMAIN Tail(s) : j + 1 \in DOMAIN s /\ Tail(s)[j] = s[j + 1]
         /\ \A i \in DOMAIN s : i # 1 => i - 1 \in DOMAIN Tail(s) /\ Tail(s)[i - 1] = s[i]
         /\ Range(s) = Range(Tail(s)) \cup {Head(s)}
  <1> DEFINE t == Tail(s)
  <1>1. /\ t \in Seq(S) /\ Head(s) \in S /\ Head(s) = s[1] /\ Len(s) \in Nat /\ Len(s) # 0
        /\ DOMAIN s = 1 .. Len(s) /\ DOMAIN t = 1 .. (Len(s) - 1)
        /\ \A j \in 1 .. (Len(s) - 1) : t[j] = s[j + 1]
    OBVIOUS
  <1> HIDE DEF t
  <1>2. /\ 1 \in DOMAIN s /\ DOMAIN s \subseteq Nat /\ DOMAIN t \subseteq Nat
        /\ \A j \in DOMAIN t : j + 1 \in DOMAIN s /\ t[j] = s[j + 1]
        /\ \A i \in DOMAIN s : i # 1 => i - 1 \in DOMAIN t /\ t[i - 1] = s[i]
    BY <1>1
  <1>3. Range(s) = Range(t) \cup {Head(s)}
    <2>1. ASSUME NEW i \in DOMAIN s PROVE s[i] \in Range(t) \cup {Head(s)}
      <3>1. CASE i = 1
        BY <1>1, <3>1
      <3>2. CASE i # 1
        BY <1>2, <3>2 DEF Range
      <3> QED BY <3>1, <3>2
    <2>2. ASSUME NEW j \in DOMAIN t PROVE t[j] \in Range(s)
      BY <1>2 DEF Range
    <2>3. Head(s) \in Range(s)
      BY <1>1, <1>2 DEF Range
    <2> QED BY <2>1, <2>2, <2>3 DEF Range
  <1> QED BY <1>1, <1>2, <1>3 DEF t

\* A smallest number is in the set, and no other is smaller.
LEMMA MinFacts ==
  ASSUME NEW S \in SUBSET Nat, S # {}
  PROVE  Min(S) \in S /\ \A x \in S : Min(S) <= x
  <1>1. \E x \in S : \A y \in S : x <= y
    <2>1. PICK x \in S : \A y \in S : ~(<<y, x>> \in OpToRel(<, Nat))
      BY NatLessThanWellFounded, WFMin
    <2>2. ASSUME NEW y \in S PROVE x <= y
      <3>1. ~(<<y, x>> \in {p \in Nat \X Nat : p[1] < p[2]})
        BY <2>1 DEF OpToRel
      <3>2. x \in Nat /\ y \in Nat
        OBVIOUS
      <3> QED BY <3>1, <3>2
    <2> QED BY <2>2
  <1> QED BY <1>1 DEF Min

\* A command is its request and its kind.
LEMMA CommandParts ==
  ASSUME NEW c \in Command
  PROVE  /\ c[1] \in Request /\ c[2] \in {"start", "prompt"} /\ c = <<c[1], c[2]>>
         /\ StartOf(c) \in Command
         /\ c[2] = "start" => c = StartOf(c)
  BY DEF Command, StartOf

-----------------------------------------------------------------------------
(* Facts about a state.                                                    *)

\* The elements of the queues are commands.
LEMMA CommandTypes ==
  ASSUME Typed
  PROVE  /\ DOMAIN dispatched \subseteq Nat
         /\ \A i \in DOMAIN dispatched : dispatched[i] \in Command
         /\ \A c : InLog(c) => c \in Command
         /\ \A c : InLog(c) <=> c \in Range(dispatched)
         /\ \A n \in Node, k \in Conn :
               /\ down[n][k] \in Seq(Command) /\ up[n][k] \in Seq(Command)
               /\ todo[n][k] \subseteq DOMAIN dispatched /\ todo[n][k] \subseteq Nat
               /\ \A i \in DOMAIN down[n][k] : down[n][k][i] \in Command /\ i \in Nat
               /\ Range(down[n][k]) \subseteq Command /\ Range(up[n][k]) \subseteq Command
  <1>1. \A S : \A s \in Seq(S) : /\ DOMAIN s \subseteq Nat /\ \A i \in DOMAIN s : s[i] \in S
                                 /\ Range(s) \subseteq S
    BY DEF Range
  <1>2. dispatched \in Seq(Command)
    BY DEF Typed, TypeOK
  <1>3. /\ down \in [Node -> [Conn -> Seq(Command)]] /\ up \in [Node -> [Conn -> Seq(Command)]]
        /\ todo \in [Node -> [Conn -> SUBSET DOMAIN dispatched]]
    BY DEF Typed, TypeOK
  <1>4. \A n \in Node, k \in Conn : /\ down[n][k] \in Seq(Command) /\ up[n][k] \in Seq(Command)
                                    /\ todo[n][k] \subseteq DOMAIN dispatched
    BY <1>3
  <1>5. DOMAIN dispatched \subseteq Nat /\ \A i \in DOMAIN dispatched : dispatched[i] \in Command
    BY <1>1, <1>2
  <1>6. \A c : InLog(c) <=> c \in Range(dispatched)
    BY DEF InLog, Range
  <1> QED BY <1>1, <1>4, <1>5, <1>6 DEF InLog

\* A stored command's run has a node.
LEMMA LoggedIsBound ==
  ASSUME SchedInv, NEW c, InLog(c)
  PROVE  c \in Command /\ c[1] \in Request /\ bound[c[1]] # NoNode /\ InLog(StartOf(c))
  <1>1. c \in Command /\ c[1] \in Request /\ c[2] \in {"start", "prompt"}
    BY CommandTypes, CommandParts DEF SchedInv
  <1>2. InLog(StartOf(c))
    <2>1. CASE c[2] = "start"
      BY <1>1, <2>1, CommandParts
    <2>2. CASE c[2] = "prompt"
      BY <2>2 DEF SchedInv, LogOrdered, InLog
    <2> QED BY <1>1, <2>1, <2>2
  <1>3. bound[c[1]] # NoNode
    BY <1>1, <1>2 DEF SchedInv, LogOrdered, StartOf
  <1> QED BY <1>1, <1>2, <1>3

\* The names of nodes and of connections are positive.
LEMMA NamesArePositive ==
  /\ Nodes \in Nat /\ MaxConn \in Nat /\ Node \subseteq Nat /\ Conn \subseteq Nat
  /\ NoNode \notin Node /\ NoConn \notin Conn
  <1>1. Nodes \in Nat /\ MaxConn \in Nat
    BY SchedulingAssumption
  <1>2. Node \subseteq Nat /\ NoNode \notin Node
    BY <1>1 DEF Node, NoNode
  <1>3. Conn \subseteq Nat /\ NoConn \notin Conn
    BY <1>1 DEF Conn, NoConn
  <1> QED BY <1>1, <1>2, <1>3

\* The counters are numbers within their bounds.
LEMMA CounterTypes ==
  ASSUME Typed
  PROVE  /\ MaxFaults \in Nat /\ MaxBreaks \in Nat /\ faults \in Nat /\ breaks \in Nat /\ restarts \in Nat
         /\ faults \in 0 .. MaxFaults /\ breaks \in 0 .. MaxBreaks /\ restarts \in 0 .. faults
  <1>1. faults \in 0 .. MaxFaults /\ breaks \in 0 .. MaxBreaks /\ restarts \in 0 .. faults
    BY DEF Typed, TypeOK
  <1>2. MaxFaults \in Nat /\ MaxBreaks \in Nat
    BY SchedulingAssumption
  <1>3. faults \in Nat /\ breaks \in Nat
    BY <1>1, <1>2
  <1>4. restarts \in Nat
    BY <1>1, <1>3
  <1> QED BY <1>1, <1>2, <1>3, <1>4

\* Nobody named "no one" asks for a worker.
LEMMA NoOneIsNoWorker ==
  NoOne \notin Worker /\ Worker \subseteq Request /\ Direct \subseteq Request
  /\ \A w \in Worker : w \notin Direct
  BY SchedulingAssumption DEF NoOne, Request

-----------------------------------------------------------------------------
(* What a step leaves alone.                                               *)

\* Each part of the invariant depends on some of the variables only.
LEMMA PartsStay ==
  ASSUME SchedInv
  PROVE  /\ UNCHANGED <<gate, pc, reserved, preferred, slot>> => GateHeld'
         /\ UNCHANGED <<pc, tasks, bound, reserved, dispatched>> => WorkerStored'
         /\ UNCHANGED <<dispatched, bound, preferred, unrouted, overtaken>> => LogOrdered'
         /\ UNCHANGED <<session, conns, slot, handler, down, todo>> => LinksOrdered'
         /\ UNCHANGED <<row, slot, hello, handler, outdated, latecomer, restarts>> => RowsTell'
         /\ UNCHANGED <<todo, dispatched, bound, down, up, seen, acked>> => AtTarget'
         /\ UNCHANGED <<seen, runs, up, acked, bound, forgotten>> => StartsHandled'
         /\ UNCHANGED <<down, forgotten, straddled, overtaken, runs, slot, session, todo, dispatched>>
               => StartsAhead'
         /\ UNCHANGED <<gate, pc, reserved, slot, session, runs, forgotten, down>> => WorkerStartSent'
         /\ UNCHANGED <<gate, pc, slot, session, dispatched, unrouted, bound, seen, acked, down,
                        handler, todo>> => WorkArrives'
         /\ UNCHANGED <<refused, forgotten, straddled, overtaken>> => RefusedExcused'
  <1> USE DEF SchedInv
  <1>1. UNCHANGED <<gate, pc, reserved, preferred, slot>> => GateHeld'
    BY DEF GateHeld
  <1>2. UNCHANGED <<pc, tasks, bound, reserved, dispatched>> => WorkerStored'
    BY DEF WorkerStored, InLog
  <1>3. UNCHANGED <<dispatched, bound, preferred, unrouted, overtaken>> => LogOrdered'
    BY DEF LogOrdered, InLog
  <1>4. UNCHANGED <<session, conns, slot, handler, down, todo>> => LinksOrdered'
    BY DEF LinksOrdered
  <1>5. UNCHANGED <<row, slot, hello, handler, outdated, latecomer, restarts>> => RowsTell'
    BY DEF RowsTell, StatusFollowsRegistry
  <1>6. UNCHANGED <<todo, dispatched, bound, down, up, seen, acked>> => AtTarget'
    BY DEF AtTarget, InLog
  <1>7. UNCHANGED <<seen, runs, up, acked, bound, forgotten>> => StartsHandled'
    BY DEF StartsHandled
  <1>8. UNCHANGED <<down, forgotten, straddled, overtaken, runs, slot, session, todo, dispatched>>
               => StartsAhead'
    BY DEF StartsAhead, DownOrdered, TodoOrdered, Excused
  <1>9. UNCHANGED <<gate, pc, reserved, slot, session, runs, forgotten, down>> => WorkerStartSent'
    BY DEF WorkerStartSent
  <1>10. UNCHANGED <<gate, pc, slot, session, dispatched, unrouted, bound, seen, acked, down,
                        handler, todo>> => WorkArrives'
    BY DEF WorkArrives, InHand
  <1>11. UNCHANGED <<refused, forgotten, straddled, overtaken>> => RefusedExcused'
    BY DEF RefusedExcused, Excused
  <1> QED
    BY <1>1, <1>2, <1>3, <1>4, <1>5, <1>6, <1>7, <1>8, <1>9, <1>10, <1>11

\* Nothing happens.
LEMMA StutterStep ==
  ASSUME SchedInv, UNCHANGED vars
  PROVE  SchedInv'
  <1>1. Typed'
    BY DEF SchedInv, Typed, TypeOK, vars, requestVars, storeVars, linkVars, nodeVars, noteVars
  <1> QED
    BY <1>1, PartsStay DEF SchedInv, vars, requestVars, storeVars, linkVars, nodeVars, noteVars

-----------------------------------------------------------------------------
(* The log grows.                                                          *)

\* One bundle stores a command that was not stored, and binds the run of a StartRun.
LEMMA LogGrows ==
  ASSUME SchedInv, NEW c \in Command, NEW n \in Node, ~InLog(c), Bundle(c, n),
         c[2] = "start" => bound[c[1]] = NoNode,
         c[2] = "prompt" => bound[c[1]] # NoNode
  PROVE  /\ dispatched' \in Seq(Command) /\ bound' \in [Request -> Node \cup {NoNode}]
         /\ \A i, j \in DOMAIN dispatched' : dispatched'[i] = dispatched'[j] => i = j
         /\ UNCHANGED <<tasks, acked>>
         /\ \A i \in DOMAIN dispatched : i \in DOMAIN dispatched' /\ dispatched'[i] = dispatched[i]
         /\ Range(dispatched') = Range(dispatched) \cup {c}
         /\ \A d : InLog(d)' <=> InLog(d) \/ d = c
         /\ \A r \in Request : bound[r] # NoNode => bound'[r] = bound[r]
         /\ \A r \in Request : r # c[1] => bound'[r] = bound[r]
         /\ c[2] = "start" => bound'[c[1]] = n
         /\ c[2] = "prompt" => bound' = bound
         /\ \A r \in Request : InLog(<<r, "start">>)' <=> bound'[r] # NoNode
         /\ \A j \in DOMAIN dispatched' : dispatched'[j][2] = "prompt" =>
               \E i \in DOMAIN dispatched' : i < j /\ dispatched'[i] = StartOf(dispatched'[j])
  <1> USE DEF SchedInv
  <1>0. /\ dispatched \in Seq(Command) /\ bound \in [Request -> Node \cup {NoNode}]
        /\ \A i, j \in DOMAIN dispatched : dispatched[i] = dispatched[j] => i = j
    BY DEF Typed, TypeOK
  <1>1. /\ dispatched' = Append(dispatched, c)
        /\ bound' = IF c[2] = "start" THEN [bound EXCEPT ![c[1]] = n] ELSE bound
        /\ UNCHANGED <<tasks, acked>>
    BY DEF Bundle
  <1> DEFINE e == Len(dispatched) + 1
  <1>2. /\ dispatched' \in Seq(Command)
        /\ \A i \in DOMAIN dispatched : i \in DOMAIN dispatched' /\ i < e /\ dispatched'[i] = dispatched[i]
        /\ dispatched'[e] = c /\ e \in DOMAIN dispatched'
        /\ \A i \in DOMAIN dispatched' : i \in DOMAIN dispatched \/ i = e
        /\ Range(dispatched') = Range(dispatched) \cup {c}
    BY <1>0, <1>1, AppendFacts
  <1> HIDE DEF e
  <1>3. c[1] \in Request /\ c[2] \in {"start", "prompt"} /\ c = <<c[1], c[2]>>
    BY CommandParts
  <1>4. /\ bound' \in [Request -> Node \cup {NoNode}]
        /\ \A r \in Request : bound[r] # NoNode => bound'[r] = bound[r]
        /\ \A r \in Request : r # c[1] => bound'[r] = bound[r]
        /\ c[2] = "start" => bound'[c[1]] = n
        /\ c[2] = "prompt" => bound' = bound
    BY <1>0, <1>1, <1>3
  <1>5. \A d : InLog(d)' <=> InLog(d) \/ d = c
    BY <1>2 DEF InLog
  <1>6. \A i, j \in DOMAIN dispatched' : dispatched'[i] = dispatched'[j] => i = j
    BY <1>0, <1>2 DEF InLog
  <1>7. \A r \in Request : InLog(<<r, "start">>)' <=> bound'[r] # NoNode
    <2>1. SUFFICES ASSUME NEW r \in Request
                   PROVE  InLog(<<r, "start">>)' <=> bound'[r] # NoNode
      OBVIOUS
    <2>2. InLog(<<r, "start">>) <=> bound[r] # NoNode
      BY DEF LogOrdered
    <2>3. CASE <<r, "start">> = c
      <3>1. r = c[1] /\ c[2] = "start"
        BY <2>3
      <3> QED BY <1>4, <1>5, <2>3, <3>1, NamesArePositive
    <2>4. CASE <<r, "start">> # c
      <3>1. bound'[r] = bound[r]
        BY <1>3, <1>4, <2>4
      <3> QED BY <1>5, <2>2, <2>4, <3>1
    <2> QED BY <2>3, <2>4
  <1>8. \A j \in DOMAIN dispatched' : dispatched'[j][2] = "prompt" =>
            \E i \in DOMAIN dispatched' : i < j /\ dispatched'[i] = StartOf(dispatched'[j])
    <2>1. SUFFICES ASSUME NEW j \in DOMAIN dispatched', dispatched'[j][2] = "prompt"
                   PROVE  \E i \in DOMAIN dispatched' : i < j /\ dispatched'[i] = StartOf(dispatched'[j])
      OBVIOUS
    <2>2. CASE j \in DOMAIN dispatched
      BY <1>2, <2>1, <2>2 DEF LogOrdered
    <2>3. CASE j = e
      <3>1. dispatched'[j] = c /\ c[2] = "prompt"
        BY <1>2, <2>1, <2>3
      <3>2. InLog(StartOf(c))
        BY <1>3, <3>1 DEF LogOrdered, StartOf
      <3> QED BY <1>2, <2>3, <3>1, <3>2 DEF InLog
    <2> QED BY <1>2, <2>2, <2>3
  <1> QED BY <1>1, <1>2, <1>4, <1>5, <1>6, <1>7, <1>8

\* What is on its way does not notice.
LEMMA LogGrowsElsewhere ==
  ASSUME SchedInv, NEW c \in Command, NEW n \in Node, ~InLog(c), Bundle(c, n),
         c[2] = "start" => bound[c[1]] = NoNode,
         c[2] = "prompt" => bound[c[1]] # NoNode,
         UNCHANGED <<row, linkVars, nodeVars, noteVars, restarts>>,
         unrouted \subseteq unrouted', \A d \in Command : InHand(d) => InHand(d)',
         c \in unrouted' \/ InHand(c)'
  PROVE  /\ LinksOrdered' /\ RowsTell' /\ AtTarget' /\ StartsHandled' /\ StartsAhead'
         /\ WorkArrives' /\ RefusedExcused'
  <1> USE DEF SchedInv, linkVars, nodeVars, noteVars
  <1>1. /\ \A i \in DOMAIN dispatched : i \in DOMAIN dispatched' /\ dispatched'[i] = dispatched[i]
        /\ Range(dispatched') = Range(dispatched) \cup {c}
        /\ \A d : InLog(d)' <=> InLog(d) \/ d = c
        /\ \A r \in Request : bound[r] # NoNode => bound'[r] = bound[r]
        /\ UNCHANGED acked
    BY LogGrows
  <1>2. \A d : InLog(d) => InLog(d)' /\ bound'[d[1]] = bound[d[1]]
    BY <1>1, LoggedIsBound
  <1>3. LinksOrdered' /\ RowsTell' /\ RefusedExcused'
    BY PartsStay
  <1>4. \A m \in Node, k \in Conn : /\ todo[m][k] \subseteq DOMAIN dispatched
    BY CommandTypes
  <1>5. AtTarget'
    <2>1. \A m \in Node, k \in Conn :
             \A i \in todo[m][k] : dispatched'[i] = dispatched[i] /\ InLog(dispatched[i])
      BY <1>1, <1>4 DEF InLog
    <2>2. \A m \in Node, k \in Conn :
             \A i \in todo[m][k] : bound'[dispatched'[i][1]] = m
      BY <1>2, <2>1 DEF AtTarget
    <2>3. \A m \in Node, k \in Conn :
             \A d \in Range(down[m][k]) \cup Range(up[m][k]) : InLog(d)' /\ bound'[d[1]] = m
      BY <1>2 DEF AtTarget
    <2>4. /\ \A m \in Node : \A d \in seen[m] : InLog(d)' /\ bound'[d[1]] = m
          /\ \A d \in acked : InLog(d)'
      BY <1>2 DEF AtTarget
    <2> QED BY <1>1, <2>2, <2>3, <2>4 DEF AtTarget
  <1>6. StartsHandled'
    <2>1. \A d \in acked : bound'[d[1]] = bound[d[1]]
      BY <1>2 DEF AtTarget
    <2> QED BY <1>1, <2>1 DEF StartsHandled
  <1>7. StartsAhead'
    BY <1>1, <1>4 DEF StartsAhead, DownOrdered, TodoOrdered, Excused
  <1>8. WorkArrives'
    <2>1. SUFFICES ASSUME NEW m \in Node, slot[m] # NoConn, slot[m] = session[m],
                          NEW d \in Range(dispatched') \ unrouted', bound'[d[1]] = m, ~InHand(d)'
                   PROVE  \/ d \in seen[m] \cup acked \cup Range(down[m][slot[m]])
                          \/ handler[m][slot[m]] \in {"registered", "recorded"}
                          \/ \E i \in todo[m][slot[m]] : dispatched'[i] = d
      BY <1>1 DEF WorkArrives
    <2>2. d # c /\ d \in Range(dispatched) /\ d \notin unrouted /\ InLog(d) /\ d \in Command
      BY <1>1, <2>1, CommandTypes
    <2>3. bound[d[1]] = m /\ ~InHand(d) /\ slot[m] \in Conn
      BY <1>2, <2>1, <2>2 DEF Typed, TypeOK
    <2> QED BY <1>1, <1>4, <2>1, <2>2, <2>3 DEF WorkArrives
  <1> QED BY <1>3, <1>5, <1>6, <1>7, <1>8

-----------------------------------------------------------------------------
(* create_worker_task and the clients' own commands.                       *)

\* A node that is chosen is registered, offers the engine, and is the one asked for.
LEMMA ChosenIsEligible ==
  ASSUME NEW want
  PROVE  LET n == eligible_execution_node(want) IN
         /\ n \in Node \cup {NoNode}
         /\ n # NoNode => n \in Node /\ want \in {NoNode, n} /\ slot[n] # NoConn /\ row[n].offers
  <1>1. Eligible(want) \subseteq Node /\ Eligible(want) \in SUBSET Nat
    BY NamesArePositive DEF Eligible
  <1>2. Eligible(want) # {} => Min(Eligible(want)) \in Eligible(want)
    BY <1>1, MinFacts
  <1>3. CASE Eligible(want) = {}
    BY <1>3 DEF eligible_execution_node
  <1>4. CASE Eligible(want) # {}
    <2>1. eligible_execution_node(want) = Min(Eligible(want))
      BY <1>4 DEF eligible_execution_node
    <2>2. eligible_execution_node(want) \in Eligible(want)
      BY <1>2, <1>4, <2>1
    <2> HIDE DEF eligible_execution_node
    <2> QED BY <2>2 DEF Eligible, node_accepts_engine
  <1> QED BY <1>3, <1>4

\* A request enters the gate with a node, or is turned away.
LEMMA EnterGateStep ==
  ASSUME SchedInv, NEW w \in Worker, EnterGate(w)
  PROVE  SchedInv'
  <1> USE DEF SchedInv
  <1>1. /\ gate = NoOne /\ pc[w] = "new"
        /\ UNCHANGED <<storeVars, row, linkVars, nodeVars, noteVars, unrouted, restarts, breaks, faults>>
    BY DEF EnterGate
  <1>2. PICK want \in Node \cup {NoNode} :
           LET n == eligible_execution_node(want) IN
           /\ preferred' = [preferred EXCEPT ![w] = want]
           /\ reserved' = [reserved EXCEPT ![w] = n]
           /\ IF n = NoNode THEN pc' = [pc EXCEPT ![w] = "rejected"] /\ UNCHANGED gate
                            ELSE pc' = [pc EXCEPT ![w] = "chosen"] /\ gate' = w
    BY DEF EnterGate, Goto
  <1> DEFINE n == eligible_execution_node(want)
  <1>3. /\ n \in Node \cup {NoNode}
        /\ n # NoNode => n \in Node /\ want \in {NoNode, n} /\ slot[n] # NoConn
    BY ChosenIsEligible
  <1> HIDE DEF n
  <1>4. /\ preferred' = [preferred EXCEPT ![w] = want]
        /\ reserved' = [reserved EXCEPT ![w] = n]
        /\ \/ n = NoNode /\ pc' = [pc EXCEPT ![w] = "rejected"] /\ UNCHANGED gate
           \/ n # NoNode /\ pc' = [pc EXCEPT ![w] = "chosen"] /\ gate' = w
    BY <1>2 DEF n
  <1>5. /\ pc \in [Worker -> Step] /\ preferred \in [Request -> Node \cup {NoNode}]
        /\ reserved \in [Worker -> Node \cup {NoNode}] /\ w \in Request
    BY NoOneIsNoWorker DEF Typed, TypeOK
  <1>6. /\ pc' \in [Worker -> Step] /\ preferred' \in [Request -> Node \cup {NoNode}]
        /\ reserved' \in [Worker -> Node \cup {NoNode}] /\ gate' \in Worker \cup {NoOne}
        /\ preferred'[w] = want /\ reserved'[w] = n
        /\ \A v \in Worker : v # w => pc'[v] = pc[v] /\ reserved'[v] = reserved[v]
        /\ \A r \in Request : r # w => preferred'[r] = preferred[r]
        /\ \/ n = NoNode /\ pc'[w] = "rejected" /\ gate' = NoOne
           \/ n # NoNode /\ pc'[w] = "chosen" /\ gate' = w
    BY <1>1, <1>3, <1>4, <1>5 DEF Step
  <1>7. Typed'
    BY <1>1, <1>6 DEF Typed, TypeOK, storeVars, linkVars, nodeVars, noteVars
  <1>8. GateHeld'
    <2>1. \A v \in Worker : v # w => pc[v] \notin Inside
      BY <1>1, NoOneIsNoWorker DEF GateHeld
    <2>2. slot' = slot
      BY <1>1 DEF linkVars
    <2> QED BY <1>3, <1>6, <2>1, <2>2, NoOneIsNoWorker DEF GateHeld, Inside
  <1>9. WorkerStored'
    <2>1. \A c : InLog(c)' <=> InLog(c)
      BY <1>1 DEF InLog, storeVars
    <2> QED BY <1>1, <1>6, <2>1 DEF WorkerStored, storeVars
  <1>10. LogOrdered'
    <2>1. \A c : InLog(c)' <=> InLog(c)
      BY <1>1 DEF InLog, storeVars
    <2>2. bound[w] = NoNode
      BY <1>1 DEF WorkerStored
    <2> QED BY <1>1, <1>6, <2>1, <2>2 DEF LogOrdered, storeVars, noteVars
  <1>11. LinksOrdered' /\ RowsTell' /\ AtTarget' /\ StartsHandled' /\ StartsAhead' /\ RefusedExcused'
    BY <1>1, PartsStay DEF storeVars, linkVars, nodeVars, noteVars
  <1>12. WorkerStartSent'
    BY <1>1, <1>6, NoOneIsNoWorker DEF WorkerStartSent, GateHeld
  <1>13. WorkArrives'
    <2>1. \A c : ~InHand(c) /\ ~InHand(c)'
      BY <1>1, <1>6, NoOneIsNoWorker DEF InHand
    <2> QED BY <1>1, <2>1 DEF WorkArrives, storeVars, linkVars, nodeVars
  <1> QED BY <1>7, <1>8, <1>9, <1>10, <1>11, <1>12, <1>13

\* CreateTask, or an error from the store where create_worker_task is.
LEMMA GateWalkStep ==
  ASSUME SchedInv, NEW w \in Worker, CreateWorkerTask(w) \/ StoreFails(w)
  PROVE  SchedInv'
  <1> USE DEF SchedInv
  <1>1. /\ gate = w
        /\ UNCHANGED <<reserved, preferred, bound, dispatched, acked, row, linkVars, nodeVars, noteVars,
                       unrouted, restarts, breaks>>
        /\ \/ /\ pc[w] = "chosen" /\ pc' = [pc EXCEPT ![w] = "created"] /\ UNCHANGED <<gate, faults>>
              /\ tasks' = tasks \cup {w}
           \/ /\ pc[w] \in {"chosen", "created", "running"} /\ pc' = [pc EXCEPT ![w] = "failed"]
              /\ gate' = NoOne /\ UNCHANGED tasks /\ faults' \in 0 .. MaxFaults /\ faults' >= faults
    <2>1. MaxFaults \in Nat /\ faults \in 0 .. MaxFaults
      BY SchedulingAssumption DEF Typed, TypeOK
    <2> QED BY <2>1 DEF CreateWorkerTask, StoreFails, At, Goto, Leave, untouched, storeVars
  <1>2. pc \in [Worker -> Step] /\ tasks \subseteq Worker
    BY DEF Typed, TypeOK
  <1>3. /\ pc' \in [Worker -> Step] /\ tasks' \subseteq Worker /\ gate' \in Worker \cup {NoOne}
        /\ \A v \in Worker : v # w => pc'[v] = pc[v] /\ (v \in tasks' <=> v \in tasks)
        /\ \/ pc[w] = "chosen" /\ pc'[w] = "created" /\ gate' = gate /\ faults' = faults
           \/ /\ pc[w] \in {"chosen", "created", "running"} /\ pc'[w] = "failed" /\ gate' = NoOne
              /\ faults' \in 0 .. MaxFaults /\ faults' >= faults
    BY <1>1, <1>2 DEF Step
  <1>4. Typed'
    <2>1. restarts \in 0 .. faults' /\ faults' \in 0 .. MaxFaults
      BY <1>3, CounterTypes
    <2> QED BY <1>1, <1>3, <2>1 DEF Typed, TypeOK, linkVars, nodeVars, noteVars
  <1>5. GateHeld'
    BY <1>1, <1>3, NoOneIsNoWorker DEF GateHeld, Inside, linkVars
  <1>6. WorkerStored'
    <2>1. \A c : InLog(c)' <=> InLog(c)
      BY <1>1 DEF InLog
    <2> QED BY <1>1, <1>3, <2>1 DEF WorkerStored
  <1>7. /\ LogOrdered' /\ LinksOrdered' /\ RowsTell' /\ AtTarget' /\ StartsHandled' /\ StartsAhead'
        /\ RefusedExcused'
    BY <1>1, PartsStay DEF linkVars, nodeVars, noteVars
  <1>8. WorkerStartSent'
    BY <1>1, <1>3, NoOneIsNoWorker DEF WorkerStartSent
  <1>9. WorkArrives'
    <2>1. \A c : ~InHand(c) /\ ~InHand(c)'
      BY <1>1, <1>3, NoOneIsNoWorker DEF InHand
    <2> QED BY <1>1, <2>1 DEF WorkArrives, linkVars, nodeVars
  <1> QED BY <1>4, <1>5, <1>6, <1>7, <1>8, <1>9

\* The two transactions of create_worker_task that store work for a node.
LEMMA WorkerBundleStep ==
  ASSUME SchedInv, NEW w \in Worker, StartWorkerRun(w) \/ PromptWorker(w)
  PROVE  SchedInv'
  <1> USE DEF SchedInv
  <1>0. w \in Request /\ w \notin Direct /\ <<w, "start">> \in Command /\ <<w, "prompt">> \in Command
    BY NoOneIsNoWorker DEF Command
  <1>1. PICK c \in Command, n \in Node, to \in Step :
           /\ gate = w /\ pc[w] \in {"created", "running"} /\ pc' = [pc EXCEPT ![w] = to]
           /\ Bundle(c, n) /\ n = reserved[w]
           /\ \/ pc[w] = "created" /\ c = <<w, "start">> /\ to = "started"
              \/ pc[w] = "running" /\ c = <<w, "prompt">> /\ to = "asked"
           /\ UNCHANGED <<gate, reserved, preferred, row, linkVars, nodeVars, noteVars, unrouted,
                          restarts, breaks, faults>>
    <2>0. gate = w /\ reserved[w] \in Node /\ {"started", "asked"} \subseteq Step
      BY DEF StartWorkerRun, PromptWorker, At, GateHeld, Step
    <2>1. CASE StartWorkerRun(w)
      BY <1>0, <2>0, <2>1 DEF StartWorkerRun, At, Goto, untouched
    <2>2. CASE PromptWorker(w)
      <3>1. bound[w] = reserved[w]
        BY <2>2 DEF PromptWorker, At, WorkerStored
      <3> QED BY <1>0, <2>0, <2>2, <3>1 DEF PromptWorker, At, Goto, untouched
    <2> QED BY <2>1, <2>2
  <1>2. preferred[w] \in {NoNode, n} /\ w \in Request /\ w \notin Direct
    BY <1>0, <1>1 DEF GateHeld
  <1>3. /\ c[1] = w /\ (c[2] = "start" <=> pc[w] = "created")
        /\ c[2] = "prompt" <=> pc[w] = "running"
        /\ c[2] = "start" => c = <<w, "start">>
        /\ c[2] = "prompt" => c = <<w, "prompt">>
    BY <1>1
  <1>4. /\ to \in {"started", "asked"}
        /\ to = "started" <=> c[2] = "start"
        /\ to = "asked" <=> c[2] = "prompt"
    BY <1>1
  <1>5. /\ c[2] = "start" => bound[w] = NoNode
        /\ c[2] = "prompt" => bound[w] = n /\ bound[w] # NoNode
        /\ ~InLog(c)
    <2>1. c[2] = "start" => bound[w] = NoNode
      BY <1>3 DEF WorkerStored
    <2>2. c[2] = "prompt" => bound[w] = n /\ bound[w] # NoNode
      BY <1>1, <1>3 DEF WorkerStored
    <2>3. CASE c[2] = "start"
      BY <1>2, <1>3, <2>1, <2>3 DEF LogOrdered
    <2>4. CASE c[2] = "prompt"
      <3>1. ~InLog(c)
        BY <1>3, <2>4 DEF WorkerStored
      <3> QED BY <2>2, <2>4, <3>1
    <2> QED BY <1>1, <1>3, <2>1, <2>2, <2>3, <2>4
  <1>6. /\ dispatched' \in Seq(Command) /\ bound' \in [Request -> Node \cup {NoNode}]
        /\ \A i, j \in DOMAIN dispatched' : dispatched'[i] = dispatched'[j] => i = j
        /\ UNCHANGED <<tasks, acked>>
        /\ DOMAIN dispatched \subseteq DOMAIN dispatched'
        /\ \A d : InLog(d)' <=> InLog(d) \/ d = c
        /\ \A r \in Request : bound[r] # NoNode => bound'[r] = bound[r]
        /\ \A r \in Request : r # w => bound'[r] = bound[r]
        /\ c[2] = "start" => bound'[w] = n
        /\ c[2] = "prompt" => bound' = bound
        /\ \A r \in Request : InLog(<<r, "start">>)' <=> bound'[r] # NoNode
        /\ \A j \in DOMAIN dispatched' : dispatched'[j][2] = "prompt" =>
              \E i \in DOMAIN dispatched' : i < j /\ dispatched'[i] = StartOf(dispatched'[j])
    BY <1>1, <1>2, <1>3, <1>5, LogGrows
  <1>7. bound'[w] = n /\ n # NoNode
    BY <1>1, <1>2, <1>3, <1>5, <1>6, NamesArePositive
  <1>8. /\ pc' \in [Worker -> Step] /\ pc'[w] = to
        /\ \A v \in Worker : v # w => pc'[v] = pc[v]
    BY <1>1, <1>4 DEF Typed, TypeOK
  <1>9. Typed'
    <2>1. todo' \in [Node -> [Conn -> SUBSET DOMAIN dispatched']]
      <3>1. todo \in [Node -> [Conn -> SUBSET DOMAIN dispatched]] /\ todo' = todo
        BY <1>1 DEF Typed, TypeOK, linkVars
      <3> QED BY <1>6, <3>1
    <2> QED BY <1>1, <1>6, <1>8, <2>1 DEF Typed, TypeOK, linkVars, nodeVars, noteVars
  <1>10. GateHeld'
    BY <1>1, <1>4, <1>8, NoOneIsNoWorker DEF GateHeld, Inside, linkVars
  <1>11. WorkerStored'
    <2>1. ASSUME NEW v \in Worker, v # w
          PROVE  (InLog(<<v, "prompt">>)' <=> InLog(<<v, "prompt">>)) /\ bound'[v] = bound[v]
      <3>1. <<v, "prompt">> # c
        BY <1>3, <2>1
      <3> QED BY <1>6, <2>1, <3>1, NoOneIsNoWorker
    <2>2. c[2] = "start" => ~InLog(<<w, "prompt">>)'
      <3>1. c[2] = "start" => ~InLog(<<w, "prompt">>) /\ c # <<w, "prompt">>
        BY <1>3 DEF WorkerStored
      <3> QED BY <1>6, <3>1
    <2>3. c[2] = "prompt" => InLog(<<w, "prompt">>)'
      BY <1>3, <1>6
    <2> QED BY <1>1, <1>4, <1>6, <1>7, <1>8, <2>1, <2>2, <2>3 DEF WorkerStored
  <1>12. LogOrdered'
    BY <1>1, <1>2, <1>6, <1>7 DEF LogOrdered, noteVars
  <1>13. /\ LinksOrdered' /\ RowsTell' /\ AtTarget' /\ StartsHandled' /\ StartsAhead'
         /\ WorkArrives' /\ RefusedExcused'
    <2>1. \A d \in Command : ~InHand(d)
      BY <1>1 DEF InHand
    <2>2. InHand(c)'
      BY <1>1, <1>3, <1>4, <1>8 DEF InHand
    <2> QED BY <1>1, <1>2, <1>3, <1>5, <2>1, <2>2, LogGrowsElsewhere
  <1>14. WorkerStartSent'
    <2>1. \A v \in Worker : gate' = v => v = w
      BY <1>1
    <2>2. pc'[w] \in {"running", "asked"} => pc[w] = "running"
      BY <1>3, <1>4, <1>8
    <2>3. UNCHANGED <<gate, reserved, slot, session, runs, forgotten, down>>
      BY <1>1 DEF linkVars, nodeVars
    <2> QED BY <1>1, <2>1, <2>2, <2>3 DEF WorkerStartSent
  <1> QED BY <1>9, <1>10, <1>11, <1>12, <1>13, <1>14

\* A client's StartRun or prompt is stored, and will be routed.
LEMMA ClientBundleStep ==
  ASSUME SchedInv, NEW d \in Direct, ClientStartRun(d) \/ ClientPrompt(d)
  PROVE  SchedInv'
  <1> USE DEF SchedInv
  <1>1. PICK n \in Node, c \in Command :
           /\ Bundle(c, n) /\ c[1] = d
           /\ c[2] = "start" => /\ c = <<d, "start">> /\ bound[d] = NoNode
                                /\ preferred'[d] \in {NoNode, n}
           /\ c[2] = "prompt" => /\ c = <<d, "prompt">> /\ bound[d] # NoNode /\ ~InLog(c)
                                 /\ preferred' = preferred
           /\ preferred' \in [Request -> Node \cup {NoNode}]
           /\ \A r \in Request : r # d => preferred'[r] = preferred[r]
           /\ unrouted' = unrouted \cup {c}
           /\ UNCHANGED <<gate, pc, reserved, row, linkVars, nodeVars, noteVars, restarts, breaks, faults>>
    <2>0. /\ preferred \in [Request -> Node \cup {NoNode}] /\ d \in Request
          /\ bound \in [Request -> Node \cup {NoNode}]
          /\ <<d, "start">> \in Command /\ <<d, "prompt">> \in Command
      BY NoOneIsNoWorker DEF Typed, TypeOK, Command
    <2>1. CASE ClientStartRun(d)
      <3>1. /\ bound[d] = NoNode /\ unrouted' = unrouted \cup {<<d, "start">>}
            /\ UNCHANGED <<gate, pc, reserved, row, linkVars, nodeVars, noteVars, restarts, breaks, faults>>
        BY <2>1 DEF ClientStartRun
      <3>2. PICK want \in Node \cup {NoNode} :
               /\ eligible_execution_node(want) # NoNode
               /\ Bundle(<<d, "start">>, eligible_execution_node(want))
               /\ preferred' = [preferred EXCEPT ![d] = want]
        BY <2>1 DEF ClientStartRun
      <3> DEFINE n == eligible_execution_node(want)
      <3>3. n \in Node /\ want \in {NoNode, n}
        BY <3>2, ChosenIsEligible
      <3> HIDE DEF n
      <3>4. /\ preferred' \in [Request -> Node \cup {NoNode}] /\ preferred'[d] = want
            /\ \A r \in Request : r # d => preferred'[r] = preferred[r]
        BY <2>0, <3>2
      <3>5. Bundle(<<d, "start">>, n)
        BY <3>2 DEF n
      <3> QED BY <2>0, <3>1, <3>3, <3>4, <3>5
    <2>2. CASE ClientPrompt(d)
      <3>1. /\ bound[d] # NoNode /\ Bundle(<<d, "prompt">>, bound[d])
            /\ unrouted' = unrouted \cup {<<d, "prompt">>}
            /\ ~ Contains(dispatched, <<d, "prompt">>)
            /\ UNCHANGED <<gate, pc, preferred, reserved, row, linkVars, nodeVars, noteVars, restarts,
                           breaks, faults>>
        BY <2>2 DEF ClientPrompt, requestVars
      <3>2. ~InLog(<<d, "prompt">>)
        <4>1. DOMAIN dispatched = 1 .. Len(dispatched)
          BY DEF Typed, TypeOK
        <4> QED BY <3>1, <4>1 DEF Contains, InLog
      <3>3. bound[d] \in Node
        BY <2>0, <3>1
      <3> QED BY <2>0, <3>1, <3>2, <3>3
    <2> QED BY <2>1, <2>2
  <1>2. d \in Request /\ d \notin Worker /\ c[2] \in {"start", "prompt"}
    BY NoOneIsNoWorker, CommandParts
  <1>3. ~InLog(c)
    <2>1. CASE c[2] = "start"
      BY <1>1, <1>2, <2>1 DEF LogOrdered
    <2>2. CASE c[2] = "prompt"
      BY <1>1, <2>2
    <2> QED BY <1>2, <2>1, <2>2
  <1>4. /\ dispatched' \in Seq(Command) /\ bound' \in [Request -> Node \cup {NoNode}]
        /\ \A i, j \in DOMAIN dispatched' : dispatched'[i] = dispatched'[j] => i = j
        /\ UNCHANGED <<tasks, acked>>
        /\ DOMAIN dispatched \subseteq DOMAIN dispatched'
        /\ \A e : InLog(e)' <=> InLog(e) \/ e = c
        /\ \A r \in Request : bound[r] # NoNode => bound'[r] = bound[r]
        /\ \A r \in Request : r # d => bound'[r] = bound[r]
        /\ c[2] = "start" => bound'[d] = n
        /\ c[2] = "prompt" => bound' = bound
        /\ \A r \in Request : InLog(<<r, "start">>)' <=> bound'[r] # NoNode
        /\ \A j \in DOMAIN dispatched' : dispatched'[j][2] = "prompt" =>
              \E i \in DOMAIN dispatched' : i < j /\ dispatched'[i] = StartOf(dispatched'[j])
    BY <1>1, <1>3, LogGrows
  <1>5. Typed'
    <2>1. todo' \in [Node -> [Conn -> SUBSET DOMAIN dispatched']]
      <3>1. todo \in [Node -> [Conn -> SUBSET DOMAIN dispatched]] /\ todo' = todo
        BY <1>1 DEF Typed, TypeOK, linkVars
      <3> QED BY <1>4, <3>1
    <2>2. unrouted' \subseteq Command
      BY <1>1 DEF Typed, TypeOK
    <2> QED BY <1>1, <1>4, <2>1, <2>2 DEF Typed, TypeOK, linkVars, nodeVars, noteVars
  <1>6. GateHeld'
    BY <1>1, <1>2, NoOneIsNoWorker DEF GateHeld, linkVars
  <1>7. WorkerStored'
    <2>1. ASSUME NEW v \in Worker
          PROVE  (InLog(<<v, "prompt">>)' <=> InLog(<<v, "prompt">>)) /\ bound'[v] = bound[v]
      <3>1. <<v, "prompt">> # c /\ v # d
        BY <1>1, <1>2
      <3> QED BY <1>4, <3>1, NoOneIsNoWorker
    <2> QED BY <1>1, <1>4, <2>1 DEF WorkerStored
  <1>8. LogOrdered'
    <2>1. \A r \in Request : bound'[r] # NoNode => preferred'[r] \in {NoNode, bound'[r]}
      <3>1. CASE c[2] = "start"
        BY <1>1, <1>4, <3>1 DEF LogOrdered
      <3>2. CASE c[2] = "prompt"
        BY <1>1, <1>4, <3>2 DEF LogOrdered
      <3> QED BY <1>2, <3>1, <3>2
    <2>2. \A e \in unrouted' : InLog(e)' /\ e[1] \in Direct
      BY <1>1, <1>4 DEF LogOrdered
    <2> QED BY <1>1, <1>4, <2>1, <2>2 DEF LogOrdered, noteVars
  <1>9. /\ LinksOrdered' /\ RowsTell' /\ AtTarget' /\ StartsHandled' /\ StartsAhead'
        /\ WorkArrives' /\ RefusedExcused'
    <2>1. \A e \in Command : InHand(e) => InHand(e)'
      BY <1>1 DEF InHand
    <2> QED BY <1>1, <1>3, <2>1, LogGrowsElsewhere
  <1>10. WorkerStartSent'
    BY <1>1, PartsStay DEF linkVars, nodeVars
  <1> QED BY <1>5, <1>6, <1>7, <1>8, <1>9, <1>10

-----------------------------------------------------------------------------
(* Routing.                                                                *)

\* A routed command is added at the end of one queue, or lost.
LEMMA RouteFacts ==
  ASSUME Typed, NEW n \in Node, NEW c \in Command, down' = route_to_node(n, c, down)
  PROVE  /\ down' \in [Node -> [Conn -> Seq(Command)]]
         /\ \A m \in Node, k \in Conn :
               \/ down'[m][k] = down[m][k]
               \/ /\ m = n /\ k = slot[n] /\ k = session[n]
                  /\ down'[m][k] = Append(down[m][k], c)
         /\ slot[n] # NoConn /\ slot[n] = session[n] =>
               slot[n] \in Conn /\ down'[n][slot[n]] = Append(down[n][slot[n]], c)
         /\ \A m \in Node, k \in Conn :
               /\ Range(down[m][k]) \subseteq Range(down'[m][k])
               /\ Range(down'[m][k]) \subseteq Range(down[m][k]) \cup {c}
         /\ slot[n] # NoConn /\ slot[n] = session[n] => c \in Range(down'[n][slot[n]])
  <1>0. down \in [Node -> [Conn -> Seq(Command)]] /\ slot[n] \in Conn \cup {NoConn}
    BY DEF Typed, TypeOK
  <1>1. CASE slot[n] = NoConn \/ slot[n] # session[n]
    BY <1>0, <1>1 DEF route_to_node
  <1>2. CASE slot[n] # NoConn /\ slot[n] = session[n]
    <2>1. slot[n] \in Conn
      BY <1>0, <1>2
    <2> DEFINE k == slot[n]
               a == Append(down[n][k], c)
    <2>2. down' = [down EXCEPT ![n][k] = a]
      BY <1>2 DEF route_to_node
    <2>3. a \in Seq(Command) /\ Range(a) = Range(down[n][k]) \cup {c}
      BY <1>0, <2>1, AppendFacts
    <2> HIDE DEF a
    <2>4. /\ down' \in [Node -> [Conn -> Seq(Command)]] /\ down'[n][k] = a
          /\ \A m \in Node, j \in Conn : m # n \/ j # k => down'[m][j] = down[m][j]
      BY <1>0, <2>1, <2>2, <2>3
    <2>5. \A m \in Node, j \in Conn :
               /\ Range(down[m][j]) \subseteq Range(down'[m][j])
               /\ Range(down'[m][j]) \subseteq Range(down[m][j]) \cup {c}
      BY <2>3, <2>4
    <2> QED BY <1>2, <2>1, <2>3, <2>4, <2>5 DEF a
  <1> QED BY <1>1, <1>2

\* The queues after a stored command was routed to its node: a prompt that joins one
\* is excused, or its run is known, or its StartRun is ahead.
LEMMA RouteKeepsOrder ==
  ASSUME SchedInv, NEW n \in Node, NEW c \in Command, InLog(c), bound[c[1]] = n,
         down' = route_to_node(n, c, down), UNCHANGED <<session, runs, dispatched, bound>>,
         Excused \subseteq Excused',
         c[2] = "prompt" /\ slot[n] # NoConn /\ slot[n] = session[n] =>
            \/ c[1] \in Excused' \cup runs[n]
            \/ StartOf(c) \in Range(down[n][slot[n]])
  PROVE  /\ \A m \in Node, k \in Conn : \A d \in Range(down'[m][k]) : InLog(d)' /\ bound'[d[1]] = m
         /\ \A m \in Node, k \in Conn : k # session[m] => down'[m][k] = <<>>
         /\ DownOrdered'
         /\ UNCHANGED <<slot, todo>> => TodoOrdered'
  <1> USE DEF SchedInv
  <1>1. /\ \A m \in Node, k \in Conn :
              \/ down'[m][k] = down[m][k]
              \/ /\ m = n /\ k = slot[n] /\ k = session[n]
                 /\ down'[m][k] = Append(down[m][k], c)
        /\ \A m \in Node, k \in Conn : Range(down'[m][k]) \subseteq Range(down[m][k]) \cup {c}
    BY RouteFacts
  <1>2. \A d : InLog(d)' <=> InLog(d)
    BY DEF InLog
  <1>3. \A m \in Node, k \in Conn : \A d \in Range(down'[m][k]) : InLog(d)' /\ bound'[d[1]] = m
    <2>1. SUFFICES ASSUME NEW m \in Node, NEW k \in Conn, NEW d \in Range(down'[m][k])
                   PROVE  InLog(d) /\ bound[d[1]] = m
      BY <1>2
    <2>2. CASE down'[m][k] = down[m][k]
      BY <2>1, <2>2 DEF AtTarget
    <2>3. CASE m = n /\ down'[m][k] # down[m][k]
      BY <1>1, <2>1, <2>3 DEF AtTarget
    <2> QED BY <1>1, <2>2, <2>3
  <1>4. \A m \in Node, k \in Conn : k # session[m] => down'[m][k] = <<>>
    BY <1>1 DEF LinksOrdered
  <1>5. DownOrdered'
    <2>1. SUFFICES ASSUME NEW m \in Node, NEW k \in Conn, NEW j \in DOMAIN down'[m][k],
                          down'[m][k][j][2] = "prompt"
                   PROVE  \/ down'[m][k][j][1] \in Excused' \cup runs[m]
                          \/ \E i \in DOMAIN down'[m][k] :
                                i < j /\ down'[m][k][i] = StartOf(down'[m][k][j])
      BY DEF DownOrdered
    <2>2. CASE down'[m][k] = down[m][k]
      BY <2>1, <2>2 DEF StartsAhead, DownOrdered
    <2>3. CASE /\ m = n /\ k = slot[n] /\ k = session[n]
               /\ down'[m][k] = Append(down[m][k], c)
      <3> DEFINE q == down[m][k]
                 p == down'[m][k]
      <3>1. q \in Seq(Command) /\ k # NoConn
        BY CommandTypes, NamesArePositive
      <3>2. /\ \A i \in DOMAIN q : i \in DOMAIN p /\ i < Len(q) + 1 /\ p[i] = q[i]
            /\ p[Len(q) + 1] = c
            /\ \A i \in DOMAIN p : i \in DOMAIN q \/ i = Len(q) + 1
        BY <2>3, <3>1, AppendFacts
      <3>3. CASE j \in DOMAIN q
        <4>1. \/ q[j][1] \in Excused \cup runs[m]
              \/ \E i \in DOMAIN q : i < j /\ q[i] = StartOf(q[j])
          BY <2>1, <3>2, <3>3 DEF StartsAhead, DownOrdered
        <4> HIDE DEF q, p
        <4>2. p[j] = q[j]
          BY <3>2, <3>3
        <4> QED BY <3>2, <3>3, <4>1, <4>2 DEF p
      <3>4. CASE j = Len(q) + 1
        <4>1. p[j] = c /\ c[2] = "prompt"
          BY <2>1, <3>2, <3>4
        <4>2. c[1] \in Excused' \cup runs[n] \/ StartOf(c) \in Range(q)
          BY <2>3, <3>1, <4>1
        <4>3. StartOf(c) \in Range(q) => \E i \in DOMAIN p : i < j /\ p[i] = StartOf(c)
          <5> HIDE DEF q, p
          <5> QED BY <3>2, <3>4 DEF Range
        <4> QED BY <2>3, <4>1, <4>2, <4>3
      <3> QED BY <3>2, <3>3, <3>4
    <2> QED BY <1>1, <2>2, <2>3
  <1>6. ASSUME UNCHANGED <<slot, todo>> PROVE TodoOrdered'
    <2>1. \A m \in Node, k \in Conn : Range(down[m][k]) \subseteq Range(down'[m][k])
      BY RouteFacts
    <2> QED BY <1>6, <2>1 DEF StartsAhead, TodoOrdered
  <1> QED BY <1>3, <1>4, <1>5, <1>6

\* create_worker_task sends what it has stored: the entry it chose is still registered, so
\* the prompt follows its StartRun into the same connection, or that connection is lost.
LEMMA WorkerRouteStep ==
  ASSUME SchedInv, NEW w \in Worker, RouteStart(w) \/ RoutePrompt(w)
  PROVE  SchedInv'
  <1> USE DEF SchedInv
  <1>0. w \in Request /\ w \notin Direct /\ <<w, "start">> \in Command /\ <<w, "prompt">> \in Command
    BY NoOneIsNoWorker DEF Command
  <1>1. PICK c \in Command, n \in Node, to \in Step :
           /\ gate = w /\ pc[w] \in {"started", "asked"} /\ pc' = [pc EXCEPT ![w] = to]
           /\ down' = route_to_node(n, c, down) /\ n = reserved[w] /\ bound[w] = n
           /\ \/ /\ pc[w] = "started" /\ c = <<w, "start">> /\ to = "running" /\ gate' = w
              \/ /\ pc[w] = "asked" /\ c = <<w, "prompt">> /\ to = "done" /\ gate' = NoOne
           /\ UNCHANGED <<reserved, preferred, storeVars, row, slot, handler, hello, todo, up, session,
                          conns, nodeVars, noteVars, unrouted, restarts, breaks, faults>>
    <2>0. /\ gate = w /\ reserved[w] \in Node /\ bound[w] = reserved[w]
          /\ {"running", "done"} \subseteq Step
      BY DEF RouteStart, RoutePrompt, At, GateHeld, WorkerStored, Step
    <2>1. CASE RouteStart(w)
      BY <1>0, <2>0, <2>1 DEF RouteStart, At, Goto
    <2>2. CASE RoutePrompt(w)
      BY <1>0, <2>0, <2>2 DEF RoutePrompt, At, Goto, Leave
    <2> QED BY <2>1, <2>2
  <1>2. /\ c[1] = w /\ InLog(c) /\ bound[c[1]] = n /\ slot[n] # NoConn
        /\ (c[2] = "start" <=> to = "running") /\ (c[2] = "prompt" <=> to = "done")
        /\ to \in {"running", "done"} /\ StartOf(c) = <<w, "start">>
    <2>1. c[1] = w /\ bound[w] = n /\ slot[n] # NoConn
      BY <1>1 DEF GateHeld
    <2>2. InLog(c)
      <3>1. bound[w] # NoNode
        BY <1>1, NamesArePositive
      <3> QED BY <1>0, <1>1, <3>1 DEF WorkerStored, LogOrdered
    <2> QED BY <1>1, <2>1, <2>2 DEF StartOf
  <1>3. /\ down' \in [Node -> [Conn -> Seq(Command)]]
        /\ \A m \in Node, k \in Conn : Range(down[m][k]) \subseteq Range(down'[m][k])
        /\ slot[n] = session[n] => c \in Range(down'[n][slot[n]])
    BY <1>1, <1>2, RouteFacts
  <1>4. /\ \A m \in Node, k \in Conn : \A d \in Range(down'[m][k]) : InLog(d)' /\ bound'[d[1]] = m
        /\ \A m \in Node, k \in Conn : k # session[m] => down'[m][k] = <<>>
        /\ StartsAhead'
    <2>1. UNCHANGED <<session, runs, dispatched, bound, forgotten, straddled, overtaken>>
      BY <1>1 DEF storeVars, nodeVars, noteVars
    <2>2. Excused' = Excused
      BY <2>1 DEF Excused
    <2>3. c[2] = "prompt" /\ slot[n] = session[n] =>
             w \in Excused \cup runs[n] \/ <<w, "start">> \in Range(down[n][slot[n]])
      BY <1>1 DEF WorkerStartSent, Excused
    <2> QED BY <1>1, <1>2, <2>1, <2>2, <2>3, RouteKeepsOrder DEF StartsAhead
  <1>5. /\ pc' \in [Worker -> Step] /\ pc'[w] = to /\ gate' \in Worker \cup {NoOne}
        /\ \A v \in Worker : v # w => pc'[v] = pc[v]
    BY <1>1 DEF Typed, TypeOK
  <1>6. Typed'
    BY <1>1, <1>3, <1>5 DEF Typed, TypeOK, storeVars, nodeVars, noteVars
  <1>7. GateHeld'
    BY <1>1, <1>2, <1>5, NoOneIsNoWorker DEF GateHeld, Inside
  <1>8. \A d : InLog(d)' <=> InLog(d)
    BY <1>1 DEF InLog, storeVars
  <1>9. WorkerStored'
    BY <1>1, <1>2, <1>5, <1>8 DEF WorkerStored, storeVars
  <1>10. LogOrdered' /\ RowsTell' /\ StartsHandled' /\ RefusedExcused'
    BY <1>1, PartsStay DEF storeVars, nodeVars, noteVars
  <1>11. LinksOrdered'
    BY <1>1, <1>4 DEF LinksOrdered
  <1>12. AtTarget'
    BY <1>1, <1>4, <1>8 DEF AtTarget, storeVars, nodeVars
  <1>14. WorkerStartSent'
    <2>1. \A v \in Worker : gate' = v => v = w /\ to = "running" /\ c = <<w, "start">>
      BY <1>1, NoOneIsNoWorker
    <2> QED BY <1>1, <1>3, <2>1 DEF WorkerStartSent, nodeVars
  <1>15. WorkArrives'
    <2>1. SUFFICES ASSUME NEW m \in Node, slot[m] # NoConn, slot[m] = session[m],
                          NEW d \in Range(dispatched) \ unrouted, bound[d[1]] = m, ~InHand(d)'
                   PROVE  \/ d \in seen[m] \cup acked \cup Range(down'[m][slot[m]])
                          \/ handler[m][slot[m]] \in {"registered", "recorded"}
                          \/ \E i \in todo[m][slot[m]] : dispatched[i] = d
      BY <1>1 DEF WorkArrives, storeVars, nodeVars
    <2>2. slot[m] \in Conn
      BY <2>1 DEF Typed, TypeOK
    <2>3. CASE InHand(d)
      <3>1. d = c
        <4>1. d \in Command
          BY CommandTypes
        <4>2. d[1] = w /\ d[2] = c[2] /\ d = <<d[1], d[2]>> /\ c = <<c[1], c[2]>>
          BY <1>1, <2>3, <4>1, CommandParts DEF InHand
        <4> QED BY <1>2, <4>2
      <3> QED BY <1>2, <1>3, <2>1, <3>1
    <2>4. CASE ~InHand(d)
      <3>1. \/ d \in seen[m] \cup acked \cup Range(down[m][slot[m]])
            \/ handler[m][slot[m]] \in {"registered", "recorded"}
            \/ \E i \in todo[m][slot[m]] : dispatched[i] = d
        BY <2>1, <2>4 DEF WorkArrives
      <3> QED BY <1>3, <2>2, <3>1
    <2> QED BY <2>3, <2>4
  <1> QED
    BY <1>4, <1>6, <1>7, <1>9, <1>10, <1>11, <1>12, <1>14, <1>15

\* A client's command is routed once its receipt is sent: a prompt that is not noted as
\* overtaking goes to a connection that was replayed to, after its StartRun was routed.
LEMMA ClientRouteStep ==
  ASSUME SchedInv, NEW c \in unrouted, ClientRoute(c)
  PROVE  SchedInv'
  <1> USE DEF SchedInv
  <1>1. /\ unrouted' = unrouted \ {c} /\ down' = route_to_node(bound[c[1]], c, down)
        /\ overtaken' = IF Overtakes(c) THEN overtaken \cup {c[1]} ELSE overtaken
        /\ UNCHANGED <<requestVars, storeVars, row, slot, handler, hello, todo, up, session, conns,
                       nodeVars, straddled, outdated, latecomer, restarts, breaks, faults>>
    BY DEF ClientRoute
  <1>2. InLog(c) /\ c \in Command /\ c[1] \in Direct /\ c[1] \in Request /\ InLog(StartOf(c))
    BY LoggedIsBound DEF LogOrdered
  <1>3. PICK n \in Node : n = bound[c[1]]
    BY <1>2, LoggedIsBound DEF Typed, TypeOK
  <1>4. /\ down' \in [Node -> [Conn -> Seq(Command)]]
        /\ \A m \in Node, k \in Conn : Range(down[m][k]) \subseteq Range(down'[m][k])
        /\ slot[n] # NoConn /\ slot[n] = session[n] => c \in Range(down'[n][slot[n]])
    BY <1>1, <1>2, <1>3, RouteFacts
  <1>5. Excused \subseteq Excused' /\ overtaken' \subseteq Direct /\ overtaken' \subseteq Request
    BY <1>1, <1>2, NoOneIsNoWorker DEF Excused, LogOrdered, nodeVars
  <1>6. c[2] = "prompt" /\ slot[n] # NoConn /\ slot[n] = session[n] =>
            \/ c[1] \in Excused' \cup runs[n]
            \/ StartOf(c) \in Range(down[n][slot[n]])
    <2>1. SUFFICES ASSUME c[2] = "prompt", slot[n] # NoConn, slot[n] = session[n]
                   PROVE  \/ c[1] \in Excused' \cup runs[n]
                          \/ StartOf(c) \in Range(down[n][slot[n]])
      OBVIOUS
    <2>2. CASE Overtakes(c)
      BY <1>1, <2>2 DEF Excused
    <2>3. CASE ~Overtakes(c)
      <3>1. StartOf(c) \notin unrouted /\ handler[n][slot[n]] = "live" /\ slot[n] \in Conn
        BY <1>3, <2>1, <2>3 DEF Overtakes, StartOf, Typed, TypeOK
      <3>2. todo[n][slot[n]] = {}
        BY <3>1 DEF LinksOrdered
      <3>3. /\ StartOf(c) \in Range(dispatched) /\ StartOf(c)[1] = c[1] /\ StartOf(c)[2] = "start"
            /\ ~InHand(StartOf(c))
        BY <1>2, CommandTypes, NoOneIsNoWorker DEF InHand, StartOf
      <3>4. StartOf(c) \in seen[n] \cup acked \cup Range(down[n][slot[n]])
        BY <1>3, <2>1, <3>1, <3>2, <3>3 DEF WorkArrives
      <3>5. StartOf(c) \in seen[n] => c[1] \in runs[n]
        BY <3>3 DEF StartsHandled
      <3>6. StartOf(c) \in acked => c[1] \in runs[n] \cup forgotten
        BY <1>3, <3>3 DEF StartsHandled
      <3> QED BY <1>5, <3>4, <3>5, <3>6 DEF Excused
    <2> QED BY <2>2, <2>3
  <1>7. /\ \A m \in Node, k \in Conn : \A d \in Range(down'[m][k]) : InLog(d)' /\ bound'[d[1]] = m
        /\ \A m \in Node, k \in Conn : k # session[m] => down'[m][k] = <<>>
        /\ StartsAhead'
    <2>1. UNCHANGED <<session, runs, dispatched, bound>>
      BY <1>1 DEF storeVars, nodeVars
    <2> QED BY <1>1, <1>2, <1>3, <1>5, <1>6, <2>1, RouteKeepsOrder DEF StartsAhead
  <1>8. \A d : InLog(d)' <=> InLog(d)
    BY <1>1 DEF InLog, storeVars
  <1>9. Typed'
    BY <1>1, <1>4, <1>5 DEF Typed, TypeOK, requestVars, storeVars, nodeVars
  <1>10. GateHeld' /\ WorkerStored' /\ RowsTell' /\ StartsHandled'
    BY <1>1, PartsStay DEF requestVars, storeVars, nodeVars
  <1>11. LogOrdered'
    BY <1>1, <1>5, <1>8 DEF LogOrdered, storeVars, requestVars
  <1>12. LinksOrdered'
    BY <1>1, <1>7 DEF LinksOrdered
  <1>13. AtTarget'
    BY <1>1, <1>7, <1>8 DEF AtTarget, storeVars, nodeVars
  <1>15. WorkerStartSent'
    <2>1. \A v \in Worker : gate = v => reserved[v] \in Node /\ slot[reserved[v]] \in Conn
      BY DEF GateHeld, Typed, TypeOK
    <2> QED BY <1>1, <1>4, <2>1 DEF WorkerStartSent, requestVars, nodeVars
  <1>16. WorkArrives'
    <2>1. SUFFICES ASSUME NEW m \in Node, slot[m] # NoConn, slot[m] = session[m],
                          NEW d \in Range(dispatched) \ unrouted', bound[d[1]] = m, ~InHand(d)'
                   PROVE  \/ d \in seen[m] \cup acked \cup Range(down'[m][slot[m]])
                          \/ handler[m][slot[m]] \in {"registered", "recorded"}
                          \/ \E i \in todo[m][slot[m]] : dispatched[i] = d
      BY <1>1 DEF WorkArrives, storeVars, nodeVars
    <2>2. slot[m] \in Conn /\ ~InHand(d)
      BY <1>1, <2>1 DEF Typed, TypeOK, InHand, requestVars
    <2>3. CASE d = c
      BY <1>3, <1>4, <2>1, <2>3
    <2>4. CASE d # c
      <3>1. d \notin unrouted
        BY <1>1, <2>1, <2>4
      <3>2. \/ d \in seen[m] \cup acked \cup Range(down[m][slot[m]])
            \/ handler[m][slot[m]] \in {"registered", "recorded"}
            \/ \E i \in todo[m][slot[m]] : dispatched[i] = d
        BY <2>1, <2>2, <3>1 DEF WorkArrives
      <3> QED BY <1>4, <2>2, <3>2
    <2> QED BY <2>3, <2>4
  <1>17. RefusedExcused'
    BY <1>1, <1>5 DEF RefusedExcused, nodeVars
  <1> QED
    BY <1>7, <1>9, <1>10, <1>11, <1>12, <1>13, <1>15, <1>16, <1>17

-----------------------------------------------------------------------------
(* The handlers of the connections.                                        *)

\* A handler moves on, and no other does.
LEMMA StageFacts ==
  ASSUME Typed, NEW n \in Node, NEW k \in Conn, NEW s \in Stage, Stays(n, k, s)
  PROVE  /\ handler' \in [Node -> [Conn -> Stage]] /\ handler'[n][k] = s
         /\ \A m \in Node, j \in Conn : m # n \/ j # k => handler'[m][j] = handler[m][j]
  <1>1. handler \in [Node -> [Conn -> Stage]] /\ handler' = [handler EXCEPT ![n][k] = s]
    BY DEF Typed, TypeOK, Stays
  <1> QED BY <1>1

\* The entries of the registry and the sessions name connections that were opened.
LEMMA RegistryTypes ==
  ASSUME SchedInv, NEW n \in Node
  PROVE  /\ slot[n] # NoConn => slot[n] \in Conn
         /\ session[n] # NoConn => session[n] \in Conn
         /\ slot[n] \in Nat /\ conns[n] \in Nat /\ slot[n] <= conns[n]
         /\ slot[n] # NoConn => handler[n][slot[n]] \in Attached
  <1>1. /\ conns \in [Node -> 0 .. MaxConn] /\ session \in [Node -> Conn \cup {NoConn}]
        /\ slot \in [Node -> Conn \cup {NoConn}]
    BY DEF SchedInv, Typed, TypeOK
  <1>2. conns[n] \in 0 .. MaxConn /\ slot[n] \in Conn \cup {NoConn} /\ session[n] \in Conn \cup {NoConn}
    BY <1>1
  <1>3. conns[n] \in Nat
    BY <1>2, NamesArePositive
  <1>4. slot[n] \in Nat
    <2>1. Conn \subseteq Nat /\ NoConn \in Nat
      BY NamesArePositive DEF NoConn
    <2> QED BY <1>2, <2>1
  <1>5. slot[n] <= conns[n] /\ (slot[n] # NoConn => handler[n][slot[n]] \in Attached)
    BY DEF SchedInv, LinksOrdered
  <1> QED BY <1>2, <1>3, <1>4, <1>5

\* A node dials: its newest connection is not registered yet, and the one that is
\* registered is lost.
LEMMA DialStep ==
  ASSUME SchedInv, NEW n \in Node, Dial(n)
  PROVE  SchedInv'
  <1> USE DEF SchedInv
  <1>1. PICK k \in Conn :
           /\ k = conns[n] + 1 /\ session[n] = NoConn /\ \A j \in Conn : handler[n][j] # "hello"
           /\ conns' = [conns EXCEPT ![n] = k] /\ session' = [session EXCEPT ![n] = k]
           /\ hello' = [hello EXCEPT ![n][k] = offers[n]] /\ Stays(n, k, "hello")
           /\ UNCHANGED <<elsewhere, row, slot, todo, down, up, noteVars, breaks, faults>>
    <2>1. conns[n] \in 0 .. MaxConn /\ conns[n] < MaxConn
      BY DEF Dial, Typed, TypeOK
    <2>2. conns[n] + 1 \in Conn
      BY <2>1, NamesArePositive DEF Conn
    <2> QED BY <2>2 DEF Dial
  <1>2. /\ conns \in [Node -> 0 .. MaxConn] /\ session \in [Node -> Conn \cup {NoConn}]
        /\ slot \in [Node -> Conn \cup {NoConn}]
        /\ hello \in [Node -> [Conn -> BOOLEAN]] /\ offers \in [Node -> BOOLEAN]
    BY DEF Typed, TypeOK
  <1>3. /\ handler' \in [Node -> [Conn -> Stage]] /\ handler'[n][k] = "hello"
        /\ \A m \in Node, j \in Conn : m # n \/ j # k => handler'[m][j] = handler[m][j]
    BY <1>1, StageFacts DEF Stage
  <1>4. /\ conns' \in [Node -> 0 .. MaxConn] /\ conns'[n] = k
        /\ session' \in [Node -> Conn \cup {NoConn}] /\ session'[n] = k
        /\ \A m \in Node : m # n => session'[m] = session[m] /\ conns'[m] = conns[m]
    <2>1. k \in 0 .. MaxConn
      BY NamesArePositive DEF Conn
    <2> QED BY <1>1, <1>2, <2>1
  <1>5. /\ hello' \in [Node -> [Conn -> BOOLEAN]]
        /\ \A m \in Node, j \in Conn : m # n \/ j # k => hello'[m][j] = hello[m][j]
    BY <1>1, <1>2
  <1>6. /\ slot[n] # k /\ handler[n][k] = "none" /\ k > conns[n] /\ conns[n] \in Nat
        /\ k \in Nat /\ k # NoConn
    <2>1. conns[n] \in Nat /\ k \in Nat /\ k # NoConn /\ slot[n] \in Nat
      BY RegistryTypes, NamesArePositive
    <2>2. k > conns[n] /\ slot[n] <= conns[n]
      BY <1>1, <2>1 DEF LinksOrdered
    <2>3. slot[n] # k
      BY <2>1, <2>2
    <2> QED BY <2>1, <2>2, <2>3 DEF LinksOrdered
  <1>7. Typed'
    BY <1>1, <1>3, <1>4, <1>5 DEF Typed, TypeOK, elsewhere, requestVars, storeVars, nodeVars, noteVars
  <1>8. GateHeld' /\ WorkerStored' /\ LogOrdered' /\ AtTarget' /\ StartsHandled' /\ RefusedExcused'
    BY <1>1, PartsStay DEF elsewhere, requestVars, storeVars, nodeVars, noteVars
  <1>9. LinksOrdered'
    <2>1. SUFFICES ASSUME NEW m \in Node
          PROVE  /\ session'[m] \in {NoConn, conns'[m]} /\ slot[m] <= conns'[m]
                 /\ slot[m] # NoConn => handler'[m][slot[m]] \in Attached
                 /\ \A j \in Conn :
                       /\ j > conns'[m] => handler'[m][j] = "none"
                       /\ handler'[m][j] = "hello" => j = conns'[m]
                       /\ j = session'[m] /\ handler'[m][j] \in Attached => slot[m] = j
                       /\ j # session'[m] => down[m][j] = <<>>
                       /\ handler'[m][j] # "replaying" => todo[m][j] = {}
      BY <1>1 DEF LinksOrdered
    <2>2. CASE m # n
      <3>1. slot[m] # NoConn => slot[m] \in Conn
        BY RegistryTypes
      <3>2. slot[m] # NoConn => handler'[m][slot[m]] \in Attached
        BY <1>3, <2>2, <3>1 DEF LinksOrdered
      <3>3. \A j \in Conn : handler'[m][j] = handler[m][j]
        BY <1>3, <2>2
      <3> QED BY <1>4, <2>2, <3>2, <3>3 DEF LinksOrdered
    <2>3. CASE m = n
      <3>1. slot[n] <= k
        <4>1. slot[n] \in Nat /\ slot[n] <= conns[n]
          BY RegistryTypes
        <4> QED BY <1>6, <4>1
      <3>2. slot[n] # NoConn => handler'[n][slot[n]] \in Attached
        BY <1>3, <1>6, RegistryTypes
      <3>3. ASSUME NEW j \in Conn
            PROVE  /\ j > k => handler'[n][j] = "none"
                   /\ handler'[n][j] = "hello" => j = k
                   /\ j = k => handler'[n][j] \notin Attached
                   /\ j # k => down[n][j] = <<>>
                   /\ handler'[n][j] # "replaying" => todo[n][j] = {}
        <4>1. CASE j = k
          <5>1. ~(j > k) /\ handler'[n][j] = "hello"
            BY <1>3, <1>6, <4>1
          <5>2. todo[n][j] = {}
            BY <1>6, <4>1 DEF LinksOrdered
          <5> QED BY <4>1, <5>1, <5>2 DEF Attached
        <4>2. CASE j # k
          <5>1. handler'[n][j] = handler[n][j] /\ handler[n][j] # "hello"
            BY <1>1, <1>3, <4>2
          <5>2. j > k => j > conns[n]
            <6>1. j \in Nat
              BY NamesArePositive
            <6> QED BY <1>6, <6>1
          <5>3. down[n][j] = <<>>
            BY <1>1, NamesArePositive DEF LinksOrdered
          <5> QED BY <4>2, <5>1, <5>2, <5>3 DEF LinksOrdered
        <4> QED BY <4>1, <4>2
      <3> QED BY <1>4, <2>3, <3>1, <3>2, <3>3
    <2> QED BY <2>2, <2>3
  <1>10. RowsTell'
    <2>1. \A m \in Node : slot[m] # NoConn => /\ handler'[m][slot[m]] = handler[m][slot[m]]
                                              /\ hello'[m][slot[m]] = hello[m][slot[m]]
      BY <1>3, <1>5, <1>6, RegistryTypes
    <2>2. \A m \in Node, j \in Conn : handler[m][j] \in {"registered", "unregistered"} =>
                 handler'[m][j] = handler[m][j]
      BY <1>3, <1>6
    <2>3. \A m \in Node, j \in Conn : handler'[m][j] = "unregistered" => handler[m][j] = "unregistered"
      BY <1>3
    <2>4. UNCHANGED <<row, slot, outdated, latecomer, restarts>>
      BY <1>1 DEF elsewhere, noteVars
    <2>5. StatusFollowsRegistry'
      BY <2>2, <2>4 DEF RowsTell, StatusFollowsRegistry
    <2> QED BY <2>1, <2>3, <2>4, <2>5 DEF RowsTell
  <1>11. StartsAhead'
    <2>1. UNCHANGED <<down, todo, slot, dispatched, runs, forgotten, straddled, overtaken>>
      BY <1>1 DEF elsewhere, storeVars, nodeVars, noteVars
    <2>2. DownOrdered'
      BY <2>1 DEF StartsAhead, DownOrdered, Excused
    <2>3. TodoOrdered'
      BY <1>4, <1>6, <2>1 DEF StartsAhead, TodoOrdered, Excused
    <2> QED BY <2>2, <2>3 DEF StartsAhead
  <1>12. WorkerStartSent'
    <2>1. UNCHANGED <<gate, pc, reserved, slot, runs, forgotten, down>>
      BY <1>1 DEF elsewhere, requestVars, nodeVars
    <2>2. \A w \in Worker : gate = w => reserved[w] \in Node
      BY DEF GateHeld
    <2> QED BY <1>4, <1>6, <2>1, <2>2 DEF WorkerStartSent
  <1>13. WorkArrives'
    <2>1. UNCHANGED <<gate, pc, slot, dispatched, unrouted, bound, seen, acked, down, todo>>
      BY <1>1 DEF elsewhere, requestVars, storeVars, nodeVars
    <2>2. \A c : InHand(c)' <=> InHand(c)
      BY <2>1 DEF InHand
    <2>3. \A m \in Node : slot[m] # NoConn /\ slot[m] = session'[m] =>
             slot[m] = session[m] /\ handler'[m][slot[m]] = handler[m][slot[m]]
      BY <1>3, <1>4, <1>6, RegistryTypes
    <2> QED BY <2>1, <2>2, <2>3 DEF WorkArrives
  <1> QED BY <1>7, <1>8, <1>9, <1>10, <1>11, <1>12, <1>13

\* A connection takes the entry of its node: the gate is free, nothing is waiting in its
\* replay, and its own replay has not been read yet.
LEMMA RegisterStep ==
  ASSUME SchedInv, NEW n \in Node, NEW k \in Conn, register_node(n, k)
  PROVE  SchedInv'
  <1> USE DEF SchedInv
  <1>1. /\ handler[n][k] = "hello" /\ gate = NoOne
        /\ slot' = [slot EXCEPT ![n] = k] /\ Stays(n, k, "registered")
        /\ latecomer' = IF \E j \in Conn : handler[n][j] = "unregistered"
                        THEN latecomer \cup {n} ELSE latecomer
        /\ UNCHANGED <<elsewhere, row, hello, todo, down, up, session, conns, overtaken,
                       straddled, outdated, breaks, faults>>
    BY DEF register_node
  <1>2. /\ handler' \in [Node -> [Conn -> Stage]] /\ handler'[n][k] = "registered"
        /\ \A m \in Node, j \in Conn : m # n \/ j # k => handler'[m][j] = handler[m][j]
    BY <1>1, StageFacts DEF Stage
  <1>3. /\ slot' \in [Node -> Conn \cup {NoConn}] /\ slot'[n] = k
        /\ \A m \in Node : m # n => slot'[m] = slot[m]
    BY <1>1 DEF Typed, TypeOK
  <1>4. /\ k = conns[n] /\ session[n] \in {NoConn, k} /\ todo[n][k] = {}
        /\ k \in Nat /\ k <= conns[n] /\ k # NoConn
    <2>1. k = conns[n] /\ k \in Nat /\ k # NoConn
      BY <1>1, NamesArePositive DEF LinksOrdered
    <2>2. todo[n][k] = {} /\ session[n] \in {NoConn, k}
      BY <1>1, <2>1 DEF LinksOrdered
    <2> QED BY <2>1, <2>2
  <1>5. Typed'
    BY <1>1, <1>2, <1>3 DEF Typed, TypeOK, elsewhere, requestVars, storeVars, nodeVars
  <1>6. WorkerStored' /\ LogOrdered' /\ AtTarget' /\ StartsHandled' /\ RefusedExcused'
    BY <1>1, PartsStay DEF elsewhere, requestVars, storeVars, nodeVars
  <1>7. \A w \in Worker : gate # w /\ gate' # w
    BY <1>1, NoOneIsNoWorker DEF elsewhere, requestVars
  <1>8. GateHeld' /\ WorkerStartSent'
    BY <1>1, <1>7 DEF GateHeld, WorkerStartSent, elsewhere, requestVars
  <1>9. LinksOrdered'
    <2>1. SUFFICES ASSUME NEW m \in Node
          PROVE  /\ session[m] \in {NoConn, conns[m]} /\ slot'[m] <= conns[m]
                 /\ slot'[m] # NoConn => handler'[m][slot'[m]] \in Attached
                 /\ \A j \in Conn :
                       /\ j > conns[m] => handler'[m][j] = "none"
                       /\ handler'[m][j] = "hello" => j = conns[m]
                       /\ j = session[m] /\ handler'[m][j] \in Attached => slot'[m] = j
                       /\ j # session[m] => down[m][j] = <<>>
                       /\ handler'[m][j] # "replaying" => todo[m][j] = {}
      BY <1>1 DEF LinksOrdered
    <2>2. CASE m # n
      <3>1. /\ slot'[m] = slot[m] /\ \A j \in Conn : handler'[m][j] = handler[m][j]
            /\ slot[m] # NoConn => handler'[m][slot[m]] \in Attached
        BY <1>2, <1>3, <2>2, RegistryTypes
      <3> QED BY <3>1 DEF LinksOrdered
    <2>3. CASE m = n
      <3>1. ASSUME NEW j \in Conn
            PROVE  /\ j > conns[n] => handler'[n][j] = "none"
                   /\ handler'[n][j] = "hello" => j = conns[n]
                   /\ j = session[n] => k = j
                   /\ handler'[n][j] # "replaying" => todo[n][j] = {}
        <4>1. j \in Nat /\ j # NoConn
          BY NamesArePositive
        <4>2. CASE j = k
          BY <1>2, <1>4, <4>1, <4>2
        <4>3. CASE j # k
          BY <1>2, <1>4, <4>1, <4>3 DEF LinksOrdered
        <4> QED BY <4>2, <4>3
      <3>2. session[n] \in {NoConn, conns[n]} /\ \A j \in Conn : j # session[n] => down[n][j] = <<>>
        BY DEF LinksOrdered
      <3> QED BY <1>2, <1>3, <1>4, <2>3, <3>1, <3>2 DEF Attached
    <2> QED BY <2>2, <2>3
  <1>10. RowsTell'
    <2>1. UNCHANGED <<row, hello, outdated, restarts>>
      BY <1>1 DEF elsewhere
    <2>2. latecomer \subseteq latecomer'
      BY <1>1
    <2>3. StatusFollowsRegistry'
      <3>1. SUFFICES ASSUME NEW m \in Node
            PROVE  \/ row[m].connected = (slot'[m] # NoConn)
                   \/ \E j \in Conn : handler'[m][j] \in {"registered", "unregistered"}
                   \/ restarts > 0 \/ m \in outdated \cup latecomer'
        BY <2>1 DEF StatusFollowsRegistry
      <3>2. CASE m = n
        BY <1>2, <3>2
      <3>3. CASE m # n
        BY <1>2, <1>3, <2>2, <3>3 DEF RowsTell, StatusFollowsRegistry
      <3> QED BY <3>2, <3>3
    <2>4. ASSUME NEW m \in Node, slot'[m] # NoConn
          PROVE  \/ row[m].offers = hello[m][slot'[m]]
                 \/ m \in outdated \/ handler'[m][slot'[m]] = "registered"
      <3>1. CASE m = n
        BY <1>2, <1>3, <3>1
      <3>2. CASE m # n
        BY <1>2, <1>3, <2>4, <3>2, RegistryTypes DEF RowsTell
      <3> QED BY <3>1, <3>2
    <2>5. ASSUME NEW m \in Node, NEW j \in Conn, handler'[m][j] = "unregistered"
          PROVE  slot'[m] = NoConn \/ m \in latecomer'
      <3>1. handler[m][j] = "unregistered"
        BY <1>2, <2>5
      <3>2. CASE m = n
        BY <1>1, <3>1, <3>2
      <3>3. CASE m # n
        BY <1>3, <2>2, <3>1, <3>3 DEF RowsTell
      <3> QED BY <3>2, <3>3
    <2> QED BY <2>1, <2>3, <2>4, <2>5 DEF RowsTell
  <1>11. StartsAhead'
    <2>1. UNCHANGED <<down, todo, session, dispatched, runs, forgotten, straddled, overtaken>>
      BY <1>1 DEF elsewhere, storeVars, nodeVars
    <2>2. DownOrdered'
      BY <2>1 DEF StartsAhead, DownOrdered, Excused
    <2>3. TodoOrdered'
      BY <1>3, <1>4, <2>1 DEF StartsAhead, TodoOrdered, Excused
    <2> QED BY <2>2, <2>3 DEF StartsAhead
  <1>12. WorkArrives'
    <2>1. UNCHANGED <<gate, pc, session, dispatched, unrouted, bound, seen, acked, down, todo>>
      BY <1>1 DEF elsewhere, requestVars, storeVars, nodeVars
    <2>2. \A c : InHand(c)' <=> InHand(c)
      BY <2>1 DEF InHand
    <2>3. \A m \in Node : slot'[m] # NoConn =>
             \/ handler'[m][slot'[m]] = "registered"
             \/ slot'[m] = slot[m] /\ handler'[m][slot[m]] = handler[m][slot[m]]
      BY <1>2, <1>3, RegistryTypes
    <2> QED BY <2>1, <2>2, <2>3 DEF WorkArrives
  <1> QED BY <1>5, <1>6, <1>8, <1>9, <1>10, <1>11, <1>12

\* A handler that does not hold the entry of its node, or only goes on within it, disturbs
\* neither the registry nor the work: what is left is what the row of the node says.
LEMMA StageStep ==
  ASSUME SchedInv, NEW n \in Node, NEW k \in Conn, NEW s \in Stage, Stays(n, k, s),
         UNCHANGED <<elsewhere, slot, hello, todo, down, up, session, conns, overtaken, straddled,
                     breaks, faults>>,
         handler[n][k] # "none", s \notin {"none", "hello"}, handler[n][k] # "replaying" \/ todo[n][k] = {},
         slot[n] = k => s \in Attached,
         k = session[n] /\ s \in Attached => slot[n] = k,
         handler[n][k] = "registered" => s = "recorded",
         handler[n][k] = "recorded" => s = "recorded",
         row' \in [Node -> [offers : BOOLEAN, connected : BOOLEAN]], outdated' \cup latecomer' \subseteq Node,
         RowsTell'
  PROVE  SchedInv'
  <1> USE DEF SchedInv
  <1>1. /\ handler' \in [Node -> [Conn -> Stage]] /\ handler'[n][k] = s
        /\ \A m \in Node, j \in Conn : m # n \/ j # k => handler'[m][j] = handler[m][j]
    BY StageFacts
  <1>2. Typed'
    BY <1>1 DEF Typed, TypeOK, elsewhere, requestVars, storeVars, nodeVars
  <1>3. GateHeld' /\ WorkerStored' /\ LogOrdered' /\ AtTarget' /\ StartsHandled' /\ RefusedExcused'
    BY PartsStay DEF elsewhere, requestVars, storeVars, nodeVars
  <1>4. StartsAhead' /\ WorkerStartSent'
    BY PartsStay DEF elsewhere, requestVars, storeVars, nodeVars
  <1>5. LinksOrdered'
    <2>1. SUFFICES ASSUME NEW m \in Node
          PROVE  /\ session[m] \in {NoConn, conns[m]} /\ slot[m] <= conns[m]
                 /\ slot[m] # NoConn => handler'[m][slot[m]] \in Attached
                 /\ \A j \in Conn :
                       /\ j > conns[m] => handler'[m][j] = "none"
                       /\ handler'[m][j] = "hello" => j = conns[m]
                       /\ j = session[m] /\ handler'[m][j] \in Attached => slot[m] = j
                       /\ j # session[m] => down[m][j] = <<>>
                       /\ handler'[m][j] # "replaying" => todo[m][j] = {}
      BY DEF LinksOrdered
    <2>2. slot[m] # NoConn => handler'[m][slot[m]] \in Attached
      BY <1>1, RegistryTypes
    <2>3. ASSUME NEW j \in Conn
          PROVE  /\ j > conns[m] => handler'[m][j] = "none"
                 /\ handler'[m][j] = "hello" => j = conns[m]
                 /\ j = session[m] /\ handler'[m][j] \in Attached => slot[m] = j
                 /\ handler'[m][j] # "replaying" => todo[m][j] = {}
      <3>1. CASE m = n /\ j = k
        <4>1. ~(k > conns[n])
          BY DEF LinksOrdered
        <4>2. todo[n][k] = {}
          BY DEF LinksOrdered
        <4> QED BY <1>1, <3>1, <4>1, <4>2
      <3>2. CASE m # n \/ j # k
        BY <1>1, <3>2 DEF LinksOrdered
      <3> QED BY <3>1, <3>2
    <2> QED BY <2>2, <2>3 DEF LinksOrdered
  <1>6. WorkArrives'
    <2>1. UNCHANGED <<gate, pc, dispatched, unrouted, bound, seen, acked>>
      BY DEF elsewhere, requestVars, storeVars, nodeVars
    <2>2. \A c : InHand(c)' <=> InHand(c)
      BY <2>1 DEF InHand
    <2>3. \A m \in Node : /\ slot[m] # NoConn
                          /\ handler[m][slot[m]] \in {"registered", "recorded"}
                          => handler'[m][slot[m]] \in {"registered", "recorded"}
      BY <1>1, RegistryTypes
    <2> QED BY <2>1, <2>2, <2>3 DEF WorkArrives
  <1> QED BY <1>2, <1>3, <1>4, <1>5, <1>6

\* The welcome cannot be written, and the connection was never registered.
LEMMA HandshakeFailsStep ==
  ASSUME SchedInv, NEW n \in Node, NEW k \in Conn, HandshakeFails(n, k)
  PROVE  SchedInv'
  <1> USE DEF SchedInv
  <1>1. /\ handler[n][k] = "hello" /\ session[n] # k /\ Stays(n, k, "gone") /\ "gone" \in Stage
        /\ UNCHANGED <<elsewhere, row, slot, hello, todo, down, up, session, conns, noteVars,
                       breaks, faults>>
    BY DEF HandshakeFails, Stage
  <1>2. /\ handler'[n][k] = "gone"
        /\ \A m \in Node, j \in Conn : m # n \/ j # k => handler'[m][j] = handler[m][j]
    BY <1>1, StageFacts
  <1>3. slot[n] # k
    BY <1>1, RegistryTypes, NamesArePositive DEF Attached
  <1>4. RowsTell'
    <2>1. \A m \in Node : slot[m] # NoConn => handler'[m][slot[m]] = handler[m][slot[m]]
      BY <1>2, <1>3, RegistryTypes
    <2>2. \A m \in Node, j \in Conn :
             /\ handler[m][j] \in {"registered", "unregistered"} => handler'[m][j] = handler[m][j]
             /\ handler'[m][j] = "unregistered" => handler[m][j] = "unregistered"
      BY <1>1, <1>2
    <2>3. UNCHANGED <<row, slot, hello, outdated, latecomer, restarts>>
      BY <1>1 DEF elsewhere, noteVars
    <2>4. StatusFollowsRegistry'
      BY <2>2, <2>3 DEF RowsTell, StatusFollowsRegistry
    <2> QED BY <2>1, <2>2, <2>3, <2>4 DEF RowsTell
  <1>5. /\ row' \in [Node -> [offers : BOOLEAN, connected : BOOLEAN]]
        /\ outdated' \cup latecomer' \subseteq Node
    BY <1>1 DEF Typed, TypeOK, noteVars
  <1>6. UNCHANGED <<overtaken, straddled>>
    BY <1>1 DEF noteVars
  <1> QED BY <1>1, <1>3, <1>4, <1>5, <1>6, StageStep DEF Attached

\* The row is written for the connection that registered: it is the row of the entry, unless
\* another connection has taken the entry in between.
LEMMA ConnectedStep ==
  ASSUME SchedInv, NEW n \in Node, NEW k \in Conn, on_node_connected(n, k)
  PROVE  SchedInv'
  <1> USE DEF SchedInv
  <1>1. /\ handler[n][k] = "registered" /\ Stays(n, k, "recorded") /\ "recorded" \in Stage
        /\ row' = [row EXCEPT ![n] = [offers |-> hello[n][k], connected |-> TRUE]]
        /\ outdated' = IF slot[n] = k THEN outdated \ {n} ELSE outdated \cup {n}
        /\ UNCHANGED <<elsewhere, slot, hello, todo, down, up, session, conns, overtaken,
                       straddled, latecomer, breaks, faults>>
    BY DEF on_node_connected, Stage
  <1>2. /\ handler'[n][k] = "recorded"
        /\ \A m \in Node, j \in Conn : m # n \/ j # k => handler'[m][j] = handler[m][j]
    BY <1>1, StageFacts
  <1>3. /\ row' \in [Node -> [offers : BOOLEAN, connected : BOOLEAN]]
        /\ row'[n].offers = hello[n][k] /\ row'[n].connected = TRUE
        /\ \A m \in Node : m # n => row'[m] = row[m]
    BY <1>1 DEF Typed, TypeOK
  <1>4. /\ outdated' \cup latecomer' \subseteq Node
        /\ slot[n] # k => n \in outdated'
        /\ \A m \in Node : m # n => (m \in outdated' <=> m \in outdated)
    BY <1>1 DEF Typed, TypeOK
  <1>5. RowsTell'
    <2>1. UNCHANGED <<slot, hello, latecomer, restarts>> /\ k # NoConn
      BY <1>1, NamesArePositive DEF elsewhere
    <2>2. StatusFollowsRegistry'
      <3>1. SUFFICES ASSUME NEW m \in Node
            PROVE  \/ row'[m].connected = (slot[m] # NoConn)
                   \/ \E j \in Conn : handler'[m][j] \in {"registered", "unregistered"}
                   \/ restarts > 0 \/ m \in outdated' \cup latecomer
        BY <2>1 DEF StatusFollowsRegistry
      <3>2. CASE m = n
        BY <1>3, <1>4, <2>1, <3>2
      <3>3. CASE m # n
        BY <1>2, <1>3, <1>4, <3>3 DEF RowsTell, StatusFollowsRegistry
      <3> QED BY <3>2, <3>3
    <2>3. ASSUME NEW m \in Node, slot[m] # NoConn
          PROVE  \/ row'[m].offers = hello[m][slot[m]]
                 \/ m \in outdated' \/ handler'[m][slot[m]] = "registered"
      <3>1. CASE m = n
        BY <1>3, <1>4, <3>1
      <3>2. CASE m # n
        BY <1>2, <1>3, <1>4, <2>3, <3>2, RegistryTypes DEF RowsTell
      <3> QED BY <3>1, <3>2
    <2>4. \A m \in Node, j \in Conn : handler'[m][j] = "unregistered" => handler[m][j] = "unregistered"
      BY <1>2
    <2> QED BY <2>1, <2>2, <2>3, <2>4 DEF RowsTell
  <1>6. k = session[n] => slot[n] = k
    BY <1>1 DEF LinksOrdered, Attached
  <1> QED BY <1>1, <1>3, <1>4, <1>5, <1>6, StageStep DEF Attached

\* The departure is recorded: nobody holds the entry, or the node is noted as a latecomer.
LEMMA DisconnectedStep ==
  ASSUME SchedInv, NEW n \in Node, NEW k \in Conn, on_node_disconnected(n, k)
  PROVE  SchedInv'
  <1> USE DEF SchedInv
  <1>1. /\ handler[n][k] = "unregistered" /\ Stays(n, k, "gone") /\ "gone" \in Stage
        /\ row' = [row EXCEPT ![n].connected = FALSE]
        /\ UNCHANGED <<elsewhere, slot, hello, todo, down, up, session, conns, noteVars,
                       breaks, faults>>
    BY DEF on_node_disconnected, Stage
  <1>2. /\ handler'[n][k] = "gone"
        /\ \A m \in Node, j \in Conn : m # n \/ j # k => handler'[m][j] = handler[m][j]
    BY <1>1, StageFacts
  <1>3. /\ row' \in [Node -> [offers : BOOLEAN, connected : BOOLEAN]]
        /\ row'[n].offers = row[n].offers /\ row'[n].connected = FALSE
        /\ \A m \in Node : m # n => row'[m] = row[m]
    <2>1. row \in [Node -> [offers : BOOLEAN, connected : BOOLEAN]]
      BY DEF Typed, TypeOK
    <2>2. row' = [row EXCEPT ![n] = [row[n] EXCEPT !.connected = FALSE]]
      BY <1>1
    <2> DEFINE r == [row[n] EXCEPT !.connected = FALSE]
    <2>3. /\ r \in [offers : BOOLEAN, connected : BOOLEAN]
          /\ r.offers = row[n].offers /\ r.connected = FALSE
      BY <2>1
    <2> HIDE DEF r
    <2>4. row' = [row EXCEPT ![n] = r]
      BY <2>2 DEF r
    <2> QED BY <2>1, <2>3, <2>4
  <1>4. slot[n] # k /\ (slot[n] = NoConn \/ n \in latecomer)
    BY <1>1, RegistryTypes, NamesArePositive DEF Attached, RowsTell
  <1>5. UNCHANGED <<slot, hello, outdated, latecomer, restarts, overtaken, straddled>>
    BY <1>1 DEF elsewhere, noteVars
  <1>6. RowsTell'
    <2>1. \A m \in Node : slot[m] # NoConn => handler'[m][slot[m]] = handler[m][slot[m]]
      BY <1>2, <1>4, RegistryTypes
    <2>2. \A m \in Node, j \in Conn : handler'[m][j] = "unregistered" => handler[m][j] = "unregistered"
      BY <1>2
    <2>3. StatusFollowsRegistry'
      <3>1. SUFFICES ASSUME NEW m \in Node
            PROVE  \/ row'[m].connected = (slot[m] # NoConn)
                   \/ \E j \in Conn : handler'[m][j] \in {"registered", "unregistered"}
                   \/ restarts > 0 \/ m \in outdated \cup latecomer
        BY <1>5 DEF StatusFollowsRegistry
      <3>2. CASE m = n
        BY <1>3, <1>4, <3>2
      <3>3. CASE m # n
        BY <1>2, <1>3, <3>3 DEF RowsTell, StatusFollowsRegistry
      <3> QED BY <3>2, <3>3
    <2>4. \A m \in Node : row'[m].offers = row[m].offers
      BY <1>3
    <2> QED BY <1>5, <2>1, <2>2, <2>3, <2>4 DEF RowsTell
  <1>7. outdated' \cup latecomer' \subseteq Node
    BY <1>5 DEF Typed, TypeOK
  <1> QED BY <1>1, <1>3, <1>4, <1>5, <1>6, <1>7, StageStep DEF Attached

\* The replay has nothing left to send.
LEMMA ReplayEndStep ==
  ASSUME SchedInv, NEW n \in Node, NEW k \in Conn, ReplayOne(n, k), todo[n][k] = {}
  PROVE  SchedInv'
  <1> USE DEF SchedInv
  <1>1. /\ handler[n][k] = "replaying" /\ Stays(n, k, "live") /\ "live" \in Stage
        /\ UNCHANGED <<elsewhere, row, slot, hello, todo, down, up, session, conns, straddled,
                       overtaken, outdated, latecomer, breaks, faults>>
    BY DEF ReplayOne, Stage
  <1>2. /\ handler'[n][k] = "live"
        /\ \A m \in Node, j \in Conn : m # n \/ j # k => handler'[m][j] = handler[m][j]
    BY <1>1, StageFacts
  <1>3. RowsTell'
    <2>1. \A m \in Node, j \in Conn :
             (handler'[m][j] = "registered" <=> handler[m][j] = "registered")
             /\ (handler'[m][j] = "unregistered" <=> handler[m][j] = "unregistered")
      BY <1>1, <1>2
    <2>2. UNCHANGED <<row, slot, hello, outdated, latecomer, restarts>>
      BY <1>1 DEF elsewhere
    <2>3. StatusFollowsRegistry'
      BY <2>1, <2>2 DEF RowsTell, StatusFollowsRegistry
    <2> QED BY <2>1, <2>2, <2>3, RegistryTypes DEF RowsTell
  <1>4. /\ row' \in [Node -> [offers : BOOLEAN, connected : BOOLEAN]]
        /\ outdated' \cup latecomer' \subseteq Node
    BY <1>1 DEF Typed, TypeOK
  <1>5. k = session[n] => slot[n] = k
    BY <1>1 DEF LinksOrdered, Attached
  <1> QED BY <1>1, <1>3, <1>4, <1>5, StageStep DEF Attached

\* The replay is read after the registration: of the commands stored for the node it leaves
\* out only what a node has acknowledged, and it has them in the order of the log.
LEMMA ReadPendingStep ==
  ASSUME SchedInv, NEW n \in Node, NEW k \in Conn, ReadPending(n, k)
  PROVE  SchedInv'
  <1> USE DEF SchedInv
  <1> DEFINE T == {i \in DOMAIN dispatched : bound[dispatched[i][1]] = n /\ dispatched[i] \notin acked}
  <1>1. /\ handler[n][k] = "recorded" /\ Stays(n, k, "replaying") /\ "replaying" \in Stage
        /\ todo' = [todo EXCEPT ![n][k] = T]
        /\ UNCHANGED <<elsewhere, row, slot, hello, down, up, session, conns, noteVars, breaks, faults>>
    BY DEF ReadPending, Stage
  <1>2. /\ handler' \in [Node -> [Conn -> Stage]] /\ handler'[n][k] = "replaying"
        /\ \A m \in Node, j \in Conn : m # n \/ j # k => handler'[m][j] = handler[m][j]
    BY <1>1, StageFacts
  <1>3. UNCHANGED <<gate, pc, preferred, reserved, tasks, bound, dispatched, acked, unrouted, offers,
                    seen, runs, prompted, refused, forgotten, restarts, overtaken, straddled,
                    outdated, latecomer>>
    BY <1>1 DEF elsewhere, requestVars, storeVars, nodeVars, noteVars
  <1>4. /\ todo' \in [Node -> [Conn -> SUBSET DOMAIN dispatched]]
        /\ todo'[n][k] = T
        /\ \A m \in Node, j \in Conn : m # n \/ j # k => todo'[m][j] = todo[m][j]
    <2>1. todo \in [Node -> [Conn -> SUBSET DOMAIN dispatched]] /\ T \in SUBSET DOMAIN dispatched
      BY DEF Typed, TypeOK
    <2> HIDE DEF T
    <2> QED BY <1>1, <2>1
  <1>5. Typed'
    BY <1>1, <1>2, <1>3, <1>4 DEF Typed, TypeOK
  <1>6. GateHeld' /\ WorkerStored' /\ LogOrdered' /\ StartsHandled' /\ RefusedExcused' /\ WorkerStartSent'
    BY <1>1, <1>3, PartsStay
  <1>7. LinksOrdered'
    <2>1. SUFFICES ASSUME NEW m \in Node
          PROVE  /\ session[m] \in {NoConn, conns[m]} /\ slot[m] <= conns[m]
                 /\ slot[m] # NoConn => handler'[m][slot[m]] \in Attached
                 /\ \A j \in Conn :
                       /\ j > conns[m] => handler'[m][j] = "none"
                       /\ handler'[m][j] = "hello" => j = conns[m]
                       /\ j = session[m] /\ handler'[m][j] \in Attached => slot[m] = j
                       /\ j # session[m] => down[m][j] = <<>>
                       /\ handler'[m][j] # "replaying" => todo'[m][j] = {}
      BY <1>1 DEF LinksOrdered
    <2>2. slot[m] # NoConn => handler'[m][slot[m]] \in Attached
      BY <1>2, RegistryTypes DEF Attached
    <2>3. ASSUME NEW j \in Conn
          PROVE  /\ j > conns[m] => handler'[m][j] = "none"
                 /\ handler'[m][j] = "hello" => j = conns[m]
                 /\ j = session[m] /\ handler'[m][j] \in Attached => slot[m] = j
                 /\ handler'[m][j] # "replaying" => todo'[m][j] = {}
      <3>1. CASE m = n /\ j = k
        <4>1. ~(k > conns[n]) /\ (k = session[n] => slot[n] = k)
          BY <1>1 DEF LinksOrdered, Attached
        <4> QED BY <1>2, <3>1, <4>1
      <3>2. CASE m # n \/ j # k
        BY <1>2, <1>4, <3>2 DEF LinksOrdered
      <3> QED BY <3>1, <3>2
    <2> QED BY <2>2, <2>3 DEF LinksOrdered
  <1>8. RowsTell'
    <2>1. \A m \in Node, j \in Conn :
             (handler'[m][j] = "registered" <=> handler[m][j] = "registered")
             /\ (handler'[m][j] = "unregistered" <=> handler[m][j] = "unregistered")
      BY <1>1, <1>2
    <2>2. StatusFollowsRegistry'
      BY <1>1, <1>3, <2>1 DEF RowsTell, StatusFollowsRegistry
    <2> QED BY <1>1, <1>3, <2>1, <2>2, RegistryTypes DEF RowsTell
  <1>9. AtTarget'
    <2>1. \A d : InLog(d)' <=> InLog(d)
      BY <1>3 DEF InLog
    <2>2. \A m \in Node, j \in Conn : \A i \in todo'[m][j] : bound[dispatched[i][1]] = m
      BY <1>4 DEF AtTarget
    <2> HIDE DEF T
    <2> QED BY <1>1, <1>3, <2>1, <2>2 DEF AtTarget
  <1>10. StartsAhead'
    <2>1. DownOrdered'
      BY <1>1, <1>3 DEF StartsAhead, DownOrdered, Excused
    <2>2. ASSUME NEW m \in Node, NEW l \in Conn, slot[m] = l, session[m] = l,
                 NEW j \in todo'[m][l], dispatched[j][2] = "prompt"
          PROVE  \/ dispatched[j][1] \in Excused \cup runs[m]
                 \/ StartOf(dispatched[j]) \in Range(down[m][l])
                 \/ \E i \in todo'[m][l] : i < j /\ dispatched[i] = StartOf(dispatched[j])
      <3>1. CASE m = n /\ l = k
        <4>1. j \in DOMAIN dispatched /\ bound[dispatched[j][1]] = n
          BY <1>4, <2>2, <3>1
        <4>2. PICK i \in DOMAIN dispatched : i < j /\ dispatched[i] = StartOf(dispatched[j])
          BY <2>2, <4>1 DEF LogOrdered
        <4>3. dispatched[i][1] = dispatched[j][1] /\ dispatched[i][2] = "start"
          BY <4>2 DEF StartOf
        <4>4. CASE dispatched[i] \in acked
          <5>1. dispatched[j][1] \in runs[n] \cup forgotten
            BY <4>1, <4>3, <4>4 DEF StartsHandled
          <5> QED BY <3>1, <5>1 DEF Excused
        <4>5. CASE dispatched[i] \notin acked
          BY <1>4, <3>1, <4>1, <4>2, <4>3, <4>5
        <4> QED BY <4>4, <4>5
      <3>2. CASE m # n \/ l # k
        <4>1. todo'[m][l] = todo[m][l]
          BY <1>4, <3>2
        <4> HIDE DEF T
        <4> QED BY <2>2, <4>1 DEF StartsAhead, TodoOrdered
      <3> QED BY <3>1, <3>2
    <2> HIDE DEF T
    <2>3. TodoOrdered'
      BY <1>1, <1>3, <2>2 DEF TodoOrdered, Excused
    <2> QED BY <2>1, <2>3 DEF StartsAhead
  <1>11. WorkArrives'
    <2>1. SUFFICES ASSUME NEW m \in Node, slot[m] # NoConn, slot[m] = session[m],
                          NEW d \in Range(dispatched) \ unrouted, bound[d[1]] = m, ~InHand(d)
                   PROVE  \/ d \in seen[m] \cup acked \cup Range(down[m][slot[m]])
                          \/ handler'[m][slot[m]] \in {"registered", "recorded"}
                          \/ \E i \in todo'[m][slot[m]] : dispatched[i] = d
      <3>1. \A d : InHand(d)' <=> InHand(d)
        BY <1>3 DEF InHand
      <3> HIDE DEF T
      <3> QED BY <1>1, <1>3, <3>1 DEF WorkArrives
    <2>2. slot[m] \in Conn
      BY <2>1, RegistryTypes
    <2>3. CASE m = n /\ slot[m] = k
      <3>1. PICK i \in DOMAIN dispatched : dispatched[i] = d
        BY <2>1 DEF Range
      <3> QED BY <1>4, <2>1, <2>3, <3>1
    <2>4. CASE m # n \/ slot[m] # k
      <3>1. todo'[m][slot[m]] = todo[m][slot[m]] /\ handler'[m][slot[m]] = handler[m][slot[m]]
        BY <1>2, <1>4, <2>2, <2>4
      <3> HIDE DEF T
      <3> QED BY <2>1, <3>1 DEF WorkArrives
    <2> QED BY <2>3, <2>4
  <1> QED BY <1>5, <1>6, <1>7, <1>8, <1>9, <1>10, <1>11

\* The replay sends its next command through the registry: into the connection it is the
\* replay of, with the StartRun ahead, or into another, and then the request is noted.
LEMMA ReplaySendStep ==
  ASSUME SchedInv, NEW n \in Node, NEW k \in Conn, ReplayOne(n, k), todo[n][k] # {}
  PROVE  SchedInv'
  <1> USE DEF SchedInv
  <1>1. PICK i \in todo[n][k], c \in Command :
           /\ c = dispatched[i] /\ \A j \in todo[n][k] : i <= j
           /\ down' = route_to_node(n, c, down)
           /\ todo' = [todo EXCEPT ![n][k] = @ \ {i}]
           /\ straddled' = IF slot[n] = k THEN straddled ELSE straddled \cup {c[1]}
           /\ UNCHANGED <<handler, elsewhere, row, slot, hello, up, session, conns, overtaken,
                          outdated, latecomer, breaks, faults>>
    <2>1. todo[n][k] \in SUBSET Nat /\ todo[n][k] \subseteq DOMAIN dispatched
      BY CommandTypes
    <2>2. Min(todo[n][k]) \in todo[n][k] /\ \A j \in todo[n][k] : Min(todo[n][k]) <= j
      BY <2>1, MinFacts
    <2>3. dispatched[Min(todo[n][k])] \in Command
      BY <2>1, <2>2, CommandTypes
    <2> QED BY <2>2, <2>3 DEF ReplayOne
  <1>2. UNCHANGED <<gate, pc, preferred, reserved, tasks, bound, dispatched, acked, unrouted, offers,
                    seen, runs, prompted, refused, forgotten, restarts>>
    BY <1>1 DEF elsewhere, requestVars, storeVars, nodeVars
  <1>3. /\ i \in DOMAIN dispatched /\ i \in Nat /\ todo[n][k] \subseteq Nat /\ InLog(c) /\ bound[c[1]] = n
        /\ c[1] \in Request /\ handler[n][k] = "replaying"
    <2>1. todo[n][k] \subseteq Nat /\ todo[n][k] \subseteq DOMAIN dispatched
      BY CommandTypes
    <2> QED BY <1>1, <2>1, CommandParts DEF InLog, AtTarget, ReplayOne
  <1>4. /\ todo' \in [Node -> [Conn -> SUBSET DOMAIN dispatched]]
        /\ todo'[n][k] = todo[n][k] \ {i}
        /\ \A m \in Node, j \in Conn : m # n \/ j # k => todo'[m][j] = todo[m][j]
    BY <1>1 DEF Typed, TypeOK
  <1>5. /\ down' \in [Node -> [Conn -> Seq(Command)]]
        /\ \A m \in Node, j \in Conn : Range(down[m][j]) \subseteq Range(down'[m][j])
        /\ slot[n] # NoConn /\ slot[n] = session[n] => c \in Range(down'[n][slot[n]])
    BY <1>1, <1>3, RouteFacts
  <1>6. Excused \subseteq Excused' /\ straddled' \subseteq Request
    BY <1>1, <1>2, <1>3 DEF Excused, Typed, TypeOK
  <1>7. c[2] = "prompt" /\ slot[n] # NoConn /\ slot[n] = session[n] =>
            \/ c[1] \in Excused' \cup runs[n]
            \/ StartOf(c) \in Range(down[n][slot[n]])
    <2>1. CASE slot[n] # k
      BY <1>1, <2>1 DEF Excused
    <2>2. CASE slot[n] = k /\ session[n] = k /\ c[2] = "prompt"
      <3>1. \/ c[1] \in Excused \cup runs[n]
            \/ StartOf(c) \in Range(down[n][k])
            \/ \E j \in todo[n][k] : j < i
        BY <1>1, <2>2 DEF StartsAhead, TodoOrdered
      <3>2. ~ \E j \in todo[n][k] : j < i
        BY <1>1, <1>3
      <3> QED BY <1>6, <2>2, <3>1, <3>2
    <2> QED BY <2>1, <2>2
  <1>8. /\ \A m \in Node, j \in Conn : \A d \in Range(down'[m][j]) : InLog(d)' /\ bound'[d[1]] = m
        /\ \A m \in Node, j \in Conn : j # session[m] => down'[m][j] = <<>>
        /\ DownOrdered'
    BY <1>1, <1>2, <1>3, <1>6, <1>7, RouteKeepsOrder
  <1>9. TodoOrdered'
    <2>1. SUFFICES ASSUME NEW m \in Node, NEW l \in Conn, slot[m] = l, session[m] = l,
                          NEW j \in todo'[m][l], dispatched[j][2] = "prompt"
          PROVE  \/ dispatched[j][1] \in Excused' \cup runs[m]
                 \/ StartOf(dispatched[j]) \in Range(down'[m][l])
                 \/ \E h \in todo'[m][l] : h < j /\ dispatched[h] = StartOf(dispatched[j])
      BY <1>1, <1>2 DEF TodoOrdered
    <2>2. j \in todo[m][l]
      BY <1>4, <2>1
    <2>3. \/ dispatched[j][1] \in Excused \cup runs[m]
          \/ StartOf(dispatched[j]) \in Range(down[m][l])
          \/ \E h \in todo[m][l] : h < j /\ dispatched[h] = StartOf(dispatched[j])
      BY <2>1, <2>2 DEF StartsAhead, TodoOrdered
    <2>4. ASSUME NEW h \in todo[m][l], h < j, dispatched[h] = StartOf(dispatched[j])
          PROVE  \/ StartOf(dispatched[j]) \in Range(down'[m][l])
                 \/ \E g \in todo'[m][l] : g < j /\ dispatched[g] = StartOf(dispatched[j])
      <3>1. CASE h \in todo'[m][l]
        BY <2>4, <3>1
      <3>2. CASE h \notin todo'[m][l]
        <4>1. m = n /\ l = k /\ h = i
          BY <1>4, <2>4, <3>2
        <4>2. slot[n] # NoConn
          BY <2>1, <4>1, NamesArePositive
        <4> QED BY <1>1, <1>5, <2>1, <2>4, <4>1, <4>2
      <3> QED BY <3>1, <3>2
    <2> QED BY <1>5, <1>6, <2>3, <2>4
  <1>10. Typed'
    BY <1>1, <1>2, <1>4, <1>5, <1>6 DEF Typed, TypeOK
  <1>11. GateHeld' /\ WorkerStored' /\ LogOrdered' /\ StartsHandled' /\ RowsTell'
    BY <1>1, <1>2, PartsStay
  <1>12. LinksOrdered'
    <2>1. \A m \in Node, j \in Conn : handler[m][j] # "replaying" => todo'[m][j] = {}
      BY <1>3, <1>4 DEF LinksOrdered
    <2> QED BY <1>1, <1>8, <2>1 DEF LinksOrdered
  <1>13. AtTarget'
    <2>1. \A d : InLog(d)' <=> InLog(d)
      BY <1>2 DEF InLog
    <2>2. \A m \in Node, j \in Conn : \A h \in todo'[m][j] : bound[dispatched[h][1]] = m
      BY <1>4 DEF AtTarget
    <2> QED BY <1>1, <1>2, <1>8, <2>1, <2>2 DEF AtTarget
  <1>14. WorkerStartSent'
    <2>1. \A v \in Worker : gate = v => reserved[v] \in Node /\ slot[reserved[v]] \in Conn
      BY DEF GateHeld, Typed, TypeOK
    <2> QED BY <1>1, <1>2, <1>5, <2>1 DEF WorkerStartSent
  <1>15. WorkArrives'
    <2>1. SUFFICES ASSUME NEW m \in Node, slot[m] # NoConn, slot[m] = session[m],
                          NEW d \in Range(dispatched) \ unrouted, bound[d[1]] = m, ~InHand(d)
                   PROVE  \/ d \in seen[m] \cup acked \cup Range(down'[m][slot[m]])
                          \/ handler[m][slot[m]] \in {"registered", "recorded"}
                          \/ \E h \in todo'[m][slot[m]] : dispatched[h] = d
      <3>1. \A d : InHand(d)' <=> InHand(d)
        BY <1>2 DEF InHand
      <3> QED BY <1>1, <1>2, <3>1 DEF WorkArrives
    <2>2. slot[m] \in Conn
      BY <2>1, RegistryTypes
    <2>3. \/ d \in seen[m] \cup acked \cup Range(down[m][slot[m]])
          \/ handler[m][slot[m]] \in {"registered", "recorded"}
          \/ \E h \in todo[m][slot[m]] : dispatched[h] = d
      BY <2>1 DEF WorkArrives
    <2>4. ASSUME NEW h \in todo[m][slot[m]], dispatched[h] = d
          PROVE  h \in todo'[m][slot[m]] \/ d \in Range(down'[m][slot[m]])
      <3>1. CASE m = n /\ slot[m] = k /\ h = i
        BY <1>1, <1>5, <2>1, <2>4, <3>1
      <3>2. CASE ~(m = n /\ slot[m] = k /\ h = i)
        BY <1>4, <2>2, <3>2
      <3> QED BY <3>1, <3>2
    <2> QED BY <1>5, <2>2, <2>3, <2>4
  <1>16. RefusedExcused'
    BY <1>2, <1>6 DEF RefusedExcused
  <1> QED
    BY <1>8, <1>9, <1>10, <1>11, <1>12, <1>13, <1>14, <1>15, <1>16 DEF StartsAhead

\* The hub takes a node's acknowledgement.
LEMMA AckStep ==
  ASSUME SchedInv, NEW n \in Node, NEW k \in Conn, AckDispatch(n, k)
  PROVE  SchedInv'
  <1> USE DEF SchedInv
  <1>1. PICK c \in Command :
           /\ c = Head(up[n][k]) /\ up[n][k] # <<>>
           /\ acked' = acked \cup {c} /\ up' = [up EXCEPT ![n][k] = Tail(@)]
           /\ UNCHANGED <<requestVars, tasks, bound, dispatched, unrouted, row, slot, handler,
                          hello, todo, down, session, conns, nodeVars, noteVars, restarts,
                          breaks, faults>>
    <2>1. up[n][k] # <<>> /\ up[n][k] \in Seq(Command)
      BY CommandTypes DEF AckDispatch
    <2> QED BY <2>1, TailFacts DEF AckDispatch
  <1>2. UNCHANGED <<gate, pc, preferred, reserved, offers, seen, runs, prompted, refused, forgotten,
                    overtaken, straddled, outdated, latecomer>>
    BY <1>1 DEF requestVars, nodeVars, noteVars
  <1> DEFINE q == Tail(up[n][k])
  <1>3. q \in Seq(Command) /\ Range(up[n][k]) = Range(q) \cup {c}
    BY <1>1, CommandTypes, TailFacts
  <1> HIDE DEF q
  <1>4. /\ up' \in [Node -> [Conn -> Seq(Command)]]
        /\ \A m \in Node, j \in Conn : Range(up'[m][j]) \subseteq Range(up[m][j])
    <2>1. up \in [Node -> [Conn -> Seq(Command)]] /\ up' = [up EXCEPT ![n][k] = q]
      BY <1>1 DEF Typed, q
    <2> QED BY <1>3, <2>1
  <1>5. InLog(c) /\ bound[c[1]] = n /\ (c[2] = "start" => c[1] \in runs[n] \cup forgotten)
    <2>1. c \in Range(up[n][k])
      BY <1>3
    <2> QED BY <2>1 DEF AtTarget, StartsHandled
  <1>6. Typed'
    BY <1>1, <1>2, <1>4 DEF Typed, TypeOK
  <1>7. /\ GateHeld' /\ WorkerStored' /\ LogOrdered' /\ LinksOrdered' /\ RowsTell' /\ StartsAhead'
        /\ WorkerStartSent' /\ RefusedExcused'
    BY <1>1, <1>2, PartsStay
  <1>8. AtTarget'
    <2>1. \A d : InLog(d)' <=> InLog(d)
      BY <1>1 DEF InLog
    <2>2. \A m \in Node, j \in Conn :
             \A d \in Range(down[m][j]) \cup Range(up'[m][j]) : InLog(d) /\ bound[d[1]] = m
      BY <1>4 DEF AtTarget
    <2>3. \A d \in acked' : InLog(d)
      BY <1>1, <1>5 DEF AtTarget
    <2> QED BY <1>1, <1>2, <2>1, <2>2, <2>3 DEF AtTarget
  <1>9. StartsHandled'
    BY <1>1, <1>2, <1>4, <1>5 DEF StartsHandled
  <1>10. WorkArrives'
    <2>1. \A d : InHand(d)' <=> InHand(d)
      BY <1>2 DEF InHand
    <2> QED BY <1>1, <1>2, <2>1 DEF WorkArrives
  <1> QED BY <1>6, <1>7, <1>8, <1>9, <1>10

\* A lost connection leaves; its entry goes with it when it still has one.
LEMMA UnregisterStep ==
  ASSUME SchedInv, NEW n \in Node, NEW k \in Conn, unregister_node(n, k)
  PROVE  SchedInv'
  <1> USE DEF SchedInv
  <1>1. PICK s \in {"unregistered", "gone"} :
           /\ handler[n][k] = "live" /\ session[n] # k /\ gate = NoOne /\ Stays(n, k, s)
           /\ \/ s = "unregistered" /\ slot[n] = k /\ slot' = [slot EXCEPT ![n] = NoConn]
              \/ s = "gone" /\ slot[n] # k /\ slot' = slot
           /\ up' = [up EXCEPT ![n][k] = <<>>]
           /\ UNCHANGED <<elsewhere, row, hello, todo, down, session, conns, noteVars, breaks, faults>>
    BY DEF unregister_node
  <1>2. /\ handler' \in [Node -> [Conn -> Stage]] /\ handler'[n][k] = s
        /\ \A m \in Node, j \in Conn : m # n \/ j # k => handler'[m][j] = handler[m][j]
    BY <1>1, StageFacts DEF Stage
  <1>3. UNCHANGED <<gate, pc, preferred, reserved, tasks, bound, dispatched, acked, unrouted, offers,
                    seen, runs, prompted, refused, forgotten, restarts, overtaken, straddled,
                    outdated, latecomer>>
    BY <1>1 DEF elsewhere, requestVars, storeVars, nodeVars, noteVars
  <1>4. /\ slot' \in [Node -> Conn \cup {NoConn}]
        /\ \A m \in Node : m # n => slot'[m] = slot[m]
        /\ s = "unregistered" => slot'[n] = NoConn
        /\ s = "gone" => slot'[n] = slot[n] /\ slot[n] # k
    BY <1>1 DEF Typed, TypeOK
  <1>5. /\ up' \in [Node -> [Conn -> Seq(Command)]]
        /\ \A m \in Node, j \in Conn : Range(up'[m][j]) \subseteq Range(up[m][j])
    <2>1. up \in [Node -> [Conn -> Seq(Command)]]
      BY DEF Typed
    <2>2. /\ up' \in [Node -> [Conn -> Seq(Command)]] /\ up'[n][k] = <<>>
          /\ \A m \in Node, j \in Conn : m # n \/ j # k => up'[m][j] = up[m][j]
      BY <1>1, <2>1
    <2>3. Range(<<>>) = {}
      BY DEF Range
    <2> QED BY <2>2, <2>3
  <1>6. Typed'
    BY <1>1, <1>2, <1>3, <1>4, <1>5 DEF Typed, TypeOK
  <1>7. WorkerStored' /\ LogOrdered' /\ RefusedExcused'
    BY <1>3, PartsStay
  <1>8. GateHeld' /\ WorkerStartSent'
    <2>1. \A w \in Worker : gate # w /\ gate' # w
      BY <1>1, <1>3, NoOneIsNoWorker
    <2> QED BY <1>3, <2>1 DEF GateHeld, WorkerStartSent
  \* Whoever is registered afterwards was before, and is another connection.
  <1>9. \A m \in Node : slot'[m] # NoConn =>
           slot'[m] = slot[m] /\ slot[m] \in Conn /\ handler'[m][slot[m]] = handler[m][slot[m]]
    BY <1>1, <1>2, <1>4, RegistryTypes
  <1>10. LinksOrdered'
    <2>1. SUFFICES ASSUME NEW m \in Node
          PROVE  /\ session[m] \in {NoConn, conns[m]} /\ slot'[m] <= conns[m]
                 /\ slot'[m] # NoConn => handler'[m][slot'[m]] \in Attached
                 /\ \A j \in Conn :
                       /\ j > conns[m] => handler'[m][j] = "none"
                       /\ handler'[m][j] = "hello" => j = conns[m]
                       /\ j = session[m] /\ handler'[m][j] \in Attached => slot'[m] = j
                       /\ j # session[m] => down[m][j] = <<>>
                       /\ handler'[m][j] # "replaying" => todo[m][j] = {}
      BY <1>1 DEF LinksOrdered
    <2>2. slot'[m] <= conns[m]
      <3>1. conns[m] \in Nat /\ slot[m] <= conns[m]
        BY RegistryTypes
      <3> QED BY <1>9, <3>1 DEF NoConn
    <2>3. slot'[m] # NoConn => handler'[m][slot'[m]] \in Attached
      BY <1>9, RegistryTypes
    <2>4. ASSUME NEW j \in Conn
          PROVE  /\ j > conns[m] => handler'[m][j] = "none"
                 /\ handler'[m][j] = "hello" => j = conns[m]
                 /\ j = session[m] /\ handler'[m][j] \in Attached => slot'[m] = j
                 /\ handler'[m][j] # "replaying" => todo[m][j] = {}
      <3>1. CASE m = n /\ j = k
        <4>1. ~(k > conns[n]) /\ todo[n][k] = {}
          BY <1>1 DEF LinksOrdered
        <4> QED BY <1>1, <1>2, <3>1, <4>1
      <3>2. CASE m # n
        BY <1>2, <1>4, <3>2 DEF LinksOrdered
      <3>3. CASE m = n /\ j # k
        <4>1. handler'[n][j] = handler[n][j]
          BY <1>2, <3>3
        <4>2. j = session[n] /\ handler[n][j] \in Attached => slot[n] = j
          BY DEF LinksOrdered
        <4>3. slot[n] = j => slot'[n] = j
          BY <1>1, <1>4, <3>3
        <4> QED BY <3>3, <4>1, <4>2, <4>3 DEF LinksOrdered
      <3> QED BY <3>1, <3>2, <3>3
    <2> QED BY <2>2, <2>3, <2>4 DEF LinksOrdered
  <1>11. RowsTell'
    <2>1. StatusFollowsRegistry'
      <3>1. SUFFICES ASSUME NEW m \in Node
            PROVE  \/ row[m].connected = (slot'[m] # NoConn)
                   \/ \E j \in Conn : handler'[m][j] \in {"registered", "unregistered"}
                   \/ restarts > 0 \/ m \in outdated \cup latecomer
        BY <1>1, <1>3 DEF StatusFollowsRegistry
      <3>2. CASE m = n /\ s = "unregistered"
        BY <1>2, <3>2
      <3>3. CASE slot'[m] = slot[m]
        <4>1. \A j \in Conn : handler[m][j] \in {"registered", "unregistered"} =>
                 handler'[m][j] = handler[m][j]
          BY <1>1, <1>2
        <4> QED BY <3>3, <4>1 DEF RowsTell, StatusFollowsRegistry
      <3> QED BY <1>1, <1>4, <3>2, <3>3
    <2>2. ASSUME NEW m \in Node, slot'[m] # NoConn
          PROVE  \/ row[m].offers = hello[m][slot'[m]]
                 \/ m \in outdated \/ handler'[m][slot'[m]] = "registered"
      BY <1>9, <2>2 DEF RowsTell
    <2>3. ASSUME NEW m \in Node, NEW j \in Conn, handler'[m][j] = "unregistered"
          PROVE  slot'[m] = NoConn \/ m \in latecomer
      <3>1. CASE m = n /\ s = "unregistered"
        BY <1>4, <3>1
      <3>2. CASE ~(m = n /\ s = "unregistered")
        BY <1>1, <1>2, <1>4, <2>3, <3>2 DEF RowsTell
      <3> QED BY <3>1, <3>2
    <2> QED BY <1>1, <1>3, <2>1, <2>2, <2>3 DEF RowsTell
  <1>12. AtTarget'
    <2>1. \A d : InLog(d)' <=> InLog(d)
      BY <1>3 DEF InLog
    <2>2. \A m \in Node, j \in Conn :
             \A d \in Range(down[m][j]) \cup Range(up'[m][j]) : InLog(d) /\ bound[d[1]] = m
      BY <1>5 DEF AtTarget
    <2> QED BY <1>1, <1>3, <2>1, <2>2 DEF AtTarget
  <1>13. StartsHandled'
    BY <1>3, <1>5 DEF StartsHandled
  <1>14. StartsAhead'
    <2>1. DownOrdered'
      BY <1>1, <1>3 DEF StartsAhead, DownOrdered, Excused
    <2>2. \A m \in Node, j \in Conn : slot'[m] = j => slot[m] = j
      BY <1>9, NamesArePositive
    <2>3. TodoOrdered'
      BY <1>1, <1>3, <2>2 DEF StartsAhead, TodoOrdered, Excused
    <2> QED BY <2>1, <2>3 DEF StartsAhead
  <1>15. WorkArrives'
    <2>1. \A c : InHand(c)' <=> InHand(c)
      BY <1>3 DEF InHand
    <2> QED BY <1>1, <1>3, <1>9, <2>1 DEF WorkArrives
  <1> QED
    BY <1>6, <1>7, <1>8, <1>10, <1>11, <1>12, <1>13, <1>14, <1>15

-----------------------------------------------------------------------------
(* The node, and what is lost.                                             *)

\* The node takes the next command: a StartRun leaves its run, and the prompt behind it
\* finds it.
LEMMA DispatchStep ==
  ASSUME SchedInv, NEW n \in Node, dispatch(n)
  PROVE  SchedInv'
  <1> USE DEF SchedInv
  <1>1. PICK k \in Conn, c \in Command :
           /\ k = session[n] /\ c = Head(down[n][k]) /\ down[n][k] # <<>>
           /\ seen' = [seen EXCEPT ![n] = @ \cup {c}]
           /\ IF c \in seen[n] THEN UNCHANGED <<runs, prompted, refused>>
              ELSE IF c[2] = "start"
              THEN runs' = [runs EXCEPT ![n] = @ \cup {c[1]}] /\ UNCHANGED <<prompted, refused>>
              ELSE IF c[1] \in runs[n]
              THEN prompted' = prompted \cup {c[1]} /\ UNCHANGED <<runs, refused>>
              ELSE refused' = refused \cup {c[1]} /\ UNCHANGED <<runs, prompted>>
           /\ up' = [up EXCEPT ![n][k] = Append(@, c)]
           /\ down' = [down EXCEPT ![n][k] = Tail(@)]
           /\ UNCHANGED <<requestVars, storeVars, unrouted, row, slot, handler, hello, todo,
                          session, conns, offers, forgotten, noteVars, restarts, breaks, faults>>
    <2>1. session[n] \in Conn /\ down[n][session[n]] # <<>>
      BY RegistryTypes DEF dispatch
    <2>2. Head(down[n][session[n]]) \in Command
      BY <2>1, CommandTypes, TailFacts
    <2> QED BY <2>1, <2>2 DEF dispatch
  <1>2. UNCHANGED <<gate, pc, preferred, reserved, tasks, bound, dispatched, acked, overtaken, straddled,
                    outdated, latecomer>>
    BY <1>1 DEF requestVars, storeVars, noteVars
  <1> DEFINE q == down[n][k]
             t == Tail(q)
             a == Append(up[n][k], c)
  <1>3. q \in Seq(Command) /\ q # <<>> /\ c = Head(q) /\ up[n][k] \in Seq(Command)
    BY <1>1, CommandTypes
  <1>4. /\ t \in Seq(Command) /\ c = q[1] /\ 1 \in DOMAIN q
        /\ DOMAIN q \subseteq Nat /\ DOMAIN t \subseteq Nat
        /\ \A j \in DOMAIN t : j + 1 \in DOMAIN q /\ t[j] = q[j + 1]
        /\ \A i \in DOMAIN q : i # 1 => i - 1 \in DOMAIN t /\ t[i - 1] = q[i]
        /\ Range(q) = Range(t) \cup {c}
    BY <1>3, TailFacts
  <1>5. a \in Seq(Command) /\ Range(a) = Range(up[n][k]) \cup {c}
    BY <1>3, AppendFacts
  <1> HIDE DEF t, a
  <1>6. /\ down' \in [Node -> [Conn -> Seq(Command)]] /\ down'[n][k] = t
        /\ \A m \in Node, j \in Conn : m # n \/ j # k => down'[m][j] = down[m][j]
    <2>1. down \in [Node -> [Conn -> Seq(Command)]] /\ down' = [down EXCEPT ![n][k] = t]
      BY <1>1 DEF Typed, t
    <2> QED BY <1>4, <2>1
  <1>7. /\ up' \in [Node -> [Conn -> Seq(Command)]] /\ up'[n][k] = a
        /\ \A m \in Node, j \in Conn : m # n \/ j # k => up'[m][j] = up[m][j]
    <2>1. up \in [Node -> [Conn -> Seq(Command)]] /\ up' = [up EXCEPT ![n][k] = a]
      BY <1>1 DEF Typed, a
    <2> QED BY <1>5, <2>1
  <1>8. c \in Range(q) /\ InLog(c) /\ bound[c[1]] = n /\ c[1] \in Request
    <2>1. c \in Range(q)
      BY <1>4
    <2> QED BY <2>1, CommandParts DEF AtTarget
  <1>9. /\ seen' \in [Node -> SUBSET Command] /\ seen'[n] = seen[n] \cup {c}
        /\ \A m \in Node : m # n => seen'[m] = seen[m]
    BY <1>1 DEF Typed, TypeOK
  <1>10. /\ runs' \in [Node -> SUBSET Request] /\ \A m \in Node : runs[m] \subseteq runs'[m]
         /\ c[2] = "start" => c[1] \in runs'[n]
         /\ \A m \in Node : m # n => runs'[m] = runs[m]
    <2>1. runs \in [Node -> SUBSET Request]
      BY DEF Typed, TypeOK
    <2>2. c \in seen[n] /\ c[2] = "start" => c[1] \in runs[n]
      BY DEF StartsHandled
    <2> QED BY <1>1, <1>8, <2>1, <2>2
  <1>11. prompted' \subseteq Request /\ refused' \subseteq Request
    BY <1>1, <1>8 DEF Typed, TypeOK
  <1>11a. \A m \in Node, j \in Conn : /\ Range(down'[m][j]) \subseteq Range(down[m][j])
                                     /\ \A d \in Range(up'[m][j]) : d \in Range(up[m][j]) \/ (m = n /\ d = c)
    <2>1. SUFFICES ASSUME NEW m \in Node, NEW j \in Conn
                   PROVE  /\ Range(down'[m][j]) \subseteq Range(down[m][j])
                          /\ \A d \in Range(up'[m][j]) : d \in Range(up[m][j]) \/ (m = n /\ d = c)
      OBVIOUS
    <2>2. CASE m = n /\ j = k
      BY <1>4, <1>5, <1>6, <1>7, <2>2
    <2>3. CASE m # n \/ j # k
      BY <1>6, <1>7, <2>3
    <2> QED BY <2>2, <2>3
  <1>12. Excused' = Excused
    BY <1>1, <1>2 DEF Excused
  <1>13. Typed'
    BY <1>1, <1>2, <1>6, <1>7, <1>9, <1>10, <1>11 DEF Typed, TypeOK
  <1>14. GateHeld' /\ WorkerStored' /\ LogOrdered' /\ RowsTell'
    BY <1>1, <1>2, PartsStay
  <1>15. LinksOrdered'
    <2>1. \A m \in Node, j \in Conn : j # session[m] => down'[m][j] = <<>>
      BY <1>1, <1>6 DEF LinksOrdered
    <2> QED BY <1>1, <2>1 DEF LinksOrdered
  <1>16. AtTarget'
    <2>1. \A d : InLog(d)' <=> InLog(d)
      BY <1>2 DEF InLog
    <2>2. \A m \in Node, j \in Conn :
             \A d \in Range(down'[m][j]) \cup Range(up'[m][j]) : InLog(d) /\ bound[d[1]] = m
      BY <1>8, <1>11a DEF AtTarget
    <2>3. \A m \in Node : \A d \in seen'[m] : InLog(d) /\ bound[d[1]] = m
      BY <1>8, <1>9 DEF AtTarget
    <2> QED BY <1>1, <1>2, <2>1, <2>2, <2>3 DEF AtTarget
  <1>17. StartsHandled'
    <2>1. \A m \in Node : \A d \in seen'[m] : d[2] = "start" => d[1] \in runs'[m]
      BY <1>9, <1>10 DEF StartsHandled
    <2>2. \A m \in Node, j \in Conn : \A d \in Range(up'[m][j]) :
             d[2] = "start" => d[1] \in runs'[m] \cup forgotten
      BY <1>10, <1>11a DEF StartsHandled
    <2>3. \A d \in acked : d[2] = "start" => d[1] \in runs'[bound[d[1]]] \cup forgotten
      <3>1. \A d \in acked : bound[d[1]] \in Node
        <4>1. SUFFICES ASSUME NEW d \in acked PROVE bound[d[1]] \in Node
          OBVIOUS
        <4>2. d[1] \in Request /\ bound[d[1]] # NoNode
          BY LoggedIsBound DEF AtTarget
        <4> QED BY <4>2 DEF Typed, TypeOK
      <3> QED BY <1>10, <3>1 DEF StartsHandled
    <2> QED BY <1>1, <1>2, <2>1, <2>2, <2>3 DEF StartsHandled
  <1>18. DownOrdered'
    <2>1. SUFFICES ASSUME NEW m \in Node, NEW l \in Conn, NEW j \in DOMAIN down'[m][l],
                          down'[m][l][j][2] = "prompt"
                   PROVE  \/ down'[m][l][j][1] \in Excused \cup runs'[m]
                          \/ \E i \in DOMAIN down'[m][l] :
                                i < j /\ down'[m][l][i] = StartOf(down'[m][l][j])
      BY <1>12 DEF DownOrdered
    <2>2. CASE m # n \/ l # k
      <3>1. down'[m][l] = down[m][l] /\ runs[m] \subseteq runs'[m]
        BY <1>6, <1>10, <2>2
      <3> QED BY <2>1, <3>1 DEF StartsAhead, DownOrdered
    <2>3. CASE m = n /\ l = k
      <3>1. j \in DOMAIN t /\ j + 1 \in DOMAIN q /\ t[j] = q[j + 1] /\ j \in Nat /\ t[j][2] = "prompt"
        BY <1>4, <1>6, <2>1, <2>3
      <3>2. \/ q[j + 1][1] \in Excused \cup runs[n]
            \/ \E i \in DOMAIN q : i < j + 1 /\ q[i] = StartOf(q[j + 1])
        BY <3>1 DEF StartsAhead, DownOrdered
      <3>3. ASSUME NEW i \in DOMAIN q, i < j + 1, q[i] = StartOf(q[j + 1])
            PROVE  \/ t[j][1] \in runs'[n]
                   \/ \E h \in DOMAIN t : h < j /\ t[h] = StartOf(t[j])
        <4>1. CASE i = 1
          <5>1. c = StartOf(t[j])
            BY <1>4, <3>1, <3>3, <4>1
          <5>2. c[1] = t[j][1] /\ c[2] = "start"
            BY <5>1 DEF StartOf
          <5> QED BY <1>10, <5>2
        <4>2. CASE i # 1
          <5>1. i \in Nat /\ i - 1 \in DOMAIN t /\ t[i - 1] = q[i]
            BY <1>4, <4>2
          <5>2. i - 1 < j
            BY <3>1, <3>3, <5>1
          <5> QED BY <3>1, <3>3, <5>1, <5>2
        <4> QED BY <4>1, <4>2
      <3> QED BY <1>6, <1>10, <2>3, <3>1, <3>2, <3>3
    <2> QED BY <2>2, <2>3
  <1>19. TodoOrdered'
    <2>1. SUFFICES ASSUME NEW m \in Node, NEW l \in Conn, slot[m] = l, session[m] = l,
                          NEW j \in todo[m][l], dispatched[j][2] = "prompt"
          PROVE  \/ dispatched[j][1] \in Excused \cup runs'[m]
                 \/ StartOf(dispatched[j]) \in Range(down'[m][l])
                 \/ \E h \in todo[m][l] : h < j /\ dispatched[h] = StartOf(dispatched[j])
      BY <1>1, <1>2, <1>12 DEF TodoOrdered
    <2>2. \/ dispatched[j][1] \in Excused \cup runs[m]
          \/ StartOf(dispatched[j]) \in Range(down[m][l])
          \/ \E h \in todo[m][l] : h < j /\ dispatched[h] = StartOf(dispatched[j])
      BY <2>1 DEF StartsAhead, TodoOrdered
    <2>3. ASSUME StartOf(dispatched[j]) \in Range(down[m][l])
          PROVE  \/ dispatched[j][1] \in runs'[m]
                 \/ StartOf(dispatched[j]) \in Range(down'[m][l])
      <3>1. CASE m = n /\ l = k /\ StartOf(dispatched[j]) = c
        <4>1. c[1] = dispatched[j][1] /\ c[2] = "start"
          BY <3>1 DEF StartOf
        <4> QED BY <1>10, <3>1, <4>1
      <3>2. CASE m = n /\ l = k /\ StartOf(dispatched[j]) # c
        BY <1>4, <1>6, <2>3, <3>2
      <3>3. CASE m # n \/ l # k
        BY <1>6, <2>3, <3>3
      <3> QED BY <3>1, <3>2, <3>3
    <2> QED BY <1>10, <2>2, <2>3
  <1>20. WorkerStartSent'
    <2>1. SUFFICES ASSUME NEW w \in Worker, gate = w, pc[w] \in {"running", "asked"},
                          slot[reserved[w]] = session[reserved[w]]
                   PROVE  \/ w \in runs'[reserved[w]] \cup forgotten
                          \/ <<w, "start">> \in Range(down'[reserved[w]][slot[reserved[w]]])
      BY <1>1, <1>2 DEF WorkerStartSent
    <2>2. PICK m \in Node, l \in Conn : m = reserved[w] /\ l = slot[m]
      BY <2>1, RegistryTypes DEF GateHeld
    <2>3. w \in runs[m] \cup forgotten \/ <<w, "start">> \in Range(down[m][l])
      BY <2>1, <2>2 DEF WorkerStartSent
    <2>4. CASE m = n /\ l = k
      <3>1. c = <<w, "start">> => c[1] = w /\ c[2] = "start"
        OBVIOUS
      <3> QED BY <1>4, <1>6, <1>10, <2>2, <2>3, <2>4, <3>1
    <2>5. CASE m # n \/ l # k
      BY <1>6, <1>10, <2>2, <2>3, <2>5
    <2> QED BY <2>4, <2>5
  <1>21. WorkArrives'
    <2>1. SUFFICES ASSUME NEW m \in Node, slot[m] # NoConn, slot[m] = session[m],
                          NEW d \in Range(dispatched) \ unrouted, bound[d[1]] = m, ~InHand(d)
                   PROVE  \/ d \in seen'[m] \cup acked \cup Range(down'[m][slot[m]])
                          \/ handler[m][slot[m]] \in {"registered", "recorded"}
                          \/ \E h \in todo[m][slot[m]] : dispatched[h] = d
      <3>1. \A d : InHand(d)' <=> InHand(d)
        BY <1>2 DEF InHand
      <3> QED BY <1>1, <1>2, <3>1 DEF WorkArrives
    <2>2. slot[m] \in Conn
      BY <2>1, RegistryTypes
    <2>3. \/ d \in seen[m] \cup acked \cup Range(down[m][slot[m]])
          \/ handler[m][slot[m]] \in {"registered", "recorded"}
          \/ \E h \in todo[m][slot[m]] : dispatched[h] = d
      BY <2>1 DEF WorkArrives
    <2>4. d \in seen[m] => d \in seen'[m]
      BY <1>9
    <2>5. d \in Range(down[m][slot[m]]) => d \in seen'[m] \cup Range(down'[m][slot[m]])
      <3>1. CASE m = n /\ slot[m] = k
        BY <1>4, <1>6, <1>9, <3>1
      <3>2. CASE m # n \/ slot[m] # k
        BY <1>6, <2>2, <3>2
      <3> QED BY <3>1, <3>2
    <2> QED BY <2>3, <2>4, <2>5
  <1>22. RefusedExcused'
    <2>1. CASE refused' = refused
      BY <1>12, <2>1 DEF RefusedExcused
    <2>2. CASE refused' # refused
      <3>1. refused' = refused \cup {c[1]} /\ c[1] \notin runs[n] /\ c[2] = "prompt"
        BY <1>1, <2>2, CommandParts
      <3>2. \/ c[1] \in Excused \cup runs[n]
            \/ \E i \in DOMAIN q : i < 1
        BY <1>4, <3>1 DEF StartsAhead, DownOrdered
      <3>3. ~ \E i \in DOMAIN q : i < 1
        BY <1>3
      <3> QED BY <1>12, <3>1, <3>2, <3>3 DEF RefusedExcused
    <2> QED BY <2>1, <2>2
  <1> QED
    BY <1>13, <1>14, <1>15, <1>16, <1>17, <1>18, <1>19, <1>20, <1>21, <1>22 DEF StartsAhead

\* The link of a node is gone, by itself or with the node's process: nothing is on its way,
\* no connection is both registered and used, and what the process had run is remembered.
LEMMA LinkGone ==
  ASSUME SchedInv, NEW n \in Node,
         session' = [session EXCEPT ![n] = NoConn],
         down' = [down EXCEPT ![n] = [k \in Conn |-> <<>>]],
         \/ UNCHANGED nodeVars
         \/ /\ offers' \in {[offers EXCEPT ![n] = o] : o \in BOOLEAN}
            /\ seen' = [seen EXCEPT ![n] = {}] /\ runs' = [runs EXCEPT ![n] = {}]
            /\ forgotten' = forgotten \cup runs[n] /\ UNCHANGED <<prompted, refused>>,
         breaks' \in 0 .. MaxBreaks, faults' \in 0 .. MaxFaults, restarts \in 0 .. faults',
         UNCHANGED <<requestVars, storeVars, unrouted, restarts, row, slot, handler, hello, todo,
                     up, conns, noteVars>>
  PROVE  SchedInv'
  <1> USE DEF SchedInv
  <1>1. /\ session' \in [Node -> Conn \cup {NoConn}] /\ session'[n] = NoConn
        /\ \A m \in Node : m # n => session'[m] = session[m]
    BY DEF Typed, TypeOK
  <1>2. /\ down' \in [Node -> [Conn -> Seq(Command)]]
        /\ \A k \in Conn : down'[n][k] = <<>>
        /\ \A m \in Node : m # n => down'[m] = down[m]
    BY DEF Typed
  <1>3. /\ offers' \in [Node -> BOOLEAN] /\ seen' \in [Node -> SUBSET Command]
        /\ runs' \in [Node -> SUBSET Request] /\ forgotten' \subseteq Request
        /\ UNCHANGED <<prompted, refused>>
    <2>1. /\ offers \in [Node -> BOOLEAN] /\ seen \in [Node -> SUBSET Command]
          /\ runs \in [Node -> SUBSET Request] /\ forgotten \subseteq Request
      BY DEF Typed, TypeOK
    <2>2. CASE UNCHANGED nodeVars
      BY <2>1, <2>2 DEF nodeVars
    <2>3. CASE ~ UNCHANGED nodeVars
      <3>1. PICK o \in BOOLEAN : offers' = [offers EXCEPT ![n] = o]
        BY <2>3
      <3>2. offers' \in [Node -> BOOLEAN]
        BY <2>1, <3>1
      <3> QED BY <2>1, <2>3, <3>2
    <2> QED BY <2>2, <2>3
  <1>4. /\ \A m \in Node : m # n => seen'[m] = seen[m] /\ runs'[m] = runs[m]
        /\ \A m \in Node : runs[m] \cup forgotten \subseteq runs'[m] \cup forgotten'
        /\ \A m \in Node : seen'[m] \subseteq seen[m]
        /\ forgotten \subseteq forgotten'
        /\ (seen'[n] = seen[n] /\ runs'[n] = runs[n]) \/ seen'[n] = {}
    <2>1. seen \in [Node -> SUBSET Command] /\ runs \in [Node -> SUBSET Request]
      BY DEF Typed, TypeOK
    <2>2. CASE UNCHANGED nodeVars
      BY <2>2 DEF nodeVars
    <2>3. CASE /\ seen' = [seen EXCEPT ![n] = {}] /\ runs' = [runs EXCEPT ![n] = {}]
               /\ forgotten' = forgotten \cup runs[n]
      BY <2>1, <2>3
    <2> QED BY <2>2, <2>3
  <1>5. UNCHANGED <<gate, pc, preferred, reserved, tasks, bound, dispatched, acked, overtaken,
                    straddled, outdated, latecomer>>
    BY DEF requestVars, storeVars, noteVars
  <1>6. Typed'
    BY <1>1, <1>2, <1>3, <1>5 DEF Typed, TypeOK
  <1>7. GateHeld' /\ WorkerStored' /\ LogOrdered' /\ RowsTell'
    BY <1>5, PartsStay
  <1>8. LinksOrdered'
    <2>1. \A m \in Node : session'[m] \in {NoConn, conns[m]}
      BY <1>1 DEF LinksOrdered
    <2>2. \A m \in Node, j \in Conn :
             /\ j = session'[m] => j = session[m]
             /\ j # session'[m] => down'[m][j] = <<>>
      BY <1>1, <1>2, NamesArePositive DEF LinksOrdered
    <2> QED BY <2>1, <2>2 DEF LinksOrdered
  <1>9. AtTarget'
    <2>1. \A d : InLog(d)' <=> InLog(d)
      BY <1>5 DEF InLog
    <2>2. \A m \in Node, j \in Conn : Range(down'[m][j]) \subseteq Range(down[m][j])
      <3>1. Range(<<>>) = {}
        BY DEF Range
      <3> QED BY <1>2, <3>1
    <2>3. \A m \in Node, j \in Conn :
             \A d \in Range(down'[m][j]) \cup Range(up[m][j]) : InLog(d) /\ bound[d[1]] = m
      BY <2>2 DEF AtTarget
    <2>4. \A m \in Node : \A d \in seen'[m] : InLog(d) /\ bound[d[1]] = m
      BY <1>4 DEF AtTarget
    <2> QED BY <1>5, <2>1, <2>3, <2>4 DEF AtTarget
  <1>10. StartsHandled'
    <2>1. \A m \in Node : \A d \in seen'[m] : d[2] = "start" => d[1] \in runs'[m]
      <3>1. SUFFICES ASSUME NEW m \in Node, NEW d \in seen'[m], d[2] = "start" PROVE d[1] \in runs'[m]
        OBVIOUS
      <3>2. seen'[m] = seen[m] /\ runs'[m] = runs[m]
        BY <1>4, <3>1
      <3> QED BY <3>1, <3>2 DEF StartsHandled
    <2>2. \A m \in Node, j \in Conn : \A d \in Range(up[m][j]) :
             d[2] = "start" => d[1] \in runs'[m] \cup forgotten'
      <3>1. SUFFICES ASSUME NEW m \in Node, NEW j \in Conn, NEW d \in Range(up[m][j]), d[2] = "start"
                     PROVE  d[1] \in runs'[m] \cup forgotten'
        OBVIOUS
      <3>2. d[1] \in runs[m] \cup forgotten
        BY <3>1 DEF StartsHandled
      <3> QED BY <1>4, <3>2
    <2>3. \A d \in acked : d[2] = "start" => d[1] \in runs'[bound[d[1]]] \cup forgotten'
      <3>1. SUFFICES ASSUME NEW d \in acked, d[2] = "start"
                     PROVE  d[1] \in runs'[bound[d[1]]] \cup forgotten'
        OBVIOUS
      <3>2. d[1] \in Request /\ bound[d[1]] # NoNode
        BY LoggedIsBound DEF AtTarget
      <3>3. bound[d[1]] \in Node
        BY <3>2 DEF Typed, TypeOK
      <3>4. d[1] \in runs[bound[d[1]]] \cup forgotten
        BY <3>1 DEF StartsHandled
      <3> QED BY <1>4, <3>3, <3>4
    <2> QED BY <1>5, <2>1, <2>2, <2>3 DEF StartsHandled
  <1>11. Excused \subseteq Excused'
    BY <1>4, <1>5 DEF Excused
  <1>12. StartsAhead'
    <2>1. ASSUME NEW m \in Node, NEW l \in Conn, NEW j \in DOMAIN down'[m][l],
                 down'[m][l][j][2] = "prompt"
          PROVE  \/ down'[m][l][j][1] \in Excused' \cup runs'[m]
                 \/ \E i \in DOMAIN down'[m][l] :
                       i < j /\ down'[m][l][i] = StartOf(down'[m][l][j])
      <3>1. m # n
        BY <1>2, <2>1
      <3>2. down'[m][l] = down[m][l] /\ runs'[m] = runs[m]
        BY <1>2, <1>4, <3>1
      <3> QED BY <1>11, <2>1, <3>2 DEF StartsAhead, DownOrdered
    <2>2. DownOrdered'
      BY <2>1 DEF DownOrdered
    <2>3. ASSUME NEW m \in Node, NEW l \in Conn, slot[m] = l, session'[m] = l,
                 NEW j \in todo[m][l], dispatched[j][2] = "prompt"
          PROVE  \/ dispatched[j][1] \in Excused' \cup runs'[m]
                 \/ StartOf(dispatched[j]) \in Range(down'[m][l])
                 \/ \E i \in todo[m][l] : i < j /\ dispatched[i] = StartOf(dispatched[j])
      <3>1. m # n
        BY <1>1, <2>3, NamesArePositive
      <3>2. down'[m][l] = down[m][l] /\ runs'[m] = runs[m] /\ session[m] = l
        BY <1>1, <1>2, <1>4, <2>3, <3>1
      <3> QED BY <1>11, <2>3, <3>2 DEF StartsAhead, TodoOrdered
    <2>4. TodoOrdered'
      BY <1>5, <2>3 DEF TodoOrdered
    <2> QED BY <2>2, <2>4 DEF StartsAhead
  <1>13. WorkerStartSent'
    <2>1. SUFFICES ASSUME NEW w \in Worker, gate = w, pc[w] \in {"running", "asked"},
                          slot[reserved[w]] = session'[reserved[w]]
                   PROVE  \/ w \in runs'[reserved[w]] \cup forgotten'
                          \/ <<w, "start">> \in Range(down'[reserved[w]][slot[reserved[w]]])
      BY <1>5 DEF WorkerStartSent
    <2>2. reserved[w] \in Node /\ slot[reserved[w]] # NoConn
      BY <2>1 DEF GateHeld
    <2>3. reserved[w] # n
      BY <1>1, <2>1, <2>2
    <2>4. /\ session'[reserved[w]] = session[reserved[w]] /\ down'[reserved[w]] = down[reserved[w]]
          /\ runs'[reserved[w]] = runs[reserved[w]]
      BY <1>1, <1>2, <1>4, <2>2, <2>3
    <2> QED BY <1>4, <2>1, <2>4 DEF WorkerStartSent
  <1>14. WorkArrives'
    <2>1. SUFFICES ASSUME NEW m \in Node, slot[m] # NoConn, slot[m] = session'[m],
                          NEW d \in Range(dispatched) \ unrouted, bound[d[1]] = m, ~InHand(d)
                   PROVE  \/ d \in seen'[m] \cup acked \cup Range(down'[m][slot[m]])
                          \/ handler[m][slot[m]] \in {"registered", "recorded"}
                          \/ \E h \in todo[m][slot[m]] : dispatched[h] = d
      <3>1. \A d : InHand(d)' <=> InHand(d)
        BY <1>5 DEF InHand
      <3> QED BY <1>5, <3>1 DEF WorkArrives
    <2>2. m # n
      BY <1>1, <2>1
    <2>3. session'[m] = session[m] /\ down'[m] = down[m] /\ seen'[m] = seen[m]
      BY <1>1, <1>2, <1>4, <2>2
    <2> QED BY <2>1, <2>3 DEF WorkArrives
  <1>15. RefusedExcused'
    BY <1>3, <1>11 DEF RefusedExcused
  <1> QED
    BY <1>6, <1>7, <1>8, <1>9, <1>10, <1>12, <1>13, <1>14, <1>15

\* A link breaks, or a node's process ends and another starts.
LEMMA LossStep ==
  ASSUME SchedInv, NEW n \in Node, LinkBreaks(n) \/ NodeRestarts(n)
  PROVE  SchedInv'
  <1> USE DEF SchedInv
  <1>0. /\ MaxFaults \in Nat /\ MaxBreaks \in Nat /\ faults \in Nat /\ breaks \in Nat /\ restarts \in Nat
        /\ faults \in 0 .. MaxFaults /\ breaks \in 0 .. MaxBreaks /\ restarts \in 0 .. faults
    BY CounterTypes
  <1>1. CASE LinkBreaks(n)
    <2>1. /\ session' = [session EXCEPT ![n] = NoConn]
          /\ down' = [down EXCEPT ![n] = [k \in Conn |-> <<>>]] /\ UNCHANGED nodeVars
          /\ UNCHANGED <<requestVars, storeVars, unrouted, restarts, row, slot, handler, hello, todo,
                         up, conns, noteVars, faults>>
          /\ breaks < MaxBreaks /\ breaks' = breaks + 1
      BY <1>1 DEF LinkBreaks, elsewhere
    <2>2. breaks' \in 0 .. MaxBreaks /\ faults' \in 0 .. MaxFaults /\ restarts \in 0 .. faults'
      BY <1>0, <2>1
    <2> QED BY <2>1, <2>2, LinkGone
  <1>2. CASE NodeRestarts(n)
    <2>1. /\ session' = [session EXCEPT ![n] = NoConn]
          /\ down' = [down EXCEPT ![n] = [k \in Conn |-> <<>>]]
          /\ offers' \in {[offers EXCEPT ![n] = o] : o \in BOOLEAN}
          /\ seen' = [seen EXCEPT ![n] = {}] /\ runs' = [runs EXCEPT ![n] = {}]
          /\ forgotten' = forgotten \cup runs[n] /\ UNCHANGED <<prompted, refused>>
          /\ UNCHANGED <<requestVars, storeVars, unrouted, restarts, row, slot, handler, hello, todo,
                         up, conns, noteVars, breaks>>
          /\ faults < MaxFaults /\ faults' = faults + 1
      BY <1>2 DEF NodeRestarts, Fault
    <2>2. breaks' \in 0 .. MaxBreaks /\ faults' \in 0 .. MaxFaults /\ restarts \in 0 .. faults'
      BY <1>0, <2>1
    <2> QED BY <2>1, <2>2, LinkGone
  <1> QED BY <1>1, <1>2

\* The hub crashes: the registry is empty, and whoever was inside create_worker_task is cut.
LEMMA CrashStep ==
  ASSUME SchedInv, HubCrash
  PROVE  SchedInv'
  <1> USE DEF SchedInv
  <1>1. /\ faults < MaxFaults /\ faults' = faults + 1 /\ restarts' = restarts + 1
        /\ gate' = NoOne /\ unrouted' = {}
        /\ pc' = [w \in Worker |-> IF gate = w THEN "cut" ELSE pc[w]]
        /\ slot' = [n \in Node |-> NoConn] /\ session' = [n \in Node |-> NoConn]
        /\ handler' = [n \in Node |-> [k \in Conn |->
                         IF handler[n][k] = "none" THEN "none" ELSE "gone"]]
        /\ todo' = [n \in Node |-> [k \in Conn |-> {}]]
        /\ down' = [n \in Node |-> [k \in Conn |-> <<>>]] /\ up' = [n \in Node |-> [k \in Conn |-> <<>>]]
        /\ UNCHANGED <<preferred, reserved, tasks, bound, dispatched, acked, row, hello, conns, offers,
                       seen, runs, prompted, refused, forgotten, overtaken, straddled, outdated,
                       latecomer, breaks>>
    BY DEF HubCrash, Fault, storeVars, nodeVars, noteVars
  <1>2. /\ faults' \in 0 .. MaxFaults /\ restarts' \in 0 .. faults' /\ restarts' > 0
    <2>1. /\ MaxFaults \in Nat /\ faults \in Nat /\ restarts \in Nat
          /\ faults \in 0 .. MaxFaults /\ restarts \in 0 .. faults
      BY CounterTypes
    <2> QED BY <1>1, <2>1
  <1>3. /\ \A n \in Node : slot'[n] = NoConn /\ session'[n] = NoConn
        /\ \A n \in Node, k \in Conn :
              /\ handler'[n][k] = (IF handler[n][k] = "none" THEN "none" ELSE "gone")
              /\ todo'[n][k] = {} /\ down'[n][k] = <<>> /\ up'[n][k] = <<>>
        /\ \A w \in Worker : pc'[w] = (IF gate = w THEN "cut" ELSE pc[w]) /\ gate' # w
    BY <1>1, NoOneIsNoWorker
  <1>4. Range(<<>>) = {}
    BY DEF Range
  <1>5. Typed'
    <2>1. pc' \in [Worker -> Step] /\ handler' \in [Node -> [Conn -> Stage]]
      BY <1>1 DEF Typed, TypeOK, Step, Stage
    <2>2. /\ slot' \in [Node -> Conn \cup {NoConn}] /\ session' \in [Node -> Conn \cup {NoConn}]
          /\ todo' \in [Node -> [Conn -> SUBSET DOMAIN dispatched]]
      BY <1>1
    <2>3. down' \in [Node -> [Conn -> Seq(Command)]] /\ up' \in [Node -> [Conn -> Seq(Command)]]
      <3>1. <<>> \in Seq(Command)
        OBVIOUS
      <3> QED BY <1>1, <3>1
    <2> QED BY <1>1, <1>2, <2>1, <2>2, <2>3 DEF Typed, TypeOK
  <1>6. GateHeld' /\ WorkerStartSent'
    BY <1>1, <1>3 DEF GateHeld, WorkerStartSent, Inside
  <1>7. \A d : InLog(d)' <=> InLog(d)
    BY <1>1 DEF InLog
  <1>8. WorkerStored'
    <2>1. SUFFICES ASSUME NEW w \in Worker
          PROVE  /\ pc'[w] \in {"new", "rejected", "chosen"} => w \notin tasks
                 /\ pc'[w] \in {"new", "rejected", "chosen", "created"} => bound[w] = NoNode
                 /\ pc'[w] \in {"started", "running", "asked", "done"} =>
                       bound[w] = reserved[w] /\ bound[w] # NoNode
                 /\ pc'[w] \in {"asked", "done"} => InLog(<<w, "prompt">>)
                 /\ InLog(<<w, "prompt">>) => pc'[w] \in {"asked", "done", "cut"}
      BY <1>1, <1>7 DEF WorkerStored
    <2>2. CASE gate = w
      BY <1>3, <2>2
    <2>3. CASE gate # w
      BY <1>3, <2>3 DEF WorkerStored
    <2> QED BY <2>2, <2>3
  <1>9. LogOrdered'
    BY <1>1, <1>7 DEF LogOrdered
  <1>10. LinksOrdered'
    <2>1. SUFFICES ASSUME NEW m \in Node
          PROVE  /\ session'[m] \in {NoConn, conns[m]} /\ slot'[m] <= conns[m]
                 /\ slot'[m] # NoConn => handler'[m][slot'[m]] \in Attached
                 /\ \A j \in Conn :
                       /\ j > conns[m] => handler'[m][j] = "none"
                       /\ handler'[m][j] = "hello" => j = conns[m]
                       /\ j = session'[m] /\ handler'[m][j] \in Attached => slot'[m] = j
                       /\ j # session'[m] => down'[m][j] = <<>>
                       /\ handler'[m][j] # "replaying" => todo'[m][j] = {}
      BY <1>1 DEF LinksOrdered
    <2>2. slot'[m] <= conns[m]
      BY <1>3, RegistryTypes DEF NoConn
    <2>3. \A j \in Conn : j > conns[m] => handler'[m][j] = "none"
      BY <1>3 DEF LinksOrdered
    <2>4. \A j \in Conn : handler'[m][j] \notin Attached /\ handler'[m][j] # "hello"
      BY <1>3 DEF Attached
    <2> QED BY <1>3, <2>2, <2>3, <2>4
  <1>11. RowsTell'
    <2>1. \A n \in Node, k \in Conn : handler'[n][k] # "unregistered"
      BY <1>3
    <2> QED BY <1>2, <1>3, <2>1 DEF RowsTell, StatusFollowsRegistry
  <1>12. AtTarget'
    <2>1. \A m \in Node, j \in Conn : todo'[m][j] = {} /\ Range(down'[m][j]) \cup Range(up'[m][j]) = {}
      BY <1>3, <1>4
    <2> QED BY <1>1, <1>7, <2>1 DEF AtTarget
  <1>13. StartsHandled'
    <2>1. \A m \in Node, j \in Conn : Range(up'[m][j]) = {}
      BY <1>3, <1>4
    <2> QED BY <1>1, <2>1 DEF StartsHandled
  <1>14. StartsAhead'
    <2>1. \A m \in Node, j \in Conn : DOMAIN down'[m][j] = {} /\ todo'[m][j] = {}
      BY <1>3
    <2> QED BY <2>1 DEF StartsAhead, DownOrdered, TodoOrdered
  <1>15. WorkArrives'
    BY <1>3 DEF WorkArrives
  <1>16. RefusedExcused'
    BY <1>1, PartsStay
  <1> QED
    BY <1>5, <1>6, <1>8, <1>9, <1>10, <1>11, <1>12, <1>13, <1>14, <1>15, <1>16

-----------------------------------------------------------------------------
(* The theorems.                                                           *)

\* Every node is connected, recorded and idle when the hub starts.
LEMMA SchedInit ==
  Init => SchedInv
  <1> SUFFICES ASSUME Init PROVE SchedInv
    OBVIOUS
  <1> USE DEF Init
  <1>0. 1 \in Conn /\ 1 \in 0 .. MaxConn /\ 1 # NoConn /\ <<>> \in Seq(Command) /\ Range(<<>>) = {}
        /\ DOMAIN dispatched = {}
    <2>1. MaxConn \in Nat /\ MaxConn > 0
      <3>1. MaxConn \in Nat /\ MaxBreaks \in Nat /\ MaxFaults \in Nat /\ MaxConn > MaxBreaks + MaxFaults
        BY SchedulingAssumption
      <3> QED BY <3>1
    <2>2. Range(<<>>) = {}
      BY DEF Range
    <2> QED BY <2>1, <2>2 DEF Conn, NoConn
  <1>1. Typed
    <2>1. /\ pc \in [Worker -> Step] /\ handler \in [Node -> [Conn -> Stage]]
          /\ hello \in [Node -> [Conn -> BOOLEAN]]
      BY DEF Step, Stage
    <2>2. 0 \in 0 .. faults /\ faults \in 0 .. MaxFaults /\ breaks \in 0 .. MaxBreaks
      <3>1. MaxBreaks \in Nat /\ MaxFaults \in Nat
        BY SchedulingAssumption
      <3> QED BY <3>1
    <2>3. down \in [Node -> [Conn -> Seq(Command)]] /\ up \in [Node -> [Conn -> Seq(Command)]]
      BY <1>0
    <2>4. /\ session \in [Node -> Conn \cup {NoConn}] /\ conns \in [Node -> 0 .. MaxConn]
          /\ slot \in [Node -> Conn \cup {NoConn}]
      BY <1>0
    <2> QED BY <1>0, <2>1, <2>2, <2>3, <2>4 DEF Typed, TypeOK
  <1>2. \A d : ~InLog(d)
    BY <1>0 DEF InLog
  <1>3. GateHeld /\ WorkerStartSent
    BY NoOneIsNoWorker DEF GateHeld, WorkerStartSent, Inside
  <1>4. WorkerStored /\ LogOrdered
    <2>1. \A w \in Worker : bound[w] = NoNode /\ pc[w] = "new"
      BY NoOneIsNoWorker
    <2>2. WorkerStored
      BY <1>2, <2>1 DEF WorkerStored
    <2>3. LogOrdered
      BY <1>0, <1>2 DEF LogOrdered
    <2> QED BY <2>2, <2>3
  <1>5. \A n \in Node : /\ slot[n] = 1 /\ session[n] = 1 /\ conns[n] = 1
                        /\ \A k \in Conn : /\ handler[n][k] = (IF k = 1 THEN "live" ELSE "none")
                                           /\ todo[n][k] = {} /\ down[n][k] = <<>> /\ up[n][k] = <<>>
                                           /\ hello[n][k] = (k = 1)
    OBVIOUS
  <1>6. LinksOrdered
    <2>1. \A k \in Conn : k \in Nat
      BY NamesArePositive
    <2> QED BY <1>0, <1>5, <2>1 DEF LinksOrdered, Attached
  <1>7. RowsTell
    BY <1>0, <1>5 DEF RowsTell, StatusFollowsRegistry
  <1>8. AtTarget /\ StartsHandled
    BY <1>0, <1>5 DEF AtTarget, StartsHandled
  <1>9. StartsAhead
    <2>1. \A m \in Node, j \in Conn : DOMAIN down[m][j] = {} /\ todo[m][j] = {}
      BY <1>5
    <2> QED BY <2>1 DEF StartsAhead, DownOrdered, TodoOrdered
  <1>10. WorkArrives /\ RefusedExcused
    <2>1. Range(dispatched) = {}
      BY <1>0 DEF Range
    <2> QED BY <2>1 DEF WorkArrives, RefusedExcused
  <1> QED BY <1>1, <1>3, <1>4, <1>6, <1>7, <1>8, <1>9, <1>10 DEF SchedInv

\* Every step keeps the invariant.
LEMMA SchedStep ==
  SchedInv /\ [Next]_vars => SchedInv'
  <1> SUFFICES ASSUME SchedInv, [Next]_vars PROVE SchedInv'
    OBVIOUS
  <1>1. CASE UNCHANGED vars
    BY <1>1, StutterStep
  <1>2. CASE \E w \in Worker : EnterGate(w) \/ CreateStep(w) \/ StoreFails(w)
    BY <1>2, EnterGateStep, GateWalkStep, WorkerBundleStep, WorkerRouteStep DEF CreateStep
  <1>3. CASE \E d \in Direct : ClientStartRun(d) \/ ClientPrompt(d)
    BY <1>3, ClientBundleStep
  <1>4. CASE \E c \in unrouted : ClientRoute(c)
    BY <1>4, ClientRouteStep
  <1>5. CASE \E n \in Node : Dial(n) \/ dispatch(n) \/ LinkBreaks(n) \/ NodeRestarts(n)
    BY <1>5, DialStep, DispatchStep, LossStep
  <1>6. ASSUME NEW n \in Node, NEW k \in Conn, HandlerStep(n, k) PROVE SchedInv'
    <2>1. CASE HandshakeFails(n, k) \/ register_node(n, k) \/ on_node_connected(n, k)
      BY <2>1, HandshakeFailsStep, RegisterStep, ConnectedStep
    <2>2. CASE ReadPending(n, k) \/ AckDispatch(n, k)
      BY <2>2, ReadPendingStep, AckStep
    <2>3. CASE ReplayOne(n, k)
      BY <2>3, ReplayEndStep, ReplaySendStep
    <2>4. CASE unregister_node(n, k) \/ on_node_disconnected(n, k)
      BY <2>4, UnregisterStep, DisconnectedStep
    <2> QED BY <1>6, <2>1, <2>2, <2>3, <2>4 DEF HandlerStep
  <1>7. CASE HubCrash
    BY <1>7, CrashStep
  <1> QED BY <1>1, <1>2, <1>3, <1>4, <1>5, <1>6, <1>7 DEF Next

\* What scheduling, routing, replay, registration and the node's dispatch keep true
\* together, with every break, restart, crash and failed transaction between them.
THEOREM SchedInvariant == Spec => []SchedInv
  <1>1. Init => SchedInv
    BY SchedInit
  <1>2. SchedInv /\ [Next]_vars => SchedInv'
    BY SchedStep
  <1> QED BY <1>1, <1>2, PTL DEF Spec

\* A node refuses a prompt as not initialized only after one of the races that
\* create_worker_task, replay_pending and the clients' routing are known to leave.
THEOREM PromptsStayInOrder == Spec => []PromptsInOrder
  <1>1. SchedInv => PromptsInOrder
    <2>1. SUFFICES ASSUME SchedInv PROVE PromptsInOrder
      OBVIOUS
    <2>2. refused \subseteq forgotten \cup straddled \cup overtaken /\ overtaken \subseteq Direct
      BY <2>1 DEF SchedInv, RefusedExcused, Excused, LogOrdered
    <2>3. WorkerPromptInOrder
      BY <2>2, NoOneIsNoWorker DEF WorkerPromptInOrder
    <2>4. PromptRefusedOnlyOutOfOrder
      BY <2>2 DEF PromptRefusedOnlyOutOfOrder
    <2> QED BY <2>3, <2>4 DEF PromptsInOrder
  <1> QED BY <1>1, SchedInvariant, PTL

\* Accepted work has its task, its run and its prompt in the store, goes to the node it is
\* bound to, is not left waiting where a live connection should have it, and the stored
\* status of a node is that of its connection.
THEOREM WorkHasItsPlace == Spec => []WorkIsPlaced
  <1>1. SchedInv => WorkIsPlaced
    <2>1. SUFFICES ASSUME SchedInv PROVE WorkIsPlaced
      OBVIOUS
    <2> USE <2>1 DEF SchedInv
    <2>2. \A c : Has(c) <=> InLog(c)
      <3>1. dispatched \in Seq(Command)
        BY DEF Typed, TypeOK
      <3>2. DOMAIN dispatched = 1 .. Len(dispatched)
        BY <3>1
      <3> QED BY <3>2 DEF Has, Contains, InLog
    <2>3. NoOrphanTask
      <3>1. SUFFICES ASSUME NEW w \in Worker
            PROVE  /\ pc[w] = "rejected" => w \notin tasks
                   /\ w \in tasks /\ gate # w /\ pc[w] \notin {"failed", "cut"} =>
                         bound[w] # NoNode /\ InLog(<<w, "start">>) /\ InLog(<<w, "prompt">>)
        BY <2>2 DEF NoOrphanTask
      <3>2. pc[w] = "rejected" => w \notin tasks
        BY DEF WorkerStored
      <3>3. ASSUME w \in tasks, gate # w, pc[w] \notin {"failed", "cut"}
            PROVE  bound[w] # NoNode /\ InLog(<<w, "start">>) /\ InLog(<<w, "prompt">>)
        <4>1. pc[w] \in Step /\ pc[w] \notin Inside /\ pc[w] \notin {"new", "rejected"}
          BY <3>3 DEF Typed, TypeOK, GateHeld, WorkerStored
        <4>2. pc[w] = "done"
          BY <3>3, <4>1 DEF Step, Inside
        <4> QED BY <4>2, NoOneIsNoWorker DEF WorkerStored, LogOrdered
      <3> QED BY <3>2, <3>3
    <2>4. WorkAtItsTarget
      <3>1. SUFFICES ASSUME NEW n \in Node, NEW c \in seen[n]
                     PROVE  bound[c[1]] = n /\ preferred[c[1]] \in {NoNode, n}
        BY DEF WorkAtItsTarget
      <3>2. InLog(c) /\ bound[c[1]] = n
        BY DEF AtTarget
      <3>3. c[1] \in Request /\ bound[c[1]] # NoNode
        BY <3>2, LoggedIsBound
      <3> QED BY <3>2, <3>3 DEF LogOrdered
    <2>5. NothingStranded
      <3>1. SUFFICES ASSUME NEW n \in Node, session[n] # NoConn, handler[n][session[n]] = "live",
                            down[n][session[n]] = <<>>, gate = NoOne,
                            NEW c \in Range(dispatched) \ unrouted, bound[c[1]] = n,
                            \A k \in Conn : todo[n][k] = {}
                     PROVE  c \in seen[n] \cup acked
        BY DEF NothingStranded
      <3>2. session[n] \in Conn
        BY <3>1, RegistryTypes
      <3>3. slot[n] = session[n]
        BY <3>1, <3>2 DEF LinksOrdered, Attached
      <3>4. ~InHand(c)
        BY <3>1, NoOneIsNoWorker DEF InHand
      <3>5. Range(down[n][slot[n]]) = {} /\ todo[n][slot[n]] = {}
        BY <3>1, <3>2, <3>3 DEF Range
      <3> QED BY <3>1, <3>3, <3>4, <3>5 DEF WorkArrives
    <2>6. TypeOK /\ StatusFollowsRegistry
      BY DEF Typed, RowsTell
    <2> QED BY <2>3, <2>4, <2>5, <2>6 DEF WorkIsPlaced
  <1> QED BY <1>1, SchedInvariant, PTL

\* A client's run is given to a registered node, and to one whose connection offered the
\* engine unless the stored row is another connection's.
THEOREM RunsGoWhereOffered == Spec => ScheduledWhereOffered
  <1> DEFINE Offered ==
        \A r \in Direct : bound[r] = NoNode /\ bound'[r] # NoNode =>
          LET n == bound'[r] IN
          /\ slot[n] # NoConn
          /\ \/ hello[n][slot[n]] \/ n \in outdated
             \/ handler[n][slot[n]] = "registered"
  <1>1. SchedInv /\ [Next]_vars => [Offered]_vars
    <2>1. SUFFICES ASSUME SchedInv, Next, NEW r \in Direct, bound[r] = NoNode, bound'[r] # NoNode
          PROVE  /\ slot[bound'[r]] # NoConn
                 /\ \/ hello[bound'[r]][slot[bound'[r]]] \/ bound'[r] \in outdated
                    \/ handler[bound'[r]][slot[bound'[r]]] = "registered"
      OBVIOUS
    <2> USE <2>1 DEF SchedInv
    <2>2. r \in Request /\ r \notin Worker /\ bound \in [Request -> Node \cup {NoNode}]
      BY NoOneIsNoWorker DEF Typed, TypeOK
    <2>3. \E n \in Node, want \in Node \cup {NoNode} :
             n = eligible_execution_node(want) /\ n # NoNode /\ bound'[r] = n
      <3>1. CASE \E w \in Worker : EnterGate(w) \/ CreateStep(w) \/ StoreFails(w)
        <4>1. PICK w \in Worker : EnterGate(w) \/ CreateStep(w) \/ StoreFails(w)
          BY <3>1
        <4>2. w # r
          BY <2>2
        <4>3. bound'[r] = bound[r]
          BY <2>2, <4>1, <4>2 DEF EnterGate, CreateStep, StoreFails, CreateWorkerTask, StartWorkerRun,
             RouteStart, PromptWorker, RoutePrompt, Bundle, storeVars
        <4> QED BY <4>3
      <3>2. CASE \E d \in Direct : ClientStartRun(d) \/ ClientPrompt(d)
        <4>1. PICK d \in Direct : ClientStartRun(d) \/ ClientPrompt(d)
          BY <3>2
        <4>2. CASE ClientPrompt(d)
          BY <4>2 DEF ClientPrompt, Bundle
        <4>3. CASE ClientStartRun(d)
          <5>1. PICK want \in Node \cup {NoNode} :
                   /\ eligible_execution_node(want) # NoNode
                   /\ Bundle(<<d, "start">>, eligible_execution_node(want))
            BY <4>3 DEF ClientStartRun
          <5>2. eligible_execution_node(want) \in Node
            BY <5>1, ChosenIsEligible
          <5>3. bound' = [bound EXCEPT ![d] = eligible_execution_node(want)]
            BY <5>1 DEF Bundle
          <5>4. bound'[r] = eligible_execution_node(want)
            BY <2>2, <5>2, <5>3
          <5> QED BY <5>1, <5>2, <5>4
        <4> QED BY <4>1, <4>2, <4>3
      <3>3. CASE \E c \in unrouted : ClientRoute(c)
        BY <3>3 DEF ClientRoute, storeVars
      <3>4. CASE \E n \in Node : Dial(n) \/ dispatch(n) \/ LinkBreaks(n) \/ NodeRestarts(n)
        BY <3>4 DEF Dial, dispatch, LinkBreaks, NodeRestarts, elsewhere, storeVars
      <3>5. CASE \E n \in Node, k \in Conn : HandlerStep(n, k)
        BY <3>5 DEF HandlerStep, HandshakeFails, register_node, on_node_connected, ReadPending,
           ReplayOne, AckDispatch, unregister_node, on_node_disconnected, elsewhere, storeVars
      <3>6. CASE HubCrash
        BY <3>6 DEF HubCrash, storeVars
      <3> QED BY <3>1, <3>2, <3>3, <3>4, <3>5, <3>6 DEF Next
    <2>4. PICK n \in Node, want \in Node \cup {NoNode} :
             n = eligible_execution_node(want) /\ n # NoNode /\ bound'[r] = n
      BY <2>3
    <2>5. slot[n] # NoConn /\ row[n].offers
      BY <2>4, ChosenIsEligible
    <2>6. \/ hello[n][slot[n]] \/ n \in outdated
          \/ handler[n][slot[n]] = "registered"
      BY <2>5 DEF RowsTell
    <2> QED BY <2>4, <2>5, <2>6
  <1>2. [][Offered]_vars <=> ScheduledWhereOffered
    BY DEF ScheduledWhereOffered
  <1> HIDE DEF Offered
  <1> QED BY <1>1, <1>2, SchedInvariant, PTL DEF Spec
=============================================================================
