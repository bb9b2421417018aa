--------------------------- MODULE HubScheduling ---------------------------
(***************************************************************************)
(* Which node a run is given to, and in which order its work arrives there *)
(* (crates/stackhour-hub/src/lib.rs): create_worker_task and the execution *)
(* gate, the clients' own StartRun and SendUserMessage, the node registry, *)
(* the replay of a new connection, and the node's dispatch                 *)
(* (crates/stackhour-node/src/engine.rs) with the runs it remembers.       *)
(*                                                                         *)
(* create_worker_task makes three transactions and two sends while it      *)
(* holds the gate; registering and removing a connection, and a client's   *)
(* StartRun, wait for the gate, while recording a connection, replaying to *)
(* it and routing a client's work do not.  A request stands for a task,    *)
(* its run and the run's first prompt: a worker request makes all three, a *)
(* direct one is a client's StartRun and SendUserMessage on a task that    *)
(* exists.  One engine is enough: a node offers it or does not.            *)
(***************************************************************************)
EXTENDS Integers, Sequences, FiniteSets, FiniteSetsExt, SequencesExt

CONSTANTS
    Worker,     \* calls of create_worker_task
    Direct,     \* runs started and prompted by clients over their links
    Nodes,      \* number of nodes; node ids are compared, so they are numbers
    Steady,     \* nodes whose link and process never fail
    MaxRequests,\* requests made in one behaviour
    MaxConn,    \* connections of one node; more than the faults
    MaxBreaks,  \* broken links
    MaxFaults   \* node restarts, hub crashes, failed transactions

ASSUME SchedulingAssumption ==
    /\ Nodes \in Nat \ {0} /\ MaxFaults \in Nat
    /\ MaxBreaks \in Nat
    /\ MaxConn \in Nat /\ MaxConn > MaxBreaks + MaxFaults
    /\ Worker \cap Direct = {} /\ "no one" \notin Worker /\ MaxRequests \in Nat
    /\ Steady \subseteq 1..Nodes

Node == 1..Nodes
Conn == 1..MaxConn
Request == Worker \cup Direct
NoNode == 0
NoConn == 0
NoOne == "no one"
Command == Request \X {"start", "prompt"}

VARIABLES
    gate,       \* HubState.execution_gate: the call of create_worker_task inside
    pc,         \* where each call of create_worker_task is
    preferred,  \* the node a request names, NoNode for any
    reserved,   \* the node create_worker_task has chosen
    tasks,      \* worker requests whose task row exists
    bound,      \* runs: the node of each run, NoNode before run.started
    dispatched, \* pending_dispatches in rowid order: commands
    acked,      \* rows with acknowledged_at
    unrouted,   \* client commands stored, their receipt on its way, not yet routed
    row,        \* nodes: what is stored about each node
    slot,       \* HubState.nodes: the connection that owns the node's entry
    handler,    \* handle_node of each connection
    hello,      \* whether the connection's hello offered the engine
    todo,       \* the rows of dispatched replay_pending has read and not yet routed
    down, up,   \* commands and acknowledgements in flight, per connection
    session,    \* the connection the node uses, NoConn when it has none
    conns,      \* connections the node has opened
    offers,     \* whether the node's configuration offers the engine
    seen, runs, \* CliState.seen and CliState.runs
    prompted,   \* requests whose prompt a node has run
    refused,    \* requests whose prompt a node failed as not initialized
    forgotten,  \* requests whose StartRun was handled by a node process that ended
    overtaken,  \* direct requests whose prompt was sent before their StartRun
    straddled,  \* requests whose prompt an older connection's replay sent to a newer
    outdated,   \* nodes whose row an older connection has overwritten
    latecomer,  \* nodes that came back before their departure was recorded
    restarts,   \* hub crashes
    breaks, faults

requestVars == <<gate, pc, preferred, reserved>>
storeVars == <<tasks, bound, dispatched, acked>>
linkVars == <<slot, handler, hello, todo, down, up, session, conns>>
nodeVars == <<offers, seen, runs, prompted, refused, forgotten>>
noteVars == <<overtaken, straddled, outdated, latecomer>>
vars == <<requestVars, storeVars, unrouted, row, linkVars, nodeVars, noteVars,
          restarts, breaks, faults>>

\* Where a call of create_worker_task can be; the last three are its ends.
Step == {"new", "chosen", "created", "started", "running", "asked",
         "done", "rejected", "failed", "cut"}
Stage == {"none", "hello", "registered", "recorded", "replaying", "live",
          "unregistered", "gone"}

TypeOK ==
    /\ gate \in Worker \cup {NoOne}
    /\ pc \in [Worker -> Step]
    /\ preferred \in [Request -> Node \cup {NoNode}]
    /\ reserved \in [Worker -> Node \cup {NoNode}]
    /\ tasks \subseteq Worker /\ bound \in [Request -> Node \cup {NoNode}]
    /\ dispatched \in Seq(Command) /\ acked \subseteq Command
    /\ \A i, j \in DOMAIN dispatched : dispatched[i] = dispatched[j] => i = j
    /\ unrouted \subseteq Command
    /\ row \in [Node -> [offers : BOOLEAN, connected : BOOLEAN]]
    /\ slot \in [Node -> Conn \cup {NoConn}]
    /\ handler \in [Node -> [Conn -> Stage]]
    /\ hello \in [Node -> [Conn -> BOOLEAN]]
    /\ todo \in [Node -> [Conn -> SUBSET DOMAIN dispatched]]
    /\ session \in [Node -> Conn \cup {NoConn}] /\ conns \in [Node -> 0..MaxConn]
    /\ offers \in [Node -> BOOLEAN]
    /\ seen \in [Node -> SUBSET Command] /\ runs \in [Node -> SUBSET Request]
    /\ prompted \cup refused \cup forgotten \cup overtaken \cup straddled \subseteq Request
    /\ outdated \cup latecomer \subseteq Node
    /\ restarts \in 0..faults /\ faults \in 0..MaxFaults /\ breaks \in 0..MaxBreaks

Init ==
    /\ gate = NoOne
    /\ pc = [w \in Worker |-> "new"]
    /\ preferred = [r \in Request |-> NoNode]
    /\ reserved = [w \in Worker |-> NoNode]
    /\ tasks = {} /\ bound = [r \in Request |-> NoNode]
    /\ dispatched = <<>> /\ acked = {} /\ unrouted = {}
    /\ row = [n \in Node |-> [offers |-> TRUE, connected |-> TRUE]]
    /\ slot = [n \in Node |-> 1]
    /\ handler = [n \in Node |-> [k \in Conn |-> IF k = 1 THEN "live" ELSE "none"]]
    /\ hello = [n \in Node |-> [k \in Conn |-> k = 1]]
    /\ todo = [n \in Node |-> [k \in Conn |-> {}]]
    /\ down = [n \in Node |-> [k \in Conn |-> <<>>]]
    /\ up = [n \in Node |-> [k \in Conn |-> <<>>]]
    /\ session = [n \in Node |-> 1] /\ conns = [n \in Node |-> 1]
    /\ offers = [n \in Node |-> TRUE]
    /\ seen = [n \in Node |-> {}] /\ runs = [n \in Node |-> {}]
    /\ prompted = {} /\ refused = {} /\ forgotten = {}
    /\ overtaken = {} /\ straddled = {} /\ outdated = {} /\ latecomer = {}
    /\ restarts = 0 /\ breaks = 0 /\ faults = 0

-----------------------------------------------------------------------------
(* The scheduler.                                                          *)

node_accepts_engine(n) == row[n].offers

\* A preferred node is a constraint, not a hint; among the rest the first id.
Eligible(want) ==
    {n \in Node : /\ want \in {NoNode, n}
                  /\ slot[n] # NoConn
                  /\ node_accepts_engine(n)}
eligible_execution_node(want) ==
    IF Eligible(want) = {} THEN NoNode ELSE Min(Eligible(want))

\* Into the registered connection's queue, or nowhere; what is sent into a link
\* the node has lost does not arrive either.
route_to_node(n, c, queues) ==
    IF slot[n] = NoConn \/ slot[n] # session[n] THEN queues
    ELSE [queues EXCEPT ![n][slot[n]] = Append(@, c)]

\* One bundle: the event, the row and the queued dispatch.
Bundle(c, n) ==
    /\ dispatched' = Append(dispatched, c)
    /\ bound' = IF c[2] = "start" THEN [bound EXCEPT ![c[1]] = n] ELSE bound
    /\ UNCHANGED <<tasks, acked>>

-----------------------------------------------------------------------------
(* create_worker_task, one action per transaction and per send.            *)

Started == Cardinality({w \in Worker : pc[w] # "new"}
                       \cup {d \in Direct : bound[d] # NoNode})
At(w, step) == gate = w /\ pc[w] = step
Goto(w, step) == pc' = [pc EXCEPT ![w] = step]
Leave(w, how) == gate' = NoOne /\ Goto(w, how)
untouched == <<preferred, row, linkVars, nodeVars, noteVars, unrouted, restarts>>

EnterGate(w) ==
    /\ gate = NoOne /\ pc[w] = "new" /\ Started < MaxRequests
    /\ \E want \in Node \cup {NoNode} :
       LET n == eligible_execution_node(want) IN
       /\ preferred' = [preferred EXCEPT ![w] = want]
       /\ reserved' = [reserved EXCEPT ![w] = n]
       /\ IF n = NoNode THEN Goto(w, "rejected") /\ UNCHANGED gate
                        ELSE Goto(w, "chosen") /\ gate' = w
    /\ UNCHANGED <<storeVars, row, linkVars, nodeVars, noteVars, unrouted, restarts,
                   breaks, faults>>

\* CreateTask, then register_assistant_worker: a row of its own table.
CreateWorkerTask(w) ==
    /\ At(w, "chosen") /\ Goto(w, "created")
    /\ tasks' = tasks \cup {w}
    /\ UNCHANGED <<gate, reserved, bound, dispatched, acked, untouched, breaks, faults>>

\* The reserved node is used as it is: eligibility is not asked again.
StartWorkerRun(w) ==
    /\ At(w, "created") /\ Goto(w, "started")
    /\ Bundle(<<w, "start">>, reserved[w])
    /\ UNCHANGED <<gate, reserved, untouched, breaks, faults>>

RouteStart(w) ==
    /\ At(w, "started") /\ Goto(w, "running")
    /\ down' = route_to_node(reserved[w], <<w, "start">>, down)
    /\ UNCHANGED <<gate, reserved, preferred, storeVars, row, slot, handler, hello,
                   todo, up, session, conns, nodeVars, noteVars, unrouted, restarts,
                   breaks, faults>>

PromptWorker(w) ==
    /\ At(w, "running") /\ Goto(w, "asked")
    /\ Bundle(<<w, "prompt">>, bound[w])
    /\ UNCHANGED <<gate, reserved, untouched, breaks, faults>>

RoutePrompt(w) ==
    /\ At(w, "asked") /\ Leave(w, "done")
    /\ down' = route_to_node(bound[w], <<w, "prompt">>, down)
    /\ UNCHANGED <<reserved, preferred, storeVars, row, slot, handler, hello, todo,
                   up, session, conns, nodeVars, noteVars, unrouted, restarts, breaks, faults>>

\* A transaction fails: create_worker_task returns the error where it is.
StoreFails(w) ==
    /\ faults < MaxFaults /\ faults' = faults + 1
    /\ gate = w /\ pc[w] \in {"chosen", "created", "running"}
    /\ Leave(w, "failed")
    /\ UNCHANGED <<reserved, storeVars, untouched, breaks>>

-----------------------------------------------------------------------------
(* A client's own commands: stored, answered, and only then routed.        *)

ClientStartRun(d) ==
    /\ gate = NoOne /\ bound[d] = NoNode /\ Started < MaxRequests
    /\ \E want \in Node \cup {NoNode} :
       LET n == eligible_execution_node(want) IN
       /\ n # NoNode /\ Bundle(<<d, "start">>, n)
       /\ preferred' = [preferred EXCEPT ![d] = want]
    /\ unrouted' = unrouted \cup {<<d, "start">>}
    /\ UNCHANGED <<gate, pc, reserved, row, linkVars, nodeVars, noteVars, restarts, breaks, faults>>

\* Any client that has seen run.started may prompt the run.
ClientPrompt(d) ==
    /\ bound[d] # NoNode /\ ~ Contains(dispatched, <<d, "prompt">>)
    /\ Bundle(<<d, "prompt">>, bound[d])
    /\ unrouted' = unrouted \cup {<<d, "prompt">>}
    /\ UNCHANGED <<requestVars, row, linkVars, nodeVars, noteVars, restarts, breaks, faults>>

\* A prompt overtakes its StartRun when that is still waiting for its own
\* receipt, or for the replay of the connection that is registered.
Overtakes(c) ==
    /\ c[2] = "prompt"
    /\ LET n == bound[c[1]] IN
       \/ <<c[1], "start">> \in unrouted
       \/ slot[n] # NoConn /\ handler[n][slot[n]] # "live"

ClientRoute(c) ==
    /\ c \in unrouted /\ unrouted' = unrouted \ {c}
    /\ down' = route_to_node(bound[c[1]], c, down)
    /\ overtaken' = IF Overtakes(c) THEN overtaken \cup {c[1]} ELSE overtaken
    /\ UNCHANGED <<requestVars, storeVars, row, slot, handler, hello, todo, up,
                   session, conns, nodeVars, straddled, outdated, latecomer, restarts, breaks, faults>>

-----------------------------------------------------------------------------
(* handle_node, one action per lock it takes.                              *)

Stays(n, k, stage) == handler' = [handler EXCEPT ![n][k] = stage]
elsewhere == <<requestVars, storeVars, unrouted, nodeVars, restarts>>

\* NodeLink looks at hellos handled late; here the hub has handled a hello
\* before the node has given up on it and dials again.
Dial(n) ==
    /\ session[n] = NoConn /\ conns[n] < MaxConn
    /\ \A k \in Conn : handler[n][k] # "hello"
    /\ LET k == conns[n] + 1 IN
       /\ conns' = [conns EXCEPT ![n] = k]
       /\ session' = [session EXCEPT ![n] = k]
       /\ hello' = [hello EXCEPT ![n][k] = offers[n]]
       /\ Stays(n, k, "hello")
    /\ UNCHANGED <<elsewhere, row, slot, todo, down, up, noteVars, breaks, faults>>

\* Registration does not wait for the gate.
register_nodeUngated(n, k) ==
    /\ handler[n][k] = "hello"
    /\ slot' = [slot EXCEPT ![n] = k]
    /\ Stays(n, k, "registered")
    /\ latecomer' = IF \E j \in Conn : handler[n][j] = "unregistered"
                    THEN latecomer \cup {n} ELSE latecomer
    /\ UNCHANGED <<elsewhere, row, hello, todo, down, up, session, conns, overtaken,
                   straddled, outdated, breaks, faults>>

register_node(n, k) ==
    /\ handler[n][k] = "hello" /\ gate = NoOne
    /\ slot' = [slot EXCEPT ![n] = k]
    /\ Stays(n, k, "registered")
    /\ latecomer' = IF \E j \in Conn : handler[n][j] = "unregistered"
                    THEN latecomer \cup {n} ELSE latecomer
    /\ UNCHANGED <<elsewhere, row, hello, todo, down, up, session, conns, overtaken,
                   straddled, outdated, breaks, faults>>

\* The welcome cannot be written.
HandshakeFails(n, k) ==
    /\ handler[n][k] = "hello" /\ session[n] # k
    /\ Stays(n, k, "gone")
    /\ UNCHANGED <<elsewhere, row, slot, hello, todo, down, up, session, conns, noteVars,
                   breaks, faults>>

\* The stored row keeps the capabilities of the first hello.
on_node_connectedKeepsOffer(n, k) ==
    /\ handler[n][k] = "registered"
    /\ row' = [row EXCEPT ![n].connected = TRUE]
    /\ outdated' = IF slot[n] = k THEN outdated \ {n} ELSE outdated \cup {n}
    /\ Stays(n, k, "recorded")
    /\ UNCHANGED <<elsewhere, slot, hello, todo, down, up, session, conns, overtaken,
                   straddled, latecomer, breaks, faults>>

on_node_connected(n, k) ==
    /\ handler[n][k] = "registered"
    /\ row' = [row EXCEPT ![n] = [offers |-> hello[n][k], connected |-> TRUE]]
    /\ outdated' = IF slot[n] = k THEN outdated \ {n} ELSE outdated \cup {n}
    /\ Stays(n, k, "recorded")
    /\ UNCHANGED <<elsewhere, slot, hello, todo, down, up, session, conns, overtaken,
                   straddled, latecomer, breaks, faults>>

ReadPending(n, k) ==
    /\ handler[n][k] = "recorded"
    /\ todo' = [todo EXCEPT ![n][k] =
                   {i \in DOMAIN dispatched : bound[dispatched[i][1]] = n /\ dispatched[i] \notin acked}]
    /\ Stays(n, k, "replaying")
    /\ UNCHANGED <<elsewhere, row, slot, hello, down, up, session, conns, noteVars,
                   breaks, faults>>

\* replay_pending routes in the order of the rows and through the registry,
\* whoever is registered by then.
ReplayOne(n, k) ==
    /\ handler[n][k] = "replaying"
    /\ IF todo[n][k] = {}
       THEN Stays(n, k, "live") /\ UNCHANGED <<todo, down, straddled>>
       ELSE LET i == Min(todo[n][k])
                c == dispatched[i] IN
            /\ down' = route_to_node(n, c, down)
            /\ todo' = [todo EXCEPT ![n][k] = @ \ {i}]
            /\ straddled' = IF slot[n] = k THEN straddled ELSE straddled \cup {c[1]}
            /\ UNCHANGED handler
    /\ UNCHANGED <<elsewhere, row, slot, hello, up, session, conns, overtaken, outdated,
                   latecomer, breaks, faults>>

AckDispatch(n, k) ==
    /\ handler[n][k] = "live" /\ up[n][k] # <<>>
    /\ acked' = acked \cup {Head(up[n][k])}
    /\ up' = [up EXCEPT ![n][k] = Tail(@)]
    /\ UNCHANGED <<requestVars, tasks, bound, dispatched, unrouted, row, slot, handler,
                   hello, todo, down, session, conns, nodeVars, noteVars, restarts,
                   breaks, faults>>

\* Whoever leaves removes the entry.
unregister_nodeDrops(n, k) ==
    /\ handler[n][k] = "live" /\ session[n] # k /\ gate = NoOne
    /\ slot' = [slot EXCEPT ![n] = NoConn] /\ Stays(n, k, "unregistered")
    /\ up' = [up EXCEPT ![n][k] = <<>>]
    /\ UNCHANGED <<elsewhere, row, hello, todo, down, session, conns, noteVars, breaks,
                   faults>>

\* The hub notices that the link is gone and leaves the loop; only the owner
\* of the entry removes it and reports the departure.
unregister_node(n, k) ==
    /\ handler[n][k] = "live" /\ session[n] # k /\ gate = NoOne
    /\ IF slot[n] = k
       THEN slot' = [slot EXCEPT ![n] = NoConn] /\ Stays(n, k, "unregistered")
       ELSE UNCHANGED slot /\ Stays(n, k, "gone")
    /\ up' = [up EXCEPT ![n][k] = <<>>]
    /\ UNCHANGED <<elsewhere, row, hello, todo, down, session, conns, noteVars, breaks, faults>>

on_node_disconnected(n, k) ==
    /\ handler[n][k] = "unregistered"
    /\ row' = [row EXCEPT ![n].connected = FALSE]
    /\ Stays(n, k, "gone")
    /\ UNCHANGED <<elsewhere, slot, hello, todo, down, up, session, conns, noteVars,
                   breaks, faults>>

-----------------------------------------------------------------------------
(* The node.                                                               *)

\* CliEngine's dispatch: a command seen before is only acknowledged; a prompt
\* needs the run its StartRun left in memory.
dispatch(n) ==
    LET k == session[n] IN
    /\ k # NoConn /\ down[n][k] # <<>>
    /\ LET c == Head(down[n][k]) IN
       /\ seen' = [seen EXCEPT ![n] = @ \cup {c}]
       /\ IF c \in seen[n] THEN UNCHANGED <<runs, prompted, refused>>
          ELSE IF c[2] = "start"
          THEN runs' = [runs EXCEPT ![n] = @ \cup {c[1]}] /\ UNCHANGED <<prompted, refused>>
          ELSE IF c[1] \in runs[n]
          THEN prompted' = prompted \cup {c[1]} /\ UNCHANGED <<runs, refused>>
          ELSE refused' = refused \cup {c[1]} /\ UNCHANGED <<runs, prompted>>
       /\ up' = [up EXCEPT ![n][k] = Append(@, c)]
    /\ down' = [down EXCEPT ![n][k] = Tail(@)]
    /\ UNCHANGED <<requestVars, storeVars, unrouted, row, slot, handler, hello, todo,
                   session, conns, offers, forgotten, noteVars, restarts, breaks, faults>>

Fault == faults < MaxFaults /\ faults' = faults + 1

LinkBreaks(n) ==
    /\ breaks < MaxBreaks /\ breaks' = breaks + 1
    /\ n \notin Steady /\ session[n] # NoConn
    /\ session' = [session EXCEPT ![n] = NoConn]
    /\ down' = [down EXCEPT ![n] = [k \in Conn |-> <<>>]]
    /\ UNCHANGED <<elsewhere, row, slot, handler, hello, todo, up, conns, noteVars, faults>>

\* The node process ends and another starts, perhaps with another configuration.
NodeRestarts(n) ==
    /\ Fault /\ n \notin Steady
    /\ session' = [session EXCEPT ![n] = NoConn]
    /\ offers' \in {[offers EXCEPT ![n] = o] : o \in BOOLEAN}
    /\ down' = [down EXCEPT ![n] = [k \in Conn |-> <<>>]]
    /\ seen' = [seen EXCEPT ![n] = {}] /\ runs' = [runs EXCEPT ![n] = {}]
    /\ forgotten' = forgotten \cup runs[n]
    /\ UNCHANGED <<requestVars, storeVars, unrouted, prompted, refused, restarts, row,
                   slot, handler, hello, todo, up, conns, noteVars, breaks>>

\* Everything but the database is lost, and every call in progress with it.
HubCrash ==
    /\ Fault /\ restarts' = restarts + 1
    /\ gate' = NoOne /\ unrouted' = {}
    /\ pc' = [w \in Worker |-> IF gate = w THEN "cut" ELSE pc[w]]
    /\ slot' = [n \in Node |-> NoConn] /\ session' = slot'
    /\ handler' = [n \in Node |-> [k \in Conn |->
                     IF handler[n][k] = "none" THEN "none" ELSE "gone"]]
    /\ todo' = [n \in Node |-> [k \in Conn |-> {}]]
    /\ down' = [n \in Node |-> [k \in Conn |-> <<>>]] /\ up' = down'
    /\ UNCHANGED <<preferred, reserved, storeVars, row, hello, conns, nodeVars, noteVars, breaks>>

-----------------------------------------------------------------------------
CreateStep(w) ==
    \/ CreateWorkerTask(w) \/ StartWorkerRun(w)
    \/ RouteStart(w) \/ PromptWorker(w) \/ RoutePrompt(w)
HandlerStep(n, k) ==
    \/ HandshakeFails(n, k) \/ register_node(n, k)
    \/ on_node_connected(n, k) \/ ReadPending(n, k)
    \/ ReplayOne(n, k) \/ AckDispatch(n, k)
    \/ unregister_node(n, k) \/ on_node_disconnected(n, k)

Next ==
    \/ \E w \in Worker : EnterGate(w) \/ CreateStep(w) \/ StoreFails(w)
    \/ \E d \in Direct : ClientStartRun(d) \/ ClientPrompt(d)
    \/ \E c \in unrouted : ClientRoute(c)
    \/ \E n \in Node : Dial(n) \/ dispatch(n) \/ LinkBreaks(n) \/ NodeRestarts(n)
    \/ \E n \in Node, k \in Conn : HandlerStep(n, k)
    \/ HubCrash

Spec == Init /\ [][Next]_vars

-----------------------------------------------------------------------------
Has(c) == Contains(dispatched, c)

\* A worker task never stays open without its run and its prompt: a request
\* that cannot be scheduled leaves no task, and one that was accepted has a
\* run, a stored StartRun and a stored prompt, whatever happens to the node's
\* connection and row meanwhile.  Only a hub crash or a failed transaction
\* inside create_worker_task leaves a part of it.
NoOrphanTask ==
    \A w \in Worker :
       /\ pc[w] = "rejected" => w \notin tasks
       /\ w \in tasks /\ gate # w /\ pc[w] \notin {"failed", "cut"} =>
             bound[w] # NoNode /\ Has(<<w, "start">>) /\ Has(<<w, "prompt">>)

\* The prompt of a worker task never reaches a node that does not know the run,
\* unless the node's process has ended in between, or an older connection was
\* still replaying when a newer one took its place in the registry: otherwise,
\* on every connection and in every replay, its StartRun is ahead of it.
WorkerPromptInOrder == refused \cap Worker \subseteq forgotten \cup straddled

\* A client's prompt is refused as not initialized only after a restart of the
\* node, or when it was routed before its StartRun: while that waited for its
\* receipt, between a connection's registration and its replay, or by the
\* replay of the connection before.
PromptRefusedOnlyOutOfOrder ==
    refused \cap Direct \subseteq forgotten \cup overtaken \cup straddled

\* Work is handled by the node its run is bound to, which is the node the
\* request named when it named one.
WorkAtItsTarget ==
    \A n \in Node : \A c \in seen[n] :
       bound[c[1]] = n /\ preferred[c[1]] \in {NoNode, n}

\* A run is given to a registered node whose connection offered the engine, or
\* whose row is not that connection's: before it is recorded, or after an older
\* connection was recorded late.
ScheduledWhereOffered ==
    [][\A r \in Direct : bound[r] = NoNode /\ bound'[r] # NoNode =>
          LET n == bound'[r] IN
          /\ slot[n] # NoConn
          /\ \/ hello[n][slot[n]] \/ n \in outdated
             \/ handler[n][slot[n]] = "registered"]_vars

\* The stored status of a node tells whether it is registered, when no handler
\* of that node is between the registry and the row, the hub has not crashed
\* since, no older connection was recorded late, and the node did not come back
\* before its departure was recorded.
StatusFollowsRegistry ==
    \A n \in Node :
       \/ row[n].connected = (slot[n] # NoConn)
       \/ \E k \in Conn : handler[n][k] \in {"registered", "unregistered"}
       \/ restarts > 0 \/ n \in outdated \cup latecomer

\* No stored work is stranded: a node whose connection has been replayed to and
\* has nothing in flight has handled every command stored for it, unless an
\* earlier process of that node did.
NothingStranded ==
    \A n \in Node :
       /\ session[n] # NoConn /\ handler[n][session[n]] = "live"
       /\ down[n][session[n]] = <<>> /\ gate = NoOne
       => \A c \in Range(dispatched) \ unrouted :
             /\ bound[c[1]] = n
             /\ \A k \in Conn : todo[n][k] = {}
             => c \in seen[n] \cup acked

\* Whoever prompts a run, the node refuses the prompt as not initialized only after
\* one of the races named above: routes, replays and the gate keep StartRun first.
PromptsInOrder == WorkerPromptInOrder /\ PromptRefusedOnlyOutOfOrder

\* Accepted work has a place and gets there: no task is left without run and prompt,
\* none is handled by a node it is not bound to, none waits where a live connection
\* should have it, and the stored status of a node is that of its connection.
WorkIsPlaced ==
    /\ TypeOK
    /\ NoOrphanTask
    /\ WorkAtItsTarget
    /\ StatusFollowsRegistry
    /\ NothingStranded
=============================================================================
