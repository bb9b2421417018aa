-------------------------- MODULE DeploymentProofs --------------------------
(***************************************************************************)
(* One machine's installation, for any number of operators, commands,      *)
(* releases and failures: commands that overlap leave the credentials      *)
(* valid unless one wrote back a config another had changed, an installed  *)
(* service is not one its module's gate refuses, an update reaches the     *)
(* services it is for, and none goes back to an older release.             *)
(***************************************************************************)
EXTENDS Deployment, TLAPS

WriteOp == {"init_server", "init_agent", "create", "revoke"} \cup Control
Fetching == {"discover", "sums", "asset"}
Updated == Control \cup {"all"}

Cmd == [op : {"none", "install", "update"} \cup WriteOp,
        at : {"", "write", "service"} \cup Fetching \cup Control,
        raw : Config \cup {0},
        todo : {<<>>, <<"server", "agent">>, <<"agent">>, <<"hub">>, <<"node">>},
        ctx : SUBSET Module, role : {""} \cup Name \cup Updated,
        target : Version, ver : Version, seen : Nat, base : Version]

\* What a command in progress holds, by where it is.
Shaped(c) ==
    /\ c \in Cmd
    /\ c.op = "none" <=> c.at = ""
    /\ c.at = "write" => /\ c.op \in WriteOp /\ c.raw \in Config /\ c.seen \in Secret
                         /\ c.op \in {"create", "revoke"} => c.role \in Name
    /\ c.at = "service" => c.todo # <<>>
    /\ c.at \in Fetching \cup Control => c.op = "update" /\ c.role \in Updated
    /\ c.at \in Control => c.at \in RolesOf(c.role)

Distinct(tokens) ==
    \A a, b \in Name : tokens[a] = tokens[b] => a = b \/ tokens[a] = 0

\* What a command is about to write fits what it has read: a new token is no other
\* machine's, an existing hub token is kept, and a node is given the hub's.
WriteOk(c, rep, clob) ==
    c.at = "write" =>
        /\ Distinct(c.raw.tokens)
        /\ c.op = "create" => \A n \in Name \ {c.role} : c.raw.tokens[n] # c.seen
        /\ c.op = "hub" => c.raw.hub = 0 \/ c.seen = c.raw.hub \/ rep
        /\ c.op = "node" => c.seen = c.raw.hub \/ rep \/ clob

\* A module that a command goes by as on is on, or was switched off meanwhile.
GateOk(c, off, sw, clob) ==
    c.at = "service" => \A m \in off : m \in c.ctx \/ m \in sw \/ clob

\* An update fetches a release that is not older than the binary it found.
FetchOk(c, inst, lat) ==
    /\ c.at = "discover" /\ c.ver # 0 => inst = c.ver \/ inst <= lat
    /\ c.at = "sums" /\ c.ver # 0 => c.base <= lat
    /\ c.at = "asset" => /\ c.seen <= lat
                         /\ c.ver # 0 => c.base <= c.seen

Fine(c, rep, clob, off, sw, inst, lat) ==
    Shaped(c) /\ WriteOk(c, rep, clob) /\ GateOk(c, off, sw, clob) /\ FetchOk(c, inst, lat)

\* Every command in progress is one the state allows.
CmdsFine ==
    \A s \in Shell :
        Fine(cmd[s], replaced, clobbered, config.off, switched, installed, latest)

\* The secret a role's process starts with.
KeyOf(k, r) == IF r = "hub" THEN k.hub ELSE k.node

\* A running hub or node has the secret that is in the config.
KeysCurrent ==
    \A r \in Control : proc[r].up =>
        proc[r].key # 0 /\ (proc[r].key = KeyOf(config, r) \/ replaced \/ clobbered)

\* The node's secret in the config is the hub's.
NodeMatches == config.node = 0 \/ config.node = config.hub \/ replaced \/ clobbered

FreshBound == fresh <= ops + 3

CredInv == TokensDistinct /\ EnrolledStaysEnrolled /\ NodeMatches /\ KeysCurrent

DeployInv ==
    TypeOK /\ FreshBound /\ CmdsFine /\ CredInv /\ NoCrashLoop /\ UpdateReachesServices

-----------------------------------------------------------------------------
(* What a step may do to the parts it does not work on.                    *)

\* The history variables only grow, a release is never withdrawn, a new binary is
\* a released one, and a module that goes off is recorded as switched off.
Eases ==
    /\ replaced => replaced'
    /\ clobbered => clobbered'
    /\ \A m \in config'.off : m \in switched' \/ clobbered' \/ (m \in config.off /\ m \notin switched)
    /\ latest <= latest'
    /\ installed' = installed \/ installed' <= latest'

\* A command that a step leaves alone stays one the state allows.
LEMMA FineStays ==
  ASSUME DeployInv, TypeOK', Eases, NEW c,
         Fine(c, replaced, clobbered, config.off, switched, installed, latest)
  PROVE  Fine(c, replaced', clobbered', config'.off, switched', installed', latest')
  <1>1. Shaped(c)
    BY DEF Fine
  <1>b. /\ replaced \in BOOLEAN /\ clobbered \in BOOLEAN
        /\ replaced' \in BOOLEAN /\ clobbered' \in BOOLEAN
    BY DEF DeployInv, TypeOK
  <1>2. WriteOk(c, replaced', clobbered')
    <2>1. WriteOk(c, replaced, clobbered)
      BY DEF Fine
    <2> QED BY <1>b, <2>1 DEF WriteOk, Eases
  <1>3. GateOk(c, config'.off, switched', clobbered')
    <2>1. GateOk(c, config.off, switched, clobbered)
      BY DEF Fine
    <2> QED BY <1>b, <2>1 DEF GateOk, Eases
  <1>4. FetchOk(c, installed', latest')
    <2>1. c.base \in Version /\ c.seen \in Nat /\ c.ver \in Version
      BY <1>1 DEF Shaped, Cmd
    <2>2. c.base \in Nat /\ c.ver \in Nat
      BY <2>1, DeploymentAssumption DEF Version
    <2>3. FetchOk(c, installed, latest)
      BY DEF Fine
    <2>4. /\ installed \in Nat /\ latest \in Nat /\ installed' \in Nat /\ latest' \in Nat
      BY DeploymentAssumption DEF DeployInv, TypeOK, Version
    <2> QED BY <2>1, <2>2, <2>3, <2>4 DEF FetchOk, Eases
  <1> QED BY <1>1, <1>2, <1>3, <1>4 DEF Fine

\* So all of them are, if the ones that the step changes are.
LEMMA CmdsStay ==
  ASSUME DeployInv, TypeOK', Eases,
         \A t \in Shell :
             cmd'[t] = cmd[t] \/
             Fine(cmd'[t], replaced', clobbered', config'.off, switched', installed', latest')
  PROVE  CmdsFine'
  <1>1. ASSUME NEW t \in Shell, cmd'[t] = cmd[t]
        PROVE  Fine(cmd'[t], replaced', clobbered', config'.off, switched', installed', latest')
    <2>1. Fine(cmd[t], replaced, clobbered, config.off, switched, installed, latest)
      BY DEF DeployInv, CmdsFine
    <2>2. PICK c : c = cmd[t]
      OBVIOUS
    <2>3. Fine(c, replaced', clobbered', config'.off, switched', installed', latest')
      BY <2>1, <2>2, FineStays
    <2> QED BY <1>1, <2>2, <2>3
  <1> QED BY <1>1 DEF CmdsFine

-----------------------------------------------------------------------------
\* Credentials that a step does not touch: processes that start take theirs from
\* the config.
LEMMA CredStays ==
  ASSUME DeployInv, TypeOK', Eases, UNCHANGED issued,
         config'.tokens = config.tokens, config'.hub = config.hub, config'.node = config.node,
         \A r \in Control : proc'[r].up =>
             \/ proc[r].up /\ proc'[r].key = proc[r].key
             \/ proc'[r].key = KeyOf(config, r) /\ proc'[r].key # 0
  PROVE  CredInv'
  <1>b. /\ replaced \in BOOLEAN /\ clobbered \in BOOLEAN
        /\ replaced' \in BOOLEAN /\ clobbered' \in BOOLEAN
    BY DEF DeployInv, TypeOK
  <1>1. TokensDistinct'
    BY DEF DeployInv, CredInv, TokensDistinct
  <1>2. EnrolledStaysEnrolled'
    BY <1>b DEF DeployInv, CredInv, EnrolledStaysEnrolled, Eases
  <1>3. NodeMatches'
    BY <1>b DEF DeployInv, CredInv, NodeMatches, Eases
  <1>4. KeysCurrent'
    BY <1>b DEF DeployInv, CredInv, KeysCurrent, KeyOf, Eases
  <1> QED BY <1>1, <1>2, <1>3, <1>4 DEF CredInv

\* A service installed by a step has its module on, or knowingly off.
LEMMA GateStays ==
  ASSUME DeployInv, TypeOK', Eases,
         \A r \in units' \ units : module_for(r) \in config'.off =>
                                     module_for(r) \in switched' \/ clobbered'
  PROVE  NoCrashLoop'
  <1>b. clobbered \in BOOLEAN /\ clobbered' \in BOOLEAN
    BY DEF DeployInv, TypeOK
  <1> SUFFICES ASSUME NEW r \in units', NEW m, m = module_for(r), m \in config'.off
               PROVE  m \in switched' \/ clobbered'
    BY DEF NoCrashLoop, module_for
  <1>1. CASE r \in units
    <2>1. m \in config.off => m \in switched \/ clobbered
      BY <1>1 DEF DeployInv, NoCrashLoop
    <2> QED BY <1>b, <2>1 DEF Eases
  <1> QED BY <1>1

\* A process that still runs another version is still going to be restarted, if no
\* step of the restarts is left out.
LEMMA ReachStays ==
  ASSUME DeployInv, UNCHANGED installed,
         \A r \in Control : proc'[r].up /\ proc'[r].ver # installed' =>
             /\ proc[r].up /\ proc[r].ver = proc'[r].ver
             /\ r \in skipped => r \in skipped',
         \A t \in Shell : cmd'[t] = cmd[t] \/ cmd[t].at \notin Control
  PROVE  UpdateReachesServices'
  <1> SUFFICES ASSUME NEW r \in Control, proc'[r].up, proc'[r].ver # installed'
               PROVE  Restarting(r)' \/ r \in skipped'
    BY DEF UpdateReachesServices
  <1>1. Restarting(r) \/ r \in skipped
    BY DEF DeployInv, UpdateReachesServices
  <1>2. CASE Restarting(r)
    <2>1. PICK t \in Shell : cmd[t].at = r \/ (cmd[t].at = "node" /\ cmd[t].role = "all")
      BY <1>2 DEF Restarting
    <2>2. cmd'[t] = cmd[t]
      BY <2>1 DEF Control
    <2> QED BY <2>1, <2>2 DEF Restarting
  <1> QED BY <1>1, <1>2

\* A copied binary leaves every running process marked as on an older one.
LEMMA CopyReaches ==
  ASSUME DeployInv, NEW v, CopyBinary(v)
  PROVE  /\ UpdateReachesServices'
         /\ proc' \in [Control -> [up : BOOLEAN, ver : Version, key : Secret, here : BOOLEAN]]
         /\ skipped' \subseteq Control
         /\ \A r \in Control : proc'[r].up => proc[r].up /\ proc'[r].key = proc[r].key
  <1>1. proc \in [Control -> [up : BOOLEAN, ver : Version, key : Secret, here : BOOLEAN]]
    BY DEF DeployInv, TypeOK
  <1>2. /\ proc' \in [Control -> [up : BOOLEAN, ver : Version, key : Secret, here : BOOLEAN]]
        /\ \A r \in Control : proc'[r].up = proc[r].up /\ proc'[r].key = proc[r].key
    BY <1>1 DEF CopyBinary, Replaced
  <1> QED BY <1>2 DEF CopyBinary, UpdateReachesServices

\* Secrets and versions are numbers.
LEMMA Numbers ==
    /\ Secret \subseteq Nat /\ Version \subseteq Nat
    /\ 0 \in Secret /\ 0 \in Version
  BY DeploymentAssumption DEF Secret, Version

-----------------------------------------------------------------------------
(* The start.                                                              *)

\* No command: the state of a shell that nothing runs in.
LEMMA IdleFine ==
  ASSUME NEW rep, NEW clob, NEW off, NEW sw, NEW inst, NEW lat
  PROVE  Fine(Idle, rep, clob, off, sw, inst, lat)
  <1>1. /\ Idle \in Cmd /\ Idle.op = "none" /\ Idle.at = ""
    BY DeploymentAssumption DEF Idle, Cmd, Version, Fetching, Control, WriteOp
  <1> QED BY <1>1 DEF Fine, Shaped, WriteOk, GateOk, FetchOk, Fetching, Control

LEMMA DeployInit ==
  ASSUME Init
  PROVE  DeployInv
  <1>1. PICK ready \in BOOLEAN :
           /\ config = [server |-> ready,
                        tokens |-> [n \in Name |-> IF n = "local" THEN IF ready THEN 1 ELSE 0 ELSE 0],
                        agent |-> IF ready THEN 1 ELSE 0, hub |-> IF ready THEN 2 ELSE 0,
                        node |-> IF ready THEN 2 ELSE 0, off |-> {}]
           /\ units = IF ready THEN Control \cup {"server"} ELSE {}
           /\ proc = [r \in Control |->
                        IF ready THEN [up |-> TRUE, ver |-> installed, key |-> 2, here |-> TRUE]
                        ELSE Down]
    BY DEF Init
  <1>2. /\ 0 \in Version /\ 1 \in Version /\ installed \in Version /\ latest \in Version
        /\ {0, 1, 2, 3} \subseteq Secret
    BY DeploymentAssumption DEF Init, Version, Secret
  <1>3. config \in Config
    BY <1>1, <1>2 DEF Config, Name, Module
  <1>4. proc \in [Control -> [up : BOOLEAN, ver : Version, key : Secret, here : BOOLEAN]]
    BY <1>1, <1>2 DEF Down
  <1>5. /\ cmd = [s \in Shell |-> Idle] /\ fresh = 3 /\ ops = 0
        /\ platform \in {"linux", "macos"} /\ hub = 0 /\ offered = 0
        /\ issued = [n \in Name |-> 0] /\ skipped = {} /\ switched = {}
        /\ replaced = FALSE /\ clobbered = FALSE /\ triggers = 0 /\ faults = 0
    BY DEF Init
  <1>6. \A s \in Shell : cmd[s] = Idle /\ cmd[s].op = "none"
    BY <1>5 DEF Idle
  <1>7. TypeOK
    <2>1. units \subseteq Role
      BY <1>1 DEF Role, Control
    <2>2. issued \in [Name -> Secret] /\ DOMAIN cmd = Shell
      BY <1>2, <1>5
    <2>3. ops \in 0..MaxOps /\ triggers \in 0..MaxTriggers /\ faults \in 0..MaxFaults
      BY <1>5, DeploymentAssumption
    <2> QED BY <1>2, <1>3, <1>4, <1>5, <1>6, <2>1, <2>2, <2>3 DEF TypeOK
  <1>8. CmdsFine
    BY <1>6, IdleFine DEF CmdsFine
  <1>9. TokensDistinct
    BY <1>1 DEF TokensDistinct, Name
  <1>10. EnrolledStaysEnrolled /\ NodeMatches
    BY <1>1, <1>5 DEF EnrolledStaysEnrolled, NodeMatches
  <1>11. KeysCurrent
    BY <1>1 DEF KeysCurrent, KeyOf, Down
  <1>12. NoCrashLoop /\ UpdateReachesServices
    BY <1>1 DEF NoCrashLoop, UpdateReachesServices, Down
  <1>13. FreshBound
    BY <1>5 DEF FreshBound
  <1> QED BY <1>7, <1>8, <1>9, <1>10, <1>11, <1>12, <1>13 DEF DeployInv, CredInv

-----------------------------------------------------------------------------
(* Commands that begin.                                                    *)

LEMMA BeginStep ==
  ASSUME DeployInv, NEW s, NEW c, Begin(s, c),
         Fine(c, replaced', clobbered', config'.off, switched', installed', latest'),
         replaced => replaced', replaced' \in BOOLEAN,
         fresh' \in {fresh, fresh + 1},
         UNCHANGED <<platform, config, issued, clobbered, switched, latest, units, hub, offered,
                     triggers, faults>>,
         UNCHANGED <<installed, proc, skipped>> \/ CopyBinary(latest)
  PROVE  DeployInv'
  <1>1. /\ s \in Shell /\ ops' = ops + 1 /\ ops' \in 0..MaxOps /\ ops \in Nat
        /\ cmd[s].op = "none" /\ cmd' = [cmd EXCEPT ![s] = c] /\ DOMAIN cmd = Shell
    BY DeploymentAssumption DEF Begin, Free, DeployInv, TypeOK, Shell
  <1>2. \A t \in Shell : cmd'[t] = IF t = s THEN c ELSE cmd[t]
    BY <1>1
  <1>3. fresh' \in Secret /\ FreshBound'
    BY <1>1, DeploymentAssumption DEF DeployInv, TypeOK, FreshBound, Secret
  <1>4. installed' = installed \/ installed' = latest'
    BY DEF CopyBinary
  <1>5. installed' \in Version /\ latest' \in Version /\ latest \in Nat
    BY <1>4, DeploymentAssumption DEF DeployInv, TypeOK, Version
  <1>6. /\ proc' \in [Control -> [up : BOOLEAN, ver : Version, key : Secret, here : BOOLEAN]]
        /\ skipped' \subseteq Control
        /\ \A r \in Control : proc'[r].up => proc[r].up /\ proc'[r].key = proc[r].key
    BY CopyReaches DEF DeployInv, TypeOK
  <1>7. Shaped(c) /\ cmd[s].at = ""
    BY <1>1 DEF DeployInv, CmdsFine, Fine, Shaped
  <1>8. /\ DOMAIN cmd' = Shell
        /\ \A t \in Shell : cmd'[t].op # "none" => cmd'[t].at \in
               {"write", "service", "discover", "sums", "asset", "node", "hub"}
    BY <1>1, <1>2, <1>7 DEF DeployInv, TypeOK, Shaped, Cmd, Fetching, Control
  <1>9. TypeOK'
    BY <1>1, <1>3, <1>5, <1>6, <1>8 DEF DeployInv, TypeOK
  <1>10. Eases
    BY <1>4, <1>5, <1>9 DEF Eases
  <1>11. CmdsFine'
    BY <1>2, <1>9, <1>10, CmdsStay
  <1>12. CredInv'
    BY <1>6, <1>9, <1>10, CredStays
  <1>13. NoCrashLoop'
    BY <1>9, <1>10, GateStays
  <1>14. UpdateReachesServices'
    <2>1. CASE CopyBinary(latest)
      BY <2>1, CopyReaches
    <2>2. CASE UNCHANGED <<installed, proc, skipped>>
      BY <1>2, <1>7, <2>2, ReachStays DEF Control
    <2> QED BY <2>1, <2>2
  <1> QED BY <1>3, <1>9, <1>11, <1>12, <1>13, <1>14 DEF DeployInv

Todos == {<<>>, <<"server", "agent">>, <<"agent">>, <<"hub">>, <<"node">>}

LEMMA IdleFields ==
    /\ Idle \in Cmd /\ Idle.op = "none" /\ Idle.at = "" /\ Idle.todo = <<>> /\ Idle.role = ""
    /\ Idle.target = 0 /\ Idle.ver = 0 /\ Idle.seen = 0 /\ Idle.base = 0
  BY Numbers DEF Idle, Cmd, Fetching, Control, WriteOp

\* A command that has read the config, decided, and will write.
LEMMA NewWrite ==
  ASSUME DeployInv, NEW c \in Cmd, c.at = "write", c.op \in WriteOp, c.raw = config,
         c.seen \in Secret, c.op \in {"create", "revoke"} => c.role \in Name,
         c.op = "create" => \A n \in Name \ {c.role} : config.tokens[n] # c.seen,
         c.op = "hub" => config.hub = 0 \/ c.seen = config.hub \/ replaced',
         c.op = "node" => c.seen = config.hub \/ replaced' \/ clobbered'
  PROVE  Fine(c, replaced', clobbered', config'.off, switched', installed', latest')
  <1>1. config \in Config
    BY DEF DeployInv, TypeOK
  <1>2. Shaped(c)
    BY <1>1 DEF Shaped, Fetching, Control, WriteOp
  <1>3. Distinct(config.tokens)
    BY DEF DeployInv, CredInv, TokensDistinct, Distinct
  <1>4. WriteOk(c, replaced', clobbered')
    BY <1>3 DEF WriteOk
  <1>5. GateOk(c, config'.off, switched', clobbered') /\ FetchOk(c, installed', latest')
    BY DEF GateOk, FetchOk
  <1> QED BY <1>2, <1>4, <1>5 DEF Fine

\* The secrets a command may be handed.
LEMMA SecretsInUse ==
  ASSUME DeployInv
  PROVE  /\ fresh \in Secret /\ config.hub \in Secret /\ proc["hub"].key \in Secret
         /\ \A n \in Name : config.tokens[n] \in Secret
         /\ config \in Config /\ config.off \in SUBSET Module
         /\ replaced \in BOOLEAN /\ clobbered \in BOOLEAN
  BY DEF DeployInv, TypeOK, Config, Control

LEMMA InitServerStep ==
  ASSUME DeployInv, NEW s \in Operator, init_server(s)
  PROVE  DeployInv'
  <1>1. PICK todo \in {<<>>, service_roles_for("server")} :
           Begin(s, [Run(s, "init_server", "write") EXCEPT !.todo = todo, !.seen = fresh])
    BY DEF init_server
  <1>2. PICK b : b = Run(s, "init_server", "write")
    OBVIOUS
  <1>3. PICK c : c = [b EXCEPT !.todo = todo, !.seen = fresh]
    OBVIOUS
  <1>4. b \in Cmd /\ b.op = "init_server" /\ b.at = "write" /\ b.raw = config
    <2>1. PICK i \in Cmd : i = Idle /\ i.seen = 0
      BY IdleFields
    <2>2. b = [i EXCEPT !.op = "init_server", !.at = "write", !.raw = config, !.ctx = config.off]
      BY <1>2, <2>1 DEF Run
    <2> QED BY <2>1, <2>2, SecretsInUse DEF Cmd, WriteOp
  <1>5. todo \in Todos /\ fresh \in Secret /\ fresh \in Nat
    BY SecretsInUse, Numbers DEF service_roles_for, Todos
  <1>6. c \in Cmd /\ c.op = "init_server" /\ c.at = "write" /\ c.raw = config /\ c.seen \in Secret
    BY <1>3, <1>4, <1>5 DEF Cmd, Todos
  <1>7. Fine(c, replaced', clobbered', config'.off, switched', installed', latest')
    BY <1>6, NewWrite DEF WriteOp
  <1>8. /\ UNCHANGED <<platform, config, issued, clobbered, switched, latest, units, hub, offered,
                       triggers, faults, replaced, installed, proc, skipped>>
        /\ fresh' = fresh + 1
    BY DEF init_server, binaryVars, serviceVars, hubVars
  <1>9. Begin(s, c)
    BY <1>1, <1>2, <1>3
  <1> QED BY <1>7, <1>8, <1>9, SecretsInUse, BeginStep

LEMMA InitAgentStep ==
  ASSUME DeployInv, NEW s \in Operator, init_agent(s)
  PROVE  DeployInv'
  <1>1. PICK token \in {config.tokens[n] : n \in Name} \ {0},
             todo \in {<<>>, service_roles_for("agent")} :
           Begin(s, [Run(s, "init_agent", "write") EXCEPT !.todo = todo, !.seen = token])
    BY DEF init_agent
  <1>2. PICK b : b = Run(s, "init_agent", "write")
    OBVIOUS
  <1>3. PICK c : c = [b EXCEPT !.todo = todo, !.seen = token]
    OBVIOUS
  <1>4. b \in Cmd /\ b.op = "init_agent" /\ b.at = "write" /\ b.raw = config
    <2>1. PICK i \in Cmd : i = Idle /\ i.seen = 0
      BY IdleFields
    <2>2. b = [i EXCEPT !.op = "init_agent", !.at = "write", !.raw = config, !.ctx = config.off]
      BY <1>2, <2>1 DEF Run
    <2> QED BY <2>1, <2>2, SecretsInUse DEF Cmd, WriteOp
  <1>5. todo \in Todos /\ token \in Secret /\ token \in Nat
    BY SecretsInUse, Numbers DEF service_roles_for, Todos
  <1>6. c \in Cmd /\ c.op = "init_agent" /\ c.at = "write" /\ c.raw = config /\ c.seen \in Secret
    BY <1>3, <1>4, <1>5 DEF Cmd, Todos
  <1>7. Fine(c, replaced', clobbered', config'.off, switched', installed', latest')
    BY <1>6, NewWrite DEF WriteOp
  <1>8. UNCHANGED <<platform, config, issued, clobbered, switched, latest, units, hub, offered,
                    triggers, faults, replaced, fresh, installed, proc, skipped>>
    BY DEF init_agent, fileVars, binaryVars, serviceVars, hubVars
  <1>9. Begin(s, c)
    BY <1>1, <1>2, <1>3
  <1> QED BY <1>7, <1>8, <1>9, SecretsInUse, BeginStep

LEMMA CreateTokenStep ==
  ASSUME DeployInv, NEW s \in Operator, NEW n \in Name, create_machine_token(s, n)
  PROVE  DeployInv'
  <1>1. PICK token \in ({fresh} \cup {config.tokens[other] : other \in Name}) \ {0} :
           /\ \A other \in Name \ {n} : config.tokens[other] # token
           /\ fresh' = IF token = fresh THEN fresh + 1 ELSE fresh
           /\ Begin(s, [Run(s, "create", "write") EXCEPT !.role = n, !.seen = token])
    BY DEF create_machine_token
  <1>2. PICK b : b = Run(s, "create", "write")
    OBVIOUS
  <1>3. PICK c : c = [b EXCEPT !.role = n, !.seen = token]
    OBVIOUS
  <1>4. b \in Cmd /\ b.op = "create" /\ b.at = "write" /\ b.raw = config
    <2>1. PICK i \in Cmd : i = Idle /\ i.seen = 0
      BY IdleFields
    <2>2. b = [i EXCEPT !.op = "create", !.at = "write", !.raw = config, !.ctx = config.off]
      BY <1>2, <2>1 DEF Run
    <2> QED BY <2>1, <2>2, SecretsInUse DEF Cmd, WriteOp
  <1>5. token \in Secret /\ token \in Nat
    BY SecretsInUse, Numbers
  <1>6. /\ c \in Cmd /\ c.op = "create" /\ c.at = "write" /\ c.raw = config
        /\ c.seen = token /\ c.role = n
    BY <1>3, <1>4, <1>5 DEF Cmd
  <1>7. Fine(c, replaced', clobbered', config'.off, switched', installed', latest')
    BY <1>1, <1>5, <1>6, NewWrite DEF WriteOp
  <1>8. UNCHANGED <<platform, config, issued, clobbered, switched, latest, units, hub, offered,
                    triggers, faults, replaced, installed, proc, skipped>>
    BY DEF create_machine_token, binaryVars, serviceVars, hubVars
  <1>9. Begin(s, c) /\ fresh' \in {fresh, fresh + 1}
    BY <1>1, <1>2, <1>3
  <1> QED BY <1>7, <1>8, <1>9, SecretsInUse, BeginStep

LEMMA RevokeTokenStep ==
  ASSUME DeployInv, NEW s \in Operator, NEW n \in Name, revoke_machine_token(s, n)
  PROVE  DeployInv'
  <1>1. PICK b : b = Run(s, "revoke", "write")
    OBVIOUS
  <1>2. PICK c : c = [b EXCEPT !.role = n]
    OBVIOUS
  <1>3. b \in Cmd /\ b.op = "revoke" /\ b.at = "write" /\ b.raw = config /\ b.seen = 0
    <2>1. PICK i \in Cmd : i = Idle /\ i.seen = 0
      BY IdleFields
    <2>2. b = [i EXCEPT !.op = "revoke", !.at = "write", !.raw = config, !.ctx = config.off]
      BY <1>1, <2>1 DEF Run
    <2> QED BY <2>1, <2>2, SecretsInUse DEF Cmd, WriteOp
  <1>4. /\ c \in Cmd /\ c.op = "revoke" /\ c.at = "write" /\ c.raw = config
        /\ c.seen = 0 /\ c.role = n
    BY <1>2, <1>3 DEF Cmd
  <1>5. Fine(c, replaced', clobbered', config'.off, switched', installed', latest')
    BY <1>4, Numbers, NewWrite DEF WriteOp
  <1>6. UNCHANGED <<platform, config, issued, clobbered, switched, latest, units, hub, offered,
                    triggers, faults, replaced, fresh, installed, proc, skipped>>
    BY DEF revoke_machine_token, fileVars, binaryVars, serviceVars, hubVars
  <1>7. Begin(s, c)
    BY <1>1, <1>2 DEF revoke_machine_token
  <1> QED BY <1>5, <1>6, <1>7, SecretsInUse, BeginStep

LEMMA InstallHubStep ==
  ASSUME DeployInv, NEW s \in Operator, install_hub(s)
  PROVE  DeployInv'
  <1>0. PICK supplied \in BOOLEAN : \E token :
           /\ token = IF supplied \/ config.hub = 0 THEN fresh ELSE config.hub
           /\ fresh' = IF token = fresh THEN fresh + 1 ELSE fresh
           /\ replaced' = (replaced \/ (supplied /\ config.hub # 0))
           /\ Begin(s, [Run(s, "hub", "write") EXCEPT !.todo = <<"hub">>, !.seen = token])
    BY DEF install_hub
  <1>1. PICK token :
           /\ token = IF supplied \/ config.hub = 0 THEN fresh ELSE config.hub
           /\ fresh' = IF token = fresh THEN fresh + 1 ELSE fresh
           /\ replaced' = (replaced \/ (supplied /\ config.hub # 0))
           /\ Begin(s, [Run(s, "hub", "write") EXCEPT !.todo = <<"hub">>, !.seen = token])
    BY <1>0
  <1>2. PICK b : b = Run(s, "hub", "write")
    OBVIOUS
  <1>3. PICK c : c = [b EXCEPT !.todo = <<"hub">>, !.seen = token]
    OBVIOUS
  <1>4. b \in Cmd /\ b.op = "hub" /\ b.at = "write" /\ b.raw = config
    <2>1. PICK i \in Cmd : i = Idle
      BY IdleFields
    <2>2. b = [i EXCEPT !.op = "hub", !.at = "write", !.raw = config, !.ctx = config.off]
      BY <1>2, <2>1 DEF Run
    <2> QED BY <2>1, <2>2, SecretsInUse DEF Cmd, WriteOp, Control
  <1>5. token \in Secret /\ token \in Nat
    BY <1>1, SecretsInUse, Numbers
  <1>6. c \in Cmd /\ c.op = "hub" /\ c.at = "write" /\ c.raw = config /\ c.seen = token
    BY <1>3, <1>4, <1>5 DEF Cmd
  <1>7. config.hub = 0 \/ token = config.hub \/ replaced'
    BY <1>1
  <1>8. Fine(c, replaced', clobbered', config'.off, switched', installed', latest')
    BY <1>5, <1>6, <1>7, NewWrite DEF WriteOp, Control
  <1>9. UNCHANGED <<platform, config, issued, clobbered, switched, latest, units, hub, offered,
                    triggers, faults, installed, proc, skipped>>
    BY DEF install_hub, binaryVars, serviceVars, hubVars
  <1>10. Begin(s, c) /\ fresh' \in {fresh, fresh + 1}
    BY <1>1, <1>2, <1>3
  <1>11. (replaced => replaced') /\ replaced' \in BOOLEAN
    BY <1>1, SecretsInUse
  <1> QED BY <1>8, <1>9, <1>10, <1>11, BeginStep

\* The node is handed the running hub's secret, which is the one in the config.
LEMMA NodeInstallFine ==
  ASSUME DeployInv, NEW s, NodeInstall(s), UNCHANGED <<config, replaced, clobbered>>
  PROVE  \E c : /\ Begin(s, c)
                /\ Fine(c, replaced', clobbered', config'.off, switched', installed', latest')
  <1>1. /\ proc["hub"].up
        /\ Begin(s, [Run(s, "node", "write") EXCEPT !.todo = <<"node">>, !.seen = proc["hub"].key])
    BY DEF NodeInstall
  <1>2. PICK b : b = Run(s, "node", "write")
    OBVIOUS
  <1>3. PICK token : token = proc["hub"].key
    OBVIOUS
  <1>4. PICK c : c = [b EXCEPT !.todo = <<"node">>, !.seen = token]
    OBVIOUS
  <1>5. b \in Cmd /\ b.op = "node" /\ b.at = "write" /\ b.raw = config
    <2>1. PICK i \in Cmd : i = Idle
      BY IdleFields
    <2>2. b = [i EXCEPT !.op = "node", !.at = "write", !.raw = config, !.ctx = config.off]
      BY <1>2, <2>1 DEF Run
    <2> QED BY <2>1, <2>2, SecretsInUse DEF Cmd, WriteOp, Control
  <1>6. token \in Secret /\ token \in Nat
    BY <1>3, SecretsInUse, Numbers
  <1>7. c \in Cmd /\ c.op = "node" /\ c.at = "write" /\ c.raw = config /\ c.seen = token
    BY <1>4, <1>5, <1>6 DEF Cmd
  <1>8. token = config.hub \/ replaced' \/ clobbered'
    <2>1. "hub" \in Control
      BY DEF Control
    <2> QED BY <1>1, <1>3, <2>1 DEF DeployInv, CredInv, KeysCurrent, KeyOf
  <1>9. Fine(c, replaced', clobbered', config'.off, switched', installed', latest')
    BY <1>6, <1>7, <1>8, NewWrite DEF WriteOp, Control
  <1> QED BY <1>1, <1>2, <1>3, <1>4, <1>9

LEMMA InstallNodeStep ==
  ASSUME DeployInv, NEW s \in Operator, install_node(s) \/ install_ssh(s)
  PROVE  DeployInv'
  <1>1. /\ NodeInstall(s)
        /\ UNCHANGED <<platform, config, issued, clobbered, switched, latest, units, hub, offered,
                       triggers, faults, replaced, fresh>>
        /\ UNCHANGED <<installed, proc, skipped>> \/ CopyBinary(latest)
    BY DEF install_node, install_ssh, fileVars, binaryVars, serviceVars, hubVars
  <1>2. PICK c : /\ Begin(s, c)
                 /\ Fine(c, replaced', clobbered', config'.off, switched', installed', latest')
    BY <1>1, NodeInstallFine
  <1> QED BY <1>1, <1>2, SecretsInUse, BeginStep

LEMMA RunInstallStep ==
  ASSUME DeployInv, NEW s \in Operator, run_install(s)
  PROVE  DeployInv'
  <1>1. PICK role \in {"server", "agent"} :
           Begin(s, [Run(s, "install", "service") EXCEPT !.todo = service_roles_for(role), !.raw = 0])
    BY DEF run_install
  <1>2. PICK b : b = Run(s, "install", "service")
    OBVIOUS
  <1>3. PICK todo : todo = service_roles_for(role)
    OBVIOUS
  <1>4. PICK c : c = [b EXCEPT !.todo = todo, !.raw = 0]
    OBVIOUS
  <1>5. UNCHANGED <<platform, config, issued, clobbered, switched, latest, units, hub, offered,
                    triggers, faults, replaced, fresh, installed, proc, skipped>>
    BY DEF run_install, fileVars, binaryVars, serviceVars, hubVars
  <1>6. b \in Cmd /\ b.op = "install" /\ b.at = "service" /\ b.ctx = config.off
    <2>1. PICK i \in Cmd : i = Idle
      BY IdleFields
    <2>2. b = [i EXCEPT !.op = "install", !.at = "service", !.raw = config, !.ctx = config.off]
      BY <1>2, <2>1 DEF Run
    <2> QED BY <2>1, <2>2, SecretsInUse DEF Cmd
  <1>7. todo \in Todos /\ todo # <<>>
    BY <1>3 DEF service_roles_for, Todos
  <1>8. c \in Cmd /\ c.op = "install" /\ c.at = "service" /\ c.ctx = config.off /\ c.todo = todo
    BY <1>4, <1>6, <1>7 DEF Cmd, Todos
  <1>9. Fine(c, replaced', clobbered', config'.off, switched', installed', latest')
    <2>1. Shaped(c)
      BY <1>7, <1>8 DEF Shaped, Fetching, Control
    <2>2. GateOk(c, config'.off, switched', clobbered')
      BY <1>5, <1>8 DEF GateOk
    <2>3. WriteOk(c, replaced', clobbered') /\ FetchOk(c, installed', latest')
      BY <1>8 DEF WriteOk, FetchOk
    <2> QED BY <2>1, <2>2, <2>3 DEF Fine
  <1>10. Begin(s, c)
    BY <1>1, <1>2, <1>3, <1>4
  <1> QED BY <1>5, <1>9, <1>10, SecretsInUse, BeginStep

\* An update job that begins: it is the binary that is installed.
LEMMA NewUpdater ==
  ASSUME DeployInv, NEW role \in Updated, NEW target \in Version, NEW ver \in {0, installed},
         UNCHANGED installed, NEW c, c.ver = ver,
         c \in Cmd, c.op = "update", c.at = "discover", c.role = role, c.target = target
  PROVE  Fine(c, replaced', clobbered', config'.off, switched', installed', latest')
  <1>1. Shaped(c)
    BY DEF Shaped, Fetching, Control
  <1>2. FetchOk(c, installed', latest')
    BY DEF FetchOk
  <1>3. WriteOk(c, replaced', clobbered') /\ GateOk(c, config'.off, switched', clobbered')
    BY DEF WriteOk, GateOk
  <1> QED BY <1>1, <1>2, <1>3 DEF Fine

LEMMA UpdaterFields ==
  ASSUME DeployInv, NEW role \in Updated, NEW target \in Version,
         NEW b, b = Updater(role, target)
  PROVE  /\ b \in Cmd /\ b.op = "update" /\ b.at = "discover" /\ b.role = role
         /\ b.target = target /\ b.ver = installed
  <1>1. PICK i \in Cmd : i = Idle
    BY IdleFields
  <1>2. b = [i EXCEPT !.op = "update", !.at = "discover", !.role = role, !.target = target,
                      !.ver = installed]
    BY <1>1 DEF Updater
  <1>3. installed \in Version
    BY DEF DeployInv, TypeOK
  <1> QED BY <1>1, <1>2, <1>3 DEF Cmd, Fetching

LEMMA ManualUpdateStep ==
  ASSUME DeployInv, NEW s \in Operator, ManualUpdate(s)
  PROVE  DeployInv'
  <1>1. PICK role \in Control \cup {"all"}, force \in BOOLEAN :
           Begin(s, [Updater(role, 0) EXCEPT !.ver = IF force THEN 0 ELSE @])
    BY DEF ManualUpdate
  <1>2. PICK b : b = Updater(role, 0)
    OBVIOUS
  <1>3. PICK ver : ver = IF force THEN 0 ELSE b.ver
    OBVIOUS
  <1>4. PICK c : c = [b EXCEPT !.ver = ver]
    OBVIOUS
  <1>5. /\ b \in Cmd /\ b.op = "update" /\ b.at = "discover" /\ b.role = role
        /\ b.target = 0 /\ b.ver = installed
    BY <1>2, Numbers, UpdaterFields DEF Updated
  <1>6. ver \in {0, installed} /\ ver \in Version
    BY <1>3, <1>5, Numbers DEF DeployInv, TypeOK
  <1>7. /\ c \in Cmd /\ c.op = "update" /\ c.at = "discover" /\ c.role = role
        /\ c.target = 0 /\ c.ver = ver
    BY <1>4, <1>5, <1>6 DEF Cmd
  <1>8. UNCHANGED <<platform, config, issued, clobbered, switched, latest, units, hub, offered,
                    triggers, faults, replaced, fresh, installed, proc, skipped>>
    BY DEF ManualUpdate, fileVars, binaryVars, serviceVars, hubVars
  <1>9. Fine(c, replaced', clobbered', config'.off, switched', installed', latest')
    BY <1>6, <1>7, <1>8, Numbers, NewUpdater DEF Updated
  <1>10. Begin(s, c)
    BY <1>1, <1>2, <1>3, <1>4
  <1> QED BY <1>8, <1>9, <1>10, SecretsInUse, BeginStep

-----------------------------------------------------------------------------
(* The write.                                                              *)

NewTokens(c, tokens) ==
    CASE c.op = "init_server" -> [n \in Name |-> IF n = "local" THEN c.seen ELSE 0]
      [] c.op = "create" -> [tokens EXCEPT ![c.role] = c.seen]
      [] c.op = "revoke" -> [tokens EXCEPT ![c.role] = 0]
      [] OTHER -> tokens

\* What each command changes in the config it has read.
LEMMA NewConfigFields ==
  ASSUME NEW c, Shaped(c), c.at = "write", NEW raw, c.raw = raw, NEW k, NewConfig(c) = k
  PROVE  /\ k \in Config
         /\ c.op \in Control => k.off = raw.off \ {"control"}
         /\ c.op \notin Control => k.off = raw.off
         /\ c.op = "hub" => k.hub = c.seen
         /\ c.op # "hub" => k.hub = raw.hub
         /\ c.op = "node" => k.node = c.seen
         /\ c.op # "node" => k.node = raw.node
         /\ k.tokens = NewTokens(c, raw.tokens)
  <1>s. /\ c.op \in WriteOp /\ raw \in Config /\ c.seen \in Secret
        /\ c.op \in {"create", "revoke"} => c.role \in Name
    BY DEF Shaped
  <1>0. 0 \in Secret
    BY Numbers
  <1>1. CASE c.op = "init_server"
    <2>1. PICK tokens : tokens = [n \in Name |-> IF n = "local" THEN c.seen ELSE 0]
      OBVIOUS
    <2>2. PICK agent : agent = IF raw.agent = 0 THEN c.seen ELSE raw.agent
      OBVIOUS
    <2>3. tokens \in [Name -> Secret] /\ agent \in Secret
      BY <1>s, <1>0, <2>1, <2>2 DEF Config
    <2>4. k = [raw EXCEPT !.server = TRUE, !.tokens = tokens, !.agent = agent]
      BY <1>1, <2>1, <2>2 DEF NewConfig
    <2>5. /\ k \in Config /\ k.off = raw.off /\ k.hub = raw.hub /\ k.node = raw.node
          /\ k.tokens = tokens
      BY <1>s, <2>3, <2>4 DEF Config
    <2> QED BY <1>1, <2>1, <2>5 DEF Control, NewTokens
  <1>2. CASE c.op = "init_agent"
    <2>1. k = [raw EXCEPT !.agent = c.seen]
      BY <1>2 DEF NewConfig
    <2> QED BY <1>s, <1>2, <2>1 DEF Config, Control, NewTokens
  <1>3. CASE c.op = "create"
    <2>1. k = [raw EXCEPT !.tokens = [raw.tokens EXCEPT ![c.role] = c.seen]]
      BY <1>3 DEF NewConfig
    <2> QED BY <1>s, <1>3, <2>1 DEF Config, Control, NewTokens
  <1>4. CASE c.op = "revoke"
    <2>1. k = [raw EXCEPT !.tokens = [raw.tokens EXCEPT ![c.role] = 0]]
      BY <1>4 DEF NewConfig
    <2> QED BY <1>s, <1>0, <1>4, <2>1 DEF Config, Control, NewTokens
  <1>5. CASE c.op = "hub"
    <2>1. k = [raw EXCEPT !.hub = c.seen, !.off = raw.off \ {"control"}]
      BY <1>5 DEF NewConfig
    <2> QED BY <1>s, <1>5, <2>1 DEF Config, Control, NewTokens
  <1>6. CASE c.op = "node"
    <2>1. k = [raw EXCEPT !.node = c.seen, !.off = raw.off \ {"control"}]
      BY <1>6 DEF NewConfig
    <2> QED BY <1>s, <1>6, <2>1 DEF Config, Control, NewTokens
  <1> QED BY <1>s, <1>1, <1>2, <1>3, <1>4, <1>5, <1>6 DEF WriteOp, Control

\* The credentials in hand after it.
LEMMA PrintedFields ==
  ASSUME NEW c, issued \in [Name -> Secret], c.op \in WriteOp, c.seen \in Secret,
         c.op \in {"create", "revoke"} => c.role \in Name, issued' = Printed(c)
  PROVE  /\ issued' \in [Name -> Secret]
         /\ \A n \in Name : issued'[n] # 0 =>
                /\ c.op # "init_server"
                /\ IF c.op \in {"create", "revoke"} /\ n = c.role
                   THEN c.op = "create" /\ issued'[n] = c.seen ELSE issued'[n] = issued[n]
  <1>1. CASE c.op = "init_server"
    BY <1>1, Numbers DEF Printed
  <1>2. CASE c.op = "create"
    BY <1>2 DEF Printed
  <1>3. CASE c.op = "revoke"
    BY <1>3, Numbers DEF Printed
  <1>4. CASE c.op \in {"init_agent"} \cup Control
    BY <1>4 DEF Printed, Control
  <1> QED BY <1>1, <1>2, <1>3, <1>4 DEF WriteOp

\* A write changes only what the command is for, of the config there is; or it is
\* recorded as having lost another's change.
LEMMA WrittenCredentials ==
  ASSUME DeployInv, NEW c, NEW k, WriteOk(c, replaced, clobbered), Shaped(c), c.at = "write",
         k = NewConfig(c), config' = k, clobbered' = (clobbered \/ config # c.raw),
         issued' = Printed(c), UNCHANGED <<proc, replaced>>
  PROVE  CredInv' /\ k \in Config /\ issued' \in [Name -> Secret] /\ clobbered' \in BOOLEAN
  <1>1. /\ c.op \in WriteOp /\ c.raw \in Config /\ c.seen \in Secret
        /\ c.op \in {"create", "revoke"} => c.role \in Name
    BY DEF Shaped
  <1>2. PICK raw \in Config : raw = c.raw
    BY <1>1
  <1>3. /\ k \in Config
        /\ c.op = "hub" => k.hub = c.seen
        /\ c.op # "hub" => k.hub = raw.hub
        /\ c.op = "node" => k.node = c.seen
        /\ c.op # "node" => k.node = raw.node
        /\ k.tokens = NewTokens(c, raw.tokens)
    BY <1>2, NewConfigFields
  <1>t. k.tokens = CASE c.op = "init_server" -> [n \in Name |-> IF n = "local" THEN c.seen ELSE 0]
                      [] c.op = "create" -> [raw.tokens EXCEPT ![c.role] = c.seen]
                      [] c.op = "revoke" -> [raw.tokens EXCEPT ![c.role] = 0]
                      [] OTHER -> raw.tokens
    BY <1>3 DEF NewTokens
  <1>4. issued \in [Name -> Secret] /\ raw.tokens \in [Name -> Secret]
    BY DEF DeployInv, TypeOK, Config
  <1>5. /\ issued' \in [Name -> Secret]
        /\ \A n \in Name : issued'[n] # 0 =>
               /\ c.op # "init_server"
               /\ IF c.op \in {"create", "revoke"} /\ n = c.role
                  THEN c.op = "create" /\ issued'[n] = c.seen ELSE issued'[n] = issued[n]
    BY <1>1, <1>4, PrintedFields
  <1>6. clobbered' \in BOOLEAN /\ (~clobbered' => ~clobbered /\ config = raw)
    BY <1>2 DEF DeployInv, TypeOK
  <1>7. TokensDistinct'
    <2>1. Distinct(raw.tokens) /\ (c.op = "create" => \A n \in Name \ {c.role} : raw.tokens[n] # c.seen)
      BY <1>2 DEF WriteOk
    <2>2. CASE c.op = "init_server"
      BY <1>t, <2>2 DEF TokensDistinct, Name
    <2>3. CASE c.op = "create"
      <3>1. k.tokens = [raw.tokens EXCEPT ![c.role] = c.seen]
        BY <1>t, <2>3
      <3> QED BY <1>1, <1>4, <2>1, <2>3, <3>1 DEF TokensDistinct, Distinct
    <2>4. CASE c.op = "revoke"
      <3>1. k.tokens = [raw.tokens EXCEPT ![c.role] = 0]
        BY <1>t, <2>4
      <3> QED BY <1>1, <1>4, <2>1, <2>4, <3>1 DEF TokensDistinct, Distinct
    <2>5. CASE c.op \in {"init_agent"} \cup Control
      <3>1. k.tokens = raw.tokens
        BY <1>t, <2>5 DEF Control
      <3> QED BY <2>1, <3>1 DEF TokensDistinct, Distinct
    <2> QED BY <1>1, <2>2, <2>3, <2>4, <2>5 DEF WriteOp
  <1>8. EnrolledStaysEnrolled'
    <2> SUFFICES ASSUME NEW n \in Name, issued'[n] # 0, ~clobbered'
                 PROVE  k.tokens[n] = issued'[n]
      BY <1>6 DEF EnrolledStaysEnrolled
    <2>1. issued[n] # 0 => raw.tokens[n] = issued[n]
      BY <1>6 DEF DeployInv, CredInv, EnrolledStaysEnrolled
    <2>2. CASE c.op \in {"create", "revoke"} /\ n = c.role
      <3>1. c.op = "create" /\ issued'[n] = c.seen
        BY <1>5, <2>2
      <3>2. k.tokens = [raw.tokens EXCEPT ![c.role] = c.seen]
        BY <1>t, <3>1
      <3> QED BY <1>4, <2>2, <3>1, <3>2
    <2>3. CASE ~(c.op \in {"create", "revoke"} /\ n = c.role)
      <3>1. issued'[n] = issued[n] /\ c.op # "init_server"
        BY <1>5, <2>3
      <3>2. k.tokens[n] = raw.tokens[n]
        BY <1>1, <1>t, <1>4, <2>3, <3>1 DEF WriteOp, Control
      <3> QED BY <2>1, <3>1, <3>2
    <2> QED BY <2>2, <2>3
  <1>9. /\ c.op = "hub" => raw.hub = 0 \/ c.seen = raw.hub \/ replaced
        /\ c.op = "node" => c.seen = raw.hub \/ replaced \/ clobbered
    BY <1>2 DEF WriteOk
  <1>10. replaced \in BOOLEAN /\ replaced' = replaced
    BY DEF DeployInv, TypeOK
  <1>11. ASSUME ~clobbered', ~replaced
         PROVE  /\ raw.node = 0 \/ raw.node = raw.hub
                /\ \A r \in Control : proc[r].up => proc[r].key # 0 /\ proc[r].key = KeyOf(raw, r)
    BY <1>6, <1>11 DEF DeployInv, CredInv, NodeMatches, KeysCurrent
  <1>12. NodeMatches'
    <2> SUFFICES ASSUME ~clobbered', ~replaced
                 PROVE  k.node = 0 \/ k.node = k.hub
      BY <1>6, <1>10 DEF NodeMatches
    <2> QED BY <1>3, <1>6, <1>9, <1>11
  <1>13. KeysCurrent'
    <2>1. \A r \in Control : proc[r].up => proc[r].key # 0
      BY DEF DeployInv, CredInv, KeysCurrent
    <2> SUFFICES ASSUME ~clobbered', ~replaced, NEW r \in Control, proc[r].up
                 PROVE  proc[r].key = KeyOf(k, r)
      BY <1>6, <1>10, <2>1 DEF KeysCurrent
    <2>2. proc[r].key # 0 /\ proc[r].key = KeyOf(raw, r)
      BY <1>11
    <2> QED BY <1>3, <1>6, <1>9, <1>11, <2>2 DEF KeyOf, Control
  <1> QED BY <1>3, <1>5, <1>6, <1>7, <1>8, <1>12, <1>13 DEF CredInv

LEMMA WriteConfigStep ==
  ASSUME DeployInv, NEW s \in Shell, WriteConfig(s)
  PROVE  DeployInv'
  <1>1. PICK c : c = cmd[s]
    OBVIOUS
  <1>2. PICK k : k = NewConfig(c)
    OBVIOUS
  <1>3. /\ c.at = "write" /\ config' = k /\ clobbered' = (clobbered \/ config # c.raw)
        /\ issued' = Printed(c)
        /\ switched' = IF c.op \in Control THEN switched \ {"control"} ELSE switched
        /\ UNCHANGED <<platform, fresh, replaced, latest, installed, units, proc, skipped, hub,
                       offered, triggers, ops, faults>>
    BY <1>1, <1>2 DEF WriteConfig, write_raw_config, binaryVars, serviceVars, hubVars
  <1>4. Fine(c, replaced, clobbered, config.off, switched, installed, latest)
    BY <1>1 DEF DeployInv, CmdsFine
  <1>5. Shaped(c) /\ WriteOk(c, replaced, clobbered)
    BY <1>4 DEF Fine
  <1>6. CredInv' /\ k \in Config /\ issued' \in [Name -> Secret] /\ clobbered' \in BOOLEAN
    BY <1>2, <1>3, <1>5, WrittenCredentials
  <1>7. /\ c.op \in Control => k.off = c.raw.off \ {"control"}
        /\ c.op \notin Control => k.off = c.raw.off
    BY <1>2, <1>3, <1>5, NewConfigFields
  <1>8. ~clobbered' => ~clobbered /\ config = c.raw
    BY <1>3 DEF DeployInv, TypeOK
  <1>9. \E d : /\ cmd' = [cmd EXCEPT ![s] = d]
               /\ Fine(d, replaced', clobbered', config'.off, switched', installed', latest')
    <2>1. CASE c.todo = <<>>
      <3>1. cmd' = [cmd EXCEPT ![s] = Idle]
        BY <1>1, <2>1 DEF WriteConfig, Done
      <3> QED BY <3>1, IdleFine
    <2>2. CASE c.todo # <<>>
      <3>1. PICK i \in Cmd : i = Idle
        BY IdleFields
      <3>2. PICK d : d = [i EXCEPT !.op = c.op, !.at = "service", !.todo = c.todo, !.ctx = k.off]
        OBVIOUS
      <3>3. cmd' = [cmd EXCEPT ![s] = d]
        BY <1>1, <1>3, <2>2, <3>1, <3>2 DEF WriteConfig
      <3>4. c.op \in WriteOp /\ c.todo \in Todos /\ k.off \in SUBSET Module
        BY <1>3, <1>5, <1>6 DEF Shaped, Cmd, Todos, Config
      <3>5. d \in Cmd /\ d.op = c.op /\ d.at = "service" /\ d.todo = c.todo /\ d.ctx = k.off
        BY <3>1, <3>2, <3>4 DEF Cmd, Todos
      <3>6. Shaped(d)
        BY <2>2, <3>4, <3>5 DEF Shaped, WriteOp, Fetching, Control
      <3>7. GateOk(d, config'.off, switched', clobbered')
        BY <1>3, <3>5 DEF GateOk
      <3>8. WriteOk(d, replaced', clobbered') /\ FetchOk(d, installed', latest')
        BY <3>5 DEF WriteOk, FetchOk
      <3> QED BY <3>3, <3>6, <3>7, <3>8 DEF Fine
    <2> QED BY <2>1, <2>2
  <1>10. PICK d : /\ cmd' = [cmd EXCEPT ![s] = d]
                  /\ Fine(d, replaced', clobbered', config'.off, switched', installed', latest')
    BY <1>9
  <1>11. Shaped(d) /\ DOMAIN cmd = Shell
    BY <1>10 DEF Fine, DeployInv, TypeOK
  <1>12. \A t \in Shell : cmd'[t] = IF t = s THEN d ELSE cmd[t]
    BY <1>10, <1>11
  <1>13. /\ DOMAIN cmd' = Shell
         /\ \A t \in Shell : cmd'[t].op # "none" => cmd'[t].at \in
                {"write", "service", "discover", "sums", "asset", "node", "hub"}
    BY <1>10, <1>11, <1>12 DEF DeployInv, TypeOK, Shaped, Cmd, Fetching, Control
  <1>14. TypeOK' /\ FreshBound'
    BY <1>3, <1>6, <1>13 DEF DeployInv, TypeOK, FreshBound
  <1>15. Eases
    <2>1. (replaced => replaced') /\ (clobbered => clobbered')
      BY <1>3, <1>8
    <2>2. ASSUME NEW m \in config'.off, ~clobbered', m \notin switched'
          PROVE  m \in config.off /\ m \notin switched
      BY <1>3, <1>7, <1>8, <2>2
    <2>3. latest <= latest' /\ installed' = installed
      BY <1>3, DeploymentAssumption DEF DeployInv, TypeOK, Version
    <2> QED BY <2>1, <2>2, <2>3 DEF Eases
  <1>16. CmdsFine'
    BY <1>10, <1>12, <1>14, <1>15, CmdsStay
  <1>17. NoCrashLoop'
    BY <1>3, <1>14, <1>15, GateStays
  <1>18. UpdateReachesServices'
    BY <1>1, <1>3, <1>12, ReachStays DEF Control
  <1> QED BY <1>6, <1>14, <1>16, <1>17, <1>18 DEF DeployInv

-----------------------------------------------------------------------------
(* Services and the binary.                                                *)

\* A process that starts has its secret, and runs what is installed.
LEMMA BootedFields ==
  ASSUME DeployInv, NEW r \in Control
  PROVE  /\ Booted(r) \in [up : BOOLEAN, ver : Version, key : Secret, here : BOOLEAN]
         /\ Booted(r).up => /\ Booted(r).key = KeyOf(config, r) /\ Booted(r).key # 0
                            /\ Booted(r).ver = installed
  <1>1. config.hub \in Secret /\ config.node \in Secret /\ installed \in Version
    BY DEF DeployInv, TypeOK, Config
  <1> QED BY <1>1, Numbers DEF Booted, Down, KeyOf

\* One service is started anew: what that leaves of the others.
LEMMA Starts ==
  ASSUME DeployInv, NEW r \in Control, proc' = [proc EXCEPT ![r] = Booted(r)]
  PROVE  /\ proc' \in [Control -> [up : BOOLEAN, ver : Version, key : Secret, here : BOOLEAN]]
         /\ \A q \in Control : proc'[q].up =>
                \/ proc[q].up /\ proc'[q].key = proc[q].key
                \/ proc'[q].key = KeyOf(config, q) /\ proc'[q].key # 0
         /\ proc'[r].up => proc'[r].ver = installed
         /\ \A q \in Control \ {r} : proc'[q] = proc[q]
  <1>1. proc \in [Control -> [up : BOOLEAN, ver : Version, key : Secret, here : BOOLEAN]]
    BY DEF DeployInv, TypeOK
  <1>2. PICK p : p = Booted(r)
    OBVIOUS
  <1>3. /\ p \in [up : BOOLEAN, ver : Version, key : Secret, here : BOOLEAN]
        /\ p.up => p.key = KeyOf(config, r) /\ p.key # 0 /\ p.ver = installed
    BY <1>2, BootedFields
  <1>4. proc' = [proc EXCEPT ![r] = p]
    BY <1>2
  <1> QED BY <1>1, <1>3, <1>4

\* The rest of a command's services, or the end of it.
LEMMA NextRole ==
  ASSUME DeployInv, NEW s \in Shell, NEW c, c = cmd[s], c.at = "service",
         Done(s) \/ (Len(c.todo) # 1 /\ cmd' = [cmd EXCEPT ![s].todo = Tail(@)]),
         UNCHANGED <<config, replaced, clobbered, switched, installed, latest>>
  PROVE  \E d : /\ cmd' = [cmd EXCEPT ![s] = d]
                /\ Fine(d, replaced', clobbered', config'.off, switched', installed', latest')
  <1>1. CASE Done(s)
    BY <1>1, IdleFine DEF Done
  <1>2. CASE Len(c.todo) # 1 /\ cmd' = [cmd EXCEPT ![s].todo = Tail(@)]
    <2>1. Fine(c, replaced, clobbered, config.off, switched, installed, latest)
      BY DEF DeployInv, CmdsFine
    <2>2. Shaped(c) /\ GateOk(c, config.off, switched, clobbered)
      BY <2>1 DEF Fine
    <2>3. c.todo = <<"server", "agent">>
      BY <1>2, <2>2 DEF Shaped, Cmd
    <2>4. PICK d : d = [c EXCEPT !.todo = <<"agent">>]
      OBVIOUS
    <2>5. cmd' = [cmd EXCEPT ![s] = d]
      BY <1>2, <2>3, <2>4
    <2>6. /\ d \in Cmd /\ d.op = c.op /\ d.at = "service" /\ d.todo = <<"agent">>
          /\ d.ctx = c.ctx
      BY <2>2, <2>4 DEF Shaped, Cmd
    <2>7. Shaped(d)
      BY <2>2, <2>6 DEF Shaped, Fetching, Control
    <2>8. GateOk(d, config'.off, switched', clobbered')
      BY <2>2, <2>6 DEF GateOk
    <2>9. WriteOk(d, replaced', clobbered') /\ FetchOk(d, installed', latest')
      BY <2>6 DEF WriteOk, FetchOk
    <2> QED BY <2>5, <2>7, <2>8, <2>9 DEF Fine
  <1> QED BY <1>1, <1>2

LEMMA InstallRolesStep ==
  ASSUME DeployInv, NEW s \in Shell, install_roles_into(s)
  PROVE  DeployInv'
  <1>1. PICK c : c = cmd[s]
    OBVIOUS
  <1>2. PICK r : r = Head(c.todo)
    OBVIOUS
  <1>3. /\ c.at = "service"
        /\ UNCHANGED <<platform, config, fresh, issued, replaced, clobbered, switched, latest,
                       installed, hub, offered, triggers, ops, faults>>
        /\ Done(s) \/ (Len(c.todo) # 1 /\ cmd' = [cmd EXCEPT ![s].todo = Tail(@)])
        /\ \/ UNCHANGED <<units, proc, skipped>>
           \/ module_for(r) \notin c.ctx /\ install_service(r)
    BY <1>1, <1>2 DEF install_roles_into, fileVars, binaryVars, hubVars
  <1>4. Shaped(c) /\ GateOk(c, config.off, switched, clobbered)
    BY <1>1 DEF DeployInv, CmdsFine, Fine
  <1>5. r \in Role
    <2>1. c.todo \in Todos /\ c.todo # <<>>
      BY <1>3, <1>4 DEF Shaped, Cmd, Todos
    <2> QED BY <1>2, <2>1 DEF Todos, Role, Control
  <1>6. PICK d : /\ cmd' = [cmd EXCEPT ![s] = d]
                 /\ Fine(d, replaced', clobbered', config'.off, switched', installed', latest')
    BY <1>1, <1>3, NextRole
  <1>7. Shaped(d) /\ DOMAIN cmd = Shell
    BY <1>6 DEF Fine, DeployInv, TypeOK
  <1>8. \A t \in Shell : cmd'[t] = IF t = s THEN d ELSE cmd[t]
    BY <1>6, <1>7
  <1>9. /\ DOMAIN cmd' = Shell
        /\ \A t \in Shell : cmd'[t].op # "none" => cmd'[t].at \in
               {"write", "service", "discover", "sums", "asset", "node", "hub"}
    BY <1>6, <1>7, <1>8 DEF DeployInv, TypeOK, Shaped, Cmd, Fetching, Control
  <1>10. \/ UNCHANGED <<proc, skipped>>
         \/ /\ r \in Control /\ proc' = [proc EXCEPT ![r] = Booted(r)]
            /\ skipped' = skipped \ {r}
    BY <1>3 DEF install_service, start_unit
  <1>11. /\ proc' \in [Control -> [up : BOOLEAN, ver : Version, key : Secret, here : BOOLEAN]]
         /\ skipped' \subseteq Control
         /\ \A q \in Control : proc'[q].up =>
                \/ proc[q].up /\ proc'[q].key = proc[q].key
                \/ proc'[q].key = KeyOf(config, q) /\ proc'[q].key # 0
    BY <1>10, Starts DEF DeployInv, TypeOK
  <1>12. units' \subseteq units \cup {r} /\ units' \subseteq Role
    BY <1>3, <1>5 DEF install_service, DeployInv, TypeOK
  <1>13. TypeOK' /\ FreshBound'
    BY <1>3, <1>9, <1>11, <1>12 DEF DeployInv, TypeOK, FreshBound
  <1>14. Eases
    BY <1>3, DeploymentAssumption DEF Eases, DeployInv, TypeOK, Version
  <1>15. CmdsFine'
    BY <1>6, <1>8, <1>13, <1>14, CmdsStay
  <1>16. CredInv'
    BY <1>3, <1>11, <1>13, <1>14, CredStays
  <1>17. NoCrashLoop'
    <2>1. \A q \in units' \ units : q = r /\ module_for(r) \notin c.ctx
      BY <1>3, <1>12
    <2>2. module_for(r) \in config.off /\ module_for(r) \notin c.ctx =>
              module_for(r) \in switched \/ clobbered
      BY <1>3, <1>4 DEF GateOk
    <2>3. \A q \in units' \ units : module_for(q) \in config'.off =>
              module_for(q) \in switched' \/ clobbered'
      BY <1>3, <2>1, <2>2
    <2> QED BY <1>13, <1>14, <2>3, GateStays
  <1>18. UpdateReachesServices'
    <2>1. \A q \in Control : proc'[q].up /\ proc'[q].ver # installed' =>
             /\ proc[q].up /\ proc[q].ver = proc'[q].ver
             /\ q \in skipped => q \in skipped'
      BY <1>3, <1>10, Starts
    <2> QED BY <1>1, <1>3, <1>8, <2>1, ReachStays DEF Control
  <1> QED BY <1>13, <1>15, <1>16, <1>17, <1>18 DEF DeployInv

-----------------------------------------------------------------------------
(* Updates.                                                                *)

Processes == [Control -> [up : BOOLEAN, ver : Version, key : Secret, here : BOOLEAN]]

\* A step that moves one command on and leaves the files and the units alone.
LEMMA OneCommand ==
  ASSUME DeployInv, NEW s \in Shell, NEW d, cmd' = [cmd EXCEPT ![s] = d],
         Fine(d, replaced', clobbered', config'.off, switched', installed', latest'),
         UNCHANGED <<platform, config, fresh, issued, replaced, clobbered, switched, latest,
                     units, ops>>,
         installed' = installed \/ installed' \in 0..latest,
         proc' \in Processes, skipped' \subseteq Control,
         \A r \in Control : proc'[r].up =>
             \/ proc[r].up /\ proc'[r].key = proc[r].key
             \/ proc'[r].key = KeyOf(config, r) /\ proc'[r].key # 0,
         hub' \in Version, offered' \in Version,
         triggers' \in 0..MaxTriggers, faults' \in 0..MaxFaults,
         UpdateReachesServices'
  PROVE  DeployInv'
  <1>1. Shaped(d) /\ DOMAIN cmd = Shell
    BY DEF Fine, DeployInv, TypeOK
  <1>2. \A t \in Shell : cmd'[t] = IF t = s THEN d ELSE cmd[t]
    BY <1>1
  <1>3. /\ DOMAIN cmd' = Shell
        /\ \A t \in Shell : cmd'[t].op # "none" => cmd'[t].at \in
               {"write", "service", "discover", "sums", "asset", "node", "hub"}
    BY <1>1, <1>2 DEF DeployInv, TypeOK, Shaped, Cmd, Fetching, Control
  <1>4. installed' \in Version /\ latest \in Nat
    BY DeploymentAssumption DEF DeployInv, TypeOK, Version
  <1>5. TypeOK' /\ FreshBound'
    BY <1>3, <1>4 DEF DeployInv, TypeOK, FreshBound, Processes
  <1>6. Eases
    BY <1>4 DEF Eases
  <1>7. CmdsFine'
    BY <1>2, <1>5, <1>6, CmdsStay
  <1>8. CredInv'
    BY <1>5, <1>6, CredStays
  <1>9. NoCrashLoop'
    BY <1>5, <1>6, GateStays
  <1> QED BY <1>5, <1>7, <1>8, <1>9 DEF DeployInv

\* The same of a command whose restarts have not come, and of nothing else.
LEMMA FetchStep ==
  ASSUME DeployInv, NEW s \in Shell, cmd[s].at \notin Control,
         NEW d, cmd' = [cmd EXCEPT ![s] = d],
         Fine(d, replaced', clobbered', config'.off, switched', installed', latest'),
         UNCHANGED <<platform, config, fresh, issued, replaced, clobbered, switched, latest,
                     units, ops, installed, proc, skipped>>,
         hub' \in Version, offered' \in Version,
         triggers' \in 0..MaxTriggers, faults' \in 0..MaxFaults
  PROVE  DeployInv'
  <1>1. proc' \in Processes /\ skipped' \subseteq Control /\ DOMAIN cmd = Shell
    BY DEF DeployInv, TypeOK, Processes
  <1>2. \A t \in Shell : cmd'[t] = cmd[t] \/ cmd[t].at \notin Control
    BY <1>1
  <1>3. UpdateReachesServices'
    BY <1>2, ReachStays
  <1> QED BY <1>1, <1>3, OneCommand

\* What is known of a command in progress.
LEMMA CommandOf ==
  ASSUME DeployInv, NEW s \in Shell, NEW c, c = cmd[s]
  PROVE  /\ Shaped(c) /\ FetchOk(c, installed, latest) /\ GateOk(c, config.off, switched, clobbered)
         /\ c \in Cmd /\ c.ver \in Nat /\ c.seen \in Nat /\ c.base \in Nat
  <1>1. Shaped(c) /\ FetchOk(c, installed, latest) /\ GateOk(c, config.off, switched, clobbered)
    BY DEF DeployInv, CmdsFine, Fine
  <1>2. c \in Cmd
    BY <1>1 DEF Shaped
  <1>3. c.ver \in Version /\ c.seen \in Nat /\ c.base \in Version
    BY <1>2 DEF Cmd
  <1> QED BY <1>1, <1>2, <1>3, Numbers

\* The counts and versions, as numbers.
LEMMA Counts ==
  ASSUME DeployInv
  PROVE  /\ latest \in Version /\ installed \in Version /\ hub \in Version /\ offered \in Version
         /\ latest \in Nat /\ installed \in Nat
         /\ triggers \in 0..MaxTriggers /\ faults \in 0..MaxFaults /\ ops \in 0..MaxOps
         /\ DOMAIN cmd = Shell /\ proc \in Processes /\ skipped \subseteq Control
  BY Numbers DEF DeployInv, TypeOK, Processes

LEMMA DiscoverStep ==
  ASSUME DeployInv, NEW s \in Shell, discover_release(s)
  PROVE  DeployInv'
  <1>1. PICK c : c = cmd[s]
    OBVIOUS
  <1>2. /\ c.at = "discover"
        /\ UNCHANGED <<platform, config, fresh, issued, replaced, clobbered, switched, latest,
                       installed, units, proc, skipped, hub, offered, triggers, ops, faults>>
    BY <1>1 DEF discover_release, fileVars, binaryVars, serviceVars, hubVars
  <1>3. /\ Shaped(c) /\ FetchOk(c, installed, latest)
        /\ c \in Cmd /\ c.ver \in Nat
    BY <1>1, CommandOf
  <1>4. \E d : /\ cmd' = [cmd EXCEPT ![s] = d]
               /\ Fine(d, replaced', clobbered', config'.off, switched', installed', latest')
    <2>1. CASE c.target \in {0, latest} /\ update_available(c)
      <3>1. cmd' = [cmd EXCEPT ![s].at = "sums", ![s].target = 0, ![s].base = installed]
        BY <1>1, <2>1 DEF discover_release
      <3>2. PICK d : d = [c EXCEPT !.at = "sums", !.target = 0, !.base = installed]
        OBVIOUS
      <3>3. cmd' = [cmd EXCEPT ![s] = d]
        BY <1>1, <3>1, <3>2, Counts
      <3>4. /\ d \in Cmd /\ d.op = c.op /\ d.at = "sums" /\ d.role = c.role /\ d.ver = c.ver
            /\ d.base = installed
        BY <1>3, <3>2, Counts, Numbers DEF Cmd, Fetching
      <3>5. Shaped(d)
        BY <1>2, <1>3, <3>4 DEF Shaped, Fetching, Control
      <3>6. c.ver # 0 => installed <= latest
        BY <1>2, <1>3, <2>1, Counts DEF FetchOk, update_available
      <3>7. FetchOk(d, installed', latest')
        BY <1>2, <3>4, <3>6 DEF FetchOk
      <3>8. WriteOk(d, replaced', clobbered') /\ GateOk(d, config'.off, switched', clobbered')
        BY <3>4 DEF WriteOk, GateOk
      <3> QED BY <3>3, <3>5, <3>7, <3>8 DEF Fine
    <2>2. CASE ~(c.target \in {0, latest} /\ update_available(c))
      BY <1>1, <2>2, IdleFine DEF discover_release, Done
    <2> QED BY <2>1, <2>2
  <1>5. cmd[s].at \notin Control
    BY <1>1, <1>2 DEF Control
  <1> QED BY <1>2, <1>4, <1>5, Counts, FetchStep

LEMMA DownloadStep ==
  ASSUME DeployInv, NEW s \in Shell, DownloadSums(s)
  PROVE  DeployInv'
  <1>1. PICK c : c = cmd[s]
    OBVIOUS
  <1>2. /\ c.at = "sums"
        /\ UNCHANGED <<platform, config, fresh, issued, replaced, clobbered, switched, latest,
                       installed, units, proc, skipped, hub, offered, triggers, ops, faults>>
        /\ cmd' = [cmd EXCEPT ![s].at = "asset", ![s].seen = latest]
    BY <1>1 DEF DownloadSums, fileVars, binaryVars, serviceVars, hubVars
  <1>3. Shaped(c) /\ FetchOk(c, installed, latest) /\ c \in Cmd
    BY <1>1, CommandOf
  <1>4. PICK d : d = [c EXCEPT !.at = "asset", !.seen = latest]
    OBVIOUS
  <1>5. cmd' = [cmd EXCEPT ![s] = d]
    BY <1>1, <1>2, <1>4, Counts
  <1>6. /\ d \in Cmd /\ d.op = c.op /\ d.at = "asset" /\ d.role = c.role /\ d.ver = c.ver
        /\ d.base = c.base /\ d.seen = latest
    BY <1>3, <1>4, Counts DEF Cmd, Fetching
  <1>7. Shaped(d)
    BY <1>2, <1>3, <1>6 DEF Shaped, Fetching, Control
  <1>8. FetchOk(d, installed', latest')
    BY <1>2, <1>3, <1>6, Counts DEF FetchOk
  <1>9. WriteOk(d, replaced', clobbered') /\ GateOk(d, config'.off, switched', clobbered')
    BY <1>6 DEF WriteOk, GateOk
  <1>10. Fine(d, replaced', clobbered', config'.off, switched', installed', latest')
    BY <1>7, <1>8, <1>9 DEF Fine
  <1>11. cmd[s].at \notin Control
    BY <1>1, <1>2 DEF Control
  <1> QED BY <1>2, <1>5, <1>10, <1>11, Counts, FetchStep

LEMMA UnverifiedStep ==
  ASSUME DeployInv, NEW s \in Shell, Unverified(s)
  PROVE  DeployInv'
  <1>1. /\ cmd[s].at = "asset" /\ cmd' = [cmd EXCEPT ![s] = Idle]
        /\ UNCHANGED <<platform, config, fresh, issued, replaced, clobbered, switched, latest,
                       installed, units, proc, skipped, hub, offered, triggers, ops, faults>>
    BY DEF Unverified, Done, fileVars, binaryVars, serviceVars, hubVars
  <1>2. Fine(Idle, replaced', clobbered', config'.off, switched', installed', latest')
    BY IdleFine
  <1> QED BY <1>1, <1>2, Counts, FetchStep DEF Control

\* The new binary is written: every running process is to be restarted by this
\* update, or is recorded as left out of it.
LEMMA InstallReleaseStep ==
  ASSUME DeployInv, NEW s \in Shell, install_release(s)
  PROVE  DeployInv'
  <1>1. PICK c : c = cmd[s]
    OBVIOUS
  <1>2. PICK at : at = IF c.role = "hub" THEN "hub" ELSE "node"
    OBVIOUS
  <1>3. PICK i \in Cmd : i = Idle
    BY IdleFields
  <1>4. PICK d : d = [i EXCEPT !.op = c.op, !.role = c.role, !.at = at]
    OBVIOUS
  <1>5. /\ c.at = "asset" /\ installed' = c.seen /\ proc' = Replaced
        /\ skipped' = (skipped \ RolesOf(c.role)) \cup {r \in Control \ RolesOf(c.role) : proc[r].up}
        /\ cmd' = [cmd EXCEPT ![s] = d]
        /\ UNCHANGED <<platform, config, fresh, issued, replaced, clobbered, switched, latest,
                       units, hub, offered, triggers, ops, faults>>
    BY <1>1, <1>2, <1>3, <1>4 DEF install_release, fileVars, hubVars
  <1>6. Shaped(c) /\ FetchOk(c, installed, latest) /\ c \in Cmd /\ c.seen \in Nat
    BY <1>1, CommandOf
  <1>7. c.op = "update" /\ c.role \in Updated
    BY <1>5, <1>6 DEF Shaped, Fetching
  <1>8. d \in Cmd /\ d.op = "update" /\ d.role = c.role /\ d.at = at /\ at \in Control
    <2>1. PICK role \in Updated : role = c.role
      BY <1>7
    <2>2. d = [i EXCEPT !.op = "update", !.role = role, !.at = at]
      BY <1>4, <1>7, <2>1
    <2>3. at \in Control
      BY <1>2 DEF Control
    <2>4. d \in Cmd /\ d.op = "update" /\ d.role = role /\ d.at = at
      BY <1>3, <2>2, <2>3 DEF Cmd
    <2> QED BY <2>1, <2>3, <2>4
  <1>9. Shaped(d)
    <2>1. d.at \in RolesOf(d.role)
      BY <1>2, <1>7, <1>8 DEF RolesOf, Updated, Control
    <2> QED BY <1>7, <1>8, <2>1 DEF Shaped, Control
  <1>10. Fine(d, replaced', clobbered', config'.off, switched', installed', latest')
    <2>1. /\ WriteOk(d, replaced', clobbered') /\ GateOk(d, config'.off, switched', clobbered')
          /\ FetchOk(d, installed', latest')
      BY <1>8 DEF WriteOk, GateOk, FetchOk, Control
    <2> QED BY <1>9, <2>1 DEF Fine
  <1>11. installed' \in 0..latest
    BY <1>5, <1>6, Counts DEF FetchOk
  <1>12. /\ proc' \in Processes
         /\ \A r \in Control : proc'[r].up = proc[r].up /\ proc'[r].key = proc[r].key
    BY <1>5, Counts DEF Replaced, Processes
  <1>13. skipped' \subseteq Control
    BY <1>5, Counts
  <1>14. UpdateReachesServices'
    <2> SUFFICES ASSUME NEW r \in Control, proc[r].up
                 PROVE  Restarting(r)' \/ r \in skipped'
      BY <1>12 DEF UpdateReachesServices
    <2>1. CASE r \in RolesOf(c.role)
      <3>1. d.at = r \/ (d.at = "node" /\ d.role = "all")
        BY <1>2, <1>7, <1>8, <2>1 DEF RolesOf, Updated, Control
      <3>2. cmd'[s] = d
        BY <1>5, Counts
      <3> QED BY <3>1, <3>2 DEF Restarting
    <2> QED BY <1>5, <2>1
  <1> QED BY <1>5, <1>10, <1>11, <1>12, <1>13, <1>14, Counts, OneCommand

\* After one restart comes the other, or the end.
LEMMA NextRestart ==
  ASSUME DeployInv, NEW s \in Shell, NEW c, c = cmd[s], c.at \in Control,
         IF c.at = "node" /\ c.role = "all" THEN cmd' = [cmd EXCEPT ![s].at = "hub"] ELSE Done(s),
         UNCHANGED <<config, replaced, clobbered, switched, installed, latest>>
  PROVE  \E d : /\ cmd' = [cmd EXCEPT ![s] = d]
                /\ Fine(d, replaced', clobbered', config'.off, switched', installed', latest')
                /\ c.at = "node" /\ c.role = "all" => d.at = "hub"
  <1>1. CASE c.at = "node" /\ c.role = "all"
    <2>1. PICK d : d = [c EXCEPT !.at = "hub"]
      OBVIOUS
    <2>2. cmd' = [cmd EXCEPT ![s] = d]
      BY <1>1, <2>1, Counts
    <2>3. Shaped(c) /\ c \in Cmd
      BY CommandOf
    <2>4. d \in Cmd /\ d.op = c.op /\ d.at = "hub" /\ d.role = "all"
      BY <1>1, <2>1, <2>3 DEF Cmd, Control
    <2>5. c.op = "update"
      BY <2>3 DEF Shaped
    <2>6. Shaped(d)
      BY <2>4, <2>5 DEF Shaped, RolesOf, Control, Updated
    <2>7. /\ WriteOk(d, replaced', clobbered') /\ GateOk(d, config'.off, switched', clobbered')
          /\ FetchOk(d, installed', latest')
      BY <2>4 DEF WriteOk, GateOk, FetchOk
    <2> QED BY <2>2, <2>4, <2>6, <2>7 DEF Fine
  <1>2. CASE ~(c.at = "node" /\ c.role = "all")
    <2>1. cmd' = [cmd EXCEPT ![s] = Idle]
      BY <1>2 DEF Done
    <2> QED BY <1>2, <2>1, IdleFine
  <1> QED BY <1>1, <1>2

\* No service is forgotten: the one this restart was for is new or recorded, and the
\* other's is still to come.
LEMMA RestartReaches ==
  ASSUME DeployInv, NEW s \in Shell, NEW c, c = cmd[s], c.at \in Control,
         NEW d, cmd' = [cmd EXCEPT ![s] = d],
         c.at = "node" /\ c.role = "all" => d.at = "hub",
         UNCHANGED installed,
         \A r \in Control : proc'[r].up /\ proc'[r].ver # installed' =>
             /\ proc[r].up /\ proc[r].ver = proc'[r].ver
             /\ r = c.at => r \in skipped'
             /\ r \in skipped => r \in skipped'
  PROVE  UpdateReachesServices'
  <1> SUFFICES ASSUME NEW r \in Control, proc'[r].up, proc'[r].ver # installed'
               PROVE  Restarting(r)' \/ r \in skipped'
    BY DEF UpdateReachesServices
  <1>1. Restarting(r) \/ r \in skipped
    BY DEF DeployInv, UpdateReachesServices
  <1>2. \A t \in Shell : cmd'[t] = IF t = s THEN d ELSE cmd[t]
    BY Counts
  <1>3. CASE Restarting(r) /\ r # c.at
    <2>1. PICK t \in Shell : cmd[t].at = r \/ (cmd[t].at = "node" /\ cmd[t].role = "all")
      BY <1>3 DEF Restarting
    <2>2. CASE t = s
      <3>1. c.at = "node" /\ c.role = "all" /\ r = "hub"
        BY <1>3, <2>1, <2>2 DEF Control
      <3>2. cmd'[s].at = r
        BY <1>2, <3>1
      <3> QED BY <3>2 DEF Restarting
    <2>3. CASE t # s
      <3>1. cmd'[t] = cmd[t]
        BY <1>2, <2>3
      <3> QED BY <2>1, <3>1 DEF Restarting
    <2> QED BY <2>2, <2>3
  <1> QED BY <1>1, <1>3

LEMMA RestartStep ==
  ASSUME DeployInv, NEW s \in Shell, restart(s)
  PROVE  DeployInv'
  <1>1. PICK c : c = cmd[s]
    OBVIOUS
  <1>2. /\ c.at \in Control /\ try_restart(c.at) /\ skipped' = skipped \ {c.at}
        /\ IF c.at = "node" /\ c.role = "all" THEN cmd' = [cmd EXCEPT ![s].at = "hub"] ELSE Done(s)
        /\ UNCHANGED <<platform, config, fresh, issued, replaced, clobbered, switched, latest,
                       installed,
                       units, hub, offered, triggers, ops, faults>>
    BY <1>1 DEF restart, fileVars, binaryVars, hubVars
  <1>3. PICK d : /\ cmd' = [cmd EXCEPT ![s] = d]
                 /\ Fine(d, replaced', clobbered', config'.off, switched', installed', latest')
                 /\ c.at = "node" /\ c.role = "all" => d.at = "hub"
    BY <1>1, <1>2, NextRestart
  <1>4. \/ proc' = proc /\ ~proc[c.at].up
        \/ proc' = [proc EXCEPT ![c.at] = Booted(c.at)]
    BY <1>2 DEF try_restart
  <1>5. /\ proc' \in Processes
        /\ \A q \in Control : proc'[q].up =>
               \/ proc[q].up /\ proc'[q].key = proc[q].key
               \/ proc'[q].key = KeyOf(config, q) /\ proc'[q].key # 0
        /\ proc'[c.at].up => proc'[c.at].ver = installed
        /\ \A q \in Control \ {c.at} : proc'[q] = proc[q]
    BY <1>2, <1>4, Starts, Counts DEF Processes
  <1>6. \A r \in Control : proc'[r].up /\ proc'[r].ver # installed' =>
             /\ proc[r].up /\ proc[r].ver = proc'[r].ver
             /\ r = c.at => r \in skipped'
             /\ r \in skipped => r \in skipped'
    BY <1>2, <1>5
  <1>7. UpdateReachesServices'
    BY <1>1, <1>2, <1>3, <1>6, RestartReaches
  <1>8. skipped' \subseteq Control
    BY <1>2, Counts
  <1> QED BY <1>2, <1>3, <1>5, <1>7, <1>8, Counts, OneCommand

LEMMA RestartFailsStep ==
  ASSUME DeployInv, NEW s \in Shell, RestartFails(s)
  PROVE  DeployInv'
  <1>1. PICK c : c = cmd[s]
    OBVIOUS
  <1>2. /\ c.at \in Control /\ skipped' = skipped \cup {c.at}
        /\ IF c.at = "node" /\ c.role = "all" THEN cmd' = [cmd EXCEPT ![s].at = "hub"] ELSE Done(s)
        /\ UNCHANGED <<platform, config, fresh, issued, replaced, clobbered, switched, latest,
                       installed, units, proc, hub, offered, triggers, ops>>
        /\ faults' = faults \/ (faults < MaxFaults /\ faults' = faults + 1)
    BY <1>1 DEF RestartFails, fileVars, binaryVars, hubVars
  <1>3. PICK d : /\ cmd' = [cmd EXCEPT ![s] = d]
                 /\ Fine(d, replaced', clobbered', config'.off, switched', installed', latest')
                 /\ c.at = "node" /\ c.role = "all" => d.at = "hub"
    BY <1>1, <1>2, NextRestart
  <1>4. \A r \in Control : proc'[r].up /\ proc'[r].ver # installed' =>
             /\ proc[r].up /\ proc[r].ver = proc'[r].ver
             /\ r = c.at => r \in skipped'
             /\ r \in skipped => r \in skipped'
    BY <1>2
  <1>5. UpdateReachesServices'
    BY <1>1, <1>2, <1>3, <1>4, RestartReaches
  <1>6. skipped' \subseteq Control /\ proc' \in Processes
    BY <1>2, Counts
  <1>7. faults' \in 0..MaxFaults
    BY <1>2, Counts, DeploymentAssumption
  <1> QED BY <1>2, <1>3, <1>5, <1>6, <1>7, Counts, OneCommand

\* A command that is killed between two restarts leaves its services recorded.
LEMMA CommandFailsStep ==
  ASSUME DeployInv, NEW s \in Shell, CommandFails(s)
  PROVE  DeployInv'
  <1>1. PICK c : c = cmd[s]
    OBVIOUS
  <1>2. /\ cmd' = [cmd EXCEPT ![s] = Idle]
        /\ faults < MaxFaults /\ faults' = faults + 1
        /\ skipped' = IF c.at \in Control THEN skipped \cup RolesOf(c.role) ELSE skipped
        /\ UNCHANGED <<platform, config, fresh, issued, replaced, clobbered, switched, latest,
                       installed, units, proc, hub, offered, triggers, ops>>
    BY <1>1 DEF CommandFails, Done, fileVars, binaryVars, hubVars
  <1>3. Fine(Idle, replaced', clobbered', config'.off, switched', installed', latest')
    BY IdleFine
  <1>4. Shaped(c)
    BY <1>1, CommandOf
  <1>5. c.at \in Control => c.at \in RolesOf(c.role) /\ RolesOf(c.role) \subseteq Control
    BY <1>4 DEF Shaped, RolesOf, Updated
  <1>6. skipped' \subseteq Control /\ proc' \in Processes /\ skipped \subseteq skipped'
    BY <1>2, <1>5, Counts
  <1>7. faults' \in 0..MaxFaults
    BY <1>2, Counts, DeploymentAssumption
  <1>8. \A t \in Shell : t # s => cmd'[t] = cmd[t]
    BY <1>2, Counts
  <1>9. UpdateReachesServices'
    <2> SUFFICES ASSUME NEW r \in Control, proc[r].up, proc[r].ver # installed
                 PROVE  Restarting(r)' \/ r \in skipped'
      BY <1>2 DEF UpdateReachesServices
    <2>1. Restarting(r) \/ r \in skipped
      BY DEF DeployInv, UpdateReachesServices
    <2>2. CASE Restarting(r)
      <3>1. PICK t \in Shell : cmd[t].at = r \/ (cmd[t].at = "node" /\ cmd[t].role = "all")
        BY <2>2 DEF Restarting
      <3>2. CASE t = s
        <4>1. c.at \in Control /\ (c.at = r \/ c.role = "all")
          BY <1>1, <3>1, <3>2 DEF Control
        <4> QED BY <1>2, <1>5, <4>1 DEF RolesOf
      <3>3. CASE t # s
        BY <1>8, <3>1, <3>3 DEF Restarting
      <3> QED BY <3>2, <3>3
    <2> QED BY <1>6, <2>1, <2>2
  <1> QED BY <1>2, <1>3, <1>6, <1>7, <1>9, Counts, OneCommand

-----------------------------------------------------------------------------
(* Installers, releases and the operator's editor.                         *)

\* What the operators have done bounds the secrets made, now and later.
LEMMA RoomGrows ==
  ASSUME NEW f \in Nat, NEW a \in Nat, NEW b \in Nat, f <= a + 3, a <= b
  PROVE  f <= b + 3
  OBVIOUS

\* A copied binary, with or without a command of its own.
LEMMA CopyStep ==
  ASSUME DeployInv, NEW v \in 0..latest, CopyBinary(v), ops' \in 0..MaxOps, ops <= ops',
         UNCHANGED <<platform, config, fresh, issued, replaced, clobbered, switched, latest,
                     units, hub, offered, triggers, faults>>,
         DOMAIN cmd' = Shell,
         \A t \in Shell :
             cmd'[t] = cmd[t] \/
             Fine(cmd'[t], replaced', clobbered', config'.off, switched', installed', latest')
  PROVE  DeployInv'
  <1>1. installed' = v /\ v \in Version /\ v <= latest /\ latest \in Nat
    BY Counts, DeploymentAssumption DEF CopyBinary, Version
  <1>2. /\ UpdateReachesServices'
        /\ proc' \in [Control -> [up : BOOLEAN, ver : Version, key : Secret, here : BOOLEAN]]
        /\ skipped' \subseteq Control
        /\ \A r \in Control : proc'[r].up => proc[r].up /\ proc'[r].key = proc[r].key
    BY CopyReaches
  <1>3. \A t \in Shell : cmd'[t].op # "none" => cmd'[t].at \in
            {"write", "service", "discover", "sums", "asset", "node", "hub"}
    BY DEF DeployInv, TypeOK, Fine, Shaped, Cmd, Fetching, Control
  <1>4. TypeOK'
    BY <1>1, <1>2, <1>3 DEF DeployInv, TypeOK
  <1>5. Eases
    BY <1>1 DEF Eases
  <1>6. CmdsFine'
    BY <1>4, <1>5, CmdsStay
  <1>7. CredInv'
    BY <1>2, <1>4, <1>5, CredStays
  <1>8. NoCrashLoop'
    BY <1>4, <1>5, GateStays
  <1>9. FreshBound'
    <2>1. fresh \in Nat /\ ops \in Nat /\ ops' \in Nat
      BY Numbers, Counts, DeploymentAssumption DEF DeployInv, TypeOK
    <2>2. fresh' = fresh /\ fresh <= ops + 3 /\ ops <= ops'
      BY DEF DeployInv, FreshBound
    <2>3. fresh' <= ops' + 3
      BY <2>1, <2>2, RoomGrows
    <2> QED BY <2>3 DEF FreshBound
  <1> QED BY <1>2, <1>4, <1>6, <1>7, <1>8, <1>9 DEF DeployInv

LEMMA ReleaseInstallerStep ==
  ASSUME DeployInv, ReleaseInstaller
  PROVE  DeployInv'
  <1>1. /\ ops < MaxOps /\ ops' = ops + 1 /\ CopyBinary(latest)
        /\ UNCHANGED <<platform, config, fresh, issued, replaced, clobbered, switched, latest,
                       units, hub, offered, triggers, faults, cmd>>
    BY DEF ReleaseInstaller, fileVars, hubVars
  <1>2. ops' \in 0..MaxOps /\ ops <= ops' /\ latest \in 0..latest
    BY <1>1, Counts, DeploymentAssumption
  <1> QED BY <1>1, <1>2, Counts, CopyStep

LEMMA ServiceExecutableStep ==
  ASSUME DeployInv, NEW s \in Shell, service_executable(s)
  PROVE  DeployInv'
  <1>1. PICK c : c = cmd[s]
    OBVIOUS
  <1>2. PICK v \in 1..latest : CopyBinary(v) /\ cmd' = [cmd EXCEPT ![s].ver = v]
    BY DEF service_executable
  <1>3. /\ c.at = "service"
        /\ UNCHANGED <<platform, config, fresh, issued, replaced, clobbered, switched, latest,
                       units, hub, offered, triggers, faults, ops>>
    BY <1>1 DEF service_executable, fileVars, hubVars
  <1>4. PICK d : d = [c EXCEPT !.ver = v]
    OBVIOUS
  <1>5. cmd' = [cmd EXCEPT ![s] = d]
    BY <1>1, <1>2, <1>4, Counts
  <1>6. v \in Version /\ v \in 0..latest
    BY Counts, DeploymentAssumption DEF Version
  <1>7. Shaped(c) /\ GateOk(c, config.off, switched, clobbered) /\ c \in Cmd
    BY <1>1, CommandOf
  <1>8. d \in Cmd /\ d.op = c.op /\ d.at = "service" /\ d.todo = c.todo /\ d.ctx = c.ctx
    BY <1>3, <1>4, <1>6, <1>7 DEF Cmd
  <1>9. Shaped(d)
    BY <1>3, <1>7, <1>8 DEF Shaped, Fetching, Control
  <1>10. GateOk(d, config'.off, switched', clobbered')
    BY <1>3, <1>7, <1>8 DEF GateOk
  <1>11. WriteOk(d, replaced', clobbered') /\ FetchOk(d, installed', latest')
    BY <1>8 DEF WriteOk, FetchOk
  <1>12. Fine(d, replaced', clobbered', config'.off, switched', installed', latest')
    BY <1>9, <1>10, <1>11 DEF Fine
  <1>13. DOMAIN cmd' = Shell /\ \A t \in Shell : cmd'[t] = IF t = s THEN d ELSE cmd[t]
    BY <1>5, Counts
  <1>14. ops' \in 0..MaxOps /\ ops <= ops'
    BY <1>3, Counts
  <1> QED BY <1>2, <1>3, <1>6, <1>12, <1>13, <1>14, CopyStep

LEMMA PublishStep ==
  ASSUME DeployInv, PublishRelease
  PROVE  DeployInv'
  <1>1. /\ latest < MaxRelease /\ latest' = latest + 1
        /\ UNCHANGED <<platform, config, fresh, issued, replaced, clobbered, switched, installed,
                       units, proc, skipped, hub, offered, triggers, cmd, ops, faults>>
    BY DEF PublishRelease, fileVars, serviceVars, hubVars
  <1>2. latest' \in Version /\ latest <= latest'
    BY <1>1, Counts, DeploymentAssumption DEF Version
  <1>3. TypeOK' /\ FreshBound'
    BY <1>1, <1>2 DEF DeployInv, TypeOK, FreshBound
  <1>4. Eases
    BY <1>1, <1>2 DEF Eases
  <1>5. CmdsFine'
    BY <1>1, <1>3, <1>4, CmdsStay
  <1>6. CredInv'
    BY <1>1, <1>3, <1>4, CredStays
  <1>7. NoCrashLoop'
    BY <1>1, <1>3, <1>4, GateStays
  <1>8. UpdateReachesServices'
    BY <1>1, ReachStays
  <1> QED BY <1>3, <1>5, <1>6, <1>7, <1>8 DEF DeployInv

\* A module switched off while no command runs and no service needs it concerns
\* neither; any other is recorded.
LEMMA EditModulesStep ==
  ASSUME DeployInv, NEW m \in Module, EditModules(m)
  PROVE  DeployInv'
  <1>1. PICK k : k = config
    OBVIOUS
  <1>2. PICK off : off = IF m \in k.off THEN k.off \ {m} ELSE k.off \cup {m}
    OBVIOUS
  <1>3. /\ ops < MaxOps /\ ops' = ops + 1 /\ config' = [k EXCEPT !.off = off]
        /\ switched' = IF m \in config.off THEN switched \ {m}
                       ELSE IF (\E r \in units : module_for(r) = m) \/ (\E s \in Shell : ~ Free(s))
                       THEN switched \cup {m} ELSE switched
        /\ UNCHANGED <<platform, fresh, issued, replaced, clobbered, latest, installed, units,
                       proc, skipped, hub, offered, triggers, cmd, faults>>
    BY <1>1, <1>2 DEF EditModules, binaryVars, serviceVars, hubVars
  <1>4. k \in Config /\ off \in SUBSET Module
    BY <1>1, <1>2 DEF DeployInv, TypeOK, Config
  <1>5. /\ config' \in Config /\ config'.off = off /\ config'.tokens = config.tokens
        /\ config'.hub = config.hub /\ config'.node = config.node
    BY <1>1, <1>3, <1>4 DEF Config
  <1>6. ops' \in 0..MaxOps /\ ops \in Nat /\ fresh \in Nat
    BY <1>3, Counts, Numbers, DeploymentAssumption DEF DeployInv, TypeOK
  <1>7. switched' \subseteq Module
    BY <1>3 DEF DeployInv, TypeOK
  <1>8. TypeOK' /\ FreshBound'
    <2>1. FreshBound'
      BY <1>3, <1>6 DEF DeployInv, FreshBound
    <2> QED BY <1>3, <1>5, <1>6, <1>7, <2>1 DEF DeployInv, TypeOK
  <1>9. CredInv'
    <2>1. /\ replaced' = replaced /\ clobbered' = clobbered
          /\ issued' = issued /\ proc' = proc
      BY <1>3
    <2> QED BY <1>5, <2>1 DEF DeployInv, CredInv, TokensDistinct, EnrolledStaysEnrolled,
                              NodeMatches, KeysCurrent, KeyOf
  <1>10. UpdateReachesServices'
    BY <1>3, ReachStays
  <1>11. CASE m \in switched' \/ m \in config.off
    <2>1. \A x \in config'.off : x \in switched' \/ (x \in config.off /\ x \notin switched)
      BY <1>1, <1>2, <1>3, <1>5, <1>11
    <2>2. Eases
      BY <1>3, <2>1, Counts DEF Eases
    <2>3. CmdsFine'
      BY <1>3, <1>8, <2>2, CmdsStay
    <2>4. NoCrashLoop'
      BY <1>3, <1>8, <2>2, GateStays
    <2> QED BY <1>8, <1>9, <1>10, <2>3, <2>4 DEF DeployInv
  <1>12. CASE ~(m \in switched' \/ m \in config.off)
    <2>1. /\ switched' = switched /\ config'.off = config.off \cup {m}
          /\ \A r \in units : module_for(r) # m
          /\ \A s \in Shell : cmd[s].op = "none"
      BY <1>1, <1>2, <1>3, <1>5, <1>12 DEF Free
    <2>2. NoCrashLoop'
      BY <1>3, <2>1 DEF DeployInv, NoCrashLoop
    <2>3. CmdsFine'
      <3> SUFFICES ASSUME NEW s \in Shell
                   PROVE  Fine(cmd[s], replaced', clobbered', config'.off, switched', installed', latest')
        BY <1>3 DEF CmdsFine
      <3>1. PICK c : c = cmd[s]
        OBVIOUS
      <3>2. Shaped(c) /\ c.at = ""
        BY <2>1, <3>1, CommandOf DEF Shaped
      <3>3. /\ WriteOk(c, replaced', clobbered') /\ GateOk(c, config'.off, switched', clobbered')
            /\ FetchOk(c, installed', latest')
        BY <3>2 DEF WriteOk, GateOk, FetchOk
      <3> QED BY <3>1, <3>2, <3>3 DEF Fine
    <2> QED BY <1>8, <1>9, <1>10, <2>2, <2>3 DEF DeployInv
  <1> QED BY <1>11, <1>12

-----------------------------------------------------------------------------
(* The hub and the node update themselves.                                 *)

\* A step that changes no command, file, binary or service.
LEMMA QuietStep ==
  ASSUME DeployInv,
         UNCHANGED <<platform, config, fresh, issued, replaced, clobbered, switched, latest,
                     installed, units, proc, skipped, cmd, ops, faults>>,
         hub' \in Version, offered' \in Version, triggers' \in 0..MaxTriggers
  PROVE  DeployInv'
  <1>1. TypeOK' /\ FreshBound'
    BY DEF DeployInv, TypeOK, FreshBound
  <1>2. Eases
    BY Counts DEF Eases
  <1>3. CmdsFine'
    BY <1>1, <1>2, CmdsStay
  <1>4. CredInv'
    BY <1>1, <1>2, CredStays
  <1>5. NoCrashLoop'
    BY <1>1, <1>2, GateStays
  <1>6. UpdateReachesServices'
    BY ReachStays
  <1> QED BY <1>1, <1>3, <1>4, <1>5, <1>6 DEF DeployInv

\* A job is started in a shell that had none.
LEMMA JobStep ==
  ASSUME DeployInv, NEW s \in Shell, Free(s), NEW role \in Updated, NEW target \in Version,
         cmd' = [cmd EXCEPT ![s] = Updater(role, target)],
         UNCHANGED <<platform, config, fresh, issued, replaced, clobbered, switched, latest,
                     installed, units, proc, skipped, ops, faults>>,
         hub' \in Version, offered' \in Version, triggers' \in 0..MaxTriggers
  PROVE  DeployInv'
  <1>1. PICK d : d = Updater(role, target)
    OBVIOUS
  <1>2. /\ d \in Cmd /\ d.op = "update" /\ d.at = "discover" /\ d.role = role
        /\ d.target = target /\ d.ver = installed
    BY <1>1, UpdaterFields
  <1>3. Fine(d, replaced', clobbered', config'.off, switched', installed', latest')
    BY <1>2, NewUpdater
  <1>4. cmd[s].at \notin Control
    <2>1. PICK c : c = cmd[s]
      OBVIOUS
    <2>2. Shaped(c) /\ c.op = "none"
      BY <2>1, CommandOf DEF Free
    <2> QED BY <2>1, <2>2 DEF Shaped, Control
  <1>5. cmd' = [cmd EXCEPT ![s] = d] /\ faults' \in 0..MaxFaults
    BY <1>1, Counts
  <1> QED BY <1>3, <1>4, <1>5, FetchStep

LEMMA CheckUpdateStep ==
  ASSUME DeployInv, check_official_update
  PROVE  DeployInv'
  <1>1. /\ triggers < MaxTriggers /\ triggers' = triggers + 1 /\ hub' = latest
        /\ UNCHANGED <<platform, config, fresh, issued, replaced, clobbered, switched, latest,
                       installed, units, proc, skipped, cmd, ops, faults, offered>>
    BY DEF check_official_update, fileVars, binaryVars, serviceVars
  <1>2. triggers' \in 0..MaxTriggers /\ hub' \in Version /\ offered' \in Version
    BY <1>1, Counts, DeploymentAssumption
  <1> QED BY <1>1, <1>2, QuietStep

LEMMA TriggerStep ==
  ASSUME DeployInv, trigger_update
  PROVE  DeployInv'
  <1>1. /\ hub' = 0
        /\ UNCHANGED <<platform, config, fresh, issued, replaced, clobbered, switched, latest,
                       installed, units, proc, skipped, triggers, ops, faults>>
    BY DEF trigger_update, fileVars, binaryVars, serviceVars
  <1>2. offered' \in Version /\ hub' \in Version /\ triggers' \in 0..MaxTriggers
    BY <1>1, Counts, Numbers DEF trigger_update, dispatch_update_to_nodes
  <1>3. \/ UNCHANGED cmd
        \/ Free("hubjob") /\ cmd' = [cmd EXCEPT !["hubjob"] = Updater("all", hub)]
    BY DEF trigger_update, schedule_local_update
  <1>4. CASE UNCHANGED cmd
    BY <1>1, <1>2, <1>4, QuietStep
  <1>5. CASE Free("hubjob") /\ cmd' = [cmd EXCEPT !["hubjob"] = Updater("all", hub)]
    <2>1. "hubjob" \in Shell /\ "all" \in Updated
      BY DEF Shell, Updated
    <2> QED BY <1>1, <1>2, <1>5, <2>1, Counts, JobStep
  <1> QED BY <1>3, <1>4, <1>5

LEMMA LaunchStep ==
  ASSUME DeployInv, launch_node_update
  PROVE  DeployInv'
  <1>1. /\ offered' = 0
        /\ UNCHANGED <<platform, config, fresh, issued, replaced, clobbered, switched, latest,
                       installed, units, proc, skipped, hub, triggers, ops, faults>>
        /\ \/ UNCHANGED cmd
           \/ Free("nodejob") /\ cmd' = [cmd EXCEPT !["nodejob"] = Updater("node", offered)]
    BY DEF launch_node_update, fileVars, binaryVars, serviceVars
  <1>2. offered' \in Version /\ hub' \in Version /\ triggers' \in 0..MaxTriggers
    BY <1>1, Counts, Numbers
  <1>3. CASE UNCHANGED cmd
    BY <1>1, <1>2, <1>3, QuietStep
  <1>4. CASE Free("nodejob") /\ cmd' = [cmd EXCEPT !["nodejob"] = Updater("node", offered)]
    <2>1. "nodejob" \in Shell /\ "node" \in Updated
      BY DEF Shell, Updated, Control
    <2> QED BY <1>1, <1>2, <1>4, <2>1, Counts, JobStep
  <1> QED BY <1>1, <1>3, <1>4

-----------------------------------------------------------------------------
(* Every step, and what follows.                                           *)

LEMMA DeployStep ==
  ASSUME DeployInv, [Next]_vars
  PROVE  DeployInv'
  <1>1. ASSUME NEW s \in Operator, ConfigCommand(s) \/ ManualUpdate(s)
        PROVE  DeployInv'
    BY <1>1, InitServerStep, InitAgentStep, RunInstallStep, InstallHubStep, InstallNodeStep,
       CreateTokenStep, RevokeTokenStep, ManualUpdateStep DEF ConfigCommand, PanelInstall
  <1>2. ASSUME NEW s \in Shell,
               \/ WriteConfig(s) \/ install_roles_into(s) \/ service_executable(s)
               \/ UpdateStep(s) \/ CommandFails(s)
        PROVE  DeployInv'
    BY <1>2, WriteConfigStep, InstallRolesStep, ServiceExecutableStep, DiscoverStep, DownloadStep,
       UnverifiedStep, InstallReleaseStep, RestartStep, RestartFailsStep, CommandFailsStep
       DEF UpdateStep
  <1>3. ASSUME NEW m \in Module, EditModules(m)
        PROVE  DeployInv'
    BY <1>3, EditModulesStep
  <1>4. CASE \/ PublishRelease \/ ReleaseInstaller
             \/ check_official_update \/ trigger_update \/ launch_node_update
    BY <1>4, PublishStep, ReleaseInstallerStep, CheckUpdateStep, TriggerStep, LaunchStep
  <1>5. CASE UNCHANGED vars
    BY <1>5, Counts, QuietStep DEF vars, fileVars, binaryVars, serviceVars, hubVars
  <1> QED BY <1>1, <1>2, <1>3, <1>4, <1>5 DEF Next

\* Init establishes the invariant and every step keeps it, whatever commands
\* overlap, fail or are killed: the base of the theorems below.
THEOREM DeployInvariant == Spec => []DeployInv
  <1>1. Init => DeployInv
    BY DeployInit
  <1>2. DeployInv /\ [Next]_vars => DeployInv'
    BY DeployStep
  <1> QED BY <1>1, <1>2, PTL DEF Spec

\* The commands that rewrite the config file leave its credentials valid: no two
\* machines share a secret, a machine that was given one stays enrolled with it, and
\* the hub and the node that run have one secret, unless an operator replaced it or
\* a command wrote back a file that another had changed.
THEOREM CredentialsAreKept == Spec => []CredentialsHold
  <1>1. ASSUME DeployInv
        PROVE  CredentialsHold
    <2>1. TypeOK /\ TokensDistinct /\ EnrolledStaysEnrolled /\ NodeMatches /\ KeysCurrent
      BY <1>1 DEF DeployInv, CredInv
    <2>2. NodeStaysAccepted
      <3>1. config.node \in {0, config.hub} \/ replaced \/ clobbered
        BY <2>1 DEF NodeMatches
      <3>2. ASSUME \A r \in Control : proc[r].up, ~replaced, ~clobbered
            PROVE  proc["node"].key = proc["hub"].key
        <4>1. /\ proc["hub"].key # 0 /\ proc["hub"].key = config.hub
              /\ proc["node"].key # 0 /\ proc["node"].key = config.node
          BY <2>1, <3>2 DEF KeysCurrent, KeyOf, Control
        <4> QED BY <3>1, <3>2, <4>1
      <3> QED BY <3>1, <3>2 DEF NodeStaysAccepted
    <2> QED BY <2>1, <2>2 DEF CredentialsHold
  <1> QED BY <1>1, DeployInvariant, PTL

\* An installed service is not one that the module gate stops at every start, and a
\* hub or node on an older binary than the one installed is one that the update in
\* progress will restart, or one recorded as left behind.
THEOREM ServicesKeepRunning == Spec => []ServicesRun
  <1>1. DeployInv => ServicesRun
    BY DEF DeployInv, ServicesRun
  <1> QED BY <1>1, DeployInvariant, PTL

\* What replaces the binary at the path.
LEMMA BinaryReplaced ==
  ASSUME Next, installed' # installed
  PROVE  \/ \E s \in Operator : install_ssh(s)
         \/ \E s \in Shell : install_release(s) \/ service_executable(s)
         \/ ReleaseInstaller
  <1>1. ASSUME NEW s \in Operator, ConfigCommand(s) \/ ManualUpdate(s)
        PROVE  install_ssh(s)
    BY <1>1 DEF ConfigCommand, ManualUpdate, init_server, init_agent, run_install, install_hub,
                install_node, PanelInstall, create_machine_token, revoke_machine_token, binaryVars
  <1>2. ASSUME NEW s \in Shell,
               \/ WriteConfig(s) \/ install_roles_into(s) \/ service_executable(s)
               \/ UpdateStep(s) \/ CommandFails(s)
        PROVE  install_release(s) \/ service_executable(s)
    BY <1>2 DEF WriteConfig, install_roles_into, UpdateStep, CommandFails, discover_release,
                DownloadSums, Unverified, restart, RestartFails, binaryVars
  <1>3. ASSUME NEW m \in Module, EditModules(m)
        PROVE  FALSE
    BY <1>3 DEF EditModules, binaryVars
  <1>4. ~PublishRelease /\ ~check_official_update /\ ~trigger_update /\ ~launch_node_update
    BY DEF PublishRelease, check_official_update, trigger_update, launch_node_update, binaryVars
  <1> QED BY <1>1, <1>2, <1>3, <1>4 DEF Next

\* "Refuses downgrades": an update that was not forced, and whose binary nobody
\* replaced while it was downloading, installs a release that is not older, though
\* the job that decides is itself an older image and the latest release may change
\* between its requests.
THEOREM UpdatesNeverDowngrade == Spec => NoDowngrade
  <1> DEFINE Keeps == \A s \in Shell : /\ cmd[s].at = "asset" /\ cmd'[s].at \in Control
                                       /\ cmd[s].ver # 0 /\ cmd[s].base = installed
                                      => installed' >= installed
  <1>1. ASSUME DeployInv, [Next]_vars
        PROVE  [Keeps]_vars
    <2> SUFFICES ASSUME Next, installed' # installed, NEW s \in Shell,
                        cmd[s].at = "asset", cmd'[s].at \in Control,
                        cmd[s].ver # 0, cmd[s].base = installed
                 PROVE  installed' >= installed
      <3>1. installed' = installed => installed' >= installed
        BY <1>1, Counts
      <3> QED BY <1>1, <3>1
    <2>1. DOMAIN cmd = Shell /\ cmd'[s] # cmd[s]
      BY <1>1, Counts DEF Control
    <2>2. ASSUME NEW t \in Operator, install_ssh(t)
          PROVE  FALSE
      <3>1. PICK c : c.at = "write" /\ t \in Shell /\ cmd' = [cmd EXCEPT ![t] = c]
        <4>1. PICK b : b = Run(t, "node", "write")
          OBVIOUS
        <4>2. PICK c : c = [b EXCEPT !.todo = <<"node">>, !.seen = proc["hub"].key]
          OBVIOUS
        <4>3. b.at = "write"
          BY <4>1 DEF Run, Idle
        <4>4. c.at = "write"
          BY <4>1, <4>2, <4>3 DEF Run, Idle
        <4>5. cmd' = [cmd EXCEPT ![t] = c]
          BY <2>2, <4>1, <4>2 DEF install_ssh, NodeInstall, Begin
        <4> QED BY <4>4, <4>5 DEF Shell
      <3> QED BY <2>1, <3>1 DEF Control
    <2>3. ASSUME NEW t \in Shell, service_executable(t)
          PROVE  FALSE
      <3>1. cmd[t].at = "service" /\ t # s
        BY <2>3 DEF service_executable
      <3>2. cmd'[s] = cmd[s]
        BY <2>1, <2>3, <3>1 DEF service_executable
      <3> QED BY <2>1, <3>2
    <2>4. ~ReleaseInstaller
      BY <2>1 DEF ReleaseInstaller
    <2>5. ASSUME NEW t \in Shell, install_release(t)
          PROVE  installed' >= installed
      <3>1. t = s
        BY <2>1, <2>5 DEF install_release
      <3>2. PICK c : c = cmd[s]
        OBVIOUS
      <3>3. FetchOk(c, installed, latest) /\ c.seen \in Nat /\ c.base \in Nat
        BY <1>1, <3>2, CommandOf
      <3>4. installed' = c.seen
        BY <2>5, <3>1, <3>2 DEF install_release
      <3> QED BY <3>2, <3>3, <3>4 DEF FetchOk
    <2> QED BY <2>2, <2>3, <2>4, <2>5, BinaryReplaced
  <1>2. DeployInv /\ [Next]_vars => [Keeps]_vars
    BY <1>1
  <1> QED BY <1>2, DeployInvariant, PTL DEF Spec, NoDowngrade
=============================================================================
