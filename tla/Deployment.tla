----------------------------- MODULE Deployment -----------------------------
(* One machine's installation: the config file, which every command reads,   *)
(* changes and replaces whole with no lock; the service units; the binary at *)
(* ~/.local/bin/stackhour, which updates replace under the running hub and   *)
(* node; and the update jobs that the hub and the node start for themselves. *)
(* stackhour init, token, install, control install, control update, and the  *)
(* hub's automatic updates. Commands overlap; a secret is a number.          *)
EXTENDS Naturals, Sequences, FiniteSets, TLC

CONSTANTS
    Operator,       \* the shells operators type commands in
    MaxRelease,     \* releases that are ever published
    MaxOps,         \* commands an operator starts
    MaxTriggers,    \* updates the hub triggers
    MaxFaults       \* failing downloads and restarts, killed commands

ASSUME DeploymentAssumption ==
    /\ MaxRelease \in Nat \ {0}
    /\ MaxOps \in Nat /\ MaxTriggers \in Nat /\ MaxFaults \in Nat

Name == {"local", "laptop"}         \* machines with a token of the tracker
Control == {"hub", "node"}
Role == {"server", "agent"} \cup Control
Module == {"tracker", "agent", "control"}
Shell == Operator \cup {"hubjob", "nodejob"}
Shells == Permutations(Operator)
Secret == 0..(MaxOps + 3)           \* 0: none
Version == 0..MaxRelease

module_for(r) == CASE r = "server" -> "tracker"
                   [] r = "agent" -> "agent"
                   [] r \in Control -> "control"

Config == [server : BOOLEAN, tokens : [Name -> Secret], agent : Secret,
           hub : Secret, node : Secret, off : SUBSET Module]

VARIABLES
    platform,   \* "linux" or "macos"
    latest,     \* the release that .../releases/latest serves
    installed,  \* the version at ~/.local/bin/stackhour
    config,     \* the config file
    units,      \* the roles whose service is installed
    proc,       \* the hub's and the node's process: up, version, secret, and
                \* whether it runs the file that is at the path now
    cmd,        \* the commands in progress
    hub,        \* trigger_update in the hub: the version it found, or 0
    offered,    \* the Update the node has not handled, or 0
    fresh,      \* the next generated secret
    issued,     \* what token create last printed for a machine, until revoked
    replaced,   \* an operator supplied another node token
    clobbered,  \* a command wrote back a config that had changed since it read it
    switched,   \* modules an operator turned off under an installed service
    skipped,    \* control roles left on an older binary by who replaced it
    ops, triggers, faults

fileVars == <<config, fresh, issued, replaced, clobbered, switched>>
binaryVars == <<latest, installed>>
serviceVars == <<units, proc, skipped>>
hubVars == <<hub, offered, triggers>>
vars == <<platform, fileVars, binaryVars, serviceVars, hubVars, cmd, ops, faults>>

Idle == [op |-> "none", at |-> "", raw |-> 0, todo |-> <<>>, ctx |-> {},
         role |-> "", target |-> 0, ver |-> 0, seen |-> 0, base |-> 0]
Down == [up |-> FALSE, ver |-> 0, key |-> 0, here |-> FALSE]

TypeOK ==
    /\ platform \in {"linux", "macos"}
    /\ latest \in Version /\ installed \in Version
    /\ config \in Config /\ issued \in [Name -> Secret] /\ fresh \in Secret
    /\ units \subseteq Role /\ skipped \subseteq Control /\ switched \subseteq Module
    /\ proc \in [Control -> [up : BOOLEAN, ver : Version, key : Secret, here : BOOLEAN]]
    /\ DOMAIN cmd = Shell
    /\ \A s \in Shell : cmd[s].op # "none" => cmd[s].at \in
           {"write", "service", "discover", "sums", "asset", "node", "hub"}
    /\ hub \in Version /\ offered \in Version
    /\ replaced \in BOOLEAN /\ clobbered \in BOOLEAN
    /\ ops \in 0..MaxOps /\ triggers \in 0..MaxTriggers /\ faults \in 0..MaxFaults

\* An empty machine, or one that was set up with everything running; a binary
\* built from source may be ahead of the latest release.
Init ==
    /\ platform \in {"linux", "macos"}
    /\ latest = 1 /\ installed \in 1..MaxRelease
    /\ \E ready \in BOOLEAN :
       LET k(n) == IF ready THEN n ELSE 0 IN
       /\ installed > latest => ready
       /\ config = [server |-> ready, tokens |-> [n \in Name |-> IF n = "local" THEN k(1) ELSE 0],
                    agent |-> k(1), hub |-> k(2), node |-> k(2), off |-> {}]
       /\ units = IF ready THEN Control \cup {"server"} ELSE {}
       /\ proc = [r \in Control |->
                    IF ready THEN [up |-> TRUE, ver |-> installed, key |-> 2, here |-> TRUE]
                    ELSE Down]
    /\ fresh = 3 /\ issued = [n \in Name |-> 0]
    /\ cmd = [s \in Shell |-> Idle] /\ hub = 0 /\ offered = 0
    /\ replaced = FALSE /\ clobbered = FALSE
    /\ switched = {} /\ skipped = {}
    /\ ops = 0 /\ triggers = 0 /\ faults = 0

-----------------------------------------------------------------------------
(* Files, services and the binary.                                         *)

\* The module gate; a module that is not mentioned is on.
gate(m) == m \notin config.off

\* What a command wrote back is what it read, changed: a config that has
\* changed in between is lost.
write_raw_config(s, new) ==
    /\ config' = new
    /\ clobbered' = (clobbered \/ config # cmd[s].raw)

\* A started process passes the gate and needs its secret; otherwise it exits,
\* and the service manager starts it again and again.
Booted(r) ==
    LET key == IF r = "hub" THEN config.hub ELSE config.node IN
    IF gate("control") /\ key # 0
    THEN [up |-> TRUE, ver |-> installed, key |-> key, here |-> TRUE] ELSE Down

\* systemctl enable --now leaves a running service alone; launchctl kickstart -k
\* starts it anew.
start_unit(r) ==
    IF r \notin Control \/ (platform = "linux" /\ proc[r].up)
    THEN UNCHANGED <<proc, skipped>>
    ELSE proc' = [proc EXCEPT ![r] = Booted(r)] /\ skipped' = skipped \ {r}

install_service(r) == units' = units \cup {r} /\ start_unit(r)

\* try-restart touches only an active unit; kickstart fails without a unit.
CanRestart(r) == platform = "linux" \/ r \in units
try_restart(r) ==
    IF platform = "linux" /\ ~ proc[r].up THEN UNCHANGED proc
    ELSE proc' = [proc EXCEPT ![r] = Booted(r)]

\* atomic_write over the binary: processes keep the file they run, but on Linux
\* their current_exe now names a deleted file.
Replaced == [r \in Control |-> [proc[r] EXCEPT !.here = FALSE]]
current_exe(r) == proc[r].up /\ (platform = "macos" \/ proc[r].here)

\* An installer's copy: nothing that runs is restarted.
CopyBinary(v) ==
    /\ installed' = v /\ proc' = Replaced
    /\ skipped' = {r \in Control : proc[r].up}

-----------------------------------------------------------------------------
(* Commands that change the config file: read, decide, write, and perhaps    *)
(* install services.                                                         *)

Free(s) == cmd[s].op = "none"
Begin(s, c) ==
    /\ s \in Operator /\ Free(s) /\ ops < MaxOps /\ ops' = ops + 1
    /\ cmd' = [cmd EXCEPT ![s] = c]
Run(s, op, at) == [Idle EXCEPT !.op = op, !.at = at, !.raw = config, !.ctx = config.off]
Done(s) == cmd' = [cmd EXCEPT ![s] = Idle]

\* service_roles_for: installing the server installs its agent too.
service_roles_for(role) == IF role = "server" THEN <<"server", "agent">> ELSE <<role>>

init_server(s) ==
    /\ gate("tracker") /\ \E force \in BOOLEAN : force \/ ~ config.server
    /\ \E todo \in {<<>>, service_roles_for("server")} :
           Begin(s, [Run(s, "init_server", "write") EXCEPT !.todo = todo, !.seen = fresh])
    /\ fresh' = fresh + 1
    /\ UNCHANGED <<platform, config, issued, replaced, clobbered, switched, binaryVars,
                   serviceVars, hubVars, faults>>

init_agent(s) ==
    /\ gate("agent") /\ \E force \in BOOLEAN : force \/ config.agent = 0
    /\ \E token \in {config.tokens[n] : n \in Name} \ {0}, todo \in {<<>>, service_roles_for("agent")} :
           Begin(s, [Run(s, "init_agent", "write") EXCEPT !.todo = todo, !.seen = token])
    /\ UNCHANGED <<platform, fileVars, binaryVars, serviceVars, hubVars, faults>>

\* A supplied secret that another machine has is refused; so is a machine that
\* has one, unless the operator forces the rotation.
create_machine_token(s, n) ==
    /\ gate("tracker") /\ config.server
    /\ \E force \in BOOLEAN : force \/ config.tokens[n] = 0
    /\ \E token \in ({fresh} \cup {config.tokens[other] : other \in Name}) \ {0} :
       /\ \A other \in Name \ {n} : config.tokens[other] # token
       /\ fresh' = IF token = fresh THEN fresh + 1 ELSE fresh
       /\ Begin(s, [Run(s, "create", "write") EXCEPT !.role = n, !.seen = token])
    /\ UNCHANGED <<platform, config, issued, replaced, clobbered, switched, binaryVars,
                   serviceVars, hubVars, faults>>

revoke_machine_token(s, n) ==
    /\ gate("tracker") /\ config.server /\ config.tokens[n] # 0
    /\ Begin(s, [Run(s, "revoke", "write") EXCEPT !.role = n])
    /\ UNCHANGED <<platform, fileVars, binaryVars, serviceVars, hubVars, faults>>

\* control install hub keeps the token there is, or the one it is given, or
\* makes one.
install_hub(s) ==
    /\ gate("control")
    /\ \E supplied \in BOOLEAN :
       LET token == IF supplied \/ config.hub = 0 THEN fresh ELSE config.hub IN
       /\ fresh' = IF token = fresh THEN fresh + 1 ELSE fresh
       /\ replaced' = (replaced \/ (supplied /\ config.hub # 0))
       /\ Begin(s, [Run(s, "hub", "write") EXCEPT !.todo = <<"hub">>, !.seen = token])
    /\ UNCHANGED <<platform, config, issued, clobbered, switched, binaryVars, serviceVars,
                   hubVars, faults>>

\* control install node is handed the running hub's token, by the operator who
\* saved what the hub's installation printed, or by the panel, which starts the
\* hub's own binary.
NodeInstall(s) ==
    /\ gate("control") /\ proc["hub"].up
    /\ Begin(s, [Run(s, "node", "write") EXCEPT !.todo = <<"node">>, !.seen = proc["hub"].key])
install_node(s) ==
    /\ NodeInstall(s)
    /\ UNCHANGED <<platform, fileVars, binaryVars, serviceVars, hubVars, faults>>
PanelInstall(s) == current_exe("hub") /\ install_node(s)

\* Over SSH the release installer runs first: it installs what is latest, and
\* restarts nothing.
install_ssh(s) ==
    /\ NodeInstall(s) /\ CopyBinary(latest)
    /\ UNCHANGED <<platform, fileVars, latest, units, hubVars, faults>>

\* Mutant: token create writes a map of one.
NewConfigOnlyOne(c) ==
    CASE c.op = "init_server" ->
           [c.raw EXCEPT !.server = TRUE,
                         !.tokens = [n \in Name |-> IF n = "local" THEN c.seen ELSE 0],
                         !.agent = IF @ = 0 THEN c.seen ELSE @]
      [] c.op = "init_agent" -> [c.raw EXCEPT !.agent = c.seen]
      [] c.op = "create" -> [c.raw EXCEPT !.tokens = [n \in Name |-> IF n = c.role THEN c.seen ELSE 0]]
      [] c.op = "revoke" -> [c.raw EXCEPT !.tokens[c.role] = 0]
      [] c.op = "hub" -> [c.raw EXCEPT !.hub = c.seen, !.off = @ \ {"control"}]
      [] c.op = "node" -> [c.raw EXCEPT !.node = c.seen, !.off = @ \ {"control"}]

\* The config each of them writes.
NewConfig(c) ==
    CASE c.op = "init_server" ->
           [c.raw EXCEPT !.server = TRUE,
                         !.tokens = [n \in Name |-> IF n = "local" THEN c.seen ELSE 0],
                         !.agent = IF @ = 0 THEN c.seen ELSE @]
      [] c.op = "init_agent" -> [c.raw EXCEPT !.agent = c.seen]
      [] c.op = "create" -> [c.raw EXCEPT !.tokens[c.role] = c.seen]
      [] c.op = "revoke" -> [c.raw EXCEPT !.tokens[c.role] = 0]
      [] c.op = "hub" -> [c.raw EXCEPT !.hub = c.seen, !.off = @ \ {"control"}]
      [] c.op = "node" -> [c.raw EXCEPT !.node = c.seen, !.off = @ \ {"control"}]

\* The credentials that operators have in hand after it.
Printed(c) ==
    CASE c.op = "init_server" -> [n \in Name |-> 0]
      [] c.op = "create" -> [issued EXCEPT ![c.role] = c.seen]
      [] c.op = "revoke" -> [issued EXCEPT ![c.role] = 0]
      [] OTHER -> issued

\* init --install asks the gate again, of the file it has just written.
WriteConfig(s) ==
    LET c == cmd[s] IN
    /\ c.at = "write" /\ write_raw_config(s, NewConfig(c))
    /\ issued' = Printed(c)
    /\ switched' = IF c.op \in Control THEN switched \ {"control"} ELSE switched
    /\ IF c.todo = <<>> THEN Done(s)
       ELSE cmd' = [cmd EXCEPT ![s] = [Idle EXCEPT !.op = c.op, !.at = "service",
                                                   !.todo = c.todo, !.ctx = config'.off]]
    /\ UNCHANGED <<platform, fresh, replaced, binaryVars, serviceVars, hubVars, ops, faults>>

\* stackhour install server | agent: the gate's context is from the start.
run_install(s) ==
    /\ \E role \in {"server", "agent"} :
       /\ gate(module_for(role))
       /\ Begin(s, [Run(s, "install", "service") EXCEPT !.todo = service_roles_for(role), !.raw = 0])
    /\ UNCHANGED <<platform, fileVars, binaryVars, serviceVars, hubVars, faults>>

\* One role's service: skipped when its module is off. launchd has no server.
install_roles_into(s) ==
    LET c == cmd[s] r == Head(c.todo) IN
    /\ c.at = "service"
    /\ IF r = "server" /\ platform = "macos" /\ module_for(r) \notin c.ctx
       THEN Done(s) /\ UNCHANGED <<units, proc, skipped>>
       ELSE /\ IF module_for(r) \in c.ctx THEN UNCHANGED <<units, proc, skipped>>
               ELSE install_service(r)
            /\ IF Len(c.todo) = 1 THEN Done(s)
               ELSE cmd' = [cmd EXCEPT ![s].todo = Tail(@)]
    /\ UNCHANGED <<platform, fileVars, binaryVars, hubVars, ops, faults>>

\* The release installer asks for no version: it installs what is latest.
ReleaseInstaller ==
    /\ ops < MaxOps /\ ops' = ops + 1
    /\ CopyBinary(latest)
    /\ UNCHANGED <<platform, fileVars, latest, units, hubVars, cmd, faults>>

\* control install, run from a copy elsewhere, puts itself at the path first.
service_executable(s) ==
    /\ cmd[s].op \in Control /\ cmd[s].at = "service" /\ cmd[s].ver = 0
    /\ \E v \in 1..latest : /\ v # installed /\ CopyBinary(v)
                           /\ cmd' = [cmd EXCEPT ![s].ver = v]
    /\ UNCHANGED <<platform, fileVars, latest, units, hubVars, ops, faults>>

\* An operator's editor.
EditModules(m) ==
    /\ ops < MaxOps /\ ops' = ops + 1
    /\ config' = [config EXCEPT !.off = IF m \in @ THEN @ \ {m} ELSE @ \cup {m}]
    /\ switched' = IF m \in config.off THEN switched \ {m}
                   ELSE IF (\E r \in units : module_for(r) = m) \/ (\E s \in Shell : ~ Free(s))
                   THEN switched \cup {m} ELSE switched
    /\ UNCHANGED <<platform, fresh, issued, replaced, clobbered, binaryVars, serviceVars,
                   hubVars, cmd, faults>>

-----------------------------------------------------------------------------
(* control update.                                                         *)

PublishRelease ==
    /\ latest < MaxRelease /\ latest' = latest + 1
    /\ UNCHANGED <<platform, fileVars, installed, serviceVars, hubVars, cmd, ops, faults>>

\* A job runs the image that was at the path when it started.
Updater(role, target) ==
    [Idle EXCEPT !.op = "update", !.at = "discover", !.role = role, !.target = target,
                 !.ver = installed]
ManualUpdate(s) ==
    /\ gate("control")
    /\ \E role \in Control \cup {"all"}, force \in BOOLEAN :
           Begin(s, [Updater(role, 0) EXCEPT !.ver = IF force THEN 0 ELSE @])
    /\ UNCHANGED <<platform, fileVars, binaryVars, serviceVars, hubVars, faults>>

\* Mutant: any other version will do.
update_availableDiffers(c) == latest # c.ver

\* latest > current, where current is compiled into the job; a forced update
\* compares with nothing.
update_available(c) == latest > c.ver

\* Not the release it was asked for, or nothing newer: the command ends.
discover_release(s) ==
    LET c == cmd[s] IN
    /\ c.at = "discover"
    /\ IF c.target \in {0, latest} /\ update_available(c)
       THEN cmd' = [cmd EXCEPT ![s].at = "sums", ![s].target = 0, ![s].base = installed] ELSE Done(s)
    /\ UNCHANGED <<platform, fileVars, binaryVars, serviceVars, hubVars, ops, faults>>

\* SHA256SUMS and the archive are two downloads of the release that is latest
\* then; archives that do not match the sums are refused.
DownloadSums(s) ==
    /\ cmd[s].at = "sums"
    /\ cmd' = [cmd EXCEPT ![s].at = "asset", ![s].seen = latest]
    /\ UNCHANGED <<platform, fileVars, binaryVars, serviceVars, hubVars, ops, faults>>
Unverified(s) ==
    /\ cmd[s].at = "asset" /\ cmd[s].seen # latest /\ Done(s)
    /\ UNCHANGED <<platform, fileVars, binaryVars, serviceVars, hubVars, ops, faults>>

\* Verified, extracted, and some time later written.
RolesOf(role) == IF role = "all" THEN Control ELSE {role}
install_release(s) ==
    LET c == cmd[s] IN
    /\ c.at = "asset"
    /\ installed' = c.seen /\ proc' = Replaced
    /\ skipped' = (skipped \ RolesOf(c.role)) \cup {r \in Control \ RolesOf(c.role) : proc[r].up}
    /\ cmd' = [cmd EXCEPT ![s] = [Idle EXCEPT !.op = c.op, !.role = c.role,
                                              !.at = IF c.role = "hub" THEN "hub" ELSE "node"]]
    /\ UNCHANGED <<platform, fileVars, latest, units, hubVars, ops, faults>>

\* Mutant: the coordinator is left running.
restartOnlyNode(s) ==
    LET c == cmd[s] IN
    /\ c.at \in Control /\ CanRestart(c.at) /\ try_restart(c.at)
    /\ skipped' = skipped \ {c.at}
    /\ Done(s)
    /\ UNCHANGED <<platform, fileVars, binaryVars, units, hubVars, ops, faults>>

\* The node before the hub; only a node-only update minds a failed restart.
restart(s) ==
    LET c == cmd[s] IN
    /\ c.at \in Control /\ CanRestart(c.at) /\ try_restart(c.at)
    /\ skipped' = skipped \ {c.at}
    /\ IF c.at = "node" /\ c.role = "all"
       THEN cmd' = [cmd EXCEPT ![s].at = "hub"] ELSE Done(s)
    /\ UNCHANGED <<platform, fileVars, binaryVars, units, hubVars, ops, faults>>
RestartFails(s) ==
    LET c == cmd[s] IN
    /\ c.at \in Control
    /\ IF CanRestart(c.at) THEN faults < MaxFaults /\ faults' = faults + 1 ELSE UNCHANGED faults
    /\ skipped' = skipped \cup {c.at}
    /\ IF c.at = "node" /\ c.role = "all"
       THEN cmd' = [cmd EXCEPT ![s].at = "hub"] ELSE Done(s)
    /\ UNCHANGED <<platform, fileVars, binaryVars, units, proc, hubVars, ops>>

\* A download fails, or a command is killed; what it wrote stays.
CommandFails(s) ==
    /\ ~ Free(s) /\ Done(s)
    /\ faults < MaxFaults /\ faults' = faults + 1
    /\ skipped' = IF cmd[s].at \in Control THEN skipped \cup RolesOf(cmd[s].role) ELSE skipped
    /\ UNCHANGED <<platform, fileVars, binaryVars, units, proc, hubVars, ops>>

-----------------------------------------------------------------------------
(* The hub updates itself and its nodes.                                   *)

\* The check is run by the binary at the hub's own path.
check_official_update ==
    /\ hub = 0 /\ triggers < MaxTriggers /\ triggers' = triggers + 1
    /\ current_exe("hub") /\ gate("control") /\ latest > installed
    /\ hub' = latest
    /\ UNCHANGED <<platform, fileVars, binaryVars, serviceVars, offered, cmd, ops, faults>>

\* Every connected node first, then a job for the hub's own machine, under a
\* name that only one job can have.
dispatch_update_to_nodes ==
    IF proc["node"].up /\ proc["node"].key = proc["hub"].key THEN hub ELSE offered
schedule_local_update ==
    IF current_exe("hub") /\ Free("hubjob") THEN [cmd EXCEPT !["hubjob"] = Updater("all", hub)]
    ELSE cmd
trigger_update ==
    /\ hub # 0 /\ hub' = 0
    /\ IF proc["hub"].up
       THEN /\ offered' \in {dispatch_update_to_nodes, offered}
            /\ cmd' = schedule_local_update
       ELSE UNCHANGED <<offered, cmd>>
    /\ UNCHANGED <<platform, fileVars, binaryVars, serviceVars, triggers, ops, faults>>

launch_node_update ==
    /\ offered # 0 /\ offered' = 0
    /\ IF current_exe("node") /\ Free("nodejob")
       THEN cmd' = [cmd EXCEPT !["nodejob"] = Updater("node", offered)] ELSE UNCHANGED cmd
    /\ UNCHANGED <<platform, fileVars, binaryVars, serviceVars, hub, triggers, ops, faults>>

-----------------------------------------------------------------------------
ConfigCommand(s) ==
    \/ init_server(s) \/ init_agent(s) \/ run_install(s)
    \/ install_hub(s) \/ install_node(s) \/ PanelInstall(s) \/ install_ssh(s)
    \/ \E n \in Name : create_machine_token(s, n) \/ revoke_machine_token(s, n)
UpdateStep(s) ==
    \/ discover_release(s) \/ DownloadSums(s) \/ Unverified(s)
    \/ install_release(s) \/ restart(s) \/ RestartFails(s)

Next ==
    \/ \E s \in Operator : ConfigCommand(s) \/ ManualUpdate(s)
    \/ \E s \in Shell : \/ WriteConfig(s) \/ install_roles_into(s) \/ service_executable(s)
                        \/ UpdateStep(s) \/ CommandFails(s)
    \/ \E m \in Module : EditModules(m)
    \/ PublishRelease \/ ReleaseInstaller
    \/ check_official_update \/ trigger_update \/ launch_node_update

Spec == Init /\ [][Next]_vars

-----------------------------------------------------------------------------
(* Correctness.                                                            *)

\* "token is already assigned to another machine": a secret names one machine,
\* or authenticate would take one for the other.
TokensDistinct ==
    \A a, b \in Name : config.tokens[a] = config.tokens[b] => a = b \/ config.tokens[a] = 0

\* A machine that was given a token stays enrolled with it through every other
\* command, until it is revoked, rotated, or the server is initialised anew. A
\* command that overlaps another can undo this: none of them takes a lock.
EnrolledStaysEnrolled ==
    \A n \in Name : issued[n] # 0 => config.tokens[n] = issued[n] \/ clobbered

\* "The installer keeps existing tokens": whatever is reinstalled, the hub goes on
\* accepting the node, unless an operator replaced the token or commands overlapped.
NodeStaysAccepted ==
    /\ config.node \in {0, config.hub} \/ replaced \/ clobbered
    /\ (\A r \in Control : proc[r].up) => proc["node"].key = proc["hub"].key \/ replaced \/ clobbered

\* "A crash loop every ten seconds, forever": no installation leaves a service
\* whose every start the gate refuses, unless the module was switched off later.
NoCrashLoop ==
    \A r \in units : module_for(r) \in config.off => module_for(r) \in switched \/ clobbered

\* "Refuses downgrades": without --force, an update never replaces the binary it
\* found when it looked for a release by an older one.
NoDowngrade ==
    [][\A s \in Shell : /\ cmd[s].at = "asset" /\ cmd'[s].at \in Control
                        /\ cmd[s].ver # 0 /\ cmd[s].base = installed
                       => installed' >= installed]_vars

Restarting(r) ==
    \E s \in Shell : \/ cmd[s].at = r
                     \/ cmd[s].at = "node" /\ cmd[s].role = "all"

\* "Restarts nodes and then the coordinator": when an update has ended, the hub
\* and the node run what is installed, but for a failed restart and for a binary
\* replaced by the other's own update or by an installer.
UpdateReachesServices ==
    \A r \in Control : proc[r].up /\ proc[r].ver # installed => Restarting(r) \/ r \in skipped

\* Overlapping commands leave credentials valid: no two machines share a secret, an
\* enrolled machine stays enrolled, and the hub accepts its nodes.
CredentialsHold ==
    /\ TypeOK
    /\ TokensDistinct
    /\ EnrolledStaysEnrolled
    /\ NodeStaysAccepted

\* The installed services run, and run the installed binary.
ServicesRun == NoCrashLoop /\ UpdateReachesServices
=============================================================================
