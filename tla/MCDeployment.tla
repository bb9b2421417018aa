---------------------------- MODULE MCDeployment ----------------------------
(***************************************************************************)
(* A machine's installation, and in its first state every request that the *)
(* panel's form can make of the installer.                                 *)
(***************************************************************************)
EXTENDS Deployment, InstallArgs

Plain == <<"x">>
Spaced == <<"x", " ", "y">>
Quoted == <<"x", "'", "y">>
Mixed == <<"'", "\"", "$", " ", "x">>
White == <<" ">>
Wide == <<"x", "x", "x">>
Requests ==
    [mode : {"local", "ssh"}, node_id : {Plain, Spaced, Quoted, White, Append(Wide, "x")},
     hub_url : {<<"ws://", "h">>, <<"ws://">>, <<"http://", "h">>},
     workspace : {{}, {Quoted}, {Spaced}, {White}}, claude_bin : {{}, {Mixed}}, codex_bin : {{}, {Plain}},
     host : {{}, {Plain}, {Wide}}, user : {{}, {Plain}, {<<>>}},
     port : {{}, {<<"0">>}, {<<"2222">>}}, identity : {{}, {<<"key">>}, {<<"gone">>}}]

Hub == [token |-> <<"secret">>, hostname |-> <<"hub">>, home |-> <<"hub home">>, identities |-> {<<"key">>}]
Remote == [token |-> <<>>, hostname |-> <<"remote">>, home |-> <<"remote home">>, identities |-> {}]

Wanted(r, home) ==
    LET Chosen(field, default) == IF \E v \in field : ~Blank(v) THEN CHOOSE v \in field : TRUE ELSE default IN
    [hub_url |-> r.hub_url, id |-> r.node_id, token |-> Hub.token,
     workspace |-> Chosen(r.workspace, home),
     claude_bin |-> Chosen(r.claude_bin, <<"claude">>), codex_bin |-> Chosen(r.codex_bin, <<"codex">>)]

\* The same arguments with each value as an argument of its own.
Apart(args) == FlattenSeq([i \in DOMAIN args |-> <<Alone(args[i].name), Bare(args[i].value)>>])

\* A machine gets what was asked for it in the panel: whatever the fields hold, quotes,
\* spaces and dollar signs included, an accepted request configures the node with
\* exactly these values, read once on the hub and for a remote machine once more through
\* its shell, with the hub's own token and the machine's own home.  What the panel
\* accepts fails later only for a URL without a host, a key file that is not there or
\* a login longer than a name may be.
InstallAsAsked ==
    Init /\ platform = "linux" /\ units = {} =>
    \A r \in Requests : \A args \in install_args(r) :
        LET local == NodeSettings(args, Hub)
            plans == SshPlan(args, Hub)
            late == \/ Len(r.hub_url) < 2
                    \/ r.mode = "ssh" /\ (r.identity = {<<"gone">>} \/ (r.user # {} /\ r.host = {Wide})) IN
        /\ \A i \in DOMAIN args : args[i].name # "token"
        /\ IF late THEN (IF r.mode = "local" THEN local ELSE plans) = {}
           ELSE IF r.mode = "local" THEN local = {Wanted(r, Hub.home)}
           ELSE /\ \A p \in plans :
                       /\ Remotely(p, Remote) = {Wanted(r, Remote.home)}
                       /\ p.port = IF r.port = {} THEN <<"22">> ELSE <<"2222">>
                       /\ p.identity = r.identity /\ {Last(p.target)} = {Last(h) : h \in r.host}
                       /\ Len(p.target) > 2 <=> r.user # {} \/ r.host = {Wide}
                /\ plans # {}
        /\ NodeSettings(Apart(args), Hub) = local /\ SshPlan(Apart(args), Hub) = plans
=============================================================================
