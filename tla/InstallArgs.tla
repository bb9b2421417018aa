---------------------------- MODULE InstallArgs ----------------------------
(* How an installation asked for in the hub's panel reaches the machine: the *)
(* panel's request becomes the arguments of a command on the hub, which for  *)
(* a remote machine writes a shell command for ssh, in which the same        *)
(* installer reads arguments again. Text is a sequence of pieces, the        *)
(* characters a shell or a check tells apart among them; an argument is the  *)
(* name of an option, whether a value is joined to it, and that value, and   *)
(* one with no name is a bare value. A result is a set, empty for an error.  *)
EXTENDS Naturals, Sequences, SequencesExt

Blank(text) == \A i \in DOMAIN text : text[i] = " "
LongestName == 3                    \* 200 characters
Unsafe(text) == Len(text) > LongestName \/ \E i \in DOMAIN text : text[i] \in {"'", "\"", "$"}

Joined(name, value) == [name |-> name, eq |-> TRUE, value |-> value]
Alone(name) == [name |-> name, eq |-> FALSE, value |-> <<>>]
Bare(value) == [name |-> "", eq |-> FALSE, value |-> value]
TextOf(arg) == IF arg.name = "" THEN arg.value
               ELSE <<"--", arg.name>> \o (IF arg.eq THEN <<"=">> \o arg.value ELSE <<>>)

-----------------------------------------------------------------------------
(* The panel. A field of a request that is left out is a set without a text. *)

safe_identifier(value) == ~Blank(value) /\ ~Unsafe(value)
push_option(name, field) ==
    IF \E v \in field : ~Blank(v) THEN <<Joined(name, CHOOSE v \in field : TRUE)>> ELSE <<>>

install_args(r) ==
    LET some == \A v \in r.host \cup r.user : safe_identifier(v)
        node == <<Joined("hub-url", r.hub_url), Joined("id", r.node_id)>>
                    \o push_option("workspace", r.workspace)
                    \o push_option("claude-bin", r.claude_bin)
                    \o push_option("codex-bin", r.codex_bin)
        ssh == <<Joined("host", CHOOSE v \in r.host : TRUE)>>
                   \o push_option("user", r.user)
                   \o push_option("port", r.port)
                   \o push_option("identity", r.identity) IN
    IF ~safe_identifier(r.node_id) \/ Head(r.hub_url) \notin {"ws://", "wss://"} THEN {}
    ELSE IF r.mode = "local" THEN {node}
    ELSE IF r.host = {} \/ ~some \/ r.port = {<<"0">>} THEN {}
    ELSE {node \o ssh}

-----------------------------------------------------------------------------
(* The installer's own reading of its arguments.                           *)

\* The last value given for a name, joined or as the argument after it.
option(args, name) ==
    LET Step(s, i) ==
            IF s.skip THEN [s EXCEPT !.skip = FALSE]
            ELSE IF args[i] = Alone(name)
                 THEN [skip |-> TRUE,
                       found |-> IF i < Len(args) THEN {TextOf(args[i + 1])} ELSE s.found]
            ELSE IF args[i].name = name THEN [s EXCEPT !.found = {args[i].value}]
            ELSE s
        found == FoldLeft(Step, [skip |-> FALSE, found |-> {}], [i \in DOMAIN args |-> i]).found IN
    {v \in found : ~Blank(v)}

unwrap_or(found, default) == IF found = {} THEN default ELSE CHOOSE v \in found : TRUE

\* Every argument is a known option with a value; only no-start has none.
reject_unknown(args, allowed) ==
    LET Step(s, i) ==
            IF ~s.ok THEN s
            ELSE IF s.skip THEN [s EXCEPT !.skip = FALSE]
            ELSE IF args[i].name \notin allowed THEN [s EXCEPT !.ok = FALSE]
            ELSE IF args[i].eq \/ args[i].name = "no-start" THEN s
            ELSE [skip |-> TRUE, ok |-> i < Len(args)] IN
    FoldLeft(Step, [skip |-> FALSE, ok |-> TRUE], [i \in DOMAIN args |-> i]).ok

required_node_token(args, env) == unwrap_or(option(args, "token"), env.token)
validate_hub_url(url) ==
    Len(url) = 2 /\ url[1] \in {"ws://", "wss://", "http://", "https://"}
validate_simple(value) == value # <<>> /\ ~Unsafe(value)

NodeOptions == {"hub-url", "id", "token", "workspace", "claude-bin", "codex-bin"}

\* The control.node section that install_node writes.
NodeSettings(args, env) ==
    LET url == option(args, "hub-url")
        settings == [hub_url |-> unwrap_or(url, <<>>),
                     id |-> unwrap_or(option(args, "id"), env.hostname),
                     token |-> required_node_token(args, env),
                     workspace |-> unwrap_or(option(args, "workspace"), env.home),
                     claude_bin |-> unwrap_or(option(args, "claude-bin"), <<"claude">>),
                     codex_bin |-> unwrap_or(option(args, "codex-bin"), <<"codex">>)] IN
    IF /\ reject_unknown(args, NodeOptions \cup {"no-start"})
       /\ url # {} /\ validate_hub_url(settings.hub_url)
       /\ ~Blank(settings.token) /\ validate_simple(settings.id)
    THEN {settings} ELSE {}

-----------------------------------------------------------------------------
(* The shell command for the remote machine.                               *)

shell_quotePlain(value) == <<"'">> \o value \o <<"'">>
\* In single quotes, with each single quote of the value put in double ones.
shell_quote(value) ==
    <<"'">> \o FlattenSeq([i \in DOMAIN value |->
                              IF value[i] = "'" THEN <<"'", "\"", "'", "\"", "'">> ELSE <<value[i]>>])
            \o <<"'">>

Flags == [hub_url |-> "--hub-url=", id |-> "--id=", claude_bin |-> "--claude-bin=",
          codex_bin |-> "--codex-bin=", workspace |-> "--workspace="]

ssh_plan(target, port, identity, settings, workspace) ==
    LET Word(flag, value) == <<" ", flag>> \o shell_quote(value) IN
    IF ~validate_simple(target) THEN {}
    ELSE {[target |-> target, port |-> port, identity |-> identity, input |-> settings.token,
           command |-> Word(Flags.hub_url, settings.hub_url) \o Word(Flags.id, settings.id)
                           \o Word(Flags.claude_bin, settings.claude_bin)
                           \o Word(Flags.codex_bin, settings.codex_bin)
                           \o (IF workspace = {} THEN <<>>
                               ELSE Word(Flags.workspace, CHOOSE v \in workspace : TRUE))]}

SshPlan(args, env) ==
    LET host == option(args, "host")
        user == option(args, "user")
        target == IF user = {} THEN unwrap_or(host, <<>>)
                  ELSE unwrap_or(user, <<>>) \o <<"@">> \o unwrap_or(host, <<>>)
        port == unwrap_or(option(args, "port"), <<"22">>)
        identity == option(args, "identity")
        settings == [hub_url |-> unwrap_or(option(args, "hub-url"), <<>>),
                     id |-> unwrap_or(option(args, "id"), ReplaceAll(target, "@", "-")),
                     token |-> required_node_token(args, env),
                     claude_bin |-> unwrap_or(option(args, "claude-bin"), <<"claude">>),
                     codex_bin |-> unwrap_or(option(args, "codex-bin"), <<"codex">>)] IN
    IF /\ reject_unknown(args, NodeOptions \cup {"host", "user", "port", "identity"})
       /\ host # {} /\ \A v \in host \cup user : validate_simple(v)
       /\ port # <<"0">> /\ validate_hub_url(settings.hub_url) /\ validate_simple(settings.id)
       /\ ~Blank(settings.token) /\ identity \subseteq env.identities
    THEN ssh_plan(target, port, identity, settings, option(args, "workspace")) ELSE {}

-----------------------------------------------------------------------------
\* The words a shell makes of a command line: quotes group, and a dollar sign that is
\* not in single quotes is replaced by something else.
sh(line) ==
    LET Put(s, piece) == [s EXCEPT !.word = Append(@, IF piece = "$" THEN "expanded" ELSE piece)]
        Step(s, piece) ==
            CASE s.mode = "'" -> IF piece = "'" THEN [s EXCEPT !.mode = ""]
                                 ELSE [s EXCEPT !.word = Append(@, piece)]
              [] s.mode = "\"" -> IF piece = "\"" THEN [s EXCEPT !.mode = ""] ELSE Put(s, piece)
              [] piece = " " -> IF s.word = <<>> THEN s
                                ELSE [s EXCEPT !.words = Append(@, s.word), !.word = <<>>]
              [] piece \in {"'", "\""} -> [s EXCEPT !.mode = piece]
              [] OTHER -> Put(s, piece)
        end == FoldLeft(Step, [mode |-> "", word |-> <<>>, words |-> <<>>], line) IN
    IF end.word = <<>> THEN end.words ELSE Append(end.words, end.word)

\* What a program started by that shell sees.
Argument(word) ==
    CASE word[1] = Flags.hub_url -> Joined("hub-url", Tail(word))
      [] word[1] = Flags.id -> Joined("id", Tail(word))
      [] word[1] = Flags.claude_bin -> Joined("claude-bin", Tail(word))
      [] word[1] = Flags.codex_bin -> Joined("codex-bin", Tail(word))
      [] word[1] = Flags.workspace -> Joined("workspace", Tail(word))
      [] OTHER -> Bare(word)

\* The remote shell reads the token from its standard input and becomes the installer.
Remotely(plan, env) ==
    LET words == sh(plan.command) IN
    NodeSettings([i \in DOMAIN words |-> Argument(words[i])], [env EXCEPT !.token = plan.input])
=============================================================================
