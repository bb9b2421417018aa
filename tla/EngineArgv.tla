----------------------------- MODULE EngineArgv -----------------------------
(***************************************************************************)
(* What a turn hands to a coding engine and takes back: the argv templates *)
(* of crates/stackhour-core/src/engine.rs, the system prompt, and the      *)
(* stream parsers of crates/stackhour-node/src/process.rs.                 *)
(*                                                                         *)
(* An argument is a token; a placeholder is the name of the variable it    *)
(* stands for, and the text around one is left out.  A reply is a sequence *)
(* of characters, a line of output what the parser looks for in it.  No    *)
(* built-in engine takes its prompt as an argument or prints plain lines.  *)
(***************************************************************************)
EXTENDS Integers, SequencesExt

Absent == "absent"

Placeholder == {"session_id", "model", "permission_mode", "system_prompt", "effort",
                "allowed_tools", "disallowed_tools"}

\* A template that an engine does not have is empty.
builtin_claude ==
    [kind |-> "claude", args |-> <<"-p", "--output-format", "stream-json", "--verbose">>,
     resume |-> "flag", resume_args |-> <<"--resume", "session_id">>,
     partial_messages_flag |-> <<"--include-partial-messages">>,
     permission_args |-> <<"--permission-mode", "permission_mode">>,
     system_prompt_args |-> <<"--append-system-prompt", "system_prompt">>,
     model_args |-> <<"--model", "model">>, effort_args |-> <<>>,
     allowed_tools_args |-> <<"--allowedTools", "allowed_tools">>,
     disallowed_tools_args |-> <<"--disallowedTools", "disallowed_tools">>]

builtin_codex ==
    [kind |-> "codex", args |-> <<"exec", "--json", "--skip-git-repo-check", "-">>,
     resume |-> "subcommand", resume_args |-> <<"resume">>,
     partial_messages_flag |-> <<>>,
     permission_args |-> <<"--sandbox", "workspace-write">>,
     system_prompt_args |-> <<>>,
     model_args |-> <<"--model", "model">>, effort_args |-> <<"-c", "effort">>,
     allowed_tools_args |-> <<>>, disallowed_tools_args |-> <<>>]

-----------------------------------------------------------------------------
(* Argv.                                                                   *)

subst(a, v) ==
    IF a \notin Placeholder THEN a
    ELSE IF v[a] # Absent THEN v[a]
    ELSE IF a = "permission_mode" THEN "default" ELSE ""

Rendered(template, v) == [i \in DOMAIN template |-> subst(template[i], v)]

permission_argv(def, v) ==
    IF v.permission_mode = "bypassPermissions" /\ "permission_mode" \notin Range(def.permission_args)
    THEN <<"--dangerously-bypass-approvals-and-sandbox">>
    ELSE Rendered(def.permission_args, v)

\* The arguments spliced in before the stdin sentinel, in this order.
Spliced(def, v) ==
    LET When(name, template) == IF v[name] = Absent THEN <<>> ELSE Rendered(template, v) IN
    (IF v.live_status THEN def.partial_messages_flag ELSE <<>>)
        \o permission_argv(def, v)
        \o When("system_prompt", def.system_prompt_args)
        \o When("model", def.model_args)
        \o When("effort", def.effort_args)
        \o When("allowed_tools", def.allowed_tools_args)
        \o When("disallowed_tools", def.disallowed_tools_args)

\* Where a trailing "-" begins, or the end.
Splice(argv) == IF argv # <<>> /\ Last(argv) = "-" THEN Len(argv) - 1 ELSE Len(argv)

Inserted(argv, at, items) == SubSeq(argv, 1, at) \o items \o SubSeq(argv, at + 1, Len(argv))

\* Mutant of assemble_argv: the session id is appended after the sentinel.
assemble_argvSessionLast(def, v) ==
    LET base == Rendered(def.args, v)
        out == Inserted(base, Splice(base), Spliced(def, v)) IN
    IF v.session_id = Absent THEN out
    ELSE IF def.resume = "flag" THEN out \o Rendered(def.resume_args, v)
    ELSE Inserted(out, 1, def.resume_args) \o <<v.session_id>>

assemble_argv(def, v) ==
    LET base == Rendered(def.args, v)
        out == Inserted(base, Splice(base), Spliced(def, v)) IN
    IF v.session_id = Absent THEN out
    ELSE IF def.resume = "flag" THEN out \o Rendered(def.resume_args, v)
    ELSE LET sub == Inserted(out, IF out = <<>> THEN 0 ELSE 1, def.resume_args)
         IN  Inserted(sub, Splice(sub), <<v.session_id>>)

-----------------------------------------------------------------------------
(* One turn's request.  A prompt is the sequence of its parts.             *)

\* The access policy as the engines know it.
permission_mode(policy) == IF policy = "full_access" THEN "bypassPermissions" ELSE "default"

RunRequest(spec, session) ==
    [prompt |-> <<"user">>, session_id |-> session, model |-> spec.model,
     system_prompt |-> spec.system_prompt, effort |-> spec.effort,
     permission_mode |-> permission_mode(spec.policy), live_status |-> TRUE]

\* An engine without a system prompt argument gets it in front of the prompt, when
\* a session begins.
apply_system_prompt(def, request) ==
    IF \/ def.system_prompt_args # <<>>
       \/ request.session_id # Absent /\ def.kind # "claude"
       \/ request.system_prompt = Absent
    THEN request
    ELSE [request EXCEPT !.system_prompt = Absent,
                         !.prompt = IF request.system_prompt = "blank" THEN @
                                    ELSE <<"system">> \o @]

build_argv(def, request) ==
    assemble_argv(def, [session_id |-> request.session_id, model |-> request.model,
                        permission_mode |-> request.permission_mode,
                        system_prompt |-> request.system_prompt, effort |-> request.effort,
                        allowed_tools |-> Absent, disallowed_tools |-> Absent,
                        live_status |-> request.live_status])

-----------------------------------------------------------------------------
(* The stream: a line is [type, session, text], "noise" when it is blank,  *)
(* not JSON, or of no interest.                                            *)

feed_claude(s, line) ==
    [session_id |-> IF line.session # Absent /\ (s.session_id = Absent \/ line.type = "result")
                    THEN line.session ELSE s.session_id,
     text |-> IF \/ line.type = "assistant" /\ line.text # <<>>
                 \/ line.type = "result" /\ Len(line.text) >= Len(s.text)
              THEN line.text ELSE s.text]

\* Messages are joined by a blank line.
feed_codex(s, line) ==
    CASE line.type = "thread.started" /\ line.session # Absent ->
             [s EXCEPT !.session_id = line.session]
      [] line.type = "item.completed" /\ line.text # <<>> ->
             [s EXCEPT !.text = IF @ = <<>> THEN line.text ELSE @ \o <<"\n\n">> \o line.text]
      [] OTHER -> s

feed(kind, s, line) ==
    IF line.type = "noise" THEN s
    ELSE IF kind = "claude" THEN feed_claude(s, line) ELSE feed_codex(s, line)

StreamState(kind, session, lines) ==
    FoldLeft(LAMBDA s, line : feed(kind, s, line),
             [session_id |-> session, text |-> <<>>], lines)

\* spawn_engine, and the session the next turn of the run starts from.
Turn(def, spec, session, lines) ==
    LET request == apply_system_prompt(def, RunRequest(spec, session)) IN
    [argv |-> build_argv(def, request), prompt |-> request.prompt,
     result |-> StreamState(def.kind, session, lines)]
=============================================================================
