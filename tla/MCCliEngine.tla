---------------------------- MODULE MCCliEngine ----------------------------
(***************************************************************************)
(* One run with two prompts and an interrupt, and a second run whose       *)
(* engine is not supported.  What a prompt hands to the engine and takes   *)
(* back is a function of its run, and is looked at in the first state.     *)
(***************************************************************************)
EXTENDS CliEngine, EngineArgv

CONSTANTS start, p1, p2, stop, start2, q1, r1, r2

Work(kind, r) == [kind |-> kind, run_id |-> r]

MCWorkOf == [c \in {start, p1, p2, stop, start2, q1} |->
                CASE c = start -> Work("start_run", r1)
                  [] c \in {p1, p2} -> Work("send_prompt", r1)
                  [] c = stop -> Work("interrupt_run", r1)
                  [] c = start2 -> Work("start_run", r2)
                  [] c = q1 -> Work("send_prompt", r2)]

Engines == {builtin_claude, builtin_codex}

Specs == [model : {Absent, "m", "--json"}, effort : {Absent, "high"},
          system_prompt : {Absent, "blank", "rules"},
          policy : {"supervised", "automatic", "full_access"}]

\* Streams of up to three lines.
Line(def) ==
    [type : IF def.kind = "claude" THEN {"noise", "system", "assistant", "result"}
            ELSE {"noise", "thread.started", "item.completed"},
     session : {Absent, "s1", "s2"}, text : {<<>>, <<"a">>, <<"b", "c">>}]
Stream(def) == UNION {[1..n -> Line(def)] : n \in 0..2}
                   \cup [1..3 -> {l \in Line(def) : l.session = Absent}]

-----------------------------------------------------------------------------
(* How the two programs read their command line: an option that takes a    *)
(* value takes the next argument, whatever it is.                          *)

TakesValue == {"--output-format", "--permission-mode", "--append-system-prompt", "--model",
               "--resume", "--sandbox", "-c"}
Switch == {"-p", "--verbose", "--include-partial-messages", "--json",
           "--skip-git-repo-check", "--dangerously-bypass-approvals-and-sandbox"}

IsValue(argv) ==
    LET is[i \in DOMAIN argv] == i > 1 /\ argv[i - 1] \in TakesValue /\ ~is[i - 1]
    IN  is

ValueOf(argv, option) ==
    {argv[i] : i \in {j \in DOMAIN argv : IsValue(argv)[j] /\ argv[j - 1] = option}}

Switches(argv) == {argv[i] : i \in {j \in DOMAIN argv : ~IsValue(argv)[j]}} \cap Switch

Positionals(argv) ==
    LET at == {i \in DOMAIN argv : ~IsValue(argv)[i] /\ argv[i] \notin Switch \cup TakesValue}
    IN  [k \in 1..Cardinality(at) |->
            argv[CHOOSE i \in at : Cardinality({j \in at : j <= i}) = k]]

Given(value) == {value} \ {Absent}

\* The engine reads back what the run asked for: its session, model, effort and
\* permissions, and nothing else, in any combination; "-" stays the last word of
\* codex, or it would not read the prompt from its input; only full access bypasses
\* the sandbox.
EngineReadsRequest ==
    seen = {} =>
    \A def \in Engines : \A spec \in Specs : \A session \in {Absent, "s1", "-"} :
        LET argv == Turn(def, spec, session, <<>>).argv
            full == spec.policy = "full_access" IN
        /\ ValueOf(argv, "--model") = Given(spec.model)
        /\ IF def.kind = "claude"
           THEN /\ Positionals(argv) = <<>>
                /\ ValueOf(argv, "--resume") = Given(session)
                /\ ValueOf(argv, "--permission-mode")
                       = {IF full THEN "bypassPermissions" ELSE "default"}
                /\ ValueOf(argv, "--output-format") = {"stream-json"} /\ "-p" \in Switches(argv)
           ELSE /\ Positionals(argv) = (IF session = Absent THEN <<"exec", "-">>
                                        ELSE <<"exec", "resume", session, "-">>)
                /\ Last(argv) = "-"
                /\ ValueOf(argv, "-c") = Given(spec.effort)
                /\ "--json" \in Switches(argv)
                /\ ValueOf(argv, "--sandbox") = IF full THEN {} ELSE {"workspace-write"}
                /\ full <=> "--dangerously-bypass-approvals-and-sandbox" \in Switches(argv)

\* Two prompts of a run are one conversation: the second resumes the session the
\* first one's stream named, and the rules reach the engine exactly once in
\* every session: as an argument of each claude turn, or in front of the prompt
\* that begins a codex session.
ConversationContinues ==
    seen = {} =>
    \A def \in Engines : \A spec \in Specs : \A lines \in Stream(def) :
        LET first == Turn(def, spec, Absent, lines)
            known == first.result.session_id
            second == Turn(def, spec, known, <<>>)
            named == {i \in DOMAIN lines : lines[i].type # "noise" /\ lines[i].session # Absent
                                              /\ lines[i].type # "item.completed"}
            Rules(turn) == Cardinality(ValueOf(turn.argv, "--append-system-prompt"))
                               + Cardinality({i \in DOMAIN turn.prompt : turn.prompt[i] = "system"}) IN
        /\ (known = Absent) = (named = {})
        /\ known # Absent => known \in {lines[i].session : i \in named}
        /\ known # Absent => ("--resume" \in Range(second.argv) \/ "resume" \in Range(second.argv))
        /\ spec.system_prompt = "rules" =>
               /\ Rules(first) = 1
               /\ Rules(second) = IF def.kind = "codex" /\ known # Absent THEN 0 ELSE 1

\* A reply is not cut: claude's is its last text, or a result no shorter; codex's is
\* every message in order.  Lines that are not events change nothing.
ReplyIsWhole ==
    seen = {} =>
    \A def \in Engines : \A lines \in Stream(def) :
        LET text == StreamState(def.kind, Absent, lines).text
            real == SelectSeq(lines, LAMBDA l : l.type # "noise")
            said == SelectSeq(real, LAMBDA l : /\ l.type \in {"assistant", "item.completed"}
                                               /\ l.text # <<>>) IN
        /\ text = StreamState(def.kind, Absent, real).text
        /\ said # <<>> =>
               IF def.kind = "claude" THEN Len(text) >= Len(Last(said).text)
               ELSE SelectSeq(text, LAMBDA c : c # "\n\n")
                        = FlattenSeq([i \in DOMAIN said |-> said[i].text])

\* Request, session and reply survive the engine's command line: what is asked is what
\* the engine reads, a later prompt goes on in the same session, and the reported
\* reply is what was streamed.
EngineUnderstands == EngineReadsRequest /\ ConversationContinues /\ ReplyIsWhole
=============================================================================
