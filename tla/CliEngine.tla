----------------------------- MODULE CliEngine -----------------------------
(***************************************************************************)
(* The node's production engine: CliEngine of                              *)
(* crates/stackhour-node/src/engine.rs and the child processes of          *)
(* process.rs.  The receive loop calls dispatch and cancel one at a time;  *)
(* each prompt has a process, and a task that waits for it and reports.    *)
(*                                                                         *)
(* Any command may arrive at any time and again: NodeLink shows that live  *)
(* sends, replays and reconnections duplicate and reorder dispatches.      *)
(* Acknowledgements and the delivery of reports are NodeLink's.            *)
(***************************************************************************)
EXTENDS Integers, FiniteSets

CONSTANTS
    CommandId, Run,
    None,
    WorkOf,      \* the NodeWork of each command: [kind, run_id]
    Unsupported  \* runs whose engine is neither claude nor codex

ASSUME EngineAssumption ==
    /\ None \notin CommandId \cup Run \cup {"run.completed", "run.failed", "run.interrupted"}
    /\ WorkOf \in [CommandId -> [kind : {"start_run", "send_prompt", "interrupt_run"},
                               run_id : Run]]
    /\ Unsupported \in SUBSET Run

VARIABLES
    runs,         \* CliState.runs: runs a StartRun has announced
    jobs,         \* CliState.jobs: the prompt whose job is filed under a run
    command_runs, \* CliState.command_runs
    seen,         \* CliState.seen
    interrupted,  \* CliState.interrupted
    process,      \* the child of each prompt; its pid slot is set while "running"
    stopping,     \* the job stop_run is about to terminate
    signalled,    \* prompts whose process got a SIGTERM while it ran
    reported,     \* the outcome event emitted for each prompt
    overlapped    \* history: runs prompted again before their last prompt's report

cliVars == <<runs, jobs, command_runs, seen, interrupted, process, stopping, signalled,
             reported, overlapped>>

Prompt == {c \in CommandId : WorkOf[c].kind = "send_prompt"}
RunOf(c) == WorkOf[c].run_id

EngineTypeOK ==
    /\ runs \in SUBSET Run
    /\ jobs \in [Run -> Prompt \cup {None}]
    /\ command_runs \in [CommandId -> Run \cup {None}]
    /\ seen \in SUBSET CommandId
    /\ interrupted \in SUBSET Run
    /\ process \in [Prompt -> {"none", "running", "succeeded", "failed"}]
    /\ stopping \in Prompt \cup {None}
    /\ signalled \in SUBSET Prompt
    /\ reported \in [Prompt -> {None, "run.completed", "run.failed", "run.interrupted"}]
    /\ overlapped \in SUBSET Run

EngineInit ==
    /\ runs = {}
    /\ jobs = [r \in Run |-> None]
    /\ command_runs = [c \in CommandId |-> None]
    /\ seen = {} /\ interrupted = {}
    /\ process = [c \in Prompt |-> "none"]
    /\ stopping = None /\ signalled = {}
    /\ reported = [c \in Prompt |-> None]
    /\ overlapped = {}

\* Prompts of a run that were taken and have no outcome yet.
Open(r) == {c \in Prompt : RunOf(c) = r /\ c \in seen /\ reported[c] = None}

-----------------------------------------------------------------------------
(* The receive loop.  It is busy while stop_run has a job to terminate.    *)

\* The work of a command not seen before; stop_run is under an interrupt.
Fresh(c) == stopping = None /\ c \notin seen /\ seen' = seen \cup {c}

\* A duplicate is only acknowledged.
DispatchAgain(c) == stopping = None /\ c \in seen /\ UNCHANGED cliVars

DispatchStartRun(c) ==
    /\ WorkOf[c].kind = "start_run"
    /\ Fresh(c)
    /\ runs' = runs \cup {RunOf(c)}
    /\ UNCHANGED <<jobs, command_runs, interrupted, process, stopping, signalled,
                   reported, overlapped>>

\* "run is not initialized on this node", or "unsupported engine"
DispatchRefused(c) ==
    /\ c \in Prompt
    /\ RunOf(c) \notin runs \/ RunOf(c) \in Unsupported
    /\ Fresh(c)
    /\ reported' = [reported EXCEPT ![c] = "run.failed"]
    /\ UNCHANGED <<runs, jobs, command_runs, interrupted, process, stopping, signalled,
                   overlapped>>

\* spawn_engine, whose child may fail to start, and then the two inserts.
DispatchPrompt(c) ==
    /\ c \in Prompt /\ RunOf(c) \in runs \ Unsupported
    /\ Fresh(c)
    /\ \E p \in {"running", "failed"} : process' = [process EXCEPT ![c] = p]
    /\ jobs' = [jobs EXCEPT ![RunOf(c)] = c]
    /\ command_runs' = [command_runs EXCEPT ![c] = RunOf(c)]
    /\ overlapped' = IF Open(RunOf(c)) = {} THEN overlapped
                     ELSE overlapped \cup {RunOf(c)}
    /\ UNCHANGED <<runs, interrupted, stopping, signalled, reported>>

\* Mutants of stop_run: a run without a job is marked; no run is marked.
stop_runMarksAlways(r) == stopping' = jobs[r] /\ interrupted' = interrupted \cup {r}
stop_runMarksNever(r) == stopping' = jobs[r] /\ UNCHANGED interrupted

\* Under the lock: a run with a job is marked interrupted and the job is copied.
stop_run(r) ==
    /\ stopping' = jobs[r]
    /\ interrupted' = IF jobs[r] = None THEN interrupted ELSE interrupted \cup {r}

DispatchInterrupt(c) ==
    /\ WorkOf[c].kind = "interrupt_run"
    /\ Fresh(c)
    /\ stop_run(RunOf(c))
    /\ UNCHANGED <<runs, jobs, command_runs, process, signalled, reported, overlapped>>

cancel(c) ==
    /\ stopping = None
    /\ command_runs[c] # None
    /\ stop_run(command_runs[c])
    /\ UNCHANGED <<runs, jobs, command_runs, seen, process, signalled, reported,
                   overlapped>>

\* After the lock: a SIGTERM if the pid slot is still set.
terminate ==
    /\ stopping # None
    /\ signalled' = IF process[stopping] = "running" THEN signalled \cup {stopping}
                    ELSE signalled
    /\ stopping' = None
    /\ UNCHANGED <<runs, jobs, command_runs, seen, interrupted, process, reported,
                   overlapped>>

-----------------------------------------------------------------------------
(* The processes and the tasks that wait for them.                         *)

\* The child ends by itself or by the signal, and the pid slot is cleared.
ProcessExit(c, outcome) ==
    /\ process[c] = "running"
    /\ process' = [process EXCEPT ![c] = outcome]
    /\ UNCHANGED <<runs, jobs, command_runs, seen, interrupted, stopping, signalled,
                   reported, overlapped>>

\* The run's mark, then the exit status, decide what is reported.
OutcomeOf(c) ==
    IF RunOf(c) \in interrupted THEN "run.interrupted"
    ELSE IF process[c] = "succeeded" THEN "run.completed" ELSE "run.failed"

\* Mutant of Complete: an interrupted prompt is not reported.
CompleteSilently(c) ==
    /\ process[c] \in {"succeeded", "failed"} /\ reported[c] = None
    /\ jobs' = [jobs EXCEPT ![RunOf(c)] = None]
    /\ reported' = [reported EXCEPT ![c] =
           IF RunOf(c) \in interrupted THEN None ELSE OutcomeOf(c)]
    /\ UNCHANGED <<runs, command_runs, seen, interrupted, process, stopping, signalled,
                   overlapped>>

\* The waiting task takes the lock, unfiles the run's job and consumes the
\* run's interrupted mark.
Complete(c) ==
    /\ process[c] \in {"succeeded", "failed"} /\ reported[c] = None
    /\ jobs' = [jobs EXCEPT ![RunOf(c)] = None]
    /\ command_runs' = [command_runs EXCEPT ![c] = None]
    /\ interrupted' = interrupted \ {RunOf(c)}
    /\ reported' = [reported EXCEPT ![c] = OutcomeOf(c)]
    /\ UNCHANGED <<runs, seen, process, stopping, signalled, overlapped>>

EngineNext ==
    \/ \E c \in CommandId : \/ DispatchAgain(c) \/ DispatchStartRun(c)
                          \/ DispatchRefused(c) \/ DispatchPrompt(c)
                          \/ DispatchInterrupt(c) \/ cancel(c)
    \/ terminate
    \/ \E c \in Prompt, outcome \in {"succeeded", "failed"} : ProcessExit(c, outcome)
    \/ \E c \in Prompt : Complete(c)

EngineSpec == EngineInit /\ [][EngineNext]_cliVars

\* Child processes end, waiting tasks and the receive loop run.
EngineFairSpec ==
    /\ EngineSpec
    /\ WF_cliVars(terminate)
    /\ \A c \in Prompt :
           /\ WF_cliVars(\E outcome \in {"succeeded", "failed"} : ProcessExit(c, outcome))
           /\ WF_cliVars(Complete(c))

-----------------------------------------------------------------------------
(* Correctness.                                                            *)

\* A run's interrupted mark always has an unreported prompt to consume it: an
\* interrupt that comes too late never hits a prompt sent afterwards.
MarkHasPrompt == \A r \in interrupted : Open(r) # {}

\* A filed job belongs to its run and is not reported yet, so stop_run never
\* signals a stale process.
JobsAreOpen == \A r \in Run : jobs[r] # None => jobs[r] \in Open(r)

\* While a run gets one prompt at a time, an interrupt can reach its process.
\* (A second prompt takes the run's job entry, and the first to end clears it.)
RunningIsStoppable ==
    \A c \in Prompt : process[c] = "running" /\ RunOf(c) \notin overlapped =>
        jobs[RunOf(c)] = c

\* While a run gets one prompt at a time, a process that was signalled is
\* reported as interrupted, never as a failure of its own.
SignalMeansInterrupted ==
    \A c \in signalled : RunOf(c) \notin overlapped =>
        reported[c] \in {None, "run.interrupted"}

\* Every prompt the engine takes is reported exactly once in the end.
PromptsReported == \A c \in Prompt : (c \in seen) ~> (reported[c] # None)

\* An interrupt reaches what it is meant for: the filed job is an unreported prompt
\* of its run, every running process can be found through it, and a prompt whose
\* process was signalled is reported interrupted.
StopsReachTheirRun == JobsAreOpen /\ RunningIsStoppable /\ SignalMeansInterrupted
=============================================================================
