--------------------------- MODULE ClaireSession ---------------------------
(***************************************************************************)
(* Claire, the hub-local assistant, on one Telegram channel: the two       *)
(* threads of start_telegram in crates/stackhour/src/control.rs, the       *)
(* supervisor threads of ClaireRunner, and the session they share.         *)
(*                                                                         *)
(* The input thread answers the user, the output thread polls the log and  *)
(* starts follow-ups and worker assessments; each of their steps holds     *)
(* turn_gate and is one action.  A supervisor waits for a turn's process   *)
(* and writes session and log without the gate.  A turn has its own run.   *)
(*                                                                         *)
(* The log is kept as what the output thread has not read (feed) and the   *)
(* outcomes of each run.  Prompts, replies, engines, models and memory     *)
(* notes are left out; the wakes are HubStore's, without their clock.      *)
(***************************************************************************)
EXTENDS Integers, Sequences, FiniteSetsExt

CONSTANTS
    MaxTurns,     \* turns started, and so runs of the channel's task
    Wake,         \* workers, and the wake each leaves when it ends
    MaxInputs,    \* messages from the user
    MaxFaults,    \* failed starts, appends, deliveries, and bad envelopes
    MaxRestarts,
    None

Run == 1..MaxTurns

\* What a turn's process leaves: an envelope, or a failure.
Envelope == {"reply", "silent", "actions", "malformed"}
Result == Envelope \cup {"failed"}
Outcome == {"run.completed", "run.failed", "run.interrupted"}
Event == [kind : {"message"}, run : Run, text : Envelope]
             \cup [kind : Outcome, run : Run]

Session == [run : Run \cup {0},             \* run_id
            wake : Wake \cup {None},        \* pending_wake_event_id
            followUp : BOOLEAN,             \* pending_follow_up
            inProgress : BOOLEAN]           \* action_follow_up_in_progress

WakeState == {"working", "due", "deferred", "processed"}

ASSUME ClaireAssumption ==
    /\ MaxTurns \in Nat /\ MaxInputs \in Nat /\ MaxFaults \in Nat /\ MaxRestarts \in Nat
    /\ None \notin Wake \cup WakeState \cup Session
    /\ Wake \cap {"user", "follow_up"} = {}

VARIABLES
    session,    \* assistant.session.<channel>, None when cleared
    wakes,      \* assistant_wakes: state by worker
    outcomes,   \* how many terminal events a run has in the log
    created,    \* runs created so far
    feed,       \* events after the output thread's cursor
    busy,       \* busy_claire
    proc,       \* the turn's process and supervisor, by run
    result,     \* what the process left
    copy,       \* the session a supervisor has read and not yet saved
    poll,       \* where the output thread's loop is
    turn,       \* history: what the last turn was started for
    assessed,   \* history: workers whose wake a turn was started for and answered
    misfired,   \* history: starting a turn has failed
    cut,        \* history: runs a restart interrupted after their outcome
    stale,      \* history: an in-progress mark outlived its follow-up
    turns, inputs, faults, restarts

counts == <<created, turns>>
hubVars == <<session, wakes, outcomes, counts>>
memVars == <<feed, busy, proc, result, copy, poll>>
histVars == <<turn, assessed, misfired, cut, stale>>
bounds == <<inputs, faults, restarts>>
vars == <<hubVars, memVars, histVars, bounds>>

Supervised == {"running", "signalled", "ended", "read", "saved", "spoke"}
Purpose == {"user", "follow_up"} \cup Wake

TypeOK ==
    /\ session \in Session \cup {None}
    /\ wakes \in [Wake -> WakeState \cup {None}]
    /\ outcomes \in [Run -> Nat]
    /\ created \in 0..MaxTurns
    /\ feed \in Seq(Event)
    /\ busy \in SUBSET Run
    /\ proc \in [Run -> Supervised \cup {"none"}]
    /\ result \in [Run -> Result]
    /\ copy \in [Run -> Session \cup {None}]
    /\ poll \in {"events", "reconcile", "follow_up", "wake"}
    /\ turn \in Purpose /\ assessed \in SUBSET Wake
    /\ misfired \in BOOLEAN /\ cut \in SUBSET Run /\ stale \in BOOLEAN
    /\ turns \in 0..MaxTurns
    /\ inputs \in 0..MaxInputs /\ faults \in 0..MaxFaults /\ restarts \in 0..MaxRestarts

Init ==
    /\ session = None
    /\ wakes = [w \in Wake |-> None]
    /\ outcomes = [r \in Run |-> 0]
    /\ created = 0
    /\ feed = <<>> /\ poll = "events"
    /\ busy = {}
    /\ proc = [r \in Run |-> "none"]
    /\ result = [r \in Run |-> "failed"]
    /\ copy = [r \in Run |-> None]
    /\ turn = "user" /\ assessed = {} /\ misfired = FALSE /\ cut = {} /\ stale = FALSE
    /\ turns = 0 /\ inputs = 0 /\ faults = 0 /\ restarts = 0

Fault == faults < MaxFaults /\ faults' = faults + 1

-----------------------------------------------------------------------------
(* Pieces of the steps.                                                    *)

\* ClaireRunner::is_running.
is_running(r) == proc[r] \in Supervised

terminal_is_durable(r) == outcomes[r] > 0

\* append_hub_assistant_event for an outcome, as seen by the two log variables.
AppendOutcome(r, outcome) ==
    /\ outcomes' = [outcomes EXCEPT ![r] = @ + 1]
    /\ feed' = Append(feed, [kind |-> outcome, run |-> r])

NoAppend == UNCHANGED <<outcomes, feed>>

\* defer_assistant_wake: a no-op for a processed wake.
Deferred(w) ==
    IF w = None \/ wakes[w] = "processed" THEN wakes ELSE [wakes EXCEPT ![w] = "deferred"]

NewSession == [run |-> 0, wake |-> None, followUp |-> FALSE, inProgress |-> FALSE]

\* submit_claire_prompt: the session it saves, with a run created when there is
\* none.
Submitted(s) == IF s.run = 0 THEN [s EXCEPT !.run = created + 1] ELSE s

\* The bound on turns, whether or not they get a run of their own; after a start
\* that failed there is one more.
AnotherTurn == turns < MaxTurns /\ turns' = turns + 1

Opened == IF session = None THEN NewSession ELSE session

\* The runner takes the turn: the job is registered and its process runs.
StartTurn(s, why) ==
    /\ AnotherTurn
    /\ ~is_running(s.run)
    /\ session' = s
    /\ created' = IF s.run > created THEN s.run ELSE created
    /\ busy' = busy \cup {s.run}
    /\ proc' = [proc EXCEPT ![s.run] = "running"]
    /\ turn' = why
    /\ NoAppend
    /\ UNCHANGED <<result, copy, assessed, misfired, cut, stale, faults>>

\* ClaireRunner::start refuses, or the supervisor cannot be spawned: busy is taken
\* back and the failure is logged, if it can be, unless the run has an outcome.
StartFails(s) ==
    /\ turns < MaxTurns /\ turns' = Max({turns + 1, MaxTurns - 1})
    /\ IF is_running(s.run) THEN UNCHANGED faults ELSE Fault
    /\ session' = s
    /\ created' = IF s.run > created THEN s.run ELSE created
    /\ busy' = busy \ {s.run}
    /\ \/ ~terminal_is_durable(s.run) /\ AppendOutcome(s.run, "run.failed")
       \/ (terminal_is_durable(s.run) \/ ~is_running(s.run)) /\ NoAppend
    /\ misfired' = TRUE
    /\ UNCHANGED <<proc, result, copy, turn, assessed, cut, stale>>

-----------------------------------------------------------------------------
(* The input thread: handle_claire_input.                                  *)

Input == inputs < MaxInputs /\ inputs' = inputs + 1

current_turn_is_busy == session # None /\ session.run \in busy

\* Anything but a command, or /tasks: a turn.
UserTurn ==
    /\ Input /\ ~current_turn_is_busy
    /\ LET s == Submitted(Opened) IN StartTurn(s, "user") \/ StartFails(s)
    /\ UNCHANGED <<wakes, poll, restarts>>

\* /new.
ClearSession ==
    /\ Input /\ ~current_turn_is_busy
    /\ session # None
    /\ wakes' = Deferred(session.wake)
    /\ session' = None
    /\ UNCHANGED <<outcomes, counts, memVars, histVars, faults, restarts>>

\* /claude, /codex, /model: the conversation goes on in a new run.
clear_current_run ==
    /\ Input /\ ~current_turn_is_busy
    /\ session # None
    /\ wakes' = Deferred(session.wake)
    /\ session' = NewSession
    /\ UNCHANGED <<outcomes, counts, memVars, histVars, faults, restarts>>

\* Mutant of stop: the session forgets the turn and the process is left running.
stopOnlyForgets ==
    /\ Input
    /\ session # None /\ session.run # 0
    /\ proc[session.run] = "running"
    /\ wakes' = Deferred(session.wake)
    /\ busy' = busy \ {session.run}
    /\ session' = NewSession
    /\ UNCHANGED <<outcomes, counts, feed, proc, result, copy, poll, histVars, faults, restarts>>

\* /stop: a live process is signalled, the interruption logged, and the session
\* forgets the turn; the supervisor will stay silent.  When the log cannot be
\* written the command fails there.
stop ==
    /\ Input
    /\ session # None /\ session.run # 0
    /\ proc[session.run] = "running"
    /\ proc' = [proc EXCEPT ![session.run] = "signalled"]
    /\ \/ /\ AppendOutcome(session.run, "run.interrupted")
          /\ wakes' = Deferred(session.wake)
          /\ busy' = busy \ {session.run}
          /\ session' = NewSession
          /\ UNCHANGED faults
       \/ Fault /\ NoAppend /\ UNCHANGED <<session, wakes, busy>>
    /\ UNCHANGED <<counts, result, copy, poll, histVars, restarts>>

InputStep == UserTurn \/ ClearSession \/ clear_current_run \/ stop

-----------------------------------------------------------------------------
(* A turn's process and its supervisor thread.                             *)

Supervise(r, from, to) == proc[r] = from /\ proc' = [proc EXCEPT ![r] = to]

\* The process ends by itself.  A malformed answer and a
\* second round of actions count as faults.
ProcessEnds(r) ==
    /\ Supervise(r, "running", "ended")
    /\ \E out \in Result :
           /\ IF out \in {"malformed", "failed"} \/ (out = "actions" /\ turn = "follow_up")
              THEN Fault ELSE UNCHANGED faults
           /\ result' = [result EXCEPT ![r] = out]
           /\ assessed' = IF out = "failed" THEN assessed ELSE assessed \cup ({turn} \cap Wake)
    /\ UNCHANGED <<hubVars, feed, busy, copy, poll, turn, misfired, cut, stale, inputs, restarts>>

\* The interrupted mark is found after the join: no report.
SupervisorSilent(r) ==
    /\ Supervise(r, "signalled", "none")
    /\ UNCHANGED <<hubVars, feed, busy, result, copy, poll, histVars, bounds>>

\* After a success the supervisor reads the session, to record the provider's
\* conversation id in it ...
SupervisorRead(r) ==
    /\ result[r] # "failed"
    /\ Supervise(r, "ended", "read")
    /\ copy' = [copy EXCEPT ![r] = IF session # None /\ session.run = r THEN session ELSE None]
    /\ UNCHANGED <<hubVars, feed, busy, result, poll, histVars, bounds>>

\* ... and writes back what it read, without turn_gate.
SupervisorSave(r) ==
    /\ Supervise(r, "read", "saved")
    /\ session' = IF copy[r] = None THEN session ELSE copy[r]
    /\ copy' = [copy EXCEPT ![r] = None]
    /\ UNCHANGED <<wakes, outcomes, counts, feed, busy, result, poll, histVars, bounds>>

\* message.assistant.completed; a failed append is ignored.
SupervisorSpeaks(r) ==
    /\ Supervise(r, "saved", "spoke")
    /\ \/ /\ feed' = Append(feed, [kind |-> "message", run |-> r, text |-> result[r]])
          /\ UNCHANGED <<stale, faults>>
       \/ /\ Fault
          /\ stale' = (stale \/ (session # None /\ session.run = r /\ session.inProgress))
          /\ UNCHANGED feed
    /\ UNCHANGED <<hubVars, busy, result, copy, poll, turn, assessed, misfired, cut, inputs,
                   restarts>>

\* The outcome, or a failed append; then the job is gone.
SupervisorReports(r) ==
    /\ \/ Supervise(r, "spoke", "none")
       \/ result[r] = "failed" /\ Supervise(r, "ended", "none")
    /\ \/ /\ AppendOutcome(r, IF result[r] = "failed" THEN "run.failed" ELSE "run.completed")
          /\ UNCHANGED faults
       \/ Fault /\ NoAppend
    /\ result' = [result EXCEPT ![r] = "failed"]
    /\ UNCHANGED <<session, wakes, counts, busy, copy, poll, histVars, inputs, restarts>>

SupervisorStep(r) == \/ SupervisorSilent(r) \/ SupervisorRead(r) \/ SupervisorSave(r)
                     \/ SupervisorSpeaks(r) \/ SupervisorReports(r)

-----------------------------------------------------------------------------
(* The output thread: one pass over new events, then three checks.         *)

Poll(from, to) == poll = from /\ poll' = to

\* read_events_after has nothing more.  An event that comes before the three checks
\* are through is met in the next pass.
EventsDone ==
    /\ Poll("events", "reconcile")
    /\ feed = <<>>
    /\ UNCHANGED <<hubVars, feed, busy, proc, result, copy, histVars, bounds>>

event == Head(feed)
is_claire == session # None /\ event.run = session.run

TakeEvent == poll = "events" /\ feed # <<>> /\ feed' = Tail(feed)

\* An event of a turn the session no longer has.
SkipEvent ==
    /\ TakeEvent /\ ~is_claire
    /\ UNCHANGED <<hubVars, busy, proc, result, copy, poll, histVars, bounds>>

\* Every mark of the turn is dropped and its wake deferred.
DropTurn(s) ==
    /\ wakes' = Deferred(session.wake)
    /\ session' = [s EXCEPT !.wake = None, !.followUp = FALSE, !.inProgress = FALSE]

\* A malformed envelope, or actions in the turn that reports actions.
RejectEnvelope ==
    /\ TakeEvent /\ is_claire /\ event.kind = "message"
    /\ event.text = "malformed" \/ (event.text = "actions" /\ session.inProgress)
    /\ DropTurn(session)
    /\ UNCHANGED <<outcomes, counts, busy, proc, result, copy, poll, histVars, bounds>>

\* create_task, or a message to a worker, makes its end a wake of this channel;
\* stop_run and a refused action leave the wakes alone.
execute_claire_action ==
    \/ \E w \in Wake : wakes[w] = None /\ wakes' = [wakes EXCEPT ![w] = "working"]
    \/ UNCHANGED wakes

\* The actions run and a follow-up turn is owed for their results.  The wake under
\* assessment stays open.
RunActions ==
    /\ TakeEvent /\ is_claire /\ event.kind = "message"
    /\ event.text = "actions" /\ ~session.inProgress
    /\ session' = [session EXCEPT !.followUp = TRUE]
    /\ execute_claire_action
    /\ UNCHANGED <<outcomes, counts, busy, proc, result, copy, poll, histVars, bounds>>

\* A final answer: sent unless notify is false; delivery settles the wake, a
\* failed delivery defers it.
DeliverReply ==
    /\ TakeEvent /\ is_claire /\ event.kind = "message"
    /\ event.text \in {"reply", "silent"}
    /\ session' = [session EXCEPT !.inProgress = FALSE, !.wake = None]
    /\ \/ /\ wakes' = IF session.wake = None THEN wakes
                      ELSE [wakes EXCEPT ![session.wake] = "processed"]
          /\ UNCHANGED faults
       \/ event.text = "reply" /\ Fault /\ wakes' = Deferred(session.wake)
    /\ UNCHANGED <<outcomes, counts, busy, proc, result, copy, poll, histVars, inputs,
                   restarts>>

\* run.failed and run.interrupted.
TurnFailed ==
    /\ TakeEvent /\ is_claire /\ event.kind \in {"run.failed", "run.interrupted"}
    /\ busy' = busy \ {event.run}
    /\ DropTurn([session EXCEPT !.run = 0])
    /\ UNCHANGED <<outcomes, counts, proc, result, copy, poll, histVars, bounds>>

TurnCompleted ==
    /\ TakeEvent /\ is_claire /\ event.kind = "run.completed"
    /\ busy' = busy \ {event.run}
    /\ session' = [session EXCEPT !.run = 0]
    /\ UNCHANGED <<wakes, outcomes, counts, proc, result, copy, poll, histVars, bounds>>

handle_claire_event == \/ SkipEvent \/ RejectEnvelope \/ RunActions \/ DeliverReply
                       \/ TurnFailed \/ TurnCompleted

\* A busy run without a supervisor and without an outcome.
Orphaned == /\ current_turn_is_busy /\ ~is_running(session.run)
            /\ ~terminal_is_durable(session.run)

\* Mutant of reconcile_claire_runner: nothing is ever reconciled.
reconcile_claire_runnerNever ==
    /\ Poll("reconcile", "follow_up")
    /\ UNCHANGED <<hubVars, feed, busy, proc, result, copy, histVars, bounds>>

reconcile_claire_runner ==
    /\ Poll("reconcile", "follow_up")
    /\ IF Orphaned
       THEN /\ wakes' = Deferred(session.wake)
            /\ session' = [session EXCEPT !.wake = None]
            /\ \/ AppendOutcome(session.run, "run.failed") /\ UNCHANGED faults
               \/ Fault /\ NoAppend
       ELSE UNCHANGED <<session, wakes, outcomes, feed, faults>>
    /\ UNCHANGED <<counts, busy, proc, result, copy, histVars, inputs, restarts>>

Free == busy = {} /\ turns < MaxTurns

\* The results of actions go to a turn of their own, marked in progress.
start_pending_claire_follow_up ==
    /\ Poll("follow_up", "wake")
    /\ \/ /\ ~(Free /\ session # None /\ session.followUp)
          /\ UNCHANGED <<session, wakes, outcomes, counts, feed, busy, proc, result, copy,
                         histVars, faults>>
       \/ /\ Free /\ session # None /\ session.followUp
          /\ LET s == Submitted([session EXCEPT !.followUp = FALSE, !.inProgress = TRUE]) IN
             \/ StartTurn(s, "follow_up") /\ UNCHANGED wakes
             \/ /\ StartFails([s EXCEPT !.inProgress = FALSE, !.wake = None])
                /\ wakes' = Deferred(s.wake)
    /\ UNCHANGED <<inputs, restarts>>

Due == {w \in Wake : wakes[w] = "due"}

\* Mutant of wake_claire_for_pending_worker: the wake is consumed when its turn starts.
wake_claire_for_pending_workerConsumes ==
    /\ Poll("wake", "events")
    /\ busy = {}
    /\ \E w \in Due :
           /\ StartTurn([Submitted(Opened) EXCEPT !.wake = w], w)
           /\ wakes' = [wakes EXCEPT ![w] = "processed"]
    /\ UNCHANGED <<inputs, restarts>>

\* One due wake is taken up, whichever terminal event came first.
wake_claire_for_pending_worker ==
    /\ Poll("wake", "events")
    /\ \/ /\ ~(Free /\ Due # {})
          /\ UNCHANGED <<session, wakes, outcomes, counts, feed, busy, proc, result, copy,
                         histVars, faults>>
       \/ /\ Free
          /\ \E w \in Due :
                 LET s == [Submitted(Opened) EXCEPT !.wake = w] IN
                 \/ StartTurn(s, w) /\ UNCHANGED wakes
                 \/ StartFails([s EXCEPT !.wake = None]) /\ wakes' = Deferred(w)
    /\ UNCHANGED <<inputs, restarts>>

OutputStep == \/ handle_claire_event \/ EventsDone
              \/ reconcile_claire_runner \/ start_pending_claire_follow_up
              \/ wake_claire_for_pending_worker

-----------------------------------------------------------------------------
(* Workers, time and restarts.                                             *)

\* A worker task of the panel, which reports to Claire as well.
StartWorker(w) == wakes[w] = None /\ wakes' = [wakes EXCEPT ![w] = "working"]

\* A worker's terminal event leaves a wake; a deferred one becomes due again.
WakeDue(w) == wakes[w] \in {"working", "deferred"} /\ wakes' = [wakes EXCEPT ![w] = "due"]

WakeStep(w) == /\ StartWorker(w) \/ WakeDue(w)
               /\ UNCHANGED <<session, outcomes, counts, memVars, histVars, bounds>>

\* The hub dies and starts again: recover_hub_local_assistant ends the session's
\* run and defers its wake; a pending follow-up and the in-progress mark stay.
Restart ==
    /\ restarts < MaxRestarts /\ restarts' = restarts + 1
    /\ busy' = {} /\ feed' = <<>> /\ poll' = "events"
    /\ proc' = [r \in Run |-> "none"]
    /\ copy' = [r \in Run |-> None]
    /\ result' = [r \in Run |-> "failed"]
    /\ \/ session = None /\ UNCHANGED <<session, wakes, outcomes, cut, stale>>
       \/ /\ session # None
          /\ session' = [session EXCEPT !.run = 0, !.wake = None]
          /\ wakes' = Deferred(session.wake)
          /\ stale' = (stale \/ session.inProgress)
          /\ cut' = cut \cup ({session.run} \cap {r \in Run : terminal_is_durable(r)})
          /\ outcomes' = IF session.run = 0 THEN outcomes
                         ELSE [outcomes EXCEPT ![session.run] = @ + 1]
    /\ UNCHANGED <<counts, turn, assessed, misfired, inputs, faults>>

Next ==
    \/ InputStep
    \/ \E r \in Run : ProcessEnds(r) \/ SupervisorStep(r)
    \/ OutputStep
    \/ \E w \in Wake : WakeStep(w)
    \/ Restart

Spec == Init /\ [][Next]_vars

\* Both threads and the supervisors run, processes end, a deferral's delay passes
\* and a worker reports.
FairSpec ==
    /\ Spec
    /\ WF_vars(OutputStep)
    /\ \A r \in Run : WF_vars(ProcessEnds(r)) /\ WF_vars(SupervisorStep(r))
    /\ \A w \in Wake : WF_vars(WakeDue(w) /\ WakeStep(w))

-----------------------------------------------------------------------------
(* Correctness.                                                            *)

\* "Only one Claire turn runs at a time": input, follow-ups and assessments never
\* leave two live processes, a failed start aside.
OneTurnAtATime ==
    ~misfired => \A r, s \in Run : proc[r] = "running" /\ proc[s] = "running" => r = s

\* A run ends once: neither /stop racing a finished process nor the reconciler
\* adds an outcome to a run that has one.  A restart does.
OneOutcome == ~misfired => \A r \in Run \ cut : outcomes[r] <= 1

\* Actions are refused as a second round only in the turn that reports the first:
\* the in-progress mark is on no other live turn, unless it outlived its own.
MarkIsFollowUp ==
    session # None /\ session.inProgress /\ session.run # 0 /\ ~misfired /\ ~stale
        => turn = "follow_up"

\* "Receipts remain retryable until Claire successfully assesses them": a wake is
\* processed only once a turn that was started for it has answered.
ProcessedWasAssessed == ~misfired => \A w \in Wake : wakes[w] = "processed" => w \in assessed

\* Claire does not stay busy: whatever append fails, stopped or not, the run of a
\* turn is released.
TurnsSettle == \A r \in Run : (r \in busy) ~> (r \notin busy \/ misfired)

\* "A long provider or Telegram outage" only delays a wake: once faults stop it is
\* assessed.
WakesHandled == \A w \in Wake : (wakes[w] = "due") ~> (wakes[w] = "processed" \/ misfired)

\* Claire has one turn, and it ends once: supervisors, stops and the reconciler never
\* leave two processes at work nor give one run two outcomes, the restart's own aside.
OneTurn == TypeOK /\ OneTurnAtATime /\ OneOutcome

\* A worker's wake is never swallowed: it is marked processed only when a turn that
\* carried it ended, and the follow-up mark belongs to the turn it was set for.
FollowUpsAssess == MarkIsFollowUp /\ ProcessedWasAssessed

\* Neither a vanished process nor a failed start nor a restart keeps Claire busy: each
\* turn settles, and each wake that is due is handled.
ClaireSettles == TurnsSettle /\ WakesHandled
=============================================================================
