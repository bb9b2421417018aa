------------------------ MODULE ClaireSessionProofs ------------------------
(***************************************************************************)
(* Claire's one turn, for any number of turns, workers, inputs, faults and *)
(* restarts, a failed start aside: no two processes run at once, a run has *)
(* one outcome unless a restart interrupts it, an in-progress mark is on   *)
(* the turn that it was set for, and a wake is processed only once a turn  *)
(* started for it has answered.                                            *)
(***************************************************************************)
EXTENDS ClaireSession, TLAPS

-----------------------------------------------------------------------------
(* The inductive invariant.                                                *)

\* Runs are numbered as they are created, one turn each at most: nothing is
\* known of a run that does not exist yet.
RunsAreCreated ==
    /\ created <= turns
    /\ session # None => session.run <= created
    /\ \A r \in Run : created < r => proc[r] = "none" /\ outcomes[r] = 0
    /\ \A i \in DOMAIN feed : feed[i].run <= created

\* A supervisor holds a copy of the session between its read and its save only,
\* and of its own run's session.
CopiesAreRead ==
    \A r \in Run : copy[r] # None => proc[r] = "read" /\ copy[r].run = r

\* The turn the session is in, 0 when it is in none.
Current == IF session = None THEN 0 ELSE session.run

\* The current turn, and no other, is busy.
BusyIsCurrent == busy = {Current} \ {0}

\* States of a supervisor that will report: all but the one /stop has silenced.
Reporting == Supervised \ {"signalled"}

\* Only the current turn has a process or a supervisor that will report, and it has
\* no outcome yet.
ReportsCurrent ==
    \A r \in Run : proc[r] \in Reporting => r = Current /\ outcomes[r] = 0

\* What a supervisor has read is still the session when it saves: turn_gate is not
\* held between the two, yet no other thread touches the session of a live turn.
CopyIsSession == \A r \in Run : copy[r] # None => copy[r] = session

\* An outcome the output thread has yet to read is in the log.
FeedIsLogged ==
    \A i \in DOMAIN feed : feed[i].kind \in Outcome => outcomes[feed[i].run] > 0

Spoken(r) == \E i \in DOMAIN feed : feed[i].kind = "message" /\ feed[i].run = r

\* A turn's message comes after its save.
SpeaksLate ==
    \A r \in Run : proc[r] \in {"running", "ended", "read", "saved"} => ~Spoken(r)

TurnInv ==
    /\ BusyIsCurrent
    /\ ReportsCurrent
    /\ CopyIsSession
    /\ FeedIsLogged
    /\ SpeaksLate
    /\ OneOutcome

\* A turn's message comes before its completion in the feed.
SpeaksFirst(r) ==
    \A i \in DOMAIN feed : feed[i].kind = "run.completed" /\ feed[i].run = r =>
        \E j \in 1..i : feed[j].kind = "message" /\ feed[j].run = r

\* An in-progress mark is on a turn that was started as a follow-up; the message
\* that takes it off comes before the turn's completion.
MarkInv ==
    session # None /\ session.inProgress =>
        /\ session.run # 0
        /\ turn = "follow_up"
        /\ proc[session.run] = "spoke" => Spoken(session.run)
        /\ SpeaksFirst(session.run)

\* A wake the session carries has been assessed, or the current turn was started
\* for it and has not answered.
WakeInv ==
    session # None /\ session.wake # None /\ session.wake \notin assessed =>
        /\ session.run # 0
        /\ turn = session.wake
        /\ ~Spoken(session.run)
        /\ \A i \in DOMAIN feed :
               feed[i].run = session.run => feed[i].kind # "run.completed"
        /\ proc[session.run] \in {"none", "running", "signalled", "ended"}
        /\ proc[session.run] = "ended" => result[session.run] = "failed"

\* A supervisor that saves, speaks or reports a success has an envelope to speak of.
AnswersAreKept ==
    \A r \in Run : proc[r] \in {"read", "saved", "spoke"} => result[r] \in Envelope

\* What holds whether or not a start has failed.
BaseInv == TypeOK /\ RunsAreCreated /\ CopiesAreRead /\ AnswersAreKept

ClaireInv ==
    /\ BaseInv
    /\ ~misfired => TurnInv
    /\ ~misfired => WakeInv /\ ProcessedWasAssessed
    /\ ~misfired /\ ~stale => MarkInv

-----------------------------------------------------------------------------
(* The feed, and the pieces of the steps.                                  *)

\* An event appended is the last one; the others keep their places.
LEMMA FeedGrows ==
  ASSUME NEW S, NEW s \in Seq(S), NEW e \in S
  PROVE  /\ Append(s, e) \in Seq(S)
         /\ DOMAIN s = 1..Len(s) /\ DOMAIN Append(s, e) = 1..Len(s) + 1
         /\ Len(s) \in Nat
         /\ \A i \in DOMAIN s : Append(s, e)[i] = s[i]
         /\ Append(s, e)[Len(s) + 1] = e
  OBVIOUS

\* The first event taken, the others move up by one.
LEMMA FeedShrinks ==
  ASSUME NEW S, NEW s \in Seq(S), s # <<>>
  PROVE  /\ Tail(s) \in Seq(S)
         /\ DOMAIN s = 1..Len(s) /\ DOMAIN Tail(s) = 1..Len(s) - 1
         /\ Len(s) \in Nat \ {0}
         /\ \A i \in DOMAIN Tail(s) : i + 1 \in DOMAIN s /\ Tail(s)[i] = s[i + 1]
         /\ Head(s) = s[1] /\ 1 \in DOMAIN s /\ Head(s) \in S
  OBVIOUS

\* Max on the two numbers StartFails takes it of.
LEMMA MaxOfTwo ==
  ASSUME NEW a \in Int, NEW b \in Int
  PROVE  Max({a, b}) = IF a >= b THEN a ELSE b
  BY DEF Max

\* submit_claire_prompt keeps the session but for the run it may create.
LEMMA SubmittedIsSession ==
  ASSUME BaseInv, turns < MaxTurns, NEW s \in Session, s.run <= created
  PROVE  /\ Submitted(s) \in Session
         /\ Submitted(s).run \in Run /\ Submitted(s).run <= created + 1
         /\ s.run = 0 => Submitted(s).run = created + 1
         /\ Submitted(s).wake = s.wake /\ Submitted(s).followUp = s.followUp
         /\ Submitted(s).inProgress = s.inProgress
  <1>1. created \in Nat /\ created + 1 \in Run /\ MaxTurns \in Nat
    BY ClaireAssumption DEF BaseInv, TypeOK, RunsAreCreated, Run
  <1>2. CASE s.run = 0
    <2>1. Submitted(s) = [s EXCEPT !.run = created + 1]
      BY <1>2 DEF Submitted
    <2> QED BY <1>1, <2>1 DEF Session
  <1>3. CASE s.run # 0
    <2>1. Submitted(s) = s /\ s.run \in Run
      BY <1>3 DEF Submitted, Session
    <2>2. s.run \in Nat
      BY <2>1 DEF Run
    <2> QED BY <1>1, <1>3, <2>1, <2>2
  <1> QED BY <1>2, <1>3

LEMMA OpenedIsSession ==
  ASSUME BaseInv
  PROVE  /\ NewSession \in Session /\ NewSession # None
         /\ Opened \in Session /\ Opened.run <= created /\ Opened.run = Current
         /\ session # None => Opened = session
         /\ session = None => Opened = NewSession
  <1>1. NewSession \in Session /\ NewSession.run = 0
    BY DEF NewSession, Session
  <1>2. NewSession # None
    BY <1>1, ClaireAssumption
  <1> QED
    BY <1>1, <1>2 DEF BaseInv, TypeOK, RunsAreCreated, Opened, Current, Session, Run

LEMMA DeferredIsWakes ==
  ASSUME BaseInv, NEW w \in Wake \cup {None}
  PROVE  /\ Deferred(w) \in [Wake -> WakeState \cup {None}]
         /\ \A v \in Wake : Deferred(w)[v] = "processed" => wakes[v] = "processed"
  BY DEF BaseInv, TypeOK, Deferred, WakeState

-----------------------------------------------------------------------------
(* Types, the numbering of runs, and the supervisors' copies.              *)

\* What a step may do to the variables its pieces leave to it.
Around == /\ wakes' \in [Wake -> WakeState \cup {None}]
          /\ poll' \in {"events", "reconcile", "follow_up", "wake"}
          /\ inputs' \in 0..MaxInputs /\ restarts' \in 0..MaxRestarts

LEMMA AppendOutcomeBase ==
  ASSUME BaseInv, NEW r \in Run, NEW o \in Outcome, AppendOutcome(r, o)
  PROVE  /\ outcomes' \in [Run -> Nat] /\ feed' \in Seq(Event)
         /\ \A q \in Run : q # r => outcomes'[q] = outcomes[q]
         /\ outcomes'[r] = outcomes[r] + 1
         /\ Len(feed) \in Nat /\ DOMAIN feed = 1..Len(feed) /\ DOMAIN feed' = 1..Len(feed) + 1
         /\ \A i \in DOMAIN feed : feed'[i] = feed[i]
         /\ feed'[Len(feed) + 1] = [kind |-> o, run |-> r]
  <1>1. [kind |-> o, run |-> r] \in Event
    BY DEF Event
  <1> HIDE DEF Event
  <1>2. /\ feed' \in Seq(Event)
        /\ Len(feed) \in Nat /\ DOMAIN feed = 1..Len(feed) /\ DOMAIN feed' = 1..Len(feed) + 1
        /\ \A i \in DOMAIN feed : feed'[i] = feed[i]
        /\ feed'[Len(feed) + 1] = [kind |-> o, run |-> r]
    BY <1>1, FeedGrows DEF BaseInv, TypeOK, AppendOutcome
  <1>3. /\ outcomes' \in [Run -> Nat]
        /\ \A q \in Run : q # r => outcomes'[q] = outcomes[q]
        /\ outcomes'[r] = outcomes[r] + 1
    BY DEF BaseInv, TypeOK, AppendOutcome
  <1> QED BY <1>2, <1>3

\* An outcome appended to a run that exists keeps the log's numbering.
LEMMA AppendOutcomeRuns ==
  ASSUME BaseInv, NEW r \in Run, NEW o \in Outcome, AppendOutcome(r, o),
         created' \in Nat, created <= created', r <= created'
  PROVE  /\ \A q \in Run : created' < q => outcomes'[q] = 0
         /\ \A i \in DOMAIN feed' : feed'[i].run <= created'
  <1>1. created \in Nat /\ r \in Nat
    BY DEF BaseInv, TypeOK, Run
  <1>2. \A i \in DOMAIN feed : feed[i].run <= created /\ feed[i].run \in Nat
    BY DEF BaseInv, TypeOK, RunsAreCreated, Event, Run
  <1> DEFINE n == Len(feed)
  <1>0. /\ n \in Nat /\ DOMAIN feed = 1..n /\ DOMAIN feed' = 1..n + 1
        /\ \A i \in DOMAIN feed : feed'[i] = feed[i]
        /\ feed'[n + 1] = [kind |-> o, run |-> r]
        /\ \A q \in Run : q # r => outcomes'[q] = outcomes[q]
    BY AppendOutcomeBase
  <1> HIDE DEF n
  <1>3. \A i \in DOMAIN feed' : feed'[i].run <= created'
    <2> SUFFICES ASSUME NEW i \in DOMAIN feed' PROVE feed'[i].run <= created'
      OBVIOUS
    <2>1. CASE i = n + 1
      BY <1>0, <2>1
    <2>2. CASE i # n + 1
      <3>1. i \in DOMAIN feed
        BY <1>0, <2>2
      <3> QED BY <1>0, <1>1, <1>2, <3>1
    <2> QED BY <2>1, <2>2
  <1>4. \A q \in Run : created < q => outcomes[q] = 0
    BY DEF BaseInv, RunsAreCreated
  <1>5. \A q \in Run : created' < q => outcomes'[q] = 0
    BY <1>0, <1>1, <1>4 DEF Run
  <1> QED BY <1>3, <1>5

LEMMA StartTurnBase ==
  ASSUME BaseInv, NEW s \in Session, s.run \in Run, s.run <= created + 1,
         NEW why \in Purpose, StartTurn(s, why), Around
  PROVE  BaseInv'
  <1>1. /\ turns < MaxTurns /\ turns' = turns + 1 /\ turns \in Nat /\ created \in Nat
        /\ s.run \in Nat /\ created <= turns /\ MaxTurns \in Nat
    BY ClaireAssumption DEF StartTurn, AnotherTurn, BaseInv, TypeOK, RunsAreCreated, Run
  <1>2. created' \in Nat /\ created <= created' /\ created' <= turns' /\ s.run <= created'
    BY <1>1 DEF StartTurn
  <1>3. TypeOK'
    <2>1. /\ session' \in Session /\ busy' \in SUBSET Run /\ turn' \in Purpose
          /\ created' \in 0..MaxTurns /\ turns' \in 0..MaxTurns
      BY <1>1, <1>2 DEF BaseInv, TypeOK, StartTurn
    <2>2. proc' \in [Run -> Supervised \cup {"none"}]
      BY DEF BaseInv, TypeOK, StartTurn, Supervised
    <2>3. UNCHANGED <<outcomes, feed, result, copy, assessed, misfired, cut, stale, faults>>
      BY DEF StartTurn, NoAppend
    <2> QED BY <2>1, <2>2, <2>3 DEF BaseInv, TypeOK, Around
  <1>4. RunsAreCreated'
    <2>1. \A r \in Run : created' < r => proc'[r] = "none" /\ outcomes'[r] = 0
      BY <1>1, <1>2 DEF BaseInv, TypeOK, RunsAreCreated, StartTurn, NoAppend, Run
    <2>2. \A i \in DOMAIN feed' : feed'[i].run <= created'
      BY <1>1, <1>2 DEF BaseInv, TypeOK, RunsAreCreated, StartTurn, NoAppend, Event, Run
    <2>3. session'.run <= created' 
      BY <1>2 DEF StartTurn
    <2> QED BY <1>2, <2>1, <2>2, <2>3 DEF RunsAreCreated
  <1>5. CopiesAreRead'
    BY DEF BaseInv, TypeOK, CopiesAreRead, StartTurn, is_running, Supervised
  <1>6. AnswersAreKept'
    BY DEF BaseInv, TypeOK, AnswersAreKept, StartTurn
  <1> QED BY <1>3, <1>4, <1>5, <1>6 DEF BaseInv

LEMMA StartFailsBase ==
  ASSUME BaseInv, NEW s \in Session, s.run \in Run, s.run <= created + 1,
         StartFails(s), Around
  PROVE  BaseInv'
  <1>1. /\ turns < MaxTurns /\ turns \in Nat /\ created \in Nat
        /\ s.run \in Nat /\ created <= turns /\ MaxTurns \in Nat
    BY ClaireAssumption DEF StartFails, BaseInv, TypeOK, RunsAreCreated, Run
  <1>2. turns' \in 0..MaxTurns /\ turns + 1 <= turns'
    BY <1>1, MaxOfTwo DEF StartFails
  <1>3. created' \in Nat /\ created <= created' /\ created' <= turns' /\ s.run <= created'
    BY <1>1, <1>2 DEF StartFails
  <1>4. /\ outcomes' \in [Run -> Nat] /\ feed' \in Seq(Event)
        /\ \A q \in Run : created' < q => outcomes'[q] = 0
        /\ \A i \in DOMAIN feed' : feed'[i].run <= created'
    <2>1. CASE AppendOutcome(s.run, "run.failed")
      BY <1>3, <2>1, AppendOutcomeBase, AppendOutcomeRuns DEF Outcome
    <2>2. CASE NoAppend
      <3>1. /\ \A q \in Run : q \in Nat /\ (created < q => outcomes[q] = 0)
            /\ \A i \in DOMAIN feed : feed[i].run \in Nat /\ feed[i].run <= created
        BY DEF BaseInv, TypeOK, RunsAreCreated, Event, Run
      <3>2. outcomes' = outcomes /\ feed' = feed
        BY <2>2 DEF NoAppend
      <3> QED BY <1>1, <1>3, <3>1, <3>2 DEF BaseInv, TypeOK
    <2> QED BY <2>1, <2>2 DEF StartFails
  <1>5. TypeOK'
    <2>1. /\ session' \in Session /\ busy' \in SUBSET Run /\ misfired' \in BOOLEAN
          /\ created' \in 0..MaxTurns
      BY <1>1, <1>2, <1>3 DEF BaseInv, TypeOK, StartFails
    <2>2. faults' \in 0..MaxFaults
      BY ClaireAssumption DEF BaseInv, TypeOK, StartFails, Fault
    <2>3. UNCHANGED <<proc, result, copy, turn, assessed, cut, stale>>
      BY DEF StartFails
    <2> QED BY <1>2, <1>4, <2>1, <2>2, <2>3 DEF BaseInv, TypeOK, Around
  <1>6. RunsAreCreated'
    BY <1>1, <1>3, <1>4 DEF BaseInv, TypeOK, RunsAreCreated, StartFails, Run
  <1>7. CopiesAreRead'
    BY DEF BaseInv, CopiesAreRead, StartFails
  <1>8. AnswersAreKept'
    BY DEF BaseInv, AnswersAreKept, StartFails
  <1> QED BY <1>5, <1>6, <1>7, <1>8 DEF BaseInv

LEMMA TakeEventBase ==
  ASSUME BaseInv, TakeEvent
  PROVE  /\ feed' \in Seq(Event) /\ Len(feed) \in Nat \ {0}
         /\ DOMAIN feed = 1..Len(feed) /\ DOMAIN feed' = 1..Len(feed) - 1
         /\ \A i \in DOMAIN feed' : i + 1 \in DOMAIN feed /\ feed'[i] = feed[i + 1]
         /\ event = feed[1] /\ 1 \in DOMAIN feed /\ event \in Event
         /\ \A i \in DOMAIN feed' : feed'[i].run <= created
  <1> HIDE DEF Event
  <1>1. /\ feed' \in Seq(Event) /\ Len(feed) \in Nat \ {0}
        /\ DOMAIN feed = 1..Len(feed) /\ DOMAIN feed' = 1..Len(feed) - 1
        /\ \A i \in DOMAIN feed' : i + 1 \in DOMAIN feed /\ feed'[i] = feed[i + 1]
        /\ event = feed[1] /\ 1 \in DOMAIN feed /\ event \in Event
    BY FeedShrinks DEF BaseInv, TypeOK, TakeEvent, event
  <1> QED BY <1>1 DEF BaseInv, RunsAreCreated

\* Dropping the marks of a turn leaves a session with its run.
LEMMA DropTurnSession ==
  ASSUME NEW s \in Session,
         session' = [s EXCEPT !.wake = None, !.followUp = FALSE, !.inProgress = FALSE]
  PROVE  /\ session' \in Session /\ session' # None /\ session'.run = s.run
         /\ session'.wake = None /\ ~session'.followUp /\ ~session'.inProgress
  <1>1. session' = [run |-> s.run, wake |-> None, followUp |-> FALSE, inProgress |-> FALSE]
    BY DEF Session
  <1>2. session' \in Session
    BY <1>1 DEF Session
  <1> QED BY <1>1, <1>2, ClaireAssumption

\* A step that only changes the session, the wakes, the place in the loop and the
\* bounds, or takes an event, keeps the numbering.
LEMMA SessionStepBase ==
  ASSUME BaseInv, Around, session' \in Session \cup {None},
         session' # None => session'.run <= created,
         busy' \in SUBSET Run, faults' \in 0..MaxFaults,
         TakeEvent \/ UNCHANGED feed,
         UNCHANGED <<outcomes, counts, proc, result, copy, histVars>>
  PROVE  BaseInv'
  <1>1. feed' \in Seq(Event) /\ \A i \in DOMAIN feed' : feed'[i].run <= created
    BY TakeEventBase DEF BaseInv, TypeOK, RunsAreCreated
  <1>2. TypeOK'
    BY <1>1 DEF BaseInv, TypeOK, Around, counts, histVars
  <1>3. RunsAreCreated'
    BY <1>1 DEF BaseInv, RunsAreCreated, counts
  <1>4. CopiesAreRead'
    BY DEF BaseInv, CopiesAreRead
  <1>5. AnswersAreKept'
    BY DEF BaseInv, AnswersAreKept
  <1> QED BY <1>2, <1>3, <1>4, <1>5 DEF BaseInv

LEMMA InputBase ==
  ASSUME BaseInv, InputStep
  PROVE  BaseInv'
  <1>0. /\ inputs' \in 0..MaxInputs
        /\ \A v \in Wake \cup {None} : Deferred(v) \in [Wake -> WakeState \cup {None}]
        /\ wakes \in [Wake -> WakeState \cup {None}]
        /\ poll \in {"events", "reconcile", "follow_up", "wake"}
        /\ restarts \in 0..MaxRestarts
        /\ faults \in 0..MaxFaults /\ busy \in SUBSET Run
    BY ClaireAssumption, DeferredIsWakes
       DEF BaseInv, TypeOK, InputStep, UserTurn, ClearSession, clear_current_run, stop, Input
  <1>1. session # None => session \in Session /\ session.wake \in Wake \cup {None}
    BY DEF BaseInv, TypeOK, Session
  <1>2. CASE UserTurn
    <2> DEFINE s == Submitted(Opened)
    <2>1. turns < MaxTurns
      BY <1>2 DEF UserTurn, StartTurn, StartFails, AnotherTurn
    <2>2. s \in Session /\ s.run \in Run /\ s.run <= created + 1
      BY <2>1, OpenedIsSession, SubmittedIsSession
    <2>3. Around /\ "user" \in Purpose
      BY <1>0, <1>2 DEF Around, UserTurn, Purpose
    <2>4. StartTurn(s, "user") \/ StartFails(s)
      BY <1>2 DEF UserTurn
    <2> HIDE DEF s
    <2> QED BY <2>2, <2>3, <2>4, StartTurnBase, StartFailsBase
  <1>3. CASE ClearSession
    <2>1. Around
      BY <1>0, <1>1, <1>3 DEF Around, ClearSession, memVars
    <2> QED BY <1>0, <1>3, <2>1, SessionStepBase DEF ClearSession, memVars
  <1>4. CASE clear_current_run
    <2>1. Around
      BY <1>0, <1>1, <1>4 DEF Around, clear_current_run, memVars
    <2>2. session' \in Session /\ session'.run <= created
      BY <1>4, OpenedIsSession DEF clear_current_run, NewSession, BaseInv, TypeOK
    <2> QED BY <1>0, <1>4, <2>1, <2>2, SessionStepBase DEF clear_current_run, memVars
  <1>5. CASE stop
    <2>1. Around
      BY <1>0, <1>1, <1>5 DEF Around, stop
    <2>0. session.run \in Run /\ session.run <= created /\ created \in Nat /\ created' = created
      BY <1>5 DEF stop, BaseInv, TypeOK, Session, RunsAreCreated, counts
    <2>2. PICK r \in Run : r = session.run
      BY <2>0
    <2>3. /\ outcomes' \in [Run -> Nat] /\ feed' \in Seq(Event)
          /\ \A q \in Run : created' < q => outcomes'[q] = 0
          /\ \A i \in DOMAIN feed' : feed'[i].run <= created'
      <3>1. CASE AppendOutcome(r, "run.interrupted")
        <4>1. "run.interrupted" \in Outcome /\ created' \in Nat /\ created <= created'
              /\ r <= created'
          BY <2>0, <2>2 DEF Outcome
        <4>2. outcomes' \in [Run -> Nat] /\ feed' \in Seq(Event)
          BY <3>1, <4>1, AppendOutcomeBase
        <4> QED BY <3>1, <4>1, <4>2, AppendOutcomeRuns
      <3>2. CASE NoAppend
        BY <2>0, <3>2 DEF NoAppend, BaseInv, TypeOK, RunsAreCreated
      <3> QED BY <1>5, <2>2, <3>1, <3>2 DEF stop
    <2>4. session' \in Session /\ session' # None /\ session'.run <= created
      <3>1. CASE session' = NewSession
        BY <2>0, <3>1, OpenedIsSession DEF NewSession
      <3>2. CASE session' = session
        BY <1>1, <1>5, <2>0, <3>2 DEF stop
      <3> QED BY <1>5, <3>1, <3>2 DEF stop
    <2>5. /\ busy' \in SUBSET Run /\ faults' \in 0..MaxFaults
      BY <1>0, <1>5, ClaireAssumption DEF stop, Fault
    <2>51. proc' = [proc EXCEPT ![r] = "signalled"] /\ proc[r] = "running"
      BY <1>5, <2>2 DEF stop
    <2>52. /\ proc' \in [Run -> Supervised \cup {"none"}]
           /\ \A q \in Run : q # r => proc'[q] = proc[q]
      BY <2>51 DEF BaseInv, TypeOK, Supervised
    <2>6. UNCHANGED <<created, turns, result, copy, turn, assessed, misfired, cut, stale>>
      BY <1>5 DEF stop, counts, histVars
    <2>7. TypeOK'
      BY <2>1, <2>3, <2>4, <2>5, <2>52, <2>6 DEF BaseInv, TypeOK, Around
    <2>8. RunsAreCreated'
      <3>1. \A q \in Run : created < q => q # r /\ proc[q] = "none"
        BY <2>0, <2>2 DEF BaseInv, RunsAreCreated, Run
      <3>2. created <= turns
        BY DEF BaseInv, RunsAreCreated
      <3> QED BY <2>0, <2>3, <2>4, <2>52, <2>6, <3>1, <3>2 DEF RunsAreCreated
    <2>9. CopiesAreRead'
      BY <2>51, <2>52, <2>6 DEF BaseInv, CopiesAreRead
    <2>10. AnswersAreKept'
      BY <2>51, <2>52, <2>6 DEF BaseInv, TypeOK, AnswersAreKept
    <2> QED BY <2>7, <2>8, <2>9, <2>10 DEF BaseInv
  <1> QED BY <1>2, <1>3, <1>4, <1>5 DEF InputStep

\* A supervisor moves on: its run exists, and no other run's state changes.
LEMMA SuperviseBase ==
  ASSUME BaseInv, NEW r \in Run, NEW from \in Supervised, NEW to \in Supervised \cup {"none"},
         Supervise(r, from, to)
  PROVE  /\ proc' \in [Run -> Supervised \cup {"none"}]
         /\ proc[r] = from /\ proc'[r] = to /\ \A q \in Run : q # r => proc'[q] = proc[q]
         /\ r <= created /\ created \in Nat
         /\ \A q \in Run : created < q => proc'[q] = "none"
  <1>1. /\ proc' \in [Run -> Supervised \cup {"none"}]
        /\ proc[r] = from /\ proc'[r] = to /\ \A q \in Run : q # r => proc'[q] = proc[q]
    BY DEF BaseInv, TypeOK, Supervise
  <1>2. r \in Nat /\ created \in Nat /\ from # "none"
    BY DEF BaseInv, TypeOK, Run, Supervised
  <1>3. r <= created
    BY <1>1, <1>2 DEF BaseInv, RunsAreCreated
  <1> QED BY <1>1, <1>2, <1>3 DEF BaseInv, RunsAreCreated, Run

LEMMA ProcessEndsBase ==
  ASSUME BaseInv, NEW r \in Run, ProcessEnds(r)
  PROVE  BaseInv'
  <1>1. /\ proc' \in [Run -> Supervised \cup {"none"}]
        /\ proc[r] = "running" /\ \A q \in Run : q # r => proc'[q] = proc[q]
        /\ \A q \in Run : created < q => proc'[q] = "none"
    BY SuperviseBase DEF ProcessEnds, Supervised
  <1>2. faults' \in 0..MaxFaults /\ result' \in [Run -> Result] /\ assessed' \in SUBSET Wake
    BY ClaireAssumption DEF BaseInv, TypeOK, ProcessEnds, Fault
  <1>3. UNCHANGED <<hubVars, feed, busy, copy, poll, turn, misfired, cut, stale, inputs, restarts>>
    BY DEF ProcessEnds
  <1>4. TypeOK'
    BY <1>1, <1>2, <1>3 DEF BaseInv, TypeOK, hubVars, counts
  <1>5. RunsAreCreated'
    BY <1>1, <1>3 DEF BaseInv, RunsAreCreated, hubVars, counts
  <1>6. CopiesAreRead'
    BY <1>1, <1>3 DEF BaseInv, CopiesAreRead
  <1>7. AnswersAreKept'
    BY <1>1 DEF BaseInv, TypeOK, AnswersAreKept, ProcessEnds, Supervise
  <1> QED BY <1>4, <1>5, <1>6, <1>7 DEF BaseInv

LEMMA SupervisorBase ==
  ASSUME BaseInv, NEW r \in Run, SupervisorStep(r)
  PROVE  BaseInv'
  <1>0. /\ proc' \in [Run -> Supervised \cup {"none"}]
        /\ \A q \in Run : q # r => proc'[q] = proc[q]
        /\ r <= created /\ created \in Nat
        /\ \A q \in Run : created < q => proc'[q] = "none"
    BY SuperviseBase DEF SupervisorStep, SupervisorSilent, SupervisorRead, SupervisorSave,
         SupervisorSpeaks, SupervisorReports, Supervised
  <1>1. /\ UNCHANGED <<wakes, created, turns, busy, poll, turn, assessed, misfired, cut, inputs,
                       restarts>>
    BY DEF SupervisorStep, SupervisorSilent, SupervisorRead, SupervisorSave,
           SupervisorSpeaks, SupervisorReports, hubVars, counts, histVars, bounds
  <1>12. stale' \in BOOLEAN
    BY DEF BaseInv, TypeOK, SupervisorStep, SupervisorSilent, SupervisorRead, SupervisorSave,
           SupervisorSpeaks, SupervisorReports, histVars
  <1>13. faults' \in 0..MaxFaults
    BY ClaireAssumption
       DEF BaseInv, TypeOK, SupervisorStep, SupervisorSilent, SupervisorRead, SupervisorSave,
           SupervisorSpeaks, SupervisorReports, bounds, Fault
  <1>11. result' \in [Run -> Result]
    BY DEF BaseInv, TypeOK, SupervisorStep, SupervisorSilent, SupervisorRead, SupervisorSave,
           SupervisorSpeaks, SupervisorReports, Result
  <1>10. AnswersAreKept'
    BY <1>0 DEF BaseInv, TypeOK, AnswersAreKept, Result, Supervise, SupervisorStep,
         SupervisorSilent, SupervisorRead, SupervisorSave, SupervisorSpeaks, SupervisorReports
  <1>2. CASE SupervisorSilent(r)
    <2>1. UNCHANGED <<session, outcomes, feed, copy>> /\ proc[r] = "signalled"
      BY <1>2 DEF SupervisorSilent, hubVars, Supervise
    <2>2. TypeOK'
      BY <1>0, <1>1, <1>11, <1>12, <1>13, <2>1 DEF BaseInv, TypeOK
    <2>3. RunsAreCreated'
      BY <1>0, <1>1, <2>1 DEF BaseInv, RunsAreCreated
    <2>4. CopiesAreRead'
      BY <1>0, <2>1 DEF BaseInv, CopiesAreRead
    <2> QED BY <1>10, <2>2, <2>3, <2>4 DEF BaseInv
  <1>3. CASE SupervisorRead(r)
    <2>1. /\ UNCHANGED <<session, outcomes, feed>> /\ proc[r] = "ended" /\ proc'[r] = "read"
          /\ copy' = [copy EXCEPT ![r] = IF session # None /\ session.run = r
                                         THEN session ELSE None]
      BY <1>3 DEF SupervisorRead, hubVars, Supervise, BaseInv, TypeOK
    <2>2. copy' \in [Run -> Session \cup {None}]
      BY <2>1 DEF BaseInv, TypeOK
    <2>3. TypeOK'
      BY <1>0, <1>1, <1>11, <1>12, <1>13, <2>1, <2>2 DEF BaseInv, TypeOK
    <2>4. RunsAreCreated'
      BY <1>0, <1>1, <2>1 DEF BaseInv, RunsAreCreated
    <2>5. CopiesAreRead'
      BY <1>0, <2>1 DEF BaseInv, TypeOK, CopiesAreRead
    <2> QED BY <1>10, <2>3, <2>4, <2>5 DEF BaseInv
  <1>4. CASE SupervisorSave(r)
    <2>1. /\ UNCHANGED <<outcomes, feed>> /\ proc[r] = "read" /\ proc'[r] = "saved"
          /\ copy' = [copy EXCEPT ![r] = None]
          /\ session' = IF copy[r] = None THEN session ELSE copy[r]
      BY <1>4 DEF SupervisorSave, Supervise, BaseInv, TypeOK
    <2>2. copy' \in [Run -> Session \cup {None}] /\ session' \in Session \cup {None}
      BY <2>1 DEF BaseInv, TypeOK
    <2>3. TypeOK'
      BY <1>0, <1>1, <1>11, <1>12, <1>13, <2>1, <2>2 DEF BaseInv, TypeOK
    <2>4. session' # None => session'.run <= created
      BY <1>0, <2>1 DEF BaseInv, CopiesAreRead, RunsAreCreated
    <2>5. RunsAreCreated'
      BY <1>0, <1>1, <2>1, <2>4 DEF BaseInv, RunsAreCreated
    <2>6. CopiesAreRead'
      BY <1>0, <2>1 DEF BaseInv, TypeOK, CopiesAreRead
    <2> QED BY <1>10, <2>3, <2>5, <2>6 DEF BaseInv
  <1>5. CASE SupervisorSpeaks(r)
    <2>1. UNCHANGED <<session, outcomes, copy>> /\ proc[r] = "saved"
      BY <1>5 DEF SupervisorSpeaks, hubVars, Supervise
    <2>2. feed' \in Seq(Event) /\ \A i \in DOMAIN feed' : feed'[i].run <= created
      <3>1. CASE UNCHANGED feed
        BY <3>1 DEF BaseInv, TypeOK, RunsAreCreated
      <3>2. CASE feed' = Append(feed, [kind |-> "message", run |-> r, text |-> result[r]])
        <4>1. [kind |-> "message", run |-> r, text |-> result[r]] \in Event
          BY <2>1 DEF Event, BaseInv, AnswersAreKept
        <4> QED BY <1>0, <3>2, <4>1, FeedGrows DEF BaseInv, TypeOK, RunsAreCreated
      <3> QED BY <1>5, <3>1, <3>2 DEF SupervisorSpeaks
    <2>3. TypeOK'
      BY <1>0, <1>1, <1>11, <1>12, <1>13, <2>1, <2>2 DEF BaseInv, TypeOK
    <2>4. RunsAreCreated'
      BY <1>0, <1>1, <2>1, <2>2 DEF BaseInv, RunsAreCreated
    <2>5. CopiesAreRead'
      BY <1>0, <2>1 DEF BaseInv, CopiesAreRead
    <2> QED BY <1>10, <2>3, <2>4, <2>5 DEF BaseInv
  <1>6. CASE SupervisorReports(r)
    <2>1. UNCHANGED <<session, copy>> /\ proc[r] \in {"spoke", "ended"}
      BY <1>6 DEF SupervisorReports, Supervise
    <2>2. /\ outcomes' \in [Run -> Nat] /\ feed' \in Seq(Event)
          /\ \A q \in Run : created' < q => outcomes'[q] = 0
          /\ \A i \in DOMAIN feed' : feed'[i].run <= created'
      <3>1. ASSUME NEW o \in Outcome, AppendOutcome(r, o)
            PROVE  /\ outcomes' \in [Run -> Nat] /\ feed' \in Seq(Event)
                   /\ \A q \in Run : created' < q => outcomes'[q] = 0
                   /\ \A i \in DOMAIN feed' : feed'[i].run <= created'
        <4>1. outcomes' \in [Run -> Nat] /\ feed' \in Seq(Event)
          BY <3>1, AppendOutcomeBase
        <4> QED BY <1>0, <1>1, <3>1, <4>1, AppendOutcomeRuns
      <3>2. CASE NoAppend
        BY <1>1, <3>2 DEF NoAppend, BaseInv, TypeOK, RunsAreCreated
      <3> QED BY <1>6, <3>1, <3>2 DEF SupervisorReports, Outcome
    <2>3. TypeOK'
      BY <1>0, <1>1, <1>11, <1>12, <1>13, <2>1, <2>2 DEF BaseInv, TypeOK
    <2>4. RunsAreCreated'
      BY <1>0, <1>1, <2>1, <2>2 DEF BaseInv, RunsAreCreated
    <2>5. CopiesAreRead'
      BY <1>0, <2>1 DEF BaseInv, CopiesAreRead
    <2> QED BY <1>10, <2>3, <2>4, <2>5 DEF BaseInv
  <1> QED BY <1>2, <1>3, <1>4, <1>5, <1>6 DEF SupervisorStep

LEMMA EventBase ==
  ASSUME BaseInv, handle_claire_event \/ EventsDone
  PROVE  BaseInv'
  <1>0. /\ \A v \in Wake \cup {None} : Deferred(v) \in [Wake -> WakeState \cup {None}]
        /\ wakes \in [Wake -> WakeState \cup {None}]
        /\ poll \in {"events", "reconcile", "follow_up", "wake"}
        /\ inputs \in 0..MaxInputs /\ restarts \in 0..MaxRestarts
        /\ faults \in 0..MaxFaults /\ busy \in SUBSET Run /\ created \in Nat
        /\ session \in Session \cup {None} /\ (session # None => session.run <= created)
    BY DeferredIsWakes DEF BaseInv, TypeOK, RunsAreCreated
  <1>1. session \in Session => session.wake \in Wake \cup {None} /\ session.run \in Run \cup {0}
    BY DEF Session
  <1>2. is_claire => session \in Session /\ session # None
    BY <1>0 DEF is_claire
  <1>3. CASE EventsDone
    <2>1. Around
      BY <1>0, <1>3 DEF Around, EventsDone, Poll, hubVars, bounds
    <2> QED BY <1>0, <1>3, <2>1, SessionStepBase DEF EventsDone, hubVars, bounds
  <1>4. CASE SkipEvent
    <2>1. Around
      BY <1>0, <1>4 DEF Around, SkipEvent, hubVars, bounds
    <2> QED BY <1>0, <1>4, <2>1, SessionStepBase DEF SkipEvent, hubVars, bounds
  <1>5. CASE RejectEnvelope
    <2>1. Around
      BY <1>0, <1>1, <1>2, <1>5 DEF Around, RejectEnvelope, DropTurn, bounds
    <2>2. session' \in Session /\ session'.run <= created
      BY <1>0, <1>2, <1>5, DropTurnSession DEF RejectEnvelope, DropTurn
    <2> QED BY <1>0, <1>5, <2>1, <2>2, SessionStepBase DEF RejectEnvelope, bounds
  <1>6. CASE RunActions
    <2>1. Around
      <3>1. wakes' \in [Wake -> WakeState \cup {None}]
        BY <1>0, <1>6 DEF RunActions, execute_claire_action, WakeState
      <3> QED BY <1>0, <1>6, <3>1 DEF Around, RunActions, bounds
    <2>2. session' \in Session /\ session'.run <= created
      BY <1>0, <1>2, <1>6 DEF RunActions, Session
    <2> QED BY <1>0, <1>6, <2>1, <2>2, SessionStepBase DEF RunActions, bounds
  <1>7. CASE DeliverReply
    <2>1. Around
      <3>1. wakes' \in [Wake -> WakeState \cup {None}]
        BY <1>0, <1>1, <1>2, <1>7 DEF DeliverReply, WakeState
      <3> QED BY <1>0, <1>7, <3>1 DEF Around, DeliverReply
    <2>2. session' \in Session /\ session'.run <= created
      BY <1>0, <1>2, <1>7 DEF DeliverReply, Session
    <2>3. faults' \in 0..MaxFaults
      BY <1>0, <1>7, ClaireAssumption DEF DeliverReply, Fault
    <2> QED BY <1>0, <1>7, <2>1, <2>2, <2>3, SessionStepBase DEF DeliverReply
  <1>8. CASE TurnFailed
    <2> DEFINE s == [session EXCEPT !.run = 0]
    <2>1. Around
      BY <1>0, <1>1, <1>2, <1>8 DEF Around, TurnFailed, DropTurn, bounds
    <2>2. s \in Session /\ s.run = 0
      BY <1>2, <1>8 DEF TurnFailed, Session
    <2>3. session' = [s EXCEPT !.wake = None, !.followUp = FALSE, !.inProgress = FALSE]
      BY <1>8 DEF TurnFailed, DropTurn
    <2> HIDE DEF s
    <2>4. session' \in Session /\ session'.run <= created
      <3>1. session' \in Session /\ session'.run = s.run
        BY <2>2, <2>3, DropTurnSession
      <3> QED BY <1>0, <2>2, <3>1
    <2> QED BY <1>0, <1>8, <2>1, <2>4, SessionStepBase DEF TurnFailed, bounds
  <1>9. CASE TurnCompleted
    <2>1. Around
      BY <1>0, <1>9 DEF Around, TurnCompleted, bounds
    <2>2. session' \in Session /\ session'.run <= created
      BY <1>0, <1>2, <1>9 DEF TurnCompleted, Session
    <2> QED BY <1>0, <1>9, <2>1, <2>2, SessionStepBase DEF TurnCompleted, bounds
  <1> QED BY <1>3, <1>4, <1>5, <1>6, <1>7, <1>8, <1>9 DEF handle_claire_event

\* The reconciler finds a turn that exists.
LEMMA ReconcileBase ==
  ASSUME BaseInv, reconcile_claire_runner
  PROVE  BaseInv'
  <1>0. /\ \A v \in Wake \cup {None} : Deferred(v) \in [Wake -> WakeState \cup {None}]
        /\ wakes \in [Wake -> WakeState \cup {None}]
        /\ inputs' \in 0..MaxInputs /\ restarts' \in 0..MaxRestarts
        /\ faults \in 0..MaxFaults /\ busy \in SUBSET Run /\ created \in Nat
        /\ session \in Session \cup {None} /\ (session # None => session.run <= created)
        /\ poll' \in {"events", "reconcile", "follow_up", "wake"}
    BY DeferredIsWakes DEF BaseInv, TypeOK, RunsAreCreated, reconcile_claire_runner, Poll
  <1>1. UNCHANGED <<counts, busy, proc, result, copy, histVars>>
    BY DEF reconcile_claire_runner
  <1>2. CASE ~Orphaned
    <2>1. UNCHANGED <<session, wakes, outcomes, feed, faults>>
      BY <1>2 DEF reconcile_claire_runner
    <2>2. Around
      BY <1>0, <2>1 DEF Around
    <2> QED BY <1>0, <1>1, <2>1, <2>2, SessionStepBase
  <1>3. CASE Orphaned
    <2>1. /\ session \in Session /\ session.run \in Run /\ session.run <= created
          /\ session.wake \in Wake \cup {None}
      BY <1>0, <1>3 DEF Orphaned, current_turn_is_busy, Session
    <2>2. PICK r \in Run : r = session.run
      BY <2>1
    <2>3. session' \in Session /\ session'.run = r /\ wakes' \in [Wake -> WakeState \cup {None}]
      BY <1>0, <1>3, <2>1, <2>2 DEF reconcile_claire_runner, Session
    <2>4. /\ outcomes' \in [Run -> Nat] /\ feed' \in Seq(Event)
          /\ \A q \in Run : created' < q => outcomes'[q] = 0
          /\ \A i \in DOMAIN feed' : feed'[i].run <= created'
      <3>1. CASE AppendOutcome(r, "run.failed")
        <4>1. "run.failed" \in Outcome /\ created' \in Nat /\ created <= created' /\ r <= created'
          BY <1>0, <1>1, <2>1, <2>2 DEF Outcome, counts
        <4>2. outcomes' \in [Run -> Nat] /\ feed' \in Seq(Event)
          BY <3>1, <4>1, AppendOutcomeBase
        <4> QED BY <3>1, <4>1, <4>2, AppendOutcomeRuns
      <3>2. CASE NoAppend
        BY <1>1, <3>2 DEF NoAppend, BaseInv, TypeOK, RunsAreCreated, counts
      <3> QED BY <1>3, <2>2, <3>1, <3>2 DEF reconcile_claire_runner
    <2>5. faults' \in 0..MaxFaults
      BY <1>0, <1>3, ClaireAssumption DEF reconcile_claire_runner, Fault
    <2>6. TypeOK'
      BY <1>0, <1>1, <2>3, <2>4, <2>5 DEF BaseInv, TypeOK, counts, histVars
    <2>7. RunsAreCreated'
      BY <1>1, <2>1, <2>2, <2>3, <2>4 DEF BaseInv, RunsAreCreated, counts
    <2>8. CopiesAreRead' /\ AnswersAreKept'
      BY <1>1 DEF BaseInv, CopiesAreRead, AnswersAreKept
    <2> QED BY <2>6, <2>7, <2>8 DEF BaseInv
  <1> QED BY <1>2, <1>3

\* The session a follow-up, and a wake, is started with.
FollowUpSession == Submitted([session EXCEPT !.followUp = FALSE, !.inProgress = TRUE])
WakeSession(w) == [Submitted(Opened) EXCEPT !.wake = w]

LEMMA MarkedSession ==
  ASSUME NEW t \in Session, NEW u, u = [t EXCEPT !.followUp = FALSE, !.inProgress = TRUE]
  PROVE  u = [run |-> t.run, wake |-> t.wake, followUp |-> FALSE, inProgress |-> TRUE]
  BY DEF Session

LEMMA FollowUpSessionIs ==
  ASSUME BaseInv, turns < MaxTurns, session # None
  PROVE  /\ FollowUpSession \in Session
         /\ FollowUpSession.run \in Run /\ FollowUpSession.run <= created + 1
         /\ Current = 0 => FollowUpSession.run = created + 1
         /\ FollowUpSession.wake = session.wake
  <1> DEFINE s == [session EXCEPT !.followUp = FALSE, !.inProgress = TRUE]
  <1>1. session \in Session /\ session.run <= created
    BY DEF BaseInv, TypeOK, RunsAreCreated
  <1>2. s = [run |-> session.run, wake |-> session.wake, followUp |-> FALSE,
             inProgress |-> TRUE]
    BY <1>1, MarkedSession
  <1>3. s \in Session /\ s.run = session.run /\ s.wake = session.wake
    BY <1>1, <1>2 DEF Session
  <1> HIDE DEF s
  <1>4. Current = 0 => s.run = 0
    BY <1>3 DEF Current
  <1>5. FollowUpSession = Submitted(s)
    BY DEF FollowUpSession, s
  <1> QED BY <1>1, <1>3, <1>4, <1>5, SubmittedIsSession

LEMMA WakeSessionIs ==
  ASSUME BaseInv, turns < MaxTurns, NEW w \in Wake
  PROVE  /\ WakeSession(w) \in Session
         /\ WakeSession(w).run \in Run /\ WakeSession(w).run <= created + 1
         /\ Current = 0 => WakeSession(w).run = created + 1
         /\ WakeSession(w).wake = w
         /\ session = None => ~WakeSession(w).inProgress
         /\ session # None => WakeSession(w).inProgress = session.inProgress
  <1> DEFINE s == Submitted(Opened)
  <1>1. /\ s \in Session /\ s.run \in Run /\ s.run <= created + 1
        /\ Current = 0 => s.run = created + 1
        /\ s.inProgress = Opened.inProgress
    BY OpenedIsSession, SubmittedIsSession
  <1>2. /\ session = None => ~Opened.inProgress
        /\ session # None => Opened.inProgress = session.inProgress
    BY OpenedIsSession DEF NewSession
  <1>3. WakeSession(w) = [s EXCEPT !.wake = w]
    BY DEF WakeSession
  <1> HIDE DEF s
  <1> QED BY <1>1, <1>2, <1>3 DEF Session

\* What a failed start saves.
LEMMA CleanedSession ==
  ASSUME NEW t \in Session, NEW u,
         \/ u = [t EXCEPT !.inProgress = FALSE, !.wake = None]
         \/ u = [t EXCEPT !.wake = None]
  PROVE  u \in Session /\ u.run = t.run
  <1>1. CASE u = [t EXCEPT !.inProgress = FALSE, !.wake = None]
    <2>1. u = [run |-> t.run, wake |-> None, followUp |-> t.followUp, inProgress |-> FALSE]
      BY <1>1 DEF Session
    <2> QED BY <2>1 DEF Session
  <1>2. CASE u = [t EXCEPT !.wake = None]
    BY <1>2 DEF Session
  <1> QED BY <1>1, <1>2

\* A step that does nothing to the turn keeps the base invariant.
LEMMA IdleBase ==
  ASSUME BaseInv, Around,
         UNCHANGED <<session, outcomes, counts, feed, busy, proc, result, copy, histVars, faults>>
  PROVE  BaseInv'
  BY SessionStepBase DEF BaseInv, TypeOK, RunsAreCreated

LEMMA FollowUpBase ==
  ASSUME BaseInv, start_pending_claire_follow_up
  PROVE  BaseInv'
  <1>1. /\ inputs' \in 0..MaxInputs /\ restarts' \in 0..MaxRestarts
        /\ poll' \in {"events", "reconcile", "follow_up", "wake"}
        /\ wakes \in [Wake -> WakeState \cup {None}]
    BY DEF BaseInv, TypeOK, start_pending_claire_follow_up, Poll
  <1>2. CASE ~(Free /\ session # None /\ session.followUp)
    <2>1. UNCHANGED <<session, wakes, outcomes, counts, feed, busy, proc, result, copy,
                      histVars, faults>>
      BY <1>2 DEF start_pending_claire_follow_up
    <2> QED BY <1>1, <2>1, IdleBase DEF Around
  <1>3. CASE Free /\ session # None /\ session.followUp
    <2>1. PICK s : s = FollowUpSession
      OBVIOUS
    <2>2. /\ s \in Session /\ s.run \in Run /\ s.run <= created + 1
          /\ s.wake \in Wake \cup {None}
      BY <1>3, <2>1, FollowUpSessionIs DEF Free, Session
    <2>3. CASE StartTurn(s, "follow_up") /\ UNCHANGED wakes
      BY <1>1, <2>2, <2>3, StartTurnBase DEF Around, Purpose
    <2>4. CASE /\ StartFails([s EXCEPT !.inProgress = FALSE, !.wake = None])
               /\ wakes' = Deferred(s.wake)
      <3>1. PICK u : u = [s EXCEPT !.inProgress = FALSE, !.wake = None]
        OBVIOUS
      <3>2. u \in Session /\ u.run \in Run /\ u.run <= created + 1
        BY <2>2, <3>1, CleanedSession
      <3>3. StartFails(u)
        BY <2>4, <3>1
      <3>4. Around
        BY <1>1, <2>2, <2>4, DeferredIsWakes DEF Around
      <3> QED BY <3>2, <3>3, <3>4, StartFailsBase
    <2> QED BY <1>3, <2>1, <2>3, <2>4 DEF start_pending_claire_follow_up, FollowUpSession
  <1> QED BY <1>2, <1>3

LEMMA WakeBase ==
  ASSUME BaseInv, wake_claire_for_pending_worker
  PROVE  BaseInv'
  <1>1. /\ inputs' \in 0..MaxInputs /\ restarts' \in 0..MaxRestarts
        /\ poll' \in {"events", "reconcile", "follow_up", "wake"}
        /\ wakes \in [Wake -> WakeState \cup {None}]
    BY DEF BaseInv, TypeOK, wake_claire_for_pending_worker, Poll
  <1>2. CASE UNCHANGED <<session, wakes, outcomes, counts, feed, busy, proc, result, copy,
                         histVars, faults>>
    BY <1>1, <1>2, IdleBase DEF Around
  <1>3. ASSUME Free, NEW w \in Due,
               \/ StartTurn(WakeSession(w), w) /\ UNCHANGED wakes
               \/ /\ StartFails([WakeSession(w) EXCEPT !.wake = None])
                  /\ wakes' = Deferred(w)
        PROVE  BaseInv'
    <2>1. PICK s : s = WakeSession(w)
      OBVIOUS
    <2>2. w \in Wake /\ s \in Session /\ s.run \in Run /\ s.run <= created + 1
      BY <1>3, <2>1, WakeSessionIs DEF Free, Due
    <2>3. CASE StartTurn(s, w) /\ UNCHANGED wakes
      BY <1>1, <2>2, <2>3, StartTurnBase DEF Around, Purpose
    <2>4. CASE StartFails([s EXCEPT !.wake = None]) /\ wakes' = Deferred(w)
      <3>1. PICK u : u = [s EXCEPT !.wake = None]
        OBVIOUS
      <3>2. u \in Session /\ u.run \in Run /\ u.run <= created + 1
        BY <2>2, <3>1, CleanedSession
      <3>3. StartFails(u)
        BY <2>4, <3>1
      <3>4. Around
        BY <1>1, <2>2, <2>4, DeferredIsWakes DEF Around
      <3> QED BY <3>2, <3>3, <3>4, StartFailsBase
    <2> QED BY <1>3, <2>1, <2>3, <2>4
  <1> QED BY <1>2, <1>3 DEF wake_claire_for_pending_worker, WakeSession

LEMMA WorkerBase ==
  ASSUME BaseInv, NEW w \in Wake, WakeStep(w)
  PROVE  BaseInv'
  <1>1. Around
    BY DEF BaseInv, TypeOK, Around, WakeStep, StartWorker, WakeDue, WakeState, memVars, bounds
  <1> QED BY <1>1, IdleBase DEF WakeStep, memVars, bounds

LEMMA RestartBase ==
  ASSUME BaseInv, Restart
  PROVE  BaseInv'
  <1>1. /\ inputs' \in 0..MaxInputs /\ restarts' \in 0..MaxRestarts
        /\ poll' \in {"events", "reconcile", "follow_up", "wake"}
        /\ busy' = {} /\ feed' = <<>>
        /\ proc' = [r \in Run |-> "none"] /\ copy' = [r \in Run |-> None]
        /\ result' = [r \in Run |-> "failed"]
        /\ UNCHANGED <<created, turns, turn, assessed, misfired, faults>>
    BY ClaireAssumption DEF Restart, BaseInv, TypeOK, counts
  <1>2. created \in Nat /\ turns \in Nat
    BY DEF BaseInv, TypeOK
  <1>3. /\ session' \in Session \cup {None}
        /\ session' # None => session'.run = 0
        /\ wakes' \in [Wake -> WakeState \cup {None}]
    <2>1. CASE session = None
      BY <2>1 DEF Restart, BaseInv, TypeOK
    <2>2. CASE session # None
      <3>1. session \in Session /\ session.wake \in Wake \cup {None}
        BY <2>2 DEF BaseInv, TypeOK, Session
      <3>2. session' = [session EXCEPT !.run = 0, !.wake = None] /\ wakes' = Deferred(session.wake)
        BY <2>2 DEF Restart
      <3>3. session' = [run |-> 0, wake |-> None, followUp |-> session.followUp,
                        inProgress |-> session.inProgress]
        BY <3>1, <3>2 DEF Session
      <3>4. session' \in Session
        BY <3>1, <3>3 DEF Session
      <3> QED BY <3>1, <3>2, <3>3, <3>4, DeferredIsWakes
    <2> QED BY <2>1, <2>2
  <1>4. outcomes' \in [Run -> Nat] /\ \A r \in Run : created < r => outcomes'[r] = 0
    <2>1. CASE UNCHANGED outcomes
      BY <2>1 DEF BaseInv, TypeOK, RunsAreCreated
    <2>2. CASE ~UNCHANGED outcomes
      <3>1. session # None /\ session.run # 0
        BY <2>2 DEF Restart
      <3>2. PICK r \in Run : r = session.run
        BY <3>1 DEF BaseInv, TypeOK, Session
      <3>3. outcomes' = [outcomes EXCEPT ![r] = @ + 1]
        BY <2>2, <3>2 DEF Restart
      <3>4. r <= created /\ r \in Nat
        BY <3>1, <3>2 DEF BaseInv, RunsAreCreated, Run
      <3> QED BY <1>2, <3>3, <3>4 DEF BaseInv, TypeOK, RunsAreCreated, Run
    <2> QED BY <2>1, <2>2
  <1>5. cut' \in SUBSET Run /\ stale' \in BOOLEAN
    BY DEF Restart, BaseInv, TypeOK
  <1>6. TypeOK'
    <2>1. /\ proc' \in [Run -> Supervised \cup {"none"}] /\ copy' \in [Run -> Session \cup {None}]
          /\ result' \in [Run -> Result] /\ feed' \in Seq(Event) /\ busy' \in SUBSET Run
      BY <1>1 DEF Result
    <2> QED BY <1>1, <1>3, <1>4, <1>5, <2>1 DEF BaseInv, TypeOK
  <1>7. RunsAreCreated'
    BY <1>1, <1>2, <1>3, <1>4 DEF BaseInv, RunsAreCreated
  <1>8. CopiesAreRead' /\ AnswersAreKept'
    BY <1>1 DEF CopiesAreRead, AnswersAreKept
  <1> QED BY <1>6, <1>7, <1>8 DEF BaseInv

LEMMA BaseStep ==
  ASSUME BaseInv, [Next]_vars
  PROVE  BaseInv'
  <1>1. CASE UNCHANGED vars
    BY <1>1, IdleBase
       DEF vars, hubVars, memVars, bounds, counts, histVars, Around, BaseInv, TypeOK
  <1> QED
    BY <1>1, InputBase, ProcessEndsBase, SupervisorBase, EventBase, ReconcileBase, FollowUpBase,
       WakeBase, WorkerBase, RestartBase DEF Next, OutputStep

-----------------------------------------------------------------------------
(* One turn at a time, and one outcome.                                    *)

\* When no turn is current nothing reports, and no session is held by a supervisor.
LEMMA NoTurn ==
  ASSUME BaseInv, TurnInv, Current = 0
  PROVE  /\ busy = {}
         /\ \A r \in Run : proc[r] \notin Reporting /\ copy[r] = None
  <1>1. \A r \in Run : r # 0
    BY DEF Run
  <1>2. \A r \in Run : proc[r] \notin Reporting
    BY <1>1 DEF TurnInv, ReportsCurrent
  <1>3. \A r \in Run : copy[r] = None
    BY <1>2 DEF BaseInv, CopiesAreRead, Reporting, Supervised
  <1> QED BY <1>2, <1>3 DEF TurnInv, BusyIsCurrent

\* Neither thread starts or forgets a turn while one is current.
LEMMA IdleIsCurrentless ==
  ASSUME BaseInv, TurnInv, ~current_turn_is_busy \/ Free
  PROVE  Current = 0
  BY DEF TurnInv, BusyIsCurrent, Current, current_turn_is_busy, Free

LEMMA TurnFrame ==
  ASSUME TurnInv,
         UNCHANGED <<session, busy, proc, outcomes, copy, feed, cut, misfired>>
  PROVE  TurnInv'
  <1>1. Current' = Current /\ \A r \in Run : Spoken(r)' <=> Spoken(r)
    BY DEF Current, Spoken
  <1>2. BusyIsCurrent' /\ ReportsCurrent' /\ CopyIsSession'
    BY <1>1 DEF TurnInv, BusyIsCurrent, ReportsCurrent, CopyIsSession
  <1>3. FeedIsLogged' /\ OneOutcome'
    BY DEF TurnInv, FeedIsLogged, OneOutcome
  <1>4. SpeaksLate'
    BY <1>1 DEF TurnInv, SpeaksLate
  <1> QED BY <1>2, <1>3, <1>4 DEF TurnInv

\* A turn starts in a run of its own.
LEMMA StartTurnTurn ==
  ASSUME BaseInv, TurnInv, ~misfired, Current = 0,
         NEW s \in Session, s.run \in Run, s.run = created + 1, NEW why, StartTurn(s, why)
  PROVE  TurnInv'
  <1>1. /\ session' = s /\ s # None /\ busy' = {s.run} /\ s.run # 0
        /\ proc' = [proc EXCEPT ![s.run] = "running"]
        /\ UNCHANGED <<outcomes, feed, copy, misfired, cut>>
    BY NoTurn, ClaireAssumption DEF StartTurn, NoAppend, Run
  <1>2. Current' = s.run
    BY <1>1 DEF Current
  <1>3. created \in Nat /\ created < s.run
    BY DEF BaseInv, TypeOK
  <1>4. /\ \A r \in Run : r # s.run => proc'[r] = proc[r] /\ proc[r] \notin Reporting
        /\ \A r \in Run : copy'[r] = None
        /\ outcomes'[s.run] = 0
    BY <1>1, <1>3, NoTurn DEF BaseInv, TypeOK, RunsAreCreated
  <1>5. BusyIsCurrent'
    BY <1>1, <1>2 DEF BusyIsCurrent
  <1>6. ReportsCurrent' /\ CopyIsSession'
    BY <1>2, <1>4 DEF ReportsCurrent, CopyIsSession
  <1>7. FeedIsLogged' /\ OneOutcome'
    BY <1>1 DEF TurnInv, FeedIsLogged, OneOutcome
  <1>8. SpeaksLate'
    <2>1. \A i \in DOMAIN feed : feed[i].run \in Nat /\ feed[i].run <= created
      BY DEF BaseInv, TypeOK, RunsAreCreated, Event, Run
    <2>2. \A i \in DOMAIN feed' : feed'[i].run # s.run
      BY <1>1, <1>3, <2>1
    <2> QED BY <1>4, <2>2 DEF SpeaksLate, Spoken, Reporting, Supervised
  <1> QED BY <1>5, <1>6, <1>7, <1>8 DEF TurnInv

\* The session is forgotten between turns.
LEMMA ForgetTurn ==
  ASSUME BaseInv, TurnInv, Current = 0, Current' = 0,
         UNCHANGED <<busy, proc, outcomes, copy, feed, cut, misfired>>
  PROVE  TurnInv'
  <1>1. \A r \in Run : Spoken(r)' <=> Spoken(r)
    BY DEF Spoken
  <1>2. BusyIsCurrent' /\ ReportsCurrent' /\ CopyIsSession'
    BY NoTurn DEF TurnInv, BusyIsCurrent, ReportsCurrent, CopyIsSession
  <1>3. FeedIsLogged' /\ OneOutcome'
    BY DEF TurnInv, FeedIsLogged, OneOutcome
  <1>4. SpeaksLate'
    BY <1>1 DEF TurnInv, SpeaksLate
  <1> QED BY <1>2, <1>3, <1>4 DEF TurnInv

\* An outcome given to a run that had none: the run is settled, and the log and the
\* feed agree.
LEMMA OutcomeSettles ==
  ASSUME BaseInv, TurnInv, ~misfired, NEW r \in Run, outcomes[r] = 0,
         NEW o \in Outcome, AppendOutcome(r, o), UNCHANGED <<cut, misfired>>
  PROVE  /\ FeedIsLogged' /\ OneOutcome'
         /\ \A q \in Run : Spoken(q)' <=> Spoken(q)
         /\ \A q \in Run : q # r => outcomes'[q] = outcomes[q]
  <1> DEFINE n == Len(feed)
  <1>0. /\ n \in Nat /\ DOMAIN feed = 1..n /\ DOMAIN feed' = 1..n + 1
        /\ \A i \in DOMAIN feed : feed'[i] = feed[i]
        /\ feed'[n + 1] = [kind |-> o, run |-> r]
        /\ \A q \in Run : q # r => outcomes'[q] = outcomes[q]
        /\ outcomes'[r] = outcomes[r] + 1
    BY AppendOutcomeBase
  <1> HIDE DEF n
  <1>1. \A i \in DOMAIN feed' : i = n + 1 \/ i \in DOMAIN feed
    BY <1>0
  <1>2. \A q \in Run : outcomes[q] > 0 => outcomes'[q] > 0
    BY <1>0 DEF BaseInv, TypeOK
  <1>3. FeedIsLogged'
    <2>1. \A i \in DOMAIN feed : feed[i].run \in Run
      BY DEF BaseInv, TypeOK, Event
    <2>2. \A i \in DOMAIN feed : feed'[i].kind \in Outcome => outcomes'[feed'[i].run] > 0
      BY <1>0, <1>2, <2>1 DEF TurnInv, FeedIsLogged
    <2>3. outcomes'[feed'[n + 1].run] > 0
      BY <1>0
    <2> QED BY <1>1, <2>2, <2>3 DEF FeedIsLogged
  <1>4. OneOutcome'
    BY <1>0 DEF TurnInv, OneOutcome
  <1>5. \A q \in Run : Spoken(q)' <=> Spoken(q)
    <2>1. feed'[n + 1].kind # "message"
      BY <1>0 DEF Outcome
    <2> QED BY <1>0, <1>1, <2>1 DEF Spoken
  <1> QED BY <1>0, <1>3, <1>4, <1>5

LEMMA InputTurn ==
  ASSUME BaseInv, TurnInv, ~misfired, InputStep, ~misfired'
  PROVE  TurnInv'
  <1>1. CASE UserTurn
    <2>1. Current = 0
      BY <1>1, IdleIsCurrentless DEF UserTurn
    <2>2. PICK s : s = Submitted(Opened)
      OBVIOUS
    <2>3. StartTurn(s, "user")
      BY <1>1, <2>2 DEF UserTurn, StartFails
    <2>4. s \in Session /\ s.run \in Run /\ s.run = created + 1
      BY <2>1, <2>2, <2>3, OpenedIsSession, SubmittedIsSession DEF StartTurn, AnotherTurn
    <2> QED BY <2>1, <2>3, <2>4, StartTurnTurn
  <1>2. CASE ClearSession
    <2>1. Current = 0 /\ Current' = 0
      BY <1>2, IdleIsCurrentless DEF ClearSession, Current
    <2> QED BY <1>2, <2>1, ForgetTurn DEF ClearSession, memVars, histVars
  <1>3. CASE clear_current_run
    <2>1. Current = 0 /\ Current' = 0
      BY <1>3, IdleIsCurrentless DEF clear_current_run, Current, NewSession
    <2> QED BY <1>3, <2>1, ForgetTurn DEF clear_current_run, memVars, histVars
  <1>4. CASE stop
    <2>0. session.run \in Run
      BY <1>4 DEF stop, BaseInv, TypeOK, Session
    <2>1. PICK r \in Run : r = session.run
      BY <2>0
    <2>2. /\ Current = r /\ r # 0 /\ outcomes[r] = 0 /\ busy = {r}
          /\ \A q \in Run : q # r => proc[q] \notin Reporting
      BY <1>4, <2>1 DEF stop, TurnInv, ReportsCurrent, BusyIsCurrent, Current, Reporting,
                        Supervised, Run
    <2>3. /\ proc[r] = "running" /\ proc'[r] = "signalled"
          /\ \A q \in Run : q # r => proc'[q] = proc[q]
      BY <1>4, <2>1 DEF stop, BaseInv, TypeOK
    <2>4. \A q \in Run : proc'[q] \notin Reporting /\ copy'[q] = None
      BY <1>4, <2>2, <2>3 DEF stop, BaseInv, CopiesAreRead, Reporting, Supervised
    <2>5. UNCHANGED <<cut, misfired>>
      BY <1>4 DEF stop, histVars
    <2>6. ReportsCurrent' /\ CopyIsSession'
      BY <2>4 DEF ReportsCurrent, CopyIsSession
    <2>7. SpeaksLate'
      BY <2>4 DEF SpeaksLate, Reporting, Supervised
    <2>8. CASE AppendOutcome(r, "run.interrupted") /\ busy' = busy \ {r} /\ session' = NewSession
      <3>1. FeedIsLogged' /\ OneOutcome'
        BY <2>2, <2>5, <2>8, OutcomeSettles DEF Outcome
      <3>2. Current' = 0
        BY <2>8 DEF Current, NewSession
      <3>3. BusyIsCurrent'
        BY <2>2, <2>8, <3>2 DEF BusyIsCurrent
      <3> QED BY <2>6, <2>7, <3>1, <3>3 DEF TurnInv
    <2>9. CASE NoAppend /\ UNCHANGED <<session, wakes, busy>>
      <3>1. FeedIsLogged' /\ OneOutcome'
        BY <2>5, <2>9 DEF NoAppend, TurnInv, FeedIsLogged, OneOutcome
      <3>2. BusyIsCurrent'
        BY <2>9 DEF TurnInv, BusyIsCurrent, Current
      <3> QED BY <2>6, <2>7, <3>1, <3>2 DEF TurnInv
    <2> QED BY <1>4, <2>1, <2>8, <2>9 DEF stop
  <1> QED BY <1>1, <1>2, <1>3, <1>4 DEF InputStep

\* A supervisor's step that leaves the session, the log and the feed alone.
LEMMA SuperviseTurn ==
  ASSUME BaseInv, TurnInv, NEW r \in Run, NEW from \in Supervised,
         NEW to \in Supervised \cup {"none"}, Supervise(r, from, to),
         to \in Reporting => from \in Reporting,
         to \in {"running", "ended", "read", "saved"} =>
             from \in {"running", "ended", "read", "saved"},
         CopyIsSession',
         UNCHANGED <<session, busy, outcomes, feed, cut, misfired>>
  PROVE  TurnInv'
  <1>1. Current' = Current /\ \A q \in Run : Spoken(q)' <=> Spoken(q)
    BY DEF Current, Spoken
  <1>2. proc[r] = from /\ proc'[r] = to /\ \A q \in Run : q # r => proc'[q] = proc[q]
    BY SuperviseBase
  <1>3. BusyIsCurrent' /\ ReportsCurrent'
    BY <1>1, <1>2 DEF TurnInv, BusyIsCurrent, ReportsCurrent
  <1>4. FeedIsLogged' /\ OneOutcome'
    BY DEF TurnInv, FeedIsLogged, OneOutcome
  <1>5. SpeaksLate'
    BY <1>1, <1>2 DEF TurnInv, SpeaksLate
  <1> QED BY <1>3, <1>4, <1>5 DEF TurnInv

LEMMA ProcessEndsTurn ==
  ASSUME BaseInv, TurnInv, NEW r \in Run, ProcessEnds(r)
  PROVE  TurnInv'
  <1>1. Supervise(r, "running", "ended")
    BY DEF ProcessEnds
  <1>2. UNCHANGED <<session, busy, outcomes, feed, cut, misfired, copy>>
    BY DEF ProcessEnds, hubVars
  <1>3. CopyIsSession'
    BY <1>2 DEF TurnInv, CopyIsSession
  <1> QED BY <1>1, <1>2, <1>3, SuperviseTurn DEF Supervised, Reporting

LEMMA SupervisorTurn ==
  ASSUME BaseInv, TurnInv, ~misfired, NEW r \in Run, SupervisorStep(r)
  PROVE  TurnInv'
  <1>0. UNCHANGED <<busy, cut, misfired>>
    BY DEF SupervisorStep, SupervisorSilent, SupervisorRead, SupervisorSave,
           SupervisorSpeaks, SupervisorReports, histVars
  <1>1. CASE SupervisorSilent(r)
    <2>1. /\ UNCHANGED <<session, outcomes, feed, copy>> /\ Supervise(r, "signalled", "none")
      BY <1>1 DEF SupervisorSilent, hubVars
    <2>2. CopyIsSession'
      BY <2>1 DEF TurnInv, CopyIsSession
    <2> QED BY <1>0, <2>1, <2>2, SuperviseTurn DEF Supervised, Reporting
  <1>2. CASE SupervisorRead(r)
    <2>1. /\ UNCHANGED <<session, outcomes, feed>> /\ Supervise(r, "ended", "read")
          /\ copy' = [copy EXCEPT ![r] = IF session # None /\ session.run = r
                                         THEN session ELSE None]
      BY <1>2 DEF SupervisorRead, hubVars
    <2>2. CopyIsSession'
      BY <2>1 DEF BaseInv, TypeOK, TurnInv, CopyIsSession
    <2> QED BY <1>0, <2>1, <2>2, SuperviseTurn DEF Supervised, Reporting
  <1>3. CASE SupervisorSave(r)
    <2>1. /\ UNCHANGED <<outcomes, feed>> /\ Supervise(r, "read", "saved")
          /\ copy' = [copy EXCEPT ![r] = None]
          /\ session' = IF copy[r] = None THEN session ELSE copy[r]
      BY <1>3 DEF SupervisorSave
    <2>2. session' = session
      BY <2>1 DEF TurnInv, CopyIsSession
    <2>3. CopyIsSession'
      BY <2>1, <2>2 DEF BaseInv, TypeOK, TurnInv, CopyIsSession
    <2> QED BY <1>0, <2>1, <2>2, <2>3, SuperviseTurn DEF Supervised, Reporting
  <1>4. CASE SupervisorSpeaks(r)
    <2>1. UNCHANGED <<session, outcomes, copy>> /\ Supervise(r, "saved", "spoke")
      BY <1>4 DEF SupervisorSpeaks, hubVars
    <2>2. CopyIsSession'
      BY <2>1 DEF TurnInv, CopyIsSession
    <2>3. CASE UNCHANGED feed
      BY <1>0, <2>1, <2>2, <2>3, SuperviseTurn DEF Supervised, Reporting
    <2>4. CASE feed' = Append(feed, [kind |-> "message", run |-> r, text |-> result[r]])
      <3> DEFINE e == [kind |-> "message", run |-> r, text |-> result[r]]
      <3>1. proc[r] = "saved" /\ proc'[r] = "spoke" /\ \A q \in Run : q # r => proc'[q] = proc[q]
        BY <2>1, SuperviseBase DEF Supervised
      <3>2. e \in Event
        BY <3>1 DEF Event, BaseInv, AnswersAreKept
      <3>3. PICK n : n = Len(feed)
        OBVIOUS
      <3>4. /\ n \in Nat /\ DOMAIN feed = 1..n /\ DOMAIN feed' = 1..n + 1
            /\ \A i \in DOMAIN feed : feed'[i] = feed[i]
            /\ feed'[n + 1] = e
        BY <2>4, <3>2, <3>3, FeedGrows DEF BaseInv, TypeOK
      <3>5. feed'[n + 1].kind = "message" /\ feed'[n + 1].run = r
        BY <3>4
      <3> HIDE DEF e
      <3>6. \A i \in DOMAIN feed' : i = n + 1 \/ i \in DOMAIN feed
        BY <3>4
      <3>7. FeedIsLogged'
        BY <2>1, <3>4, <3>5, <3>6 DEF TurnInv, FeedIsLogged, Outcome
      <3>8. SpeaksLate'
        <4>1. \A q \in Run : q # r => (Spoken(q)' => Spoken(q))
          BY <3>4, <3>5, <3>6 DEF Spoken
        <4> QED BY <3>1, <4>1 DEF TurnInv, SpeaksLate
      <3>9. Current' = Current
        BY <2>1 DEF Current
      <3>10. BusyIsCurrent' /\ ReportsCurrent' /\ OneOutcome'
        BY <1>0, <2>1, <3>1, <3>9
           DEF TurnInv, BusyIsCurrent, ReportsCurrent, OneOutcome, Reporting, Supervised
      <3> QED BY <2>2, <3>7, <3>8, <3>10 DEF TurnInv
    <2> QED BY <1>4, <2>3, <2>4 DEF SupervisorSpeaks
  <1>5. CASE SupervisorReports(r)
    <2>1. UNCHANGED <<session, copy>>
      BY <1>5 DEF SupervisorReports
    <2>2. PICK from \in {"spoke", "ended"} : Supervise(r, from, "none")
      BY <1>5 DEF SupervisorReports
    <2>3. CopyIsSession'
      BY <2>1 DEF TurnInv, CopyIsSession
    <2>4. CASE NoAppend
      BY <1>0, <2>1, <2>2, <2>3, <2>4, SuperviseTurn DEF NoAppend, Supervised, Reporting
    <2>5. ASSUME NEW o \in Outcome, AppendOutcome(r, o)
          PROVE  TurnInv'
      <3>1. proc[r] = from /\ proc'[r] = "none" /\ \A q \in Run : q # r => proc'[q] = proc[q]
        BY <2>2, SuperviseBase DEF Supervised
      <3>2. outcomes[r] = 0 /\ r = Current
        BY <3>1 DEF TurnInv, ReportsCurrent, Reporting, Supervised
      <3>3. /\ FeedIsLogged' /\ OneOutcome'
            /\ \A q \in Run : Spoken(q)' <=> Spoken(q)
            /\ \A q \in Run : q # r => outcomes'[q] = outcomes[q]
        BY <1>0, <2>5, <3>2, OutcomeSettles
      <3>4. SpeaksLate'
        BY <3>1, <3>3 DEF TurnInv, SpeaksLate
      <3>5. Current' = Current
        BY <2>1 DEF Current
      <3>6. BusyIsCurrent' /\ ReportsCurrent'
        BY <1>0, <3>1, <3>3, <3>5
           DEF TurnInv, BusyIsCurrent, ReportsCurrent, Reporting, Supervised
      <3> QED BY <2>3, <3>3, <3>4, <3>6 DEF TurnInv
    <2> QED BY <1>5, <2>4, <2>5 DEF SupervisorReports, Outcome
  <1> QED BY <1>1, <1>2, <1>3, <1>4, <1>5 DEF SupervisorStep

\* An event read by the output thread: what it changes of the session is all there
\* is to look at.
LEMMA EventRead ==
  ASSUME BaseInv, TurnInv, TakeEvent, UNCHANGED <<proc, outcomes, copy, cut, misfired>>,
         BusyIsCurrent', ReportsCurrent', CopyIsSession'
  PROVE  TurnInv'
  <1>1. \A i \in DOMAIN feed' : i + 1 \in DOMAIN feed /\ feed'[i] = feed[i + 1]
    BY TakeEventBase
  <1>2. FeedIsLogged'
    BY <1>1 DEF TurnInv, FeedIsLogged
  <1>3. SpeaksLate'
    BY <1>1 DEF TurnInv, SpeaksLate, Spoken
  <1>4. OneOutcome'
    BY DEF TurnInv, OneOutcome
  <1> QED BY <1>2, <1>3, <1>4 DEF TurnInv

\* An event of the current turn.
LEMMA EventOfTurn ==
  ASSUME BaseInv, TurnInv, TakeEvent, is_claire
  PROVE  /\ session \in Session /\ session # None
         /\ event.run \in Run /\ Current = event.run /\ Current # 0 /\ busy = {Current}
         /\ \A r \in Run : copy[r] = None
         /\ event.kind = "message" => Spoken(Current)
         /\ event.kind # "message" => \A r \in Run : proc[r] \notin Reporting
         /\ event.kind = "message" =>
                \A r \in Run : proc[r] \notin {"running", "ended", "read", "saved"}
  <1>1. session \in Session /\ session # None /\ event = feed[1] /\ 1 \in DOMAIN feed
        /\ event \in Event
    BY TakeEventBase DEF BaseInv, TypeOK, is_claire
  <1>2. event.run \in Run /\ Current = event.run /\ Current # 0 /\ busy = {Current}
    BY <1>1 DEF Event, is_claire, Current, Run, TurnInv, BusyIsCurrent
  <1>3. event.kind = "message" => Spoken(Current)
    BY <1>1, <1>2 DEF Spoken
  <1>4. event.kind = "message" =>
            \A r \in Run : proc[r] \notin {"running", "ended", "read", "saved"}
    BY <1>2, <1>3 DEF TurnInv, SpeaksLate, ReportsCurrent, Reporting, Supervised
  <1>5. event.kind # "message" => outcomes[Current] > 0
    BY <1>1, <1>2 DEF TurnInv, FeedIsLogged, Event
  <1>6. event.kind # "message" => \A r \in Run : proc[r] \notin Reporting
    BY <1>5 DEF TurnInv, ReportsCurrent
  <1>7. \A r \in Run : copy[r] = None
    BY <1>4, <1>6 DEF BaseInv, CopiesAreRead, Reporting, Supervised
  <1> QED BY <1>1, <1>2, <1>3, <1>4, <1>6, <1>7

LEMMA EventTurn ==
  ASSUME BaseInv, TurnInv, handle_claire_event
  PROVE  TurnInv'
  <1>0. TakeEvent /\ UNCHANGED <<proc, outcomes, copy, cut, misfired>>
    BY DEF handle_claire_event, SkipEvent, RejectEnvelope, RunActions, DeliverReply, TurnFailed,
           TurnCompleted, hubVars, histVars
  <1>1. CASE SkipEvent
    <2>1. UNCHANGED <<session, busy>>
      BY <1>1 DEF SkipEvent, hubVars
    <2>2. BusyIsCurrent' /\ ReportsCurrent' /\ CopyIsSession'
      BY <1>0, <2>1 DEF TurnInv, BusyIsCurrent, ReportsCurrent, CopyIsSession, Current
    <2> QED BY <1>0, <2>2, EventRead
  <1>2. CASE is_claire /\ session' # None /\ session'.run = session.run /\ UNCHANGED busy
    <2>1. Current' = Current /\ \A r \in Run : copy'[r] = None
      BY <1>0, <1>2, EventOfTurn DEF Current
    <2>2. BusyIsCurrent' /\ ReportsCurrent' /\ CopyIsSession'
      BY <1>0, <1>2, <2>1 DEF TurnInv, BusyIsCurrent, ReportsCurrent, CopyIsSession
    <2> QED BY <1>0, <2>2, EventRead
  <1>3. CASE RejectEnvelope
    <2>1. session' # None /\ session'.run = session.run
      BY <1>0, <1>3, EventOfTurn, DropTurnSession DEF RejectEnvelope, DropTurn
    <2> QED BY <1>2, <1>3, <2>1 DEF RejectEnvelope
  <1>4. CASE RunActions \/ DeliverReply
    <2>1. session \in Session /\ is_claire
      BY <1>0, <1>4, EventOfTurn DEF RunActions, DeliverReply
    <2>2. session' \in Session /\ session'.run = session.run
      <3>1. CASE RunActions
        BY <2>1, <3>1 DEF RunActions, Session
      <3>2. CASE DeliverReply
        <4>1. session' = [session EXCEPT !.inProgress = FALSE, !.wake = None]
          BY <3>2 DEF DeliverReply
        <4> QED BY <2>1, <4>1, CleanedSession
      <3> QED BY <1>4, <3>1, <3>2
    <2> QED BY <1>2, <1>4, <2>1, <2>2, ClaireAssumption DEF RunActions, DeliverReply
  <1>5. CASE TurnFailed \/ TurnCompleted
    <2>1. /\ is_claire /\ event.kind # "message" /\ busy' = busy \ {event.run}
      BY <1>5 DEF TurnFailed, TurnCompleted
    <2>2. /\ session \in Session /\ busy = {event.run}
          /\ \A r \in Run : copy[r] = None /\ proc[r] \notin Reporting
      BY <1>0, <2>1, EventOfTurn
    <2>3. session' # None => session'.run = 0
      <3>1. CASE TurnFailed
        <4>1. PICK s : s = [session EXCEPT !.run = 0]
          OBVIOUS
        <4>2. s \in Session /\ s.run = 0
          BY <2>2, <4>1 DEF Session
        <4>3. session' = [s EXCEPT !.wake = None, !.followUp = FALSE, !.inProgress = FALSE]
          BY <3>1, <4>1 DEF TurnFailed, DropTurn
        <4> QED BY <4>2, <4>3, DropTurnSession
      <3>2. CASE TurnCompleted
        BY <2>2, <3>2 DEF TurnCompleted, Session
      <3> QED BY <1>5, <3>1, <3>2
    <2>4. Current' = 0 /\ busy' = {}
      BY <2>1, <2>2, <2>3 DEF Current
    <2>5. BusyIsCurrent' /\ ReportsCurrent' /\ CopyIsSession'
      BY <1>0, <2>2, <2>4 DEF BusyIsCurrent, ReportsCurrent, CopyIsSession
    <2> QED BY <1>0, <2>5, EventRead
  <1> QED BY <1>1, <1>3, <1>4, <1>5 DEF handle_claire_event

\* The reconciler gives an outcome to a run that has none and that nobody will report.
LEMMA ReconcileTurn ==
  ASSUME BaseInv, TurnInv, ~misfired, reconcile_claire_runner
  PROVE  TurnInv'
  <1>0. UNCHANGED <<busy, proc, copy, cut, misfired>>
    BY DEF reconcile_claire_runner, histVars
  <1>1. CASE ~Orphaned
    BY <1>0, <1>1, TurnFrame DEF reconcile_claire_runner
  <1>2. CASE Orphaned
    <2>1. session \in Session /\ session # None /\ session.run \in Run
      BY <1>2 DEF Orphaned, current_turn_is_busy, BaseInv, TypeOK
    <2>2. PICK r \in Run : r = session.run
      BY <2>1
    <2>3. Current = r /\ outcomes[r] = 0 /\ proc[r] \notin Supervised
      BY <1>2, <2>1, <2>2
         DEF Orphaned, terminal_is_durable, is_running, Current, BaseInv, TypeOK
    <2>4. \A q \in Run : proc[q] \notin Reporting /\ copy[q] = None
      BY <2>3 DEF TurnInv, ReportsCurrent, Reporting, BaseInv, CopiesAreRead, Supervised
    <2>5. session' \in Session /\ session'.run = r
      BY <1>2, <2>1, <2>2, CleanedSession DEF reconcile_claire_runner
    <2>6. Current' = Current
      BY <2>3, <2>5, ClaireAssumption DEF Current
    <2>7. BusyIsCurrent' /\ ReportsCurrent' /\ CopyIsSession'
      BY <1>0, <2>4, <2>6 DEF TurnInv, BusyIsCurrent, ReportsCurrent, CopyIsSession
    <2>8. SpeaksLate'
      BY <1>0, <2>4 DEF SpeaksLate, Reporting, Supervised
    <2>9. FeedIsLogged' /\ OneOutcome'
      <3>1. CASE AppendOutcome(r, "run.failed")
        BY <1>0, <2>3, <3>1, OutcomeSettles DEF Outcome
      <3>2. CASE NoAppend
        BY <1>0, <3>2 DEF NoAppend, TurnInv, FeedIsLogged, OneOutcome
      <3> QED BY <1>2, <2>2, <3>1, <3>2 DEF reconcile_claire_runner
    <2> QED BY <2>7, <2>8, <2>9 DEF TurnInv
  <1> QED BY <1>1, <1>2

LEMMA FollowUpTurn ==
  ASSUME BaseInv, TurnInv, ~misfired, start_pending_claire_follow_up, ~misfired'
  PROVE  TurnInv'
  <1>1. CASE ~(Free /\ session # None /\ session.followUp)
    BY <1>1, TurnFrame DEF start_pending_claire_follow_up, histVars
  <1>2. CASE Free /\ session # None /\ session.followUp
    <2>1. PICK s : s = FollowUpSession
      OBVIOUS
    <2>2. StartTurn(s, "follow_up") /\ Current = 0 /\ turns < MaxTurns
      BY <1>2, <2>1, IdleIsCurrentless
         DEF start_pending_claire_follow_up, FollowUpSession, StartFails, Free
    <2>3. s \in Session /\ s.run \in Run /\ s.run = created + 1
      BY <1>2, <2>1, <2>2, FollowUpSessionIs
    <2> QED BY <2>2, <2>3, StartTurnTurn
  <1> QED BY <1>1, <1>2

LEMMA WakeTurn ==
  ASSUME BaseInv, TurnInv, ~misfired, wake_claire_for_pending_worker, ~misfired'
  PROVE  TurnInv'
  <1>1. CASE UNCHANGED <<session, wakes, outcomes, counts, feed, busy, proc, result, copy,
                         histVars, faults>>
    BY <1>1, TurnFrame DEF histVars
  <1>2. ASSUME Free, NEW w \in Due, StartTurn(WakeSession(w), w)
        PROVE  TurnInv'
    <2>1. PICK s : s = WakeSession(w)
      OBVIOUS
    <2>2. StartTurn(s, w) /\ Current = 0 /\ turns < MaxTurns /\ w \in Wake
      BY <1>2, <2>1, IdleIsCurrentless DEF Free, Due
    <2>3. s \in Session /\ s.run \in Run /\ s.run = created + 1
      BY <2>1, <2>2, WakeSessionIs
    <2> QED BY <2>2, <2>3, StartTurnTurn
  <1> QED BY <1>1, <1>2 DEF wake_claire_for_pending_worker, WakeSession, StartFails

LEMMA RestartTurn ==
  ASSUME BaseInv, TurnInv, ~misfired, Restart
  PROVE  TurnInv'
  <1>1. /\ busy' = {} /\ feed' = <<>> /\ UNCHANGED misfired
        /\ proc' = [r \in Run |-> "none"] /\ copy' = [r \in Run |-> None]
    BY DEF Restart
  <1>2. Current' = 0
    <2>1. CASE session = None
      BY <2>1 DEF Restart, Current
    <2>2. CASE session # None
      <3>1. session \in Session /\ session' = [session EXCEPT !.run = 0, !.wake = None]
        BY <2>2 DEF Restart, BaseInv, TypeOK
      <3>2. session'.run = 0
        BY <3>1 DEF Session
      <3> QED BY <3>2 DEF Current
    <2> QED BY <2>1, <2>2
  <1>3. BusyIsCurrent' /\ ReportsCurrent' /\ CopyIsSession' /\ FeedIsLogged' /\ SpeaksLate'
    BY <1>1, <1>2 DEF BusyIsCurrent, ReportsCurrent, CopyIsSession, FeedIsLogged, SpeaksLate,
                      Spoken, Reporting, Supervised
  <1>4. OneOutcome'
    <2>1. CASE UNCHANGED <<outcomes, cut>>
      BY <1>1, <2>1 DEF TurnInv, OneOutcome
    <2>2. CASE session # None
      <3>1. CASE session.run = 0
        BY <1>1, <2>2, <3>1 DEF Restart, TurnInv, OneOutcome
      <3>2. CASE session.run # 0
        <4>1. PICK r \in Run : r = session.run
          BY <2>2, <3>2 DEF BaseInv, TypeOK, Session
        <4>2. /\ outcomes' = [outcomes EXCEPT ![r] = @ + 1]
              /\ cut' = cut \cup ({r} \cap {q \in Run : outcomes[q] > 0})
          BY <2>2, <3>2, <4>1 DEF Restart, terminal_is_durable
        <4>3. \A q \in Run \ cut : outcomes[q] \in Nat /\ outcomes[q] <= 1
          BY DEF TurnInv, OneOutcome, BaseInv, TypeOK
        <4> QED BY <4>2, <4>3 DEF OneOutcome, BaseInv, TypeOK
      <3> QED BY <3>1, <3>2
    <2> QED BY <2>1, <2>2 DEF Restart
  <1> QED BY <1>3, <1>4 DEF TurnInv

LEMMA TurnStep ==
  ASSUME BaseInv, TurnInv, ~misfired, [Next]_vars, ~misfired'
  PROVE  TurnInv'
  <1>1. CASE UNCHANGED vars
    BY <1>1, TurnFrame DEF vars, hubVars, memVars, histVars
  <1>2. CASE EventsDone
    BY <1>2, TurnFrame DEF EventsDone, hubVars, histVars
  <1>3. ASSUME NEW w \in Wake, WakeStep(w) PROVE TurnInv'
    BY <1>3, TurnFrame DEF WakeStep, memVars, histVars
  <1> QED
    BY <1>1, <1>2, <1>3, InputTurn, ProcessEndsTurn, SupervisorTurn, EventTurn, ReconcileTurn,
       FollowUpTurn, WakeTurn, RestartTurn DEF Next, OutputStep

-----------------------------------------------------------------------------
(* Wakes are assessed.                                                     *)

\* No wake is owed: the session carries none, or one that has been assessed.
LEMMA NothingOwed ==
  ASSUME \/ session' = None \/ session'.wake = None \/ session'.wake \in assessed'
  PROVE  WakeInv'
  BY DEF WakeInv

LEMMA WakeFrame ==
  ASSUME WakeInv, UNCHANGED <<session, turn, assessed, feed, proc, result>>
  PROVE  WakeInv'
  BY DEF WakeInv, Spoken

\* Between turns the session's wake, if it has one, was assessed by the turn that
\* asked for actions.
LEMMA BetweenTurns ==
  ASSUME BaseInv, WakeInv, Current = 0
  PROVE  /\ Opened.wake = None \/ Opened.wake \in assessed
         /\ session # None => session.wake = None \/ session.wake \in assessed
  <1>1. session # None => session.wake = None \/ session.wake \in assessed
    BY DEF WakeInv, Current
  <1> QED BY <1>1 DEF Opened, NewSession

LEMMA InputWake ==
  ASSUME BaseInv, TurnInv, WakeInv, InputStep, ~misfired'
  PROVE  WakeInv'
  <1>1. CASE UserTurn
    <2>1. PICK s : s = Submitted(Opened)
      OBVIOUS
    <2>2. StartTurn(s, "user") /\ Current = 0
      BY <1>1, <2>1, IdleIsCurrentless DEF UserTurn, StartFails
    <2>3. s.wake = Opened.wake
      BY <2>1, <2>2, OpenedIsSession, SubmittedIsSession DEF StartTurn, AnotherTurn
    <2> QED BY <2>2, <2>3, BetweenTurns, NothingOwed DEF StartTurn
  <1>2. CASE ClearSession \/ clear_current_run
    BY <1>2, NothingOwed DEF ClearSession, clear_current_run, NewSession
  <1>3. CASE stop
    <2>1. CASE session' = NewSession
      BY <2>1, NothingOwed DEF NewSession
    <2>2. CASE UNCHANGED session /\ NoAppend
      <3>1. PICK r \in Run : r = session.run
        BY <1>3 DEF stop, BaseInv, TypeOK, Session
      <3>2. proc'[r] = "signalled"
        BY <1>3, <3>1 DEF stop, BaseInv, TypeOK
      <3>3. UNCHANGED <<session, turn, assessed, feed, result>>
        BY <1>3, <2>2 DEF stop, histVars, NoAppend
      <3> QED BY <3>1, <3>2, <3>3 DEF WakeInv, Spoken
    <2> QED BY <1>3, <2>1, <2>2 DEF stop
  <1> QED BY <1>1, <1>2, <1>3 DEF InputStep

\* The turn a wake was started for assesses it, when its process leaves an answer.
LEMMA ProcessEndsWake ==
  ASSUME BaseInv, TurnInv, WakeInv, NEW r \in Run, ProcessEnds(r)
  PROVE  WakeInv'
  <1>1. /\ proc[r] = "running" /\ proc'[r] = "ended"
        /\ UNCHANGED <<session, turn, feed>> /\ assessed \subseteq assessed'
    BY SuperviseBase DEF ProcessEnds, hubVars, Supervised
  <1>2. Current = r
    BY <1>1 DEF TurnInv, ReportsCurrent, Reporting, Supervised
  <1>3. turn \in Wake => turn \in assessed' \/ result'[r] = "failed"
    BY DEF ProcessEnds, BaseInv, TypeOK
  <1>4. CASE session = None \/ session.wake = None \/ session.wake \in assessed
    BY <1>1, <1>4, NothingOwed
  <1>5. CASE session # None /\ session.wake # None /\ session.wake \notin assessed
    <2>1. /\ session.run = r /\ turn = session.wake /\ turn \in Wake
          /\ ~Spoken(r) /\ \A i \in DOMAIN feed : feed[i].run = r => feed[i].kind # "run.completed"
      BY <1>2, <1>5 DEF WakeInv, Current, BaseInv, TypeOK, Session
    <2>2. CASE result'[r] = "failed"
      <3>1. ~Spoken(r)'
        BY <1>1, <2>1 DEF Spoken
      <3> QED BY <1>1, <1>5, <2>1, <2>2, <3>1 DEF WakeInv, Run
    <2>3. CASE turn \in assessed'
      BY <1>1, <2>1, <2>3, NothingOwed
    <2> QED BY <1>3, <2>1, <2>2, <2>3
  <1> QED BY <1>4, <1>5

LEMMA SupervisorWake ==
  ASSUME BaseInv, TurnInv, WakeInv, NEW r \in Run, SupervisorStep(r)
  PROVE  WakeInv'
  <1>0. UNCHANGED <<turn, assessed>>
    BY DEF SupervisorStep, SupervisorSilent, SupervisorRead, SupervisorSave,
           SupervisorSpeaks, SupervisorReports, histVars
  <1>1. UNCHANGED session
    <2>1. CASE SupervisorSave(r)
      BY <2>1 DEF SupervisorSave, TurnInv, CopyIsSession
    <2> QED BY <2>1 DEF SupervisorStep, SupervisorSilent, SupervisorRead,
                        SupervisorSpeaks, SupervisorReports, hubVars
  <1>2. CASE session = None \/ session.wake = None \/ session.wake \in assessed
    BY <1>0, <1>1, <1>2, NothingOwed
  <1>3. CASE session # None /\ session.wake # None /\ session.wake \notin assessed
    <2>1. PICK c \in Run : c = session.run
      BY <1>3 DEF WakeInv, BaseInv, TypeOK, Session
    <2>2. /\ c # 0 /\ turn = session.wake /\ ~Spoken(c)
          /\ \A i \in DOMAIN feed : feed[i].run = c => feed[i].kind # "run.completed"
          /\ proc[c] \in {"none", "running", "signalled", "ended"}
          /\ proc[c] = "ended" => result[c] = "failed"
          /\ Current = c
      BY <1>3, <2>1 DEF WakeInv, Current
    <2>3. proc[r] \in Reporting => r = c
      BY <2>2 DEF TurnInv, ReportsCurrent
    <2>4. CASE SupervisorSilent(r)
      <3>1. /\ UNCHANGED <<feed, result>> /\ proc'[c] \in {proc[c], "none"}
        BY <2>4 DEF SupervisorSilent, Supervise, BaseInv, TypeOK
      <3>2. ~Spoken(c)'
        BY <2>2, <3>1 DEF Spoken
      <3> QED BY <1>0, <1>1, <2>1, <2>2, <3>1, <3>2 DEF WakeInv
    <2>5. CASE SupervisorRead(r) \/ SupervisorSave(r) \/ SupervisorSpeaks(r)
      BY <2>2, <2>3, <2>5 DEF SupervisorRead, SupervisorSave, SupervisorSpeaks, Supervise,
                              Reporting, Supervised
    <2>6. CASE SupervisorReports(r)
      <3>1. r = c /\ proc[r] = "ended" /\ result[r] = "failed" /\ proc'[r] = "none"
        BY <2>2, <2>3, <2>6 DEF SupervisorReports, Supervise, Reporting, Supervised, BaseInv,
                                TypeOK
      <3>2. CASE NoAppend
        BY <1>0, <1>1, <2>1, <2>2, <3>1, <3>2 DEF WakeInv, NoAppend, Spoken
      <3>3. CASE AppendOutcome(r, "run.failed")
        <4>1. PICK n : n = Len(feed)
          OBVIOUS
        <4>2. /\ n \in Nat /\ DOMAIN feed = 1..n /\ DOMAIN feed' = 1..n + 1
              /\ \A i \in DOMAIN feed : feed'[i] = feed[i]
              /\ feed'[n + 1] = [kind |-> "run.failed", run |-> r]
          BY <3>3, <4>1, AppendOutcomeBase DEF Outcome
        <4>3. \A i \in DOMAIN feed' : i = n + 1 \/ i \in DOMAIN feed
          BY <4>2
        <4>4. /\ ~Spoken(c)'
              /\ \A i \in DOMAIN feed' : feed'[i].run = c => feed'[i].kind # "run.completed"
          BY <2>2, <4>2, <4>3 DEF Spoken
        <4> QED BY <1>0, <1>1, <2>1, <2>2, <3>1, <4>4 DEF WakeInv
      <3> QED BY <2>6, <3>1, <3>2, <3>3 DEF SupervisorReports
    <2> QED BY <2>4, <2>5, <2>6 DEF SupervisorStep
  <1> QED BY <1>2, <1>3

\* The message of the current turn is the answer to its wake.
LEMMA AnsweredIsAssessed ==
  ASSUME BaseInv, TurnInv, WakeInv, TakeEvent, is_claire,
         event.kind \in {"message", "run.completed"}
  PROVE  session.wake = None \/ session.wake \in assessed
  <1>1. event = feed[1] /\ 1 \in DOMAIN feed
    BY TakeEventBase
  <1> QED BY <1>1 DEF WakeInv, is_claire, Spoken

LEMMA EventWake ==
  ASSUME BaseInv, TurnInv, WakeInv, handle_claire_event
  PROVE  WakeInv'
  <1>0. TakeEvent /\ UNCHANGED <<proc, result, turn, assessed>>
    BY DEF handle_claire_event, SkipEvent, RejectEnvelope, RunActions, DeliverReply, TurnFailed,
           TurnCompleted, hubVars, histVars
  <1>1. CASE SkipEvent
    <2>1. UNCHANGED session
      BY <1>1 DEF SkipEvent, hubVars
    <2>2. \A i \in DOMAIN feed' : i + 1 \in DOMAIN feed /\ feed'[i] = feed[i + 1]
      BY <1>0, TakeEventBase
    <2>3. CASE session = None \/ session.wake = None \/ session.wake \in assessed
      BY <1>0, <2>1, <2>3, NothingOwed
    <2>4. CASE session # None /\ session.wake # None /\ session.wake \notin assessed
      BY <1>0, <2>1, <2>2, <2>4 DEF WakeInv, Spoken
    <2> QED BY <2>3, <2>4
  <1>2. CASE RejectEnvelope
    <2>1. session'.wake = None
      BY <1>0, <1>2, EventOfTurn, DropTurnSession DEF RejectEnvelope, DropTurn
    <2> QED BY <2>1, NothingOwed
  <1>3. CASE RunActions
    <2>1. session'.wake = session.wake
      BY <1>0, <1>3, EventOfTurn DEF RunActions, Session
    <2> QED BY <1>0, <1>3, <2>1, AnsweredIsAssessed, NothingOwed DEF RunActions
  <1>4. CASE DeliverReply
    <2>1. session' = [session EXCEPT !.inProgress = FALSE, !.wake = None] /\ session \in Session
      BY <1>0, <1>4, EventOfTurn DEF DeliverReply
    <2>2. session'.wake = None
      BY <2>1 DEF Session
    <2> QED BY <2>2, NothingOwed
  <1>5. CASE TurnFailed
    <2>1. PICK s : s = [session EXCEPT !.run = 0]
      OBVIOUS
    <2>2. s \in Session
      BY <1>0, <1>5, <2>1, EventOfTurn DEF TurnFailed, Session
    <2>3. session' = [s EXCEPT !.wake = None, !.followUp = FALSE, !.inProgress = FALSE]
      BY <1>5, <2>1 DEF TurnFailed, DropTurn
    <2> QED BY <2>2, <2>3, DropTurnSession, NothingOwed
  <1>6. CASE TurnCompleted
    <2>1. session'.wake = session.wake
      BY <1>0, <1>6, EventOfTurn DEF TurnCompleted, Session
    <2> QED BY <1>0, <1>6, <2>1, AnsweredIsAssessed, NothingOwed DEF TurnCompleted
  <1> QED BY <1>1, <1>2, <1>3, <1>4, <1>5, <1>6 DEF handle_claire_event

LEMMA OutputWake ==
  ASSUME BaseInv, TurnInv, WakeInv,
         reconcile_claire_runner \/ start_pending_claire_follow_up
             \/ wake_claire_for_pending_worker,
         ~misfired'
  PROVE  WakeInv'
  <1>1. CASE UNCHANGED <<session, turn, assessed, feed, proc, result>>
    BY <1>1, WakeFrame
  <1>2. CASE reconcile_claire_runner /\ Orphaned
    <2>1. session \in Session /\ session' = [session EXCEPT !.wake = None]
      BY <1>2 DEF reconcile_claire_runner, Orphaned, current_turn_is_busy, BaseInv, TypeOK
    <2>2. session'.wake = None
      BY <2>1 DEF Session
    <2> QED BY <2>2, NothingOwed
  <1>3. CASE /\ start_pending_claire_follow_up
             /\ Free /\ session # None /\ session.followUp
    <2>1. PICK s : s = FollowUpSession
      OBVIOUS
    <2>2. StartTurn(s, "follow_up") /\ Current = 0 /\ turns < MaxTurns
      BY <1>3, <2>1, IdleIsCurrentless
         DEF start_pending_claire_follow_up, FollowUpSession, StartFails, Free
    <2>3. s.wake = session.wake
      BY <1>3, <2>1, <2>2, FollowUpSessionIs
    <2> QED BY <1>3, <2>2, <2>3, BetweenTurns, NothingOwed DEF StartTurn
  <1>4. ASSUME Free, NEW w \in Due, StartTurn(WakeSession(w), w)
        PROVE  WakeInv'
    <2>1. PICK s : s = WakeSession(w)
      OBVIOUS
    <2>2. StartTurn(s, w) /\ Current = 0 /\ turns < MaxTurns /\ w \in Wake
      BY <1>4, <2>1, IdleIsCurrentless DEF Free, Due
    <2>3. s \in Session /\ s.run \in Run /\ s.run = created + 1 /\ s.wake = w
      BY <2>1, <2>2, WakeSessionIs
    <2>4. \A i \in DOMAIN feed : feed[i].run \in Nat /\ feed[i].run <= created
      BY DEF BaseInv, TypeOK, RunsAreCreated, Event, Run
    <2>5. /\ session' = s /\ turn' = w /\ UNCHANGED feed
          /\ proc' = [proc EXCEPT ![s.run] = "running"]
      BY <2>2 DEF StartTurn, NoAppend
    <2>6. proc'[s.run] = "running" /\ s.run # 0
      BY <2>3, <2>5 DEF BaseInv, TypeOK, Run
    <2>7. \A i \in DOMAIN feed' : feed'[i].run # s.run
      BY <2>3, <2>4, <2>5 DEF BaseInv, TypeOK
    <2> QED BY <2>3, <2>5, <2>6, <2>7 DEF WakeInv, Spoken
  <1> QED
    BY <1>1, <1>2, <1>3, <1>4
       DEF reconcile_claire_runner, start_pending_claire_follow_up,
           wake_claire_for_pending_worker, WakeSession, StartFails, NoAppend, histVars

LEMMA WakesStep ==
  ASSUME BaseInv, TurnInv, WakeInv, ~misfired, [Next]_vars, ~misfired'
  PROVE  WakeInv'
  <1>1. CASE UNCHANGED vars
    BY <1>1, WakeFrame DEF vars, hubVars, memVars, histVars
  <1>2. CASE EventsDone
    BY <1>2, WakeFrame DEF EventsDone, hubVars, histVars
  <1>3. ASSUME NEW w \in Wake, WakeStep(w) PROVE WakeInv'
    BY <1>3, WakeFrame DEF WakeStep, memVars, histVars
  <1>4. CASE Restart
    <2>1. CASE session = None
      BY <1>4, <2>1, NothingOwed DEF Restart
    <2>2. CASE session # None
      <3>1. session \in Session /\ session' = [session EXCEPT !.run = 0, !.wake = None]
        BY <1>4, <2>2 DEF Restart, BaseInv, TypeOK
      <3>2. session'.wake = None
        BY <3>1 DEF Session
      <3> QED BY <3>2, NothingOwed
    <2> QED BY <2>1, <2>2
  <1> QED
    BY <1>1, <1>2, <1>3, <1>4, InputWake, ProcessEndsWake, SupervisorWake, EventWake, OutputWake
       DEF Next, OutputStep

\* Only the delivery of a reply marks a wake processed.
LEMMA ProcessedStep ==
  ASSUME BaseInv, TurnInv, WakeInv, ProcessedWasAssessed, ~misfired, [Next]_vars
  PROVE  ProcessedWasAssessed'
  <1>1. assessed \subseteq assessed'
    BY DEF Next, vars, InputStep, UserTurn, ClearSession, clear_current_run, stop, StartTurn,
           StartFails, ProcessEnds, SupervisorStep, SupervisorSilent, SupervisorRead,
           SupervisorSave, SupervisorSpeaks, SupervisorReports, OutputStep, EventsDone,
           handle_claire_event, SkipEvent, RejectEnvelope, RunActions, DeliverReply, TurnFailed,
           TurnCompleted, reconcile_claire_runner, start_pending_claire_follow_up,
           wake_claire_for_pending_worker, WakeStep, Restart, histVars
  <1>2. session # None => session.wake \in Wake \cup {None}
    BY DEF BaseInv, TypeOK, Session
  <1>3. \A v \in Wake : wakes'[v] = "processed" => wakes[v] = "processed" \/ v \in assessed
    <2>0. \A u \in Wake \cup {None} : \A v \in Wake :
              Deferred(u)[v] = "processed" => wakes[v] = "processed"
      BY DeferredIsWakes
    <2>1. CASE UNCHANGED wakes
      BY <2>1
    <2>2. ASSUME NEW u \in Wake \cup {None}, wakes' = Deferred(u)
          PROVE  \A v \in Wake : wakes'[v] = "processed" => wakes[v] = "processed"
      BY <2>0, <2>2
    <2>3. ASSUME NEW w \in Wake, NEW st \in {"working", "due"}, wakes' = [wakes EXCEPT ![w] = st]
          PROVE  \A v \in Wake : wakes'[v] = "processed" => wakes[v] = "processed"
      BY <2>3 DEF BaseInv, TypeOK
    <2>4. CASE InputStep
      BY <1>2, <2>1, <2>2, <2>4
         DEF InputStep, UserTurn, ClearSession, clear_current_run, stop
    <2>5. ASSUME NEW r \in Run, ProcessEnds(r) \/ SupervisorStep(r)
          PROVE  UNCHANGED wakes
      BY <2>5 DEF ProcessEnds, SupervisorStep, SupervisorSilent, SupervisorRead, SupervisorSave,
                  SupervisorSpeaks, SupervisorReports, hubVars
    <2>6. CASE EventsDone \/ SkipEvent \/ TurnCompleted
      BY <2>1, <2>6 DEF EventsDone, SkipEvent, TurnCompleted, hubVars
    <2>7. CASE RejectEnvelope \/ TurnFailed
      BY <1>2, <2>2, <2>7 DEF RejectEnvelope, TurnFailed, DropTurn, is_claire
    <2>8. CASE RunActions
      BY <2>1, <2>3, <2>8 DEF RunActions, execute_claire_action
    <2>9. CASE DeliverReply
      <3>1. session # None /\ (session.wake = None \/ session.wake \in assessed)
        BY <2>9, AnsweredIsAssessed DEF DeliverReply, is_claire
      <3>2. CASE wakes' = IF session.wake = None THEN wakes
                          ELSE [wakes EXCEPT ![session.wake] = "processed"]
        BY <1>2, <3>1, <3>2 DEF BaseInv, TypeOK
      <3>3. CASE wakes' = Deferred(session.wake)
        BY <1>2, <2>2, <3>1, <3>3
      <3> QED BY <2>9, <3>2, <3>3 DEF DeliverReply
    <2>10. CASE reconcile_claire_runner
      BY <1>2, <2>1, <2>2, <2>10
         DEF reconcile_claire_runner, Orphaned, current_turn_is_busy
    <2>11. CASE start_pending_claire_follow_up
      <3>1. CASE Free /\ session # None /\ session.followUp
        <4>1. FollowUpSession.wake \in Wake \cup {None}
          BY <1>2, <3>1, FollowUpSessionIs DEF Free
        <4> QED BY <2>1, <2>2, <2>11, <3>1, <4>1
                DEF start_pending_claire_follow_up, FollowUpSession
      <3> QED BY <2>1, <2>11, <3>1 DEF start_pending_claire_follow_up
    <2>12. CASE wake_claire_for_pending_worker
      BY <2>1, <2>2, <2>12 DEF wake_claire_for_pending_worker, Due
    <2>13. ASSUME NEW w \in Wake, WakeStep(w)
           PROVE  \A v \in Wake : wakes'[v] = "processed" => wakes[v] = "processed"
      BY <2>3, <2>13 DEF WakeStep, StartWorker, WakeDue
    <2>14. CASE Restart
      BY <1>2, <2>1, <2>2, <2>14 DEF Restart
    <2>15. CASE UNCHANGED vars
      BY <2>1, <2>15 DEF vars, hubVars
    <2> QED
      BY <2>1, <2>4, <2>5, <2>6, <2>7, <2>8, <2>9, <2>10, <2>11, <2>12, <2>13, <2>14, <2>15
         DEF Next, OutputStep, handle_claire_event
  <1> QED BY <1>1, <1>3 DEF ProcessedWasAssessed

-----------------------------------------------------------------------------
(* The in-progress mark.                                                   *)

LEMMA Unmarked ==
  ASSUME session' = None \/ ~session'.inProgress
  PROVE  MarkInv'
  BY DEF MarkInv

\* A step that leaves the feed, the session and the purpose of the turn alone, and
\* lets no turn speak.
LEMMA MarkFrame ==
  ASSUME MarkInv, BaseInv, UNCHANGED <<session, turn, feed>>,
         \A r \in Run : proc'[r] = "spoke" => proc[r] = "spoke"
  PROVE  MarkInv'
  <1>1. CASE session = None \/ ~session.inProgress
    BY <1>1, Unmarked
  <1>2. CASE session # None /\ session.inProgress
    <2>1. session.run \in Run
      BY <1>2 DEF MarkInv, BaseInv, TypeOK, Session
    <2> QED BY <1>2, <2>1 DEF MarkInv, Spoken, SpeaksFirst
  <1> QED BY <1>1, <1>2

\* An event appended keeps the order, unless it completes a turn that has not spoken.
LEMMA AppendKeepsOrder ==
  ASSUME BaseInv, NEW e \in Event, feed' = Append(feed, e), NEW r,
         SpeaksFirst(r), e.kind = "run.completed" /\ e.run = r => Spoken(r)
  PROVE  SpeaksFirst(r)' /\ (Spoken(r) => Spoken(r)')
  <1>1. PICK n : n = Len(feed)
    OBVIOUS
  <1>2. /\ n \in Nat /\ DOMAIN feed = 1..n /\ DOMAIN feed' = 1..n + 1
        /\ \A i \in DOMAIN feed : feed'[i] = feed[i]
        /\ feed'[n + 1] = e
    BY <1>1, FeedGrows DEF BaseInv, TypeOK
  <1>3. Spoken(r) => Spoken(r)'
    BY <1>2 DEF Spoken
  <1>4. ASSUME NEW i \in DOMAIN feed', feed'[i].kind = "run.completed", feed'[i].run = r
        PROVE  \E j \in 1..i : feed'[j].kind = "message" /\ feed'[j].run = r
    <2>1. CASE i = n + 1
      <3>1. PICK j \in DOMAIN feed : feed[j].kind = "message" /\ feed[j].run = r
        BY <1>2, <1>4, <2>1 DEF Spoken
      <3>2. j \in 1..i /\ feed'[j] = feed[j]
        BY <1>2, <2>1, <3>1
      <3> QED BY <3>1, <3>2
    <2>2. CASE i # n + 1
      <3>1. i \in 1..n /\ feed'[i] = feed[i]
        BY <1>2, <2>2
      <3>2. PICK j \in 1..i : feed[j].kind = "message" /\ feed[j].run = r
        BY <1>2, <1>4, <3>1 DEF SpeaksFirst
      <3>3. feed'[j] = feed[j]
        BY <1>2, <3>1, <3>2
      <3> QED BY <3>2, <3>3
    <2> QED BY <2>1, <2>2
  <1> QED BY <1>3, <1>4 DEF SpeaksFirst

\* An event of another turn read, the order of this one's is kept.
LEMMA TailKeepsOrder ==
  ASSUME BaseInv, TakeEvent, NEW r, event.run # r, SpeaksFirst(r)
  PROVE  SpeaksFirst(r)' /\ (Spoken(r) => Spoken(r)')
  <1>1. PICK n : n = Len(feed)
    OBVIOUS
  <1>2. /\ n \in Nat \ {0} /\ DOMAIN feed = 1..n /\ DOMAIN feed' = 1..n - 1
        /\ \A i \in DOMAIN feed' : i + 1 \in DOMAIN feed /\ feed'[i] = feed[i + 1]
        /\ feed[1].run # r
    BY <1>1, TakeEventBase
  <1>3. ASSUME NEW j \in DOMAIN feed, feed[j].run = r
        PROVE  j - 1 \in DOMAIN feed' /\ feed'[j - 1] = feed[j]
    <2>1. j # 1
      BY <1>2, <1>3
    <2>2. j - 1 \in DOMAIN feed' /\ j - 1 + 1 = j
      BY <1>2, <2>1
    <2> QED BY <1>2, <2>2
  <1>4. Spoken(r) => Spoken(r)'
    BY <1>3 DEF Spoken
  <1>5. ASSUME NEW i \in DOMAIN feed', feed'[i].kind = "run.completed", feed'[i].run = r
        PROVE  \E j \in 1..i : feed'[j].kind = "message" /\ feed'[j].run = r
    <2>1. i + 1 \in DOMAIN feed /\ feed'[i] = feed[i + 1]
      BY <1>2
    <2>2. PICK j \in 1..i + 1 : feed[j].kind = "message" /\ feed[j].run = r
      BY <1>5, <2>1 DEF SpeaksFirst
    <2>3. j \in DOMAIN feed
      BY <1>2, <2>1, <2>2
    <2>4. j - 1 \in 1..i /\ feed'[j - 1] = feed[j]
      BY <1>2, <1>3, <2>2, <2>3
    <2> QED BY <2>2, <2>4
  <1> QED BY <1>4, <1>5 DEF SpeaksFirst

LEMMA InputMark ==
  ASSUME BaseInv, TurnInv, MarkInv, InputStep, ~misfired'
  PROVE  MarkInv'
  <1>1. CASE UserTurn
    <2>1. PICK s : s = Submitted(Opened)
      OBVIOUS
    <2>2. StartTurn(s, "user") /\ Current = 0
      BY <1>1, <2>1, IdleIsCurrentless DEF UserTurn, StartFails
    <2>3. s.inProgress = Opened.inProgress
      BY <2>1, <2>2, OpenedIsSession, SubmittedIsSession DEF StartTurn, AnotherTurn
    <2>4. ~Opened.inProgress
      BY <2>2, OpenedIsSession DEF MarkInv, Current, NewSession
    <2> QED BY <2>2, <2>3, <2>4, Unmarked DEF StartTurn
  <1>2. CASE ClearSession \/ clear_current_run
    BY <1>2, Unmarked DEF ClearSession, clear_current_run, NewSession
  <1>3. CASE stop
    <2>1. CASE session' = NewSession
      BY <2>1, Unmarked DEF NewSession
    <2>2. CASE UNCHANGED session /\ NoAppend
      <3>1. PICK r \in Run : r = session.run
        BY <1>3 DEF stop, BaseInv, TypeOK, Session
      <3>2. \A q \in Run : proc'[q] = "spoke" => proc[q] = "spoke"
        BY <1>3, <3>1 DEF stop, BaseInv, TypeOK
      <3> QED BY <1>3, <2>2, <3>2, MarkFrame DEF stop, histVars, NoAppend
    <2> QED BY <1>3, <2>1, <2>2 DEF stop
  <1> QED BY <1>1, <1>2, <1>3 DEF InputStep

\* The turn's message is in the feed before its completion, unless its append failed,
\* and then the mark is stale.
LEMMA SupervisorMark ==
  ASSUME BaseInv, TurnInv, MarkInv, NEW r \in Run, ProcessEnds(r) \/ SupervisorStep(r), ~stale'
  PROVE  MarkInv'
  <1>0. UNCHANGED turn
    BY DEF ProcessEnds, SupervisorStep, SupervisorSilent, SupervisorRead, SupervisorSave,
           SupervisorSpeaks, SupervisorReports, histVars
  <1>1. CASE ProcessEnds(r) \/ SupervisorSilent(r) \/ SupervisorRead(r) \/ SupervisorSave(r)
    <2>1. UNCHANGED session
      <3>1. CASE SupervisorSave(r)
        BY <3>1 DEF SupervisorSave, TurnInv, CopyIsSession
      <3> QED BY <1>1, <3>1 DEF ProcessEnds, SupervisorSilent, SupervisorRead, hubVars
    <2>2. /\ UNCHANGED feed
          /\ \A q \in Run : proc'[q] = "spoke" => proc[q] = "spoke"
      BY <1>1 DEF ProcessEnds, SupervisorSilent, SupervisorRead, SupervisorSave, Supervise,
                  BaseInv, TypeOK
    <2> QED BY <1>0, <2>1, <2>2, MarkFrame
  <1>2. CASE SupervisorSpeaks(r) \/ SupervisorReports(r)
    <2>1. UNCHANGED session
      BY <1>2 DEF SupervisorSpeaks, SupervisorReports, hubVars
    <2>2. CASE session = None \/ ~session.inProgress
      BY <2>1, <2>2, Unmarked
    <2>3. CASE session # None /\ session.inProgress
      <3>1. /\ session.run # 0 /\ turn = "follow_up"
            /\ proc[session.run] = "spoke" => Spoken(session.run)
            /\ SpeaksFirst(session.run)
        BY <2>3 DEF MarkInv
      <3>2. r = session.run
        BY <1>2, <2>3 DEF SupervisorSpeaks, SupervisorReports, Supervise, TurnInv,
                          ReportsCurrent, Reporting, Supervised, Current
      <3>3. CASE SupervisorSpeaks(r)
        <4> DEFINE e == [kind |-> "message", run |-> r, text |-> result[r]]
        <4>1. feed' = Append(feed, e)
          BY <2>3, <3>2, <3>3 DEF SupervisorSpeaks
        <4>2. e \in Event
          BY <3>3 DEF SupervisorSpeaks, Supervise, Event, BaseInv, AnswersAreKept
        <4>3. e.kind # "run.completed"
          OBVIOUS
        <4>4. SpeaksFirst(r)'
          <5> HIDE DEF e
          <5> QED BY <3>1, <3>2, <4>1, <4>2, <4>3, AppendKeepsOrder
        <4>5. Spoken(r)'
          <5>1. Len(feed) + 1 \in DOMAIN feed' /\ feed'[Len(feed) + 1] = e
            BY <4>1, <4>2, FeedGrows DEF BaseInv, TypeOK
          <5> QED BY <5>1 DEF Spoken
        <4> QED BY <1>0, <2>1, <3>1, <3>2, <4>4, <4>5 DEF MarkInv
      <3>4. CASE SupervisorReports(r)
        <4>1. proc'[r] = "none"
          BY <3>4 DEF SupervisorReports, Supervise, BaseInv, TypeOK
        <4>2. SpeaksFirst(r)'
          <5>1. CASE NoAppend
            BY <3>1, <3>2, <5>1 DEF NoAppend, SpeaksFirst
          <5>2. ASSUME NEW o \in {"run.failed", "run.completed"}, AppendOutcome(r, o),
                       o = "run.completed" => proc[r] = "spoke"
                PROVE  SpeaksFirst(r)'
            <6> DEFINE e == [kind |-> o, run |-> r]
            <6>1. e \in Event /\ feed' = Append(feed, e) /\ e.kind = o
              BY <5>2 DEF Event, Outcome, AppendOutcome
            <6>2. o = "run.completed" => Spoken(r)
              BY <3>1, <3>2, <5>2
            <6> HIDE DEF e
            <6> QED BY <3>1, <3>2, <6>1, <6>2, AppendKeepsOrder
          <5> QED BY <3>4, <5>1, <5>2 DEF SupervisorReports, Supervise
        <4> QED BY <1>0, <2>1, <3>1, <3>2, <4>1, <4>2 DEF MarkInv
      <3> QED BY <1>2, <3>3, <3>4
    <2> QED BY <2>2, <2>3
  <1> QED BY <1>1, <1>2 DEF SupervisorStep

LEMMA EventMark ==
  ASSUME BaseInv, TurnInv, MarkInv, handle_claire_event
  PROVE  MarkInv'
  <1>0. TakeEvent /\ UNCHANGED <<proc, turn>>
    BY DEF handle_claire_event, SkipEvent, RejectEnvelope, RunActions, DeliverReply, TurnFailed,
           TurnCompleted, hubVars, histVars
  <1>1. CASE SkipEvent
    <2>1. UNCHANGED session /\ ~is_claire
      BY <1>1 DEF SkipEvent, hubVars
    <2>2. CASE session = None \/ ~session.inProgress
      BY <2>1, <2>2, Unmarked
    <2>3. CASE session # None /\ session.inProgress
      <3>1. PICK r : r = session.run
        OBVIOUS
      <3>2. /\ r # 0 /\ turn = "follow_up" /\ (proc[r] = "spoke" => Spoken(r)) /\ SpeaksFirst(r)
            /\ event.run # r
        BY <2>1, <2>3, <3>1 DEF MarkInv, is_claire
      <3>3. SpeaksFirst(r)' /\ (Spoken(r) => Spoken(r)')
        BY <1>0, <3>2, TailKeepsOrder
      <3> QED BY <1>0, <2>1, <3>1, <3>2, <3>3 DEF MarkInv
    <2> QED BY <2>2, <2>3
  <1>2. CASE RejectEnvelope
    <2>1. ~session'.inProgress
      BY <1>0, <1>2, EventOfTurn, DropTurnSession DEF RejectEnvelope, DropTurn
    <2> QED BY <2>1, Unmarked
  <1>3. CASE RunActions
    <2>1. session'.inProgress = session.inProgress /\ ~session.inProgress
      BY <1>0, <1>3, EventOfTurn DEF RunActions, Session
    <2> QED BY <2>1, Unmarked
  <1>4. CASE DeliverReply
    <2>1. session' = [session EXCEPT !.inProgress = FALSE, !.wake = None] /\ session \in Session
      BY <1>0, <1>4, EventOfTurn DEF DeliverReply
    <2>2. ~session'.inProgress
      BY <2>1 DEF Session
    <2> QED BY <2>2, Unmarked
  <1>5. CASE TurnFailed
    <2>1. PICK s : s = [session EXCEPT !.run = 0]
      OBVIOUS
    <2>2. s \in Session
      BY <1>0, <1>5, <2>1, EventOfTurn DEF TurnFailed, Session
    <2>3. session' = [s EXCEPT !.wake = None, !.followUp = FALSE, !.inProgress = FALSE]
      BY <1>5, <2>1 DEF TurnFailed, DropTurn
    <2> QED BY <2>2, <2>3, DropTurnSession, Unmarked
  <1>6. CASE TurnCompleted
    <2>1. session'.inProgress = session.inProgress
      BY <1>0, <1>6, EventOfTurn DEF TurnCompleted, Session
    <2>2. event = feed[1] /\ 1 \in DOMAIN feed
      BY <1>0, TakeEventBase
    <2>3. ~SpeaksFirst(session.run)
      BY <1>6, <2>2 DEF SpeaksFirst, TurnCompleted, is_claire
    <2>4. ~session.inProgress
      BY <1>6, <2>3 DEF MarkInv, TurnCompleted, is_claire
    <2> QED BY <2>1, <2>4, Unmarked
  <1> QED BY <1>1, <1>2, <1>3, <1>4, <1>5, <1>6 DEF handle_claire_event

LEMMA ReconcileMark ==
  ASSUME BaseInv, MarkInv, reconcile_claire_runner
  PROVE  MarkInv'
  <1>0. UNCHANGED <<proc, turn>>
    BY DEF reconcile_claire_runner, histVars
  <1>1. CASE ~Orphaned
    BY <1>0, <1>1, MarkFrame DEF reconcile_claire_runner
  <1>2. CASE Orphaned
    <2>1. session \in Session /\ session # None /\ session.run \in Run
      BY <1>2 DEF Orphaned, current_turn_is_busy, BaseInv, TypeOK
    <2>2. PICK r \in Run : r = session.run
      BY <2>1
    <2>3. session' = [session EXCEPT !.wake = None]
      BY <1>2 DEF reconcile_claire_runner
    <2>4. session'.run = r /\ session'.inProgress = session.inProgress
      BY <2>1, <2>2, <2>3 DEF Session
    <2>5. CASE ~session.inProgress
      BY <2>4, <2>5, Unmarked
    <2>6. CASE session.inProgress
      <3>1. r # 0 /\ turn = "follow_up" /\ SpeaksFirst(r) /\ proc[r] # "spoke"
        BY <1>2, <2>1, <2>2, <2>6 DEF MarkInv, Orphaned, is_running, Supervised
      <3>2. SpeaksFirst(r)'
        <4>1. CASE NoAppend
          BY <3>1, <4>1 DEF NoAppend, SpeaksFirst
        <4>2. CASE AppendOutcome(r, "run.failed")
          <5> DEFINE e == [kind |-> "run.failed", run |-> r]
          <5>1. e \in Event /\ feed' = Append(feed, e) /\ e.kind # "run.completed"
            BY <4>2 DEF Event, Outcome, AppendOutcome
          <5> HIDE DEF e
          <5> QED BY <3>1, <5>1, AppendKeepsOrder
        <4> QED BY <1>2, <2>2, <4>1, <4>2 DEF reconcile_claire_runner
      <3> QED BY <1>0, <2>4, <3>1, <3>2 DEF MarkInv
    <2> QED BY <2>5, <2>6
  <1> QED BY <1>1, <1>2

LEMMA FollowUpMark ==
  ASSUME BaseInv, TurnInv, MarkInv, start_pending_claire_follow_up, ~misfired'
  PROVE  MarkInv'
  <1>1. CASE ~(Free /\ session # None /\ session.followUp)
    BY <1>1, MarkFrame DEF start_pending_claire_follow_up, histVars
  <1>2. CASE Free /\ session # None /\ session.followUp
    <2>1. PICK s : s = FollowUpSession
      OBVIOUS
    <2>2. StartTurn(s, "follow_up") /\ Current = 0 /\ turns < MaxTurns
      BY <1>2, <2>1, IdleIsCurrentless
         DEF start_pending_claire_follow_up, FollowUpSession, StartFails, Free
    <2>3. s \in Session /\ s.run \in Run /\ s.run = created + 1 /\ created \in Nat
      BY <1>2, <2>1, <2>2, FollowUpSessionIs DEF BaseInv, TypeOK
    <2>4. /\ session' = s /\ turn' = "follow_up" /\ UNCHANGED feed
          /\ proc' = [proc EXCEPT ![s.run] = "running"]
      BY <2>2 DEF StartTurn, NoAppend
    <2>5. proc'[s.run] = "running" /\ s.run # 0
      BY <2>3, <2>4 DEF BaseInv, TypeOK, Run
    <2>6. \A i \in DOMAIN feed : feed[i].run \in Nat /\ feed[i].run <= created
      BY DEF BaseInv, TypeOK, RunsAreCreated, Event, Run
    <2>7. \A i \in DOMAIN feed' : feed'[i].run # s.run
      BY <2>3, <2>4, <2>6
    <2>8. SpeaksFirst(s.run)'
      BY <2>7 DEF SpeaksFirst
    <2> QED BY <2>4, <2>5, <2>8 DEF MarkInv
  <1> QED BY <1>1, <1>2

LEMMA WakeMark ==
  ASSUME BaseInv, TurnInv, MarkInv, wake_claire_for_pending_worker, ~misfired'
  PROVE  MarkInv'
  <1>1. CASE UNCHANGED <<session, wakes, outcomes, counts, feed, busy, proc, result, copy,
                         histVars, faults>>
    BY <1>1, MarkFrame DEF histVars
  <1>2. ASSUME Free, NEW w \in Due, StartTurn(WakeSession(w), w)
        PROVE  MarkInv'
    <2>1. PICK s : s = WakeSession(w)
      OBVIOUS
    <2>2. StartTurn(s, w) /\ Current = 0 /\ turns < MaxTurns /\ w \in Wake
      BY <1>2, <2>1, IdleIsCurrentless DEF Free, Due
    <2>3. session # None => ~session.inProgress
      BY <2>2 DEF MarkInv, Current
    <2>4. ~s.inProgress
      BY <2>1, <2>2, <2>3, WakeSessionIs
    <2> QED BY <2>2, <2>4, Unmarked DEF StartTurn
  <1> QED BY <1>1, <1>2 DEF wake_claire_for_pending_worker, WakeSession, StartFails

LEMMA RestartMark ==
  ASSUME BaseInv, Restart, ~stale'
  PROVE  MarkInv'
  <1>1. CASE session = None
    BY <1>1, Unmarked DEF Restart
  <1>2. CASE session # None
    <2>1. /\ session \in Session /\ session' = [session EXCEPT !.run = 0, !.wake = None]
          /\ ~session.inProgress
      BY <1>2 DEF Restart, BaseInv, TypeOK
    <2>2. ~session'.inProgress
      BY <2>1 DEF Session
    <2> QED BY <2>2, Unmarked
  <1> QED BY <1>1, <1>2

LEMMA MarkStep ==
  ASSUME BaseInv, TurnInv, MarkInv, [Next]_vars, ~misfired', ~stale'
  PROVE  MarkInv'
  <1>1. CASE UNCHANGED vars
    BY <1>1, MarkFrame DEF vars, hubVars, memVars, histVars
  <1>2. CASE EventsDone
    BY <1>2, MarkFrame DEF EventsDone, hubVars, histVars
  <1>3. ASSUME NEW w \in Wake, WakeStep(w) PROVE MarkInv'
    BY <1>3, MarkFrame DEF WakeStep, memVars, histVars
  <1> QED
    BY <1>1, <1>2, <1>3, InputMark, SupervisorMark, EventMark, ReconcileMark, FollowUpMark,
       WakeMark, RestartMark DEF Next, OutputStep

-----------------------------------------------------------------------------
(* The theorems.                                                           *)

LEMMA ClaireInit ==
  ASSUME Init
  PROVE  ClaireInv
  <1>1. TypeOK
    <2>0. feed \in Seq(Event)
      BY DEF Init
    <2>1. /\ busy \in SUBSET Run /\ cut \in SUBSET Run /\ assessed \in SUBSET Wake
          /\ misfired \in BOOLEAN /\ stale \in BOOLEAN
          /\ turn \in Purpose /\ session \in Session \cup {None}
      BY DEF Init, Purpose
    <2>2. /\ wakes \in [Wake -> WakeState \cup {None}] /\ outcomes \in [Run -> Nat]
          /\ proc \in [Run -> Supervised \cup {"none"}] /\ result \in [Run -> Result]
          /\ copy \in [Run -> Session \cup {None}]
      BY DEF Init, Result
    <2>3. /\ created \in 0..MaxTurns /\ turns \in 0..MaxTurns /\ inputs \in 0..MaxInputs
          /\ faults \in 0..MaxFaults /\ restarts \in 0..MaxRestarts
          /\ poll \in {"events", "reconcile", "follow_up", "wake"}
      BY ClaireAssumption DEF Init
    <2> QED BY <2>0, <2>1, <2>2, <2>3 DEF TypeOK
  <1>2. RunsAreCreated /\ CopiesAreRead /\ AnswersAreKept
    BY DEF Init, RunsAreCreated, CopiesAreRead, AnswersAreKept
  <1>3. TurnInv
    BY DEF Init, TurnInv, BusyIsCurrent, Current, ReportsCurrent, Reporting, Supervised,
           CopyIsSession, FeedIsLogged, SpeaksLate, Spoken, OneOutcome
  <1>4. WakeInv /\ ProcessedWasAssessed /\ MarkInv
    BY ClaireAssumption DEF Init, WakeInv, ProcessedWasAssessed, MarkInv, WakeState
  <1> QED BY <1>1, <1>2, <1>3, <1>4 DEF ClaireInv, BaseInv

\* A start that failed, and a mark that outlived its turn, are remembered.
LEMMA HistoryStays ==
  ASSUME BaseInv, [Next]_vars
  PROVE  (misfired => misfired') /\ (stale => stale')
  <1>1. misfired' = misfired \/ misfired' = TRUE
    BY DEF Next, vars, InputStep, UserTurn, ClearSession, clear_current_run, stop, StartTurn,
           StartFails, ProcessEnds, SupervisorStep, SupervisorSilent, SupervisorRead,
           SupervisorSave, SupervisorSpeaks, SupervisorReports, OutputStep, EventsDone,
           handle_claire_event, SkipEvent, RejectEnvelope, RunActions, DeliverReply, TurnFailed,
           TurnCompleted, reconcile_claire_runner, start_pending_claire_follow_up,
           wake_claire_for_pending_worker, WakeStep, Restart, histVars
  <1>2. \/ UNCHANGED stale
        \/ \E r \in Run : SupervisorSpeaks(r)
        \/ Restart
    BY DEF Next, vars, InputStep, UserTurn, ClearSession, clear_current_run, stop, StartTurn,
           StartFails, ProcessEnds, SupervisorStep, SupervisorSilent, SupervisorRead,
           SupervisorSave, SupervisorReports, OutputStep, EventsDone,
           handle_claire_event, SkipEvent, RejectEnvelope, RunActions, DeliverReply, TurnFailed,
           TurnCompleted, reconcile_claire_runner, start_pending_claire_follow_up,
           wake_claire_for_pending_worker, WakeStep, histVars
  <1>3. stale => stale'
    BY <1>2 DEF SupervisorSpeaks, Restart
  <1> QED BY <1>1, <1>3

LEMMA ClaireStep ==
  ASSUME ClaireInv, [Next]_vars
  PROVE  ClaireInv'
  <1>1. BaseInv /\ BaseInv'
    BY BaseStep DEF ClaireInv
  <1>2. ~misfired' => TurnInv /\ WakeInv /\ ProcessedWasAssessed /\ ~misfired
    BY <1>1, HistoryStays DEF ClaireInv
  <1>3. ~misfired' => TurnInv'
    BY <1>1, <1>2, TurnStep
  <1>4. ~misfired' => WakeInv' /\ ProcessedWasAssessed'
    BY <1>1, <1>2, WakesStep, ProcessedStep
  <1>5. ~misfired' /\ ~stale' => MarkInv'
    BY <1>1, <1>2, HistoryStays, MarkStep DEF ClaireInv
  <1> QED BY <1>1, <1>3, <1>4, <1>5 DEF ClaireInv

\* The inductive invariant of Claire's session.
THEOREM ClaireInvariant == Spec => []ClaireInv
  BY ClaireInit, ClaireStep, PTL DEF Spec

\* Claire has one turn and it ends once, a failed start and a restart aside: the
\* supervisor's ungated write, /stop and the reconciler leave neither two processes
\* at work nor a run with two outcomes.
THEOREM ClaireHasOneTurn == Spec => []OneTurn
  <1>1. ClaireInv => OneTurn
    <2> SUFFICES ASSUME ClaireInv PROVE OneTurn
      OBVIOUS
    <2>1. TypeOK
      BY DEF ClaireInv, BaseInv
    <2>2. OneTurnAtATime
      BY DEF ClaireInv, TurnInv, ReportsCurrent, Reporting, Supervised, OneTurnAtATime
    <2>3. OneOutcome
      BY DEF ClaireInv, TurnInv, OneOutcome
    <2> QED BY <2>1, <2>2, <2>3 DEF OneTurn
  <1> QED BY <1>1, ClaireInvariant, PTL

\* An in-progress mark is on the follow-up it was set for, and a wake is processed
\* only once a turn started for it has answered.
THEOREM ClaireAssessesWakes == Spec => []FollowUpsAssess
  <1>1. ClaireInv => FollowUpsAssess
    BY DEF ClaireInv, FollowUpsAssess, MarkIsFollowUp, MarkInv, ProcessedWasAssessed
  <1> QED BY <1>1, ClaireInvariant, PTL
=============================================================================
