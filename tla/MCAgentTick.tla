---------------------------- MODULE MCAgentTick ----------------------------
(***************************************************************************)
(* The agent's tick, and in its first state what the doctor says of every  *)
(* machine and of every short history of a watcher.                        *)
(***************************************************************************)
EXTENDS AgentTick, Doctor

Report(stored, age, health) ==
    [stored |-> stored, age |-> age, interval |-> 20, old |-> FALSE, depth |-> 0, skew |-> 0,
     health |-> health]

Now == 1000
Healths == {RunWatcher(NoHealth, what, Now - ago) : what \in {"off", "fails", "rows"},
                                                     ago \in {10, 200}}
Reports == {Report(FALSE, 0, NoHealth)}
               \cup {Report(TRUE, age, h) : age \in {90, 91}, h \in Healths}

Machines ==
    [config : {"missing", "valid", "corrupt"}, loose : {FALSE}, writable : BOOLEAN,
     queued : {FALSE}, token : {"none", "set"}, root : {"none", "readable", "unreadable"},
     claude : {"off", "readable", "missing", "denied"}, codex : {"off", "denied"},
     zed : {"off"},
     database : {"missing", "sound", "broken"},
     server : {"unreachable", "refuses", "status fails", "status garbled", "answers"},
     report : Reports, now : {Now}, active : {TRUE},
     modules : {{"tracker", "agent", "control"}, {"agent"}, {"tracker"}, {"control"}}]

Named(m, name) == \E i \in DOMAIN all_checks(m) : all_checks(m)[i].name = name
Trouble(m) == \E i \in DOMAIN all_checks(m) : all_checks(m)[i].status # "ok"

\* A doctor that exits 0 can be trusted: nothing that a module which is on depends
\* on is broken, and the agent's own report, if there is one, is recent and free of
\* failures.  A machine in order gets no complaint; and a check is left out only
\* when a line says its module is off, or the config could not be read.
DoctorIsRight ==
    TickInit =>
    \A m \in Machines :
        LET agent == "agent" \in m.modules
            tracker == "tracker" \in m.modules
            h == m.report.health
            reports == m.report.stored =>
                           /\ m.report.age <= 90
                           /\ h.enabled => h.consecutiveErrors = 0 /\ Now - h.lastOk <= 90
            works == /\ m.config # "corrupt"
                     /\ agent \/ tracker => m.writable
                     /\ agent => /\ m.root # "unreadable" /\ "denied" \notin {m.claude, m.codex}
                                 /\ m.server = "answers" /\ reports
                     /\ tracker => m.database # "broken" IN
        /\ ok(m) <=> works
        /\ works /\ m.config = "valid" /\ m.token = "set" /\ m.root = "readable"
               /\ m.claude # "missing" /\ m.database = "sound" /\ m.report.stored
               => ~Trouble(m)
        /\ m.config # "corrupt" =>
               /\ Named(m, "database") \/ Named(m, "module-tracker")
               /\ Named(m, "server-auth") \/ Named(m, "module-agent")
               /\ Named(m, "sqlite") \/ (Named(m, "module-tracker") /\ Named(m, "module-agent"))

-----------------------------------------------------------------------------
Outcomes == {"off", "fails", "rows", "unmatched", "quiet"}
Interval == 40

\* Health after the first n runs of a history, one each interval.
HealthAfter(history, n) ==
    FoldLeft(LAMBDA h, i : RunWatcher(h, history[i], 100 + i * Interval), NoHealth,
             [i \in 1..n |-> i])

\* What the doctor says of a watcher is what happened to it, up to the last report:
\* nothing while it is off; an error when its last run failed or none has succeeded
\* for three intervals; a warning for five runs with input and no row among them.
WatcherTroubleShown ==
    TickInit =>
    \A history \in UNION {[1..k -> Outcomes] : k \in {1, 3, 6}} :
    \A later \in {0, 120, 121} :
        LET n == Len(history)
            said == watcher_check(HealthAfter(history, n), StaleAfter([interval |-> Interval]),
                                  100 + n * Interval + later)
            After(i, what) == \E j \in i + 1..n : history[j] \in what
            good == {i \in 1..n : history[i] \in {"rows", "unmatched", "quiet"}}
            failing == \E i \in 1..n : history[i] = "fails"
                                           /\ ~After(i, {"rows", "unmatched", "quiet"})
            recent == \E i \in good : (n - i) * Interval + later <= 120
            streak == Cardinality({i \in 1..n : history[i] = "unmatched" /\ ~After(i, {"rows"})}) IN
        IF history[n] = "off" THEN said = <<>>
        ELSE said = <<Check("watcher", IF failing \/ ~recent THEN "error"
                                       ELSE IF streak >= 5 THEN "warn" ELSE "ok")>>

\* The doctor tells what is wrong and nothing else: of a machine as a whole, and of a
\* watcher that fails or falls silent behind an agent whose reports are fresh.
DoctorTells == DoctorIsRight /\ WatcherTroubleShown
=============================================================================
