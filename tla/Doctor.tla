------------------------------- MODULE Doctor -------------------------------
(***************************************************************************)
(* `stackhour doctor`, crates/stackhour/src/doctor_checks.rs and doctor.rs,*)
(* and the watcher health it reads, which run_watchers of                  *)
(* crates/stackhour-agent/src/lib.rs keeps and every tick reports.         *)
(*                                                                         *)
(* The machine is a record of what the probes find.  A check is its name   *)
(* and status; messages are left out.  A command-line build with every     *)
(* module is diagnosed, on Linux; time is in seconds.                      *)
(***************************************************************************)
EXTENDS Integers, SequencesExt

Check(name, status) == [name |-> name, status |-> status]
Warns(name, bad) == Check(name, IF bad THEN "warn" ELSE "ok")
Fails(name, bad) == Check(name, IF bad THEN "error" ELSE "ok")
When(on, checks) == IF on THEN checks ELSE <<>>

-----------------------------------------------------------------------------
(* Watcher health, one watcher.                                            *)

NoHealth == [enabled |-> FALSE, available |-> FALSE, lastOk |-> 0, consecutiveErrors |-> 0,
             unmatchedInputRuns |-> 0]

\* Mutant of RunWatcher: a productive run does not end the streak.
RunWatcherKeepsStreak(h, what, now) ==
    CASE what = "off" -> [h EXCEPT !.enabled = FALSE]
      [] what = "fails" -> [h EXCEPT !.enabled = TRUE, !.available = TRUE,
                                     !.consecutiveErrors = @ + 1]
      [] OTHER -> [h EXCEPT !.enabled = TRUE, !.available = TRUE, !.lastOk = now,
                            !.consecutiveErrors = 0,
                            !.unmatchedInputRuns = IF what = "unmatched" THEN @ + 1 ELSE @]

\* A run that is off, fails, finds rows, finds only input it cannot use, or finds
\* nothing new.
RunWatcher(h, what, now) ==
    CASE what = "off" -> [h EXCEPT !.enabled = FALSE]
      [] what = "fails" -> [h EXCEPT !.enabled = TRUE, !.available = TRUE,
                                     !.consecutiveErrors = @ + 1]
      [] OTHER -> [h EXCEPT !.enabled = TRUE, !.available = TRUE, !.lastOk = now,
                            !.consecutiveErrors = 0,
                            !.unmatchedInputRuns = CASE what = "rows" -> 0
                                                     [] what = "unmatched" -> @ + 1
                                                     [] OTHER -> @]

-----------------------------------------------------------------------------
(* The checks, in the order they are made.                                 *)

config_checks(m) ==
    CASE m.config = "missing" -> <<Check("config", "warn")>>
      [] m.config = "valid" -> <<Check("config", "ok"), Warns("config-permissions", m.loose)>>
      [] m.config = "corrupt" -> <<Check("config", "error"), Warns("config-permissions", m.loose)>>

data_dir_checks(m) ==
    <<Fails("data-dir", ~m.writable), Warns("offline-queue", m.queued)>>

token_check(m) == <<Warns("token", m.token = "none")>>

\* A root that is there and may be read, or not; none warns.
project_root_checks(m) ==
    IF m.root = "none" THEN <<Check("project-roots", "warn")>>
    ELSE <<Fails("project-root", m.root # "readable")>>

\* An input directory of a watcher that is on; Zed's database is only looked for.
InputStatus(input) == CASE input \in {"off", "readable"} -> "ok"
                        [] input = "missing" -> "warn"
                        [] input = "denied" -> "error"

input_checks(m) ==
    <<Check("claude-input", InputStatus(m.claude)), Check("codex-input", InputStatus(m.codex)),
      Warns("zed-input", m.zed = "missing")>>

database_check(m) ==
    <<Check("database", CASE m.database = "missing" -> "warn"
                          [] m.database = "sound" -> "ok"
                          [] m.database = "broken" -> "error")>>

StaleAfter(report) ==
    LET interval == IF report.interval = 0 THEN 20 ELSE report.interval
    IN  IF 3 * interval > 90 THEN 3 * interval ELSE 90

\* One watcher of the report.
watcher_check(h, stale_after, now) ==
    IF ~h.enabled \/ ~h.available THEN <<>>
    ELSE IF h.consecutiveErrors > 0 THEN <<Check("watcher", "error")>>
    ELSE IF h.lastOk = 0 \/ now - h.lastOk > stale_after THEN <<Check("watcher", "error")>>
    ELSE <<Warns("watcher", h.unmatchedInputRuns >= 5)>>

agent_report_checks(report, now) ==
    IF ~report.stored THEN <<Check("agent-report", "warn")>>
    ELSE <<Fails("agent-report", report.age > StaleAfter(report)),
           Warns("agent-version", report.old), Warns("agent-queue", report.depth > 0),
           Warns("clock-skew", report.skew > 30 \/ report.skew < -30)>>
             \o watcher_check(report.health, StaleAfter(report), now)

\* The token is tried, then the status read; a failure of the second comes after an
\* "ok" of the same name.
server_checks(m) ==
    CASE m.server \in {"unreachable", "refuses"} -> <<Check("server-auth", "error")>>
      [] m.server \in {"status fails", "status garbled"} ->
             <<Check("server-auth", "ok"), Check("server-auth", "error")>>
      [] m.server = "answers" ->
             <<Check("server-auth", "ok")>> \o agent_report_checks(m.report, m.now)

services_check(m) == <<Warns("services", ~m.active)>>

\* One line for each module that is off.
module_checks(m) ==
    When("tracker" \notin m.modules, <<Check("module-tracker", "ok")>>)
        \o When("agent" \notin m.modules, <<Check("module-agent", "ok")>>)
        \o When("control" \notin m.modules, <<Check("module-control", "ok")>>)

\* A config that cannot be loaded enables every module, and ends the report early.
all_checks(m) ==
    LET loads == m.config # "corrupt"
        tracker == ~loads \/ "tracker" \in m.modules
        agent == ~loads \/ "agent" \in m.modules IN
    <<Check("runtime", "ok")>>
        \o When(tracker \/ agent, <<Check("sqlite", "ok")>>)
        \o config_checks(m)
        \o When(tracker \/ agent, data_dir_checks(m))
        \o When(loads,
                When(tracker \/ agent, token_check(m))
                    \o When(agent, project_root_checks(m) \o input_checks(m))
                    \o When(tracker, database_check(m))
                    \o When(agent, server_checks(m))
                    \o services_check(m)
                    \o module_checks(m))

\* The exit code is 0.
ok(m) == \A i \in DOMAIN all_checks(m) : all_checks(m)[i].status # "error"
=============================================================================
