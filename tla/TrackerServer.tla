---------------------------- MODULE TrackerServer ----------------------------
(* The ingest server and its database: who may write which rows, what a      *)
(* batch leaves behind, the WakaTime import, and the operator's export and   *)
(* prune in other processes. The handlers share one connection behind a      *)
(* mutex, so a request is checked when it arrives and its database work is   *)
(* one later step. The read API changes nothing: its answers are Reports',   *)
(* and the invariants below compare them.                                    *)
EXTENDS Reports, Calendar, SequencesExt, TLC

CONSTANTS
    Batches,        \* what agents post: sequences of rows
    Items,          \* what editor plugins post: one heartbeat each
    MaxRequests,    \* requests that are let in
    MaxInflight,    \* requests that wait for the connection at once
    MaxOps,         \* exports, prunes and imports
    ChunkDays,      \* days asked of WakaTime at once (30)
    MaxDays,        \* the longest import
    Cutoffs         \* times an operator names

ASSUME TrackerServerAssumption ==
    /\ {MaxRequests, MaxInflight, MaxOps} \subseteq Nat
    /\ {ChunkDays, MaxDays} \subseteq Nat \ {0}
    /\ Cutoffs \subseteq Nat

Machine == {"m1", "m2"}
Today == MaxDays                        \* the first day on which an import may run
Date == 0..Today + 1

\* Rows come with no time, or with one since 1970.
ASSUME RowsAssumption ==
    /\ \A rows \in Batches :
           /\ Len(rows) \in Nat /\ DOMAIN rows = 1..Len(rows)
           /\ \A i \in DOMAIN rows : rows[i].time \in Nat \cup {None}
    /\ \A h \in Items : h.time \in Nat \cup {None}
    /\ None \notin Nat \cup Machine \cup {"unknown"}

VARIABLES
    table,          \* the table that this behaviour writes to
    cfg,            \* the server section of the configuration, read once
    heartbeats,     \* the table; a row also tells whose credential wrote it
    agent_status,   \* the newest report of each machine
    wakatime_days,  \* seconds by date
    inflight,       \* requests past their checks
    today, api,     \* the date; what WakaTime knows of each
    import, export, \* the import and the export that run, or the last ones
    answered,       \* keys of the rows of batches that were answered with success
    reports,        \* reports sent, and the newest applied, by machine
    overlapped,     \* machines that had two reports in flight together
    late,           \* what was written since the export read its table
    lost,           \* what was pruned though an export of it was to hold it
    requests, ops

tableVars == <<table, heartbeats, agent_status, wakatime_days>>
vars == <<cfg, tableVars, inflight, today, api, import, export, answered,
          reports, overlapped, late, lost, requests, ops>>

-----------------------------------------------------------------------------
(* Who is asking.                                                            *)

Configs ==
    {[token |-> "", tokens |-> <<>>], [token |-> "g", tokens |-> <<>>],
     [token |-> "", tokens |-> [m \in Machine |-> IF m = "m1" THEN "t1" ELSE "t2"]],
     [token |-> "g", tokens |-> [m \in Machine |-> IF m = "m1" THEN "t1" ELSE ""]]}

Credential ==
    {[header |-> h, api_key |-> None] : h \in {None, "g", "t1", "t2"}} \cup
    {[header |-> "t2", api_key |-> "t1"], [header |-> "", api_key |-> "t1"],
     [header |-> None, api_key |-> "t1"]}

\* A Bearer or Basic header wins, even an empty one.
request_token(c) ==
    IF c.header # None THEN c.header ELSE IF c.api_key # None THEN c.api_key ELSE ""

Open == cfg.token = "" /\ DOMAIN cfg.tokens = {}

authenticate(c) ==
    LET supplied == request_token(c)
        owners == {m \in DOMAIN cfg.tokens : cfg.tokens[m] # "" /\ cfg.tokens[m] = supplied}
    IN  IF Open THEN "Open"
        ELSE IF cfg.token # "" /\ supplied = cfg.token THEN "Global"
        ELSE IF owners # {} THEN CHOOSE m \in owners : TRUE
        ELSE None

allows_machine(p, machine) == p \in {"Open", "Global"} \/ p = machine

row_machine(row) == IF row.machine = None THEN "unknown" ELSE row.machine

Writer(c) == IF Open THEN "" ELSE request_token(c)

-----------------------------------------------------------------------------
(* The tables.                                                               *)

\* The columns of the unique index hb_dedupe2.
Key(r) == <<r.time, row_machine(r), r.source, r.project, r.entity, r.actor>>

\* What a row of a batch becomes: INSERT_SQL, with the id that SQLite gives it.
StoredRow(row, id, by) ==
    [time |-> row.time, machine |-> row_machine(row), source |-> row.source,
     project |-> row.project, entity |-> row.entity, type |-> row.type, write |-> row.write,
     actor |-> row.actor, language |-> row.language, tokens |-> row.tokens, id |-> id, by |-> by]

\* INSERT OR IGNORE, row by row: one without a time is passed over, and so is one
\* whose key is in the table already or was an earlier row's of the batch.
Taken(db, rows) ==
    {i \in DOMAIN rows :
        /\ rows[i].time # None
        /\ \A r \in db : Key(r) # Key(rows[i])
        /\ \A j \in 1..i - 1 : rows[j].time # None => Key(rows[j]) # Key(rows[i])}
Insert(db, rows, by) ==
    LET taken == Taken(db, rows)
        top == Max({0} \cup {r.id : r \in db})
    IN  db \cup {StoredRow(rows[i], top + Cardinality({j \in taken : j <= i}), by) : i \in taken}

\* Mutant: the first row without a time ends the batch.
insert_heartbeatsStops(db, rows, by) ==
    LET bad == {i \in DOMAIN rows : rows[i].time = None}
        upto == IF bad = {} THEN Len(rows) ELSE Min(bad) - 1
    IN  Insert(db, SubSeq(rows, 1, upto), by)
insert_heartbeats(db, rows, by) == Insert(db, rows, by)

Stored == {Key(r) : r \in heartbeats}
Late(keys) == late' = IF export.pc = "idle" THEN late ELSE late \cup keys

-----------------------------------------------------------------------------
(* The handlers that write.                                                  *)

Admit(r) ==
    /\ Cardinality(inflight) < MaxInflight
    /\ requests < MaxRequests
    /\ requests' = requests + 1
    /\ inflight' = inflight \cup {r}
    /\ UNCHANGED <<cfg, tableVars, today, api, import, export, answered, late, lost, ops>>

ingest_handler(c, rows) ==
    /\ authenticate(c) # None
    /\ \A i \in DOMAIN rows : allows_machine(authenticate(c), row_machine(rows[i]))
    /\ Admit([kind |-> "rows", by |-> Writer(c), rows |-> rows])
    /\ UNCHANGED <<reports, overlapped>>

\* Actor by category; the machine is the header's, whatever the item says.
from_wakatime(h, machine) ==
    [time |-> h.time, machine |-> machine, source |-> "webstorm",
     project |-> IF h.project # None THEN h.project
                 ELSE IF h.alternate_project # None THEN h.alternate_project ELSE "unknown",
     entity |-> h.entity, type |-> "file", language |-> None, write |-> h.write,
     actor |-> IF h.category = "ai coding" THEN "agent" ELSE "human", tokens |-> 0]

wakatime_handler(c, h, machine) ==
    /\ authenticate(c) # None
    /\ allows_machine(authenticate(c), machine)
    /\ Admit([kind |-> "rows", by |-> Writer(c), rows |-> <<from_wakatime(h, machine)>>])
    /\ UNCHANGED <<reports, overlapped>>

\* The agent sends its next report when the last one was answered or timed out.
agent_status_handler(c, m) ==
    /\ authenticate(c) # None
    /\ allows_machine(authenticate(c), m)
    /\ Admit([kind |-> "status", by |-> Writer(c), machine |-> m, reported |-> reports[m].sent + 1])
    /\ reports' = [reports EXCEPT ![m].sent = @ + 1]
    /\ overlapped' = IF \E r \in inflight : r.kind = "status" /\ r.machine = m
                     THEN overlapped \cup {m} ELSE overlapped

\* with_db: the request's turn on the connection.
InsertBatch(r) ==
    /\ r.kind = "rows"
    /\ inflight' = inflight \ {r}
    /\ heartbeats' = insert_heartbeats(heartbeats, r.rows, r.by)
    /\ answered' = answered \cup {Key(row) : row \in {row \in ToSet(r.rows) : row.time # None}}
    /\ Late({Key(row) : row \in heartbeats'} \ Stored)
    /\ UNCHANGED <<table, cfg, agent_status, wakatime_days, today, api, import, export, reports,
                   overlapped, lost, requests, ops>>

upsert_agent_status(r) ==
    agent_status' = [agent_status EXCEPT ![r.machine] =
                        [reported |-> r.reported, by |-> r.by]]

StoreStatus(r) ==
    /\ r.kind = "status"
    /\ inflight' = inflight \ {r}
    /\ upsert_agent_status(r)
    /\ reports' = [reports EXCEPT ![r.machine].applied = Max({@, r.reported})]
    /\ UNCHANGED <<table, cfg, heartbeats, wakatime_days, today, api, import, export, answered,
                   overlapped, late, lost, requests, ops>>

\* A database error rolls the batch back; the answer is an error.
Rollback(r) ==
    /\ inflight' = inflight \ {r}
    /\ UNCHANGED <<cfg, tableVars, today, api, import, export, answered, reports,
                   overlapped, late, lost, requests, ops>>

-----------------------------------------------------------------------------
(* stackhour import-wakatime.                                                *)

chunk_ranges(now_day, days) ==
    [i \in 1..((days + ChunkDays - 1) \div ChunkDays) |->
        LET offset == (i - 1) * ChunkDays
        IN  [start |-> now_day - Min({offset + ChunkDays - 1, days - 1}), end |-> now_day - offset]]

OpVars == <<table, cfg, heartbeats, agent_status, inflight, answered, reports, overlapped, requests>>

import_wakatime(days) ==
    /\ import.pc \in {"idle", "done", "stopped", "failed"}
    /\ ops < MaxOps
    /\ ops' = ops + 1
    /\ import' = [pc |-> "fetch", now |-> today, days |-> days, rows |-> {},
                  chunks |-> chunk_ranges(today, days), fetches |-> [d \in Date |-> 0]]
    /\ UNCHANGED <<OpVars, wakatime_days, today, api, export, late, lost>>

FetchChunk ==
    /\ import.pc = "fetch"
    /\ import' = IF import.chunks = <<>> THEN [import EXCEPT !.pc = "done"]
                 ELSE LET asked == Head(import.chunks).start .. Head(import.chunks).end
                      IN  [import EXCEPT
                             !.pc = "apply", !.chunks = Tail(@),
                             !.rows = {<<d, api[d]>> : d \in asked},
                             !.fetches = [d \in Date |-> IF d \in asked THEN @[d] + 1 ELSE @[d]]]
    /\ UNCHANGED <<OpVars, wakatime_days, today, api, export, late, lost, ops>>

\* HTTP 402 ends the import with success.
FetchRefused ==
    /\ import.pc = "fetch" /\ import.chunks # <<>>
    /\ import' = [import EXCEPT !.pc = "stopped"]
    /\ UNCHANGED <<OpVars, wakatime_days, today, api, export, late, lost, ops>>

\* Four attempts that reached nobody, another status, an error of the database
\* or the end of the process: what was written stays.
ImportFails ==
    /\ import.pc \in {"fetch", "apply"}
    /\ import' = [import EXCEPT !.pc = "failed"]
    /\ UNCHANGED <<OpVars, wakatime_days, today, api, export, late, lost, ops>>

\* Each row is a transaction of its own, in the order of the answer.
apply_summaries ==
    /\ import.pc = "apply"
    /\ IF import.rows = {}
       THEN /\ import' = [import EXCEPT !.pc = "fetch"]
            /\ UNCHANGED <<wakatime_days, late>>
       ELSE \E row \in import.rows :
            /\ \A other \in import.rows : row[1] <= other[1]
            /\ import' = [import EXCEPT !.rows = @ \ {row}]
            /\ wakatime_days' = [wakatime_days EXCEPT ![row[1]] = row[2]]
            /\ Late({row[1]})
    /\ UNCHANGED <<OpVars, today, api, export, lost, ops>>

\* External: midnight passes, and WakaTime counts on.
Midnight ==
    /\ today = Today /\ import.pc \in {"fetch", "apply"}
    /\ today' = today + 1
    /\ api' = [api EXCEPT ![today] = 2, ![today + 1] = 1]
    /\ UNCHANGED <<OpVars, wakatime_days, import, export, late, lost, ops>>

-----------------------------------------------------------------------------
(* stackhour data export and data prune, from 0 and without a time zone.     *)

ExportRows(to) ==
    /\ export.pc # "days" /\ ops < MaxOps
    /\ ops' = ops + 1
    /\ export' = [pc |-> "days", to |-> to, days |-> {},
                  rows |-> {Key(r) : r \in rows_in_range(heartbeats, 0, to)}]
    /\ late' = {}
    /\ UNCHANGED <<OpVars, wakatime_days, today, api, import, lost>>

\* The days are read by a second statement, and the file is then renamed.
ExportDays ==
    /\ export.pc = "days"
    /\ export' = [export EXCEPT !.pc = "done",
                     !.days = {d \in Date : /\ wakatime_days[d] # None
                                            /\ day_string(0, 0) <= d
                                            /\ d <= day_string(export.to, 0)}]
    /\ UNCHANGED <<OpVars, wakatime_days, today, api, import, late, lost, ops>>

prune(before) ==
    LET rows == {r \in heartbeats : r.time < before}
        dates == {d \in Date : wakatime_days[d] # None /\ d < day_string(before, 0)}
        deleted == {Key(r) : r \in rows} \cup dates
    IN  /\ ops < MaxOps
        /\ ops' = ops + 1
        /\ heartbeats' = heartbeats \ rows
        /\ wakatime_days' = [d \in Date |-> IF d \in dates THEN None ELSE wakatime_days[d]]
        /\ answered' = answered \ {Key(r) : r \in rows}
        /\ lost' = IF export.pc = "done" /\ export.to >= before
                   THEN lost \cup (deleted \ (export.rows \cup export.days \cup late))
                   ELSE lost
        /\ UNCHANGED <<table, cfg, agent_status, inflight, today, api, import, export, reports,
                       overlapped, late, requests>>

-----------------------------------------------------------------------------
Init ==
    /\ table \in {"heartbeats", "agent_status", "wakatime_days"}
    /\ cfg \in Configs
    /\ heartbeats = {}
    /\ agent_status = [m \in Machine |-> None]
    /\ wakatime_days = [d \in Date |-> None]
    /\ inflight = {}
    /\ today = Today
    /\ api = [d \in Date |-> IF d <= Today THEN 1 ELSE 0]
    /\ import = [pc |-> "idle", now |-> 0, days |-> 0, rows |-> {}, chunks |-> <<>>,
                 fetches |-> [d \in Date |-> 0]]
    /\ export = [pc |-> "idle", to |-> 0, rows |-> {}, days |-> {}]
    /\ answered = {}
    /\ reports = [m \in Machine |-> [sent |-> 0, applied |-> 0]]
    /\ overlapped = {} /\ late = {} /\ lost = {}
    /\ requests = 0 /\ ops = 0

\* The three tables are written by different clients and never read together,
\* so a behaviour follows one of them.
Ingest ==
    /\ table = "heartbeats"
    /\ \E c \in Credential : \/ \E rows \in Batches : ingest_handler(c, rows)
                             \/ \E h \in Items, m \in Machine : wakatime_handler(c, h, m)
Report ==
    /\ table = "agent_status"
    /\ \E c \in Credential, m \in Machine : agent_status_handler(c, m)
Import ==
    /\ table = "wakatime_days"
    /\ \E days \in 1..MaxDays : import_wakatime(days)
Turn == \E r \in inflight : InsertBatch(r) \/ StoreStatus(r) \/ Rollback(r)
Operate ==
    /\ table # "agent_status"
    /\ \/ \E t \in Cutoffs : ExportRows(t) \/ prune(t)
       \/ ExportDays

Next == Ingest \/ Report \/ Import \/ Turn \/ Operate
        \/ FetchChunk \/ FetchRefused \/ ImportFails \/ apply_summaries \/ Midnight

Spec == Init /\ [][Next]_vars

-----------------------------------------------------------------------------
(* What the server promises.                                                 *)

(* Types; and a row has its id and its key to itself (hb_dedupe2), however   *)
(* often its batch was sent and whichever rows a prune took away.            *)
TypeOK ==
    /\ cfg \in Configs
    /\ \A r, q \in heartbeats : r.id = q.id \/ Key(r) = Key(q) => r = q
    /\ \A r \in heartbeats : r.time \in Int /\ r.id \in Nat \ {0}
    /\ \A m \in Machine : agent_status[m] # None => agent_status[m].reported \in 1..MaxRequests
    /\ \A d \in Date : wakatime_days[d] \in Nat \cup {None}
    /\ import.pc \in {"idle", "fetch", "apply", "done", "stopped", "failed"}
    /\ export.pc \in {"idle", "days", "done"}
    /\ Cardinality(inflight) <= requests /\ requests <= MaxRequests /\ ops <= MaxOps

Owns(token, m) ==
    \/ Open
    \/ cfg.token # "" /\ token = cfg.token
    \/ m \in DOMAIN cfg.tokens /\ token # "" /\ cfg.tokens[m] = token

(* A machine's token wrote only rows and reports of that machine, whichever  *)
(* rows a batch mixes and whatever the query offers besides the header       *)
(* (the scope checks of ingest_handler, wakatime_handler and                 *)
(* agent_status_handler).                                                    *)
OwnRowsOnly ==
    /\ \A r \in heartbeats : Owns(r.by, r.machine)
    /\ \A m \in Machine : agent_status[m] # None => Owns(agent_status[m].by, m)

(* The table holds the rows of the batches answered with success that no     *)
(* prune took, and no others: a batch whose insert failed left nothing, one  *)
(* with a malformed row lost no other (insert_heartbeats).                   *)
StoredIsAnswered == Stored = answered

(* A machine's stored report is the newest applied, unless two of its        *)
(* reports waited for the connection at once: upsert_agent_status takes      *)
(* whichever comes last.                                                     *)
StatusIsLatest ==
    \A m \in Machine \ overlapped :
        reports[m].applied > 0 => agent_status[m].reported = reports[m].applied

(* An import that ran to its end asked for each of its days exactly once,    *)
(* though midnight passed meanwhile (chunk_ranges, from one reading of the   *)
(* clock).                                                                   *)
ImportCoversEachDayOnce ==
    import.pc = "done" =>
        \A d \in Date : import.fetches[d] = IF d \in import.now - import.days + 1 .. import.now
                                            THEN 1 ELSE 0

(* Whatever a prune deletes was in the export made up to its cutoff, or was  *)
(* written since that export read the table: the inclusive ends of export    *)
(* and the strict ones of prune leave no gap between them.                   *)
PrunedWasExported == lost = {}

-----------------------------------------------------------------------------
(* What the answers of the read API have to do with each other. They depend  *)
(* on the heartbeats alone.                                                  *)

\* The laws of operators alone are looked at in the initial states.
Untouched == requests = 0 /\ ops = 0
Settled == inflight = {} /\ export.pc = "idle"
Queries == {<<0, 8>>, <<2, 4>>, <<3, 8>>}

NearestEdit(db, r) ==
    LET near == {e \in db : /\ e.actor = "agent" /\ e.type = "file" /\ e.write
                            /\ e.machine = r.machine /\ e.entity = r.entity
                            /\ Distance(e, r) <= Window}
        best == {e \in near : \A q \in near : Distance(e, r) <= Distance(q, r)}
    IN  {e \in best : \A q \in best : e.time <= q.time}

(* The two conversions are inverse to each other and count days exactly as   *)
(* the calendar does (days_from_civil and civil_from_days, timeparse.rs).    *)
CalendarAgrees == Untouched =>
    /\ civil_from_days(0) = <<1970, 1, 1>>
    /\ \A z \in Sampled :
        LET date == civil_from_days(z)
        IN  /\ days_from_civil(date[1], date[2], date[3]) = z
            /\ civil_from_days(z + 1) = NextDay(date)

(* The binary search of reattribute_file_saves returns the number of edits   *)
(* before the save, for every sorted list of up to five.                     *)
LowerBoundIsRank == Untouched =>
    \A n \in 0..5 : \A f \in [1..n -> 0..3] :
        (\A i, j \in 1..n : i < j => f[i] <= f[j]) =>
            LET edits == [i \in 1..n |-> [time |-> f[i]]]
            IN  \A t \in 0..4 : LowerBound(edits, t) = Cardinality({i \in 1..n : f[i] < t})

(* A save goes to the nearest edit of its file by an agent on its machine    *)
(* within the window, to the earlier of two as near, and otherwise stays the *)
(* human's (reattribute_file_saves).                                         *)
NearestEditWins == Settled =>
    \A r \in heartbeats :
        LET e == Match(heartbeats, r)
        IN  IF r.source = "editor-files" /\ NearestEdit(heartbeats, r) # {}
            THEN e \in NearestEdit(heartbeats, r) ELSE e = None

(* Every answer tells the same story of a row: a range, what is active now   *)
(* and the newest page attribute it as the whole table does, though each     *)
(* reads a part of the table (reattributed_range, recent_with_context).      *)
AttributionIsOne == Settled =>
    LET everywhere == reattribute_file_saves(heartbeats)
    IN  /\ \A q \in Queries :
            /\ reattributed_range(heartbeats, q[1], q[2]) = rows_in_range(everywhere, q[1], q[2])
            /\ now(heartbeats, q[1], q[2])
                   = now_rows(rows_in_range(everywhere, q[1], q[2]))
        /\ \A n \in 1..2 : recent_with_context(heartbeats, n) \subseteq everywhere

(* A human's stream is credited the time within Cap after some heartbeat     *)
(* and before its last one, each moment once whichever projects it moves     *)
(* between and in whatever order rows arrived, and the last credit           *)
(* (compute_credits).                                                        *)
CreditMeasuresAttention == Settled =>
    \A q \in Queries :
        LET rows == reattributed_range(heartbeats, q[1], q[2])
            credits == compute_credits(rows)
        IN  \A key \in {<<r.machine, r.source>> : r \in Human(rows)} :
                LET stream == {r \in Human(rows) : <<r.machine, r.source>> = key}
                    times == {r.time : r \in stream}
                    attended == {t \in Min(times)..Max(times) - 1 :
                                    \E s \in times : s <= t /\ t < s + Cap}
                IN  CreditOf(credits, stream) = Cardinality(attended) + LastCredit

(* However a summary is grouped, its groups leave out no row: their tokens   *)
(* add up to the total, their seconds to within the rounding of each, and    *)
(* the derived agentTotal is the agents' credit to half a second             *)
(* (totals_by, summary_body).                                                *)
SummaryAddsUp == Settled =>
    \A q \in Queries, asked \in {{"language", "nope"}, {"source", "actor"}, {}} :
        LET body == summary(heartbeats, q[1], q[2], asked, 0)
            rows == reattributed_range(heartbeats, q[1], q[2])
            agents == CreditOf(compute_credits(rows), rows \ Human(rows))
            groups == DOMAIN body.totals
        IN  /\ body.totalTokens = MapThenSumSet(LAMBDA l : body.totals[l].tokens, groups)
            /\ MapThenSumSet(LAMBDA l : body.totals[l].seconds, groups) - body.total
                   \in -1..Cardinality(groups)
            /\ 2 * body.agentTotal - agents \in -1..1

(* The detail of a value shows the total that the summary shows for it, the  *)
(* rows without one under "unknown", and each of its breakdowns leaves out   *)
(* no row (build_body credits before it selects).                            *)
DetailAgreesWithSummary == Settled =>
    \A q \in Queries, dimension \in {"project", "language", "actor"} :
        LET totals == summary(heartbeats, q[1], q[2], {dimension}, 0).totals
        IN  \A l \in DOMAIN totals :
                LET body == detail(heartbeats, q[1], q[2], dimension, l[dimension])
                    parts(f) == body.breakdowns[f]
                IN  /\ body.total = totals[l].seconds /\ body.totalTokens = totals[l].tokens
                    /\ \A f \in DOMAIN body.breakdowns :
                          MapThenSumSet(LAMBDA k : parts(f)[k].tokens, DOMAIN parts(f))
                              = body.totalTokens

(* The days of a summary add up to its credit in every time zone, and no day *)
(* takes rows that are a day apart or that come before it (day_buckets).     *)
DaysAddUp == Settled =>
    \A tz \in {-3, 0, 2} :
        LET rows == reattributed_range(heartbeats, 0, 8)
            credits == compute_credits(rows)
            buckets == summary(heartbeats, 0, 8, {}, tz).days
            day(r) == day_string(r.time, tz)
        IN  /\ MapThenSumSet(LAMBDA b : buckets[b], DOMAIN buckets) = CreditOf(credits, rows)
            /\ \A r, s \in rows : day(r) = day(s) => Distance(r, s) < DayLength
            /\ \A r \in rows : day(r) * DayLength <= r.time - tz

(* The timeline's segments hold every row of a project and actor once, with  *)
(* its credit and source; within one no gap is longer than JoinGap, between  *)
(* two every one is (build_segments).                                        *)
SegmentsAreMaximal == Settled =>
    LET credits == compute_credits(reattributed_range(heartbeats, 0, 8))
        segments == timeline(heartbeats, 0, 8)
    IN  \A g \in DOMAIN segments :
            LET segs == segments[g]
                group == {r \in DOMAIN credits : <<r.project, r.actor>> = g}
                inside(i) == {r \in group : segs[i].start <= r.time /\ r.time <= segs[i].end}
            IN  /\ group = UNION {inside(i) : i \in DOMAIN segs}
                /\ \A i \in DOMAIN segs :
                    /\ CreditOf(credits, inside(i)) = segs[i].seconds
                    /\ {r.source : r \in inside(i)} = segs[i].sources
                    /\ \A r \in inside(i) : r.time < segs[i].end =>
                          \E n \in inside(i) : r.time < n.time /\ n.time - r.time <= JoinGap
                /\ \A i \in 1..Len(segs) - 1 : segs[i + 1].start - segs[i].end > JoinGap

\* With requests, an import, an export and a prune in flight at once, the database
\* holds what the server answered for, written by whom it belongs to, each imported
\* day once, and nothing is pruned that the export before it did not write.
StoreIsFaithful ==
    /\ TypeOK
    /\ OwnRowsOnly
    /\ StoredIsAnswered
    /\ StatusIsLatest
    /\ ImportCoversEachDayOnce
    /\ PrunedWasExported

\* A saved file is booked on the nearest edit that explains it, and every report that
\* shows the row, whatever its range, says the same.
AttributionIsRight == LowerBoundIsRank /\ NearestEditWins /\ AttributionIsOne

\* Time is counted once: credit is attention, and the summary, its details, its days
\* and its segments are cuts of the same credit along the calendar.
TimeAddsUp ==
    /\ CreditMeasuresAttention
    /\ SummaryAddsUp
    /\ DetailAgreesWithSummary
    /\ DaysAddUp
    /\ SegmentsAreMaximal
    /\ CalendarAgrees
=============================================================================
