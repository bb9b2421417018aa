------------------------------- MODULE Reports -------------------------------
(* The reporting engine as operators on a set of heartbeat rows: which saves *)
(* an agent's edit explains, what each row is credited, and the sums,        *)
(* segments and days that the read API makes of it. Times and credits are    *)
(* whole half seconds, so that the rounding to seconds is there to be seen.  *)
(* Rows come ORDER BY time, id, and every sort after that is stable.         *)
EXTENDS Integers, Sequences, FiniteSets, FiniteSetsExt, Functions, TLC

CONSTANTS
    None,           \* SQL NULL, and what a search does not find
    Cap,            \* summary.capSeconds
    LastCredit,           \* summary.lastEventCreditSeconds
    Window,         \* summary.reattributeWindowSeconds
    JoinGap,        \* summary.joinGapSeconds
    DayLength       \* a day

ASSUME ReportsAssumption ==
    /\ {Cap, LastCredit, Window, JoinGap} \subseteq Nat
    /\ DayLength \in Nat \ {0}

GROUP_FIELDS == {"project", "source", "machine", "language", "actor", "entity"}

Before(a, b) == \/ a.time < b.time
                \/ a.time = b.time /\ a.id < b.id
Sorted(rows) ==
    [i \in 1..Cardinality(rows) |->
        CHOOSE r \in rows : Cardinality({q \in rows : Before(q, r)}) = i - 1]

rows_in_range(db, from, to) == {r \in db : from <= r.time /\ r.time <= to}

-----------------------------------------------------------------------------
(* A file save close to an agent's edit of the file is the agent's.          *)

Edits(rows, r) ==
    Sorted({e \in rows : /\ e.actor = "agent" /\ e.type = "file" /\ e.write
                         /\ e.machine = r.machine /\ e.entity = r.entity})

LowerBound(edits, t) ==             \* the index, from 0, of the first not before t
    LET find[lo \in 0..Len(edits), hi \in 0..Len(edits)] ==
            LET mid == (lo + hi) \div 2
            IN  IF lo >= hi THEN lo
                ELSE IF edits[mid + 1].time < t THEN find[mid + 1, hi] ELSE find[lo, mid]
    IN  find[0, Len(edits)]

Distance(a, b) == IF a.time < b.time THEN b.time - a.time ELSE a.time - b.time

\* The edit before the save and the one after it, the first if they are as near.
Match(rows, r) ==
    LET edits == Edits(rows, r)
        lo == LowerBound(edits, r.time)
        near == {i \in {lo, lo + 1} \cap DOMAIN edits : Distance(edits[i], r) <= Window}
    IN  IF r.source # "editor-files" \/ near = {} THEN None
        ELSE edits[CHOOSE i \in near :
                 \A j \in near : \/ Distance(edits[i], r) < Distance(edits[j], r)
                                 \/ Distance(edits[i], r) = Distance(edits[j], r) /\ i <= j]

reattribute_file_saves(rows) ==
    {LET e == Match(rows, r)
     IN  IF e = None THEN r ELSE [r EXCEPT !.actor = "agent", !.source = e.source] : r \in rows}

reattributed_rangeExact(db, from, to) ==
    reattribute_file_saves(rows_in_range(db, from, to))
reattributed_range(db, from, to) ==
    rows_in_range(reattribute_file_saves(rows_in_range(db, from - Window, to + Window)), from, to)

-----------------------------------------------------------------------------
(* Credit: until the next heartbeat of the stream, at most Cap.              *)

StreamKey(r) == <<r.machine, r.source, r.actor, IF r.actor = "agent" THEN r.project ELSE "">>

compute_credits(rows) ==
    [r \in rows |->
        LET after == {q.time : q \in {q \in rows : StreamKey(q) = StreamKey(r) /\ Before(r, q)}}
        IN  IF after = {} THEN LastCredit ELSE Min({Min(after) - r.time, Cap})]

CreditOf(credits, rows) == MapThenSumSet(LAMBDA r : credits[r], rows)
js_round(halves) == (halves + 1) \div 2

\* group_by: the fields asked for that exist, and the project if none does.
group_by(asked) == IF asked \cap GROUP_FIELDS = {} THEN {"project"} ELSE asked \cap GROUP_FIELDS

field_label(r, k) == IF r[k] = None THEN "unknown" ELSE r[k]
labels(r, keys) == [k \in keys |-> field_label(r, k)]

totals_by(credits, keys) ==
    [l \in {labels(r, keys) : r \in DOMAIN credits} |->
        LET bucket == {r \in DOMAIN credits : labels(r, keys) = l}
        IN  [seconds |-> js_round(CreditOf(credits, bucket)),
             tokens |-> MapThenSumSet(LAMBDA r : r.tokens, bucket)]]

day_string(t, tz) == (t - tz) \div DayLength

day_buckets(credits, keys, tz) ==
    [b \in {<<day_string(r.time, tz), labels(r, keys)>> : r \in DOMAIN credits} |->
        CreditOf(credits, {r \in DOMAIN credits : <<day_string(r.time, tz), labels(r, keys)>> = b})]

\* The segments of one project and actor: a loop over its rows in time order.
Segments(credits, group) ==
    LET rows == Sorted(group)
        build[n \in 0..Len(rows)] ==
            IF n = 0 THEN <<>>
            ELSE LET segs == build[n - 1]
                     r == rows[n]
                     k == Len(segs)
                 IN  IF k > 0 /\ r.time - segs[k].end <= JoinGap
                     THEN [segs EXCEPT ![k] = [start |-> @.start, end |-> r.time,
                               seconds |-> @.seconds + credits[r],
                               sources |-> @.sources \cup {r.source}]]
                     ELSE Append(segs, [start |-> r.time, end |-> r.time,
                                        seconds |-> credits[r], sources |-> {r.source}])
    IN  build[Len(rows)]

build_segments(credits) ==
    [g \in {<<r.project, r.actor>> : r \in DOMAIN credits} |->
        Segments(credits, {r \in DOMAIN credits : <<r.project, r.actor>> = g})]

-----------------------------------------------------------------------------
(* The answers of the read API.                                              *)

Human(rows) == {r \in rows : r.actor # "agent"}

Sums(rows, credits) ==
    LET total == js_round(CreditOf(credits, rows))
        human_total == js_round(CreditOf(credits, Human(rows)))
    IN  [total |-> total, humanTotal |-> human_total,
         agentTotal |-> total - human_total,
         totalTokens |-> MapThenSumSet(LAMBDA r : r.tokens, rows)]

summary_body(rows, credits, keys, tz) ==
    Sums(rows, credits) @@ [totals |-> totals_by(credits, keys),
                            days |-> day_buckets(credits, keys, tz)]

summary(db, from, to, asked, tz) ==
    LET rows == reattributed_range(db, from, to)
    IN  summary_body(rows, compute_credits(rows), group_by(asked), tz)

matches(r, dimension, value) ==
    IF value = "" THEN r[dimension] = None ELSE field_label(r, dimension) = value

build_bodyOfSelected(rows, credits, dimension, value) ==
    LET selected == {r \in rows : matches(r, dimension, value)}
        mine == compute_credits(selected)
    IN  Sums(selected, mine) @@
        [breakdowns |-> [f \in GROUP_FIELDS \ {dimension} |-> totals_by(mine, {f})],
         segments |-> build_segments(mine)]

build_body(rows, credits, dimension, value) ==
    LET selected == {r \in rows : matches(r, dimension, value)}
        mine == Restrict(credits, selected)
    IN  Sums(selected, mine) @@
        [breakdowns |-> [f \in GROUP_FIELDS \ {dimension} |-> totals_by(mine, {f})],
         segments |-> build_segments(mine)]

detail(db, from, to, dimension, value) ==
    LET rows == reattributed_range(db, from, to)
    IN  build_body(rows, compute_credits(rows), dimension, value)

timeline(db, from, to) == build_segments(compute_credits(reattributed_range(db, from, to)))

\* One row for each actor, project, source and machine: the newest, of several
\* the first.
now_rows(rows) ==
    LET key(r) == <<r.actor, r.project, r.source, r.machine>>
        newer(r, q) == r.time > q.time \/ (r.time = q.time /\ r.id <= q.id)
    IN  {r \in rows : \A q \in rows : key(q) = key(r) => newer(r, q)}

now(db, from, to) == now_rows(reattributed_range(db, from, to))

recent_page(db, limit) == {r \in db : Cardinality({q \in db : Before(r, q)}) < limit}

recent_with_context(db, limit) ==
    LET selected == recent_page(db, limit)
        times == {r.time : r \in selected}
        by_id == reattribute_file_saves(
                     rows_in_range(db, Min(times) - Window, Max(times) + Window))
    IN  IF selected = {} THEN {}
        ELSE {LET found == {q \in by_id : q.id = r.id}
              IN  IF found = {} THEN r ELSE CHOOSE q \in found : TRUE : r \in selected}
=============================================================================
