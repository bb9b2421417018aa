---------------------------- MODULE TrackerProofs ----------------------------
(***************************************************************************)
(* Proofs about TrackerServer, for any batches, number of requests in      *)
(* flight, chunk, import and cutoff: the database holds what the server    *)
(* answered for, written by whom it belongs to; an import asks for each of *)
(* its days once; and no prune takes what the export before it lacks.      *)
(***************************************************************************)
EXTENDS TrackerServer, FiniteSetTheorems, WellFoundedInduction, TLAPS

-----------------------------------------------------------------------------
(* The inductive invariant.                                                *)

\* A request in flight passed the checks of its handler.
Checked(r) ==
    \/ /\ r.kind = "rows"
       /\ Len(r.rows) \in Nat /\ DOMAIN r.rows = 1..Len(r.rows)
       /\ \A i \in DOMAIN r.rows : /\ r.rows[i].time \in Nat \cup {None}
                                   /\ Owns(r.by, row_machine(r.rows[i]))
    \/ /\ r.kind = "status"
       /\ r.machine \in Machine /\ r.reported \in 1..reports[r.machine].sent
       /\ Owns(r.by, r.machine)

Counts ==
    /\ requests \in Nat /\ requests <= MaxRequests /\ ops \in Nat /\ ops <= MaxOps
    /\ IsFiniteSet(inflight) /\ Cardinality(inflight) <= requests
    /\ reports \in [Machine -> [sent : 0..requests, applied : Nat]]
    /\ \A m \in Machine : reports[m].applied <= reports[m].sent

RequestsInv == cfg \in Configs /\ Counts /\ \A r \in inflight : Checked(r)

\* A row has its id and its key to itself, and is its writer's.
RowsInv ==
    /\ \E b \in Nat : \A r \in heartbeats : r.id <= b
    /\ \A r \in heartbeats :
           /\ r.time \in Nat /\ r.id \in Nat \ {0}
           /\ r.machine # None /\ Owns(r.by, r.machine)
    /\ \A r, q \in heartbeats : r.id = q.id \/ Key(r) = Key(q) => r = q
    /\ StoredIsAnswered

\* Unless two of a machine's reports are in flight at once, the one that is there is
\* newer than all that were applied.
StatusInv ==
    /\ DOMAIN agent_status = Machine /\ overlapped \subseteq Machine
    /\ \A m \in Machine :
           /\ agent_status[m] # None => /\ agent_status[m].reported \in 1..MaxRequests
                                       /\ Owns(agent_status[m].by, m)
           /\ m \notin overlapped =>
                  /\ \A r, q \in inflight : r.kind = "status" /\ r.machine = m
                                            /\ q.kind = "status" /\ q.machine = m => r = q
                  /\ \A r \in inflight : r.kind = "status" /\ r.machine = m =>
                         r.reported > reports[m].applied
                  /\ reports[m].applied > 0 => agent_status[m].reported = reports[m].applied

\* After k chunks the days asked for are the last k times ChunkDays of the import's.
ImportAt(k) ==
    LET all == chunk_ranges(import.now, import.days)
        left == import.chunks
    IN  /\ left \in Seq([start : Int, end : Int]) /\ k + Len(left) = Len(all)
        /\ \A i \in 1..Len(left) : left[i] = all[k + i]
        /\ \A d \in Date :
               import.fetches[d] = IF /\ d <= import.now /\ d > import.now - k * ChunkDays
                                      /\ d > import.now - import.days
                                   THEN 1 ELSE 0

ImportTypes ==
    /\ DOMAIN import = {"pc", "now", "days", "rows", "chunks", "fetches"}
    /\ import.pc \in {"idle", "fetch", "apply", "done", "stopped", "failed"}
    /\ today \in {Today, Today + 1} /\ api \in [Date -> Nat]
    /\ wakatime_days \in [Date -> Nat \cup {None}]
    /\ import.rows \subseteq Date \X Nat
    /\ import.fetches \in [Date -> Nat]

Underway ==
    import.pc \in {"fetch", "apply", "done"} =>
        /\ import.now \in {Today, Today + 1} /\ import.days \in 1..MaxDays
        /\ \E k \in Nat : ImportAt(k)
        /\ import.pc = "done" => import.chunks = <<>>

ImportInv == ImportTypes /\ Underway

\* What is in the tables up to the export's end is in the export, or is late.
ExportInv ==
    /\ DOMAIN export = {"pc", "to", "rows", "days"}
    /\ export.pc \in {"idle", "days", "done"} /\ export.to \in Nat
    /\ export.pc # "idle" => \A r \in heartbeats : r.time <= export.to =>
           Key(r) \in export.rows \cup late
    /\ export.pc = "done" => \A d \in Date : wakatime_days[d] # None /\ d <= day_string(export.to, 0) =>
           d \in export.days \cup late
    /\ PrunedWasExported

ServerInv == RequestsInv /\ RowsInv /\ StatusInv /\ ImportInv /\ ExportInv

-----------------------------------------------------------------------------
(* Numbers.                                                                *)

\* A set of naturals with a bound has a greatest one, which Max picks.
LEMMA MaxOfBounded ==
  ASSUME NEW b \in Nat, NEW T, T \subseteq Nat, T # {}, \A x \in T : x <= b
  PROVE  Max(T) \in T /\ \A y \in T : y <= Max(T)
  <1> DEFINE R == {b - x : x \in T}
  <1>1. R \subseteq Nat /\ R # {}
    <2>1. \A x \in T : b - x \in Nat
      OBVIOUS
    <2> QED BY <2>1
  <1>2. PICK r \in R : \A y \in R : ~(<<y, r>> \in OpToRel(<, Nat))
    BY <1>1, NatLessThanWellFounded, WFMin
  <1>3. PICK x \in T : r = b - x
    BY <1>2
  <1>4. ASSUME NEW y \in T PROVE x >= y
    <2>1. b - y \in R
      OBVIOUS
    <2> HIDE DEF R
    <2>2. ~(<<b - y, r>> \in {ss \in Nat \X Nat : ss[1] < ss[2]})
      BY <1>2, <2>1 DEF OpToRel
    <2>3. b - y \in Nat /\ r \in Nat
      BY <1>1, <2>1
    <2>4. ~(b - y < r)
      BY <2>2, <2>3
    <2>5. x \in Nat /\ y \in Nat
      OBVIOUS
    <2> QED BY <1>3, <2>4, <2>5
  <1>5. \E m \in T : \A y \in T : m >= y
    BY <1>4
  <1>6. Max(T) \in T /\ \A y \in T : Max(T) >= y
    BY <1>5 DEF Max
  <1> QED BY <1>6

LEMMA MaxOfTwo ==
  ASSUME NEW a \in Nat, NEW b \in Nat
  PROVE  Max({a, b}) \in {a, b} /\ a <= Max({a, b}) /\ b <= Max({a, b})
  <1>1. \E x \in {a, b} : \A y \in {a, b} : x >= y
    OBVIOUS
  <1>2. Max({a, b}) \in {a, b} /\ \A y \in {a, b} : Max({a, b}) >= y
    BY <1>1 DEF Max
  <1> QED BY <1>2

LEMMA MinOfTwo ==
  ASSUME NEW a \in Nat, NEW b \in Nat
  PROVE  Min({a, b}) \in {a, b} /\ Min({a, b}) <= a /\ Min({a, b}) <= b
  <1>1. \E x \in {a, b} : \A y \in {a, b} : x <= y
    OBVIOUS
  <1>2. Min({a, b}) \in {a, b} /\ \A y \in {a, b} : Min({a, b}) <= y
    BY <1>1 DEF Min
  <1> QED BY <1>2

\* What a quotient is.
LEMMA Quotient ==
  ASSUME NEW x \in Nat, NEW c \in Nat \ {0}
  PROVE  x \div c \in Nat /\ (x \div c) * c <= x /\ x < ((x \div c) + 1) * c
  OBVIOUS

LEMMA ProductMono ==
  ASSUME NEW a \in Nat, NEW b \in Nat, NEW c \in Nat \ {0}
  PROVE  /\ a * c \in Nat /\ (a + 1) * c = a * c + c /\ 0 * c = 0
         /\ a <= b => a * c <= b * c
  OBVIOUS

\* Later moments are not on earlier days.
LEMMA DaysAscend ==
  ASSUME NEW x \in Nat, NEW y \in Nat, x <= y
  PROVE  /\ day_string(x, 0) \in Nat /\ day_string(y, 0) \in Nat
         /\ day_string(x, 0) <= day_string(y, 0) /\ day_string(0, 0) = 0
  <1> DEFINE c == DayLength
             a == x \div c
             b == y \div c
  <1>1. c \in Nat \ {0}
    BY ReportsAssumption
  <1>2. a \in Nat /\ b \in Nat /\ a * c <= x /\ y < (b + 1) * c
    BY <1>1, Quotient
  <1>3. 0 \div c = 0
    <2>1. 0 \div c \in Nat /\ (0 \div c) * c <= 0
      BY <1>1, Quotient
    <2> QED BY <1>1, <2>1
  <1>4. a <= b
    <2> HIDE DEF a, b, c
    <2>1. a * c < (b + 1) * c
      BY <1>1, <1>2, ProductMono
    <2>2. ~(b + 1 <= a)
      BY <1>1, <1>2, <2>1, ProductMono
    <2> QED BY <1>2, <2>2
  <1>5. x - 0 = x /\ y - 0 = y /\ 0 - 0 = 0
    OBVIOUS
  <1> QED BY <1>2, <1>3, <1>4, <1>5 DEF day_string

-----------------------------------------------------------------------------
(* Requests.                                                               *)

\* Who passed the check of a handler owns the machine's rows.
LEMMA Scope ==
  ASSUME cfg \in Configs, NEW c, NEW m,
         authenticate(c) # None, allows_machine(authenticate(c), m)
  PROVE  Owns(Writer(c), m)
  <1> DEFINE supplied == request_token(c)
             owners == {k \in DOMAIN cfg.tokens : cfg.tokens[k] # "" /\ cfg.tokens[k] = supplied}
  <1>1. CASE Open
    BY <1>1 DEF Owns
  <1>2. CASE ~Open /\ cfg.token # "" /\ supplied = cfg.token
    BY <1>2 DEF Owns, Writer
  <1>3. CASE ~Open /\ ~(cfg.token # "" /\ supplied = cfg.token)
    <2>1. owners # {} /\ authenticate(c) \in owners
      BY <1>3 DEF authenticate
    <2>2. DOMAIN cfg.tokens \subseteq Machine
      <3>1. CASE cfg = [token |-> "", tokens |-> <<>>] \/ cfg = [token |-> "g", tokens |-> <<>>]
        <4>1. PICK none : none = <<>>
          OBVIOUS
        <4>2. DOMAIN none = {}
          BY <4>1
        <4>3. cfg = [token |-> "", tokens |-> none] \/ cfg = [token |-> "g", tokens |-> none]
          BY <3>1, <4>1
        <4>4. PICK token : cfg = [token |-> token, tokens |-> none]
          BY <4>3
        <4>5. cfg.tokens = none
          BY <4>4
        <4> QED BY <4>2, <4>5
      <3>2. CASE cfg = [token |-> "", tokens |-> [k \in Machine |->
                                                     IF k = "m1" THEN "t1" ELSE "t2"]]
        BY <3>2
      <3>3. CASE cfg = [token |-> "g", tokens |-> [k \in Machine |->
                                                      IF k = "m1" THEN "t1" ELSE ""]]
        BY <3>3
      <3> QED BY <3>1, <3>2, <3>3 DEF Configs
    <2>3. authenticate(c) = m
      BY <2>1, <2>2 DEF allows_machine, Machine
    <2> QED BY <1>3, <2>1, <2>3 DEF Owns, Writer
  <1> QED BY <1>1, <1>2, <1>3

\* A request more, and a request less.
LEMMA OneMore ==
  ASSUME RequestsInv, NEW r, Admit(r)
  PROVE  /\ requests' = requests + 1 /\ requests' <= MaxRequests /\ UNCHANGED <<cfg, ops>>
         /\ IsFiniteSet(inflight') /\ Cardinality(inflight') <= requests'
         /\ inflight' = inflight \cup {r}
  <1>1. /\ requests' = requests + 1 /\ requests < MaxRequests /\ inflight' = inflight \cup {r}
        /\ UNCHANGED <<cfg, ops>>
    BY DEF Admit
  <1>2. /\ IsFiniteSet(inflight) /\ Cardinality(inflight) <= requests /\ requests \in Nat
        /\ Cardinality(inflight) \in Nat /\ MaxRequests \in Nat
    BY FS_CardinalityType, TrackerServerAssumption DEF RequestsInv, Counts
  <1>3. /\ IsFiniteSet(inflight \cup {r})
        /\ \/ Cardinality(inflight \cup {r}) = Cardinality(inflight)
           \/ Cardinality(inflight \cup {r}) = Cardinality(inflight) + 1
    BY <1>2, FS_AddElement
  <1> QED BY <1>1, <1>2, <1>3

LEMMA OneLess ==
  ASSUME RequestsInv, NEW r \in inflight, inflight' = inflight \ {r}, UNCHANGED requests
  PROVE  IsFiniteSet(inflight') /\ Cardinality(inflight') <= requests'
  <1>1. /\ IsFiniteSet(inflight) /\ Cardinality(inflight) <= requests /\ requests \in Nat
        /\ Cardinality(inflight) \in Nat
    BY FS_CardinalityType DEF RequestsInv, Counts
  <1>2. IsFiniteSet(inflight \ {r}) /\ Cardinality(inflight \ {r}) = Cardinality(inflight) - 1
    BY <1>1, FS_RemoveElement
  <1> QED BY <1>1, <1>2

LEMMA CheckedKeeps ==
  ASSUME NEW r, Checked(r), UNCHANGED cfg,
         reports \in [Machine -> [sent : Nat, applied : Nat]],
         reports' \in [Machine -> [sent : Nat, applied : Nat]],
         \A m \in Machine : reports[m].sent <= reports'[m].sent
  PROVE  Checked(r)'
  <1>1. \A k, m : Owns(k, m) => Owns(k, m)'
    BY DEF Owns, Open
  <1>2. CASE r.kind = "rows"
    BY <1>1, <1>2 DEF Checked, row_machine
  <1>3. CASE r.kind = "status"
    <2>1. r.machine \in Machine /\ r.reported \in 1..reports[r.machine].sent /\ Owns(r.by, r.machine)
      BY <1>3 DEF Checked
    <2>2. r.reported \in 1..reports'[r.machine].sent
      BY <2>1
    <2> QED BY <1>1, <1>3, <2>1, <2>2 DEF Checked
  <1> QED BY <1>2, <1>3 DEF Checked

\* A batch or an item is let in.
LEMMA RowsAdmitted ==
  ASSUME RequestsInv, NEW rows, NEW by,
         Admit([kind |-> "rows", by |-> by, rows |-> rows]), UNCHANGED reports,
         Len(rows) \in Nat /\ DOMAIN rows = 1..Len(rows),
         \A i \in DOMAIN rows : rows[i].time \in Nat \cup {None} /\ Owns(by, row_machine(rows[i]))
  PROVE  RequestsInv'
  <1>1. PICK r : r = [kind |-> "rows", by |-> by, rows |-> rows]
    OBVIOUS
  <1>2. r.kind = "rows" /\ r.by = by /\ r.rows = rows /\ Admit(r)
    BY <1>1
  <1>3. /\ requests' = requests + 1 /\ requests' <= MaxRequests /\ UNCHANGED <<cfg, ops>>
        /\ IsFiniteSet(inflight') /\ Cardinality(inflight') <= requests'
        /\ inflight' = inflight \cup {r}
    BY <1>2, OneMore
  <1>4. Checked(r)
    BY <1>2 DEF Checked
  <1>5. reports \in [Machine -> [sent : Nat, applied : Nat]]
    BY DEF RequestsInv, Counts
  <1>6. \A m \in Machine : reports[m].sent <= reports'[m].sent
    BY <1>5
  <1>7. \A q \in inflight' : Checked(q)'
    BY <1>3, <1>4, <1>5, <1>6, CheckedKeeps DEF RequestsInv
  <1>8. Counts'
    <2>1. requests \in Nat /\ requests' \in Nat
      BY <1>3 DEF RequestsInv, Counts
    <2>2. 0..requests \subseteq 0..requests'
      BY <1>3, <2>1
    <2>3. reports' \in [Machine -> [sent : 0..requests', applied : Nat]]
      BY <2>2 DEF RequestsInv, Counts
    <2> QED BY <1>3, <2>1, <2>3 DEF RequestsInv, Counts
  <1> QED BY <1>3, <1>7, <1>8 DEF RequestsInv

LEMMA IngestAdmits ==
  ASSUME RequestsInv, NEW c, NEW rows \in Batches, ingest_handler(c, rows)
  PROVE  RequestsInv'
  <1>1. /\ authenticate(c) # None /\ UNCHANGED reports
        /\ \A i \in DOMAIN rows : allows_machine(authenticate(c), row_machine(rows[i]))
        /\ Admit([kind |-> "rows", by |-> Writer(c), rows |-> rows])
    BY DEF ingest_handler
  <1>2. \A i \in DOMAIN rows : Owns(Writer(c), row_machine(rows[i]))
    BY <1>1, Scope DEF RequestsInv
  <1>3. /\ Len(rows) \in Nat /\ DOMAIN rows = 1..Len(rows)
        /\ \A i \in DOMAIN rows : rows[i].time \in Nat \cup {None}
    BY RowsAssumption
  <1> QED BY <1>1, <1>2, <1>3, RowsAdmitted

LEMMA ItemAdmitted ==
  ASSUME RequestsInv, NEW c, NEW h \in Items, NEW m \in Machine, wakatime_handler(c, h, m)
  PROVE  RequestsInv'
  <1>1. /\ authenticate(c) # None /\ UNCHANGED reports
        /\ allows_machine(authenticate(c), m)
        /\ Admit([kind |-> "rows", by |-> Writer(c), rows |-> <<from_wakatime(h, m)>>])
    BY DEF wakatime_handler
  <1>2. PICK row : row = from_wakatime(h, m)
    OBVIOUS
  <1>3. PICK rows : rows = <<row>>
    OBVIOUS
  <1>4. Len(rows) = 1 /\ DOMAIN rows = 1..1 /\ rows[1] = row
    BY <1>3
  <1>5. row.time = h.time /\ row.machine = m /\ m # None
    BY <1>2, RowsAssumption DEF from_wakatime
  <1>6. row_machine(row) = m
    BY <1>5 DEF row_machine
  <1>7. \A i \in DOMAIN rows : rows[i].time \in Nat \cup {None}
                               /\ Owns(Writer(c), row_machine(rows[i]))
    BY <1>1, <1>4, <1>5, <1>6, Scope, RowsAssumption DEF RequestsInv
  <1> QED BY <1>1, <1>2, <1>3, <1>4, <1>7, RowsAdmitted

LEMMA OwnsKeeps ==
  ASSUME UNCHANGED cfg, NEW k, NEW m
  PROVE  Owns(k, m)' <=> Owns(k, m)
  BY DEF Owns, Open

\* A report is let in.
LEMMA ReportAdmitted ==
  ASSUME RequestsInv, NEW c, NEW m \in Machine, agent_status_handler(c, m)
  PROVE  RequestsInv'
  <1>1. /\ authenticate(c) # None /\ allows_machine(authenticate(c), m)
        /\ Admit([kind |-> "status", by |-> Writer(c), machine |-> m,
                  reported |-> reports[m].sent + 1])
        /\ reports' = [reports EXCEPT ![m].sent = @ + 1]
    BY DEF agent_status_handler
  <1>2. PICK r : r = [kind |-> "status", by |-> Writer(c), machine |-> m,
                      reported |-> reports[m].sent + 1]
    OBVIOUS
  <1>3. /\ r.kind = "status" /\ r.by = Writer(c) /\ r.machine = m
        /\ r.reported = reports[m].sent + 1 /\ Admit(r)
    BY <1>1, <1>2
  <1>4. /\ requests' = requests + 1 /\ requests' <= MaxRequests /\ UNCHANGED <<cfg, ops>>
        /\ IsFiniteSet(inflight') /\ Cardinality(inflight') <= requests'
        /\ inflight' = inflight \cup {r}
    BY <1>3, OneMore
  <1>5. /\ requests \in Nat /\ reports \in [Machine -> [sent : 0..requests, applied : Nat]]
        /\ \A k \in Machine : reports[k].applied <= reports[k].sent
    BY DEF RequestsInv, Counts
  <1>6. /\ DOMAIN reports' = Machine
        /\ \A k \in Machine : reports'[k] = [sent |-> IF k = m THEN reports[k].sent + 1 ELSE reports[k].sent,
                                             applied |-> reports[k].applied]
    BY <1>1, <1>5
  <1>7. \A k \in Machine : /\ reports'[k].sent \in 0..requests' /\ reports'[k].applied \in Nat
                           /\ reports[k].sent <= reports'[k].sent
                           /\ reports'[k].applied <= reports'[k].sent
    BY <1>4, <1>5, <1>6
  <1>8. reports' \in [Machine -> [sent : 0..requests', applied : Nat]]
    <2>1. \A k \in Machine : reports'[k] \in [sent : 0..requests', applied : Nat]
      BY <1>6, <1>7
    <2>2. reports' = [k \in Machine |-> reports'[k]]
      BY <1>1, <1>5
    <2> QED BY <2>1, <2>2
  <1>9. Counts'
    <2>1. requests' \in Nat
      BY <1>4, <1>5
    <2> QED BY <1>4, <1>7, <1>8, <2>1 DEF RequestsInv, Counts
  <1>10. Checked(r)'
    <2>1. Owns(Writer(c), m)
      BY <1>1, Scope DEF RequestsInv
    <2>2. Owns(r.by, m)'
      BY <1>3, <1>4, <2>1, OwnsKeeps
    <2>3. r.reported \in 1..reports'[m].sent
      BY <1>3, <1>5, <1>6
    <2> QED BY <1>3, <2>2, <2>3 DEF Checked
  <1>11. \A q \in inflight : Checked(q)'
    <2>1. /\ reports \in [Machine -> [sent : Nat, applied : Nat]]
          /\ reports' \in [Machine -> [sent : Nat, applied : Nat]]
      BY <1>4, <1>5, <1>8
    <2> QED BY <1>4, <1>7, <2>1, CheckedKeeps DEF RequestsInv
  <1> QED BY <1>4, <1>9, <1>10, <1>11 DEF RequestsInv

\* A request leaves, applied or not.
LEMMA ReportStored ==
  ASSUME RequestsInv, NEW r \in inflight, StoreStatus(r)
  PROVE  /\ RequestsInv' /\ r.kind = "status" /\ r.machine \in Machine
         /\ r.reported \in 1..reports[r.machine].sent
         /\ reports[r.machine].applied \in Nat /\ reports[r.machine].sent <= MaxRequests
         /\ reports[r.machine].sent \in Nat
         /\ DOMAIN reports' = Machine
         /\ reports'[r.machine].applied = Max({reports[r.machine].applied, r.reported})
         /\ \A k \in Machine : k # r.machine => reports'[k].applied = reports[k].applied
  <1>1. /\ r.kind = "status" /\ inflight' = inflight \ {r} /\ UNCHANGED <<cfg, requests, ops>>
        /\ reports' = [reports EXCEPT ![r.machine].applied = Max({@, r.reported})]
    BY DEF StoreStatus
  <1>2. /\ requests \in Nat /\ reports \in [Machine -> [sent : 0..requests, applied : Nat]]
        /\ \A k \in Machine : reports[k].applied <= reports[k].sent
        /\ requests <= MaxRequests
    BY DEF RequestsInv, Counts
  <1>3. r.machine \in Machine /\ r.reported \in 1..reports[r.machine].sent
    BY <1>1 DEF RequestsInv, Checked
  <1>4. PICK top : top = Max({reports[r.machine].applied, r.reported})
    OBVIOUS
  <1>5. reports[r.machine].applied \in Nat /\ r.reported \in Nat /\ reports[r.machine].sent \in 0..requests
    BY <1>2, <1>3
  <1>6. top \in Nat /\ top <= reports[r.machine].sent
    BY <1>2, <1>3, <1>4, <1>5, MaxOfTwo
  <1>7. /\ DOMAIN reports' = Machine
        /\ \A k \in Machine : reports'[k] = [sent |-> reports[k].sent,
                                             applied |-> IF k = r.machine THEN top ELSE reports[k].applied]
    BY <1>1, <1>2, <1>4
  <1>8. \A k \in Machine : /\ reports'[k].sent = reports[k].sent /\ reports'[k].applied \in Nat
                           /\ reports'[k].applied <= reports'[k].sent
                           /\ reports'[k] \in [sent : 0..requests, applied : Nat]
                           /\ reports[k].sent \in Nat
    BY <1>2, <1>6, <1>7
  <1>9. reports' \in [Machine -> [sent : 0..requests, applied : Nat]]
    <2>1. reports' = [k \in Machine |-> reports'[k]]
      BY <1>1, <1>2
    <2> QED BY <1>8, <2>1
  <1>10. Counts'
    BY <1>1, <1>8, <1>9, OneLess DEF RequestsInv, Counts
  <1>11. \A q \in inflight : Checked(q)'
    <2>1. /\ reports \in [Machine -> [sent : Nat, applied : Nat]]
          /\ reports' \in [Machine -> [sent : Nat, applied : Nat]]
      BY <1>2, <1>9
    <2>2. \A k \in Machine : reports[k].sent <= reports'[k].sent
      BY <1>8
    <2> QED BY <1>1, <2>1, <2>2, CheckedKeeps DEF RequestsInv
  <1>12. RequestsInv'
    BY <1>1, <1>10, <1>11 DEF RequestsInv
  <1>13. reports[r.machine].sent <= MaxRequests
    BY <1>2, <1>5, TrackerServerAssumption
  <1> QED BY <1>1, <1>3, <1>4, <1>5, <1>7, <1>12, <1>13

LEMMA RequestLeaves ==
  ASSUME RequestsInv, NEW r \in inflight, InsertBatch(r) \/ Rollback(r)
  PROVE  RequestsInv'
  <1>1. inflight' = inflight \ {r} /\ UNCHANGED <<cfg, requests, reports, ops>>
    BY DEF InsertBatch, Rollback
  <1>2. Counts'
    BY <1>1, OneLess DEF RequestsInv, Counts
  <1>3. reports \in [Machine -> [sent : Nat, applied : Nat]]
    BY DEF RequestsInv, Counts
  <1>4. \A k \in Machine : reports[k].sent <= reports'[k].sent
    BY <1>1, <1>3
  <1>5. \A q \in inflight : Checked(q)'
    BY <1>1, <1>3, <1>4, CheckedKeeps DEF RequestsInv
  <1> QED BY <1>1, <1>2, <1>5 DEF RequestsInv

\* The operator's commands leave the requests alone.
LEMMA RequestsStay ==
  ASSUME RequestsInv, UNCHANGED <<cfg, inflight, requests, reports>>,
         ops' = ops \/ (ops < MaxOps /\ ops' = ops + 1)
  PROVE  RequestsInv'
  <1>1. ops' \in Nat /\ ops' <= MaxOps
    BY TrackerServerAssumption DEF RequestsInv, Counts
  <1>2. Counts'
    BY <1>1 DEF RequestsInv, Counts
  <1>3. \A q \in inflight : Checked(q)'
    BY OwnsKeeps DEF RequestsInv, Checked, row_machine
  <1> QED BY <1>2, <1>3 DEF RequestsInv

-----------------------------------------------------------------------------
(* Rows.                                                                   *)

\* How many of a set's numbers come up to one of them tells it from the others.
LEMMA CountsAscend ==
  ASSUME NEW n \in Nat, NEW T, T \subseteq 1..n
  PROVE  /\ \A i \in T : Cardinality({j \in T : j <= i}) \in 1..n
         /\ \A i, k \in T : i < k => Cardinality({j \in T : j <= i}) < Cardinality({j \in T : j <= k})
  <1> DEFINE upto(i) == {j \in T : j <= i}
  <1>1. IsFiniteSet(1..n) /\ Cardinality(1..n) = n
    BY FS_Interval
  <1>2. \A i \in T : /\ IsFiniteSet(upto(i)) /\ Cardinality(upto(i)) \in Nat
                     /\ Cardinality(upto(i)) <= n /\ Cardinality(upto(i)) # 0
    <2> TAKE i \in T
    <2>1. upto(i) \subseteq 1..n /\ i \in upto(i)
      <3>1. i \in Nat /\ i <= i
        OBVIOUS
      <3> QED BY <3>1
    <2>2. IsFiniteSet(upto(i)) /\ Cardinality(upto(i)) <= n
      BY <1>1, <2>1, FS_Subset
    <2>3. Cardinality(upto(i)) \in Nat /\ (Cardinality(upto(i)) = 0 <=> upto(i) = {})
      BY <2>2, FS_CardinalityType, FS_EmptySet
    <2> QED BY <2>1, <2>2, <2>3
  <1>3. ASSUME NEW i \in T, NEW k \in T, i < k PROVE Cardinality(upto(i)) < Cardinality(upto(k))
    <2>1. upto(i) \subseteq upto(k) /\ k \in upto(k) /\ k \notin upto(i)
      <3>1. i \in Nat /\ k \in Nat /\ \A j \in T : j \in Nat
        OBVIOUS
      <3>2. k <= k /\ ~(k <= i)
        BY <1>3, <3>1
      <3>3. \A j \in T : j <= i => j <= k
        BY <1>3, <3>1
      <3> QED BY <3>2, <3>3
    <2>2. /\ Cardinality(upto(i)) <= Cardinality(upto(k))
          /\ Cardinality(upto(k)) = Cardinality(upto(i)) => upto(k) = upto(i)
      BY <1>2, <2>1, FS_Subset
    <2> QED BY <1>2, <2>1, <2>2
  <1> QED BY <1>2, <1>3

\* Storing a row changes nothing in its key.
LEMMA KeyIsKept ==
  ASSUME NEW row, NEW id, NEW by
  PROVE  /\ Key(StoredRow(row, id, by)) = Key(row)
         /\ StoredRow(row, id, by).id = id /\ StoredRow(row, id, by).by = by
         /\ StoredRow(row, id, by).time = row.time
         /\ StoredRow(row, id, by).machine = row_machine(row) /\ row_machine(row) # None
  <1>1. row_machine(row) # None
    BY RowsAssumption DEF row_machine
  <1>2. PICK q : q = StoredRow(row, id, by)
    OBVIOUS
  <1>3. /\ q.time = row.time /\ q.machine = row_machine(row) /\ q.source = row.source
        /\ q.project = row.project /\ q.entity = row.entity /\ q.actor = row.actor
        /\ q.id = id /\ q.by = by
    BY <1>2 DEF StoredRow
  <1>4. row_machine(q) = row_machine(row)
    BY <1>1, <1>3 DEF row_machine
  <1>5. Key(q) = Key(row)
    BY <1>3, <1>4 DEF Key
  <1> QED BY <1>1, <1>2, <1>3, <1>5

\* Of the rows with a time, the first with a key that the table lacks is taken.
LEMMA FirstIsTaken ==
  ASSUME NEW db, NEW rows, NEW n \in Nat, DOMAIN rows = 1..n,
         NEW i \in DOMAIN rows, rows[i].time # None, \A q \in db : Key(q) # Key(rows[i])
  PROVE  \E k \in Taken(db, rows) : Key(rows[k]) = Key(rows[i])
  <1> DEFINE same == {j \in DOMAIN rows : rows[j].time # None /\ Key(rows[j]) = Key(rows[i])}
  <1>1. same \subseteq Nat /\ i \in same
    OBVIOUS
  <1>2. PICK k \in same : \A j \in same : ~(<<j, k>> \in OpToRel(<, Nat))
    BY <1>1, NatLessThanWellFounded, WFMin
  <1>3. \A j \in same : ~(j < k)
    <2> TAKE j \in same
    <2>1. ~(<<j, k>> \in {ss \in Nat \X Nat : ss[1] < ss[2]})
      BY <1>2 DEF OpToRel
    <2>2. j \in Nat /\ k \in Nat
      BY <1>1
    <2> QED BY <2>1, <2>2
  <1>4. \A j \in 1..k - 1 : j \in DOMAIN rows /\ j < k
    OBVIOUS
  <1>5. k \in Taken(db, rows)
    BY <1>3, <1>4 DEF Taken
  <1> QED BY <1>5

\* What a batch leaves in the table.
LEMMA InsertAdds ==
  ASSUME NEW db, NEW rows, NEW by, NEW n \in Nat, DOMAIN rows = 1..n,
         \E b \in Nat : \A q \in db : q.id <= b,
         \A q \in db : q.id \in Nat \ {0},
         \A q, p \in db : q.id = p.id \/ Key(q) = Key(p) => q = p
  PROVE  /\ db \subseteq Insert(db, rows, by)
         /\ \E b \in Nat : \A q \in Insert(db, rows, by) : q.id <= b
         /\ \A q \in Insert(db, rows, by) \ db : \E i \in Taken(db, rows) :
                /\ Key(q) = Key(rows[i]) /\ q.time = rows[i].time /\ q.by = by
                /\ q.machine = row_machine(rows[i]) /\ q.id \in Nat \ {0}
         /\ \A i \in Taken(db, rows) : \E q \in Insert(db, rows, by) : Key(q) = Key(rows[i])
         /\ \A q, p \in Insert(db, rows, by) : q.id = p.id \/ Key(q) = Key(p) => q = p
  <1> DEFINE taken == Taken(db, rows)
             ids == {0} \cup {q.id : q \in db}
             top == Max(ids)
             count(i) == Cardinality({j \in taken : j <= i})
             new(i) == StoredRow(rows[i], top + count(i), by)
  <1>1. Insert(db, rows, by) = db \cup {new(i) : i \in taken}
    BY DEF Insert
  <1>2. top \in Nat /\ \A q \in db : q.id <= top
    <2>1. PICK b \in Nat : \A q \in db : q.id <= b
      OBVIOUS
    <2>2. ids \subseteq Nat /\ ids # {} /\ \A x \in ids : x <= b
      BY <2>1
    <2>3. top \in ids /\ \A x \in ids : x <= top
      BY <2>2, MaxOfBounded
    <2> QED BY <2>2, <2>3
  <1> HIDE DEF top
  <1>3. taken \subseteq 1..n
    BY DEF Taken
  <1>4. /\ \A i \in taken : count(i) \in 1..n
        /\ \A i, k \in taken : i < k => count(i) < count(k)
    BY <1>3, CountsAscend
  <1>5. \A i \in taken : /\ Key(new(i)) = Key(rows[i]) /\ new(i).time = rows[i].time
                         /\ new(i).by = by /\ new(i).machine = row_machine(rows[i])
                         /\ new(i).id = top + count(i)
    BY KeyIsKept
  <1>6. \A i \in taken : /\ rows[i].time # None /\ \A q \in db : Key(q) # Key(rows[i])
                         /\ \A k \in taken : k < i => Key(rows[k]) # Key(rows[i])
    <2> TAKE i \in taken
    <2>1. \A k \in taken : k < i => k \in 1..i - 1
      BY <1>3
    <2> QED BY <2>1 DEF Taken
  <1> HIDE DEF new, count, taken
  <1>7. \A i \in taken : /\ new(i).id \in Nat \ {0} /\ new(i).id <= top + n
                         /\ \A q \in db : q.id # new(i).id
    <2> TAKE i \in taken
    <2>1. count(i) \in 1..n /\ new(i).id = top + count(i)
      BY <1>4, <1>5
    <2>2. new(i).id \in Nat \ {0} /\ new(i).id <= top + n /\ new(i).id > top
      BY <1>2, <2>1
    <2> QED BY <1>2, <2>2
  <1>8. \A i, k \in taken : new(i).id = new(k).id \/ Key(new(i)) = Key(new(k)) => i = k
    <2> SUFFICES ASSUME NEW i \in taken, NEW k \in taken, i < k
                 PROVE  new(i).id # new(k).id /\ Key(new(i)) # Key(new(k))
      BY <1>3
    <2>1. count(i) < count(k) /\ count(i) \in Nat /\ count(k) \in Nat
      BY <1>4
    <2> QED BY <1>2, <1>5, <1>6, <2>1
  <1>9. \E b \in Nat : \A q \in Insert(db, rows, by) : q.id <= b
    <2>1. top + n \in Nat /\ \A q \in db : q.id <= top + n
      BY <1>2
    <2> QED BY <1>1, <1>7, <2>1
  <1>10. \A q \in Insert(db, rows, by) \ db : \E i \in taken :
                /\ Key(q) = Key(rows[i]) /\ q.time = rows[i].time /\ q.by = by
                /\ q.machine = row_machine(rows[i]) /\ q.id \in Nat \ {0}
    BY <1>1, <1>5, <1>7
  <1>11. \A i \in taken : \E q \in Insert(db, rows, by) : Key(q) = Key(rows[i])
    BY <1>1, <1>5
  <1>12. ASSUME NEW q \in Insert(db, rows, by), NEW p \in Insert(db, rows, by),
                q.id = p.id \/ Key(q) = Key(p)
         PROVE  q = p
    <2>1. CASE q \in db /\ p \in db
      BY <1>12, <2>1
    <2>2. CASE q \in db /\ p \notin db
      BY <1>1, <1>5, <1>6, <1>7, <1>12, <2>2
    <2>3. CASE q \notin db /\ p \in db
      BY <1>1, <1>5, <1>6, <1>7, <1>12, <2>3
    <2>4. CASE q \notin db /\ p \notin db
      BY <1>1, <1>8, <1>12, <2>4
    <2> QED BY <2>1, <2>2, <2>3, <2>4
  <1> QED BY <1>1, <1>9, <1>10, <1>11, <1>12 DEF taken

\* A batch is written.
LEMMA BatchKeepsRows ==
  ASSUME RequestsInv, RowsInv, NEW r \in inflight, InsertBatch(r)
  PROVE  /\ RowsInv' /\ heartbeats \subseteq heartbeats'
         /\ \A q \in heartbeats' : q.time \in Nat
  <1> DEFINE rows == r.rows
             db == heartbeats
             timed == {row \in ToSet(rows) : row.time # None}
  <1>1. /\ r.kind = "rows" /\ UNCHANGED cfg
        /\ heartbeats' = Insert(db, rows, r.by)
        /\ answered' = answered \cup {Key(row) : row \in timed}
    BY DEF InsertBatch, insert_heartbeats
  <1>2. /\ Len(rows) \in Nat /\ DOMAIN rows = 1..Len(rows)
        /\ \A i \in DOMAIN rows : /\ rows[i].time \in Nat \cup {None}
                                  /\ Owns(r.by, row_machine(rows[i]))
    BY <1>1 DEF RequestsInv, Checked
  <1>3. /\ db \subseteq heartbeats'
        /\ \E b \in Nat : \A q \in heartbeats' : q.id <= b
        /\ \A q \in heartbeats' \ db : \E i \in Taken(db, rows) :
               /\ Key(q) = Key(rows[i]) /\ q.time = rows[i].time /\ q.by = r.by
               /\ q.machine = row_machine(rows[i]) /\ q.id \in Nat \ {0}
        /\ \A i \in Taken(db, rows) : \E q \in heartbeats' : Key(q) = Key(rows[i])
        /\ \A q, p \in heartbeats' : q.id = p.id \/ Key(q) = Key(p) => q = p
    <2>1. /\ \E b \in Nat : \A q \in db : q.id <= b
          /\ \A q \in db : q.id \in Nat \ {0}
          /\ \A q, p \in db : q.id = p.id \/ Key(q) = Key(p) => q = p
      BY DEF RowsInv
    <2> QED BY <1>1, <1>2, <2>1, InsertAdds
  <1>4. \A i \in Taken(db, rows) : i \in DOMAIN rows /\ rows[i].time # None
    BY DEF Taken
  <1>5. \A q \in heartbeats' : /\ q.time \in Nat /\ q.id \in Nat \ {0}
                               /\ q.machine # None /\ Owns(q.by, q.machine)
    <2> TAKE q \in heartbeats'
    <2>1. CASE q \in db
      BY <2>1 DEF RowsInv
    <2>2. CASE q \notin db
      <3>1. PICK i \in Taken(db, rows) :
               /\ q.time = rows[i].time /\ q.by = r.by
               /\ q.machine = row_machine(rows[i]) /\ q.id \in Nat \ {0}
        BY <1>3, <2>2
      <3>2. row_machine(rows[i]) # None
        BY KeyIsKept
      <3> QED BY <1>2, <1>4, <3>1, <3>2
    <2> QED BY <2>1, <2>2
  <1>6. \A q \in heartbeats' : Owns(q.by, q.machine)'
    BY <1>1, <1>5, OwnsKeeps
  <1>7. Stored' = answered'
    <2>1. Stored = answered
      BY DEF RowsInv, StoredIsAnswered
    <2>2. ASSUME NEW k \in Stored' PROVE k \in answered'
      <3>1. PICK q \in heartbeats' : k = Key(q)
        BY DEF Stored
      <3>2. CASE q \in db
        BY <1>1, <2>1, <3>1, <3>2 DEF Stored
      <3>3. CASE q \notin db
        <4>1. PICK i \in Taken(db, rows) : Key(q) = Key(rows[i])
          BY <1>3, <3>3
        <4>2. rows[i] \in timed
          BY <1>4 DEF ToSet
        <4> QED BY <1>1, <3>1, <4>1, <4>2
      <3> QED BY <3>2, <3>3
    <2>3. ASSUME NEW k \in answered' PROVE k \in Stored'
      <3>1. CASE k \in answered
        BY <1>3, <2>1, <3>1 DEF Stored
      <3>2. CASE k \notin answered
        <4>1. PICK row \in timed : k = Key(row)
          BY <1>1, <3>2
        <4>2. PICK i \in DOMAIN rows : row = rows[i]
          BY DEF ToSet
        <4>3. \A q \in db : Key(q) # Key(rows[i])
          BY <2>1, <3>2, <4>1, <4>2 DEF Stored
        <4>4. \E j \in Taken(db, rows) : Key(rows[j]) = Key(rows[i])
          BY <1>2, <4>2, <4>3, FirstIsTaken
        <4>5. \E q \in heartbeats' : Key(q) = k
          BY <1>3, <4>1, <4>2, <4>4
        <4> QED BY <4>5 DEF Stored
      <3> QED BY <3>1, <3>2
    <2> QED BY <2>2, <2>3
  <1>8. RowsInv'
    BY <1>3, <1>5, <1>6, <1>7 DEF RowsInv, StoredIsAnswered
  <1> QED BY <1>3, <1>5, <1>8

\* Rows are taken away by their keys, and nothing else writes the table.
LEMMA PruneKeepsRows ==
  ASSUME RowsInv, NEW before, prune(before)
  PROVE  RowsInv'
  <1> DEFINE rows == {r \in heartbeats : r.time < before}
  <1>1. /\ UNCHANGED cfg /\ heartbeats' = heartbeats \ rows
        /\ answered' = answered \ {Key(r) : r \in rows}
    BY DEF prune
  <1>2. \A r, q \in heartbeats : Key(r) = Key(q) => r = q
    BY DEF RowsInv
  <1>3. Stored' = answered'
    BY <1>1, <1>2 DEF RowsInv, StoredIsAnswered, Stored
  <1>4. \A r \in heartbeats : Owns(r.by, r.machine)'
    BY <1>1, OwnsKeeps DEF RowsInv
  <1> QED BY <1>1, <1>3, <1>4 DEF RowsInv, StoredIsAnswered

LEMMA RowsStay ==
  ASSUME RowsInv, UNCHANGED <<cfg, heartbeats, answered>>
  PROVE  RowsInv'
  <1>1. \A r \in heartbeats : Owns(r.by, r.machine)'
    BY OwnsKeeps DEF RowsInv
  <1>2. Stored' = answered'
    BY DEF RowsInv, StoredIsAnswered, Stored
  <1> QED BY <1>1, <1>2 DEF RowsInv, StoredIsAnswered

-----------------------------------------------------------------------------
(* Reports.                                                                *)

LEMMA StatusStays ==
  ASSUME StatusInv, UNCHANGED <<cfg, agent_status, reports, overlapped>>,
         \A r \in inflight' : r \in inflight \/ r.kind # "status"
  PROVE  StatusInv'
  <1>1. \A m \in Machine : agent_status[m] # None => Owns(agent_status[m].by, m)'
    BY OwnsKeeps DEF StatusInv
  <1> QED BY <1>1 DEF StatusInv

\* A report more: two of a machine together are noted.
LEMMA ReportKeepsStatus ==
  ASSUME RequestsInv, StatusInv, NEW c, NEW m \in Machine, agent_status_handler(c, m)
  PROVE  StatusInv'
  <1>1. PICK r : r = [kind |-> "status", by |-> Writer(c), machine |-> m,
                      reported |-> reports[m].sent + 1]
    OBVIOUS
  <1>2. /\ r.kind = "status" /\ r.machine = m /\ r.reported = reports[m].sent + 1
        /\ inflight' = inflight \cup {r} /\ UNCHANGED <<cfg, agent_status>>
        /\ reports' = [reports EXCEPT ![m].sent = @ + 1]
        /\ overlapped' = IF \E q \in inflight : q.kind = "status" /\ q.machine = m
                         THEN overlapped \cup {m} ELSE overlapped
    BY <1>1 DEF agent_status_handler, Admit, tableVars
  <1>3. /\ reports \in [Machine -> [sent : Nat, applied : Nat]]
        /\ reports[m].applied <= reports[m].sent
    BY DEF RequestsInv, Counts
  <1>4. \A k \in Machine : reports'[k].applied = reports[k].applied
    BY <1>2, <1>3
  <1>5. r.reported > reports[m].applied
    BY <1>2, <1>3
  <1>6. \A k \in Machine : agent_status[k] # None => Owns(agent_status[k].by, k)'
    BY <1>2, OwnsKeeps DEF StatusInv
  <1>7. ASSUME NEW k \in Machine, k \notin overlapped'
        PROVE  /\ \A p, q \in inflight' : p.kind = "status" /\ p.machine = k
                                          /\ q.kind = "status" /\ q.machine = k => p = q
               /\ \A p \in inflight' : p.kind = "status" /\ p.machine = k =>
                         p.reported > reports'[k].applied
               /\ reports'[k].applied > 0 => agent_status'[k].reported = reports'[k].applied
    <2>1. k \notin overlapped
      BY <1>2, <1>7
    <2>2. CASE k = m
      <3>1. ~\E q \in inflight : q.kind = "status" /\ q.machine = m
        BY <1>2, <1>7, <2>2
      <3> QED BY <1>2, <1>4, <1>5, <2>1, <2>2, <3>1 DEF StatusInv
    <2>3. CASE k # m
      BY <1>2, <1>4, <2>1, <2>3 DEF StatusInv
    <2> QED BY <2>2, <2>3
  <1>8. overlapped' \subseteq Machine /\ DOMAIN agent_status' = Machine
    BY <1>2 DEF StatusInv
  <1> QED BY <1>2, <1>6, <1>7, <1>8 DEF StatusInv

\* A report is written over whatever is there.
LEMMA StoreKeepsStatus ==
  ASSUME RequestsInv, StatusInv, NEW r \in inflight, StoreStatus(r)
  PROVE  StatusInv'
  <1>1. PICK m : m = r.machine
    OBVIOUS
  <1>2. /\ r.kind = "status" /\ m \in Machine /\ r.reported \in 1..reports[m].sent
        /\ reports[m].applied \in Nat /\ reports[m].sent <= MaxRequests /\ reports[m].sent \in Nat
        /\ reports'[m].applied = Max({reports[m].applied, r.reported})
        /\ \A k \in Machine : k # m => reports'[k].applied = reports[k].applied
    BY <1>1, ReportStored
  <1>3. /\ inflight' = inflight \ {r} /\ UNCHANGED <<cfg, overlapped>>
        /\ agent_status' = [agent_status EXCEPT ![m] = [reported |-> r.reported, by |-> r.by]]
    BY <1>1 DEF StoreStatus, upsert_agent_status
  <1>4. DOMAIN agent_status = Machine
    BY DEF StatusInv
  <1>5. /\ DOMAIN agent_status' = Machine
        /\ agent_status'[m].reported = r.reported /\ agent_status'[m].by = r.by
        /\ \A k \in Machine : k # m => agent_status'[k] = agent_status[k]
    BY <1>2, <1>3, <1>4
  <1>6. r.reported \in 1..MaxRequests
    BY <1>2, TrackerServerAssumption
  <1>7. Owns(r.by, m)
    BY <1>1, <1>2 DEF RequestsInv, Checked
  <1>8. \A k \in Machine : agent_status'[k] # None => /\ agent_status'[k].reported \in 1..MaxRequests
                                                      /\ Owns(agent_status[k].by, k)'
    <2> TAKE k \in Machine
    <2> HAVE agent_status'[k] # None
    <2>1. PICK by : by = agent_status'[k].by
      OBVIOUS
    <2>2. agent_status'[k].reported \in 1..MaxRequests /\ Owns(by, k)
      BY <1>5, <1>6, <1>7, <2>1 DEF StatusInv
    <2>3. Owns(by, k)'
      BY <1>3, <2>2, OwnsKeeps
    <2>4. Owns(agent_status[k].by, k)'
      BY <2>1, <2>3 DEF Owns
    <2> QED BY <2>2, <2>4
  <1>9. ASSUME NEW k \in Machine, k \notin overlapped'
        PROVE  /\ \A p, q \in inflight' : p.kind = "status" /\ p.machine = k
                                          /\ q.kind = "status" /\ q.machine = k => p = q
               /\ \A p \in inflight' : p.kind = "status" /\ p.machine = k =>
                         p.reported > reports'[k].applied
               /\ reports'[k].applied > 0 => agent_status'[k].reported = reports'[k].applied
    <2>1. k \notin overlapped
      BY <1>3, <1>9
    <2>2. CASE k = m
      <3>1. \A q \in inflight' : ~(q.kind = "status" /\ q.machine = m)
        BY <1>1, <1>2, <1>3, <2>1, <2>2 DEF StatusInv
      <3>2. r.reported > reports[m].applied
        BY <1>1, <1>2, <2>1, <2>2 DEF StatusInv
      <3>3. reports'[m].applied = r.reported
        <4>1. r.reported \in Nat
          BY <1>2
        <4> QED BY <1>2, <3>2, <4>1, MaxOfTwo
      <3> QED BY <1>5, <2>2, <3>1, <3>3
    <2>3. CASE k # m
      BY <1>2, <1>3, <1>5, <2>1, <2>3 DEF StatusInv
    <2> QED BY <2>2, <2>3
  <1>10. overlapped' \subseteq Machine
    BY <1>3 DEF StatusInv
  <1> QED BY <1>5, <1>8, <1>9, <1>10 DEF StatusInv

-----------------------------------------------------------------------------
(* Exports.                                                                *)

LEMMA ExportStays ==
  ASSUME ExportInv, UNCHANGED <<heartbeats, wakatime_days, export, late, lost>>
  PROVE  ExportInv'
  BY DEF ExportInv, PrunedWasExported

\* A batch brings rows that the export has, or late ones.
LEMMA BatchKeepsExport ==
  ASSUME RequestsInv, RowsInv, ExportInv, NEW r \in inflight, InsertBatch(r)
  PROVE  ExportInv'
  <1>1. UNCHANGED <<wakatime_days, export, lost>> /\ Late({Key(row) : row \in heartbeats'} \ Stored)
    BY DEF InsertBatch
  <1>2. late \subseteq late'
    BY <1>1 DEF Late
  <1>3. ASSUME export.pc # "idle", NEW q \in heartbeats', q.time <= export.to
        PROVE  Key(q) \in export.rows \cup late'
    <2>1. CASE Key(q) \in Stored
      <3>1. PICK p \in heartbeats : Key(p) = Key(q)
        BY <2>1 DEF Stored
      <3>2. p.time = q.time
        BY <3>1 DEF Key
      <3> QED BY <1>2, <1>3, <3>1, <3>2 DEF ExportInv
    <2>2. CASE Key(q) \notin Stored
      BY <1>1, <1>3, <2>2 DEF Late
    <2> QED BY <2>1, <2>2
  <1> QED BY <1>1, <1>2, <1>3 DEF ExportInv, PrunedWasExported

\* An imported day is late.
LEMMA ApplyKeepsExport ==
  ASSUME ImportInv, ExportInv, apply_summaries
  PROVE  ExportInv'
  <1>1. UNCHANGED <<heartbeats, export, lost>>
    BY DEF apply_summaries, OpVars
  <1>2. CASE UNCHANGED <<wakatime_days, late>>
    BY <1>1, <1>2, ExportStays
  <1>3. CASE \E row \in import.rows :
                wakatime_days' = [wakatime_days EXCEPT ![row[1]] = row[2]] /\ Late({row[1]})
    <2>1. PICK row \in import.rows :
                wakatime_days' = [wakatime_days EXCEPT ![row[1]] = row[2]] /\ Late({row[1]})
      BY <1>3
    <2>2. DOMAIN wakatime_days = Date
      BY DEF ImportInv, ImportTypes
    <2>3. \A d \in Date : d # row[1] => wakatime_days'[d] = wakatime_days[d]
      BY <2>1, <2>2
    <2>4. late \subseteq late' /\ (export.pc # "idle" => row[1] \in late')
      BY <2>1 DEF Late
    <2> QED BY <1>1, <2>3, <2>4 DEF ExportInv, PrunedWasExported
  <1> QED BY <1>2, <1>3 DEF apply_summaries

LEMMA ReadKeepsExport ==
  ASSUME RowsInv, ExportInv, NEW to \in Nat, ExportRows(to)
  PROVE  ExportInv'
  <1>1. /\ UNCHANGED <<heartbeats, wakatime_days, lost>> /\ late' = {}
        /\ export' = [pc |-> "days", to |-> to, days |-> {},
                      rows |-> {Key(r) : r \in rows_in_range(heartbeats, 0, to)}]
    BY DEF ExportRows, OpVars
  <1>2. /\ DOMAIN export' = {"pc", "to", "rows", "days"} /\ export'.pc = "days"
        /\ export'.to = to /\ export'.rows = {Key(r) : r \in rows_in_range(heartbeats, 0, to)}
    BY <1>1
  <1>3. \A r \in heartbeats : r.time <= to => Key(r) \in export'.rows
    <2>1. \A r \in heartbeats : 0 <= r.time
      BY DEF RowsInv
    <2> QED BY <1>2, <2>1 DEF rows_in_range
  <1> QED BY <1>1, <1>2, <1>3 DEF ExportInv, PrunedWasExported

LEMMA DaysKeepExport ==
  ASSUME ExportInv, ExportDays
  PROVE  ExportInv'
  <1>1. /\ UNCHANGED <<heartbeats, wakatime_days, late, lost>> /\ export.pc = "days"
        /\ export' = [export EXCEPT !.pc = "done",
                         !.days = {d \in Date : /\ wakatime_days[d] # None
                                                /\ day_string(0, 0) <= d
                                                /\ d <= day_string(export.to, 0)}]
    BY DEF ExportDays, OpVars
  <1>2. DOMAIN export = {"pc", "to", "rows", "days"} /\ export.to \in Nat
    BY DEF ExportInv
  <1>3. /\ DOMAIN export' = {"pc", "to", "rows", "days"} /\ export'.pc = "done"
        /\ export'.to = export.to /\ export'.rows = export.rows
        /\ export'.days = {d \in Date : /\ wakatime_days[d] # None
                                        /\ day_string(0, 0) <= d
                                        /\ d <= day_string(export.to, 0)}
    BY <1>1, <1>2
  <1>4. \A d \in Date : day_string(0, 0) <= d
    <2>1. day_string(0, 0) = 0
      BY DaysAscend
    <2> QED BY <2>1 DEF Date
  <1>5. \A d \in Date : wakatime_days[d] # None /\ d <= day_string(export.to, 0) => d \in export'.days
    BY <1>3, <1>4
  <1> QED BY <1>1, <1>2, <1>3, <1>5 DEF ExportInv, PrunedWasExported

\* A prune whose cutoff the export reached takes only what it has.
LEMMA PruneKeepsExport ==
  ASSUME RowsInv, ImportInv, ExportInv, NEW before \in Nat, prune(before)
  PROVE  ExportInv'
  <1> DEFINE rows == {r \in heartbeats : r.time < before}
             dates == {d \in Date : wakatime_days[d] # None /\ d < day_string(before, 0)}
             deleted == {Key(r) : r \in rows} \cup dates
             held == export.rows \cup export.days \cup late
  <1>1. /\ heartbeats' = heartbeats \ rows /\ UNCHANGED <<export, late>>
        /\ wakatime_days' = [d \in Date |-> IF d \in dates THEN None ELSE wakatime_days[d]]
        /\ lost' = IF export.pc = "done" /\ export.to >= before
                   THEN lost \cup (deleted \ held) ELSE lost
    BY DEF prune
  <1>2. ASSUME export.pc = "done", export.to >= before PROVE deleted \subseteq held
    <2>1. export.to \in Nat
      BY DEF ExportInv
    <2>2. \A r \in rows : Key(r) \in held
      <3> TAKE r \in rows
      <3>1. r \in heartbeats /\ r.time \in Nat /\ r.time <= export.to
        BY <1>2, <2>1 DEF RowsInv
      <3> QED BY <1>2, <3>1 DEF ExportInv
    <2>3. dates \subseteq held
      <3>1. /\ day_string(before, 0) \in Nat /\ day_string(export.to, 0) \in Nat
            /\ day_string(before, 0) <= day_string(export.to, 0)
        BY <1>2, <2>1, DaysAscend
      <3>2. \A d \in dates : d \in Nat
        BY TrackerServerAssumption DEF Date, Today
      <3>3. \A d \in dates : d <= day_string(export.to, 0)
        BY <3>1, <3>2
      <3> QED BY <1>2, <3>3 DEF ExportInv
    <2> QED BY <2>2, <2>3
  <1>3. lost' = {}
    BY <1>1, <1>2 DEF ExportInv, PrunedWasExported
  <1>4. \A d \in Date : wakatime_days'[d] # None => wakatime_days[d] # None
    BY <1>1
  <1> QED BY <1>1, <1>3, <1>4 DEF ExportInv, PrunedWasExported

-----------------------------------------------------------------------------
(* Imports.                                                                *)

LEMMA ListIsSeq ==
  ASSUME NEW R, NEW n \in Nat, NEW f \in [1..n -> R]
  PROVE  f \in Seq(R)
  OBVIOUS

\* The chunks of an import are enough for its days.
LEMMA Chunks ==
  ASSUME NEW from \in Nat, NEW days \in Nat \ {0}
  PROVE  /\ chunk_ranges(from, days) \in Seq([start : Int, end : Int])
         /\ days <= Len(chunk_ranges(from, days)) * ChunkDays
         /\ \A i \in 1..Len(chunk_ranges(from, days)) :
                /\ (i - 1) * ChunkDays \in Nat
                /\ chunk_ranges(from, days)[i].end = from - (i - 1) * ChunkDays
                /\ chunk_ranges(from, days)[i].start
                       = from - Min({(i - 1) * ChunkDays + ChunkDays - 1, days - 1})
  <1> DEFINE n == (days + ChunkDays - 1) \div ChunkDays
             range(i) == [start |-> from - Min({(i - 1) * ChunkDays + ChunkDays - 1, days - 1}),
                          end |-> from - (i - 1) * ChunkDays]
             all == [i \in 1..n |-> range(i)]
  <1>1. ChunkDays \in Nat \ {0}
    BY TrackerServerAssumption
  <1>2. PICK x : x = days + ChunkDays - 1
    OBVIOUS
  <1>3. x \in Nat /\ n = x \div ChunkDays
    BY <1>1, <1>2
  <1>4. n \in Nat /\ x < (n + 1) * ChunkDays
    BY <1>1, <1>3, Quotient
  <1>5. days <= n * ChunkDays
    <2> HIDE DEF n
    <2>1. (n + 1) * ChunkDays = n * ChunkDays + ChunkDays /\ n * ChunkDays \in Nat
      BY <1>1, <1>4, ProductMono
    <2> QED BY <1>1, <1>2, <1>4, <2>1
  <1> HIDE DEF n
  <1>6. chunk_ranges(from, days) = all
    BY DEF chunk_ranges, n
  <1>7. \A i \in 1..n : /\ (i - 1) * ChunkDays \in Nat /\ range(i) \in [start : Int, end : Int]
                        /\ range(i).end = from - (i - 1) * ChunkDays
                        /\ range(i).start = from - Min({(i - 1) * ChunkDays + ChunkDays - 1, days - 1})
    <2> TAKE i \in 1..n
    <2>1. i - 1 \in Nat
      BY <1>4
    <2>2. PICK o : o = (i - 1) * ChunkDays
      OBVIOUS
    <2>3. o \in Nat
      BY <1>1, <2>1, <2>2, ProductMono
    <2>4. o + ChunkDays - 1 \in Nat /\ days - 1 \in Nat
      BY <1>1, <2>3
    <2>5. PICK low : low = Min({o + ChunkDays - 1, days - 1})
      OBVIOUS
    <2>6. low \in Nat
      BY <2>4, <2>5, MinOfTwo
    <2>7. range(i) = [start |-> from - low, end |-> from - o]
      BY <2>2, <2>5
    <2> HIDE DEF range
    <2>8. range(i).start = from - low /\ range(i).end = from - o
          /\ range(i) \in [start : Int, end : Int]
      BY <2>3, <2>6, <2>7
    <2> QED BY <2>2, <2>3, <2>5, <2>8
  <1> HIDE DEF range
  <1>8. all \in Seq([start : Int, end : Int]) /\ Len(all) = n /\ \A i \in 1..n : all[i] = range(i)
    <2>1. Len(all) = n /\ \A i \in 1..n : all[i] = range(i)
      BY <1>4
    <2>2. all \in [1..n -> [start : Int, end : Int]]
      BY <1>7
    <2> HIDE DEF all
    <2>3. all \in Seq([start : Int, end : Int])
      BY <1>4, <2>2, ListIsSeq
    <2> QED BY <2>1, <2>3
  <1> QED BY <1>5, <1>6, <1>7, <1>8

LEMMA ImportStays ==
  ASSUME ImportInv, UNCHANGED <<import, today, api>>, wakatime_days' \in [Date -> Nat \cup {None}]
  PROVE  ImportInv'
  BY DEF ImportInv, ImportTypes, Underway, ImportAt

LEMMA ImportStarts ==
  ASSUME ImportInv, NEW days \in 1..MaxDays, import_wakatime(days)
  PROVE  ImportInv'
  <1>1. /\ UNCHANGED <<wakatime_days, today, api>>
        /\ import' = [pc |-> "fetch", now |-> today, days |-> days, rows |-> {},
                      chunks |-> chunk_ranges(today, days), fetches |-> [d \in Date |-> 0]]
    BY DEF import_wakatime
  <1>2. MaxDays \in Nat \ {0} /\ today \in {Today, Today + 1} /\ Today \in Nat
    BY TrackerServerAssumption DEF ImportInv, ImportTypes, Today
  <1>3. PICK all : all = chunk_ranges(today, days)
    OBVIOUS
  <1>4. /\ import'.pc = "fetch" /\ import'.now = today /\ import'.days = days /\ import'.rows = {}
        /\ import'.chunks = all /\ import'.fetches = [d \in Date |-> 0]
        /\ DOMAIN import' = {"pc", "now", "days", "rows", "chunks", "fetches"}
    BY <1>1, <1>3
  <1>5. all \in Seq([start : Int, end : Int])
    <2>1. today \in Nat /\ days \in Nat \ {0}
      BY <1>2
    <2> QED BY <1>3, <2>1, Chunks
  <1>6. ImportAt(0)'
    <2>1. 0 + Len(all) = Len(all) /\ \A i \in 1..Len(all) : all[i] = all[0 + i]
      BY <1>5
    <2>2. \A d \in Date : ~(d <= today /\ d > today - 0 * ChunkDays)
      <3>1. 0 * ChunkDays = 0
        BY ProductMono, TrackerServerAssumption
      <3>2. \A d \in Date : d \in Nat
        BY <1>2 DEF Date
      <3> QED BY <1>2, <3>1, <3>2
    <2>3. \A d \in Date : import'.fetches[d] = 0
      BY <1>4
    <2>4. chunk_ranges(import'.now, import'.days) = all
      BY <1>3, <1>4
    <2> QED BY <1>4, <1>5, <2>1, <2>2, <2>3, <2>4 DEF ImportAt
  <1>7. ImportTypes'
    BY <1>1, <1>4 DEF ImportInv, ImportTypes
  <1>8. Underway'
    BY <1>1, <1>2, <1>4, <1>6 DEF Underway
  <1> QED BY <1>7, <1>8 DEF ImportInv

\* A chunk is asked for: the days that follow the ones asked for so far.
LEMMA ChunkFetched ==
  ASSUME ImportInv, FetchChunk, import.chunks # <<>>
  PROVE  ImportInv'
  <1> DEFINE C == ChunkDays
             all == chunk_ranges(import.now, import.days)
             left == import.chunks
             asked == Head(left).start .. Head(left).end
  <1>1. /\ import.pc = "fetch" /\ UNCHANGED <<wakatime_days, today, api>>
        /\ import' = [import EXCEPT
                         !.pc = "apply", !.chunks = Tail(@),
                         !.rows = {<<d, api[d]>> : d \in asked},
                         !.fetches = [d \in Date |-> IF d \in asked THEN @[d] + 1 ELSE @[d]]]
    BY DEF FetchChunk
  <1>2. DOMAIN import = {"pc", "now", "days", "rows", "chunks", "fetches"}
    BY DEF ImportInv, ImportTypes
  <1>3. /\ import'.pc = "apply" /\ import'.now = import.now /\ import'.days = import.days
        /\ import'.chunks = Tail(left) /\ import'.rows = {<<d, api[d]>> : d \in asked}
        /\ import'.fetches = [d \in Date |-> IF d \in asked THEN import.fetches[d] + 1
                                             ELSE import.fetches[d]]
        /\ DOMAIN import' = {"pc", "now", "days", "rows", "chunks", "fetches"}
    BY <1>1, <1>2
  <1>4. /\ import.now \in {Today, Today + 1} /\ import.days \in 1..MaxDays /\ C \in Nat \ {0}
        /\ Today = MaxDays /\ MaxDays \in Nat \ {0} /\ import.now \in Nat
        /\ import.days \in Nat \ {0}
    BY <1>1, TrackerServerAssumption DEF ImportInv, Underway, Today
  <1>5. PICK k \in Nat : ImportAt(k)
    BY <1>1 DEF ImportInv, Underway
  <1>6. /\ left \in Seq([start : Int, end : Int]) /\ k + Len(left) = Len(all)
        /\ \A i \in 1..Len(left) : left[i] = all[k + i]
        /\ \A d \in Date :
               import.fetches[d] = IF /\ d <= import.now /\ d > import.now - k * C
                                      /\ d > import.now - import.days
                                   THEN 1 ELSE 0
    BY <1>5 DEF ImportAt
  <1>7. all \in Seq([start : Int, end : Int])
    BY <1>4, Chunks
  <1>8. /\ Len(left) \in Nat \ {0} /\ Head(left) = left[1] /\ Len(Tail(left)) = Len(left) - 1
        /\ Tail(left) \in Seq([start : Int, end : Int])
        /\ \A i \in 1..Len(left) - 1 : Tail(left)[i] = left[i + 1]
    BY <1>6
  <1>9. Len(all) \in Nat /\ Head(left) = all[k + 1] /\ k + 1 \in 1..Len(all)
    BY <1>6, <1>7, <1>8
  <1>10. PICK o : o = k * C
    OBVIOUS
  <1>11. PICK low : low = Min({o + C - 1, import.days - 1})
    OBVIOUS
  <1>12. Head(left).start = import.now - low /\ Head(left).end = import.now - o /\ o \in Nat
    <2>1. (k + 1) - 1 = k
      OBVIOUS
    <2>2. /\ all[k + 1].end = import.now - ((k + 1) - 1) * C
          /\ all[k + 1].start = import.now - Min({((k + 1) - 1) * C + C - 1, import.days - 1})
          /\ ((k + 1) - 1) * C \in Nat
      BY <1>4, <1>9, Chunks
    <2> QED BY <1>9, <1>10, <1>11, <2>1, <2>2
  <1>13. (k + 1) * C = o + C
    BY <1>4, <1>10, ProductMono
  <1>14. low \in {o + C - 1, import.days - 1} /\ low <= o + C - 1 /\ low <= import.days - 1 /\ low \in Nat
    <2>1. o + C - 1 \in Nat /\ import.days - 1 \in Nat
      BY <1>4, <1>12
    <2> QED BY <1>11, <2>1, MinOfTwo
  <1>15. asked = {d \in Int : import.now - low <= d /\ d <= import.now - o}
    BY <1>4, <1>12, <1>14
  <1> HIDE DEF asked, all, left, C
  <1>16. asked \subseteq Date
    BY <1>4, <1>12, <1>14, <1>15 DEF Date
  <1>17. \A d \in Date :
            import'.fetches[d] = IF /\ d <= import.now /\ d > import.now - (k + 1) * C
                                    /\ d > import.now - import.days
                                 THEN 1 ELSE 0
    <2> TAKE d \in Date
    <2>1. d \in Int
      BY DEF Date
    <2>2. import.fetches[d] = IF /\ d <= import.now /\ d > import.now - o
                                 /\ d > import.now - import.days
                              THEN 1 ELSE 0
      BY <1>6, <1>10
    <2>3. import'.fetches[d] = IF d \in asked THEN import.fetches[d] + 1 ELSE import.fetches[d]
      BY <1>3
    <2>4. d \in asked <=> import.now - low <= d /\ d <= import.now - o
      BY <1>15, <2>1
    <2>5. import'.fetches[d] = IF /\ d <= import.now /\ d > import.now - (o + C)
                                  /\ d > import.now - import.days
                               THEN 1 ELSE 0
      <3>1. PICK x, n, f, g : /\ x = import.now /\ n = import.days
                              /\ f = import.fetches[d] /\ g = import'.fetches[d]
        OBVIOUS
      <3>2. x \in Int /\ n \in Int /\ o \in Nat /\ C \in Nat \ {0} /\ low \in Nat
        BY <1>4, <1>12, <1>14, <3>1
      <3>3. low \in {o + C - 1, n - 1} /\ low <= o + C - 1 /\ low <= n - 1
        BY <1>14, <3>1
      <3>4. CASE x - low <= d /\ d <= x - o
        <4>1. f = 0 /\ g = f + 1
          BY <2>1, <2>2, <2>3, <2>4, <3>1, <3>2, <3>4
        <4>2. d <= x /\ d > x - (o + C) /\ d > x - n
          BY <2>1, <3>2, <3>3, <3>4
        <4> QED BY <3>1, <4>1, <4>2
      <3>5. CASE ~(x - low <= d /\ d <= x - o)
        <4>1. g = f /\ f = IF d <= x /\ d > x - o /\ d > x - n THEN 1 ELSE 0
          BY <2>2, <2>3, <2>4, <3>1, <3>5
        <4>2. (d <= x /\ d > x - o /\ d > x - n) <=> (d <= x /\ d > x - (o + C) /\ d > x - n)
          BY <2>1, <3>2, <3>3, <3>5
        <4> QED BY <3>1, <4>1, <4>2
      <3> QED BY <3>4, <3>5
    <2> QED BY <1>13, <2>5
  <1>18. ImportAt(k + 1)'
    <2>1. (k + 1) + Len(Tail(left)) = Len(all)
      BY <1>6, <1>8
    <2>2. \A i \in 1..Len(Tail(left)) : Tail(left)[i] = all[(k + 1) + i]
      <3> TAKE i \in 1..Len(Tail(left))
      <3>1. i \in 1..Len(left) - 1 /\ i + 1 \in 1..Len(left) /\ k + (i + 1) = (k + 1) + i
        BY <1>8
      <3> QED BY <1>6, <1>8, <3>1
    <2>3. chunk_ranges(import'.now, import'.days) = all
      BY <1>3 DEF all
    <2> QED BY <1>3, <1>8, <1>17, <2>1, <2>2, <2>3 DEF ImportAt, C
  <1>19. ImportTypes'
    <2>1. import'.rows \subseteq Date \X Nat
      BY <1>3, <1>16 DEF ImportInv, ImportTypes
    <2>2. import'.fetches \in [Date -> Nat]
      BY <1>3 DEF ImportInv, ImportTypes
    <2> QED BY <1>1, <1>3, <2>1, <2>2 DEF ImportInv, ImportTypes
  <1>20. Underway'
    <2>1. k + 1 \in Nat
      OBVIOUS
    <2> QED BY <1>3, <1>4, <1>18, <2>1 DEF Underway
  <1> QED BY <1>19, <1>20 DEF ImportInv

\* The import goes on, ends or breaks off with the days asked for.
LEMMA ImportMoves ==
  ASSUME ImportInv, NEW pc \in {"fetch", "apply", "done", "stopped", "failed"},
         import.pc \in {"fetch", "apply"}, UNCHANGED <<today, api>>,
         \/ import' = [import EXCEPT !.pc = pc]
         \/ /\ pc = import.pc
            /\ \E rows \in SUBSET import.rows : import' = [import EXCEPT !.rows = rows],
         pc = "done" => import.chunks = <<>>,
         wakatime_days' \in [Date -> Nat \cup {None}]
  PROVE  ImportInv'
  <1>1. DOMAIN import = {"pc", "now", "days", "rows", "chunks", "fetches"}
    BY DEF ImportInv, ImportTypes
  <1>2. /\ import'.pc = pc /\ import'.now = import.now /\ import'.days = import.days
        /\ import'.chunks = import.chunks /\ import'.rows \subseteq import.rows
        /\ import'.fetches = import.fetches
        /\ DOMAIN import' = {"pc", "now", "days", "rows", "chunks", "fetches"}
    <2>1. CASE import' = [import EXCEPT !.pc = pc]
      BY <1>1, <2>1
    <2>2. ASSUME NEW rows \in SUBSET import.rows, import' = [import EXCEPT !.rows = rows],
                 pc = import.pc
          PROVE  /\ import'.pc = pc /\ import'.now = import.now /\ import'.days = import.days
                 /\ import'.chunks = import.chunks /\ import'.rows \subseteq import.rows
                 /\ import'.fetches = import.fetches
                 /\ DOMAIN import' = {"pc", "now", "days", "rows", "chunks", "fetches"}
      BY <1>1, <2>2
    <2> QED BY <2>1, <2>2
  <1>3. PICK k \in Nat : ImportAt(k)
    BY DEF ImportInv, Underway
  <1>4. ImportAt(k)'
    BY <1>2, <1>3 DEF ImportAt
  <1>5. ImportTypes'
    BY <1>2 DEF ImportInv, ImportTypes
  <1>6. Underway'
    BY <1>2, <1>4 DEF ImportInv, Underway
  <1> QED BY <1>5, <1>6 DEF ImportInv

LEMMA FetchKeepsImport ==
  ASSUME ImportInv, FetchChunk \/ FetchRefused \/ ImportFails
  PROVE  ImportInv'
  <1>1. wakatime_days' \in [Date -> Nat \cup {None}] /\ UNCHANGED <<today, api>>
    BY DEF ImportInv, ImportTypes, FetchChunk, FetchRefused, ImportFails
  <1>2. CASE FetchChunk /\ import.chunks # <<>>
    BY <1>2, ChunkFetched
  <1>3. CASE FetchChunk /\ import.chunks = <<>>
    <2>1. import.pc = "fetch" /\ import' = [import EXCEPT !.pc = "done"]
      BY <1>3 DEF FetchChunk
    <2> QED BY <1>1, <1>3, <2>1, ImportMoves
  <1>4. CASE FetchRefused
    <2>1. import.pc = "fetch" /\ import' = [import EXCEPT !.pc = "stopped"]
      BY <1>4 DEF FetchRefused
    <2> QED BY <1>1, <2>1, ImportMoves
  <1>5. CASE ImportFails
    <2>1. import.pc \in {"fetch", "apply"} /\ import' = [import EXCEPT !.pc = "failed"]
      BY <1>5 DEF ImportFails
    <2> QED BY <1>1, <2>1, ImportMoves
  <1> QED BY <1>2, <1>3, <1>4, <1>5

LEMMA ApplyKeepsImport ==
  ASSUME ImportInv, apply_summaries
  PROVE  ImportInv'
  <1>1. /\ import.pc = "apply" /\ UNCHANGED <<today, api>>
        /\ wakatime_days \in [Date -> Nat \cup {None}] /\ import.rows \subseteq Date \X Nat
    BY DEF apply_summaries, ImportInv, ImportTypes
  <1>2. CASE import.rows = {}
    <2>1. import' = [import EXCEPT !.pc = "fetch"] /\ UNCHANGED wakatime_days
      BY <1>2 DEF apply_summaries
    <2> QED BY <1>1, <2>1, ImportMoves
  <1>3. CASE import.rows # {}
    <2>1. PICK row \in import.rows :
             /\ import' = [import EXCEPT !.rows = @ \ {row}]
             /\ wakatime_days' = [wakatime_days EXCEPT ![row[1]] = row[2]]
      BY <1>3 DEF apply_summaries
    <2>2. row[1] \in Date /\ row[2] \in Nat
      BY <1>1
    <2>3. wakatime_days' \in [Date -> Nat \cup {None}]
      BY <1>1, <2>1, <2>2
    <2>4. PICK rows : rows = import.rows \ {row}
      OBVIOUS
    <2>5. rows \in SUBSET import.rows /\ import' = [import EXCEPT !.rows = rows]
      BY <2>1, <2>4
    <2> QED BY <1>1, <2>3, <2>5, ImportMoves
  <1> QED BY <1>2, <1>3

LEMMA MidnightKeepsImport ==
  ASSUME ImportInv, Midnight
  PROVE  ImportInv'
  <1>1. /\ UNCHANGED <<import, wakatime_days>> /\ today = Today /\ today' = today + 1
        /\ api' = [api EXCEPT ![today] = 2, ![today + 1] = 1]
    BY DEF Midnight
  <1>2. api' \in [Date -> Nat]
    BY <1>1 DEF ImportInv, ImportTypes
  <1>3. ImportTypes'
    BY <1>1, <1>2 DEF ImportInv, ImportTypes
  <1>4. Underway'
    BY <1>1 DEF ImportInv, Underway, ImportAt
  <1> QED BY <1>3, <1>4 DEF ImportInv

LEMMA PruneKeepsImport ==
  ASSUME ImportInv, NEW before, prune(before)
  PROVE  ImportInv'
  <1> DEFINE dates == {d \in Date : wakatime_days[d] # None /\ d < day_string(before, 0)}
  <1>1. /\ UNCHANGED <<import, today, api>>
        /\ wakatime_days' = [d \in Date |-> IF d \in dates THEN None ELSE wakatime_days[d]]
    BY DEF prune
  <1>2. wakatime_days' \in [Date -> Nat \cup {None}]
    <2>1. wakatime_days \in [Date -> Nat \cup {None}]
      BY DEF ImportInv, ImportTypes
    <2> HIDE DEF dates
    <2> QED BY <1>1, <2>1
  <1> QED BY <1>1, <1>2, ImportStays

-----------------------------------------------------------------------------
(* The invariant.                                                          *)

LEMMA ServerInvInit ==
  ASSUME Init
  PROVE  ServerInv
  <1>1. RequestsInv
    <2>1. IsFiniteSet({}) /\ Cardinality({}) = 0
      BY FS_EmptySet
    <2>2. reports \in [Machine -> [sent : 0..requests, applied : Nat]]
          /\ \A m \in Machine : reports[m].applied <= reports[m].sent
      BY DEF Init
    <2>3. requests = 0 /\ ops = 0 /\ inflight = {} /\ cfg \in Configs
      BY DEF Init
    <2> QED BY <2>1, <2>2, <2>3, TrackerServerAssumption DEF RequestsInv, Counts
  <1>2. RowsInv
    <2>1. heartbeats = {} /\ answered = {}
      BY DEF Init
    <2>2. 0 \in Nat
      OBVIOUS
    <2> QED BY <2>1, <2>2 DEF RowsInv, StoredIsAnswered, Stored
  <1>3. StatusInv
    <2>1. \A m \in Machine : agent_status[m] = None /\ reports[m].applied = 0
      BY DEF Init
    <2>2. DOMAIN agent_status = Machine /\ overlapped = {} /\ inflight = {}
      BY DEF Init
    <2> QED BY <2>1, <2>2 DEF StatusInv
  <1>4. ImportInv
    <2>1. /\ import.pc = "idle" /\ import.rows = {} /\ import.fetches = [d \in Date |-> 0]
          /\ DOMAIN import = {"pc", "now", "days", "rows", "chunks", "fetches"}
      BY DEF Init
    <2>2. /\ today = Today /\ api \in [Date -> Nat] /\ wakatime_days \in [Date -> Nat \cup {None}]
      BY DEF Init
    <2> QED BY <2>1, <2>2 DEF ImportInv, ImportTypes, Underway
  <1>5. ExportInv
    <2>1. /\ export.pc = "idle" /\ export.to = 0
          /\ DOMAIN export = {"pc", "to", "rows", "days"}
      BY DEF Init
    <2>2. lost = {}
      BY DEF Init
    <2> QED BY <2>1, <2>2 DEF ExportInv, PrunedWasExported
  <1> QED BY <1>1, <1>2, <1>3, <1>4, <1>5 DEF ServerInv

LEMMA IngestKeeps ==
  ASSUME ServerInv, Ingest
  PROVE  ServerInv'
  <1>1. PICK c \in Credential : \/ (\E rows \in Batches : ingest_handler(c, rows))
                                \/ (\E h \in Items, m \in Machine : wakatime_handler(c, h, m))
    BY DEF Ingest
  <1>2. RequestsInv'
    BY <1>1, IngestAdmits, ItemAdmitted DEF ServerInv
  <1>3. PICK by, rows : /\ Admit([kind |-> "rows", by |-> by, rows |-> rows])
                        /\ UNCHANGED <<reports, overlapped>>
    BY <1>1 DEF ingest_handler, wakatime_handler
  <1>4. PICK r : r = [kind |-> "rows", by |-> by, rows |-> rows]
    OBVIOUS
  <1>5. r.kind = "rows" /\ Admit(r)
    BY <1>3, <1>4
  <1>6. /\ inflight' = inflight \cup {r} /\ UNCHANGED tableVars
        /\ UNCHANGED <<cfg, today, api, import, export, answered, late, lost>>
    BY <1>5 DEF Admit
  <1>7. UNCHANGED <<heartbeats, agent_status, wakatime_days>>
    BY <1>6 DEF tableVars
  <1>8. StatusInv'
    BY <1>3, <1>5, <1>6, <1>7, StatusStays DEF ServerInv
  <1>9. RowsInv' /\ ExportInv'
    BY <1>6, <1>7, RowsStay, ExportStays DEF ServerInv
  <1>10. wakatime_days' \in [Date -> Nat \cup {None}]
    BY <1>7 DEF ServerInv, ImportInv, ImportTypes
  <1>11. ImportInv'
    BY <1>6, <1>10, ImportStays DEF ServerInv
  <1> QED BY <1>2, <1>8, <1>9, <1>11 DEF ServerInv

LEMMA ReportKeeps ==
  ASSUME ServerInv, Report
  PROVE  ServerInv'
  <1>1. PICK c \in Credential, m \in Machine : agent_status_handler(c, m)
    BY DEF Report
  <1>2. RequestsInv' /\ StatusInv'
    BY <1>1, ReportAdmitted, ReportKeepsStatus DEF ServerInv
  <1>3. /\ UNCHANGED tableVars
        /\ UNCHANGED <<cfg, today, api, import, export, answered, late, lost>>
    BY <1>1 DEF agent_status_handler, Admit
  <1>4. UNCHANGED <<heartbeats, wakatime_days>>
    BY <1>3 DEF tableVars
  <1>5. RowsInv' /\ ExportInv'
    BY <1>3, <1>4, RowsStay, ExportStays DEF ServerInv
  <1>6. wakatime_days' \in [Date -> Nat \cup {None}]
    BY <1>4 DEF ServerInv, ImportInv, ImportTypes
  <1>7. ImportInv'
    BY <1>3, <1>6, ImportStays DEF ServerInv
  <1> QED BY <1>2, <1>5, <1>7 DEF ServerInv

LEMMA TurnKeeps ==
  ASSUME ServerInv, Turn
  PROVE  ServerInv'
  <1>1. PICK r \in inflight : InsertBatch(r) \/ StoreStatus(r) \/ Rollback(r)
    BY DEF Turn
  <1>2. /\ UNCHANGED <<cfg, wakatime_days, today, api, import, export, lost>>
        /\ inflight' \subseteq inflight
    BY <1>1 DEF InsertBatch, StoreStatus, Rollback, tableVars
  <1>3. ImportInv'
    <2>1. wakatime_days' \in [Date -> Nat \cup {None}]
      BY <1>2 DEF ServerInv, ImportInv, ImportTypes
    <2> QED BY <1>2, <2>1, ImportStays DEF ServerInv
  <1>4. CASE InsertBatch(r)
    <2>1. RequestsInv' /\ RowsInv' /\ ExportInv'
      BY <1>4, RequestLeaves, BatchKeepsRows, BatchKeepsExport DEF ServerInv
    <2>2. UNCHANGED <<agent_status, reports, overlapped>>
      BY <1>4 DEF InsertBatch
    <2>3. StatusInv'
      BY <1>2, <2>2, StatusStays DEF ServerInv
    <2> QED BY <1>3, <2>1, <2>3 DEF ServerInv
  <1>5. CASE StoreStatus(r)
    <2>1. RequestsInv' /\ StatusInv'
      BY <1>5, ReportStored, StoreKeepsStatus DEF ServerInv
    <2>2. UNCHANGED <<heartbeats, answered, late>>
      BY <1>5 DEF StoreStatus
    <2>3. RowsInv' /\ ExportInv'
      BY <1>2, <2>2, RowsStay, ExportStays DEF ServerInv
    <2> QED BY <1>3, <2>1, <2>3 DEF ServerInv
  <1>6. CASE Rollback(r)
    <2>1. RequestsInv'
      BY <1>6, RequestLeaves DEF ServerInv
    <2>2. UNCHANGED <<heartbeats, agent_status, answered, late, reports, overlapped>>
      BY <1>6 DEF Rollback, tableVars
    <2>3. RowsInv' /\ ExportInv' /\ StatusInv'
      BY <1>2, <2>2, RowsStay, ExportStays, StatusStays DEF ServerInv
    <2> QED BY <1>3, <2>1, <2>3 DEF ServerInv
  <1> QED BY <1>1, <1>4, <1>5, <1>6

\* The operator's commands write neither requests nor reports.
LEMMA CommandKeeps ==
  ASSUME ServerInv, UNCHANGED <<cfg, inflight, requests, reports, agent_status, overlapped>>,
         ops' = ops \/ (ops < MaxOps /\ ops' = ops + 1), RowsInv', ImportInv', ExportInv'
  PROVE  ServerInv'
  <1>1. RequestsInv'
    BY RequestsStay DEF ServerInv
  <1>2. StatusInv'
    BY StatusStays DEF ServerInv
  <1> QED BY <1>1, <1>2 DEF ServerInv

LEMMA OperateKeeps ==
  ASSUME ServerInv, Operate
  PROVE  ServerInv'
  <1>1. Cutoffs \subseteq Nat
    BY TrackerServerAssumption
  <1>2. ASSUME NEW t \in Cutoffs, ExportRows(t) PROVE ServerInv'
    <2>1. /\ UNCHANGED <<cfg, inflight, requests, reports, agent_status, overlapped>>
          /\ UNCHANGED <<heartbeats, answered, wakatime_days, today, api, import>>
          /\ ops < MaxOps /\ ops' = ops + 1
      BY <1>2 DEF ExportRows, OpVars
    <2>2. wakatime_days' \in [Date -> Nat \cup {None}]
      BY <2>1 DEF ServerInv, ImportInv, ImportTypes
    <2>3. RowsInv' /\ ImportInv'
      BY <2>1, <2>2, RowsStay, ImportStays DEF ServerInv
    <2>4. ExportInv'
      BY <1>1, <1>2, ReadKeepsExport DEF ServerInv
    <2> QED BY <2>1, <2>3, <2>4, CommandKeeps
  <1>3. ASSUME NEW t \in Cutoffs, prune(t) PROVE ServerInv'
    <2>1. /\ UNCHANGED <<cfg, inflight, requests, reports, agent_status, overlapped>>
          /\ ops < MaxOps /\ ops' = ops + 1
      BY <1>3 DEF prune
    <2>2. RowsInv' /\ ImportInv'
      BY <1>3, PruneKeepsRows, PruneKeepsImport DEF ServerInv
    <2>3. ExportInv'
      BY <1>1, <1>3, PruneKeepsExport DEF ServerInv
    <2> QED BY <2>1, <2>2, <2>3, CommandKeeps
  <1>4. CASE ExportDays
    <2>1. /\ UNCHANGED <<cfg, inflight, requests, reports, agent_status, overlapped>>
          /\ UNCHANGED <<heartbeats, answered, wakatime_days, today, api, import, ops>>
      BY <1>4 DEF ExportDays, OpVars
    <2>2. wakatime_days' \in [Date -> Nat \cup {None}]
      BY <2>1 DEF ServerInv, ImportInv, ImportTypes
    <2>3. RowsInv' /\ ImportInv' /\ ExportInv'
      BY <1>4, <2>1, <2>2, RowsStay, ImportStays, DaysKeepExport DEF ServerInv
    <2> QED BY <2>1, <2>3, CommandKeeps
  <1> QED BY <1>2, <1>3, <1>4 DEF Operate

LEMMA ImportKeeps ==
  ASSUME ServerInv,
         Import \/ FetchChunk \/ FetchRefused \/ ImportFails \/ apply_summaries \/ Midnight
  PROVE  ServerInv'
  <1>1. CASE Import
    <2>1. PICK days \in 1..MaxDays : import_wakatime(days)
      BY <1>1 DEF Import
    <2>2. /\ UNCHANGED <<cfg, inflight, requests, reports, agent_status, overlapped>>
          /\ UNCHANGED <<heartbeats, answered, wakatime_days, export, late, lost>>
          /\ ops < MaxOps /\ ops' = ops + 1
      BY <2>1 DEF import_wakatime, OpVars
    <2>3. RowsInv' /\ ExportInv' /\ ImportInv'
      BY <2>1, <2>2, RowsStay, ExportStays, ImportStarts DEF ServerInv
    <2> QED BY <2>2, <2>3, CommandKeeps
  <1>2. CASE FetchChunk \/ FetchRefused \/ ImportFails
    <2>1. /\ UNCHANGED <<cfg, inflight, requests, reports, agent_status, overlapped>>
          /\ UNCHANGED <<heartbeats, answered, wakatime_days, export, late, lost, ops>>
      BY <1>2 DEF FetchChunk, FetchRefused, ImportFails, OpVars
    <2>2. RowsInv' /\ ExportInv' /\ ImportInv'
      BY <1>2, <2>1, RowsStay, ExportStays, FetchKeepsImport DEF ServerInv
    <2> QED BY <2>1, <2>2, CommandKeeps
  <1>3. CASE apply_summaries
    <2>1. /\ UNCHANGED <<cfg, inflight, requests, reports, agent_status, overlapped>>
          /\ UNCHANGED <<heartbeats, answered, ops>>
      BY <1>3 DEF apply_summaries, OpVars
    <2>2. RowsInv' /\ ExportInv' /\ ImportInv'
      BY <1>3, <2>1, RowsStay, ApplyKeepsExport, ApplyKeepsImport DEF ServerInv
    <2> QED BY <2>1, <2>2, CommandKeeps
  <1>4. CASE Midnight
    <2>1. /\ UNCHANGED <<cfg, inflight, requests, reports, agent_status, overlapped>>
          /\ UNCHANGED <<heartbeats, answered, wakatime_days, export, late, lost, ops>>
      BY <1>4 DEF Midnight, OpVars
    <2>2. RowsInv' /\ ExportInv' /\ ImportInv'
      BY <1>4, <2>1, RowsStay, ExportStays, MidnightKeepsImport DEF ServerInv
    <2> QED BY <2>1, <2>2, CommandKeeps
  <1> QED BY <1>1, <1>2, <1>3, <1>4

\* Every step of the server, of the import and of the operator keeps the invariant.
LEMMA ServerInvNext ==
  ASSUME ServerInv, [Next]_vars
  PROVE  ServerInv'
  <1>1. CASE Next
    BY <1>1, IngestKeeps, ReportKeeps, TurnKeeps, OperateKeeps, ImportKeeps DEF Next
  <1>2. CASE UNCHANGED vars
    <2>1. /\ UNCHANGED <<cfg, inflight, requests, reports, agent_status, overlapped, ops>>
          /\ UNCHANGED <<heartbeats, answered, wakatime_days, today, api, import, export, late, lost>>
      BY <1>2 DEF vars, tableVars
    <2>2. wakatime_days' \in [Date -> Nat \cup {None}]
      BY <2>1 DEF ServerInv, ImportInv, ImportTypes
    <2>3. RowsInv' /\ ExportInv' /\ ImportInv'
      BY <2>1, <2>2, RowsStay, ExportStays, ImportStays DEF ServerInv
    <2> QED BY <2>1, <2>3, CommandKeeps
  <1> QED BY <1>1, <1>2

\* The invariant of the ingest server and its database: checked requests, rows with
\* an id and a key each, an import that has asked for the last days of its range, and
\* an export that lacks only what came late.
THEOREM ServerInvariant == Spec => []ServerInv
  <1>1. Init => ServerInv
    BY ServerInvInit
  <1>2. ServerInv /\ [Next]_vars => ServerInv'
    BY ServerInvNext
  <1> QED BY <1>1, <1>2, PTL DEF Spec

\* An import that has no chunk left has asked for each of its days once.
LEMMA ImportIsWhole ==
  ASSUME ImportInv
  PROVE  ImportCoversEachDayOnce
  <1> SUFFICES ASSUME import.pc = "done", NEW d \in Date
               PROVE  import.fetches[d] = IF d \in import.now - import.days + 1 .. import.now
                                          THEN 1 ELSE 0
    BY DEF ImportCoversEachDayOnce
  <1>1. PICK k \in Nat : ImportAt(k)
    BY DEF ImportInv, Underway
  <1>2. import.now \in Nat /\ import.days \in Nat \ {0} /\ import.chunks = <<>>
    BY TrackerServerAssumption DEF ImportInv, Underway, Today
  <1>3. k = Len(chunk_ranges(import.now, import.days))
    <2>1. chunk_ranges(import.now, import.days) \in Seq([start : Int, end : Int])
      BY <1>2, Chunks
    <2>2. k + Len(import.chunks) = Len(chunk_ranges(import.now, import.days))
      BY <1>1 DEF ImportAt
    <2> QED BY <1>2, <2>1, <2>2
  <1>4. PICK o : o = k * ChunkDays
    OBVIOUS
  <1>5. o \in Nat /\ import.days <= o
    BY <1>2, <1>3, <1>4, Chunks, ProductMono, TrackerServerAssumption
  <1>6. import.fetches[d] = IF /\ d <= import.now /\ d > import.now - o
                               /\ d > import.now - import.days
                            THEN 1 ELSE 0
    BY <1>1, <1>4 DEF ImportAt
  <1>7. d \in Int
    BY DEF Date
  <1>8. (d <= import.now /\ d > import.now - o /\ d > import.now - import.days)
           <=> d \in import.now - import.days + 1 .. import.now
    BY <1>2, <1>5, <1>7
  <1> QED BY <1>6, <1>8

\* With any requests, imports, exports and prunes in flight at once, the database
\* holds what the server answered for, written by whom it belongs to, each imported
\* day once, and nothing is pruned that the export before it did not write.
THEOREM StoreStaysFaithful == Spec => []StoreIsFaithful
  <1>1. ServerInv => StoreIsFaithful
    <2> SUFFICES ASSUME ServerInv PROVE StoreIsFaithful
      OBVIOUS
    <2>1. TypeOK
      <3>1. \A r \in heartbeats : r.time \in Int /\ r.id \in Nat \ {0}
        BY DEF ServerInv, RowsInv
      <3>2. \A r, q \in heartbeats : r.id = q.id \/ Key(r) = Key(q) => r = q
        BY DEF ServerInv, RowsInv
      <3>3. \A m \in Machine : agent_status[m] # None => agent_status[m].reported \in 1..MaxRequests
        BY DEF ServerInv, StatusInv
      <3>4. /\ \A d \in Date : wakatime_days[d] \in Nat \cup {None}
            /\ import.pc \in {"idle", "fetch", "apply", "done", "stopped", "failed"}
        BY DEF ServerInv, ImportInv, ImportTypes
      <3>5. export.pc \in {"idle", "days", "done"}
        BY DEF ServerInv, ExportInv
      <3>6. cfg \in Configs /\ Cardinality(inflight) <= requests /\ requests <= MaxRequests
            /\ ops <= MaxOps
        BY DEF ServerInv, RequestsInv, Counts
      <3> QED BY <3>1, <3>2, <3>3, <3>4, <3>5, <3>6 DEF TypeOK
    <2>2. OwnRowsOnly
      BY DEF ServerInv, RowsInv, StatusInv, OwnRowsOnly
    <2>3. StoredIsAnswered
      BY DEF ServerInv, RowsInv
    <2>4. StatusIsLatest
      BY DEF ServerInv, StatusInv, StatusIsLatest
    <2>5. ImportCoversEachDayOnce
      BY ImportIsWhole DEF ServerInv
    <2>6. PrunedWasExported
      BY DEF ServerInv, ExportInv
    <2> QED BY <2>1, <2>2, <2>3, <2>4, <2>5, <2>6 DEF StoreIsFaithful
  <1> QED BY <1>1, ServerInvariant, PTL
=============================================================================
