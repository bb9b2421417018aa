---------------------------- MODULE AgentProofs ----------------------------
(***************************************************************************)
(* What the agent does with the activity of its machine. First the         *)
(* watchers, for transcripts, chunks and clocks of any size and any number *)
(* of failures: every record that was new to the watcher is reported, once,*)
(* however its writer and the ticks interleave; and a change made while a  *)
(* watcher looks is reported by it or by the next one. Then the tick that  *)
(* gives their rows to the server, for every number of rows, size of a     *)
(* batch and number of crashes: nothing behind the saved offset is lost, a *)
(* lost append aside, none is stored twice, and a row leaves the queue     *)
(* only when the server has it. Last the lock that makes the agent the     *)
(* only writer of those files, for any number of processes and kills.      *)
(***************************************************************************)
EXTENDS Watchers, AgentTick, AgentLock, FiniteSetTheorems, WellFoundedInduction, TLAPS

-----------------------------------------------------------------------------
(* The inductive invariant of the transcript.                              *)

Line == ClaudeLine \cup CodexLine \cup {Head1}
Cell == [n : Serial, half : 1..2]

\* Each tick belongs to the watcher that is switched on.
TickOf ==
    /\ tick.at \in {"head", "again", "read"} => watch \in {"claude", "codex"}
    /\ tick.at \in {"snapshot", "diff"} => watch = "zed"
    /\ tick.at = "walk" => watch = "files"

\* What the proofs need of the types: the memory of usage is not among it.
Types ==
    /\ cells \in Seq(Cell) /\ lines \in Seq(Line) /\ Len(lines) <= MaxLines
    /\ reported \in [Serial -> Nat]
    /\ DOMAIN state = {"off", "usage", "cwd", "last", "sig", "threads", "init"}
    /\ DOMAIN tick = {"at", "size", "cwd", "found", "sig", "copy", "since", "now", "left"}
    /\ state.off \in {None} \cup Nat /\ tick.size \in Nat
    /\ faults \in Nat

\* A line is two cells, one after the other, and later lines have larger numbers.
Alternate ==
    /\ \A i \in DOMAIN cells :
           /\ cells[i].n <= Len(lines)
           /\ cells[i].half = 2 => /\ i - 1 \in DOMAIN cells
                                   /\ cells[i - 1].half = 1 /\ cells[i - 1].n = cells[i].n
           /\ cells[i].half = 1 => i = Len(cells) \/ cells[i + 1].half = 2
    /\ \A i, j \in DOMAIN cells : i < j =>
           \/ cells[i].n < cells[j].n
           \/ j = i + 1 /\ cells[i].half = 1 /\ cells[j].half = 2

\* Nothing is known of lines that are not written, and no half of a line is
\* reported.
Unwritten ==
    /\ \A i \in DOMAIN cells : cells[i].half = 1 /\ i = Len(cells) => reported[cells[i].n] = 0
    /\ \A n \in Serial : n > Len(lines) => reported[n] = 0
    /\ first \subseteq 1..Len(lines)

\* The cells behind position k are new to the watcher: none of their lines was
\* reported, and none that begins there was there at first sight.
Ahead(k) ==
    \A i \in DOMAIN cells : i > k =>
        reported[cells[i].n] = 0 /\ (cells[i].half = 1 => cells[i].n \notin first)

\* The offset divides what is new from what was read or excused; so will the size
\* that a tick has seen, should it become the offset.
Divides ==
    /\ state.off # None =>
           /\ Ahead(state.off)
           /\ \A i \in DOMAIN cells : i <= state.off =>
                  reported[cells[i].n] > 0 \/ cells[i].n \in excused
    /\ tick.at = "read" => Ahead(tick.size)

TailInv == Types /\ TickOf /\ Alternate /\ Unwritten /\ Divides /\ ReportedOnce /\ FirstSightSilent

-----------------------------------------------------------------------------
(* Steps that leave the transcript and the rows alone.                     *)

LEMMA QuietKeeps ==
  ASSUME TailInv, Types', TickOf',
         UNCHANGED <<cells, lines, reported, first, excused>>,
         state'.off \in {state.off, None},
         tick'.at = "read" => \/ tick.at = "read" /\ tick'.size = tick.size
                              \/ tick'.size = Len(cells)
  PROVE  TailInv'
  <1>1. Ahead(Len(cells))
    BY DEF Ahead, TailInv, Types, Cell
  <1>2. Divides'
    BY <1>1 DEF TailInv, Divides, Ahead
  <1>3. Alternate' /\ Unwritten' /\ ReportedOnce' /\ FirstSightSilent'
    BY DEF TailInv, Alternate, Unwritten, ReportedOnce, FirstSightSilent
  <1> QED BY <1>2, <1>3 DEF TailInv

\* The watchers of other things, and the programs they watch.
LEMMA ElsewhereKeeps ==
  ASSUME TailInv,
         \/ Create \/ ZedCommit \/ Type \/ Wait \/ ClockBack \/ (\E f \in File : Save(f))
         \/ db_signature \/ snapshot_db \/ read_threads
         \/ BeginScan \/ EndScan \/ (\E f \in File : ScanFile(f))
         \/ watch_ssh \/ watch_mac
  PROVE  TailInv'
  <1>1. UNCHANGED <<watch, cells, lines, reported, first, excused>>
    BY DEF Create, ZedCommit, Type, Wait, ClockBack, Save, db_signature, snapshot_db,
           read_threads, BeginScan, EndScan, ScanFile, watch_ssh, watch_mac, transcriptVars,
           rowVars, ghostVars
  <1>2. /\ state'.off = state.off /\ DOMAIN state' = DOMAIN state
        /\ faults' \in Nat
        /\ DOMAIN tick' = DOMAIN tick /\ tick'.size \in Nat
        /\ tick'.at = "read" => tick.at = "read" /\ tick'.size = tick.size
        /\ TickOf'
    <2>1. CASE Create
      BY <1>1, <2>1 DEF Create, TailInv, Types, TickOf
    <2>2. CASE ZedCommit
      BY <1>1, <2>2 DEF ZedCommit, TailInv, Types, TickOf
    <2>3. CASE Type
      BY <1>1, <2>3 DEF Type, TailInv, Types, TickOf
    <2>4. CASE Wait
      BY <1>1, <2>4 DEF Wait, TailInv, Types, TickOf
    <2>5. CASE ClockBack
      BY <1>1, <2>5 DEF ClockBack, Fault, TailInv, Types, TickOf
    <2>6. CASE \E f \in File : Save(f)
      BY <1>1, <2>6 DEF Save, TailInv, Types, TickOf
    <2>7. CASE db_signature
      BY <1>1, <2>7 DEF db_signature, Quiet, TailInv, Types, TickOf
    <2>8. CASE snapshot_db
      BY <1>1, <2>8 DEF snapshot_db, TailInv, Types, TickOf
    <2>9. CASE read_threads
      BY <1>1, <2>9 DEF read_threads, record_signature, Quiet, TailInv, Types, TickOf
    <2>10. CASE BeginScan
      BY <1>1, <2>10 DEF BeginScan, Quiet, TailInv, Types, TickOf
    <2>11. CASE EndScan
      BY <1>1, <2>11 DEF EndScan, Quiet, TailInv, Types, TickOf
    <2>12. CASE \E f \in File : ScanFile(f)
      BY <1>1, <2>12 DEF ScanFile, TailInv, Types, TickOf
    <2>13. CASE watch_ssh
      BY <1>1, <2>13 DEF watch_ssh, TailInv, Types, TickOf
    <2>14. CASE watch_mac
      BY <1>1, <2>14 DEF watch_mac, Fault, TailInv, Types, TickOf
    <2> QED BY <2>1, <2>2, <2>3, <2>4, <2>5, <2>6, <2>7, <2>8, <2>9, <2>10, <2>11,
               <2>12, <2>13, <2>14
  <1>4. Types'
    BY <1>1, <1>2 DEF TailInv, Types
  <1> QED BY <1>1, <1>2, <1>4, QuietKeeps

\* The steps of a tick before it reads, and the ways in which it ends early.
LEMMA UnreadKeeps ==
  ASSUME TailInv,
         \/ load_state \/ Abandon
         \/ BeginTranscript \/ NothingNew \/ ReadHead \/ StatAgain \/ FileGone
  PROVE  TailInv'
  <1>1. UNCHANGED <<watch, cells, lines, reported, first, excused>>
    BY DEF load_state, Abandon, BeginTranscript, NothingNew, ReadHead, StatAgain, FileGone,
           transcriptVars, rowVars, ghostVars
  <1>2. /\ state'.off \in {state.off, None} /\ DOMAIN state' = DOMAIN state
        /\ faults' \in Nat
        /\ DOMAIN tick' = DOMAIN tick /\ tick'.size \in Nat
        /\ tick'.at = "read" => \/ tick.at = "read" /\ tick'.size = tick.size
                                \/ tick'.size = Len(cells)
        /\ TickOf'
    <2>1. CASE load_state
      BY <1>1, <2>1 DEF load_state, Fault, NoState, TailInv, Types, TickOf
    <2>2. CASE Abandon
      BY <1>1, <2>2 DEF Abandon, Fault, Quiet, TailInv, Types, TickOf
    <2>3. CASE BeginTranscript
      BY <1>1, <2>3 DEF BeginTranscript, Quiet, TailInv, Types, TickOf
    <2>4. CASE NothingNew
      BY <1>1, <2>4 DEF NothingNew, prune_offsets, TailInv, Types, TickOf
    <2>5. CASE ReadHead
      BY <1>1, <2>5 DEF ReadHead, TailInv, Types, TickOf
    <2>6. CASE StatAgain
      BY <1>1, <2>6 DEF StatAgain, Cell, TailInv, Types, TickOf
    <2>7. CASE FileGone
      BY <1>1, <2>7 DEF FileGone, Quiet, TailInv, Types, TickOf
    <2> QED BY <2>1, <2>2, <2>3, <2>4, <2>5, <2>6, <2>7
  <1>4. Types'
    BY <1>1, <1>2 DEF TailInv, Types
  <1> QED BY <1>1, <1>2, <1>4, QuietKeeps

-----------------------------------------------------------------------------
(* What the writer does.                                                   *)

LEMMA CellsTyped ==
  ASSUME TailInv
  PROVE  /\ cells \in Seq(Cell) /\ Len(cells) \in Nat /\ DOMAIN cells = 1..Len(cells)
         /\ Len(lines) \in Nat /\ Serial \subseteq Nat
         /\ \A i \in DOMAIN cells : /\ cells[i].n \in Serial /\ cells[i].n \in Nat
                                    /\ cells[i].n <= Len(lines) /\ cells[i].half \in {1, 2}
  <1>1. cells \in Seq(Cell) /\ lines \in Seq(Line)
    BY DEF TailInv, Types
  <1>2. Serial \subseteq Nat
    BY WatchersAssumption DEF Serial
  <1>3. Len(cells) \in Nat /\ DOMAIN cells = 1..Len(cells) /\ Len(lines) \in Nat
    BY <1>1
  <1>4. ASSUME NEW i \in DOMAIN cells
        PROVE  cells[i].n \in Serial /\ cells[i].half \in {1, 2}
    <2>1. cells[i] \in Cell
      BY <1>1
    <2> QED BY <2>1 DEF Cell
  <1>5. \A i \in DOMAIN cells : cells[i].n <= Len(lines)
    BY DEF TailInv, Alternate
  <1> QED BY <1>1, <1>2, <1>3, <1>4, <1>5

LEMMA StartLineKeeps ==
  ASSUME TailInv, StartLine
  PROVE  TailInv'
  <1> DEFINE m == Len(lines) + 1
             k == Len(cells) + 1
             c == [n |-> m, half |-> 1]
  <1>1. PICK l \in Line : lines' = Append(lines, l)
    BY DEF StartLine, Line
  <1>2. /\ cells \in Seq(Cell) /\ lines \in Seq(Line) /\ Len(lines) < MaxLines /\ MaxLines \in Nat
        /\ m \in Serial /\ c \in Cell /\ cells' = Append(cells, c)
        /\ reported \in [Serial -> Nat]
    BY WatchersAssumption DEF StartLine, TailInv, Types, Cell, Serial
  <1>3. /\ cells' \in Seq(Cell) /\ Len(cells') = k
        /\ \A i \in 1..Len(cells) : cells'[i] = cells[i]
        /\ cells'[k] = c /\ c.n = m /\ c.half = 1
        /\ lines' \in Seq(Line) /\ Len(lines') = m
    BY <1>1, <1>2
  <1>4. /\ UNCHANGED <<watch, state, tick, reported, first, faults>>
        /\ excused \subseteq excused'
        /\ state.off # None /\ Len(cells) < state.off => m \in excused'
        /\ cells # <<>> => cells[Len(cells)].half = 2
    BY <1>2 DEF StartLine, rowVars, ghostVars, Last
  <1> HIDE DEF c
  <1>5. reported[m] = 0 /\ m \notin first
    BY <1>2 DEF TailInv, Unwritten
  <1>6. Types' /\ TickOf'
    BY <1>1, <1>2, <1>3, <1>4 DEF TailInv, Types, TickOf
  <1>7. \A i \in 1..Len(cells) : cells[i].n \in Nat /\ cells[i].n < m /\ cells[i].half \in 1..2
    BY CellsTyped
  <1>8. Alternate'
    <2>1. ASSUME NEW i \in DOMAIN cells'
          PROVE  /\ cells'[i].n <= Len(lines')
                 /\ cells'[i].half = 2 => /\ i - 1 \in DOMAIN cells'
                                          /\ cells'[i - 1].half = 1 /\ cells'[i - 1].n = cells'[i].n
                 /\ cells'[i].half = 1 => i = Len(cells') \/ cells'[i + 1].half = 2
      <3>1. CASE i = k
        BY <1>2, <1>3, <3>1
      <3>2. CASE i < k
        <4>1. i \in DOMAIN cells /\ cells'[i] = cells[i] /\ DOMAIN cells' = 1..k
          BY <1>2, <1>3, <3>2
        <4>2. cells'[i].half = 2 => /\ i - 1 \in DOMAIN cells /\ cells'[i - 1] = cells[i - 1]
                                    /\ cells[i - 1].half = 1 /\ cells[i - 1].n = cells[i].n
          BY <1>2, <1>3, <4>1 DEF TailInv, Alternate
        <4>3. ASSUME cells'[i].half = 1 PROVE cells'[i + 1].half = 2
          <5>1. i # Len(cells)
            BY <1>2, <1>4, <4>1, <4>3
          <5>2. cells[i + 1].half = 2
            BY <4>1, <4>3, <5>1 DEF TailInv, Alternate
          <5>3. i + 1 \in 1..Len(cells)
            BY <1>2, <4>1, <5>1
          <5> QED BY <1>3, <5>2, <5>3
        <4> QED BY <1>2, <1>3, <1>7, <4>1, <4>2, <4>3
      <3> QED BY <1>2, <1>3, <3>1, <3>2
    <2>2. ASSUME NEW i \in DOMAIN cells', NEW j \in DOMAIN cells', i < j
          PROVE  \/ cells'[i].n < cells'[j].n
                 \/ j = i + 1 /\ cells'[i].half = 1 /\ cells'[j].half = 2
      <3>1. CASE j = k
        BY <1>2, <1>3, <1>7, <2>2, <3>1
      <3>2. CASE j < k
        <4>1. /\ i \in DOMAIN cells /\ j \in DOMAIN cells
              /\ cells'[i] = cells[i] /\ cells'[j] = cells[j]
          BY <1>2, <1>3, <2>2, <3>2
        <4> QED BY <2>2, <4>1 DEF TailInv, Alternate
      <3> QED BY <1>2, <1>3, <3>1, <3>2
    <2> QED BY <2>1, <2>2 DEF Alternate
  <1>9. Unwritten'
    <2>1. \A i \in DOMAIN cells' :
              cells'[i].half = 1 /\ i = Len(cells') => reported'[cells'[i].n] = 0
      BY <1>2, <1>3, <1>4, <1>5
    <2>2. \A n \in Serial : n > Len(lines') => reported'[n] = 0
      BY <1>2, <1>3, <1>4 DEF TailInv, Unwritten, Serial
    <2>3. first' \subseteq 1..Len(lines')
      BY <1>2, <1>3, <1>4 DEF TailInv, Unwritten
    <2> QED BY <2>1, <2>2, <2>3 DEF Unwritten
  <1>10. ASSUME NEW q, Ahead(q) PROVE Ahead(q)'
    BY <1>2, <1>3, <1>4, <1>5, <1>10 DEF Ahead
  <1>11. ASSUME state.off # None, NEW i \in DOMAIN cells', i <= state.off
         PROVE  reported'[cells'[i].n] > 0 \/ cells'[i].n \in excused'
    <2>1. CASE i = k
      <3>1. Len(cells) < state.off
        BY <1>2, <1>11, <2>1 DEF TailInv, Types
      <3> QED BY <1>3, <1>4, <1>11, <2>1, <3>1
    <2>2. CASE i < k
      BY <1>2, <1>3, <1>4, <1>11, <2>2 DEF TailInv, Divides
    <2> QED BY <1>2, <1>3, <2>1, <2>2
  <1>12. Divides'
    BY <1>4, <1>10, <1>11 DEF TailInv, Divides, Ahead
  <1>13. ReportedOnce' /\ FirstSightSilent'
    BY <1>4 DEF TailInv, ReportedOnce, FirstSightSilent
  <1> QED BY <1>6, <1>8, <1>9, <1>12, <1>13 DEF TailInv

LEMMA FinishLineKeeps ==
  ASSUME TailInv, FinishLine
  PROVE  TailInv'
  <1> DEFINE e == Len(cells)
             m == cells[e].n
             k == e + 1
             c == [n |-> m, half |-> 2]
  <1>1. /\ cells \in Seq(Cell) /\ e \in 1..e /\ cells[e].half = 1 /\ m \in Serial /\ c \in Cell
        /\ e \in Nat /\ cells' = Append(cells, c) /\ reported \in [Serial -> Nat]
    <2>1. e \in 1..e /\ e \in Nat /\ cells[e].half = 1 /\ cells' = Append(cells, c)
      BY CellsTyped DEF FinishLine, Last
    <2>2. m \in Serial
      BY CellsTyped, <2>1
    <2> QED BY CellsTyped, <2>1, <2>2 DEF TailInv, Types, Cell
  <1>2. /\ cells' \in Seq(Cell) /\ Len(cells') = k
        /\ \A i \in 1..e : cells'[i] = cells[i]
        /\ cells'[k] = c /\ c.n = m /\ c.half = 2
    BY <1>1
  <1>3. UNCHANGED <<watch, lines, state, tick, reported, first, excused, faults>>
    BY DEF FinishLine, rowVars, ghostVars
  <1>4. reported[m] = 0 /\ Len(lines) \in Nat
    BY <1>1 DEF TailInv, Types, Unwritten
  <1>5. \A i \in 1..e : /\ cells[i].n \in Nat /\ cells[i].half \in 1..2 /\ cells[i].n <= Len(lines)
                        /\ i < e => cells[i].n < m
    <2>1. \A i \in 1..e : i < e => cells[i].n < m \/ cells[e].half = 2
      BY <1>1 DEF TailInv, Alternate
    <2> QED BY CellsTyped, <1>1, <2>1
  <1> HIDE DEF c, m
  <1>6. Types' /\ TickOf'
    BY <1>1, <1>2, <1>3 DEF TailInv, Types, TickOf
  <1>7. Alternate'
    <2>1. ASSUME NEW i \in DOMAIN cells'
          PROVE  /\ cells'[i].n <= Len(lines')
                 /\ cells'[i].half = 2 => /\ i - 1 \in DOMAIN cells'
                                          /\ cells'[i - 1].half = 1 /\ cells'[i - 1].n = cells'[i].n
                 /\ cells'[i].half = 1 => i = Len(cells') \/ cells'[i + 1].half = 2
      <3>1. CASE i = k
        BY <1>1, <1>2, <1>3, <1>5, <3>1 DEF m
      <3>2. CASE i < k
        <4>1. i \in DOMAIN cells /\ cells'[i] = cells[i] /\ DOMAIN cells' = 1..k
          BY <1>1, <1>2, <3>2
        <4>2. cells'[i].half = 2 => /\ i - 1 \in DOMAIN cells /\ cells'[i - 1] = cells[i - 1]
                                    /\ cells[i - 1].half = 1 /\ cells[i - 1].n = cells[i].n
          BY <1>1, <1>2, <4>1 DEF TailInv, Alternate
        <4>3. cells'[i].half = 1 => cells'[i + 1].half = 2
          BY <1>1, <1>2, <4>1 DEF TailInv, Alternate
        <4> QED BY <1>1, <1>2, <1>3, <1>5, <4>1, <4>2, <4>3
      <3> QED BY <1>1, <1>2, <3>1, <3>2
    <2>2. ASSUME NEW i \in DOMAIN cells', NEW j \in DOMAIN cells', i < j
          PROVE  \/ cells'[i].n < cells'[j].n
                 \/ j = i + 1 /\ cells'[i].half = 1 /\ cells'[j].half = 2
      <3>1. CASE j = k
        BY <1>1, <1>2, <1>5, <2>2, <3>1
      <3>2. CASE j < k
        <4>1. /\ i \in DOMAIN cells /\ j \in DOMAIN cells
              /\ cells'[i] = cells[i] /\ cells'[j] = cells[j]
          BY <1>1, <1>2, <2>2, <3>2
        <4> QED BY <2>2, <4>1 DEF TailInv, Alternate
      <3> QED BY <1>1, <1>2, <3>1, <3>2
    <2> QED BY <2>1, <2>2 DEF Alternate
  <1>8. Unwritten'
    BY <1>1, <1>2, <1>3 DEF TailInv, Unwritten
  <1>9. ASSUME NEW q, Ahead(q) PROVE Ahead(q)'
    BY <1>1, <1>2, <1>3, <1>4, <1>9 DEF Ahead
  <1>10. ASSUME state.off # None, NEW i \in DOMAIN cells', i <= state.off
         PROVE  reported'[cells'[i].n] > 0 \/ cells'[i].n \in excused'
    <2>1. CASE i = k
      <3>1. e <= state.off /\ e \in DOMAIN cells
        BY <1>1, <1>10, <2>1 DEF TailInv, Types
      <3> QED BY <1>1, <1>2, <1>3, <1>10, <2>1, <3>1 DEF TailInv, Divides, m
    <2>2. CASE i < k
      BY <1>1, <1>2, <1>3, <1>10, <2>2 DEF TailInv, Divides
    <2> QED BY <1>1, <1>2, <2>1, <2>2
  <1>11. Divides'
    BY <1>3, <1>9, <1>10 DEF TailInv, Divides, Ahead
  <1>12. ReportedOnce' /\ FirstSightSilent'
    BY <1>3 DEF TailInv, ReportedOnce, FirstSightSilent
  <1> QED BY <1>6, <1>7, <1>8, <1>11, <1>12 DEF TailInv

LEMMA TruncateKeeps ==
  ASSUME TailInv, Truncate
  PROVE  TailInv'
  <1>1. /\ cells' = <<>> /\ faults' \in Nat
        /\ UNCHANGED <<watch, lines, state, tick, reported, first, excused>>
    BY DEF Truncate, Fault, rowVars, ghostVars, TailInv, Types
  <1>2. cells' \in Seq(Cell) /\ DOMAIN cells' = {}
    BY <1>1
  <1> QED BY <1>1, <1>2 DEF TailInv, Types, TickOf, Alternate, Unwritten, Divides, Ahead,
             ReportedOnce, FirstSightSilent

-----------------------------------------------------------------------------
(* What a tick reads.                                                      *)

LEMMA FirstSightKeeps ==
  ASSUME TailInv, FirstSight
  PROVE  TailInv'
  <1> DEFINE old == {cells[i].n : i \in {j \in DOMAIN cells : j <= tick.size}}
  <1>1. /\ tick.at = "read" /\ tick' = Quiet /\ state'.off = tick.size
        /\ DOMAIN state' = DOMAIN state
        /\ first' = first \cup {n \in old : reported[n] = 0} /\ excused' = excused \cup old
        /\ UNCHANGED <<watch, cells, lines, reported, faults>>
    BY DEF FirstSight, rowVars, TailInv, Types
  <1>2. old \subseteq 1..Len(lines) /\ old \subseteq Serial
    BY CellsTyped DEF Serial
  <1>3. Types' /\ TickOf'
    BY <1>1 DEF TailInv, Types, TickOf, Quiet
  <1>4. Alternate'
    BY <1>1 DEF TailInv, Alternate
  <1>5. Unwritten'
    BY <1>1, <1>2 DEF TailInv, Unwritten
  <1>6. ASSUME NEW i \in DOMAIN cells, i > tick.size
        PROVE  reported[cells[i].n] = 0 /\ (cells[i].half = 1 => cells[i].n \notin first')
    <2>1. reported[cells[i].n] = 0 /\ (cells[i].half = 1 => cells[i].n \notin first)
      BY <1>1, <1>6 DEF TailInv, Divides, Ahead
    <2>2. cells[i].half = 1 => cells[i].n \notin old
      <3>1. ASSUME cells[i].half = 1, NEW j \in DOMAIN cells, j <= tick.size
            PROVE  cells[j].n # cells[i].n
        <4>1. j < i
          BY CellsTyped, <1>6, <3>1 DEF TailInv, Types
        <4>2. cells[j].n < cells[i].n
          BY <3>1, <4>1 DEF TailInv, Alternate
        <4> QED BY CellsTyped, <4>2
      <3> QED BY <3>1
    <2> QED BY <1>1, <2>1, <2>2
  <1>7. Divides'
    BY <1>1, <1>6 DEF Divides, Ahead, Quiet
  <1>8. ReportedOnce' /\ FirstSightSilent'
    BY <1>1 DEF TailInv, ReportedOnce, FirstSightSilent
  <1> QED BY <1>3, <1>4, <1>5, <1>7, <1>8 DEF TailInv

LEMMA ClampKeeps ==
  ASSUME TailInv, Clamp
  PROVE  TailInv'
  <1>1. /\ tick.at = "read" /\ tick' = Quiet /\ state'.off = tick.size
        /\ state.off # None /\ tick.size <= state.off
        /\ DOMAIN state' = DOMAIN state
        /\ UNCHANGED <<watch, cells, lines, reported, first, excused, faults>>
    BY DEF Clamp, transcriptVars, ghostVars, rowVars, TailInv, Types
  <1>2. state.off \in Nat /\ tick.size \in Nat /\ tick.size # None
    BY <1>1, WatchersAssumption DEF TailInv, Types
  <1>3. Types' /\ TickOf'
    BY <1>1 DEF TailInv, Types, TickOf, Quiet
  <1>4. Alternate' /\ Unwritten' /\ ReportedOnce' /\ FirstSightSilent'
    BY <1>1 DEF TailInv, Alternate, Unwritten, ReportedOnce, FirstSightSilent
  <1>5. ASSUME NEW i \in DOMAIN cells, i <= tick.size
        PROVE  reported[cells[i].n] > 0 \/ cells[i].n \in excused
    <2>1. i <= state.off
      BY CellsTyped, <1>1, <1>2, <1>5
    <2> QED BY <1>1, <2>1 DEF TailInv, Divides
  <1>6. Divides'
    BY <1>1, <1>5 DEF TailInv, Divides, Ahead, Quiet
  <1> QED BY <1>3, <1>4, <1>6 DEF TailInv

\* A set of positions has a greatest one.
LEMMA GreatestPosition ==
  ASSUME NEW h \in Nat, NEW T, T \subseteq 1..h, T # {}
  PROVE  \E x \in T : \A y \in T : y <= x
  <1> DEFINE R == {h - x : x \in T}
  <1>1. R \subseteq Nat /\ R # {}
    <2>1. \A x \in T : x \in 1..h /\ h - x \in Nat
      OBVIOUS
    <2> QED BY <2>1
  <1>2. PICK r \in R : \A y \in R : ~(<<y, r>> \in OpToRel(<, Nat))
    BY <1>1, NatLessThanWellFounded, WFMin
  <1>3. PICK x \in T : r = h - x
    BY <1>2
  <1>4. ASSUME NEW y \in T PROVE y <= x
    <2>1. h - y \in R
      OBVIOUS
    <2> HIDE DEF R
    <2>2. ~(<<h - y, r>> \in {ss \in Nat \X Nat : ss[1] < ss[2]})
      BY <1>2, <2>1 DEF OpToRel
    <2>3. h - y \in Nat /\ r \in Nat
      BY <1>1, <2>1
    <2>4. ~(h - y < r)
      BY <2>2, <2>3
    <2>5. x \in 1..h /\ y \in 1..h
      OBVIOUS
    <2> QED BY <1>3, <2>4, <2>5
  <1> QED BY <1>4

\* The chunk that is read, and the offset behind its last newline.
LEMMA ChunkRead ==
  ASSUME TailInv, read_new_lines
  PROVE  \E start \in Nat, buf \in Seq(Cell), off \in Nat :
           /\ state.off <= start /\ state.off \in Nat /\ state.off # None
           /\ \A i \in DOMAIN buf : /\ buf[i] = cells[start + i] /\ i \in Nat /\ i > 0
                                    /\ start + i \in DOMAIN cells
           /\ start <= off
           /\ \A i \in DOMAIN buf : buf[i].half = 2 => start + i <= off
           /\ off # start => \E e \in DOMAIN buf : /\ off = start + e /\ buf[e].half = 2
                                                   /\ \A j \in 1..e : j \in DOMAIN buf
           /\ state'.off = off /\ DOMAIN state' = DOMAIN state
           /\ reported' = [n \in Serial |-> reported[n] + IF n \in Parsed(buf) THEN 1 ELSE 0]
           /\ excused' = excused \cup
                  {cells[i].n : i \in {j \in DOMAIN cells : state.off < j /\ j <= start}}
           /\ human' = human \cup {n \in Parsed(buf) :
                  "human" \in Range(IF lines[n].old THEN <<>>
                                    ELSE IF watch = "claude" THEN ClaudeRows(lines[n])
                                                             ELSE CodexRows(lines[n]))}
  <1> DEFINE hi == IF tick.size < Len(cells) THEN tick.size ELSE Len(cells)
  <1>1. PICK start : start = ReadFrom(state.off, tick.size)
    OBVIOUS
  <1>2. /\ start \in Nat /\ state.off \in Nat /\ state.off # None /\ tick.size \in Nat
        /\ state.off <= start
    BY <1>1, WatchersAssumption DEF ReadFrom, read_new_lines, TailInv, Types
  <1>3. hi \in Nat /\ hi <= Len(cells) /\ Len(cells) \in Nat /\ cells \in Seq(Cell)
    BY CellsTyped, <1>2
  <1>4. PICK h : h = hi
    OBVIOUS
  <1>5. PICK buf : buf = SubSeq(cells, start + 1, h)
    OBVIOUS
  <1>6. h \in Nat /\ h <= Len(cells)
    BY <1>3, <1>4
  <1>7. /\ buf \in Seq(Cell)
        /\ \A i \in DOMAIN buf : /\ buf[i] = cells[start + i] /\ i \in Nat /\ i > 0
                                 /\ start + i \in DOMAIN cells
    <2>1. CASE start + 1 <= h
      <3>1. /\ buf \in Seq(Cell) /\ Len(buf) = h - start
            /\ \A i \in 1..(h - start) : buf[i] = cells[start + i]
        BY <1>2, <1>3, <1>5, <1>6, <2>1
      <3> QED BY <1>2, <1>3, <1>6, <2>1, <3>1
    <2>2. CASE ~(start + 1 <= h)
      <3>1. buf = <<>>
        BY <1>2, <1>3, <1>5, <1>6, <2>2
      <3> QED BY <3>1
    <2> QED BY <2>1, <2>2
  <1>8. PICK ends : ends = {i \in DOMAIN buf : buf[i].half = 2}
    OBVIOUS
  <1> DEFINE off == NextOffset(start, buf)
  <1>9. off = IF ends = {} THEN start
              ELSE start + (CHOOSE i \in ends : \A j \in ends : j <= i)
    BY <1>8 DEF NextOffset
  <1>10. off = NextOffset(start, buf)
    OBVIOUS
  <1> HIDE DEF off
  <1>11. /\ off \in Nat /\ start <= off
         /\ \A i \in DOMAIN buf : buf[i].half = 2 => start + i <= off
         /\ off # start => \E e \in DOMAIN buf : /\ off = start + e /\ buf[e].half = 2
                                                 /\ \A j \in 1..e : j \in DOMAIN buf
    <2>1. CASE ends = {}
      BY <1>2, <1>8, <1>9, <2>1
    <2>2. CASE ends # {}
      <3>1. Len(buf) \in Nat /\ DOMAIN buf = 1..Len(buf) /\ ends \subseteq 1..Len(buf)
        BY <1>7, <1>8
      <3>2. \E x \in ends : \A y \in ends : y <= x
        BY <2>2, <3>1, GreatestPosition
      <3>3. PICK e : e = CHOOSE i \in ends : \A j \in ends : j <= i
        OBVIOUS
      <3>4. e \in ends /\ \A j \in ends : j <= e
        BY <3>2, <3>3
      <3>5. off = start + e
        BY <1>9, <2>2, <3>3
      <3>6. e \in Nat /\ e > 0 /\ \A j \in 1..e : j \in DOMAIN buf
        BY <3>1, <3>4
      <3> QED BY <1>2, <1>8, <3>1, <3>4, <3>5, <3>6
    <2> QED BY <2>1, <2>2
  <1>12. /\ state'.off = off /\ DOMAIN state' = DOMAIN state
         /\ reported' = [n \in Serial |-> reported[n] + IF n \in Parsed(buf) THEN 1 ELSE 0]
         /\ excused' = excused \cup
                {cells[i].n : i \in {j \in DOMAIN cells : state.off < j /\ j <= start}}
    BY <1>1, <1>4, <1>5, <1>10 DEF read_new_lines, TailInv, Types
  <1>13. human' = human \cup {n \in Parsed(buf) :
                  "human" \in Range(IF lines[n].old THEN <<>>
                                    ELSE IF watch = "claude" THEN ClaudeRows(lines[n])
                                                             ELSE CodexRows(lines[n]))}
    BY <1>1, <1>4, <1>5 DEF read_new_lines
  <1> QED BY <1>2, <1>7, <1>11, <1>12, <1>13

LEMMA ReadKeeps ==
  ASSUME TailInv, read_new_lines
  PROVE  TailInv'
  <1>1. PICK start \in Nat, buf \in Seq(Cell), off \in Nat :
           /\ state.off <= start /\ state.off \in Nat /\ state.off # None
           /\ \A i \in DOMAIN buf : /\ buf[i] = cells[start + i] /\ i \in Nat /\ i > 0
                                    /\ start + i \in DOMAIN cells
           /\ start <= off
           /\ \A i \in DOMAIN buf : buf[i].half = 2 => start + i <= off
           /\ off # start => \E e \in DOMAIN buf : /\ off = start + e /\ buf[e].half = 2
                                                   /\ \A j \in 1..e : j \in DOMAIN buf
           /\ state'.off = off /\ DOMAIN state' = DOMAIN state
           /\ reported' = [n \in Serial |-> reported[n] + IF n \in Parsed(buf) THEN 1 ELSE 0]
           /\ excused' = excused \cup
                  {cells[i].n : i \in {j \in DOMAIN cells : state.off < j /\ j <= start}}
    BY ChunkRead
  <1>2. /\ tick' = Quiet /\ UNCHANGED <<watch, cells, lines, first, faults>>
    BY DEF read_new_lines
  <1>3. PICK seen : seen = Parsed(buf)
    OBVIOUS
  <1>4. /\ \A n \in seen : \E p \in DOMAIN cells : /\ n = cells[p].n /\ cells[p].half = 2
                                                   /\ p > start + 1 /\ p <= off
        /\ \A p \in DOMAIN cells :
               cells[p].half = 2 /\ p > start + 1 /\ p <= off => cells[p].n \in seen
    <2>1. ASSUME NEW n \in seen
          PROVE  \E p \in DOMAIN cells : /\ n = cells[p].n /\ cells[p].half = 2
                                         /\ p > start + 1 /\ p <= off
      <3>1. PICK j \in DOMAIN buf : j > 1 /\ buf[j].half = 2 /\ n = buf[j].n
        BY <1>3 DEF Parsed
      <3> QED BY <1>1, <3>1
    <2>2. ASSUME NEW p \in DOMAIN cells, cells[p].half = 2, p > start + 1, p <= off
          PROVE  cells[p].n \in seen
      <3>1. PICK e \in DOMAIN buf : off = start + e /\ \A j \in 1..e : j \in DOMAIN buf
        BY <1>1, <2>2, CellsTyped
      <3>2. PICK j \in Nat : j = p - start
        BY CellsTyped, <2>2
      <3>3. p = start + j /\ j > 1 /\ j <= e
        BY CellsTyped, <1>1, <2>2, <3>1, <3>2
      <3>4. j \in DOMAIN buf /\ buf[j] = cells[p]
        BY <1>1, <3>1, <3>3
      <3> QED BY <1>3, <2>2, <3>3, <3>4 DEF Parsed
    <2> QED BY <2>1, <2>2
  <1>5. /\ reported \in [Serial -> Nat] /\ reported' \in [Serial -> Nat]
        /\ \A n \in Serial : n \in seen => reported'[n] = reported[n] + 1
        /\ \A n \in Serial : n \notin seen => reported'[n] = reported[n]
    BY <1>1, <1>3 DEF TailInv, Types
  <1>6. ASSUME NEW n \in seen
        PROVE  n \in Serial /\ reported[n] = 0 /\ n \notin first /\ n <= Len(lines)
    <2>1. PICK p \in DOMAIN cells : n = cells[p].n /\ cells[p].half = 2 /\ p > start + 1
      BY <1>4
    <2>2. /\ p - 1 \in DOMAIN cells /\ cells[p - 1].half = 1 /\ cells[p - 1].n = n
      BY <2>1 DEF TailInv, Alternate
    <2>3. p - 1 > state.off
      BY CellsTyped, <1>1, <2>1
    <2>4. Ahead(state.off)
      BY <1>1 DEF TailInv, Divides
    <2> QED BY CellsTyped, <2>1, <2>2, <2>3, <2>4 DEF Ahead
  <1>7. Types' /\ TickOf'
    BY <1>1, <1>2, <1>5 DEF TailInv, Types, TickOf, Quiet
  <1>8. Alternate'
    BY <1>2 DEF TailInv, Alternate
  <1>9. Unwritten'
    <2>1. ASSUME NEW i \in DOMAIN cells, cells[i].half = 1, i = Len(cells)
          PROVE  reported'[cells[i].n] = 0
      <3>1. cells[i].n \notin seen
        <4>1. ASSUME NEW p \in DOMAIN cells, cells[p].half = 2 PROVE cells[p].n # cells[i].n
          <5>1. p < i
            BY CellsTyped, <2>1, <4>1
          <5>2. cells[p].n < cells[i].n
            BY <2>1, <5>1 DEF TailInv, Alternate
          <5> QED BY CellsTyped, <5>2
        <4> QED BY <1>4, <4>1
      <3> QED BY CellsTyped, <1>5, <2>1, <3>1 DEF TailInv, Unwritten
    <2>2. \A n \in Serial : n > Len(lines) => reported'[n] = 0
      BY CellsTyped, <1>5, <1>6 DEF TailInv, Unwritten
    <2> QED BY <1>2, <2>1, <2>2 DEF TailInv, Unwritten
  <1>10. ASSUME NEW i \in DOMAIN cells, i > off
         PROVE  reported'[cells[i].n] = 0 /\ (cells[i].half = 1 => cells[i].n \notin first)
    <2>1. reported[cells[i].n] = 0 /\ (cells[i].half = 1 => cells[i].n \notin first)
      <3>1. i > state.off
        BY CellsTyped, <1>1, <1>10
      <3> QED BY <1>1, <3>1 DEF TailInv, Divides, Ahead
    <2>2. cells[i].n \notin seen
      <3>1. ASSUME NEW p \in DOMAIN cells, cells[p].half = 2, p <= off PROVE cells[p].n # cells[i].n
        <4>1. p < i
          BY CellsTyped, <1>1, <1>10, <3>1
        <4>2. cells[p].n < cells[i].n
          BY <3>1, <4>1 DEF TailInv, Alternate
        <4> QED BY CellsTyped, <4>2
      <3> QED BY <1>4, <3>1
    <2> QED BY CellsTyped, <1>5, <2>1, <2>2
  <1>11. ASSUME NEW i \in DOMAIN cells, i <= off
         PROVE  reported'[cells[i].n] > 0 \/ cells[i].n \in excused'
    <2>1. ASSUME NEW j \in DOMAIN cells, j <= start
          PROVE  reported'[cells[j].n] > 0 \/ cells[j].n \in excused'
      <3>1. CASE j <= state.off
        <4>1. reported[cells[j].n] > 0 \/ cells[j].n \in excused
          BY <1>1, <3>1 DEF TailInv, Divides
        <4> QED BY CellsTyped, <1>1, <1>5, <4>1
      <3>2. CASE state.off < j
        BY <1>1, <2>1, <3>2
      <3> QED BY CellsTyped, <1>1, <3>1, <3>2
    <2>2. ASSUME NEW p \in DOMAIN cells, cells[p].half = 2, p > start + 1, p <= off
          PROVE  reported'[cells[p].n] > 0
      BY CellsTyped, <1>4, <1>5, <2>2
    <2>3. CASE i <= start
      BY <2>1, <2>3
    <2>4. CASE i > start /\ cells[i].half = 2
      <3>1. CASE i > start + 1
        BY <1>11, <2>2, <2>4, <3>1
      <3>2. CASE i = start + 1
        <4>1. i - 1 = start /\ i - 1 \in DOMAIN cells /\ cells[i - 1].n = cells[i].n
          BY <1>1, <2>4, <3>2 DEF TailInv, Alternate
        <4> QED BY <1>1, <2>1, <4>1
      <3> QED BY CellsTyped, <1>1, <2>4, <3>1, <3>2
    <2>5. CASE i > start /\ cells[i].half = 1
      <3>1. PICK e \in DOMAIN buf : off = start + e /\ buf[e].half = 2
        BY CellsTyped, <1>1, <1>11, <2>5
      <3>2. off \in DOMAIN cells /\ cells[off].half = 2
        BY <1>1, <3>1
      <3>3. i < off /\ i # Len(cells) /\ i + 1 \in DOMAIN cells
        BY CellsTyped, <1>11, <2>5, <3>2
      <3>4. cells[i + 1].half = 2
        BY <2>5, <3>3 DEF TailInv, Alternate
      <3>5. cells[i + 1].n = cells[i].n
        <4>1. /\ (i + 1) - 1 \in DOMAIN cells
              /\ cells[(i + 1) - 1].n = cells[i + 1].n
          BY <3>3, <3>4 DEF TailInv, Alternate
        <4>2. (i + 1) - 1 = i
          BY CellsTyped
        <4> QED BY <4>1, <4>2
      <3>6. i + 1 > start + 1 /\ i + 1 <= off
        BY CellsTyped, <1>1, <2>5, <3>3
      <3> QED BY <2>2, <3>3, <3>4, <3>5, <3>6
    <2> QED BY CellsTyped, <2>3, <2>4, <2>5
  <1>12. Divides'
    BY <1>1, <1>2, <1>10, <1>11 DEF Divides, Ahead, Quiet
  <1>13. ReportedOnce'
    BY <1>5, <1>6 DEF TailInv, ReportedOnce
  <1>14. FirstSightSilent'
    <2>1. first \subseteq Serial
      BY WatchersAssumption, CellsTyped DEF TailInv, Unwritten, Types, Serial
    <2> QED BY <1>2, <1>5, <1>6, <2>1 DEF TailInv, FirstSightSilent
  <1> QED BY <1>7, <1>8, <1>9, <1>12, <1>13, <1>14 DEF TailInv

LEMMA TailNext ==
  ASSUME TailInv, [Next]_vars
  PROVE  TailInv'
  <1>1. CASE Environment
    BY <1>1, ElsewhereKeeps, StartLineKeeps, FinishLineKeeps, TruncateKeeps DEF Environment
  <1>2. CASE Transcript
    BY <1>2, UnreadKeeps, FirstSightKeeps, ClampKeeps, ReadKeeps DEF Transcript
  <1>3. CASE Next /\ ~Environment /\ ~Transcript
    BY <1>3, ElsewhereKeeps, UnreadKeeps DEF Next
  <1>4. CASE UNCHANGED vars
    <2>1. UNCHANGED <<watch, cells, lines, state, tick, reported, first, excused, faults>>
      BY <1>4 DEF vars, transcriptVars, rowVars, ghostVars
    <2>2. Types' /\ TickOf'
      BY <2>1 DEF TailInv, Types, TickOf
    <2> QED BY <2>1, <2>2, QuietKeeps
  <1> QED BY <1>1, <1>2, <1>3, <1>4

\* The offset divides the transcript into what was read or excused and what is new
\* to the watcher, in every state: what read_new_lines rests on when it moves the
\* offset behind the last newline of a chunk.
THEOREM TailInvariant == Spec => []TailInv
  <1>1. Init => TailInv
    BY WatchersAssumption DEF Init, TailInv, Types, TickOf, Alternate, Unwritten, Divides, Ahead,
       ReportedOnce, FirstSightSilent, NoState, Quiet, Serial, Cell, Line
  <1> QED BY <1>1, TailNext, PTL DEF Spec

(* A session's directory: a tick that found the head of the file knows it.   *)

HeadKnown ==
    tick.at \in {"again", "read"} /\ watch = "codex" /\ tick.found => tick.cwd

SessionInv == HeadKnown /\ AttributedToSession /\ (watch # "codex" => unknown = {})

LEMMA SessionNext ==
  ASSUME TailInv, SessionInv, [Next]_vars
  PROVE  SessionInv'
  <1> USE DEF TailInv, Types, TickOf, SessionInv, HeadKnown, AttributedToSession, transcriptVars,
              rowVars, ghostVars
  <1>1. CASE read_new_lines
    <2>1. PICK seen : /\ unknown' \subseteq unknown \cup {n \in seen : watch = "codex" /\ ~tick.cwd}
                      /\ late' = IF tick.found THEN late ELSE late \cup seen
      BY <1>1 DEF read_new_lines
    <2>2. tick.at = "read" /\ tick'.at = "idle" /\ watch' = watch
      BY <1>1 DEF read_new_lines, Quiet
    <2> QED BY <2>1, <2>2
  <1>2. CASE ReadHead
    <2>1. /\ tick.at = "head" /\ UNCHANGED <<watch, unknown, late>>
          /\ tick'.found = read_first_json_line
          /\ tick'.cwd = (state.cwd \/ (need_meta /\ read_first_json_line))
      BY <1>2 DEF ReadHead
    <2> QED BY <2>1 DEF need_meta
  <1>3. CASE watch_mac
    BY <1>3 DEF watch_mac
  <1>4. CASE \/ Create \/ StartLine \/ FinishLine \/ Truncate \/ ZedCommit \/ Type \/ Wait
             \/ ClockBack \/ (\E f \in File : Save(f)) \/ load_state \/ Abandon
    <2>1. UNCHANGED <<watch, unknown, late>>
      BY <1>4 DEF Create, StartLine, FinishLine, Truncate, ZedCommit, Type, Wait, ClockBack, Save,
             load_state, Abandon
    <2>2. tick' = tick \/ tick' = Quiet
      BY <1>4 DEF Create, StartLine, FinishLine, Truncate, ZedCommit, Type, Wait, ClockBack, Save,
             load_state, Abandon
    <2> QED BY <2>1, <2>2 DEF Quiet
  <1>5. CASE \/ BeginTranscript \/ NothingNew \/ StatAgain \/ FileGone \/ FirstSight \/ Clamp
    <2>1. UNCHANGED <<watch, unknown, late>>
      BY <1>5 DEF BeginTranscript, NothingNew, StatAgain, FileGone, FirstSight, Clamp
    <2>2. HeadKnown'
      <3>1. CASE BeginTranscript
        <4>1. tick'.at = IF watch = "codex" THEN "head" ELSE "again"
          BY <3>1 DEF BeginTranscript, Quiet
        <4> QED BY <2>1, <4>1
      <3>2. CASE NothingNew
        BY <2>1, <3>2 DEF NothingNew
      <3>3. CASE StatAgain
        BY <2>1, <3>3 DEF StatAgain
      <3>4. CASE FileGone \/ FirstSight \/ Clamp
        BY <3>4 DEF FileGone, FirstSight, Clamp, Quiet
      <3> QED BY <1>5, <3>1, <3>2, <3>3, <3>4
    <2> QED BY <2>1, <2>2
  <1>6. CASE \/ db_signature \/ snapshot_db \/ read_threads \/ BeginScan \/ EndScan
             \/ (\E f \in File : ScanFile(f)) \/ watch_ssh
    <2>1. UNCHANGED <<watch, unknown, late>>
      BY <1>6 DEF db_signature, snapshot_db, read_threads, BeginScan, EndScan, ScanFile, watch_ssh
    <2>2. tick' = tick \/ tick'.at \in {"snapshot", "diff", "walk", "idle"}
      <3>1. CASE db_signature
        BY <3>1 DEF db_signature, Quiet
      <3>2. CASE read_threads
        BY <3>2 DEF read_threads, Quiet
      <3>3. CASE BeginScan
        BY <3>3 DEF BeginScan, Quiet
      <3>4. CASE EndScan
        BY <3>4 DEF EndScan, Quiet
      <3>5. CASE snapshot_db
        BY <3>5 DEF snapshot_db
      <3>6. CASE \E f \in File : ScanFile(f)
        BY <3>6 DEF ScanFile
      <3>7. CASE watch_ssh
        BY <3>7 DEF watch_ssh
      <3> QED BY <1>6, <3>1, <3>2, <3>3, <3>4, <3>5, <3>6, <3>7
    <2> QED BY <2>1, <2>2
  <1>7. CASE UNCHANGED vars
    BY <1>7 DEF vars
  <1> QED BY <1>1, <1>2, <1>3, <1>4, <1>5, <1>6, <1>7 DEF Next, Environment, Transcript

\* read_new_lines, the first sight of a file, its head and the clamp of one that
\* shrank, however the transcript is written, cut off and found again meanwhile:
\* every complete line behind the offset was reported or is excused, none was
\* reported twice, and none that was there at first sight; and a row lacks its
\* session's directory only where the head was not complete when it was looked at.
THEOREM TailStaysFaithful == Spec => []TailIsFaithful
  <1>1. Init => SessionInv
    BY DEF Init, SessionInv, HeadKnown, AttributedToSession, Quiet
  <1>2. TailInv /\ SessionInv => TailIsFaithful
    BY DEF TailInv, SessionInv, Divides, TailIsFaithful, NoRecordLost
  <1> QED BY <1>1, <1>2, SessionNext, TailInvariant, PTL DEF Spec

-----------------------------------------------------------------------------
(* The inductive invariant of Zed's database: versions grow with the         *)
(* signature, so a signature that has not changed vouches for the snapshot   *)
(* taken after it, and a remembered version that is still the thread's was   *)
(* reported.                                                                 *)

ZedTypes ==
    /\ DOMAIN zed = {"ok", "threads", "sig"} /\ zed.ok \in BOOLEAN
    /\ zed.threads \in [Thread -> Nat] /\ zed.sig \in Nat
    /\ state.sig \in {None} \cup Nat /\ state.threads \in [Thread -> Nat]

Versions ==
    /\ state.sig # None => state.sig <= zed.sig
    /\ \A t \in Thread : zed.threads[t] <= zed.sig + 1 /\ state.threads[t] <= zed.sig + 1

Snapshots ==
    /\ tick.at \in {"snapshot", "diff"} => tick.sig \in Nat /\ tick.sig <= zed.sig
    /\ tick.at = "diff" =>
           /\ tick.copy \in [Thread -> Nat] /\ \A t \in Thread : tick.copy[t] <= zed.sig + 1
           /\ tick.sig = zed.sig => tick.copy = zed.threads /\ tick.found = zed.ok

Remembered ==
    \A t \in Thread : state.threads[t] # 0 /\ state.threads[t] = zed.threads[t] =>
        t \in updates \cup strayed

ZedInv == ZedTypes /\ Versions /\ Snapshots /\ Remembered /\ ThreadsReported

(* That of the scans: what was saved since the last one is in the window of  *)
(* the one under way, or excused.                                            *)

ScanTypes ==
    /\ clock \in Nat /\ mtime \in [File -> Nat] /\ state.last \in {None} \cup Nat
    /\ tick.at = "walk" => tick.now \in Nat /\ tick.since \in Nat /\ tick.now <= clock

Scanned ==
    tick.at = "walk" => \A f \in walk \ tick.left :
        mtime[f] > tick.since /\ mtime[f] <= tick.now => f \in saves

SavesKnown ==
    state.last # None => \A f \in walk : mtime[f] # 0 /\ mtime[f] <= state.last =>
        f \in saves \cup strayed \cup behind

ScanInv == ScanTypes /\ Scanned /\ SavesKnown

\* And that of people's work: the lines are written.
HumanInv == HumanWork /\ (watch \notin {"ssh", "macApps"} => human \subseteq 1..Len(lines))

ChangeInv == ZedInv /\ ScanInv /\ HumanInv

\* What the other watchers leave alone of Zed's.
LEMMA ZedFrame ==
  ASSUME TailInv,
         \/ Create \/ StartLine \/ FinishLine \/ Truncate \/ Type \/ Wait \/ ClockBack
         \/ (\E f \in File : Save(f)) \/ load_state \/ Abandon \/ BeginTranscript
         \/ NothingNew \/ ReadHead \/ StatAgain \/ FileGone \/ FirstSight \/ Clamp
         \/ read_new_lines \/ BeginScan \/ EndScan \/ (\E f \in File : ScanFile(f))
         \/ watch_ssh \/ watch_mac
  PROVE  /\ zed' = zed /\ updates' = updates
         /\ strayed \cap Thread \subseteq strayed'
         /\ \/ state'.sig = state.sig /\ state'.threads = state.threads
            \/ state'.sig = None /\ state'.threads = [t \in Thread |-> 0]
         /\ tick'.at \in {"snapshot", "diff"} =>
                /\ tick'.at = tick.at /\ tick'.sig = tick.sig
                /\ tick'.copy = tick.copy /\ tick'.found = tick.found
  <1> USE DEF TailInv, Types, TickOf, transcriptVars, rowVars, ghostVars, clockVars
  <1>1. CASE Create
    BY <1>1 DEF Create, Thread, File
  <1>2. CASE StartLine
    BY <1>2 DEF StartLine, Thread, File
  <1>3. CASE FinishLine
    BY <1>3 DEF FinishLine, Thread, File
  <1>4. CASE Truncate
    BY <1>4 DEF Truncate, Thread, File
  <1>5. CASE Type
    BY <1>5 DEF Type, Thread, File
  <1>6. CASE Wait
    BY <1>6 DEF Wait, Thread, File
  <1>7. CASE ClockBack
    BY <1>7 DEF ClockBack, Thread, File
  <1>8. CASE \E f \in File : Save(f)
    BY <1>8 DEF Save, Thread, File
  <1>9. CASE load_state
    BY <1>9 DEF load_state, NoState, Thread, File
  <1>10. CASE Abandon
    BY <1>10 DEF Abandon, Quiet, Thread, File
  <1>11. CASE BeginTranscript
    BY <1>11 DEF BeginTranscript, Quiet, Thread, File
  <1>12. CASE NothingNew
    BY <1>12 DEF NothingNew, prune_offsets, Thread, File
  <1>13. CASE ReadHead
    BY <1>13 DEF ReadHead, Thread, File
  <1>14. CASE StatAgain
    BY <1>14 DEF StatAgain, Thread, File
  <1>15. CASE FileGone
    BY <1>15 DEF FileGone, Quiet, Thread, File
  <1>16. CASE FirstSight
    BY <1>16 DEF FirstSight, Quiet, Thread, File
  <1>17. CASE Clamp
    BY <1>17 DEF Clamp, Quiet, Thread, File
  <1>18. CASE read_new_lines
    BY <1>18 DEF read_new_lines, Quiet, Thread, File
  <1>19. CASE BeginScan
    BY <1>19 DEF BeginScan, Quiet, Thread, File
  <1>20. CASE EndScan
    BY <1>20 DEF EndScan, Quiet, Thread, File
  <1>21. CASE \E f \in File : ScanFile(f)
    BY <1>21 DEF ScanFile, Thread, File
  <1>22. CASE watch_ssh
    BY <1>22 DEF watch_ssh, Thread, File
  <1>23. CASE watch_mac
    BY <1>23 DEF watch_mac, Thread, File
    <1> QED BY <1>1, <1>2, <1>3, <1>4, <1>5, <1>6, <1>7, <1>8, <1>9, <1>10, <1>11, <1>12,
             <1>13, <1>14, <1>15, <1>16, <1>17, <1>18, <1>19, <1>20, <1>21, <1>22, <1>23

LEMMA ZedQuiet ==
  ASSUME ZedInv,
         zed' = zed /\ updates' = updates, strayed \cap Thread \subseteq strayed',
         \/ state'.sig = state.sig /\ state'.threads = state.threads
         \/ state'.sig = None /\ state'.threads = [t \in Thread |-> 0],
         tick'.at \in {"snapshot", "diff"} =>
             /\ tick'.at = tick.at /\ tick'.sig = tick.sig
             /\ tick'.copy = tick.copy /\ tick'.found = tick.found
  PROVE  ZedInv'
  <1>1. None \notin Nat
    BY WatchersAssumption
  <1>2. ZedTypes' /\ Versions' /\ Snapshots'
    BY <1>1 DEF ZedInv, ZedTypes, Versions, Snapshots
  <1>3. Remembered' /\ ThreadsReported'
    BY <1>1 DEF ZedInv, ZedTypes, Remembered, ThreadsReported
  <1> QED BY <1>2, <1>3 DEF ZedInv

\* What the other watchers leave alone of the scans'.
LEMMA ScanFrame ==
  ASSUME TailInv,
         \/ Create \/ StartLine \/ FinishLine \/ Truncate \/ ZedCommit \/ load_state
         \/ Abandon \/ BeginTranscript \/ NothingNew \/ ReadHead \/ StatAgain
         \/ FileGone \/ FirstSight \/ Clamp \/ read_new_lines \/ db_signature
         \/ snapshot_db \/ read_threads \/ watch_ssh \/ watch_mac
  PROVE  /\ UNCHANGED <<clock, mtime, saves, behind>>
         /\ strayed \cap walk \subseteq strayed'
         /\ state'.last \in {state.last, None}
         /\ tick'.at = "walk" =>
                /\ tick.at = "walk" /\ tick'.now = tick.now /\ tick'.since = tick.since
                /\ tick'.left = tick.left
  <1> USE DEF TailInv, Types, TickOf, transcriptVars, rowVars, ghostVars, clockVars
  <1>1. CASE Create
    BY <1>1 DEF Create, Thread, File, walk
  <1>2. CASE StartLine
    BY <1>2 DEF StartLine, Thread, File, walk
  <1>3. CASE FinishLine
    BY <1>3 DEF FinishLine, Thread, File, walk
  <1>4. CASE Truncate
    BY <1>4 DEF Truncate, Thread, File, walk
  <1>5. CASE ZedCommit
    BY <1>5 DEF ZedCommit, Thread, File, walk
  <1>6. CASE load_state
    BY <1>6 DEF load_state, NoState, Thread, File, walk
  <1>7. CASE Abandon
    BY <1>7 DEF Abandon, Quiet, Thread, File, walk
  <1>8. CASE BeginTranscript
    BY <1>8 DEF BeginTranscript, Quiet, Thread, File, walk
  <1>9. CASE NothingNew
    BY <1>9 DEF NothingNew, prune_offsets, Thread, File, walk
  <1>10. CASE ReadHead
    BY <1>10 DEF ReadHead, Thread, File, walk
  <1>11. CASE StatAgain
    BY <1>11 DEF StatAgain, Thread, File, walk
  <1>12. CASE FileGone
    BY <1>12 DEF FileGone, Quiet, Thread, File, walk
  <1>13. CASE FirstSight
    BY <1>13 DEF FirstSight, Quiet, Thread, File, walk
  <1>14. CASE Clamp
    BY <1>14 DEF Clamp, Quiet, Thread, File, walk
  <1>15. CASE read_new_lines
    BY <1>15 DEF read_new_lines, Quiet, Thread, File, walk
  <1>16. CASE db_signature
    BY <1>16 DEF db_signature, Quiet, Thread, File, walk
  <1>17. CASE snapshot_db
    BY <1>17 DEF snapshot_db, Thread, File, walk
  <1>18. CASE read_threads
    BY <1>18 DEF read_threads, record_signature, Quiet, Thread, File, walk
  <1>19. CASE watch_ssh
    BY <1>19 DEF watch_ssh, Thread, File, walk
  <1>20. CASE watch_mac
    BY <1>20 DEF watch_mac, Thread, File, walk
    <1> QED BY <1>1, <1>2, <1>3, <1>4, <1>5, <1>6, <1>7, <1>8, <1>9, <1>10, <1>11, <1>12,
             <1>13, <1>14, <1>15, <1>16, <1>17, <1>18, <1>19, <1>20

LEMMA ScanQuiet ==
  ASSUME ScanInv, clock' \in Nat, tick'.at = "walk" => clock <= clock',
         UNCHANGED <<mtime, saves, behind>>, strayed \cap walk \subseteq strayed',
         state'.last \in {state.last, None},
         tick'.at = "walk" =>
             /\ tick.at = "walk" /\ tick'.now = tick.now /\ tick'.since = tick.since
             /\ tick'.left = tick.left
  PROVE  ScanInv'
  <1>1. ScanTypes'
    BY DEF ScanInv, ScanTypes
  <1>2. Scanned' /\ SavesKnown'
    BY DEF ScanInv, Scanned, SavesKnown
  <1> QED BY <1>1, <1>2 DEF ScanInv

\* What leaves people's work alone.
LEMMA HumanFrame ==
  ASSUME TailInv,
         \/ Create \/ FinishLine \/ Truncate \/ ZedCommit \/ Type \/ Wait \/ ClockBack
         \/ (\E f \in File : Save(f)) \/ load_state \/ Abandon \/ BeginTranscript
         \/ NothingNew \/ ReadHead \/ StatAgain \/ FileGone \/ FirstSight \/ Clamp
         \/ db_signature \/ snapshot_db \/ read_threads \/ BeginScan \/ EndScan
         \/ \E f \in File : ScanFile(f)
  PROVE  UNCHANGED <<watch, human, late, lines>>
  <1> USE DEF TailInv, Types, TickOf, transcriptVars, rowVars, ghostVars, clockVars
  <1>1. CASE Create
    BY <1>1 DEF Create
  <1>2. CASE FinishLine
    BY <1>2 DEF FinishLine
  <1>3. CASE Truncate
    BY <1>3 DEF Truncate
  <1>4. CASE ZedCommit
    BY <1>4 DEF ZedCommit
  <1>5. CASE Type
    BY <1>5 DEF Type
  <1>6. CASE Wait
    BY <1>6 DEF Wait
  <1>7. CASE ClockBack
    BY <1>7 DEF ClockBack
  <1>8. CASE \E f \in File : Save(f)
    BY <1>8 DEF Save
  <1>9. CASE load_state
    BY <1>9 DEF load_state, NoState
  <1>10. CASE Abandon
    BY <1>10 DEF Abandon, Quiet
  <1>11. CASE BeginTranscript
    BY <1>11 DEF BeginTranscript, Quiet
  <1>12. CASE NothingNew
    BY <1>12 DEF NothingNew, prune_offsets
  <1>13. CASE ReadHead
    BY <1>13 DEF ReadHead
  <1>14. CASE StatAgain
    BY <1>14 DEF StatAgain
  <1>15. CASE FileGone
    BY <1>15 DEF FileGone, Quiet
  <1>16. CASE FirstSight
    BY <1>16 DEF FirstSight, Quiet
  <1>17. CASE Clamp
    BY <1>17 DEF Clamp, Quiet
  <1>18. CASE db_signature
    BY <1>18 DEF db_signature, Quiet
  <1>19. CASE snapshot_db
    BY <1>19 DEF snapshot_db
  <1>20. CASE read_threads
    BY <1>20 DEF read_threads, record_signature, Quiet
  <1>21. CASE BeginScan
    BY <1>21 DEF BeginScan, Quiet
  <1>22. CASE EndScan
    BY <1>22 DEF EndScan, Quiet
  <1>23. CASE \E f \in File : ScanFile(f)
    BY <1>23 DEF ScanFile
    <1> QED BY <1>1, <1>2, <1>3, <1>4, <1>5, <1>6, <1>7, <1>8, <1>9, <1>10, <1>11, <1>12,
             <1>13, <1>14, <1>15, <1>16, <1>17, <1>18, <1>19, <1>20, <1>21, <1>22, <1>23

-----------------------------------------------------------------------------
(* Zed.                                                                    *)

\* A commit makes a new signature, and a version no one has seen.
LEMMA ZedCommitKeeps ==
  ASSUME TailInv, ZedInv, ZedCommit
  PROVE  ZedInv'
  <1>1. UNCHANGED <<state, tick>> /\ None \notin Nat
    BY WatchersAssumption DEF ZedCommit
  <1>2. CASE \E t \in Thread, v \in {0, zed.sig + 2} :
              /\ zed' = [zed EXCEPT !.threads[t] = v, !.sig = @ + 1]
              /\ updates' = updates \ {t} /\ strayed' = strayed \ {t}
    <2>1. PICK t \in Thread, v \in {0, zed.sig + 2} :
              /\ zed' = [zed EXCEPT !.threads[t] = v, !.sig = @ + 1]
              /\ updates' = updates \ {t} /\ strayed' = strayed \ {t}
      BY <1>2
    <2>2. /\ DOMAIN zed' = DOMAIN zed /\ zed'.ok = zed.ok /\ zed'.sig = zed.sig + 1
          /\ zed'.threads = [zed.threads EXCEPT ![t] = v]
      BY <2>1 DEF ZedInv, ZedTypes
    <2>3. v \in Nat /\ zed.sig \in Nat
      BY DEF ZedInv, ZedTypes
    <2>4. ZedTypes' /\ Versions'
      BY <1>1, <2>2, <2>3 DEF ZedInv, ZedTypes, Versions
    <2>5. Snapshots'
      BY <1>1, <2>2, <2>3 DEF ZedInv, Snapshots
    <2>6. Remembered'
      <3>1. ASSUME NEW u \in Thread, state.threads[u] # 0, state.threads[u] = zed'.threads[u]
            PROVE  u \in updates' \cup strayed'
        <4>1. u # t
          BY <2>2, <2>3, <3>1 DEF ZedInv, ZedTypes, Versions
        <4>2. zed'.threads[u] = zed.threads[u]
          BY <2>2, <4>1 DEF ZedInv, ZedTypes
        <4> QED BY <2>1, <3>1, <4>1, <4>2 DEF ZedInv, Remembered
      <3> QED BY <1>1, <3>1 DEF Remembered
    <2>7. ThreadsReported'
      BY <1>1, <2>2, <2>3 DEF ZedInv, ZedTypes, Versions, ThreadsReported
    <2> QED BY <2>4, <2>5, <2>6, <2>7 DEF ZedInv
  <1>3. CASE zed' = [zed EXCEPT !.ok = ~ @, !.sig = @ + 1] /\ UNCHANGED <<updates, strayed>>
    <2>1. /\ DOMAIN zed' = DOMAIN zed /\ zed'.ok \in BOOLEAN /\ zed'.sig = zed.sig + 1
          /\ zed'.threads = zed.threads /\ zed.sig \in Nat
      BY <1>3 DEF ZedInv, ZedTypes
    <2>2. ZedTypes' /\ Versions'
      BY <1>1, <2>1 DEF ZedInv, ZedTypes, Versions
    <2>3. Snapshots'
      BY <1>1, <2>1 DEF ZedInv, Snapshots
    <2>4. Remembered'
      BY <1>1, <1>3, <2>1 DEF ZedInv, Remembered
    <2>5. ThreadsReported'
      BY <1>1, <2>1 DEF ZedInv, ZedTypes, Versions, ThreadsReported
    <2> QED BY <2>2, <2>3, <2>4, <2>5 DEF ZedInv
  <1> QED BY <1>2, <1>3 DEF ZedCommit

LEMMA SnapshotKeeps ==
  ASSUME TailInv, ZedInv, db_signature \/ snapshot_db
  PROVE  ZedInv'
  <1>1. UNCHANGED <<zed, state, updates, strayed>>
    BY DEF db_signature, snapshot_db, rowVars, ghostVars
  <1>2. Snapshots'
    <2>1. CASE db_signature
      <3>1. tick'.at = "snapshot" /\ tick'.sig = zed.sig
        BY <2>1 DEF db_signature, Quiet
      <3> QED BY <1>1, <3>1 DEF ZedInv, ZedTypes, Snapshots
    <2>2. CASE snapshot_db
      <3>1. /\ tick.at = "snapshot" /\ tick'.at = "diff" /\ tick'.sig = tick.sig
            /\ tick'.copy = zed.threads /\ tick'.found = zed.ok
        BY <2>2 DEF snapshot_db, TailInv, Types
      <3> QED BY <1>1, <3>1 DEF ZedInv, ZedTypes, Versions, Snapshots
    <2> QED BY <2>1, <2>2
  <1> QED BY <1>1, <1>2 DEF ZedInv, ZedTypes, Versions, Remembered, ThreadsReported

\* The difference to what is remembered: where the signature is still the one taken
\* before the snapshot, the snapshot is the database.
LEMMA ReadThreadsKeeps ==
  ASSUME TailInv, ZedInv, read_threads
  PROVE  ZedInv'
  <1> DEFINE changed == {t \in Thread : tick.copy[t] \notin {0, state.threads[t]}}
             emitted == {t \in changed : state.threads[t] # 0 \/ state.init}
             current == {t \in Thread : tick.copy[t] = zed.threads[t]}
  <1>1. /\ zed' = zed /\ tick.at = "diff" /\ tick'.at = "idle" /\ state'.sig = tick.sig
        /\ None \notin Nat
    <2>1. zed' = zed /\ tick.at = "diff" /\ tick' = Quiet /\ None \notin Nat
      BY WatchersAssumption DEF read_threads
    <2>2. state'.sig = tick.sig
      BY DEF read_threads, record_signature, TailInv, Types
    <2> QED BY <2>1, <2>2 DEF Quiet
  <1>2. /\ tick.sig \in Nat /\ tick.sig <= zed.sig /\ tick.copy \in [Thread -> Nat]
        /\ \A t \in Thread : tick.copy[t] <= zed.sig + 1
        /\ tick.sig = zed.sig => tick.copy = zed.threads /\ tick.found = zed.ok
    BY <1>1 DEF ZedInv, Snapshots
  <1>3. Snapshots'
    BY <1>1 DEF Snapshots
  <1>4. CASE tick.found
    <2>1. /\ state'.threads = tick.copy
          /\ updates' = updates \cup (emitted \cap current)
          /\ strayed' = strayed \cup ((changed \ emitted) \cap current)
      BY <1>4 DEF read_threads, record_signature, TailInv, Types
    <2>2. ASSUME NEW t \in Thread, tick.copy[t] # 0, tick.copy[t] = zed.threads[t]
          PROVE  t \in updates' \cup strayed'
      <3>1. CASE tick.copy[t] = state.threads[t]
        BY <2>1, <2>2, <3>1 DEF ZedInv, Remembered
      <3>2. CASE tick.copy[t] # state.threads[t]
        <4>1. t \in changed /\ t \in current
          BY <2>2, <3>2
        <4> HIDE DEF changed, emitted, current
        <4> QED BY <2>1, <4>1
      <3> QED BY <3>1, <3>2
    <2> HIDE DEF changed, emitted, current
    <2>3. ZedTypes' /\ Versions'
      BY <1>1, <1>2, <2>1 DEF ZedInv, ZedTypes, Versions
    <2>4. Remembered'
      BY <1>1, <2>1, <2>2 DEF Remembered
    <2>5. ThreadsReported'
      BY <1>1, <1>2, <2>2 DEF ThreadsReported
    <2> QED BY <1>3, <2>3, <2>4, <2>5 DEF ZedInv
  <1>5. CASE ~tick.found
    <2>1. state'.threads = state.threads /\ UNCHANGED <<updates, strayed>>
      BY <1>5 DEF read_threads, record_signature, TailInv, Types
    <2> HIDE DEF changed, emitted, current
    <2>2. ZedTypes' /\ Versions' /\ Remembered'
      BY <1>1, <1>2, <2>1 DEF ZedInv, ZedTypes, Versions, Remembered
    <2>3. ThreadsReported'
      BY <1>1, <1>2, <1>5 DEF ThreadsReported
    <2> QED BY <1>3, <2>2, <2>3 DEF ZedInv
  <1> QED BY <1>4, <1>5

-----------------------------------------------------------------------------
(* Scans.                                                                  *)

\* A save is later than the scan under way began, so it is the next one's.
LEMMA SaveKeeps ==
  ASSUME TailInv, ScanInv, NEW f \in File, Save(f)
  PROVE  ScanInv'
  <1>1. /\ clock' = clock + 1 /\ UNCHANGED <<state, tick>>
        /\ saves' = saves \ {f} /\ strayed' = strayed \ {f}
        /\ clock \in Nat /\ mtime \in [File -> Nat]
    BY DEF Save, ScanInv, ScanTypes
  <1>2. PICK v \in Nat : mtime' = [mtime EXCEPT ![f] = v] /\ v > clock
    <2>1. PICK ahead \in {0, Future + 1} : mtime' = [mtime EXCEPT ![f] = clock' + ahead]
      BY DEF Save
    <2>2. clock' + ahead \in Nat /\ clock' + ahead > clock
      BY <1>1, <2>1 DEF Future
    <2> QED BY <2>1, <2>2
  <1>3. mtime' \in [File -> Nat] /\ mtime'[f] = v /\ \A g \in File \ {f} : mtime'[g] = mtime[g]
    BY <1>1, <1>2
  <1>4. ScanTypes'
    BY <1>1, <1>3 DEF ScanInv, ScanTypes
  <1>5. Scanned'
    <2>1. ASSUME tick.at = "walk", NEW g \in walk \ tick.left,
                 mtime'[g] > tick.since, mtime'[g] <= tick.now
          PROVE  g \in saves'
      <3>1. tick.now \in Nat /\ tick.now <= clock
        BY <2>1 DEF ScanInv, ScanTypes
      <3>2. g # f
        BY <1>1, <1>2, <1>3, <2>1, <3>1
      <3>3. g \in File \ {f}
        BY <3>2 DEF walk
      <3> QED BY <1>1, <1>3, <2>1, <3>3 DEF ScanInv, Scanned
    <2> QED BY <1>1, <2>1 DEF Scanned
  <1>6. SavesKnown'
    <2>1. ASSUME state.last # None, NEW g \in walk, mtime'[g] # 0, mtime'[g] <= state.last
          PROVE  g \in saves' \cup strayed' \cup behind'
      <3>1. CASE g = f
        BY <2>1, <3>1 DEF Save
      <3>2. CASE g # f
        <4>1. mtime'[g] = mtime[g]
          BY <1>3, <3>2 DEF walk
        <4>2. g \in saves \cup strayed \cup behind
          BY <2>1, <4>1 DEF ScanInv, SavesKnown
        <4>3. g \in behind => g \in behind'
          BY <3>2 DEF Save
        <4> QED BY <1>1, <3>2, <4>2, <4>3
      <3> QED BY <3>1, <3>2
    <2> QED BY <1>1, <2>1 DEF SavesKnown
  <1> QED BY <1>4, <1>5, <1>6 DEF ScanInv

LEMMA BeginScanKeeps ==
  ASSUME TailInv, ScanInv, BeginScan
  PROVE  ScanInv'
  <1> DEFINE now == clock + 1
             earlier == IF now > Interval THEN now - Interval ELSE 0
             previous == IF state.last = None THEN earlier ELSE state.last
  <1>1. /\ UNCHANGED <<mtime, state, saves, strayed, behind>> /\ clock' = now
        /\ tick'.at = "walk" /\ tick'.now = now /\ tick'.left = walk
        /\ tick'.since = IF previous > now THEN earlier ELSE previous
    BY DEF BeginScan, Quiet, rowVars, ghostVars
  <1>2. earlier \in Nat /\ previous \in Nat /\ now \in Nat
    BY WatchersAssumption DEF ScanInv, ScanTypes
  <1>3. tick'.since \in Nat
    BY <1>1, <1>2
  <1>4. ScanTypes'
    BY <1>1, <1>2, <1>3 DEF ScanInv, ScanTypes
  <1> QED BY <1>1, <1>4 DEF ScanInv, Scanned, SavesKnown

LEMMA ScanFileKeeps ==
  ASSUME TailInv, ScanInv, NEW f \in File, ScanFile(f)
  PROVE  ScanInv'
  <1>1. /\ UNCHANGED <<clock, mtime, state, strayed, behind>> /\ saves \subseteq saves'
        /\ tick.at = "walk" /\ tick'.at = "walk" /\ tick'.now = tick.now
        /\ tick'.since = tick.since /\ tick'.left = tick.left \ {f}
    BY DEF ScanFile, clockVars, ghostVars, TailInv, Types
  <1>2. mtime[f] > tick.since /\ mtime[f] <= tick.now => f \in saves'
    <2>1. tick.now \in Nat /\ mtime[f] \in Nat
      BY <1>1 DEF ScanInv, ScanTypes
    <2> QED BY <2>1 DEF ScanFile, Future
  <1>3. ScanTypes'
    BY <1>1 DEF ScanInv, ScanTypes
  <1>4. Scanned'
    BY <1>1, <1>2 DEF ScanInv, Scanned
  <1>5. SavesKnown'
    BY <1>1 DEF ScanInv, SavesKnown
  <1> QED BY <1>3, <1>4, <1>5 DEF ScanInv

LEMMA EndScanKeeps ==
  ASSUME TailInv, ScanInv, EndScan
  PROVE  ScanInv'
  <1>1. /\ UNCHANGED <<clock, mtime, saves>> /\ tick.at = "walk" /\ tick.left = {}
        /\ tick'.at = "idle" /\ state'.last = tick.now
        /\ strayed' = strayed \cup
               {f \in File : mtime[f] <= tick.since /\ (tick.since # state.last \/ f \in behind)}
    BY DEF EndScan, clockVars, rowVars, Quiet, TailInv, Types
  <1>2. tick.now \in Nat /\ tick.since \in Nat /\ mtime \in [File -> Nat] /\ None \notin Nat
    BY <1>1, WatchersAssumption DEF ScanInv, ScanTypes
  <1>3. ASSUME NEW f \in walk, mtime[f] # 0, mtime[f] <= tick.now
        PROVE  f \in saves \cup strayed'
    <2>1. f \in File /\ mtime[f] \in Nat
      BY <1>2 DEF walk
    <2>2. CASE mtime[f] > tick.since
      BY <1>1, <1>3, <2>2 DEF ScanInv, Scanned
    <2>3. CASE mtime[f] <= tick.since
      <3>1. CASE tick.since # state.last
        BY <1>1, <2>1, <2>3, <3>1
      <3>2. CASE tick.since = state.last
        <4>1. f \in saves \cup strayed \cup behind
          BY <1>2, <1>3, <2>3, <3>2 DEF ScanInv, SavesKnown
        <4> QED BY <1>1, <2>1, <2>3, <4>1
      <3> QED BY <3>1, <3>2
    <2> QED BY <1>2, <2>1, <2>2, <2>3
  <1>4. SavesKnown'
    BY <1>1, <1>3 DEF SavesKnown
  <1> QED BY <1>1, <1>2, <1>4 DEF ScanInv, ScanTypes, Scanned

\* The clock moves on while a scan is under way, and back only between scans.
LEMMA ClockKeeps ==
  ASSUME TailInv, ScanInv, Type \/ Wait \/ ClockBack
  PROVE  ScanInv'
  <1>1. /\ UNCHANGED <<mtime, saves, strayed, behind, state, tick>>
        /\ clock' \in Nat /\ (tick.at = "walk" => clock <= clock')
    BY DEF Type, Wait, ClockBack, rowVars, ghostVars, ScanInv, ScanTypes
  <1> QED BY <1>1, ScanQuiet

-----------------------------------------------------------------------------
(* People.                                                                 *)

\* Only a prompt makes a human's row.
LEMMA HumanRows ==
  ASSUME NEW l
  PROVE  /\ "human" \in Range(ClaudeRows(l)) => l.kind \in {"prompt", "user_message"}
         /\ "human" \in Range(CodexRows(l)) => l.kind \in {"prompt", "user_message"}
         /\ "human" \notin Range(<<>>)
  <1>1. /\ Range(<<>>) = {} /\ Range(<<"agent">>) = {"agent"}
        /\ Range(<<"agent", "agent">>) = {"agent"}
    BY DEF Range
  <1>2. CASE is_human_prompt(l)
    BY <1>1, <1>2 DEF is_human_prompt
  <1>3. CASE ~is_human_prompt(l)
    <2>1. ClaudeRows(l) \in {<<"agent">>, <<"agent", "agent">>, <<>>}
      BY <1>3 DEF ClaudeRows
    <2>2. CodexRows(l) \in {<<"agent">>, <<"agent", "agent">>, <<>>}
      BY <1>3 DEF CodexRows
    <2> QED BY <1>1, <2>1, <2>2
  <1> QED BY <1>2, <1>3

LEMMA PromptsKeep ==
  ASSUME TailInv, HumanInv, read_new_lines
  PROVE  HumanInv'
  <1>1. PICK start \in Nat, buf \in Seq(Cell) :
           /\ \A i \in DOMAIN buf : buf[i] = cells[start + i] /\ start + i \in DOMAIN cells
           /\ human' = human \cup {n \in Parsed(buf) :
                  "human" \in Range(IF lines[n].old THEN <<>>
                                    ELSE IF watch = "claude" THEN ClaudeRows(lines[n])
                                                             ELSE CodexRows(lines[n]))}
    BY ChunkRead
  <1>2. UNCHANGED <<watch, lines>> /\ watch \notin {"ssh", "macApps"}
    BY DEF read_new_lines, TailInv, TickOf
  <1>3. ASSUME NEW h \in human'
        PROVE  lines[h].kind \in {"prompt", "user_message"} /\ h \in 1..Len(lines)
    <2>1. CASE h \in human
      BY <1>2, <2>1 DEF HumanInv, HumanWork
    <2>2. CASE h \notin human
      <3>1. /\ h \in Parsed(buf)
            /\ \/ "human" \in Range(<<>>)
               \/ "human" \in Range(ClaudeRows(lines[h]))
               \/ "human" \in Range(CodexRows(lines[h]))
        BY <1>1, <1>3, <2>2
      <3>2. PICK j \in DOMAIN buf : h = buf[j].n
        BY <3>1 DEF Parsed
      <3>3. h \in 1..Len(lines)
        BY CellsTyped, <1>1, <3>2 DEF Serial
      <3> QED BY <3>1, <3>3, HumanRows
    <2> QED BY <2>1, <2>2
  <1> QED BY <1>2, <1>3 DEF HumanInv, HumanWork

LEMMA WrittenKeeps ==
  ASSUME TailInv, HumanInv, StartLine
  PROVE  HumanInv'
  <1>1. PICK l : lines' = Append(lines, l)
    BY DEF StartLine
  <1>2. UNCHANGED <<watch, human, late>>
    BY DEF StartLine, rowVars, ghostVars
  <1>3. lines \in Seq(Line) /\ Len(lines) \in Nat
    BY DEF TailInv, Types
  <1>4. Len(lines') = Len(lines) + 1 /\ \A i \in 1..Len(lines) : lines'[i] = lines[i]
    BY <1>1, <1>3
  <1> QED BY <1>2, <1>3, <1>4 DEF HumanInv, HumanWork

LEMMA PresenceKeeps ==
  ASSUME TailInv, HumanInv, watch_ssh \/ watch_mac
  PROVE  HumanInv'
  <1>1. CASE watch_ssh
    <2>1. /\ watch' = watch /\ watch = "ssh" /\ human' = {<<clock, clock - key>>}
          /\ clock - key < IdleSeconds
      BY <1>1 DEF watch_ssh, Present
    <2> QED BY <2>1 DEF HumanInv, HumanWork
  <1>2. CASE watch_mac
    <2>1. /\ watch' = watch /\ watch = "macApps" /\ UNCHANGED lines
          /\ clock - key < IdleSeconds \/ faults' # faults
      BY <1>2 DEF watch_mac, Present, Fault, TailInv, Types, transcriptVars
    <2>2. CASE UNCHANGED <<human, late>>
      BY <2>1, <2>2 DEF HumanInv, HumanWork
    <2>3. CASE /\ human' = {<<clock, clock - key>>}
               /\ late' = IF faults' # faults THEN {clock} ELSE {}
      BY <2>1, <2>3 DEF HumanInv, HumanWork
    <2> QED BY <1>2, <2>2, <2>3 DEF watch_mac
  <1> QED BY <1>1, <1>2

-----------------------------------------------------------------------------
LEMMA ChangeNext ==
  ASSUME TailInv, ChangeInv, [Next]_vars
  PROVE  ChangeInv'
  <1>1. CASE UNCHANGED vars
    <2>1. UNCHANGED <<watch, zed, clock, mtime, state, tick, human, saves, updates, late, strayed,
                      behind, lines>>
      BY <1>1 DEF vars, transcriptVars, clockVars, rowVars, ghostVars
    <2>2. ZedInv'
      BY <2>1, ZedQuiet DEF ChangeInv
    <2>3. ScanInv'
      BY <2>1, ScanQuiet DEF ChangeInv, ScanInv, ScanTypes
    <2>4. HumanInv'
      BY <2>1 DEF ChangeInv, HumanInv, HumanWork
    <2> QED BY <2>2, <2>3, <2>4 DEF ChangeInv
  <1>2. CASE Next
    <2>1. ZedInv'
      <3>1. CASE ZedCommit \/ db_signature \/ snapshot_db \/ read_threads
        BY <3>1, ZedCommitKeeps, SnapshotKeeps, ReadThreadsKeeps DEF ChangeInv
      <3>2. CASE ~(ZedCommit \/ db_signature \/ snapshot_db \/ read_threads)
        <4>1. /\ zed' = zed /\ updates' = updates
              /\ strayed \cap Thread \subseteq strayed'
              /\ \/ state'.sig = state.sig /\ state'.threads = state.threads
                 \/ state'.sig = None /\ state'.threads = [t \in Thread |-> 0]
              /\ tick'.at \in {"snapshot", "diff"} =>
                     /\ tick'.at = tick.at /\ tick'.sig = tick.sig
                     /\ tick'.copy = tick.copy /\ tick'.found = tick.found
          <5>1. \/ Create \/ StartLine \/ FinishLine \/ Truncate \/ Type \/ Wait \/ ClockBack
                \/ (\E f \in File : Save(f)) \/ load_state \/ Abandon \/ BeginTranscript
                \/ NothingNew \/ ReadHead \/ StatAgain \/ FileGone \/ FirstSight \/ Clamp
                \/ read_new_lines \/ BeginScan \/ EndScan \/ (\E f \in File : ScanFile(f))
                \/ watch_ssh \/ watch_mac
            BY <1>2, <3>2 DEF Next, Environment, Transcript
          <5> QED BY <5>1, ZedFrame
        <4> QED BY <4>1, ZedQuiet DEF ChangeInv
      <3> QED BY <3>1, <3>2
    <2>2. ScanInv'
      <3>1. CASE \/ (\E f \in File : Save(f) \/ ScanFile(f))
                 \/ BeginScan \/ EndScan \/ ClockBack \/ Type \/ Wait
        BY <3>1, SaveKeeps, ScanFileKeeps, BeginScanKeeps, EndScanKeeps, ClockKeeps DEF ChangeInv
      <3>2. CASE ~(\/ (\E f \in File : Save(f) \/ ScanFile(f))
                   \/ BeginScan \/ EndScan \/ ClockBack \/ Type \/ Wait)
        <4>1. /\ UNCHANGED <<clock, mtime, saves, behind>>
              /\ strayed \cap walk \subseteq strayed'
              /\ state'.last \in {state.last, None}
              /\ tick'.at = "walk" =>
                     /\ tick.at = "walk" /\ tick'.now = tick.now /\ tick'.since = tick.since
                     /\ tick'.left = tick.left
          <5>1. \/ Create \/ StartLine \/ FinishLine \/ Truncate \/ ZedCommit \/ load_state
                \/ Abandon \/ BeginTranscript \/ NothingNew \/ ReadHead \/ StatAgain
                \/ FileGone \/ FirstSight \/ Clamp \/ read_new_lines \/ db_signature
                \/ snapshot_db \/ read_threads \/ watch_ssh \/ watch_mac
            BY <1>2, <3>2 DEF Next, Environment, Transcript
          <5> QED BY <5>1, ScanFrame
        <4>2. clock \in Nat
          BY DEF ChangeInv, ScanInv, ScanTypes
        <4> QED BY <4>1, <4>2, ScanQuiet DEF ChangeInv
      <3> QED BY <3>1, <3>2
    <2>3. HumanInv'
      <3>1. CASE read_new_lines \/ StartLine \/ watch_ssh \/ watch_mac
        BY <3>1, PromptsKeep, WrittenKeeps, PresenceKeeps DEF ChangeInv
      <3>2. CASE ~(read_new_lines \/ StartLine \/ watch_ssh \/ watch_mac)
        <4>1. UNCHANGED <<watch, human, late, lines>>
          <5>1. \/ Create \/ FinishLine \/ Truncate \/ ZedCommit \/ Type \/ Wait \/ ClockBack
                \/ (\E f \in File : Save(f)) \/ load_state \/ Abandon \/ BeginTranscript
                \/ NothingNew \/ ReadHead \/ StatAgain \/ FileGone \/ FirstSight \/ Clamp
                \/ db_signature \/ snapshot_db \/ read_threads \/ BeginScan \/ EndScan
                \/ \E f \in File : ScanFile(f)
            BY <1>2, <3>2 DEF Next, Environment, Transcript
          <5> QED BY <5>1, HumanFrame
        <4> QED BY <4>1 DEF ChangeInv, HumanInv, HumanWork
      <3> QED BY <3>1, <3>2
    <2> QED BY <2>1, <2>2, <2>3 DEF ChangeInv
  <1> QED BY <1>1, <1>2

\* A change made while a watcher looks is reported by it or by the next one, for any
\* commits, saves, steps of the clock, failures and abandoned ticks: db_signature is
\* taken before the snapshot, scan_start before the walk; and only prompts and keys
\* within the idle time count as a human's work.
THEOREM ChangesStayReported == Spec => []ChangesReported
  <1>1. Init => ChangeInv
    <2> USE DEF Init, NoState, Quiet
    <2>1. Init => ZedInv
      BY WatchersAssumption DEF ZedInv, ZedTypes, Versions, Snapshots, Remembered, ThreadsReported
    <2>2. Init => ScanInv
      BY WatchersAssumption DEF ScanInv, ScanTypes, Scanned, SavesKnown
    <2>3. Init => HumanInv
      BY DEF HumanInv, HumanWork
    <2> QED BY <2>1, <2>2, <2>3 DEF ChangeInv
  <1>2. ChangeInv => ChangesReported
    BY DEF ChangeInv, ZedInv, ScanInv, SavesKnown, HumanInv, ChangesReported, SavesReported
  <1> QED BY <1>1, <1>2, ChangeNext, TailInvariant, PTL DEF Spec

-----------------------------------------------------------------------------
(* The tick that gives the watchers' rows to the server: AgentTick.        *)

-----------------------------------------------------------------------------
(* The elements of a sequence at a set of its positions.                   *)

\* The positions of a sequence, and any of them, are finite in number.
LEMMA PositionsAreFinite ==
  ASSUME NEW S, NEW s \in Seq(S), NEW at \in SUBSET DOMAIN s
  PROVE  /\ at \subseteq Nat /\ IsFiniteSet(at) /\ Cardinality(at) \in Nat
         /\ IsFiniteSet(1..Cardinality(at))
         /\ Cardinality(1..Cardinality(at)) = Cardinality(at)
  <1>1. Len(s) \in Nat /\ DOMAIN s = 1..Len(s)
    OBVIOUS
  <1>2. IsFiniteSet(DOMAIN s)
    BY <1>1, FS_Interval
  <1>3. IsFiniteSet(at)
    BY <1>2, FS_Subset
  <1>4. Cardinality(at) \in Nat
    BY <1>3, FS_CardinalityType
  <1>5. at \subseteq Nat
    BY <1>1
  <1> DEFINE n == Cardinality(at)
  <1> HIDE DEF n
  <1>6. n \in Nat
    BY <1>4 DEF n
  <1>7. IsFiniteSet(1..n) /\ Cardinality(1..n) = n
    <2>1. /\ IsFiniteSet(1..n)
          /\ Cardinality(1..n) = IF 1 > n THEN 0 ELSE n - 1 + 1
      BY <1>6, FS_Interval
    <2> QED BY <1>6, <2>1
  <1> QED BY <1>3, <1>5, <1>6, <1>7 DEF n

\* The rank of a position is at most the number of positions, and later
\* positions rank higher.
LEMMA RanksIncrease ==
  ASSUME NEW S, NEW s \in Seq(S), NEW at \in SUBSET DOMAIN s
  PROVE  /\ \A i \in at : Rank(at, i) \in 1..Cardinality(at)
         /\ \A i, j \in at : Rank(at, i) = Rank(at, j) => i = j
  <1> DEFINE upto(i) == {j \in at : j <= i}
  <1>0. at \subseteq Nat /\ IsFiniteSet(at) /\ Cardinality(at) \in Nat
    BY PositionsAreFinite
  <1>1. ASSUME NEW i \in at
        PROVE  /\ IsFiniteSet(upto(i)) /\ Cardinality(upto(i)) \in Nat \ {0}
               /\ Cardinality(upto(i)) <= Cardinality(at)
    <2>1. upto(i) \in SUBSET at /\ upto(i) # {}
      BY <1>0
    <2>2. IsFiniteSet(upto(i)) /\ Cardinality(upto(i)) <= Cardinality(at)
      BY <1>0, <2>1, FS_Subset
    <2>3. Cardinality(upto(i)) \in Nat /\ Cardinality(upto(i)) # 0
      BY <2>1, <2>2, FS_CardinalityType, FS_EmptySet
    <2> QED BY <2>2, <2>3
  <1>2. ASSUME NEW i \in at, NEW j \in at, i < j
        PROVE  Cardinality(upto(i)) # Cardinality(upto(j))
    <2>1. upto(i) \in SUBSET upto(j)
      BY <1>0, <1>2
    <2>2. upto(i) # upto(j)
      <3>1. j \in upto(j) /\ j \notin upto(i)
        BY <1>0, <1>2
      <3> QED BY <3>1
    <2>3. IsFiniteSet(upto(j))
      BY <1>1
    <2> HIDE DEF upto
    <2> QED BY <2>1, <2>2, <2>3, FS_Subset
  <1>3. \A i, j \in at : Cardinality(upto(i)) = Cardinality(upto(j)) => i = j
    <2> SUFFICES ASSUME NEW i \in at, NEW j \in at, i # j
                 PROVE  Cardinality(upto(i)) # Cardinality(upto(j))
      OBVIOUS
    <2>1. i < j \/ j < i
      BY <1>0
    <2> QED BY <1>2, <2>1
  <1>4. \A i \in at : Rank(at, i) = Cardinality(upto(i))
    BY DEF Rank
  <1> HIDE DEF upto
  <1> QED BY <1>0, <1>1, <1>3, <1>4

\* Every rank up to the number of positions is taken, by the pigeonhole principle.
LEMMA RanksAreTaken ==
  ASSUME NEW S, NEW s \in Seq(S), NEW at \in SUBSET DOMAIN s,
         NEW k \in 1..Cardinality(at)
  PROVE  \E i \in at : Rank(at, i) = k
  <1> DEFINE n == Cardinality(at)
             ranks == 1..n
             others == ranks \ {k}
             f == [i \in at |-> Rank(at, i)]
  <1>0. /\ IsFiniteSet(at) /\ n \in Nat /\ IsFiniteSet(1..n) /\ Cardinality(1..n) = n
        /\ \A i \in at : Rank(at, i) \in 1..n
        /\ \A i, j \in at : Rank(at, i) = Rank(at, j) => i = j
    BY PositionsAreFinite, RanksIncrease
  <1> SUFFICES ASSUME \A i \in at : Rank(at, i) # k
               PROVE  FALSE
    OBVIOUS
  <1>1. f \in [at -> others] /\ k \in ranks
    BY <1>0
  <1>2. \A x, y \in at : f[x] = f[y] => x = y
    BY <1>0
  <1>3. IsFiniteSet(ranks) /\ Cardinality(ranks) = n /\ n = Cardinality(at)
    BY <1>0
  <1> HIDE DEF f, ranks, n
  <1>4. IsFiniteSet(others) /\ Cardinality(others) = n - 1
    BY <1>1, <1>3, FS_RemoveElement
  <1>5. Cardinality(others) < Cardinality(at)
    BY <1>0, <1>3, <1>4
  <1> HIDE DEF others
  <1>6. \E x, y \in at : x # y /\ f[x] = f[y]
    BY <1>0, <1>1, <1>4, <1>5, FS_PigeonHole
  <1> QED BY <1>2, <1>6

\* Kept returns each element at the positions once, and nothing else.
LEMMA KeptElements ==
  ASSUME NEW S, NEW s \in Seq(S), NEW at \in SUBSET DOMAIN s
  PROVE  /\ Kept(s, at) \in Seq(S) /\ Len(Kept(s, at)) = Cardinality(at)
         /\ \A k \in DOMAIN Kept(s, at) : \E i \in at : Kept(s, at)[k] = s[i]
         /\ \A i \in at : \E k \in DOMAIN Kept(s, at) : Kept(s, at)[k] = s[i]
         /\ (\A i, j \in at : s[i] = s[j] => i = j) =>
                \A k, m \in DOMAIN Kept(s, at) :
                    Kept(s, at)[k] = Kept(s, at)[m] => k = m
  <1> DEFINE n == Cardinality(at)
             nth(k) == CHOOSE i \in at : Rank(at, i) = k
  <1>0. n \in Nat /\ \A i \in at : s[i] \in S
    BY PositionsAreFinite
  <1>1. \A k \in 1..n : nth(k) \in at /\ Rank(at, nth(k)) = k
    BY RanksAreTaken
  <1>2. \A i \in at : Rank(at, i) \in 1..n /\ nth(Rank(at, i)) = i
    BY RanksIncrease
  <1>3. Kept(s, at) = [k \in 1..n |-> s[nth(k)]]
    BY DEF Kept
  <1> HIDE DEF nth, n
  <1>4. Kept(s, at) \in Seq(S) /\ Len(Kept(s, at)) = n /\ DOMAIN Kept(s, at) = 1..n
    <2>1. [k \in 1..n |-> s[nth(k)]] \in [1..n -> S]
      BY <1>0, <1>1
    <2> QED BY <1>0, <1>3, <2>1
  <1>5. \A k \in 1..n : Kept(s, at)[k] = s[nth(k)]
    BY <1>3
  <1> QED BY <1>1, <1>2, <1>4, <1>5 DEF n
\* A set of positions that is not empty has a first one.
LEMMA FirstPosition ==
  ASSUME NEW S, NEW s \in Seq(S), NEW at \in SUBSET DOMAIN s, at # {}
  PROVE  \E i \in at : \A j \in at : i <= j
  <1>0. at \subseteq Nat /\ IsFiniteSet(at) /\ Cardinality(at) \in Nat
    BY PositionsAreFinite
  <1>1. 1 \in 1..Cardinality(at)
    <2>1. Cardinality(at) # 0
      BY <1>0, FS_EmptySet
    <2> QED BY <1>0, <2>1
  <1>2. PICK i \in at : Rank(at, i) = 1
    BY <1>1, RanksAreTaken
  <1> DEFINE upto == {j \in at : j <= i}
  <1>3. IsFiniteSet(upto) /\ Cardinality(upto) = 1
    <2>1. upto \in SUBSET at
      OBVIOUS
    <2> QED BY <1>0, <1>2, <2>1, FS_Subset DEF Rank
  <1>4. \E x : upto = {x}
    BY <1>3, FS_Singleton
  <1>5. upto = {i}
    BY <1>0, <1>4
  <1>6. ASSUME NEW j \in at PROVE i <= j
    <2>1. CASE j <= i
      BY <1>0, <1>5, <2>1
    <2> QED BY <1>0, <2>1
  <1> QED BY <1>6

\* What a concatenation contains.
LEMMA ConcatContains ==
  ASSUME NEW S, NEW s \in Seq(S), NEW t \in Seq(S), NEW x
  PROVE  /\ s \o t \in Seq(S)
         /\ Contains(s \o t, x) <=> Contains(s, x) \/ Contains(t, x)
  <1>1. /\ s \o t \in Seq(S) /\ Len(s \o t) = Len(s) + Len(t)
        /\ Len(s) \in Nat /\ Len(t) \in Nat
        /\ \A i \in 1..(Len(s) + Len(t)) :
               (s \o t)[i] = IF i <= Len(s) THEN s[i] ELSE t[i - Len(s)]
    OBVIOUS
  <1>2. ASSUME Contains(s \o t, x) PROVE Contains(s, x) \/ Contains(t, x)
    <2>1. PICK i \in 1..(Len(s) + Len(t)) : (s \o t)[i] = x
      BY <1>1, <1>2 DEF Contains
    <2>2. CASE i <= Len(s)
      BY <1>1, <2>1, <2>2 DEF Contains
    <2>3. CASE ~(i <= Len(s))
      <3>1. i - Len(s) \in 1..Len(t) /\ t[i - Len(s)] = x
        BY <1>1, <2>1, <2>3
      <3> QED BY <3>1 DEF Contains
    <2> QED BY <2>2, <2>3
  <1>3. ASSUME Contains(s, x) PROVE Contains(s \o t, x)
    BY <1>1, <1>3 DEF Contains
  <1>4. ASSUME Contains(t, x) PROVE Contains(s \o t, x)
    <2>1. PICK i \in 1..Len(t) : t[i] = x
      BY <1>4 DEF Contains
    <2>2. Len(s) + i \in 1..(Len(s) + Len(t)) /\ (s \o t)[Len(s) + i] = x
      BY <1>1, <2>1
    <2> QED BY <1>1, <2>2 DEF Contains
  <1> QED BY <1>1, <1>2, <1>3, <1>4

-----------------------------------------------------------------------------
(* The queue file and the heartbeats table.                                *)

QueueLine == Row \cup {Garbage}

\* A reader gets every row that is whole.
LEMMA ReaderSeesRows ==
  ASSUME queue \in Seq(QueueLine)
  PROVE  /\ read_queue \in Seq(Row)
         /\ \A n \in Row : InQueue(n) => Contains(read_queue, n)
  <1> DEFINE at == {i \in DOMAIN queue : queue[i] # Garbage}
  <1>1. /\ at \in SUBSET DOMAIN queue
        /\ \A i \in at : queue[i] \in Row
        /\ \A i \in DOMAIN queue : queue[i] \in Row => i \in at
        /\ DOMAIN queue = 1..Len(queue)
    BY DEF QueueLine, Garbage, Row
  <1>2. read_queue = Kept(queue, at)
    BY DEF read_queue
  <1> HIDE DEF at
  <1>3. /\ read_queue \in Seq(QueueLine)
        /\ \A k \in DOMAIN read_queue : \E i \in at : read_queue[k] = queue[i]
        /\ \A i \in at : \E k \in DOMAIN read_queue : read_queue[k] = queue[i]
    BY <1>1, <1>2, KeptElements
  <1> HIDE DEF read_queue
  <1>4. \A k \in DOMAIN read_queue : read_queue[k] \in Row
    BY <1>1, <1>3
  <1>5. read_queue \in Seq(Row)
    BY <1>3, <1>4
  <1>6. ASSUME NEW n \in Row, InQueue(n) PROVE Contains(read_queue, n)
    <2>1. PICK i \in DOMAIN queue : queue[i] = n
      BY <1>1, <1>6 DEF InQueue, Contains
    <2>2. PICK k \in DOMAIN read_queue : read_queue[k] = n
      BY <1>1, <1>3, <2>1
    <2> QED BY <1>3, <2>2 DEF Contains
  <1> QED BY <1>5, <1>6

\* An append keeps what is in the file and adds the rows, except the one that lands
\* on a half line.
LEMMA AppendAdds ==
  ASSUME queue \in Seq(QueueLine), NEW rows \in Seq(Row)
  PROVE  /\ Appended(rows) \in Seq(QueueLine)
         /\ \A n \in Row : InQueue(n) => Contains(Appended(rows), n)
         /\ \A n \in Row : Contains(Appended(rows), n) => InQueue(n) \/ Contains(rows, n)
         /\ \A n \in Row : Contains(rows, n) =>
                Contains(Appended(rows), n) \/ (torn /\ rows # <<>> /\ n = Head(rows))
  <1>0. rows \in Seq(QueueLine) /\ <<Garbage>> \in Seq(QueueLine)
    BY DEF QueueLine
  <1>1. CASE ~(torn /\ rows # <<>>)
    <2>1. Appended(rows) = queue \o rows
      BY <1>1 DEF Appended
    <2>2. /\ queue \o rows \in Seq(QueueLine)
          /\ \A n \in Row : Contains(queue \o rows, n) <=> Contains(queue, n) \/ Contains(rows, n)
      BY <1>0, ConcatContains
    <2> QED BY <2>1, <2>2 DEF InQueue
  <1>2. CASE torn /\ rows # <<>>
    <2> DEFINE half == queue \o <<Garbage>>
               rest == Tail(rows)
    <2>1. Appended(rows) = half \o rest
      BY <1>2 DEF Appended
    <2>2. /\ rest \in Seq(QueueLine)
          /\ \A n \in Row : Contains(rest, n) => Contains(rows, n)
          /\ \A n \in Row : Contains(rows, n) => n = Head(rows) \/ Contains(rest, n)
      <3>1. /\ Len(rows) \in Nat \ {0} /\ Len(rest) = Len(rows) - 1
            /\ \A i \in 1..Len(rest) : rest[i] = rows[i + 1]
            /\ rest \in Seq(Row) /\ Head(rows) = rows[1]
        BY <1>2
      <3> HIDE DEF rest
      <3>2. \A n \in Row : Contains(rest, n) => Contains(rows, n)
        BY <3>1 DEF Contains
      <3>3. ASSUME NEW n \in Row, Contains(rows, n), n # Head(rows) PROVE Contains(rest, n)
        <4>1. PICK i \in 1..Len(rows) : rows[i] = n
          BY <3>3 DEF Contains
        <4>2. i - 1 \in 1..Len(rest) /\ rest[i - 1] = n
          BY <3>1, <3>3, <4>1
        <4> QED BY <4>2 DEF Contains
      <3> QED BY <3>1, <3>2, <3>3 DEF QueueLine
    <2>3. /\ half \in Seq(QueueLine)
          /\ \A n \in Row : Contains(half, n) <=> Contains(queue, n) \/ Contains(<<Garbage>>, n)
      BY <1>0, ConcatContains
    <2>4. \A n \in Row : ~Contains(<<Garbage>>, n)
      BY AgentAssumption DEF Contains, Garbage, Row
    <2> HIDE DEF half, rest
    <2>5. /\ half \o rest \in Seq(QueueLine)
          /\ \A n \in Row : Contains(half \o rest, n) <=> Contains(half, n) \/ Contains(rest, n)
      BY <2>2, <2>3, ConcatContains
    <2> QED BY <1>2, <2>1, <2>2, <2>3, <2>4, <2>5 DEF InQueue
  <1> QED BY <1>1, <1>2

\* Every row of a batch is in the table afterwards, and none is there twice.
LEMMA InsertIsIdempotent ==
  ASSUME NEW table \in Seq(Row), NEW rows \in Seq(Row)
  PROVE  LET after == insert_heartbeats(table, rows) IN
         /\ after \in Seq(Row)
         /\ \A n \in Row : Contains(after, n) <=> Contains(table, n) \/ Contains(rows, n)
         /\ (\A i, j \in DOMAIN table : table[i] = table[j] => i = j) =>
                \A i, j \in DOMAIN after : after[i] = after[j] => i = j
  <1> DEFINE at == Inserted(table, rows)
             new == Kept(rows, at)
  <1>0. /\ Len(rows) \in Nat /\ DOMAIN rows = 1..Len(rows)
        /\ Len(table) \in Nat /\ DOMAIN table = 1..Len(table)
    OBVIOUS
  <1>1. /\ at \in SUBSET DOMAIN rows
        /\ \A i \in at : ~Contains(table, rows[i])
        /\ \A i \in at : \A j \in 1..(i - 1) : rows[j] # rows[i]
        /\ \A i \in DOMAIN rows : ~Contains(table, rows[i])
                                  /\ (\A j \in 1..(i - 1) : rows[j] # rows[i]) => i \in at
    BY DEF Inserted
  <1> HIDE DEF at
  <1>2. \A i, j \in at : rows[i] = rows[j] => i = j
    <2> SUFFICES ASSUME NEW i \in at, NEW j \in at, rows[i] = rows[j], i # j
                 PROVE  FALSE
      OBVIOUS
    <2>1. i \in 1..(j - 1) \/ j \in 1..(i - 1)
      BY <1>0, <1>1
    <2> QED BY <1>1, <2>1
  <1>3. /\ new \in Seq(Row)
        /\ \A k \in DOMAIN new : \E i \in at : new[k] = rows[i]
        /\ \A i \in at : \E k \in DOMAIN new : new[k] = rows[i]
        /\ \A k, m \in DOMAIN new : new[k] = new[m] => k = m
    BY <1>1, <1>2, KeptElements
  <1> HIDE DEF new
  <1>4. insert_heartbeats(table, rows) = table \o new
    BY DEF insert_heartbeats, new, at
  <1>5. Len(new) \in Nat /\ DOMAIN new = 1..Len(new)
    BY <1>3
  <1>6. \A k \in DOMAIN new : ~Contains(table, new[k])
    BY <1>1, <1>3
  <1>7. \A n \in Row : Contains(new, n) => Contains(rows, n)
    BY <1>0, <1>1, <1>3, <1>5 DEF Contains
  <1>8. ASSUME NEW n \in Row, Contains(rows, n), ~Contains(table, n)
        PROVE  Contains(new, n)
    <2> DEFINE same == {i \in DOMAIN rows : rows[i] = n}
    <2>1. same \in SUBSET DOMAIN rows /\ same # {}
      BY <1>0, <1>8 DEF Contains
    <2> HIDE DEF same
    <2>2. PICK i \in same : \A j \in same : i <= j
      BY <2>1, FirstPosition
    <2>3. i \in DOMAIN rows /\ rows[i] = n /\ \A j \in DOMAIN rows : rows[j] = n => j \in same
      BY <2>2 DEF same
    <2>4. \A j \in 1..(i - 1) : rows[j] # rows[i]
      BY <1>0, <2>2, <2>3
    <2>5. i \in at
      BY <1>1, <1>8, <2>3, <2>4
    <2>6. PICK k \in DOMAIN new : new[k] = n
      BY <1>3, <2>3, <2>5
    <2> QED BY <1>5, <2>6 DEF Contains
  <1>9. /\ table \o new \in Seq(Row)
        /\ \A n \in Row : Contains(table \o new, n) <=> Contains(table, n) \/ Contains(new, n)
    BY <1>3, ConcatContains
  <1>10. ASSUME \A i, j \in DOMAIN table : table[i] = table[j] => i = j,
                NEW i \in DOMAIN (table \o new), NEW j \in DOMAIN (table \o new),
                (table \o new)[i] = (table \o new)[j]
         PROVE  i = j
    <2> DEFINE n == Len(table)
    <2>1. /\ DOMAIN (table \o new) = 1..(n + Len(new))
          /\ \A k \in 1..(n + Len(new)) :
                 (table \o new)[k] = IF k <= n THEN table[k] ELSE new[k - n]
      BY <1>3
    <2>2. CASE i <= n /\ j <= n
      BY <1>0, <1>10, <2>1, <2>2
    <2>3. CASE i > n /\ j > n
      <3>1. i - n \in DOMAIN new /\ j - n \in DOMAIN new /\ new[i - n] = new[j - n]
        BY <1>0, <1>5, <1>10, <2>1, <2>3
      <3> QED BY <1>0, <1>3, <1>10, <2>1, <3>1
    <2>4. CASE i <= n /\ j > n
      <3>1. i \in 1..Len(table) /\ j - n \in DOMAIN new /\ new[j - n] = table[i]
        BY <1>0, <1>5, <1>10, <2>1, <2>4
      <3> QED BY <1>6, <3>1 DEF Contains
    <2>5. CASE i > n /\ j <= n
      <3>1. j \in 1..Len(table) /\ i - n \in DOMAIN new /\ new[i - n] = table[j]
        BY <1>0, <1>5, <1>10, <2>1, <2>5
      <3> QED BY <1>6, <3>1 DEF Contains
    <2> QED BY <1>0, <1>5, <2>1, <2>2, <2>3, <2>4, <2>5
  <1> QED BY <1>4, <1>7, <1>8, <1>9, <1>10

-----------------------------------------------------------------------------
(* The tick.                                                               *)

\* A heartbeat that the offset may pass: on disk, on the server, or lost by its append.
Safe(n) == InQueue(n) \/ Stored(n) \/ n \in spoiled

\* What the watchers returned is all that lies between the saved offset and the new
\* one; until it is appended it is nowhere else.
FreshIsNew ==
    pc = "collected" =>
        /\ \A n \in (offset + 1)..memory : Contains(fresh, n)
        /\ \A n \in Row : Contains(fresh, n) => Contains(pending, n)

\* The offset in memory may be saved: every row up to it is safe.
StateIsSafe == pc = "persisted" => \A n \in 1..memory : Safe(n)

\* What may be sent is all that is on disk, so that a rewrite forgets nothing else.
PendingHasQueue == pc # "idle" => \A n \in Row : InQueue(n) => Contains(pending, n)

\* The rows the rewrite leaves out are the ones the server has confirmed.
TakenIsStored ==
    pc = "confirmed" => taken <= Len(pending) /\ \A i \in 1..taken : Stored(pending[i])

TickInv ==
    /\ TickTypeOK /\ NoActivityLost /\ StoredOnce
    /\ FreshIsNew /\ StateIsSafe /\ PendingHasQueue /\ TakenIsStored
\* The initial state has nothing to lose.
LEMMA TickStarts ==
  ASSUME TickInit
  PROVE  TickInv
  <1> USE AgentAssumption DEF TickInit
  <1>1. TickTypeOK
    <2>1. <<>> \in Seq(Row) /\ <<>> \in Seq(Row \cup {Garbage})
      OBVIOUS
    <2>2. 0 \in 0..MaxRows /\ 0 \in 0..MaxBatch /\ 0 \in 0..MaxTickFaults
      OBVIOUS
    <2> QED BY <2>1, <2>2 DEF TickTypeOK
  <1>2. NoActivityLost /\ StoredOnce
    BY DEF NoActivityLost, StoredOnce
  <1>3. FreshIsNew /\ StateIsSafe /\ PendingHasQueue /\ TakenIsStored
    BY DEF FreshIsNew, StateIsSafe, PendingHasQueue, TakenIsStored
  <1> QED BY <1>1, <1>2, <1>3 DEF TickInv

\* A function on an initial segment of the numbers is a sequence.
LEMMA FunctionIsSeq ==
  ASSUME NEW S, NEW k \in Nat, NEW f \in [1..k -> S]
  PROVE  f \in Seq(S) /\ Len(f) = k
  OBVIOUS

\* What the watchers return: the rows from the offset to the source.
LEMMA WatchersReturn ==
  ASSUME TickTypeOK, NEW rows, rows = [i \in 1..(source - offset) |-> offset + i]
  PROVE  /\ rows \in Seq(Row)
         /\ \A n \in (offset + 1)..source : Contains(rows, n)
  <1>0. source \in 0..MaxRows /\ offset \in 0..MaxRows /\ MaxRows \in Nat
    BY AgentAssumption DEF TickTypeOK
  <1>1. CASE source <= offset
    <2>1. rows = <<>>
      <3>1. 1..(source - offset) = {}
        BY <1>0, <1>1
      <3> QED BY <3>1
    <2>2. (offset + 1)..source = {}
      BY <1>0, <1>1
    <2>3. <<>> \in Seq(Row)
      OBVIOUS
    <2> QED BY <2>1, <2>2, <2>3
  <1>2. CASE source > offset
    <2> DEFINE k == source - offset
    <2>1. k \in Nat /\ \A i \in 1..k : offset + i \in Row
      BY <1>0, <1>2 DEF Row
    <2>2. rows \in [1..k -> Row]
      BY <2>1
    <2>3. rows \in Seq(Row) /\ Len(rows) = k
      BY <2>1, <2>2, FunctionIsSeq
    <2>4. ASSUME NEW n \in (offset + 1)..source PROVE Contains(rows, n)
      <3>1. n - offset \in 1..k /\ rows[n - offset] = n
        BY <1>0, <1>2
      <3> QED BY <2>3, <3>1 DEF Contains
    <2> QED BY <2>3, <2>4
  <1> QED BY <1>0, <1>1, <1>2

\* A prefix of a sequence of rows.
LEMMA PrefixRows ==
  ASSUME NEW rows \in Seq(Row), NEW n \in 0..Len(rows)
  PROVE  /\ SubSeq(rows, 1, n) \in Seq(Row)
         /\ \A i \in 1..n : Contains(SubSeq(rows, 1, n), rows[i])
         /\ \A r \in Row : Contains(SubSeq(rows, 1, n), r) => Contains(rows, r)
  <1>1. /\ SubSeq(rows, 1, n) \in Seq(Row) /\ Len(SubSeq(rows, 1, n)) = n
        /\ \A i \in 1..n : SubSeq(rows, 1, n)[i] = rows[i]
    OBVIOUS
  <1> QED BY <1>1 DEF Contains

\* The number of rows sent.
LEMMA BatchFits ==
  ASSUME TickTypeOK
  PROVE  take_send_batch \in 0..Len(pending) /\ take_send_batch <= MaxBatch
  BY AgentAssumption DEF TickTypeOK, take_send_batch

\* What a batch leaves on the server.
LEMMA BatchInserted ==
  ASSUME TickTypeOK, StoredOnce, NEW after,
         after = insert_heartbeats(server, SubSeq(pending, 1, take_send_batch))
  PROVE  /\ after \in Seq(Row)
         /\ \A n \in Row : Stored(n) => Contains(after, n)
         /\ \A i \in 1..take_send_batch : Contains(after, pending[i])
         /\ \A i, j \in DOMAIN after : after[i] = after[j] => i = j
  <1> DEFINE k == take_send_batch
             batch == SubSeq(pending, 1, k)
  <1>1. k \in 0..Len(pending) /\ pending \in Seq(Row) /\ server \in Seq(Row)
    BY BatchFits DEF TickTypeOK
  <1> HIDE DEF k
  <1>2. /\ batch \in Seq(Row)
        /\ \A i \in 1..k : Contains(batch, pending[i])
    BY <1>1, PrefixRows
  <1> HIDE DEF batch
  <1>3. after = insert_heartbeats(server, batch)
    BY DEF batch, k
  <1>4. /\ after \in Seq(Row)
        /\ \A n \in Row : Contains(after, n) <=> Contains(server, n) \/ Contains(batch, n)
        /\ \A i, j \in DOMAIN after : after[i] = after[j] => i = j
    BY <1>1, <1>2, <1>3, InsertIsIdempotent DEF StoredOnce
  <1>5. \A i \in 1..k : pending[i] \in Row
    BY <1>1
  <1> QED BY <1>2, <1>4, <1>5 DEF Stored, k

\* An append that fails half way keeps the file's rows and adds only fresh ones.
LEMMA PartialAppendAdds ==
  ASSUME TickTypeOK, PartialAppend
  PROVE  /\ queue' \in Seq(QueueLine) /\ torn' \in BOOLEAN
         /\ \A n \in Row : InQueue(n) => InQueue(n)'
         /\ \A n \in Row : InQueue(n)' => InQueue(n) \/ Contains(fresh, n)
  <1>0. queue \in Seq(QueueLine) /\ fresh \in Seq(Row)
    BY DEF TickTypeOK, QueueLine
  <1>1. CASE UNCHANGED <<queue, torn>>
    BY <1>0, <1>1 DEF InQueue, TickTypeOK
  <1>2. ASSUME NEW n \in 0..Len(fresh), queue' = Appended(SubSeq(fresh, 1, n)),
               torn' = (n < Len(fresh))
        PROVE  /\ queue' \in Seq(QueueLine) /\ torn' \in BOOLEAN
               /\ \A m \in Row : InQueue(m) => InQueue(m)'
               /\ \A m \in Row : InQueue(m)' => InQueue(m) \/ Contains(fresh, m)
    <2> DEFINE part == SubSeq(fresh, 1, n)
    <2>1. part \in Seq(Row) /\ \A r \in Row : Contains(part, r) => Contains(fresh, r)
      BY <1>0, <1>2, PrefixRows
    <2> HIDE DEF part
    <2>2. /\ Appended(part) \in Seq(QueueLine)
          /\ \A m \in Row : InQueue(m) => Contains(Appended(part), m)
          /\ \A m \in Row : Contains(Appended(part), m) => InQueue(m) \/ Contains(part, m)
      BY <1>0, <2>1, AppendAdds
    <2>3. queue' = Appended(part)
      BY <1>2 DEF part
    <2> QED BY <1>2, <2>1, <2>2, <2>3 DEF InQueue
  <1> QED BY <1>1, <1>2 DEF PartialAppend
-----------------------------------------------------------------------------
(* One step.                                                               *)

\* A row leaves the queue only for the server's table.
Delivers == \A n \in Row : InQueue(n) => InQueue(n)' \/ Stored(n)'

\* A step that leaves the files and the table alone loses nothing.
LEMMA SafeStays ==
  ASSUME TickTypeOK, UNCHANGED <<queue, server, spoiled>>
  PROVE  /\ \A n : InQueue(n)' <=> InQueue(n)
         /\ \A n : Stored(n)' <=> Stored(n)
         /\ Delivers /\ (StoredOnce => StoredOnce')
         /\ (UNCHANGED offset => (NoActivityLost => NoActivityLost'))
  BY DEF InQueue, Stored, Delivers, StoredOnce, NoActivityLost

\* The watchers run: what is pending is the file's rows and the fresh ones.
LEMMA WatchStep ==
  ASSUME TickInv, run_watchers
  PROVE  TickInv' /\ Delivers
  <1> USE AgentAssumption DEF TickInv
  <1> DEFINE rows == [i \in 1..(source - offset) |-> offset + i]
  <1>1. /\ fresh' = rows /\ pending' = read_queue \o rows
        /\ pc' = "collected" /\ memory' = source
        /\ UNCHANGED <<source, offset, queue, torn, server, taken, spoiled, tick_faults>>
    BY DEF run_watchers
  <1>2. rows \in Seq(Row) /\ \A n \in (offset + 1)..source : Contains(rows, n)
    BY WatchersReturn
  <1> HIDE DEF rows
  <1>3. /\ read_queue \in Seq(Row)
        /\ \A n \in Row : InQueue(n) => Contains(read_queue, n)
    BY ReaderSeesRows DEF TickTypeOK, QueueLine
  <1>4. /\ pending' \in Seq(Row)
        /\ \A n \in Row : Contains(pending', n) <=> Contains(read_queue, n) \/ Contains(rows, n)
    BY <1>1, <1>2, <1>3, ConcatContains
  <1>5. TickTypeOK'
    BY <1>1, <1>2, <1>4 DEF TickTypeOK
  <1>6. NoActivityLost' /\ StoredOnce' /\ Delivers /\ \A n : InQueue(n)' <=> InQueue(n)
    BY <1>1, SafeStays
  <1>7. FreshIsNew'
    BY <1>1, <1>2, <1>4 DEF FreshIsNew
  <1>8. PendingHasQueue'
    BY <1>3, <1>4, <1>6 DEF PendingHasQueue
  <1>9. StateIsSafe' /\ TakenIsStored'
    BY <1>1 DEF StateIsSafe, TakenIsStored
  <1> QED BY <1>5, <1>6, <1>7, <1>8, <1>9

\* An append that reports success: only the row that met a half line is lost.
LEMMA AppendStep ==
  ASSUME TickInv, append_queue
  PROVE  TickInv' /\ Delivers
  <1> USE AgentAssumption DEF TickInv
  <1>0. /\ queue \in Seq(QueueLine) /\ fresh \in Seq(Row) /\ pending \in Seq(Row)
        /\ memory \in 0..MaxRows /\ offset \in 0..MaxRows /\ spoiled \in SUBSET Row
        /\ pc = "collected"
    BY DEF TickTypeOK, QueueLine, append_queue
  <1>1. /\ pc' = "persisted" /\ queue' = Appended(fresh) /\ torn' = (torn /\ fresh = <<>>)
        /\ spoiled' = IF torn /\ fresh # <<>> THEN spoiled \cup {Head(fresh)} ELSE spoiled
        /\ UNCHANGED <<source, offset, server, memory, fresh, pending, taken, tick_faults>>
    BY DEF append_queue
  <1>2. /\ queue' \in Seq(QueueLine)
        /\ \A n \in Row : InQueue(n) => InQueue(n)'
        /\ \A n \in Row : InQueue(n)' => InQueue(n) \/ Contains(fresh, n)
        /\ \A n \in Row : Contains(fresh, n) =>
               InQueue(n)' \/ (torn /\ fresh # <<>> /\ n = Head(fresh))
    BY <1>0, <1>1, AppendAdds DEF InQueue
  <1>3. fresh # <<>> => Head(fresh) \in Row
    BY <1>0
  <1>4. spoiled' \in SUBSET Row /\ spoiled \subseteq spoiled'
        /\ (torn /\ fresh # <<>> => Head(fresh) \in spoiled')
    BY <1>0, <1>1, <1>3
  <1>5. TickTypeOK'
    BY <1>1, <1>2, <1>4 DEF TickTypeOK, QueueLine
  <1>6. \A n : Stored(n)' <=> Stored(n)
    BY <1>1 DEF Stored
  <1>7. \A n \in Row : Safe(n) => Safe(n)'
    BY <1>2, <1>4, <1>6 DEF Safe
  <1>8. \A n \in Row : Contains(fresh, n) => Safe(n)'
    BY <1>2, <1>4 DEF Safe
  <1>9. \A n \in 1..offset : n \in Row /\ Safe(n)
    BY <1>0 DEF NoActivityLost, Safe, Row
  <1>10. NoActivityLost'
    BY <1>1, <1>7, <1>9 DEF NoActivityLost, Safe
  <1>11. StateIsSafe'
    <2>1. ASSUME NEW n \in 1..memory PROVE Safe(n)'
      <3>1. n \in Row
        BY <1>0 DEF Row
      <3>2. CASE n <= offset
        BY <1>0, <1>7, <1>9, <3>1, <3>2
      <3>3. CASE ~(n <= offset)
        <4>1. n \in (offset + 1)..memory
          BY <1>0, <3>3
        <4> QED BY <1>0, <1>8, <3>1, <4>1 DEF FreshIsNew
      <3> QED BY <3>2, <3>3
    <2> QED BY <1>1, <2>1 DEF StateIsSafe
  <1>12. StoredOnce' /\ FreshIsNew' /\ TakenIsStored'
    BY <1>1 DEF StoredOnce, FreshIsNew, TakenIsStored
  <1>13. PendingHasQueue'
    BY <1>0, <1>1, <1>2 DEF PendingHasQueue, FreshIsNew
  <1>14. Delivers
    BY <1>2 DEF Delivers
  <1> QED BY <1>5, <1>10, <1>11, <1>12, <1>13, <1>14

\* An append that fails, whether the tick goes on or the process dies in it.
LEMMA FailedAppendStep ==
  ASSUME TickInv, AppendFails \/ CrashInAppend
  PROVE  TickInv' /\ Delivers
  <1> USE AgentAssumption DEF TickInv
  <1>0. /\ fresh \in Seq(Row) /\ pending \in Seq(Row) /\ pc = "collected"
        /\ memory \in 0..MaxRows /\ offset \in 0..MaxRows /\ spoiled \in SUBSET Row
    BY DEF TickTypeOK, AppendFails, CrashInAppend
  <1>1. /\ PartialAppend /\ TickFault /\ pc' \in {"persisted", "idle"}
        /\ UNCHANGED <<source, offset, server, memory, fresh, pending, taken>>
    BY DEF AppendFails, CrashInAppend
  <1>2. /\ queue' \in Seq(QueueLine) /\ torn' \in BOOLEAN
        /\ \A n \in Row : InQueue(n) => InQueue(n)'
        /\ \A n \in Row : InQueue(n)' => InQueue(n) \/ Contains(fresh, n)
    BY <1>1, PartialAppendAdds
  <1>3. /\ spoiled' \in SUBSET Row /\ spoiled \subseteq spoiled'
        /\ pc' = "persisted" =>
               \A n \in Row : Contains(fresh, n) => InQueue(n)' \/ n \in spoiled'
    <2>1. CASE AppendFails
      <3>1. spoiled' = spoiled \cup {n \in ToSet(fresh) : ~Contains(queue', n)}
        BY <2>1 DEF AppendFails
      <3>2. ToSet(fresh) \in SUBSET Row /\ \A n \in Row : Contains(fresh, n) => n \in ToSet(fresh)
        BY <1>0 DEF ToSet, Contains
      <3> QED BY <1>0, <3>1, <3>2 DEF InQueue
    <2>2. CASE CrashInAppend
      BY <1>0, <2>2 DEF CrashInAppend
    <2> QED BY <2>1, <2>2
  <1>4. TickTypeOK'
    <2>1. tick_faults' \in 0..MaxTickFaults
      BY <1>1 DEF TickFault, TickTypeOK
    <2> QED BY <1>1, <1>2, <1>3, <2>1 DEF TickTypeOK, QueueLine
  <1>5. \A n : Stored(n)' <=> Stored(n)
    BY <1>1 DEF Stored
  <1>6. \A n \in Row : Safe(n) => Safe(n)'
    BY <1>2, <1>3, <1>5 DEF Safe
  <1>7. \A n \in 1..offset : n \in Row /\ Safe(n)
    BY <1>0 DEF NoActivityLost, Safe, Row
  <1>8. NoActivityLost'
    BY <1>1, <1>6, <1>7 DEF NoActivityLost, Safe
  <1>9. StateIsSafe'
    <2>1. ASSUME NEW n \in 1..memory, pc' = "persisted" PROVE Safe(n)'
      <3>1. n \in Row
        BY <1>0 DEF Row
      <3>2. CASE n <= offset
        BY <1>0, <1>6, <1>7, <3>1, <3>2
      <3>3. CASE ~(n <= offset)
        <4>1. n \in (offset + 1)..memory
          BY <1>0, <3>3
        <4>2. Contains(fresh, n)
          BY <1>0, <4>1 DEF FreshIsNew
        <4> QED BY <1>3, <2>1, <3>1, <4>2 DEF Safe
      <3> QED BY <3>2, <3>3
    <2> QED BY <1>1, <2>1 DEF StateIsSafe
  <1>10. StoredOnce' /\ FreshIsNew' /\ TakenIsStored'
    BY <1>1 DEF StoredOnce, FreshIsNew, TakenIsStored
  <1>11. PendingHasQueue'
    BY <1>0, <1>1, <1>2 DEF PendingHasQueue, FreshIsNew
  <1>12. Delivers
    BY <1>2 DEF Delivers
  <1> QED BY <1>4, <1>8, <1>9, <1>10, <1>11, <1>12
\* The offset is saved when every row up to it is safe, or not at all.
LEMMA SaveStateStep ==
  ASSUME TickInv, save_state
  PROVE  TickInv' /\ Delivers
  <1> USE AgentAssumption DEF TickInv
  <1>0. pc = "persisted" /\ memory \in 0..MaxRows /\ tick_faults \in 0..MaxTickFaults
    BY DEF TickTypeOK, save_state
  <1>1. /\ pc' = "saved"
        /\ UNCHANGED <<source, queue, torn, server, memory, fresh, pending, taken, spoiled>>
    BY DEF save_state
  <1>2. /\ offset' \in {offset, memory} /\ tick_faults' \in 0..MaxTickFaults
    BY <1>0 DEF save_state, TickFault
  <1>3. TickTypeOK'
    BY <1>0, <1>1, <1>2 DEF TickTypeOK
  <1>4. /\ \A n : InQueue(n)' <=> InQueue(n)
        /\ \A n : Stored(n)' <=> Stored(n)
        /\ Delivers /\ StoredOnce'
    BY <1>1, SafeStays
  <1>5. NoActivityLost'
    <2>1. CASE offset' = offset
      BY <1>1, <1>4, <2>1 DEF NoActivityLost
    <2>2. CASE offset' = memory
      BY <1>0, <1>1, <1>4, <2>2 DEF NoActivityLost, StateIsSafe, Safe
    <2> QED BY <1>2, <2>1, <2>2
  <1>6. FreshIsNew' /\ StateIsSafe' /\ TakenIsStored'
    BY <1>1 DEF FreshIsNew, StateIsSafe, TakenIsStored
  <1>7. PendingHasQueue'
    BY <1>0, <1>1, <1>4 DEF PendingHasQueue
  <1> QED BY <1>3, <1>4, <1>5, <1>6, <1>7

\* A batch is posted; the answer comes, or the tick gives up without one.
LEMMA PostStep ==
  ASSUME TickInv, post_ingest \/ PostFails
  PROVE  TickInv' /\ Delivers
  <1> USE AgentAssumption DEF TickInv
  <1> DEFINE k == take_send_batch
  <1>0. /\ pc = "saved" /\ tick_faults \in 0..MaxTickFaults /\ offset \in 0..MaxRows
        /\ pending \in Seq(Row)
    BY DEF TickTypeOK, post_ingest, PostFails
  <1>1. UNCHANGED <<source, offset, queue, torn, memory, fresh, pending, spoiled>>
    BY DEF post_ingest, PostFails
  <1>2. /\ server' \in {server, insert_heartbeats(server, SubSeq(pending, 1, k))}
        /\ pc' \in {"idle", "confirmed"}
        /\ pc' = "confirmed" => /\ server' = insert_heartbeats(server, SubSeq(pending, 1, k))
                                /\ taken' = k
        /\ taken' \in {taken, k}
    BY DEF post_ingest, PostFails
  <1>3. k \in 0..Len(pending) /\ k <= MaxBatch
    BY BatchFits
  <1> HIDE DEF k
  <1>4. /\ server' \in Seq(Row)
        /\ \A n \in Row : Stored(n) => Stored(n)'
        /\ \A i, j \in DOMAIN server' : server'[i] = server'[j] => i = j
        /\ pc' = "confirmed" => \A i \in 1..k : Contains(server', pending[i])
    <2>1. CASE server' = insert_heartbeats(server, SubSeq(pending, 1, k))
      <3>1. server' = insert_heartbeats(server, SubSeq(pending, 1, take_send_batch))
        BY <2>1 DEF k
      <3>2. /\ server' \in Seq(Row)
            /\ \A n \in Row : Stored(n) => Contains(server', n)
            /\ \A i \in 1..take_send_batch : Contains(server', pending[i])
            /\ \A i, j \in DOMAIN server' : server'[i] = server'[j] => i = j
        BY <3>1, BatchInserted
      <3> QED BY <3>2 DEF Stored, k
    <2>2. CASE server' = server /\ pc' # "confirmed"
      BY <2>2 DEF Stored, StoredOnce, TickTypeOK
    <2> QED BY <1>2, <2>1, <2>2
  <1>5. TickTypeOK'
    <2>1. tick_faults' \in 0..MaxTickFaults
      BY <1>0 DEF post_ingest, PostFails, TickFault
    <2>2. taken' \in 0..MaxBatch
      BY <1>2, <1>3 DEF TickTypeOK
    <2> QED BY <1>1, <1>2, <1>4, <2>1, <2>2 DEF TickTypeOK
  <1>6. \A n : InQueue(n)' <=> InQueue(n)
    BY <1>1 DEF InQueue
  <1>7. NoActivityLost'
    <2>1. \A n \in 1..offset : n \in Row
      BY <1>0 DEF Row
    <2> QED BY <1>1, <1>4, <1>6, <2>1 DEF NoActivityLost
  <1>8. StoredOnce'
    BY <1>4 DEF StoredOnce
  <1>9. FreshIsNew' /\ StateIsSafe'
    BY <1>2 DEF FreshIsNew, StateIsSafe
  <1>10. PendingHasQueue'
    BY <1>0, <1>1, <1>6 DEF PendingHasQueue
  <1>11. TakenIsStored'
    <2>1. ASSUME pc' = "confirmed"
          PROVE  taken' <= Len(pending') /\ \A i \in 1..taken' : Contains(server', pending'[i])
      <3>1. Len(pending) \in Nat
        BY <1>0
      <3> QED BY <1>1, <1>2, <1>3, <1>4, <2>1, <3>1
    <2> QED BY <2>1 DEF TakenIsStored, Stored
  <1>12. Delivers
    BY <1>6 DEF Delivers
  <1> QED BY <1>5, <1>7, <1>8, <1>9, <1>10, <1>11, <1>12

\* The queue is rewritten with the rows after the ones the server took, or not at all.
LEMMA SaveQueueStep ==
  ASSUME TickInv, save_queue
  PROVE  TickInv' /\ Delivers
  <1> USE AgentAssumption DEF TickInv
  <1>0. /\ pc = "confirmed" /\ pending \in Seq(Row) /\ taken \in 0..MaxBatch
        /\ tick_faults \in 0..MaxTickFaults /\ offset \in 0..MaxRows
        /\ taken <= Len(pending) /\ \A i \in 1..taken : Stored(pending[i])
        /\ \A n \in Row : InQueue(n) => Contains(pending, n)
    BY DEF TickTypeOK, save_queue, TakenIsStored, PendingHasQueue
  <1>1. /\ pc' = "idle"
        /\ UNCHANGED <<source, offset, server, memory, fresh, pending, taken, spoiled>>
    BY DEF save_queue
  <1>2. \A n : Stored(n)' <=> Stored(n)
    BY <1>1 DEF Stored
  <1>3. /\ queue' \in Seq(QueueLine) /\ torn' \in BOOLEAN /\ tick_faults' \in 0..MaxTickFaults
        /\ \A n \in Row : InQueue(n) => InQueue(n)' \/ Stored(n)
    <2>1. CASE UNCHANGED <<queue, torn>> /\ TickFault
      BY <1>0, <2>1 DEF InQueue, TickTypeOK, QueueLine, TickFault
    <2>2. CASE /\ queue' = SubSeq(pending, taken + 1, Len(pending))
               /\ torn' = FALSE /\ UNCHANGED tick_faults
      <3> DEFINE rest == SubSeq(pending, taken + 1, Len(pending))
      <3>1. /\ rest \in Seq(Row) /\ Len(rest) = Len(pending) - taken /\ Len(pending) \in Nat
            /\ \A i \in 1..Len(rest) : rest[i] = pending[taken + i]
        BY <1>0
      <3> HIDE DEF rest
      <3>2. ASSUME NEW n \in Row, InQueue(n) PROVE Contains(rest, n) \/ Stored(n)
        <4>1. PICK i \in 1..Len(pending) : pending[i] = n
          BY <1>0, <3>2 DEF Contains
        <4>2. CASE i <= taken
          BY <1>0, <4>1, <4>2
        <4>3. CASE ~(i <= taken)
          <5>1. i - taken \in 1..Len(rest) /\ rest[i - taken] = n
            BY <1>0, <3>1, <4>1, <4>3
          <5> QED BY <5>1 DEF Contains
        <4> QED BY <4>2, <4>3
      <3>3. queue' = rest
        BY <2>2 DEF rest
      <3>4. queue' \in Seq(QueueLine)
        BY <3>1, <3>3 DEF QueueLine
      <3>5. \A n \in Row : InQueue(n) => InQueue(n)' \/ Stored(n)
        BY <3>2, <3>3 DEF InQueue
      <3> QED BY <1>0, <2>2, <3>4, <3>5
    <2> QED BY <2>1, <2>2 DEF save_queue
  <1>4. TickTypeOK'
    BY <1>1, <1>3 DEF TickTypeOK, QueueLine
  <1>5. NoActivityLost'
    <2>1. \A n \in 1..offset : n \in Row
      BY <1>0 DEF Row
    <2> QED BY <1>1, <1>2, <1>3, <2>1 DEF NoActivityLost
  <1>6. StoredOnce' /\ FreshIsNew' /\ StateIsSafe' /\ PendingHasQueue' /\ TakenIsStored'
    BY <1>1 DEF StoredOnce, FreshIsNew, StateIsSafe, PendingHasQueue, TakenIsStored
  <1>7. Delivers
    BY <1>2, <1>3 DEF Delivers
  <1> QED BY <1>4, <1>5, <1>6, <1>7

\* The steps that touch neither file nor the table: the user works, the tick has
\* nothing to send, the process dies between two operations, or nothing happens.
LEMMA IdleStep ==
  ASSUME TickInv, Produce \/ NothingToSend \/ Crash \/ UNCHANGED tickVars
  PROVE  TickInv' /\ Delivers
  <1> USE AgentAssumption DEF TickInv
  <1>1. /\ UNCHANGED <<offset, queue, torn, server, memory, fresh, pending, taken, spoiled>>
        /\ pc' \in {pc, "idle"}
    BY DEF Produce, NothingToSend, Crash, tickVars
  <1>2. source' \in 0..MaxRows /\ tick_faults' \in 0..MaxTickFaults
    <2>1. source \in 0..MaxRows /\ tick_faults \in 0..MaxTickFaults
      BY DEF TickTypeOK
    <2> QED BY <2>1 DEF Produce, NothingToSend, Crash, tickVars, TickFault
  <1>3. TickTypeOK'
    BY <1>1, <1>2 DEF TickTypeOK
  <1>4. /\ \A n : InQueue(n)' <=> InQueue(n)
        /\ \A n : Stored(n)' <=> Stored(n)
        /\ Delivers /\ StoredOnce' /\ NoActivityLost'
    BY <1>1, SafeStays
  <1>5. FreshIsNew' /\ StateIsSafe'
    BY <1>1, <1>4 DEF FreshIsNew, StateIsSafe, Safe
  <1>6. PendingHasQueue' /\ TakenIsStored'
    BY <1>1, <1>4 DEF PendingHasQueue, TakenIsStored
  <1> QED BY <1>3, <1>4, <1>5, <1>6

\* Every step of the tick, and every way it can fail.
LEMMA TickInductive ==
  ASSUME TickInv, [TickNext]_tickVars
  PROVE  TickInv' /\ Delivers
  BY WatchStep, AppendStep, FailedAppendStep, SaveStateStep, PostStep, SaveQueueStep, IdleStep
     DEF TickNext, TickStep

-----------------------------------------------------------------------------
\* The inductive invariant of the tick.
THEOREM TickInvariant ==
  TickSpec => []TickInv
  BY TickStarts, TickInductive, PTL DEF TickSpec

\* Whatever crashes, fails or is lost, a heartbeat behind the saved offset is in the
\* queue or on the server unless its own append lost it, and the server has none twice.
THEOREM ActivityIsKept ==
  TickSpec => []ActivityKept
  <1>1. TickInv => ActivityKept
    BY DEF TickInv, ActivityKept
  <1> QED BY <1>1, TickInvariant, PTL

\* A row leaves the queue file only when the server has it.
THEOREM QueueEmptiesIntoServer ==
  TickSpec => QueueDropsOnlyStored
  <1>1. TickInv /\ [TickNext]_tickVars =>
            [\A n \in Row : InQueue(n) => InQueue(n)' \/ Stored(n)']_tickVars
    BY TickInductive DEF Delivers
  <1> QED BY <1>1, TickInvariant, PTL DEF TickSpec, QueueDropsOnlyStored

-----------------------------------------------------------------------------
(* The single-instance lock: AgentLock.                                    *)

Busy(p) == place[p] \in Acquiring \cup Releasing

\* Starts and releases do not overlap.
OneAtATime == \A p, q \in Proc : Busy(p) /\ Busy(q) => p = q

\* A created file is still at the path when its creator stamps it.
StampsItsFile == \A p \in Proc : place[p] = "stamp" => file = p

\* What a prober has read is the pid of the holder, if there is one.
ProbesTheHolder ==
    \A p, q \in Proc : place[p] = "probe" /\ place[q] = "held" => owner[p] = q

\* A file is removed only when nobody holds the lock.
RemovesNoLiveLock ==
    \A p, q \in Proc : place[p] \in {"remove", "unlink"} => place[q] # "held"

LockInv ==
    /\ LockTypeOK
    /\ OneAtATime
    /\ HolderOwnsFile
    /\ StampsItsFile
    /\ ProbesTheHolder
    /\ RemovesNoLiveLock

LEMMA LockStarts ==
  ASSUME LockInit
  PROVE  LockInv
  BY LockAssumption DEF LockInit, LockInv, LockTypeOK, OneAtATime, HolderOwnsFile, StampsItsFile,
         ProbesTheHolder, RemovesNoLiveLock, Busy, Acquiring, Releasing

\* Every step of the protocol preserves the invariant.
LEMMA LockStep ==
  ASSUME ConcurrentStart = FALSE, LockInv, [LockNext]_lockVars
  PROVE  LockInv'
  <1> USE LockAssumption DEF LockInv, LockTypeOK, Goto, Acquiring, Releasing, Gone
  <1>1. CASE UNCHANGED lockVars
    BY <1>1 DEF lockVars, OneAtATime, HolderOwnsFile, StampsItsFile, ProbesTheHolder,
                RemovesNoLiveLock, Busy
  <1>2. ASSUME NEW p \in Proc, acquire(p) PROVE LockInv'
    BY <1>2 DEF acquire, OneAtATime, HolderOwnsFile, StampsItsFile, ProbesTheHolder,
                RemovesNoLiveLock, Busy
  <1>3. ASSUME NEW p \in Proc, create_excl(p) PROVE LockInv'
    <2>1. CASE file = NoProc
      BY <1>3, <2>1 DEF create_excl, OneAtATime, HolderOwnsFile, StampsItsFile,
                        ProbesTheHolder, RemovesNoLiveLock, Busy
    <2>2. CASE file # NoProc
      BY <1>3, <2>2 DEF create_excl, OneAtATime, HolderOwnsFile, StampsItsFile,
                        ProbesTheHolder, RemovesNoLiveLock, Busy
    <2> QED BY <2>1, <2>2
  <1>4. ASSUME NEW p \in Proc, Stamp(p) PROVE LockInv'
    <2>1. file = p
      BY <1>4 DEF Stamp, StampsItsFile
    <2> QED
      BY <1>4, <2>1 DEF Stamp, OneAtATime, HolderOwnsFile, StampsItsFile,
                        ProbesTheHolder,
                        RemovesNoLiveLock, Busy
  <1>5. ASSUME NEW p \in Proc, StampFails(p) PROVE LockInv'
    <2>1. \A q \in Proc : place[q] # "held"
      BY <1>5 DEF StampFails, StampsItsFile, HolderOwnsFile
    <2> QED
      BY <1>5, <2>1 DEF StampFails, OneAtATime, HolderOwnsFile, StampsItsFile,
                        ProbesTheHolder, RemovesNoLiveLock, Busy
  <1>6. ASSUME NEW p \in Proc, stored_pid(p) PROVE LockInv'
    <2>1. \A q \in Proc : place[q] = "held" => ParsedPid = q
      BY DEF HolderOwnsFile, ParsedPid
    <2>2. ParsedPid \in Proc \cup {NoProc}
      BY DEF ParsedPid
    <2> QED
      BY <1>6, <2>1, <2>2 DEF stored_pid, OneAtATime, HolderOwnsFile, StampsItsFile,
                              ProbesTheHolder, RemovesNoLiveLock, Busy
  <1>7. ASSUME NEW p \in Proc, Probe(p) PROVE LockInv'
    <2>1. place'[p] = "remove" => \A q \in Proc : place[q] # "held"
      BY <1>7 DEF Probe, ProbesTheHolder, pid_is_alive
    <2> QED
      BY <1>7, <2>1 DEF Probe, OneAtATime, HolderOwnsFile, StampsItsFile,
                        ProbesTheHolder,
                        RemovesNoLiveLock, Busy
  <1>8. ASSUME NEW p \in Proc, RemoveStale(p) PROVE LockInv'
    BY <1>8 DEF RemoveStale, OneAtATime, HolderOwnsFile, StampsItsFile, ProbesTheHolder,
                RemovesNoLiveLock, Busy
  <1>9. ASSUME NEW p \in Proc, release(p) PROVE LockInv'
    <2>1. \A q \in Proc : place[q] = "held" => q = p
      BY <1>9 DEF release, HolderOwnsFile
    <2>2. \A q \in Proc : ~Busy(q)
      BY <1>9, <2>1 DEF release, Busy, RemovesNoLiveLock
    <2> QED
      BY <1>9, <2>1, <2>2 DEF release, OneAtATime, HolderOwnsFile, StampsItsFile,
                              ProbesTheHolder, RemovesNoLiveLock, Busy
  <1>10. ASSUME NEW p \in Proc, Unlink(p) PROVE LockInv'
    BY <1>10 DEF Unlink, OneAtATime, HolderOwnsFile, StampsItsFile, ProbesTheHolder,
                 RemovesNoLiveLock, Busy
  <1>11. ASSUME NEW p \in Proc, Kill(p) PROVE LockInv'
    BY <1>11 DEF Kill, OneAtATime, HolderOwnsFile, StampsItsFile, ProbesTheHolder,
                 RemovesNoLiveLock, Busy
  <1> QED
    BY <1>1, <1>2, <1>3, <1>4, <1>5, <1>6, <1>7, <1>8, <1>9, <1>10, <1>11 DEF LockNext

\* The inductive invariant of the lock, when starts do not overlap.
THEOREM LockInvariant ==
  ASSUME ConcurrentStart = FALSE
  PROVE  LockSpec => []LockInv
  BY LockStarts, LockStep, PTL DEF LockSpec

\* A running agent's stamped file stays at the path until it releases it.
THEOREM HolderKeepsFile ==
  ASSUME ConcurrentStart = FALSE
  PROVE  LockSpec => []HolderOwnsFile
  <1>1. LockInv => HolderOwnsFile
    BY DEF LockInv
  <1> QED BY <1>1, LockInvariant, PTL

\* Two agents never hold the lock at once.
THEOREM LockIsExclusive ==
  ASSUME ConcurrentStart = FALSE
  PROVE  LockSpec => []AtMostOneHolder
  <1>1. LockInv => AtMostOneHolder
    BY DEF LockInv, HolderOwnsFile, AtMostOneHolder
  <1> QED BY <1>1, LockInvariant, PTL

-----------------------------------------------------------------------------
(* Who refuses a start.                                                    *)

BeforeCreate == {"new", "create", "exists", "probe", "remove"}

\* A process that has not created its file does not find, or read, itself.
FindsNotItself ==
    \A p \in Proc : /\ place[p] \in BeforeCreate => file # p
                    /\ place[p] = "probe" => owner[p] # p

\* The second attempt finds the path free, so it is never refused in its turn.
SecondTryIsFree ==
    \A p \in Proc : /\ place[p] \in BeforeCreate \ {"create"} => may_retry[p]
                    /\ place[p] = "create" /\ ~may_retry[p] => file = NoProc

RefusalInv == LockInv /\ FindsNotItself /\ SecondTryIsFree

LEMMA RefusalInit ==
  ASSUME LockInit
  PROVE  RefusalInv
  BY LockAssumption, LockStarts
     DEF RefusalInv, LockInit, FindsNotItself, SecondTryIsFree, BeforeCreate

\* Only the process that starts alone changes the path, so what it left there
\* it finds again.
LEMMA RefusalStep ==
  ASSUME ConcurrentStart = FALSE, RefusalInv, [LockNext]_lockVars
  PROVE  RefusalInv'
  <1>0. LockInv /\ LockInv'
    BY LockStep DEF RefusalInv
  <1> USE <1>0, LockAssumption
      DEF RefusalInv, LockInv, LockTypeOK, Goto, Acquiring, Releasing,
          Gone, BeforeCreate
  <1>1. CASE UNCHANGED lockVars
    BY <1>1 DEF lockVars, FindsNotItself, SecondTryIsFree
  <1>2. ASSUME NEW p \in Proc, acquire(p) PROVE RefusalInv'
    BY <1>2 DEF acquire, FindsNotItself, SecondTryIsFree
  <1>3. ASSUME NEW p \in Proc, create_excl(p) PROVE RefusalInv'
    <2>1. CASE file = NoProc
      <3>1. \A q \in Proc : q # p => place[q] # "create"
        BY <1>3, <2>1 DEF create_excl, OneAtATime, Busy
      <3> QED BY <1>3, <2>1, <3>1 DEF create_excl, FindsNotItself, SecondTryIsFree
    <2>2. CASE file # NoProc
      BY <1>3, <2>2 DEF create_excl, FindsNotItself, SecondTryIsFree
    <2> QED BY <2>1, <2>2
  <1>4. ASSUME NEW p \in Proc, Stamp(p) PROVE RefusalInv'
    BY <1>4 DEF Stamp, FindsNotItself, SecondTryIsFree
  <1>5. ASSUME NEW p \in Proc, StampFails(p) PROVE RefusalInv'
    BY <1>5 DEF StampFails, FindsNotItself, SecondTryIsFree
  <1>6. ASSUME NEW p \in Proc, stored_pid(p) PROVE RefusalInv'
    <2>1. ParsedPid # p
      BY <1>6 DEF stored_pid, ParsedPid, FindsNotItself
    <2> QED BY <1>6, <2>1 DEF stored_pid, FindsNotItself, SecondTryIsFree
  <1>7. ASSUME NEW p \in Proc, Probe(p) PROVE RefusalInv'
    BY <1>7 DEF Probe, FindsNotItself, SecondTryIsFree
  <1>8. ASSUME NEW p \in Proc, RemoveStale(p) PROVE RefusalInv'
    BY <1>8 DEF RemoveStale, FindsNotItself, SecondTryIsFree
  <1>9. ASSUME NEW p \in Proc, release(p) PROVE RefusalInv'
    BY <1>9 DEF release, FindsNotItself, SecondTryIsFree
  <1>10. ASSUME NEW p \in Proc, Unlink(p) PROVE RefusalInv'
    BY <1>10 DEF Unlink, FindsNotItself, SecondTryIsFree
  <1>11. ASSUME NEW p \in Proc, Kill(p) PROVE RefusalInv'
    BY <1>11 DEF Kill, FindsNotItself, SecondTryIsFree
  <1> QED
    BY <1>1, <1>2, <1>3, <1>4, <1>5, <1>6, <1>7, <1>8, <1>9, <1>10, <1>11 DEF LockNext

\* What one step may do to a start that it refuses.
RefusesRightly ==
    \A p \in Proc : place[p] # "refused" /\ place'[p] = "refused" =>
        \E q \in Proc \ {p} : place[q] = "held"

\* A refused prober has read a live pid, which is not its own; the process of
\* that pid is not starting or releasing, so it holds the lock.
LEMMA RefusalIsRight ==
  ASSUME ConcurrentStart = FALSE, RefusalInv, LockNext
  PROVE  RefusesRightly
  <1> USE LockAssumption DEF RefusalInv, LockInv, LockTypeOK, Acquiring, Releasing,
          Gone, BeforeCreate
  <1> SUFFICES ASSUME NEW p \in Proc, place[p] # "refused", place'[p] = "refused"
               PROVE  \E q \in Proc \ {p} : place[q] = "held"
    BY DEF RefusesRightly
  <1>1. Probe(p)
    BY DEF LockNext, acquire, create_excl, Stamp, StampFails,
           stored_pid, Probe, RemoveStale,
           release, Unlink, Kill, Goto
  <1>2. /\ place[p] = "probe" /\ may_retry[p]
        /\ owner[p] # NoProc /\ pid_is_alive(owner[p])
    BY <1>1 DEF Probe, Goto, SecondTryIsFree
  <1>3. owner[p] \in Proc \ {p}
    BY <1>2 DEF FindsNotItself
  <1>4. place[owner[p]] = "held"
    BY <1>2, <1>3 DEF pid_is_alive, OneAtATime, Busy
  <1> QED BY <1>3, <1>4

\* A start is refused only while another agent, alive, holds the lock: no lock
\* file a killed agent left behind, stamped or not, keeps the next one out.
THEOREM RefusalsAreRight ==
  ASSUME ConcurrentStart = FALSE
  PROVE  LockSpec => RefusedOnlyByLive
  <1>1. LockSpec => []RefusalInv
    BY RefusalInit, RefusalStep, PTL DEF LockSpec
  <1>2. RefusalInv /\ [LockNext]_lockVars =>
            [\A p \in Proc : place[p] # "refused" /\ place'[p] = "refused" =>
                 \E q \in Proc \ {p} : place[q] = "held"]_lockVars
    BY RefusalIsRight DEF RefusesRightly
  <1> QED BY <1>1, <1>2, PTL DEF LockSpec, RefusedOnlyByLive
=============================================================================
