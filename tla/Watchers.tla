------------------------------ MODULE Watchers ------------------------------
(* The agent's watchers: what each of them reads from files that other       *)
(* programs are writing, what it remembers between ticks, and which rows it  *)
(* makes of it. A transcript is a sequence of cells, two to a line: the      *)
(* writer flushes the first half of a line, then the rest with its newline.  *)
(* What a tick finds and what it remembers are saved together here: the      *)
(* order of the two, the queue and the sending are AgentTick's.              *)
EXTENDS Naturals, Sequences, FiniteSets, SequencesExt

CONSTANTS
    None,           \* nothing remembered
    MaxLines,       \* lines that are ever written to the transcript
    MaxRead,        \* cells read from one file in a tick (5 MiB)
    UsageCap,       \* message ids whose usage is remembered (20,000)
    MaxTime,        \* the clock
    Interval,       \* agent.intervalSeconds
    IdleSeconds,    \* agent.idleSeconds
    MaxCommits,     \* commits to Zed's database
    MaxFaults       \* truncations, removals, lost state, clock steps, crashes

ASSUME WatchersAssumption ==
    /\ {MaxLines, MaxTime, MaxCommits, MaxFaults} \subseteq Nat
    /\ {MaxRead, UsageCap, Interval, IdleSeconds} \subseteq Nat \ {0}
    /\ None \notin Nat

Watcher == {"files", "claude", "codex", "macApps", "ssh", "zed"}
Id == {"m1", "m2"}                  \* message ids
Thread == {"t1", "t2"}
File == {".env", ".git"}
Future == 1                         \* how far ahead a file's time may be (60 s)

\* A line's kind, message id and token counter; an old one carries a timestamp
\* that the hour's window leaves out.
L(kind, id, usage, old) == [kind |-> kind, id |-> id, usage |-> usage, old |-> old]
ClaudeLine ==
    {L(k, "m1", 0, FALSE) : k \in {"prompt", "relay", "summary"}} \cup
    {L("text", "m1", 1, FALSE), L("text", "m1", 2, FALSE), L("edit", "m2", 1, FALSE),
     L("text", "m1", 2, TRUE)}
CodexLine ==
    {L(k, "m1", 0, FALSE) : k \in {"turn_context", "user_message", "patch", "compacted"}} \cup
    {L("token_count", "m1", 1, FALSE), L("user_message", "m1", 0, TRUE)}
Head1 == L("session_meta", "m1", 0, FALSE)

VARIABLES
    watch,      \* the watcher that is switched on
    crowded,    \* the offsets map has reached the size at which it is pruned
    exists, cells, lines,   \* the transcript; a cell is [n, half] of lines[n]
    zed,        \* Zed's database: its threads, and what its files look like
    clock, mtime,           \* the wall clock; when each file was saved
    key,        \* when a key was last pressed
    state,      \* agent-state.json
    tick,       \* the tick in progress
    reported,   \* rows sent: how often each line made any
    human,      \* lines, or the last moment, reported as a human's work
    billed,     \* tokens sent, by message id
    unknown,    \* lines whose rows name no directory
    saves, updates,         \* of the files and threads as they are: the reported
    \* what explains a line that was never reported
    excused, first, evicted, late, strayed, behind, faults

transcriptVars == <<exists, cells, lines, excused>>
clockVars == <<clock, mtime, key>>
rowVars == <<reported, human, billed, unknown, saves, updates>>
ghostVars == <<first, evicted, late, strayed, behind>>
vars == <<watch, crowded, transcriptVars, zed, clockVars, state, tick, rowVars, ghostVars, faults>>

NoState == [off |-> None, usage |-> <<>>, cwd |-> FALSE, last |-> None,
            sig |-> None, threads |-> [t \in Thread |-> 0], init |-> FALSE]
Quiet == [at |-> "idle", size |-> 0, cwd |-> FALSE, found |-> TRUE, sig |-> 0,
          copy |-> [t \in Thread |-> 0], since |-> 0, now |-> 0, left |-> {}]

Serial == 1..MaxLines

TypeOK ==
    /\ watch \in Watcher /\ exists \in BOOLEAN /\ crowded \in BOOLEAN
    /\ cells \in Seq([n : Serial, half : 1..2]) /\ Len(lines) <= MaxLines
    /\ zed.threads \in [Thread -> Nat] /\ zed.sig \in 0..MaxCommits /\ zed.ok \in BOOLEAN
    /\ clock \in 0..MaxTime /\ key \in 0..MaxTime
    /\ state.off \in {None} \cup 0..(2 * MaxLines) /\ Len(state.usage) <= UsageCap
    /\ tick.at \in {"idle", "head", "again", "read", "snapshot", "diff", "walk"}
    /\ reported \in [Serial -> Nat] /\ billed \in [Id -> Nat]
    /\ unknown \subseteq Serial /\ excused \subseteq Serial /\ first \subseteq Serial
    /\ faults \in 0..MaxFaults

Init ==
    /\ watch \in Watcher /\ crowded \in IF watch = "claude" THEN BOOLEAN ELSE {FALSE}
    /\ exists = FALSE /\ cells = <<>> /\ lines = <<>>
    /\ zed = [ok |-> TRUE, threads |-> [t \in Thread |-> IF t = "t1" THEN 1 ELSE 0], sig |-> 0]
    /\ clock = 1 /\ mtime = [f \in File |-> 0] /\ key = 0
    /\ state = NoState /\ tick = Quiet
    /\ reported = [n \in Serial |-> 0] /\ human = {} /\ billed = [i \in Id |-> 0]
    /\ unknown = {} /\ saves = {} /\ updates = {}
    /\ excused = {} /\ first = {} /\ evicted = {} /\ late = {} /\ strayed = {} /\ behind = {}
    /\ faults = 0

Fault == faults < MaxFaults /\ faults' = faults + 1

-----------------------------------------------------------------------------
(* The programs that are watched.                                          *)

\* A session opens its transcript.
Create ==
    /\ watch \in {"claude", "codex"} /\ ~ exists /\ exists' = TRUE
    /\ UNCHANGED <<watch, crowded, cells, lines, excused, zed, clockVars, state, tick, rowVars,
                   ghostVars, faults>>

\* Claude or Codex starts a line; Codex's first is session_meta. Where a shrunken
\* file is still shorter than the offset, what is written will not be read.
StartLine ==
    /\ exists /\ Len(lines) < MaxLines
    /\ cells # <<>> => Last(cells).half = 2
    /\ \E l \in IF watch = "claude" THEN ClaudeLine
                ELSE IF cells = <<>> THEN {Head1} ELSE CodexLine :
           lines' = Append(lines, l)
    /\ cells' = Append(cells, [n |-> Len(lines) + 1, half |-> 1])
    /\ excused' = IF state.off # None /\ Len(cells) < state.off
                  THEN excused \cup {Len(lines) + 1} ELSE excused
    /\ UNCHANGED <<watch, crowded, exists, zed, clockVars, state, tick, rowVars, ghostVars, faults>>

FinishLine ==
    /\ cells # <<>> /\ Last(cells).half = 1
    /\ cells' = Append(cells, [n |-> Last(cells).n, half |-> 2])
    /\ UNCHANGED <<watch, crowded, exists, lines, excused, zed, clockVars, state, tick, rowVars,
                   ghostVars, faults>>

\* The transcript is truncated, or removed.
Truncate ==
    /\ exists /\ cells # <<>> /\ Fault
    /\ cells' = <<>> /\ exists' \in BOOLEAN
    /\ UNCHANGED <<watch, crowded, lines, excused, zed, clockVars, state, tick, rowVars, ghostVars>>

\* A commit changes the database's or its log's size and times. Zed may also
\* change its schema to one that is not recognised, and back.
ZedCommit ==
    /\ watch = "zed" /\ zed.sig < MaxCommits
    /\ \/ \E t \in Thread, v \in {0, zed.sig + 2} :
              /\ zed' = [zed EXCEPT !.threads[t] = v, !.sig = @ + 1]
              /\ updates' = updates \ {t} /\ strayed' = strayed \ {t}
       \/ zed' = [zed EXCEPT !.ok = ~ @, !.sig = @ + 1] /\ UNCHANGED <<updates, strayed>>
    /\ UNCHANGED <<watch, crowded, transcriptVars, clockVars, state, tick, reported, human, billed,
                   unknown, saves, first, evicted, late, behind, faults>>

\* A file is saved, perhaps with a time that lies ahead. No two saves, and no
\* save and scan, share a moment.
Save(f) ==
    /\ watch = "files" /\ clock + 1 < MaxTime
    /\ clock' = clock + 1
    /\ \E ahead \in {0, Future + 1} : mtime' = [mtime EXCEPT ![f] = clock' + ahead]
    /\ saves' = saves \ {f} /\ strayed' = strayed \ {f}
    /\ behind' = IF state.last # None /\ mtime'[f] <= state.last THEN behind \cup {f}
                 ELSE behind \ {f}
    /\ UNCHANGED <<watch, crowded, transcriptVars, zed, key, state, tick, reported, human, billed,
                   unknown, updates, first, evicted, late, faults>>

Type ==
    /\ watch \in {"ssh", "macApps"} /\ clock < MaxTime
    /\ clock' = clock + 1 /\ key' = clock'
    /\ UNCHANGED <<watch, crowded, transcriptVars, zed, mtime, state, tick, rowVars, ghostVars, faults>>

Wait ==
    /\ watch \in {"files", "ssh", "macApps"} /\ clock < MaxTime
    /\ clock' = clock + 1
    /\ UNCHANGED <<watch, crowded, transcriptVars, zed, mtime, key, state, tick, rowVars,
                   ghostVars, faults>>

ClockBack ==
    /\ watch = "files" /\ tick.at = "idle" /\ Fault
    /\ \E t \in 1..(clock - 1) : clock' = t
    /\ UNCHANGED <<watch, crowded, transcriptVars, zed, mtime, key, state, tick, rowVars, ghostVars>>

\* agent-state.json cannot be read: load_state starts from nothing.
load_state ==
    /\ tick.at = "idle" /\ state # NoState /\ Fault
    /\ state' = NoState /\ evicted' = Id
    /\ UNCHANGED <<watch, crowded, transcriptVars, zed, clockVars, tick, rowVars, first, late, strayed,
                   behind>>

\* The agent stops, or the watcher returns an error: nothing is remembered.
Abandon ==
    /\ tick.at # "idle" /\ Fault /\ tick' = Quiet
    /\ UNCHANGED <<watch, crowded, transcriptVars, zed, clockVars, state, rowVars, ghostVars>>

-----------------------------------------------------------------------------
(* tail: reading what was appended.                                        *)

\* Where to start: after more than MaxRead cells, the older ones are skipped.
ReadFrom(prev, size) == IF size - prev > MaxRead THEN size - MaxRead ELSE prev

\* Mutant: the whole chunk counts as read.
NextOffsetToEnd(start, buf) == start + Len(buf)

\* The offset after the cells read from start: behind the last newline.
NextOffset(start, buf) ==
    LET ends == {i \in DOMAIN buf : buf[i].half = 2} IN
    IF ends = {} THEN start ELSE start + (CHOOSE i \in ends : \A j \in ends : j <= i)

\* The lines that parse: both halves were read.
Parsed(buf) == {buf[i].n : i \in {j \in DOMAIN buf : j > 1 /\ buf[j].half = 2}}

\* The first line, once it is complete: a fragment does not parse.
read_first_json_line == exists /\ Len(cells) >= 2

\* A map that has grown too large keeps only the files there are.
prune_offsets(s) == IF crowded /\ ~ exists THEN [s EXCEPT !.off = None, !.cwd = FALSE] ELSE s

-----------------------------------------------------------------------------
(* watch_claude.                                                           *)

is_human_prompt(l) == l.kind \in {"prompt", "user_message"}

\* The actors of a Claude line's rows: one row for each file a tool names, or
\* one for the working directory.
ClaudeRows(l) ==
    CASE is_human_prompt(l) -> <<"human">>
      [] l.kind \in {"relay", "text"} -> <<"agent">>
      [] l.kind = "edit" -> <<"agent", "agent">>
      [] OTHER -> <<>>

\* Mutant: every row carries the tokens.
ChargedEachRow(l, tokens) == Len(ClaudeRows(l)) * tokens

\* Tokens ride on the first row of the agent's only.
Charged(l, tokens) ==
    IF Len(ClaudeRows(l)) > 0 /\ ~ is_human_prompt(l) THEN tokens ELSE 0

read_previous(usage, id) ==
    LET at == {k \in DOMAIN usage : usage[k].id = id} IN
    IF at = {} THEN 0 ELSE usage[CHOOSE k \in at : TRUE].max
Remember(usage, l) ==
    IF \E k \in DOMAIN usage : usage[k].id = l.id
    THEN [k \in DOMAIN usage |-> IF usage[k].id = l.id /\ l.usage > usage[k].max
                                 THEN [usage[k] EXCEPT !.max = l.usage] ELSE usage[k]]
    ELSE Append(usage, [id |-> l.id, max |-> l.usage])

\* One line: the growth over what its message was charged before.
ClaudeLineStep(acc, l) ==
    LET prev == read_previous(acc.usage, l.id)
        delta == IF l.usage > prev THEN l.usage - prev ELSE 0
    IN IF l.old \/ l.usage = 0 THEN acc
       ELSE [usage |-> Remember(acc.usage, l),
             billed |-> [acc.billed EXCEPT ![l.id] = @ + Charged(l, delta)]]

\* The oldest ids go first.
trim_usage_by_id(usage) ==
    IF Len(usage) > UsageCap THEN SubSeq(usage, Len(usage) - UsageCap + 1, Len(usage)) ELSE usage

-----------------------------------------------------------------------------
(* watch_codex.                                                            *)

CodexRows(l) ==
    CASE is_human_prompt(l) -> <<"human">>
      [] l.kind = "token_count" -> <<"agent">>
      [] l.kind = "patch" -> <<"agent", "agent">>
      [] OTHER -> <<>>

\* session_meta and turn_context name the session's directory.
LearnsCwd(l) == l.kind \in {"session_meta", "turn_context"}

\* A turn's usage is charged as it is; the row of a patch carries none.
CodexLineStep(acc, l) ==
    [acc EXCEPT !.billed[l.id] = @ + IF l.old \/ l.kind # "token_count" THEN 0 ELSE l.usage]

\* The metadata of a session is looked for until it has been found.
need_meta == state.off = None \/ ~ state.cwd

-----------------------------------------------------------------------------
(* A tick of the transcript watchers: stat, the head, stat again, read.      *)

BeginTranscript ==
    /\ watch \in {"claude", "codex"} /\ tick.at = "idle" /\ exists
    /\ state.off # None => Len(cells) > state.off
    /\ tick' = [Quiet EXCEPT !.at = IF watch = "codex" THEN "head" ELSE "again"]
    /\ UNCHANGED <<watch, crowded, transcriptVars, zed, clockVars, state, rowVars, ghostVars, faults>>

\* With every file gone or unchanged only the maps are pruned.
NothingNew ==
    /\ watch \in {"claude", "codex"} /\ tick.at = "idle" /\ ~ exists
    /\ state # prune_offsets(state) /\ state' = prune_offsets(state)
    /\ UNCHANGED <<watch, crowded, transcriptVars, zed, clockVars, tick, rowVars, ghostVars, faults>>

ReadHead ==
    /\ tick.at = "head"
    /\ tick' = [tick EXCEPT !.at = "again",
                            !.found = read_first_json_line,
                            !.cwd = state.cwd \/ (need_meta /\ read_first_json_line)]
    /\ UNCHANGED <<watch, crowded, transcriptVars, zed, clockVars, state, rowVars, ghostVars, faults>>

StatAgain ==
    /\ tick.at = "again" /\ exists
    /\ tick' = [tick EXCEPT !.at = "read", !.size = Len(cells)]
    /\ UNCHANGED <<watch, crowded, transcriptVars, zed, clockVars, state, rowVars, ghostVars, faults>>

\* The file cannot be opened any more: only what its head said is kept.
FileGone ==
    /\ ~ exists /\ tick' = Quiet
    /\ \/ tick.at = "again"
       \/ tick.at = "read" /\ state.off # None /\ tick.size > state.off
    /\ state' = [state EXCEPT !.cwd = tick.cwd]
    /\ UNCHANGED <<watch, crowded, transcriptVars, zed, clockVars, rowVars, ghostVars, faults>>

\* First sight: all there is counts as read.
FirstSight ==
    /\ tick.at = "read" /\ state.off = None /\ tick' = Quiet
    /\ state' = [state EXCEPT !.off = tick.size, !.cwd = tick.cwd]
    /\ LET old == {cells[i].n : i \in {j \in DOMAIN cells : j <= tick.size}} IN
       first' = first \cup {n \in old : reported[n] = 0} /\ excused' = excused \cup old
    /\ UNCHANGED <<watch, crowded, exists, cells, lines, zed, clockVars, rowVars, evicted, late,
                   strayed, behind, faults>>

\* The file shrank between the two looks at it.
Clamp ==
    /\ tick.at = "read" /\ state.off # None /\ tick.size <= state.off /\ tick' = Quiet
    /\ state' = [state EXCEPT !.off = tick.size, !.cwd = tick.cwd]
    /\ UNCHANGED <<watch, crowded, transcriptVars, zed, clockVars, rowVars, ghostVars, faults>>

\* What the lines read in this tick add, one after the other.
Accounted(seen) ==
    LET step(acc, n) == IF watch = "claude" THEN ClaudeLineStep(acc, lines[n])
                        ELSE CodexLineStep(acc, lines[n])
    IN FoldLeft(step, [usage |-> state.usage, billed |-> billed], SetToSortSeq(seen, <))

read_new_lines ==
    LET start == ReadFrom(state.off, tick.size)
        buf == SubSeq(cells, start + 1, IF tick.size < Len(cells) THEN tick.size ELSE Len(cells))
        seen == Parsed(buf)
        acc == Accounted(seen)
        rows(n) == IF lines[n].old THEN <<>> ELSE
                   IF watch = "claude" THEN ClaudeRows(lines[n]) ELSE CodexRows(lines[n])
        kept == trim_usage_by_id(acc.usage)
        cwd == tick.cwd \/ \E n \in seen : LearnsCwd(lines[n])
    IN /\ tick.at = "read" /\ exists /\ state.off # None /\ tick.size > state.off
       /\ tick' = Quiet
       /\ state' = [state EXCEPT !.off = NextOffset(start, buf), !.usage = kept, !.cwd = cwd]
       /\ reported' = [n \in Serial |-> reported[n] + IF n \in seen THEN 1 ELSE 0]
       /\ billed' = acc.billed
       /\ human' = human \cup {n \in seen : "human" \in Range(rows(n))}
       /\ unknown' = unknown \cup
              {n \in seen : /\ watch = "codex" /\ rows(n) # <<>> /\ ~ tick.cwd
                            /\ ~ \E k \in seen : k < n /\ LearnsCwd(lines[k])}
       /\ late' = IF tick.found THEN late ELSE late \cup seen
       /\ evicted' = evicted \cup ({acc.usage[k].id : k \in DOMAIN acc.usage}
                                    \ {kept[k].id : k \in DOMAIN kept})
       /\ excused' = excused \cup {cells[i].n : i \in {j \in DOMAIN cells :
                                       state.off < j /\ j <= start}}
       /\ UNCHANGED <<watch, crowded, exists, cells, lines, zed, clockVars, saves, updates, first,
                      strayed, behind, faults>>

-----------------------------------------------------------------------------
(* watch_zed: the signature, a snapshot, the difference.                   *)

\* The signature is taken before the snapshot; an unchanged one ends the tick.
db_signature ==
    /\ watch = "zed" /\ tick.at = "idle" /\ state.sig # zed.sig
    /\ tick' = [Quiet EXCEPT !.at = "snapshot", !.sig = zed.sig]
    /\ UNCHANGED <<watch, crowded, transcriptVars, zed, clockVars, state, rowVars, ghostVars, faults>>

\* A copy, or where none can be made, one read of the live database.
snapshot_db ==
    /\ tick.at = "snapshot"
    /\ tick' = [tick EXCEPT !.at = "diff", !.copy = zed.threads, !.found = zed.ok]
    /\ UNCHANGED <<watch, crowded, transcriptVars, zed, clockVars, state, rowVars, ghostVars, faults>>

\* Mutant: the signature is taken after the snapshot.
record_signatureNow(threads, init) ==
    state' = [state EXCEPT !.sig = zed.sig, !.threads = threads, !.init = init]

\* The threads that are new or changed; on the very first run, new ones are not
\* reported. A schema that is not recognised only has its signature kept.
record_signature(threads, init) ==
    state' = [state EXCEPT !.sig = tick.sig, !.threads = threads, !.init = init]
read_threads ==
    LET changed == {t \in Thread : tick.copy[t] \notin {0, state.threads[t]}}
        emitted == {t \in changed : state.threads[t] # 0 \/ state.init}
        current == {t \in Thread : tick.copy[t] = zed.threads[t]}
    IN /\ tick.at = "diff" /\ tick' = Quiet
       /\ IF tick.found
          THEN /\ record_signature(tick.copy, TRUE)
               /\ updates' = updates \cup (emitted \cap current)
               /\ strayed' = strayed \cup ((changed \ emitted) \cap current)
          ELSE record_signature(state.threads, state.init) /\ UNCHANGED <<updates, strayed>>
       /\ UNCHANGED <<watch, crowded, transcriptVars, zed, clockVars, reported, human, billed,
                      unknown, saves, first, evicted, late, behind, faults>>

-----------------------------------------------------------------------------
(* watch_files: a walk over the roots, one file after the other.             *)

\* Dot files are left out, but not .env.
walk == File \ {".git"}

\* The time of this scan is remembered before the walk. A clock that went back
\* makes the last scan lie ahead: then one interval is looked at.
BeginScan ==
    LET now == clock + 1
        earlier == IF now > Interval THEN now - Interval ELSE 0
        previous == IF state.last = None THEN earlier ELSE state.last
    IN /\ watch = "files" /\ tick.at = "idle" /\ now <= MaxTime /\ clock' = now
       /\ tick' = [Quiet EXCEPT !.at = "walk", !.now = now, !.left = walk,
                                !.since = IF previous > now THEN earlier ELSE previous]
       /\ UNCHANGED <<watch, crowded, transcriptVars, zed, mtime, key, state, rowVars, ghostVars,
                      faults>>

ScanFile(f) ==
    /\ tick.at = "walk" /\ f \in tick.left
    /\ saves' = IF mtime[f] > tick.since /\ mtime[f] <= tick.now + Future
                THEN saves \cup {f} ELSE saves
    /\ tick' = [tick EXCEPT !.left = @ \ {f}]
    /\ UNCHANGED <<watch, crowded, transcriptVars, zed, clockVars, state, reported, human, billed,
                   unknown, updates, ghostVars, faults>>

\* Not looked at: what was saved before the window, where the window is not from
\* the last scan, and what was saved while the clock was behind the last scan.
EndScan ==
    /\ tick.at = "walk" /\ tick.left = {} /\ tick' = Quiet
    /\ state' = [state EXCEPT !.last = tick.now]
    /\ strayed' = strayed \cup
           {f \in File : mtime[f] <= tick.since /\ (tick.since # state.last \/ f \in behind)}
    /\ behind' = {}
    /\ UNCHANGED <<watch, crowded, transcriptVars, zed, clockVars, rowVars, first, evicted, late,
                   faults>>

-----------------------------------------------------------------------------
(* watch_ssh and watch_mac: is someone there? A row names the moment and how *)
(* long ago the last key was.                                                *)

Present(idle) == idle < IdleSeconds

\* A terminal's access time is when its shell last read a key.
watch_ssh ==
    /\ watch = "ssh" /\ tick.at = "idle" /\ Present(clock - key)
    /\ human' = {<<clock, clock - key>>}
    /\ UNCHANGED <<watch, crowded, transcriptVars, zed, clockVars, state, tick, reported, billed,
                   unknown, saves, updates, ghostVars, faults>>

\* ioreg's answer, and none counts as no idle time; then the app in front, which
\* makes a row when it is mapped.
watch_mac ==
    /\ watch = "macApps" /\ tick.at = "idle"
    /\ (Present(clock - key) /\ UNCHANGED faults) \/ Fault
    /\ \/ UNCHANGED <<human, late>>      \* not mapped
       \/ /\ human' = {<<clock, clock - key>>}
          /\ late' = IF faults' # faults THEN {clock} ELSE {}
    /\ UNCHANGED <<watch, crowded, transcriptVars, zed, clockVars, state, tick, reported, billed,
                   unknown, saves, updates, first, evicted, strayed, behind>>

-----------------------------------------------------------------------------
Environment ==
    \/ Create \/ StartLine \/ FinishLine \/ Truncate \/ ZedCommit \/ Type \/ Wait \/ ClockBack
    \/ \E f \in File : Save(f)
Transcript ==
    \/ BeginTranscript \/ NothingNew \/ ReadHead \/ StatAgain \/ FileGone \/ FirstSight \/ Clamp
    \/ read_new_lines
Next ==
    \/ Environment \/ load_state \/ Abandon
    \/ Transcript
    \/ db_signature \/ snapshot_db \/ read_threads
    \/ BeginScan \/ EndScan \/ \E f \in File : ScanFile(f)
    \/ watch_ssh \/ watch_mac

Spec == Init /\ [][Next]_vars

-----------------------------------------------------------------------------
(* Correctness.                                                            *)

\* "keeps that fragment for the next tick instead of losing the record forever":
\* every line that lies behind the offset was read, however its halves and the
\* ticks fell, but for what was there at first sight, what a catch-up skipped,
\* and what was written below the offset of a file that had shrunk.
NoRecordLost ==
    state.off # None =>
        \A i \in DOMAIN cells : cells[i].half = 2 /\ i <= state.off =>
            reported[cells[i].n] > 0 \/ cells[i].n \in excused

\* No line makes its rows in two ticks.
ReportedOnce == \A n \in Serial : reported[n] <= 1

\* "enrolling a machine does not replay months of transcripts": nothing of what
\* was there at first sight is reported later.
FirstSightSilent == \A n \in first : reported[n] = 0

\* "every partial write would be billed again": a message is charged once, what
\* its largest line says, on one row, as long as its id is remembered.
ChargedOnce ==
    watch = "claude" => \A id \in Id \ evicted :
        LET amounts == {lines[n].usage : n \in {k \in DOMAIN lines :
                            lines[k].id = id /\ reported[k] > 0 /\ ~ lines[k].old}}
        IN billed[id] = IF amounts = {} THEN 0
                        ELSE CHOOSE a \in amounts : \A b \in amounts : b <= a

\* "a session opened mid-write is attributed to unknown forever": a row names no
\* directory only when the session's first line was completed between the look at
\* the head and the look at the rest.
AttributedToSession == unknown \subseteq late

\* Once the signature of Zed's database is the one remembered, every thread in it
\* was reported, or was there on the first run.
ThreadsReported ==
    state.sig = zed.sig /\ zed.ok =>
        \A t \in Thread : zed.threads[t] # 0 => t \in updates \cup strayed

\* A save is reported by the first scan that starts after it, also after a step of
\* the clock: "would otherwise suppress every file forever".
SavesReported ==
    tick.at = "idle" /\ state.last # None =>
        \A f \in walk : mtime[f] # 0 /\ mtime[f] <= state.last =>
            f \in saves \cup strayed \cup behind

\* What is counted as a human's work is: a prompt, not the relay of a tool's result
\* or a subagent's line; a key within the idle time, unless ioreg printed nothing.
HumanWork ==
    \A h \in human : IF watch \in {"ssh", "macApps"} THEN h[2] < IdleSeconds \/ h[1] \in late
                     ELSE lines[h].kind \in {"prompt", "user_message"}

\* However a file is written, truncated, found again or read in pieces, each record
\* that was new to the watcher is reported, once, in the session it belongs to, and
\* none that was there before.
TailIsFaithful == NoRecordLost /\ ReportedOnce /\ FirstSightSilent /\ AttributedToSession

\* The usage of a message is counted once, however many lines repeat it.
UsageIsCounted == TypeOK /\ ChargedOnce

\* A change made while a watcher is looking is reported by it or by the next scan, and
\* only people's work is booked as theirs.
ChangesReported == ThreadsReported /\ SavesReported /\ HumanWork
=============================================================================
