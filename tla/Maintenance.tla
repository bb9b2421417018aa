---------------------------- MODULE Maintenance ----------------------------
(***************************************************************************)
(* The tracker database file and the commands that open, replace or copy   *)
(* it: open_db with its migrations (the server and the importers),         *)
(* backup create, backup restore, data prune.                              *)
(*                                                                         *)
(* A file is an inode: a rename moves it under the connections that hold   *)
(* it open.  disk[i].rows is what the file itself holds, disk[i].cur what  *)
(* a connection reads through the write-ahead log, and walFile the inode   *)
(* whose log lies beside the database path.  Any process may be killed     *)
(* between two steps, and a system call may fail (both are bounded).       *)
(***************************************************************************)
EXTENDS Integers, Sequences, FiniteSetsExt, SequencesExt

CONSTANTS
    Row,          \* the rows a writer may insert
    OldRow,       \* the rows before the cutoff of data prune
    Server,       \* openers that check the maintenance lock first
    Importer,     \* openers that do not (import-wakatime)
    Restorer,     \* processes running backup restore --confirm
    Latest,       \* LATEST_SCHEMA_VERSION
    Overlap,      \* TRUE: writers may run while a restore does
    MaxInodes, MaxStarts, MaxKills, MaxFaults,
    None

ASSUME MaintenanceAssumption ==
    /\ OldRow \subseteq Row
    /\ Latest \in Nat \ {0}
    /\ Overlap \in BOOLEAN
    /\ MaxInodes \in Nat \ {0, 1} /\ {MaxStarts, MaxKills, MaxFaults} \subseteq Nat
    /\ None \notin Restorer

VARIABLES
    disk, used,            \* inodes 1..used exist
    db, backup, rollbacks, \* the inode at each path, 0 when there is no file
    walFile,               \* the inode whose log is <db>-wal, or 0
    lock,                  \* the owner of <db>.maintenance.lock, or None
    opener, restorer, copier,
    acked, pruned,         \* rows reported stored, rows pruned on request
    starts, kills, faults

vars == <<disk, used, db, backup, rollbacks, walFile, lock, opener, restorer,
          copier, acked, pruned, starts, kills, faults>>

files == <<disk, used, db, backup, rollbacks, walFile>>
ghosts == <<acked, pruned>>

Opener == Server \cup Importer
Inode == 1 .. MaxInodes

\* A database the current binary made, or a newer or an older one did.
History(n) == [v \in 1 .. n |-> v]
Database(rs, n) == [rows |-> rs, cur |-> rs, hist |-> History(n), whole |-> TRUE]

Closed == [pc |-> "closed", ino |-> 0, next |-> 0]
Unstarted == [pc |-> "idle", src |-> 0, tmp |-> 0, old |-> 0]
NoCopy == [pc |-> "idle", ino |-> 0, tmp |-> 0, seen |-> {}]

(***************************************************************************)
(* The database may be a legacy one without migrations, and a killed       *)
(* server may have left rows in its log.  A backup exists already, of any  *)
(* version.                                                                *)
(***************************************************************************)
Init ==
    /\ \E kept \in SUBSET Row, logged \in SUBSET Row, v \in {0, Latest}, b \in {0, Latest, Latest + 1} :
          /\ Cardinality(kept) <= 1 /\ Cardinality(logged) <= 1
          /\ disk = [i \in Inode |->
                        IF i = 1 THEN [Database(kept, v) EXCEPT !.cur = kept \cup logged]
                                 ELSE Database({}, IF i = 2 THEN b ELSE 0)]
          /\ acked = kept \cup logged
    /\ used = 2 /\ db = 1 /\ walFile = 1 /\ backup \in {0, 2} /\ rollbacks = {}
    /\ lock = None
    /\ opener = [o \in Opener |-> Closed]
    /\ restorer = [r \in Restorer |-> Unstarted]
    /\ copier = NoCopy
    /\ pruned = {}
    /\ starts = 0 /\ kills = 0 /\ faults = 0

-----------------------------------------------------------------------------
IsOpen(o) == opener[o].pc \in {"migrating", "serving"}
Holders(i) == {o \in Opener : IsOpen(o) /\ opener[o].ino = i}
Restoring(r) == restorer[r].pc \notin {"idle", "ended", "killed"}

\* The procedure of the docs: nothing else writes while a restore runs.
NoWriterRuns == Overlap \/ \A o \in Opener : opener[o].pc = "closed"
NoRestoreRuns == Overlap \/ \A r \in Restorer : ~ Restoring(r)

Starting == starts < MaxStarts /\ starts' = starts + 1
Fault == faults < MaxFaults /\ faults' = faults + 1

\* The last connection to close checkpoints the log into the file and deletes it.
Checkpointed(d, i) == [d EXCEPT ![i].rows = d[i].cur]
CloseFile(d, i, others) ==
    /\ disk' = IF others = {} THEN Checkpointed(d, i) ELSE d
    /\ walFile' = IF others = {} /\ walFile = i THEN 0 ELSE walFile

\* Mutant: the server does not look at the lock.
CheckLockNot(s) ==
    /\ opener[s].pc = "closed"
    /\ Starting
    /\ opener' = [opener EXCEPT ![s].pc = "checked"]
    /\ UNCHANGED <<files, lock, restorer, copier, ghosts, kills, faults>>

(***************************************************************************)
(* start_server looks at the lock once and opens the database afterwards;  *)
(* an importer opens it at once.  Opening a path where another file's log  *)
(* lies replays that log onto this file.                                   *)
(***************************************************************************)
CheckLock(s) ==
    /\ opener[s].pc = "closed"
    /\ lock = None
    /\ Starting
    /\ opener' = [opener EXCEPT ![s].pc = "checked"]
    /\ UNCHANGED <<files, lock, restorer, copier, ghosts, kills, faults>>

OpenFile(o) ==
    \E i \in IF db = 0 THEN {used + 1} \cap Inode ELSE {db} :
        /\ db' = i /\ used' = IF db = 0 THEN i ELSE used
        /\ disk' = IF db = 0 THEN [disk EXCEPT ![i] = Database({}, 0)]
                   ELSE IF walFile \in {0, i} THEN disk
                   ELSE [disk EXCEPT ![i].whole = FALSE]
        /\ walFile' = i
        /\ LET applied == disk'[i].hist IN
           opener' = [opener EXCEPT ![o] =
                        IF IsPrefix(applied, History(Latest))
                          THEN [pc |-> "migrating", ino |-> i, next |-> Len(applied) + 1]
                          ELSE Closed]

OpenServer(s) ==
    /\ opener[s].pc = "checked"
    /\ OpenFile(s)
    /\ UNCHANGED <<backup, rollbacks, lock, restorer, copier, ghosts, starts, kills, faults>>

OpenImporter(o) ==
    /\ opener[o].pc = "closed" /\ NoRestoreRuns
    /\ Starting
    /\ OpenFile(o)
    /\ UNCHANGED <<backup, rollbacks, lock, restorer, copier, ghosts, kills, faults>>

(***************************************************************************)
(* run_migrations: the history is read once, then each missing migration   *)
(* runs in its own transaction.  A migration another process applied in    *)
(* between conflicts on its primary key and ends this open with an error.  *)
(***************************************************************************)
Migrate(o) ==
    LET i == opener[o].ino  v == opener[o].next IN
    /\ opener[o].pc = "migrating" /\ v <= Latest
    /\ v \notin Range(disk[i].hist)
    /\ disk' = [disk EXCEPT ![i].hist = Append(@, v)]
    /\ opener' = [opener EXCEPT ![o].next = v + 1]
    /\ UNCHANGED <<used, db, backup, rollbacks, walFile, lock, restorer, copier, ghosts, starts, kills, faults>>

Close(o) ==
    /\ CloseFile(disk, opener[o].ino, Holders(opener[o].ino) \ {o})
    /\ opener' = [opener EXCEPT ![o] = Closed]
    /\ UNCHANGED <<used, db, backup, rollbacks, lock, restorer, copier, ghosts, starts, kills>>

MigrationConflicts(o) ==
    /\ opener[o].pc = "migrating" /\ opener[o].next <= Latest
    /\ opener[o].next \in Range(disk[opener[o].ino].hist)
    /\ Close(o) /\ UNCHANGED faults

MigrationFails(o) ==
    /\ opener[o].pc = "migrating" /\ opener[o].next <= Latest
    /\ Fault /\ Close(o)

Ready(o) ==
    /\ opener[o].pc = "migrating" /\ opener[o].next > Latest
    /\ opener' = [opener EXCEPT ![o].pc = "serving"]
    /\ UNCHANGED <<files, lock, restorer, copier, ghosts, starts, kills, faults>>

Insert(o, x) ==
    LET i == opener[o].ino IN
    /\ opener[o].pc = "serving" /\ x \notin acked
    /\ disk' = [disk EXCEPT ![i].cur = @ \cup {x}]
    /\ acked' = acked \cup {x}
    /\ UNCHANGED <<used, db, backup, rollbacks, walFile, lock, opener, restorer, copier, pruned, starts, kills, faults>>

Stop(o) == opener[o].pc = "serving" /\ Close(o) /\ UNCHANGED faults

KillOpener(o) ==
    LET i == opener[o].ino IN
    /\ opener[o].pc # "closed" /\ kills < MaxKills /\ kills' = kills + 1
    /\ disk' = IF i # 0 /\ Holders(i) = {o} /\ walFile # i
                 THEN [disk EXCEPT ![i].cur = disk[i].rows] ELSE disk
    /\ opener' = [opener EXCEPT ![o] = Closed]
    /\ UNCHANGED <<used, db, backup, rollbacks, walFile, lock, restorer, copier, ghosts, starts, faults>>

(***************************************************************************)
(* data prune --confirm: both deletes in one immediate transaction on an   *)
(* existing database of any version; the connection closes right after.    *)
(***************************************************************************)
prune ==
    /\ db # 0 /\ NoRestoreRuns /\ Starting
    /\ disk[db].cur \cap OldRow # {}
    /\ CloseFile([disk EXCEPT ![db].cur = @ \ OldRow], db, Holders(db))
    /\ pruned' = pruned \cup (disk[db].cur \cap OldRow)
    /\ UNCHANGED <<used, db, backup, rollbacks, lock, opener, restorer, copier, acked, kills, faults>>

-----------------------------------------------------------------------------
(***************************************************************************)
(* backup create: the snapshot goes through the log into a file of its     *)
(* own, is finalized and verified, and then renamed over the destination.  *)
(***************************************************************************)
create_backup(force) ==
    /\ copier.pc \in {"idle", "done"} /\ db # 0 /\ used < MaxInodes
    /\ backup # 0 => force
    /\ Starting
    /\ copier' = [pc |-> "copying", ino |-> db, tmp |-> 0, seen |-> disk[db].cur]
    /\ UNCHANGED <<files, lock, opener, restorer, ghosts, kills, faults>>

TakeSnapshot ==
    /\ copier.pc = "copying" /\ used < MaxInodes
    /\ used' = used + 1
    /\ \E torn \in {FALSE} \cup {f \in {TRUE} : faults < MaxFaults} :
          /\ faults' = faults + IF torn THEN 1 ELSE 0
          /\ LET src == disk[copier.ino] IN
             disk' = [disk EXCEPT ![used + 1] = [rows |-> src.cur, cur |-> src.cur, hist |-> src.hist,
                                                 whole |-> src.whole /\ ~ torn]]
    /\ copier' = [copier EXCEPT !.pc = "copied", !.tmp = used + 1]
    /\ UNCHANGED <<db, backup, rollbacks, walFile, lock, opener, restorer, ghosts, starts, kills>>

verify_backup(i) == disk[i].whole

PublishSnapshot ==
    /\ copier.pc = "copied"
    /\ IF verify_backup(copier.tmp)
         THEN backup' = copier.tmp /\ copier' = [copier EXCEPT !.pc = "done", !.tmp = 0]
         ELSE backup' = backup /\ copier' = NoCopy
    /\ UNCHANGED <<disk, used, db, rollbacks, walFile, lock, opener, restorer, ghosts, starts, kills, faults>>

KillCopier ==
    /\ copier.pc \in {"copying", "copied"} /\ kills < MaxKills /\ kills' = kills + 1
    /\ copier' = NoCopy
    /\ UNCHANGED <<files, lock, opener, restorer, ghosts, starts, faults>>

-----------------------------------------------------------------------------
\* The files restore_with accepts: verified, and not the database itself.
RestoreSource == {src \in ({backup} \cup rollbacks) \ {0, db} : verify_backup(src)}

(***************************************************************************)
(* backup restore --confirm, one action per step that another process or   *)
(* a kill can separate from the next.                                      *)
(***************************************************************************)
acquire_maintenance_lock(r) ==
    \E src \in RestoreSource :
        /\ restorer[r].pc \in {"idle", "ended"} /\ NoWriterRuns /\ Starting
        /\ IF lock # None
             THEN UNCHANGED <<lock, restorer, faults>>
             ELSE \/ /\ lock' = r /\ UNCHANGED faults
                     /\ restorer' = [restorer EXCEPT ![r] =
                                        [pc |-> "locked", src |-> src, tmp |-> 0, old |-> db]]
                  \/ /\ Fault          \* the pid cannot be written: the lock file goes again
                     /\ UNCHANGED <<lock, restorer>>
        /\ UNCHANGED <<files, opener, copier, ghosts, kills>>

\* The guards' drops: the copy is removed first, the lock second.
Ended(r) ==
    /\ restorer' = [restorer EXCEPT ![r] = [Unstarted EXCEPT !.pc = "ended"]]
    /\ lock' = None

\* .pre-restore-<ts> is taken already, or a call before the swap fails.
RestoreRefused(r) ==
    /\ restorer[r].pc \in {"locked", "copied", "proved"}
    /\ Fault
    /\ Ended(r)
    /\ UNCHANGED <<files, opener, copier, ghosts, starts, kills>>

copy_excl(r) ==
    /\ restorer[r].pc = "locked" /\ used < MaxInodes
    /\ used' = used + 1
    /\ \E torn \in {FALSE} \cup {f \in {TRUE} : faults < MaxFaults} :
          /\ faults' = faults + IF torn THEN 1 ELSE 0
          /\ disk' = [disk EXCEPT ![used + 1] =
                        [disk[restorer[r].src] EXCEPT !.whole = @ /\ ~ torn, !.cur = disk[restorer[r].src].rows]]
    /\ restorer' = [restorer EXCEPT ![r].pc = "copied", ![r].tmp = used + 1]
    /\ UNCHANGED <<db, backup, rollbacks, walFile, lock, opener, copier, ghosts, starts, kills>>

VerifyFails(r) ==
    /\ restorer[r].pc = "copied" /\ ~ verify_backup(restorer[r].tmp)
    /\ Ended(r)
    /\ UNCHANGED <<files, opener, copier, ghosts, starts, kills, faults>>

\* Mutant: the log is not checkpointed before it is removed.
prepare_existing_databaseNot(r) ==
    /\ restorer[r].pc = "copied" /\ verify_backup(restorer[r].tmp)
    /\ restorer' = [restorer EXCEPT ![r].pc = "proved"]
    /\ UNCHANGED <<files, lock, opener, copier, ghosts, starts, kills, faults>>

\* wal_checkpoint(TRUNCATE) and an exclusive transaction succeed when no other
\* connection is in the middle of one; the proof's own connection then closes.
prepare_existing_database(r) ==
    /\ restorer[r].pc = "copied" /\ verify_backup(restorer[r].tmp)
    /\ IF db = 0 THEN UNCHANGED <<disk, walFile>>
       ELSE /\ disk' = Checkpointed(disk, db)
            /\ walFile' = IF Holders(db) = {} THEN 0 ELSE walFile
    /\ restorer' = [restorer EXCEPT ![r].pc = "proved"]
    /\ UNCHANGED <<used, db, backup, rollbacks, lock, opener, copier, ghosts, starts, kills, faults>>

RemoveSidecars(r) ==
    /\ restorer[r].pc = "proved"
    /\ walFile' = 0
    /\ disk' = IF walFile # 0 /\ Holders(walFile) = {}
                 THEN [disk EXCEPT ![walFile].cur = disk[walFile].rows] ELSE disk
    /\ restorer' = [restorer EXCEPT ![r].pc = "cleaned"]
    /\ UNCHANGED <<used, db, backup, rollbacks, lock, opener, copier, ghosts, starts, kills, faults>>

\* A target that was missing at the start has no rollback path to move to.
MoveAside(r) ==
    /\ restorer[r].pc = "cleaned" /\ restorer[r].old # 0
    /\ \/ /\ db' = 0 /\ rollbacks' = rollbacks \cup {db}
          /\ restorer' = [restorer EXCEPT ![r].pc = "moved"]
          /\ UNCHANGED <<lock, faults>>
       \/ /\ Fault /\ Ended(r)
          /\ UNCHANGED <<db, rollbacks>>
    /\ UNCHANGED <<disk, used, backup, walFile, opener, copier, ghosts, starts, kills>>

Swappable(r) ==
    \/ restorer[r].pc = "moved"
    \/ restorer[r].pc = "cleaned" /\ restorer[r].old = 0

swap_in(r) ==
    /\ Swappable(r)
    /\ db' = restorer[r].tmp
    /\ Ended(r)
    /\ UNCHANGED <<disk, used, backup, rollbacks, walFile, opener, copier, ghosts, starts, kills, faults>>

\* Mutant: the original is not moved back.
UndoSwapForgets(r) ==
    /\ Swappable(r)
    /\ Fault
    /\ db' = 0
    /\ Ended(r)
    /\ UNCHANGED <<disk, used, backup, rollbacks, walFile, opener, copier, ghosts, starts, kills>>

(***************************************************************************)
(* The rename or the verification of the installed file fails: the target  *)
(* is removed and the original moved back.  That rename may fail as well.  *)
(***************************************************************************)
UndoSwap(r) ==
    /\ Swappable(r)
    /\ \/ /\ Fault
          /\ db' = restorer[r].old /\ rollbacks' = rollbacks \ {restorer[r].old}
       \/ /\ restorer[r].pc = "moved" /\ faults + 2 <= MaxFaults /\ faults' = faults + 2
          /\ db' = 0 /\ UNCHANGED rollbacks
    /\ Ended(r)
    /\ UNCHANGED <<disk, used, backup, walFile, opener, copier, ghosts, starts, kills>>

KillRestorer(r) ==
    /\ Restoring(r) /\ kills < MaxKills /\ kills' = kills + 1
    /\ restorer' = [restorer EXCEPT ![r].pc = "killed"]
    /\ UNCHANGED <<files, lock, opener, copier, ghosts, starts, faults>>

\* The lock of a killed restore never expires: the operator deletes it.
RemoveDeadLock ==
    /\ lock # None /\ restorer[lock].pc = "killed"
    /\ lock' = None
    /\ restorer' = [restorer EXCEPT ![lock] = Unstarted]
    /\ UNCHANGED <<files, opener, copier, ghosts, starts, kills, faults>>

Next ==
    \/ \E s \in Server : CheckLock(s) \/ OpenServer(s)
    \/ \E o \in Importer : OpenImporter(o)
    \/ \E o \in Opener : \/ Migrate(o) \/ MigrationConflicts(o) \/ MigrationFails(o)
                         \/ Ready(o) \/ Stop(o) \/ KillOpener(o)
                         \/ \E x \in Row : Insert(o, x)
    \/ prune
    \/ \E force \in BOOLEAN : create_backup(force)
    \/ TakeSnapshot \/ PublishSnapshot \/ KillCopier
    \/ \E r \in Restorer :
          \/ acquire_maintenance_lock(r) \/ RestoreRefused(r) \/ copy_excl(r) \/ VerifyFails(r)
          \/ prepare_existing_database(r) \/ RemoveSidecars(r) \/ MoveAside(r)
          \/ swap_in(r) \/ UndoSwap(r) \/ KillRestorer(r)
    \/ RemoveDeadLock

Spec == Init /\ [][Next]_vars

-----------------------------------------------------------------------------
TypeOK ==
    /\ disk \in [Inode -> [rows : SUBSET Row, cur : SUBSET Row, hist : Seq(1 .. Latest + 1), whole : BOOLEAN]]
    /\ used \in Inode /\ {db, backup, walFile} \subseteq 0 .. used /\ rollbacks \subseteq 1 .. used
    /\ lock \in Restorer \cup {None}
    /\ opener \in [Opener -> [pc : {"closed", "checked", "migrating", "serving"}, ino : 0 .. used, next : 0 .. Latest + 1]]
    /\ restorer \in [Restorer ->
          [pc : {"idle", "locked", "copied", "proved", "cleaned", "moved", "ended", "killed"},
           src : 0 .. used, tmp : 0 .. used, old : 0 .. used]]
    /\ copier \in [pc : {"idle", "copying", "copied", "done"}, ino : 0 .. used, tmp : 0 .. used, seen : SUBSET Row]
    /\ acked \subseteq Row /\ pruned \subseteq Row

\* A row that was reported stored and not pruned on request survives restores, failed restores and
\* kills at any step: it is in the database (through its log) or in a .pre-restore file, which
\* restore_with never deletes.
RowsKept ==
    \A x \in acked \ pruned :
        \/ db # 0 /\ x \in disk[db].cur
        \/ \E i \in rollbacks : x \in disk[i].rows

\* No path a user reads ever holds a half-written file: neither the database, nor a rollback, nor the
\* published backup, however a copy or a command is cut short.
PublishedFilesAreWhole ==
    \A i \in ({db, backup} \cup rollbacks) \ {0} : disk[i].whole

\* From the lock to the end of its restore a process is alone: no second restore, and no server.
RestoreIsExclusive ==
    \A r \in Restorer : Restoring(r) =>
        /\ lock = r
        /\ \A q \in Restorer \ {r} : ~ Restoring(q)
        /\ \A s \in Server : ~ IsOpen(s)

\* A restore that ends by itself, in success or in error, leaves no lock that would keep the server
\* from starting: a remaining lock belongs to a running or a killed restore.
LockHasOwner == lock # None => restorer[lock].pc \notin {"idle", "ended"}

\* Outside a restore the database path is empty only when a restore was killed or could not move the
\* original back: a failed restore puts the original database back.
DatabaseIsThere ==
    db = 0 => \/ \E r \in Restorer : restorer[r].pc \in {"moved", "killed"}
              \/ kills > 0 \/ faults >= 2

\* Every file carries each migration once and in order, whichever processes opened it together, so a
\* process that serves has the latest schema.
HistoryIsPrefix ==
    /\ \A i \in 1 .. used : disk[i].hist = History(Len(disk[i].hist))
    /\ \A o \in Opener : opener[o].pc = "serving" => Len(disk[opener[o].ino].hist) = Latest

\* A backup holds every row that was stored when it was started, those still in the log included.
BackupIsCurrent == copier.pc = "done" => copier.seen \ pruned \subseteq disk[backup].rows

\* Whoever is killed wherever, a database is at its path or beside it, what is
\* published is whole, a backup holds what was committed when it began, and the
\* schema's history has no gap.
FilesAreWhole ==
    /\ TypeOK
    /\ DatabaseIsThere
    /\ PublishedFilesAreWhole
    /\ BackupIsCurrent
    /\ HistoryIsPrefix

\* A restore works on a database nobody writes, under a lock somebody owns.
RestoreIsAlone == RestoreIsExclusive /\ LockHasOwner
=============================================================================
