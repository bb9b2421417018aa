------------------------- MODULE MaintenanceProofs -------------------------
(***************************************************************************)
(* The documented procedure, in which nothing writes while a restore runs: *)
(* for every number of rows, processes, kills and failures no stored row   *)
(* is lost, no published file is half written, the schema's history has no *)
(* gap, and a restore is alone.                                            *)
(***************************************************************************)
EXTENDS Maintenance, TLAPS

-----------------------------------------------------------------------------
(* The inductive invariant.                                                *)

Copied == {"copied", "proved", "cleaned", "moved"}

\* The counters, and what a kill leaves in them.
Counted ==
    /\ starts \in Nat /\ kills \in Nat /\ faults \in Nat
    /\ \A r \in Restorer : restorer[r].pc = "killed" => kills > 0

\* A running restore owns the lock, and nobody has the database open.
RestorerAlone ==
    \A r \in Restorer : Restoring(r) =>
        lock = r /\ \A o \in Opener : opener[o].pc = "closed"

\* An open connection is to the file at the path, whose log is there.
OpenersHoldDb ==
    \A o \in Opener : IF IsOpen(o) THEN db # 0 /\ opener[o].ino = db /\ walFile = db
                                   ELSE opener[o].ino = 0

\* No log lies beside a database it is not of.
LogIsDbs == walFile \in {0, db}

\* The published paths name different files, none of which is a copy in progress.
PathsDiffer ==
    /\ db \notin rollbacks /\ backup \notin rollbacks /\ (backup # 0 => backup # db)
    /\ copier.pc = "copied" => copier.tmp # 0 /\ copier.tmp \notin rollbacks \cup {db, backup}
    /\ \A r \in Restorer : restorer[r].pc \in Copied =>
           /\ restorer[r].tmp # 0 /\ restorer[r].tmp \notin rollbacks \cup {db, backup}
           /\ copier.pc = "copied" => copier.tmp # restorer[r].tmp

\* What a restore relies on from one of its steps to the next.
RestoreOnTrack ==
    \A r \in Restorer :
        /\ restorer[r].pc = "locked" => restorer[r].src # 0
        /\ restorer[r].pc \in {"locked", "copied", "proved", "cleaned"} => restorer[r].old = db
        /\ restorer[r].pc \in {"proved", "cleaned"} /\ db # 0 => disk[db].rows = disk[db].cur
        /\ restorer[r].pc \in {"cleaned", "moved"} => walFile = 0
        /\ restorer[r].pc \in {"proved", "cleaned", "moved"} => disk[restorer[r].tmp].whole
        /\ restorer[r].pc = "moved" =>
               /\ db = 0 /\ restorer[r].old \in rollbacks
               /\ disk[restorer[r].old].rows = disk[restorer[r].old].cur

\* A backup in progress has, or will have, what was stored when it began.
BackupOnTrack ==
    /\ copier.pc = "copying" =>
           copier.ino # 0 /\ copier.seen \ pruned \subseteq disk[copier.ino].cur
    /\ copier.pc = "copied" => copier.seen \ pruned \subseteq disk[copier.tmp].rows
    /\ copier.pc = "done" => backup # 0 /\ copier.seen \ pruned \subseteq disk[backup].rows

\* A process that migrates is at most one past the history of its file.
MigrationsInOrder ==
    \A o \in Opener : IsOpen(o) =>
        /\ Len(disk[db].hist) <= Latest
        /\ opener[o].next \in 1..(Len(disk[db].hist) + 1)

MaintInv ==
    /\ TypeOK /\ Counted
    /\ RestorerAlone /\ LockHasOwner
    /\ OpenersHoldDb /\ LogIsDbs /\ PathsDiffer
    /\ RestoreOnTrack /\ BackupOnTrack
    /\ HistoryIsPrefix /\ MigrationsInOrder
    /\ RowsKept /\ PublishedFilesAreWhole /\ DatabaseIsThere
-----------------------------------------------------------------------------
(* Types.                                                                  *)

DiskRow == [rows : SUBSET Row, cur : SUBSET Row, hist : Seq(1 .. Latest + 1), whole : BOOLEAN]
OpenerRow(u) == [pc : {"closed", "checked", "migrating", "serving"}, ino : 0 .. u,
                 next : 0 .. Latest + 1]
RestorerRow(u) ==
    [pc : {"idle", "locked", "copied", "proved", "cleaned", "moved", "ended", "killed"},
     src : 0 .. u, tmp : 0 .. u, old : 0 .. u]
CopierRow(u) == [pc : {"idle", "copying", "copied", "done"}, ino : 0 .. u, tmp : 0 .. u,
                 seen : SUBSET Row]

\* The type invariant, a variable at a time.
LEMMA TypeParts ==
  TypeOK <=> /\ disk \in [Inode -> DiskRow]
             /\ used \in Inode /\ {db, backup, walFile} \subseteq 0 .. used
             /\ rollbacks \subseteq 1 .. used
             /\ lock \in Restorer \cup {None}
             /\ opener \in [Opener -> OpenerRow(used)]
             /\ restorer \in [Restorer -> RestorerRow(used)]
             /\ copier \in CopierRow(used)
             /\ acked \subseteq Row /\ pruned \subseteq Row
  BY DEF TypeOK, DiskRow, OpenerRow, RestorerRow, CopierRow

\* The same of the state after a step.
LEMMA TypePartsNext ==
  TypeOK' <=> /\ disk' \in [Inode -> DiskRow]
              /\ used' \in Inode /\ {db', backup', walFile'} \subseteq 0 .. used'
              /\ rollbacks' \subseteq 1 .. used'
              /\ lock' \in Restorer \cup {None}
              /\ opener' \in [Opener -> OpenerRow(used')]
              /\ restorer' \in [Restorer -> RestorerRow(used')]
              /\ copier' \in CopierRow(used')
              /\ acked' \subseteq Row /\ pruned' \subseteq Row
  BY DEF TypeOK, DiskRow, OpenerRow, RestorerRow, CopierRow

\* A new file leaves every record valid.
LEMMA RecordsGrow ==
  ASSUME NEW u \in Nat, NEW v \in Nat, u <= v
  PROVE  /\ 0 .. u \subseteq 0 .. v /\ 1 .. u \subseteq 1 .. v
         /\ [Opener -> OpenerRow(u)] \subseteq [Opener -> OpenerRow(v)]
         /\ [Restorer -> RestorerRow(u)] \subseteq [Restorer -> RestorerRow(v)]
         /\ CopierRow(u) \subseteq CopierRow(v)
  <1>1. 0 .. u \subseteq 0 .. v /\ 1 .. u \subseteq 1 .. v
    OBVIOUS
  <1>2. OpenerRow(u) \subseteq OpenerRow(v)
    BY <1>1 DEF OpenerRow
  <1>3. RestorerRow(u) \subseteq RestorerRow(v)
    BY <1>1 DEF RestorerRow
  <1>4. CopierRow(u) \subseteq CopierRow(v)
    BY <1>1 DEF CopierRow
  <1> QED BY <1>1, <1>2, <1>3, <1>4

\* A history of the first n migrations.
LEMMA HistoryIsSeq ==
  ASSUME NEW n \in 0 .. Latest + 1
  PROVE  History(n) \in Seq(1 .. Latest + 1) /\ Len(History(n)) = n
  <1>1. n \in Nat /\ History(n) \in [1 .. n -> 1 .. Latest + 1]
    BY MaintenanceAssumption DEF History
  <1>2. \A S : \A k \in Nat : \A f \in [1 .. k -> S] : f \in Seq(S) /\ Len(f) = k
    OBVIOUS
  <1> HIDE DEF History
  <1> QED BY <1>1, <1>2

\* A new database file.
LEMMA DatabaseIsRow ==
  ASSUME NEW rs \in SUBSET Row, NEW n \in 0 .. Latest + 1
  PROVE  /\ Database(rs, n) \in DiskRow
         /\ Database(rs, n).rows = rs /\ Database(rs, n).cur = rs
         /\ Database(rs, n).hist = History(n) /\ Database(rs, n).whole
  BY HistoryIsSeq DEF Database, DiskRow
-----------------------------------------------------------------------------
(* Steps that leave every file alone.                                      *)

\* What depends on the files only.
FilesInv == LogIsDbs /\ RowsKept /\ PublishedFilesAreWhole

\* It survives a step that changes no file.
LEMMA FilesStay ==
  ASSUME FilesInv, UNCHANGED <<files, ghosts>>
  PROVE  FilesInv'
  BY DEF FilesInv, LogIsDbs, RowsKept, PublishedFilesAreWhole, files, ghosts

\* Starting starts and faulting faults.
LEMMA CountersGrow ==
  ASSUME Counted
  PROVE  /\ Starting => starts' \in Nat
         /\ Fault => faults' \in Nat /\ faults' >= faults
  BY DEF Counted, Starting, Fault

\* The files whose names are in the state exist.
LEMMA FilesExist ==
  ASSUME TypeOK
  PROVE  /\ used \in Nat /\ 1 .. used \subseteq Inode /\ Inode \subseteq Nat /\ 0 \notin Inode
         /\ \A i \in 0 .. used : i # 0 => i \in Inode /\ i \in 1 .. used
         /\ db \in 0 .. used /\ backup \in 0 .. used /\ walFile \in 0 .. used
         /\ \A i \in rollbacks : i \in 1 .. used /\ i # 0
  BY MaintenanceAssumption DEF TypeOK, Inode

\* A server finds no lock: no restore is running.
LEMMA CheckLockStep ==
  ASSUME MaintInv, NEW s \in Server, CheckLock(s)
  PROVE  MaintInv'
  <1> USE DEF MaintInv
  <1>1. /\ opener[s].pc = "closed" /\ lock = None /\ starts' = starts + 1
        /\ opener' = [opener EXCEPT ![s].pc = "checked"]
        /\ UNCHANGED <<files, lock, restorer, copier, ghosts, kills, faults>>
    BY DEF CheckLock, Starting
  <1>2. \A r \in Restorer : ~Restoring(r)
    BY <1>1, MaintenanceAssumption DEF RestorerAlone
  <1>3. opener \in [Opener -> OpenerRow(used)] /\ s \in Opener
    BY TypeParts DEF Opener
  <1>4. /\ opener' \in [Opener -> OpenerRow(used)]
        /\ \A o \in Opener : IsOpen(o)' <=> IsOpen(o)
        /\ \A o \in Opener : /\ opener'[o].ino = opener[o].ino
                             /\ opener'[o].next = opener[o].next
        /\ \A o \in Opener : opener'[o].pc = "serving" => opener[o].pc = "serving"
    BY <1>1, <1>3 DEF OpenerRow, IsOpen
  <1>5. TypeOK'
    BY <1>1, <1>4, TypeParts, TypePartsNext DEF files, ghosts
  <1>6. Counted' /\ DatabaseIsThere' /\ LockHasOwner'
    BY <1>1 DEF Counted, DatabaseIsThere, LockHasOwner, files
  <1>7. RestorerAlone'
    BY <1>1, <1>2 DEF RestorerAlone, Restoring
  <1>8. OpenersHoldDb'
    BY <1>1, <1>4 DEF OpenersHoldDb, files
  <1>9. PathsDiffer' /\ RestoreOnTrack' /\ BackupOnTrack'
    BY <1>1 DEF PathsDiffer, RestoreOnTrack, BackupOnTrack, files, ghosts
  <1>10. HistoryIsPrefix' /\ MigrationsInOrder'
    BY <1>1, <1>4 DEF HistoryIsPrefix, MigrationsInOrder, files
  <1>11. FilesInv'
    BY <1>1, FilesStay DEF FilesInv
  <1> QED BY <1>5, <1>6, <1>7, <1>8, <1>9, <1>10, <1>11 DEF FilesInv

\* All migrations are applied: the process serves a file of the latest schema.
LEMMA ReadyStep ==
  ASSUME MaintInv, NEW o \in Opener, Ready(o)
  PROVE  MaintInv'
  <1> USE DEF MaintInv
  <1>1. /\ opener[o].pc = "migrating" /\ opener[o].next > Latest
        /\ opener' = [opener EXCEPT ![o].pc = "serving"]
        /\ UNCHANGED <<files, lock, restorer, copier, ghosts, starts, kills, faults>>
    BY DEF Ready
  <1>2. opener \in [Opener -> OpenerRow(used)] /\ IsOpen(o) /\ opener[o].ino = db /\ db # 0
    BY <1>1, TypeParts DEF IsOpen, OpenersHoldDb
  <1>3. /\ opener' \in [Opener -> OpenerRow(used)]
        /\ \A p \in Opener : IsOpen(p)' <=> IsOpen(p)
        /\ \A p \in Opener : /\ opener'[p].ino = opener[p].ino
                             /\ opener'[p].next = opener[p].next
                             /\ opener'[p].pc = "closed" <=> opener[p].pc = "closed"
        /\ \A p \in Opener : opener'[p].pc = "serving" => opener[p].pc = "serving" \/ p = o
    BY <1>1, <1>2 DEF OpenerRow, IsOpen
  <1>4. TypeOK'
    BY <1>1, <1>3, TypeParts, TypePartsNext DEF files, ghosts
  <1>5. Counted' /\ DatabaseIsThere' /\ LockHasOwner'
    BY <1>1 DEF Counted, DatabaseIsThere, LockHasOwner, files
  <1>6. RestorerAlone'
    BY <1>1, <1>3 DEF RestorerAlone, Restoring
  <1>7. OpenersHoldDb'
    BY <1>1, <1>3 DEF OpenersHoldDb, files
  <1>8. PathsDiffer' /\ RestoreOnTrack' /\ BackupOnTrack'
    BY <1>1 DEF PathsDiffer, RestoreOnTrack, BackupOnTrack, files, ghosts
  <1>9. MigrationsInOrder'
    BY <1>1, <1>3 DEF MigrationsInOrder, files
  <1>10. HistoryIsPrefix'
    <2>1. Len(disk[db].hist) = Latest
      <3>1. disk[db] \in DiskRow /\ Latest \in Nat
        BY <1>2, FilesExist, TypeParts, MaintenanceAssumption
      <3>2. Len(disk[db].hist) \in Nat
        BY <3>1 DEF DiskRow
      <3> QED BY <1>1, <1>2, <3>1, <3>2 DEF MigrationsInOrder
    <2> QED BY <1>1, <1>2, <1>3, <2>1 DEF HistoryIsPrefix, files
  <1>11. FilesInv'
    BY <1>1, FilesStay DEF FilesInv
  <1> QED BY <1>4, <1>5, <1>6, <1>7, <1>8, <1>9, <1>10, <1>11 DEF FilesInv

\* What depends on the files and the connections only.
LEMMA ConnectionsStay ==
  ASSUME MaintInv, UNCHANGED <<files, ghosts, opener>>
  PROVE  FilesInv' /\ OpenersHoldDb' /\ HistoryIsPrefix' /\ MigrationsInOrder'
  <1> USE DEF MaintInv, files, ghosts
  <1>1. FilesInv'
    BY FilesStay DEF FilesInv
  <1>2. OpenersHoldDb'
    BY DEF OpenersHoldDb, IsOpen
  <1>3. HistoryIsPrefix' /\ MigrationsInOrder'
    BY DEF HistoryIsPrefix, MigrationsInOrder, IsOpen
  <1> QED BY <1>1, <1>2, <1>3

\* A restore ends, is killed, or its dead lock is cleared, and no file changes.
LEMMA RestoreStops ==
  ASSUME MaintInv, NEW r \in Restorer,
         UNCHANGED <<files, ghosts, opener, copier>>,
         starts' \in Nat, kills' \in Nat, kills' >= kills, faults' \in Nat, faults' >= faults,
         restorer' \in [Restorer -> RestorerRow(used)],
         \A q \in Restorer : q # r => restorer'[q] = restorer[q],
         restorer'[r].pc \in {"ended", "killed", "idle"},
         restorer'[r].pc = "killed" => kills' > 0,
         restorer[r].pc = "moved" => kills' > 0 \/ faults' >= 2,
         lock = r,
         lock' = None \/ (lock' = r /\ restorer'[r].pc = "killed")
  PROVE  MaintInv'
  <1> USE DEF MaintInv
  <1>1. TypeOK'
    BY TypeParts, TypePartsNext DEF files, ghosts
  <1>2. Counted'
    BY DEF Counted
  <1>3. \A q \in Restorer : ~Restoring(q)'
    <2>1. \A q \in Restorer : q # r => ~Restoring(q)
      BY DEF RestorerAlone
    <2> QED BY <2>1 DEF Restoring
  <1>4. RestorerAlone'
    BY <1>3 DEF RestorerAlone
  <1>5. LockHasOwner'
    BY MaintenanceAssumption DEF LockHasOwner
  <1>6. \A q \in Restorer : restorer'[q].pc \notin Copied \cup {"locked"}
    BY <1>1, <1>3, TypePartsNext DEF Restoring, Copied, RestorerRow
  <1>7. PathsDiffer' /\ RestoreOnTrack'
    BY <1>6 DEF PathsDiffer, RestoreOnTrack, Copied, files
  <1>8. BackupOnTrack'
    BY DEF BackupOnTrack, files, ghosts
  <1>9. DatabaseIsThere'
    <2>1. SUFFICES ASSUME db = 0 PROVE DatabaseIsThere'
      BY DEF DatabaseIsThere, files
    <2>2. CASE \E q \in Restorer : restorer[q].pc \in {"moved", "killed"}
      <3>1. PICK q \in Restorer : restorer[q].pc \in {"moved", "killed"}
        BY <2>2
      <3>2. CASE q = r
        BY <3>1, <3>2 DEF Counted, DatabaseIsThere
      <3>3. CASE q # r
        BY <3>1, <3>3 DEF DatabaseIsThere
      <3> QED BY <3>2, <3>3
    <2>3. CASE kills > 0 \/ faults >= 2
      BY <2>3 DEF DatabaseIsThere, Counted
    <2> QED BY <2>1, <2>2, <2>3 DEF DatabaseIsThere
  <1> QED
    BY <1>1, <1>2, <1>4, <1>5, <1>7, <1>8, <1>9, ConnectionsStay DEF FilesInv

\* A restore that ends by itself.
LEMMA EndedRecord ==
  ASSUME restorer \in [Restorer -> RestorerRow(used)], used \in Nat, NEW r \in Restorer, Ended(r)
  PROVE  /\ restorer' \in [Restorer -> RestorerRow(used)] /\ restorer'[r].pc = "ended"
         /\ \A q \in Restorer : q # r => restorer'[q] = restorer[q]
         /\ lock' = None
  <1> DEFINE new == [Unstarted EXCEPT !.pc = "ended"]
  <1>1. new \in RestorerRow(used) /\ new.pc = "ended"
    BY DEF RestorerRow, Unstarted
  <1>2. restorer' = [restorer EXCEPT ![r] = new] /\ lock' = None
    BY DEF Ended
  <1> HIDE DEF new
  <1> QED BY <1>1, <1>2

\* A refused restore, one whose copy does not verify, a killed one, a lock the
\* operator removes.
LEMMA StoppedStep ==
  ASSUME MaintInv, NEW r \in Restorer,
         RestoreRefused(r) \/ VerifyFails(r) \/ KillRestorer(r)
  PROVE  MaintInv'
  <1>0. /\ restorer \in [Restorer -> RestorerRow(used)] /\ starts \in Nat /\ kills \in Nat
        /\ faults \in Nat /\ used \in Nat
    BY TypeParts, FilesExist DEF MaintInv, Counted
  <1>1. Restoring(r) /\ lock = r
    BY DEF MaintInv, RestoreRefused, VerifyFails, KillRestorer, Restoring, RestorerAlone
  <1>2. UNCHANGED <<files, ghosts, opener, copier>>
    BY DEF RestoreRefused, VerifyFails, KillRestorer
  <1>3. CASE RestoreRefused(r) \/ VerifyFails(r)
    <2>1. /\ Ended(r)
          /\ restorer[r].pc # "moved" /\ UNCHANGED <<starts, kills>>
          /\ faults' \in {faults, faults + 1}
      BY <1>3 DEF RestoreRefused, VerifyFails, Fault
    <2>2. /\ restorer' \in [Restorer -> RestorerRow(used)] /\ restorer'[r].pc = "ended"
          /\ \A q \in Restorer : q # r => restorer'[q] = restorer[q]
          /\ lock' = None
      BY <1>0, <2>1, EndedRecord
    <2>3. faults' \in Nat /\ faults' >= faults
      BY <1>0, <2>1
    <2> QED BY <1>0, <1>1, <1>2, <2>1, <2>2, <2>3, RestoreStops
  <1>4. CASE KillRestorer(r)
    <2>1. /\ restorer' = [restorer EXCEPT ![r].pc = "killed"] /\ lock' = lock
          /\ kills' = kills + 1 /\ UNCHANGED <<starts, faults>>
      BY <1>4 DEF KillRestorer
    <2>2. /\ restorer' \in [Restorer -> RestorerRow(used)] /\ restorer'[r].pc = "killed"
          /\ \A q \in Restorer : q # r => restorer'[q] = restorer[q]
      BY <1>0, <2>1 DEF RestorerRow
    <2>3. kills' \in Nat /\ kills' >= kills /\ kills' > 0 /\ faults' >= faults
      BY <1>0, <2>1
    <2> QED BY <1>0, <1>1, <1>2, <2>1, <2>2, <2>3, RestoreStops
  <1> QED BY <1>3, <1>4

\* The operator deletes the lock of a killed restore.
LEMMA DeadLockStep ==
  ASSUME MaintInv, RemoveDeadLock
  PROVE  MaintInv'
  <1>0. /\ restorer \in [Restorer -> RestorerRow(used)] /\ starts \in Nat /\ kills \in Nat
        /\ faults \in Nat /\ used \in Nat /\ lock \in Restorer
    BY TypeParts, FilesExist DEF MaintInv, Counted, RemoveDeadLock
  <1> DEFINE r == lock
  <1>1. /\ restorer[r].pc = "killed" /\ lock' = None
        /\ restorer' = [restorer EXCEPT ![r] = Unstarted]
        /\ UNCHANGED <<files, opener, copier, ghosts, starts, kills, faults>>
    BY DEF RemoveDeadLock
  <1>2. Unstarted \in RestorerRow(used) /\ Unstarted.pc = "idle"
    BY <1>0 DEF Unstarted, RestorerRow
  <1>3. /\ restorer' \in [Restorer -> RestorerRow(used)] /\ restorer'[r].pc = "idle"
        /\ \A q \in Restorer : q # r => restorer'[q] = restorer[q]
    BY <1>0, <1>1, <1>2
  <1> HIDE DEF r
  <1>4. r \in Restorer /\ lock = r
    BY <1>0 DEF r
  <1>5. kills' >= kills /\ faults' >= faults
    BY <1>0, <1>1
  <1> QED BY <1>0, <1>1, <1>3, <1>4, <1>5, RestoreStops

\* A command that is refused, or nothing at all.
LEMMA NothingStep ==
  ASSUME MaintInv, UNCHANGED <<files, ghosts, lock, opener, restorer, copier, kills>>,
         starts' \in Nat, faults' \in Nat, faults' >= faults
  PROVE  MaintInv'
  <1> USE DEF MaintInv
  <1>1. TypeOK'
    BY TypeParts, TypePartsNext DEF files, ghosts
  <1>2. Counted' /\ LockHasOwner'
    BY DEF Counted, LockHasOwner
  <1>3. RestorerAlone'
    BY DEF RestorerAlone, Restoring
  <1>4. PathsDiffer' /\ RestoreOnTrack' /\ BackupOnTrack'
    BY DEF PathsDiffer, RestoreOnTrack, BackupOnTrack, files, ghosts
  <1>5. DatabaseIsThere'
    BY DEF DatabaseIsThere, Counted, files
  <1> QED BY <1>1, <1>2, <1>3, <1>4, <1>5, ConnectionsStay DEF FilesInv

\* A restore takes the lock when nothing has the database open.
LEMMA AcquireStep ==
  ASSUME Overlap = FALSE, MaintInv, NEW r \in Restorer, acquire_maintenance_lock(r)
  PROVE  MaintInv'
  <1>0. /\ restorer \in [Restorer -> RestorerRow(used)] /\ starts \in Nat /\ faults \in Nat
        /\ used \in Nat /\ {db, backup} \subseteq 0 .. used /\ rollbacks \subseteq 1 .. used
    BY TypeParts, FilesExist DEF MaintInv, Counted
  <1>1. PICK src \in RestoreSource :
            /\ restorer[r].pc \in {"idle", "ended"} /\ NoWriterRuns /\ starts' = starts + 1
            /\ IF lock # None
                 THEN UNCHANGED <<lock, restorer, faults>>
                 ELSE \/ /\ lock' = r /\ UNCHANGED faults
                         /\ restorer' = [restorer EXCEPT ![r] =
                                            [pc |-> "locked", src |-> src, tmp |-> 0, old |-> db]]
                      \/ /\ Fault
                         /\ UNCHANGED <<lock, restorer>>
            /\ UNCHANGED <<files, opener, copier, ghosts, kills>>
    BY DEF acquire_maintenance_lock, Starting
  <1>2. CASE UNCHANGED <<lock, restorer>> /\ faults' \in {faults, faults + 1}
    <2>1. starts' \in Nat /\ faults' \in Nat /\ faults' >= faults
      BY <1>0, <1>1, <1>2
    <2> QED BY <1>1, <1>2, <2>1, NothingStep
  <1> DEFINE new == [pc |-> "locked", src |-> src, tmp |-> 0, old |-> db]
  <1>3. CASE lock = None /\ lock' = r /\ faults' = faults /\ restorer' = [restorer EXCEPT ![r] = new]
    <2> USE DEF MaintInv
    <2>1. src \in 0 .. used /\ src # 0
      <3>1. (src = backup \/ src \in rollbacks) /\ src # 0
        BY <1>1 DEF RestoreSource
      <3>2. backup \in 0 .. used /\ \A i \in rollbacks : i \in 0 .. used
        BY FilesExist
      <3> QED BY <3>1, <3>2
    <2>2. /\ new \in RestorerRow(used) /\ new.pc = "locked" /\ new.src # 0 /\ new.old = db
      BY <1>0, <2>1 DEF RestorerRow
    <2> HIDE DEF new
    <2>3. /\ restorer' \in [Restorer -> RestorerRow(used)] /\ restorer'[r] = new
          /\ \A q \in Restorer : q # r => restorer'[q] = restorer[q]
      BY <1>0, <1>3, <2>2
    <2>4. \A q \in Restorer : ~Restoring(q)
      BY <1>3, MaintenanceAssumption DEF RestorerAlone
    <2>5. \A o \in Opener : opener[o].pc = "closed"
      BY <1>1 DEF NoWriterRuns
    <2>6. TypeOK'
      BY <1>1, <1>3, <2>3, TypeParts, TypePartsNext DEF files, ghosts
    <2>7. Counted' /\ LockHasOwner'
      BY <1>0, <1>1, <1>3, <2>2, <2>3 DEF Counted, LockHasOwner
    <2>8. RestorerAlone'
      BY <1>1, <1>3, <2>3, <2>4, <2>5 DEF RestorerAlone, Restoring
    <2>9. \A q \in Restorer : q # r => restorer'[q].pc \notin Copied \cup {"locked"}
      BY <1>0, <2>3, <2>4 DEF Restoring, Copied, RestorerRow
    <2>10. PathsDiffer' /\ RestoreOnTrack'
      BY <1>1, <2>2, <2>3, <2>9 DEF PathsDiffer, RestoreOnTrack, Copied, files
    <2>11. BackupOnTrack'
      BY <1>1 DEF BackupOnTrack, files, ghosts
    <2>12. DatabaseIsThere'
      BY <1>1, <1>3, <2>3 DEF DatabaseIsThere, files
    <2> QED BY <1>1, <2>6, <2>7, <2>8, <2>10, <2>11, <2>12, ConnectionsStay DEF FilesInv
  <1> QED BY <1>1, <1>2, <1>3 DEF Fault

-----------------------------------------------------------------------------
(* backup create.                                                          *)

\* A backup begins, or is killed: no file changes.
LEMMA CopierStep ==
  ASSUME MaintInv, (\E force \in BOOLEAN : create_backup(force)) \/ KillCopier
  PROVE  MaintInv'
  <1> USE DEF MaintInv
  <1>0. /\ used \in Nat /\ db \in 0 .. used /\ disk \in [Inode -> DiskRow]
        /\ starts \in Nat /\ kills \in Nat
    BY TypeParts, FilesExist DEF Counted
  <1>1. /\ UNCHANGED <<files, lock, opener, restorer, ghosts, faults>>
        /\ starts' \in {starts, starts + 1} /\ kills' \in {kills, kills + 1}
    BY DEF create_backup, KillCopier, Starting
  <1>2. /\ copier' \in CopierRow(used) /\ copier'.pc \in {"idle", "copying"}
        /\ copier'.pc = "copying" => copier'.ino = db /\ db # 0 /\ copier'.seen = disk[db].cur
    <2>1. CASE copier' = NoCopy
      BY <1>0, <2>1 DEF NoCopy, CopierRow
    <2>2. CASE /\ db # 0
               /\ copier' = [pc |-> "copying", ino |-> db, tmp |-> 0, seen |-> disk[db].cur]
      <3>1. disk[db].cur \in SUBSET Row
        BY <1>0, <2>2, FilesExist DEF DiskRow
      <3> QED BY <1>0, <2>2, <3>1 DEF CopierRow
    <2> QED BY <2>1, <2>2 DEF create_backup, KillCopier
  <1>3. TypeOK'
    BY <1>1, <1>2, TypeParts, TypePartsNext DEF files, ghosts
  <1>4. kills' \in Nat /\ starts' \in Nat /\ kills' >= kills
    BY <1>0, <1>1
  <1>5. Counted' /\ LockHasOwner'
    BY <1>0, <1>1, <1>4 DEF Counted, LockHasOwner
  <1>6. RestorerAlone'
    BY <1>1 DEF RestorerAlone, Restoring
  <1>7. PathsDiffer' /\ RestoreOnTrack'
    BY <1>1, <1>2 DEF PathsDiffer, RestoreOnTrack, files
  <1>8. BackupOnTrack'
    BY <1>1, <1>2 DEF BackupOnTrack, files, ghosts
  <1>9. DatabaseIsThere'
    BY <1>0, <1>1, <1>4 DEF DatabaseIsThere, files
  <1> QED BY <1>1, <1>3, <1>5, <1>6, <1>7, <1>8, <1>9, ConnectionsStay DEF FilesInv

\* A verified snapshot replaces the backup; one that is not whole is dropped.
LEMMA PublishStep ==
  ASSUME MaintInv, PublishSnapshot
  PROVE  MaintInv'
  <1> USE DEF MaintInv
  <1>0. /\ used \in Nat /\ disk \in [Inode -> DiskRow] /\ copier \in CopierRow(used)
        /\ backup \in 0 .. used /\ copier.tmp \in 0 .. used
    BY TypeParts, FilesExist DEF CopierRow
  <1>1. /\ UNCHANGED <<disk, used, db, rollbacks, walFile, lock, opener, restorer, ghosts,
                       starts, kills, faults>>
        /\ copier.pc = "copied"
        /\ \/ /\ disk[copier.tmp].whole /\ backup' = copier.tmp
              /\ copier' = [copier EXCEPT !.pc = "done", !.tmp = 0]
           \/ backup' = backup /\ copier' = NoCopy
    BY DEF PublishSnapshot, verify_backup
  <1>2. CASE backup' = backup /\ copier' = NoCopy
    <2>1. copier' \in CopierRow(used) /\ copier'.pc = "idle"
      BY <1>0, <1>2 DEF NoCopy, CopierRow
    <2>2. UNCHANGED <<files, ghosts, opener>>
      BY <1>1, <1>2 DEF files
    <2>3. TypeOK'
      BY <1>1, <2>1, <2>2, TypeParts, TypePartsNext DEF files, ghosts
    <2>4. Counted' /\ LockHasOwner' /\ RestorerAlone' /\ DatabaseIsThere'
      BY <1>1 DEF Counted, LockHasOwner, RestorerAlone, Restoring, DatabaseIsThere
    <2>5. PathsDiffer' /\ RestoreOnTrack' /\ BackupOnTrack'
      BY <1>1, <1>2, <2>1 DEF PathsDiffer, RestoreOnTrack, BackupOnTrack
    <2> QED BY <2>2, <2>3, <2>4, <2>5, ConnectionsStay DEF FilesInv
  <1>3. CASE /\ disk[copier.tmp].whole /\ backup' = copier.tmp
             /\ copier' = [copier EXCEPT !.pc = "done", !.tmp = 0]
    <2>1. /\ copier' \in CopierRow(used) /\ copier'.pc = "done" /\ copier'.seen = copier.seen
      <3> DEFINE mid == [copier EXCEPT !.pc = "done"]
      <3>1. mid \in CopierRow(used) /\ mid.pc = "done" /\ mid.seen = copier.seen
        BY <1>0 DEF CopierRow
      <3>2. copier' = [mid EXCEPT !.tmp = 0]
        BY <1>0, <1>3 DEF CopierRow
      <3> HIDE DEF mid
      <3> QED BY <1>0, <3>1, <3>2 DEF CopierRow
    <2>2. /\ copier.tmp # 0 /\ copier.tmp \notin rollbacks \cup {db, backup}
          /\ \A r \in Restorer : restorer[r].pc \in Copied => restorer[r].tmp # copier.tmp
      BY <1>1 DEF PathsDiffer
    <2>3. TypeOK'
      BY <1>0, <1>1, <1>3, <2>1, TypeParts, TypePartsNext DEF ghosts
    <2>4. Counted' /\ LockHasOwner' /\ RestorerAlone' /\ DatabaseIsThere'
      BY <1>1 DEF Counted, LockHasOwner, RestorerAlone, Restoring, DatabaseIsThere
    <2>5. PathsDiffer'
      BY <1>1, <1>3, <2>1, <2>2 DEF PathsDiffer
    <2>6. RestoreOnTrack'
      BY <1>1 DEF RestoreOnTrack
    <2>7. BackupOnTrack'
      BY <1>1, <1>3, <2>1, <2>2 DEF BackupOnTrack, ghosts
    <2>8. OpenersHoldDb' /\ LogIsDbs' /\ HistoryIsPrefix' /\ MigrationsInOrder'
      BY <1>1 DEF OpenersHoldDb, IsOpen, LogIsDbs, HistoryIsPrefix, MigrationsInOrder
    <2>9. RowsKept' /\ PublishedFilesAreWhole'
      BY <1>1, <1>3 DEF RowsKept, PublishedFilesAreWhole, ghosts
    <2> QED BY <2>3, <2>4, <2>5, <2>6, <2>7, <2>8, <2>9
  <1> QED BY <1>1, <1>2, <1>3
-----------------------------------------------------------------------------
(* A new file.                                                             *)

\* A file nobody names yet disturbs none that somebody does.
LEMMA NewFile ==
  ASSUME MaintInv, NEW row \in DiskRow, row.hist = History(Len(row.hist)),
         used < MaxInodes, used' = used + 1, disk' = [disk EXCEPT ![used + 1] = row],
         UNCHANGED <<db, backup, rollbacks, walFile, opener, ghosts>>
  PROVE  /\ FilesInv' /\ OpenersHoldDb' /\ HistoryIsPrefix' /\ MigrationsInOrder'
         /\ disk' \in [Inode -> DiskRow] /\ disk'[used + 1] = row
         /\ \A i \in 1 .. used : disk'[i] = disk[i]
         /\ used' \in Inode /\ {db', backup', walFile'} \subseteq 0 .. used'
         /\ rollbacks' \subseteq 1 .. used' /\ opener' \in [Opener -> OpenerRow(used')]
         /\ [Restorer -> RestorerRow(used)] \subseteq [Restorer -> RestorerRow(used')]
         /\ CopierRow(used) \subseteq CopierRow(used')
  <1> USE DEF MaintInv
  <1>0. /\ disk \in [Inode -> DiskRow] /\ used \in Inode /\ used \in Nat
        /\ {db, backup, walFile} \subseteq 0 .. used /\ rollbacks \subseteq 1 .. used
        /\ opener \in [Opener -> OpenerRow(used)]
        /\ \A o \in Opener : opener[o].ino \in 0 .. used
    BY TypeParts, FilesExist DEF OpenerRow
  <1>1. used + 1 \in Inode /\ used + 1 \in Nat /\ used <= used + 1
    BY <1>0, MaintenanceAssumption DEF Inode
  <1>2. /\ disk' \in [Inode -> DiskRow] /\ disk'[used + 1] = row
        /\ \A i \in 1 .. used : disk'[i] = disk[i]
    <2>1. \A i \in 1 .. used : i \in Inode /\ i # used + 1
      BY <1>0, FilesExist
    <2> QED BY <1>0, <1>1, <2>1
  <1>3. /\ 0 .. used \subseteq 0 .. (used + 1) /\ 1 .. used \subseteq 1 .. (used + 1)
        /\ [Opener -> OpenerRow(used)] \subseteq [Opener -> OpenerRow(used + 1)]
        /\ [Restorer -> RestorerRow(used)] \subseteq [Restorer -> RestorerRow(used + 1)]
        /\ CopierRow(used) \subseteq CopierRow(used + 1)
    BY <1>0, <1>1, RecordsGrow
  <1>4. /\ db # 0 => db \in 1 .. used
        /\ backup # 0 => backup \in 1 .. used
        /\ \A i \in rollbacks : i \in 1 .. used
    BY FilesExist
  <1>5. FilesInv'
    <2>1. LogIsDbs'
      BY DEF LogIsDbs
    <2>2. RowsKept'
      BY <1>2, <1>4 DEF RowsKept, ghosts
    <2>3. PublishedFilesAreWhole'
      BY <1>2, <1>4 DEF PublishedFilesAreWhole
    <2> QED BY <2>1, <2>2, <2>3 DEF FilesInv
  <1>6. OpenersHoldDb'
    BY DEF OpenersHoldDb, IsOpen
  <1>7. HistoryIsPrefix'
    <2>1. \A i \in 1 .. used' : i \in 1 .. used \/ i = used + 1
      BY <1>0
    <2>2. \A i \in 1 .. used' : disk'[i].hist = History(Len(disk'[i].hist))
      BY <1>2, <2>1 DEF HistoryIsPrefix
    <2>3. \A o \in Opener : opener[o].pc = "serving" => opener[o].ino \in 1 .. used
      BY <1>4 DEF OpenersHoldDb, IsOpen
    <2> QED BY <1>2, <2>2, <2>3 DEF HistoryIsPrefix
  <1>8. MigrationsInOrder'
    BY <1>2, <1>4 DEF MigrationsInOrder, OpenersHoldDb, IsOpen
  <1> QED BY <1>0, <1>1, <1>2, <1>3, <1>5, <1>6, <1>7, <1>8

\* What a running restore and a running backup rely on is in files that exist.
LEMMA TrackedFilesExist ==
  ASSUME MaintInv
  PROVE  /\ db # 0 => db \in 1 .. used
         /\ \A i \in rollbacks : i \in 1 .. used
         /\ \A r \in Restorer : restorer[r].pc \in Copied => restorer[r].tmp \in 1 .. used
         /\ \A r \in Restorer : restorer[r].pc = "locked" => restorer[r].src \in 1 .. used
         /\ copier.pc = "copying" => copier.ino \in 1 .. used
         /\ copier.pc = "copied" => copier.tmp \in 1 .. used
         /\ copier.pc = "done" => backup \in 1 .. used
  <1>0. /\ used \in Nat /\ {db, backup} \subseteq 0 .. used /\ rollbacks \subseteq 1 .. used
        /\ copier.ino \in 0 .. used /\ copier.tmp \in 0 .. used
        /\ \A r \in Restorer : restorer[r].src \in 0 .. used /\ restorer[r].tmp \in 0 .. used
    BY TypeParts, FilesExist DEF MaintInv, CopierRow, RestorerRow
  <1> QED BY <1>0 DEF MaintInv, PathsDiffer, RestoreOnTrack, BackupOnTrack

\* A backup's snapshot is a new file with all that its source has, log included.
LEMMA SnapshotStep ==
  ASSUME MaintInv, TakeSnapshot
  PROVE  MaintInv'
  <1> USE DEF MaintInv
  <1>0. /\ disk \in [Inode -> DiskRow] /\ used \in Nat /\ copier \in CopierRow(used)
        /\ faults \in Nat /\ restorer \in [Restorer -> RestorerRow(used)]
    BY TypeParts, FilesExist DEF Counted
  <1>1. /\ copier.pc = "copying" /\ used < MaxInodes /\ used' = used + 1
        /\ copier' = [copier EXCEPT !.pc = "copied", !.tmp = used + 1]
        /\ UNCHANGED <<db, backup, rollbacks, walFile, lock, opener, restorer, ghosts, starts, kills>>
    BY DEF TakeSnapshot
  <1> DEFINE src == disk[copier.ino]
             row(torn) == [rows |-> src.cur, cur |-> src.cur, hist |-> src.hist,
                           whole |-> src.whole /\ ~ torn]
  <1>2. PICK torn \in BOOLEAN : /\ faults' = faults + IF torn THEN 1 ELSE 0
                                /\ disk' = [disk EXCEPT ![used + 1] = row(torn)]
    BY DEF TakeSnapshot
  <1>3. src \in DiskRow /\ src.hist = History(Len(src.hist)) /\ copier.ino \in 1 .. used
    BY <1>0, <1>1, TrackedFilesExist, FilesExist DEF HistoryIsPrefix
  <1> DEFINE new == row(torn)
  <1>4. new \in DiskRow /\ new.rows = src.cur /\ new.hist = src.hist
    <2>1. src.cur \in SUBSET Row /\ src.hist \in Seq(1 .. Latest + 1) /\ src.whole \in BOOLEAN
      BY <1>3 DEF DiskRow
    <2> HIDE DEF src
    <2> QED BY <2>1 DEF DiskRow
  <1>5. disk' = [disk EXCEPT ![used + 1] = new]
    BY <1>2
  <1> HIDE DEF new, row
  <1>6. /\ FilesInv' /\ OpenersHoldDb' /\ HistoryIsPrefix' /\ MigrationsInOrder'
        /\ disk' \in [Inode -> DiskRow] /\ disk'[used + 1] = new
        /\ \A i \in 1 .. used : disk'[i] = disk[i]
        /\ used' \in Inode /\ {db', backup', walFile'} \subseteq 0 .. used'
        /\ rollbacks' \subseteq 1 .. used' /\ opener' \in [Opener -> OpenerRow(used')]
        /\ [Restorer -> RestorerRow(used)] \subseteq [Restorer -> RestorerRow(used')]
        /\ CopierRow(used) \subseteq CopierRow(used')
    BY <1>1, <1>3, <1>4, <1>5, NewFile
  <1>7. /\ copier' \in CopierRow(used') /\ copier'.pc = "copied" /\ copier'.seen = copier.seen
        /\ copier'.tmp = used + 1
    <2> DEFINE mid == [copier EXCEPT !.pc = "copied"]
    <2>1. mid \in CopierRow(used') /\ mid.pc = "copied" /\ mid.seen = copier.seen
      BY <1>0, <1>6 DEF CopierRow
    <2>2. copier' = [mid EXCEPT !.tmp = used + 1]
      BY <1>0, <1>1 DEF CopierRow
    <2>3. used + 1 \in 0 .. used'
      BY <1>0, <1>1
    <2> HIDE DEF mid
    <2> QED BY <2>1, <2>2, <2>3 DEF CopierRow
  <1>8. TypeOK'
    BY <1>0, <1>1, <1>6, <1>7, TypeParts, TypePartsNext DEF ghosts
  <1>9. faults' \in Nat /\ faults' >= faults
    BY <1>0, <1>2
  <1>10. Counted' /\ LockHasOwner' /\ RestorerAlone' /\ DatabaseIsThere'
    BY <1>0, <1>1, <1>9 DEF Counted, LockHasOwner, RestorerAlone, Restoring, DatabaseIsThere
  <1>11. used + 1 \notin 0 .. used
    BY <1>0
  <1>12. PathsDiffer'
    <2>1. /\ used + 1 # 0 /\ used + 1 \notin rollbacks \cup {db, backup}
          /\ \A r \in Restorer : restorer[r].tmp # used + 1
      BY <1>0, <1>11, TypeParts DEF RestorerRow
    <2> QED BY <1>1, <1>7, <2>1 DEF PathsDiffer
  <1>13. RestoreOnTrack'
    BY <1>1, <1>6, TrackedFilesExist DEF RestoreOnTrack, Copied
  <1>14. BackupOnTrack'
    BY <1>1, <1>4, <1>6, <1>7 DEF BackupOnTrack, ghosts
  <1> QED BY <1>6, <1>8, <1>10, <1>12, <1>13, <1>14 DEF FilesInv

\* A restore's private copy is a new file; an interrupted one is not whole.
LEMMA CopyStep ==
  ASSUME MaintInv, NEW r \in Restorer, copy_excl(r)
  PROVE  MaintInv'
  <1> USE DEF MaintInv
  <1>0. /\ disk \in [Inode -> DiskRow] /\ used \in Nat /\ copier \in CopierRow(used)
        /\ faults \in Nat /\ restorer \in [Restorer -> RestorerRow(used)]
    BY TypeParts, FilesExist DEF Counted
  <1>1. /\ restorer[r].pc = "locked" /\ used < MaxInodes /\ used' = used + 1
        /\ restorer' = [restorer EXCEPT ![r].pc = "copied", ![r].tmp = used + 1]
        /\ UNCHANGED <<db, backup, rollbacks, walFile, lock, opener, copier, ghosts, starts, kills>>
    BY DEF copy_excl
  <1> DEFINE src == disk[restorer[r].src]
             row(torn) == [src EXCEPT !.whole = @ /\ ~ torn, !.cur = src.rows]
  <1>2. PICK torn \in BOOLEAN : /\ faults' = faults + IF torn THEN 1 ELSE 0
                                /\ disk' = [disk EXCEPT ![used + 1] = row(torn)]
    BY DEF copy_excl
  <1>3. src \in DiskRow /\ src.hist = History(Len(src.hist)) /\ restorer[r].src \in 1 .. used
    BY <1>0, <1>1, TrackedFilesExist, FilesExist DEF HistoryIsPrefix
  <1> DEFINE new == row(torn)
  <1>4. new \in DiskRow /\ new.hist = src.hist
    <2> DEFINE mid == [src EXCEPT !.whole = src.whole /\ ~ torn]
    <2>1. mid \in DiskRow /\ mid.hist = src.hist /\ src.rows \in SUBSET Row
      BY <1>3 DEF DiskRow
    <2>2. new = [mid EXCEPT !.cur = src.rows]
      BY <1>3 DEF DiskRow
    <2> HIDE DEF mid, new
    <2> QED BY <2>1, <2>2 DEF DiskRow
  <1>5. disk' = [disk EXCEPT ![used + 1] = new]
    BY <1>2
  <1> HIDE DEF new, row
  <1>6. /\ FilesInv' /\ OpenersHoldDb' /\ HistoryIsPrefix' /\ MigrationsInOrder'
        /\ disk' \in [Inode -> DiskRow]
        /\ \A i \in 1 .. used : disk'[i] = disk[i]
        /\ used' \in Inode /\ {db', backup', walFile'} \subseteq 0 .. used'
        /\ rollbacks' \subseteq 1 .. used' /\ opener' \in [Opener -> OpenerRow(used')]
        /\ [Restorer -> RestorerRow(used)] \subseteq [Restorer -> RestorerRow(used')]
        /\ CopierRow(used) \subseteq CopierRow(used')
    BY <1>1, <1>3, <1>4, <1>5, NewFile
  <1>7. /\ restorer' \in [Restorer -> RestorerRow(used')]
        /\ \A q \in Restorer : q # r => restorer'[q] = restorer[q]
        /\ restorer'[r].pc = "copied" /\ restorer'[r].tmp = used + 1
        /\ restorer'[r].old = restorer[r].old
    <2>1. used + 1 \in 0 .. used' /\ restorer \in [Restorer -> RestorerRow(used')]
      BY <1>0, <1>1, <1>6
    <2> QED BY <1>1, <2>1 DEF RestorerRow
  <1>8. TypeOK'
    BY <1>0, <1>1, <1>6, <1>7, TypeParts, TypePartsNext DEF ghosts
  <1>9. faults' \in Nat /\ faults' >= faults
    BY <1>0, <1>2
  <1>10. lock = r /\ \A q \in Restorer : q # r => ~Restoring(q)
    BY <1>1 DEF RestorerAlone, Restoring
  <1>11. Counted' /\ LockHasOwner' /\ RestorerAlone' /\ DatabaseIsThere'
    BY <1>0, <1>1, <1>7, <1>9, <1>10
       DEF Counted, LockHasOwner, RestorerAlone, Restoring, DatabaseIsThere
  <1>12. \A q \in Restorer : q # r => restorer'[q].pc \notin Copied \cup {"locked"}
    BY <1>0, <1>7, <1>10 DEF Restoring, Copied, RestorerRow
  <1>13. PathsDiffer'
    <2>1. /\ used + 1 # 0 /\ used + 1 \notin rollbacks \cup {db, backup} /\ copier.tmp # used + 1
      BY <1>0, TypeParts DEF CopierRow
    <2> QED BY <1>1, <1>7, <1>12, <2>1 DEF PathsDiffer
  <1>14. RestoreOnTrack'
    BY <1>1, <1>7, <1>12 DEF RestoreOnTrack, Copied
  <1>15. BackupOnTrack'
    BY <1>1, <1>6, TrackedFilesExist DEF BackupOnTrack, ghosts
  <1> QED BY <1>6, <1>8, <1>11, <1>13, <1>14, <1>15 DEF FilesInv
-----------------------------------------------------------------------------
(* The steps of a restore.                                                 *)

\* While a restore runs nobody has the database open, so what is said of open
\* connections holds of any files.
LEMMA NobodyOpen ==
  ASSUME MaintInv, NEW r \in Restorer, Restoring(r), UNCHANGED opener
  PROVE  /\ lock = r /\ \A q \in Restorer : q # r => ~Restoring(q)
         /\ \A i : Holders(i) = {}
         /\ OpenersHoldDb' /\ MigrationsInOrder'
         /\ (\A i \in 1 .. used' : disk'[i].hist = History(Len(disk'[i].hist))) => HistoryIsPrefix'
  <1> USE DEF MaintInv
  <1>1. /\ lock = r /\ \A o \in Opener : opener[o].pc = "closed"
        /\ \A q \in Restorer : q # r => ~Restoring(q)
    BY DEF RestorerAlone
  <1>2. \A o \in Opener : ~IsOpen(o) /\ ~IsOpen(o)' /\ opener[o].pc # "serving"
    BY <1>1 DEF IsOpen
  <1>3. OpenersHoldDb' /\ MigrationsInOrder'
    BY <1>2 DEF OpenersHoldDb, MigrationsInOrder
  <1>4. \A i : Holders(i) = {}
    BY <1>2 DEF Holders
  <1> QED BY <1>1, <1>2, <1>3, <1>4 DEF HistoryIsPrefix

\* A restore goes from one of its steps to the next.
LEMMA RestoreAdvances ==
  ASSUME MaintInv, NEW r \in Restorer, Restoring(r), NEW pc \in Copied,
         restorer' = [restorer EXCEPT ![r].pc = pc],
         UNCHANGED <<lock, opener, starts, kills, faults>>
  PROVE  /\ restorer' \in [Restorer -> RestorerRow(used)]
         /\ restorer'[r].pc = pc /\ restorer'[r].tmp = restorer[r].tmp
         /\ restorer'[r].old = restorer[r].old
         /\ \A q \in Restorer : q # r => /\ restorer'[q] = restorer[q]
                                         /\ restorer[q].pc \notin Copied \cup {"locked"}
         /\ Counted' /\ RestorerAlone' /\ LockHasOwner'
  <1> USE DEF MaintInv
  <1>0. restorer \in [Restorer -> RestorerRow(used)]
    BY TypeParts
  <1>1. /\ restorer' \in [Restorer -> RestorerRow(used)]
        /\ restorer'[r].pc = pc /\ restorer'[r].tmp = restorer[r].tmp
        /\ restorer'[r].old = restorer[r].old
        /\ \A q \in Restorer : q # r => restorer'[q] = restorer[q]
    BY <1>0 DEF RestorerRow, Copied
  <1>2. lock = r /\ \A q \in Restorer : q # r => ~Restoring(q)
    BY NobodyOpen
  <1>3. \A q \in Restorer : q # r => restorer[q].pc \notin Copied \cup {"locked"}
    BY <1>0, <1>2 DEF Restoring, Copied, RestorerRow
  <1>4. Counted' /\ LockHasOwner'
    BY <1>1, <1>2 DEF Counted, LockHasOwner, Copied
  <1>5. RestorerAlone'
    BY <1>1, <1>2 DEF RestorerAlone, Restoring
  <1> QED BY <1>1, <1>3, <1>4, <1>5

\* The log is checkpointed into the database, and its file removed.
LEMMA PrepareStep ==
  ASSUME MaintInv, NEW r \in Restorer, prepare_existing_database(r)
  PROVE  MaintInv'
  <1> USE DEF MaintInv
  <1>0. /\ disk \in [Inode -> DiskRow] /\ used \in Nat
        /\ restorer[r].pc = "copied" /\ disk[restorer[r].tmp].whole /\ Restoring(r)
    BY TypeParts, FilesExist DEF prepare_existing_database, verify_backup, Restoring
  <1>1. /\ restorer' = [restorer EXCEPT ![r].pc = "proved"]
        /\ UNCHANGED <<used, db, backup, rollbacks, lock, opener, copier, ghosts, starts, kills, faults>>
    BY DEF prepare_existing_database
  <1>2. db \in 0 .. used /\ (db # 0 => db \in Inode)
    BY FilesExist
  <1>3. /\ disk' \in [Inode -> DiskRow]
        /\ \A i \in Inode : /\ disk'[i].cur = disk[i].cur /\ disk'[i].hist = disk[i].hist
                            /\ disk'[i].whole = disk[i].whole
                            /\ i # db => disk'[i].rows = disk[i].rows
        /\ db # 0 => disk'[db].rows = disk[db].cur
        /\ walFile' \in {0, walFile}
    <2>1. CASE db = 0
      <3>1. UNCHANGED <<disk, walFile>>
        BY <2>1 DEF prepare_existing_database
      <3> QED BY <1>0, <2>1, <3>1
    <2>2. CASE db # 0
      <3>1. disk' = [disk EXCEPT ![db].rows = disk[db].cur] /\ walFile' \in {0, walFile}
        BY <2>2 DEF prepare_existing_database, Checkpointed
      <3> QED BY <1>0, <1>2, <2>2, <3>1 DEF DiskRow
    <2> QED BY <2>1, <2>2
  <1>4. /\ restorer' \in [Restorer -> RestorerRow(used)]
        /\ restorer'[r].pc = "proved" /\ restorer'[r].tmp = restorer[r].tmp
        /\ restorer'[r].old = restorer[r].old
        /\ \A q \in Restorer : q # r => /\ restorer'[q] = restorer[q]
                                        /\ restorer[q].pc \notin Copied \cup {"locked"}
        /\ Counted' /\ RestorerAlone' /\ LockHasOwner'
    BY <1>0, <1>1, RestoreAdvances DEF Copied
  <1>5. TypeOK'
    BY <1>1, <1>2, <1>3, <1>4, FilesExist, TypeParts, TypePartsNext DEF ghosts
  <1>6. \A i \in 1 .. used : i \in Inode
    BY FilesExist
  <1>7. OpenersHoldDb' /\ MigrationsInOrder' /\ HistoryIsPrefix'
    BY <1>0, <1>1, <1>3, <1>6, NobodyOpen DEF HistoryIsPrefix
  <1>8. LogIsDbs'
    BY <1>1, <1>3 DEF LogIsDbs
  <1>9. PathsDiffer'
    BY <1>0, <1>1, <1>4 DEF PathsDiffer, Copied
  <1>10. RestoreOnTrack'
    <2>1. restorer[r].tmp \in Inode
      BY <1>0, <1>6, TrackedFilesExist DEF Copied
    <2> QED BY <1>0, <1>1, <1>2, <1>3, <1>4, <2>1 DEF RestoreOnTrack, Copied
  <1>11. BackupOnTrack'
    <2>1. copier.pc = "copying" => copier.ino \in Inode
      BY <1>6, TrackedFilesExist
    <2>2. copier.pc = "copied" => copier.tmp \in Inode /\ copier.tmp # db
      BY <1>6, TrackedFilesExist DEF PathsDiffer
    <2>3. copier.pc = "done" => backup \in Inode /\ backup # db
      BY <1>6, TrackedFilesExist DEF PathsDiffer, BackupOnTrack
    <2> QED BY <1>1, <1>3, <2>1, <2>2, <2>3 DEF BackupOnTrack, ghosts
  <1>12. RowsKept'
    <2>1. \A i \in rollbacks : i \in Inode /\ i # db
      BY <1>6, TrackedFilesExist DEF PathsDiffer
    <2> QED BY <1>1, <1>2, <1>3, <2>1 DEF RowsKept, ghosts
  <1>13. PublishedFilesAreWhole'
    <2>1. \A i \in ({db, backup} \cup rollbacks) \ {0} : i \in Inode
      BY FilesExist
    <2> QED BY <1>1, <1>3, <2>1 DEF PublishedFilesAreWhole
  <1>14. DatabaseIsThere'
    BY <1>0, <1>1, <1>4 DEF DatabaseIsThere
  <1> QED
    BY <1>4, <1>5, <1>7, <1>8, <1>9, <1>10, <1>11, <1>12, <1>13, <1>14

\* The sidecars go; after the checkpoint they hold nothing that the file does not.
LEMMA SidecarsStep ==
  ASSUME MaintInv, NEW r \in Restorer, RemoveSidecars(r)
  PROVE  MaintInv'
  <1> USE DEF MaintInv
  <1>0. /\ disk \in [Inode -> DiskRow] /\ used \in Nat
        /\ restorer[r].pc = "proved" /\ Restoring(r)
    BY TypeParts, FilesExist DEF RemoveSidecars, Restoring
  <1>1. /\ restorer' = [restorer EXCEPT ![r].pc = "cleaned"] /\ walFile' = 0
        /\ UNCHANGED <<used, db, backup, rollbacks, lock, opener, copier, ghosts, starts, kills, faults>>
    BY DEF RemoveSidecars
  <1>2. db \in 0 .. used /\ (db # 0 => db \in Inode)
    BY FilesExist
  <1>3. /\ disk' \in [Inode -> DiskRow]
        /\ \A i \in Inode : /\ disk'[i].cur = disk[i].cur /\ disk'[i].rows = disk[i].rows
                            /\ disk'[i].hist = disk[i].hist /\ disk'[i].whole = disk[i].whole
    <2>1. CASE disk' = disk
      BY <1>0, <2>1
    <2>2. CASE walFile # 0 /\ disk' = [disk EXCEPT ![walFile].cur = disk[walFile].rows]
      <3>1. walFile = db /\ db \in Inode
        BY <1>2, <2>2 DEF LogIsDbs
      <3>2. disk[db].rows = disk[db].cur
        BY <1>0, <2>2, <3>1 DEF RestoreOnTrack
      <3> QED BY <1>0, <2>2, <3>1, <3>2 DEF DiskRow
    <2> QED BY <2>1, <2>2 DEF RemoveSidecars
  <1>4. /\ restorer' \in [Restorer -> RestorerRow(used)]
        /\ restorer'[r].pc = "cleaned" /\ restorer'[r].tmp = restorer[r].tmp
        /\ restorer'[r].old = restorer[r].old
        /\ \A q \in Restorer : q # r => /\ restorer'[q] = restorer[q]
                                        /\ restorer[q].pc \notin Copied \cup {"locked"}
        /\ Counted' /\ RestorerAlone' /\ LockHasOwner'
    BY <1>0, <1>1, RestoreAdvances DEF Copied
  <1>5. TypeOK'
    BY <1>1, <1>2, <1>3, <1>4, FilesExist, TypeParts, TypePartsNext DEF ghosts
  <1>6. \A i \in 1 .. used : i \in Inode
    BY FilesExist
  <1>7. OpenersHoldDb' /\ MigrationsInOrder' /\ HistoryIsPrefix'
    BY <1>0, <1>1, <1>3, <1>6, NobodyOpen DEF HistoryIsPrefix
  <1>8. LogIsDbs'
    BY <1>1 DEF LogIsDbs
  <1>9. PathsDiffer'
    BY <1>0, <1>1, <1>4 DEF PathsDiffer, Copied
  <1>10. RestoreOnTrack'
    <2>1. restorer[r].tmp \in Inode
      BY <1>0, <1>6, TrackedFilesExist DEF Copied
    <2> QED BY <1>0, <1>1, <1>2, <1>3, <1>4, <2>1 DEF RestoreOnTrack, Copied
  <1>11. BackupOnTrack'
    BY <1>1, <1>3, <1>6, TrackedFilesExist DEF BackupOnTrack, ghosts
  <1>12. RowsKept'
    <2>1. \A i \in rollbacks : i \in Inode
      BY <1>6, TrackedFilesExist
    <2> QED BY <1>1, <1>2, <1>3, <2>1 DEF RowsKept, ghosts
  <1>13. PublishedFilesAreWhole'
    <2>1. \A i \in ({db, backup} \cup rollbacks) \ {0} : i \in Inode
      BY FilesExist
    <2> QED BY <1>1, <1>3, <2>1 DEF PublishedFilesAreWhole
  <1>14. DatabaseIsThere'
    BY <1>0, <1>1, <1>4 DEF DatabaseIsThere
  <1> QED
    BY <1>4, <1>5, <1>7, <1>8, <1>9, <1>10, <1>11, <1>12, <1>13, <1>14

\* A restore that ends by itself frees the lock, whatever it did to the files.
LEMMA RestoreOver ==
  ASSUME MaintInv, NEW r \in Restorer, Restoring(r), Ended(r)
  PROVE  /\ restorer' \in [Restorer -> RestorerRow(used)]
         /\ restorer'[r].pc = "ended"
         /\ \A q \in Restorer : q # r => restorer'[q] = restorer[q]
         /\ \A q \in Restorer : restorer'[q].pc \notin Copied \cup {"locked"}
         /\ RestorerAlone' /\ LockHasOwner' /\ lock = r /\ lock' = None
  <1> USE DEF MaintInv
  <1>0. restorer \in [Restorer -> RestorerRow(used)] /\ used \in Nat
    BY TypeParts, FilesExist
  <1>1. /\ restorer' \in [Restorer -> RestorerRow(used)] /\ restorer'[r].pc = "ended"
        /\ \A q \in Restorer : q # r => restorer'[q] = restorer[q]
        /\ lock' = None
    BY <1>0, EndedRecord
  <1>2. lock = r /\ \A q \in Restorer : q # r => ~Restoring(q)
    BY DEF RestorerAlone
  <1>3. \A q \in Restorer : ~Restoring(q)' /\ restorer'[q].pc \notin Copied \cup {"locked"}
    BY <1>0, <1>1, <1>2 DEF Restoring, Copied, RestorerRow
  <1> QED BY <1>1, <1>2, <1>3 DEF RestorerAlone, LockHasOwner

\* The original becomes a rollback file, with every row of the database in it; or
\* the rename fails and the restore ends.
LEMMA MoveAsideStep ==
  ASSUME MaintInv, NEW r \in Restorer, MoveAside(r)
  PROVE  MaintInv'
  <1>0. /\ restorer[r].pc = "cleaned" /\ restorer[r].old # 0 /\ Restoring(r)
        /\ UNCHANGED <<disk, used, backup, walFile, opener, copier, ghosts, starts, kills>>
    BY DEF MoveAside, Restoring
  <1>1. CASE Fault /\ Ended(r) /\ UNCHANGED <<db, rollbacks>>
    <2>1. /\ restorer' \in [Restorer -> RestorerRow(used)] /\ restorer'[r].pc = "ended"
          /\ \A q \in Restorer : q # r => restorer'[q] = restorer[q]
          /\ lock = r /\ lock' = None
      BY <1>0, <1>1, RestoreOver
    <2>2. /\ starts' \in Nat /\ kills' \in Nat /\ kills' >= kills
          /\ faults' \in Nat /\ faults' >= faults
      BY <1>0, <1>1 DEF MaintInv, Counted, Fault
    <2>3. UNCHANGED <<files, ghosts, opener, copier>>
      BY <1>0, <1>1 DEF files
    <2> QED BY <1>0, <2>1, <2>2, <2>3, RestoreStops
  <1>2. CASE /\ db' = 0 /\ rollbacks' = rollbacks \cup {db}
             /\ restorer' = [restorer EXCEPT ![r].pc = "moved"]
             /\ UNCHANGED <<lock, faults>>
    <2> USE DEF MaintInv
    <2>1. db = restorer[r].old /\ db # 0 /\ walFile = 0 /\ disk[db].rows = disk[db].cur
          /\ disk[restorer[r].tmp].whole
      BY <1>0 DEF RestoreOnTrack
    <2>2. /\ restorer' \in [Restorer -> RestorerRow(used)]
          /\ restorer'[r].pc = "moved" /\ restorer'[r].tmp = restorer[r].tmp
          /\ restorer'[r].old = restorer[r].old
          /\ \A q \in Restorer : q # r => /\ restorer'[q] = restorer[q]
                                          /\ restorer[q].pc \notin Copied \cup {"locked"}
          /\ Counted' /\ RestorerAlone' /\ LockHasOwner'
      BY <1>0, <1>2, RestoreAdvances DEF Copied
    <2>3. /\ used \in Nat /\ db \in 1 .. used /\ rollbacks \subseteq 1 .. used /\ 0 \in 0 .. used
          /\ 0 \notin rollbacks
      BY <2>1, FilesExist
    <2>4. TypeOK'
      BY <1>0, <1>2, <2>2, <2>3, TypeParts, TypePartsNext DEF ghosts
    <2>5. OpenersHoldDb' /\ MigrationsInOrder' /\ HistoryIsPrefix'
      BY <1>0, NobodyOpen DEF HistoryIsPrefix
    <2>6. LogIsDbs'
      BY <1>0, <2>1 DEF LogIsDbs
    <2>7. PathsDiffer'
      BY <1>0, <1>2, <2>1, <2>2, <2>3 DEF PathsDiffer, Copied
    <2>8. RestoreOnTrack'
      BY <1>0, <1>2, <2>1, <2>2 DEF RestoreOnTrack, Copied
    <2>9. BackupOnTrack'
      BY <1>0 DEF BackupOnTrack, ghosts
    <2>10. RowsKept'
      BY <1>0, <1>2, <2>1 DEF RowsKept, ghosts
    <2>11. PublishedFilesAreWhole'
      BY <1>0, <1>2 DEF PublishedFilesAreWhole
    <2>12. DatabaseIsThere'
      BY <2>2 DEF DatabaseIsThere
    <2> QED BY <2>2, <2>4, <2>5, <2>6, <2>7, <2>8, <2>9, <2>10, <2>11, <2>12
  <1> QED BY <1>1, <1>2 DEF MoveAside

\* Before the swap the path is empty and no log lies beside it.
LEMMA SwapFindsPathFree ==
  ASSUME MaintInv, NEW r \in Restorer, Swappable(r)
  PROVE  /\ Restoring(r) /\ db = 0 /\ walFile = 0 /\ restorer[r].pc \in {"cleaned", "moved"}
         /\ disk[restorer[r].tmp].whole
  BY DEF MaintInv, Swappable, Restoring, RestoreOnTrack

\* The verified copy becomes the database; every stored row is in a rollback file.
LEMMA SwapInStep ==
  ASSUME MaintInv, NEW r \in Restorer, swap_in(r)
  PROVE  MaintInv'
  <1> USE DEF MaintInv
  <1>0. /\ db' = restorer[r].tmp /\ Ended(r) /\ Swappable(r)
        /\ UNCHANGED <<disk, used, backup, rollbacks, walFile, opener, copier, ghosts, starts, kills, faults>>
    BY DEF swap_in
  <1>1. /\ Restoring(r) /\ db = 0 /\ walFile = 0 /\ restorer[r].pc \in {"cleaned", "moved"}
        /\ disk[restorer[r].tmp].whole
    BY <1>0, SwapFindsPathFree
  <1>2. /\ restorer' \in [Restorer -> RestorerRow(used)] /\ restorer'[r].pc = "ended"
        /\ \A q \in Restorer : q # r => restorer'[q] = restorer[q]
        /\ \A q \in Restorer : restorer'[q].pc \notin Copied \cup {"locked"}
        /\ RestorerAlone' /\ LockHasOwner' /\ lock' = None
    BY <1>0, <1>1, RestoreOver
  <1>3. /\ restorer[r].tmp \in 1 .. used /\ restorer[r].tmp # 0
        /\ restorer[r].tmp \notin rollbacks \cup {backup}
        /\ copier.pc = "copied" => copier.tmp # restorer[r].tmp
    BY <1>1, TrackedFilesExist DEF PathsDiffer, Copied
  <1>4. restorer[r].tmp \in 0 .. used
    BY <1>3, FilesExist
  <1>5. TypeOK'
    BY <1>0, <1>2, <1>4, TypeParts, TypePartsNext DEF ghosts
  <1>6. Counted'
    BY <1>0, <1>2 DEF Counted
  <1>7. OpenersHoldDb' /\ MigrationsInOrder' /\ HistoryIsPrefix'
    BY <1>0, <1>1, NobodyOpen DEF HistoryIsPrefix
  <1>8. LogIsDbs'
    BY <1>0, <1>1 DEF LogIsDbs
  <1>9. PathsDiffer'
    BY <1>0, <1>2, <1>3 DEF PathsDiffer
  <1>10. RestoreOnTrack'
    BY <1>2 DEF RestoreOnTrack, Copied
  <1>11. BackupOnTrack'
    BY <1>0 DEF BackupOnTrack, ghosts
  <1>12. RowsKept'
    BY <1>0, <1>1 DEF RowsKept, ghosts
  <1>13. PublishedFilesAreWhole'
    BY <1>0, <1>1 DEF PublishedFilesAreWhole
  <1>14. DatabaseIsThere'
    BY <1>0, <1>3 DEF DatabaseIsThere
  <1> QED
    BY <1>2, <1>5, <1>6, <1>7, <1>8, <1>9, <1>10, <1>11, <1>12, <1>13, <1>14

\* A failed swap: the original is back at the path, or stays beside it.
LEMMA UndoSwapStep ==
  ASSUME MaintInv, NEW r \in Restorer, UndoSwap(r)
  PROVE  MaintInv'
  <1> USE DEF MaintInv
  <1>0. /\ Ended(r) /\ Swappable(r)
        /\ UNCHANGED <<disk, used, backup, walFile, opener, copier, ghosts, starts, kills>>
    BY DEF UndoSwap
  <1>1. /\ Restoring(r) /\ db = 0 /\ walFile = 0 /\ restorer[r].pc \in {"cleaned", "moved"}
    BY <1>0, SwapFindsPathFree
  <1>2. /\ restorer' \in [Restorer -> RestorerRow(used)] /\ restorer'[r].pc = "ended"
        /\ \A q \in Restorer : q # r => restorer'[q] = restorer[q]
        /\ \A q \in Restorer : restorer'[q].pc \notin Copied \cup {"locked"}
        /\ RestorerAlone' /\ LockHasOwner' /\ lock = r /\ lock' = None
    BY <1>0, <1>1, RestoreOver
  <1>3. /\ starts' \in Nat /\ kills' \in Nat /\ kills' >= kills /\ faults' \in Nat /\ faults' >= faults
        /\ ~(db' = restorer[r].old /\ rollbacks' = rollbacks \ {restorer[r].old}) =>
               restorer[r].pc = "moved" /\ faults' >= 2 /\ db' = 0 /\ UNCHANGED rollbacks
    BY <1>0 DEF Counted, UndoSwap, Fault
  <1>4. CASE UNCHANGED <<db, rollbacks>> /\ (restorer[r].pc = "moved" => faults' >= 2)
    <2>1. UNCHANGED <<files, ghosts, opener, copier>>
      BY <1>0, <1>4 DEF files
    <2> QED BY <1>2, <1>3, <1>4, <2>1, RestoreStops
  <1>5. CASE /\ restorer[r].pc = "moved" /\ db' = restorer[r].old
             /\ rollbacks' = rollbacks \ {restorer[r].old}
    <2> DEFINE old == restorer[r].old
    <2>1. old \in rollbacks /\ disk[old].rows = disk[old].cur
      BY <1>5 DEF RestoreOnTrack
    <2>2. old \in 1 .. used /\ old # 0 /\ old \in 0 .. used /\ rollbacks \subseteq 1 .. used
      BY <2>1, FilesExist
    <2>3. TypeOK'
      BY <1>0, <1>2, <1>5, <2>2, TypeParts, TypePartsNext DEF ghosts
    <2>4. Counted'
      BY <1>0, <1>2, <1>3 DEF Counted
    <2>5. OpenersHoldDb' /\ MigrationsInOrder' /\ HistoryIsPrefix'
      BY <1>0, <1>1, NobodyOpen DEF HistoryIsPrefix
    <2>6. LogIsDbs'
      BY <1>0, <1>1 DEF LogIsDbs
    <2>7. PathsDiffer'
      BY <1>0, <1>2, <1>5, <2>1, <2>2 DEF PathsDiffer
    <2>8. RestoreOnTrack'
      BY <1>2 DEF RestoreOnTrack, Copied
    <2>9. BackupOnTrack'
      BY <1>0 DEF BackupOnTrack, ghosts
    <2>10. RowsKept'
      <3>1. \A x \in acked \ pruned : \E i \in rollbacks : x \in disk[i].rows
        BY <1>1 DEF RowsKept
      <3>2. ASSUME NEW x \in acked \ pruned
            PROVE  \/ db' # 0 /\ x \in disk[db'].cur
                   \/ \E i \in rollbacks' : x \in disk[i].rows
        <4>1. PICK i \in rollbacks : x \in disk[i].rows
          BY <3>1
        <4>2. CASE i = old
          BY <1>5, <2>1, <2>2, <4>1, <4>2
        <4>3. CASE i # old
          BY <1>5, <4>1, <4>3
        <4> QED BY <4>2, <4>3
      <3> QED BY <1>0, <3>2 DEF RowsKept, ghosts
    <2>11. PublishedFilesAreWhole'
      BY <1>0, <1>5, <2>1, <2>2 DEF PublishedFilesAreWhole
    <2>12. DatabaseIsThere'
      BY <1>5, <2>2 DEF DatabaseIsThere
    <2> QED
      BY <1>2, <2>3, <2>4, <2>5, <2>6, <2>7, <2>8, <2>9, <2>10, <2>11, <2>12
  <1>6. CASE /\ restorer[r].pc = "cleaned" /\ db' = restorer[r].old
             /\ rollbacks' = rollbacks \ {restorer[r].old}
    <2>1. restorer[r].old = 0
      BY <1>0, <1>6 DEF Swappable
    <2>2. 0 \notin rollbacks
      BY FilesExist
    <2> QED BY <1>1, <1>4, <1>6, <2>1, <2>2
  <1> QED BY <1>1, <1>3, <1>4, <1>5, <1>6
-----------------------------------------------------------------------------
(* The connections.                                                        *)

\* A connection, or one about to be made, means that no restore runs.
LEMMA NoRestore ==
  ASSUME MaintInv, NEW o \in Opener, opener[o].pc # "closed"
  PROVE  \A r \in Restorer : ~Restoring(r)
  BY DEF MaintInv, RestorerAlone

\* An open connection's file.
LEMMA OpenFacts ==
  ASSUME MaintInv, NEW o \in Opener, IsOpen(o)
  PROVE  /\ opener[o].ino = db /\ walFile = db /\ db # 0 /\ db \in Inode /\ db \in 1 .. used
         /\ disk[db] \in DiskRow /\ Len(disk[db].hist) \in Nat
         /\ Len(disk[db].hist) <= Latest /\ opener[o].next \in 1 .. (Len(disk[db].hist) + 1)
         /\ opener[o].pc # "closed" /\ \A p \in Opener \ {o} : IsOpen(p) => p \in Holders(db) \ {o}
  <1>1. opener[o].ino = db /\ walFile = db /\ db # 0 /\ opener[o].pc # "closed"
    BY DEF MaintInv, OpenersHoldDb, IsOpen
  <1>2. db \in Inode /\ db \in 1 .. used /\ disk[db] \in DiskRow
    BY <1>1, FilesExist, TypeParts DEF MaintInv
  <1>3. Len(disk[db].hist) \in Nat
    BY <1>2 DEF DiskRow
  <1> QED BY <1>1, <1>2, <1>3 DEF MaintInv, MigrationsInOrder, OpenersHoldDb, Holders

\* A step that writes only the database file, while no restore runs, drops no row
\* but those pruned and adds to the acknowledged rows only what it stores.
LEMMA DatabaseWritten ==
  ASSUME MaintInv, \A r \in Restorer : ~Restoring(r),
         UNCHANGED <<used, db, backup, rollbacks, lock, restorer, copier>>,
         starts' \in Nat, kills' \in Nat, kills' >= kills, faults' \in Nat, faults' >= faults,
         walFile' \in {0, db},
         disk' \in [Inode -> DiskRow],
         \A i \in Inode : i # db => disk'[i] = disk[i],
         db # 0 => /\ disk'[db].whole = disk[db].whole
                   /\ disk[db].cur \ pruned' \subseteq disk'[db].cur,
         acked' \subseteq Row, pruned' \subseteq Row, pruned \subseteq pruned',
         \A x \in acked' : x \in acked \/ (db # 0 /\ x \in disk'[db].cur),
         opener' \in [Opener -> OpenerRow(used)]
  PROVE  /\ TypeOK' /\ Counted' /\ RestorerAlone' /\ LockHasOwner' /\ LogIsDbs' /\ PathsDiffer'
         /\ RestoreOnTrack' /\ BackupOnTrack' /\ RowsKept' /\ PublishedFilesAreWhole'
         /\ DatabaseIsThere'
  <1> USE DEF MaintInv
  <1>0. /\ used \in Nat /\ db \in 0 .. used /\ (db # 0 => db \in Inode) /\ 0 \in 0 .. used
        /\ \A i \in 1 .. used : i \in Inode
        /\ restorer \in [Restorer -> RestorerRow(used)]
    BY FilesExist, TypeParts
  <1>1. TypeOK'
    <2>1. walFile' \in 0 .. used
      BY <1>0
    <2> QED BY <2>1, TypeParts, TypePartsNext
  <1>2. Counted' /\ LockHasOwner' /\ LogIsDbs'
    BY DEF Counted, LockHasOwner, LogIsDbs
  <1>3. RestorerAlone'
    BY DEF RestorerAlone, Restoring
  <1>4. \A r \in Restorer : restorer[r].pc \notin Copied \cup {"locked"}
    BY <1>0 DEF Restoring, Copied, RestorerRow
  <1>5. RestoreOnTrack' /\ PathsDiffer'
    BY <1>4 DEF RestoreOnTrack, PathsDiffer, Copied
  <1>6. BackupOnTrack'
    <2>1. ASSUME copier.pc = "copying"
          PROVE  copier.seen \ pruned' \subseteq disk'[copier.ino].cur
      <3>1. copier.ino \in Inode /\ copier.seen \ pruned \subseteq disk[copier.ino].cur
        BY <1>0, <2>1, TrackedFilesExist DEF BackupOnTrack
      <3>2. CASE copier.ino = db
        BY <1>0, <3>1, <3>2, FilesExist
      <3>3. CASE copier.ino # db
        BY <3>1, <3>3
      <3> QED BY <3>2, <3>3
    <2>2. copier.pc = "copied" => copier.tmp \in Inode /\ copier.tmp # db
      BY <1>0, TrackedFilesExist DEF PathsDiffer
    <2>3. copier.pc = "done" => backup \in Inode /\ backup # db
      BY <1>0, TrackedFilesExist DEF PathsDiffer, BackupOnTrack
    <2> QED BY <2>1, <2>2, <2>3 DEF BackupOnTrack
  <1>7. RowsKept'
    <2>1. \A i \in rollbacks : i \in Inode /\ i # db
      BY <1>0, TrackedFilesExist DEF PathsDiffer
    <2> QED BY <1>0, <2>1 DEF RowsKept
  <1>8. PublishedFilesAreWhole'
    <2>1. \A i \in ({db, backup} \cup rollbacks) \ {0} : i \in Inode
      BY FilesExist
    <2> QED BY <1>0, <2>1 DEF PublishedFilesAreWhole
  <1>9. DatabaseIsThere'
    BY DEF DatabaseIsThere, Counted
  <1> QED BY <1>1, <1>2, <1>3, <1>5, <1>6, <1>7, <1>8, <1>9

\* A heartbeat is stored, and only then acknowledged.
LEMMA InsertStep ==
  ASSUME MaintInv, NEW o \in Opener, NEW x \in Row, Insert(o, x)
  PROVE  MaintInv'
  <1> USE DEF MaintInv
  <1>0. IsOpen(o) /\ starts \in Nat /\ kills \in Nat /\ faults \in Nat
    BY DEF Insert, IsOpen, Counted
  <1>1. /\ opener[o].ino = db /\ walFile = db /\ db # 0 /\ db \in Inode /\ db \in 1 .. used
        /\ disk[db] \in DiskRow /\ opener[o].pc # "closed"
    BY <1>0, OpenFacts
  <1>2. /\ disk' = [disk EXCEPT ![db].cur = disk[db].cur \cup {x}] /\ acked' = acked \cup {x}
        /\ UNCHANGED <<used, db, backup, rollbacks, walFile, lock, opener, restorer, copier,
                       pruned, starts, kills, faults>>
    BY <1>1 DEF Insert
  <1>3. /\ disk \in [Inode -> DiskRow] /\ opener \in [Opener -> OpenerRow(used)]
        /\ acked \subseteq Row /\ pruned \subseteq Row
    BY TypeParts
  <1>4. /\ disk' \in [Inode -> DiskRow]
        /\ \A i \in Inode : i # db => disk'[i] = disk[i]
        /\ \A i \in Inode : disk'[i].hist = disk[i].hist
        /\ disk'[db].whole = disk[db].whole
        /\ disk'[db].cur = disk[db].cur \cup {x}
    BY <1>1, <1>2, <1>3 DEF DiskRow
  <1>5. /\ TypeOK' /\ Counted' /\ RestorerAlone' /\ LockHasOwner' /\ LogIsDbs' /\ PathsDiffer'
        /\ RestoreOnTrack' /\ BackupOnTrack' /\ RowsKept' /\ PublishedFilesAreWhole'
        /\ DatabaseIsThere'
    <2>1. /\ disk[db].cur \ pruned' \subseteq disk'[db].cur /\ acked' \subseteq Row
          /\ pruned' \subseteq Row /\ pruned \subseteq pruned' /\ walFile' \in {0, db}
          /\ \A y \in acked' : y \in acked \/ (db # 0 /\ y \in disk'[db].cur)
          /\ kills' >= kills /\ faults' >= faults
      BY <1>0, <1>1, <1>2, <1>3, <1>4
    <2>2. \A r \in Restorer : ~Restoring(r)
      BY <1>1, NoRestore
    <2> QED BY <1>0, <1>2, <1>3, <1>4, <2>1, <2>2, DatabaseWritten
  <1>6. OpenersHoldDb'
    BY <1>2 DEF OpenersHoldDb, IsOpen
  <1>7. MigrationsInOrder'
    BY <1>1, <1>2, <1>4 DEF MigrationsInOrder, IsOpen
  <1>8. HistoryIsPrefix'
    <2>1. \A i \in 1 .. used : i \in Inode
      BY FilesExist
    <2>2. \A p \in Opener : opener[p].pc = "serving" => opener[p].ino \in Inode
      BY <1>1 DEF OpenersHoldDb, IsOpen
    <2> QED BY <1>2, <1>4, <2>1, <2>2 DEF HistoryIsPrefix
  <1> QED BY <1>5, <1>6, <1>7, <1>8

\* One more migration at the end of a history.
LEMMA HistoryGrows ==
  ASSUME NEW n \in Nat
  PROVE  Append(History(n), n + 1) = History(n + 1)
  <1>1. \A k \in Nat : \A f \in [1 .. k -> Nat] :
            /\ f \in Seq(Nat) /\ Len(f) = k /\ f = [i \in 1 .. k |-> f[i]]
    OBVIOUS
  <1>2. History(n) \in [1 .. n -> Nat] /\ \A i \in 1 .. n : History(n)[i] = i
    BY DEF History
  <1>3. History(n + 1) \in [1 .. (n + 1) -> Nat] /\ \A i \in 1 .. (n + 1) : History(n + 1)[i] = i
    BY DEF History
  <1> DEFINE h == History(n)
             g == History(n + 1)
             a == Append(h, n + 1)
  <1>4. h \in Seq(Nat) /\ Len(h) = n /\ g \in Seq(Nat) /\ Len(g) = n + 1
    BY <1>1, <1>2, <1>3
  <1> HIDE DEF h, g
  <1>5. a \in Seq(Nat) /\ Len(a) = n + 1 /\ \A i \in 1 .. n : a[i] = h[i]
    BY <1>4
  <1>6. a[n + 1] = n + 1
    BY <1>4
  <1>7. \A i \in 1 .. (n + 1) : a[i] = g[i]
    BY <1>2, <1>3, <1>5, <1>6 DEF h, g
  <1>8. a = g
    BY <1>4, <1>5, <1>7
  <1> QED BY <1>8 DEF a, h, g

\* A missing migration is the next one, whoever applied the ones before.
LEMMA MigrateStep ==
  ASSUME MaintInv, NEW o \in Opener, Migrate(o)
  PROVE  MaintInv'
  <1> USE DEF MaintInv
  <1> DEFINE v == opener[o].next
             h == disk[db].hist
             n == Len(h)
  <1>0. IsOpen(o) /\ starts \in Nat /\ kills \in Nat /\ faults \in Nat /\ Latest \in Nat
    BY MaintenanceAssumption DEF Migrate, IsOpen, Counted
  <1>1. /\ opener[o].ino = db /\ walFile = db /\ db # 0 /\ db \in Inode /\ db \in 1 .. used
        /\ disk[db] \in DiskRow /\ opener[o].pc # "closed" /\ n \in Nat /\ v \in 1 .. (n + 1)
    BY <1>0, OpenFacts
  <1>2. /\ disk' = [disk EXCEPT ![db].hist = Append(h, v)] /\ v <= Latest /\ v \notin Range(h)
        /\ opener' = [opener EXCEPT ![o].next = v + 1]
        /\ UNCHANGED <<used, db, backup, rollbacks, walFile, lock, restorer, copier, ghosts,
                       starts, kills, faults>>
    BY <1>1 DEF Migrate
  <1>3. /\ disk \in [Inode -> DiskRow] /\ opener \in [Opener -> OpenerRow(used)]
        /\ acked \subseteq Row /\ pruned \subseteq Row
    BY TypeParts
  <1>4. v = n + 1 /\ h = History(n)
    <2>1. h = History(n)
      BY <1>1 DEF HistoryIsPrefix
    <2>2. Range(History(n)) = 1 .. n
      BY <1>1 DEF Range, History
    <2>3. v \notin 1 .. n
      BY <1>2, <2>1, <2>2
    <2> QED BY <1>1, <2>1, <2>3
  <1>5. /\ Append(h, v) = History(n + 1) /\ Append(h, v) \in Seq(1 .. Latest + 1)
        /\ Len(Append(h, v)) = n + 1
    <2>1. n + 1 \in 0 .. Latest + 1
      BY <1>0, <1>1, <1>2, <1>4
    <2>2. Append(h, v) = History(n + 1)
      <3> HIDE DEF n, h, v
      <3> QED BY <1>1, <1>4, HistoryGrows
    <2> QED BY <2>1, <2>2, HistoryIsSeq
  <1> DEFINE new == Append(h, v)
  <1> HIDE DEF new
  <1>6. /\ disk' \in [Inode -> DiskRow]
        /\ \A i \in Inode : i # db => disk'[i] = disk[i]
        /\ disk'[db].hist = new
        /\ disk'[db].whole = disk[db].whole /\ disk'[db].cur = disk[db].cur
    <2>1. disk' = [disk EXCEPT ![db].hist = new] /\ new \in Seq(1 .. Latest + 1)
      BY <1>2, <1>5 DEF new
    <2> QED BY <1>1, <1>3, <2>1 DEF DiskRow
  <1>7. /\ opener' \in [Opener -> OpenerRow(used)]
        /\ opener'[o].next = v + 1 /\ opener'[o].pc = opener[o].pc
        /\ \A p \in Opener : p # o => opener'[p] = opener[p]
        /\ \A p \in Opener : IsOpen(p)' <=> IsOpen(p)
        /\ \A p \in Opener : opener'[p].ino = opener[p].ino /\ opener'[p].pc = opener[p].pc
    <2>1. v + 1 \in 0 .. Latest + 1
      BY <1>0, <1>1, <1>2
    <2> QED BY <1>2, <1>3, <2>1 DEF OpenerRow, IsOpen
  <1>8. /\ TypeOK' /\ Counted' /\ RestorerAlone' /\ LockHasOwner' /\ LogIsDbs' /\ PathsDiffer'
        /\ RestoreOnTrack' /\ BackupOnTrack' /\ RowsKept' /\ PublishedFilesAreWhole'
        /\ DatabaseIsThere'
    <2>1. /\ disk[db].cur \ pruned' \subseteq disk'[db].cur /\ acked' \subseteq Row
          /\ pruned' \subseteq Row /\ pruned \subseteq pruned' /\ walFile' \in {0, db}
          /\ \A y \in acked' : y \in acked \/ (db # 0 /\ y \in disk'[db].cur)
          /\ kills' >= kills /\ faults' >= faults
      BY <1>0, <1>1, <1>2, <1>3, <1>6 DEF ghosts
    <2>2. \A r \in Restorer : ~Restoring(r)
      BY <1>1, NoRestore
    <2> QED BY <1>0, <1>2, <1>6, <1>7, <2>1, <2>2, DatabaseWritten
  <1>9. OpenersHoldDb'
    BY <1>2, <1>7 DEF OpenersHoldDb
  <1>10. Len(disk'[db].hist) = n + 1
    BY <1>5, <1>6 DEF new
  <1>11. MigrationsInOrder'
    <2>1. n + 1 <= Latest
      BY <1>2, <1>4
    <2>2. \A p \in Opener : IsOpen(p) => opener[p].next \in 1 .. (n + 1)
      BY DEF MigrationsInOrder
    <2>3. \A p \in Opener : IsOpen(p) => opener'[p].next \in 1 .. (n + 1 + 1)
      <3> HIDE DEF n, v
      <3> QED BY <1>1, <1>4, <1>7, <2>2
    <2> QED BY <1>2, <1>7, <1>10, <2>1, <2>3 DEF MigrationsInOrder
  <1>12. HistoryIsPrefix'
    <2>1. \A i \in 1 .. used : i \in Inode
      BY FilesExist
    <2>2. \A i \in 1 .. used : disk'[i].hist = History(Len(disk'[i].hist))
      BY <1>5, <1>6, <1>10, <2>1 DEF HistoryIsPrefix, new
    <2>3. \A p \in Opener : opener[p].pc # "serving"
      <3>1. \A p \in Opener : opener[p].pc = "serving" => opener[p].ino = db
        BY DEF OpenersHoldDb, IsOpen
      <3>2. n # Latest
        BY <1>0, <1>1, <1>2, <1>4
      <3> QED BY <3>1, <3>2 DEF HistoryIsPrefix
    <2> QED BY <1>2, <1>7, <2>2, <2>3 DEF HistoryIsPrefix
  <1> QED BY <1>8, <1>9, <1>11, <1>12

\* A connection closes; the last one folds the log into the file.
LEMMA CloseStep ==
  ASSUME MaintInv, NEW o \in Opener,
         MigrationConflicts(o) \/ MigrationFails(o) \/ Stop(o)
  PROVE  MaintInv'
  <1> USE DEF MaintInv
  <1>0. /\ IsOpen(o) /\ starts \in Nat /\ kills \in Nat /\ faults \in Nat /\ Close(o)
        /\ faults' \in {faults, faults + 1}
    BY DEF MigrationConflicts, MigrationFails, Stop, IsOpen, Counted, Fault
  <1>1. /\ opener[o].ino = db /\ walFile = db /\ db # 0 /\ db \in Inode /\ db \in 1 .. used
        /\ disk[db] \in DiskRow /\ opener[o].pc # "closed"
        /\ \A p \in Opener \ {o} : IsOpen(p) => p \in Holders(db) \ {o}
    BY <1>0, OpenFacts
  <1> DEFINE others == Holders(db) \ {o}
  <1>2. /\ disk' = IF others = {} THEN [disk EXCEPT ![db].rows = disk[db].cur] ELSE disk
        /\ walFile' = IF others = {} THEN 0 ELSE walFile
        /\ opener' = [opener EXCEPT ![o] = Closed]
        /\ UNCHANGED <<used, db, backup, rollbacks, lock, restorer, copier, ghosts, starts, kills>>
    BY <1>0, <1>1 DEF Close, CloseFile, Checkpointed
  <1>3. /\ disk \in [Inode -> DiskRow] /\ opener \in [Opener -> OpenerRow(used)]
        /\ acked \subseteq Row /\ pruned \subseteq Row /\ used \in Nat
    BY TypeParts, FilesExist
  <1> HIDE DEF others
  <1>4. /\ disk' \in [Inode -> DiskRow]
        /\ \A i \in Inode : i # db => disk'[i] = disk[i]
        /\ \A i \in Inode : disk'[i].hist = disk[i].hist
        /\ disk'[db].whole = disk[db].whole /\ disk'[db].cur = disk[db].cur
    <2>1. CASE others = {}
      BY <1>1, <1>2, <1>3, <2>1 DEF DiskRow
    <2>2. CASE others # {}
      BY <1>1, <1>2, <1>3, <2>2
    <2> QED BY <2>1, <2>2
  <1>5. Closed \in OpenerRow(used) /\ Closed.pc = "closed" /\ Closed.ino = 0
    BY <1>3, MaintenanceAssumption DEF Closed, OpenerRow
  <1>6. /\ opener' \in [Opener -> OpenerRow(used)] /\ opener'[o] = Closed
        /\ \A p \in Opener : p # o => opener'[p] = opener[p]
    BY <1>2, <1>3, <1>5
  <1>7. /\ TypeOK' /\ Counted' /\ RestorerAlone' /\ LockHasOwner' /\ LogIsDbs' /\ PathsDiffer'
        /\ RestoreOnTrack' /\ BackupOnTrack' /\ RowsKept' /\ PublishedFilesAreWhole'
        /\ DatabaseIsThere'
    <2>1. /\ disk[db].cur \ pruned' \subseteq disk'[db].cur /\ acked' \subseteq Row
          /\ pruned' \subseteq Row /\ pruned \subseteq pruned' /\ walFile' \in {0, db}
          /\ \A y \in acked' : y \in acked \/ (db # 0 /\ y \in disk'[db].cur)
      BY <1>1, <1>2, <1>3, <1>4 DEF ghosts
    <2>2. kills' >= kills /\ faults' >= faults /\ faults' \in Nat
      BY <1>0, <1>2
    <2>3. \A r \in Restorer : ~Restoring(r)
      BY <1>1, NoRestore
    <2> QED BY <1>0, <1>2, <1>4, <1>6, <2>1, <2>2, <2>3, DatabaseWritten
  <1>8. \A p \in Opener : IsOpen(p)' => p # o /\ IsOpen(p) /\ others # {}
    BY <1>1, <1>5, <1>6 DEF IsOpen, others
  <1>9. OpenersHoldDb'
    BY <1>1, <1>2, <1>5, <1>6, <1>8 DEF OpenersHoldDb, IsOpen
  <1>10. MigrationsInOrder'
    BY <1>1, <1>2, <1>4, <1>6, <1>8 DEF MigrationsInOrder
  <1>11. HistoryIsPrefix'
    <2>1. \A i \in 1 .. used : i \in Inode
      BY FilesExist
    <2>2. \A p \in Opener : opener[p].pc = "serving" => opener[p].ino \in Inode
      BY <1>1 DEF OpenersHoldDb, IsOpen
    <2> QED BY <1>2, <1>4, <1>5, <1>6, <2>1, <2>2 DEF HistoryIsPrefix
  <1> QED BY <1>7, <1>9, <1>10, <1>11

\* A killed process leaves its log beside the database, so nothing is lost.
LEMMA KillOpenerStep ==
  ASSUME MaintInv, NEW o \in Opener, KillOpener(o)
  PROVE  MaintInv'
  <1> USE DEF MaintInv
  <1>0. opener[o].pc # "closed" /\ starts \in Nat /\ kills \in Nat /\ faults \in Nat
    BY DEF KillOpener, Counted
  <1>1. /\ opener' = [opener EXCEPT ![o] = Closed] /\ kills' = kills + 1
        /\ UNCHANGED <<used, db, backup, rollbacks, walFile, lock, restorer, copier, ghosts,
                       starts, faults>>
    BY DEF KillOpener
  <1>2. disk' = disk
    <2>1. opener[o].ino # 0 => walFile = opener[o].ino
      BY DEF OpenersHoldDb
    <2> QED BY <2>1 DEF KillOpener
  <1>3. /\ disk \in [Inode -> DiskRow] /\ opener \in [Opener -> OpenerRow(used)]
        /\ acked \subseteq Row /\ pruned \subseteq Row /\ used \in Nat
    BY TypeParts, FilesExist
  <1>4. Closed \in OpenerRow(used) /\ Closed.pc = "closed" /\ Closed.ino = 0
    BY <1>3, MaintenanceAssumption DEF Closed, OpenerRow
  <1>5. /\ opener' \in [Opener -> OpenerRow(used)] /\ opener'[o] = Closed
        /\ \A p \in Opener : p # o => opener'[p] = opener[p]
    BY <1>1, <1>3, <1>4
  <1>6. /\ TypeOK' /\ Counted' /\ RestorerAlone' /\ LockHasOwner' /\ LogIsDbs' /\ PathsDiffer'
        /\ RestoreOnTrack' /\ BackupOnTrack' /\ RowsKept' /\ PublishedFilesAreWhole'
        /\ DatabaseIsThere'
    <2>1. /\ acked' \subseteq Row /\ pruned' \subseteq Row /\ pruned \subseteq pruned'
          /\ walFile' \in {0, db} /\ disk' \in [Inode -> DiskRow]
          /\ \A i \in Inode : i # db => disk'[i] = disk[i]
          /\ db # 0 => /\ disk'[db].whole = disk[db].whole
                       /\ disk[db].cur \ pruned' \subseteq disk'[db].cur
          /\ \A y \in acked' : y \in acked \/ (db # 0 /\ y \in disk'[db].cur)
      BY <1>1, <1>2, <1>3 DEF ghosts, LogIsDbs
    <2>2. kills' >= kills /\ kills' \in Nat /\ faults' >= faults
      BY <1>0, <1>1
    <2>3. \A r \in Restorer : ~Restoring(r)
      BY <1>0, NoRestore
    <2> QED BY <1>0, <1>1, <1>5, <2>1, <2>2, <2>3, DatabaseWritten
  <1>7. \A p \in Opener : IsOpen(p)' => p # o /\ IsOpen(p)
    BY <1>4, <1>5 DEF IsOpen
  <1>8. OpenersHoldDb'
    BY <1>1, <1>4, <1>5, <1>7 DEF OpenersHoldDb, IsOpen
  <1>9. MigrationsInOrder' /\ HistoryIsPrefix'
    BY <1>1, <1>2, <1>4, <1>5, <1>7 DEF MigrationsInOrder, HistoryIsPrefix
  <1> QED BY <1>6, <1>8, <1>9

\* A prune drops the rows it was asked to drop, and no other.
LEMMA PruneStep ==
  ASSUME Overlap = FALSE, MaintInv, prune
  PROVE  MaintInv'
  <1> USE DEF MaintInv
  <1>0. /\ db # 0 /\ starts \in Nat /\ kills \in Nat /\ faults \in Nat /\ starts' = starts + 1
        /\ \A r \in Restorer : ~Restoring(r)
    BY DEF prune, Counted, Starting, NoRestoreRuns
  <1> DEFINE old == disk[db].cur \cap OldRow
             left == disk[db].cur \ OldRow
             mid == [disk EXCEPT ![db].cur = left]
  <1>1. /\ disk' = IF Holders(db) = {} THEN [mid EXCEPT ![db].rows = mid[db].cur] ELSE mid
        /\ walFile' = IF Holders(db) = {} /\ walFile = db THEN 0 ELSE walFile
        /\ pruned' = pruned \cup old
        /\ UNCHANGED <<used, db, backup, rollbacks, lock, opener, restorer, copier, acked,
                       kills, faults>>
    BY DEF prune, CloseFile, Checkpointed
  <1>2. /\ disk \in [Inode -> DiskRow] /\ opener \in [Opener -> OpenerRow(used)]
        /\ acked \subseteq Row /\ pruned \subseteq Row /\ db \in Inode
    BY <1>0, TypeParts, FilesExist
  <1>3. disk[db] \in DiskRow /\ left \in SUBSET Row /\ old \in SUBSET Row
    BY <1>2 DEF DiskRow
  <1>4. disk[db].cur \ (pruned \cup old) \subseteq left
    OBVIOUS
  <1> HIDE DEF left, old
  <1>5. /\ mid \in [Inode -> DiskRow] /\ mid[db].cur = left
        /\ \A i \in Inode : i # db => mid[i] = disk[i]
        /\ mid[db].hist = disk[db].hist /\ mid[db].whole = disk[db].whole
    BY <1>2, <1>3 DEF DiskRow
  <1> HIDE DEF mid
  <1>6. /\ disk' \in [Inode -> DiskRow] /\ disk'[db].cur = left
        /\ \A i \in Inode : i # db => disk'[i] = disk[i]
        /\ disk'[db].hist = disk[db].hist /\ disk'[db].whole = disk[db].whole
    <2>1. CASE Holders(db) = {}
      <3>1. disk' = [mid EXCEPT ![db].rows = left]
        BY <1>1, <1>5, <2>1
      <3> QED BY <1>2, <1>3, <1>5, <3>1 DEF DiskRow
    <2>2. CASE Holders(db) # {}
      BY <1>1, <1>5, <2>2
    <2> QED BY <2>1, <2>2
  <1>7. \A i \in Inode : disk'[i].hist = disk[i].hist
    BY <1>6
  <1>8. walFile' \in {0, db} /\ (walFile = db /\ Holders(db) # {} => walFile' = db)
    BY <1>1 DEF LogIsDbs
  <1>9. /\ TypeOK' /\ Counted' /\ RestorerAlone' /\ LockHasOwner' /\ LogIsDbs' /\ PathsDiffer'
        /\ RestoreOnTrack' /\ BackupOnTrack' /\ RowsKept' /\ PublishedFilesAreWhole'
        /\ DatabaseIsThere'
    <2>1. /\ acked' \subseteq Row /\ pruned' \subseteq Row /\ pruned \subseteq pruned'
          /\ disk[db].cur \ pruned' \subseteq disk'[db].cur
          /\ \A x \in acked' : x \in acked \/ (db # 0 /\ x \in disk'[db].cur)
          /\ opener' \in [Opener -> OpenerRow(used)]
      BY <1>1, <1>2, <1>3, <1>4, <1>6
    <2>2. kills' >= kills /\ faults' >= faults /\ starts' \in Nat
      BY <1>0, <1>1
    <2> QED BY <1>0, <1>1, <1>6, <1>8, <2>1, <2>2, DatabaseWritten
  <1>10. OpenersHoldDb'
    <2>1. \A o \in Opener : IsOpen(o) => Holders(db) # {} /\ walFile = db
      BY DEF OpenersHoldDb, Holders
    <2> QED BY <1>1, <1>8, <2>1 DEF OpenersHoldDb, IsOpen
  <1>11. MigrationsInOrder'
    BY <1>1, <1>6 DEF MigrationsInOrder, IsOpen
  <1>12. HistoryIsPrefix'
    <2>1. \A i \in 1 .. used : i \in Inode
      BY FilesExist
    <2>2. \A p \in Opener : opener[p].pc = "serving" => opener[p].ino \in Inode
      BY <1>2 DEF OpenersHoldDb, IsOpen
    <2> QED BY <1>1, <1>7, <2>1, <2>2 DEF HistoryIsPrefix
  <1> QED BY <1>9, <1>10, <1>11, <1>12

\* The connection that an open makes, or refuses on a newer file.
LEMMA OpenedRecord ==
  ASSUME NEW u \in Nat, NEW i \in 1 .. u, NEW h \in Seq(1 .. Latest + 1),
         NEW rec, rec = IF IsPrefix(h, History(Latest))
                          THEN [pc |-> "migrating", ino |-> i, next |-> Len(h) + 1]
                          ELSE Closed
  PROVE  /\ rec \in OpenerRow(u) /\ rec.pc \in {"closed", "migrating"}
         /\ rec.pc = "closed" => rec.ino = 0
         /\ rec.pc = "migrating" => rec.ino = i /\ Len(h) <= Latest /\ rec.next = Len(h) + 1
  <1>1. Latest \in Nat /\ Len(h) \in Nat
    BY MaintenanceAssumption
  <1>2. CASE IsPrefix(h, History(Latest))
    <2>1. Len(h) <= Latest
      <3>1. Len(History(Latest)) = Latest
        BY <1>1, HistoryIsSeq
      <3> QED BY <1>2, <3>1 DEF IsPrefix
    <2> QED BY <1>1, <1>2, <2>1 DEF OpenerRow
  <1>3. CASE ~IsPrefix(h, History(Latest))
    BY <1>1, <1>3 DEF OpenerRow, Closed
  <1> QED BY <1>2, <1>3

\* An open finds a database, whose own log alone may lie beside it.
LEMMA OpenExisting ==
  ASSUME MaintInv, NEW o \in Opener, ~IsOpen(o), \A r \in Restorer : ~Restoring(r),
         db # 0, OpenFile(o), starts' \in Nat,
         UNCHANGED <<backup, rollbacks, lock, restorer, copier, ghosts, kills, faults>>
  PROVE  MaintInv'
  <1> USE DEF MaintInv
  <1>0. /\ kills \in Nat /\ faults \in Nat /\ walFile \in {0, db} /\ Latest \in Nat
    BY MaintenanceAssumption DEF Counted, LogIsDbs
  <1> DEFINE h == disk[db].hist
             rec == IF IsPrefix(h, History(Latest))
                      THEN [pc |-> "migrating", ino |-> db, next |-> Len(h) + 1]
                      ELSE Closed
  <1>1. /\ db' = db /\ used' = used /\ disk' = disk /\ walFile' = db
        /\ opener' = [opener EXCEPT ![o] = rec]
    BY <1>0 DEF OpenFile
  <1>2. /\ disk \in [Inode -> DiskRow] /\ opener \in [Opener -> OpenerRow(used)]
        /\ acked \subseteq Row /\ pruned \subseteq Row /\ db \in Inode /\ db \in 1 .. used
        /\ used \in Nat
    BY TypeParts, FilesExist
  <1>3. h \in Seq(1 .. Latest + 1) /\ Len(h) \in Nat
    BY <1>2 DEF DiskRow
  <1> HIDE DEF h
  <1>4. /\ rec \in OpenerRow(used) /\ rec.pc \in {"closed", "migrating"}
        /\ rec.pc = "closed" => rec.ino = 0
        /\ rec.pc = "migrating" => rec.ino = db /\ Len(h) <= Latest /\ rec.next = Len(h) + 1
    BY <1>2, <1>3, OpenedRecord
  <1> HIDE DEF rec
  <1>5. /\ opener' \in [Opener -> OpenerRow(used)] /\ opener'[o] = rec
        /\ \A p \in Opener : p # o => opener'[p] = opener[p]
    BY <1>1, <1>2, <1>4
  <1>6. /\ TypeOK' /\ Counted' /\ RestorerAlone' /\ LockHasOwner' /\ LogIsDbs' /\ PathsDiffer'
        /\ RestoreOnTrack' /\ BackupOnTrack' /\ RowsKept' /\ PublishedFilesAreWhole'
        /\ DatabaseIsThere'
    <2>1. /\ acked' \subseteq Row /\ pruned' \subseteq Row /\ pruned \subseteq pruned'
          /\ walFile' \in {0, db} /\ disk' \in [Inode -> DiskRow]
          /\ \A i \in Inode : i # db => disk'[i] = disk[i]
          /\ db # 0 => /\ disk'[db].whole = disk[db].whole
                       /\ disk[db].cur \ pruned' \subseteq disk'[db].cur
          /\ \A y \in acked' : y \in acked \/ (db # 0 /\ y \in disk'[db].cur)
      BY <1>1, <1>2 DEF ghosts
    <2>2. kills' >= kills /\ kills' \in Nat /\ faults' >= faults /\ faults' \in Nat
      BY <1>0
    <2> QED BY <1>1, <1>5, <2>1, <2>2, DatabaseWritten
  <1>7. OpenersHoldDb'
    <2>1. \A p \in Opener : p # o => (IsOpen(p)' <=> IsOpen(p))
      BY <1>5 DEF IsOpen
    <2>2. IF IsOpen(o)' THEN opener'[o].ino = db ELSE opener'[o].ino = 0
      BY <1>4, <1>5 DEF IsOpen
    <2> QED BY <1>1, <1>5, <2>1, <2>2 DEF OpenersHoldDb
  <1>8. MigrationsInOrder'
    <2>1. \A p \in Opener : p # o /\ IsOpen(p)' => IsOpen(p) /\ opener'[p] = opener[p]
      BY <1>5 DEF IsOpen
    <2>2. IsOpen(o)' => Len(h) <= Latest /\ opener'[o].next \in 1 .. (Len(h) + 1)
      BY <1>3, <1>4, <1>5 DEF IsOpen
    <2> QED BY <1>1, <2>1, <2>2 DEF MigrationsInOrder, h
  <1>9. HistoryIsPrefix'
    BY <1>1, <1>4, <1>5 DEF HistoryIsPrefix
  <1> QED BY <1>6, <1>7, <1>8, <1>9

\* An open finds no file, after a restore that was killed or could not move the
\* original back: it makes an empty database, and the rows stay in the rollback.
LEMMA OpenMissing ==
  ASSUME MaintInv, NEW o \in Opener, ~IsOpen(o), \A r \in Restorer : ~Restoring(r),
         db = 0, OpenFile(o), starts' \in Nat,
         UNCHANGED <<backup, rollbacks, lock, restorer, copier, ghosts, kills, faults>>
  PROVE  MaintInv'
  <1> USE DEF MaintInv
  <1>0. /\ kills \in Nat /\ faults \in Nat /\ Latest \in Nat /\ used \in Nat
    BY MaintenanceAssumption, FilesExist DEF Counted
  <1> DEFINE i == used + 1
             new == Database({}, 0)
             h == new.hist
             rec == IF IsPrefix(h, History(Latest))
                      THEN [pc |-> "migrating", ino |-> i, next |-> Len(h) + 1]
                      ELSE Closed
  <1>1. /\ disk \in [Inode -> DiskRow] /\ opener \in [Opener -> OpenerRow(used)]
        /\ restorer \in [Restorer -> RestorerRow(used)] /\ copier \in CopierRow(used)
        /\ acked \subseteq Row /\ pruned \subseteq Row /\ backup \in 0 .. used
        /\ rollbacks \subseteq 1 .. used
    BY TypeParts
  <1>2. new \in DiskRow /\ new.whole /\ new.hist = History(0) /\ Len(new.hist) = 0
    BY <1>0, DatabaseIsRow, HistoryIsSeq
  <1>3. /\ i \in Inode /\ db' = i /\ used' = i /\ walFile' = i
        /\ disk' = [disk EXCEPT ![i] = new]
        /\ opener' = [opener EXCEPT ![o] = IF IsPrefix(disk'[i].hist, History(Latest))
                      THEN [pc |-> "migrating", ino |-> i, next |-> Len(disk'[i].hist) + 1]
                      ELSE Closed]
    BY DEF OpenFile
  <1> HIDE DEF new
  <1>4. /\ disk' \in [Inode -> DiskRow] /\ disk'[i] = new
        /\ \A j \in 1 .. used : disk'[j] = disk[j] /\ j # i
    <2>1. \A j \in 1 .. used : j \in Inode /\ j # i
      BY <1>0, FilesExist
    <2> QED BY <1>1, <1>2, <1>3, <2>1
  <1>5. opener' = [opener EXCEPT ![o] = rec]
    BY <1>3, <1>4
  <1>6. /\ rec \in OpenerRow(i) /\ rec.pc \in {"closed", "migrating"}
        /\ rec.pc = "closed" => rec.ino = 0
        /\ rec.pc = "migrating" => rec.ino = i /\ Len(h) <= Latest /\ rec.next = Len(h) + 1
    <2>1. h \in Seq(1 .. Latest + 1) /\ i \in Nat /\ i \in 1 .. i
      BY <1>0, <1>2 DEF DiskRow
    <2> HIDE DEF h, i
    <2> QED BY <2>1, OpenedRecord
  <1> HIDE DEF rec
  <1>7. /\ 0 .. used \subseteq 0 .. i /\ 1 .. used \subseteq 1 .. i
        /\ [Opener -> OpenerRow(used)] \subseteq [Opener -> OpenerRow(i)]
        /\ [Restorer -> RestorerRow(used)] \subseteq [Restorer -> RestorerRow(i)]
        /\ CopierRow(used) \subseteq CopierRow(i)
    <2>1. i \in Nat /\ used <= i
      BY <1>0
    <2> QED BY <1>0, <2>1, RecordsGrow
  <1>8. /\ opener' \in [Opener -> OpenerRow(i)] /\ opener'[o] = rec
        /\ \A p \in Opener : p # o => opener'[p] = opener[p]
    BY <1>1, <1>5, <1>6, <1>7
  <1>9. TypeOK'
    <2>1. i \in 0 .. i
      BY <1>0
    <2>2. restorer' \in [Restorer -> RestorerRow(i)] /\ copier' \in CopierRow(i)
      BY <1>1, <1>7
    <2> HIDE DEF i
    <2> QED BY <1>1, <1>3, <1>4, <1>7, <1>8, <2>1, <2>2, TypeParts, TypePartsNext DEF ghosts
  <1>10. \A p \in Opener : ~IsOpen(p)
    BY DEF OpenersHoldDb
  <1>11. \A p \in Opener : /\ IsOpen(p)' => p = o /\ rec.pc = "migrating"
                           /\ ~IsOpen(p)' => opener'[p].ino = 0
                           /\ opener'[p].pc # "serving"
    BY <1>6, <1>8, <1>10 DEF IsOpen, OpenersHoldDb
  <1>12. i # 0 /\ i \notin 0 .. used
    BY <1>0
  <1>13. Counted' /\ LockHasOwner' /\ LogIsDbs' /\ RestorerAlone' /\ DatabaseIsThere'
    BY <1>3, <1>12 DEF Counted, LockHasOwner, LogIsDbs, RestorerAlone, Restoring, DatabaseIsThere
  <1>14. OpenersHoldDb'
    BY <1>3, <1>6, <1>8, <1>11, <1>12 DEF OpenersHoldDb
  <1>15. \A r \in Restorer : restorer[r].pc \notin Copied \cup {"locked"}
    BY <1>1 DEF Restoring, Copied, RestorerRow
  <1>16. PathsDiffer' /\ RestoreOnTrack'
    <2>1. i \notin rollbacks /\ i # backup /\ copier.tmp # i
      BY <1>0, <1>1, <1>12 DEF CopierRow
    <2> HIDE DEF i
    <2> QED BY <1>3, <1>15, <2>1 DEF PathsDiffer, RestoreOnTrack, Copied
  <1>17. BackupOnTrack'
    BY <1>4, TrackedFilesExist DEF BackupOnTrack, ghosts
  <1>18. RowsKept'
    BY <1>1, <1>4 DEF RowsKept, ghosts
  <1>19. PublishedFilesAreWhole'
    <2>1. \A j \in ({db', backup} \cup rollbacks) \ {0} :
              j = i \/ (j \in 1 .. used /\ j \in ({db, backup} \cup rollbacks) \ {0})
      BY <1>1, <1>3, FilesExist
    <2> QED BY <1>2, <1>4, <2>1 DEF PublishedFilesAreWhole
  <1>20. HistoryIsPrefix'
    <2>1. \A j \in 1 .. i : j \in 1 .. used \/ j = i
      BY <1>0
    <2> HIDE DEF i
    <2> QED BY <1>2, <1>3, <1>4, <1>11, <2>1 DEF HistoryIsPrefix
  <1>21. MigrationsInOrder'
    <2>1. rec.pc = "migrating" => Len(h) <= Latest /\ rec.next \in 1 .. (Len(h) + 1)
      BY <1>2, <1>6
    <2> QED BY <1>3, <1>4, <1>8, <1>11, <2>1 DEF MigrationsInOrder
  <1> QED
    BY <1>9, <1>13, <1>14, <1>16, <1>17, <1>18, <1>19, <1>20, <1>21

\* A server that saw no lock, and an importer, open the database.
LEMMA OpenStep ==
  ASSUME Overlap = FALSE, MaintInv, NEW o \in Opener, OpenServer(o) \/ OpenImporter(o)
  PROVE  MaintInv'
  <1>1. /\ ~IsOpen(o) /\ OpenFile(o) /\ starts' \in Nat
        /\ UNCHANGED <<backup, rollbacks, lock, restorer, copier, ghosts, kills, faults>>
    BY CountersGrow DEF OpenServer, OpenImporter, IsOpen, Starting, MaintInv, Counted
  <1>2. \A r \in Restorer : ~Restoring(r)
    <2>1. CASE OpenServer(o)
      BY <2>1, NoRestore DEF OpenServer
    <2>2. CASE OpenImporter(o)
      BY <2>2 DEF OpenImporter, NoRestoreRuns
    <2> QED BY <2>1, <2>2
  <1> QED BY <1>1, <1>2, OpenExisting, OpenMissing
-----------------------------------------------------------------------------
(* The theorems.                                                           *)

\* The database as it was found, with or without a log and an earlier backup.
LEMMA MaintInit ==
  Init => MaintInv
  <1> SUFFICES ASSUME Init PROVE MaintInv
    OBVIOUS
  <1>0. /\ Latest \in Nat /\ 0 \in 0 .. Latest + 1 /\ Latest \in 0 .. Latest + 1
        /\ Latest + 1 \in 0 .. Latest + 1 /\ 1 \in Inode /\ 2 \in Inode
    BY MaintenanceAssumption DEF Inode
  <1>1. /\ used = 2 /\ db = 1 /\ walFile = 1 /\ backup \in {0, 2} /\ rollbacks = {} /\ lock = None
        /\ opener = [o \in Opener |-> Closed] /\ restorer = [r \in Restorer |-> Unstarted]
        /\ copier = NoCopy /\ pruned = {} /\ starts = 0 /\ kills = 0 /\ faults = 0
    BY DEF Init
  <1>2. PICK kept \in SUBSET Row, logged \in SUBSET Row, v \in {0, Latest},
             b \in {0, Latest, Latest + 1} :
            /\ disk = [i \in Inode |->
                         IF i = 1 THEN [Database(kept, v) EXCEPT !.cur = kept \cup logged]
                                  ELSE Database({}, IF i = 2 THEN b ELSE 0)]
            /\ acked = kept \cup logged
    BY DEF Init
  <1> DEFINE first == [Database(kept, v) EXCEPT !.cur = kept \cup logged]
  <1>3. /\ first \in DiskRow /\ first.cur = kept \cup logged /\ first.hist = History(v)
        /\ first.whole
    <2>1. /\ Database(kept, v) \in DiskRow /\ Database(kept, v).hist = History(v)
          /\ Database(kept, v).whole
      BY <1>0, DatabaseIsRow
    <2> QED BY <2>1 DEF DiskRow
  <1>4. \A n \in {0, b} : /\ Database({}, n) \in DiskRow /\ Database({}, n).hist = History(n)
                          /\ Database({}, n).whole
    BY <1>0, DatabaseIsRow
  <1>5. disk = [i \in Inode |-> IF i = 1 THEN first ELSE Database({}, IF i = 2 THEN b ELSE 0)]
    BY <1>2
  <1> HIDE DEF first
  <1>6. /\ disk \in [Inode -> DiskRow] /\ disk[1] = first /\ disk[2] = Database({}, b)
    BY <1>0, <1>3, <1>4, <1>5
  <1>7. \A n \in {0, Latest, Latest + 1} : Len(History(n)) = n
    BY <1>0, HistoryIsSeq
  <1>8. /\ \A o \in Opener : opener[o].pc = "closed" /\ opener[o].ino = 0
        /\ \A r \in Restorer : restorer[r].pc = "idle"
        /\ copier.pc = "idle"
    BY <1>1 DEF Closed, Unstarted, NoCopy
  <1>9. /\ opener \in [Opener -> OpenerRow(used)] /\ restorer \in [Restorer -> RestorerRow(used)]
        /\ copier \in CopierRow(used)
    <2>1. Closed \in OpenerRow(2)
      BY <1>0 DEF Closed, OpenerRow
    <2>2. Unstarted \in RestorerRow(2)
      BY DEF Unstarted, RestorerRow
    <2>3. NoCopy \in CopierRow(2)
      BY DEF NoCopy, CopierRow
    <2> QED BY <1>1, <2>1, <2>2, <2>3
  <1>10. TypeOK
    <2>1. used \in Inode /\ {db, backup, walFile} \subseteq 0 .. used /\ rollbacks \subseteq 1 .. used
      BY <1>0, <1>1
    <2>2. lock \in Restorer \cup {None} /\ acked \subseteq Row /\ pruned \subseteq Row
      BY <1>1, <1>2
    <2> QED BY <1>6, <1>9, <2>1, <2>2, TypeParts
  <1>11. Counted /\ RestorerAlone /\ LockHasOwner /\ OpenersHoldDb /\ MigrationsInOrder
    BY <1>1, <1>8 DEF Counted, RestorerAlone, Restoring, LockHasOwner, OpenersHoldDb, IsOpen,
                      MigrationsInOrder
  <1>12. LogIsDbs /\ PathsDiffer /\ RestoreOnTrack /\ BackupOnTrack /\ DatabaseIsThere
    BY <1>1, <1>8 DEF LogIsDbs, PathsDiffer, RestoreOnTrack, BackupOnTrack, DatabaseIsThere, Copied
  <1>13. HistoryIsPrefix
    <2>1. \A i \in 1 .. used : i \in {1, 2}
      BY <1>1
    <2>2. \A i \in {1, 2} : disk[i].hist = History(Len(disk[i].hist))
      BY <1>3, <1>4, <1>6, <1>7
    <2> QED BY <1>8, <2>1, <2>2 DEF HistoryIsPrefix
  <1>14. RowsKept /\ PublishedFilesAreWhole
    <2>1. RowsKept
      BY <1>1, <1>2, <1>3, <1>6 DEF RowsKept
    <2>2. PublishedFilesAreWhole
      <3>1. \A i \in ({db, backup} \cup rollbacks) \ {0} : i \in {1, 2}
        BY <1>1
      <3>2. disk[1].whole /\ disk[2].whole
        BY <1>3, <1>4, <1>6
      <3> QED BY <3>1, <3>2 DEF PublishedFilesAreWhole
    <2> QED BY <2>1, <2>2
  <1> QED BY <1>10, <1>11, <1>12, <1>13, <1>14 DEF MaintInv

\* Every step of every process keeps the invariant.
LEMMA MaintStep ==
  ASSUME Overlap = FALSE, MaintInv, [Next]_vars
  PROVE  MaintInv'
  <1>1. CASE UNCHANGED vars
    BY <1>1, NothingStep DEF vars, files, ghosts, MaintInv, Counted
  <1>2. ASSUME NEW s \in Server, CheckLock(s) \/ OpenServer(s) PROVE MaintInv'
    BY <1>2, CheckLockStep, OpenStep DEF Opener
  <1>3. ASSUME NEW o \in Importer, OpenImporter(o) PROVE MaintInv'
    BY <1>3, OpenStep DEF Opener
  <1>4. ASSUME NEW o \in Opener,
               \/ Migrate(o) \/ MigrationConflicts(o) \/ MigrationFails(o)
               \/ Ready(o) \/ Stop(o) \/ KillOpener(o)
               \/ \E x \in Row : Insert(o, x)
        PROVE  MaintInv'
    BY <1>4, MigrateStep, CloseStep, ReadyStep, KillOpenerStep, InsertStep
  <1>5. CASE prune
    BY <1>5, PruneStep
  <1>6. CASE \/ \E force \in BOOLEAN : create_backup(force)
             \/ TakeSnapshot \/ PublishSnapshot \/ KillCopier
    BY <1>6, CopierStep, SnapshotStep, PublishStep
  <1>7. ASSUME NEW r \in Restorer,
               \/ acquire_maintenance_lock(r) \/ RestoreRefused(r) \/ copy_excl(r) \/ VerifyFails(r)
               \/ prepare_existing_database(r) \/ RemoveSidecars(r) \/ MoveAside(r)
               \/ swap_in(r) \/ UndoSwap(r) \/ KillRestorer(r)
        PROVE  MaintInv'
    BY <1>7, AcquireStep, StoppedStep, CopyStep, PrepareStep, SidecarsStep, MoveAsideStep,
       SwapInStep, UndoSwapStep
  <1>8. CASE RemoveDeadLock
    BY <1>8, DeadLockStep
  <1> QED BY <1>1, <1>2, <1>3, <1>4, <1>5, <1>6, <1>7, <1>8 DEF Next

\* With nothing writing while a restore runs, as the README's "Stop the server for
\* the confirmed operation" asks: the files, the
\* connections and the steps of a restore and of a backup fit together in every state.
THEOREM MaintInvariant ==
  ASSUME Overlap = FALSE
  PROVE  Spec => []MaintInv
  <1>1. Init => MaintInv
    BY MaintInit
  <1>2. MaintInv /\ [Next]_vars => MaintInv'
    BY MaintStep
  <1> QED BY <1>1, <1>2, PTL DEF Spec

\* A stored row that was not pruned on request is never lost by open_db, create_backup or
\* restore_with, whichever steps of them fail or are cut short by a kill.
THEOREM RowsAreKept ==
  ASSUME Overlap = FALSE
  PROVE  Spec => []RowsKept
  <1>1. MaintInv => RowsKept
    BY DEF MaintInv
  <1> QED BY <1>1, MaintInvariant, PTL

\* No path restore_with or create_backup publishes holds a half-written file, the database path is
\* empty only after a kill or a failed undo, a finished backup has all that was stored when it
\* began, and run_migrations leaves every history without a gap.
THEOREM FilesStayWhole ==
  ASSUME Overlap = FALSE
  PROVE  Spec => []FilesAreWhole
  <1>1. MaintInv => FilesAreWhole
    BY DEF MaintInv, FilesAreWhole, BackupIsCurrent, BackupOnTrack
  <1> QED BY <1>1, MaintInvariant, PTL

\* From acquire_maintenance_lock to its end a restore owns the lock and nobody else restores or
\* serves, and a lock that remains belongs to a running or a killed restore.
THEOREM RestoreRunsAlone ==
  ASSUME Overlap = FALSE
  PROVE  Spec => []RestoreIsAlone
  <1>1. MaintInv => RestoreIsAlone
    <2>1. MaintInv => RestoreIsExclusive
      BY DEF MaintInv, RestoreIsExclusive, RestorerAlone, IsOpen, Opener
    <2> QED BY <2>1 DEF MaintInv, RestoreIsAlone
  <1> QED BY <1>1, MaintInvariant, PTL
=============================================================================
