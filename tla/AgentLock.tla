----------------------------- MODULE AgentLock -----------------------------
(***************************************************************************)
(* The agent.lock pid protocol of crates/stackhour-agent/src/lock.rs.  The *)
(* file is created with O_EXCL and stamped with the creator's pid; a lock  *)
(* whose pid is dead, or that has no pid, is removed and taken.            *)
(*                                                                         *)
(* A file is named by the process that created its inode: a process makes  *)
(* at most one.  Removal is by path, so it removes whichever file is there *)
(* by then.                                                                *)
(***************************************************************************)
EXTENDS FiniteSets

CONSTANTS
    Proc,            \* agent processes, by pid; the system does not reuse one
    NoProc,
    ConcurrentStart  \* may an agent start while another is taking or releasing
                     \* the lock?

ASSUME LockAssumption == NoProc \notin Proc /\ ConcurrentStart \in BOOLEAN

VARIABLES
    file,       \* the inode at the path, NoProc when there is none
    stamped,    \* inodes that hold their creator's pid
    place,      \* where each process is
    may_retry,  \* try_acquire's argument
    owner       \* the pid a process has read from the file

lockVars == <<file, stamped, place, may_retry, owner>>

Acquiring == {"create", "stamp", "exists", "probe", "remove"}
Releasing == {"unlink"}
Gone == {"refused", "exited", "dead"}

LockTypeOK ==
    /\ file \in Proc \cup {NoProc}
    /\ stamped \in SUBSET Proc
    /\ place \in [Proc -> {"new", "held"} \cup Acquiring \cup Releasing \cup Gone]
    /\ may_retry \in [Proc -> BOOLEAN]
    /\ owner \in [Proc -> Proc \cup {NoProc}]

LockInit ==
    /\ file = NoProc /\ stamped = {}
    /\ place = [p \in Proc |-> "new"]
    /\ may_retry = [p \in Proc |-> TRUE]
    /\ owner = [p \in Proc |-> NoProc]

Goto(p, from, to) == place[p] = from /\ place' = [place EXCEPT ![p] = to]

\* The service manager or a user starts an agent.
acquire(p) ==
    /\ Goto(p, "new", "create")
    /\ ConcurrentStart \/ \A q \in Proc : place[q] \notin Acquiring \cup Releasing
    /\ UNCHANGED <<file, stamped, may_retry, owner>>

create_excl(p) ==
    \/ /\ file = NoProc
       /\ Goto(p, "create", "stamp")
       /\ file' = p
       /\ UNCHANGED <<stamped, may_retry, owner>>
    \/ /\ file # NoProc
       /\ Goto(p, "create", "exists")
       /\ UNCHANGED <<file, stamped, may_retry, owner>>

\* The pid goes to the open file, wherever its path is by now.
Stamp(p) ==
    /\ Goto(p, "stamp", "held")
    /\ stamped' = stamped \cup {p}
    /\ UNCHANGED <<file, may_retry, owner>>

\* The write fails: the path is removed and the start given up.
StampFails(p) ==
    /\ Goto(p, "stamp", "exited")
    /\ file' = NoProc
    /\ UNCHANGED <<stamped, may_retry, owner>>

\* What the file at the path says: no file and no pid read the same.
ParsedPid == IF file \in stamped THEN file ELSE NoProc

stored_pid(p) ==
    /\ Goto(p, "exists", "probe")
    /\ owner' = [owner EXCEPT ![p] = ParsedPid]
    /\ UNCHANGED <<file, stamped, may_retry>>

\* Mutants of pid_is_alive: every pid looks dead; every pid looks alive.
pid_is_aliveNever(p) == FALSE
pid_is_aliveAlways(p) == TRUE

pid_is_alive(p) == place[p] \notin Gone \cup {"new"}

\* A live owner refuses the start; a stale lock is removed, once.
Probe(p) ==
    /\ Goto(p, "probe", IF \/ owner[p] # NoProc /\ pid_is_alive(owner[p])
                           \/ ~may_retry[p]
                        THEN "refused" ELSE "remove")
    /\ UNCHANGED <<file, stamped, may_retry, owner>>

RemoveStale(p) ==
    /\ Goto(p, "remove", "create")
    /\ file' = NoProc
    /\ may_retry' = [may_retry EXCEPT ![p] = FALSE]
    /\ UNCHANGED <<stamped, owner>>

\* Only a file that names this process, or nobody, is removed on the way out.
release(p) ==
    /\ place[p] = "held"
    /\ ConcurrentStart \/ \A q \in Proc : place[q] \notin Acquiring
    /\ place' = [place EXCEPT ![p] = IF ParsedPid \in {p, NoProc} THEN "unlink" ELSE "exited"]
    /\ UNCHANGED <<file, stamped, may_retry, owner>>

Unlink(p) ==
    /\ Goto(p, "unlink", "exited")
    /\ file' = NoProc
    /\ UNCHANGED <<stamped, may_retry, owner>>

\* The process is killed at any point; its file stays.
Kill(p) ==
    /\ place[p] \notin Gone \cup {"new"}
    /\ place' = [place EXCEPT ![p] = "dead"]
    /\ UNCHANGED <<file, stamped, may_retry, owner>>

LockNext == \E p \in Proc : \/ acquire(p) \/ create_excl(p) \/ Stamp(p) \/ StampFails(p)
                        \/ stored_pid(p) \/ Probe(p) \/ RemoveStale(p)
                        \/ release(p) \/ Unlink(p) \/ Kill(p)

LockSpec == LockInit /\ [][LockNext]_lockVars

-----------------------------------------------------------------------------
(* Correctness.                                                            *)

\* "The whole point of the lock": two agents never run at once, or every
\* heartbeat would be collected twice.
AtMostOneHolder == \A p, q \in Proc : place[p] = "held" /\ place[q] = "held" => p = q

\* A running agent's own file, with its pid, is at the path: the next start
\* will find it.
HolderOwnsFile == \A p \in Proc : place[p] = "held" => file = p /\ p \in stamped

\* A lock left behind by a killed agent, stamped or not, never refuses a start:
\* only another live agent does.
RefusedOnlyByLive ==
    [][\A p \in Proc : place[p] # "refused" /\ place'[p] = "refused" =>
           \E q \in Proc \ {p} : place[q] = "held"]_lockVars
=============================================================================
