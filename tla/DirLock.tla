------------------------------- MODULE DirLock -------------------------------
(***************************************************************************)
(* The directory lock of the agent (agent/src/lock.ts) and the loop that   *)
(* waits for it (acquireLockForJob in agent/src/sync.ts).                  *)
(*                                                                         *)
(* Runs of several agent processes want the lock of one source directory.  *)
(* The lock is a file, <dir>/_syncdata_/lock, with the owner's PID and its *)
(* start time.  Every file-system call is a step of its own: the read, the *)
(* unlink of a lock judged dead, the exclusive create, and the write of    *)
(* its content, which is not atomic with the create.                       *)
(***************************************************************************)
EXTENDS Integers

CONSTANTS
    Runs,             \* sync runs that use the directory, now or later
    Processes,        \* agent processes, that is PIDs
    ProcessOf,        \* run -> the process it runs in
    HostOf,           \* process -> the host it runs on
    STALE_LOCK_AGE,   \* STALE_LOCK_AGE_MS, in ticks
    LongRuns,         \* a live run may outlast the stale age
    Crashable,        \* processes that may die
    None

ASSUME ConfigAssumption ==
    /\ ProcessOf \in [Runs -> Processes]
    /\ STALE_LOCK_AGE \in Nat
    /\ LongRuns \in BOOLEAN
    /\ Crashable \subseteq Processes

Lock == [owner : Runs, age : 0..STALE_LOCK_AGE, written : BOOLEAN]

ASSUME NoneAssumption == None \notin Lock

VARIABLES
    lock,      \* the lock file, or None
    pc,        \* where each run is in acquireLock and releaseLock
    alive,     \* the processes that have not died
    takeover   \* history: a run in possession of the lock lost its file

vars == <<lock, pc, alive, takeover>>

TypeOK ==
    /\ lock \in Lock \cup {None}
    /\ pc \in [Runs -> {"idle", "read", "unlink", "create", "write", "held", "dead"}]
    /\ alive \subseteq Processes
    /\ takeover \in BOOLEAN

Init ==
    /\ lock = None
    /\ pc = [r \in Runs |-> "idle"]
    /\ alive = Processes
    /\ takeover = FALSE

\* Between the exclusive create and the release the run owns the directory.
Owns(r) == pc[r] \in {"write", "held"}

-----------------------------------------------------------------------------

\* acquireLockForJob starts, or tries again before its deadline.
Start(r) ==
    /\ pc[r] = "idle"
    /\ pc' = [pc EXCEPT ![r] = "read"]
    /\ UNCHANGED <<lock, alive, takeover>>

\* What process.kill(pid, 0) may tell r of the owner's process: the PID of
\* another host may or may not exist on this one.
isPidAlive(r, owner) ==
    {seen \in BOOLEAN : HostOf[owner] = HostOf[ProcessOf[r]] => seen = (owner \in alive)}

\* readFile finds no file; the directory looks free.
ReadNothing(r) ==
    /\ pc[r] = "read" /\ lock = None
    /\ pc' = [pc EXCEPT ![r] = "create"]
    /\ UNCHANGED <<lock, alive, takeover>>

\* The content is not there yet: JSON.parse throws and the attempt fails.
ReadEmpty(r) ==
    /\ pc[r] = "read" /\ lock # None /\ ~lock.written
    /\ pc' = [pc EXCEPT ![r] = "idle"]
    /\ UNCHANGED <<lock, alive, takeover>>

\* Mutant: a lock is removed only when it is dead and old.
ReadLock_DeadAndOld(r) ==
    /\ pc[r] = "read" /\ lock # None /\ lock.written
    /\ \E seen \in isPidAlive(r, ProcessOf[lock.owner]) :
          pc' = [pc EXCEPT ![r] = IF seen \/ lock.age < STALE_LOCK_AGE
                                  THEN "idle" ELSE "unlink"]
    /\ UNCHANGED <<lock, alive, takeover>>

\* A live and recent lock fails the attempt, any other will be removed.
ReadLock(r) ==
    /\ pc[r] = "read" /\ lock # None /\ lock.written
    /\ \E seen \in isPidAlive(r, ProcessOf[lock.owner]) :
          pc' = [pc EXCEPT ![r] = IF seen /\ lock.age < STALE_LOCK_AGE
                                  THEN "idle" ELSE "unlink"]
    /\ UNCHANGED <<lock, alive, takeover>>

\* unlink removes whatever file is there by now; a missing one is no error.
Unlink(r) ==
    /\ pc[r] = "unlink"
    /\ lock' = None
    /\ pc' = [pc EXCEPT ![r] = "create"]
    /\ takeover' = (takeover \/ (lock # None /\ Owns(lock.owner)))
    /\ UNCHANGED alive

\* Mutant: the plain 'w' flag replaces a file that is there.
Create_Overwrites(r) ==
    /\ pc[r] = "create"
    /\ lock' = [owner |-> r, age |-> 0, written |-> FALSE]
    /\ pc' = [pc EXCEPT ![r] = "write"]
    /\ UNCHANGED <<alive, takeover>>

\* Mutant: startedAt is left at zero.
Create_NoStartedAt(r) ==
    /\ pc[r] = "create" /\ lock = None
    /\ lock' = [owner |-> r, age |-> STALE_LOCK_AGE + 1, written |-> FALSE]
    /\ pc' = [pc EXCEPT ![r] = "write"]
    /\ UNCHANGED <<alive, takeover>>

\* writeFile with 'wx' creates the file, or fails if there is one.
Create(r) ==
    /\ pc[r] = "create"
    /\ IF lock = None
       THEN /\ lock' = [owner |-> r, age |-> 0, written |-> FALSE]
            /\ pc' = [pc EXCEPT ![r] = "write"]
       ELSE /\ pc' = [pc EXCEPT ![r] = "idle"]
            /\ UNCHANGED lock
    /\ UNCHANGED <<alive, takeover>>

\* The content goes to the file the run created, unlinked or not.
Write(r) ==
    /\ pc[r] = "write"
    /\ lock' = IF lock # None /\ lock.owner = r THEN [lock EXCEPT !.written = TRUE] ELSE lock
    /\ pc' = [pc EXCEPT ![r] = "held"]
    /\ UNCHANGED <<alive, takeover>>

\* releaseLock unlinks whatever lock is there.
Release(r) ==
    /\ pc[r] = "held"
    /\ lock' = None
    /\ pc' = [pc EXCEPT ![r] = "idle"]
    /\ takeover' = (takeover \/ (lock # None /\ lock.owner # r /\ Owns(lock.owner)))
    /\ UNCHANGED alive

\* A process dies with its runs; its lock file stays.
Crash(p) ==
    /\ p \in alive \cap Crashable
    /\ alive' = alive \ {p}
    /\ pc' = [r \in Runs |-> IF ProcessOf[r] = p THEN "dead" ELSE pc[r]]
    /\ UNCHANGED <<lock, takeover>>

Tick ==
    /\ lock # None /\ lock.age < STALE_LOCK_AGE
    /\ LongRuns \/ ~Owns(lock.owner)
    /\ lock' = [lock EXCEPT !.age = @ + 1]
    /\ UNCHANGED <<pc, alive, takeover>>

Acquire(r) == \/ ReadNothing(r) \/ ReadEmpty(r) \/ ReadLock(r)
              \/ Unlink(r) \/ Create(r) \/ Write(r)

Next == \/ \E r \in Runs : Start(r) \/ Acquire(r) \/ Release(r)
        \/ \E p \in Processes : Crash(p)
        \/ Tick

Spec == Init /\ [][Next]_vars

\* Live runs keep trying and a sync ends; time passes.
Fairness == /\ \A r \in Runs : WF_vars(Start(r)) /\ WF_vars(Acquire(r)) /\ WF_vars(Release(r))
            /\ WF_vars(Tick)
FairSpec == Spec /\ Fairness

-----------------------------------------------------------------------------
(* Properties. *)

\* lock.ts promises that no two runs sync the directory at the same time.
MutualExclusion ==
    \A r1, r2 \in Runs : pc[r1] = "held" /\ pc[r2] = "held" => r1 = r2

\* Two runs overlap only after one in possession of the lock lost its file: the
\* exclusive create is enough by itself, and a run that lost nothing releases
\* nobody else's lock (acquireLock, releaseLock).
OverlapNeedsTakeover == takeover \/ MutualExclusion

\* As long as no run lost its file, a release removes the releasing run's lock
\* (releaseLock unlinks without looking).
ReleaseRemovesOwnLock ==
    [][\A r \in Runs : pc[r] = "held" /\ pc'[r] = "idle" /\ ~takeover
          => lock # None /\ lock.owner = r]_vars

\* The lock of a dead process that got its content is removed in the end, also
\* when the process was another host's (the PID check, and the stale age).  One
\* that was left empty is not: it does not parse, and that error is thrown on.
WrittenDeadLockIsReclaimed ==
    \A r \in Runs :
        lock # None /\ lock.owner = r /\ lock.written /\ pc[r] = "dead"
            ~> lock = None \/ lock.owner # r
=============================================================================
