---------------------------- MODULE DirLockProofs ----------------------------
(***************************************************************************)
(* What the directory lock guarantees for any runs, processes and hosts.   *)
(* Exclusive: as long as no run in possession of the lock lost its file,   *)
(* the file there is the possessor's, so that there is one at most.        *)
(* Undisturbed: where no process dies, no run outlasts the stale age and   *)
(* all processes share a host, no run ever loses its file.                 *)
(***************************************************************************)
EXTENDS DirLock, TLAPS

Exclusive == ~takeover => \A r \in Runs : Owns(r) => lock # None /\ lock.owner = r

OverlapInv == TypeOK /\ Exclusive

\* The lock and every pc keep their type through a read (acquireLock).
LEMMA ReadTyped ==
    ASSUME TypeOK, NEW r \in Runs,
           ReadNothing(r) \/ ReadEmpty(r) \/ ReadLock(r)
    PROVE  /\ TypeOK'
           /\ UNCHANGED <<lock, alive, takeover>>
           /\ pc[r] = "read"
           /\ \E next \in {"idle", "unlink", "create"} : pc' = [pc EXCEPT ![r] = next]
BY DEF TypeOK, ReadNothing, ReadEmpty, ReadLock

\* What the exclusive create leaves is a lock (acquireLock).
LEMMA NewLockTyped ==
    ASSUME NEW r \in Runs
    PROVE  [owner |-> r, age |-> 0, written |-> FALSE] \in Lock
BY ConfigAssumption DEF Lock

\* A lock that grows older stays its owner's (age in acquireLock).
LEMMA TickedLockTyped ==
    ASSUME TypeOK, Tick
    PROVE  lock' \in Lock /\ lock'.owner = lock.owner
BY ConfigAssumption DEF TypeOK, Tick, Lock

\* Every step of the lock keeps the lock file and the runs well formed.
LEMMA TypeStep == ASSUME TypeOK, [Next]_vars PROVE TypeOK'
<1>1. ASSUME NEW r \in Runs, Start(r) PROVE TypeOK'
  BY <1>1 DEF TypeOK, Start
<1>2. ASSUME NEW r \in Runs, Acquire(r) PROVE TypeOK'
  <2>1. CASE ReadNothing(r) \/ ReadEmpty(r) \/ ReadLock(r)
    BY <2>1, ReadTyped
  <2>2. CASE Unlink(r)
    BY <2>2 DEF TypeOK, Unlink
  <2>3. CASE Create(r)
    <3>1. lock' \in Lock \cup {None}
      BY <2>3, NewLockTyped DEF TypeOK, Create
    <3>2. pc' \in [Runs -> {"idle", "read", "unlink", "create", "write", "held", "dead"}]
      BY <2>3 DEF TypeOK, Create
    <3> QED BY <2>3, <3>1, <3>2 DEF TypeOK, Create
  <2>4. CASE Write(r)
    BY <2>4 DEF TypeOK, Write, Lock
  <2> QED BY <1>2, <2>1, <2>2, <2>3, <2>4 DEF Acquire
<1>3. ASSUME NEW r \in Runs, Release(r) PROVE TypeOK'
  BY <1>3 DEF TypeOK, Release
<1>4. ASSUME NEW p \in Processes, Crash(p) PROVE TypeOK'
  BY <1>4 DEF TypeOK, Crash
<1>5. CASE Tick
  BY <1>5, TickedLockTyped DEF TypeOK, Tick
<1>6. CASE UNCHANGED vars
  BY <1>6 DEF TypeOK, vars
<1> QED BY <1>1, <1>2, <1>3, <1>4, <1>5, <1>6 DEF Next

\* The lock file, when there is one, is a lock of one of the runs, and every run
\* is at a step of acquireLock or releaseLock.
THEOREM TypeCorrect == Spec => []TypeOK
<1>1. Init => TypeOK
  BY DEF Init, TypeOK
<1>2. TypeOK /\ [Next]_vars => TypeOK'
  BY TypeStep
<1> QED BY <1>1, <1>2, PTL DEF Spec

\* A run comes into possession by the exclusive create only, and loses its file
\* to an unlink or a release of another run, which history remembers.
LEMMA ExclusiveStep == ASSUME OverlapInv, [Next]_vars PROVE Exclusive'
<1> USE DEF OverlapInv, Exclusive, Owns
<1>1. ASSUME NEW r \in Runs, Start(r) PROVE Exclusive'
  BY <1>1 DEF TypeOK, Start
<1>2. ASSUME NEW r \in Runs, Acquire(r) PROVE Exclusive'
  <2>1. CASE ReadNothing(r) \/ ReadEmpty(r) \/ ReadLock(r)
    BY <2>1, ReadTyped DEF TypeOK
  <2>2. CASE Unlink(r)
    BY <2>2 DEF TypeOK, Unlink, Lock
  <2>3. CASE Create(r)
    <3>1. CASE lock = None
      <4>1. lock' # None /\ lock'.owner = r
        BY <2>3, <3>1, NewLockTyped, NoneAssumption DEF Create
      <4> QED BY <2>3, <3>1, <4>1 DEF TypeOK, Create
    <3>2. CASE lock # None
      BY <2>3, <3>2 DEF TypeOK, Create
    <3> QED BY <3>1, <3>2
  <2>4. CASE Write(r)
    BY <2>4, NoneAssumption DEF TypeOK, Write, Lock
  <2> QED BY <1>2, <2>1, <2>2, <2>3, <2>4 DEF Acquire
<1>3. ASSUME NEW r \in Runs, Release(r) PROVE Exclusive'
  BY <1>3 DEF TypeOK, Release, Lock
<1>4. ASSUME NEW p \in Processes, Crash(p) PROVE Exclusive'
  BY <1>4 DEF TypeOK, Crash
<1>5. CASE Tick
  BY <1>5, TickedLockTyped, NoneAssumption DEF Tick
<1>6. CASE UNCHANGED vars
  BY <1>6 DEF vars
<1> QED BY <1>1, <1>2, <1>3, <1>4, <1>5, <1>6 DEF Next

\* The inductive invariant behind the two theorems that follow it.
LEMMA OverlapInvHolds == Spec => []OverlapInv
<1>1. Init => OverlapInv
  BY DEF Init, OverlapInv, TypeOK, Exclusive, Owns
<1>2. OverlapInv /\ [Next]_vars => OverlapInv'
  BY TypeStep, ExclusiveStep DEF OverlapInv
<1> QED BY <1>1, <1>2, PTL DEF Spec

\* Two runs sync one directory together only after a run in possession of the
\* lock had its file taken away: the exclusive create suffices otherwise.
THEOREM OverlapOnlyByTakeover == Spec => []OverlapNeedsTakeover
<1>1. OverlapInv => OverlapNeedsTakeover
  BY DEF OverlapInv, Exclusive, OverlapNeedsTakeover, MutualExclusion, Owns
<1> QED BY <1>1, OverlapInvHolds, PTL

\* A run that lost nothing removes its own lock, though releaseLock does not look.
THEOREM ReleaseIsOwn == Spec => ReleaseRemovesOwnLock
<1>1. OverlapInv /\ [Next]_vars =>
        [\A r \in Runs : pc[r] = "held" /\ pc'[r] = "idle" /\ ~takeover
            => lock # None /\ lock.owner = r]_vars
  BY DEF OverlapInv, Exclusive, Owns
<1> QED BY <1>1, OverlapInvHolds, PTL DEF Spec, ReleaseRemovesOwnLock

-----------------------------------------------------------------------------
(* Where nothing goes wrong, the lock excludes. *)

Undisturbed == /\ Crashable = {} /\ ~LongRuns /\ STALE_LOCK_AGE > 0
               /\ \A p, q \in Processes : HostOf[p] = HostOf[q]

\* A lock is always its live possessor's and fresh, and nobody is about to
\* remove one.
NoTakeover == /\ ~takeover
              /\ alive = Processes
              /\ \A r \in Runs : pc[r] # "unlink"
              /\ lock # None => lock.age = 0 /\ Owns(lock.owner)

QuietInv == OverlapInv /\ NoTakeover

\* With no dead process and no old lock, no step takes a lock from its run.
LEMMA NoTakeoverStep ==
    ASSUME Undisturbed, QuietInv, [Next]_vars PROVE NoTakeover'
<1> USE DEF QuietInv, OverlapInv, NoTakeover, Owns
<1>1. ASSUME NEW r \in Runs, Start(r) PROVE NoTakeover'
  BY <1>1 DEF TypeOK, Lock, Start
<1>2. ASSUME NEW r \in Runs, Acquire(r) PROVE NoTakeover'
  <2>1. CASE ReadNothing(r) \/ ReadEmpty(r)
    BY <2>1 DEF TypeOK, Lock, ReadNothing, ReadEmpty
  <2>2. CASE ReadLock(r)
    <3>1. lock.owner \in Runs /\ ProcessOf[r] \in Processes /\ ProcessOf[lock.owner] \in Processes
      BY <2>2, ConfigAssumption DEF ReadLock, TypeOK, Lock
    <3>2. HostOf[ProcessOf[lock.owner]] = HostOf[ProcessOf[r]] /\ ProcessOf[lock.owner] \in alive
      BY <3>1 DEF Undisturbed
    <3>3. \A seen \in isPidAlive(r, ProcessOf[lock.owner]) : seen
      BY <3>2, Zenon DEF isPidAlive
    <3>4. lock.age < STALE_LOCK_AGE
      BY <2>2 DEF ReadLock, Undisturbed
    <3>5. pc' = [pc EXCEPT ![r] = "idle"] /\ UNCHANGED <<lock, alive, takeover>>
      BY <2>2, <3>3, <3>4, Zenon DEF ReadLock
    <3> QED BY <3>1, <3>5, <2>2 DEF TypeOK, ReadLock
  <2>3. CASE Unlink(r)
    BY <2>3 DEF Unlink
  <2>4. CASE Create(r)
    BY <2>4 DEF TypeOK, Lock, Create
  <2>5. CASE Write(r)
    BY <2>5 DEF TypeOK, Lock, Write
  <2> QED BY <1>2, <2>1, <2>2, <2>3, <2>4, <2>5 DEF Acquire
<1>3. ASSUME NEW r \in Runs, Release(r) PROVE NoTakeover'
  BY <1>3 DEF TypeOK, Release, Exclusive
<1>4. ASSUME NEW p \in Processes, Crash(p) PROVE NoTakeover'
  BY <1>4 DEF Crash, Undisturbed
<1>5. CASE Tick
  BY <1>5 DEF Tick, Undisturbed
<1>6. CASE UNCHANGED vars
  BY <1>6 DEF vars
<1> QED BY <1>1, <1>2, <1>3, <1>4, <1>5, <1>6 DEF Next

\* On one host, with no crash and no run longer than the stale age, no two runs
\* ever sync the same directory at the same time.
THEOREM UndisturbedExclusion ==
    ASSUME Undisturbed PROVE Spec => []MutualExclusion
<1>1. Init => QuietInv
  BY DEF Init, QuietInv, OverlapInv, NoTakeover, TypeOK, Exclusive, Owns
<1>2. QuietInv /\ [Next]_vars => QuietInv'
  BY TypeStep, ExclusiveStep, NoTakeoverStep DEF QuietInv, OverlapInv
<1>3. QuietInv => MutualExclusion
  BY DEF QuietInv, OverlapInv, Exclusive, NoTakeover, MutualExclusion, Owns
<1> QED BY <1>1, <1>2, <1>3, PTL DEF Spec
=============================================================================
