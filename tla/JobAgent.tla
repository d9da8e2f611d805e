------------------------------- MODULE JobAgent -------------------------------
(***************************************************************************)
(* The job queue of one agent process (agent/src/index.ts): handleJobRun,  *)
(* the job:cancel handler and executeJob, over the p-limit queue jobLimit. *)
(*                                                                         *)
(* p-limit keeps the closures it was given in order and runs as many at a  *)
(* time as it has slots.  Taking a job out of queuedJobs leaves its        *)
(* closure in the limiter, which may start after a later job:run put the   *)
(* job back.  A closure reports on the connection its job:run came by.     *)
(***************************************************************************)
EXTENDS Naturals, Sequences

CONSTANTS
    Jobs,                \* the jobs the hub may send
    Conns,               \* WebSocket connections of the agent, now or later
    DEFAULT_CONCURRENCY, \* the number of slots of jobLimit
    MaxWaiting,          \* bound: closures waiting in jobLimit
    None

ASSUME AgentAssumption == /\ DEFAULT_CONCURRENCY \in Nat \ {0}
                          /\ MaxWaiting \in Nat

Slots   == 1..DEFAULT_CONCURRENCY
Closure == [job : Jobs, ws : Conns]

ASSUME NoneIsNoClosure == None \notin Closure

VARIABLES
    queuedJobs,   \* jobs accepted and not started
    runningJobs,  \* jobs with an AbortController
    abortedJobs,  \* those whose controller was aborted
    waiting,      \* closures jobLimit has not started
    slots         \* closures jobLimit runs, or None

agentVars == <<queuedJobs, runningJobs, abortedJobs, waiting, slots>>

AgentTypeOK ==
    /\ queuedJobs \subseteq Jobs
    /\ runningJobs \subseteq Jobs
    /\ abortedJobs \subseteq runningJobs
    /\ waiting \in Seq(Closure)
    /\ slots \in [Slots -> Closure \cup {None}]

AgentInit ==
    /\ queuedJobs = {} /\ runningJobs = {} /\ abortedJobs = {}
    /\ waiting = <<>>
    /\ slots = [s \in Slots |-> None]

Known(j) == j \in queuedJobs \/ j \in runningJobs

-----------------------------------------------------------------------------

\* Mutant: a running job is queued again.
HandleJobRun_OnlyQueued(j, c) ==
    /\ Len(waiting) < MaxWaiting \/ Known(j)
    /\ IF j \in queuedJobs
       THEN UNCHANGED <<queuedJobs, waiting>>
       ELSE /\ queuedJobs' = queuedJobs \cup {j}
            /\ waiting' = Append(waiting, [job |-> j, ws |-> c])
    /\ UNCHANGED <<runningJobs, abortedJobs, slots>>

\* Mutant: a new job:run is only noted, on the closure of an earlier one.
HandleJobRun_NoClosure(j, c) ==
    /\ queuedJobs' = IF Known(j) THEN queuedJobs ELSE queuedJobs \cup {j}
    /\ UNCHANGED <<waiting, runningJobs, abortedJobs, slots>>

\* A job the agent knows already is ignored; nothing is reported for it.
HandleJobRun(j, c) ==
    /\ Len(waiting) < MaxWaiting \/ Known(j)
    /\ IF Known(j)
       THEN UNCHANGED <<queuedJobs, waiting>>
       ELSE /\ queuedJobs' = queuedJobs \cup {j}
            /\ waiting' = Append(waiting, [job |-> j, ws |-> c])
    /\ UNCHANGED <<runningJobs, abortedJobs, slots>>

\* job:cancel of a job in the queue: reported as cancelled at once.
CancelQueued(j) ==
    /\ j \in queuedJobs
    /\ queuedJobs' = queuedJobs \ {j}
    /\ UNCHANGED <<runningJobs, abortedJobs, waiting, slots>>

\* job:cancel of a job that runs; of a job the agent does not know, nothing.
CancelRunning(j) ==
    /\ j \notin queuedJobs
    /\ abortedJobs' = IF j \in runningJobs THEN abortedJobs \cup {j} ELSE abortedJobs
    /\ UNCHANGED <<queuedJobs, runningJobs, waiting, slots>>

\* executeJob starts in a free slot, while its job is still in the queue.
StartJob(s) ==
    /\ slots[s] = None /\ waiting # <<>> /\ Head(waiting).job \in queuedJobs
    /\ waiting' = Tail(waiting)
    /\ slots' = [slots EXCEPT ![s] = Head(waiting)]
    /\ queuedJobs' = queuedJobs \ {Head(waiting).job}
    /\ runningJobs' = runningJobs \cup {Head(waiting).job}
    /\ UNCHANGED abortedJobs

\* executeJob returns at once for a job that was cancelled meanwhile.
SkipClosure ==
    /\ \E s \in Slots : slots[s] = None
    /\ waiting # <<>> /\ Head(waiting).job \notin queuedJobs
    /\ waiting' = Tail(waiting)
    /\ UNCHANGED <<queuedJobs, runningJobs, abortedJobs, slots>>

\* executeJob ends: with a result also after an abort, otherwise as cancelled
\* if it was aborted and as an error if not.
EndJob(s, outcome) ==
    /\ slots[s] # None
    /\ outcome = "cancelled" => slots[s].job \in abortedJobs
    /\ outcome = "error" => slots[s].job \notin abortedJobs
    /\ slots' = [slots EXCEPT ![s] = None]
    /\ runningJobs' = runningJobs \ {slots[s].job}
    /\ abortedJobs' = abortedJobs \ {slots[s].job}
    /\ UNCHANGED <<queuedJobs, waiting>>

Outcomes == {"completed", "cancelled", "error"}

\* The process dies and starts afresh.
RestartAgent ==
    /\ queuedJobs' = {} /\ runningJobs' = {} /\ abortedJobs' = {}
    /\ waiting' = <<>>
    /\ slots' = [s \in Slots |-> None]

AgentNext ==
    \/ \E j \in Jobs : \/ \E c \in Conns : HandleJobRun(j, c)
                       \/ CancelQueued(j)
                       \/ CancelRunning(j)
    \/ \E s \in Slots : StartJob(s) \/ \E outcome \in Outcomes : EndJob(s, outcome)
    \/ SkipClosure
    \/ RestartAgent

AgentSpec == AgentInit /\ [][AgentNext]_agentVars

\* The limiter starts what it can, and a sync ends.
AgentFairness == /\ WF_agentVars(SkipClosure \/ \E s \in Slots : StartJob(s))
                 /\ \A s \in Slots : WF_agentVars(\E outcome \in Outcomes : EndJob(s, outcome))
FairAgentSpec == AgentSpec /\ AgentFairness

-----------------------------------------------------------------------------
(* Properties. *)

Executing(j) == {s \in Slots : slots[s] # None /\ slots[s].job = j}

\* The agent never runs a job twice at the same time, whatever is cancelled and
\* sent again while closures of earlier requests are still in the limiter; and
\* every job that runs can be cancelled (queuedJobs.has in executeJob).
OneExecution ==
    /\ \A s, t \in Slots : slots[s] # None /\ slots[t] # None /\ slots[s].job = slots[t].job => s = t
    /\ \A j \in Jobs : j \in runningJobs <=> Executing(j) # {}

\* A job in the queue has a closure that will start it (handleJobRun adds both,
\* a cancellation takes the job out and leaves the closure).
QueuedHasClosure ==
    \A j \in queuedJobs : \E i \in 1..Len(waiting) : waiting[i].job = j

\* A job in the queue starts or leaves it, behind any stale closures.
QueuedJobLeavesQueue == \A j \in Jobs : j \in queuedJobs ~> j \notin queuedJobs
=============================================================================
