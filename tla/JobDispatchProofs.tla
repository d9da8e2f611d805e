-------------------------- MODULE JobDispatchProofs --------------------------
(***************************************************************************)
(* What the agent's queue guarantees for any jobs, connections, number of  *)
(* slots and order of requests, first for the queue alone.  A job that is  *)
(* queued does not run, so the closure that starts it finds no other       *)
(* execution of it; a job that is queued has a closure, since only the     *)
(* closure's start or a cancellation takes the job out and no closure      *)
(* leaves the limiter with its job queued.                                 *)
(*   Then the composition: it is well typed for any jobs, connections and  *)
(* bounds, and since every step of it is a step of the queue or leaves the *)
(* queue alone, what is proved of the queue alone holds in it too.  Types  *)
(* come first: that a message the agent receives is a step of its queue    *)
(* needs the channels to hold messages about jobs, and those come          *)
(* from activities.  Then comes what the jobs table shows of a run, and    *)
(* last that somebody is at work on every job it shows as active: each     *)
(* step of a handler, a message or the agent passes the job on, to the     *)
(* end report or to the close handler, or history says who lost it.        *)
(***************************************************************************)
EXTENDS JobDispatch, FiniteSetTheorems, SequenceTheorems, TLAPS

(************************** the agent's queue ******************************)

QueuedOrRunning == queuedJobs \cap runningJobs = {}

AgentInv == AgentTypeOK /\ OneExecution /\ QueuedOrRunning

\* What the limiter's first closure and the rest of its queue are.
LEMMA HeadTail ==
    ASSUME AgentTypeOK, waiting # <<>>
    PROVE  /\ Head(waiting) \in Closure /\ Tail(waiting) \in Seq(Closure)
           /\ Head(waiting) # None /\ Head(waiting).job \in Jobs
<1>1. waiting \in Seq(Closure) /\ Len(waiting) \in Nat /\ Len(waiting) # 0
  BY DEF AgentTypeOK
<1>2. Head(waiting) \in Closure /\ Tail(waiting) \in Seq(Closure)
  BY <1>1
<1> QED BY <1>2, NoneIsNoClosure DEF Closure

\* A slot that is in use holds a closure (p-limit).
LEMMA SlotTyped ==
    ASSUME AgentTypeOK, NEW s \in Slots, slots[s] # None
    PROVE  slots[s] \in Closure /\ slots[s].job \in Jobs
BY DEF AgentTypeOK, Closure

\* Every step of the agent's queue keeps it well formed.
LEMMA AgentTypeStep == ASSUME AgentTypeOK, [AgentNext]_agentVars PROVE AgentTypeOK'
<1>1. ASSUME NEW j \in Jobs, NEW c \in Conns, HandleJobRun(j, c) PROVE AgentTypeOK'
  <2>1. [job |-> j, ws |-> c] \in Closure
    BY DEF Closure
  <2> QED BY <1>1, <2>1 DEF HandleJobRun, AgentTypeOK
<1>2. ASSUME NEW j \in Jobs, CancelQueued(j) \/ CancelRunning(j) PROVE AgentTypeOK'
  BY <1>2 DEF CancelQueued, CancelRunning, AgentTypeOK
<1>3. ASSUME NEW s \in Slots, StartJob(s) PROVE AgentTypeOK'
  BY <1>3, HeadTail DEF StartJob, AgentTypeOK
<1>4. ASSUME NEW s \in Slots, NEW outcome \in Outcomes, EndJob(s, outcome) PROVE AgentTypeOK'
  BY <1>4 DEF EndJob, AgentTypeOK
<1>5. CASE SkipClosure
  BY <1>5, HeadTail DEF SkipClosure, AgentTypeOK
<1>6. CASE RestartAgent
  BY <1>6 DEF RestartAgent, AgentTypeOK
<1>7. CASE UNCHANGED agentVars
  BY <1>7 DEF agentVars, AgentTypeOK
<1> QED BY <1>1, <1>2, <1>3, <1>4, <1>5, <1>6, <1>7 DEF AgentNext

\* The agent's maps, its limiter and its slots keep their types.
THEOREM AgentTypeCorrect == AgentSpec => []AgentTypeOK
<1>1. AgentInit => AgentTypeOK
  BY DEF AgentInit, AgentTypeOK
<1>2. AgentTypeOK /\ [AgentNext]_agentVars => AgentTypeOK'
  BY AgentTypeStep
<1> QED BY <1>1, <1>2, PTL DEF AgentSpec

\* Steps that neither start nor end a job leave the executions alone.
LEMMA SameExecutions ==
    ASSUME OneExecution, UNCHANGED <<slots, runningJobs>>
    PROVE  OneExecution'
BY DEF OneExecution, Executing

\* A job starts only where no execution of it is, and each end removes its own.
LEMMA ExecutionStep ==
    ASSUME AgentInv, [AgentNext]_agentVars
    PROVE  OneExecution' /\ QueuedOrRunning'
<1> USE DEF AgentInv
<1>1. ASSUME NEW j \in Jobs, NEW c \in Conns, HandleJobRun(j, c)
      PROVE  OneExecution' /\ QueuedOrRunning'
  BY <1>1, SameExecutions DEF HandleJobRun, Known, QueuedOrRunning
<1>2. ASSUME NEW j \in Jobs, CancelQueued(j) \/ CancelRunning(j)
      PROVE  OneExecution' /\ QueuedOrRunning'
  BY <1>2, SameExecutions DEF CancelQueued, CancelRunning, QueuedOrRunning
<1>3. ASSUME NEW s \in Slots, StartJob(s)
      PROVE  OneExecution' /\ QueuedOrRunning'
  <2> DEFINE job == Head(waiting).job
  <2>1. /\ job \in Jobs /\ job \in queuedJobs /\ job \notin runningJobs
        /\ slots[s] = None /\ Head(waiting) # None
        /\ slots' = [slots EXCEPT ![s] = Head(waiting)]
        /\ runningJobs' = runningJobs \cup {job}
        /\ queuedJobs' = queuedJobs \ {job}
    BY <1>3, HeadTail DEF StartJob, QueuedOrRunning
  <2>2. Executing(job) = {}
    BY <2>1 DEF OneExecution
  <2>3. \A t \in Slots : slots[t] # None => slots[t].job # job
    BY <2>2 DEF Executing
  <2> HIDE DEF job
  <2>4. \A t \in Slots : t # s => slots'[t] = slots[t]
    BY <2>1 DEF AgentTypeOK
  <2>5. slots'[s] # None /\ slots'[s].job = job
    BY <2>1 DEF AgentTypeOK, job
  <2>6. \A t, u \in Slots : slots'[t] # None /\ slots'[u] # None /\ slots'[t].job = slots'[u].job
                                => t = u
    BY <2>3, <2>4, <2>5 DEF OneExecution
  <2>7. \A j \in Jobs : Executing(j)' = IF j = job THEN {s} ELSE Executing(j)
    BY <2>1, <2>3, <2>4, <2>5 DEF Executing
  <2>8. \A j \in Jobs : j \in runningJobs' <=> Executing(j)' # {}
    BY <2>1, <2>7 DEF OneExecution
  <2>9. OneExecution'
    BY <2>6, <2>8 DEF OneExecution
  <2> QED BY <2>1, <2>9 DEF QueuedOrRunning
<1>4. ASSUME NEW s \in Slots, NEW outcome \in Outcomes, EndJob(s, outcome)
      PROVE  OneExecution' /\ QueuedOrRunning'
  <2> DEFINE job == slots[s].job
  <2>1. /\ slots[s] # None /\ job \in Jobs
        /\ slots' = [slots EXCEPT ![s] = None]
        /\ runningJobs' = runningJobs \ {job} /\ queuedJobs' = queuedJobs
    BY <1>4, SlotTyped DEF EndJob
  <2>2. \A t \in Slots : slots'[t] = IF t = s THEN None ELSE slots[t]
    BY <2>1 DEF AgentTypeOK
  <2>3. \A j \in Jobs : Executing(j)' = Executing(j) \ {s}
    BY <2>2 DEF Executing
  <2>4. Executing(job) = {s}
    BY <2>1 DEF OneExecution, Executing
  <2>5. \A j \in Jobs : j # job => s \notin Executing(j)
    BY DEF Executing
  <2> HIDE DEF job
  <2>6. \A j \in Jobs : j \in runningJobs' <=> Executing(j)' # {}
    BY <2>1, <2>3, <2>4, <2>5 DEF OneExecution
  <2>7. OneExecution'
    BY <2>2, <2>6 DEF OneExecution
  <2> QED BY <2>1, <2>7 DEF QueuedOrRunning
<1>5. CASE SkipClosure
  BY <1>5, SameExecutions DEF SkipClosure, QueuedOrRunning
<1>6. CASE RestartAgent
  BY <1>6 DEF RestartAgent, OneExecution, Executing, QueuedOrRunning
<1>7. CASE UNCHANGED agentVars
  BY <1>7, SameExecutions DEF agentVars, QueuedOrRunning
<1> QED BY <1>1, <1>2, <1>3, <1>4, <1>5, <1>6, <1>7 DEF AgentNext

\* Whatever the hub sends and however the limiter interleaves, the agent runs a
\* job at most once at a time, and a running job can be aborted.
THEOREM OneExecutionHolds == AgentSpec => []OneExecution
<1>1. AgentInit => AgentInv
  BY DEF AgentInit, AgentInv, AgentTypeOK, OneExecution, Executing, QueuedOrRunning
<1>2. AgentInv /\ [AgentNext]_agentVars => AgentInv'
  BY AgentTypeStep, ExecutionStep DEF AgentInv
<1>3. AgentInv => OneExecution
  BY DEF AgentInv
<1> QED BY <1>1, <1>2, <1>3, PTL DEF AgentSpec

-----------------------------------------------------------------------------

\* The closures behind the first stay in the limiter when it leaves.
LEMMA ClosureKept ==
    ASSUME AgentTypeOK, waiting # <<>>, NEW j \in Jobs, j # Head(waiting).job,
           NEW i \in 1..Len(waiting), waiting[i].job = j
    PROVE  \E k \in 1..Len(Tail(waiting)) : Tail(waiting)[k].job = j
<1>1. i # 1
  OBVIOUS
<1>2. i - 1 \in 1..Len(Tail(waiting)) /\ Tail(waiting)[i - 1] = waiting[i]
  BY <1>1 DEF AgentTypeOK
<1> QED BY <1>2

\* No step leaves a job in the queue without a closure.
LEMMA ClosureStep ==
    ASSUME AgentTypeOK, QueuedHasClosure, [AgentNext]_agentVars
    PROVE  QueuedHasClosure'
<1> USE DEF QueuedHasClosure
<1>1. ASSUME NEW j \in Jobs, NEW c \in Conns, HandleJobRun(j, c) PROVE QueuedHasClosure'
  <2>1. CASE Known(j)
    BY <1>1, <2>1 DEF HandleJobRun
  <2>2. CASE ~Known(j)
    <3>1. /\ queuedJobs' = queuedJobs \cup {j}
          /\ waiting' = Append(waiting, [job |-> j, ws |-> c])
          /\ waiting \in Seq(Closure) /\ [job |-> j, ws |-> c] \in Closure
      BY <1>1, <2>2 DEF HandleJobRun, AgentTypeOK, Closure
    <3>2. /\ Len(waiting') = Len(waiting) + 1 /\ Len(waiting) \in Nat
          /\ waiting'[Len(waiting) + 1].job = j
          /\ \A i \in 1..Len(waiting) : waiting'[i] = waiting[i]
      BY <3>1
    <3> QED BY <3>1, <3>2
  <2> QED BY <2>1, <2>2
<1>2. ASSUME NEW j \in Jobs, CancelQueued(j) \/ CancelRunning(j) PROVE QueuedHasClosure'
  BY <1>2 DEF CancelQueued, CancelRunning
<1>3. ASSUME NEW s \in Slots, StartJob(s) PROVE QueuedHasClosure'
  BY <1>3, ClosureKept DEF StartJob, AgentTypeOK
<1>4. ASSUME NEW s \in Slots, NEW outcome \in Outcomes, EndJob(s, outcome) PROVE QueuedHasClosure'
  BY <1>4 DEF EndJob
<1>5. CASE SkipClosure
  BY <1>5, ClosureKept DEF SkipClosure, AgentTypeOK
<1>6. CASE RestartAgent
  BY <1>6 DEF RestartAgent
<1>7. CASE UNCHANGED agentVars
  BY <1>7 DEF agentVars
<1> QED BY <1>1, <1>2, <1>3, <1>4, <1>5, <1>6, <1>7 DEF AgentNext

\* A queued job always has a closure left that starts it: the cancellations and
\* requests that cross in the limiter strand no job.
THEOREM QueuedHasClosureHolds == AgentSpec => []QueuedHasClosure
<1>1. AgentInit => AgentTypeOK /\ QueuedHasClosure
  BY DEF AgentInit, AgentTypeOK, QueuedHasClosure
<1>2. AgentTypeOK /\ QueuedHasClosure /\ [AgentNext]_agentVars
        => AgentTypeOK' /\ QueuedHasClosure'
  BY AgentTypeStep, ClosureStep
<1> QED BY <1>1, <1>2, PTL DEF AgentSpec

(************************* server and agent ********************************)

\* What is sent is of the channel's type, and a dead link stays empty.
LEMMA SentToAgent ==
    ASSUME NetTypeOK, NEW c, NEW msgs \in Seq(ToAgent)
    PROVE  /\ Sent(toAgent, c, msgs) \in [Conns -> Seq(ToAgent)]
           /\ \A d \in Conns \ links : Sent(toAgent, c, msgs)[d] = toAgent[d]
<1>0. toAgent \in [Conns -> Seq(ToAgent)]
  BY DEF NetTypeOK
<1>1. CASE c \in links /\ c \in Conns
  <2>1. toAgent[c] \o msgs \in Seq(ToAgent)
    BY <1>0, <1>1
  <2> QED BY <1>0, <1>1, <2>1 DEF Sent
<1>2. CASE c \notin links \/ c \notin Conns
  BY <1>0, <1>2 DEF Sent
<1> QED BY <1>1, <1>2

\* The same towards the server.
LEMMA SentToHub ==
    ASSUME NetTypeOK, NEW c, NEW msgs \in Seq(ToHub)
    PROVE  /\ Sent(toHub, c, msgs) \in [Conns -> Seq(ToHub)]
           /\ \A d \in Conns \ links : Sent(toHub, c, msgs)[d] = toHub[d]
<1>0. toHub \in [Conns -> Seq(ToHub)]
  BY DEF NetTypeOK
<1>1. CASE c \in links /\ c \in Conns
  <2>1. toHub[c] \o msgs \in Seq(ToHub)
    BY <1>0, <1>1
  <2> QED BY <1>0, <1>1, <2>1 DEF Sent
<1>2. CASE c \notin links \/ c \notin Conns
  BY <1>0, <1>2 DEF Sent
<1> QED BY <1>1, <1>2

\* Only finitely many jobs can be sent in one go.
LEMMA JobsCounted == \A T \in SUBSET Jobs : Cardinality(T) \in Nat
<1> SUFFICES ASSUME NEW T \in SUBSET Jobs PROVE Cardinality(T) \in Nat
  OBVIOUS
<1>1. IsFiniteSet(T)
  BY DispatchAssumption, FS_Subset
<1> QED BY <1>1, FS_CardinalityType

\* Messages about a job may travel in the direction their type says.
LEMMA MsgTyped ==
    ASSUME NEW j \in Jobs
    PROVE  /\ \A type \in {"job:run", "job:cancel"} : <<Msg(type, j)>> \in Seq(ToAgent)
           /\ \A type \in Reports : <<Msg(type, j)>> \in Seq(ToHub)
BY DEF Msg, ToAgent, ToHub, Message

\* What a handler that is added makes of the bag of activities.
LEMMA Added ==
    ASSUME NEW B, IsABag(B), BagToSet(B) \subseteq Activity, NEW a \in Activity
    PROVE  IsABag(B (+) SetToBag({a})) /\ BagToSet(B (+) SetToBag({a})) \subseteq Activity
BY DEF (+), SetToBag, IsABag, BagToSet

\* What a handler that ends leaves of the bag.
LEMMA Removed ==
    ASSUME NEW B, IsABag(B), BagToSet(B) \subseteq Activity, NEW a
    PROVE  IsABag(B (-) SetToBag({a})) /\ BagToSet(B (-) SetToBag({a})) \subseteq Activity
BY DEF (-), SetToBag, IsABag, BagToSet

\* A handler that starts.
LEMMA BeginTyped ==
    ASSUME HubTypeOK, NEW a \in Activity, Begin(a)
    PROVE  IsABag(activities') /\ BagToSet(activities') \subseteq Activity
BY Added DEF HubTypeOK, Begin

\* A handler that is done.
LEMMA EndTyped ==
    ASSUME HubTypeOK, NEW a, End(a)
    PROVE  IsABag(activities') /\ BagToSet(activities') \subseteq Activity
BY Removed DEF HubTypeOK, End

\* A handler that goes on to its next await.
LEMMA ContinueTyped ==
    ASSUME HubTypeOK, NEW a, NEW b \in Activity, Continue(a, b)
    PROVE  IsABag(activities') /\ BagToSet(activities') \subseteq Activity
<1> DEFINE rest == activities (-) SetToBag({a})
<1>1. IsABag(rest) /\ BagToSet(rest) \subseteq Activity
  BY Removed DEF HubTypeOK
<1> HIDE DEF rest
<1>2. IsABag(rest (+) SetToBag({b})) /\ BagToSet(rest (+) SetToBag({b})) \subseteq Activity
  BY <1>1, Added
<1> QED BY <1>2 DEF Continue, rest

\* The kind of a parked handler tells what it remembers.
LEMMA ActivityShape ==
    ASSUME HubTypeOK, NEW a
    PROVE  /\ a \in Parked("queueJob") \cup Parked("cancel") => a \in CallActivity
           /\ a \in Parked("ended") => a \in EndedActivity
           /\ a \in Parked("registered") => a \in RegisterActivity
           /\ a \in Parked("markFailed") => a \in CloseActivity
BY DEF HubTypeOK, Parked, Activity, CallActivity, EndedActivity, RegisterActivity, CloseActivity

\* A handler of the server keeps the server's state well typed.
LEMMA ActivityKeepsHub ==
    ASSUME TypeOK, HubActivity
    PROVE  HubTypeOK'
<1> USE DEF TypeOK
<1> PICK a \in BagToSet(activities) :
        \/ QueueJob(a) \/ BroadcastJobRun(a) \/ SetCancelled(a) \/ BroadcastJobCancel(a)
        \/ ReadQueued(a) \/ Redispatch(a) \/ SetEnded(a) \/ DisownNext(a) \/ SetFailed(a)
  BY DEF HubActivity
<1> DEFINE BagOK == IsABag(activities) /\ BagToSet(activities) \subseteq Activity
           RowOK == /\ status \in [Jobs -> Status]
                    /\ registered \in Conns \cup {None}
                    /\ activeJobOwners \subseteq Jobs
<1>0. HubTypeOK' <=> RowOK' /\ BagOK'
  BY DEF HubTypeOK
<1>r. RowOK
  BY DEF HubTypeOK
<1> HIDE DEF BagOK, TypeOK
<1>1. CASE QueueJob(a)
  <2>1. a \in CallActivity
    BY <1>1, ActivityShape DEF QueueJob, TypeOK
  <2>2. [a EXCEPT !.step = "send"] \in CallActivity
    BY <2>1 DEF CallActivity
  <2>3. BagOK'
    BY <1>1, <2>2, ContinueTyped DEF QueueJob, Activity, TypeOK, BagOK
  <2>4. RowOK'
    BY <1>1, <1>r DEF QueueJob, Status
  <2> QED BY <1>0, <2>3, <2>4
<1>2. CASE BroadcastJobRun(a)
  <2>1. a.job \in Jobs
    BY <1>2, ActivityShape DEF BroadcastJobRun, TypeOK, CallActivity
  <2>2. BagOK'
    BY <1>2, EndTyped DEF BroadcastJobRun, TypeOK, BagOK
  <2>3. RowOK'
    BY <1>2, <1>r, <2>1 DEF BroadcastJobRun, Status
  <2> QED BY <1>0, <2>2, <2>3
<1>3. CASE SetCancelled(a)
  <2>1. a \in CallActivity
    BY <1>3, ActivityShape DEF SetCancelled, TypeOK
  <2>2. [a EXCEPT !.step = "send"] \in CallActivity
    BY <2>1 DEF CallActivity
  <2>3. BagOK'
    BY <1>3, <2>2, ContinueTyped DEF SetCancelled, Activity, TypeOK, BagOK
  <2>4. RowOK'
    BY <1>3, <1>r DEF SetCancelled, Status
  <2> QED BY <1>0, <2>3, <2>4
<1>4. CASE BroadcastJobCancel(a)
  <2>1. BagOK'
    BY <1>4, EndTyped DEF BroadcastJobCancel, TypeOK, BagOK
  <2> QED BY <1>0, <1>r, <1>4, <2>1 DEF BroadcastJobCancel
<1>5. CASE ReadQueued(a)
  <2> DEFINE b == [a EXCEPT !.queued = {j \in Jobs : status[j] = "queued"}]
  <2>1. a \in RegisterActivity
    BY <1>5, ActivityShape DEF ReadQueued, TypeOK
  <2>2. b \in RegisterActivity
    BY <2>1 DEF RegisterActivity
  <2>3. BagOK'
    BY <1>5, <2>2, ContinueTyped DEF ReadQueued, Activity, TypeOK, BagOK
  <2> QED BY <1>0, <1>r, <1>5, <2>3 DEF ReadQueued
<1>6. CASE Redispatch(a)
  <2>0. a \in RegisterActivity /\ a.queued # None
    BY <1>6, ActivityShape DEF Redispatch, TypeOK
  <2>1. a.queued \in (SUBSET Jobs) \cup {None}
    BY <2>0 DEF RegisterActivity
  <2>2. BagOK'
    BY <1>6, EndTyped DEF Redispatch, TypeOK, BagOK
  <2>3. a.queued \subseteq Jobs
    BY <2>0, <2>1
  <2> QED BY <1>0, <1>r, <1>6, <2>2, <2>3 DEF Redispatch
<1>7. CASE SetEnded(a)
  <2>1. a.outcome \in Status
    BY <1>7, ActivityShape DEF SetEnded, TypeOK, EndedActivity, Outcomes, Status
  <2>2. BagOK'
    BY <1>7, EndTyped DEF SetEnded, TypeOK, BagOK
  <2> QED BY <1>0, <1>r, <1>7, <2>1, <2>2 DEF SetEnded
<1>8. CASE DisownNext(a)
  <2>1. a \in CloseActivity
    BY <1>8, ActivityShape DEF DisownNext, TypeOK
  <2>2. \A j \in a.owned : LET b == [a EXCEPT !.owned = @ \ {j}, !.failing = IF Active(j) THEN j ELSE None]
                            IN  b \in CloseActivity
    BY <2>1 DEF CloseActivity
  <2>3. BagOK'
    BY <1>8, <2>2, ContinueTyped, EndTyped DEF DisownNext, Activity, TypeOK, BagOK
  <2> QED BY <1>0, <1>r, <1>8, <2>3 DEF DisownNext
<1>9. CASE SetFailed(a)
  <2>1. a \in CloseActivity
    BY <1>9, ActivityShape DEF SetFailed, TypeOK
  <2>2. [a EXCEPT !.failing = None] \in CloseActivity
    BY <2>1 DEF CloseActivity
  <2>3. BagOK'
    BY <1>9, <2>2, ContinueTyped DEF SetFailed, Activity, TypeOK, BagOK
  <2>4. RowOK'
    BY <1>9, <1>r DEF SetFailed, Status
  <2> QED BY <1>0, <2>3, <2>4
<1> QED BY <1>1, <1>2, <1>3, <1>4, <1>5, <1>6, <1>7, <1>8, <1>9

\* A message from the agent, or a close, keeps the server's state well typed.
LEMMA ConnKeepsHub ==
    ASSUME TypeOK, NEW c \in Conns, HubConn(c)
    PROVE  HubTypeOK'
<1>1. HubTypeOK
  BY DEF TypeOK
<1>2. hubOpen \subseteq Conns /\ toHub[c] \in Seq(ToHub)
  BY DispatchAssumption DEF TypeOK, NetTypeOK
<1>3. CASE HubRegister(c)
  <2>1. [kind |-> "registered", conn |-> c, queued |-> None] \in Activity
    BY DEF Activity, RegisterActivity
  <2>2. IsABag(activities') /\ BagToSet(activities') \subseteq Activity
    BY <1>1, <1>3, <2>1, BeginTyped DEF HubRegister
  <2> QED BY <1>1, <1>3, <2>2 DEF HubRegister, HubTypeOK
<1>4. CASE HubStarted(c)
  BY <1>1, <1>4 DEF HubStarted, HubTypeOK, Status
<1>5. CASE HubEnded(c)
  <2> DEFINE m == Head(toHub[c])
  <2>0. toHub[c] # <<>> /\ m.type \in Outcomes
    BY <1>5 DEF HubEnded, Received
  <2>1. m \in ToHub /\ m.type \in Outcomes
    BY <1>2, <2>0
  <2>2. m # Register
    BY <2>1 DEF Register, Outcomes
  <2>3. m.job \in Jobs
    BY <2>1, <2>2 DEF ToHub, Message
  <2> HIDE DEF m
  <2>4. [kind |-> "ended", job |-> m.job, outcome |-> m.type] \in Activity
    BY <2>1, <2>3 DEF Activity, EndedActivity
  <2>5. IsABag(activities') /\ BagToSet(activities') \subseteq Activity
    BY <1>1, <1>5, <2>4, BeginTyped DEF HubEnded, m
  <2> QED BY <1>1, <1>5, <2>5 DEF HubEnded, HubTypeOK
<1>6. CASE HubClose(c)
  <2>1. [kind |-> "markFailed", owned |-> activeJobOwners, failing |-> None] \in Activity
    BY <1>1 DEF Activity, CloseActivity, HubTypeOK
  <2>2. IsABag(activities') /\ BagToSet(activities') \subseteq Activity
    BY <1>1, <1>6, <2>1, BeginTyped DEF HubClose, HubTypeOK
  <2> QED BY <1>1, <1>6, <2>2 DEF HubClose, HubTypeOK
<1> QED BY <1>3, <1>4, <1>5, <1>6 DEF HubConn

\* Every step keeps the server's state well typed.
LEMMA HubTypeStep == ASSUME TypeOK, [Next]_vars PROVE HubTypeOK'
<1>1. HubTypeOK
  BY DEF TypeOK
<1>2. CASE Request
  <2>1. PICK j \in Jobs : RunRequest(j) \/ CancelRequest(j)
    BY <1>2 DEF Request
  <2>2. PICK a \in CallActivity : Begin(a)
    BY <2>1 DEF RunRequest, CancelRequest, CallActivity
  <2>3. IsABag(activities') /\ BagToSet(activities') \subseteq Activity
    BY <1>1, <2>2, BeginTyped DEF Activity
  <2> QED BY <1>1, <2>1, <2>3 DEF RunRequest, CancelRequest, HubTypeOK
<1>3. CASE HubActivity
  BY <1>3, ActivityKeepsHub
<1>4. ASSUME NEW c \in Conns, HubConn(c) PROVE HubTypeOK'
  BY <1>4, ConnKeepsHub
<1>5. CASE RestartHub
  BY <1>1, <1>5 DEF RestartHub, HubTypeOK, Status, EmptyBag, SetToBag, IsABag, BagToSet
<1>6. CASE UNCHANGED hubVars
  BY <1>1, <1>6 DEF hubVars, HubTypeOK
<1>7. ASSUME NEW c \in Conns, AgentConn(c) \/ LinkDies(c) PROVE UNCHANGED hubVars
  BY <1>7 DEF AgentConn, AgentRun, AgentCancel, LinkDies
<1>8. ASSUME NEW s \in Slots, AgentStart(s) \/ AgentEnd(s) PROVE UNCHANGED hubVars
  BY <1>8 DEF AgentStart, AgentEnd
<1>9. CASE AgentDies \/ Connect \/ AgentClose \/ AgentSkip
  BY <1>6, <1>9 DEF AgentDies, Connect, AgentClose, AgentSkip
<1>10. CASE UNCHANGED vars
  BY <1>6, <1>10 DEF vars, hubVars
<1> QED BY <1>2, <1>3, <1>4, <1>5, <1>6, <1>7, <1>8, <1>9, <1>10 DEF Next, Fault

-----------------------------------------------------------------------------

\* A report travels to the server over a live link or is lost.
LEMMA ReportTyped ==
    ASSUME NetTypeOK, NEW c, NEW type \in Reports, NEW j \in Jobs, Report(c, type, j)
    PROVE  /\ toHub' \in [Conns -> Seq(ToHub)]
           /\ \A d \in Conns \ links : toHub'[d] = toHub[d]
<1>1. toHub \in [Conns -> Seq(ToHub)] /\ <<Msg(type, j)>> \in Seq(ToHub)
  BY MsgTyped DEF NetTypeOK
<1> QED BY <1>1, SentToHub DEF Report

\* A registration's jobs are sent as one sequence of messages.
LEMMA RedispatchSends ==
    ASSUME HubTypeOK, NEW a, Redispatch(a)
    PROVE  \E msgs \in Seq(ToAgent) : toAgent' = Sent(toAgent, a.conn, msgs)
<1>1. a \in RegisterActivity /\ a.queued # None
  BY ActivityShape DEF Redispatch
<1>2. a.queued \in (SUBSET Jobs) \cup {None}
  BY <1>1 DEF RegisterActivity
<1>3. a.queued \in SUBSET Jobs
  BY <1>1, <1>2
<1> DEFINE n == Cardinality(a.queued)
<1>4. n \in Nat
  BY <1>3, JobsCounted
<1>5. PICK order \in SetToSeqs(a.queued) :
          toAgent' = Sent(toAgent, a.conn, [i \in DOMAIN order |-> Msg("job:run", order[i])])
  BY DEF Redispatch
<1>6. order \in [1..n -> a.queued]
  BY <1>5 DEF SetToSeqs
<1>7. \A j \in Jobs : Msg("job:run", j) \in ToAgent
  BY DEF Msg, ToAgent, Message
<1> DEFINE msgs == [i \in DOMAIN order |-> Msg("job:run", order[i])]
<1> HIDE DEF n
<1>8. msgs \in [1..n -> ToAgent]
  BY <1>3, <1>6, <1>7
<1>9. msgs \in Seq(ToAgent)
  BY <1>4, <1>8, SeqDef
<1> HIDE DEF msgs
<1>10. toAgent' = Sent(toAgent, a.conn, msgs)
  BY <1>5 DEF msgs
<1> QED BY <1>9, <1>10

\* The sends of the server's handlers keep the channels typed.
LEMMA ActivityKeepsNet ==
    ASSUME TypeOK, HubActivity
    PROVE  NetTypeOK'
<1> PICK a \in BagToSet(activities) :
        \/ QueueJob(a) \/ BroadcastJobRun(a) \/ SetCancelled(a) \/ BroadcastJobCancel(a)
        \/ ReadQueued(a) \/ Redispatch(a) \/ SetEnded(a) \/ DisownNext(a) \/ SetFailed(a)
  BY DEF HubActivity
<1>1. NetTypeOK /\ HubTypeOK
  BY DEF TypeOK
<1>2. ASSUME NEW c, NEW msgs \in Seq(ToAgent), toAgent' = Sent(toAgent, c, msgs),
             UNCHANGED <<made, links, hubOpen, identified, activeWs, toHub>>
      PROVE  NetTypeOK'
  <2>1. /\ toAgent' \in [Conns -> Seq(ToAgent)]
        /\ \A d \in Conns \ links : toAgent'[d] = toAgent[d]
    BY <1>1, <1>2, SentToAgent
  <2> QED BY <1>1, <1>2, <2>1 DEF NetTypeOK
<1>3. CASE UNCHANGED netVars
  BY <1>1, <1>3 DEF netVars, NetTypeOK
<1>4. CASE QueueJob(a) \/ SetCancelled(a) \/ ReadQueued(a) \/ SetEnded(a) \/ DisownNext(a) \/ SetFailed(a)
  BY <1>3, <1>4 DEF QueueJob, SetCancelled, ReadQueued, SetEnded, DisownNext, SetFailed
<1>5. CASE BroadcastJobRun(a)
  <2>1. a.job \in Jobs
    BY <1>1, <1>5, ActivityShape DEF BroadcastJobRun, CallActivity
  <2>2. <<Msg("job:run", a.job)>> \in Seq(ToAgent)
    BY <2>1, MsgTyped
  <2>3. CASE registered \in hubOpen
    BY <1>2, <1>5, <2>2, <2>3 DEF BroadcastJobRun
  <2>4. CASE registered \notin hubOpen
    BY <1>3, <1>5, <2>4 DEF BroadcastJobRun, netVars
  <2> QED BY <2>3, <2>4
<1>6. CASE BroadcastJobCancel(a)
  <2>1. a.job \in Jobs
    BY <1>1, <1>6, ActivityShape DEF BroadcastJobCancel, CallActivity
  <2>2. <<Msg("job:cancel", a.job)>> \in Seq(ToAgent)
    BY <2>1, MsgTyped
  <2>3. CASE registered \in hubOpen
    BY <1>2, <1>6, <2>2, <2>3 DEF BroadcastJobCancel
  <2>4. CASE registered \notin hubOpen
    BY <1>3, <1>6, <2>4 DEF BroadcastJobCancel, netVars
  <2> QED BY <2>3, <2>4
<1>7. CASE Redispatch(a)
  BY <1>1, <1>2, <1>7, RedispatchSends DEF Redispatch
<1> QED BY <1>4, <1>5, <1>6, <1>7

\* What either end takes from a channel leaves it typed.
LEMMA TakenTyped ==
    ASSUME NetTypeOK, NEW c \in Conns
    PROVE  /\ Received(c) => /\ toHub' \in [Conns -> Seq(ToHub)]
                             /\ \A d \in Conns \ links : toHub'[d] = <<>>
                             /\ Head(toHub[c]) \in ToHub /\ c \in hubOpen
           /\ Delivered(c) => /\ toAgent' \in [Conns -> Seq(ToAgent)]
                              /\ \A d \in Conns \ links : toAgent'[d] = <<>>
                              /\ Head(toAgent[c]) \in ToAgent
<1>1. ASSUME Received(c)
      PROVE  /\ toHub' \in [Conns -> Seq(ToHub)]
             /\ \A d \in Conns \ links : toHub'[d] = <<>>
             /\ Head(toHub[c]) \in ToHub /\ c \in hubOpen
  <2>1. toHub[c] \in Seq(ToHub) /\ toHub[c] # <<>>
    BY <1>1 DEF Received, NetTypeOK
  <2>2. Head(toHub[c]) \in ToHub /\ Tail(toHub[c]) \in Seq(ToHub)
    BY <2>1, HeadTailProperties
  <2>3. c \in links
    BY <2>1 DEF NetTypeOK
  <2> QED BY <1>1, <2>2, <2>3 DEF Received, NetTypeOK
<1>2. ASSUME Delivered(c)
      PROVE  /\ toAgent' \in [Conns -> Seq(ToAgent)]
             /\ \A d \in Conns \ links : toAgent'[d] = <<>>
             /\ Head(toAgent[c]) \in ToAgent
  <2>1. toAgent[c] \in Seq(ToAgent) /\ toAgent[c] # <<>>
    BY <1>2 DEF Delivered, NetTypeOK
  <2>2. Head(toAgent[c]) \in ToAgent /\ Tail(toAgent[c]) \in Seq(ToAgent)
    BY <2>1, HeadTailProperties
  <2>3. c \in links
    BY <2>1 DEF NetTypeOK
  <2> QED BY <1>2, <2>2, <2>3 DEF Delivered, NetTypeOK
<1> QED BY <1>1, <1>2

\* The server's end of a connection keeps the network well typed.
LEMMA ConnKeepsNet ==
    ASSUME TypeOK, NEW c \in Conns, HubConn(c)
    PROVE  NetTypeOK'
<1>1. NetTypeOK
  BY DEF TypeOK
<1>2. CASE HubRegister(c)
  BY <1>1, <1>2, TakenTyped DEF HubRegister, NetTypeOK
<1>3. CASE HubStarted(c)
  BY <1>1, <1>3, TakenTyped DEF HubStarted, NetTypeOK
<1>4. CASE HubEnded(c)
  BY <1>1, <1>4, TakenTyped DEF HubEnded, NetTypeOK
<1>5. CASE HubClose(c)
  BY <1>1, <1>5 DEF HubClose, NetTypeOK
<1> QED BY <1>2, <1>3, <1>4, <1>5 DEF HubConn

\* So does the agent's end, and whatever the agent reports.
LEMMA AgentKeepsNet ==
    ASSUME TypeOK,
           \/ \E c \in Conns : AgentConn(c)
           \/ \E s \in Slots : AgentStart(s) \/ AgentEnd(s)
    PROVE  NetTypeOK'
<1>1. NetTypeOK /\ AgentTypeOK
  BY DEF TypeOK
<1>2. ASSUME NEW c, NEW type \in Reports, NEW j \in Jobs, Report(c, type, j),
             toAgent' \in [Conns -> Seq(ToAgent)], \A d \in Conns \ links : toAgent'[d] = <<>>,
             UNCHANGED <<made, links, hubOpen, identified, activeWs>>
      PROVE  NetTypeOK'
  <2>1. /\ toHub' \in [Conns -> Seq(ToHub)]
        /\ \A d \in Conns \ links : toHub'[d] = toHub[d]
    BY <1>1, <1>2, ReportTyped
  <2> QED BY <1>1, <1>2, <2>1 DEF NetTypeOK
<1>3. ASSUME NEW c \in Conns, AgentRun(c) PROVE NetTypeOK'
  BY <1>1, <1>3, TakenTyped DEF AgentRun, NetTypeOK
<1>4. ASSUME NEW c \in Conns, AgentCancel(c) PROVE NetTypeOK'
  <2> DEFINE j == Head(toAgent[c]).job
  <2>1. /\ toAgent' \in [Conns -> Seq(ToAgent)] /\ \A d \in Conns \ links : toAgent'[d] = <<>>
        /\ Head(toAgent[c]) \in ToAgent
    BY <1>1, <1>4, TakenTyped DEF AgentCancel
  <2>2. j \in Jobs
    BY <2>1 DEF ToAgent, Message
  <2> HIDE DEF j
  <2>3. CASE Report(c, "cancelled", j)
    BY <1>2, <1>4, <2>1, <2>2, <2>3 DEF AgentCancel, Reports
  <2>4. CASE UNCHANGED toHub
    BY <1>1, <1>4, <2>1, <2>4 DEF AgentCancel, NetTypeOK
  <2> QED BY <1>4, <2>3, <2>4 DEF AgentCancel, j
<1>5. ASSUME NEW s \in Slots, AgentStart(s) PROVE NetTypeOK'
  <2>1. Head(waiting).job \in Jobs
    BY <1>1, <1>5, HeadTail DEF AgentStart, StartJob
  <2>2. Report(Head(waiting).ws, "started", Head(waiting).job) /\ "started" \in Reports
    BY <1>5 DEF AgentStart, Reports
  <2>3. /\ UNCHANGED <<made, links, hubOpen, identified, activeWs>>
        /\ toAgent' \in [Conns -> Seq(ToAgent)] /\ \A d \in Conns \ links : toAgent'[d] = <<>>
    BY <1>1, <1>5 DEF AgentStart, NetTypeOK
  <2> QED BY <1>2, <2>1, <2>2, <2>3
<1>6. ASSUME NEW s \in Slots, AgentEnd(s) PROVE NetTypeOK'
  <2>1. PICK outcome \in Outcomes : EndJob(s, outcome) /\ Report(slots[s].ws, outcome, slots[s].job)
    BY <1>6 DEF AgentEnd
  <2>2. slots[s].job \in Jobs
    BY <1>1, <2>1, SlotTyped DEF EndJob
  <2>3. /\ UNCHANGED <<made, links, hubOpen, identified, activeWs>>
        /\ toAgent' \in [Conns -> Seq(ToAgent)] /\ \A d \in Conns \ links : toAgent'[d] = <<>>
    BY <1>1, <1>6 DEF AgentEnd, NetTypeOK
  <2>4. outcome \in Reports
    BY DEF Outcomes, Reports
  <2> QED BY <1>2, <2>1, <2>2, <2>3, <2>4
<1> QED BY <1>3, <1>4, <1>5, <1>6 DEF AgentConn

\* Every step keeps the connections and channels well typed: a dead link is
\* empty, and the server knows a device only by a connection it has open.
LEMMA NetTypeStep == ASSUME TypeOK, [Next]_vars PROVE NetTypeOK'
<1>1. NetTypeOK
  BY DEF TypeOK
<1>2. CASE UNCHANGED netVars
  BY <1>1, <1>2 DEF netVars, NetTypeOK
<1>3. CASE Request \/ AgentSkip \/ UNCHANGED vars
  BY <1>2, <1>3 DEF Request, RunRequest, CancelRequest, AgentSkip, vars, netVars
<1>4. CASE HubActivity
  BY <1>4, ActivityKeepsNet
<1>5. ASSUME NEW c \in Conns, HubConn(c) PROVE NetTypeOK'
  BY <1>5, ConnKeepsNet
<1>6. ASSUME \/ \E c \in Conns : AgentConn(c)
             \/ \E s \in Slots : AgentStart(s) \/ AgentEnd(s)
      PROVE  NetTypeOK'
  BY <1>6, AgentKeepsNet
<1>7. ASSUME NEW c \in Conns, LinkDies(c) PROVE NetTypeOK'
  <2>1. /\ toAgent' \in [Conns -> Seq(ToAgent)] /\ toHub' \in [Conns -> Seq(ToHub)]
        /\ \A d \in Conns \ links' : toAgent'[d] = <<>> /\ toHub'[d] = <<>>
    BY <1>1, <1>7 DEF LinkDies, NetTypeOK
  <2> QED BY <1>1, <1>7, <2>1 DEF LinkDies, NetTypeOK
<1>8. CASE AgentDies
  <2>1. /\ toAgent' \in [Conns -> Seq(ToAgent)] /\ toHub' \in [Conns -> Seq(ToHub)]
        /\ \A d \in Conns \ links' : toAgent'[d] = <<>> /\ toHub'[d] = <<>>
    BY <1>1, <1>8 DEF AgentDies, NetTypeOK
  <2> QED BY <1>1, <1>8, <2>1 DEF AgentDies, NetTypeOK
<1>9. CASE RestartHub
  BY <1>1, <1>9 DEF RestartHub, NetTypeOK
<1>10. CASE AgentClose
  BY <1>1, <1>10 DEF AgentClose, NetTypeOK
<1>11. CASE Connect
  <2>1. made' \in Conns /\ made' \in 0..MaxConns /\ made' = made + 1
    BY <1>1, <1>11, DispatchAssumption DEF Connect, NetTypeOK
  <2>2. <<Register>> \in Seq(ToHub)
    BY DEF ToHub
  <2>3. /\ toHub' \in [Conns -> Seq(ToHub)]
        /\ \A d \in Conns \ links' : toAgent'[d] = <<>> /\ toHub'[d] = <<>>
    BY <1>1, <1>11, <2>1, <2>2 DEF Connect, NetTypeOK
  <2>4. 1..made \subseteq 1..made' /\ made' \in 1..made'
    BY <1>1, <2>1 DEF NetTypeOK
  <2> QED BY <1>1, <1>11, <2>1, <2>3, <2>4 DEF Connect, NetTypeOK
<1> QED BY <1>3, <1>4, <1>5, <1>6, <1>7, <1>8, <1>9, <1>10, <1>11 DEF Next, Fault

-----------------------------------------------------------------------------

\* Every step keeps the bounds and what history records.
LEMMA RestTypeStep == ASSUME TypeOK, [Next]_vars PROVE RestTypeOK'
<1>1. RestTypeOK /\ HubTypeOK /\ NetTypeOK
  BY DEF TypeOK
<1>2. \A j \in Jobs : Crossing(j) \subseteq Jobs
  BY <1>1 DEF Crossing, RestTypeOK
<1>3. CASE UNCHANGED <<requests, restarts, unheard, crossed>>
  BY <1>1, <1>3 DEF RestTypeOK
<1>4. CASE Request
  BY <1>1, <1>4, DispatchAssumption DEF Request, RunRequest, CancelRequest, history, RestTypeOK
<1>5. CASE HubActivity
  <2> PICK a \in BagToSet(activities) :
        \/ QueueJob(a) \/ BroadcastJobRun(a) \/ SetCancelled(a) \/ BroadcastJobCancel(a)
        \/ ReadQueued(a) \/ Redispatch(a) \/ SetEnded(a) \/ DisownNext(a) \/ SetFailed(a)
    BY <1>5 DEF HubActivity
  <2>1. CASE QueueJob(a) \/ SetCancelled(a) \/ ReadQueued(a) \/ Redispatch(a)
    BY <1>1, <2>1 DEF QueueJob, SetCancelled, ReadQueued, Redispatch, history, RestTypeOK
  <2>2. CASE BroadcastJobRun(a) \/ BroadcastJobCancel(a)
    <3>1. a.job \in Jobs
      BY <1>1, <2>2, ActivityShape DEF BroadcastJobRun, BroadcastJobCancel, CallActivity
    <3> QED BY <1>1, <1>2, <2>2, <3>1 DEF BroadcastJobRun, BroadcastJobCancel, RestTypeOK
  <2>3. CASE SetEnded(a)
    <3>1. a.job \in Jobs
      BY <1>1, <2>3, ActivityShape DEF SetEnded, EndedActivity
    <3> QED BY <1>1, <1>2, <2>3, <3>1 DEF SetEnded, RestTypeOK
  <2>4. CASE DisownNext(a)
    <3>0. a \in CloseActivity
      BY <1>1, <2>4, ActivityShape DEF DisownNext
    <3>1. a.owned \subseteq Jobs
      BY <3>0 DEF CloseActivity
    <3> QED BY <1>1, <1>2, <2>4, <3>1 DEF DisownNext, RestTypeOK
  <2>5. CASE SetFailed(a)
    <3>1. a \in CloseActivity /\ a.failing # None
      BY <1>1, <2>5, ActivityShape DEF SetFailed
    <3>2. a.failing \in Jobs
      BY <3>1 DEF CloseActivity
    <3> QED BY <1>1, <1>2, <2>5, <3>2 DEF SetFailed, RestTypeOK
  <2> QED BY <2>1, <2>2, <2>3, <2>4, <2>5
<1>6. ASSUME NEW c \in Conns, HubConn(c) \/ LinkDies(c) \/ AgentCancel(c) PROVE RestTypeOK'
  BY <1>3, <1>6 DEF HubConn, HubRegister, HubStarted, HubEnded, HubClose, LinkDies, AgentCancel, history
<1>7. ASSUME NEW c \in Conns, AgentRun(c) PROVE RestTypeOK'
  <2>1. Head(toAgent[c]).job \in Jobs
    BY <1>1, <1>7, TakenTyped DEF AgentRun, ToAgent, Message
  <2> QED BY <1>1, <1>7, <2>1 DEF AgentRun, RestTypeOK
<1>8. ASSUME NEW s \in Slots, AgentStart(s) \/ AgentEnd(s) PROVE RestTypeOK'
  BY <1>3, <1>8 DEF AgentStart, AgentEnd, history
<1>9. CASE AgentSkip \/ Connect \/ AgentClose \/ UNCHANGED vars
  BY <1>3, <1>9 DEF AgentSkip, Connect, AgentClose, history, vars
<1>10. CASE AgentDies \/ RestartHub
  BY <1>1, <1>10, DispatchAssumption DEF AgentDies, RestartHub, RestTypeOK
<1> QED BY <1>4, <1>5, <1>6, <1>7, <1>8, <1>9, <1>10 DEF Next, Fault, AgentConn

\* A handler of the server, a request or the network leaves the queue alone.
LEMMA HubLeavesQueue ==
    Request \/ HubActivity \/ Connect \/ AgentClose
        \/ RestartHub \/ (\E c \in Conns : LinkDies(c) \/ HubConn(c))
    => UNCHANGED agentVars
<1>1. Request => UNCHANGED agentVars
  BY DEF Request, RunRequest, CancelRequest
<1>2. HubActivity => UNCHANGED agentVars
  BY DEF HubActivity, QueueJob, BroadcastJobRun, SetCancelled, BroadcastJobCancel,
         ReadQueued, Redispatch, SetEnded, DisownNext, SetFailed
<1>3. Connect \/ AgentClose \/ RestartHub => UNCHANGED agentVars
  BY DEF Connect, AgentClose, RestartHub
<1>4. (\E c \in Conns : LinkDies(c) \/ HubConn(c)) => UNCHANGED agentVars
  BY DEF LinkDies, HubConn, HubRegister, HubStarted, HubEnded, HubClose
<1> QED BY <1>1, <1>2, <1>3, <1>4

\* Every step of the composition is a step of the queue or leaves it alone.
LEMMA QueueStep == ASSUME TypeOK, [Next]_vars PROVE [AgentNext]_agentVars
<1>1. NetTypeOK
  BY DEF TypeOK
<1>2. ASSUME NEW c \in Conns, AgentConn(c) PROVE AgentNext
  <2>1. Delivered(c)
    BY <1>2 DEF AgentConn, AgentRun, AgentCancel
  <2>2. Head(toAgent[c]).job \in Jobs
    BY <1>1, <2>1, TakenTyped DEF ToAgent, Message
  <2>3. CASE AgentRun(c)
    BY <2>2, <2>3 DEF AgentRun, AgentNext
  <2>4. CASE AgentCancel(c)
    BY <2>2, <2>4 DEF AgentCancel, AgentNext
  <2> QED BY <1>2, <2>3, <2>4 DEF AgentConn
<1>3. ASSUME NEW s \in Slots, AgentStart(s) \/ AgentEnd(s) PROVE AgentNext
  BY <1>3 DEF AgentStart, AgentEnd, AgentNext
<1>4. AgentSkip \/ AgentDies => AgentNext
  BY DEF AgentSkip, AgentDies, AgentNext
<1>5. UNCHANGED vars => UNCHANGED agentVars
  BY DEF vars, agentVars
<1> QED BY <1>2, <1>3, <1>4, <1>5, HubLeavesQueue DEF Next, Fault

\* The server, the agent and the network start well typed.
LEMMA InitTyped == Init => TypeOK
<1>1. Init => HubTypeOK
  BY DEF Init, HubTypeOK, Status, EmptyBag, SetToBag, IsABag, BagToSet
<1>2. Init => NetTypeOK
  BY DispatchAssumption DEF Init, NetTypeOK
<1>3. Init => RestTypeOK
  BY DispatchAssumption DEF Init, RestTypeOK
<1>4. Init => AgentTypeOK
  BY DEF Init, AgentInit, AgentTypeOK
<1> QED BY <1>1, <1>2, <1>3, <1>4 DEF TypeOK

\* Every step keeps them so.
LEMMA TypeStep == TypeOK /\ [Next]_vars => TypeOK'
BY QueueStep, AgentTypeStep, HubTypeStep, NetTypeStep, RestTypeStep DEF TypeOK

\* The server, the connections and the agent keep their types, for any number of
\* jobs, connections, requests and restarts.
THEOREM TypeCorrect == Spec => []TypeOK
BY InitTyped, TypeStep, PTL DEF Spec

\* The composition's steps are steps of the queue or leave it alone: an action of the
\* agent takes its part in the queue from JobAgent, once the messages are well typed.
LEMMA QueueSteps == Spec => AgentSpec
<1>1. Init => AgentInit
  BY DEF Init
<1>2. TypeOK /\ [Next]_vars => [AgentNext]_agentVars
  BY QueueStep
<1> QED BY <1>1, <1>2, TypeCorrect, PTL DEF Spec, AgentSpec

\* An agent never runs a job twice at the same time, however often the server
\* sends it (register and queueJob both send a queued job).
THEOREM DispatchedOnce == Spec => []OneExecution
BY QueueSteps, OneExecutionHolds, PTL

-----------------------------------------------------------------------------
(* What is shown of a run.  A connection is live only while it is the agent's own, and  *)
(* the server sends on it only once it knows it; so that a report or a cancellation on  *)
(* the way is never overtaken by what came by another connection.                       *)

\* The agent has at most one live connection (connect is called after close).
OneLink == links \subseteq {activeWs}

\* What came by a connection, or will go by one, is of a connection there was; while
\* that one lives, the server knows the device by it.
FromConn(c) == c \in 1..made /\ (c \in links => c \in identified)

ConnsFit ==
    /\ activeWs \in (1..made) \cup {None}
    /\ \A s \in Slots : slots[s] # None => FromConn(slots[s].ws)
    /\ \A i \in 1..Len(waiting) : FromConn(waiting[i].ws)
    /\ \A a \in Parked("registered") : FromConn(a.conn)
    /\ \A c \in links : toAgent[c] # <<>> => c \in identified
    /\ \A c \in links \cap identified : registered \in {c, None}
    /\ registered \in identified \cup {None}

\* A cancellation of j that is yet to be sent.
Cancelling(j) == [kind |-> "cancel", job |-> j, step |-> "send"]

\* Job j is shown as active, or its report is on its way on connection c, or a
\* cancellation of it.
Shown(j, c) == \/ Active(j)
               \/ Msg("started", j) \in Range(toHub[c])
               \/ Msg("job:cancel", j) \in Range(toAgent[c])
               \/ Cancelling(j) \in BagToSet(activities)

\* A run that can be heard is shown, unless it was told to stop or the end of another
\* request hit it.
RunsShown ==
    \A s \in Slots :
        slots[s] # None /\ slots[s].ws \in links /\ slots[s].job \notin abortedJobs \cup crossed
        => Shown(slots[s].job, slots[s].ws)

DispatchInv == /\ TypeOK /\ OneExecution /\ QueuedOrRunning
               /\ OneLink /\ ConnsFit /\ RunsShown

\* Which handlers are parked after one starts, goes on or ends.
LEMMA BegunBag ==
    ASSUME HubTypeOK, NEW a, Begin(a)
    PROVE  BagToSet(activities') = BagToSet(activities) \cup {a}
BY DEF Begin, (+), SetToBag, IsABag, BagToSet, HubTypeOK

\* A handler that ends is the only one to go.
LEMMA EndedBag ==
    ASSUME HubTypeOK, NEW a, End(a)
    PROVE  /\ BagToSet(activities) \ {a} \subseteq BagToSet(activities')
           /\ BagToSet(activities') \subseteq BagToSet(activities)
BY DEF End, (-), SetToBag, IsABag, BagToSet, HubTypeOK

\* A handler that goes on is replaced by what it became.
LEMMA ContinuedBag ==
    ASSUME HubTypeOK, NEW a, NEW b, Continue(a, b)
    PROVE  /\ (BagToSet(activities) \ {a}) \cup {b} \subseteq BagToSet(activities')
           /\ BagToSet(activities') \subseteq BagToSet(activities) \cup {b}
<1> DEFINE rest == activities (-) SetToBag({a})
<1>1. /\ BagToSet(activities) \ {a} \subseteq BagToSet(rest)
      /\ BagToSet(rest) \subseteq BagToSet(activities)
  BY DEF (-), SetToBag, IsABag, BagToSet, HubTypeOK
<1>2. IsABag(rest)
  BY Removed DEF HubTypeOK
<1> HIDE DEF rest
<1>3. BagToSet(rest (+) SetToBag({b})) = BagToSet(rest) \cup {b}
  BY <1>2 DEF (+), SetToBag, IsABag, BagToSet
<1>4. activities' = rest (+) SetToBag({b})
  BY DEF Continue, rest
<1> QED BY <1>1, <1>3, <1>4

\* A message that is not the first stays when the first is taken.
LEMMA TailKeeps ==
    ASSUME NEW S, NEW q \in Seq(S), q # <<>>, NEW m \in Range(q), m # Head(q)
    PROVE  m \in Range(Tail(q))
<1>1. PICK i \in 1..Len(q) : q[i] = m
  BY DEF Range
<1>2. i # 1 /\ Len(q) \in Nat
  BY <1>1
<1>3. i - 1 \in 1..Len(Tail(q)) /\ Tail(q)[i - 1] = m
  BY <1>1, <1>2
<1>4. DOMAIN Tail(q) = 1..Len(Tail(q))
  OBVIOUS
<1> QED BY <1>3, <1>4 DEF Range

\* What is sent comes behind what was sent before.
LEMMA SentKeeps ==
    ASSUME NEW S, NEW q \in Seq(S), NEW r \in Seq(S)
    PROVE  Range(q) \cup Range(r) \subseteq Range(q \o r)
<1>1. Len(q) \in Nat /\ Len(r) \in Nat /\ Len(q \o r) = Len(q) + Len(r) /\ DOMAIN (q \o r) = 1..Len(q \o r)
  BY DEF Range
<1>2. ASSUME NEW i \in 1..Len(q) PROVE q[i] \in Range(q \o r)
  <2>1. i \in 1..Len(q \o r) /\ (q \o r)[i] = q[i]
    BY <1>1
  <2> QED BY <1>1, <2>1 DEF Range
<1>3. ASSUME NEW i \in 1..Len(r) PROVE r[i] \in Range(q \o r)
  <2>1. Len(q) + i \in 1..Len(q \o r) /\ (q \o r)[Len(q) + i] = r[i]
    BY <1>1
  <2> QED BY <1>1, <2>1 DEF Range
<1>4. DOMAIN q = 1..Len(q) /\ DOMAIN r = 1..Len(r)
  OBVIOUS
<1> QED BY <1>2, <1>3, <1>4 DEF Range

\* Steps that leave connections and closures alone, and send nothing by an unknown one.
LEMMA ConnsStay ==
    ASSUME OneLink, ConnsFit, UNCHANGED <<made, links, identified, activeWs, registered, slots, waiting>>,
           \A c \in links : toAgent'[c] # <<>> => toAgent[c] # <<>> \/ c \in identified,
           \A a \in Parked("registered")' : a \in Parked("registered") \/ FromConn(a.conn)
    PROVE  OneLink' /\ ConnsFit'
<1>1. \A c : FromConn(c)' <=> FromConn(c)
  BY DEF FromConn
<1> QED BY <1>1 DEF OneLink, ConnsFit

\* The handlers of registrations, once another handler starts, goes on or ends.
LEMMA SameRegistrations ==
    ASSUME HubTypeOK, NEW a, NEW b, Begin(a) \/ End(a) \/ Continue(b, a), a.kind # "registered"
    PROVE  Parked("registered")' \subseteq Parked("registered")
<1>1. CASE Begin(a)
  BY <1>1, BegunBag DEF Parked
<1>2. CASE End(a)
  BY <1>2, EndedBag DEF Parked
<1>3. CASE Continue(b, a)
  BY <1>3, ContinuedBag DEF Parked
<1> QED BY <1>1, <1>2, <1>3

\* A handler sends by the connection the device registered on.
LEMMA ActivityKeepsConns ==
    ASSUME TypeOK, OneLink, ConnsFit, HubActivity
    PROVE  OneLink' /\ ConnsFit'
<1> PICK a \in BagToSet(activities) :
        \/ QueueJob(a) \/ BroadcastJobRun(a) \/ SetCancelled(a) \/ BroadcastJobCancel(a)
        \/ ReadQueued(a) \/ Redispatch(a) \/ SetEnded(a) \/ DisownNext(a) \/ SetFailed(a)
  BY DEF HubActivity
<1>1. HubTypeOK /\ NetTypeOK
  BY DEF TypeOK
<1>2. CASE QueueJob(a) \/ SetCancelled(a)
  <2>1. Parked("registered")' \subseteq Parked("registered")
    <3> DEFINE b == [a EXCEPT !.step = "send"]
    <3>1. b.kind # "registered"
      BY <1>1, <1>2, ActivityShape DEF QueueJob, SetCancelled, Parked, CallActivity
    <3>2. Continue(a, b)
      BY <1>2 DEF QueueJob, SetCancelled
    <3> HIDE DEF b
    <3> QED BY <1>1, <3>1, <3>2, SameRegistrations
  <2> QED BY <1>2, <2>1, ConnsStay DEF QueueJob, SetCancelled, netVars, agentVars
<1>3. CASE SetEnded(a)
  <2>1. Parked("registered")' \subseteq Parked("registered")
    BY <1>1, <1>3, EndedBag DEF SetEnded, Parked
  <2> QED BY <1>3, <2>1, ConnsStay DEF SetEnded, netVars, agentVars
<1>4. CASE SetFailed(a)
  <2>1. Parked("registered")' \subseteq Parked("registered")
    <3> DEFINE b == [a EXCEPT !.failing = None]
    <3>1. b.kind # "registered"
      BY <1>1, <1>4, ActivityShape DEF SetFailed, Parked, CloseActivity
    <3>2. Continue(a, b)
      BY <1>4 DEF SetFailed
    <3> HIDE DEF b
    <3> QED BY <1>1, <3>1, <3>2, SameRegistrations
  <2> QED BY <1>4, <2>1, ConnsStay DEF SetFailed, netVars, agentVars
<1>5. CASE DisownNext(a)
  <2>0. a \in CloseActivity
    BY <1>1, <1>5, ActivityShape DEF DisownNext
  <2>1. Parked("registered")' \subseteq Parked("registered")
    <3>1. CASE End(a)
      BY <1>1, <3>1, EndedBag DEF Parked
    <3>2. ASSUME NEW j \in a.owned,
                 Continue(a, [a EXCEPT !.owned = @ \ {j}, !.failing = IF Active(j) THEN j ELSE None])
          PROVE  Parked("registered")' \subseteq Parked("registered")
      <4> DEFINE b == [a EXCEPT !.owned = @ \ {j}, !.failing = IF Active(j) THEN j ELSE None]
      <4>1. b.kind # "registered"
        BY <2>0 DEF CloseActivity
      <4>2. Continue(a, b)
        BY <3>2
      <4> HIDE DEF b
      <4> QED BY <1>1, <4>1, <4>2, SameRegistrations
    <3> QED BY <1>5, <3>1, <3>2 DEF DisownNext
  <2> QED BY <1>5, <2>1, ConnsStay DEF DisownNext, netVars, agentVars
<1>6. CASE ReadQueued(a)
  <2> DEFINE b == [a EXCEPT !.queued = {j \in Jobs : status[j] = "queued"}]
  <2>1. a \in RegisterActivity /\ a \in Parked("registered")
    BY <1>1, <1>6, ActivityShape DEF ReadQueued
  <2>2. b.conn = a.conn
    BY <2>1 DEF RegisterActivity
  <2>3. Continue(a, b)
    BY <1>6 DEF ReadQueued
  <2> HIDE DEF b
  <2>4. \A r \in Parked("registered")' : r \in Parked("registered") \/ r = b
    BY <1>1, <2>3, ContinuedBag DEF Parked
  <2>5. \A r \in Parked("registered")' : r \in Parked("registered") \/ FromConn(r.conn)
    BY <2>1, <2>2, <2>4 DEF ConnsFit
  <2> QED BY <1>6, <2>5, ConnsStay DEF ReadQueued, netVars, agentVars
<1>7. ASSUME NEW c, NEW msgs, toAgent' = Sent(toAgent, c, msgs), c \in links => c \in identified
      PROVE  \A d \in links : toAgent'[d] # <<>> => toAgent[d] # <<>> \/ d \in identified
  <2>1. CASE c \in links
    BY <1>1, <1>7, <2>1 DEF Sent, NetTypeOK
  <2>2. CASE c \notin links
    BY <1>7, <2>2 DEF Sent
  <2> QED BY <2>1, <2>2
<1>8. registered \in links => registered \in identified
  <2>1. links \subseteq Conns
    BY <1>1, DispatchAssumption DEF NetTypeOK
  <2> QED BY <2>1, NoneIsNoConn DEF ConnsFit
<1>9. CASE BroadcastJobRun(a) \/ BroadcastJobCancel(a)
  <2>1. Parked("registered")' \subseteq Parked("registered")
    BY <1>1, <1>9, EndedBag DEF BroadcastJobRun, BroadcastJobCancel, Parked
  <2>2. \A d \in links : toAgent'[d] # <<>> => toAgent[d] # <<>> \/ d \in identified
    BY <1>7, <1>8, <1>9 DEF BroadcastJobRun, BroadcastJobCancel
  <2> QED BY <1>9, <2>1, <2>2, ConnsStay DEF BroadcastJobRun, BroadcastJobCancel, agentVars
<1>10. CASE Redispatch(a)
  <2>1. Parked("registered")' \subseteq Parked("registered")
    BY <1>1, <1>10, EndedBag DEF Redispatch, Parked
  <2>2. a.conn \in links => a.conn \in identified
    BY <1>10 DEF Redispatch, ConnsFit, FromConn
  <2>3. \A d \in links : toAgent'[d] # <<>> => toAgent[d] # <<>> \/ d \in identified
    <3>1. PICK order \in SetToSeqs(a.queued) :
              toAgent' = Sent(toAgent, a.conn, [i \in DOMAIN order |-> Msg("job:run", order[i])])
      BY <1>10 DEF Redispatch
    <3> QED BY <1>7, <2>2, <3>1
  <2> QED BY <1>10, <2>1, <2>3, ConnsStay DEF Redispatch, agentVars
<1> QED BY <1>2, <1>3, <1>4, <1>5, <1>6, <1>9, <1>10

\* A connection's server end keeps them too: who registers is the agent, on the one
\* connection that lives.
LEMMA ConnKeepsConns ==
    ASSUME TypeOK, OneLink, ConnsFit, NEW c \in Conns, HubConn(c)
    PROVE  OneLink' /\ ConnsFit'
<1>1. HubTypeOK /\ NetTypeOK
  BY DEF TypeOK
<1>2. CASE HubRegister(c)
  <2>1. c \in links /\ c \in 1..made
    BY <1>1, <1>2 DEF HubRegister, Received, NetTypeOK
  <2> DEFINE b == [kind |-> "registered", conn |-> c, queued |-> None]
  <2>2. Begin(b) /\ b.conn = c
    BY <1>2 DEF HubRegister
  <2> HIDE DEF b
  <2>3. /\ registered' = c /\ identified' = identified \cup {c}
        /\ UNCHANGED <<made, links, activeWs, slots, waiting, toAgent>>
    BY <1>2 DEF HubRegister, agentVars
  <2>4. \A r \in Parked("registered")' : r \in Parked("registered") \/ r = b
    BY <1>1, <2>2, BegunBag DEF Parked
  <2>5. \A d : FromConn(d) => FromConn(d)'
    BY <2>3 DEF FromConn
  <2>6. FromConn(c)'
    BY <2>1, <2>3 DEF FromConn
  <2>7. links = {c}
    BY <2>1 DEF OneLink
  <2> QED BY <2>2, <2>3, <2>4, <2>5, <2>6, <2>7 DEF OneLink, ConnsFit
<1>3. CASE HubStarted(c)
  BY <1>3, ConnsStay DEF HubStarted, agentVars, Parked
<1>4. CASE HubEnded(c)
  <2> DEFINE b == [kind |-> "ended", job |-> Head(toHub[c]).job, outcome |-> Head(toHub[c]).type]
  <2>1. Begin(b) /\ b.kind # "registered"
    BY <1>4 DEF HubEnded
  <2> HIDE DEF b
  <2>2. Parked("registered")' \subseteq Parked("registered")
    BY <1>1, <2>1, SameRegistrations
  <2> QED BY <1>4, <2>2, ConnsStay DEF HubEnded, agentVars
<1>5. CASE HubClose(c)
  <2>1. c \notin links /\ identified' = identified \ {c}
        /\ UNCHANGED <<made, links, activeWs, slots, waiting, toAgent>>
    BY <1>5 DEF HubClose, agentVars
  <2>2. Parked("registered")' \subseteq Parked("registered")
    <3> DEFINE b == [kind |-> "markFailed", owned |-> activeJobOwners, failing |-> None]
    <3>1. UNCHANGED activities \/ (Begin(b) /\ b.kind # "registered")
      BY <1>5 DEF HubClose
    <3> HIDE DEF b
    <3> QED BY <1>1, <3>1, SameRegistrations DEF Parked
  <2>3. \A d : FromConn(d) => FromConn(d)'
    BY <2>1 DEF FromConn
  <2>4. registered' = None \/ (registered' = registered /\ c \notin identified)
    BY <1>5 DEF HubClose
  <2> QED BY <2>1, <2>2, <2>3, <2>4 DEF OneLink, ConnsFit
<1> QED BY <1>2, <1>3, <1>4, <1>5 DEF HubConn

\* The agent's closures come by its connection.
LEMMA AgentKeepsConns ==
    ASSUME TypeOK, OneLink, ConnsFit,
           \/ \E c \in Conns : AgentConn(c)
           \/ \E s \in Slots : AgentStart(s) \/ AgentEnd(s)
           \/ AgentSkip
    PROVE  OneLink' /\ ConnsFit'
<1>1. NetTypeOK /\ AgentTypeOK
  BY DEF TypeOK
<1>2. /\ UNCHANGED <<made, links, identified, activeWs, registered, activities>>
  BY DEF AgentConn, AgentRun, AgentCancel, AgentStart, AgentEnd, AgentSkip, hubVars, netVars
<1>3. \A d : FromConn(d)' <=> FromConn(d)
  BY <1>2 DEF FromConn
<1>4. \A d \in links : toAgent'[d] # <<>> => toAgent[d] # <<>>
  <2>1. CASE UNCHANGED toAgent
    BY <2>1
  <2>2. ASSUME NEW c \in Conns, Delivered(c)
        PROVE  \A d \in links : toAgent'[d] # <<>> => toAgent[d] # <<>>
    BY <1>1, <2>2 DEF Delivered, NetTypeOK
  <2> QED BY <2>1, <2>2 DEF AgentConn, AgentRun, AgentCancel, AgentStart, AgentEnd, AgentSkip, netVars
<1>5. ASSUME \A s \in Slots : slots'[s] # None => FromConn(slots'[s].ws),
             \A i \in 1..Len(waiting') : FromConn(waiting'[i].ws)
      PROVE  OneLink' /\ ConnsFit'
  BY <1>2, <1>3, <1>4, <1>5 DEF OneLink, ConnsFit, Parked
<1>6. ASSUME waiting # <<>>, waiting' = Tail(waiting)
      PROVE  (\A i \in 1..Len(waiting') : FromConn(waiting'[i].ws)) /\ FromConn(Head(waiting).ws)
  <2>1. waiting \in Seq(Closure) /\ waiting # <<>>
    BY <1>1, <1>6 DEF AgentTypeOK
  <2>2. /\ Head(waiting) = waiting[1] /\ 1 \in 1..Len(waiting)
        /\ \A i \in 1..Len(Tail(waiting)) : i + 1 \in 1..Len(waiting) /\ Tail(waiting)[i] = waiting[i + 1]
    BY <2>1
  <2> QED BY <1>6, <2>2 DEF ConnsFit
<1>7. ASSUME NEW c \in Conns, AgentRun(c) PROVE OneLink' /\ ConnsFit'
  <2> DEFINE j == Head(toAgent[c]).job
  <2>1. HandleJobRun(j, c) /\ c = activeWs /\ toAgent[c] # <<>>
    BY <1>7 DEF AgentRun, Delivered
  <2>2. c \in links
    BY <1>1, <2>1 DEF NetTypeOK
  <2>3. FromConn(c)
    BY <1>1, <2>1, <2>2 DEF ConnsFit, FromConn, NetTypeOK
  <2>4. slots' = slots
    BY <2>1 DEF HandleJobRun
  <2> DEFINE n == [job |-> j, ws |-> c]
  <2>5. waiting' = waiting \/ waiting' = Append(waiting, n)
    BY <2>1 DEF HandleJobRun
  <2>6. n.ws = c
    OBVIOUS
  <2> HIDE DEF n, j
  <2>7. \A i \in 1..Len(waiting') : FromConn(waiting'[i].ws)
    BY <1>1, <2>3, <2>5, <2>6 DEF ConnsFit, AgentTypeOK
  <2> QED BY <1>5, <2>4, <2>7 DEF ConnsFit
<1>8. ASSUME NEW c \in Conns, AgentCancel(c) PROVE OneLink' /\ ConnsFit'
  <2>1. UNCHANGED <<slots, waiting>>
    BY <1>8 DEF AgentCancel, CancelQueued, CancelRunning
  <2> QED BY <1>5, <2>1 DEF ConnsFit
<1>9. ASSUME NEW s \in Slots, AgentStart(s) PROVE OneLink' /\ ConnsFit'
  <2>1. waiting # <<>> /\ waiting' = Tail(waiting) /\ slots' = [slots EXCEPT ![s] = Head(waiting)]
    BY <1>9 DEF AgentStart, StartJob
  <2>2. \A t \in Slots : slots'[t] # None => FromConn(slots'[t].ws)
    BY <1>1, <1>6, <2>1 DEF ConnsFit, AgentTypeOK
  <2> QED BY <1>5, <1>6, <2>1, <2>2
<1>10. ASSUME NEW s \in Slots, AgentEnd(s) PROVE OneLink' /\ ConnsFit'
  <2>1. waiting' = waiting /\ slots' = [slots EXCEPT ![s] = None]
    BY <1>10 DEF AgentEnd, EndJob
  <2>2. \A t \in Slots : slots'[t] # None => FromConn(slots'[t].ws)
    BY <1>1, <2>1 DEF ConnsFit, AgentTypeOK
  <2> QED BY <1>5, <2>1, <2>2 DEF ConnsFit
<1>11. CASE AgentSkip
  <2>1. waiting # <<>> /\ waiting' = Tail(waiting) /\ slots' = slots
    BY <1>11 DEF AgentSkip, SkipClosure
  <2> QED BY <1>5, <1>6, <2>1 DEF ConnsFit
<1> QED BY <1>7, <1>8, <1>9, <1>10, <1>11 DEF AgentConn

\* A new connection is known to nobody, and no other lives when the agent makes it.
LEMMA ConnsStep == ASSUME TypeOK, OneLink, ConnsFit, [Next]_vars PROVE OneLink' /\ ConnsFit'
<1>1. NetTypeOK /\ AgentTypeOK
  BY DEF TypeOK
<1>2. CASE Request
  <2>1. PICK j \in Jobs : RunRequest(j) \/ CancelRequest(j)
    BY <1>2 DEF Request
  <2>2. PICK a \in CallActivity : Begin(a)
    BY <2>1 DEF RunRequest, CancelRequest, CallActivity
  <2>3. a.kind # "registered"
    BY DEF CallActivity
  <2>4. Parked("registered")' \subseteq Parked("registered")
    BY <2>2, <2>3, SameRegistrations DEF TypeOK
  <2> QED BY <2>1, <2>4, ConnsStay DEF RunRequest, CancelRequest, netVars, agentVars
<1>3. CASE HubActivity
  BY <1>3, ActivityKeepsConns
<1>4. ASSUME NEW c \in Conns, HubConn(c) PROVE OneLink' /\ ConnsFit'
  BY <1>4, ConnKeepsConns
<1>5. CASE \/ \E c \in Conns : AgentConn(c)
           \/ \E s \in Slots : AgentStart(s) \/ AgentEnd(s)
           \/ AgentSkip
  BY <1>5, AgentKeepsConns
<1>6. CASE Connect
  <2>1. /\ links = {} /\ made' = made + 1 /\ links' = {made'} /\ activeWs' = made'
        /\ UNCHANGED <<identified, registered, slots, waiting, toAgent, activities>>
    <3>1. links \subseteq Conns
      BY <1>1, DispatchAssumption DEF NetTypeOK
    <3>2. links = {}
      BY <1>6, <3>1, NoneIsNoConn DEF Connect, OneLink
    <3> QED BY <1>6, <3>2 DEF Connect, hubVars, agentVars
  <2>2. made \in Nat /\ identified \subseteq 1..made
    BY <1>1 DEF NetTypeOK
  <2>3. \A d : FromConn(d) => FromConn(d)'
    BY <2>1, <2>2 DEF FromConn
  <2>4. toAgent'[made'] = <<>>
    BY <1>1, <1>6, <2>1, DispatchAssumption DEF NetTypeOK, Connect
  <2>5. made' \notin identified /\ made' \in 1..made'
    BY <2>1, <2>2
  <2> QED BY <2>1, <2>3, <2>4, <2>5 DEF OneLink, ConnsFit, Parked
<1>7. CASE RestartHub
  <2>1. /\ links' = {} /\ registered' = None /\ activities' = EmptyBag
        /\ UNCHANGED <<made, activeWs, slots, waiting>>
    BY <1>7 DEF RestartHub, agentVars
  <2>2. BagToSet(activities') = {}
    BY <2>1 DEF EmptyBag, SetToBag, BagToSet
  <2>3. \A d : FromConn(d) => FromConn(d)'
    BY <2>1 DEF FromConn
  <2> QED BY <2>1, <2>2, <2>3 DEF OneLink, ConnsFit, Parked
<1>8. ASSUME NEW c \in Conns, LinkDies(c) PROVE OneLink' /\ ConnsFit'
  <2>1. /\ links' \subseteq links /\ \A d \in links' : toAgent'[d] = toAgent[d]
        /\ UNCHANGED <<made, activeWs, identified, registered, slots, waiting, activities>>
    BY <1>1, <1>8 DEF LinkDies, hubVars, agentVars, NetTypeOK
  <2>2. \A d : FromConn(d) => FromConn(d)'
    BY <2>1 DEF FromConn
  <2> QED BY <2>1, <2>2 DEF OneLink, ConnsFit, Parked
<1>9. CASE AgentClose
  <2>1. /\ links = {} /\ activeWs' = None
        /\ UNCHANGED <<made, links, identified, registered, slots, waiting, activities, toAgent>>
    BY <1>9 DEF AgentClose, OneLink, hubVars, agentVars
  <2>2. \A d : FromConn(d)' <=> FromConn(d)
    BY <2>1 DEF FromConn
  <2> QED BY <2>1, <2>2 DEF OneLink, ConnsFit, Parked
<1>10. CASE AgentDies
  <2>1. /\ links' = {} /\ activeWs' = None /\ waiting' = <<>> /\ slots' = [s \in Slots |-> None]
        /\ UNCHANGED <<made, identified, registered, activities>>
    BY <1>10 DEF AgentDies, RestartAgent, OneLink, hubVars
  <2>2. \A d : FromConn(d) => FromConn(d)'
    BY <2>1 DEF FromConn
  <2> QED BY <2>1, <2>2 DEF OneLink, ConnsFit, Parked
<1>11. CASE UNCHANGED vars
  BY <1>11, ConnsStay DEF vars, Parked
<1> QED BY <1>2, <1>3, <1>4, <1>5, <1>6, <1>7, <1>8, <1>9, <1>10, <1>11 DEF Next, Fault

\* Steps after which the same runs go on: each stays shown, or its cancellation or the end
\* of another request hits it.
LEMMA RunsStay ==
    ASSUME DispatchInv, UNCHANGED slots, links' \subseteq links, abortedJobs \subseteq abortedJobs',
           \A j \in runningJobs \cap Jobs, c \in links' \cap identified :
               j \notin abortedJobs' \cup crossed' =>
                   Shown(j, c)' \/ (j \notin crossed /\ ~Shown(j, c))
    PROVE  RunsShown'
<1> SUFFICES ASSUME NEW s \in Slots, slots[s] # None, slots[s].ws \in links',
                    slots[s].job \notin abortedJobs' \cup crossed'
             PROVE  Shown(slots[s].job, slots[s].ws)'
  BY DEF RunsShown
<1>0. PICK j, c : j = slots[s].job /\ c = slots[s].ws
  OBVIOUS
<1>1. j \in Jobs
  BY <1>0, SlotTyped DEF DispatchInv, TypeOK
<1>2. j \in runningJobs
  <2>1. s \in Executing(j)
    BY <1>0 DEF Executing
  <2> QED BY <1>1, <2>1 DEF DispatchInv, OneExecution
<1>3. c \in identified
  BY <1>0 DEF DispatchInv, ConnsFit, FromConn
<1>4. j \notin crossed => Shown(j, c)
  BY <1>0 DEF DispatchInv, RunsShown
<1>5. c \in links' /\ j \notin abortedJobs' \cup crossed'
  BY <1>0
<1>6. Shown(j, c)'
  BY <1>1, <1>2, <1>3, <1>4, <1>5
<1> QED BY <1>0, <1>6

\* The same row, the same messages and the same cancellations.
LEMMA SameShown ==
    ASSUME NEW j, NEW c, Shown(j, c), Active(j) => Active(j)',
           Range(toHub[c]) \subseteq Range(toHub'[c]), Range(toAgent[c]) \subseteq Range(toAgent'[c]),
           Cancelling(j) \in BagToSet(activities) => Cancelling(j) \in BagToSet(activities')
    PROVE  Shown(j, c)'
BY DEF Shown

\* The end of a request that hits a job the agent works on is remembered.
LEMMA RunningIsCrossed ==
    ASSUME NEW j \in runningJobs PROVE Crossing(j) = crossed \cup {j}
BY DEF Crossing, Known

\* What the server sends on one connection leaves what is on it, and on the others.
LEMMA SentToOthers ==
    ASSUME NetTypeOK, NEW c, NEW msgs \in Seq(ToAgent), toAgent' = Sent(toAgent, c, msgs), NEW d \in links
    PROVE  /\ Range(toAgent[d]) \subseteq Range(toAgent'[d])
           /\ d = c => Range(msgs) \subseteq Range(toAgent'[d])
<1>1. d \in Conns /\ toAgent[d] \in Seq(ToAgent)
  BY DispatchAssumption DEF NetTypeOK
<1>2. CASE d = c
  <2>1. toAgent'[d] = toAgent[d] \o msgs
    BY <1>1, <1>2 DEF Sent, NetTypeOK
  <2> QED BY <1>1, <2>1, SentKeeps
<1>3. CASE d # c
  <2>1. toAgent'[d] = toAgent[d]
    BY <1>1, <1>3 DEF Sent, NetTypeOK
  <2> QED BY <1>3, <2>1
<1> QED BY <1>2, <1>3

\* The server's handlers: a row that is overwritten belongs to a job that was queued
\* anew, or that a cancellation is under way for, or whose history says so.
LEMMA ActivityKeepsRuns ==
    ASSUME DispatchInv, HubActivity
    PROVE  RunsShown'
<1> PICK a \in BagToSet(activities) :
        \/ QueueJob(a) \/ BroadcastJobRun(a) \/ SetCancelled(a) \/ BroadcastJobCancel(a)
        \/ ReadQueued(a) \/ Redispatch(a) \/ SetEnded(a) \/ DisownNext(a) \/ SetFailed(a)
  BY DEF HubActivity
<1>1. TypeOK /\ HubTypeOK /\ NetTypeOK /\ status \in [Jobs -> Status]
  BY DEF DispatchInv, TypeOK, HubTypeOK
<1>2. UNCHANGED agentVars /\ UNCHANGED <<links, toHub>>
  BY HubLeavesQueue DEF QueueJob, BroadcastJobRun, SetCancelled, BroadcastJobCancel,
         ReadQueued, Redispatch, SetEnded, DisownNext, SetFailed, HubActivity, netVars
<1>3. UNCHANGED <<slots, abortedJobs, runningJobs>>
  BY <1>2 DEF agentVars
<1> SUFFICES ASSUME NEW j \in runningJobs \cap Jobs, NEW c \in links \cap identified,
                    j \notin abortedJobs' \cup crossed', Shown(j, c) \/ j \in crossed
             PROVE  Shown(j, c)'
  BY <1>2, <1>3, RunsStay
<1>4. c \in Conns
  BY <1>1, DispatchAssumption DEF NetTypeOK
<1>5. \A b : b # a /\ (End(a) \/ \E d : Continue(a, d))
               => (b \in BagToSet(activities) => b \in BagToSet(activities'))
  BY <1>1, EndedBag, ContinuedBag
<1>6. CASE QueueJob(a)
  <2>1. Cancelling(j) # a /\ a.job \in Jobs
    BY <1>1, <1>6, ActivityShape DEF QueueJob, Parked, Cancelling, CallActivity
  <2>2. CASE a.job = j
    BY <1>1, <1>6, <2>1, <2>2 DEF QueueJob, Shown, Active
  <2>3. CASE a.job # j
    <3>1. j \notin crossed /\ status'[j] = status[j] /\ toAgent' = toAgent
      BY <1>1, <1>6, <2>1, <2>3 DEF QueueJob, netVars
    <3>2. \E d : Continue(a, d)
      BY <1>6 DEF QueueJob
    <3> QED BY <1>2, <1>5, <2>1, <3>1, <3>2, SameShown DEF Active
  <2> QED BY <2>2, <2>3
<1>7. CASE BroadcastJobRun(a)
  <2>1. Cancelling(j) # a /\ a.job \in Jobs
    BY <1>1, <1>7, ActivityShape DEF BroadcastJobRun, Parked, Cancelling, CallActivity
  <2>2. <<Msg("job:run", a.job)>> \in Seq(ToAgent)
    BY <2>1, MsgTyped
  <2>3. Range(toAgent[c]) \subseteq Range(toAgent'[c])
    BY <1>1, <1>7, <2>2, SentToOthers DEF BroadcastJobRun
  <2>4. j \notin crossed /\ status'[j] = status[j]
    BY <1>1, <1>7, <2>1, RunningIsCrossed DEF BroadcastJobRun, Crossing
  <2>5. End(a)
    BY <1>7 DEF BroadcastJobRun
  <2> QED BY <1>2, <1>5, <2>1, <2>3, <2>4, <2>5, SameShown DEF Active
<1>8. CASE SetCancelled(a)
  <2>1. a \in CallActivity /\ a.kind = "cancel" /\ a.step = "set"
    BY <1>1, <1>8, ActivityShape DEF SetCancelled, Parked
  <2>2. Continue(a, [a EXCEPT !.step = "send"])
    BY <1>8 DEF SetCancelled
  <2>3. CASE a.job = j
    <3>1. [a EXCEPT !.step = "send"] = Cancelling(j)
      BY <2>1, <2>3 DEF CallActivity, Cancelling
    <3>2. Cancelling(j) \in BagToSet(activities')
      BY <1>1, <2>2, <3>1, ContinuedBag
    <3> QED BY <3>2 DEF Shown
  <2>4. CASE a.job # j
    <3>1. Cancelling(j) # a
      BY <2>1 DEF Cancelling
    <3>2. j \notin crossed /\ status'[j] = status[j] /\ toAgent' = toAgent
      BY <1>1, <1>8, <2>4 DEF SetCancelled, netVars, history
    <3> QED BY <1>2, <1>5, <2>2, <3>1, <3>2, SameShown DEF Active
  <2> QED BY <2>3, <2>4
<1>9. CASE BroadcastJobCancel(a)
  <2>1. a \in CallActivity /\ a.kind = "cancel" /\ a.step = "send"
    BY <1>1, <1>9, ActivityShape DEF BroadcastJobCancel, Parked
  <2>2. <<Msg("job:cancel", a.job)>> \in Seq(ToAgent)
    BY <2>1, MsgTyped DEF CallActivity
  <2>3. Range(toAgent[c]) \subseteq Range(toAgent'[c])
    BY <1>1, <1>9, <2>2, SentToOthers DEF BroadcastJobCancel
  <2>4. j \notin crossed /\ status' = status
    BY <1>9 DEF BroadcastJobCancel, Crossing
  <2>5. End(a)
    BY <1>9 DEF BroadcastJobCancel
  <2>6. CASE a.job # j
    <3>1. Cancelling(j) # a
      BY <2>6 DEF Cancelling
    <3> QED BY <1>2, <1>5, <2>3, <2>4, <2>5, <3>1, SameShown DEF Active
  <2>7. CASE a.job = j
    <3>1. registered \in hubOpen
      BY <1>9, <2>7, RunningIsCrossed DEF BroadcastJobCancel
    <3>2. registered = c
      <4>1. registered \in {c, None}
        BY DEF DispatchInv, ConnsFit
      <4>2. registered \in Conns
        BY <1>1, <3>1, DispatchAssumption DEF NetTypeOK
      <4> QED BY <4>1, <4>2, NoneIsNoConn
    <3>3. Range(<<Msg("job:cancel", j)>>) \subseteq Range(toAgent'[c])
      BY <1>1, <1>9, <2>2, <2>7, <3>1, <3>2, SentToOthers DEF BroadcastJobCancel
    <3>4. Msg("job:cancel", j) \in Range(<<Msg("job:cancel", j)>>)
      BY DEF Range
    <3> QED BY <3>3, <3>4 DEF Shown
  <2> QED BY <2>6, <2>7
<1>10. CASE ReadQueued(a)
  <2>1. Cancelling(j) # a
    BY <1>10 DEF ReadQueued, Parked, Cancelling
  <2>2. j \notin crossed /\ status' = status /\ toAgent' = toAgent /\ \E d : Continue(a, d)
    BY <1>10 DEF ReadQueued, netVars, history
  <2> QED BY <1>2, <1>5, <2>1, <2>2, SameShown DEF Active
<1>11. CASE Redispatch(a)
  <2>1. Cancelling(j) # a
    BY <1>11 DEF Redispatch, Parked, Cancelling
  <2>2. j \notin crossed /\ status' = status /\ End(a)
    BY <1>11 DEF Redispatch, history
  <2>3. \E msgs \in Seq(ToAgent) : toAgent' = Sent(toAgent, a.conn, msgs)
    BY <1>1, <1>11, RedispatchSends
  <2>4. Range(toAgent[c]) \subseteq Range(toAgent'[c])
    BY <1>1, <2>3, SentToOthers
  <2> QED BY <1>2, <1>5, <2>1, <2>2, <2>4, SameShown DEF Active
<1>12. CASE SetEnded(a)
  <2>1. Cancelling(j) # a
    BY <1>12 DEF SetEnded, Parked, Cancelling
  <2>2. j \notin crossed /\ status'[j] = status[j] /\ toAgent' = toAgent /\ End(a)
    BY <1>1, <1>12, RunningIsCrossed DEF SetEnded, netVars, Crossing
  <2> QED BY <1>2, <1>5, <2>1, <2>2, SameShown DEF Active
<1>13. CASE DisownNext(a)
  <2>1. Cancelling(j) # a
    <3>1. a.kind = "markFailed"
      BY <1>13 DEF DisownNext, Parked
    <3> QED BY <3>1 DEF Cancelling
  <2>2. j \notin crossed /\ status' = status /\ toAgent' = toAgent /\ (End(a) \/ \E d : Continue(a, d))
    BY <1>13 DEF DisownNext, netVars, Crossing
  <2> QED BY <1>2, <1>5, <2>1, <2>2, SameShown DEF Active
<1>14. CASE SetFailed(a)
  <2>1. Cancelling(j) # a
    BY <1>14 DEF SetFailed, Parked, Cancelling
  <2>2. j \notin crossed /\ status'[j] = status[j] /\ toAgent' = toAgent /\ \E d : Continue(a, d)
    BY <1>1, <1>14, RunningIsCrossed DEF SetFailed, netVars, Crossing
  <2> QED BY <1>2, <1>5, <2>1, <2>2, SameShown DEF Active
<1> QED BY <1>6, <1>7, <1>8, <1>9, <1>10, <1>11, <1>12, <1>13, <1>14

\* What the server takes from a connection is shown from then on, if it was a start.
LEMMA ConnKeepsRuns ==
    ASSUME DispatchInv, NEW c \in Conns, HubConn(c)
    PROVE  RunsShown'
<1>1. TypeOK /\ HubTypeOK /\ NetTypeOK /\ status \in [Jobs -> Status]
  BY DEF DispatchInv, TypeOK, HubTypeOK
<1>2. UNCHANGED agentVars /\ UNCHANGED <<links, toAgent, crossed>>
  BY DEF HubConn, HubRegister, HubStarted, HubEnded, HubClose, history
<1>3. UNCHANGED <<slots, abortedJobs, runningJobs>>
  BY <1>2 DEF agentVars
<1> SUFFICES ASSUME NEW j \in runningJobs \cap Jobs, NEW d \in links \cap identified,
                    j \notin abortedJobs \cup crossed, Shown(j, d)
             PROVE  Shown(j, d)'
  BY <1>2, <1>3, RunsStay
<1>4. d \in Conns
  BY <1>1, DispatchAssumption DEF NetTypeOK
<1>5. \A b : b \in BagToSet(activities) => b \in BagToSet(activities')
  <2>1. UNCHANGED activities \/ \E a : Begin(a)
    BY DEF HubConn, HubRegister, HubStarted, HubEnded, HubClose
  <2> QED BY <1>1, <2>1, BegunBag
<1>6. ASSUME Received(c), Head(toHub[c]) # Msg("started", j)
      PROVE  Msg("started", j) \in Range(toHub[d]) => Msg("started", j) \in Range(toHub'[d])
  <2>1. CASE d = c
    <3>1. toHub'[c] = Tail(toHub[c]) /\ toHub[c] # <<>> /\ toHub[c] \in Seq(ToHub)
      BY <1>1, <1>6 DEF Received, NetTypeOK
    <3> QED BY <1>6, <2>1, <3>1, TailKeeps
  <2>2. CASE d # c
    <3>1. toHub'[d] = toHub[d]
      BY <1>1, <1>4, <1>6, <2>2 DEF Received, NetTypeOK
    <3> QED BY <3>1
  <2> QED BY <2>1, <2>2
<1>7. ASSUME Active(j) => Active(j)',
             Msg("started", j) \in Range(toHub[d]) => Msg("started", j) \in Range(toHub'[d])
      PROVE  Shown(j, d)'
  BY <1>2, <1>5, <1>7 DEF Shown
<1>8. CASE HubRegister(c)
  <2>1. Received(c) /\ Head(toHub[c]) # Msg("started", j) /\ status' = status
    BY <1>8 DEF HubRegister, Msg
  <2> QED BY <1>6, <1>7, <2>1 DEF Active
<1>9. CASE HubEnded(c)
  <2>1. Received(c) /\ Head(toHub[c]) # Msg("started", j) /\ status' = status
    BY <1>9 DEF HubEnded, Msg, Outcomes
  <2> QED BY <1>6, <1>7, <2>1 DEF Active
<1>10. CASE HubClose(c)
  <2>1. toHub' = toHub /\ status' = status
    BY <1>10 DEF HubClose
  <2> QED BY <1>7, <2>1 DEF Active
<1>11. CASE HubStarted(c)
  <2> DEFINE k == Head(toHub[c]).job
  <2>1. Received(c) /\ status' = [status EXCEPT ![k] = "running"]
    BY <1>11 DEF HubStarted
  <2>2. CASE k = j
    <3>1. status'[j] = "running"
      BY <1>1, <2>1, <2>2
    <3> QED BY <3>1 DEF Shown, Active
  <2>3. CASE k # j
    <3>1. Head(toHub[c]) # Msg("started", j)
      BY <2>3 DEF Msg
    <3>2. status'[j] = status[j]
      BY <1>1, <2>1, <2>3
    <3> QED BY <1>6, <1>7, <2>1, <3>1, <3>2 DEF Active
  <2> QED BY <2>2, <2>3
<1> QED BY <1>8, <1>9, <1>10, <1>11 DEF HubConn

\* A report of the agent comes behind what it sent before.
LEMMA ReportKeeps ==
    ASSUME NetTypeOK, NEW c, NEW type \in Reports, NEW j \in Jobs, Report(c, type, j), NEW d \in links
    PROVE  /\ Range(toHub[d]) \subseteq Range(toHub'[d])
           /\ c = d /\ c = activeWs => Msg(type, j) \in Range(toHub'[d])
<1> DEFINE msgs == <<Msg(type, j)>>
<1>1. d \in Conns /\ toHub[d] \in Seq(ToHub) /\ msgs \in Seq(ToHub)
  BY MsgTyped, DispatchAssumption DEF NetTypeOK
<1>2. Msg(type, j) \in Range(msgs)
  BY DEF Range
<1>3. CASE c = activeWs /\ d = c
  <2>1. toHub'[d] = toHub[d] \o msgs
    BY <1>1, <1>3 DEF Report, Sent, NetTypeOK
  <2> HIDE DEF msgs
  <2>2. Range(toHub[d]) \cup Range(msgs) \subseteq Range(toHub'[d])
    BY <1>1, <2>1, SentKeeps
  <2> QED BY <1>2, <2>2
<1>4. CASE c # activeWs \/ d # c
  <2>1. toHub'[d] = toHub[d]
    BY <1>1, <1>4 DEF Report, Sent, NetTypeOK
  <2> QED BY <1>4, <2>1
<1> QED BY <1>3, <1>4

\* A run that starts is reported, and one that was told to stop asks for nothing.
LEMMA AgentKeepsRuns ==
    ASSUME DispatchInv,
           \/ \E c \in Conns : AgentConn(c)
           \/ \E s \in Slots : AgentStart(s) \/ AgentEnd(s)
           \/ AgentSkip
    PROVE  RunsShown'
<1>1. TypeOK /\ NetTypeOK /\ AgentTypeOK /\ QueuedOrRunning /\ OneExecution
  BY DEF DispatchInv, TypeOK
<1>2. UNCHANGED <<status, activities, links, activeWs, identified, crossed>>
  BY DEF AgentConn, AgentRun, AgentCancel, AgentStart, AgentEnd, AgentSkip, hubVars, netVars, history
<1>3. ASSUME NEW j, NEW d, Shown(j, d), Range(toHub[d]) \subseteq Range(toHub'[d]),
             Range(toAgent[d]) \subseteq Range(toAgent'[d])
      PROVE  Shown(j, d)'
  BY <1>2, <1>3 DEF Shown, Active
<1>4. ASSUME NEW c \in Conns, Delivered(c), NEW m, NEW d \in links, m # Head(toAgent[c])
      PROVE  m \in Range(toAgent[d]) => m \in Range(toAgent'[d])
  <2>0. d \in Conns
    BY <1>1, DispatchAssumption DEF NetTypeOK
  <2>1. CASE d = c
    <3>1. toAgent'[c] = Tail(toAgent[c]) /\ toAgent[c] # <<>> /\ toAgent[c] \in Seq(ToAgent)
      BY <1>1, <1>4 DEF Delivered, NetTypeOK
    <3> QED BY <1>4, <2>1, <3>1, TailKeeps
  <2>2. CASE d # c
    <3>1. toAgent'[d] = toAgent[d]
      BY <1>1, <1>4, <2>0, <2>2 DEF Delivered, NetTypeOK
    <3> QED BY <3>1
  <2> QED BY <2>1, <2>2
<1>5. ASSUME NEW c \in Conns, AgentRun(c) PROVE RunsShown'
  <2>1. Delivered(c) /\ toHub' = toHub /\ UNCHANGED <<slots, runningJobs, abortedJobs>>
    BY <1>5 DEF AgentRun, HandleJobRun
  <2>2. \A j : Head(toAgent[c]) # Msg("job:cancel", j)
    BY <1>5 DEF AgentRun, Msg
  <2>3. \A d \in links : \A j : Shown(j, d) => Shown(j, d)'
    BY <1>2, <1>4, <2>1, <2>2 DEF Shown, Active
  <2> QED BY <1>2, <2>1, <2>3, RunsStay
<1>6. ASSUME NEW c \in Conns, AgentCancel(c) PROVE RunsShown'
  <2> DEFINE k == Head(toAgent[c]).job
  <2>1. Delivered(c) /\ UNCHANGED <<slots, runningJobs>> /\ abortedJobs \subseteq abortedJobs'
    BY <1>6 DEF AgentCancel, CancelQueued, CancelRunning
  <2>2. Head(toAgent[c]) \in ToAgent
    BY <1>1, <2>1, TakenTyped
  <2>3. \A d \in links : Range(toHub[d]) \subseteq Range(toHub'[d])
    <3>1. k \in Jobs /\ "cancelled" \in Reports
      BY <2>2 DEF ToAgent, Message, Reports
    <3>2. UNCHANGED toHub \/ Report(c, "cancelled", k)
      BY <1>6 DEF AgentCancel
    <3> HIDE DEF k
    <3> QED BY <1>1, <3>1, <3>2, ReportKeeps
  <2>4. \A j \in runningJobs : j \notin abortedJobs' => j # k
    BY <1>1, <1>6 DEF AgentCancel, CancelQueued, CancelRunning, QueuedOrRunning
  <2>5. ASSUME NEW j \in runningJobs, j \notin abortedJobs', NEW d \in links, Shown(j, d)
        PROVE  Shown(j, d)'
    <3>1. Head(toAgent[c]) # Msg("job:cancel", j)
      BY <2>4, <2>5 DEF Msg
    <3> QED BY <1>2, <1>4, <2>1, <2>3, <2>5, <3>1 DEF Shown, Active
  <2> QED BY <1>2, <2>1, <2>5, RunsStay
<1>7. ASSUME NEW s \in Slots, AgentStart(s) PROVE RunsShown'
  <2>0. PICK n : n = Head(waiting)
    OBVIOUS
  <2>1. /\ waiting # <<>> /\ slots' = [slots EXCEPT ![s] = n] /\ UNCHANGED <<abortedJobs, toAgent>>
        /\ Report(n.ws, "started", n.job) /\ "started" \in Reports
    BY <1>7, <2>0 DEF AgentStart, StartJob, Reports
  <2>2. n.job \in Jobs /\ n # None
    BY <1>1, <2>0, <2>1, HeadTail
  <2>3. \A d \in links : Range(toHub[d]) \subseteq Range(toHub'[d])
    BY <1>1, <2>1, <2>2, ReportKeeps
  <2>4. n.ws \in links => Shown(n.job, n.ws)'
    BY <1>1, <2>1, <2>2, ReportKeeps DEF DispatchInv, OneLink, Shown
  <2>5. slots'[s] = n /\ \A t \in Slots : t # s => slots'[t] = slots[t]
    BY <1>1, <2>1 DEF AgentTypeOK
  <2>6. \A d \in links : \A j : Shown(j, d) => Shown(j, d)'
    BY <1>3, <2>1, <2>3
  <2> SUFFICES ASSUME NEW t \in Slots, slots'[t] # None, slots'[t].ws \in links,
                      slots'[t].job \notin abortedJobs \cup crossed
               PROVE  Shown(slots[t].job, slots[t].ws)'
    BY <1>2, <2>1 DEF RunsShown
  <2>7. PICK j, d : j = slots'[t].job /\ d = slots'[t].ws
    OBVIOUS
  <2>8. CASE t = s
    BY <2>4, <2>5, <2>7, <2>8
  <2>9. CASE t # s
    <3>1. Shown(j, d) /\ d \in links
      BY <2>5, <2>7, <2>9 DEF DispatchInv, RunsShown
    <3> QED BY <2>6, <2>7, <3>1
  <2> QED BY <2>8, <2>9
<1>8. ASSUME NEW s \in Slots, AgentEnd(s) PROVE RunsShown'
  <2> DEFINE k == slots[s].job
  <2>1. PICK outcome \in Outcomes : EndJob(s, outcome) /\ Report(slots[s].ws, outcome, k)
    BY <1>8 DEF AgentEnd
  <2>2. /\ slots' = [slots EXCEPT ![s] = None] /\ abortedJobs' = abortedJobs \ {k}
        /\ slots[s] # None /\ outcome \in Reports
    BY <2>1 DEF EndJob, Outcomes, Reports
  <2>3. k \in Jobs /\ UNCHANGED toAgent
    BY <1>1, <1>8, <2>2, SlotTyped DEF AgentEnd
  <2>4. \A d \in links : Range(toHub[d]) \subseteq Range(toHub'[d])
    BY <1>1, <2>1, <2>2, <2>3, ReportKeeps
  <2>5. \A d \in links : \A j : Shown(j, d) => Shown(j, d)'
    BY <1>3, <2>3, <2>4
  <2> SUFFICES ASSUME NEW t \in Slots, slots'[t] # None, slots'[t].ws \in links,
                      slots'[t].job \notin abortedJobs' \cup crossed
               PROVE  Shown(slots[t].job, slots[t].ws)'
    BY <1>2 DEF RunsShown
  <2>6. t # s /\ slots'[t] = slots[t]
    BY <1>1, <2>2 DEF AgentTypeOK
  <2>7. slots[t].job # k
    BY <1>1, <2>2, <2>6 DEF OneExecution
  <2>8. PICK j, d : j = slots[t].job /\ d = slots[t].ws
    OBVIOUS
  <2>9. Shown(j, d) /\ d \in links
    BY <2>2, <2>6, <2>7, <2>8 DEF DispatchInv, RunsShown
  <2>10. Shown(j, d)'
    BY <2>5, <2>9
  <2> QED BY <2>6, <2>8, <2>10
<1>9. CASE AgentSkip
  <2>0. SkipClosure /\ UNCHANGED netVars
    BY <1>9 DEF AgentSkip
  <2>1. UNCHANGED <<slots, runningJobs, abortedJobs, toHub, toAgent>>
    BY <2>0 DEF SkipClosure, netVars
  <2> QED BY <1>2, <2>1, RunsStay DEF Shown, Active
<1> QED BY <1>5, <1>6, <1>7, <1>8, <1>9 DEF AgentConn

\* Every step keeps the invariant of what is shown.
LEMMA ShownStep == ASSUME DispatchInv, [Next]_vars PROVE RunsShown'
<1>1. TypeOK /\ NetTypeOK /\ HubTypeOK
  BY DEF DispatchInv, TypeOK
<1>2. CASE Request
  <2>1. PICK j \in Jobs : RunRequest(j) \/ CancelRequest(j)
    BY <1>2 DEF Request
  <2>2. UNCHANGED <<slots, abortedJobs, crossed, links, toHub, toAgent, status>>
    BY <2>1 DEF RunRequest, CancelRequest, agentVars, netVars, history
  <2>3. BagToSet(activities) \subseteq BagToSet(activities')
    BY <1>1, <2>1, BegunBag DEF RunRequest, CancelRequest
  <2> QED BY <2>2, <2>3, RunsStay DEF Shown, Active
<1>3. CASE HubActivity
  BY <1>3, ActivityKeepsRuns
<1>4. ASSUME NEW c \in Conns, HubConn(c) PROVE RunsShown'
  BY <1>4, ConnKeepsRuns
<1>5. CASE \/ \E c \in Conns : AgentConn(c)
           \/ \E s \in Slots : AgentStart(s) \/ AgentEnd(s)
           \/ AgentSkip
  BY <1>5, AgentKeepsRuns
<1>6. CASE Connect
  <2>1. /\ links' = links \cup {made + 1} /\ UNCHANGED <<slots, abortedJobs, crossed, status, activities, toAgent>>
        /\ toHub' = [toHub EXCEPT ![made + 1] = <<Register>>]
    BY <1>6 DEF Connect, agentVars, hubVars, history
  <2>2. made \in Nat
    BY <1>1 DEF NetTypeOK
  <2>3. \A s \in Slots : slots[s] # None => slots[s].ws # made + 1
    BY <2>2 DEF DispatchInv, ConnsFit, FromConn
  <2>4. \A d : d # made + 1 => toHub'[d] = toHub[d]
    BY <1>1, <2>1 DEF NetTypeOK
  <2>5. \A d : d # made + 1 => \A j : Shown(j, d) => Shown(j, d)'
    BY <2>1, <2>4 DEF Shown, Active
  <2> QED BY <2>1, <2>3, <2>5 DEF DispatchInv, RunsShown
<1>7. CASE RestartHub \/ AgentDies \/ AgentClose \/ \E c \in Conns : LinkDies(c)
  <2>1. links' \subseteq {}
    BY <1>7 DEF RestartHub, AgentDies, AgentClose, LinkDies, DispatchInv, OneLink
  <2> QED BY <2>1 DEF RunsShown
<1>8. CASE UNCHANGED vars
  BY <1>8, RunsStay DEF vars, Shown, Active
<1> QED BY <1>2, <1>3, <1>4, <1>5, <1>6, <1>7, <1>8 DEF Next, Fault

\* Nothing runs at first, and there is no connection.
LEMMA DispatchInit == Init => DispatchInv
<1>1. Init => OneLink /\ ConnsFit /\ RunsShown
  BY DEF Init, AgentInit, OneLink, ConnsFit, RunsShown, Parked, EmptyBag, SetToBag, BagToSet
<1>2. Init => OneExecution /\ QueuedOrRunning
  BY DEF Init, AgentInit, OneExecution, Executing, QueuedOrRunning
<1> QED BY <1>1, <1>2, InitTyped DEF DispatchInv

\* Every step keeps types, executions, connections and what is shown.
LEMMA DispatchStep == ASSUME DispatchInv, [Next]_vars PROVE DispatchInv'
<1>1. TypeOK'
  BY TypeStep DEF DispatchInv
<1>2. OneExecution' /\ QueuedOrRunning'
  BY QueueStep, ExecutionStep DEF DispatchInv, AgentInv, TypeOK
<1> QED BY <1>1, <1>2, ConnsStep, ShownStep DEF DispatchInv

\* A job the agent runs is shown as queued or running once nothing is under way, unless
\* its closure reports to a dead connection, it was told to stop, or the end of another
\* request was written over it: for any jobs, connections, requests and restarts.
THEOREM RunningShown == Spec => []RunningIsShown
<1>1. Init => DispatchInv
  BY DispatchInit
<1>2. DispatchInv /\ [Next]_vars => DispatchInv'
  BY DispatchStep
<1>3. DispatchInv => RunningIsShown
  <2> SUFFICES ASSUME DispatchInv, AtRest, NEW j \in runningJobs \ (abortedJobs \cup crossed), ~Deaf(j)
               PROVE  Active(j)
    BY DEF RunningIsShown
  <2>1. j \in Jobs /\ activities = EmptyBag
    BY DEF DispatchInv, TypeOK, AgentTypeOK, AtRest
  <2>2. PICK s \in Slots : slots[s] # None /\ slots[s].job = j
    BY <2>1 DEF DispatchInv, OneExecution, Executing
  <2>3. slots[s].ws = activeWs /\ activeWs \in links
    BY <2>2 DEF Deaf, AtRest
  <2>4. Shown(j, activeWs)
    BY <2>2, <2>3 DEF DispatchInv, RunsShown
  <2>5. BagToSet(activities) = {}
    BY <2>1 DEF EmptyBag, SetToBag, BagToSet
  <2>6. Range(toHub[activeWs]) = {} /\ Range(toAgent[activeWs]) = {}
    BY DEF AtRest, Range
  <2> QED BY <2>4, <2>5, <2>6 DEF Shown
<1> QED BY <1>1, <1>2, <1>3, PTL DEF Spec
-----------------------------------------------------------------------------
(* What is worked on.  A job that is shown as active has somebody who will change that: *)
(* a handler of the server, an agent that can be heard, or a message between the two;   *)
(* or the connection to its owner is lost, and its close handler will fail the job.     *)

Closures == ({slots[s] : s \in Slots} \ {None}) \cup Range(waiting)

\* A handler is about to send job j, to fail it, or to write how it ended.
Sending(j) == [kind |-> "queueJob", job |-> j, step |-> "send"] \in BagToSet(activities)
Failing(j) == \E a \in Parked("markFailed") : a.failing = j
Ending(j)  == \E a \in Parked("ended") : a.job = j

\* The agent owns it, and a dead connection of it has yet to be noticed by the server;
\* or that was noticed, and the close handler will come to the job.
Orphaned(j) == j \in activeJobOwners /\ ~(identified \subseteq links)
Marked(j)   == \E a \in Parked("markFailed") : j \in a.owned

RunSent(j) == \E c \in links : Msg("job:run", j) \in Range(toAgent[c])
Reported(j, types) == \E c \in links, type \in types : Msg(type, j) \in Range(toHub[c])

\* The agent has it and all its closures report on the connection there is.
WorkedOn(j) == (Known(j) /\ ~Deaf(j)) \/ j \in unheard

WithAgent(j) == /\ activeWs \in links \cap identified /\ j \in activeJobOwners
                /\ RunSent(j) \/ Reported(j, Outcomes) \/ WorkedOn(j)

Pursued(j) == Active(j) => Sending(j) \/ Failing(j) \/ Ending(j) \/ Orphaned(j) \/ Marked(j) \/ WithAgent(j)

\* What the agent has, or is sent, or reported of, has an owner or is about to have one.
HasOwner(j) == Known(j) \/ RunSent(j) \/ Reported(j, Reports)
               => j \in activeJobOwners \/ Sending(j) \/ Failing(j)

\* Behind a start report comes the run's end, if the agent is not at it any more.
EndFollows(q, j, i) == \E k \in (i + 1)..Len(q), type \in Outcomes : q[k] = Msg(type, j)
StartsFollowed(c) ==
    \A i \in 1..Len(toHub[c]), j \in Jobs :
        toHub[c][i] = Msg("started", j) => WorkedOn(j) \/ EndFollows(toHub[c], j, i)

\* The agent reports only on a connection the server knows it by.
ReportsKnown(c) == c \in identified \/ Range(toHub[c]) \subseteq {Register}

\* A job that has both a closure which is heard and one which is not is in history.
DeafIsUnheard(j) == (\E n \in Closures : n.job = j /\ n.ws = activeWs) /\ Deaf(j) => j \in unheard

WorkedInv == /\ \A j \in Jobs \ crossed : HasOwner(j) /\ Pursued(j)
             /\ \A c \in links : StartsFollowed(c) /\ ReportsKnown(c)
             /\ \A j \in Jobs : DeafIsUnheard(j)

\* Who of the agent cannot be heard, by its closures.
LEMMA DeafFrom ==
    ASSUME NEW j
    PROVE  /\ Deaf(j) <=> \E n \in Closures : n.job = j /\ n.ws # activeWs
           /\ Deaf(j)' <=> \E n \in Closures' : n.job = j /\ n.ws # activeWs'
BY DEF Deaf, Closures, Range

\* A live connection is the agent's own, and the server knows the agent by it if it was used.
LEMMA LiveIsOwn ==
    ASSUME DispatchInv, NEW c \in links
    PROVE  /\ c = activeWs /\ c \in Conns /\ c \in hubOpen /\ links = {activeWs}
           /\ toHub[c] \in Seq(ToHub) /\ toAgent[c] \in Seq(ToAgent)
<1>1. c \in Conns
  BY DispatchAssumption DEF DispatchInv, TypeOK, NetTypeOK
<1> QED BY <1>1 DEF DispatchInv, OneLink, TypeOK, NetTypeOK

\* What the server sends adds to the connection nothing but what it sends.
LEMMA SentOnly ==
    ASSUME NetTypeOK, NEW c, NEW msgs \in Seq(ToAgent), toAgent' = Sent(toAgent, c, msgs), NEW d \in links
    PROVE  Range(toAgent'[d]) \subseteq Range(toAgent[d]) \cup Range(msgs)
<1>1. d \in Conns /\ toAgent[d] \in Seq(ToAgent)
  BY DispatchAssumption DEF NetTypeOK
<1>2. CASE d = c
  <2>1. toAgent'[d] = toAgent[d] \o msgs
    BY <1>1, <1>2 DEF Sent, NetTypeOK
  <2>2. PICK q \in Seq(ToAgent) : q = toAgent[d]
    BY <1>1
  <2>3. \A i \in DOMAIN (q \o msgs) : (q \o msgs)[i] \in Range(q) \cup Range(msgs)
    <3> SUFFICES ASSUME NEW i \in 1..(Len(q) + Len(msgs)) PROVE (q \o msgs)[i] \in Range(q) \cup Range(msgs)
      BY <2>2
    <3>1. CASE i <= Len(q)
      <4>1. (q \o msgs)[i] = q[i] /\ i \in DOMAIN q
        BY <2>2, <3>1
      <4> QED BY <4>1 DEF Range
    <3>2. CASE ~(i <= Len(q))
      <4>1. (q \o msgs)[i] = msgs[i - Len(q)] /\ i - Len(q) \in DOMAIN msgs
        BY <2>2, <3>2
      <4> QED BY <4>1 DEF Range
    <3> QED BY <3>1, <3>2
  <2> QED BY <2>1, <2>2, <2>3 DEF Range
<1>3. CASE d # c
  <2>1. toAgent'[d] = toAgent[d]
    BY <1>1, <1>3 DEF Sent, NetTypeOK
  <2> QED BY <2>1
<1> QED BY <1>2, <1>3

\* Steps of the server that leave the agent and the messages on their way to the server
\* alone: only what it knows of the jobs is at stake.
LEMMA HubOnly ==
    ASSUME WorkedInv, UNCHANGED <<agentVars, links, identified, activeWs, toHub, unheard>>,
           \A j \in Jobs \ crossed' : (HasOwner(j) /\ Pursued(j))'
    PROVE  WorkedInv'
<1>1. Closures' = Closures
  BY DEF Closures, agentVars, Range
<1>2. \A j : (Known(j)' <=> Known(j)) /\ (Deaf(j)' <=> Deaf(j)) /\ (WorkedOn(j)' <=> WorkedOn(j))
  BY DEF Known, Deaf, WorkedOn, agentVars
<1>3. \A c \in links : StartsFollowed(c)' /\ ReportsKnown(c)'
  BY <1>2 DEF WorkedInv, StartsFollowed, ReportsKnown, EndFollows
<1>4. \A j \in Jobs : DeafIsUnheard(j)'
  BY <1>1, <1>2 DEF WorkedInv, DeafIsUnheard
<1> QED BY <1>3, <1>4 DEF WorkedInv

\* A job that a step of the server leaves alone keeps its owner and who pursues it.
LEMMA LeftAlone ==
    ASSUME NEW j, HasOwner(j), Pursued(j), Known(j)' <=> Known(j),
           WorkedOn(j)' <=> WorkedOn(j), UNCHANGED <<links, identified, activeWs, toHub>>,
           Active(j)' => Active(j), j \in activeJobOwners => j \in activeJobOwners',
           Sending(j) => Sending(j)', Failing(j) => Failing(j)', Ending(j) => Ending(j)', Marked(j) => Marked(j)',
           RunSent(j)' <=> RunSent(j)
    PROVE  (HasOwner(j) /\ Pursued(j))'
<1>1. \A types : Reported(j, types)' <=> Reported(j, types)
  BY DEF Reported
<1>2. HasOwner(j)'
  BY <1>1 DEF HasOwner
<1>3. Orphaned(j) => Orphaned(j)'
  BY DEF Orphaned
<1>4. WithAgent(j) => WithAgent(j)'
  BY <1>1 DEF WithAgent
<1> QED BY <1>2, <1>3, <1>4 DEF Pursued

\* A job that is not active, and that the agent does not have, needs nobody.
LEMMA AtPeace ==
    ASSUME NEW j, ~Active(j)', ~Known(j)', ~RunSent(j)', ~Reported(j, Reports)'
    PROVE  (HasOwner(j) /\ Pursued(j))'
BY DEF HasOwner, Pursued

\* Where the end of another request is not in history, the agent had nothing of the job.
LEMMA NotCrossed ==
    ASSUME NEW j, j \notin Crossing(j) PROVE ~Known(j) /\ ~RunSent(j) /\ ~Reported(j, Reports)
BY DEF Crossing, RunSent, Reported

\* A handler that is sent on, or is over, leaves the others.
LEMMA OthersStay ==
    ASSUME HubTypeOK, NEW a, NEW j \in Jobs, End(a) \/ \E d : Continue(a, d)
    PROVE  /\ a # [kind |-> "queueJob", job |-> j, step |-> "send"] => (Sending(j) => Sending(j)')
           /\ ~(a \in Parked("markFailed") /\ a.failing = j) => (Failing(j) => Failing(j)')
           /\ ~(a \in Parked("ended") /\ a.job = j) => (Ending(j) => Ending(j)')
           /\ ~(a \in Parked("markFailed") /\ j \in a.owned) => (Marked(j) => Marked(j)')
<1>1. \A b : b # a => (b \in BagToSet(activities) => b \in BagToSet(activities'))
  BY EndedBag, ContinuedBag
<1> QED BY <1>1 DEF Sending, Failing, Ending, Marked, Parked

\* The server's handlers.  One that overwrites a row leaves the job at peace, or history
\* says so; one that sends a job, or hands it to the close handler, says who has it now.
LEMMA ActivityKeepsWorked ==
    ASSUME DispatchInv, WorkedInv, HubActivity
    PROVE  WorkedInv'
<1> PICK a \in BagToSet(activities) :
        \/ QueueJob(a) \/ BroadcastJobRun(a) \/ SetCancelled(a) \/ BroadcastJobCancel(a)
        \/ ReadQueued(a) \/ Redispatch(a) \/ SetEnded(a) \/ DisownNext(a) \/ SetFailed(a)
  BY DEF HubActivity
<1>1. TypeOK /\ HubTypeOK /\ NetTypeOK /\ status \in [Jobs -> Status]
  BY DEF DispatchInv, TypeOK, HubTypeOK
<1>2. UNCHANGED <<agentVars, links, identified, activeWs, toHub, unheard>>
  BY HubLeavesQueue DEF QueueJob, BroadcastJobRun, SetCancelled, BroadcastJobCancel,
         ReadQueued, Redispatch, SetEnded, DisownNext, SetFailed, HubActivity, netVars, history
<1> SUFFICES ASSUME NEW j \in Jobs, j \notin crossed' PROVE (HasOwner(j) /\ Pursued(j))'
  BY <1>2, HubOnly
<1>3. (Known(j)' <=> Known(j)) /\ (WorkedOn(j)' <=> WorkedOn(j))
  BY <1>2 DEF Known, Deaf, WorkedOn, agentVars
<1>4. \A types : Reported(j, types)' <=> Reported(j, types)
  BY <1>2 DEF Reported
<1>5. ASSUME j \notin crossed, Active(j)' => Active(j), j \in activeJobOwners => j \in activeJobOwners',
             Sending(j) => Sending(j)', Failing(j) => Failing(j)', Ending(j) => Ending(j)',
             Marked(j) => Marked(j)', RunSent(j)' <=> RunSent(j)
      PROVE  (HasOwner(j) /\ Pursued(j))'
  <2>1. HasOwner(j) /\ Pursued(j)
    BY <1>5 DEF WorkedInv
  <2> QED BY <1>2, <1>3, <1>5, <2>1, LeftAlone
<1>6. ASSUME ~Active(j)', RunSent(j)' <=> RunSent(j), j \notin Crossing(j) PROVE (HasOwner(j) /\ Pursued(j))'
  BY <1>3, <1>4, <1>6, AtPeace, NotCrossed
<1>7. UNCHANGED toAgent => (RunSent(j)' <=> RunSent(j))
  BY <1>2 DEF RunSent
<1>8. None # j
  BY NoneIsNoConn
<1>10. CASE QueueJob(a)
  <2>1. a \in CallActivity /\ a.kind = "queueJob" /\ a.step = "set" /\ a.job \in Jobs
    BY <1>1, <1>10, ActivityShape DEF QueueJob, Parked, CallActivity
  <2>2. Continue(a, [a EXCEPT !.step = "send"]) /\ toAgent' = toAgent /\ activeJobOwners' = activeJobOwners
    BY <1>10 DEF QueueJob, netVars
  <2>3. CASE a.job = j
    <3>1. [a EXCEPT !.step = "send"] = [kind |-> "queueJob", job |-> j, step |-> "send"]
      BY <2>1, <2>3 DEF CallActivity
    <3>2. Sending(j)'
      BY <1>1, <2>2, <3>1, ContinuedBag DEF Sending
    <3> QED BY <3>2 DEF HasOwner, Pursued
  <2>4. CASE a.job # j
    <3>1. j \notin crossed /\ status'[j] = status[j]
      BY <1>1, <1>10, <2>1, <2>4 DEF QueueJob
    <3>2. a # [kind |-> "queueJob", job |-> j, step |-> "send"] /\ a \notin Parked("markFailed") \cup Parked("ended")
      BY <2>1 DEF Parked
    <3>3. (Sending(j) => Sending(j)') /\ (Failing(j) => Failing(j)') /\ (Ending(j) => Ending(j)') /\ (Marked(j) => Marked(j)')
      BY <1>1, <2>2, <3>2, OthersStay
    <3> QED BY <1>5, <1>7, <2>2, <3>1, <3>3 DEF Active
  <2> QED BY <2>3, <2>4
<1>11. CASE BroadcastJobRun(a)
  <2>1. a \in CallActivity /\ a.kind = "queueJob" /\ a.step = "send" /\ a.job \in Jobs
    BY <1>1, <1>11, ActivityShape DEF BroadcastJobRun, Parked, CallActivity
  <2>2. End(a) /\ crossed \subseteq crossed'
    BY <1>11 DEF BroadcastJobRun, Crossing
  <2>3. CASE a.job # j
    <3>1. status'[j] = status[j] /\ activeJobOwners \subseteq activeJobOwners'
      BY <1>1, <1>11, <2>1, <2>3 DEF BroadcastJobRun
    <3>2. a # [kind |-> "queueJob", job |-> j, step |-> "send"] /\ a \notin Parked("markFailed") \cup Parked("ended")
      BY <2>1, <2>3 DEF Parked
    <3>3. (Sending(j) => Sending(j)') /\ (Failing(j) => Failing(j)') /\ (Ending(j) => Ending(j)') /\ (Marked(j) => Marked(j)')
      BY <1>1, <2>2, <3>2, OthersStay
    <3>4. RunSent(j)' <=> RunSent(j)
      <4>1. CASE toAgent' = toAgent
        BY <1>7, <4>1
      <4>2. CASE toAgent' = Sent(toAgent, registered, <<Msg("job:run", a.job)>>)
        <5>1. <<Msg("job:run", a.job)>> \in Seq(ToAgent)
          BY <2>1, MsgTyped
        <5>2. Msg("job:run", j) \notin Range(<<Msg("job:run", a.job)>>)
          BY <2>3 DEF Range, Msg
        <5>3. \A c \in links : /\ Range(toAgent[c]) \subseteq Range(toAgent'[c])
                               /\ Range(toAgent'[c]) \subseteq Range(toAgent[c]) \cup Range(<<Msg("job:run", a.job)>>)
          BY <1>1, <4>2, <5>1, SentOnly, SentToOthers
        <5> QED BY <1>2, <5>2, <5>3 DEF RunSent
      <4> QED BY <1>11, <4>1, <4>2 DEF BroadcastJobRun
    <3> QED BY <1>5, <2>2, <3>1, <3>3, <3>4 DEF Active
  <2>4. CASE a.job = j /\ registered \in hubOpen
    <3>1. toAgent' = Sent(toAgent, registered, <<Msg("job:run", j)>>) /\ j \in activeJobOwners'
      BY <1>11, <2>4 DEF BroadcastJobRun
    <3>2. registered \in identified
      <4>1. registered \in Conns
        BY <1>1, <2>4, DispatchAssumption DEF NetTypeOK
      <4> QED BY <4>1, NoneIsNoConn DEF DispatchInv, ConnsFit
    <3>3. HasOwner(j)'
      BY <3>1 DEF HasOwner
    <3>4. CASE registered \in links
      <4>1. registered = activeWs
        BY <3>4, LiveIsOwn
      <4>2. <<Msg("job:run", j)>> \in Seq(ToAgent) /\ Msg("job:run", j) \in Range(<<Msg("job:run", j)>>)
        BY MsgTyped DEF Range
      <4>3. Range(<<Msg("job:run", j)>>) \subseteq Range(toAgent'[registered])
        BY <1>1, <3>1, <3>4, <4>2, SentToOthers
      <4>4. RunSent(j)'
        BY <1>2, <3>4, <4>2, <4>3 DEF RunSent
      <4>5. WithAgent(j)'
        BY <1>2, <3>1, <3>2, <3>4, <4>1, <4>4 DEF WithAgent
      <4> QED BY <3>3, <4>5 DEF Pursued
    <3>5. CASE registered \notin links
      <4>1. Orphaned(j)'
        BY <1>2, <3>1, <3>2, <3>5 DEF Orphaned
      <4> QED BY <3>3, <4>1 DEF Pursued
    <3> QED BY <3>4, <3>5
  <2>5. CASE a.job = j /\ registered \notin hubOpen
    <3>1. status'[j] = "error" /\ crossed' = Crossing(j) /\ toAgent' = toAgent
      BY <1>1, <1>11, <2>5 DEF BroadcastJobRun
    <3> QED BY <1>6, <1>7, <3>1 DEF Active
  <2> QED BY <2>3, <2>4, <2>5
<1>12. CASE SetCancelled(a)
  <2>1. a \in CallActivity /\ a.kind = "cancel" /\ a.job \in Jobs
    BY <1>1, <1>12, ActivityShape DEF SetCancelled, Parked, CallActivity
  <2>2. /\ \E d : Continue(a, d)
        /\ toAgent' = toAgent /\ activeJobOwners' = activeJobOwners /\ crossed' = crossed
        /\ status' = [status EXCEPT ![a.job] = "cancelled"]
    BY <1>12 DEF SetCancelled, netVars, history
  <2>3. Active(j)' => Active(j)
    BY <1>1, <2>1, <2>2 DEF Active
  <2>4. a # [kind |-> "queueJob", job |-> j, step |-> "send"] /\ a \notin Parked("markFailed") \cup Parked("ended")
    BY <2>1 DEF Parked
  <2>5. (Sending(j) => Sending(j)') /\ (Failing(j) => Failing(j)') /\ (Ending(j) => Ending(j)') /\ (Marked(j) => Marked(j)')
    BY <1>1, <2>2, <2>4, OthersStay
  <2> QED BY <1>5, <1>7, <2>2, <2>3, <2>5
<1>13. CASE BroadcastJobCancel(a)
  <2>1. a \in CallActivity /\ a.kind = "cancel" /\ a.job \in Jobs
    BY <1>1, <1>13, ActivityShape DEF BroadcastJobCancel, Parked, CallActivity
  <2>2. /\ End(a) /\ activeJobOwners' = activeJobOwners /\ crossed \subseteq crossed' /\ status' = status
    BY <1>13 DEF BroadcastJobCancel, Crossing
  <2>3. a # [kind |-> "queueJob", job |-> j, step |-> "send"] /\ a \notin Parked("markFailed") \cup Parked("ended")
    BY <2>1 DEF Parked
  <2>4. (Sending(j) => Sending(j)') /\ (Failing(j) => Failing(j)') /\ (Ending(j) => Ending(j)') /\ (Marked(j) => Marked(j)')
    BY <1>1, <2>2, <2>3, OthersStay
  <2>5. RunSent(j)' <=> RunSent(j)
    <3>1. CASE toAgent' = toAgent
      BY <1>7, <3>1
    <3>2. CASE toAgent' = Sent(toAgent, registered, <<Msg("job:cancel", a.job)>>)
      <4>1. <<Msg("job:cancel", a.job)>> \in Seq(ToAgent)
        BY <2>1, MsgTyped
      <4>2. Msg("job:run", j) \notin Range(<<Msg("job:cancel", a.job)>>)
        BY DEF Range, Msg
      <4>3. \A c \in links : /\ Range(toAgent[c]) \subseteq Range(toAgent'[c])
                             /\ Range(toAgent'[c]) \subseteq Range(toAgent[c]) \cup Range(<<Msg("job:cancel", a.job)>>)
        BY <1>1, <3>2, <4>1, SentOnly, SentToOthers
      <4> QED BY <1>2, <4>2, <4>3 DEF RunSent
    <3> QED BY <1>13, <3>1, <3>2 DEF BroadcastJobCancel
  <2> QED BY <1>5, <2>2, <2>4, <2>5 DEF Active
<1>14. CASE ReadQueued(a)
  <2>1. /\ \E d : Continue(a, d)
        /\ toAgent' = toAgent /\ activeJobOwners' = activeJobOwners /\ crossed' = crossed /\ status' = status
    BY <1>14 DEF ReadQueued, netVars, history
  <2>2. a # [kind |-> "queueJob", job |-> j, step |-> "send"] /\ a \notin Parked("markFailed") \cup Parked("ended")
    BY <1>14 DEF ReadQueued, Parked
  <2>3. (Sending(j) => Sending(j)') /\ (Failing(j) => Failing(j)') /\ (Ending(j) => Ending(j)') /\ (Marked(j) => Marked(j)')
    BY <1>1, <2>1, <2>2, OthersStay
  <2> QED BY <1>5, <1>7, <2>1, <2>3 DEF Active
<1>15. CASE Redispatch(a)
  <2>1. /\ End(a) /\ crossed' = crossed /\ status' = status
        /\ activeJobOwners' = activeJobOwners \cup a.queued
    BY <1>15 DEF Redispatch, history
  <2>2. a # [kind |-> "queueJob", job |-> j, step |-> "send"] /\ a \notin Parked("markFailed") \cup Parked("ended")
    BY <1>15 DEF Redispatch, Parked
  <2>3. (Sending(j) => Sending(j)') /\ (Failing(j) => Failing(j)') /\ (Ending(j) => Ending(j)') /\ (Marked(j) => Marked(j)')
    BY <1>1, <2>1, <2>2, OthersStay
  <2>4. a.queued \subseteq Jobs
    <3>1. a \in RegisterActivity /\ a.queued # None
      BY <1>1, <1>15, ActivityShape DEF Redispatch
    <3>2. a.queued \in (SUBSET Jobs) \cup {None}
      BY <3>1 DEF RegisterActivity
    <3> QED BY <3>1, <3>2
  <2>5. PICK order \in SetToSeqs(a.queued) :
            toAgent' = Sent(toAgent, a.conn, [i \in DOMAIN order |-> Msg("job:run", order[i])])
    BY <1>15 DEF Redispatch
  <2>6. PICK n \in Nat : order \in [1..n -> a.queued]
    BY <2>4, JobsCounted DEF SetToSeqs
  <2> DEFINE msgs == [i \in DOMAIN order |-> Msg("job:run", order[i])]
  <2>7. msgs \in Seq(ToAgent) /\ \A m \in Range(msgs) : m.job \in a.queued
    <3>1. \A k \in a.queued : Msg("job:run", k) \in ToAgent /\ Msg("job:run", k).job = k
      BY <2>4 DEF ToAgent, Message, Msg
    <3>2. msgs \in [1..n -> ToAgent] /\ \A i \in 1..n : msgs[i] = Msg("job:run", order[i]) /\ order[i] \in a.queued
      BY <2>6, <3>1
    <3>3. \A m \in Range(msgs) : m.job \in a.queued
      BY <3>1, <3>2 DEF Range
    <3> HIDE DEF msgs
    <3> QED BY <3>2, <3>3
  <2>8. toAgent' = Sent(toAgent, a.conn, msgs)
    BY <2>5
  <2> HIDE DEF msgs
  <2>9. \A c \in links : /\ Range(toAgent[c]) \subseteq Range(toAgent'[c])
                         /\ Range(toAgent'[c]) \subseteq Range(toAgent[c]) \cup Range(msgs)
    BY <1>1, <2>7, <2>8, SentOnly, SentToOthers
  <2>10. RunSent(j) => RunSent(j)'
    BY <1>2, <2>9 DEF RunSent
  <2>11. RunSent(j)' => RunSent(j) \/ j \in a.queued
    <3>1. Msg("job:run", j).job = j
      BY DEF Msg
    <3> QED BY <1>2, <2>7, <2>9, <3>1 DEF RunSent
  <2>12. HasOwner(j) /\ Pursued(j) /\ (Active(j)' <=> Active(j))
    BY <2>1 DEF WorkedInv, Active
  <2>13. HasOwner(j)'
    BY <1>3, <1>4, <2>1, <2>3, <2>11, <2>12 DEF HasOwner
  <2>14. (Orphaned(j) => Orphaned(j)') /\ (WithAgent(j) => WithAgent(j)')
    BY <1>2, <1>3, <1>4, <2>1, <2>10 DEF Orphaned, WithAgent
  <2> QED BY <2>3, <2>12, <2>13, <2>14 DEF Pursued
<1>16. CASE SetEnded(a)
  <2>1. /\ End(a) /\ crossed' = Crossing(a.job) /\ toAgent' = toAgent /\ a \in Parked("ended")
        /\ status' = [status EXCEPT ![a.job] = a.outcome] /\ activeJobOwners' = activeJobOwners \ {a.job}
    BY <1>16 DEF SetEnded, netVars
  <2>2. a.job \in Jobs /\ a.outcome \in Outcomes
    BY <1>1, <2>1, ActivityShape DEF EndedActivity
  <2>3. CASE a.job = j
    <3>1. status'[j] \in Outcomes
      BY <1>1, <2>1, <2>2, <2>3
    <3> QED BY <1>6, <1>7, <2>1, <2>3, <3>1 DEF Active, Outcomes
  <2>4. CASE a.job # j
    <3>1. j \notin crossed /\ status'[j] = status[j] /\ (j \in activeJobOwners => j \in activeJobOwners')
      BY <1>1, <2>1, <2>4 DEF Crossing
    <3>2. a # [kind |-> "queueJob", job |-> j, step |-> "send"] /\ a \notin Parked("markFailed")
      BY <2>1 DEF Parked
    <3>3. (Sending(j) => Sending(j)') /\ (Failing(j) => Failing(j)') /\ (Ending(j) => Ending(j)') /\ (Marked(j) => Marked(j)')
      BY <1>1, <2>1, <2>4, <3>2, OthersStay
    <3> QED BY <1>5, <1>7, <2>1, <3>1, <3>3 DEF Active
  <2> QED BY <2>3, <2>4
<1>17. CASE DisownNext(a)
  <2>1. a \in Parked("markFailed") /\ a.failing = None /\ toAgent' = toAgent /\ status' = status /\ a \in CloseActivity
    BY <1>1, <1>17, ActivityShape DEF DisownNext, netVars
  <2>2. a # [kind |-> "queueJob", job |-> j, step |-> "send"] /\ a \notin Parked("ended")
    BY <2>1 DEF Parked
  <2>3. ASSUME End(a) \/ \E d : Continue(a, d)
        PROVE  /\ (Sending(j) => Sending(j)') /\ (Failing(j) => Failing(j)') /\ (Ending(j) => Ending(j)')
               /\ j \notin a.owned => (Marked(j) => Marked(j)')
    BY <1>1, <1>8, <2>1, <2>2, <2>3, OthersStay
  <2>4. CASE a.owned = {} /\ End(a) /\ UNCHANGED <<activeJobOwners, crossed>>
    BY <1>5, <1>7, <2>1, <2>3, <2>4 DEF Active
  <2>5. ASSUME NEW k \in a.owned, activeJobOwners' = activeJobOwners \ {k},
               Continue(a, [a EXCEPT !.owned = @ \ {k}, !.failing = IF Active(k) THEN k ELSE None]),
               crossed' = IF Active(k) THEN crossed ELSE Crossing(k)
        PROVE  (HasOwner(j) /\ Pursued(j))'
    <3> DEFINE b == [a EXCEPT !.owned = @ \ {k}, !.failing = IF Active(k) THEN k ELSE None]
    <3>1. b.kind = "markFailed" /\ b.owned = a.owned \ {k} /\ b.failing = IF Active(k) THEN k ELSE None
      BY <2>1 DEF CloseActivity, Parked
    <3>2. Continue(a, b)
      BY <2>5
    <3> HIDE DEF b
    <3>3. b \in Parked("markFailed")'
      BY <1>1, <3>1, <3>2, ContinuedBag DEF Parked
    <3>4. CASE k = j /\ Active(j)
      <4>1. Failing(j)'
        BY <3>1, <3>3, <3>4 DEF Failing
      <4> QED BY <4>1 DEF HasOwner, Pursued
    <3>5. CASE k = j /\ ~Active(j)
      <4>1. ~Active(j)' /\ j \notin Crossing(j)
        BY <2>1, <2>5, <3>5 DEF Active
      <4> QED BY <1>6, <1>7, <2>1, <4>1
    <3>6. CASE k # j
      <4>1. j \in a.owned => Marked(j)'
        BY <3>1, <3>3, <3>6 DEF Marked
      <4>2. j \notin crossed /\ (j \in activeJobOwners => j \in activeJobOwners')
        BY <2>5, <3>6 DEF Crossing
      <4> QED BY <1>5, <1>7, <2>1, <2>3, <3>2, <4>1, <4>2 DEF Active
    <3> QED BY <3>4, <3>5, <3>6
  <2> QED BY <1>17, <2>4, <2>5 DEF DisownNext
<1>18. CASE SetFailed(a)
  <2>1. /\ a \in Parked("markFailed") /\ a.failing # None /\ toAgent' = toAgent /\ a \in CloseActivity
        /\ status' = [status EXCEPT ![a.failing] = "error"] /\ crossed' = Crossing(a.failing)
        /\ activeJobOwners' = activeJobOwners
    BY <1>1, <1>18, ActivityShape DEF SetFailed, netVars
  <2>2. a.failing \in Jobs
    BY <2>1 DEF CloseActivity
  <2> DEFINE b == [a EXCEPT !.failing = None]
  <2>3. b.kind = "markFailed" /\ b.owned = a.owned
    BY <2>1 DEF CloseActivity, Parked
  <2>4. Continue(a, b)
    BY <1>18 DEF SetFailed
  <2> HIDE DEF b
  <2>5. CASE a.failing = j
    <3>1. status'[j] = "error"
      BY <1>1, <2>1, <2>2, <2>5
    <3> QED BY <1>6, <1>7, <2>1, <2>5, <3>1 DEF Active
  <2>6. CASE a.failing # j
    <3>1. j \notin crossed /\ status'[j] = status[j]
      BY <1>1, <2>1, <2>6 DEF Crossing
    <3>2. a # [kind |-> "queueJob", job |-> j, step |-> "send"] /\ a \notin Parked("ended")
      BY <2>1 DEF Parked
    <3>3. /\ (Sending(j) => Sending(j)') /\ (Failing(j) => Failing(j)') /\ (Ending(j) => Ending(j)')
          /\ j \notin a.owned => (Marked(j) => Marked(j)')
      BY <1>1, <2>4, <2>6, <3>2, OthersStay
    <3>4. b \in Parked("markFailed")'
      BY <1>1, <2>3, <2>4, ContinuedBag DEF Parked
    <3>5. j \in a.owned => Marked(j)'
      BY <2>3, <3>4 DEF Marked
    <3> QED BY <1>5, <1>7, <2>1, <3>1, <3>3, <3>5 DEF Active
  <2> QED BY <2>5, <2>6
<1> QED BY <1>10, <1>11, <1>12, <1>13, <1>14, <1>15, <1>16, <1>17, <1>18

\* A message the server takes is the first; the rest is as it was, the run's end behind
\* each start report included.
LEMMA TakenWorks ==
    ASSUME DispatchInv, WorkedInv, NEW c \in Conns, Received(c), NEW d \in links,
           UNCHANGED <<agentVars, links, activeWs, unheard>>
    PROVE  /\ StartsFollowed(d)' /\ Range(toHub'[d]) \subseteq Range(toHub[d])
           /\ \A m \in Range(toHub[d]) : m # Head(toHub[c]) => m \in Range(toHub'[d])
<1>1. \A j : WorkedOn(j)' <=> WorkedOn(j)
  BY DEF Known, Deaf, WorkedOn, agentVars
<1>2. d \in Conns /\ toHub[d] \in Seq(ToHub) /\ toHub \in [Conns -> Seq(ToHub)]
  BY LiveIsOwn DEF DispatchInv, TypeOK, NetTypeOK
<1>3. StartsFollowed(d)
  BY DEF WorkedInv
<1>4. CASE d = c
  <2>1. PICK q \in Seq(ToHub), r \in Seq(ToHub) : q = toHub[d] /\ q # <<>> /\ r = Tail(q) /\ toHub'[d] = r
    BY <1>2, <1>4, HeadTailProperties DEF Received
  <2>2. Len(q) \in Nat /\ Len(r) = Len(q) - 1 /\ \A i \in 1..Len(r) : r[i] = q[i + 1] /\ i + 1 \in 1..Len(q)
    BY <2>1
  <2>3. DOMAIN q = 1..Len(q) /\ DOMAIN r = 1..Len(r)
    BY <2>1
  <2>4. Range(r) \subseteq Range(q)
    BY <2>2, <2>3 DEF Range
  <2>5. \A m \in Range(q) : m # Head(q) => m \in Range(r)
    BY <2>1, TailKeeps
  <2>6. ASSUME NEW i \in 1..Len(r), NEW j \in Jobs, r[i] = Msg("started", j)
        PROVE  WorkedOn(j)' \/ EndFollows(r, j, i)
    <3>1. WorkedOn(j) \/ EndFollows(q, j, i + 1)
      BY <1>3, <2>1, <2>2, <2>6 DEF StartsFollowed
    <3>2. ASSUME EndFollows(q, j, i + 1) PROVE EndFollows(r, j, i)
      <4>1. PICK k \in ((i + 1) + 1)..Len(q), type \in Outcomes : q[k] = Msg(type, j)
        BY <3>2 DEF EndFollows
      <4>2. k - 1 \in (i + 1)..Len(r) /\ k - 1 \in 1..Len(r) /\ (k - 1) + 1 = k
        BY <2>2
      <4>3. r[k - 1] = Msg(type, j)
        BY <2>2, <4>1, <4>2
      <4> QED BY <4>2, <4>3 DEF EndFollows
    <3> QED BY <1>1, <3>1, <3>2
  <2>7. \A i \in 1..Len(r), j \in Jobs :
            r[i] = Msg("started", j) => WorkedOn(j)' \/ EndFollows(r, j, i)
    BY <2>6
  <2>8. StartsFollowed(d)'
    BY <2>1, <2>7 DEF StartsFollowed
  <2> QED BY <1>4, <2>1, <2>4, <2>5, <2>8
<1>5. CASE d # c
  <2>1. toHub'[d] = toHub[d]
    BY <1>2, <1>5 DEF Received
  <2>2. StartsFollowed(d)'
    BY <1>1, <1>3, <2>1 DEF StartsFollowed, EndFollows
  <2> QED BY <2>1, <2>2
<1> QED BY <1>4, <1>5

\* The server's end of a connection.  Behind the start report that shows a job as running
\* is its end, or the agent is at it; the close handler is given every job the agent owns.
LEMMA ConnKeepsWorked ==
    ASSUME DispatchInv, WorkedInv, NEW c \in Conns, HubConn(c)
    PROVE  WorkedInv'
<1>1. TypeOK /\ HubTypeOK /\ NetTypeOK /\ status \in [Jobs -> Status]
  BY DEF DispatchInv, TypeOK, HubTypeOK
<1>2. UNCHANGED <<agentVars, links, activeWs, activeJobOwners, toAgent, unheard, crossed>>
  BY DEF HubConn, HubRegister, HubStarted, HubEnded, HubClose, history
<1>3. /\ \A j : /\ (Known(j)' <=> Known(j)) /\ (Deaf(j)' <=> Deaf(j)) /\ (WorkedOn(j)' <=> WorkedOn(j))
                /\ (RunSent(j)' <=> RunSent(j))
      /\ Closures' = Closures
  BY <1>2 DEF Known, Deaf, WorkedOn, RunSent, Closures, agentVars, Range
<1>4. /\ \A j \in Jobs : DeafIsUnheard(j)'
      /\ \A j \in Jobs \ crossed : HasOwner(j) /\ Pursued(j)
  BY <1>2, <1>3 DEF WorkedInv, DeafIsUnheard
<1>5. BagToSet(activities) \subseteq BagToSet(activities')
  <2>1. UNCHANGED activities \/ \E a : Begin(a)
    BY DEF HubConn, HubRegister, HubStarted, HubEnded, HubClose
  <2> QED BY <1>1, <2>1, BegunBag
<1>6. \A j : /\ (Sending(j) => Sending(j)') /\ (Failing(j) => Failing(j)')
             /\ (Ending(j) => Ending(j)') /\ (Marked(j) => Marked(j)')
  BY <1>5 DEF Sending, Failing, Ending, Marked, Parked
<1>7. ASSUME \A d \in links : Range(toHub'[d]) \subseteq Range(toHub[d]),
             NEW j \in Jobs \ crossed, Active(j)' => Active(j),
             Reported(j, Outcomes) => Reported(j, Outcomes)' \/ Ending(j)',
             Orphaned(j) => Orphaned(j)' \/ Marked(j)',
             activeWs \in links \cap identified => activeWs \in identified'
      PROVE  (HasOwner(j) /\ Pursued(j))'
  <2>1. HasOwner(j) /\ Pursued(j)
    BY <1>4
  <2>2. Reported(j, Reports)' => Reported(j, Reports)
    BY <1>2, <1>7 DEF Reported
  <2>3. HasOwner(j)'
    BY <1>2, <1>3, <1>6, <2>1, <2>2 DEF HasOwner
  <2>4. WithAgent(j) => WithAgent(j)' \/ Ending(j)'
    BY <1>2, <1>3, <1>7 DEF WithAgent
  <2>5. Pursued(j)'
    BY <1>6, <1>7, <2>1, <2>4 DEF Pursued
  <2> QED BY <2>3, <2>5
<1>8. ASSUME Received(c), NEW j \in Jobs, \A type \in Outcomes : Msg(type, j) # Head(toHub[c])
      PROVE  Reported(j, Outcomes) => Reported(j, Outcomes)'
  <2>1. \A d \in links : \A m \in Range(toHub[d]) : m # Head(toHub[c]) => m \in Range(toHub'[d])
    BY <1>2, <1>8, TakenWorks
  <2> QED BY <1>2, <1>8, <2>1 DEF Reported
<1>9. ASSUME Received(c), identified \subseteq identified'
      PROVE  /\ \A d \in links : Range(toHub'[d]) \subseteq Range(toHub[d])
             /\ \A d \in links : StartsFollowed(d)' /\ ReportsKnown(d)'
  <2>1. \A d \in links : StartsFollowed(d)' /\ Range(toHub'[d]) \subseteq Range(toHub[d])
    BY <1>2, <1>9, TakenWorks
  <2>2. \A d \in links : ReportsKnown(d)
    BY DEF WorkedInv
  <2> QED BY <1>9, <2>1, <2>2 DEF ReportsKnown
<1>10. ASSUME \A d \in links : StartsFollowed(d)' /\ ReportsKnown(d)',
              \A j \in Jobs \ crossed : (HasOwner(j) /\ Pursued(j))'
       PROVE  WorkedInv'
  BY <1>2, <1>4, <1>10 DEF WorkedInv
<1>11. CASE HubRegister(c)
  <2>1. Received(c) /\ Head(toHub[c]).type = "register" /\ identified' = identified \cup {c} /\ status' = status
    BY <1>11 DEF HubRegister
  <2>2. \A j : \A type \in Outcomes : Msg(type, j) # Head(toHub[c])
    BY <2>1 DEF Msg, Outcomes
  <2>3. \A j : Orphaned(j) => Orphaned(j)'
    BY <1>2, <2>1 DEF Orphaned
  <2>4. \A j : Active(j)' <=> Active(j)
    BY <2>1 DEF Active
  <2> QED BY <1>7, <1>8, <1>9, <1>10, <2>1, <2>2, <2>3, <2>4
<1>12. CASE HubStarted(c)
  <2>0. PICK k : k = Head(toHub[c]).job
    OBVIOUS
  <2>1. /\ Received(c) /\ Head(toHub[c]).type = "started" /\ identified' = identified /\ activities' = activities
        /\ status' = [status EXCEPT ![k] = "running"]
    BY <1>12, <2>0 DEF HubStarted
  <2>2. Head(toHub[c]) \in ToHub /\ c \in links /\ c = activeWs
    <3>1. Head(toHub[c]) \in ToHub /\ c \in links
      BY <1>1, <2>1, TakenTyped DEF Received, NetTypeOK
    <3> QED BY <3>1, LiveIsOwn
  <2>3. k \in Jobs /\ Head(toHub[c]) = Msg("started", k)
    BY <2>0, <2>1, <2>2 DEF ToHub, Message, Register, Msg
  <2>4. \A j : \A type \in Outcomes : Msg(type, j) # Head(toHub[c])
    BY <2>1 DEF Msg, Outcomes
  <2>5. \A j : Orphaned(j) => Orphaned(j)'
    BY <1>2, <2>1 DEF Orphaned
  <2>6. /\ \A d \in links : Range(toHub'[d]) \subseteq Range(toHub[d])
        /\ \A d \in links : StartsFollowed(d)' /\ ReportsKnown(d)'
    BY <1>9, <2>1
  <2>7. ASSUME NEW j \in Jobs \ crossed, j # k PROVE (HasOwner(j) /\ Pursued(j))'
    <3>1. Active(j)' => Active(j)
      BY <1>1, <2>1, <2>3, <2>7 DEF Active
    <3> QED BY <1>7, <1>8, <2>1, <2>4, <2>5, <2>6, <3>1
  <2>8. ASSUME k \notin crossed PROVE (HasOwner(k) /\ Pursued(k))'
    <3>1. toHub[c] \in Seq(ToHub) /\ toHub[c] # <<>> /\ Head(toHub[c]) = toHub[c][1] /\ 1 \in 1..Len(toHub[c])
      BY <2>1, <2>2, LiveIsOwn DEF Received
    <3>2. Msg("started", k) \in Range(toHub[c])
      BY <2>3, <3>1 DEF Range
    <3>3. Reported(k, Reports)
      BY <2>2, <3>2 DEF Reported, Reports
    <3>4. k \in activeJobOwners \/ Sending(k) \/ Failing(k)
      BY <1>4, <2>3, <2>8, <3>3 DEF HasOwner
    <3>5. HasOwner(k)'
      BY <1>2, <1>6, <3>4 DEF HasOwner
    <3>6. ASSUME k \in activeJobOwners PROVE WithAgent(k)'
      <4>1. c \in identified
        <5>1. Msg("started", k) # Register
          BY DEF Msg, Register
        <5> QED BY <2>2, <3>2, <5>1 DEF WorkedInv, ReportsKnown
      <4>2. WorkedOn(k) \/ EndFollows(toHub[c], k, 1)
        BY <2>2, <2>3, <3>1 DEF WorkedInv, StartsFollowed
      <4>3. ASSUME EndFollows(toHub[c], k, 1) PROVE Reported(k, Outcomes)'
        <5>1. PICK i \in (1 + 1)..Len(toHub[c]), type \in Outcomes : toHub[c][i] = Msg(type, k)
          BY <4>3 DEF EndFollows
        <5>2. i \in 1..Len(toHub[c]) /\ DOMAIN toHub[c] = 1..Len(toHub[c])
          BY <3>1
        <5>3. Msg(type, k) \in Range(toHub[c])
          BY <5>1, <5>2 DEF Range
        <5>4. Reported(k, Outcomes)
          BY <2>2, <5>3 DEF Reported
        <5> QED BY <1>8, <2>1, <2>3, <2>4, <5>4
      <4> QED BY <1>2, <1>3, <2>1, <2>2, <3>6, <4>1, <4>2, <4>3 DEF WithAgent
    <3> QED BY <1>6, <3>4, <3>5, <3>6 DEF Pursued
  <2> QED BY <1>10, <2>6, <2>7, <2>8
<1>13. CASE HubEnded(c)
  <2> DEFINE a == [kind |-> "ended", job |-> Head(toHub[c]).job, outcome |-> Head(toHub[c]).type]
  <2>1. Received(c) /\ Begin(a) /\ identified' = identified /\ status' = status
    BY <1>13 DEF HubEnded
  <2>2. a \in BagToSet(activities') /\ a.kind = "ended" /\ a.job = Head(toHub[c]).job
    BY <1>1, <2>1, BegunBag
  <2> HIDE DEF a
  <2>3. \A j \in Jobs : Reported(j, Outcomes) => Reported(j, Outcomes)' \/ Ending(j)'
    <3> SUFFICES ASSUME NEW j \in Jobs, Reported(j, Outcomes), ~Reported(j, Outcomes)' PROVE Ending(j)'
      OBVIOUS
    <3>1. PICK type \in Outcomes : Msg(type, j) = Head(toHub[c])
      BY <1>8, <2>1
    <3>2. a.job = j
      BY <2>2, <3>1 DEF Msg
    <3> QED BY <2>2, <3>2 DEF Ending, Parked
  <2>4. \A j : Orphaned(j) => Orphaned(j)'
    BY <1>2, <2>1 DEF Orphaned
  <2>5. \A j : Active(j)' <=> Active(j)
    BY <2>1 DEF Active
  <2> QED BY <1>7, <1>9, <1>10, <2>1, <2>3, <2>4, <2>5
<1>14. CASE HubClose(c)
  <2>1. c \notin links /\ identified' = identified \ {c} /\ toHub' = toHub /\ status' = status
    BY <1>14 DEF HubClose
  <2>2. \A d \in links : StartsFollowed(d)' /\ ReportsKnown(d)'
    BY <1>3, <2>1 DEF WorkedInv, StartsFollowed, ReportsKnown, EndFollows
  <2>3. ASSUME NEW j \in Jobs PROVE Orphaned(j) => Orphaned(j)' \/ Marked(j)'
    <3>1. CASE c \in identified
      <4> DEFINE a == [kind |-> "markFailed", owned |-> activeJobOwners, failing |-> None]
      <4>1. Begin(a)
        BY <1>14, <3>1 DEF HubClose
      <4>2. a \in BagToSet(activities') /\ a.kind = "markFailed" /\ a.owned = activeJobOwners
        BY <1>1, <4>1, BegunBag
      <4> HIDE DEF a
      <4> QED BY <4>2 DEF Orphaned, Marked, Parked
    <3>2. CASE c \notin identified
      BY <1>2, <2>1, <3>2 DEF Orphaned
    <3> QED BY <3>1, <3>2
  <2>4. \A j : (Active(j)' <=> Active(j)) /\ (Reported(j, Outcomes) => Reported(j, Outcomes)')
    BY <1>2, <2>1 DEF Active, Reported
  <2> QED BY <1>7, <1>10, <2>1, <2>2, <2>3, <2>4
<1> QED BY <1>11, <1>12, <1>13, <1>14 DEF HubConn

\* What a queue holds behind its first entry, and with it.
LEMMA HeadAndTail ==
    ASSUME NEW S, NEW q \in Seq(S), q # <<>>
    PROVE  Range(q) = {Head(q)} \cup Range(Tail(q))
<1>1. PICK n \in Nat : n = Len(q) /\ n # 0
  OBVIOUS
<1>2. DOMAIN q = 1..n /\ DOMAIN Tail(q) = 1..(n - 1) /\ Head(q) = q[1] /\ 1 \in 1..n
  BY <1>1
<1>3. \A i \in 1..(n - 1) : Tail(q)[i] = q[i + 1] /\ i + 1 \in 1..n
  BY <1>1
<1>4. Range(Tail(q)) \subseteq Range(q) /\ Head(q) \in Range(q)
  BY <1>2, <1>3 DEF Range
<1>5. \A m \in Range(q) : m # Head(q) => m \in Range(Tail(q))
  BY TailKeeps
<1> QED BY <1>4, <1>5

\* Steps of the agent leave the server alone; what it had been sent it works on, and what
\* it has worked on it has reported.
LEMMA AgentWorks ==
    ASSUME WorkedInv, UNCHANGED <<hubVars, links, identified, activeWs, crossed>>,
           \A d \in links : StartsFollowed(d)' /\ ReportsKnown(d)',
           \A j \in Jobs : DeafIsUnheard(j)',
           \A j \in Jobs : /\ Known(j)' => Known(j) \/ RunSent(j)
                           /\ RunSent(j)' => RunSent(j)
                           /\ RunSent(j) => RunSent(j)' \/ WorkedOn(j)'
                           /\ Reported(j, Reports)' => Reported(j, Reports) \/ Known(j)
                           /\ Reported(j, Outcomes) => Reported(j, Outcomes)',
           \A j \in Jobs, d \in links : WorkedOn(j) => WorkedOn(j)' \/ Reported(j, Outcomes)'
    PROVE  WorkedInv'
<1>1. UNCHANGED <<status, activeJobOwners, activities>>
  BY DEF hubVars
<1>2. \A j : /\ (Active(j)' <=> Active(j)) /\ (Sending(j)' <=> Sending(j)) /\ (Failing(j)' <=> Failing(j))
             /\ (Ending(j)' <=> Ending(j)) /\ (Marked(j)' <=> Marked(j)) /\ (Orphaned(j)' <=> Orphaned(j))
  BY <1>1 DEF Active, Sending, Failing, Ending, Marked, Orphaned, Parked
<1>3. ASSUME NEW j \in Jobs \ crossed PROVE (HasOwner(j) /\ Pursued(j))'
  <2>1. HasOwner(j) /\ Pursued(j)
    BY DEF WorkedInv
  <2>2. HasOwner(j)'
    BY <1>1, <1>2, <2>1 DEF HasOwner
  <2>3. WithAgent(j) => WithAgent(j)'
    BY <1>1 DEF WithAgent
  <2>4. Pursued(j)'
    BY <1>2, <2>1, <2>3 DEF Pursued
  <2> QED BY <2>2, <2>4
<1> QED BY <1>3 DEF WorkedInv

\* A report of the agent: a start report of a job it works on, or the end of one it gives up.
LEMMA ReportWorks ==
    ASSUME DispatchInv, WorkedInv, UNCHANGED <<links, identified, activeWs>>,
           NEW c, c \in links => c \in identified,
           NEW type \in Reports, NEW k \in Jobs, Known(k), Report(c, type, k),
           \A j \in Jobs : WorkedOn(j) => WorkedOn(j)' \/ (j = k /\ type \in Outcomes /\ c = activeWs),
           type = "started" /\ c = activeWs => WorkedOn(k)'
    PROVE  /\ \A d \in links : StartsFollowed(d)' /\ ReportsKnown(d)'
           /\ \A j \in Jobs : /\ Reported(j, Reports)' => Reported(j, Reports) \/ Known(j)
                              /\ Reported(j, Outcomes) => Reported(j, Outcomes)'
           /\ \A j \in Jobs, d \in links : WorkedOn(j) => WorkedOn(j)' \/ Reported(j, Outcomes)'
<1>1. NetTypeOK /\ \A d \in links : StartsFollowed(d) /\ ReportsKnown(d)
  BY DEF DispatchInv, TypeOK, WorkedInv
<1>2. \A d \in links : Range(toHub[d]) \subseteq Range(toHub'[d])
  BY <1>1, ReportKeeps
<1>3. \A j \in Jobs : Reported(j, Outcomes) => Reported(j, Outcomes)'
  BY <1>2 DEF Reported
<1>4. CASE ~(c = activeWs /\ c \in links)
  <2>1. \A d \in links : toHub'[d] = toHub[d] /\ d = activeWs /\ c # activeWs
    BY <1>4, LiveIsOwn DEF Report
  <2>2. \A j \in Jobs, d \in links : WorkedOn(j) => WorkedOn(j)'
    BY <2>1
  <2>3. \A j \in Jobs : Reported(j, Reports)' => Reported(j, Reports)
    BY <2>1 DEF Reported
  <2>4. ASSUME NEW d \in links PROVE StartsFollowed(d)' /\ ReportsKnown(d)'
    BY <1>1, <2>1, <2>2 DEF StartsFollowed, ReportsKnown
  <2> QED BY <1>3, <2>2, <2>3, <2>4
<1>5. CASE c = activeWs /\ c \in links
  <2>1. links = {c} /\ toHub[c] \in Seq(ToHub) /\ c \in Conns
    BY <1>5, LiveIsOwn
  <2>2. PICK m : m = Msg(type, k)
    OBVIOUS
  <2>3. PICK q \in Seq(ToHub) : q = toHub[c]
    BY <2>1
  <2>4. PICK r : r = q \o <<m>> /\ toHub'[c] = r
    BY <1>1, <1>5, <2>1, <2>2, <2>3 DEF Report, Sent, NetTypeOK
  <2>5. m \in ToHub
    BY <2>2, MsgTyped DEF ToHub, Message, Msg
  <2>6. /\ Len(q) \in Nat /\ r \in Seq(ToHub) /\ Len(r) = Len(q) + 1 /\ r[Len(q) + 1] = m
        /\ \A i \in 1..Len(q) : r[i] = q[i]
    BY <2>4, <2>5
  <2>7. DOMAIN q = 1..Len(q) /\ DOMAIN r = 1..(Len(q) + 1)
    BY <2>6
  <2>8. Range(r) \subseteq Range(q) \cup {m} /\ m \in Range(r)
    <3>1. \A i \in 1..(Len(q) + 1) : i \in 1..Len(q) \/ i = Len(q) + 1
      BY <2>6
    <3>2. Len(q) + 1 \in 1..(Len(q) + 1)
      BY <2>6
    <3> QED BY <2>6, <2>7, <3>1, <3>2 DEF Range
  <2>9. \A j \in Jobs : Reported(j, Reports)' => Reported(j, Reports) \/ Known(j)
    <3> SUFFICES ASSUME NEW j \in Jobs, Reported(j, Reports)', j # k PROVE Reported(j, Reports)
      OBVIOUS
    <3>1. PICK t \in Reports : Msg(t, j) \in Range(r)
      BY <2>1, <2>4 DEF Reported
    <3>2. Msg(t, j) # m
      BY <2>2 DEF Msg
    <3> QED BY <2>1, <2>3, <2>8, <3>1, <3>2 DEF Reported
  <2>10. ASSUME type \in Outcomes PROVE Reported(k, Outcomes)' /\ \A i \in 1..Len(q) : EndFollows(r, k, i)
    <3>1. Reported(k, Outcomes)'
      BY <2>1, <2>2, <2>4, <2>8, <2>10 DEF Reported
    <3>2. \A i \in 1..Len(q) : Len(q) + 1 \in (i + 1)..Len(r)
      BY <2>6
    <3> QED BY <2>2, <2>6, <2>10, <3>1, <3>2 DEF EndFollows
  <2>11. \A j \in Jobs : WorkedOn(j) => WorkedOn(j)' \/ Reported(j, Outcomes)'
    BY <2>10
  <2>12. ASSUME NEW j \in Jobs, NEW i \in 1..Len(r), r[i] = Msg("started", j)
         PROVE  WorkedOn(j)' \/ EndFollows(r, j, i)
    <3>1. CASE i \in 1..Len(q)
      <4>1. WorkedOn(j) \/ EndFollows(q, j, i)
        BY <1>1, <2>1, <2>3, <2>6, <2>12, <3>1 DEF StartsFollowed
      <4>2. EndFollows(q, j, i) => EndFollows(r, j, i)
        <5>1. \A l \in (i + 1)..Len(q) : l \in (i + 1)..Len(r) /\ l \in 1..Len(q)
          BY <2>6, <3>1
        <5> QED BY <2>6, <5>1 DEF EndFollows
      <4> QED BY <2>10, <3>1, <4>1, <4>2
    <3>2. CASE i = Len(q) + 1
      <4>1. type = "started" /\ j = k
        BY <2>2, <2>6, <2>12, <3>2 DEF Msg
      <4> QED BY <1>5, <4>1
    <3> QED BY <2>6, <3>1, <3>2
  <2>13. \A i \in 1..Len(r), j \in Jobs : r[i] = Msg("started", j) => WorkedOn(j)' \/ EndFollows(r, j, i)
    BY <2>12
  <2>14. StartsFollowed(c)'
    BY <2>4, <2>13 DEF StartsFollowed
  <2>15. ReportsKnown(c)'
    BY <1>5 DEF ReportsKnown
  <2> QED BY <1>3, <2>1, <2>9, <2>11, <2>14, <2>15
<1> QED BY <1>4, <1>5

\* What the agent is sent it takes in order.
LEMMA AgentTakes ==
    ASSUME DispatchInv, NEW c \in Conns, Delivered(c), UNCHANGED links
    PROVE  /\ c \in links \cap identified /\ c = activeWs /\ Head(toAgent[c]) \in ToAgent
           /\ \A d \in links : /\ Range(toAgent'[d]) \subseteq Range(toAgent[d])
                               /\ \A m \in Range(toAgent[d]) : m # Head(toAgent[c]) => m \in Range(toAgent'[d])
           /\ Head(toAgent[c]) \in Range(toAgent[c])
<1>1. NetTypeOK /\ toAgent[c] # <<>> /\ c = activeWs
  BY DEF DispatchInv, TypeOK, Delivered
<1>2. c \in links
  BY <1>1 DEF NetTypeOK
<1>3. c \in identified /\ Head(toAgent[c]) \in ToAgent
  BY <1>1, <1>2, TakenTyped DEF DispatchInv, ConnsFit
<1>4. links = {c} /\ toAgent[c] \in Seq(ToAgent)
  BY <1>2, LiveIsOwn
<1>5. toAgent'[c] = Tail(toAgent[c])
  BY <1>1 DEF Delivered, NetTypeOK
<1>6. Range(toAgent[c]) = {Head(toAgent[c])} \cup Range(Tail(toAgent[c]))
  BY <1>1, <1>4, HeadAndTail
<1> QED BY <1>1, <1>2, <1>3, <1>4, <1>5, <1>6

\* What the closures of a job are decides whether the agent can be heard of it.
LEMMA SameClosures ==
    ASSUME UNCHANGED activeWs, NEW j, \A n : n.job = j => (n \in Closures' <=> n \in Closures)
    PROVE  /\ Deaf(j)' <=> Deaf(j)
           /\ (j \in unheard' <=> j \in unheard) /\ DeafIsUnheard(j) => DeafIsUnheard(j)'
<1>1. Deaf(j)' <=> Deaf(j)
  BY DeafFrom
<1> QED BY <1>1 DEF DeafIsUnheard

\* Where closures only go, a job that could be heard still can.
LEMMA FewerClosures ==
    ASSUME UNCHANGED <<activeWs, unheard>>, Closures' \subseteq Closures, NEW j
    PROVE  (Deaf(j)' => Deaf(j)) /\ (DeafIsUnheard(j) => DeafIsUnheard(j)')
<1>1. Deaf(j)' => Deaf(j)
  BY DeafFrom
<1> QED BY <1>1 DEF DeafIsUnheard

\* The agent accepts a job it is sent: from now on it works on it, on the connection there
\* is, unless history says that a run of it is still bound to another.
LEMMA RunKeepsWorked ==
    ASSUME DispatchInv, WorkedInv, NEW c \in Conns, AgentRun(c)
    PROVE  WorkedInv'
<1>0. PICK k : k = Head(toAgent[c]).job
  OBVIOUS
<1>1. /\ Delivered(c) /\ Head(toAgent[c]).type = "job:run" /\ HandleJobRun(k, c)
      /\ unheard' = IF Deaf(k) THEN unheard \cup {k} ELSE unheard \ {k}
      /\ UNCHANGED <<hubVars, links, identified, activeWs, toHub, crossed>>
  BY <1>0 DEF AgentRun
<1>2. /\ c \in links \cap identified /\ c = activeWs
      /\ \A d \in links : /\ Range(toAgent'[d]) \subseteq Range(toAgent[d])
                          /\ \A m \in Range(toAgent[d]) : m # Head(toAgent[c]) => m \in Range(toAgent'[d])
      /\ Head(toAgent[c]) \in ToAgent /\ Head(toAgent[c]) \in Range(toAgent[c])
  BY <1>1, AgentTakes
<1>3. k \in Jobs /\ Head(toAgent[c]) = Msg("job:run", k)
  BY <1>0, <1>1, <1>2 DEF ToAgent, Message, Msg
<1>4. PICK n : n = [job |-> k, ws |-> c]
  OBVIOUS
<1>5. /\ Closures \subseteq Closures' /\ Closures' \subseteq Closures \cup {n}
      /\ Known(k)' /\ \A j : j # k => (Known(j)' <=> Known(j))
  <2>1. waiting \in Seq(Closure) /\ n \in Closure /\ slots' = slots
    BY <1>1, <1>3, <1>4 DEF DispatchInv, TypeOK, AgentTypeOK, Closure, HandleJobRun
  <2>2. CASE Known(k)
    <3>1. waiting' = waiting /\ queuedJobs' = queuedJobs /\ runningJobs' = runningJobs
      BY <1>1, <2>2 DEF HandleJobRun
    <3> QED BY <2>1, <2>2, <3>1 DEF Closures, Known, Range
  <2>3. CASE ~Known(k)
    <3>1. waiting' = Append(waiting, n) /\ queuedJobs' = queuedJobs \cup {k} /\ runningJobs' = runningJobs
      BY <1>1, <1>4, <2>3 DEF HandleJobRun
    <3>2. PICK q \in Seq(Closure), r \in Seq(Closure) : q = waiting /\ r = Append(q, n) /\ waiting' = r
      BY <2>1, <3>1
    <3>3. /\ Len(q) \in Nat /\ DOMAIN q = 1..Len(q) /\ DOMAIN r = 1..(Len(q) + 1) /\ r[Len(q) + 1] = n
          /\ \A i \in 1..Len(q) : r[i] = q[i] /\ i \in 1..(Len(q) + 1)
          /\ \A i \in 1..(Len(q) + 1) : i \in 1..Len(q) \/ i = Len(q) + 1
      BY <2>1, <3>2
    <3>4. Range(q) \subseteq Range(r) /\ Range(r) \subseteq Range(q) \cup {n}
      BY <3>3 DEF Range
    <3>5. Closures \subseteq Closures' /\ Closures' \subseteq Closures \cup {n}
      BY <2>1, <3>2, <3>4 DEF Closures
    <3> QED BY <3>1, <3>5 DEF Known
  <2> QED BY <2>2, <2>3
<1>6. \A j : Deaf(j)' <=> Deaf(j)
  BY <1>1, <1>2, <1>4, <1>5, DeafFrom
<1>7. /\ WorkedOn(k)'
      /\ \A j : WorkedOn(j) => WorkedOn(j)'
  BY <1>1, <1>5, <1>6 DEF WorkedOn
<1>8. \A j \in Jobs : DeafIsUnheard(j)'
  <2> SUFFICES ASSUME NEW j \in Jobs PROVE DeafIsUnheard(j)'
    OBVIOUS
  <2>1. CASE j = k
    BY <1>1, <1>6, <2>1 DEF DeafIsUnheard
  <2>2. CASE j # k
    <3>1. \A m : m.job = j => (m \in Closures' <=> m \in Closures)
      BY <1>4, <1>5, <2>2
    <3>2. j \in unheard' <=> j \in unheard
      BY <1>1, <2>2
    <3> QED BY <1>1, <3>1, <3>2, SameClosures DEF WorkedInv
  <2> QED BY <2>1, <2>2
<1>9. RunSent(k) /\ \A j \in Jobs : /\ RunSent(j)' => RunSent(j)
                                    /\ RunSent(j) => RunSent(j)' \/ WorkedOn(j)'
  <2>1. RunSent(k)
    BY <1>2, <1>3 DEF RunSent
  <2>2. \A j : RunSent(j)' => RunSent(j)
    BY <1>1, <1>2 DEF RunSent
  <2>3. ASSUME NEW j, j # k PROVE RunSent(j) => RunSent(j)'
    <3>1. Msg("job:run", j) # Head(toAgent[c])
      BY <1>3, <2>3 DEF Msg
    <3> QED BY <1>1, <1>2, <3>1 DEF RunSent
  <2> QED BY <1>7, <2>1, <2>2, <2>3
<1>10. /\ \A j : \A types : Reported(j, types)' <=> Reported(j, types)
       /\ \A d \in links : StartsFollowed(d)' /\ ReportsKnown(d)'
  <2>1. \A j : \A types : Reported(j, types)' <=> Reported(j, types)
    BY <1>1 DEF Reported
  <2>2. \A d \in links : StartsFollowed(d)'
    BY <1>1, <1>7 DEF WorkedInv, StartsFollowed
  <2>3. \A d \in links : ReportsKnown(d)'
    BY <1>1 DEF WorkedInv, ReportsKnown
  <2> QED BY <2>1, <2>2, <2>3
<1>11. \A j \in Jobs : /\ Known(j)' => Known(j) \/ RunSent(j)
                       /\ Reported(j, Reports)' => Reported(j, Reports) \/ Known(j)
                       /\ Reported(j, Outcomes) => Reported(j, Outcomes)'
  BY <1>5, <1>9, <1>10
<1> QED BY <1>1, <1>7, <1>8, <1>9, <1>10, <1>11, AgentWorks

\* A cancellation: a job in the queue is reported as cancelled, one that runs goes on.
LEMMA CancelKeepsWorked ==
    ASSUME DispatchInv, WorkedInv, NEW c \in Conns, AgentCancel(c)
    PROVE  WorkedInv'
<1>0. PICK k : k = Head(toAgent[c]).job
  OBVIOUS
<1>1. /\ Delivered(c) /\ Head(toAgent[c]).type = "job:cancel"
      /\ \/ CancelQueued(k) /\ Report(c, "cancelled", k)
         \/ CancelRunning(k) /\ UNCHANGED toHub
      /\ UNCHANGED <<hubVars, links, identified, activeWs, unheard, crossed>>
  BY <1>0 DEF AgentCancel, history
<1>2. /\ c \in links \cap identified /\ c = activeWs
      /\ \A d \in links : /\ Range(toAgent'[d]) \subseteq Range(toAgent[d])
                          /\ \A m \in Range(toAgent[d]) : m # Head(toAgent[c]) => m \in Range(toAgent'[d])
      /\ Head(toAgent[c]) \in ToAgent
  BY <1>1, AgentTakes
<1>3. k \in Jobs
  BY <1>0, <1>2 DEF ToAgent, Message
<1>4. UNCHANGED <<waiting, slots, runningJobs>>
  BY <1>1 DEF CancelQueued, CancelRunning
<1>5. Closures' = Closures
  BY <1>4 DEF Closures, Range
<1>6. \A j : (Deaf(j)' <=> Deaf(j)) /\ (DeafIsUnheard(j) => DeafIsUnheard(j)')
  BY <1>1, <1>5, SameClosures
<1>7. \A j \in Jobs : RunSent(j)' <=> RunSent(j)
  <2>1. \A j : Msg("job:run", j) # Head(toAgent[c])
    BY <1>1 DEF Msg
  <2> QED BY <1>1, <1>2, <2>1 DEF RunSent
<1>8. \A j \in Jobs : DeafIsUnheard(j)'
  BY <1>6 DEF WorkedInv
<1>9. CASE CancelRunning(k) /\ UNCHANGED toHub
  <2>1. \A j : (Known(j)' <=> Known(j)) /\ (WorkedOn(j)' <=> WorkedOn(j))
    BY <1>1, <1>6, <1>9 DEF CancelRunning, Known, WorkedOn
  <2>2. /\ \A j : \A types : Reported(j, types)' <=> Reported(j, types)
        /\ \A d \in links : StartsFollowed(d)' /\ ReportsKnown(d)'
    BY <1>1, <1>9, <2>1 DEF Reported, WorkedInv, StartsFollowed, ReportsKnown
  <2> QED BY <1>1, <1>7, <1>8, <2>1, <2>2, AgentWorks
<1>10. CASE CancelQueued(k) /\ Report(c, "cancelled", k)
  <2>1. /\ Known(k) /\ \A j : (Known(j)' => Known(j)) /\ (j # k => (Known(j)' <=> Known(j)))
        /\ "cancelled" \in Outcomes /\ "cancelled" \in Reports
    BY <1>10 DEF CancelQueued, Known, Outcomes, Reports
  <2>2. \A j : WorkedOn(j) => WorkedOn(j)' \/ (j = k /\ "cancelled" \in Outcomes /\ c = activeWs)
    BY <1>1, <1>2, <1>6, <2>1 DEF WorkedOn
  <2>3. /\ \A d \in links : StartsFollowed(d)' /\ ReportsKnown(d)'
        /\ \A j \in Jobs : /\ Reported(j, Reports)' => Reported(j, Reports) \/ Known(j)
                           /\ Reported(j, Outcomes) => Reported(j, Outcomes)'
        /\ \A j \in Jobs, d \in links : WorkedOn(j) => WorkedOn(j)' \/ Reported(j, Outcomes)'
    BY <1>1, <1>2, <1>3, <1>10, <2>1, <2>2, ReportWorks
  <2> QED BY <1>1, <1>7, <1>8, <2>1, <2>3, AgentWorks
<1> QED BY <1>1, <1>9, <1>10

\* A run that starts: its closure goes from the queue to a slot, and its report is about a
\* job the agent is at, with all closures of it heard, or history says otherwise.
LEMMA StartKeepsWorked ==
    ASSUME DispatchInv, WorkedInv, NEW s \in Slots, AgentStart(s)
    PROVE  WorkedInv'
<1>0. PICK n : n = Head(waiting)
  OBVIOUS
<1>1. /\ slots[s] = None /\ waiting # <<>> /\ n.job \in queuedJobs /\ waiting' = Tail(waiting)
      /\ slots' = [slots EXCEPT ![s] = n] /\ queuedJobs' = queuedJobs \ {n.job}
      /\ runningJobs' = runningJobs \cup {n.job}
      /\ Report(n.ws, "started", n.job)
      /\ UNCHANGED <<hubVars, links, identified, activeWs, toAgent, unheard, crossed>>
  BY <1>0 DEF AgentStart, StartJob, history
<1>2. AgentTypeOK /\ waiting \in Seq(Closure) /\ slots \in [Slots -> Closure \cup {None}]
  BY DEF DispatchInv, TypeOK, AgentTypeOK
<1>3. n.job \in Jobs /\ n # None
  BY <1>0, <1>1, <1>2, HeadTail
<1>4. Range(waiting) = {n} \cup Range(waiting')
  BY <1>0, <1>1, <1>2, HeadAndTail
<1>5. n \in Closures /\ Closures' = Closures
  <2>1. slots'[s] = n /\ \A t \in Slots : t # s => slots'[t] = slots[t]
    BY <1>1, <1>2
  <2>2. {slots'[t] : t \in Slots} \ {None} = ({slots[t] : t \in Slots} \ {None}) \cup {n}
    BY <1>1, <1>3, <2>1
  <2> QED BY <1>4, <2>2 DEF Closures
<1>6. \A j : /\ (Known(j)' <=> Known(j)) /\ (Deaf(j)' <=> Deaf(j)) /\ (WorkedOn(j)' <=> WorkedOn(j))
             /\ (RunSent(j)' <=> RunSent(j)) /\ (DeafIsUnheard(j) => DeafIsUnheard(j)')
  <2>1. \A j : (Deaf(j)' <=> Deaf(j)) /\ (DeafIsUnheard(j) => DeafIsUnheard(j)')
    BY <1>1, <1>5, SameClosures
  <2>2. \A j : Known(j)' <=> Known(j)
    BY <1>1 DEF Known
  <2> QED BY <1>1, <2>1, <2>2 DEF WorkedOn, RunSent
<1>7. n.ws = activeWs => WorkedOn(n.job)'
  <2>1. Known(n.job)
    BY <1>1 DEF Known
  <2>2. n.ws = activeWs /\ Deaf(n.job) => n.job \in unheard
    BY <1>3, <1>5 DEF WorkedInv, DeafIsUnheard
  <2> QED BY <1>6, <2>1, <2>2 DEF WorkedOn
<1>8. n.ws \in links => n.ws \in identified
  <2>1. waiting[1] = n /\ 1 \in 1..Len(waiting)
    BY <1>0, <1>1, <1>2
  <2> QED BY <2>1 DEF DispatchInv, ConnsFit, FromConn
<1>9. Known(n.job) /\ "started" \in Reports
  BY <1>1 DEF Known, Reports
<1>10. \A j \in Jobs : WorkedOn(j) => WorkedOn(j)' \/ (j = n.job /\ "started" \in Outcomes /\ n.ws = activeWs)
  BY <1>6
<1>11. /\ \A d \in links : StartsFollowed(d)' /\ ReportsKnown(d)'
       /\ \A j \in Jobs : /\ Reported(j, Reports)' => Reported(j, Reports) \/ Known(j)
                          /\ Reported(j, Outcomes) => Reported(j, Outcomes)'
       /\ \A j \in Jobs, d \in links : WorkedOn(j) => WorkedOn(j)' \/ Reported(j, Outcomes)'
  BY <1>1, <1>3, <1>7, <1>8, <1>9, <1>10, ReportWorks
<1>12. \A j \in Jobs : DeafIsUnheard(j)'
  BY <1>6 DEF WorkedInv
<1> QED BY <1>1, <1>6, <1>11, <1>12, AgentWorks

\* A run that ends: the agent gives the job up and reports it, or could not be heard.
LEMMA EndKeepsWorked ==
    ASSUME DispatchInv, WorkedInv, NEW s \in Slots, AgentEnd(s)
    PROVE  WorkedInv'
<1>0. PICK n : n = slots[s]
  OBVIOUS
<1>1. PICK outcome \in Outcomes : EndJob(s, outcome) /\ Report(n.ws, outcome, n.job)
  BY <1>0 DEF AgentEnd
<1>2. /\ n # None /\ slots' = [slots EXCEPT ![s] = None] /\ runningJobs' = runningJobs \ {n.job}
      /\ UNCHANGED <<queuedJobs, waiting, hubVars, links, identified, activeWs, toAgent, unheard, crossed>>
  BY <1>0, <1>1 DEF AgentEnd, EndJob, history
<1>3. AgentTypeOK /\ slots \in [Slots -> Closure \cup {None}]
  BY DEF DispatchInv, TypeOK, AgentTypeOK
<1>4. n.job \in Jobs /\ n.job \in runningJobs
  <2>1. n.job \in Jobs
    BY <1>0, <1>2, <1>3, SlotTyped
  <2>2. Executing(n.job) # {}
    BY <1>0, <1>2 DEF Executing
  <2> QED BY <2>1, <2>2 DEF DispatchInv, OneExecution
<1>5. /\ n \in Closures /\ Closures' \subseteq Closures
      /\ \A m : m.job # n.job => (m \in Closures' <=> m \in Closures)
  <2>1. slots'[s] = None /\ \A t \in Slots : t # s => slots'[t] = slots[t]
    BY <1>2, <1>3
  <2>2. /\ {slots'[t] : t \in Slots} \ {None} \subseteq {slots[t] : t \in Slots} \ {None}
        /\ {slots[t] : t \in Slots} \ {None} \subseteq ({slots'[t] : t \in Slots} \ {None}) \cup {n}
        /\ n \in {slots[t] : t \in Slots} \ {None}
    BY <1>0, <1>2, <2>1
  <2>3. Range(waiting)' = Range(waiting)
    BY <1>2 DEF Range
  <2> QED BY <2>2, <2>3 DEF Closures
<1>6. \A j \in Jobs : DeafIsUnheard(j)' /\ (Deaf(j)' => Deaf(j))
  BY <1>2, <1>5, FewerClosures DEF WorkedInv
<1>7. \A j : /\ Known(j)' => Known(j)
             /\ j # n.job => (Known(j)' <=> Known(j))
             /\ RunSent(j)' <=> RunSent(j)
  BY <1>2 DEF Known, RunSent
<1>8. \A j \in Jobs : WorkedOn(j) => WorkedOn(j)' \/ (j = n.job /\ outcome \in Outcomes /\ n.ws = activeWs)
  <2>1. ~Deaf(n.job) => n.ws = activeWs
    BY <1>5, DeafFrom
  <2> QED BY <1>2, <1>6, <1>7, <2>1 DEF WorkedOn
<1>9. n.ws \in links => n.ws \in identified
  BY <1>0, <1>2 DEF DispatchInv, ConnsFit, FromConn
<1>10. Known(n.job) /\ outcome \in Reports /\ outcome # "started"
  BY <1>4 DEF Known, Reports, Outcomes
<1>11. /\ \A d \in links : StartsFollowed(d)' /\ ReportsKnown(d)'
       /\ \A j \in Jobs : /\ Reported(j, Reports)' => Reported(j, Reports) \/ Known(j)
                          /\ Reported(j, Outcomes) => Reported(j, Outcomes)'
       /\ \A j \in Jobs, d \in links : WorkedOn(j) => WorkedOn(j)' \/ Reported(j, Outcomes)'
  BY <1>1, <1>2, <1>4, <1>8, <1>9, <1>10, ReportWorks
<1> QED BY <1>2, <1>6, <1>7, <1>11, AgentWorks

\* A closure of a cancelled job is dropped.
LEMMA SkipKeepsWorked ==
    ASSUME DispatchInv, WorkedInv, AgentSkip
    PROVE  WorkedInv'
<1>1. /\ waiting # <<>> /\ waiting' = Tail(waiting)
      /\ UNCHANGED <<queuedJobs, runningJobs, slots, hubVars, links, identified, activeWs, toAgent, toHub,
                     unheard, crossed>>
  BY DEF AgentSkip, SkipClosure, netVars, history
<1>2. waiting \in Seq(Closure)
  BY DEF DispatchInv, TypeOK, AgentTypeOK
<1>3. Range(waiting') \subseteq Range(waiting)
  BY <1>1, <1>2, HeadAndTail
<1>4. Closures' \subseteq Closures
  BY <1>1, <1>3 DEF Closures
<1>5. \A j \in Jobs : DeafIsUnheard(j)' /\ (Deaf(j)' => Deaf(j))
  BY <1>1, <1>4, FewerClosures DEF WorkedInv
<1>6. \A j \in Jobs : (WorkedOn(j) => WorkedOn(j)') /\ (Known(j)' <=> Known(j)) /\ (RunSent(j)' <=> RunSent(j))
  BY <1>1, <1>5 DEF WorkedOn, Known, RunSent
<1>7. \A j : \A types : Reported(j, types)' <=> Reported(j, types)
  BY <1>1 DEF Reported
<1>8. \A d \in links : StartsFollowed(d)' /\ ReportsKnown(d)'
  BY <1>1, <1>6 DEF WorkedInv, StartsFollowed, ReportsKnown
<1> QED BY <1>1, <1>5, <1>6, <1>7, <1>8, AgentWorks

\* When no connection is up, what was with the agent waits for the close handler of the
\* connection it was sent by.
LEMMA LinksGone ==
    ASSUME WorkedInv, links' = {}, UNCHANGED <<hubVars, identified, crossed>>,
           \A j : Known(j)' => Known(j), \A j \in Jobs : DeafIsUnheard(j)'
    PROVE  WorkedInv'
<1>1. UNCHANGED <<status, activeJobOwners, activities>>
  BY DEF hubVars
<1>2. \A j : /\ (Active(j)' <=> Active(j)) /\ (Sending(j)' <=> Sending(j)) /\ (Failing(j)' <=> Failing(j))
             /\ (Ending(j)' <=> Ending(j)) /\ (Marked(j)' <=> Marked(j))
  BY <1>1 DEF Active, Sending, Failing, Ending, Marked, Parked
<1>3. ASSUME NEW j \in Jobs \ crossed PROVE (HasOwner(j) /\ Pursued(j))'
  <2>1. HasOwner(j) /\ Pursued(j)
    BY DEF WorkedInv
  <2>2. ~RunSent(j)' /\ ~Reported(j, Reports)'
    BY DEF RunSent, Reported
  <2>3. HasOwner(j)'
    BY <1>1, <1>2, <2>1, <2>2 DEF HasOwner
  <2>4. WithAgent(j) \/ Orphaned(j) => Orphaned(j)'
    BY <1>1 DEF WithAgent, Orphaned
  <2>5. Pursued(j)'
    BY <1>2, <2>1, <2>4 DEF Pursued
  <2> QED BY <2>3, <2>5
<1> QED BY <1>3 DEF WorkedInv

\* Every step keeps the invariant of what is worked on.
LEMMA WorkedStep == ASSUME DispatchInv, WorkedInv, [Next]_vars PROVE WorkedInv'
<1>1. TypeOK /\ HubTypeOK /\ NetTypeOK /\ AgentTypeOK
  BY DEF DispatchInv, TypeOK
<1>2. \A n \in Closures : n.ws \in 1..made /\ n.ws \in Conns
  <2>1. waiting \in Seq(Closure) /\ DOMAIN waiting = 1..Len(waiting)
    BY <1>1 DEF AgentTypeOK
  <2>2. \A n \in Closures : n.ws \in 1..made
    BY <2>1 DEF DispatchInv, ConnsFit, FromConn, Closures, Range
  <2>3. 1..made \subseteq Conns
    BY <1>1, DispatchAssumption DEF NetTypeOK
  <2> QED BY <2>2, <2>3
<1>3. CASE Request
  <2>1. PICK j \in Jobs : RunRequest(j) \/ CancelRequest(j)
    BY <1>3 DEF Request
  <2>2. UNCHANGED <<agentVars, links, identified, activeWs, toHub, toAgent, status, activeJobOwners, unheard, crossed>>
    BY <2>1 DEF RunRequest, CancelRequest, netVars, history
  <2>3. BagToSet(activities) \subseteq BagToSet(activities')
    BY <1>1, <2>1, BegunBag DEF RunRequest, CancelRequest
  <2>4. \A i : /\ (Sending(i) => Sending(i)') /\ (Failing(i) => Failing(i)')
               /\ (Ending(i) => Ending(i)') /\ (Marked(i) => Marked(i)')
    BY <2>3 DEF Sending, Failing, Ending, Marked, Parked
  <2>5. \A i : /\ (Active(i)' <=> Active(i)) /\ (Known(i)' <=> Known(i))
               /\ (WorkedOn(i)' <=> WorkedOn(i)) /\ (RunSent(i)' <=> RunSent(i))
    BY <2>2 DEF Active, Known, Deaf, WorkedOn, RunSent, agentVars
  <2>6. ASSUME NEW i \in Jobs \ crossed' PROVE (HasOwner(i) /\ Pursued(i))'
    <3>1. HasOwner(i) /\ Pursued(i) /\ (i \in activeJobOwners => i \in activeJobOwners')
      BY <2>2 DEF WorkedInv
    <3> QED BY <2>2, <2>4, <2>5, <3>1, LeftAlone
  <2> QED BY <2>2, <2>6, HubOnly
<1>4. CASE HubActivity
  BY <1>4, ActivityKeepsWorked
<1>5. ASSUME NEW c \in Conns, HubConn(c) PROVE WorkedInv'
  BY <1>5, ConnKeepsWorked
<1>6. ASSUME NEW c \in Conns, AgentConn(c) PROVE WorkedInv'
  BY <1>6, RunKeepsWorked, CancelKeepsWorked DEF AgentConn
<1>7. ASSUME NEW s \in Slots, AgentStart(s) \/ AgentEnd(s) PROVE WorkedInv'
  BY <1>7, StartKeepsWorked, EndKeepsWorked
<1>8. CASE AgentSkip
  BY <1>8, SkipKeepsWorked
<1>9. CASE Connect
  <2>1. links = {} /\ made \in Nat /\ made + 1 \in Conns /\ identified \subseteq 1..made
    <3>1. links \subseteq Conns
      BY <1>1, DispatchAssumption DEF NetTypeOK
    <3>2. links = {}
      BY <1>9, <3>1, NoneIsNoConn DEF Connect, DispatchInv, OneLink
    <3> QED BY <1>1, <1>9, <3>2, DispatchAssumption DEF Connect, NetTypeOK
  <2>2. PICK d : d = made + 1
    OBVIOUS
  <2>3. /\ links' = {d} /\ activeWs' = d /\ toHub'[d] = <<Register>> /\ toAgent'[d] = <<>>
        /\ UNCHANGED <<agentVars, hubVars, identified, unheard, crossed>>
    BY <1>1, <1>9, <2>1, <2>2 DEF Connect, history, NetTypeOK
  <2>4. UNCHANGED <<queuedJobs, runningJobs, waiting, slots, status, activeJobOwners, activities>>
    BY <2>3 DEF agentVars, hubVars
  <2>5. Closures' = Closures
    BY <2>4 DEF Closures, Range
  <2>6. \A j \in Jobs : DeafIsUnheard(j)'
    <3>1. \A n \in Closures' : n.ws # activeWs'
      BY <1>2, <2>1, <2>2, <2>3, <2>5
    <3> QED BY <3>1 DEF DeafIsUnheard
  <2>7. Range(toHub'[d]) = {Register} /\ Range(toAgent'[d]) = {}
    BY <2>3 DEF Range
  <2>8. ASSUME NEW j \in Jobs \ crossed' PROVE (HasOwner(j) /\ Pursued(j))'
    <3>1. HasOwner(j) /\ Pursued(j)
      BY <2>3, <2>8 DEF WorkedInv
    <3>2. ~RunSent(j)' /\ ~Reported(j, Reports)'
      <4>1. \A type : Msg(type, j) # Register
        BY DEF Msg, Register
      <4> QED BY <2>3, <2>7, <4>1 DEF RunSent, Reported
    <3>3. /\ (Active(j)' <=> Active(j)) /\ (Sending(j)' <=> Sending(j)) /\ (Failing(j)' <=> Failing(j))
          /\ (Ending(j)' <=> Ending(j)) /\ (Marked(j)' <=> Marked(j)) /\ (Known(j)' <=> Known(j))
      BY <2>4 DEF Active, Sending, Failing, Ending, Marked, Parked, Known
    <3>4. HasOwner(j)'
      BY <2>4, <3>1, <3>2, <3>3 DEF HasOwner
    <3>5. ~WithAgent(j)
      BY <2>1 DEF WithAgent
    <3>6. Orphaned(j) => Orphaned(j)'
      BY <2>1, <2>2, <2>3, <2>4 DEF Orphaned
    <3> QED BY <3>1, <3>3, <3>4, <3>5, <3>6 DEF Pursued
  <2>9. StartsFollowed(d)' /\ ReportsKnown(d)'
    <3>1. \A i \in 1..Len(toHub'[d]) : toHub'[d][i] = Register
      BY <2>3
    <3>2. \A j : Register # Msg("started", j)
      BY DEF Register, Msg
    <3>3. ReportsKnown(d)'
      BY <2>7 DEF ReportsKnown
    <3> QED BY <3>1, <3>2, <3>3 DEF StartsFollowed
  <2> QED BY <2>3, <2>6, <2>8, <2>9 DEF WorkedInv
<1>10. ASSUME NEW c \in Conns, LinkDies(c) PROVE WorkedInv'
  <2>1. links' = {} /\ UNCHANGED <<agentVars, hubVars, identified, activeWs, unheard, crossed>>
    BY <1>10 DEF LinkDies, DispatchInv, OneLink, history
  <2>2. Closures' = Closures /\ \A j : Known(j)' => Known(j)
    BY <2>1 DEF Closures, Known, agentVars, Range
  <2>3. \A j \in Jobs : DeafIsUnheard(j)'
    BY <2>1, <2>2, SameClosures DEF WorkedInv
  <2> QED BY <2>1, <2>2, <2>3, LinksGone
<1>11. CASE AgentClose
  <2>1. links' = {} /\ activeWs' = None /\ UNCHANGED <<agentVars, hubVars, identified, unheard, crossed>>
    BY <1>11 DEF AgentClose, DispatchInv, OneLink, history
  <2>2. Closures' = Closures /\ \A j : Known(j)' => Known(j)
    BY <2>1 DEF Closures, Known, agentVars, Range
  <2>3. \A j \in Jobs : DeafIsUnheard(j)'
    <3>1. \A n \in Closures' : n.ws # activeWs'
      BY <1>2, <2>1, <2>2, NoneIsNoConn
    <3> QED BY <3>1 DEF DeafIsUnheard
  <2> QED BY <2>1, <2>2, <2>3, LinksGone
<1>12. CASE AgentDies
  <2>1. /\ links' = {} /\ UNCHANGED <<hubVars, identified, crossed>>
        /\ queuedJobs' = {} /\ runningJobs' = {} /\ waiting' = <<>> /\ slots' = [s \in Slots |-> None]
    BY <1>12 DEF AgentDies, RestartAgent, DispatchInv, OneLink
  <2>2. Closures' = {} /\ \A j : ~Known(j)'
    BY <2>1 DEF Closures, Known, Range
  <2>3. \A j \in Jobs : DeafIsUnheard(j)'
    BY <2>2 DEF DeafIsUnheard
  <2> QED BY <2>1, <2>2, <2>3, LinksGone
<1>13. CASE RestartHub
  <2>1. /\ links' = {} /\ crossed' = {j \in Jobs : Known(j)}
        /\ status' = [j \in Jobs |-> IF Active(j) THEN "error" ELSE status[j]]
        /\ UNCHANGED <<agentVars, activeWs, unheard>>
    BY <1>13 DEF RestartHub
  <2>2. Closures' = Closures /\ \A j : Known(j)' <=> Known(j)
    BY <2>1 DEF Closures, Known, agentVars, Range
  <2>3. \A j \in Jobs : DeafIsUnheard(j)'
    BY <2>1, <2>2, SameClosures DEF WorkedInv
  <2>4. ASSUME NEW j \in Jobs \ crossed' PROVE (HasOwner(j) /\ Pursued(j))'
    <3>1. ~Active(j)' /\ ~Known(j)'
      BY <2>1, <2>2 DEF Active
    <3>2. ~RunSent(j)' /\ ~Reported(j, Reports)'
      BY <2>1 DEF RunSent, Reported
    <3> QED BY <3>1, <3>2, AtPeace
  <2> QED BY <2>1, <2>3, <2>4 DEF WorkedInv
<1>14. CASE UNCHANGED vars
  <2>1. UNCHANGED <<agentVars, links, identified, activeWs, toHub, toAgent, status, activeJobOwners, activities, unheard, crossed>>
    BY <1>14 DEF vars, agentVars
  <2>2. \A i : /\ (Active(i)' <=> Active(i)) /\ (Known(i)' <=> Known(i))
               /\ (WorkedOn(i)' <=> WorkedOn(i)) /\ (RunSent(i)' <=> RunSent(i))
               /\ (Sending(i) => Sending(i)') /\ (Failing(i) => Failing(i)')
               /\ (Ending(i) => Ending(i)') /\ (Marked(i) => Marked(i)')
    BY <2>1 DEF Active, Known, Deaf, WorkedOn, RunSent, agentVars, Sending, Failing, Ending, Marked, Parked
  <2>3. ASSUME NEW i \in Jobs \ crossed' PROVE (HasOwner(i) /\ Pursued(i))'
    <3>1. HasOwner(i) /\ Pursued(i) /\ (i \in activeJobOwners => i \in activeJobOwners')
      BY <2>1 DEF WorkedInv
    <3> QED BY <2>1, <2>2, <3>1, LeftAlone
  <2> QED BY <2>1, <2>3, HubOnly
<1> QED BY <1>3, <1>4, <1>5, <1>6, <1>7, <1>8, <1>9, <1>10, <1>11, <1>12, <1>13, <1>14 DEF Next, Fault

\* A job shown as queued or running is with the agent once nothing is under way, unless
\* its job:run met a run with a dead connection or the end of another request hit it: for
\* any jobs, connections, requests and restarts (queueJob, the register and close handlers,
\* markOwnedJobsFailed, handleJobRun).
THEOREM ActiveWorkedOn == Spec => []ActiveIsWorkedOn
<1>1. Init => DispatchInv /\ WorkedInv
  <2> SUFFICES ASSUME Init PROVE WorkedInv
    BY DispatchInit
  <2>1. /\ links = {} /\ slots = [s \in Slots |-> None] /\ waiting = <<>>
        /\ \A j \in Jobs : ~Active(j) /\ ~Known(j)
    BY DEF Init, AgentInit, Active, Known
  <2>2. Closures = {}
    BY <2>1 DEF Closures, Range
  <2>3. \A j \in Jobs : HasOwner(j) /\ Pursued(j) /\ DeafIsUnheard(j)
    BY <2>1, <2>2 DEF HasOwner, Pursued, DeafIsUnheard, RunSent, Reported
  <2> QED BY <2>1, <2>3 DEF WorkedInv
<1>2. DispatchInv /\ WorkedInv /\ [Next]_vars => (DispatchInv /\ WorkedInv)'
  BY DispatchStep, WorkedStep
<1>3. DispatchInv /\ WorkedInv => ActiveIsWorkedOn
  <2> SUFFICES ASSUME DispatchInv, WorkedInv, AtRest, NEW j \in Jobs \ (unheard \cup crossed), Active(j)
               PROVE  Known(j)
    BY DEF ActiveIsWorkedOn
  <2>1. BagToSet(activities) = {}
    BY DEF AtRest, EmptyBag, SetToBag, BagToSet
  <2>2. ~Sending(j) /\ ~Failing(j) /\ ~Ending(j) /\ ~Marked(j)
    BY <2>1 DEF Sending, Failing, Ending, Marked, Parked
  <2>3. ~Orphaned(j)
    BY DEF Orphaned, AtRest, DispatchInv, TypeOK, NetTypeOK
  <2>4. WithAgent(j)
    BY <2>2, <2>3 DEF WorkedInv, Pursued
  <2>5. \A c \in links : Range(toHub[c]) = {} /\ Range(toAgent[c]) = {}
    BY DEF AtRest, Range
  <2>6. ~RunSent(j) /\ ~Reported(j, Outcomes)
    BY <2>5 DEF RunSent, Reported
  <2> QED BY <2>4, <2>6 DEF WithAgent, WorkedOn
<1> QED BY <1>1, <1>2, <1>3, PTL DEF Spec
=============================================================================
