----------------------------- MODULE JobDispatch -----------------------------
(***************************************************************************)
(* Jobs between the API server (api/src/index.ts, routes/jobs.ts) and one  *)
(* agent (agent/src/index.ts): who runs what, and what the jobs table says *)
(* of it.                                                                  *)
(*                                                                         *)
(* The server's handlers are asynchronous functions: whatever one of them  *)
(* read from the database may be stale when it writes, and another handler *)
(* may run at every await.  An activity is a handler parked at an await.   *)
(* The database executes each statement when it is issued.                 *)
(*                                                                         *)
(* The agent reconnects when its connection ends; each end notices a dead  *)
(* link in its own time, so that an agent may register anew before the     *)
(* server has closed its old connection.                                   *)
(***************************************************************************)
EXTENDS JobAgent, Integers, FiniteSets, Bags, SequencesExt

CONSTANTS
    MaxConns,      \* bound: connections the agent makes
    MaxRequests,   \* bound: run and cancel requests
    MaxRestarts    \* bound: restarts of the agent or of the server

ASSUME DispatchAssumption == /\ IsFiniteSet(Jobs)
                             /\ Conns = 1..MaxConns /\ MaxConns \in Nat
                             /\ MaxRequests \in Nat /\ MaxRestarts \in Nat

\* null is no connection and no job.
ASSUME NoneIsNoConn == None \notin Conns \cup Jobs

Status == {"idle", "queued", "running", "completed", "cancelled", "error"}

Message(types) == [type : types, job : Jobs]
ToAgent  == Message({"job:run", "job:cancel"})
Register == [type |-> "register"]
Reports  == {"started", "completed", "cancelled", "error"}
ToHub    == Message(Reports) \cup {Register}

VARIABLES
    status,          \* jobs.status in the database
    registered,      \* agents.get(deviceId): the connection, or None
    activeJobOwners, \* the jobs activeJobOwners assigns to the agent
    activities,      \* bag of the handlers parked at an await
    made,            \* connections made so far
    links,           \* connections whose link is up
    hubOpen,         \* connections the server has not seen close
    identified,      \* those it has a deviceId for
    activeWs,        \* the agent's open connection, or None
    toAgent,         \* messages under way to the agent, per connection
    toHub,           \* messages under way to the server, per connection
    requests,        \* run and cancel requests made so far
    restarts,        \* restarts so far
    unheard,         \* history: jobs whose job:run met a run with a dead connection
    crossed          \* history: jobs whose row or owner the end of another request hit

hubVars  == <<status, registered, activeJobOwners, activities>>
netVars  == <<made, links, hubOpen, identified, activeWs, toAgent, toHub>>
history  == <<unheard, crossed>>
vars == <<queuedJobs, runningJobs, abortedJobs, waiting, slots,
          status, registered, activeJobOwners, activities,
          made, links, hubOpen, identified, activeWs, toAgent, toHub,
          requests, restarts, unheard, crossed>>

\* Handlers of a request; of a report; of a registration; of a close.
CallActivity     == [kind : {"queueJob", "cancel"}, job : Jobs, step : {"set", "send"}]
EndedActivity    == [kind : {"ended"}, job : Jobs, outcome : Outcomes]
RegisterActivity == [kind : {"registered"}, conn : Conns, queued : (SUBSET Jobs) \cup {None}]
CloseActivity    == [kind : {"markFailed"}, owned : SUBSET Jobs, failing : Jobs \cup {None}]
Activity == CallActivity \cup EndedActivity \cup RegisterActivity \cup CloseActivity

HubTypeOK ==
    /\ status \in [Jobs -> Status]
    /\ registered \in Conns \cup {None}
    /\ activeJobOwners \subseteq Jobs
    /\ IsABag(activities) /\ BagToSet(activities) \subseteq Activity

NetTypeOK ==
    /\ made \in 0..MaxConns
    /\ identified \subseteq hubOpen /\ hubOpen \subseteq 1..made /\ links \subseteq hubOpen
    /\ activeWs \in Conns \cup {None}
    /\ toAgent \in [Conns -> Seq(ToAgent)] /\ toHub \in [Conns -> Seq(ToHub)]
    /\ \A c \in Conns \ links : toAgent[c] = <<>> /\ toHub[c] = <<>>

RestTypeOK ==
    /\ requests \in 0..MaxRequests /\ restarts \in 0..MaxRestarts
    /\ unheard \subseteq Jobs /\ crossed \subseteq Jobs

TypeOK == AgentTypeOK /\ HubTypeOK /\ NetTypeOK /\ RestTypeOK

Init ==
    /\ AgentInit
    /\ status = [j \in Jobs |-> "idle"]
    /\ registered = None /\ activeJobOwners = {} /\ activities = EmptyBag
    /\ made = 0 /\ links = {} /\ hubOpen = {} /\ identified = {} /\ activeWs = None
    /\ toAgent = [c \in Conns |-> <<>>] /\ toHub = [c \in Conns |-> <<>>]
    /\ requests = 0 /\ restarts = 0 /\ unheard = {} /\ crossed = {}

Active(j) == status[j] \in {"queued", "running"}

-----------------------------------------------------------------------------
(* Channels and activities. *)

\* What a send on connection c leaves under way; on a dead link it is lost.
Sent(chan, c, msgs) == IF c \in links THEN [chan EXCEPT ![c] = @ \o msgs] ELSE chan

Msg(type, j) == [type |-> type, job |-> j]

\* The agent reports on the connection the job came by, if it is still open.
Report(c, type, j) == toHub' = IF c = activeWs THEN Sent(toHub, c, <<Msg(type, j)>>) ELSE toHub

Begin(a)       == activities' = activities (+) SetToBag({a})
End(a)         == activities' = activities (-) SetToBag({a})
Continue(a, b) == activities' = (activities (-) SetToBag({a})) (+) SetToBag({b})

\* History of an end that hits job j while a request or a report of it is under
\* way, or while the agent works on it.
Crossing(j) ==
    IF \/ Known(j)
       \/ \E c \in links : Msg("job:run", j) \in Range(toAgent[c])
       \/ \E c \in links, type \in Reports : Msg(type, j) \in Range(toHub[c])
    THEN crossed \cup {j} ELSE crossed

Parked(kind) == {a \in BagToSet(activities) : a.kind = kind}

-----------------------------------------------------------------------------
(* Requests, from the browser, the schedule or a trigger of the agent. *)

\* The job is read and found inactive.
RunRequest(j) ==
    /\ requests < MaxRequests /\ requests' = requests + 1
    /\ ~Active(j)
    /\ Begin([kind |-> "queueJob", job |-> j, step |-> "set"])
    /\ UNCHANGED <<agentVars, status, registered, activeJobOwners, netVars, restarts, history>>

QueueJob(a) ==
    /\ a \in Parked("queueJob") /\ a.step = "set"
    /\ status' = [status EXCEPT ![a.job] = "queued"]
    /\ Continue(a, [a EXCEPT !.step = "send"])
    /\ crossed' = crossed \ {a.job}
    /\ UNCHANGED <<agentVars, registered, activeJobOwners, netVars, requests, restarts, unheard>>

\* Mutant: the job is sent, but nobody is noted as its owner.
BroadcastJobRun_NotOwned(a) ==
    /\ a \in Parked("queueJob") /\ a.step = "send"
    /\ IF registered \in hubOpen
       THEN /\ toAgent' = Sent(toAgent, registered, <<Msg("job:run", a.job)>>)
            /\ UNCHANGED <<status, crossed>>
       ELSE /\ status' = [status EXCEPT ![a.job] = "error"]
            /\ crossed' = Crossing(a.job)
            /\ UNCHANGED toAgent
    /\ End(a)
    /\ UNCHANGED <<agentVars, registered, activeJobOwners, made, links, hubOpen, identified,
                   activeWs, toHub, requests, restarts, unheard>>

\* broadcastJobRun: sent to the registered agent and owned by it, or an error.
BroadcastJobRun(a) ==
    /\ a \in Parked("queueJob") /\ a.step = "send"
    /\ IF registered \in hubOpen
       THEN /\ toAgent' = Sent(toAgent, registered, <<Msg("job:run", a.job)>>)
            /\ activeJobOwners' = activeJobOwners \cup {a.job}
            /\ UNCHANGED <<status, crossed>>
       ELSE /\ status' = [status EXCEPT ![a.job] = "error"]
            /\ crossed' = Crossing(a.job)
            /\ UNCHANGED <<toAgent, activeJobOwners>>
    /\ End(a)
    /\ UNCHANGED <<agentVars, registered, made, links, hubOpen, identified, activeWs, toHub,
                   requests, restarts, unheard>>

\* The job is read and found active.
CancelRequest(j) ==
    /\ requests < MaxRequests /\ requests' = requests + 1
    /\ Active(j)
    /\ Begin([kind |-> "cancel", job |-> j, step |-> "set"])
    /\ UNCHANGED <<agentVars, status, registered, activeJobOwners, netVars, restarts, history>>

SetCancelled(a) ==
    /\ a \in Parked("cancel") /\ a.step = "set"
    /\ status' = [status EXCEPT ![a.job] = "cancelled"]
    /\ Continue(a, [a EXCEPT !.step = "send"])
    /\ UNCHANGED <<agentVars, registered, activeJobOwners, netVars, requests, restarts, history>>

BroadcastJobCancel(a) ==
    /\ a \in Parked("cancel") /\ a.step = "send"
    /\ IF registered \in hubOpen
       THEN /\ toAgent' = Sent(toAgent, registered, <<Msg("job:cancel", a.job)>>)
            /\ UNCHANGED crossed
       ELSE /\ crossed' = Crossing(a.job)
            /\ UNCHANGED toAgent
    /\ End(a)
    /\ UNCHANGED <<agentVars, status, registered, activeJobOwners, made, links, hubOpen,
                   identified, activeWs, toHub, requests, restarts, unheard>>

-----------------------------------------------------------------------------
(* The server's side of a connection. *)

Received(c) == /\ c \in hubOpen /\ toHub[c] # <<>>
               /\ toHub' = [toHub EXCEPT ![c] = Tail(@)]

\* The registration replaces whatever connection the device had.
HubRegister(c) ==
    /\ Received(c) /\ Head(toHub[c]).type = "register"
    /\ registered' = c /\ identified' = identified \cup {c}
    /\ Begin([kind |-> "registered", conn |-> c, queued |-> None])
    /\ UNCHANGED <<agentVars, status, activeJobOwners, made, links, hubOpen, activeWs, toAgent,
                   requests, restarts, history>>

\* After the watch configuration the queued jobs are read ...
ReadQueued(a) ==
    /\ a \in Parked("registered") /\ a.queued = None
    /\ Continue(a, [a EXCEPT !.queued = {j \in Jobs : status[j] = "queued"}])
    /\ UNCHANGED <<agentVars, status, registered, activeJobOwners, netVars, requests, restarts, history>>

\* ... and sent to the agent again, whether or not it has them.
Redispatch(a) ==
    /\ a \in Parked("registered") /\ a.queued # None
    /\ \E order \in SetToSeqs(a.queued) :
          toAgent' = Sent(toAgent, a.conn, [i \in DOMAIN order |-> Msg("job:run", order[i])])
    /\ activeJobOwners' = activeJobOwners \cup a.queued
    /\ End(a)
    /\ UNCHANGED <<agentVars, status, registered, made, links, hubOpen, identified, activeWs,
                   toHub, requests, restarts, history>>

HubStarted(c) ==
    /\ Received(c) /\ Head(toHub[c]).type = "started"
    /\ status' = [status EXCEPT ![Head(toHub[c]).job] = "running"]
    /\ UNCHANGED <<agentVars, registered, activeJobOwners, activities, made, links, hubOpen,
                   identified, activeWs, toAgent, requests, restarts, history>>

\* job:complete, job:cancelled and job:error read the job first.
HubEnded(c) ==
    /\ Received(c) /\ Head(toHub[c]).type \in Outcomes
    /\ Begin([kind |-> "ended", job |-> Head(toHub[c]).job, outcome |-> Head(toHub[c]).type])
    /\ UNCHANGED <<agentVars, status, registered, activeJobOwners, made, links, hubOpen,
                   identified, activeWs, toAgent, requests, restarts, history>>

SetEnded(a) ==
    /\ a \in Parked("ended")
    /\ activeJobOwners' = activeJobOwners \ {a.job}
    /\ status' = [status EXCEPT ![a.job] = a.outcome]
    /\ End(a)
    /\ crossed' = Crossing(a.job)
    /\ UNCHANGED <<agentVars, registered, netVars, requests, restarts, unheard>>

\* Mutant: the close handler leaves the device's jobs alone.
HubClose_KeepsJobs(c) ==
    /\ c \in hubOpen \ links
    /\ hubOpen' = hubOpen \ {c}
    /\ identified' = identified \ {c}
    /\ registered' = IF c \in identified THEN None ELSE registered
    /\ UNCHANGED <<agentVars, status, activeJobOwners, activities, made, links, activeWs, toAgent,
                   toHub, requests, restarts, history>>

\* Mutant: the closed connection keeps its deviceId and could close again.
HubClose_KeepsDeviceId(c) ==
    /\ c \in hubOpen \ links
    /\ hubOpen' = hubOpen \ {c}
    /\ registered' = IF c \in identified THEN None ELSE registered
    /\ Begin([kind |-> "markFailed", owned |-> activeJobOwners, failing |-> None])
    /\ UNCHANGED <<agentVars, status, activeJobOwners, made, links, identified, activeWs, toAgent,
                   toHub, requests, restarts, history>>

\* The close handler forgets the device, whichever connection it is on now, and
\* goes through the jobs it owns.
HubClose(c) ==
    /\ c \in hubOpen \ links
    /\ hubOpen' = hubOpen \ {c}
    /\ identified' = identified \ {c}
    /\ IF c \in identified
       THEN /\ registered' = None
            /\ Begin([kind |-> "markFailed", owned |-> activeJobOwners, failing |-> None])
       ELSE UNCHANGED <<registered, activities>>
    /\ UNCHANGED <<agentVars, status, activeJobOwners, made, links, activeWs, toAgent, toHub,
                   requests, restarts, history>>

\* markOwnedJobsFailed takes one job after the other: crossed and read ...
DisownNext(a) ==
    /\ a \in Parked("markFailed") /\ a.failing = None
    /\ \/ /\ a.owned = {} /\ End(a)
          /\ UNCHANGED <<activeJobOwners, crossed>>
       \/ \E j \in a.owned :
            /\ activeJobOwners' = activeJobOwners \ {j}
            /\ Continue(a, [a EXCEPT !.owned = @ \ {j}, !.failing = IF Active(j) THEN j ELSE None])
            /\ crossed' = IF Active(j) THEN crossed ELSE Crossing(j)
    /\ UNCHANGED <<agentVars, status, registered, netVars, requests, restarts, unheard>>

\* ... and set to error if it was active.
SetFailed(a) ==
    /\ a \in Parked("markFailed") /\ a.failing # None
    /\ status' = [status EXCEPT ![a.failing] = "error"]
    /\ Continue(a, [a EXCEPT !.failing = None])
    /\ crossed' = Crossing(a.failing)
    /\ UNCHANGED <<agentVars, registered, activeJobOwners, netVars, requests, restarts, unheard>>

\* The server dies with its connections and activities; main() sets the jobs
\* that were active to error before it listens (recoverInterruptedJobs).
RestartHub ==
    /\ restarts < MaxRestarts /\ restarts' = restarts + 1
    /\ status' = [j \in Jobs |-> IF Active(j) THEN "error" ELSE status[j]]
    /\ registered' = None /\ activeJobOwners' = {} /\ activities' = EmptyBag
    /\ links' = {} /\ hubOpen' = {} /\ identified' = {}
    /\ toAgent' = [c \in Conns |-> <<>>] /\ toHub' = [c \in Conns |-> <<>>]
    /\ crossed' = {j \in Jobs : Known(j)}
    /\ UNCHANGED <<agentVars, made, activeWs, requests, unheard>>

-----------------------------------------------------------------------------
(* The agent's side of a connection. *)

Connect ==
    /\ activeWs = None /\ made < MaxConns
    /\ made' = made + 1 /\ activeWs' = made'
    /\ links' = links \cup {made'} /\ hubOpen' = hubOpen \cup {made'}
    /\ toHub' = [toHub EXCEPT ![made'] = <<Register>>]
    /\ UNCHANGED <<agentVars, hubVars, identified, toAgent, requests, restarts, history>>

\* The link dies under a connection, with the messages under way; neither end
\* knows yet.
LinkDies(c) ==
    /\ c \in links /\ made < MaxConns
    /\ links' = links \ {c}
    /\ toAgent' = [toAgent EXCEPT ![c] = <<>>] /\ toHub' = [toHub EXCEPT ![c] = <<>>]
    /\ UNCHANGED <<agentVars, hubVars, made, hubOpen, identified, activeWs, requests, restarts, history>>

AgentClose ==
    /\ activeWs # None /\ activeWs \notin links
    /\ activeWs' = None
    /\ UNCHANGED <<agentVars, hubVars, made, links, hubOpen, identified, toAgent, toHub,
                   requests, restarts, history>>

Delivered(c) == /\ c = activeWs /\ toAgent[c] # <<>>
                /\ toAgent' = [toAgent EXCEPT ![c] = Tail(@)]

\* A closure of the job reports to a connection that is gone.
Deaf(j) == \/ \E s \in Slots : slots[s] # None /\ slots[s].job = j /\ slots[s].ws # activeWs
           \/ \E i \in DOMAIN waiting : waiting[i].job = j /\ waiting[i].ws # activeWs

AgentRun(c) ==
    /\ Delivered(c) /\ Head(toAgent[c]).type = "job:run"
    /\ LET j == Head(toAgent[c]).job IN
       /\ HandleJobRun(j, c)
       /\ unheard' = IF Deaf(j) THEN unheard \cup {j} ELSE unheard \ {j}
    /\ UNCHANGED <<hubVars, made, links, hubOpen, identified, activeWs, toHub, requests, restarts, crossed>>

\* Mutant: only a queued job can be cancelled.
AgentCancel_NoAbort(c) ==
    /\ Delivered(c) /\ Head(toAgent[c]).type = "job:cancel"
    /\ LET j == Head(toAgent[c]).job IN
       \/ CancelQueued(j) /\ Report(c, "cancelled", j)
       \/ j \notin queuedJobs /\ UNCHANGED <<agentVars, toHub>>
    /\ UNCHANGED <<hubVars, made, links, hubOpen, identified, activeWs, requests, restarts, history>>

AgentCancel(c) ==
    /\ Delivered(c) /\ Head(toAgent[c]).type = "job:cancel"
    /\ LET j == Head(toAgent[c]).job IN
       \/ CancelQueued(j) /\ Report(c, "cancelled", j)
       \/ CancelRunning(j) /\ UNCHANGED toHub
    /\ UNCHANGED <<hubVars, made, links, hubOpen, identified, activeWs, requests, restarts, history>>

AgentStart(s) ==
    /\ StartJob(s)
    /\ Report(Head(waiting).ws, "started", Head(waiting).job)
    /\ UNCHANGED <<hubVars, made, links, hubOpen, identified, activeWs, toAgent, requests, restarts, history>>

AgentEnd(s) ==
    /\ \E outcome \in Outcomes : EndJob(s, outcome) /\ Report(slots[s].ws, outcome, slots[s].job)
    /\ UNCHANGED <<hubVars, made, links, hubOpen, identified, activeWs, toAgent, requests, restarts, history>>

AgentSkip ==
    /\ SkipClosure
    /\ UNCHANGED <<hubVars, netVars, requests, restarts, history>>

\* The agent's process dies; its connection's link with it.
AgentDies ==
    /\ restarts < MaxRestarts /\ restarts' = restarts + 1
    /\ activeWs # None => made < MaxConns
    /\ RestartAgent
    /\ links' = links \ {activeWs} /\ activeWs' = None
    /\ toAgent' = [c \in Conns |-> IF c = activeWs THEN <<>> ELSE toAgent[c]]
    /\ toHub' = [c \in Conns |-> IF c = activeWs THEN <<>> ELSE toHub[c]]
    /\ unheard' = {}
    /\ UNCHANGED <<hubVars, made, hubOpen, identified, requests, crossed>>

-----------------------------------------------------------------------------

Request == \E j \in Jobs : RunRequest(j) \/ CancelRequest(j)

HubActivity == \E a \in BagToSet(activities) :
    \/ QueueJob(a) \/ BroadcastJobRun(a) \/ SetCancelled(a) \/ BroadcastJobCancel(a)
    \/ ReadQueued(a) \/ Redispatch(a) \/ SetEnded(a) \/ DisownNext(a) \/ SetFailed(a)

HubConn(c) == HubRegister(c) \/ HubStarted(c) \/ HubEnded(c) \/ HubClose(c)

AgentConn(c) == AgentRun(c) \/ AgentCancel(c)

Fault == (\E c \in Conns : LinkDies(c)) \/ AgentDies \/ RestartHub

Next == \/ Request \/ HubActivity \/ Fault \/ Connect \/ AgentClose \/ AgentSkip
        \/ \E c \in Conns : HubConn(c) \/ AgentConn(c)
        \/ \E s \in Slots : AgentStart(s) \/ AgentEnd(s)

Spec == Init /\ [][Next]_vars

\* Handlers go on, messages arrive, dead connections are noticed, the agent
\* reconnects, and a sync ends.
Fairness ==
    /\ WF_vars(HubActivity) /\ WF_vars(Connect) /\ WF_vars(AgentClose) /\ WF_vars(AgentSkip)
    /\ \A c \in Conns : WF_vars(HubConn(c)) /\ WF_vars(AgentConn(c))
    /\ \A s \in Slots : WF_vars(AgentStart(s)) /\ WF_vars(AgentEnd(s))
FairSpec == Spec /\ Fairness

-----------------------------------------------------------------------------
(* Properties. *)

\* A comment of api/src/index.ts says of activeJobOwners that it holds the jobs
\* which were dispatched to an agent and have not reached a terminal state; jobs
\* that markOwnedJobsFailed is at work on aside.
RunningJobIsOwned ==
    \A j \in Jobs : status[j] = "running" =>
        j \in activeJobOwners \/ \E a \in Parked("markFailed") : a.failing = j

\* Nothing is under way and both ends know the one connection there is.
AtRest == /\ activities = EmptyBag
          /\ activeWs # None /\ hubOpen = {activeWs} /\ links = {activeWs}
          /\ toAgent[activeWs] = <<>> /\ toHub[activeWs] = <<>>

\* A job the agent runs, and was not told to stop, is shown as queued or running
\* once nothing is under way, unless the run reports to a dead connection or the
\* end of another request hit it (jobs.status is written by handlers that
\* overtake each other).
RunningIsShown ==
    AtRest => \A j \in runningJobs \ (abortedJobs \cup crossed) : Active(j) \/ Deaf(j)

\* Conversely, a job shown as queued or running is with the agent once nothing is under
\* way, whatever connections and processes died, with two exceptions the code has: its
\* job:run met a run that reports to a dead connection, or the end of another request
\* hit it (queueJob, the register and close handlers, markOwnedJobsFailed, handleJobRun).
ActiveIsWorkedOn ==
    AtRest => \A j \in Jobs \ (unheard \cup crossed) : Active(j) => Known(j)

\* A job shown as queued or running is over in the end, whatever connections and
\* processes die, with two exceptions the code has: its job:run met a run of the
\* job that reports to a dead connection, or the end of another request hit it
\* (queueJob, the register and close handlers, handleJobRun).
ActiveJobEnds ==
    \A j \in Jobs : Active(j) ~> ~Active(j) \/ j \in unheard \cup crossed
=============================================================================
