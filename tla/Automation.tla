---------------------------- MODULE Automation -----------------------------
(***************************************************************************)
(* What makes a job run without a person: the scheduler and the start of   *)
(* the server, the agent's file watchers and folder monitor, and the       *)
(* messages that tell the agent what to watch and the server what changed. *)
(* One agent, Here; its queue and the races of the run messages            *)
(* are JobDispatch's.  A trigger is "watch", "connect", "start", "cron" or *)
(* "period".                                                               *)
(***************************************************************************)
EXTENDS Integers, Sequences, Collections

CONSTANTS Here,          \* the agent's device
          Every,         \* periodicEveryMinutes
          CronMinutes,   \* the minutes a cron expression matches
          MaxConns

VARIABLES conn,          \* the agent's connection, 0 if it has none
          made,          \* connections ever made
          registered,    \* agents
          owned,         \* activeJobOwners
          toAgent, toHub,
          watching,      \* JobWatcher: job -> the path its watcher is on, or None
          timers,        \* jobs whose debounce timer runs
          monitored,     \* FolderConnectMonitor: job -> path or None
          available,     \* job -> path -> what the last poll saw, or None
          connTimers,    \* job -> the folders its debounce timer was set for, or {}
          polling,       \* the look pollNow awaits, with what it read before, or None
          runs,          \* job -> its run at the agent, or None
          present,       \* the folders that are there
          \* History:
          wanted,        \* paths with something no run has seen
          missed,        \* ... and known to be missed
          misdirected,   \* jobs given another path under a watcher
          overtaken,     \* the last list of jobs sent was not the last one read
          ended,         \* job -> when it last completed or failed, or None
          cancelled      \* jobs cancelled since

netVars     == <<conn, made, registered, toAgent, toHub>>
watcherVars == <<watching, timers, monitored, available, connTimers, polling>>
noticed     == <<wanted, missed>>
runHistory  == <<ended, cancelled>>
autoVars    == <<netVars, owned, watcherVars, runs, present, noticed, misdirected, overtaken,
                 runHistory>>
vars == <<catalogVars, autoVars>>

ASSUME AutomationAssumption == MaxConns \in Nat \ {0} /\ None \notin BOOLEAN \cup Nat

Has(j, trigger) == Exists(j) /\ trigger \in jobs[j].auto
Send(q, m)      == IF conn = 0 THEN q ELSE Append(q, m)
Watch(row)      == [path |-> row.path, auto |-> row.auto, device |-> row.device]
Lost(js)        == missed \cup {jobs[j].path : j \in {i \in js : Exists(i)}}

-----------------------------------------------------------------------------
(* Runs: queueJob and what comes back. *)

\* jobsDb.setStatus: last_run is the time of an end, and no time at all otherwise.
SetStatus(rows, j, s) ==
    IF rows[j] \in {None, Deleted} THEN rows
    ELSE [rows EXCEPT ![j].status = s,
                      ![j].lastRun = IF s \in {"completed", "error"} THEN now ELSE None]

\* Mutant: an interval counts from the creation of the job.
shouldRunInterval_FromCreation(row) == now - row.createdAt >= Every

shouldRunInterval(row) ==
    now - (IF row.lastRun = None THEN row.createdAt ELSE row.lastRun) >= Every

shouldRunNow(row) == now \in CronMinutes /\ row.lastRun # now

Due(j) == /\ Exists(j) /\ ~Active(j)
          /\ \/ "cron" \in jobs[j].auto /\ shouldRunNow(jobs[j])
             \/ "period" \in jobs[j].auto /\ shouldRunInterval(jobs[j])

\* A handler that queues the jobs it has read, one after the other.
Queue(js, reason) == [kind |-> "queue", reason |-> reason, todo |-> js, job |-> None,
                      rows |-> [j \in js |-> jobs[j]], at |-> now]

\* checkScheduledJobs; polls may overlap.
Poll == LET due == {j \in Jobs : Due(j)} IN
    /\ due # {}
    /\ Begin(Queue(due, "schedule"))
    /\ UNCHANGED <<jobs, members, links, linkIds, defaults, now, budget, catalogHistory, autoVars>>

RunRequest(j) ==
    /\ Spend("runs") /\ Exists(j) /\ ~Active(j)
    /\ Begin(Queue({j}, "manual"))
    /\ UNCHANGED <<jobs, members, links, linkIds, defaults, now, catalogHistory, autoVars>>

QueueNext(t) ==
    /\ t \in AtWork({"queue"}) /\ t.job = None
    /\ \E j \in t.todo :
          /\ jobs' = SetStatus(jobs, j, "queued")
          /\ Continue(t, [t EXCEPT !.job = j, !.todo = @ \ {j}])
    /\ UNCHANGED <<members, links, linkIds, defaults, now, budget, catalogHistory, autoVars>>

\* A run that is over is written to the log, which needs the job's row (sync_log.job_id).
MayLog(j) == Exists(j)

\* broadcastJobRun: the job as it was read, to the first agent there is: the
\* source's device counts only for jobs that name both devices.
QueueSend(t) ==
    /\ t \in AtWork({"queue"}) /\ t.job # None /\ (registered \/ MayLog(t.job))
    /\ LET j == t.job IN
       IF registered
       THEN /\ toAgent' = Send(toAgent, [type |-> "run", job |-> j, path |-> t.rows[j].path])
            /\ owned' = owned \cup {j}
            /\ UNCHANGED <<jobs, missed, runHistory>>
       ELSE /\ jobs' = SetStatus(jobs, j, "error")
            /\ missed' = Lost({j})
            /\ ended' = [ended EXCEPT ![j] = now] /\ cancelled' = cancelled \ {j}
            /\ UNCHANGED <<toAgent, owned>>
    /\ Continue(t, [t EXCEPT !.job = None])
    /\ UNCHANGED <<members, links, linkIds, defaults, now, budget, catalogHistory, conn, made, registered,
                   toHub, watcherVars, runs, present, wanted, misdirected, overtaken>>

QueueEnds(t) ==
    /\ t \in AtWork({"queue"}) /\ t.job = None /\ t.todo = {}
    /\ End(t)
    /\ UNCHANGED <<jobs, members, links, linkIds, defaults, now, budget, catalogHistory, autoVars>>

\* The cancel route; the message is sent when the status is written.
CancelRequest(j) ==
    /\ Spend("runs") /\ Active(j)
    /\ jobs' = SetStatus(jobs, j, "cancelled")
    /\ toAgent' = IF registered THEN Send(toAgent, [type |-> "cancel", job |-> j]) ELSE toAgent
    /\ missed' = Lost({j}) /\ cancelled' = cancelled \cup {j}
    /\ UNCHANGED <<members, links, linkIds, defaults, tasks, now, catalogHistory, conn, made, registered,
                   toHub, owned, watcherVars, runs, present, wanted, misdirected, overtaken, ended>>

-----------------------------------------------------------------------------
(* The server's side of the connection. *)

Received(type) == /\ registered \/ type = "register"
                  /\ toHub # <<>> /\ Head(toHub).type = type
                  /\ toHub' = Tail(toHub)

HubRegister ==
    /\ Received("register")
    /\ registered' = TRUE
    /\ Begin([Tell EXCEPT !.then = "queued"])
    /\ UNCHANGED <<jobs, members, links, linkIds, defaults, now, budget, catalogHistory, conn, made,
                   toAgent, owned, watcherVars, runs, present, noticed, misdirected,
                   overtaken, runHistory>>

\* job:trigger: the row is read and must have the trigger; queueJob passes over a
\* job that is active.
HubTrigger ==
    /\ Received("trigger")
    /\ LET m == Head(toHub) IN
       IF Has(m.job, m.reason) /\ ~Active(m.job)
       THEN Begin(Queue({m.job}, m.reason)) /\ UNCHANGED missed
       ELSE missed' = missed \cup m.paths /\ UNCHANGED tasks
    /\ UNCHANGED <<jobs, members, links, linkIds, defaults, now, budget, catalogHistory, conn, made,
                   registered, toAgent, owned, watcherVars, runs, present, wanted, misdirected,
                   overtaken, runHistory>>

HubStarted ==
    /\ Received("started")
    /\ jobs' = SetStatus(jobs, Head(toHub).job, "running")
    /\ UNCHANGED <<members, links, linkIds, defaults, tasks, now, budget, catalogHistory, conn, made,
                   registered, toAgent, owned, watcherVars, runs, present, noticed,
                   misdirected, overtaken, runHistory>>

\* job:complete, job:cancelled, job:error.
HubEnded ==
    /\ Received("ended") /\ MayLog(Head(toHub).job)
    /\ LET m == Head(toHub) IN
       /\ jobs' = SetStatus(jobs, m.job, m.outcome)
       /\ owned' = owned \ {m.job}
       /\ IF m.outcome = "cancelled"
          THEN cancelled' = cancelled \cup {m.job} /\ UNCHANGED ended
          ELSE cancelled' = cancelled \ {m.job} /\ ended' = [ended EXCEPT ![m.job] = now]
    /\ UNCHANGED <<members, links, linkIds, defaults, tasks, now, budget, catalogHistory, conn, made,
                   registered, toAgent, watcherVars, runs, present, noticed,
                   misdirected, overtaken>>

\* Lists that were read before are old now (history).
Outdated(bag) ==
    LET lists  == {t \in DOMAIN bag : t.kind = "watch" /\ t.list # None}
        aged   == {[t EXCEPT !.old = TRUE] : t \in lists}
        copies(t) == IF t \in DOMAIN bag THEN bag[t] ELSE 0
    IN  [t \in (DOMAIN bag \ lists) \cup aged |->
            copies(t) + IF t \in aged THEN copies([t EXCEPT !.old = FALSE]) ELSE 0]

\* sendWatchConfig reads the jobs ...
ReadWatched(t) ==
    /\ t \in AtWork({"watch"}) /\ t.list = None
    /\ IF registered
       THEN /\ tasks' = Outdated(tasks (-) SetToBag({t})) (+) SetToBag({[t EXCEPT
                  !.conn = conn, !.list = [j \in Jobs |-> IF Has(j, "watch") \/ Has(j, "connect")
                                                          THEN Watch(jobs[j]) ELSE None]]})
            /\ silent' = {}
       ELSE End(t) /\ UNCHANGED silent
    /\ UNCHANGED <<jobs, members, links, linkIds, defaults, now, budget, overlapped, interrupted,
                   unassigned, kept, autoVars>>

\* ... and sends those with a watcher.  Two such handlers may send in either order.
\* After a registration the queued jobs are sent as well.
SendWatched(t) ==
    /\ t \in AtWork({"watch"}) /\ t.list # None
    /\ toAgent' = IF t.conn = conn /\ conn # 0
                  THEN Append(toAgent, [type |-> "watch", list |-> t.list]) ELSE toAgent
    /\ overtaken' = IF t.conn = conn /\ conn # 0 THEN t.old ELSE overtaken
    /\ IF t.then = "end" THEN End(t) ELSE Continue(t, [kind |-> "resend", conn |-> t.conn])
    /\ UNCHANGED <<jobs, members, links, linkIds, defaults, now, budget, catalogHistory, conn, made,
                   registered, toHub, owned, watcherVars, runs, present, noticed, misdirected,
                   runHistory>>

ResendQueued(t) ==
    /\ t \in AtWork({"resend"})
    /\ LET queued == {j \in Jobs : Exists(j) /\ jobs[j].status = "queued"}
           open == t.conn = conn /\ conn # 0 IN
       /\ \E order \in {o \in [1..Cardinality(queued) -> queued] :
                            \A a, b \in DOMAIN o : o[a] = o[b] => a = b} :
             toAgent' = IF open
                THEN toAgent \o [i \in DOMAIN order |->
                        [type |-> "run", job |-> order[i], path |-> jobs[order[i]].path]]
                ELSE toAgent
       /\ owned' = owned \cup queued
    /\ End(t)
    /\ UNCHANGED <<jobs, members, links, linkIds, defaults, now, budget, catalogHistory, conn, made,
                   registered, toHub, watcherVars, runs, present, noticed, misdirected,
                   overtaken, runHistory>>

-----------------------------------------------------------------------------
(* The agent. *)

Connect ==
    /\ conn = 0 /\ made < MaxConns
    /\ made' = made + 1 /\ conn' = made'
    /\ toHub' = <<[type |-> "register"]>>
    /\ UNCHANGED <<catalogVars, registered, toAgent, owned, watcherVars, runs, present, noticed,
                   misdirected, overtaken, runHistory>>

Delivered(type) == /\ toAgent # <<>> /\ Head(toAgent).type = type
                   /\ toAgent' = Tail(toAgent)

\* watchPathsForJob, folderConnectPathsForJob: the path if it is on this device.
LocalPath(list, j, trigger) ==
    IF list[j] \notin {None, Deleted} /\ trigger \in list[j].auto /\ list[j].device \in {None, Here}
    THEN list[j].path ELSE None

\* Mutant: every list stops the timers.
WatcherSync_StopsTimers(list) ==
    LET want(j) == LocalPath(list, j, "watch") IN
    /\ watching' = [j \in Jobs |->
                        IF want(j) = None \/ watching[j] = None THEN want(j) ELSE watching[j]]
    /\ timers' = {}

\* Mutant: a job that is no longer watched keeps its timer.
WatcherSync_KeepsTimers(list) ==
    LET want(j) == LocalPath(list, j, "watch") IN
    /\ watching' = [j \in Jobs |->
                        IF want(j) = None \/ watching[j] = None THEN want(j) ELSE watching[j]]
    /\ UNCHANGED timers

\* JobWatcher.sync: a watcher there is stays as it is, whatever became of its job.
WatcherSync(list) ==
    LET want(j) == LocalPath(list, j, "watch") IN
    /\ watching' = [j \in Jobs |->
                        IF want(j) = None \/ watching[j] = None THEN want(j) ELSE watching[j]]
    /\ timers' = timers \ {j \in Jobs : watching[j] # None /\ want(j) = None}

\* FolderConnectMonitor.sync takes over the job's path.
MonitorSync(list) ==
    LET want(j) == LocalPath(list, j, "connect")
        gone == {j \in Jobs : monitored[j] # None /\ want(j) = None} IN
    /\ monitored' = [j \in Jobs |-> want(j)]
    /\ available' = [j \in Jobs |-> IF j \in gone THEN [p \in Paths |-> None] ELSE available[j]]
    /\ connTimers' = [j \in Jobs |-> IF j \in gone THEN {} ELSE connTimers[j]]

\* A list that is out of date may take a watcher away with its timer (history).
AgentWatch ==
    /\ Delivered("watch")
    /\ WatcherSync(Head(toAgent).list)
    /\ MonitorSync(Head(toAgent).list)
    /\ missed' = Lost({j \in Jobs :
                          /\ j \in timers \ timers' \/ connTimers[j] # connTimers'[j]
                          /\ Exists(j) /\ Head(toAgent).list[j] # Watch(jobs[j])})
    /\ UNCHANGED <<catalogVars, conn, made, registered, toHub, owned, polling, runs, present,
                   wanted, misdirected, overtaken, runHistory>>

\* A debounce timer fires.  The server hears of the job; the paths are history.
Fires(j, reason, paths) ==
    /\ toHub' = Send(toHub, [type |-> "trigger", job |-> j, reason |-> reason, paths |-> paths])
    /\ missed' = IF conn = 0 THEN missed \cup paths ELSE missed
    /\ UNCHANGED <<catalogVars, conn, made, registered, toAgent, owned, watching, monitored,
                   available, polling, runs, present, wanted, misdirected, overtaken, runHistory>>

WatchFires(j) ==
    /\ j \in timers /\ timers' = timers \ {j}
    /\ Fires(j, "watch", {watching[j]}) /\ UNCHANGED connTimers

FolderFires(j) ==
    /\ connTimers[j] # {} /\ connTimers' = [connTimers EXCEPT ![j] = {}]
    /\ Fires(j, "connect", connTimers[j]) /\ UNCHANGED timers

\* A change to path p, of which the agent has heard for these jobs, will be seen by the
\* run of one of them.
Noticed(p, js, trigger) ==
    /\ wanted' = wanted \cup {p}
    /\ missed' = IF \E j \in js : Has(j, trigger) /\ jobs[j].path = p
                 THEN missed \ {p} ELSE missed \cup {p}

\* FolderConnectMonitor.pollNow takes a job's path and what it last saw there, and awaits a
\* look at the folder; polls do not overlap.  Looks that see nothing new are left out.
FolderLook(j) ==
    /\ polling = None /\ monitored[j] # None
    /\ LET p == monitored[j] IN
       /\ available[j][p] # (p \in present)
       /\ polling' = [job |-> j, path |-> p, was |-> available[j][p]]
    /\ UNCHANGED <<catalogVars, netVars, owned, watching, timers, monitored, available,
                   connTimers, runs, present, noticed, misdirected, overtaken, runHistory>>

\* The answer is noted and a folder that is back sets the job's timer, although jobs:watch
\* may have ended the monitoring meanwhile and cleared what there was of both.
FolderAnswer ==
    /\ polling # None /\ polling' = None
    /\ LET j == polling.job  p == polling.path IN
       /\ available' = [available EXCEPT ![j][p] = p \in present]
       /\ IF polling.was = FALSE /\ p \in present
          THEN connTimers' = [connTimers EXCEPT ![j] = @ \cup {p}] /\ Noticed(p, {j}, "connect")
          ELSE UNCHANGED <<connTimers, noticed>>
    /\ UNCHANGED <<catalogVars, netVars, owned, watching, timers, monitored, runs, present,
                   misdirected, overtaken, runHistory>>

\* handleJobRun: a job that is here already is not taken again.
AgentRun ==
    /\ Delivered("run")
    /\ LET m == Head(toAgent) IN
       IF runs[m.job] = None
       THEN /\ runs' = [runs EXCEPT ![m.job] =
                           [step |-> "queued", path |-> m.path, conn |-> conn, stop |-> FALSE]]
            /\ UNCHANGED missed
       ELSE missed' = missed \cup {m.path} /\ UNCHANGED runs
    /\ UNCHANGED <<catalogVars, conn, made, registered, toHub, owned, watcherVars, present,
                   wanted, misdirected, overtaken, runHistory>>

Reports(j, m) == toHub' = IF runs[j].conn = conn THEN Send(toHub, m) ELSE toHub

AgentCancel ==
    /\ Delivered("cancel")
    /\ LET j == Head(toAgent).job IN
       \/ /\ runs[j] # None /\ runs[j].step = "queued"
          /\ runs' = [runs EXCEPT ![j] = None]
          /\ toHub' = Send(toHub, [type |-> "ended", job |-> j, outcome |-> "cancelled"])
       \/ /\ runs[j] # None /\ runs[j].step # "queued"
          /\ runs' = [runs EXCEPT ![j].stop = TRUE]
          /\ UNCHANGED toHub
       \/ runs[j] = None /\ UNCHANGED <<runs, toHub>>
    /\ UNCHANGED <<catalogVars, conn, made, registered, owned, watcherVars, present, noticed,
                   misdirected, overtaken, runHistory>>

RunStarts(j) ==
    /\ runs[j] # None /\ runs[j].step = "queued"
    /\ runs' = [runs EXCEPT ![j].step = "started"]
    /\ Reports(j, [type |-> "started", job |-> j])
    /\ UNCHANGED <<catalogVars, conn, made, registered, toAgent, owned, watcherVars, present,
                   noticed, misdirected, overtaken, runHistory>>

\* The run reads its source (runSync: what it does with it is BidirSync's and OneWaySync's).
RunWalks(j) ==
    /\ runs[j] # None /\ runs[j].step = "started" /\ ~runs[j].stop
    /\ runs' = [runs EXCEPT ![j].step = "walked"]
    /\ wanted' = wanted \ ({runs[j].path} \cap present)
    /\ missed' = missed \ ({runs[j].path} \cap present)
    /\ UNCHANGED <<catalogVars, netVars, owned, watcherVars, present, misdirected, overtaken,
                   runHistory>>

RunEnds(j) ==
    /\ runs[j] # None
    /\ \E outcome \in {"completed", "cancelled", "error"} :
          /\ outcome = "completed" => runs[j].step = "walked"
          /\ outcome = "cancelled" => runs[j].stop /\ runs[j].step \in {"started", "walked"}
          /\ IF outcome = "error"
             THEN /\ runs[j].step = "started" /\ ~runs[j].stop /\ Spend("faults")
                  /\ missed' = missed \cup {runs[j].path}
             ELSE UNCHANGED <<budget, missed>>
          /\ Reports(j, [type |-> "ended", job |-> j, outcome |-> outcome])
    /\ runs' = [runs EXCEPT ![j] = None]
    /\ UNCHANGED <<jobs, members, links, linkIds, defaults, tasks, now, catalogHistory, conn, made,
                   registered, toAgent, owned, watcherVars, present, wanted, misdirected,
                   overtaken, runHistory>>

-----------------------------------------------------------------------------
(* The world: edits, folders, time, lost connections, deaths. *)

Edit(p) ==
    /\ Spend("edits") /\ p \in present
    /\ LET js == {j \in Jobs : watching[j] = p} IN
       /\ timers' = timers \cup js
       /\ Noticed(p, js, "watch")
    /\ UNCHANGED <<jobs, members, links, linkIds, defaults, tasks, now, catalogHistory, netVars, owned,
                   watching, monitored, available, connTimers, polling, runs, present,
                   misdirected, overtaken, runHistory>>

FolderMoves(p) ==
    /\ Spend("folders")
    /\ present' = IF p \in present THEN present \ {p} ELSE present \cup {p}
    /\ missed' = IF p \in present THEN missed \cup {p} ELSE missed
    /\ UNCHANGED <<jobs, members, links, linkIds, defaults, tasks, now, catalogHistory, netVars, owned,
                   watcherVars, runs, wanted, misdirected, overtaken, runHistory>>

Tick ==
    /\ Spend("minutes") /\ now < MaxTime /\ now' = now + 1
    /\ UNCHANGED <<jobs, members, links, linkIds, defaults, tasks, catalogHistory, autoVars>>

\* Connection and messages are lost, and both ends notice; markOwnedJobsFailed.
Disconnect ==
    LET failed == {j \in owned : Active(j)} IN
    /\ conn' = 0 /\ registered' = FALSE /\ owned' = {}
    /\ toAgent' = <<>> /\ toHub' = <<>>
    /\ jobs' = [j \in Jobs |-> IF j \in failed THEN SetStatus(jobs, j, "error")[j] ELSE jobs[j]]
    /\ ended' = [j \in Jobs |-> IF j \in failed THEN now ELSE ended[j]]
    /\ cancelled' = cancelled \ failed
    /\ missed' = missed \cup wanted

ConnectionLost ==
    /\ Spend("faults") /\ conn # 0
    /\ Disconnect
    /\ UNCHANGED <<members, links, linkIds, defaults, tasks, now, catalogHistory, made, watcherVars, runs,
                   present, wanted, misdirected, overtaken>>

AgentDies ==
    /\ Spend("faults")
    /\ Disconnect
    /\ watching' = [j \in Jobs |-> None] /\ timers' = {}
    /\ monitored' = [j \in Jobs |-> None] /\ connTimers' = [j \in Jobs |-> {}]
    /\ polling' = None
    /\ available' = [j \in Jobs |-> [p \in Paths |-> None]]
    /\ runs' = [j \in Jobs |-> None] /\ misdirected' = {}
    /\ UNCHANGED <<members, links, linkIds, defaults, tasks, now, catalogHistory, made, present, wanted,
                   overtaken>>

\* The server dies and starts: recoverInterruptedJobs, then queueStartupJobs, while it
\* begins to listen.
RestartApi ==
    LET rows == [j \in Jobs |-> IF Active(j) THEN SetStatus(jobs, j, "error")[j] ELSE jobs[j]]
        startup == {j \in Jobs : Has(j, "start")} IN
    /\ conn' = 0 /\ registered' = FALSE /\ owned' = {} /\ toAgent' = <<>> /\ toHub' = <<>>
    /\ jobs' = rows
    /\ ended' = [j \in Jobs |-> IF Active(j) THEN now ELSE ended[j]]
    /\ cancelled' = {j \in cancelled : ~Active(j)}
    /\ tasks' = IF startup = {} THEN EmptyBag
                ELSE SetToBag({[Queue(startup, "startup") EXCEPT
                                  !.rows = [j \in startup |-> rows[j]]]})
    /\ interrupted' = (interrupted \/ AtWork(Assigning) # {})
    /\ missed' = missed \cup wanted
    /\ UNCHANGED <<members, links, linkIds, defaults, now, overlapped, unassigned, kept, silent, made,
                   watcherVars, runs, present, wanted, misdirected, overtaken>>

ApiDies == Spend("faults") /\ RestartApi

\* A row that may not be inserted, a link or the log of a run whose job is gone: nobody
\* handles the rejection of the handler, and the process ends.
InsertFails(t) ==
    /\ \/ t \in AtWork(Assigning) /\ t.step = "insert" /\ ~MayInsert(t.next)
       \/ t \in AtWork({"queue"}) /\ t.job # None /\ ~registered /\ ~MayLog(t.job)
    /\ RestartApi
    /\ UNCHANGED budget

LogFails ==
    /\ registered /\ toHub # <<>> /\ Head(toHub).type = "ended" /\ ~MayLog(Head(toHub).job)
    /\ RestartApi
    /\ UNCHANGED budget

-----------------------------------------------------------------------------

\* A request or handler of the catalog, and what it does to the obligations of the agent:
\* paths of jobs that change are no longer owed a run, and a job may get another path under
\* its watcher.
Heard(j) == \/ watching[j] # None
            \/ \E t \in AtWork({"watch"}) : t.list # None
            \/ \E i \in DOMAIN toAgent : toAgent[i].type = "watch"

Noting ==
    LET changed == {j \in Jobs : Exists(j) /\ (jobs'[j] = Deleted
                        \/ jobs'[j].path # jobs[j].path \/ jobs'[j].auto # jobs[j].auto)} IN
    /\ missed' = Lost(changed)
    /\ misdirected' = misdirected \cup {j \in changed : jobs'[j] # Deleted
                          /\ jobs'[j].path # jobs[j].path /\ Heard(j)}

Catalog(step) ==
    /\ step
    /\ Noting
    /\ UNCHANGED <<netVars, owned, watcherVars, runs, present, wanted, overtaken, runHistory>>

\* The agent is about to connect, or connected and at rest, or not there at all.
AgentInit(start) ==
    /\ conn = (IF start = "online" THEN 1 ELSE 0)
    /\ made = (IF start = "absent" THEN MaxConns ELSE conn)
    /\ registered = (start = "online")
    /\ watching = [j \in Jobs |-> IF registered THEN LocalPath(jobs, j, "watch") ELSE None]
    /\ monitored = [j \in Jobs |-> IF registered THEN LocalPath(jobs, j, "connect") ELSE None]
    /\ owned = {} /\ toAgent = <<>> /\ toHub = <<>>
    /\ timers = {} /\ connTimers = [j \in Jobs |-> {}] /\ polling = None
    /\ available = [j \in Jobs |-> [p \in Paths |->
                        IF registered /\ monitored[j] = p THEN TRUE ELSE None]]
    /\ runs = [j \in Jobs |-> None]
    /\ present = Paths
    /\ wanted = {} /\ missed = {} /\ misdirected = {} /\ overtaken = FALSE
    /\ ended = [j \in Jobs |-> None] /\ cancelled = {}

Init == \E c \in Cases : CatalogInit(c) /\ AgentInit(c.start)

Hub == \/ Poll \/ HubRegister \/ HubTrigger \/ HubStarted \/ HubEnded
       \/ \E t \in BagToSet(tasks) : \/ QueueNext(t) \/ QueueSend(t) \/ QueueEnds(t)
                                     \/ ReadWatched(t) \/ SendWatched(t) \/ ResendQueued(t)

Agent == \/ Connect \/ AgentWatch \/ AgentRun \/ AgentCancel \/ FolderAnswer
         \/ \E j \in Jobs : \/ WatchFires(j) \/ FolderFires(j) \/ FolderLook(j)
                            \/ RunStarts(j) \/ RunWalks(j) \/ RunEnds(j)

World == \/ Catalog(Requests)
         \/ \E j \in Jobs : RunRequest(j) \/ CancelRequest(j)
         \/ \E p \in Paths : Edit(p) \/ FolderMoves(p)
         \/ Tick \/ ConnectionLost \/ AgentDies \/ ApiDies

Failing == LogFails \/ \E t \in BagToSet(tasks) : InsertFails(t)

Progress == Catalog(Handlers) \/ Failing \/ Hub \/ Agent

Next == Progress \/ World
Spec == Init /\ [][Next]_vars
FairSpec == Spec /\ WF_vars(Progress)

-----------------------------------------------------------------------------

Watched   == [path : Paths, auto : Settings, device : Devices \cup {None}]
Lists     == [Jobs -> Watched \cup {None}]
ASSUME ListsAssumption == None \notin Lists \cup Watched /\ Deleted \notin Watched
WatchTask == [kind : {"watch"}, conn : 0..made \cup {None}, list : Lists \cup {None},
              old : BOOLEAN, then : {"end", "queued"}]
ResendTask == [kind : {"resend"}, conn : 0..made]
QueueTask(js) ==
             [kind : {"queue"}, reason : {"schedule", "manual", "watch", "connect", "startup"},
              todo : SUBSET Jobs, job : Jobs \cup {None}, at : Times,
              rows : [js -> Row]]

TaskOK(t) ==
    \/ t \in WatchTask /\ (t.conn = None <=> t.list = None) /\ (t.list = None => ~t.old)
    \/ t \in ResendTask
    \/ t \in UpdateTask /\ UpdateOK(t)
    \/ t \in AssignTask /\ AssignOK(t)
    \/ \E js \in SUBSET Jobs : t \in QueueTask(js) /\ t.todo \cup ({t.job} \ {None}) \subseteq js

RunMessage    == [type : {"run"}, job : Jobs, path : Paths]
CancelMessage == [type : {"cancel"}, job : Jobs]
ListMessage   == [type : {"watch"}, list : Lists]
ToHub ==      [type : {"register"}]
         \cup [type : {"trigger"}, job : Jobs, reason : {"watch", "connect"}, paths : SUBSET Paths]
         \cup [type : {"started"}, job : Jobs]
         \cup [type : {"ended"}, job : Jobs, outcome : {"completed", "cancelled", "error"}]

Look == [job : Jobs, path : Paths, was : BOOLEAN \cup {None}]

\* Rows, handlers, messages, watchers and runs have their types; the debounce timer of a
\* file watcher goes with its watcher (the folder monitor's may outlive its job's entry),
\* and a run that was read has its row (watch.ts, api/src/index.ts).
AutomationTypeOK ==
    /\ jobs \in [Jobs -> Row \cup {None, Deleted}]
    /\ members \in (SUBSET Devices) \cup {None}
    /\ links \in [Templates -> Paths \cup {None}] /\ linkIds \in [Templates -> Nat]
    /\ defaults \in [Templates -> Settings \cup {None}]
    /\ IsABag(tasks)
    /\ \A t \in BagToSet(tasks) : TaskOK(t)
    /\ now \in Times /\ budget \in Bounds
    /\ made \in Nat /\ conn \in 0..made /\ registered \in BOOLEAN /\ owned \subseteq Jobs
    /\ toAgent \in Seq(RunMessage \cup CancelMessage \cup ListMessage) /\ toHub \in Seq(ToHub)
    /\ watching \in [Jobs -> Paths \cup {None}]
    /\ timers \subseteq {j \in Jobs : watching[j] # None}
    /\ monitored \in [Jobs -> Paths \cup {None}]
    /\ connTimers \in [Jobs -> SUBSET Paths] /\ polling \in Look \cup {None}
    /\ available \in [Jobs -> [Paths -> BOOLEAN \cup {None}]]
    /\ runs \in [Jobs -> [step : {"queued", "started", "walked"}, path : Paths, conn : 0..made,
                         stop : BOOLEAN] \cup {None}]
    /\ present \subseteq Paths /\ wanted \subseteq Paths /\ missed \subseteq Paths

\* Nothing is under way between server and agent.
AtRest == /\ registered /\ toHub = <<>> /\ toAgent = <<>>
          /\ AtWork({"watch", "resend", "update"}) = {}

\* The agent watches what the jobs ask it to watch, once nothing is under way, unless a list of
\* jobs that was read earlier was sent later, the job was last written by a
\* collection's or a template's request, which tells no agent, or was given another path under
\* its watcher, which stays where it is (broadcastWatchConfig, JobWatcher.sync).
WatchersFollowJobs ==
    AtRest /\ ~overtaken => \A j \in Jobs \ (silent \cup misdirected) :
        /\ watching[j] = LocalPath(jobs, j, "watch")
        /\ monitored[j] = LocalPath(jobs, j, "connect")

\* What a watcher or the folder monitor noticed leads to a run that looks at it, whatever
\* else happens in between, unless the trigger came while the job was active, and then
\* nobody asks again, or the world intervened: a lost connection, a death, a failed or
\* cancelled run, or new settings of that very job (watch.ts, job:trigger, queueJob).
ChangesAreSynced == \A p \in Paths : p \in wanted ~> p \notin wanted \/ p \in missed

\* The schedule starts a job only in a minute it names, or when the period is over
\* since its last end, and never twice in a minute; except a job that was cancelled
\* since, which has no last_run, or that the scheduler read before it was run otherwise.
ScheduleIsKept ==
    [][\A j \in Jobs, t \in BagToSet(tasks) :
          /\ t.kind = "queue" /\ t.reason = "schedule" /\ t.job = None /\ j \in t.todo
          /\ [t EXCEPT !.job = j, !.todo = @ \ {j}] \in BagToSet(tasks')
          /\ Exists(j) /\ jobs[j] = t.rows[j] /\ jobs'[j] # jobs[j]
          /\ j \notin cancelled /\ ended[j] # None
          => \/ "cron" \in jobs[j].auto /\ t.at \in CronMinutes /\ ended[j] # t.at
             \/ "period" \in jobs[j].auto /\ t.at - ended[j] >= Every]_vars
=============================================================================
