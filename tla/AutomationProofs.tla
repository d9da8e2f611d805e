-------------------------- MODULE AutomationProofs --------------------------
(***************************************************************************)
(* What holds of jobs that run by themselves, for any jobs, templates,     *)
(* devices, settings, schedules, faults and bounds: the types; that a      *)
(* collection and its jobs agree; that the agent watches what the jobs ask *)
(* for; and that the schedule is kept.                                     *)
(*                                                                         *)
(* A handler that gives jobs to devices knows what is missing: a pair that *)
(* should have a job has one, or is on the handler's list (Assigned).  And *)
(* as long as nobody is about to read the jobs, the list that was read     *)
(* last is up to date, wherever it is: in a handler, on the wire, or taken *)
(* over by the watchers (ListsFit, LastFits).  A job that rests has the    *)
(* time of its last end in its row (EndFits).                              *)
(***************************************************************************)
EXTENDS Automation, FiniteSetTheorems, TLAPS

\* A job's device is the one of its pair.
RowFits(row) == row.pair # None => row.pair[2] = row.device

RowsFit ==
    /\ \A j \in Jobs : Exists(j) => RowFits(jobs[j])
    /\ \A t \in AtWork(Assigning) : t.draft # None => RowFits(t.draft) /\ t.draft.pair # None

\* What is linked is a template there is.
LinksFit == \A u \in Templates : links[u] # None => defaults[u] # None

OneAssign == ~overlapped => \A t, u \in AtWork(Assigning) : t = u /\ tasks[t] = 1

\* No pair has two jobs, and none is about to get a second one.
OneJobEach ==
    ~overlapped =>
        /\ \A i, j \in Jobs : Exists(i) /\ Exists(j) /\ i # j
                              => jobs[i].pair = None \/ jobs[i].pair # jobs[j].pair
        /\ \A t \in AtWork(Assigning) : t.draft # None => ~Found(t.draft.pair)

\* Pairs that should have a job and have none.
Unserved == {p \in Templates \X members : /\ links[p[1]] # None /\ p \notin unassigned
                                          /\ ~Found(p)}

\* The devices the collection's templates gave jobs.
UsedDevices == {jobs[j].device : j \in {i \in Jobs : Exists(i) /\ jobs[i].pair # None}}

Dropped(t) == IF t.removed.drop THEN t.removed.devices ELSE {}

\* What a handler at work has still to do, at each of its steps.
Assigned(t) ==
    /\ t.step = "members" => /\ Unserved = {} /\ t.todo = t.next \ members
                             /\ t.removed.devices = members \ t.next
                             /\ UsedDevices \subseteq t.next \cup kept \cup Dropped(t)
    /\ t.step # "members" => /\ t.removed.devices \cap members = {}
                             /\ UsedDevices \subseteq members \cup kept \cup Dropped(t)
    /\ t.step = "links" => Unserved \subseteq Templates \X t.todo /\ t.todo \subseteq members
    /\ t.step \in {"link", "insert", "relink"} =>
           Unserved = {} /\ t.todo = {t.next} \X members
    /\ t.step = "jobs" =>
           /\ Unserved \subseteq t.todo \cup (IF t.draft = None THEN {} ELSE {t.draft.pair})
           /\ t.todo \subseteq Templates \X members
    /\ t.draft # None => t.step = "jobs" /\ t.draft.device \in members

Undisturbed == ~overlapped /\ ~interrupted /\ members # None

Assignments == Undisturbed => \A t \in AtWork(Assigning) : Assigned(t)

Idle == Undisturbed /\ AtWork(Assigning) = {} => Unserved = {} /\ UsedDevices \subseteq members \cup kept

ServedInv == RowsFit /\ LinksFit /\ OneAssign /\ OneJobEach /\ Assignments /\ Idle

-----------------------------------------------------------------------------
\* Handlers with a list they have read, and those whose agent is still the one there.
Sending  == {t \in AtWork({"watch"}) : t.list # None}
Underway == {t \in Sending : t.conn = conn}

OnWay == {i \in DOMAIN toAgent : toAgent[i].type = "watch"}

\* Only a connected agent is registered or has sent something; lists go to connections there
\* were.
ConnFits ==
    /\ registered => conn # 0
    /\ conn = 0 => toHub = <<>>
    /\ \A t \in Sending : t.conn # 0

\* Nobody watches for a job that was not made yet.
NoneWatched ==
    \A j \in Jobs : jobs[j] = None =>
        /\ watching[j] = None
        /\ \A t \in Sending : t.list[j] = None
        /\ \A i \in OnWay : toAgent[i].list[j] = None

\* The path of a job there is, or none.
Own(watched, j) == watched # None => watched.path = jobs[j].path

\* Unless it was given another one under its watcher, a job has but one path.
OnePath ==
    \A j \in Jobs \ misdirected : Exists(j) =>
        /\ watching[j] \in {None, jobs[j].path}
        /\ \A t \in Underway : Own(t.list[j], j)
        /\ \A i \in OnWay : Own(toAgent[i].list[j], j)

\* A handler that will read the jobs, and tell the agent.
Telling(t) == (t.kind = "watch" /\ t.list = None) \/ (t.kind = "update" /\ t.tell /\ t.todo = {})

Awaited == \E t \in BagToSet(tasks) : Telling(t)

WatchedRow(j) == IF Has(j, "watch") \/ Has(j, "connect") THEN Watch(jobs[j]) ELSE None

UpToDate(list) == \A j \in Jobs \ silent : list[j] = WatchedRow(j)

AgentFits ==
    \A j \in Jobs \ silent :
        /\ monitored[j] = LocalPath(jobs, j, "connect")
        /\ j \notin misdirected => watching[j] = LocalPath(jobs, j, "watch")

\* What was sent last is up to date, or what the agent made of it.
LastFits ==
    /\ OnWay = {} => AgentFits
    /\ \A i \in OnWay : (\A k \in OnWay : k <= i) => UpToDate(toAgent[i].list)

ListsFit ==
    registered /\ ~Awaited =>
        /\ \A t \in Underway : ~t.old => UpToDate(t.list)
        /\ (\A t \in Underway : t.old) /\ ~overtaken => LastFits

WatchInv == ConnFits /\ NoneWatched /\ OnePath /\ ListsFit

-----------------------------------------------------------------------------
\* What is queued, sent and run are jobs that were made.
Made(j) == jobs[j] # None

QueuedMade ==
    \A t \in AtWork({"queue"}), j \in Jobs : j \in t.todo \/ t.job = j => Made(j)

RunsMade ==
    /\ \A i \in DOMAIN toAgent : toAgent[i].type = "run" => Made(toAgent[i].job)
    /\ \A j \in Jobs : runs[j] # None => Made(j)
    /\ \A i \in DOMAIN toHub : toHub[i].type = "ended" => Made(toHub[i].job)

\* A job that rests, and was not cancelled since, has the time of its last end in its row.
EndFits(j) ==
    /\ jobs[j] = None => ended[j] = None
    /\ Exists(j) /\ ~Active(j) /\ j \notin cancelled /\ ended[j] # None
       => jobs[j].lastRun = ended[j]

\* Due, as the scheduler found it.
DueAt(row, time) ==
    \/ "cron" \in row.auto /\ time \in CronMinutes /\ row.lastRun # time
    \/ "period" \in row.auto
       /\ time - (IF row.lastRun = None THEN row.createdAt ELSE row.lastRun) >= Every

\* What the scheduler queues was at rest, and due.
DueWhenRead ==
    \A t \in AtWork({"queue"}) : t.reason = "schedule" =>
        \A j \in t.todo : t.rows[j].status \notin {"queued", "running"} /\ DueAt(t.rows[j], t.at)

ScheduleInv ==
    /\ ended \in [Jobs -> Times \cup {None}]
    /\ QueuedMade /\ RunsMade /\ DueWhenRead
    /\ \A j \in Jobs : EndFits(j)

-----------------------------------------------------------------------------
(* Handlers at work: a bag, one of them more, less, or changed. *)

\* A bag with one more of t.
LEMMA BagAdds ==
    ASSUME NEW b, IsABag(b), NEW t
    PROVE  LET c == b (+) SetToBag({t})
           IN  /\ IsABag(c) /\ DOMAIN c = DOMAIN b \cup {t}
               /\ \A s \in DOMAIN b \ {t} : c[s] = b[s]
               /\ t \notin DOMAIN b => c[t] = 1
<1> DEFINE c == b (+) SetToBag({t})
<1>1. DOMAIN c = DOMAIN b \cup {t}
  BY DEF (+), SetToBag
<1>2. \A s \in DOMAIN c : c[s] = (IF s \in DOMAIN b THEN b[s] ELSE 0) + (IF s = t THEN 1 ELSE 0)
  BY DEF (+), SetToBag
<1>3. \A s \in DOMAIN b : b[s] \in Nat /\ b[s] > 0
  BY DEF IsABag
<1>4. c = [s \in DOMAIN c |-> c[s]]
  BY DEF (+)
<1> HIDE DEF c
<1>5. \A s \in DOMAIN c : c[s] \in Nat /\ c[s] > 0
  BY <1>1, <1>2, <1>3
<1>6. IsABag(c)
  BY <1>4, <1>5 DEF IsABag
<1>7. \A s \in DOMAIN b \ {t} : c[s] = b[s]
  BY <1>1, <1>2, <1>3
<1>8. t \notin DOMAIN b => c[t] = 1
  BY <1>1, <1>2
<1> QED BY <1>1, <1>6, <1>7, <1>8 DEF c

\* A bag with one less of t.
LEMMA BagTakes ==
    ASSUME NEW b, IsABag(b), NEW t
    PROVE  LET c == b (-) SetToBag({t})
           IN  /\ IsABag(c) /\ DOMAIN b \ {t} \subseteq DOMAIN c /\ DOMAIN c \subseteq DOMAIN b
               /\ \A s \in DOMAIN b \ {t} : c[s] = b[s]
               /\ t \in DOMAIN b /\ b[t] = 1 => t \notin DOMAIN c
<1> DEFINE left == [s \in DOMAIN b |-> IF s \in {t} THEN b[s] - 1 ELSE b[s]]
           c == b (-) SetToBag({t})
<1>1. \A s \in DOMAIN b : b[s] \in Nat /\ b[s] > 0
  BY DEF IsABag
<1>2. c = [s \in {d \in DOMAIN left : left[d] > 0} |-> left[s]]
  BY DEF (-), SetToBag
<1>3. DOMAIN left = DOMAIN b /\ \A s \in DOMAIN b : left[s] = IF s = t THEN b[s] - 1 ELSE b[s]
  OBVIOUS
<1> HIDE DEF left, c
<1>4. /\ DOMAIN c = {d \in DOMAIN left : left[d] > 0}
      /\ \A s \in DOMAIN c : c[s] = left[s]
  BY <1>2
<1>5. \A s \in DOMAIN c : c[s] \in Nat /\ c[s] > 0
  BY <1>1, <1>3, <1>4
<1>6. c = [s \in DOMAIN c |-> c[s]]
  BY <1>2
<1>7. IsABag(c)
  BY <1>5, <1>6 DEF IsABag
<1>8. DOMAIN b \ {t} \subseteq DOMAIN c /\ DOMAIN c \subseteq DOMAIN b
  BY <1>1, <1>3, <1>4
<1>9. \A s \in DOMAIN b \ {t} : c[s] = b[s]
  BY <1>3, <1>4, <1>8
<1>10. t \in DOMAIN b /\ b[t] = 1 => t \notin DOMAIN c
  BY <1>3, <1>4
<1> QED BY <1>7, <1>8, <1>9, <1>10 DEF c

\* A new handler.
LEMMA Begins ==
    ASSUME IsABag(tasks), NEW t, Begin(t)
    PROVE  /\ IsABag(tasks') /\ DOMAIN tasks' = DOMAIN tasks \cup {t}
           /\ \A s \in DOMAIN tasks \ {t} : tasks'[s] = tasks[s]
           /\ t \notin DOMAIN tasks => tasks'[t] = 1
BY BagAdds DEF Begin

\* A handler that goes on.
LEMMA Continues ==
    ASSUME IsABag(tasks), NEW t, NEW u, Continue(t, u)
    PROVE  /\ IsABag(tasks') /\ u \in DOMAIN tasks'
           /\ DOMAIN tasks \ {t} \subseteq DOMAIN tasks'
           /\ DOMAIN tasks' \subseteq DOMAIN tasks \cup {u}
           /\ \A s \in DOMAIN tasks \ {t, u} : tasks'[s] = tasks[s]
           /\ t \in DOMAIN tasks /\ tasks[t] = 1 /\ u # t => t \notin DOMAIN tasks'
           /\ u \notin DOMAIN tasks => tasks'[u] = 1
           /\ t \in DOMAIN tasks /\ tasks[t] = 1 /\ u = t => tasks'[u] = 1
<1> DEFINE b == tasks (-) SetToBag({t})
<1>1. /\ IsABag(b) /\ DOMAIN tasks \ {t} \subseteq DOMAIN b /\ DOMAIN b \subseteq DOMAIN tasks
      /\ \A s \in DOMAIN tasks \ {t} : b[s] = tasks[s]
      /\ t \in DOMAIN tasks /\ tasks[t] = 1 => t \notin DOMAIN b
  BY BagTakes
<1>2. tasks' = b (+) SetToBag({u})
  BY DEF Continue
<1> HIDE DEF b
<1>3. /\ IsABag(tasks') /\ DOMAIN tasks' = DOMAIN b \cup {u}
      /\ \A s \in DOMAIN b \ {u} : tasks'[s] = b[s]
      /\ u \notin DOMAIN b => tasks'[u] = 1
  BY <1>1, <1>2, BagAdds
<1> QED BY <1>1, <1>3

\* A handler that ends.
LEMMA Ends ==
    ASSUME IsABag(tasks), NEW t, End(t)
    PROVE  /\ IsABag(tasks') /\ DOMAIN tasks \ {t} \subseteq DOMAIN tasks'
           /\ DOMAIN tasks' \subseteq DOMAIN tasks
           /\ \A s \in DOMAIN tasks \ {t} : tasks'[s] = tasks[s]
           /\ t \in DOMAIN tasks /\ tasks[t] = 1 => t \notin DOMAIN tasks'
BY BagTakes DEF End

-----------------------------------------------------------------------------
(* Types. *)

Rows == [Jobs -> Row \cup {None, Deleted}]

\* A status and a time are all that changes of a row.
LEMMA SetsStatus ==
    ASSUME NEW rows \in Rows, now \in Times, NEW j \in Jobs, NEW s \in Statuses
    PROVE  /\ SetStatus(rows, j, s) \in Rows
           /\ \A i \in Jobs : i # j => SetStatus(rows, j, s)[i] = rows[i]
           /\ rows[j] \in {None, Deleted} => SetStatus(rows, j, s)[j] = rows[j]
           /\ rows[j] \notin {None, Deleted} =>
                /\ SetStatus(rows, j, s)[j] \in Row
                /\ SetStatus(rows, j, s)[j].pair = rows[j].pair
                /\ SetStatus(rows, j, s)[j].device = rows[j].device
                /\ SetStatus(rows, j, s)[j].path = rows[j].path
                /\ SetStatus(rows, j, s)[j].auto = rows[j].auto
<1>1. CASE rows[j] \in {None, Deleted}
  BY <1>1, CatalogNone DEF SetStatus, Rows
<1>2. CASE rows[j] \notin {None, Deleted}
  <2> DEFINE time == IF s \in {"completed", "error"} THEN now ELSE None
             row == [rows[j] EXCEPT !.status = s, !.lastRun = time]
  <2>1. rows[j] \in Row
    BY <1>2 DEF Rows
  <2>2. row \in Row /\ row.pair = rows[j].pair /\ row.device = rows[j].device
        /\ row.path = rows[j].path /\ row.auto = rows[j].auto
    BY <2>1 DEF Row
  <2>3. SetStatus(rows, j, s) = [rows EXCEPT ![j] = row]
    BY <1>2, <2>1 DEF SetStatus, Rows, Row
  <2> HIDE DEF row
  <2> QED BY <1>2, <2>2, <2>3 DEF Rows
<1> QED BY <1>1, <1>2

TasksOK == IsABag(tasks) /\ \A t \in BagToSet(tasks) : TaskOK(t)

\* A new handler, one that goes on and one that ends keep the types of handlers.
LEMMA TasksTyped ==
    ASSUME TasksOK, made' = made, NEW t, NEW u, TaskOK(u),
           Begin(u) \/ Continue(t, u) \/ End(t) \/ UNCHANGED tasks
    PROVE  TasksOK'
<1>1. TasksOK' <=> IsABag(tasks') /\ \A s \in DOMAIN tasks' : TaskOK(s)
  BY DEF TasksOK, BagToSet, TaskOK, WatchTask, ResendTask
<1>2. IsABag(tasks) /\ \A s \in DOMAIN tasks : TaskOK(s)
  BY DEF TasksOK, BagToSet
<1>3. CASE Begin(u)
  <2>1. /\ IsABag(tasks') /\ DOMAIN tasks' = DOMAIN tasks \cup {u}
    BY <1>2, <1>3, Begins
  <2>2. \A s \in DOMAIN tasks' : TaskOK(s)
    BY <1>2, <2>1
  <2> QED BY <1>1, <2>1, <2>2
<1>4. CASE Continue(t, u)
  BY <1>1, <1>2, <1>4, Continues
<1>5. CASE End(t)
  BY <1>1, <1>2, <1>5, Ends
<1>6. CASE UNCHANGED tasks
  BY <1>1, <1>2, <1>6
<1> QED BY <1>3, <1>4, <1>5, <1>6

\* What a handler of a kind is.
LEMMA Handler ==
    ASSUME TasksOK, NEW kinds, NEW t \in AtWork(kinds)
    PROVE  /\ t \in BagToSet(tasks) /\ TaskOK(t) /\ t.kind \in kinds
           /\ t.kind = "watch" => t \in WatchTask /\ (t.conn = None <=> t.list = None)
                                  /\ (t.list = None => ~t.old)
           /\ t.kind = "resend" => t \in ResendTask
           /\ t.kind = "update" => t \in UpdateTask /\ UpdateOK(t)
           /\ t.kind = "assign" => t \in AssignTask /\ AssignOK(t)
           /\ t.kind = "queue" => \E js \in SUBSET Jobs : t \in QueueTask(js)
                                      /\ t.todo \cup ({t.job} \ {None}) \subseteq js
BY DEF TasksOK, AtWork, TaskOK, WatchTask, ResendTask, UpdateTask, AssignTask, QueueTask

CatalogTypes ==
    /\ jobs \in Rows /\ members \in (SUBSET Devices) \cup {None}
    /\ links \in [Templates -> Paths \cup {None}] /\ linkIds \in [Templates -> Nat]
    /\ defaults \in [Templates -> Settings \cup {None}]
    /\ TasksOK /\ now \in Times /\ budget \in Bounds

\* What was spent leaves the bounds their types, and the offered settings alone.
LEMMA Spends ==
    ASSUME budget \in Bounds,
           NEW k \in {"posts", "routes", "catalog", "runs", "edits", "folders", "minutes", "faults"},
           Spend(k)
    PROVE  budget' \in Bounds
<1>1. CASE k = "posts"   BY <1>1 DEF Spend, Bounds
<1>2. CASE k = "routes"  BY <1>2 DEF Spend, Bounds
<1>3. CASE k = "catalog" BY <1>3 DEF Spend, Bounds
<1>4. CASE k = "runs"    BY <1>4 DEF Spend, Bounds
<1>5. CASE k = "edits"   BY <1>5 DEF Spend, Bounds
<1>6. CASE k = "folders" BY <1>6 DEF Spend, Bounds
<1>7. CASE k = "minutes" BY <1>7 DEF Spend, Bounds
<1>8. CASE k = "faults"  BY <1>8 DEF Spend, Bounds
<1> QED BY <1>1, <1>2, <1>3, <1>4, <1>5, <1>6, <1>7, <1>8

\* An announcement has its type.
LEMMA TellOK == TaskOK(Tell) /\ Tell.kind = "watch"
BY DEF TaskOK, Tell, WatchTask

\* A row that is inserted has its type, and belongs to its pair's device.
LEMMA NewRowTyped ==
    ASSUME now \in Times, NEW pair \in Pairs \cup {None}, NEW device \in Devices \cup {None},
           NEW path \in Paths, NEW auto \in Settings
    PROVE  /\ NewRow(pair, device, path, auto) \in Row
           /\ NewRow(pair, device, path, auto).pair = pair
           /\ NewRow(pair, device, path, auto).device = device
BY DEF NewRow, Row, Statuses

\* An unused identifier is one of a job.
LEMMA NewIdTyped == Unused # {} => NewId \in Jobs /\ jobs[NewId] = None
<1> SUFFICES ASSUME Unused # {} PROVE NewId \in Unused
  BY DEF Unused
<1> QED BY DEF NewId

\* A job that exists has a row.
LEMMA ExistsRow ==
    ASSUME jobs \in Rows, NEW j \in Jobs
    PROVE  /\ Exists(j) => jobs[j] \in Row
           /\ jobs[j] \in Row => Exists(j)
BY CatalogNone DEF Exists, Rows

\* Requests keep the catalog's types.
LEMMA RequestTypes ==
    ASSUME CatalogTypes, Requests, made' = made
    PROVE  CatalogTypes'
<1> USE DEF CatalogTypes
<1>1. ASSUME NEW p \in Paths, NEW a \in budget.offers, PostJob(p, a) PROVE CatalogTypes'
  <2>1. a \in Settings /\ NewRow(None, None, p, a) \in Row
    BY NewRowTyped DEF Bounds
  <2>2. jobs' \in Rows
    BY <1>1, <2>1, NewIdTyped DEF PostJob, Rows
  <2>3. TasksOK'
    BY <1>1, TellOK, TasksTyped DEF PostJob
  <2> QED BY <1>1, <2>2, <2>3, Spends DEF PostJob
<1>2. ASSUME NEW j \in Jobs, NEW patch \in [path : Paths] \cup [auto : Settings], PatchJob(j, patch)
      PROVE  CatalogTypes'
  <2>1. TaskOK(Update({j}, patch, TRUE))
    BY DEF Update, TaskOK, UpdateTask, UpdateOK
  <2>2. TasksOK'
    BY <1>2, <2>1, TasksTyped DEF PatchJob
  <2> QED BY <1>2, <2>2, Spends DEF PatchJob
<1>3. ASSUME NEW j \in Jobs, DeleteJob(j) PROVE CatalogTypes'
  <2>1. TasksOK'
    BY <1>3, TellOK, TasksTyped DEF DeleteJob
  <2> QED BY <1>3, <2>1, Spends DEF DeleteJob, Rows
<1>4. ASSUME NEW ds \in SUBSET Devices, NEW drop \in BOOLEAN, PatchCollection(ds, drop)
      PROVE  CatalogTypes'
  <2> DEFINE t == Assign("members", ds \ members, links, None, ds,
                         [devices |-> members \ ds, drop |-> drop])
  <2>1. TaskOK(t)
    <3>1. members \in SUBSET Devices
      BY <1>4 DEF PatchCollection
    <3>2. t \in AssignTask
      BY <3>1 DEF Assign, AssignTask
    <3>3. AssignOK(t)
      BY <3>1 DEF Assign, AssignOK
    <3> QED BY <3>2, <3>3 DEF TaskOK
  <2>2. Begin(t)
    BY <1>4 DEF PatchCollection, BeginAssign
  <2>3. TasksOK'
    BY <2>1, <2>2, TasksTyped
  <2> QED BY <1>4, <2>3, Spends DEF PatchCollection
<1>5. ASSUME NEW t \in Templates, PropagateTemplate(t) PROVE CatalogTypes'
  <2> DEFINE js == {j \in Jobs : Exists(j) /\ jobs[j].pair # None /\ jobs[j].pair[1] = t}
             u == Update(js, [auto |-> defaults[t]], FALSE)
  <2>1. TaskOK(u)
    <3>1. defaults[t] \in Settings
      BY <1>5 DEF PropagateTemplate
    <3> QED BY <3>1 DEF Update, TaskOK, UpdateTask, UpdateOK
  <2>2. TasksOK'
    <3>1. Begin(u)
      BY <1>5 DEF PropagateTemplate
    <3> QED BY <2>1, <3>1, TasksTyped
  <2> QED BY <1>5, <2>2, Spends DEF PropagateTemplate
<1>6. ASSUME NEW t \in Templates, Unapply(t) PROVE CatalogTypes'
  <2>1. TasksOK'
    BY <1>6, TellOK, TasksTyped DEF Unapply
  <2> QED BY <1>6, <2>1, Spends DEF Unapply
<1>7. ASSUME NEW t \in Templates, DeleteTemplate(t) PROVE CatalogTypes'
  <2>1. TasksOK'
    BY <1>7, TellOK, TasksTyped DEF DeleteTemplate
  <2> QED BY <1>7, <2>1, Spends DEF DeleteTemplate
<1>8. ASSUME NEW t \in Templates, NEW p \in Paths, ApplyTemplate(t, p) PROVE CatalogTypes'
  <2> DEFINE u == Assign("link", {t} \X members, [v \in Templates |-> p],
                         defaults[t], t, [devices |-> {}, drop |-> FALSE])
  <2>1. TaskOK(u)
    <3>1. members \in SUBSET Devices /\ defaults[t] \in Settings
      BY <1>8 DEF ApplyTemplate
    <3>2. {t} \X members \in SUBSET Pairs
      BY <3>1 DEF Pairs
    <3>3. u \in AssignTask
      BY <3>1, <3>2 DEF Assign, AssignTask
    <3>4. AssignOK(u)
      BY <3>2, CatalogNone DEF Assign, AssignOK, Pairs
    <3> QED BY <3>3, <3>4 DEF TaskOK
  <2>2. TasksOK'
    <3>1. Begin(u)
      BY <1>8 DEF ApplyTemplate, BeginAssign
    <3> QED BY <2>1, <3>1, TasksTyped
  <2> QED BY <1>8, <2>2, Spends DEF ApplyTemplate
<1>9. ASSUME NEW t \in Templates, NEW a \in budget.offers, PatchTemplate(t, a) PROVE CatalogTypes'
  <2>1. TasksOK'
    BY <1>9, TellOK, TasksTyped DEF PatchTemplate
  <2>2. a \in Settings
    BY DEF Bounds
  <2> QED BY <1>9, <2>1, <2>2, Spends DEF PatchTemplate
<1>10. ASSUME DeleteCollection PROVE CatalogTypes'
  <2>1. TasksOK'
    BY <1>10, TellOK, TasksTyped DEF DeleteCollection
  <2> QED BY <1>10, <2>1, Spends DEF DeleteCollection
<1>11. ASSUME NEW p \in Paths PROVE [path |-> p] \in [path : Paths] \cup [auto : Settings]
  OBVIOUS
<1>12. ASSUME NEW a \in budget.offers PROVE [auto |-> a] \in [path : Paths] \cup [auto : Settings]
  BY DEF Bounds
<1> QED BY <1>1, <1>2, <1>3, <1>4, <1>5, <1>6, <1>7, <1>8, <1>9, <1>10, <1>11, <1>12 DEF Requests

\* The steps of handlers keep the catalog's types.
LEMMA HandlerTypes ==
    ASSUME CatalogTypes, Handlers, made' = made
    PROVE  CatalogTypes'
<1> USE DEF CatalogTypes
<1>1. ASSUME NEW t, UpdateReads(t) PROVE CatalogTypes'
  <2>1. t \in UpdateTask /\ UpdateOK(t) /\ t.kind = "update" /\ t.job = None
    BY <1>1, Handler DEF UpdateReads
  <2>2. PICK j \in t.todo : IF Exists(j) THEN Continue(t, [t EXCEPT !.job = j, !.row = jobs[j]])
                            ELSE End(t) \/ Continue(t, [t EXCEPT !.todo = @ \ {j}])
    BY <1>1 DEF UpdateReads
  <2>3. j \in Jobs
    BY <2>1 DEF UpdateTask
  <2>4. CASE Exists(j)
    <3> DEFINE u == [t EXCEPT !.job = j, !.row = jobs[j]]
    <3>1. u \in UpdateTask /\ UpdateOK(u)
      BY <2>1, <2>3, <2>4, ExistsRow, CatalogNone DEF UpdateTask, UpdateOK
    <3>2. TaskOK(u)
      BY <3>1 DEF TaskOK
    <3> QED BY <1>1, <2>2, <2>4, <3>2, TasksTyped DEF UpdateReads
  <2>5. CASE ~ Exists(j)
    <3> DEFINE u == [t EXCEPT !.todo = @ \ {j}]
    <3>1. u \in UpdateTask /\ UpdateOK(u)
      BY <2>1 DEF UpdateTask, UpdateOK
    <3>2. TaskOK(u)
      BY <3>1 DEF TaskOK
    <3>3. TasksOK'
      BY <2>2, <2>5, <3>2, TellOK, TasksTyped
    <3> QED BY <1>1, <3>3 DEF UpdateReads
  <2> QED BY <2>4, <2>5
<1>2. ASSUME NEW t, UpdateWrites(t) PROVE CatalogTypes'
  <2>1. t \in UpdateTask /\ UpdateOK(t) /\ t.job \in Jobs /\ t.row \in Row
    BY <1>2, Handler DEF UpdateWrites, UpdateTask, UpdateOK
  <2> DEFINE u == [t EXCEPT !.job = None, !.row = None, !.todo = @ \ {t.job}]
             m == Merged(t.row, t.patch)
  <2>2. u \in UpdateTask /\ UpdateOK(u)
    BY <2>1 DEF UpdateTask, UpdateOK
  <2>3. TaskOK(u)
    BY <2>2 DEF TaskOK
  <2>4. TasksOK'
    BY <1>2, <2>3, TasksTyped DEF UpdateWrites
  <2>5. m.path \in Paths /\ m.auto \in Settings
    BY <2>1 DEF Merged, UpdateTask, Row
  <2>6. jobs' = IF Exists(t.job)
                THEN [jobs EXCEPT ![t.job].path = m.path, ![t.job].auto = m.auto] ELSE jobs
    BY <1>2 DEF UpdateWrites
  <2> HIDE DEF m
  <2>7. jobs' \in Rows
    <3>1. CASE Exists(t.job)
      <4> DEFINE row == [jobs[t.job] EXCEPT !.path = m.path, !.auto = m.auto]
      <4>1. row \in Row
        BY <2>1, <2>5, <3>1, ExistsRow DEF Row
      <4>2. jobs' = [jobs EXCEPT ![t.job] = row]
        BY <2>1, <2>6, <3>1, ExistsRow DEF Rows, Row
      <4> HIDE DEF row
      <4> QED BY <4>1, <4>2 DEF Rows
    <3> QED BY <2>6, <3>1
  <2> QED BY <1>2, <2>4, <2>7 DEF UpdateWrites
<1>3. ASSUME NEW t, UpdateEnds(t) PROVE CatalogTypes'
  <2>1. TasksOK'
    BY <1>3, TellOK, TasksTyped DEF UpdateEnds
  <2> QED BY <1>3, <2>1 DEF UpdateEnds
<1>4. ASSUME NEW t, WriteMembers(t) PROVE CatalogTypes'
  <2>1. t \in AssignTask /\ AssignOK(t) /\ t.step = "members"
    BY <1>4, Handler DEF WriteMembers, Assigning
  <2>2. t.next \in SUBSET Devices
    BY <2>1 DEF AssignOK
  <2> DEFINE u == [t EXCEPT !.step = "links"]
  <2>3. u \in AssignTask /\ AssignOK(u)
    BY <2>1 DEF AssignTask, AssignOK
  <2>4. TaskOK(u)
    BY <2>3 DEF TaskOK
  <2>5. TasksOK'
    <3>1. Continue(t, u) \/ End(t)
      BY <1>4 DEF WriteMembers
    <3> QED BY <2>4, <3>1, TasksTyped
  <2> QED BY <1>4, <2>2, <2>5 DEF WriteMembers
<1>5. ASSUME NEW t, ReadLinks(t) PROVE CatalogTypes'
  <2>1. t \in AssignTask /\ AssignOK(t) /\ t.step = "links"
    BY <1>5, Handler DEF ReadLinks, Assigning
  <2> DEFINE todo == {v \in Templates : links[v] # None} \X t.todo
             u == [t EXCEPT !.step = "jobs", !.sources = links, !.next = None,
                            !.todo = {v \in Templates : links[v] # None} \X @]
  <2>2. todo \in SUBSET Pairs /\ \A p \in todo : links[p[1]] # None
    BY <2>1 DEF AssignOK, Pairs
  <2>3. u = [t EXCEPT !.step = "jobs", !.sources = links, !.next = None, !.todo = todo]
    BY <2>1 DEF AssignTask
  <2> HIDE DEF todo, u
  <2>4. u \in AssignTask /\ u.step = "jobs" /\ u.sources = links /\ u.todo = todo
    BY <2>1, <2>2, <2>3 DEF AssignTask
  <2>5. TaskOK(u)
    BY <2>2, <2>4 DEF TaskOK, AssignOK
  <2>6. TasksOK'
    <3>1. Continue(t, u)
      BY <1>5 DEF ReadLinks, u
    <3> QED BY <2>5, <3>1, TasksTyped
  <2> QED BY <1>5, <2>6 DEF ReadLinks
<1>6. ASSUME NEW t, FindLink(t) PROVE CatalogTypes'
  <2>1. t \in AssignTask /\ AssignOK(t) /\ t.step = "link"
    BY <1>6, Handler DEF FindLink, Assigning
  <2>0. linkIds[t.next] \in Nat
    BY <2>1 DEF AssignOK
  <2> DEFINE u == [t EXCEPT !.step = IF links[t.next] = None THEN "insert" ELSE "relink",
                         !.link = linkIds[t.next]]
  <2>2. u \in AssignTask /\ AssignOK(u)
    BY <2>1 DEF AssignTask, AssignOK
  <2>3. TaskOK(u)
    BY <2>2 DEF TaskOK
  <2>4. TasksOK'
    <3>1. Continue(t, u)
      BY <1>6 DEF FindLink
    <3> QED BY <2>3, <3>1, TasksTyped
  <2> QED BY <1>6, <2>4 DEF FindLink
<1>7. ASSUME NEW t, WriteLink(t) PROVE CatalogTypes'
  <2>1. t \in AssignTask /\ AssignOK(t) /\ t.step \in {"insert", "relink"}
    BY <1>7, Handler DEF WriteLink, Assigning
  <2>2. t.next \in Templates /\ t.sources[t.next] \in Paths \cup {None}
    BY <2>1 DEF AssignTask, AssignOK
  <2> DEFINE u == [t EXCEPT !.step = "jobs", !.link = 0]
  <2>3. u \in AssignTask /\ AssignOK(u)
    BY <2>1 DEF AssignTask, AssignOK
  <2>4. TaskOK(u)
    BY <2>3 DEF TaskOK
  <2>5. TasksOK'
    <3>1. Continue(t, u)
      BY <1>7 DEF WriteLink
    <3> QED BY <2>4, <3>1, TasksTyped
  <2> QED BY <1>7, <2>2, <2>5 DEF WriteLink
<1>8. ASSUME NEW t, ReadTemplate(t) PROVE CatalogTypes'
  <2>1. t \in AssignTask /\ AssignOK(t) /\ t.step = "jobs"
    BY <1>8, Handler DEF ReadTemplate, Assigning
  <2>2. PICK p \in t.todo :
          Continue(t, IF defaults[p[1]] = None
                      THEN [t EXCEPT !.todo = {q \in @ : q[1] # p[1]}]
                      ELSE [t EXCEPT !.triggers = defaults[p[1]], !.next = p[1]])
    BY <1>8 DEF ReadTemplate
  <2>3. p \in Pairs /\ p[1] \in Templates /\ t.todo \in SUBSET Pairs
    BY <2>1 DEF AssignOK, Pairs
  <2> DEFINE v == [t EXCEPT !.todo = {q \in @ : q[1] # p[1]}]
             w == [t EXCEPT !.triggers = defaults[p[1]], !.next = p[1]]
  <2>4. v \in AssignTask /\ AssignOK(v)
    BY <2>1, <2>3 DEF AssignTask, AssignOK
  <2>5. defaults[p[1]] # None => w \in AssignTask /\ AssignOK(w)
    BY <2>1, <2>3 DEF AssignTask, AssignOK
  <2>6. TasksOK'
    <3> HIDE DEF v, w
    <3>1. TaskOK(v) /\ (defaults[p[1]] # None => TaskOK(w))
      BY <2>4, <2>5 DEF TaskOK
    <3>2. IF defaults[p[1]] = None THEN Continue(t, v) ELSE Continue(t, w)
      BY <2>2 DEF v, w
    <3> QED BY <3>1, <3>2, TasksTyped
  <2> QED BY <1>8, <2>6 DEF ReadTemplate
<1>9. ASSUME NEW t, FindJob(t) PROVE CatalogTypes'
  <2>1. t \in AssignTask /\ AssignOK(t) /\ t.step = "jobs" /\ t.triggers # None
    BY <1>9, Handler DEF FindJob, Assigning
  <2>2. PICK p \in t.todo : p[1] = t.next /\ Continue(t, [t EXCEPT
          !.todo = @ \ {p},
          !.triggers = IF \E q \in t.todo \ {p} : q[1] = t.next THEN @ ELSE None,
          !.draft = IF Found(p) THEN None ELSE NewRow(p, p[2], t.sources[p[1]], t.triggers)])
    BY <1>9 DEF FindJob
  <2>3. p \in Pairs /\ p[1] \in Templates /\ p[2] \in Devices /\ t.sources[p[1]] \in Paths
    BY <2>1 DEF AssignOK, AssignTask, Pairs
  <2> DEFINE triggers == IF \E q \in t.todo \ {p} : q[1] = t.next THEN t.triggers ELSE None
             draft == IF Found(p) THEN None ELSE NewRow(p, p[2], t.sources[p[1]], t.triggers)
             todo == t.todo \ {p}
             u == [t EXCEPT !.todo = todo, !.triggers = triggers, !.draft = draft]
  <2>4. t.triggers \in Settings
    BY <2>1 DEF AssignTask
  <2>5. draft \in Row \cup {None} /\ triggers \in Settings \cup {None}
    BY <2>3, <2>4, NewRowTyped
  <2>6. Continue(t, u)
    <3>1. [t EXCEPT !.todo = @ \ {p},
                    !.triggers = IF \E q \in t.todo \ {p} : q[1] = t.next THEN @ ELSE None,
                    !.draft = draft] = u
      BY <2>1 DEF AssignTask
    <3> QED BY <2>2, <3>1
  <2> HIDE DEF triggers, draft
  <2>7. u \in AssignTask /\ AssignOK(u)
    BY <2>1, <2>5 DEF AssignTask, AssignOK
  <2> HIDE DEF u
  <2>8. TaskOK(u)
    BY <2>7 DEF TaskOK
  <2>9. TasksOK'
    BY <2>6, <2>8, TasksTyped
  <2> QED BY <1>9, <2>9 DEF FindJob
<1>10. ASSUME NEW t, CreateJob(t) PROVE CatalogTypes'
  <2>1. t \in AssignTask /\ AssignOK(t) /\ t.draft \in Row
    BY <1>10, Handler DEF CreateJob, Assigning, AssignTask
  <2> DEFINE u == [t EXCEPT !.draft = None]
             row == [t.draft EXCEPT !.createdAt = now]
  <2>2. u \in AssignTask /\ AssignOK(u)
    BY <2>1 DEF AssignTask, AssignOK
  <2>3. TaskOK(u)
    BY <2>2 DEF TaskOK
  <2>4. TasksOK'
    <3>1. Continue(t, u)
      BY <1>10 DEF CreateJob
    <3> QED BY <2>3, <3>1, TasksTyped
  <2>5. row \in Row
    BY <2>1 DEF Row
  <2>6. jobs' = [jobs EXCEPT ![NewId] = row] /\ Unused # {}
    BY <1>10 DEF CreateJob
  <2> HIDE DEF row
  <2>7. jobs' \in Rows
    BY <2>5, <2>6, NewIdTyped DEF Rows
  <2> QED BY <1>10, <2>4, <2>7 DEF CreateJob
<1>11. ASSUME NEW t, FinishAssign(t) PROVE CatalogTypes'
  <2>1. TaskOK(t)
    BY <1>11, Handler DEF FinishAssign, Assigning
  <2>2. TasksOK'
    BY <1>11, <2>1, TasksTyped DEF FinishAssign
  <2>3. jobs' \in Rows
    BY <1>11 DEF FinishAssign, Rows
  <2> QED BY <1>11, <2>2, <2>3 DEF FinishAssign
<1> QED BY <1>1, <1>2, <1>3, <1>4, <1>5, <1>6, <1>7, <1>8, <1>9, <1>10, <1>11 DEF Handlers

-----------------------------------------------------------------------------
(* Reading the jobs. *)

\* A handler that has a list, and what it becomes when a later one reads the jobs.
Listed(s) == s.kind = "watch" /\ s.list # None
Aged(s) == [s EXCEPT !.old = TRUE]

\* Lists that were read before are old, and nothing else changes.
LEMMA Outdates ==
    ASSUME NEW b, IsABag(b), \A s \in DOMAIN b : TaskOK(s)
    PROVE  /\ IsABag(Outdated(b))
           /\ \A s \in DOMAIN b : ~Listed(s) => s \in DOMAIN Outdated(b) /\ Outdated(b)[s] = b[s]
           /\ \A x \in DOMAIN Outdated(b) :
                 \/ x \in DOMAIN b /\ ~Listed(x)
                 \/ \E s \in DOMAIN b : Listed(s) /\ s \in WatchTask /\ x = Aged(s)
<1> DEFINE lists == {t \in DOMAIN b : t.kind = "watch" /\ t.list # None}
           young(x) == [x EXCEPT !.old = FALSE]
           aged == {[t EXCEPT !.old = TRUE] : t \in lists}
           copies(t) == IF t \in DOMAIN b THEN b[t] ELSE 0
           c == Outdated(b)
<1>1. c = [t \in (DOMAIN b \ lists) \cup aged |->
              copies(t) + IF t \in aged THEN copies(young(t)) ELSE 0]
  BY DEF Outdated
<1>2. \A s \in lists : s \in WatchTask /\ Listed(s)
  BY DEF TaskOK, WatchTask, ResendTask, UpdateTask, AssignTask, QueueTask, Listed
<1>3. \A x \in aged : \E s \in lists : x = Aged(s)
  BY DEF Aged
<1>4. \A s \in DOMAIN b : b[s] \in Nat /\ b[s] > 0
  BY DEF IsABag
<1>5. ASSUME NEW x \in aged PROVE Listed(x) /\ copies(x) + copies(young(x)) \in Nat
                                  /\ copies(x) + copies(young(x)) > 0
  <2>1. PICK s \in lists : x = Aged(s)
    BY <1>3
  <2>2. s \in WatchTask /\ Listed(s)
    BY <1>2
  <2>3. Listed(x)
    BY <2>1, <2>2 DEF Listed, Aged, WatchTask
  <2>4. x = s \/ young(x) = s
    BY <2>1, <2>2 DEF Aged, WatchTask
  <2>5. copies(x) \in Nat /\ copies(young(x)) \in Nat
    <3> HIDE DEF young
    <3> QED BY <1>4
  <2>6. copies(s) > 0
    BY <1>4
  <2> HIDE DEF copies, young
  <2> QED BY <2>3, <2>4, <2>5, <2>6
<1> HIDE DEF aged, c, young
<1>6. \A x \in DOMAIN c : c[x] \in Nat /\ c[x] > 0
  <2> SUFFICES ASSUME NEW x \in DOMAIN c PROVE c[x] \in Nat /\ c[x] > 0
    OBVIOUS
  <2>1. CASE x \in aged
    BY <1>1, <1>5, <2>1
  <2>2. CASE x \notin aged
    BY <1>1, <1>4, <2>2
  <2> QED BY <2>1, <2>2
<1>7. IsABag(c)
  BY <1>1, <1>6 DEF IsABag
<1>8. ASSUME NEW s \in DOMAIN b, ~Listed(s) PROVE s \in DOMAIN c /\ c[s] = b[s]
  <2>1. s \notin aged /\ s \notin lists
    BY <1>5, <1>8 DEF Listed
  <2> QED BY <1>1, <1>4, <2>1
<1>9. ASSUME NEW x \in DOMAIN c
      PROVE  \/ x \in DOMAIN b /\ ~Listed(x)
             \/ \E s \in DOMAIN b : Listed(s) /\ s \in WatchTask /\ x = Aged(s)
  <2>1. x \in aged \/ (x \in DOMAIN b /\ x \notin lists)
    BY <1>1, <1>9
  <2> QED BY <1>2, <1>3, <2>1 DEF Listed
<1> QED BY <1>7, <1>8, <1>9 DEF c

\* What a handler that reads the jobs becomes.
Reading(t) ==
    [t EXCEPT !.conn = conn, !.list = [j \in Jobs |-> IF Has(j, "watch") \/ Has(j, "connect")
                                                      THEN Watch(jobs[j]) ELSE None]]

\* Reading the jobs: one handler has a list, and goes to the connection there is; lists that
\* were read before are old.
LEMMA Reads ==
    ASSUME TasksOK, NEW t, ReadWatched(t), registered
    PROVE  /\ IsABag(tasks') /\ Reading(t) \in DOMAIN tasks'
           /\ \A x \in DOMAIN tasks' :
                 \/ x = Reading(t)
                 \/ x \in DOMAIN tasks /\ ~Listed(x)
                 \/ \E s \in DOMAIN tasks : Listed(s) /\ s \in WatchTask /\ x = Aged(s)
           /\ \A s \in DOMAIN tasks : s.kind # "watch" => s \in DOMAIN tasks' /\ tasks'[s] = tasks[s]
<1> DEFINE u == Reading(t)
           b == tasks (-) SetToBag({t})
           o == Outdated(b)
<1>1. tasks' = o (+) SetToBag({u})
  BY DEF ReadWatched, Reading
<1>2. t \in WatchTask /\ t.list = None /\ t.kind = "watch" /\ u.kind = "watch"
  <2>1. t \in AtWork({"watch"}) /\ t.list = None
    BY DEF ReadWatched
  <2>2. t \in WatchTask /\ t.kind = "watch"
    BY <2>1, Handler
  <2> QED BY <2>1, <2>2 DEF WatchTask, Reading
<1>3. IsABag(tasks) /\ \A s \in DOMAIN tasks : TaskOK(s)
  BY DEF TasksOK, BagToSet
<1>4. /\ IsABag(b) /\ DOMAIN tasks \ {t} \subseteq DOMAIN b /\ DOMAIN b \subseteq DOMAIN tasks
      /\ \A s \in DOMAIN tasks \ {t} : b[s] = tasks[s]
  BY <1>3, BagTakes
<1> HIDE DEF b, u
<1>5. \A s \in DOMAIN b : TaskOK(s)
  BY <1>3, <1>4
<1>6. /\ IsABag(o)
      /\ \A s \in DOMAIN b : ~Listed(s) => s \in DOMAIN o /\ o[s] = b[s]
      /\ \A x \in DOMAIN o :
            \/ x \in DOMAIN b /\ ~Listed(x)
            \/ \E s \in DOMAIN b : Listed(s) /\ s \in WatchTask /\ x = Aged(s)
  BY <1>4, <1>5, Outdates
<1> HIDE DEF o
<1>7. /\ IsABag(tasks') /\ DOMAIN tasks' = DOMAIN o \cup {u}
      /\ \A s \in DOMAIN o \ {u} : tasks'[s] = o[s]
  BY <1>1, <1>6, BagAdds
<1>8. ASSUME NEW x \in DOMAIN tasks'
      PROVE  \/ x = u
             \/ x \in DOMAIN tasks /\ ~Listed(x)
             \/ \E s \in DOMAIN tasks : Listed(s) /\ s \in WatchTask /\ x = Aged(s)
  BY <1>4, <1>6, <1>7
<1>9. ASSUME NEW s \in DOMAIN tasks, s.kind # "watch" PROVE s \in DOMAIN tasks' /\ tasks'[s] = tasks[s]
  <2>1. s # t /\ s # u /\ ~Listed(s)
    BY <1>2, <1>9 DEF Listed
  <2> QED BY <1>4, <1>6, <1>7, <2>1
<1> QED BY <1>7, <1>8, <1>9 DEF u

\* A list of what the jobs ask for.
LEMMA ListTyped ==
    ASSUME jobs \in Rows
    PROVE  [j \in Jobs |-> IF Has(j, "watch") \/ Has(j, "connect") THEN Watch(jobs[j]) ELSE None] \in Lists
<1>1. ASSUME NEW j \in Jobs, Exists(j) PROVE Watch(jobs[j]) \in Watched
  BY <1>1, ExistsRow DEF Watch, Watched, Row
<1> QED BY <1>1 DEF Lists, Has

\* The handlers' types, when the jobs are read.
LEMMA ReadTypes ==
    ASSUME CatalogTypes, conn \in 0..made, made' = made, NEW t, ReadWatched(t)
    PROVE  TasksOK'
<1>1. CASE ~registered
  <2>1. End(t)
    BY <1>1 DEF ReadWatched
  <2> QED BY <2>1, TellOK, TasksTyped DEF CatalogTypes
<1>2. CASE registered
  <2>1. TasksOK /\ jobs \in Rows
    BY DEF CatalogTypes
  <2>2. t \in WatchTask /\ t.list = None /\ ~t.old
    <3>1. t \in AtWork({"watch"}) /\ t.list = None
      BY DEF ReadWatched
    <3> QED BY <2>1, <3>1, Handler
  <2> DEFINE list == [j \in Jobs |-> IF Has(j, "watch") \/ Has(j, "connect")
                                     THEN Watch(jobs[j]) ELSE None]
             u == Reading(t)
  <2>3. list \in Lists
    BY <2>1, ListTyped
  <2>4. u = [t EXCEPT !.conn = conn, !.list = list]
    BY DEF Reading
  <2>5. None \notin Lists /\ None \notin Nat
    <3>1. None \notin Nat
      BY AutomationAssumption
    <3>2. None \notin Lists
      BY ListsAssumption
    <3> QED BY <3>1, <3>2
  <2> HIDE DEF list, u
  <2>6. TaskOK(u)
    <3>1. u \in WatchTask /\ u.conn = conn /\ u.list = list
      BY <2>2, <2>3, <2>4 DEF WatchTask
    <3> QED BY <2>3, <2>5, <3>1 DEF TaskOK
  <2>7. ASSUME NEW s \in DOMAIN tasks, Listed(s), s \in WatchTask PROVE TaskOK(Aged(s))
    <3>1. s.conn # None
      BY <2>1, <2>7 DEF TasksOK, BagToSet, TaskOK, Listed, WatchTask, ResendTask, UpdateTask,
                        AssignTask, QueueTask
    <3> QED BY <2>7, <3>1 DEF TaskOK, WatchTask, Aged, Listed
  <2>8. \A x \in DOMAIN tasks' : TaskOK(x)
    BY <1>2, <2>1, <2>6, <2>7, Reads DEF TasksOK, BagToSet, u
  <2>9. TasksOK' <=> IsABag(tasks') /\ \A s \in DOMAIN tasks' : TaskOK(s)
    BY DEF TasksOK, BagToSet, TaskOK, WatchTask, ResendTask
  <2> QED BY <1>2, <2>1, <2>8, <2>9, Reads
<1> QED BY <1>1, <1>2

ToAgentMessage == RunMessage \cup CancelMessage \cup ListMessage
RunOfJob == [step : {"queued", "started", "walked"}, path : Paths, conn : 0..made, stop : BOOLEAN]

\* The types of connections, messages, watchers and runs.
AutoTypes ==
    /\ made \in Nat /\ conn \in 0..made /\ registered \in BOOLEAN /\ owned \subseteq Jobs
    /\ toAgent \in Seq(ToAgentMessage) /\ toHub \in Seq(ToHub)
    /\ watching \in [Jobs -> Paths \cup {None}]
    /\ timers \subseteq {j \in Jobs : watching[j] # None}
    /\ monitored \in [Jobs -> Paths \cup {None}]
    /\ connTimers \in [Jobs -> SUBSET Paths] /\ polling \in Look \cup {None}
    /\ available \in [Jobs -> [Paths -> BOOLEAN \cup {None}]]
    /\ runs \in [Jobs -> RunOfJob \cup {None}]
    /\ present \subseteq Paths /\ wanted \subseteq Paths /\ missed \subseteq Paths

\* The type invariant is that of the catalog and that of the rest.
LEMMA TypesSplit == AutomationTypeOK <=> CatalogTypes /\ AutoTypes
BY DEF AutomationTypeOK, CatalogTypes, AutoTypes, TasksOK, Rows, ToAgentMessage, RunOfJob

\* A message that is sent has its type.
LEMMA Sends ==
    ASSUME NEW S, NEW q \in Seq(S), NEW m \in S
    PROVE  Send(q, m) \in Seq(S)
BY DEF Send

\* So has a sequence with one more of them.
LEMMA Appends ==
    ASSUME NEW S, NEW q \in Seq(S), NEW m \in S
    PROVE  Append(q, m) \in Seq(S)
OBVIOUS

\* So has one with another behind it.
LEMMA Joins ==
    ASSUME NEW S, NEW q \in Seq(S), NEW r \in Seq(S)
    PROVE  q \o r \in Seq(S)
OBVIOUS

\* What is lost are paths of jobs there are.
LEMMA LostTyped ==
    ASSUME jobs \in Rows, missed \subseteq Paths, NEW js \in SUBSET Jobs
    PROVE  Lost(js) \subseteq Paths
<1> SUFFICES ASSUME NEW j \in js, Exists(j) PROVE jobs[j].path \in Paths
  BY DEF Lost
<1> QED BY ExistsRow DEF Row

\* A handler that queues rows it has read has its type.
LEMMA QueueOK ==
    ASSUME jobs \in Rows, now \in Times, NEW js \in SUBSET Jobs, \A j \in js : Exists(j),
           NEW reason \in {"schedule", "manual", "watch", "connect", "startup"}
    PROVE  TaskOK(Queue(js, reason))
<1>1. [j \in js |-> jobs[j]] \in [js -> Row]
  BY ExistsRow
<1> DEFINE rows == [j \in js |-> jobs[j]]
<1> HIDE DEF rows
<1>2. [kind |-> "queue", reason |-> reason, todo |-> js, job |-> None, rows |-> rows, at |-> now]
        \in QueueTask(js)
  BY <1>1 DEF QueueTask, rows
<1>3. js \cup ({None} \ {None}) \subseteq js
  OBVIOUS
<1> QED BY <1>2, <1>3 DEF TaskOK, Queue, rows

\* What a request or a handler of the catalog notes.
LEMMA CatalogSteps ==
    ASSUME CatalogTypes, AutoTypes, Catalog(Requests) \/ Catalog(Handlers)
    PROVE  CatalogTypes' /\ AutoTypes'
<1>1. made' = made
  BY DEF Catalog, netVars
<1>2. CatalogTypes'
  BY <1>1, RequestTypes, HandlerTypes DEF Catalog
<1>3. missed' \subseteq Paths
  <2>1. PICK js \in SUBSET Jobs : missed' = Lost(js)
    BY DEF Catalog, Noting
  <2> QED BY <2>1, LostTyped DEF CatalogTypes, AutoTypes
<1>4. AutoTypes'
  BY <1>3 DEF Catalog, AutoTypes, netVars, watcherVars, RunOfJob
<1> QED BY <1>2, <1>4

\* The server's steps keep types.
LEMMA HubTypes ==
    ASSUME CatalogTypes, AutoTypes, Hub
    PROVE  CatalogTypes' /\ AutoTypes'
<1>1. ASSUME Poll PROVE CatalogTypes' /\ AutoTypes'
  <2> DEFINE due == {j \in Jobs : Due(j)}
  <2>1. TaskOK(Queue(due, "schedule"))
    BY QueueOK DEF Due, CatalogTypes
  <2>2. TasksOK'
    <3>1. Begin(Queue(due, "schedule")) /\ made' = made
      BY <1>1 DEF Poll, autoVars, netVars
    <3> QED BY <2>1, <3>1, TasksTyped DEF CatalogTypes
  <2>3. CatalogTypes'
    BY <1>1, <2>2 DEF Poll, CatalogTypes
  <2>4. AutoTypes'
    BY <1>1 DEF Poll, AutoTypes, autoVars, netVars, watcherVars, noticed, RunOfJob
  <2> QED BY <2>3, <2>4
<1>2. ASSUME HubRegister PROVE CatalogTypes' /\ AutoTypes'
  <2>1. TaskOK([Tell EXCEPT !.then = "queued"])
    BY DEF TaskOK, Tell, WatchTask
  <2>2. TasksOK'
    BY <1>2, <2>1, TasksTyped DEF HubRegister, CatalogTypes
  <2>3. toHub' \in Seq(ToHub)
    BY <1>2 DEF HubRegister, Received, AutoTypes
  <2>4. CatalogTypes'
    BY <1>2, <2>2 DEF HubRegister, CatalogTypes
  <2>5. AutoTypes'
    BY <1>2, <2>3 DEF HubRegister, AutoTypes, watcherVars, noticed, RunOfJob
  <2> QED BY <2>4, <2>5
<1>3. ASSUME HubTrigger PROVE CatalogTypes' /\ AutoTypes'
  <2> DEFINE m == Head(toHub)
  <2>1. m \in ToHub /\ m.type = "trigger" /\ toHub' \in Seq(ToHub)
    BY <1>3 DEF HubTrigger, Received, AutoTypes
  <2> HIDE DEF m
  <2>2. m.job \in Jobs /\ m.paths \in SUBSET Paths /\ m.reason \in {"watch", "connect"}
    BY <2>1 DEF ToHub
  <2>3. \/ Begin(Queue({m.job}, m.reason)) /\ Has(m.job, m.reason) /\ UNCHANGED missed
        \/ missed' = missed \cup m.paths /\ UNCHANGED tasks
    BY <1>3 DEF HubTrigger, m
  <2>4. Has(m.job, m.reason) => TaskOK(Queue({m.job}, m.reason))
    BY <2>2, QueueOK DEF Has, CatalogTypes
  <2>5. made' = made /\ UNCHANGED <<jobs, members, links, linkIds, defaults, now, budget>>
    BY <1>3 DEF HubTrigger
  <2>6. TasksOK'
    <3>1. CASE UNCHANGED tasks
      BY <3>1, <2>5, TellOK, TasksTyped DEF CatalogTypes
    <3> QED BY <2>3, <2>4, <2>5, <3>1, TasksTyped DEF CatalogTypes
  <2>7. CatalogTypes'
    BY <2>5, <2>6 DEF CatalogTypes
  <2>8. AutoTypes'
    BY <1>3, <2>1, <2>2, <2>3 DEF HubTrigger, AutoTypes, watcherVars, RunOfJob
  <2> QED BY <2>7, <2>8
<1>4. ASSUME HubStarted PROVE CatalogTypes' /\ AutoTypes'
  <2> DEFINE m == Head(toHub)
  <2>1. m \in ToHub /\ m.type = "started" /\ toHub' \in Seq(ToHub)
    BY <1>4 DEF HubStarted, Received, AutoTypes
  <2> HIDE DEF m
  <2>2. m.job \in Jobs
    BY <2>1 DEF ToHub
  <2>3. jobs' = SetStatus(jobs, m.job, "running")
    BY <1>4 DEF HubStarted, m
  <2>4. jobs' \in Rows
    BY <2>2, <2>3, SetsStatus DEF CatalogTypes, Statuses
  <2>5. TasksOK'
    BY <1>4, TellOK, TasksTyped DEF HubStarted, CatalogTypes
  <2>6. CatalogTypes'
    BY <1>4, <2>4, <2>5 DEF HubStarted, CatalogTypes
  <2>7. AutoTypes'
    BY <1>4, <2>1 DEF HubStarted, AutoTypes, watcherVars, noticed, RunOfJob
  <2> QED BY <2>6, <2>7
<1>5. ASSUME HubEnded PROVE CatalogTypes' /\ AutoTypes'
  <2> DEFINE m == Head(toHub)
  <2>1. m \in ToHub /\ m.type = "ended" /\ toHub' \in Seq(ToHub)
    BY <1>5 DEF HubEnded, Received, AutoTypes
  <2> HIDE DEF m
  <2>2. m.job \in Jobs /\ m.outcome \in {"completed", "cancelled", "error"}
    BY <2>1 DEF ToHub
  <2>3. jobs' = SetStatus(jobs, m.job, m.outcome)
    BY <1>5 DEF HubEnded, m
  <2>4. jobs' \in Rows
    <3>1. m.outcome \in Statuses
      BY <2>2 DEF Statuses
    <3> QED BY <2>2, <2>3, <3>1, SetsStatus DEF CatalogTypes
  <2>5. TasksOK'
    BY <1>5, TellOK, TasksTyped DEF HubEnded, CatalogTypes
  <2>6. CatalogTypes'
    BY <1>5, <2>4, <2>5 DEF HubEnded, CatalogTypes
  <2>7. AutoTypes'
    BY <1>5, <2>1 DEF HubEnded, AutoTypes, watcherVars, noticed, RunOfJob
  <2> QED BY <2>6, <2>7
<1>6. ASSUME NEW t, QueueNext(t) PROVE CatalogTypes' /\ AutoTypes'
  <2>1. PICK js \in SUBSET Jobs : t \in QueueTask(js) /\ t.todo \subseteq js
    BY <1>6, Handler DEF QueueNext, CatalogTypes, AtWork
  <2>2. PICK j \in t.todo : /\ jobs' = SetStatus(jobs, j, "queued")
                            /\ Continue(t, [t EXCEPT !.job = j, !.todo = @ \ {j}])
    BY <1>6 DEF QueueNext
  <2> DEFINE u == [t EXCEPT !.job = j, !.todo = @ \ {j}]
  <2>3. u \in QueueTask(js) /\ u.todo \cup ({u.job} \ {None}) \subseteq js
    BY <2>1 DEF QueueTask
  <2>4. TaskOK(u)
    BY <2>3 DEF TaskOK
  <2>5. TasksOK'
    BY <1>6, <2>2, <2>4, TasksTyped DEF QueueNext, CatalogTypes, autoVars, netVars
  <2>6. jobs' \in Rows
    BY <2>1, <2>2, SetsStatus DEF CatalogTypes, Statuses, QueueTask
  <2>7. CatalogTypes'
    BY <1>6, <2>5, <2>6 DEF QueueNext, CatalogTypes
  <2>8. AutoTypes'
    BY <1>6 DEF QueueNext, AutoTypes, autoVars, netVars, watcherVars, noticed, RunOfJob
  <2> QED BY <2>7, <2>8
<1>7. ASSUME NEW t, QueueSend(t) PROVE CatalogTypes' /\ AutoTypes'
  <2>1. PICK js \in SUBSET Jobs : t \in QueueTask(js) /\ t.todo \subseteq js /\ t.job \in js
    <3>1. t \in AtWork({"queue"}) /\ t.job # None
      BY <1>7 DEF QueueSend
    <3> QED BY <3>1, Handler DEF CatalogTypes
  <2> DEFINE u == [t EXCEPT !.job = None]
             m == [type |-> "run", job |-> t.job, path |-> t.rows[t.job].path]
  <2>2. u \in QueueTask(js) /\ u.todo \cup ({u.job} \ {None}) \subseteq js
    BY <2>1 DEF QueueTask
  <2>3. TaskOK(u)
    BY <2>2 DEF TaskOK
  <2>4. TasksOK'
    BY <1>7, <2>3, TasksTyped DEF QueueSend, CatalogTypes
  <2>5. m \in ToAgentMessage /\ t.job \in Jobs
    BY <2>1 DEF QueueTask, Row, ToAgentMessage, RunMessage
  <2>6. jobs' \in Rows
    <3>1. jobs' = jobs \/ jobs' = SetStatus(jobs, t.job, "error")
      BY <1>7 DEF QueueSend
    <3> QED BY <2>5, <3>1, SetsStatus DEF CatalogTypes, Statuses
  <2>7. toAgent' \in Seq(ToAgentMessage) /\ owned' \subseteq Jobs
    <3>1. \/ toAgent' = Send(toAgent, m) /\ owned' = owned \cup {t.job}
          \/ toAgent' = toAgent /\ owned' = owned
      BY <1>7 DEF QueueSend
    <3> QED BY <2>5, <3>1, Sends DEF AutoTypes
  <2>8. missed' \subseteq Paths
    <3>1. missed' = missed \/ missed' = Lost({t.job})
      BY <1>7 DEF QueueSend
    <3>2. Lost({t.job}) \subseteq Paths
      BY <2>5, LostTyped DEF CatalogTypes, AutoTypes
    <3> QED BY <3>1, <3>2 DEF AutoTypes
  <2>9. CatalogTypes'
    BY <1>7, <2>4, <2>6 DEF QueueSend, CatalogTypes
  <2>10. AutoTypes'
    BY <1>7, <2>7, <2>8 DEF QueueSend, AutoTypes, watcherVars, RunOfJob
  <2> QED BY <2>9, <2>10
<1>8. ASSUME NEW t, QueueEnds(t) PROVE CatalogTypes' /\ AutoTypes'
  <2>1. TasksOK'
    BY <1>8, TellOK, TasksTyped DEF QueueEnds, CatalogTypes, autoVars, netVars
  <2>2. CatalogTypes'
    BY <1>8, <2>1 DEF QueueEnds, CatalogTypes
  <2>3. AutoTypes'
    BY <1>8 DEF QueueEnds, AutoTypes, autoVars, netVars, watcherVars, noticed, RunOfJob
  <2> QED BY <2>2, <2>3
<1>9. ASSUME NEW t, ReadWatched(t) PROVE CatalogTypes' /\ AutoTypes'
  <2>1. TasksOK'
    <3>1. made' = made /\ conn \in 0..made
      BY <1>9 DEF ReadWatched, autoVars, netVars, AutoTypes
    <3> QED BY <1>9, <3>1, ReadTypes
  <2>2. CatalogTypes'
    BY <1>9, <2>1 DEF ReadWatched, CatalogTypes
  <2>3. AutoTypes'
    BY <1>9 DEF ReadWatched, AutoTypes, autoVars, netVars, watcherVars, noticed, RunOfJob
  <2> QED BY <2>2, <2>3
<1>10. ASSUME NEW t, SendWatched(t) PROVE CatalogTypes' /\ AutoTypes'
  <2>1. t \in WatchTask /\ t.list \in Lists /\ t.conn \in 0..made
    <3>1. t \in AtWork({"watch"}) /\ t.list # None
      BY <1>10 DEF SendWatched
    <3> QED BY <3>1, Handler DEF CatalogTypes, WatchTask
  <2> DEFINE u == [kind |-> "resend", conn |-> t.conn]
             m == [type |-> "watch", list |-> t.list]
  <2>2. TaskOK(u)
    BY <2>1 DEF TaskOK, ResendTask
  <2>3. TasksOK'
    BY <1>10, <2>2, TasksTyped DEF SendWatched, CatalogTypes
  <2>4. m \in ToAgentMessage
    BY <2>1 DEF ToAgentMessage, ListMessage
  <2>5. toAgent' \in Seq(ToAgentMessage)
    <3>1. toAgent' = toAgent \/ toAgent' = Append(toAgent, m)
      BY <1>10 DEF SendWatched
    <3>2. toAgent \in Seq(ToAgentMessage)
      BY DEF AutoTypes
    <3> HIDE DEF m
    <3> QED BY <2>4, <3>1, <3>2, Appends
  <2>6. CatalogTypes'
    BY <1>10, <2>3 DEF SendWatched, CatalogTypes
  <2>7. AutoTypes'
    BY <1>10, <2>5 DEF SendWatched, AutoTypes, watcherVars, noticed, RunOfJob
  <2> QED BY <2>6, <2>7
<1>11. ASSUME NEW t, ResendQueued(t) PROVE CatalogTypes' /\ AutoTypes'
  <2>1. TasksOK'
    BY <1>11, TellOK, TasksTyped DEF ResendQueued, CatalogTypes
  <2> DEFINE queued == {j \in Jobs : Exists(j) /\ jobs[j].status = "queued"}
  <2>2. Cardinality(queued) \in Nat
    BY CatalogAssumption, FS_Subset, FS_CardinalityType
  <2>3. toAgent' \in Seq(ToAgentMessage)
    <3>1. PICK order \in [1..Cardinality(queued) -> queued] :
            \/ toAgent' = toAgent
            \/ toAgent' = toAgent \o [i \in DOMAIN order |->
                        [type |-> "run", job |-> order[i], path |-> jobs[order[i]].path]]
      BY <1>11 DEF ResendQueued
    <3> DEFINE ms == [i \in DOMAIN order |->
                        [type |-> "run", job |-> order[i], path |-> jobs[order[i]].path]]
               n == Cardinality(queued)
    <3>2. ASSUME NEW i \in 1..n
          PROVE  [type |-> "run", job |-> order[i], path |-> jobs[order[i]].path] \in ToAgentMessage
      <4>1. order[i] \in Jobs /\ Exists(order[i])
        OBVIOUS
      <4>2. jobs[order[i]] \in Row
        BY <4>1, ExistsRow DEF CatalogTypes
      <4> QED BY <4>1, <4>2 DEF Row, ToAgentMessage, RunMessage
    <3>3. ms \in [1..n -> ToAgentMessage]
      BY <3>2
    <3> HIDE DEF ms, n
    <3>4. n \in Nat
      BY <2>2 DEF n
    <3>5. ms \in Seq(ToAgentMessage)
      BY <3>3, <3>4
    <3>6. toAgent' = toAgent \/ toAgent' = toAgent \o ms
      BY <3>1 DEF ms
    <3>7. toAgent \in Seq(ToAgentMessage)
      BY DEF AutoTypes
    <3> QED BY <3>5, <3>6, <3>7, Joins
  <2>4. owned' \subseteq Jobs
    BY <1>11 DEF ResendQueued, AutoTypes
  <2>5. CatalogTypes'
    BY <1>11, <2>1 DEF ResendQueued, CatalogTypes
  <2>6. AutoTypes'
    BY <1>11, <2>3, <2>4 DEF ResendQueued, AutoTypes, watcherVars, noticed, RunOfJob
  <2> QED BY <2>5, <2>6
<1> QED BY <1>1, <1>2, <1>3, <1>4, <1>5, <1>6, <1>7, <1>8, <1>9, <1>10, <1>11 DEF Hub

\* What a list asks for is a path.
LEMMA LocalPathTyped ==
    ASSUME NEW list \in Lists, NEW j \in Jobs, NEW trigger
    PROVE  LocalPath(list, j, trigger) \in Paths \cup {None}
<1>1. list[j] \in Watched \cup {None}
  BY DEF Lists
<1> QED BY <1>1 DEF LocalPath, Watched

\* The agent's steps keep types.
LEMMA AgentTypes ==
    ASSUME CatalogTypes, AutoTypes, Agent
    PROVE  CatalogTypes' /\ AutoTypes'
<1>1. ASSUME UNCHANGED catalogVars, made' = made PROVE CatalogTypes'
  <2>1. TasksOK'
    BY <1>1, TellOK, TasksTyped DEF CatalogTypes, catalogVars
  <2> QED BY <1>1, <2>1 DEF CatalogTypes, catalogVars
<1>2. ASSUME Connect PROVE CatalogTypes' /\ AutoTypes'
  <2>1. made' = made + 1 /\ conn' = made' /\ toHub' = <<[type |-> "register"]>>
        /\ UNCHANGED <<catalogVars, registered, toAgent, owned, watcherVars, runs, present,
                       wanted, missed>>
    BY <1>2 DEF Connect, noticed
  <2>2. toHub' \in Seq(ToHub)
    <3>1. [type |-> "register"] \in ToHub
      BY DEF ToHub
    <3> QED BY <2>1, <3>1
  <2>3. made \in Nat /\ made' \in Nat /\ conn' \in 0..made' /\ 0..made \subseteq 0..made'
    BY <2>1 DEF AutoTypes
  <2>4. runs' \in [Jobs -> RunOfJob' \cup {None}]
    <3>1. runs \in [Jobs -> RunOfJob \cup {None}]
      BY DEF AutoTypes
    <3>2. RunOfJob \subseteq RunOfJob'
      BY <2>3 DEF RunOfJob
    <3> QED BY <2>1, <3>1, <3>2
  <2>5. AutoTypes'
    BY <2>1, <2>2, <2>3, <2>4 DEF AutoTypes, watcherVars
  <2>6. TasksOK'
    <3>1. IsABag(tasks) /\ tasks' = tasks /\ \A s \in DOMAIN tasks : TaskOK(s)
      BY <2>1 DEF CatalogTypes, TasksOK, BagToSet, catalogVars
    <3>2. WatchTask \subseteq WatchTask' /\ ResendTask \subseteq ResendTask'
      BY <2>3 DEF WatchTask, ResendTask
    <3>3. \A s \in DOMAIN tasks : TaskOK(s) =>
            \/ s \in WatchTask' /\ (s.conn = None <=> s.list = None) /\ (s.list = None => ~s.old)
            \/ s \in ResendTask'
            \/ s \in UpdateTask /\ UpdateOK(s)
            \/ s \in AssignTask /\ AssignOK(s)
            \/ \E js \in SUBSET Jobs : s \in QueueTask(js) /\ s.todo \cup ({s.job} \ {None}) \subseteq js
      BY <3>2 DEF TaskOK
    <3>4. TasksOK' <=> IsABag(tasks') /\ \A s \in DOMAIN tasks' :
            \/ s \in WatchTask' /\ (s.conn = None <=> s.list = None) /\ (s.list = None => ~s.old)
            \/ s \in ResendTask'
            \/ s \in UpdateTask /\ UpdateOK(s)
            \/ s \in AssignTask /\ AssignOK(s)
            \/ \E js \in SUBSET Jobs : s \in QueueTask(js) /\ s.todo \cup ({s.job} \ {None}) \subseteq js
      BY DEF TasksOK, BagToSet, TaskOK
    <3> QED BY <3>1, <3>3, <3>4
  <2> QED BY <2>1, <2>5, <2>6 DEF CatalogTypes, catalogVars
<1>3. ASSUME AgentWatch PROVE CatalogTypes' /\ AutoTypes'
  <2> DEFINE list == Head(toAgent).list
  <2>1. Head(toAgent) \in ToAgentMessage /\ Head(toAgent).type = "watch"
        /\ toAgent' \in Seq(ToAgentMessage)
    BY <1>3 DEF AgentWatch, Delivered, AutoTypes
  <2>2. list \in Lists
    BY <2>1 DEF ToAgentMessage, RunMessage, CancelMessage, ListMessage
  <2>3. WatcherSync(list) /\ MonitorSync(list)
    BY <1>3 DEF AgentWatch
  <2> HIDE DEF list
  <2>4. watching' \in [Jobs -> Paths \cup {None}] /\ timers' \subseteq {j \in Jobs : watching'[j] # None}
    BY <2>2, <2>3, LocalPathTyped DEF WatcherSync, AutoTypes
  <2>5. monitored' \in [Jobs -> Paths \cup {None}]
        /\ connTimers' \in [Jobs -> SUBSET Paths]
    BY <2>2, <2>3, LocalPathTyped DEF MonitorSync, AutoTypes
  <2>6. available' \in [Jobs -> [Paths -> BOOLEAN \cup {None}]]
    BY <2>3 DEF MonitorSync, AutoTypes
  <2>7. missed' \subseteq Paths
    <3> DEFINE js == {j \in Jobs :
                          /\ j \in timers \ timers' \/ connTimers[j] # connTimers'[j]
                          /\ Exists(j) /\ Head(toAgent).list[j] # Watch(jobs[j])}
    <3>1. missed' = Lost(js)
      BY <1>3 DEF AgentWatch
    <3>2. js \in SUBSET Jobs
      OBVIOUS
    <3> HIDE DEF js
    <3> QED BY <3>1, <3>2, LostTyped DEF CatalogTypes, AutoTypes
  <2>8. UNCHANGED <<catalogVars, conn, made, registered, toHub, owned, polling, runs, present, wanted>>
    BY <1>3 DEF AgentWatch
  <2>9. AutoTypes'
    BY <2>1, <2>4, <2>5, <2>6, <2>7, <2>8 DEF AutoTypes, RunOfJob
  <2> QED BY <1>1, <2>8, <2>9
<1>4. ASSUME AgentRun PROVE CatalogTypes' /\ AutoTypes'
  <2> DEFINE m == Head(toAgent)
  <2>1. m \in ToAgentMessage /\ m.type = "run" /\ toAgent' \in Seq(ToAgentMessage)
    BY <1>4 DEF AgentRun, Delivered, AutoTypes
  <2> HIDE DEF m
  <2>2. m.job \in Jobs /\ m.path \in Paths
    BY <2>1 DEF ToAgentMessage, RunMessage, CancelMessage, ListMessage
  <2> DEFINE r == [step |-> "queued", path |-> m.path, conn |-> conn, stop |-> FALSE]
  <2>3. \/ runs' = [runs EXCEPT ![m.job] = r] /\ missed' = missed
        \/ missed' = missed \cup {m.path} /\ runs' = runs
    BY <1>4 DEF AgentRun, m
  <2>4. r \in RunOfJob
    BY <2>2 DEF RunOfJob, AutoTypes
  <2> HIDE DEF r
  <2>5. UNCHANGED <<catalogVars, conn, made, registered, toHub, owned, watcherVars, present, wanted>>
    BY <1>4 DEF AgentRun
  <2>6. runs' \in [Jobs -> RunOfJob \cup {None}] /\ missed' \subseteq Paths /\ RunOfJob' = RunOfJob
    <3>1. runs \in [Jobs -> RunOfJob \cup {None}] /\ missed \subseteq Paths
      BY DEF AutoTypes
    <3>2. runs' \in [Jobs -> RunOfJob \cup {None}] /\ missed' \subseteq Paths
      BY <2>2, <2>3, <2>4, <3>1
    <3>3. RunOfJob' = RunOfJob
      BY <2>5 DEF RunOfJob
    <3> QED BY <3>2, <3>3
  <2>7. UNCHANGED <<conn, made, registered, toHub, owned, watching, timers, monitored, available,
                    connTimers, polling, present, wanted>>
    BY <2>5 DEF watcherVars
  <2>8. runs' \in [Jobs -> RunOfJob' \cup {None}]
    BY <2>6
  <2>9. AutoTypes'
    BY <2>1, <2>6, <2>7, <2>8 DEF AutoTypes, Look
  <2> QED BY <1>1, <2>5, <2>9
<1>5. ASSUME AgentCancel PROVE CatalogTypes' /\ AutoTypes'
  <2> DEFINE m == Head(toAgent)
             j == m.job
             e == [type |-> "ended", job |-> j, outcome |-> "cancelled"]
  <2>1. m \in ToAgentMessage /\ m.type = "cancel" /\ toAgent' \in Seq(ToAgentMessage)
    BY <1>5 DEF AgentCancel, Delivered, AutoTypes
  <2>2. /\ \/ runs[j] # None /\ runs' = [runs EXCEPT ![j] = None] /\ toHub' = Send(toHub, e)
           \/ runs[j] # None /\ runs' = [runs EXCEPT ![j].stop = TRUE] /\ toHub' = toHub
           \/ runs' = runs /\ toHub' = toHub
        /\ UNCHANGED <<catalogVars, conn, made, registered, owned, watcherVars, present,
                       wanted, missed>>
    BY <1>5 DEF AgentCancel, noticed
  <2> HIDE DEF m
  <2>3. j \in Jobs
    BY <2>1 DEF ToAgentMessage, RunMessage, CancelMessage, ListMessage
  <2>4. e \in ToHub
    BY <2>3 DEF ToHub
  <2> HIDE DEF e, j
  <2>5. toHub' \in Seq(ToHub)
    BY <2>2, <2>4, Sends DEF AutoTypes
  <2>6. runs' \in [Jobs -> RunOfJob \cup {None}]
    <3>1. runs \in [Jobs -> RunOfJob \cup {None}]
      BY DEF AutoTypes
    <3>2. CASE runs[j] # None /\ runs' = [runs EXCEPT ![j].stop = TRUE]
      <4> DEFINE r == [runs[j] EXCEPT !.stop = TRUE]
      <4>1. runs' = [runs EXCEPT ![j] = r]
        BY <3>2, <3>1, <2>3 DEF RunOfJob
      <4>2. r \in RunOfJob
        BY <2>3, <3>1, <3>2 DEF RunOfJob
      <4> HIDE DEF r
      <4> QED BY <3>1, <4>1, <4>2
    <3> QED BY <2>2, <3>1, <3>2
  <2>7. AutoTypes'
    BY <2>1, <2>2, <2>5, <2>6 DEF AutoTypes, watcherVars, RunOfJob
  <2> QED BY <1>1, <2>2, <2>7
<1>6. ASSUME NEW j \in Jobs, NEW reason \in {"watch", "connect"}, NEW paths \in SUBSET Paths,
             Fires(j, reason, paths), timers' \subseteq timers, connTimers' \in [Jobs -> SUBSET Paths]
      PROVE  CatalogTypes' /\ AutoTypes'
  <2> DEFINE m == [type |-> "trigger", job |-> j, reason |-> reason, paths |-> paths]
  <2>1. /\ toHub' = Send(toHub, m) /\ (missed' = missed \cup paths \/ missed' = missed)
        /\ UNCHANGED <<catalogVars, conn, made, registered, toAgent, owned, watching, monitored,
                       available, polling, runs, present, wanted>>
    BY <1>6 DEF Fires
  <2>2. m \in ToHub
    BY DEF ToHub
  <2> HIDE DEF m
  <2>3. toHub' \in Seq(ToHub)
    BY <2>1, <2>2, Sends DEF AutoTypes
  <2>4. AutoTypes'
    BY <1>6, <2>1, <2>3 DEF AutoTypes, RunOfJob
  <2> QED BY <1>1, <2>1, <2>4
<1>7. ASSUME NEW j \in Jobs, WatchFires(j) PROVE CatalogTypes' /\ AutoTypes'
  <2>1. j \in timers /\ timers' \subseteq timers /\ connTimers' = connTimers
        /\ Fires(j, "watch", {watching[j]})
    BY <1>7 DEF WatchFires
  <2>2. {watching[j]} \in SUBSET Paths /\ connTimers \in [Jobs -> SUBSET Paths]
    BY <2>1 DEF AutoTypes
  <2> QED BY <1>6, <2>1, <2>2
<1>8. ASSUME NEW j \in Jobs, FolderFires(j) PROVE CatalogTypes' /\ AutoTypes'
  <2>1. /\ timers' = timers /\ connTimers' = [connTimers EXCEPT ![j] = {}]
        /\ Fires(j, "connect", connTimers[j])
    BY <1>8 DEF FolderFires
  <2>2. connTimers[j] \in SUBSET Paths /\ connTimers' \in [Jobs -> SUBSET Paths]
    BY <2>1 DEF AutoTypes
  <2> QED BY <1>6, <2>1, <2>2
<1>9. ASSUME NEW j \in Jobs, FolderLook(j) PROVE CatalogTypes' /\ AutoTypes'
  <2>1. /\ polling' = [job |-> j, path |-> monitored[j], was |-> available[j][monitored[j]]]
        /\ UNCHANGED <<catalogVars, netVars, owned, watching, timers, monitored, available,
                       connTimers, runs, present, noticed>>
        /\ monitored[j] # None
    BY <1>9 DEF FolderLook
  <2>2. monitored[j] \in Paths
    BY <2>1 DEF AutoTypes
  <2>3. available[j][monitored[j]] \in BOOLEAN \cup {None}
    BY <2>2 DEF AutoTypes
  <2>4. polling' \in Look
    BY <2>1, <2>2, <2>3 DEF Look
  <2>5. AutoTypes'
    BY <2>1, <2>4 DEF AutoTypes, netVars, noticed, RunOfJob
  <2>6. made' = made
    BY <2>1 DEF netVars
  <2> QED BY <1>1, <2>1, <2>5, <2>6
<1>10. ASSUME NEW j \in Jobs, NEW m \in ToHub, Reports(j, m) PROVE toHub' \in Seq(ToHub)
  BY <1>10, Sends DEF Reports, AutoTypes
<1>11. ASSUME NEW j \in Jobs, NEW step \in {"started", "walked"}, runs[j] # None,
              runs' = [runs EXCEPT ![j].step = step]
       PROVE  runs' \in [Jobs -> RunOfJob \cup {None}]
  <2>1. runs \in [Jobs -> RunOfJob \cup {None}] /\ runs[j] \in RunOfJob
    BY <1>11 DEF AutoTypes
  <2> DEFINE r == [runs[j] EXCEPT !.step = step]
  <2>2. runs' = [runs EXCEPT ![j] = r]
    BY <1>11, <2>1 DEF RunOfJob
  <2>3. r \in RunOfJob
    BY <2>1 DEF RunOfJob
  <2> HIDE DEF r
  <2> QED BY <2>1, <2>2, <2>3
<1>12. ASSUME NEW j \in Jobs, RunStarts(j) PROVE CatalogTypes' /\ AutoTypes'
  <2>1. /\ runs[j] # None /\ runs' = [runs EXCEPT ![j].step = "started"]
        /\ Reports(j, [type |-> "started", job |-> j])
        /\ UNCHANGED <<catalogVars, conn, made, registered, toAgent, owned, watcherVars, present,
                       wanted, missed>>
    BY <1>12 DEF RunStarts, noticed
  <2>2. [type |-> "started", job |-> j] \in ToHub
    BY DEF ToHub
  <2>3. toHub' \in Seq(ToHub)
    BY <1>10, <2>1, <2>2
  <2>4. runs' \in [Jobs -> RunOfJob \cup {None}]
    BY <1>11, <2>1
  <2>5. AutoTypes'
    BY <2>1, <2>3, <2>4 DEF AutoTypes, watcherVars, RunOfJob
  <2> QED BY <1>1, <2>1, <2>5
<1>13. ASSUME NEW j \in Jobs, RunWalks(j) PROVE CatalogTypes' /\ AutoTypes'
  <2>1. /\ runs[j] # None /\ runs' = [runs EXCEPT ![j].step = "walked"]
        /\ wanted' \subseteq wanted /\ missed' \subseteq missed
        /\ UNCHANGED <<catalogVars, netVars, owned, watcherVars, present>>
    BY <1>13 DEF RunWalks
  <2>2. runs' \in [Jobs -> RunOfJob \cup {None}]
    BY <1>11, <2>1
  <2>3. AutoTypes'
    BY <2>1, <2>2 DEF AutoTypes, netVars, watcherVars, RunOfJob
  <2>4. made' = made
    BY <2>1 DEF netVars
  <2> QED BY <1>1, <2>1, <2>3, <2>4
<1>14. ASSUME NEW j \in Jobs, RunEnds(j) PROVE CatalogTypes' /\ AutoTypes'
  <2>1. PICK outcome \in {"completed", "cancelled", "error"} :
          /\ \/ Spend("faults") /\ missed' = missed \cup {runs[j].path}
             \/ UNCHANGED <<budget, missed>>
          /\ Reports(j, [type |-> "ended", job |-> j, outcome |-> outcome])
    BY <1>14 DEF RunEnds
  <2>2. /\ runs[j] # None /\ runs' = [runs EXCEPT ![j] = None]
        /\ UNCHANGED <<jobs, members, links, linkIds, defaults, tasks, now, catalogHistory, conn, made,
                       registered, toAgent, owned, watcherVars, present, wanted>>
    BY <1>14 DEF RunEnds
  <2>3. [type |-> "ended", job |-> j, outcome |-> outcome] \in ToHub
    BY DEF ToHub
  <2>4. toHub' \in Seq(ToHub)
    BY <1>10, <2>1, <2>3
  <2>5. runs' \in [Jobs -> RunOfJob \cup {None}] /\ missed' \subseteq Paths
    BY <2>1, <2>2 DEF AutoTypes, RunOfJob
  <2>6. AutoTypes'
    BY <2>2, <2>4, <2>5 DEF AutoTypes, watcherVars, RunOfJob
  <2>7. budget' \in Bounds
    BY <2>1, Spends DEF CatalogTypes
  <2>8. TasksOK'
    BY <2>2, TellOK, TasksTyped DEF CatalogTypes
  <2> QED BY <2>2, <2>6, <2>7, <2>8 DEF CatalogTypes
<1>15. ASSUME FolderAnswer PROVE CatalogTypes' /\ AutoTypes'
  <2> DEFINE j == polling.job
             p == polling.path
             seen == p \in present
  <2>1. j \in Jobs /\ p \in Paths
    BY <1>15 DEF FolderAnswer, AutoTypes, Look
  <2>2. /\ available' = [available EXCEPT ![j][p] = seen] /\ polling' = None
        /\ \/ connTimers' = [connTimers EXCEPT ![j] = @ \cup {p}] /\ Noticed(p, {j}, "connect")
           \/ UNCHANGED <<connTimers, noticed>>
        /\ UNCHANGED <<catalogVars, netVars, owned, watching, timers, monitored, runs, present>>
    BY <1>15 DEF FolderAnswer
  <2> HIDE DEF j, p, seen
  <2>3. wanted' \subseteq Paths /\ missed' \subseteq Paths
    BY <2>1, <2>2 DEF Noticed, noticed, AutoTypes
  <2>4. available' \in [Jobs -> [Paths -> BOOLEAN \cup {None}]]
    <3> DEFINE a == [available[j] EXCEPT ![p] = seen]
    <3>1. seen \in BOOLEAN
      BY DEF seen
    <3>2. a \in [Paths -> BOOLEAN \cup {None}]
      BY <2>1, <3>1 DEF AutoTypes
    <3>3. available' = [available EXCEPT ![j] = a]
      BY <2>2 DEF AutoTypes
    <3> HIDE DEF a
    <3> QED BY <3>2, <3>3 DEF AutoTypes
  <2>5. connTimers' \in [Jobs -> SUBSET Paths]
    BY <2>1, <2>2 DEF AutoTypes
  <2>6. AutoTypes'
    BY <2>2, <2>3, <2>4, <2>5 DEF AutoTypes, netVars, RunOfJob
  <2>7. made' = made
    BY <2>2 DEF netVars
  <2> QED BY <1>1, <2>2, <2>6, <2>7
<1> QED BY <1>2, <1>3, <1>4, <1>5, <1>7, <1>8, <1>9, <1>12, <1>13, <1>14, <1>15 DEF Agent

\* No job is made or deleted, and none gets other settings.
SameSettings ==
    /\ jobs' \in Rows
    /\ \A j \in Jobs :
          /\ jobs[j] \in {None, Deleted} => jobs'[j] = jobs[j]
          /\ jobs[j] \notin {None, Deleted} =>
                /\ jobs'[j] \in Row
                /\ jobs'[j].pair = jobs[j].pair /\ jobs'[j].device = jobs[j].device
                /\ jobs'[j].path = jobs[j].path /\ jobs'[j].auto = jobs[j].auto

\* A status that is set leaves the settings.
LEMMA StatusSame ==
    ASSUME jobs \in Rows, now \in Times
    PROVE  /\ UNCHANGED jobs => SameSettings
           /\ \A j \in Jobs, s \in Statuses : jobs' = SetStatus(jobs, j, s) => SameSettings
           /\ \A js \in SUBSET Jobs :
                 jobs' = [j \in Jobs |-> IF j \in js THEN SetStatus(jobs, j, "error")[j] ELSE jobs[j]]
                 => SameSettings
<1>1. \A j \in Jobs : jobs[j] \notin {None, Deleted} => jobs[j] \in Row
  BY DEF Rows
<1>2. ASSUME UNCHANGED jobs PROVE SameSettings
  BY <1>1, <1>2 DEF SameSettings
<1>3. ASSUME NEW j \in Jobs, NEW s \in Statuses, jobs' = SetStatus(jobs, j, s) PROVE SameSettings
  BY <1>1, <1>3, SetsStatus DEF SameSettings
<1>4. ASSUME NEW js \in SUBSET Jobs,
             jobs' = [j \in Jobs |-> IF j \in js THEN SetStatus(jobs, j, "error")[j] ELSE jobs[j]]
      PROVE  SameSettings
  <2>1. "error" \in Statuses
    BY DEF Statuses
  <2>2. ASSUME NEW j \in Jobs
        PROVE  /\ jobs'[j] \in Row \cup {None, Deleted}
               /\ jobs[j] \in {None, Deleted} => jobs'[j] = jobs[j]
               /\ jobs[j] \notin {None, Deleted} =>
                    /\ jobs'[j] \in Row
                    /\ jobs'[j].pair = jobs[j].pair /\ jobs'[j].device = jobs[j].device
                    /\ jobs'[j].path = jobs[j].path /\ jobs'[j].auto = jobs[j].auto
    <3>1. CASE j \notin js
      BY <1>1, <1>4, <3>1 DEF Rows
    <3>2. CASE j \in js
      <4>1. jobs'[j] = SetStatus(jobs, j, "error")[j]
        BY <1>4, <3>2
      <4> QED BY <2>1, <4>1, SetsStatus DEF Rows
    <3> QED BY <3>1, <3>2
  <2>3. jobs' \in Rows
    <3>1. jobs' = [j \in Jobs |-> jobs'[j]]
      BY <1>4
    <3> QED BY <2>2, <3>1 DEF Rows
  <2> QED BY <2>2, <2>3 DEF SameSettings
<1> QED BY <1>2, <1>3, <1>4

\* The handler that queues the jobs of a start.
StartTask == [Queue({j \in Jobs : Has(j, "start")}, "startup") EXCEPT
                 !.rows = [j \in {i \in Jobs : Has(i, "start")} |-> jobs'[j]]]

\* A new server has at most one handler, which queues jobs.
LEMMA Restarts ==
    ASSUME CatalogTypes, RestartApi
    PROVE  /\ SameSettings
           /\ IsABag(tasks')
           /\ \A t \in DOMAIN tasks' : t.kind = "queue" /\ TaskOK(t)
<1> DEFINE startup == {j \in Jobs : Has(j, "start")}
           rows == [j \in Jobs |-> IF Active(j) THEN SetStatus(jobs, j, "error")[j] ELSE jobs[j]]
           u == [Queue(startup, "startup") EXCEPT !.rows = [j \in startup |-> rows[j]]]
           v == [kind |-> "queue", reason |-> "startup", todo |-> startup, job |-> None,
                 rows |-> [j \in startup |-> rows[j]], at |-> now]
<1>1. jobs' = rows /\ (tasks' = EmptyBag \/ tasks' = SetToBag({u}))
  BY DEF RestartApi
<1>2. jobs \in Rows /\ now \in Times
  BY DEF CatalogTypes
<1>3. SameSettings
  <2> DEFINE js == {j \in Jobs : Active(j)}
  <2>1. js \in SUBSET Jobs
    OBVIOUS
  <2>2. rows = [j \in Jobs |-> IF j \in js THEN SetStatus(jobs, j, "error")[j] ELSE jobs[j]]
    OBVIOUS
  <2> HIDE DEF js, rows
  <2> QED BY <1>1, <1>2, <2>1, <2>2, StatusSame
<1>4. \A j \in startup : rows[j] \in Row
  <2> SUFFICES ASSUME NEW j \in startup PROVE rows[j] \in Row
    OBVIOUS
  <2>1. j \in Jobs /\ jobs[j] \notin {None, Deleted}
    BY DEF Has, Exists
  <2> HIDE DEF rows, startup
  <2> QED BY <1>1, <1>3, <2>1 DEF SameSettings
<1>5. u = v
  <2> DEFINE read == [j \in startup |-> rows[j]]
  <2>1. u = [Queue(startup, "startup") EXCEPT !.rows = read]
    OBVIOUS
  <2>2. v = [kind |-> "queue", reason |-> "startup", todo |-> startup, job |-> None,
             rows |-> read, at |-> now]
    OBVIOUS
  <2> DEFINE old == [j \in startup |-> jobs[j]]
  <2>3. Queue(startup, "startup") = [kind |-> "queue", reason |-> "startup", todo |-> startup,
                                     job |-> None, rows |-> old, at |-> now]
    BY DEF Queue
  <2> HIDE DEF read, v, u, startup, rows, old
  <2> QED BY <2>1, <2>2, <2>3
<1> HIDE DEF u
<1>6. v \in QueueTask(startup) /\ v.todo \cup ({v.job} \ {None}) \subseteq startup /\ v.kind = "queue"
  <2> DEFINE read == [j \in startup |-> rows[j]]
  <2>1. read \in [startup -> Row]
    BY <1>4
  <2>2. v = [kind |-> "queue", reason |-> "startup", todo |-> startup, job |-> None,
             rows |-> read, at |-> now] /\ startup \subseteq Jobs
    OBVIOUS
  <2> HIDE DEF read, v, startup, rows
  <2> QED BY <1>2, <2>1, <2>2 DEF QueueTask
<1>7. TaskOK(u) /\ u.kind = "queue"
  <2> HIDE DEF v, startup
  <2>1. startup \in SUBSET Jobs
    BY DEF startup
  <2> QED BY <1>5, <1>6, <2>1 DEF TaskOK
<1>8. IsABag(tasks') /\ \A t \in DOMAIN tasks' : t = u
  <2> HIDE DEF rows, startup
  <2>1. CASE tasks' = EmptyBag
    BY <2>1 DEF EmptyBag, SetToBag, IsABag
  <2>2. CASE tasks' = SetToBag({u})
    BY <2>2 DEF SetToBag, IsABag
  <2> QED BY <1>1, <2>1, <2>2
<1> QED BY <1>3, <1>7, <1>8

\* A lost connection and a restart keep the types of what they touch.
LEMMA RestartTypes ==
    ASSUME CatalogTypes, AutoTypes, RestartApi, budget' \in Bounds
    PROVE  CatalogTypes' /\ AutoTypes'
<1>1. /\ conn' = 0 /\ registered' = FALSE /\ owned' = {} /\ toAgent' = <<>> /\ toHub' = <<>>
      /\ missed' = missed \cup wanted
      /\ UNCHANGED <<members, links, linkIds, defaults, now, made, watcherVars, runs, present, wanted>>
  BY DEF RestartApi
<1>2. AutoTypes'
  <2>1. toAgent' \in Seq(ToAgentMessage) /\ toHub' \in Seq(ToHub) /\ conn' \in 0..made'
    BY <1>1 DEF AutoTypes
  <2> QED BY <1>1, <2>1 DEF AutoTypes, watcherVars, RunOfJob
<1>3. jobs' \in Rows
  BY Restarts DEF SameSettings
<1>4. TasksOK'
  <2>1. TasksOK' <=> IsABag(tasks') /\ \A t \in DOMAIN tasks' : TaskOK(t)'
    BY DEF TasksOK, BagToSet
  <2>2. TasksOK' <=> IsABag(tasks') /\ \A t \in DOMAIN tasks' : TaskOK(t)
    BY <1>1 DEF TasksOK, BagToSet, TaskOK, WatchTask, ResendTask
  <2> QED BY <2>2, Restarts
<1> QED BY <1>1, <1>2, <1>3, <1>4 DEF CatalogTypes

\* So do the steps of users and of the world.
LEMMA WorldTypes ==
    ASSUME CatalogTypes, AutoTypes, World
    PROVE  CatalogTypes' /\ AutoTypes'
<1>1. ASSUME NEW j \in Jobs, RunRequest(j) PROVE CatalogTypes' /\ AutoTypes'
  <2>1. Begin(Queue({j}, "manual")) /\ Exists(j) /\ Spend("runs")
        /\ UNCHANGED <<jobs, members, links, linkIds, defaults, now, autoVars>>
    BY <1>1 DEF RunRequest
  <2>2. TaskOK(Queue({j}, "manual"))
    BY <2>1, QueueOK DEF CatalogTypes
  <2>3. TasksOK'
    BY <2>1, <2>2, TasksTyped DEF CatalogTypes, autoVars, netVars
  <2>4. CatalogTypes'
    BY <2>1, <2>3, Spends DEF CatalogTypes
  <2>5. AutoTypes'
    BY <2>1 DEF AutoTypes, autoVars, netVars, watcherVars, noticed, RunOfJob
  <2> QED BY <2>4, <2>5
<1>2. ASSUME NEW j \in Jobs, CancelRequest(j) PROVE CatalogTypes' /\ AutoTypes'
  <2> DEFINE m == [type |-> "cancel", job |-> j]
  <2>1. /\ jobs' = SetStatus(jobs, j, "cancelled") /\ Spend("runs")
        /\ toAgent' = Send(toAgent, m) \/ toAgent' = toAgent
        /\ missed' = Lost({j})
        /\ UNCHANGED <<members, links, linkIds, defaults, tasks, now, conn, made, registered, toHub, owned,
                       watcherVars, runs, present, wanted>>
    BY <1>2 DEF CancelRequest
  <2>2. m \in ToAgentMessage
    BY DEF ToAgentMessage, CancelMessage
  <2> HIDE DEF m
  <2>3. toAgent' \in Seq(ToAgentMessage)
    BY <2>1, <2>2, Sends DEF AutoTypes
  <2>4. missed' \subseteq Paths
    BY <2>1, LostTyped DEF CatalogTypes, AutoTypes
  <2>5. jobs' \in Rows
    BY <2>1, SetsStatus DEF CatalogTypes, Statuses
  <2>6. TasksOK'
    BY <2>1, TellOK, TasksTyped DEF CatalogTypes
  <2>7. CatalogTypes'
    BY <2>1, <2>5, <2>6, Spends DEF CatalogTypes
  <2>8. AutoTypes'
    BY <2>1, <2>3, <2>4 DEF AutoTypes, watcherVars, RunOfJob
  <2> QED BY <2>7, <2>8
<1>3. ASSUME NEW p \in Paths, Edit(p) PROVE CatalogTypes' /\ AutoTypes'
  <2>1. /\ Spend("edits") /\ timers' = timers \cup {j \in Jobs : watching[j] = p}
        /\ \E js : Noticed(p, js, "watch")
        /\ UNCHANGED <<jobs, members, links, linkIds, defaults, tasks, now, netVars, owned, watching,
                       monitored, available, connTimers, polling, runs, present>>
    BY <1>3 DEF Edit
  <2>2. wanted' \subseteq Paths /\ missed' \subseteq Paths
    BY <2>1 DEF Noticed, AutoTypes
  <2>3. p # None
    BY CatalogNone
  <2>4. AutoTypes'
    BY <2>1, <2>2, <2>3 DEF AutoTypes, netVars, RunOfJob
  <2>5. TasksOK'
    BY <2>1, TellOK, TasksTyped DEF CatalogTypes, netVars
  <2> QED BY <2>1, <2>4, <2>5, Spends DEF CatalogTypes
<1>4. ASSUME NEW p \in Paths, FolderMoves(p) PROVE CatalogTypes' /\ AutoTypes'
  <2>1. /\ Spend("folders") /\ present' \subseteq present \cup {p} /\ missed' \subseteq missed \cup {p}
        /\ UNCHANGED <<jobs, members, links, linkIds, defaults, tasks, now, netVars, owned, watcherVars,
                       runs, wanted>>
    BY <1>4 DEF FolderMoves
  <2>2. AutoTypes'
    BY <2>1 DEF AutoTypes, netVars, watcherVars, RunOfJob
  <2>3. TasksOK'
    BY <2>1, TellOK, TasksTyped DEF CatalogTypes, netVars
  <2> QED BY <2>1, <2>2, <2>3, Spends DEF CatalogTypes
<1>5. ASSUME Tick PROVE CatalogTypes' /\ AutoTypes'
  <2>1. /\ Spend("minutes") /\ now < MaxTime /\ now' = now + 1
        /\ UNCHANGED <<jobs, members, links, linkIds, defaults, tasks, autoVars>>
    BY <1>5 DEF Tick
  <2>2. now' \in Times
    BY <2>1, CatalogAssumption DEF CatalogTypes, Times
  <2>3. AutoTypes'
    BY <2>1 DEF AutoTypes, autoVars, netVars, watcherVars, noticed, RunOfJob
  <2>4. TasksOK'
    BY <2>1, TellOK, TasksTyped DEF CatalogTypes, autoVars, netVars
  <2> QED BY <2>1, <2>2, <2>3, <2>4, Spends DEF CatalogTypes
<1>6. ASSUME Disconnect, Spend("faults"), UNCHANGED <<members, links, linkIds, defaults, tasks, now, made,
                                                      present, wanted>>
      PROVE  /\ CatalogTypes'
             /\ conn' = 0 /\ registered' = FALSE /\ owned' = {} /\ toAgent' = <<>> /\ toHub' = <<>>
             /\ missed' \subseteq Paths
  <2> DEFINE failed == {j \in owned : Active(j)}
  <2>1. jobs' = [j \in Jobs |-> IF j \in failed THEN SetStatus(jobs, j, "error")[j] ELSE jobs[j]]
    BY <1>6 DEF Disconnect
  <2>2. failed \in SUBSET Jobs
    BY DEF AutoTypes
  <2> HIDE DEF failed
  <2>3. jobs' \in Rows
    BY <2>1, <2>2, StatusSame DEF CatalogTypes, SameSettings
  <2>4. TasksOK'
    BY <1>6, TellOK, TasksTyped DEF CatalogTypes
  <2>5. /\ conn' = 0 /\ registered' = FALSE /\ owned' = {} /\ toAgent' = <<>> /\ toHub' = <<>>
        /\ missed' = missed \cup wanted
    BY <1>6 DEF Disconnect
  <2> QED BY <1>6, <2>3, <2>4, <2>5, Spends DEF CatalogTypes, AutoTypes
<1>7. ASSUME ConnectionLost PROVE CatalogTypes' /\ AutoTypes'
  <2>1. Disconnect /\ Spend("faults") /\ UNCHANGED <<members, links, linkIds, defaults, tasks, now, made,
              watcherVars, runs, present, wanted>>
    BY <1>7 DEF ConnectionLost
  <2>2. AutoTypes'
    BY <1>6, <2>1 DEF AutoTypes, watcherVars, RunOfJob
  <2> QED BY <1>6, <2>1, <2>2
<1>8. ASSUME AgentDies PROVE CatalogTypes' /\ AutoTypes'
  <2>1. /\ Disconnect /\ Spend("faults")
        /\ UNCHANGED <<members, links, linkIds, defaults, tasks, now, made, present, wanted>>
        /\ watching' = [j \in Jobs |-> None] /\ timers' = {}
        /\ monitored' = [j \in Jobs |-> None] /\ connTimers' = [j \in Jobs |-> {}]
        /\ available' = [j \in Jobs |-> [p \in Paths |-> None]] /\ polling' = None
        /\ runs' = [j \in Jobs |-> None]
    BY <1>8 DEF AgentDies
  <2>2. AutoTypes'
    BY <1>6, <2>1 DEF AutoTypes, RunOfJob
  <2> QED BY <1>6, <2>1, <2>2
<1>9. ASSUME ApiDies PROVE CatalogTypes' /\ AutoTypes'
  <2>1. RestartApi /\ budget' \in Bounds
    BY <1>9, Spends DEF ApiDies, CatalogTypes
  <2> QED BY <2>1, RestartTypes
<1> QED BY <1>1, <1>2, <1>3, <1>4, <1>5, <1>7, <1>8, <1>9, CatalogSteps DEF World

\* Types hold of the beginnings.
LEMMA InitTypes == Init => CatalogTypes /\ AutoTypes
<1> SUFFICES ASSUME NEW c \in Cases, CatalogInit(c), AgentInit(c.start)
    PROVE  CatalogTypes /\ AutoTypes
  BY DEF Init
<1>1. /\ c.jobs \in [Jobs -> Row \cup {None}] /\ c.members \in SUBSET Devices
      /\ c.links \in [Templates -> Paths \cup {None}]
      /\ c.defaults \in [Templates -> Settings \cup {None}]
      /\ c.budget \in Bounds
  BY CatalogAssumption
<1>2. CatalogTypes
  <2>1. TasksOK
    BY DEF CatalogInit, TasksOK, EmptyBag, SetToBag, IsABag, BagToSet
  <2>2. now \in Times
    BY CatalogAssumption DEF CatalogInit, Times
  <2> QED BY <1>1, <2>1, <2>2 DEF CatalogTypes, CatalogInit, Rows
<1>3. ASSUME NEW j \in Jobs, NEW trigger PROVE LocalPath(jobs, j, trigger) \in Paths \cup {None}
  BY <1>1 DEF CatalogInit, LocalPath, Row
<1>4. conn \in 0..made /\ made \in Nat
  BY AutomationAssumption DEF AgentInit
<1>5. runs \in [Jobs -> RunOfJob \cup {None}] /\ available \in [Jobs -> [Paths -> BOOLEAN \cup {None}]]
  BY DEF AgentInit
<1>6. watching \in [Jobs -> Paths \cup {None}] /\ monitored \in [Jobs -> Paths \cup {None}]
  BY <1>3 DEF AgentInit
<1>7. AutoTypes
  BY <1>4, <1>5, <1>6 DEF AgentInit, AutoTypes
<1> QED BY <1>2, <1>7

\* No step breaks a type.
LEMMA NextTypes ==
    ASSUME CatalogTypes, AutoTypes, [Next]_vars
    PROVE  CatalogTypes' /\ AutoTypes'
<1>1. ASSUME UNCHANGED vars PROVE CatalogTypes' /\ AutoTypes'
  <2>1. TasksOK'
    BY <1>1, TellOK, TasksTyped DEF CatalogTypes, vars, catalogVars, autoVars, netVars
  <2>2. CatalogTypes'
    BY <1>1, <2>1 DEF CatalogTypes, vars, catalogVars
  <2>3. AutoTypes'
    BY <1>1 DEF AutoTypes, vars, autoVars, netVars, watcherVars, noticed, RunOfJob
  <2> QED BY <2>2, <2>3
<1>2. ASSUME NEW t, InsertFails(t) PROVE CatalogTypes' /\ AutoTypes'
  <2>1. RestartApi /\ budget' = budget
    BY <1>2 DEF InsertFails
  <2> QED BY <2>1, RestartTypes DEF CatalogTypes
<1>3. ASSUME LogFails PROVE CatalogTypes' /\ AutoTypes'
  <2>1. RestartApi /\ budget' = budget
    BY <1>3 DEF LogFails
  <2> QED BY <2>1, RestartTypes DEF CatalogTypes
<1> QED BY <1>1, <1>2, <1>3, CatalogSteps, HubTypes, AgentTypes, WorldTypes DEF Next, Progress, Failing

\* Rows, handlers, messages, watchers and runs have their types, in every state.
THEOREM AutomationTypeCorrect == Spec => []AutomationTypeOK
<1>1. Init => AutomationTypeOK
  BY InitTypes, TypesSplit
<1>2. AutomationTypeOK /\ [Next]_vars => AutomationTypeOK'
  <2> SUFFICES ASSUME AutomationTypeOK, [Next]_vars PROVE AutomationTypeOK'
    OBVIOUS
  <2>1. CatalogTypes' /\ AutoTypes'
    BY TypesSplit, NextTypes
  <2>2. AutomationTypeOK' <=> CatalogTypes' /\ AutoTypes'
    BY DEF AutomationTypeOK, CatalogTypes, AutoTypes, TasksOK, Rows, ToAgentMessage, RunOfJob
  <2> QED BY <2>1, <2>2
<1> QED BY <1>1, <1>2, PTL DEF Spec

-----------------------------------------------------------------------------
(* A collection is served. *)

\* What most steps leave of the collection: no job of another pair, none gone but by the
\* user's hand, no other handlers, no more members or links.
PairsStay ==
    /\ \A j \in Jobs : Exists(j) =>
          \/ jobs'[j] \in {None, Deleted} /\ jobs[j].pair \in unassigned' \cup {None}
          \/ /\ jobs'[j] \notin {None, Deleted}
             /\ jobs'[j].pair = jobs[j].pair /\ jobs'[j].device = jobs[j].device
    /\ \A j \in Jobs : ~Exists(j) /\ jobs'[j] \notin {None, Deleted} => jobs'[j].pair = None
    /\ unassigned \subseteq unassigned' /\ kept' = kept /\ overlapped' = overlapped

AssignsStay ==
    /\ \A t \in DOMAIN tasks' : t.kind = "assign" => t \in DOMAIN tasks /\ tasks'[t] = tasks[t]
    /\ \/ interrupted'
       \/ ~interrupted /\ \A t \in DOMAIN tasks : t.kind = "assign" => t \in DOMAIN tasks'

LinksStay ==
    /\ LinksFit' /\ members' \in {members, None}
    /\ \A u \in Templates : links'[u] # None => links[u] # None

\* Then fewer devices are used, and fewer pairs are unserved.
LEMMA FewerUnserved ==
    ASSUME PairsStay, LinksStay, members' = members, members \subseteq Devices
    PROVE  Unserved' \subseteq Unserved /\ UsedDevices' \subseteq UsedDevices
<1>1. UsedDevices' \subseteq UsedDevices
  BY DEF UsedDevices, PairsStay, Exists
<1>2. ASSUME NEW p \in Unserved' PROVE p \in Unserved
  <2>1. p \in Templates \X members /\ p[1] \in Templates /\ links'[p[1]] # None
        /\ p \notin unassigned' /\ \A j \in Jobs : jobs'[j] \in {None, Deleted} \/ jobs'[j].pair # p
    BY DEF Unserved, Found, Exists
  <2>2. links[p[1]] # None /\ p \notin unassigned
    BY <2>1 DEF LinksStay, PairsStay
  <2>3. p # None
    BY <2>1, CatalogNone DEF Pairs
  <2>4. ~Found(p)
    BY <2>1, <2>3 DEF Found, PairsStay, Exists
  <2> QED BY <2>1, <2>2, <2>4 DEF Unserved
<1> QED BY <1>1, <1>2

\* And the collection stays served.
LEMMA KeepsServed ==
    ASSUME CatalogTypes, ServedInv, PairsStay, AssignsStay, LinksStay
    PROVE  ServedInv'
<1> USE DEF ServedInv, AtWork, Assigning, BagToSet
<1>1. RowsFit'
  BY DEF RowsFit, RowFits, PairsStay, AssignsStay, Exists
<1>2. OneAssign'
  BY DEF OneAssign, PairsStay, AssignsStay
<1>3. OneJobEach'
  <2> SUFFICES ASSUME ~overlapped' PROVE OneJobEach'
    BY DEF OneJobEach
  <2>1. ~overlapped
    BY DEF PairsStay
  <2>2. ASSUME NEW t \in DOMAIN tasks', t.kind = "assign", t.draft # None
        PROVE  ~Found(t.draft.pair)'
    <3>1. t \in AtWork(Assigning)
      BY <2>2 DEF AssignsStay
    <3>2. ~Found(t.draft.pair) /\ t.draft.pair # None
      BY <2>1, <2>2, <3>1 DEF OneJobEach, RowsFit
    <3> QED BY <3>2 DEF Found, PairsStay, Exists
  <2>3. ASSUME NEW i \in Jobs, NEW j \in Jobs, i # j,
               jobs'[i] \notin {None, Deleted}, jobs'[j] \notin {None, Deleted}
        PROVE  jobs'[i].pair = None \/ jobs'[i].pair # jobs'[j].pair
    BY <2>1, <2>3 DEF OneJobEach, PairsStay, Exists
  <2> QED BY <2>2, <2>3 DEF OneJobEach, Exists
<1>4. ASSUME Undisturbed'
      PROVE  /\ Undisturbed /\ members' = members /\ members \subseteq Devices
             /\ \A t \in DOMAIN tasks : t.kind = "assign" => t \in DOMAIN tasks'
  BY <1>4 DEF Undisturbed, PairsStay, AssignsStay, LinksStay, CatalogTypes
<1>5. Assignments'
  <2> SUFFICES ASSUME Undisturbed', NEW t \in DOMAIN tasks', t.kind = "assign" PROVE Assigned(t)'
    BY DEF Assignments
  <2>1. t \in AtWork(Assigning)
    BY DEF AssignsStay
  <2>2. Assigned(t)
    BY <1>4, <2>1 DEF Assignments
  <2>3. Unserved' \subseteq Unserved /\ UsedDevices' \subseteq UsedDevices
    BY <1>4, FewerUnserved
  <2>4. members' = members /\ kept' = kept
    BY <1>4 DEF PairsStay
  <2> QED BY <2>2, <2>3, <2>4 DEF Assigned, Dropped
<1>6. Idle'
  <2> SUFFICES ASSUME Undisturbed', \A t \in DOMAIN tasks' : t.kind # "assign"
      PROVE Unserved' = {} /\ UsedDevices' \subseteq members' \cup kept'
    BY DEF Idle
  <2>1. Unserved' \subseteq Unserved /\ UsedDevices' \subseteq UsedDevices
    BY <1>4, FewerUnserved
  <2>2. Undisturbed /\ AtWork(Assigning) = {} /\ members' = members /\ kept' = kept
    BY <1>4 DEF PairsStay
  <2> QED BY <2>1, <2>2 DEF Idle
<1> QED BY <1>1, <1>2, <1>3, <1>5, <1>6 DEF LinksStay

\* When nothing of it is touched.
LEMMA CatalogStays ==
    ASSUME CatalogTypes, LinksFit, SameSettings,
           UNCHANGED <<members, links, linkIds, defaults, overlapped, unassigned, kept>>
    PROVE  PairsStay /\ LinksStay
<1>1. PairsStay
  BY CatalogNone DEF PairsStay, SameSettings, Exists
<1>2. LinksStay
  BY DEF LinksStay, LinksFit
<1> QED BY <1>1, <1>2

\* A step of another handler leaves those that give jobs to devices alone.
LEMMA OtherHandler ==
    ASSUME TasksOK, interrupted' = interrupted, NEW t, NEW u,
           t.kind # "assign", u.kind # "assign",
           Begin(u) \/ Continue(t, u) \/ End(t) \/ UNCHANGED tasks
    PROVE  AssignsStay
<1>1. IsABag(tasks)
  BY DEF TasksOK
<1>2. CASE Begin(u)
  <2>1. /\ DOMAIN tasks' = DOMAIN tasks \cup {u}
        /\ \A s \in DOMAIN tasks \ {u} : tasks'[s] = tasks[s]
    BY <1>1, <1>2, Begins
  <2> QED BY <2>1 DEF AssignsStay
<1>3. CASE Continue(t, u)
  <2>1. /\ DOMAIN tasks \ {t} \subseteq DOMAIN tasks'
        /\ DOMAIN tasks' \subseteq DOMAIN tasks \cup {u}
        /\ \A s \in DOMAIN tasks \ {t, u} : tasks'[s] = tasks[s]
    BY <1>1, <1>3, Continues
  <2> QED BY <2>1 DEF AssignsStay
<1>4. CASE End(t)
  <2>1. /\ DOMAIN tasks \ {t} \subseteq DOMAIN tasks' /\ DOMAIN tasks' \subseteq DOMAIN tasks
        /\ \A s \in DOMAIN tasks \ {t} : tasks'[s] = tasks[s]
    BY <1>1, <1>4, Ends
  <2> QED BY <2>1 DEF AssignsStay
<1>5. CASE UNCHANGED tasks
  BY <1>5 DEF AssignsStay
<1> QED BY <1>2, <1>3, <1>4, <1>5

\* A request for the collection: unless another one is at work, it finds a collection that is
\* served, and is the only one.
LEMMA AssignBegins ==
    ASSUME CatalogTypes, ServedInv, NEW t, t.kind = "assign", t.draft = None, BeginAssign(t),
           UNCHANGED <<jobs, members, links, linkIds, defaults, interrupted, unassigned>>,
           Undisturbed' /\ Unserved = {} /\ UsedDevices \subseteq members \cup kept => Assigned(t)'
    PROVE  ServedInv'
<1>1. /\ IsABag(tasks') /\ DOMAIN tasks' = DOMAIN tasks \cup {t}
      /\ \A s \in DOMAIN tasks \ {t} : tasks'[s] = tasks[s]
      /\ t \notin DOMAIN tasks => tasks'[t] = 1
  BY Begins DEF BeginAssign, CatalogTypes, TasksOK
<1>2. overlapped' = (overlapped \/ \E s \in DOMAIN tasks : s.kind = "assign")
  BY DEF BeginAssign, AtWork, Assigning, BagToSet
<1> USE DEF ServedInv, AtWork, Assigning, BagToSet
<1>3. RowsFit'
  BY <1>1 DEF RowsFit, RowFits, Exists
<1>4. OneAssign'
  BY <1>1, <1>2 DEF OneAssign
<1>5. OneJobEach'
  BY <1>1, <1>2 DEF OneJobEach, Found, Exists
<1>6. Assignments'
  <2> SUFFICES ASSUME Undisturbed', NEW s \in DOMAIN tasks', s.kind = "assign" PROVE Assigned(s)'
    BY DEF Assignments
  <2>1. Undisturbed /\ \A r \in DOMAIN tasks : r.kind # "assign"
    BY <1>2 DEF Undisturbed
  <2>2. Unserved = {} /\ UsedDevices \subseteq members \cup kept
    BY <2>1 DEF Idle
  <2>3. s = t
    BY <1>1, <2>1
  <2> QED BY <2>2, <2>3
<1>7. Idle'
  BY <1>1 DEF Idle
<1> QED BY <1>3, <1>4, <1>5, <1>6, <1>7 DEF LinksFit

\* The requests keep the collection served.
LEMMA RequestsServe ==
    ASSUME CatalogTypes, ServedInv, Requests
    PROVE  ServedInv'
<1>1. TasksOK /\ LinksFit /\ Tell.kind # "assign"
  BY TellOK DEF CatalogTypes, ServedInv
<1>2. ASSUME NEW p \in Paths, NEW a \in budget.offers, PostJob(p, a) PROVE ServedInv'
  <2>1. a \in Settings
    BY DEF CatalogTypes, Bounds
  <2> DEFINE row == NewRow(None, None, p, a)
  <2>2. row \in Row /\ row.pair = None
    <3>1. now \in Times
      BY DEF CatalogTypes
    <3> QED BY <2>1, <3>1, NewRowTyped
  <2>3. /\ jobs' = [jobs EXCEPT ![NewId] = row] /\ Unused # {} /\ Begin(Tell)
        /\ UNCHANGED <<members, links, linkIds, defaults, catalogHistory>>
    BY <1>2 DEF PostJob
  <2> HIDE DEF row
  <2>4. NewId \in Jobs /\ jobs[NewId] = None
    BY <2>3, NewIdTyped
  <2>5. AssignsStay
    BY <1>1, <2>3, OtherHandler DEF catalogHistory
  <2>6. PairsStay
    BY <2>2, <2>3, <2>4 DEF PairsStay, Exists, CatalogTypes, Rows, catalogHistory
  <2>7. LinksStay
    BY <1>1, <2>3 DEF LinksStay, LinksFit
  <2> QED BY <2>5, <2>6, <2>7, KeepsServed
<1>3. ASSUME NEW j \in Jobs, NEW patch, PatchJob(j, patch) PROVE ServedInv'
  <2>1. Begin(Update({j}, patch, TRUE)) /\ UNCHANGED <<jobs, members, links, linkIds, defaults, catalogHistory>>
    BY <1>3 DEF PatchJob
  <2>2. Update({j}, patch, TRUE).kind # "assign"
    BY DEF Update
  <2>3. AssignsStay
    BY <1>1, <2>1, <2>2, OtherHandler DEF catalogHistory
  <2>4. SameSettings
    BY <2>1, StatusSame DEF CatalogTypes
  <2> QED BY <1>1, <2>1, <2>3, <2>4, CatalogStays, KeepsServed DEF catalogHistory
<1>4. ASSUME NEW j \in Jobs, DeleteJob(j) PROVE ServedInv'
  <2>1. /\ Exists(j) /\ jobs' = [jobs EXCEPT ![j] = Deleted] /\ Begin(Tell)
        /\ unassigned' = unassigned \cup ({jobs[j].pair} \ {None})
        /\ UNCHANGED <<members, links, linkIds, defaults, overlapped, interrupted, kept>>
    BY <1>4 DEF DeleteJob
  <2>2. AssignsStay
    BY <1>1, <2>1, OtherHandler
  <2>3. PairsStay
    BY <2>1 DEF PairsStay, Exists, CatalogTypes, Rows
  <2>4. LinksStay
    BY <1>1, <2>1 DEF LinksStay, LinksFit
  <2> QED BY <2>2, <2>3, <2>4, KeepsServed
<1>5. ASSUME NEW ds \in SUBSET Devices, NEW drop \in BOOLEAN, PatchCollection(ds, drop)
      PROVE  ServedInv'
  <2>0. PICK t : t = Assign("members", ds \ members, links, None, ds,
                            [devices |-> members \ ds, drop |-> drop])
    OBVIOUS
  <2>1. /\ BeginAssign(t) /\ members # None
        /\ kept' = IF drop THEN kept \ ds ELSE (kept \cup members) \ ds
        /\ UNCHANGED <<jobs, members, links, linkIds, defaults, interrupted, unassigned>>
    BY <1>5, <2>0 DEF PatchCollection
  <2>2. /\ t.kind = "assign" /\ t.draft = None /\ t.step = "members" /\ t.next = ds
        /\ t.todo = ds \ members /\ t.removed.devices = members \ ds /\ t.removed.drop = drop
    BY <2>0 DEF Assign
  <2>3. Unserved' = Unserved /\ UsedDevices' = UsedDevices
    BY <2>1 DEF Unserved, UsedDevices, Found, Exists
  <2>4. ASSUME Unserved = {}, UsedDevices \subseteq members \cup kept PROVE Assigned(t)'
    <3>1. UsedDevices' \subseteq ds \cup kept' \cup (IF drop THEN members \ ds ELSE {})
      BY <2>1, <2>3, <2>4
    <3> QED BY <2>1, <2>2, <2>3, <2>4, <3>1 DEF Assigned, Dropped
  <2> QED BY <2>1, <2>2, <2>4, AssignBegins
<1>6. ASSUME NEW t \in Templates, PropagateTemplate(t) PROVE ServedInv'
  <2> DEFINE u == Update({j \in Jobs : Exists(j) /\ jobs[j].pair # None /\ jobs[j].pair[1] = t},
                         [auto |-> defaults[t]], FALSE)
  <2>1. Begin(u) /\ UNCHANGED <<jobs, members, links, linkIds, defaults, catalogHistory>>
    BY <1>6 DEF PropagateTemplate
  <2>2. u.kind # "assign"
    BY DEF Update
  <2> HIDE DEF u
  <2>3. AssignsStay
    BY <1>1, <2>1, <2>2, OtherHandler DEF catalogHistory
  <2>4. SameSettings
    BY <2>1, StatusSame DEF CatalogTypes
  <2> QED BY <1>1, <2>1, <2>3, <2>4, CatalogStays, KeepsServed DEF catalogHistory
<1>7. ASSUME UNCHANGED <<jobs, tasks, catalogHistory>>, LinksStay PROVE ServedInv'
  <2>1. AssignsStay
    BY <1>1, <1>7, OtherHandler DEF catalogHistory
  <2>2. PairsStay
    BY <1>7 DEF PairsStay, catalogHistory, Exists
  <2> QED BY <1>7, <2>1, <2>2, KeepsServed
<1>8. ASSUME NEW t \in Templates, Unapply(t) PROVE ServedInv'
  <2>1. LinksStay
    BY <1>1, <1>8 DEF Unapply, LinksStay, LinksFit, CatalogTypes
  <2> QED BY <1>7, <1>8, <2>1 DEF Unapply
<1>9. ASSUME NEW t \in Templates, DeleteTemplate(t) PROVE ServedInv'
  <2>1. LinksStay
    BY <1>1, <1>9 DEF DeleteTemplate, LinksStay, LinksFit, CatalogTypes
  <2> QED BY <1>7, <1>9, <2>1 DEF DeleteTemplate
<1>10. ASSUME NEW t \in Templates, NEW a \in budget.offers, PatchTemplate(t, a) PROVE ServedInv'
  <2>1. a # None
    BY CatalogNone DEF CatalogTypes, Bounds
  <2>2. LinksStay
    BY <1>1, <1>10, <2>1 DEF PatchTemplate, LinksStay, LinksFit, CatalogTypes
  <2> QED BY <1>7, <1>10, <2>2 DEF PatchTemplate
<1>11. ASSUME DeleteCollection PROVE ServedInv'
  <2>1. LinksStay
    BY <1>1, <1>11 DEF DeleteCollection, LinksStay, LinksFit, CatalogTypes
  <2> QED BY <1>7, <1>11, <2>1 DEF DeleteCollection
<1>12. ASSUME NEW t \in Templates, NEW p \in Paths, ApplyTemplate(t, p) PROVE ServedInv'
  <2>0. PICK u : u = Assign("link", {t} \X members, [v \in Templates |-> p],
                            defaults[t], t, [devices |-> {}, drop |-> FALSE])
    OBVIOUS
  <2>1. BeginAssign(u) /\ UNCHANGED <<jobs, members, links, linkIds, defaults, interrupted, unassigned, kept>>
    BY <1>12, <2>0 DEF ApplyTemplate
  <2>2. /\ u.kind = "assign" /\ u.draft = None /\ u.step = "link" /\ u.next = t
        /\ u.todo = {t} \X members /\ u.removed.devices = {} /\ u.removed.drop = FALSE
    BY <2>0 DEF Assign
  <2>3. Unserved' = Unserved /\ UsedDevices' = UsedDevices
    BY <2>1 DEF Unserved, UsedDevices, Found, Exists
  <2>4. ASSUME Unserved = {}, UsedDevices \subseteq members \cup kept PROVE Assigned(u)'
    BY <2>1, <2>2, <2>3, <2>4 DEF Assigned, Dropped
  <2> QED BY <2>1, <2>2, <2>4, AssignBegins
<1> QED BY <1>2, <1>3, <1>4, <1>5, <1>6, <1>8, <1>9, <1>10, <1>11, <1>12 DEF Requests

\* No pair has two jobs.
OnePair == \A i, j \in Jobs : Exists(i) /\ Exists(j) /\ i # j
                              => jobs[i].pair = None \/ jobs[i].pair # jobs[j].pair

\* A handler that gives jobs to devices goes on: what it has to show.
LEMMA AssignGoesOn ==
    ASSUME CatalogTypes, ServedInv, NEW t \in AtWork(Assigning), NEW u, u.kind = "assign",
           Continue(t, u), overlapped' = overlapped, interrupted' = interrupted,
           \A j \in Jobs : jobs'[j] \notin {None, Deleted} => RowFits(jobs'[j]),
           LinksFit', members' # None => members # None,
           u.draft # None => RowFits(u.draft) /\ u.draft.pair # None,
           ~overlapped => /\ OnePair'
                          /\ u.draft # None => \A j \in Jobs : \/ jobs'[j] \in {None, Deleted}
                                                               \/ jobs'[j].pair # u.draft.pair,
           Undisturbed /\ Assigned(t) => Assigned(u)'
    PROVE  ServedInv'
<1>1. /\ u \in DOMAIN tasks' /\ DOMAIN tasks' \subseteq DOMAIN tasks \cup {u}
      /\ t \in DOMAIN tasks /\ tasks[t] = 1 /\ u # t => t \notin DOMAIN tasks'
      /\ u \notin DOMAIN tasks => tasks'[u] = 1
      /\ t \in DOMAIN tasks /\ tasks[t] = 1 /\ u = t => tasks'[u] = 1
  BY Continues DEF CatalogTypes, TasksOK
<1>2. t \in DOMAIN tasks /\ t.kind = "assign"
  BY DEF AtWork, BagToSet, Assigning
<1>3. ~overlapped => /\ \A s \in DOMAIN tasks : s.kind = "assign" => s = t
                     /\ tasks[t] = 1
  BY <1>2 DEF ServedInv, OneAssign, AtWork, BagToSet, Assigning
<1>4. ~overlapped => /\ \A s \in DOMAIN tasks' : s.kind = "assign" => s = u
                     /\ tasks'[u] = 1
  BY <1>1, <1>2, <1>3
<1> USE DEF AtWork, Assigning, BagToSet
<1>5. RowsFit'
  BY <1>1 DEF ServedInv, RowsFit, Exists
<1>6. OneAssign'
  BY <1>4 DEF OneAssign
<1>7. OneJobEach'
  BY <1>4 DEF OneJobEach, OnePair, Found, Exists
<1>8. Assignments'
  <2> SUFFICES ASSUME Undisturbed', NEW s \in DOMAIN tasks', s.kind = "assign" PROVE Assigned(s)'
    BY DEF Assignments
  <2>1. Undisturbed
    BY DEF Undisturbed
  <2>2. Assigned(t) /\ s = u
    BY <1>2, <1>4, <2>1 DEF ServedInv, Assignments, Undisturbed
  <2> QED BY <2>1, <2>2
<1>9. Idle'
  BY <1>1 DEF Idle
<1> QED BY <1>5, <1>6, <1>7, <1>8, <1>9 DEF ServedInv

\* And when it ends.
LEMMA AssignEnds ==
    ASSUME CatalogTypes, ServedInv, NEW t \in AtWork(Assigning),
           End(t), overlapped' = overlapped, interrupted' = interrupted,
           \A j \in Jobs : jobs'[j] \notin {None, Deleted} => RowFits(jobs'[j]),
           LinksFit', members' # None => members # None, ~overlapped => OnePair',
           Undisturbed /\ Assigned(t) /\ Undisturbed'
              => Unserved' = {} /\ UsedDevices' \subseteq members' \cup kept'
    PROVE  ServedInv'
<1>1. /\ DOMAIN tasks' \subseteq DOMAIN tasks
      /\ t \in DOMAIN tasks /\ tasks[t] = 1 => t \notin DOMAIN tasks'
  BY Ends DEF CatalogTypes, TasksOK
<1>2. t \in DOMAIN tasks /\ t.kind = "assign"
  BY DEF AtWork, BagToSet, Assigning
<1>3. ~overlapped => \A s \in DOMAIN tasks' : s.kind # "assign"
  BY <1>1, <1>2 DEF ServedInv, OneAssign, AtWork, BagToSet, Assigning
<1> USE DEF AtWork, Assigning, BagToSet
<1>4. RowsFit'
  BY <1>1 DEF ServedInv, RowsFit, Exists
<1>5. OneAssign'
  BY <1>3 DEF OneAssign
<1>6. OneJobEach'
  BY <1>3 DEF OneJobEach, OnePair, Exists
<1>7. Assignments'
  BY <1>3 DEF Assignments, Undisturbed
<1>8. Idle'
  <2> SUFFICES ASSUME Undisturbed'
      PROVE Unserved' = {} /\ UsedDevices' \subseteq members' \cup kept'
    BY DEF Idle
  <2>1. Undisturbed
    BY DEF Undisturbed
  <2>2. Assigned(t)
    BY <1>2, <2>1 DEF ServedInv, Assignments
  <2> QED BY <2>1, <2>2
<1> QED BY <1>4, <1>5, <1>6, <1>7, <1>8 DEF ServedInv

\* While no job is written.
LEMMA AssignReads ==
    ASSUME CatalogTypes, ServedInv, NEW t \in AtWork(Assigning), UNCHANGED jobs,
           overlapped' = overlapped, interrupted' = interrupted, LinksFit',
           members' # None => members # None,
           \/ /\ End(t)
              /\ Undisturbed /\ Assigned(t) /\ Undisturbed'
                    => Unserved' = {} /\ UsedDevices' \subseteq members' \cup kept'
           \/ \E u : /\ u.kind = "assign" /\ Continue(t, u)
                     /\ \/ u.draft \in {None, t.draft}
                        \/ RowFits(u.draft) /\ u.draft.pair # None /\ ~Found(u.draft.pair)
                     /\ Undisturbed /\ Assigned(t) => Assigned(u)'
    PROVE  ServedInv'
<1>1. \A j \in Jobs : jobs'[j] \notin {None, Deleted} => RowFits(jobs'[j])
  BY DEF ServedInv, RowsFit, Exists
<1>2. ~overlapped => OnePair'
  BY DEF ServedInv, OneJobEach, OnePair, Exists
<1>3. ASSUME NEW u, u.kind = "assign", Continue(t, u),
             \/ u.draft \in {None, t.draft}
             \/ RowFits(u.draft) /\ u.draft.pair # None /\ ~Found(u.draft.pair),
             Undisturbed /\ Assigned(t) => Assigned(u)'
      PROVE  ServedInv'
  <2>1. u.draft # None => RowFits(u.draft) /\ u.draft.pair # None
    BY <1>3 DEF ServedInv, RowsFit
  <2>2. ~overlapped /\ u.draft # None => ~Found(u.draft.pair)
    BY <1>3 DEF ServedInv, OneJobEach
  <2>3. ~overlapped /\ u.draft # None => \A j \in Jobs : \/ jobs'[j] \in {None, Deleted}
                                                         \/ jobs'[j].pair # u.draft.pair
    BY <2>2 DEF Found, Exists
  <2> QED BY <1>1, <1>2, <1>3, <2>1, <2>3, AssignGoesOn
<1>4. CASE End(t) /\ (Undisturbed /\ Assigned(t) /\ Undisturbed'
                    => Unserved' = {} /\ UsedDevices' \subseteq members' \cup kept')
  BY <1>1, <1>2, <1>4, AssignEnds
<1> QED BY <1>3, <1>4

\* What is known of a handler that gives jobs to devices.
LEMMA Assigner ==
    ASSUME CatalogTypes, NEW t \in AtWork(Assigning)
    PROVE  t \in AssignTask /\ AssignOK(t) /\ t.kind = "assign"
BY Handler DEF CatalogTypes, Assigning

\* What the handlers do keeps the collection served.
LEMMA HandlersServe ==
    ASSUME CatalogTypes, ServedInv, Handlers
    PROVE  ServedInv'
<1>1. TasksOK /\ LinksFit /\ Tell.kind # "assign"
  BY TellOK DEF CatalogTypes, ServedInv
<1>2. ASSUME UNCHANGED <<members, links, linkIds, defaults, overlapped, interrupted, unassigned, kept>>,
             SameSettings, NEW t \in AtWork({"update"}), NEW u, u.kind # "assign",
             Continue(t, u) \/ End(t)
      PROVE  ServedInv'
  <2>1. t.kind # "assign"
    BY DEF AtWork
  <2>2. AssignsStay
    BY <1>1, <1>2, <2>1, OtherHandler
  <2> QED BY <1>1, <1>2, <2>2, CatalogStays, KeepsServed
<1>3. ASSUME NEW t, UpdateReads(t) PROVE ServedInv'
  <2>1. /\ t \in AtWork({"update"})
        /\ UNCHANGED <<jobs, members, links, linkIds, defaults, overlapped, interrupted, unassigned, kept>>
    BY <1>3 DEF UpdateReads, catalogHistory
  <2>2. PICK j \in t.todo : \/ Continue(t, [t EXCEPT !.job = j, !.row = jobs[j]])
                            \/ Continue(t, [t EXCEPT !.todo = @ \ {j}])
                            \/ End(t)
    BY <1>3 DEF UpdateReads
  <2>3. t \in UpdateTask
    BY <1>1, <2>1, Handler
  <2>4. PICK u : u \in {[t EXCEPT !.job = j, !.row = jobs[j]], [t EXCEPT !.todo = @ \ {j}]}
                 /\ (Continue(t, u) \/ End(t))
    BY <2>2
  <2>5. u.kind # "assign"
    BY <2>3, <2>4 DEF UpdateTask
  <2>6. SameSettings
    BY <2>1, StatusSame DEF CatalogTypes
  <2> QED BY <1>2, <2>1, <2>4, <2>5, <2>6
<1>4. ASSUME NEW t, UpdateWrites(t) PROVE ServedInv'
  <2> DEFINE m == Merged(t.row, t.patch)
  <2>1. /\ t \in AtWork({"update"})
        /\ UNCHANGED <<members, links, linkIds, defaults, overlapped, interrupted, unassigned, kept>>
        /\ Continue(t, [t EXCEPT !.job = None, !.row = None, !.todo = @ \ {t.job}])
        /\ jobs' = IF Exists(t.job)
                   THEN [jobs EXCEPT ![t.job].path = m.path, ![t.job].auto = m.auto] ELSE jobs
    BY <1>4 DEF UpdateWrites
  <2> HIDE DEF m
  <2>2. t \in UpdateTask
    BY <1>1, <2>1, Handler
  <2>3. PICK u : u = [t EXCEPT !.job = None, !.row = None, !.todo = @ \ {t.job}]
    OBVIOUS
  <2>4. u.kind # "assign" /\ Continue(t, u)
    BY <2>1, <2>2, <2>3 DEF UpdateTask
  <2>5. AssignsStay
    <3>1. t.kind # "assign"
      BY <2>1 DEF AtWork
    <3> QED BY <1>1, <2>1, <2>4, <3>1, OtherHandler
  <2>6. PairsStay
    <3>1. jobs \in Rows
      BY DEF CatalogTypes
    <3>2. CASE Exists(t.job) /\ t.job \in Jobs
      <4> DEFINE row == [jobs[t.job] EXCEPT !.path = m.path, !.auto = m.auto]
      <4>1. jobs[t.job] \in Row
        BY <3>1, <3>2, ExistsRow
      <4>2. jobs' = [jobs EXCEPT ![t.job] = row]
        BY <2>1, <3>1, <3>2, <4>1 DEF Rows, Row
      <4>3. row.pair = jobs[t.job].pair /\ row.device = jobs[t.job].device
            /\ DOMAIN row = {"pair", "device", "path", "auto", "status", "lastRun", "createdAt"}
        BY <4>1 DEF Row
      <4>4. row \notin {None, Deleted}
        <5>1. t.row \in Row /\ t.patch \in [path : Paths] \cup [auto : Settings]
          <6>1. t.job # None
            BY <1>4 DEF UpdateWrites
          <6> QED BY <1>1, <2>1, <2>2, <6>1, Handler DEF UpdateTask, UpdateOK
        <5>2. m.path \in Paths /\ m.auto \in Settings
          BY <5>1 DEF m, Merged, Row
        <5>3. row \in Row
          BY <4>1, <5>2 DEF Row
        <5> QED BY <5>3, CatalogNone
      <4> HIDE DEF row
      <4> QED BY <2>1, <3>1, <3>2, <4>2, <4>3, <4>4 DEF PairsStay, Rows, Exists
    <3>3. CASE ~ Exists(t.job)
      BY <2>1, <3>3 DEF PairsStay, Exists
    <3>4. t.job \in Jobs
      <4>1. t.job # None
        BY <1>4 DEF UpdateWrites
      <4> QED BY <2>2, <4>1 DEF UpdateTask
    <3> QED BY <3>2, <3>3, <3>4
  <2>7. LinksStay
    BY <1>1, <2>1 DEF LinksStay, LinksFit
  <2> QED BY <2>5, <2>6, <2>7, KeepsServed
<1>5. ASSUME NEW t, UpdateEnds(t) PROVE ServedInv'
  <2>1. /\ t \in AtWork({"update"}) /\ (Continue(t, Tell) \/ End(t))
        /\ UNCHANGED <<jobs, members, links, linkIds, defaults, overlapped, interrupted, unassigned, kept>>
    BY <1>5 DEF UpdateEnds, catalogHistory
  <2>2. SameSettings
    BY <2>1, StatusSame DEF CatalogTypes
  <2> QED BY <1>1, <1>2, <2>1, <2>2
<1>6. ASSUME NEW t, WriteMembers(t) PROVE ServedInv'
  <2>1. t \in AtWork(Assigning) /\ t.step = "members"
        /\ UNCHANGED <<jobs, links, linkIds, defaults, overlapped, interrupted, unassigned, kept>>
    BY <1>6 DEF WriteMembers, catalogHistory
  <2>2. t \in AssignTask
    BY <2>1, Assigner
  <2>3. members' # None => members # None
    BY <1>6 DEF WriteMembers
  <2>4. LinksFit'
    BY <1>1, <2>1 DEF LinksFit
  <2>5. members # None =>
          /\ members' = t.next
          /\ \/ t.todo = {} /\ t.removed.devices = {} /\ End(t)
             \/ Continue(t, [t EXCEPT !.step = "links"])
    BY <1>6 DEF WriteMembers
  <2>6. PICK u : u = [t EXCEPT !.step = "links"]
    OBVIOUS
  <2>7. /\ u.kind = "assign" /\ u.draft = t.draft /\ u.step = "links" /\ u.todo = t.todo
        /\ u.removed = t.removed
    BY <2>2, <2>6 DEF AssignTask
  <2>8. ASSUME Undisturbed, Assigned(t)
        PROVE  /\ Unserved = {} /\ t.todo = members' \ members
               /\ t.removed.devices = members \ members'
               /\ UsedDevices \subseteq members' \cup kept \cup Dropped(t)
               /\ t.draft = None
    BY <2>1, <2>5, <2>8 DEF Assigned, Undisturbed
  <2>9. UsedDevices' = UsedDevices
    BY <2>1 DEF UsedDevices, Exists
  <2>10. ASSUME Unserved = {} PROVE Unserved' \subseteq Templates \X (members' \ members)
    BY <2>1, <2>10 DEF Unserved, Found, Exists
  <2>11. Undisturbed /\ Assigned(t) => Assigned(u)'
    BY <2>1, <2>7, <2>8, <2>9, <2>10 DEF Assigned, Dropped
  <2>12. ASSUME Undisturbed, Assigned(t), t.todo = {}, t.removed.devices = {}
         PROVE  Unserved' = {} /\ UsedDevices' \subseteq members' \cup kept'
    BY <2>1, <2>8, <2>9, <2>10, <2>12 DEF Dropped
  <2>13. CASE members # None /\ Continue(t, u)
    BY <2>1, <2>3, <2>4, <2>7, <2>11, <2>13, AssignReads
  <2>14. CASE members # None /\ t.todo = {} /\ t.removed.devices = {} /\ End(t)
    BY <2>1, <2>3, <2>4, <2>12, <2>14, AssignReads
  <2>15. CASE members = None
    <3>1. End(t) \/ Continue(t, u)
      BY <1>6, <2>6 DEF WriteMembers
    <3>2. ~Undisturbed
      BY <2>15 DEF Undisturbed
    <3> QED BY <2>1, <2>3, <2>4, <2>7, <3>1, <3>2, AssignReads
  <2> QED BY <2>5, <2>6, <2>13, <2>14, <2>15
<1>7. ASSUME UNCHANGED <<jobs, members, links, linkIds, defaults, catalogHistory>>
      PROVE  /\ LinksFit' /\ Unserved' = Unserved /\ UsedDevices' = UsedDevices
             /\ members' = members /\ kept' = kept /\ jobs' = jobs
             /\ overlapped' = overlapped /\ interrupted' = interrupted
  BY <1>1, <1>7 DEF LinksFit, Unserved, UsedDevices, Found, Exists, catalogHistory
<1>8. ASSUME NEW t, ReadLinks(t) PROVE ServedInv'
  <2>1. t \in AtWork(Assigning) /\ t.step = "links"
        /\ UNCHANGED <<jobs, members, links, linkIds, defaults, catalogHistory>>
    BY <1>8 DEF ReadLinks
  <2>2. t \in AssignTask
    BY <2>1, Assigner
  <2>3. PICK todo : todo = {v \in Templates : links[v] # None} \X t.todo
    OBVIOUS
  <2>4. PICK u : u = [t EXCEPT !.step = "jobs", !.sources = links, !.next = None, !.todo = todo]
    OBVIOUS
  <2>5. Continue(t, u)
    <3>1. u = [t EXCEPT !.step = "jobs", !.sources = links, !.next = None,
                        !.todo = {v \in Templates : links[v] # None} \X @]
      BY <2>2, <2>3, <2>4 DEF AssignTask
    <3> QED BY <1>8, <3>1 DEF ReadLinks
  <2>6. /\ u.kind = "assign" /\ u.draft = t.draft /\ u.step = "jobs" /\ u.todo = todo
        /\ u.removed = t.removed
    BY <2>2, <2>4 DEF AssignTask
  <2>7. ASSUME Undisturbed, Assigned(t) PROVE Assigned(u)'
    <3>1. /\ t.removed.devices \cap members = {}
          /\ UsedDevices \subseteq members \cup kept \cup Dropped(t)
          /\ Unserved \subseteq Templates \X t.todo /\ t.todo \subseteq members
          /\ t.draft = None
      BY <2>1, <2>7 DEF Assigned
    <3>2. Unserved \subseteq todo /\ todo \subseteq Templates \X members
      BY <2>3, <3>1 DEF Unserved
    <3> QED BY <1>7, <2>1, <2>6, <3>1, <3>2 DEF Assigned, Dropped
  <2> QED BY <1>7, <2>1, <2>5, <2>6, <2>7, AssignReads
<1>9. ASSUME NEW t, FindLink(t) PROVE ServedInv'
  <2>1. t \in AtWork(Assigning) /\ t.step = "link"
        /\ UNCHANGED <<jobs, members, links, linkIds, defaults, catalogHistory>>
    BY <1>9 DEF FindLink
  <2>2. t \in AssignTask
    BY <2>1, Assigner
  <2>3. PICK u : u = [t EXCEPT !.step = IF links[t.next] = None THEN "insert" ELSE "relink",
                         !.link = linkIds[t.next]]
    OBVIOUS
  <2>4. Continue(t, u)
    BY <1>9, <2>3 DEF FindLink
  <2>5. /\ u.kind = "assign" /\ u.draft = t.draft /\ u.step \in {"insert", "relink"}
        /\ u.todo = t.todo /\ u.removed = t.removed /\ u.next = t.next
    BY <2>2, <2>3 DEF AssignTask
  <2>6. Undisturbed /\ Assigned(t) => Assigned(u)'
    BY <1>7, <2>1, <2>5 DEF Assigned, Dropped
  <2> QED BY <1>7, <2>1, <2>4, <2>5, <2>6, AssignReads
<1>10. ASSUME NEW t, WriteLink(t) PROVE ServedInv'
  <2>1. /\ t \in AtWork(Assigning) /\ t.step \in {"insert", "relink"}
        /\ t.step = "insert" => MayInsert(t.next)
        /\ links' = IF t.step = "insert" \/ (links[t.next] # None /\ linkIds[t.next] = t.link)
                    THEN [links EXCEPT ![t.next] = t.sources[t.next]] ELSE links
        /\ UNCHANGED <<jobs, members, defaults, catalogHistory>>
    BY <1>10 DEF WriteLink
  <2>2. t \in AssignTask /\ t.next \in Templates
    BY <2>1, Assigner DEF AssignOK
  <2>3. PICK u : u = [t EXCEPT !.step = "jobs", !.link = 0]
    OBVIOUS
  <2>4. Continue(t, u)
    BY <1>10, <2>3 DEF WriteLink
  <2>5. /\ u.kind = "assign" /\ u.draft = t.draft /\ u.step = "jobs"
        /\ u.todo = t.todo /\ u.removed = t.removed
    BY <2>2, <2>3 DEF AssignTask
  <2>6. LinksFit'
    BY <1>1, <2>1, <2>2 DEF LinksFit, MayInsert, CatalogTypes
  <2>7. UsedDevices' = UsedDevices
    BY <2>1 DEF UsedDevices, Exists
  <2>8. ASSUME Unserved = {} PROVE Unserved' \subseteq {t.next} \X members
    BY <2>1, <2>2, <2>8 DEF Unserved, Found, Exists, CatalogTypes, catalogHistory
  <2>9. ASSUME Undisturbed, Assigned(t) PROVE Assigned(u)'
    <3>1. /\ t.removed.devices \cap members = {}
          /\ UsedDevices \subseteq members \cup kept \cup Dropped(t)
          /\ Unserved = {} /\ t.todo = {t.next} \X members
          /\ t.draft = None
      BY <2>1, <2>9 DEF Assigned
    <3>2. t.todo \subseteq Templates \X members /\ Unserved' \subseteq t.todo
      BY <2>2, <2>8, <3>1
    <3> QED BY <2>1, <2>5, <2>7, <3>1, <3>2 DEF Assigned, Dropped, catalogHistory
  <2>10. overlapped' = overlapped /\ interrupted' = interrupted
    BY <2>1 DEF catalogHistory
  <2> QED BY <2>1, <2>4, <2>5, <2>6, <2>9, <2>10, AssignReads
<1>11. ASSUME NEW t, ReadTemplate(t) PROVE ServedInv'
  <2>1. t \in AtWork(Assigning) /\ t.step = "jobs" /\ t.draft = None
        /\ UNCHANGED <<jobs, members, links, linkIds, defaults, catalogHistory>>
    BY <1>11 DEF ReadTemplate
  <2>2. t \in AssignTask
    BY <2>1, Assigner
  <2>3. PICK p \in t.todo :
          Continue(t, IF defaults[p[1]] = None
                      THEN [t EXCEPT !.todo = {q \in @ : q[1] # p[1]}]
                      ELSE [t EXCEPT !.triggers = defaults[p[1]], !.next = p[1]])
    BY <1>11 DEF ReadTemplate
  <2>4. PICK todo : todo = {q \in t.todo : q[1] # p[1]}
    OBVIOUS
  <2>5. PICK u : u = IF defaults[p[1]] = None THEN [t EXCEPT !.todo = todo]
                     ELSE [t EXCEPT !.triggers = defaults[p[1]], !.next = p[1]]
    OBVIOUS
  <2>6. Continue(t, u)
    <3>1. [t EXCEPT !.todo = {q \in @ : q[1] # p[1]}] = [t EXCEPT !.todo = todo]
      BY <2>2, <2>4 DEF AssignTask
    <3> QED BY <2>3, <2>5, <3>1
  <2>7. /\ u.kind = "assign" /\ u.draft = t.draft /\ u.step = "jobs" /\ u.removed = t.removed
        /\ u.todo = IF defaults[p[1]] = None THEN todo ELSE t.todo
    BY <2>1, <2>2, <2>5 DEF AssignTask
  <2>8. ASSUME Undisturbed, Assigned(t) PROVE Assigned(u)'
    <3>1. /\ t.removed.devices \cap members = {}
          /\ UsedDevices \subseteq members \cup kept \cup Dropped(t)
          /\ Unserved \subseteq t.todo /\ t.todo \subseteq Templates \X members
      BY <2>1, <2>8 DEF Assigned
    <3>2. p[1] \in Templates /\ todo \subseteq t.todo
      BY <2>4, <3>1
    <3>3. defaults[p[1]] = None => Unserved \subseteq todo
      BY <1>1, <2>4, <3>1, <3>2 DEF Unserved, LinksFit
    <3> QED BY <1>7, <2>1, <2>7, <3>1, <3>2, <3>3 DEF Assigned, Dropped
  <2> QED BY <1>7, <2>1, <2>6, <2>7, <2>8, AssignReads
<1>12. ASSUME NEW t, FindJob(t) PROVE ServedInv'
  <2>1. t \in AtWork(Assigning) /\ t.step = "jobs" /\ t.draft = None /\ t.triggers # None
        /\ UNCHANGED <<jobs, members, links, linkIds, defaults, catalogHistory>>
    BY <1>12 DEF FindJob
  <2>2. t \in AssignTask /\ AssignOK(t)
    BY <2>1, Assigner
  <2>3. PICK p \in t.todo : p[1] = t.next /\ Continue(t, [t EXCEPT
          !.todo = @ \ {p},
          !.triggers = IF \E q \in t.todo \ {p} : q[1] = t.next THEN @ ELSE None,
          !.draft = IF Found(p) THEN None ELSE NewRow(p, p[2], t.sources[p[1]], t.triggers)])
    BY <1>12 DEF FindJob
  <2>4. p \in Pairs /\ p[1] \in Templates /\ p[2] \in Devices /\ t.sources[p[1]] \in Paths
        /\ t.triggers \in Settings /\ now \in Times
    BY <2>1, <2>2 DEF AssignOK, AssignTask, Pairs, CatalogTypes
  <2>5. PICK row : row = NewRow(p, p[2], t.sources[p[1]], t.triggers)
    OBVIOUS
  <2>6. row \in Row /\ row.pair = p /\ row.device = p[2]
    BY <2>4, <2>5, NewRowTyped
  <2>7. PICK triggers : triggers = IF \E q \in t.todo \ {p} : q[1] = t.next THEN t.triggers ELSE None
    OBVIOUS
  <2>8. PICK todo : todo = t.todo \ {p}
    OBVIOUS
  <2>9. PICK draft : draft = IF Found(p) THEN None ELSE row
    OBVIOUS
  <2>10. PICK u : u = [t EXCEPT !.todo = todo, !.triggers = triggers, !.draft = draft]
    OBVIOUS
  <2>11. Continue(t, u)
    <3>1. u = [t EXCEPT !.todo = @ \ {p},
            !.triggers = IF \E q \in t.todo \ {p} : q[1] = t.next THEN @ ELSE None,
            !.draft = IF Found(p) THEN None ELSE NewRow(p, p[2], t.sources[p[1]], t.triggers)]
      BY <2>2, <2>5, <2>7, <2>8, <2>9, <2>10 DEF AssignTask
    <3> QED BY <2>3, <3>1
  <2>12. /\ u.kind = "assign" /\ u.draft = draft /\ u.step = "jobs" /\ u.removed = t.removed
         /\ u.todo = todo
    BY <2>1, <2>2, <2>10 DEF AssignTask
  <2>13. draft = None \/ (RowFits(draft) /\ draft.pair # None /\ ~Found(draft.pair))
    BY <2>4, <2>6, <2>9, CatalogNone DEF RowFits
  <2>14. ASSUME Undisturbed, Assigned(t) PROVE Assigned(u)'
    <3>1. /\ t.removed.devices \cap members = {}
          /\ UsedDevices \subseteq members \cup kept \cup Dropped(t)
          /\ Unserved \subseteq t.todo /\ t.todo \subseteq Templates \X members
      BY <2>1, <2>14 DEF Assigned
    <3>2. p[2] \in members /\ todo \subseteq Templates \X members
      BY <2>8, <3>1
    <3>3. Unserved \subseteq todo \cup (IF draft = None THEN {} ELSE {draft.pair})
      <4>1. Found(p) => p \notin Unserved
        BY DEF Unserved
      <4>2. ~Found(p) => draft = row /\ draft # None
        BY <2>6, <2>9, CatalogNone
      <4> QED BY <2>6, <2>8, <3>1, <4>1, <4>2
    <3>4. draft # None => draft.device \in members
      BY <2>6, <2>9, <3>2
    <3> QED BY <1>7, <2>1, <2>12, <3>1, <3>2, <3>3, <3>4 DEF Assigned, Dropped
  <2> QED BY <1>7, <2>1, <2>11, <2>12, <2>13, <2>14, AssignReads
<1>13. ASSUME NEW t, CreateJob(t) PROVE ServedInv'
  <2>1. /\ t \in AtWork(Assigning) /\ t.draft # None /\ Unused # {}
        /\ jobs' = [jobs EXCEPT ![NewId] = [t.draft EXCEPT !.createdAt = now]]
        /\ unassigned' = unassigned \ {t.draft.pair}
        /\ Continue(t, [t EXCEPT !.draft = None])
        /\ UNCHANGED <<members, links, linkIds, defaults, overlapped, interrupted, kept>>
    BY <1>13 DEF CreateJob
  <2>2. t \in AssignTask /\ t.draft \in Row
    BY <2>1, Assigner DEF AssignTask
  <2>3. PICK row : row = [t.draft EXCEPT !.createdAt = now]
    OBVIOUS
  <2>4. row \in Row /\ row.pair = t.draft.pair /\ row.device = t.draft.device
    BY <2>2, <2>3 DEF Row, CatalogTypes
  <2>5. RowFits(row) /\ row.pair # None
    BY <2>1, <2>4 DEF ServedInv, RowsFit, RowFits
  <2>6. PICK n \in Jobs : n = NewId /\ jobs[n] = None
    BY <2>1, NewIdTyped
  <2>7. jobs' = [jobs EXCEPT ![n] = row] /\ jobs \in Rows /\ row \notin {None, Deleted}
    BY <2>1, <2>3, <2>4, <2>6, CatalogNone DEF CatalogTypes
  <2>8. \A j \in Jobs : jobs'[j] = IF j = n THEN row ELSE jobs[j]
    BY <2>7 DEF Rows
  <2>9. PICK u : u = [t EXCEPT !.draft = None]
    OBVIOUS
  <2>10. /\ u.kind = "assign" /\ u.draft = None /\ u.step = t.step /\ u.removed = t.removed
         /\ u.todo = t.todo
    BY <2>1, <2>2, <2>9, Assigner DEF AssignTask
  <2>11. \A j \in Jobs : jobs'[j] \notin {None, Deleted} => RowFits(jobs'[j])
    BY <2>5, <2>8 DEF ServedInv, RowsFit, Exists
  <2>12. ASSUME ~overlapped PROVE OnePair'
    <3>1. OnePair /\ ~Found(row.pair)
      BY <2>1, <2>4, <2>12 DEF ServedInv, OneJobEach, OnePair
    <3> QED BY <2>5, <2>8, <3>1 DEF OnePair, Found, Exists
  <2>13. LinksFit'
    BY <1>1, <2>1 DEF LinksFit
  <2>14. ASSUME Undisturbed, Assigned(t) PROVE Assigned(u)'
    <3>1. /\ t.step = "jobs" /\ t.draft.device \in members
          /\ t.removed.devices \cap members = {}
          /\ UsedDevices \subseteq members \cup kept \cup Dropped(t)
          /\ Unserved \subseteq t.todo \cup {t.draft.pair} /\ t.todo \subseteq Templates \X members
      BY <2>1, <2>14 DEF Assigned
    <3>2. UsedDevices' \subseteq UsedDevices \cup {row.device}
      BY <2>8 DEF UsedDevices, Exists
    <3>3. row.pair \notin Unserved'
      BY <2>7, <2>8 DEF Unserved, Found, Exists
    <3>4. Unserved' \subseteq Unserved \cup {row.pair}
      <4> SUFFICES ASSUME NEW p \in Unserved', p # row.pair PROVE p \in Unserved
        OBVIOUS
      <4>1. p \in Templates \X members /\ links[p[1]] # None /\ p \notin unassigned
            /\ \A j \in Jobs : jobs'[j] \in {None, Deleted} \/ jobs'[j].pair # p
        BY <2>1, <2>4 DEF Unserved, Found, Exists
      <4>2. ~Found(p)
        BY <2>6, <2>8, <4>1 DEF Found, Exists
      <4> QED BY <4>1, <4>2 DEF Unserved
    <3>5. Unserved' \subseteq t.todo
      BY <2>4, <3>1, <3>3, <3>4
    <3> QED BY <2>1, <2>4, <2>10, <3>1, <3>2, <3>5 DEF Assigned, Dropped
  <2>15. Continue(t, u)
    BY <2>1, <2>9
  <2> QED BY <2>1, <2>10, <2>11, <2>12, <2>13, <2>14, <2>15, AssignGoesOn
<1>14. ASSUME NEW t, FinishAssign(t) PROVE ServedInv'
  <2>1. /\ t \in AtWork(Assigning) /\ t.step = "jobs" /\ t.todo = {} /\ t.draft = None
        /\ jobs' = [j \in Jobs |-> IF j \in Orphans(t.removed) THEN Deleted ELSE jobs[j]]
        /\ End(t)
        /\ UNCHANGED <<members, links, linkIds, defaults, overlapped, interrupted, unassigned, kept>>
    BY <1>14 DEF FinishAssign
  <2>2. \A j \in Jobs : \/ jobs'[j] = jobs[j]
                        \/ /\ jobs'[j] = Deleted /\ Exists(j) /\ jobs[j].pair # None /\ t.removed.drop
                           /\ jobs[j].device \in t.removed.devices
    BY <2>1 DEF Orphans
  <2>3. \A j \in Jobs : jobs'[j] \notin {None, Deleted} => RowFits(jobs'[j])
    BY <2>2 DEF ServedInv, RowsFit, Exists
  <2>4. ~overlapped => OnePair'
    BY <2>2 DEF ServedInv, OneJobEach, OnePair, Exists
  <2>5. LinksFit'
    BY <1>1, <2>1 DEF LinksFit
  <2>6. ASSUME Undisturbed, Assigned(t)
        PROVE  Unserved' = {} /\ UsedDevices' \subseteq members' \cup kept'
    <3>1. /\ t.removed.devices \cap members = {}
          /\ UsedDevices \subseteq members \cup kept \cup Dropped(t)
          /\ Unserved = {}
      BY <2>1, <2>6 DEF Assigned
    <3>2. ASSUME NEW j \in Jobs, jobs'[j] \notin {None, Deleted}, jobs'[j].pair # None
          PROVE  jobs'[j].device \in members \cup kept
      <4>1. jobs'[j] = jobs[j] /\ jobs[j].device \in UsedDevices
        BY <2>2, <3>2 DEF UsedDevices, Exists
      <4>2. ~ (t.removed.drop /\ jobs[j].device \in t.removed.devices)
        BY <2>1, <3>2, <4>1 DEF Orphans, Exists
      <4> QED BY <3>1, <4>1, <4>2 DEF Dropped
    <3>3. UsedDevices' \subseteq members \cup kept
      BY <3>2 DEF UsedDevices, Exists
    <3>4. ASSUME NEW p \in Unserved' PROVE FALSE
      <4>1. p \in Templates \X members /\ links[p[1]] # None /\ p \notin unassigned
            /\ \A j \in Jobs : jobs'[j] \in {None, Deleted} \/ jobs'[j].pair # p
        BY <2>1 DEF Unserved, Found, Exists
      <4>2. PICK j \in Jobs : Exists(j) /\ jobs[j].pair = p
        BY <3>1, <4>1 DEF Unserved, Found
      <4>3. jobs[j].device \in t.removed.devices /\ jobs[j].pair # None
        BY <2>2, <4>1, <4>2 DEF Exists
      <4>4. jobs[j].device = p[2]
        BY <4>2, <4>3 DEF ServedInv, RowsFit, RowFits
      <4> QED BY <3>1, <4>1, <4>3, <4>4
    <3> QED BY <2>1, <3>3, <3>4
  <2> QED BY <2>1, <2>3, <2>4, <2>5, <2>6, AssignEnds
<1> QED BY <1>3, <1>4, <1>5, <1>6, <1>8, <1>9, <1>10, <1>11, <1>12, <1>13, <1>14 DEF Handlers

\* The server, the agent and the world leave the collection alone.
LEMMA HubServes ==
    ASSUME CatalogTypes, AutoTypes, ServedInv, Hub
    PROVE  ServedInv'
<1>1. TasksOK /\ LinksFit /\ Tell.kind # "assign" /\ jobs \in Rows /\ now \in Times
  BY TellOK DEF CatalogTypes, ServedInv
<1>2. ASSUME UNCHANGED <<members, links, linkIds, defaults, overlapped, interrupted, unassigned, kept>>,
             AssignsStay, SameSettings
      PROVE  ServedInv'
  BY <1>1, <1>2, CatalogStays, KeepsServed
<1>3. ASSUME Poll PROVE ServedInv'
  <2> DEFINE due == {j \in Jobs : Due(j)}
             u == Queue(due, "schedule")
  <2>1. Begin(u) /\ UNCHANGED <<jobs, members, links, linkIds, defaults, catalogHistory>>
    BY <1>3 DEF Poll
  <2>2. u.kind # "assign"
    BY DEF Queue
  <2> HIDE DEF u
  <2>3. AssignsStay
    BY <1>1, <2>1, <2>2, OtherHandler DEF catalogHistory
  <2> QED BY <1>1, <1>2, <2>1, <2>3, StatusSame DEF catalogHistory
<1>4. ASSUME HubRegister PROVE ServedInv'
  <2>1. PICK u : u = [Tell EXCEPT !.then = "queued"]
    OBVIOUS
  <2>2. Begin(u) /\ UNCHANGED <<jobs, members, links, linkIds, defaults, catalogHistory>>
    BY <1>4, <2>1 DEF HubRegister
  <2>3. u.kind # "assign"
    BY <2>1 DEF Tell
  <2>4. AssignsStay
    BY <1>1, <2>2, <2>3, OtherHandler DEF catalogHistory
  <2> QED BY <1>1, <1>2, <2>2, <2>4, StatusSame DEF catalogHistory
<1>5. ASSUME HubTrigger PROVE ServedInv'
  <2>1. PICK u : u = Queue({Head(toHub).job}, Head(toHub).reason)
    OBVIOUS
  <2>2. (Begin(u) \/ UNCHANGED tasks) /\ UNCHANGED <<jobs, members, links, linkIds, defaults, catalogHistory>>
    BY <1>5, <2>1 DEF HubTrigger
  <2>3. u.kind # "assign"
    BY <2>1 DEF Queue
  <2>4. AssignsStay
    BY <1>1, <2>2, <2>3, OtherHandler DEF catalogHistory
  <2> QED BY <1>1, <1>2, <2>2, <2>4, StatusSame DEF catalogHistory
<1>6. ASSUME HubStarted PROVE ServedInv'
  <2> DEFINE m == Head(toHub)
  <2>1. m \in ToHub /\ m.type = "started"
    BY <1>6 DEF HubStarted, Received, AutoTypes
  <2>2. jobs' = SetStatus(jobs, m.job, "running")
        /\ UNCHANGED <<members, links, linkIds, defaults, tasks, catalogHistory>>
    BY <1>6 DEF HubStarted
  <2> HIDE DEF m
  <2>3. m.job \in Jobs /\ "running" \in Statuses
    BY <2>1 DEF ToHub, Statuses
  <2>4. AssignsStay
    BY <1>1, <2>2, OtherHandler DEF catalogHistory
  <2> QED BY <1>1, <1>2, <2>2, <2>3, <2>4, StatusSame DEF catalogHistory
<1>7. ASSUME HubEnded PROVE ServedInv'
  <2> DEFINE m == Head(toHub)
  <2>1. m \in ToHub /\ m.type = "ended"
    BY <1>7 DEF HubEnded, Received, AutoTypes
  <2>2. jobs' = SetStatus(jobs, m.job, m.outcome)
        /\ UNCHANGED <<members, links, linkIds, defaults, tasks, catalogHistory>>
    BY <1>7 DEF HubEnded
  <2> HIDE DEF m
  <2>3. m.job \in Jobs /\ m.outcome \in Statuses
    BY <2>1 DEF ToHub, Statuses
  <2>4. AssignsStay
    BY <1>1, <2>2, OtherHandler DEF catalogHistory
  <2> QED BY <1>1, <1>2, <2>2, <2>3, <2>4, StatusSame DEF catalogHistory
<1>8. ASSUME NEW t, QueueNext(t) PROVE ServedInv'
  <2>1. t \in AtWork({"queue"}) /\ UNCHANGED <<members, links, linkIds, defaults, catalogHistory>>
    BY <1>8 DEF QueueNext
  <2>2. PICK js \in SUBSET Jobs : t \in QueueTask(js) /\ t.todo \subseteq js
    BY <1>1, <2>1, Handler
  <2>3. PICK j \in t.todo : /\ jobs' = SetStatus(jobs, j, "queued")
                            /\ Continue(t, [t EXCEPT !.job = j, !.todo = @ \ {j}])
    BY <1>8 DEF QueueNext
  <2>4. PICK u : u = [t EXCEPT !.job = j, !.todo = @ \ {j}]
    OBVIOUS
  <2>5. u.kind # "assign" /\ t.kind # "assign" /\ Continue(t, u)
    BY <2>2, <2>3, <2>4 DEF QueueTask
  <2>6. AssignsStay
    BY <1>1, <2>1, <2>5, OtherHandler DEF catalogHistory
  <2>7. j \in Jobs /\ "queued" \in Statuses
    BY <2>2 DEF Statuses
  <2>8. SameSettings
    BY <1>1, <2>3, <2>7, StatusSame
  <2> QED BY <1>2, <2>1, <2>6, <2>8 DEF catalogHistory
<1>9. ASSUME NEW t, QueueSend(t) PROVE ServedInv'
  <2>1. t \in AtWork({"queue"}) /\ UNCHANGED <<members, links, linkIds, defaults, catalogHistory>>
        /\ t.job # None /\ Continue(t, [t EXCEPT !.job = None])
        /\ (UNCHANGED jobs \/ jobs' = SetStatus(jobs, t.job, "error"))
    BY <1>9 DEF QueueSend
  <2>2. PICK js \in SUBSET Jobs : t \in QueueTask(js)
    BY <1>1, <2>1, Handler
  <2>3. PICK u : u = [t EXCEPT !.job = None]
    OBVIOUS
  <2>4. u.kind # "assign" /\ t.kind # "assign" /\ Continue(t, u) /\ t.job \in Jobs
    BY <2>1, <2>2, <2>3 DEF QueueTask
  <2>5. AssignsStay
    BY <1>1, <2>1, <2>4, OtherHandler DEF catalogHistory
  <2>6. "error" \in Statuses
    BY DEF Statuses
  <2>7. SameSettings
    BY <1>1, <2>1, <2>4, <2>6, StatusSame
  <2> QED BY <1>2, <2>1, <2>5, <2>7 DEF catalogHistory
<1>10. ASSUME NEW t, NEW kinds, "assign" \notin kinds, t \in AtWork(kinds),
              NEW u, u.kind # "assign", End(t) \/ Continue(t, u),
              UNCHANGED <<jobs, members, links, linkIds, defaults, overlapped, interrupted, unassigned, kept>>
       PROVE  ServedInv'
  <2>1. t.kind # "assign"
    BY <1>10 DEF AtWork
  <2>2. AssignsStay
    BY <1>1, <1>10, <2>1, OtherHandler
  <2> QED BY <1>1, <1>2, <1>10, <2>2, StatusSame
<1>11. ASSUME NEW t, QueueEnds(t) PROVE ServedInv'
  BY <1>1, <1>10, <1>11 DEF QueueEnds, catalogHistory
<1>12. ASSUME NEW t, ReadWatched(t) PROVE ServedInv'
  <2>1. t \in AtWork({"watch"}) /\ t.kind = "watch"
        /\ UNCHANGED <<jobs, members, links, linkIds, defaults, overlapped, interrupted, unassigned, kept>>
    BY <1>12 DEF ReadWatched, AtWork
  <2>2. CASE ~registered
    BY <1>1, <1>10, <1>12, <2>1, <2>2 DEF ReadWatched
  <2>3. CASE registered
    <3>1. /\ Reading(t) \in DOMAIN tasks'
          /\ \A x \in DOMAIN tasks' :
                \/ x = Reading(t)
                \/ x \in DOMAIN tasks /\ ~Listed(x)
                \/ \E s \in DOMAIN tasks : Listed(s) /\ s \in WatchTask /\ x = Aged(s)
          /\ \A s \in DOMAIN tasks : s.kind # "watch" => s \in DOMAIN tasks' /\ tasks'[s] = tasks[s]
      BY <1>1, <1>12, <2>3, Reads
    <3>2. Reading(t).kind = "watch"
      <4>1. t \in WatchTask
        BY <1>1, <2>1, Handler
      <4>2. PICK list : Reading(t) = [t EXCEPT !.conn = conn, !.list = list]
        BY DEF Reading
      <4> QED BY <4>1, <4>2 DEF WatchTask
    <3>3. \A s \in WatchTask : Aged(s).kind = "watch"
      BY DEF Aged, WatchTask
    <3>4. \A x \in DOMAIN tasks' : x.kind = "assign" => x \in DOMAIN tasks
      BY <3>1, <3>2, <3>3
    <3>5. AssignsStay
      BY <2>1, <3>1, <3>4 DEF AssignsStay
    <3> QED BY <1>1, <1>2, <2>1, <3>5, StatusSame
  <2> QED BY <2>2, <2>3
<1>13. ASSUME NEW t, SendWatched(t) PROVE ServedInv'
  <2>1. PICK u : u = [kind |-> "resend", conn |-> t.conn]
    OBVIOUS
  <2>2. u.kind # "assign" /\ (End(t) \/ Continue(t, u)) /\ t \in AtWork({"watch"})
        /\ UNCHANGED <<jobs, members, links, linkIds, defaults, catalogHistory>>
    BY <1>13, <2>1 DEF SendWatched
  <2> QED BY <1>10, <2>2 DEF catalogHistory
<1>14. ASSUME NEW t, ResendQueued(t) PROVE ServedInv'
  <2>1. t \in AtWork({"resend"}) /\ End(t)
        /\ UNCHANGED <<jobs, members, links, linkIds, defaults, catalogHistory>>
    BY <1>14 DEF ResendQueued
  <2> QED BY <1>1, <1>10, <2>1 DEF catalogHistory
<1> QED BY <1>3, <1>4, <1>5, <1>6, <1>7, <1>8, <1>9, <1>11, <1>12, <1>13, <1>14 DEF Hub

\* A new server has no handlers, and what was at work is cut off.
LEMMA RestartServes ==
    ASSUME CatalogTypes, ServedInv, RestartApi
    PROVE  ServedInv'
<1>1. UNCHANGED <<members, links, linkIds, defaults, overlapped, unassigned, kept>>
      /\ interrupted' = (interrupted \/ AtWork(Assigning) # {})
  BY DEF RestartApi
<1>2. SameSettings /\ \A t \in DOMAIN tasks' : t.kind = "queue"
  BY Restarts
<1>3. AssignsStay
  BY <1>1, <1>2 DEF AssignsStay, AtWork, Assigning, BagToSet
<1> QED BY <1>1, <1>2, <1>3, CatalogStays, KeepsServed DEF ServedInv

\* Nor does anything else touch the collection.
LEMMA RestServes ==
    ASSUME CatalogTypes, AutoTypes, ServedInv, Agent \/ World \/ UNCHANGED vars, ~Catalog(Requests)
    PROVE  ServedInv'
<1>1. TasksOK /\ LinksFit /\ Tell.kind # "assign" /\ jobs \in Rows /\ now \in Times
  BY TellOK DEF CatalogTypes, ServedInv
<1>2. ASSUME UNCHANGED <<members, links, linkIds, defaults, tasks, catalogHistory>>, SameSettings
      PROVE  ServedInv'
  <2>1. AssignsStay
    BY <1>1, <1>2, OtherHandler DEF catalogHistory
  <2> QED BY <1>1, <1>2, <2>1, CatalogStays, KeepsServed DEF catalogHistory
<1>3. ASSUME UNCHANGED <<jobs, members, links, linkIds, defaults, tasks, catalogHistory>> PROVE ServedInv'
  BY <1>1, <1>2, <1>3, StatusSame
<1>4. CASE UNCHANGED vars
  BY <1>3, <1>4 DEF vars, catalogVars
<1>5. CASE Agent
  <2>1. UNCHANGED <<jobs, members, links, linkIds, defaults, tasks, catalogHistory>>
    BY <1>5 DEF Agent, catalogVars, Connect, AgentWatch, AgentRun, AgentCancel, WatchFires,
                FolderFires, Fires, FolderLook, FolderAnswer, RunStarts, RunWalks, RunEnds
  <2> QED BY <1>3, <2>1
<1>6. ASSUME NEW j \in Jobs, RunRequest(j) PROVE ServedInv'
  <2>1. PICK u : u = Queue({j}, "manual")
    OBVIOUS
  <2>2. u.kind # "assign" /\ Begin(u) /\ UNCHANGED <<jobs, members, links, linkIds, defaults, catalogHistory>>
    BY <1>6, <2>1 DEF RunRequest, Queue
  <2>3. AssignsStay
    BY <1>1, <2>2, OtherHandler DEF catalogHistory
  <2>4. SameSettings
    BY <1>1, <2>2, StatusSame
  <2> QED BY <1>1, <2>2, <2>3, <2>4, CatalogStays, KeepsServed DEF catalogHistory
<1>7. ASSUME NEW j \in Jobs, CancelRequest(j) PROVE ServedInv'
  <2>1. jobs' = SetStatus(jobs, j, "cancelled")
        /\ UNCHANGED <<members, links, linkIds, defaults, tasks, catalogHistory>>
    BY <1>7 DEF CancelRequest
  <2>2. "cancelled" \in Statuses
    BY DEF Statuses
  <2> QED BY <1>1, <1>2, <2>1, <2>2, StatusSame
<1>8. ASSUME Disconnect, UNCHANGED <<members, links, linkIds, defaults, tasks, catalogHistory>> PROVE ServedInv'
  <2> DEFINE failed == {j \in owned : Active(j)}
  <2>1. jobs' = [j \in Jobs |-> IF j \in failed THEN SetStatus(jobs, j, "error")[j] ELSE jobs[j]]
    BY <1>8 DEF Disconnect
  <2>2. failed \in SUBSET Jobs
    BY DEF AutoTypes
  <2> HIDE DEF failed
  <2>3. SameSettings
    BY <1>1, <2>1, <2>2, StatusSame
  <2> QED BY <1>2, <1>8, <2>3
<1>9. CASE World
  <2>1. ASSUME NEW p \in Paths, Edit(p) PROVE ServedInv'
    BY <1>3, <2>1 DEF Edit
  <2>2. ASSUME NEW p \in Paths, FolderMoves(p) PROVE ServedInv'
    BY <1>3, <2>2 DEF FolderMoves
  <2>3. ASSUME Tick PROVE ServedInv'
    BY <1>3, <2>3 DEF Tick
  <2>4. ASSUME ConnectionLost PROVE ServedInv'
    BY <1>8, <2>4 DEF ConnectionLost
  <2>5. ASSUME AgentDies PROVE ServedInv'
    BY <1>8, <2>5 DEF AgentDies
  <2>6. ASSUME ApiDies PROVE ServedInv'
    BY <2>6, RestartServes DEF ApiDies
  <2> QED BY <1>6, <1>7, <1>9, <2>1, <2>2, <2>3, <2>4, <2>5, <2>6 DEF World
<1> QED BY <1>4, <1>5, <1>9

\* Collections are served in the beginning ...
LEMMA InitServed == Init => ServedInv
<1> SUFFICES ASSUME NEW c \in Cases, CatalogInit(c) PROVE ServedInv
  BY DEF Init
<1>1. /\ jobs = c.jobs /\ members = c.members /\ links = c.links /\ defaults = c.defaults
      /\ tasks = EmptyBag /\ unassigned = {} /\ kept = {} /\ ~overlapped /\ ~interrupted
  BY DEF CatalogInit
<1>2. /\ c.jobs \in [Jobs -> Row \cup {None}] /\ c.members \in SUBSET Devices
      /\ c.links \in [Templates -> Paths \cup {None}]
  BY CatalogAssumption
<1>3. PICK assigned : assigned = {j \in Jobs : jobs[j] # None /\ jobs[j].pair # None}
  OBVIOUS
<1>4. /\ \A j \in assigned : jobs[j].pair[2] = jobs[j].device /\ jobs[j].device \in members
      /\ \A i, j \in assigned : jobs[i].pair = jobs[j].pair => i = j
      /\ \A t \in Templates : links[t] # None =>
             /\ defaults[t] # None
             /\ \A d \in members : \E j \in assigned : jobs[j].pair = <<t, d>>
  <2>1. \A j \in assigned : jobs[j].pair[2] = jobs[j].device /\ jobs[j].device \in members
    BY <1>1, <1>3, StartsServed
  <2>2. \A i, j \in assigned : jobs[i].pair = jobs[j].pair => i = j
    BY <1>1, <1>3, StartsServed
  <2>3. ASSUME NEW t \in Templates, links[t] # None
        PROVE  defaults[t] # None /\ \A d \in members : \E j \in assigned : jobs[j].pair = <<t, d>>
    <3>1. c.links[t] # None
      BY <1>1, <2>3
    <3>2. /\ c.defaults[t] # None
          /\ \A d \in c.members : \E j \in {i \in Jobs : c.jobs[i] # None /\ c.jobs[i].pair # None} :
                c.jobs[j].pair = <<t, d>>
      BY <3>1, StartsServed, Zenon
    <3> QED BY <1>1, <1>3, <3>2
  <2> QED BY <2>1, <2>2, <2>3
<1>5. \A j \in Jobs : Exists(j) /\ jobs[j].pair # None <=> j \in assigned
  BY <1>1, <1>2, <1>3, CatalogNone DEF Exists
<1>6. BagToSet(tasks) = {}
  BY <1>1 DEF EmptyBag, SetToBag, BagToSet
<1>7. RowsFit
  BY <1>4, <1>5, <1>6 DEF RowsFit, RowFits, AtWork
<1>8. LinksFit /\ OneAssign /\ Assignments
  BY <1>4, <1>6 DEF LinksFit, OneAssign, Assignments, AtWork
<1>9. OneJobEach
  BY <1>4, <1>5, <1>6 DEF OneJobEach, AtWork
<1>10. UsedDevices \subseteq members
  BY <1>4, <1>5 DEF UsedDevices
<1>11. Unserved = {}
  <2> SUFFICES ASSUME NEW p \in Unserved PROVE FALSE
    OBVIOUS
  <2>1. p \in Templates \X members /\ links[p[1]] # None /\ ~Found(p)
    BY DEF Unserved
  <2>2. PICK j \in assigned : jobs[j].pair = <<p[1], p[2]>>
    BY <1>4, <2>1
  <2>3. j \in Jobs /\ Exists(j) /\ p = <<p[1], p[2]>>
    BY <1>3, <1>5, <2>1
  <2> QED BY <2>1, <2>2, <2>3 DEF Found
<1> QED BY <1>7, <1>8, <1>9, <1>10, <1>11 DEF ServedInv, Idle

\* ... and stay so.
LEMMA NextServes ==
    ASSUME CatalogTypes, AutoTypes, ServedInv, [Next]_vars
    PROVE  ServedInv'
<1>1. ASSUME NEW t, InsertFails(t) \/ LogFails PROVE ServedInv'
  BY <1>1, RestartServes DEF InsertFails, LogFails
<1>2. CASE Catalog(Requests) \/ Catalog(Handlers)
  BY <1>2, RequestsServe, HandlersServe DEF Catalog
<1> QED BY <1>1, <1>2, HubServes, RestServes DEF Next, Progress, Failing, World

\* Once no request for a collection is at work, every member has one job of every linked
\* template, nobody has two, and nobody else has one (collections.ts).
THEOREM CollectionServed == Spec => []CollectionIsServed
<1> DEFINE Inv == CatalogTypes /\ AutoTypes /\ ServedInv
<1>1. Init => Inv
  BY InitTypes, InitServed
<1>2. Inv /\ [Next]_vars => Inv'
  BY NextTypes, NextServes
<1>3. Inv => CollectionIsServed
  <2> SUFFICES ASSUME Inv, AtWork(Assigning) = {}, members # None, ~overlapped, ~interrupted
      PROVE  /\ \A t \in Templates, d \in members :
                   links[t] # None /\ <<t, d>> \notin unassigned => Found(<<t, d>>)
             /\ \A i, j \in Jobs : /\ Exists(i) /\ Exists(j) /\ i # j
                                   => jobs[i].pair = None \/ jobs[i].pair # jobs[j].pair
             /\ \A j \in Jobs : Exists(j) /\ jobs[j].pair # None
                                   => jobs[j].device \in members \cup kept
    BY DEF CollectionIsServed
  <2>1. Unserved = {} /\ UsedDevices \subseteq members \cup kept
    BY DEF ServedInv, Idle, Undisturbed
  <2>2. ASSUME NEW t \in Templates, NEW d \in members, links[t] # None, <<t, d>> \notin unassigned
        PROVE  Found(<<t, d>>)
    BY <2>1, <2>2 DEF Unserved
  <2>3. \A j \in Jobs : Exists(j) /\ jobs[j].pair # None => jobs[j].device \in members \cup kept
    BY <2>1 DEF UsedDevices
  <2> QED BY <2>2, <2>3 DEF ServedInv, OneJobEach
<1> QED BY <1>1, <1>2, <1>3, PTL DEF Spec

-----------------------------------------------------------------------------
(* The agent watches what the jobs ask for. *)

\* A job asks for the same as before.
SameWatch(j) ==
    \/ jobs'[j] = jobs[j]
    \/ /\ Exists(j) /\ jobs'[j] \notin {None, Deleted}
       /\ jobs'[j].path = jobs[j].path /\ jobs'[j].auto = jobs[j].auto
       /\ jobs'[j].device = jobs[j].device

\* Then it is watched as before.
LEMMA SameWatchRow ==
    ASSUME NEW j \in Jobs, SameWatch(j)
    PROVE  /\ WatchedRow(j)' = WatchedRow(j)
           /\ LocalPath(jobs, j, "watch")' = LocalPath(jobs, j, "watch")
           /\ LocalPath(jobs, j, "connect")' = LocalPath(jobs, j, "connect")
BY DEF SameWatch, WatchedRow, LocalPath, Has, Exists, Watch

\* The lists on the wire are the same, and the last one is.
WireStays ==
    /\ OnWay' = {} => OnWay = {}
    /\ \A i \in OnWay' : \E k \in OnWay :
          /\ toAgent'[i] = toAgent[k]
          /\ (\A n \in OnWay' : n <= i) => \A n \in OnWay : n <= k

\* Nothing was sent, messages without a list were sent, or one was delivered.
LEMMA OtherMessages ==
    ASSUME toAgent \in Seq(ToAgentMessage)
    PROVE  /\ UNCHANGED toAgent => WireStays
           /\ \A m : m.type # "watch" /\ toAgent' = Send(toAgent, m) => WireStays
           /\ \A ms \in Seq(ToAgentMessage) :
                 (\A i \in DOMAIN ms : ms[i].type # "watch") /\ toAgent' = toAgent \o ms => WireStays
           /\ toAgent # <<>> /\ Head(toAgent).type # "watch" /\ toAgent' = Tail(toAgent) => WireStays
<1>1. ASSUME UNCHANGED toAgent PROVE WireStays
  BY <1>1 DEF WireStays, OnWay
<1>2. ASSUME NEW m, m.type # "watch", toAgent' = Append(toAgent, m) PROVE WireStays
  <2>1. /\ DOMAIN toAgent = 1..Len(toAgent) /\ DOMAIN toAgent' = 1..(Len(toAgent) + 1)
        /\ \A i \in DOMAIN toAgent : toAgent'[i] = toAgent[i]
        /\ toAgent'[Len(toAgent) + 1] = m /\ Len(toAgent) \in Nat
    BY <1>2
  <2>2. OnWay' = OnWay
    BY <1>2, <2>1 DEF OnWay
  <2> QED BY <2>1, <2>2 DEF WireStays, OnWay
<1>3. ASSUME NEW ms \in Seq(ToAgentMessage), \A i \in DOMAIN ms : ms[i].type # "watch",
             toAgent' = toAgent \o ms
      PROVE  WireStays
  <2>1. /\ DOMAIN toAgent = 1..Len(toAgent) /\ DOMAIN toAgent' = 1..(Len(toAgent) + Len(ms))
        /\ \A i \in DOMAIN toAgent : toAgent'[i] = toAgent[i]
        /\ \A i \in DOMAIN toAgent' : i > Len(toAgent) => toAgent'[i] = ms[i - Len(toAgent)]
        /\ Len(toAgent) \in Nat /\ Len(ms) \in Nat /\ DOMAIN ms = 1..Len(ms)
    BY <1>3
  <2>2. OnWay' = OnWay
    BY <1>3, <2>1 DEF OnWay
  <2> QED BY <2>1, <2>2 DEF WireStays, OnWay
<1>4. ASSUME toAgent # <<>>, Head(toAgent).type # "watch", toAgent' = Tail(toAgent) PROVE WireStays
  <2>1. /\ Len(toAgent) \in Nat /\ Len(toAgent) > 0 /\ DOMAIN toAgent = 1..Len(toAgent)
        /\ DOMAIN toAgent' = 1..(Len(toAgent) - 1) /\ toAgent[1].type # "watch"
        /\ \A i \in DOMAIN toAgent' : toAgent'[i] = toAgent[i + 1]
    BY <1>4
  <2>2. \A i \in OnWay' : i + 1 \in OnWay /\ toAgent'[i] = toAgent[i + 1]
    BY <2>1 DEF OnWay
  <2>3. ASSUME NEW k \in OnWay PROVE k - 1 \in OnWay' /\ k \in Int
    <3>0. k \in DOMAIN toAgent /\ toAgent[k].type = "watch"
      BY DEF OnWay
    <3>1. k \in 1..Len(toAgent) /\ k # 1
      BY <2>1, <3>0
    <3>2. k - 1 \in 1..(Len(toAgent) - 1) /\ (k - 1) + 1 = k
      BY <2>1, <3>1
    <3>3. toAgent'[k - 1] = toAgent[k]
      BY <2>1, <3>2
    <3> QED BY <2>1, <3>0, <3>1, <3>2, <3>3 DEF OnWay
  <2>4. ASSUME NEW i \in OnWay', \A n \in OnWay' : n <= i PROVE \A n \in OnWay : n <= i + 1
    <3>1. i \in Int
      BY <2>1 DEF OnWay
    <3> QED BY <2>3, <2>4, <3>1
  <2> QED BY <2>2, <2>3, <2>4 DEF WireStays
<1> QED BY <1>1, <1>2, <1>3, <1>4 DEF Send

\* The same lists are under way.
ListsStay == Sending' = Sending /\ (Awaited => Awaited') /\ WireStays

\* The watchers stay, and are not misdirected unless history says so.
JobsStay ==
    /\ silent \subseteq silent' /\ misdirected \subseteq misdirected'
    /\ Awaited' \/ \A j \in Jobs \ silent' : SameWatch(j)
    /\ \A j \in Jobs : jobs'[j] = None => jobs[j] = None
    /\ \A j \in Jobs \ misdirected' : jobs'[j] \notin {None, Deleted} =>
          \/ jobs[j] = None \/ ~Heard(j)
          \/ Exists(j) /\ jobs'[j].path = jobs[j].path

\* Then what is watched fits.
LEMMA KeepsWatch ==
    ASSUME WatchInv, ListsStay, JobsStay, conn = 0 => toHub' = <<>>,
           UNCHANGED <<conn, registered, watching, monitored, overtaken>>
    PROVE  WatchInv'
<1> USE DEF WatchInv
<1>1. ConnFits'
  BY DEF ConnFits, ListsStay
<1>2. Underway' = Underway
  BY DEF Underway, ListsStay
<1>3. \A i \in OnWay' : \E k \in OnWay : toAgent'[i] = toAgent[k]
  BY DEF ListsStay, WireStays
<1>4. NoneWatched'
  BY <1>3 DEF NoneWatched, JobsStay, ListsStay
<1>5. OnePath'
  <2> SUFFICES ASSUME NEW j \in Jobs, j \notin misdirected', jobs'[j] \notin {None, Deleted}
      PROVE /\ watching[j] \in {None, jobs'[j].path}
            /\ \A t \in Underway : t.list[j] # None => t.list[j].path = jobs'[j].path
            /\ \A i \in OnWay : toAgent[i].list[j] # None => toAgent[i].list[j].path = jobs'[j].path
    BY <1>2, <1>3 DEF OnePath, Own, Exists
  <2>1. CASE jobs[j] = None
    BY <2>1 DEF NoneWatched, Underway
  <2>2. CASE ~Heard(j)
    BY <2>2 DEF Heard, Underway, Sending, OnWay
  <2>3. CASE Exists(j) /\ jobs'[j].path = jobs[j].path
    BY <2>3 DEF OnePath, Own, JobsStay
  <2> QED BY <2>1, <2>2, <2>3 DEF JobsStay
<1>6. ListsFit'
  <2> SUFFICES ASSUME registered', ~Awaited'
      PROVE  /\ \A t \in Underway' : ~t.old => UpToDate(t.list)'
             /\ (\A t \in Underway' : t.old) /\ ~overtaken' => LastFits'
    BY DEF ListsFit
  <2>1. registered /\ ~Awaited
    BY DEF ListsStay
  <2>2. ASSUME NEW j \in Jobs, j \notin silent'
        PROVE  /\ j \notin silent /\ WatchedRow(j)' = WatchedRow(j)
               /\ LocalPath(jobs, j, "watch")' = LocalPath(jobs, j, "watch")
               /\ LocalPath(jobs, j, "connect")' = LocalPath(jobs, j, "connect")
    BY <2>2, SameWatchRow DEF JobsStay
  <2>3. ASSUME NEW list, UpToDate(list) PROVE UpToDate(list)'
    BY <2>2, <2>3 DEF UpToDate
  <2>4. \A t \in Underway' : ~t.old => UpToDate(t.list)'
    BY <1>2, <2>1, <2>3 DEF ListsFit
  <2>5. ASSUME \A t \in Underway' : t.old, ~overtaken' PROVE LastFits'
    <3>1. LastFits
      BY <1>2, <2>1, <2>5 DEF ListsFit
    <3>2. ASSUME OnWay' = {} PROVE AgentFits'
      <4>1. AgentFits
        BY <3>1, <3>2 DEF LastFits, ListsStay, WireStays
      <4> QED BY <2>2, <4>1 DEF AgentFits, JobsStay
    <3>3. ASSUME NEW i \in OnWay', \A k \in OnWay' : k <= i
          PROVE  \A j \in Jobs \ silent' : toAgent'[i].list[j] = WatchedRow(j)'
      <4>1. PICK k \in OnWay : toAgent'[i] = toAgent[k] /\ \A n \in OnWay : n <= k
        BY <3>3 DEF ListsStay, WireStays
      <4>2. PICK list : list = toAgent[k].list
        OBVIOUS
      <4>3. UpToDate(toAgent[k].list)
        BY <3>1, <4>1 DEF LastFits
      <4>4. \A j \in Jobs \ silent : list[j] = WatchedRow(j)
        BY <4>2, <4>3 DEF UpToDate
      <4> QED BY <2>2, <4>1, <4>2, <4>4
    <3>4. LastFits' <=> /\ OnWay' = {} => AgentFits'
                        /\ \A i \in OnWay' : (\A k \in OnWay' : k <= i) =>
                              \A j \in Jobs \ silent' : toAgent'[i].list[j] = WatchedRow(j)'
      BY DEF LastFits, UpToDate
    <3> QED BY <3>2, <3>3, <3>4
  <2> QED BY <2>4, <2>5
<1> QED BY <1>1, <1>4, <1>5, <1>6

\* A handler without a list begins ...
LEMMA OtherBegins ==
    ASSUME TasksOK, NEW u, ~Listed(u), Begin(u)
    PROVE  Sending' = Sending /\ (Awaited => Awaited') /\ (Telling(u) => Awaited')
<1>1. DOMAIN tasks' = DOMAIN tasks \cup {u}
  BY Begins DEF TasksOK
<1> QED BY <1>1 DEF Sending, Awaited, AtWork, BagToSet, Listed

\* ... goes on ...
LEMMA OtherGoesOn ==
    ASSUME TasksOK, NEW t, NEW u, ~Listed(t), ~Listed(u), Continue(t, u), Telling(t) => Telling(u)
    PROVE  Sending' = Sending /\ (Awaited => Awaited') /\ (Telling(u) => Awaited')
<1>1. /\ u \in DOMAIN tasks' /\ DOMAIN tasks \ {t} \subseteq DOMAIN tasks'
      /\ DOMAIN tasks' \subseteq DOMAIN tasks \cup {u}
  BY Continues DEF TasksOK
<1>2. Sending' = Sending
  BY <1>1 DEF Sending, AtWork, BagToSet, Listed
<1>3. Telling(u) => Awaited'
  BY <1>1 DEF Awaited, BagToSet
<1>4. Awaited => Awaited'
  <2> SUFFICES ASSUME NEW s \in DOMAIN tasks, Telling(s) PROVE Awaited'
    BY DEF Awaited, BagToSet
  <2>1. CASE s = t
    BY <1>3, <2>1
  <2>2. CASE s # t
    BY <1>1, <2>2 DEF Awaited, BagToSet
  <2> QED BY <2>1, <2>2
<1> QED BY <1>2, <1>3, <1>4

\* ... and ends.
LEMMA OtherEnds ==
    ASSUME TasksOK, NEW t, ~Listed(t), ~Telling(t), End(t)
    PROVE  Sending' = Sending /\ (Awaited => Awaited')
<1>1. /\ DOMAIN tasks \ {t} \subseteq DOMAIN tasks' /\ DOMAIN tasks' \subseteq DOMAIN tasks
  BY Ends DEF TasksOK
<1> QED BY <1>1 DEF Sending, Awaited, AtWork, BagToSet, Listed

\* Of the jobs, only what runs write changes.
LEMMA KeepsSettings ==
    ASSUME WatchInv, SameSettings, ListsStay, conn = 0 => toHub' = <<>>,
           UNCHANGED <<silent, misdirected, conn, registered, watching, monitored, overtaken>>
    PROVE  WatchInv'
<1>1. \A j \in Jobs : SameWatch(j) /\ (jobs'[j] = None => jobs[j] = None)
                      /\ (jobs'[j] \notin {None, Deleted} => Exists(j) /\ jobs'[j].path = jobs[j].path)
  BY CatalogNone DEF SameSettings, SameWatch, Exists
<1>2. JobsStay
  BY <1>1 DEF JobsStay
<1> QED BY <1>2, KeepsWatch

\* A request or a handler of the catalog tells the agent, or is silent about what it changes.
LEMMA CatalogKeeps ==
    ASSUME WatchInv, Noting, UNCHANGED <<netVars, watcherVars, overtaken>>,
           TasksOK, toAgent \in Seq(ToAgentMessage),
           Sending' = Sending, Awaited => Awaited', silent \subseteq silent',
           Awaited' \/ \A j \in Jobs \ silent' : SameWatch(j),
           \A j \in Jobs : (jobs'[j] = None => jobs[j] = None) /\ (jobs[j] = Deleted => jobs'[j] = Deleted)
    PROVE  WatchInv'
<1>1. UNCHANGED <<conn, registered, toAgent, toHub, watching, monitored, overtaken>>
  BY DEF netVars, watcherVars
<1>2. ListsStay
  BY <1>1, OtherMessages DEF ListsStay
<1>3. ASSUME NEW j \in Jobs, j \notin misdirected', jobs'[j] \notin {None, Deleted}
      PROVE  jobs[j] = None \/ ~Heard(j) \/ (Exists(j) /\ jobs'[j].path = jobs[j].path)
  BY <1>3 DEF Noting, Exists
<1>4. JobsStay
  BY <1>3 DEF JobsStay, Noting
<1>5. conn = 0 => toHub' = <<>>
  BY <1>1 DEF WatchInv, ConnFits
<1> QED BY <1>1, <1>2, <1>4, <1>5, KeepsWatch

\* What requests do.
LEMMA RequestsWatch ==
    ASSUME CatalogTypes, AutoTypes, WatchInv, Requests, Noting,
           UNCHANGED <<netVars, watcherVars, overtaken>>
    PROVE  WatchInv'
<1>1. TasksOK /\ toAgent \in Seq(ToAgentMessage) /\ ~Listed(Tell) /\ Telling(Tell)
  BY DEF CatalogTypes, AutoTypes, Listed, Telling, Tell
<1>2. ASSUME NEW u, ~Listed(u), UNCHANGED tasks \/ Begin(u), UNCHANGED <<jobs, silent>>
      PROVE  WatchInv'
  <2>1. Sending' = Sending /\ (Awaited => Awaited')
    BY <1>1, <1>2, OtherBegins DEF Sending, Awaited, AtWork, BagToSet
  <2>2. \A j \in Jobs : SameWatch(j)
    BY <1>2 DEF SameWatch
  <2>3. \A j \in Jobs : (jobs'[j] = None => jobs[j] = None) /\ (jobs[j] = Deleted => jobs'[j] = Deleted)
    BY <1>2
  <2> QED BY <1>1, <1>2, <2>1, <2>2, <2>3, CatalogKeeps
<1>3. ASSUME NEW p \in Paths, NEW a \in budget.offers, PostJob(p, a) PROVE WatchInv'
  <2>1. a \in Settings /\ now \in Times
    BY DEF CatalogTypes, Bounds
  <2> DEFINE row == NewRow(None, None, p, a)
  <2>2. row \in Row
    BY <2>1, NewRowTyped
  <2>3. jobs' = [jobs EXCEPT ![NewId] = row] /\ Unused # {} /\ Begin(Tell) /\ silent' = silent
    BY <1>3 DEF PostJob, catalogHistory
  <2> HIDE DEF row
  <2>4. NewId \in Jobs /\ jobs[NewId] = None
    BY <2>3, NewIdTyped
  <2>5. \A j \in Jobs : (jobs'[j] = None => jobs[j] = None) /\ (jobs[j] = Deleted => jobs'[j] = Deleted)
    BY <2>2, <2>3, <2>4, CatalogNone DEF CatalogTypes, Rows
  <2>6. Sending' = Sending /\ Awaited'
    BY <1>1, <2>3, OtherBegins
  <2> QED BY <1>1, <2>3, <2>5, <2>6, CatalogKeeps
<1>4. ASSUME NEW j \in Jobs, DeleteJob(j) PROVE WatchInv'
  <2>1. Exists(j) /\ jobs' = [jobs EXCEPT ![j] = Deleted] /\ Begin(Tell) /\ silent' = silent
    BY <1>4 DEF DeleteJob
  <2>2. \A i \in Jobs : (jobs'[i] = None => jobs[i] = None) /\ (jobs[i] = Deleted => jobs'[i] = Deleted)
    BY <2>1, CatalogNone DEF CatalogTypes, Rows
  <2>3. Sending' = Sending /\ Awaited'
    BY <1>1, <2>1, OtherBegins
  <2> QED BY <1>1, <2>1, <2>2, <2>3, CatalogKeeps
<1>5. ASSUME NEW todo, NEW patch, NEW tell, Begin(Update(todo, patch, tell)), UNCHANGED <<jobs, silent>>
      PROVE  WatchInv'
  <2>1. ~Listed(Update(todo, patch, tell))
    BY DEF Update, Listed
  <2> QED BY <1>2, <1>5, <2>1
<1>6. ASSUME NEW step, NEW todo, NEW sources, NEW triggers, NEW next, NEW removed,
             BeginAssign(Assign(step, todo, sources, triggers, next, removed)), UNCHANGED <<jobs, silent>>
      PROVE  WatchInv'
  <2>1. PICK u : u = Assign(step, todo, sources, triggers, next, removed)
    OBVIOUS
  <2>2. ~Listed(u) /\ Begin(u)
    BY <1>6, <2>1 DEF Assign, Listed, BeginAssign
  <2> QED BY <1>2, <1>6, <2>2
<1>7. ASSUME UNCHANGED <<jobs, tasks, silent>> PROVE WatchInv'
  BY <1>1, <1>2, <1>7
<1>8. ASSUME NEW j \in Jobs, NEW patch, PatchJob(j, patch) PROVE WatchInv'
  BY <1>5, <1>8 DEF PatchJob, catalogHistory
<1>9. ASSUME NEW ds \in SUBSET Devices, NEW drop \in BOOLEAN, PatchCollection(ds, drop) PROVE WatchInv'
  <2>1. /\ BeginAssign(Assign("members", ds \ members, links, None, ds,
                              [devices |-> members \ ds, drop |-> drop]))
        /\ UNCHANGED <<jobs, silent>>
    BY <1>9 DEF PatchCollection
  <2> QED BY <1>6, <2>1
<1>10. ASSUME NEW t \in Templates, PropagateTemplate(t) PROVE WatchInv'
  <2>1. /\ Begin(Update({j \in Jobs : Exists(j) /\ jobs[j].pair # None /\ jobs[j].pair[1] = t},
                        [auto |-> defaults[t]], FALSE))
        /\ UNCHANGED <<jobs, silent>>
    BY <1>10 DEF PropagateTemplate, catalogHistory
  <2> QED BY <1>5, <2>1
<1>11. ASSUME NEW t \in Templates, Unapply(t) \/ DeleteTemplate(t) PROVE WatchInv'
  BY <1>7, <1>11 DEF Unapply, DeleteTemplate, catalogHistory
<1>12. ASSUME NEW t \in Templates, NEW p \in Paths, ApplyTemplate(t, p) PROVE WatchInv'
  <2>1. /\ BeginAssign(Assign("link", {t} \X members, [u \in Templates |-> p], defaults[t], t,
                              [devices |-> {}, drop |-> FALSE]))
        /\ UNCHANGED <<jobs, silent>>
    BY <1>12 DEF ApplyTemplate
  <2> QED BY <1>6, <2>1
<1>13. ASSUME NEW t \in Templates, NEW a \in budget.offers, PatchTemplate(t, a) PROVE WatchInv'
  BY <1>7, <1>13 DEF PatchTemplate, catalogHistory
<1>14. ASSUME DeleteCollection PROVE WatchInv'
  BY <1>7, <1>14 DEF DeleteCollection, catalogHistory
<1> QED BY <1>3, <1>4, <1>8, <1>9, <1>10, <1>11, <1>12, <1>13, <1>14 DEF Requests

\* What the catalog's handlers do.
LEMMA HandlersWatch ==
    ASSUME CatalogTypes, AutoTypes, WatchInv, Handlers, Noting,
           UNCHANGED <<netVars, watcherVars, overtaken>>
    PROVE  WatchInv'
<1>1. TasksOK /\ toAgent \in Seq(ToAgentMessage) /\ jobs \in Rows /\ ~Listed(Tell) /\ Telling(Tell)
  BY DEF CatalogTypes, AutoTypes, Listed, Telling, Tell
<1>2. ASSUME Sending' = Sending, Awaited => Awaited', UNCHANGED <<jobs, silent>> PROVE WatchInv'
  <2>1. \A j \in Jobs : SameWatch(j)
    BY <1>2 DEF SameWatch
  <2>2. \A j \in Jobs : (jobs'[j] = None => jobs[j] = None) /\ (jobs[j] = Deleted => jobs'[j] = Deleted)
    BY <1>2
  <2> QED BY <1>1, <1>2, <2>1, <2>2, CatalogKeeps
<1>3. ASSUME NEW t, UpdateReads(t) PROVE WatchInv'
  <2>1. t \in UpdateTask /\ t.kind = "update"
    BY <1>1, <1>3, Handler DEF UpdateReads
  <2>2. PICK j \in t.todo : \/ Continue(t, [t EXCEPT !.job = j, !.row = jobs[j]])
                            \/ Continue(t, [t EXCEPT !.todo = @ \ {j}])
                            \/ End(t)
    BY <1>3 DEF UpdateReads
  <2>3. ~Listed(t) /\ ~Telling(t)
    BY <2>1, <2>2 DEF Listed, Telling
  <2>4. PICK u : ~Listed(u) /\ (Continue(t, u) \/ End(t))
    <3>1. PICK row : row = jobs[j]
      OBVIOUS
    <3>2. ~Listed([t EXCEPT !.job = j, !.row = row])
      BY <2>1 DEF UpdateTask, Listed
    <3>3. ~Listed([t EXCEPT !.todo = @ \ {j}])
      BY <2>1 DEF UpdateTask, Listed
    <3> QED BY <2>2, <3>1, <3>2, <3>3
  <2>5. Sending' = Sending /\ (Awaited => Awaited')
    BY <1>1, <2>3, <2>4, OtherGoesOn, OtherEnds
  <2> QED BY <1>2, <1>3, <2>5 DEF UpdateReads, catalogHistory
<1>4. ASSUME NEW t, UpdateWrites(t) PROVE WatchInv'
  <2>1. t \in UpdateTask /\ UpdateOK(t) /\ t.kind = "update" /\ t.job \in Jobs /\ t.row \in Row
    BY <1>1, <1>4, Handler DEF UpdateWrites, UpdateTask, UpdateOK
  <2>2. PICK u : u = [t EXCEPT !.job = None, !.row = None, !.todo = @ \ {t.job}]
    OBVIOUS
  <2>3. u.kind = "update" /\ u.tell = t.tell /\ (t.tell => u.todo = {})
    BY <2>1, <2>2, CatalogNone DEF UpdateTask, UpdateOK
  <2>4. ~Listed(t) /\ ~Listed(u) /\ (Telling(t) => Telling(u)) /\ (t.tell => Telling(u))
    BY <2>1, <2>3 DEF Listed, Telling
  <2>5. Continue(t, u) /\ silent' = (IF t.tell THEN silent ELSE silent \cup {t.job})
    BY <1>4, <2>2 DEF UpdateWrites
  <2>6. Sending' = Sending /\ (Awaited => Awaited') /\ (t.tell => Awaited')
    BY <1>1, <2>4, <2>5, OtherGoesOn
  <2> DEFINE m == Merged(t.row, t.patch)
  <2>7. m.path \in Paths /\ m.auto \in Settings
    BY <2>1 DEF Merged, UpdateTask, Row
  <2>8. jobs' = IF Exists(t.job)
                THEN [jobs EXCEPT ![t.job].path = m.path, ![t.job].auto = m.auto] ELSE jobs
    BY <1>4 DEF UpdateWrites
  <2> HIDE DEF m
  <2>9. /\ \A j \in Jobs \ {t.job} : jobs'[j] = jobs[j]
        /\ ~Exists(t.job) => jobs'[t.job] = jobs[t.job]
        /\ Exists(t.job) => jobs'[t.job] \in Row
    <3>1. CASE Exists(t.job)
      <4> DEFINE row == [jobs[t.job] EXCEPT !.path = m.path, !.auto = m.auto]
      <4>1. row \in Row
        BY <1>1, <2>1, <2>7, <3>1, ExistsRow DEF Row
      <4>2. jobs' = [jobs EXCEPT ![t.job] = row]
        BY <1>1, <2>1, <2>8, <3>1, ExistsRow DEF Rows, Row
      <4> HIDE DEF row
      <4> QED BY <1>1, <2>1, <3>1, <4>1, <4>2 DEF Rows
    <3> QED BY <2>8, <3>1
  <2>10. \A j \in Jobs : (jobs'[j] = None => jobs[j] = None) /\ (jobs[j] = Deleted => jobs'[j] = Deleted)
    BY <2>1, <2>9, CatalogNone DEF Exists
  <2>11. Awaited' \/ \A j \in Jobs \ silent' : SameWatch(j)
    BY <2>5, <2>6, <2>9 DEF SameWatch
  <2> QED BY <1>1, <2>5, <2>6, <2>10, <2>11, CatalogKeeps
<1>5. ASSUME NEW t, UpdateEnds(t) PROVE WatchInv'
  <2>1. t \in UpdateTask /\ t.kind = "update"
    BY <1>1, <1>5, Handler DEF UpdateEnds
  <2>2. ~Listed(t) /\ (~t.tell => ~Telling(t))
    BY <2>1 DEF Listed, Telling
  <2>3. Sending' = Sending /\ (Awaited => Awaited')
    <3>1. CASE t.tell
      <4>1. Continue(t, Tell)
        BY <1>5, <3>1 DEF UpdateEnds
      <4> QED BY <1>1, <2>2, <4>1, OtherGoesOn
    <3>2. CASE ~t.tell
      <4>1. End(t)
        BY <1>5, <3>2 DEF UpdateEnds
      <4> QED BY <1>1, <2>2, <3>2, <4>1, OtherEnds
    <3> QED BY <3>1, <3>2
  <2> QED BY <1>2, <1>5, <2>3 DEF UpdateEnds, catalogHistory
<1>6. ASSUME NEW t \in AtWork(Assigning), NEW u, u.kind = "assign", Continue(t, u) \/ End(t)
      PROVE  Sending' = Sending /\ (Awaited => Awaited')
  <2>1. ~Listed(t) /\ ~Listed(u) /\ ~Telling(t)
    BY <1>6, Assigner DEF Listed, Telling
  <2>2. CASE Continue(t, u)
    BY <1>1, <2>1, <2>2, OtherGoesOn
  <2>3. CASE End(t)
    BY <1>1, <2>1, <2>3, OtherEnds
  <2> QED BY <1>6, <2>2, <2>3
<1>7. ASSUME NEW t \in AtWork(Assigning), NEW u, u.kind = "assign", Continue(t, u) \/ End(t),
             UNCHANGED <<jobs, silent>>
      PROVE  WatchInv'
  <2>1. Sending' = Sending /\ (Awaited => Awaited')
    BY <1>6, <1>7
  <2> QED BY <1>2, <1>7, <2>1
<1>8. ASSUME NEW t, WriteMembers(t) PROVE WatchInv'
  <2>1. t \in AtWork(Assigning) /\ UNCHANGED <<jobs, silent>>
        /\ (Continue(t, [t EXCEPT !.step = "links"]) \/ End(t))
    BY <1>8 DEF WriteMembers, catalogHistory
  <2>2. PICK u : u = [t EXCEPT !.step = "links"]
    OBVIOUS
  <2>3. u.kind = "assign"
    BY <2>1, <2>2, Assigner DEF AssignTask
  <2> QED BY <1>7, <2>1, <2>2, <2>3
<1>9. ASSUME NEW t, ReadLinks(t) PROVE WatchInv'
  <2>1. t \in AtWork(Assigning) /\ UNCHANGED <<jobs, silent>>
    BY <1>9 DEF ReadLinks, catalogHistory
  <2>2. PICK u : u = [t EXCEPT !.step = "jobs", !.sources = links, !.next = None,
                               !.todo = {v \in Templates : links[v] # None} \X @]
    OBVIOUS
  <2>3. u.kind = "assign"
    BY <2>1, <2>2, Assigner DEF AssignTask
  <2>4. Continue(t, u)
    BY <1>9, <2>2 DEF ReadLinks
  <2> QED BY <1>7, <2>1, <2>3, <2>4
<1>10. ASSUME NEW t, FindLink(t) PROVE WatchInv'
  <2>1. t \in AtWork(Assigning) /\ UNCHANGED <<jobs, silent>>
    BY <1>10 DEF FindLink, catalogHistory
  <2>2. PICK u : u = [t EXCEPT !.step = IF links[t.next] = None THEN "insert" ELSE "relink",
                         !.link = linkIds[t.next]]
    OBVIOUS
  <2>3. u.kind = "assign"
    BY <2>1, <2>2, Assigner DEF AssignTask
  <2>4. Continue(t, u)
    BY <1>10, <2>2 DEF FindLink
  <2> QED BY <1>7, <2>1, <2>3, <2>4
<1>11. ASSUME NEW t, WriteLink(t) PROVE WatchInv'
  <2>1. t \in AtWork(Assigning) /\ UNCHANGED <<jobs, silent>>
    BY <1>11 DEF WriteLink, catalogHistory
  <2>2. PICK u : u = [t EXCEPT !.step = "jobs", !.link = 0]
    OBVIOUS
  <2>3. u.kind = "assign"
    BY <2>1, <2>2, Assigner DEF AssignTask
  <2>4. Continue(t, u)
    BY <1>11, <2>2 DEF WriteLink
  <2> QED BY <1>7, <2>1, <2>3, <2>4
<1>12. ASSUME NEW t, ReadTemplate(t) PROVE WatchInv'
  <2>1. t \in AtWork(Assigning) /\ UNCHANGED <<jobs, silent>>
    BY <1>12 DEF ReadTemplate, catalogHistory
  <2>2. PICK p \in t.todo :
          Continue(t, IF defaults[p[1]] = None
                      THEN [t EXCEPT !.todo = {q \in @ : q[1] # p[1]}]
                      ELSE [t EXCEPT !.triggers = defaults[p[1]], !.next = p[1]])
    BY <1>12 DEF ReadTemplate
  <2>3. PICK u : u = IF defaults[p[1]] = None
                     THEN [t EXCEPT !.todo = {q \in @ : q[1] # p[1]}]
                     ELSE [t EXCEPT !.triggers = defaults[p[1]], !.next = p[1]]
    OBVIOUS
  <2>4. u.kind = "assign"
    BY <2>1, <2>3, Assigner DEF AssignTask
  <2> QED BY <1>7, <2>1, <2>2, <2>3, <2>4
<1>13. ASSUME NEW t, FindJob(t) PROVE WatchInv'
  <2>1. t \in AtWork(Assigning) /\ UNCHANGED <<jobs, silent>>
    BY <1>13 DEF FindJob, catalogHistory
  <2>2. PICK p \in t.todo : Continue(t, [t EXCEPT
          !.todo = @ \ {p},
          !.triggers = IF \E q \in t.todo \ {p} : q[1] = t.next THEN @ ELSE None,
          !.draft = IF Found(p) THEN None ELSE NewRow(p, p[2], t.sources[p[1]], t.triggers)])
    BY <1>13 DEF FindJob
  <2>3. PICK u : u = [t EXCEPT
          !.todo = @ \ {p},
          !.triggers = IF \E q \in t.todo \ {p} : q[1] = t.next THEN @ ELSE None,
          !.draft = IF Found(p) THEN None ELSE NewRow(p, p[2], t.sources[p[1]], t.triggers)]
    OBVIOUS
  <2>4. u.kind = "assign"
    BY <2>1, <2>3, Assigner DEF AssignTask
  <2> QED BY <1>7, <2>1, <2>2, <2>3, <2>4
<1>14. ASSUME NEW t, CreateJob(t) PROVE WatchInv'
  <2>1. t \in AtWork(Assigning) /\ t.draft # None /\ Unused # {}
        /\ silent' = silent \cup {NewId}
    BY <1>14 DEF CreateJob
  <2>2. t \in AssignTask /\ now \in Times
    BY <2>1, Assigner DEF CatalogTypes
  <2>3. PICK row : row = [t.draft EXCEPT !.createdAt = now]
    OBVIOUS
  <2>4. row \in Row
    BY <2>1, <2>2, <2>3 DEF AssignTask, Row
  <2>5. jobs' = [jobs EXCEPT ![NewId] = row]
    BY <1>14, <2>3 DEF CreateJob
  <2>6. NewId \in Jobs /\ jobs[NewId] = None
    BY <2>1, NewIdTyped
  <2>8. \A j \in Jobs : (jobs'[j] = None => jobs[j] = None) /\ (jobs[j] = Deleted => jobs'[j] = Deleted)
    BY <1>1, <2>4, <2>5, <2>6, CatalogNone DEF Rows
  <2>9. \A j \in Jobs \ silent' : SameWatch(j)
    BY <1>1, <2>1, <2>5, <2>6 DEF SameWatch, Rows
  <2>10. PICK u : u = [t EXCEPT !.draft = None]
    OBVIOUS
  <2>11. u.kind = "assign" /\ Continue(t, u)
    BY <1>14, <2>2, <2>10 DEF CreateJob, AssignTask
  <2>12. Sending' = Sending /\ (Awaited => Awaited')
    BY <1>6, <2>1, <2>11
  <2> QED BY <1>1, <2>1, <2>8, <2>9, <2>12, CatalogKeeps
<1>15. ASSUME NEW t, FinishAssign(t) PROVE WatchInv'
  <2>1. t \in AtWork(Assigning) /\ End(t)
    BY <1>15 DEF FinishAssign
  <2>2. PICK gone : gone = Orphans(t.removed)
    OBVIOUS
  <2>3. /\ jobs' = [j \in Jobs |-> IF j \in gone THEN Deleted ELSE jobs[j]]
        /\ silent' = silent \cup gone
    BY <1>15, <2>2 DEF FinishAssign
  <2>4. \A j \in Jobs : (jobs'[j] = None => jobs[j] = None) /\ (jobs[j] = Deleted => jobs'[j] = Deleted)
    BY <2>3, CatalogNone
  <2>5. \A j \in Jobs \ silent' : SameWatch(j)
    BY <2>3 DEF SameWatch
  <2>6. t.kind = "assign"
    BY <2>1, Assigner
  <2>7. Sending' = Sending /\ (Awaited => Awaited')
    BY <1>6, <2>1, <2>6
  <2> QED BY <1>1, <2>3, <2>4, <2>5, <2>7, CatalogKeeps
<1> QED BY <1>3, <1>4, <1>5, <1>8, <1>9, <1>10, <1>11, <1>12, <1>13, <1>14, <1>15 DEF Handlers

\* Handlers that neither read the jobs nor will tell leave it to the others.
LEMMA OtherKinds ==
    ASSUME TasksOK, NEW t, NEW u,
           t.kind \notin {"watch", "update"}, u.kind \notin {"watch", "update"},
           Begin(u) \/ Continue(t, u) \/ End(t) \/ UNCHANGED tasks
    PROVE  Sending' = Sending /\ (Awaited => Awaited')
<1>1. ~Listed(t) /\ ~Listed(u) /\ ~Telling(t) /\ ~Telling(u)
  BY DEF Listed, Telling
<1>2. CASE Begin(u)
  BY <1>1, <1>2, OtherBegins
<1>3. CASE Continue(t, u)
  BY <1>1, <1>3, OtherGoesOn
<1>4. CASE End(t)
  BY <1>1, <1>4, OtherEnds
<1>5. CASE UNCHANGED tasks
  BY <1>5 DEF Sending, Awaited, AtWork, BagToSet
<1> QED BY <1>2, <1>3, <1>4, <1>5

\* The agent registers: it will be told.
LEMMA RegisterWatches ==
    ASSUME CatalogTypes, WatchInv, HubRegister
    PROVE  WatchInv'
<1>1. PICK u : u = [Tell EXCEPT !.then = "queued"]
  OBVIOUS
<1>2. Begin(u) /\ ~Listed(u) /\ Telling(u)
  BY <1>1 DEF HubRegister, Tell, Listed, Telling
<1>3. Sending' = Sending /\ Awaited'
  BY <1>2, OtherBegins DEF CatalogTypes
<1>4. /\ toHub # <<>>
      /\ UNCHANGED <<jobs, conn, toAgent, watching, monitored, misdirected, overtaken>>
  BY DEF HubRegister, Received, watcherVars
<1>5. Underway' = Underway /\ OnWay' = OnWay
  BY <1>3, <1>4 DEF Underway, OnWay
<1> USE DEF WatchInv
<1>6. ConnFits'
  BY <1>3, <1>4 DEF ConnFits
<1>7. NoneWatched'
  BY <1>3, <1>4, <1>5 DEF NoneWatched
<1>8. OnePath'
  BY <1>4, <1>5 DEF OnePath, Own, Exists
<1>9. ListsFit'
  BY <1>3 DEF ListsFit
<1> QED BY <1>6, <1>7, <1>8, <1>9

\* The jobs are read: that list is up to date, and all others are old.
LEMMA ReadWatches ==
    ASSUME CatalogTypes, AutoTypes, WatchInv, NEW t, ReadWatched(t)
    PROVE  WatchInv'
<1>1. TasksOK /\ t \in AtWork({"watch"}) /\ t.list = None
      /\ UNCHANGED <<jobs, conn, registered, toAgent, toHub, watching, monitored, misdirected, overtaken>>
  BY DEF ReadWatched, CatalogTypes, autoVars, netVars, watcherVars
<1>2. t \in WatchTask /\ ~t.old /\ t.kind = "watch"
  BY <1>1, Handler DEF WatchTask
<1>3. OnWay' = OnWay
  BY <1>1 DEF OnWay
<1> USE DEF WatchInv
<1>4. CASE ~registered
  <2>1. End(t)
    BY <1>4 DEF ReadWatched
  <2>2. DOMAIN tasks \ {t} \subseteq DOMAIN tasks' /\ DOMAIN tasks' \subseteq DOMAIN tasks
    BY <1>1, <2>1, Ends DEF TasksOK
  <2>3. Sending' = Sending
    BY <1>1, <2>2 DEF Sending, AtWork, BagToSet
  <2>4. Underway' = Underway
    BY <1>1, <2>3 DEF Underway
  <2>5. ConnFits' /\ NoneWatched'
    BY <1>1, <1>3, <2>3 DEF ConnFits, NoneWatched
  <2>6. OnePath'
    BY <1>1, <1>3, <2>4 DEF OnePath, Own, Exists
  <2>7. ListsFit'
    BY <1>1, <1>4 DEF ListsFit
  <2> QED BY <2>5, <2>6, <2>7
<1>5. CASE registered
  <2>1. silent' = {}
    BY <1>5 DEF ReadWatched
  <2>2. PICK list : list = [j \in Jobs |-> IF Has(j, "watch") \/ Has(j, "connect")
                                           THEN Watch(jobs[j]) ELSE None]
    OBVIOUS
  <2>3. \A j \in Jobs : list[j] = WatchedRow(j)
    BY <2>2 DEF WatchedRow
  <2>4. PICK u : u = Reading(t)
    OBVIOUS
  <2>5. u.kind = "watch" /\ u.list = list /\ u.conn = conn /\ ~u.old
    BY <1>2, <2>2, <2>4 DEF Reading, WatchTask
  <2>6. /\ u \in DOMAIN tasks'
        /\ \A x \in DOMAIN tasks' :
              \/ x = u
              \/ x \in DOMAIN tasks /\ ~Listed(x)
              \/ \E s \in DOMAIN tasks : Listed(s) /\ s \in WatchTask /\ x = Aged(s)
    BY <1>1, <1>5, <2>4, Reads
  <2>7. \A s \in WatchTask : Aged(s).list = s.list /\ Aged(s).conn = s.conn /\ Aged(s).old
    BY DEF Aged, WatchTask
  <2>8. \A x \in Sending' : x = u \/ \E s \in Sending : /\ x.list = s.list /\ x.conn = s.conn
                                                        /\ x.old
    BY <2>6, <2>7 DEF Sending, AtWork, BagToSet, Listed
  <2>9. \A x \in Underway' : x = u \/ (x.old /\ \E s \in Underway : x.list = s.list)
    BY <1>1, <2>8 DEF Underway
  <2>10. None \notin Lists
    BY ListsAssumption
  <2>11. list \in Lists
    BY <2>2, ListTyped DEF CatalogTypes
  <2>12. u \in Underway'
    BY <1>1, <2>5, <2>6, <2>10, <2>11 DEF Underway, Sending, AtWork, BagToSet
  <2>13. ConnFits'
    BY <1>1, <1>5, <2>5, <2>8 DEF ConnFits
  <2>14. \A j \in Jobs : jobs[j] = None => list[j] = None
    BY <2>3 DEF WatchedRow, Has, Exists
  <2>15. NoneWatched'
    BY <1>1, <1>3, <2>5, <2>8, <2>14 DEF NoneWatched
  <2>16. \A j \in Jobs : list[j] = None \/ list[j].path = jobs[j].path
    <3> SUFFICES ASSUME NEW j \in Jobs, list[j] # None PROVE list[j].path = jobs[j].path
      OBVIOUS
    <3>1. list[j] = Watch(jobs[j])
      BY <2>3 DEF WatchedRow
    <3> QED BY <3>1 DEF Watch
  <2>17. OnePath'
    BY <1>1, <1>3, <2>5, <2>9, <2>16 DEF OnePath, Own, Exists
  <2>18. \A j \in Jobs \ silent' : list[j] = WatchedRow(j)'
    BY <1>1, <2>3 DEF WatchedRow, Has, Exists, Watch
  <2>19. \A x \in Underway' : ~x.old => \A j \in Jobs \ silent' : x.list[j] = WatchedRow(j)'
    BY <2>5, <2>9, <2>18
  <2>20. ~ \A x \in Underway' : x.old
    BY <2>5, <2>12
  <2>21. ListsFit' <=> (registered' /\ ~Awaited' =>
            /\ \A x \in Underway' : ~x.old => \A j \in Jobs \ silent' : x.list[j] = WatchedRow(j)'
            /\ (\A x \in Underway' : x.old) /\ ~overtaken' => LastFits')
    BY DEF ListsFit, UpToDate
  <2> QED BY <2>13, <2>15, <2>17, <2>19, <2>20, <2>21
<1> QED BY <1>4, <1>5

\* A list is sent: it is the last one now.
LEMMA SendWatches ==
    ASSUME CatalogTypes, AutoTypes, WatchInv, NEW t, SendWatched(t)
    PROVE  WatchInv'
<1>1. /\ TasksOK /\ t \in AtWork({"watch"}) /\ t.list # None
      /\ UNCHANGED <<jobs, silent, conn, registered, toHub, watching, monitored, misdirected>>
  BY DEF SendWatched, CatalogTypes, watcherVars, catalogHistory
<1>2. t \in Sending /\ t.kind = "watch" /\ ~Telling(t)
  BY <1>1 DEF Sending, AtWork, Telling
<1>3. PICK u : u = [kind |-> "resend", conn |-> t.conn]
  OBVIOUS
<1>4. ~Listed(u) /\ ~Telling(u) /\ (End(t) \/ Continue(t, u))
  BY <1>3 DEF SendWatched, Listed, Telling
<1>5. DOMAIN tasks \ {t} \subseteq DOMAIN tasks' /\ DOMAIN tasks' \subseteq DOMAIN tasks \cup {u}
  BY <1>1, <1>4, Ends, Continues DEF TasksOK
<1>6. Sending' \subseteq Sending /\ Sending \ {t} \subseteq Sending'
  BY <1>4, <1>5 DEF Sending, AtWork, BagToSet, Listed
<1>7. Awaited => Awaited'
  BY <1>2, <1>5 DEF Awaited, BagToSet
<1>8. t.conn # 0
  BY <1>2 DEF WatchInv, ConnFits
<1>9. Underway' \subseteq Underway /\ Underway \ {t} \subseteq Underway'
  BY <1>1, <1>6 DEF Underway
<1>10. \A j \in Jobs : WatchedRow(j)' = WatchedRow(j) /\ Exists(j)' = Exists(j)
  BY <1>1 DEF WatchedRow, Has, Exists, Watch
<1>11. AgentFits => AgentFits'
  BY <1>1 DEF AgentFits, LocalPath
<1> USE DEF WatchInv
<1>12. ConnFits'
  BY <1>1, <1>6 DEF ConnFits
<1>13. CASE t.conn # conn
  <2>1. toAgent' = toAgent /\ overtaken' = overtaken
    BY <1>13 DEF SendWatched
  <2>2. Underway' = Underway
    BY <1>9, <1>13 DEF Underway
  <2>3. OnWay' = OnWay
    BY <2>1 DEF OnWay
  <2>4. NoneWatched'
    BY <1>1, <1>6, <2>1, <2>3 DEF NoneWatched
  <2>5. OnePath'
    BY <1>1, <2>1, <2>2, <2>3 DEF OnePath, Own, Exists
  <2>6. ASSUME NEW list, UpToDate(list)
        PROVE  \A j \in Jobs \ silent' : list[j] = WatchedRow(j)'
    BY <1>1, <1>10, <2>6 DEF UpToDate
  <2>7. \A i \in OnWay' : UpToDate(toAgent[i].list) =>
           \A j \in Jobs \ silent' : toAgent'[i].list[j] = WatchedRow(j)'
    BY <2>1, <2>6
  <2>8. ListsFit' <=> (registered' /\ ~Awaited' =>
            /\ \A x \in Underway' : ~x.old => \A j \in Jobs \ silent' : x.list[j] = WatchedRow(j)'
            /\ (\A x \in Underway' : x.old) /\ ~overtaken' =>
                  /\ OnWay' = {} => AgentFits'
                  /\ \A i \in OnWay' : (\A k \in OnWay' : k <= i) =>
                         \A j \in Jobs \ silent' : toAgent'[i].list[j] = WatchedRow(j)')
    BY DEF ListsFit, UpToDate, LastFits
  <2>9. ListsFit'
    BY <1>1, <1>7, <1>11, <2>1, <2>2, <2>3, <2>6, <2>7, <2>8 DEF ListsFit, LastFits
  <2> QED BY <1>12, <2>4, <2>5, <2>9
<1>14. CASE t.conn = conn
  <2>1. PICK m : m = [type |-> "watch", list |-> t.list]
    OBVIOUS
  <2>2. toAgent' = Append(toAgent, m) /\ overtaken' = t.old
    BY <1>8, <1>14, <2>1 DEF SendWatched
  <2>3. PICK n : n = Len(toAgent) + 1
    OBVIOUS
  <2>4. /\ n \in Nat \ {0} /\ DOMAIN toAgent = 1..(n - 1) /\ DOMAIN toAgent' = 1..n
        /\ toAgent'[n] = m
        /\ \A i \in DOMAIN toAgent : toAgent'[i] = toAgent[i]
    BY <2>2, <2>3 DEF AutoTypes
  <2>5. n \in OnWay' /\ \A i \in OnWay' : i = n \/ (i \in OnWay /\ toAgent'[i] = toAgent[i])
    <3>1. m.type = "watch" /\ n \in 1..n
      BY <2>1, <2>4
    <3>2. \A i \in 1..n : i = n \/ i \in 1..(n - 1)
      BY <2>4
    <3> QED BY <2>4, <3>1, <3>2 DEF OnWay
  <2>6. toAgent'[n].list = t.list
    BY <2>1, <2>4
  <2>7. t \in Underway
    BY <1>2, <1>14 DEF Underway
  <2>8. NoneWatched'
    BY <1>1, <1>2, <1>6, <2>5, <2>6 DEF NoneWatched
  <2>9. OnePath'
    <3> SUFFICES ASSUME NEW j \in Jobs, j \notin misdirected', Exists(j)'
        PROVE  /\ watching'[j] \in {None, jobs'[j].path}
               /\ \A x \in Underway' : x.list[j] # None => x.list[j].path = jobs'[j].path
               /\ \A i \in OnWay' : toAgent'[i].list[j] # None => toAgent'[i].list[j].path = jobs'[j].path
      BY DEF OnePath, Own
    <3>1. j \in Jobs \ misdirected /\ Exists(j)
      BY <1>1, <1>10
    <3>2. /\ watching[j] \in {None, jobs[j].path}
          /\ \A x \in Underway : x.list[j] # None => x.list[j].path = jobs[j].path
          /\ \A i \in OnWay : toAgent[i].list[j] # None => toAgent[i].list[j].path = jobs[j].path
      BY <3>1 DEF OnePath, Own
    <3> QED BY <1>1, <1>9, <2>5, <2>6, <2>7, <3>2
  <2>10. ASSUME registered', ~Awaited'
         PROVE  \A x \in Underway : ~x.old => \A j \in Jobs \ silent' : x.list[j] = WatchedRow(j)'
    <3>1. \A x \in Underway : ~x.old => UpToDate(x.list)
      BY <1>1, <1>7, <2>10 DEF ListsFit
    <3> QED BY <1>1, <1>10, <3>1 DEF UpToDate
  <2>11. \A i \in OnWay' : (\A k \in OnWay' : k <= i) => i = n
    <3> SUFFICES ASSUME NEW i \in OnWay', \A k \in OnWay' : k <= i PROVE i = n
      OBVIOUS
    <3>1. i \in 1..n
      BY <2>4 DEF OnWay
    <3>2. n <= i
      BY <2>5
    <3> QED BY <2>4, <3>1, <3>2
  <2>12. ListsFit' <=> (registered' /\ ~Awaited' =>
            /\ \A x \in Underway' : ~x.old => \A j \in Jobs \ silent' : x.list[j] = WatchedRow(j)'
            /\ (\A x \in Underway' : x.old) /\ ~overtaken' =>
                  /\ OnWay' = {} => AgentFits'
                  /\ \A i \in OnWay' : (\A k \in OnWay' : k <= i) =>
                         \A j \in Jobs \ silent' : toAgent'[i].list[j] = WatchedRow(j)')
    BY DEF ListsFit, UpToDate, LastFits
  <2>13. ListsFit'
    <3> SUFFICES ASSUME registered', ~Awaited'
        PROVE /\ \A x \in Underway' : ~x.old => \A j \in Jobs \ silent' : x.list[j] = WatchedRow(j)'
              /\ ~overtaken' => \A i \in OnWay' : (\A k \in OnWay' : k <= i) =>
                         \A j \in Jobs \ silent' : toAgent'[i].list[j] = WatchedRow(j)'
      BY <2>5, <2>12
    <3>1. ~t.old => \A j \in Jobs \ silent' : t.list[j] = WatchedRow(j)'
      BY <2>7, <2>10
    <3>2. ASSUME ~overtaken', NEW i \in OnWay', \A k \in OnWay' : k <= i, NEW j \in Jobs \ silent'
          PROVE  toAgent'[i].list[j] = WatchedRow(j)'
      <4>1. i = n
        BY <2>11, <3>2
      <4> QED BY <2>2, <2>6, <3>1, <3>2, <4>1
    <3> QED BY <1>9, <2>10, <3>2
  <2> QED BY <1>12, <2>8, <2>9, <2>13
<1> QED BY <1>13, <1>14

\* The watchers take the list over, if there is one they have no reason to ignore.
LEMMA WatchesList ==
    ASSUME CatalogTypes, AutoTypes, WatchInv, AgentWatch
    PROVE  WatchInv'
<1>1. PICK list : list = Head(toAgent).list
  OBVIOUS
<1>2. /\ toAgent # <<>> /\ toAgent' = Tail(toAgent) /\ Head(toAgent).type = "watch"
      /\ WatcherSync(list) /\ MonitorSync(list)
      /\ UNCHANGED <<catalogVars, conn, registered, toHub, misdirected, overtaken>>
  BY <1>1 DEF AgentWatch, Delivered
<1>3. /\ Len(toAgent) \in Nat /\ Len(toAgent) > 0 /\ DOMAIN toAgent = 1..Len(toAgent)
      /\ DOMAIN toAgent' = 1..(Len(toAgent) - 1)
      /\ toAgent[1].type = "watch" /\ toAgent[1].list = list
      /\ \A i \in DOMAIN toAgent' : toAgent'[i] = toAgent[i + 1]
  BY <1>1, <1>2 DEF AutoTypes
<1>4. 1 \in OnWay /\ \A i \in OnWay' : i + 1 \in OnWay /\ toAgent'[i] = toAgent[i + 1]
  BY <1>3 DEF OnWay
<1>5. ASSUME NEW k \in OnWay, k # 1 PROVE k - 1 \in OnWay' /\ k \in Int /\ k >= 1
  <2>1. k \in DOMAIN toAgent /\ toAgent[k].type = "watch"
    BY DEF OnWay
  <2>2. k - 1 \in 1..(Len(toAgent) - 1) /\ (k - 1) + 1 = k /\ k \in Int /\ k >= 1
    BY <1>3, <1>5, <2>1
  <2>3. toAgent'[k - 1] = toAgent[k]
    BY <1>3, <2>2
  <2> QED BY <1>3, <2>1, <2>2, <2>3 DEF OnWay
<1>6. UNCHANGED <<jobs, tasks, silent>>
  BY <1>2 DEF catalogVars, catalogHistory
<1>7. Sending' = Sending /\ Underway' = Underway /\ (Awaited' <=> Awaited)
  BY <1>2, <1>6 DEF Underway, Sending, AtWork, BagToSet, Awaited
<1> DEFINE want(j) == LocalPath(list, j, "watch")
<1>8. ASSUME NEW j \in Jobs
      PROVE  /\ watching'[j] = IF want(j) = None \/ watching[j] = None THEN want(j) ELSE watching[j]
             /\ monitored'[j] = LocalPath(list, j, "connect")
  BY <1>2 DEF WatcherSync, MonitorSync
<1>9. \A j \in Jobs : want(j) # None => want(j) = list[j].path /\ list[j] # None
  BY DEF LocalPath
<1> HIDE DEF want
<1>10. \A j \in Jobs : WatchedRow(j)' = WatchedRow(j)
  BY <1>6 DEF WatchedRow, Has, Exists, Watch
<1> USE DEF WatchInv
<1>11. ConnFits'
  BY <1>2, <1>7 DEF ConnFits
<1>12. NoneWatched'
  <2> SUFFICES ASSUME NEW j \in Jobs, jobs[j] = None
      PROVE /\ watching'[j] = None
            /\ \A t \in Sending : t.list[j] = None
            /\ \A i \in OnWay' : toAgent'[i].list[j] = None
    BY <1>6, <1>7 DEF NoneWatched
  <2>1. watching[j] = None /\ (\A t \in Sending : t.list[j] = None)
        /\ \A i \in OnWay : toAgent[i].list[j] = None
    BY DEF NoneWatched
  <2>2. list[j] = None
    BY <1>3, <1>4, <2>1
  <2> QED BY <1>4, <1>8, <1>9, <2>1, <2>2
<1>13. OnePath'
  <2> SUFFICES ASSUME NEW j \in Jobs, j \notin misdirected, Exists(j)
      PROVE /\ watching'[j] \in {None, jobs[j].path}
            /\ \A t \in Underway : Own(t.list[j], j)
            /\ \A i \in OnWay' : toAgent'[i].list[j] # None => toAgent'[i].list[j].path = jobs[j].path
    BY <1>2, <1>6, <1>7 DEF OnePath, Own, Exists
  <2>1. /\ watching[j] \in {None, jobs[j].path}
        /\ \A t \in Underway : Own(t.list[j], j)
        /\ \A i \in OnWay : toAgent[i].list[j] # None => toAgent[i].list[j].path = jobs[j].path
    BY DEF OnePath, Own
  <2>2. list[j] # None => list[j].path = jobs[j].path
    BY <1>3, <1>4, <2>1
  <2> QED BY <1>4, <1>8, <1>9, <2>1, <2>2
<1>14. ASSUME UpToDate(list) PROVE AgentFits'
  <2> SUFFICES ASSUME NEW j \in Jobs, j \notin silent
      PROVE /\ monitored'[j] = LocalPath(jobs, j, "connect")
            /\ j \notin misdirected => watching'[j] = LocalPath(jobs, j, "watch")
    BY <1>2, <1>6 DEF AgentFits, LocalPath
  <2>1. list[j] = WatchedRow(j)
    BY <1>14 DEF UpToDate
  <2>2. LocalPath(list, j, "connect") = LocalPath(jobs, j, "connect") /\ want(j) = LocalPath(jobs, j, "watch")
    <3>1. CASE Has(j, "watch") \/ Has(j, "connect")
      <4>1. Exists(j) /\ jobs[j] \in Row /\ list[j] = Watch(jobs[j])
        BY <2>1, <3>1, ExistsRow DEF WatchedRow, Has, CatalogTypes
      <4>2. list[j] \in Watched
        BY <4>1 DEF Watch, Watched, Row
      <4>3. list[j] \notin {None, Deleted}
        BY <4>2, ListsAssumption
      <4>4. list[j].path = jobs[j].path /\ list[j].auto = jobs[j].auto /\ list[j].device = jobs[j].device
        BY <4>1 DEF Watch
      <4> QED BY <4>1, <4>3, <4>4 DEF LocalPath, Exists, want
    <3>2. CASE ~Has(j, "watch") /\ ~Has(j, "connect")
      <4>1. list[j] = None
        BY <2>1, <3>2 DEF WatchedRow
      <4> QED BY <3>2, <4>1 DEF LocalPath, Has, Exists, want
    <3> QED BY <3>1, <3>2
  <2>3. ASSUME j \notin misdirected PROVE watching'[j] = LocalPath(jobs, j, "watch")
    <3>1. CASE want(j) = None \/ watching[j] = None
      BY <1>8, <2>2, <3>1
    <3>2. CASE want(j) # None /\ watching[j] # None
      <4>1. Exists(j) /\ want(j) = jobs[j].path
        BY <2>2, <3>2 DEF LocalPath, Exists
      <4>2. watching[j] = jobs[j].path
        BY <2>3, <3>2, <4>1 DEF OnePath
      <4> QED BY <1>8, <2>2, <3>2, <4>1, <4>2
    <3> QED BY <3>1, <3>2
  <2> QED BY <1>8, <2>2, <2>3
<1>15. ASSUME registered, ~Awaited, \A t \in Underway : t.old, ~overtaken
       PROVE  /\ OnWay' = {} => AgentFits'
              /\ \A i \in OnWay' : (\A k \in OnWay' : k <= i) =>
                     \A j \in Jobs \ silent : toAgent'[i].list[j] = WatchedRow(j)
  <2>1. LastFits
    BY <1>15 DEF ListsFit
  <2>2. ASSUME OnWay' = {} PROVE AgentFits'
    <3>1. \A k \in OnWay : k = 1
      BY <1>5, <2>2
    <3>2. \A k \in OnWay : k <= 1
      BY <3>1
    <3>3. UpToDate(toAgent[1].list)
      BY <1>4, <2>1, <3>2 DEF LastFits
    <3>4. UpToDate(list)
      BY <1>3, <3>3
    <3> QED BY <1>14, <3>4
  <2>3. ASSUME NEW i \in OnWay', \A k \in OnWay' : k <= i, NEW j \in Jobs \ silent
        PROVE  toAgent'[i].list[j] = WatchedRow(j)
    <3>1. i \in Int /\ i >= 1
      BY <1>3 DEF OnWay
    <3>2. \A k \in OnWay : k <= i + 1
      <4> SUFFICES ASSUME NEW k \in OnWay PROVE k <= i + 1
        OBVIOUS
      <4>1. CASE k = 1
        BY <3>1, <4>1
      <4>2. CASE k # 1
        <5>1. k - 1 \in OnWay' /\ k \in Int
          BY <1>5, <4>2
        <5>2. k - 1 <= i
          BY <2>3, <5>1
        <5> QED BY <3>1, <5>1, <5>2
      <4> QED BY <4>1, <4>2
    <3>3. UpToDate(toAgent[i + 1].list)
      BY <1>4, <2>1, <3>2 DEF LastFits
    <3> QED BY <1>4, <3>3 DEF UpToDate
  <2> QED BY <2>2, <2>3
<1>16. ASSUME registered, ~Awaited
       PROVE  \A t \in Underway : ~t.old => \A j \in Jobs \ silent : t.list[j] = WatchedRow(j)
  BY <1>16 DEF ListsFit, UpToDate
<1>17. ListsFit' <=> (registered' /\ ~Awaited' =>
          /\ \A t \in Underway' : ~t.old => \A j \in Jobs \ silent' : t.list[j] = WatchedRow(j)'
          /\ (\A t \in Underway' : t.old) /\ ~overtaken' =>
                /\ OnWay' = {} => AgentFits'
                /\ \A i \in OnWay' : (\A k \in OnWay' : k <= i) =>
                       \A j \in Jobs \ silent' : toAgent'[i].list[j] = WatchedRow(j)')
  BY DEF ListsFit, UpToDate, LastFits
<1>18. ListsFit'
  <2> SUFFICES ASSUME registered, ~Awaited
      PROVE /\ \A t \in Underway' : ~t.old => \A j \in Jobs \ silent' : t.list[j] = WatchedRow(j)'
            /\ (\A t \in Underway' : t.old) /\ ~overtaken' =>
                /\ OnWay' = {} => AgentFits'
                /\ \A i \in OnWay' : (\A k \in OnWay' : k <= i) =>
                       \A j \in Jobs \ silent' : toAgent'[i].list[j] = WatchedRow(j)'
    BY <1>2, <1>7, <1>17
  <2>1. \A t \in Underway' : ~t.old => \A j \in Jobs \ silent' : t.list[j] = WatchedRow(j)'
    BY <1>6, <1>7, <1>10, <1>16
  <2>2. ASSUME \A t \in Underway' : t.old, ~overtaken'
        PROVE  /\ OnWay' = {} => AgentFits'
               /\ \A i \in OnWay' : (\A k \in OnWay' : k <= i) =>
                      \A j \in Jobs \ silent' : toAgent'[i].list[j] = WatchedRow(j)'
    BY <1>2, <1>6, <1>7, <1>10, <1>15, <2>2
  <2> QED BY <2>1, <2>2
<1> QED BY <1>11, <1>12, <1>13, <1>18

\* The server's other steps.
LEMMA HubWatches ==
    ASSUME CatalogTypes, AutoTypes, WatchInv, Hub
    PROVE  WatchInv'
<1>1. TasksOK /\ toAgent \in Seq(ToAgentMessage) /\ jobs \in Rows /\ now \in Times
      /\ (conn = 0 => toHub = <<>>)
  BY DEF CatalogTypes, AutoTypes, WatchInv, ConnFits
<1>2. ASSUME Sending' = Sending, Awaited => Awaited', WireStays, SameSettings, conn = 0 => toHub' = <<>>,
             UNCHANGED <<silent, misdirected, conn, registered, watching, monitored, overtaken>>
      PROVE  WatchInv'
  <2>1. ListsStay
    BY <1>2 DEF ListsStay
  <2> QED BY <1>2, <2>1, KeepsSettings
<1>3. ASSUME NEW js, NEW reason, Begin(Queue(js, reason)) PROVE Sending' = Sending /\ (Awaited => Awaited')
  <2>1. PICK u : u = Queue(js, reason)
    OBVIOUS
  <2>2. u.kind = "queue"
    BY <2>1 DEF Queue
  <2> QED BY <1>1, <1>3, <2>1, <2>2, OtherKinds
<1>4. ASSUME NEW t, t.kind \in {"queue", "resend"}, NEW u, u.kind \in {"queue", "resend"},
             Continue(t, u) \/ End(t)
      PROVE  Sending' = Sending /\ (Awaited => Awaited')
  BY <1>1, <1>4, OtherKinds
<1>5. ASSUME UNCHANGED tasks PROVE Sending' = Sending /\ (Awaited => Awaited')
  BY <1>5 DEF Sending, Awaited, AtWork, BagToSet
<1>6. UNCHANGED toAgent => WireStays
  BY <1>1, OtherMessages
<1>7. ASSUME Poll PROVE WatchInv'
  <2>1. /\ Begin(Queue({j \in Jobs : Due(j)}, "schedule"))
        /\ UNCHANGED <<jobs, toAgent, toHub, silent, misdirected, conn, registered, watching,
                       monitored, overtaken>>
    BY <1>7 DEF Poll, catalogHistory, autoVars, netVars, watcherVars
  <2>2. Sending' = Sending /\ (Awaited => Awaited')
    BY <1>3, <2>1
  <2>3. SameSettings
    BY <1>1, <2>1, StatusSame
  <2> QED BY <1>1, <1>2, <1>6, <2>1, <2>2, <2>3
<1>8. ASSUME NEW type, Received(type) PROVE conn = 0 => toHub' = <<>>
  BY <1>1, <1>8 DEF Received
<1>9. ASSUME HubTrigger PROVE WatchInv'
  <2>1. /\ UNCHANGED tasks \/ Begin(Queue({Head(toHub).job}, Head(toHub).reason))
        /\ Received("trigger")
        /\ UNCHANGED <<jobs, toAgent, silent, misdirected, conn, registered, watching,
                       monitored, overtaken>>
    BY <1>9 DEF HubTrigger, catalogHistory, watcherVars
  <2>2. Sending' = Sending /\ (Awaited => Awaited')
    BY <1>3, <1>5, <2>1
  <2>3. SameSettings
    BY <1>1, <2>1, StatusSame
  <2> QED BY <1>1, <1>2, <1>6, <1>8, <2>1, <2>2, <2>3
<1>10. ASSUME HubStarted PROVE WatchInv'
  <2> DEFINE m == Head(toHub)
  <2>1. m \in ToHub /\ m.type = "started"
    BY <1>10 DEF HubStarted, Received, AutoTypes
  <2>2. /\ jobs' = SetStatus(jobs, m.job, "running") /\ Received("started")
        /\ UNCHANGED <<tasks, toAgent, silent, misdirected, conn, registered, watching,
                       monitored, overtaken>>
    BY <1>10 DEF HubStarted, catalogHistory, watcherVars
  <2> HIDE DEF m
  <2>3. m.job \in Jobs /\ "running" \in Statuses
    BY <2>1 DEF ToHub, Statuses
  <2>4. SameSettings
    BY <1>1, <2>2, <2>3, StatusSame
  <2> QED BY <1>1, <1>2, <1>5, <1>6, <1>8, <2>2, <2>4
<1>11. ASSUME HubEnded PROVE WatchInv'
  <2> DEFINE m == Head(toHub)
  <2>1. m \in ToHub /\ m.type = "ended"
    BY <1>11 DEF HubEnded, Received, AutoTypes
  <2>2. /\ jobs' = SetStatus(jobs, m.job, m.outcome) /\ Received("ended")
        /\ UNCHANGED <<tasks, toAgent, silent, misdirected, conn, registered, watching,
                       monitored, overtaken>>
    BY <1>11 DEF HubEnded, catalogHistory, watcherVars
  <2> HIDE DEF m
  <2>3. m.job \in Jobs /\ m.outcome \in Statuses
    BY <2>1 DEF ToHub, Statuses
  <2>4. SameSettings
    BY <1>1, <2>2, <2>3, StatusSame
  <2> QED BY <1>1, <1>2, <1>5, <1>6, <1>8, <2>2, <2>4
<1>12. ASSUME NEW t, QueueNext(t) PROVE WatchInv'
  <2>1. /\ t \in AtWork({"queue"})
        /\ UNCHANGED <<toAgent, toHub, silent, misdirected, conn, registered, watching,
                       monitored, overtaken>>
    BY <1>12 DEF QueueNext, catalogHistory, autoVars, netVars, watcherVars
  <2>2. PICK js \in SUBSET Jobs : t \in QueueTask(js) /\ t.todo \subseteq js
    BY <1>1, <2>1, Handler
  <2>3. PICK j \in t.todo : /\ jobs' = SetStatus(jobs, j, "queued")
                            /\ Continue(t, [t EXCEPT !.job = j, !.todo = @ \ {j}])
    BY <1>12 DEF QueueNext
  <2>4. PICK u : u = [t EXCEPT !.job = j, !.todo = @ \ {j}]
    OBVIOUS
  <2>5. u.kind = "queue" /\ t.kind = "queue" /\ Continue(t, u)
    BY <2>2, <2>3, <2>4 DEF QueueTask
  <2>6. j \in Jobs /\ "queued" \in Statuses
    BY <2>2 DEF Statuses
  <2>7. SameSettings
    BY <1>1, <2>3, <2>6, StatusSame
  <2> QED BY <1>1, <1>2, <1>4, <1>6, <2>1, <2>5, <2>7
<1>13. ASSUME NEW t, QueueSend(t) PROVE WatchInv'
  <2>0. PICK m : m = [type |-> "run", job |-> t.job, path |-> t.rows[t.job].path]
    OBVIOUS
  <2>1. /\ t \in AtWork({"queue"}) /\ t.job # None /\ Continue(t, [t EXCEPT !.job = None])
        /\ UNCHANGED jobs \/ jobs' = SetStatus(jobs, t.job, "error")
        /\ UNCHANGED toAgent \/ toAgent' = Send(toAgent, m)
        /\ UNCHANGED <<toHub, silent, misdirected, conn, registered, watching, monitored, overtaken>>
    BY <1>13, <2>0 DEF QueueSend, catalogHistory, watcherVars
  <2>2. PICK js \in SUBSET Jobs : t \in QueueTask(js)
    BY <1>1, <2>1, Handler
  <2>3. PICK u : u = [t EXCEPT !.job = None]
    OBVIOUS
  <2>4. u.kind = "queue" /\ t.kind = "queue" /\ Continue(t, u) /\ t.job \in Jobs
    BY <2>1, <2>2, <2>3 DEF QueueTask
  <2>5. "error" \in Statuses /\ m.type # "watch"
    BY <2>0 DEF Statuses
  <2>6. SameSettings
    BY <1>1, <2>1, <2>4, <2>5, StatusSame
  <2>7. WireStays
    BY <1>1, <2>1, <2>5, OtherMessages
  <2> QED BY <1>1, <1>2, <1>4, <2>1, <2>4, <2>6, <2>7
<1>14. ASSUME NEW t, QueueEnds(t) PROVE WatchInv'
  <2>1. /\ t \in AtWork({"queue"}) /\ t.kind = "queue" /\ End(t)
        /\ UNCHANGED <<jobs, toAgent, toHub, silent, misdirected, conn, registered, watching,
                       monitored, overtaken>>
    BY <1>14 DEF QueueEnds, AtWork, catalogHistory, autoVars, netVars, watcherVars
  <2>2. SameSettings
    BY <1>1, <2>1, StatusSame
  <2>3. Sending' = Sending /\ (Awaited => Awaited')
    BY <1>4, <2>1
  <2> QED BY <1>1, <1>2, <1>6, <2>1, <2>2, <2>3
<1>15. ASSUME NEW t, ResendQueued(t) PROVE WatchInv'
  <2>1. /\ t \in AtWork({"resend"}) /\ t.kind = "resend" /\ End(t)
        /\ UNCHANGED <<jobs, toHub, silent, misdirected, conn, registered, watching,
                       monitored, overtaken>>
    BY <1>15 DEF ResendQueued, AtWork, catalogHistory, watcherVars
  <2>2. SameSettings
    BY <1>1, <2>1, StatusSame
  <2>3. Sending' = Sending /\ (Awaited => Awaited')
    BY <1>4, <2>1
  <2>4. WireStays
    <3>1. PICK queued : queued = {j \in Jobs : Exists(j) /\ jobs[j].status = "queued"}
      OBVIOUS
    <3>2. PICK n : n = Cardinality(queued)
      OBVIOUS
    <3>3. n \in Nat
      BY <3>1, <3>2, CatalogAssumption, FS_Subset, FS_CardinalityType
    <3>4. PICK order \in [1..n -> queued] :
            \/ toAgent' = toAgent
            \/ toAgent' = toAgent \o [i \in DOMAIN order |->
                        [type |-> "run", job |-> order[i], path |-> jobs[order[i]].path]]
      BY <1>15, <3>1, <3>2 DEF ResendQueued
    <3>5. PICK ms : ms = [i \in DOMAIN order |->
                        [type |-> "run", job |-> order[i], path |-> jobs[order[i]].path]]
      OBVIOUS
    <3>6. ASSUME NEW i \in 1..n
          PROVE  [type |-> "run", job |-> order[i], path |-> jobs[order[i]].path] \in ToAgentMessage
      <4>1. order[i] \in Jobs /\ Exists(order[i])
        BY <3>1
      <4>2. jobs[order[i]] \in Row
        BY <1>1, <4>1, ExistsRow
      <4> QED BY <4>1, <4>2 DEF Row, ToAgentMessage, RunMessage
    <3>7. ms \in [1..n -> ToAgentMessage] /\ \A i \in 1..n : ms[i].type = "run"
      BY <3>5, <3>6
    <3>8. ms \in Seq(ToAgentMessage) /\ \A i \in DOMAIN ms : ms[i].type # "watch"
      BY <3>3, <3>7
    <3>9. toAgent' = toAgent \/ toAgent' = toAgent \o ms
      BY <3>4, <3>5
    <3> QED BY <1>1, <3>8, <3>9, OtherMessages
  <2> QED BY <1>1, <1>2, <2>1, <2>2, <2>3, <2>4
<1> QED BY <1>7, <1>9, <1>10, <1>11, <1>12, <1>13, <1>14, <1>15, RegisterWatches, ReadWatches,
           SendWatches DEF Hub

\* The agent connects.
LEMMA ConnectWatches ==
    ASSUME CatalogTypes, AutoTypes, WatchInv, Connect
    PROVE  WatchInv'
<1>1. /\ conn = 0 /\ conn' = made + 1 /\ made \in Nat /\ made + 1 # 0 /\ made + 1 \notin 0..made
      /\ UNCHANGED <<jobs, tasks, registered, toAgent, watching, misdirected>>
  BY DEF Connect, AutoTypes, catalogVars, watcherVars
<1> USE DEF WatchInv
<1>2. ~registered /\ ~registered'
  BY <1>1 DEF ConnFits
<1>3. Sending' = Sending /\ OnWay' = OnWay
  BY <1>1 DEF Sending, AtWork, BagToSet, OnWay
<1>4. \A t \in Sending : t.conn \in 0..made
  <2> SUFFICES ASSUME NEW t \in Sending PROVE t.conn \in 0..made
    OBVIOUS
  <2>1. t \in AtWork({"watch"}) /\ t.list # None /\ t.kind = "watch"
    BY DEF Sending, AtWork
  <2>2. t \in WatchTask /\ t.conn # None
    BY <2>1, Handler DEF CatalogTypes
  <2> QED BY <2>2 DEF WatchTask
<1>5. Underway' = {}
  BY <1>1, <1>3, <1>4 DEF Underway
<1>6. ConnFits'
  BY <1>1, <1>2, <1>3 DEF ConnFits
<1>7. NoneWatched'
  BY <1>1, <1>3 DEF NoneWatched
<1>8. OnePath'
  BY <1>1, <1>3, <1>5 DEF OnePath, Own, Exists
<1>9. ListsFit'
  BY <1>2 DEF ListsFit
<1> QED BY <1>6, <1>7, <1>8, <1>9

\* The connection is gone, and what was on its way.
LEMMA LostWatches ==
    ASSUME WatchInv, SameSettings, conn' = 0, ~registered', toAgent' = <<>>, toHub' = <<>>,
           Sending' \subseteq Sending, \A j \in Jobs : watching'[j] \in {None, watching[j]},
           misdirected \subseteq misdirected' \/ \A j \in Jobs : watching'[j] = None
    PROVE  WatchInv'
<1> USE DEF WatchInv
<1>1. OnWay' = {}
  BY DEF OnWay
<1>2. Underway' = {}
  BY DEF Underway, ConnFits
<1>3. ConnFits'
  BY DEF ConnFits
<1>4. NoneWatched'
  BY <1>1, CatalogNone DEF NoneWatched, SameSettings
<1>5. \A j \in Jobs : jobs'[j] \notin {None, Deleted} => Exists(j) /\ jobs'[j].path = jobs[j].path
  BY DEF SameSettings, Exists
<1>6. OnePath'
  BY <1>1, <1>2, <1>5 DEF OnePath, Exists
<1>7. ListsFit'
  BY DEF ListsFit
<1> QED BY <1>3, <1>4, <1>6, <1>7

\* So it is with a new server.
LEMMA RestartWatches ==
    ASSUME CatalogTypes, WatchInv, RestartApi
    PROVE  WatchInv'
<1>1. SameSettings /\ \A t \in DOMAIN tasks' : t.kind = "queue"
  BY Restarts
<1>2. Sending' = {}
  BY <1>1 DEF Sending, AtWork, BagToSet
<1>3. conn' = 0 /\ ~registered' /\ toAgent' = <<>> /\ toHub' = <<>>
      /\ watching' = watching /\ misdirected' = misdirected
  BY DEF RestartApi, watcherVars
<1> QED BY <1>1, <1>2, <1>3, LostWatches

\* The agent's other steps.
LEMMA AgentWatches ==
    ASSUME CatalogTypes, AutoTypes, WatchInv, Agent
    PROVE  WatchInv'
<1>1. toAgent \in Seq(ToAgentMessage) /\ jobs \in Rows /\ now \in Times /\ (conn = 0 => toHub = <<>>)
  BY DEF CatalogTypes, AutoTypes, WatchInv, ConnFits
<1>2. ASSUME WireStays, UNCHANGED catalogVars, conn = 0 => toHub' = toHub,
             UNCHANGED <<misdirected, conn, registered, watching, monitored, overtaken>>
      PROVE  WatchInv'
  <2>1. UNCHANGED <<jobs, tasks, silent>>
    BY <1>2 DEF catalogVars, catalogHistory
  <2>2. Sending' = Sending /\ (Awaited => Awaited')
    BY <2>1 DEF Sending, Awaited, AtWork, BagToSet
  <2>3. ListsStay
    BY <1>2, <2>2 DEF ListsStay
  <2>4. SameSettings
    BY <1>1, <2>1, StatusSame
  <2> QED BY <1>1, <1>2, <2>1, <2>3, <2>4, KeepsSettings
<1>3. UNCHANGED toAgent => WireStays
  BY <1>1, OtherMessages
<1>4. ASSUME NEW type \in {"run", "cancel"}, Delivered(type) PROVE WireStays
  <2>1. toAgent # <<>> /\ Head(toAgent).type # "watch" /\ toAgent' = Tail(toAgent)
    BY <1>4 DEF Delivered
  <2> QED BY <1>1, <2>1, OtherMessages
<1>5. ASSUME NEW m, toHub' = Send(toHub, m) PROVE conn = 0 => toHub' = toHub
  BY <1>5 DEF Send
<1>6. ASSUME AgentRun PROVE WatchInv'
  <2>1. Delivered("run") /\ UNCHANGED catalogVars
        /\ UNCHANGED <<toHub, misdirected, conn, registered, watching, monitored, overtaken>>
    BY <1>6 DEF AgentRun, watcherVars
  <2> QED BY <1>2, <1>4, <2>1
<1>7. ASSUME AgentCancel PROVE WatchInv'
  <2>1. Delivered("cancel") /\ UNCHANGED catalogVars
        /\ UNCHANGED <<misdirected, conn, registered, watching, monitored, overtaken>>
        /\ (UNCHANGED toHub \/ \E m : toHub' = Send(toHub, m))
    BY <1>7 DEF AgentCancel, watcherVars
  <2> QED BY <1>2, <1>4, <1>5, <2>1
<1>8. ASSUME NEW j \in Jobs, WatchFires(j) \/ FolderFires(j) PROVE WatchInv'
  <2>1. UNCHANGED catalogVars /\ (\E m : toHub' = Send(toHub, m))
        /\ UNCHANGED <<toAgent, misdirected, conn, registered, watching, monitored, overtaken>>
    BY <1>8 DEF WatchFires, FolderFires, Fires
  <2> QED BY <1>2, <1>3, <1>5, <2>1
<1>9. ASSUME NEW j \in Jobs, FolderLook(j) \/ RunWalks(j) PROVE WatchInv'
  <2>1. UNCHANGED catalogVars
        /\ UNCHANGED <<toAgent, toHub, misdirected, conn, registered, watching, monitored, overtaken>>
    BY <1>9 DEF FolderLook, RunWalks, netVars, watcherVars
  <2> QED BY <1>2, <1>3, <2>1
<1>10. ASSUME NEW j \in Jobs, RunStarts(j) PROVE WatchInv'
  <2>1. UNCHANGED catalogVars /\ (UNCHANGED toHub \/ \E m : toHub' = Send(toHub, m))
        /\ UNCHANGED <<toAgent, misdirected, conn, registered, watching, monitored, overtaken>>
    BY <1>10 DEF RunStarts, Reports, watcherVars
  <2> QED BY <1>2, <1>3, <1>5, <2>1
<1>11. ASSUME NEW j \in Jobs, RunEnds(j) PROVE WatchInv'
  <2>1. UNCHANGED <<jobs, tasks, silent>> /\ (UNCHANGED toHub \/ \E m : toHub' = Send(toHub, m))
        /\ UNCHANGED <<toAgent, misdirected, conn, registered, watching, monitored, overtaken>>
    BY <1>11 DEF RunEnds, Reports, watcherVars, catalogHistory
  <2>2. Sending' = Sending /\ (Awaited => Awaited')
    BY <2>1 DEF Sending, Awaited, AtWork, BagToSet
  <2>3. ListsStay
    BY <1>3, <2>1, <2>2 DEF ListsStay
  <2>4. SameSettings
    BY <1>1, <2>1, StatusSame
  <2>5. conn = 0 => toHub' = <<>>
    BY <1>1, <1>5, <2>1
  <2> QED BY <2>1, <2>3, <2>4, <2>5, KeepsSettings
<1>12. ASSUME FolderAnswer PROVE WatchInv'
  <2>1. UNCHANGED catalogVars
        /\ UNCHANGED <<toAgent, toHub, misdirected, conn, registered, watching, monitored, overtaken>>
    BY <1>12 DEF FolderAnswer, netVars, watcherVars
  <2> QED BY <1>2, <1>3, <2>1
<1> QED BY <1>6, <1>7, <1>8, <1>9, <1>10, <1>11, <1>12, ConnectWatches, WatchesList DEF Agent

\* What users and the world do.
LEMMA WorldWatches ==
    ASSUME CatalogTypes, AutoTypes, WatchInv, World \/ UNCHANGED vars
    PROVE  WatchInv'
<1>1. TasksOK /\ toAgent \in Seq(ToAgentMessage) /\ jobs \in Rows /\ now \in Times
      /\ (conn = 0 => toHub = <<>>) /\ owned \subseteq Jobs
  BY DEF CatalogTypes, AutoTypes, WatchInv, ConnFits
<1>2. UNCHANGED tasks => Sending' = Sending /\ (Awaited => Awaited')
  BY DEF Sending, Awaited, AtWork, BagToSet
<1>3. ASSUME Sending' = Sending, Awaited => Awaited', SameSettings, WireStays,
             UNCHANGED <<toHub, silent, misdirected, conn, registered, watching, monitored, overtaken>>
      PROVE  WatchInv'
  <2>1. ListsStay
    BY <1>3 DEF ListsStay
  <2> QED BY <1>1, <1>3, <2>1, KeepsSettings
<1>4. UNCHANGED toAgent => WireStays
  BY <1>1, OtherMessages
<1>5. UNCHANGED jobs => SameSettings
  BY <1>1, StatusSame
<1>6. CASE UNCHANGED vars
  <2>1. UNCHANGED <<jobs, tasks, toAgent, toHub, silent, misdirected, conn, registered, watching,
                    monitored, overtaken>>
    BY <1>6 DEF vars, catalogVars, catalogHistory, autoVars, netVars, watcherVars
  <2> QED BY <1>2, <1>3, <1>4, <1>5, <2>1
<1>7. ASSUME NEW j \in Jobs, RunRequest(j) PROVE WatchInv'
  <2>1. PICK u : u = Queue({j}, "manual")
    OBVIOUS
  <2>2. /\ u.kind = "queue" /\ Begin(u)
        /\ UNCHANGED <<jobs, toAgent, toHub, silent, misdirected, conn, registered, watching,
                       monitored, overtaken>>
    BY <1>7, <2>1 DEF RunRequest, Queue, catalogHistory, autoVars, netVars, watcherVars
  <2>3. Sending' = Sending /\ (Awaited => Awaited')
    BY <1>1, <2>2, OtherKinds
  <2> QED BY <1>3, <1>4, <1>5, <2>2, <2>3
<1>8. ASSUME NEW j \in Jobs, CancelRequest(j) PROVE WatchInv'
  <2>1. PICK m : m = [type |-> "cancel", job |-> j]
    OBVIOUS
  <2>2. /\ jobs' = SetStatus(jobs, j, "cancelled") /\ (UNCHANGED toAgent \/ toAgent' = Send(toAgent, m))
        /\ UNCHANGED <<tasks, toHub, silent, misdirected, conn, registered, watching, monitored,
                       overtaken>>
    BY <1>8, <2>1 DEF CancelRequest, catalogHistory, watcherVars
  <2>3. "cancelled" \in Statuses /\ m.type # "watch"
    BY <2>1 DEF Statuses
  <2>4. SameSettings
    BY <1>1, <2>2, <2>3, StatusSame
  <2>5. WireStays
    BY <1>1, <2>2, <2>3, OtherMessages
  <2> QED BY <1>2, <1>3, <2>2, <2>4, <2>5
<1>9. ASSUME NEW p \in Paths, Edit(p) \/ FolderMoves(p) PROVE WatchInv'
  <2>1. UNCHANGED <<jobs, tasks, toAgent, toHub, silent, misdirected, conn, registered, watching,
                    monitored, overtaken>>
    BY <1>9 DEF Edit, FolderMoves, catalogHistory, netVars, watcherVars
  <2> QED BY <1>2, <1>3, <1>4, <1>5, <2>1
<1>10. ASSUME Tick PROVE WatchInv'
  <2>1. UNCHANGED <<jobs, tasks, toAgent, toHub, silent, misdirected, conn, registered, watching,
                    monitored, overtaken>>
    BY <1>10 DEF Tick, catalogHistory, autoVars, netVars, watcherVars
  <2> QED BY <1>2, <1>3, <1>4, <1>5, <2>1
<1>11. ASSUME Disconnect PROVE SameSettings /\ conn' = 0 /\ ~registered' /\ toAgent' = <<>> /\ toHub' = <<>>
  <2> DEFINE failed == {j \in owned : Active(j)}
  <2>1. jobs' = [j \in Jobs |-> IF j \in failed THEN SetStatus(jobs, j, "error")[j] ELSE jobs[j]]
    BY <1>11 DEF Disconnect
  <2>2. failed \in SUBSET Jobs
    BY <1>1
  <2> HIDE DEF failed
  <2> QED BY <1>1, <1>11, <2>1, <2>2, StatusSame DEF Disconnect
<1>12. ASSUME ConnectionLost PROVE WatchInv'
  <2>1. Disconnect /\ UNCHANGED <<tasks, watching, misdirected>>
    BY <1>12 DEF ConnectionLost, watcherVars
  <2> QED BY <1>2, <1>11, <2>1, LostWatches
<1>13. ASSUME AgentDies PROVE WatchInv'
  <2>1. Disconnect /\ UNCHANGED tasks /\ \A j \in Jobs : watching'[j] = None
    BY <1>13 DEF AgentDies
  <2> QED BY <1>2, <1>11, <2>1, LostWatches
<1>14. ASSUME ApiDies PROVE WatchInv'
  BY <1>14, RestartWatches DEF ApiDies
<1>15. ASSUME Catalog(Requests) PROVE WatchInv'
  BY <1>15, RequestsWatch DEF Catalog
<1> QED BY <1>6, <1>7, <1>8, <1>9, <1>10, <1>12, <1>13, <1>14, <1>15 DEF World

\* The agent is not there in the beginning, or watches what it should.
LEMMA InitWatches == Init => WatchInv
<1> SUFFICES ASSUME NEW c \in Cases, CatalogInit(c), AgentInit(c.start) PROVE WatchInv
  BY DEF Init
<1>1. /\ tasks = EmptyBag /\ silent = {} /\ misdirected = {} /\ toAgent = <<>> /\ toHub = <<>>
      /\ registered => conn = 1
      /\ \A j \in Jobs :
            /\ registered => watching[j] = LocalPath(jobs, j, "watch")
                             /\ monitored[j] = LocalPath(jobs, j, "connect")
            /\ ~registered => watching[j] = None
  BY DEF CatalogInit, AgentInit
<1>2. Sending = {} /\ OnWay = {}
  BY <1>1 DEF Sending, AtWork, OnWay, EmptyBag, SetToBag, BagToSet
<1>3. \A j \in Jobs : \/ LocalPath(jobs, j, "watch") = None
                      \/ Exists(j) /\ LocalPath(jobs, j, "watch") = jobs[j].path
  BY DEF LocalPath, Exists
<1>4. ConnFits
  BY <1>1, <1>2 DEF ConnFits
<1>5. NoneWatched
  BY <1>1, <1>2, <1>3 DEF NoneWatched, Exists
<1>6. OnePath
  BY <1>1, <1>2, <1>3 DEF OnePath, Underway
<1>7. registered => AgentFits
  BY <1>1 DEF AgentFits
<1>8. ListsFit
  BY <1>2, <1>7 DEF ListsFit, LastFits, Underway
<1> QED BY <1>4, <1>5, <1>6, <1>8 DEF WatchInv

\* No step disturbs what is watched.
LEMMA NextWatches ==
    ASSUME CatalogTypes, AutoTypes, WatchInv, [Next]_vars
    PROVE  WatchInv'
<1>1. ASSUME NEW t, InsertFails(t) \/ LogFails PROVE WatchInv'
  BY <1>1, RestartWatches DEF InsertFails, LogFails
<1>2. CASE Catalog(Handlers)
  BY <1>2, HandlersWatch DEF Catalog
<1> QED BY <1>1, <1>2, HubWatches, AgentWatches, WorldWatches DEF Next, Progress, Failing

\* Once nothing is under way between server and agent, the agent watches what the jobs ask it
\* to watch, but for the jobs and lists named in WatchersFollowJobs (broadcastWatchConfig,
\* JobWatcher.sync, FolderConnectMonitor.sync).
THEOREM WatchersFollow == Spec => []WatchersFollowJobs
<1> DEFINE Inv == CatalogTypes /\ AutoTypes /\ WatchInv
<1>1. Init => Inv
  BY InitTypes, InitWatches
<1>2. Inv /\ [Next]_vars => Inv'
  BY NextTypes, NextWatches
<1>3. Inv => WatchersFollowJobs
  <2> SUFFICES ASSUME Inv, AtRest, ~overtaken
      PROVE  \A j \in Jobs \ (silent \cup misdirected) :
                /\ watching[j] = LocalPath(jobs, j, "watch")
                /\ monitored[j] = LocalPath(jobs, j, "connect")
    BY DEF WatchersFollowJobs
  <2>1. registered /\ toAgent = <<>> /\ \A t \in BagToSet(tasks) : t.kind \notin {"watch", "update"}
    BY DEF AtRest, AtWork
  <2>2. ~Awaited /\ Underway = {}
    BY <2>1 DEF Awaited, Telling, Underway, Sending, AtWork
  <2>3. OnWay = {}
    BY <2>1 DEF OnWay
  <2>4. AgentFits
    BY <2>1, <2>2, <2>3 DEF WatchInv, ListsFit, LastFits
  <2> QED BY <2>4 DEF AgentFits
<1> QED BY <1>1, <1>2, <1>3, PTL DEF Spec

-----------------------------------------------------------------------------
(* The schedule. *)

\* No job is unmade.
Lasting == \A j \in Jobs : jobs[j] # None => jobs'[j] # None

EndsFit == ended \in [Jobs -> Times \cup {None}] /\ \A j \in Jobs : EndFits(j)

\* A new handler's jobs were made, and due if the scheduler read them.
NewQueue(s) ==
    s.kind = "queue" =>
        /\ \A j \in Jobs : j \in s.todo \/ s.job = j => jobs'[j] # None
        /\ s.reason = "schedule" => \A j \in s.todo :
              s.rows[j].status \notin {"queued", "running"} /\ DueAt(s.rows[j], s.at)

\* Nothing is in r but what was in q, and ms.
Only(q, r, ms) == \A i \in DOMAIN r : r[i] \in ms \/ \E k \in DOMAIN q : r[i] = q[k]

\* What a queue of messages becomes.
LEMMA OnlySent ==
    ASSUME NEW S, NEW q \in Seq(S)
    PROVE  /\ Only(q, q, {}) /\ Only(q, <<>>, {})
           /\ q # <<>> => Only(q, Tail(q), {})
           /\ \A m \in S : Only(q, Append(q, m), {m}) /\ Only(q, Send(q, m), {m})
<1>1. Only(q, q, {}) /\ Only(q, <<>>, {})
  BY DEF Only
<1>2. q # <<>> => Only(q, Tail(q), {})
  BY DEF Only
<1>3. ASSUME NEW m \in S PROVE Only(q, Append(q, m), {m})
  <2>1. ASSUME NEW i \in DOMAIN Append(q, m)
        PROVE  Append(q, m)[i] \in {m} \/ \E k \in DOMAIN q : Append(q, m)[i] = q[k]
    <3>1. i \in 1..(Len(q) + 1)
      OBVIOUS
    <3>2. CASE i \in 1..Len(q)
      BY <3>2
    <3>3. CASE i = Len(q) + 1
      BY <3>3
    <3> QED BY <3>1, <3>2, <3>3
  <2> QED BY <2>1 DEF Only
<1>4. ASSUME NEW m \in S PROVE Only(q, Send(q, m), {m})
  BY <1>1, <1>3 DEF Only, Send
<1> QED BY <1>1, <1>2, <1>3, <1>4

\* What is sent and run stays made.
LEMMA RunsStay ==
    ASSUME AutoTypes, RunsMade, Lasting, NEW ms, NEW ns,
           Only(toAgent, toAgent', ms), \A m \in ms : m.type = "run" => jobs'[m.job] # None,
           Only(toHub, toHub', ns), \A m \in ns : m.type = "ended" => jobs'[m.job] # None,
           \A j \in Jobs : runs'[j] # None => runs[j] # None \/ jobs'[j] # None
    PROVE  RunsMade'
<1>1. ASSUME NEW i \in DOMAIN toAgent', toAgent'[i].type = "run" PROVE jobs'[toAgent'[i].job] # None
  <2>1. CASE toAgent'[i] \in ms
    BY <1>1, <2>1
  <2>2. ASSUME NEW k \in DOMAIN toAgent, toAgent'[i] = toAgent[k] PROVE jobs'[toAgent'[i].job] # None
    <3>1. toAgent[k] \in ToAgentMessage /\ toAgent[k].type = "run"
      BY <1>1, <2>2 DEF AutoTypes
    <3>2. toAgent[k].job \in Jobs
      BY <3>1 DEF ToAgentMessage, RunMessage, CancelMessage, ListMessage
    <3> QED BY <2>2, <3>1, <3>2 DEF RunsMade, Made, Lasting
  <2> QED BY <2>1, <2>2 DEF Only
<1>2. ASSUME NEW i \in DOMAIN toHub', toHub'[i].type = "ended" PROVE jobs'[toHub'[i].job] # None
  <2>1. CASE toHub'[i] \in ns
    BY <1>2, <2>1
  <2>2. ASSUME NEW k \in DOMAIN toHub, toHub'[i] = toHub[k] PROVE jobs'[toHub'[i].job] # None
    <3>1. toHub[k] \in ToHub /\ toHub[k].type = "ended"
      BY <1>2, <2>2 DEF AutoTypes
    <3>2. toHub[k].job \in Jobs
      BY <3>1 DEF ToHub
    <3> QED BY <2>2, <3>1, <3>2 DEF RunsMade, Made, Lasting
  <2> QED BY <2>1, <2>2 DEF Only
<1>3. \A j \in Jobs : runs'[j] # None => jobs'[j] # None
  BY DEF RunsMade, Made, Lasting
<1> QED BY <1>1, <1>2, <1>3 DEF RunsMade, Made

\* A handler begins, goes on, or ends: at most it is new.
LEMMA OneNew ==
    ASSUME TasksOK, NEW t, NEW u, Begin(u) \/ Continue(t, u) \/ End(t) \/ UNCHANGED tasks
    PROVE  \A s \in DOMAIN tasks' : s \in DOMAIN tasks \/ s = u
<1>1. IsABag(tasks)
  BY DEF TasksOK
<1>2. CASE Begin(u)
  BY <1>1, <1>2, Begins
<1>3. CASE Continue(t, u)
  BY <1>1, <1>3, Continues
<1>4. CASE End(t)
  BY <1>1, <1>4, Ends
<1> QED BY <1>2, <1>3, <1>4

\* The parts of the invariant, after a step.
LEMMA KeepsSchedule ==
    ASSUME ScheduleInv, Lasting, EndsFit', RunsMade',
           \A s \in DOMAIN tasks' : s \in DOMAIN tasks \/ NewQueue(s)
    PROVE  ScheduleInv'
<1>1. ASSUME NEW s \in AtWork({"queue"})', NEW j \in Jobs, j \in s.todo \/ s.job = j PROVE jobs'[j] # None
  <2>1. s \in DOMAIN tasks' /\ s.kind = "queue"
    BY DEF AtWork, BagToSet
  <2>2. CASE s \in DOMAIN tasks
    BY <1>1, <2>1, <2>2 DEF ScheduleInv, QueuedMade, Made, Lasting, AtWork, BagToSet
  <2>3. CASE NewQueue(s)
    BY <1>1, <2>1, <2>3 DEF NewQueue
  <2> QED BY <2>1, <2>2, <2>3
<1>2. ASSUME NEW s \in AtWork({"queue"})', s.reason = "schedule", NEW j \in s.todo
      PROVE  s.rows[j].status \notin {"queued", "running"} /\ DueAt(s.rows[j], s.at)
  <2>1. s \in DOMAIN tasks' /\ s.kind = "queue"
    BY DEF AtWork, BagToSet
  <2>2. CASE s \in DOMAIN tasks
    BY <1>2, <2>1, <2>2 DEF ScheduleInv, DueWhenRead, AtWork, BagToSet
  <2>3. CASE NewQueue(s)
    BY <1>2, <2>1, <2>3 DEF NewQueue
  <2> QED BY <2>1, <2>2, <2>3
<1>3. QueuedMade'
  BY <1>1 DEF QueuedMade, Made
<1>4. DueWhenRead'
  BY <1>2 DEF DueWhenRead, DueAt
<1> QED BY <1>3, <1>4 DEF ScheduleInv, EndsFit

\* A job whose status, time of its last end and history stay.
LEMMA EndStays ==
    ASSUME jobs \in Rows, NEW j \in Jobs, EndFits(j), UNCHANGED <<ended, cancelled>>,
           \/ jobs'[j] = jobs[j]
           \/ jobs'[j] = Deleted
           \/ jobs[j] = None
           \/ /\ jobs[j] \in Row /\ jobs'[j] \in Row
              /\ jobs'[j].status = jobs[j].status /\ jobs'[j].lastRun = jobs[j].lastRun
    PROVE  EndFits(j)'
<1>1. EndFits(j)' <=>
        /\ jobs'[j] = None => ended[j] = None
        /\ jobs'[j] \notin {None, Deleted} /\ jobs'[j].status \notin {"queued", "running"}
           /\ j \notin cancelled /\ ended[j] # None => jobs'[j].lastRun = ended[j]
  BY DEF EndFits, Exists, Active
<1>2. EndFits(j) <=>
        /\ jobs[j] = None => ended[j] = None
        /\ jobs[j] \notin {None, Deleted} /\ jobs[j].status \notin {"queued", "running"}
           /\ j \notin cancelled /\ ended[j] # None => jobs[j].lastRun = ended[j]
  BY DEF EndFits, Exists, Active
<1> QED BY <1>1, <1>2, CatalogNone

\* Jobs that stay as they are.
LEMMA EndsStay ==
    ASSUME jobs \in Rows, EndsFit, UNCHANGED <<jobs, ended, cancelled>>
    PROVE  EndsFit' /\ Lasting
BY EndStays DEF EndsFit, Lasting

\* What a status that is set does to a row.
LEMMA StatusSet ==
    ASSUME NEW rows \in Rows, now \in Times, NEW j \in Jobs, NEW s \in Statuses,
           rows[j] \notin {None, Deleted}
    PROVE  /\ SetStatus(rows, j, s)[j].status = s
           /\ SetStatus(rows, j, s)[j].lastRun = IF s \in {"completed", "error"} THEN now ELSE None
<1> DEFINE time == IF s \in {"completed", "error"} THEN now ELSE None
           row == [rows[j] EXCEPT !.status = s, !.lastRun = time]
<1>1. rows[j] \in Row
  BY DEF Rows
<1>2. row.status = s /\ row.lastRun = time
  BY <1>1 DEF Row
<1>3. SetStatus(rows, j, s) = [rows EXCEPT ![j] = row]
  BY <1>1 DEF SetStatus, Rows, Row
<1> HIDE DEF row
<1> QED BY <1>2, <1>3 DEF Rows

\* A status is set: the job is active, or cancelled, or ended now.
LEMMA EndsWith ==
    ASSUME jobs \in Rows, now \in Times, EndsFit, NEW j \in Jobs, NEW s \in Statuses,
           jobs' = SetStatus(jobs, j, s),
           \/ s \in {"queued", "running"} /\ UNCHANGED <<ended, cancelled>>
           \/ s = "cancelled" /\ ended' = ended /\ cancelled' = cancelled \cup {j}
           \/ /\ s \in {"completed", "error"} /\ jobs[j] # None
              /\ ended' = [ended EXCEPT ![j] = now] /\ cancelled' = cancelled \ {j}
    PROVE  EndsFit' /\ Lasting
<1>1. \A i \in Jobs : i # j => jobs'[i] = jobs[i]
  BY SetsStatus
<1>2. jobs[j] \in {None, Deleted} => jobs'[j] = jobs[j]
  BY SetsStatus
<1>3. jobs[j] \notin {None, Deleted} => /\ jobs'[j] \in Row /\ jobs'[j].status = s
                                       /\ jobs'[j].lastRun = IF s \in {"completed", "error"} THEN now ELSE None
  BY SetsStatus, StatusSet
<1>4. Lasting
  BY <1>1, <1>2, <1>3, CatalogNone DEF Lasting
<1>5. ended' \in [Jobs -> Times \cup {None}]
  BY DEF EndsFit
<1>6. ASSUME NEW i \in Jobs PROVE EndFits(i)'
  <2>1. EndFits(i) /\ ended \in [Jobs -> Times \cup {None}]
    BY DEF EndsFit
  <2>2. EndFits(i)' <=>
        /\ jobs'[i] = None => ended'[i] = None
        /\ jobs'[i] \notin {None, Deleted} /\ jobs'[i].status \notin {"queued", "running"}
           /\ i \notin cancelled' /\ ended'[i] # None => jobs'[i].lastRun = ended'[i]
    BY DEF EndFits, Exists, Active
  <2>3. EndFits(i) <=>
        /\ jobs[i] = None => ended[i] = None
        /\ jobs[i] \notin {None, Deleted} /\ jobs[i].status \notin {"queued", "running"}
           /\ i \notin cancelled /\ ended[i] # None => jobs[i].lastRun = ended[i]
    BY DEF EndFits, Exists, Active
  <2>4. CASE i # j
    BY <1>1, <2>1, <2>2, <2>3, <2>4
  <2>5. CASE i = j
    <3>1. CASE jobs[j] = None
      BY <1>2, <2>1, <2>2, <2>3, <2>5, <3>1
    <3>2. CASE jobs[j] = Deleted
      BY <1>2, <2>2, <2>5, <3>2, CatalogNone
    <3>3. CASE jobs[j] \notin {None, Deleted}
      BY <1>3, <2>1, <2>2, <2>3, <2>5, <3>3, CatalogNone
    <3> QED BY <3>1, <3>2, <3>3
  <2> QED BY <2>4, <2>5
<1> QED BY <1>4, <1>5, <1>6 DEF EndsFit

\* Active jobs fail together.
LEMMA EndTogether ==
    ASSUME jobs \in Rows, now \in Times, EndsFit, NEW js \in SUBSET Jobs, \A j \in js : Active(j),
           jobs' = [j \in Jobs |-> IF j \in js THEN SetStatus(jobs, j, "error")[j] ELSE jobs[j]],
           ended' = [j \in Jobs |-> IF j \in js THEN now ELSE ended[j]],
           \A j \in Jobs \ js : j \in cancelled => j \in cancelled'
    PROVE  EndsFit' /\ Lasting
<1>1. \A i \in Jobs : i \notin js => jobs'[i] = jobs[i] /\ ended'[i] = ended[i]
  OBVIOUS
<1>2. ASSUME NEW j \in js
      PROVE  jobs'[j] \in Row /\ jobs'[j].lastRun = now /\ ended'[j] = now
  <2>1. "error" \in Statuses /\ j \in Jobs /\ jobs[j] \notin {None, Deleted}
    BY DEF Statuses, Active, Exists
  <2>2. jobs'[j] = SetStatus(jobs, j, "error")[j] /\ ended'[j] = now
    BY <2>1
  <2> QED BY <2>1, <2>2, SetsStatus, StatusSet
<1>3. Lasting
  BY <1>1, <1>2, CatalogNone DEF Lasting
<1>4. ended' \in [Jobs -> Times \cup {None}]
  BY DEF EndsFit
<1>5. ASSUME NEW i \in Jobs PROVE EndFits(i)'
  <2>1. EndFits(i)
    BY DEF EndsFit
  <2>2. EndFits(i)' <=>
        /\ jobs'[i] = None => ended'[i] = None
        /\ jobs'[i] \notin {None, Deleted} /\ jobs'[i].status \notin {"queued", "running"}
           /\ i \notin cancelled' /\ ended'[i] # None => jobs'[i].lastRun = ended'[i]
    BY DEF EndFits, Exists, Active
  <2>3. EndFits(i) <=>
        /\ jobs[i] = None => ended[i] = None
        /\ jobs[i] \notin {None, Deleted} /\ jobs[i].status \notin {"queued", "running"}
           /\ i \notin cancelled /\ ended[i] # None => jobs[i].lastRun = ended[i]
    BY DEF EndFits, Exists, Active
  <2>4. CASE i \notin js
    BY <1>1, <2>1, <2>2, <2>3, <2>4
  <2>5. CASE i \in js
    BY <1>2, <2>2, <2>5, CatalogNone
  <2> QED BY <2>4, <2>5
<1> QED BY <1>3, <1>4, <1>5 DEF EndsFit

\* Requests leave what runs have written, and begin no schedule.
LEMMA RequestsEnd ==
    ASSUME CatalogTypes, EndsFit, Requests, UNCHANGED runHistory
    PROVE  EndsFit' /\ Lasting /\ \A s \in DOMAIN tasks' : s \in DOMAIN tasks \/ NewQueue(s)
<1> DEFINE Goal == EndsFit' /\ Lasting /\ \A s \in DOMAIN tasks' : s \in DOMAIN tasks \/ NewQueue(s)
<1>1. TasksOK /\ jobs \in Rows /\ UNCHANGED <<ended, cancelled>>
  BY DEF CatalogTypes, runHistory
<1>2. ASSUME NEW u, u.kind # "queue", Begin(u) \/ UNCHANGED tasks
      PROVE  \A s \in DOMAIN tasks' : s \in DOMAIN tasks \/ NewQueue(s)
  BY <1>1, <1>2, OneNew DEF NewQueue
<1>3. Tell.kind # "queue"
  BY DEF Tell
<1>4. ASSUME NEW u, u.kind # "queue", Begin(u) \/ UNCHANGED tasks, UNCHANGED jobs PROVE Goal
  BY <1>1, <1>2, <1>4, EndsStay
<1> HIDE DEF Goal
<1>5. ASSUME NEW p \in Paths, NEW a \in budget.offers, PostJob(p, a) PROVE Goal
  <2>1. a \in Settings /\ now \in Times
    BY DEF CatalogTypes, Bounds
  <2> DEFINE row == NewRow(None, None, p, a)
  <2>2. row \in Row
    BY <2>1, NewRowTyped
  <2>3. jobs' = [jobs EXCEPT ![NewId] = row] /\ Unused # {} /\ Begin(Tell)
    BY <1>5 DEF PostJob
  <2> HIDE DEF row
  <2>4. NewId \in Jobs /\ jobs[NewId] = None
    BY <2>3, NewIdTyped
  <2>5. \A j \in Jobs : (jobs[j] = None \/ jobs'[j] = jobs[j]) /\ (jobs[j] # None => jobs'[j] # None)
    BY <1>1, <2>2, <2>3, <2>4, CatalogNone DEF Rows
  <2>6. EndsFit' /\ Lasting
    BY <1>1, <2>5, EndStays DEF EndsFit, Lasting
  <2> QED BY <1>2, <1>3, <2>3, <2>6 DEF Goal
<1>6. ASSUME NEW j \in Jobs, DeleteJob(j) PROVE Goal
  <2>1. jobs' = [jobs EXCEPT ![j] = Deleted] /\ Begin(Tell)
    BY <1>6 DEF DeleteJob
  <2>2. \A i \in Jobs : jobs'[i] = Deleted \/ jobs'[i] = jobs[i]
    BY <1>1, <2>1 DEF Rows
  <2>3. EndsFit' /\ Lasting
    BY <1>1, <2>2, EndStays, CatalogNone DEF EndsFit, Lasting
  <2> QED BY <1>2, <1>3, <2>1, <2>3 DEF Goal
<1>7. ASSUME NEW todo, NEW patch, NEW tell, Begin(Update(todo, patch, tell)), UNCHANGED jobs
      PROVE  Goal
  <2>1. Update(todo, patch, tell).kind # "queue"
    BY DEF Update
  <2> QED BY <1>4, <1>7, <2>1
<1>8. ASSUME NEW step, NEW todo, NEW sources, NEW triggers, NEW next, NEW removed,
             BeginAssign(Assign(step, todo, sources, triggers, next, removed)), UNCHANGED jobs
      PROVE  Goal
  <2>1. PICK u : u = Assign(step, todo, sources, triggers, next, removed)
    OBVIOUS
  <2>2. u.kind # "queue" /\ Begin(u)
    BY <1>8, <2>1 DEF Assign, BeginAssign
  <2> QED BY <1>4, <1>8, <2>2
<1>9. ASSUME UNCHANGED <<jobs, tasks>> PROVE Goal
  BY <1>3, <1>4, <1>9
<1>10. ASSUME NEW j \in Jobs, NEW patch, PatchJob(j, patch) PROVE Goal
  BY <1>7, <1>10 DEF PatchJob
<1>11. ASSUME NEW ds \in SUBSET Devices, NEW drop \in BOOLEAN, PatchCollection(ds, drop) PROVE Goal
  <2>1. /\ BeginAssign(Assign("members", ds \ members, links, None, ds,
                              [devices |-> members \ ds, drop |-> drop]))
        /\ UNCHANGED jobs
    BY <1>11 DEF PatchCollection
  <2> QED BY <1>8, <2>1
<1>12. ASSUME NEW t \in Templates, PropagateTemplate(t) PROVE Goal
  <2>1. /\ Begin(Update({j \in Jobs : Exists(j) /\ jobs[j].pair # None /\ jobs[j].pair[1] = t},
                        [auto |-> defaults[t]], FALSE))
        /\ UNCHANGED jobs
    BY <1>12 DEF PropagateTemplate
  <2> QED BY <1>7, <2>1
<1>13. ASSUME NEW t \in Templates, Unapply(t) \/ DeleteTemplate(t) PROVE Goal
  BY <1>9, <1>13 DEF Unapply, DeleteTemplate
<1>14. ASSUME NEW t \in Templates, NEW p \in Paths, ApplyTemplate(t, p) PROVE Goal
  <2>1. /\ BeginAssign(Assign("link", {t} \X members, [u \in Templates |-> p], defaults[t], t,
                              [devices |-> {}, drop |-> FALSE]))
        /\ UNCHANGED jobs
    BY <1>14 DEF ApplyTemplate
  <2> QED BY <1>8, <2>1
<1>15. ASSUME NEW t \in Templates, NEW a \in budget.offers, PatchTemplate(t, a) PROVE Goal
  BY <1>9, <1>15 DEF PatchTemplate
<1>16. ASSUME DeleteCollection PROVE Goal
  BY <1>9, <1>16 DEF DeleteCollection
<1> QED BY <1>5, <1>6, <1>10, <1>11, <1>12, <1>13, <1>14, <1>15, <1>16 DEF Requests, Goal

\* So do the catalog's handlers, of which one may start one for the agent's list.
LEMMA HandlersEnd ==
    ASSUME CatalogTypes, EndsFit, Handlers, UNCHANGED runHistory
    PROVE  EndsFit' /\ Lasting /\ \A s \in DOMAIN tasks' : s \in DOMAIN tasks \/ NewQueue(s)
<1> DEFINE Goal == EndsFit' /\ Lasting /\ \A s \in DOMAIN tasks' : s \in DOMAIN tasks \/ NewQueue(s)
<1>1. TasksOK /\ jobs \in Rows /\ UNCHANGED <<ended, cancelled>>
  BY DEF CatalogTypes, runHistory
<1>2. ASSUME NEW t, NEW u, u.kind # "queue", Continue(t, u) \/ End(t), EndsFit' /\ Lasting PROVE Goal
  BY <1>1, <1>2, OneNew DEF NewQueue
<1>3. ASSUME NEW t, NEW u, u.kind # "queue", Continue(t, u) \/ End(t), UNCHANGED jobs PROVE Goal
  BY <1>1, <1>2, <1>3, EndsStay
<1> HIDE DEF Goal
<1>4. ASSUME NEW t, UpdateReads(t) PROVE Goal
  <2>1. t \in UpdateTask
    BY <1>1, <1>4, Handler DEF UpdateReads, AtWork
  <2>2. PICK j \in t.todo : \/ Continue(t, [t EXCEPT !.job = j, !.row = jobs[j]])
                            \/ Continue(t, [t EXCEPT !.todo = @ \ {j}])
                            \/ End(t)
    BY <1>4 DEF UpdateReads
  <2>3. PICK u : (Continue(t, u) \/ End(t)) /\ u.kind # "queue"
    <3>1. PICK row : row = jobs[j]
      OBVIOUS
    <3>2. [t EXCEPT !.job = j, !.row = row].kind # "queue"
      BY <2>1 DEF UpdateTask
    <3>3. [t EXCEPT !.todo = @ \ {j}].kind # "queue"
      BY <2>1 DEF UpdateTask
    <3> QED BY <2>2, <3>1, <3>2, <3>3
  <2>4. UNCHANGED jobs
    BY <1>4 DEF UpdateReads
  <2> QED BY <1>3, <2>3, <2>4
<1>5. ASSUME NEW t, UpdateWrites(t) PROVE Goal
  <2>1. t \in UpdateTask /\ t.kind = "update" /\ t.job \in Jobs /\ t.row \in Row
    BY <1>1, <1>5, Handler DEF UpdateWrites, UpdateTask, UpdateOK
  <2>2. PICK u : u = [t EXCEPT !.job = None, !.row = None, !.todo = @ \ {t.job}]
    OBVIOUS
  <2>3. u.kind # "queue" /\ Continue(t, u)
    BY <1>5, <2>1, <2>2 DEF UpdateTask, UpdateWrites
  <2> DEFINE m == Merged(t.row, t.patch)
  <2>4. m.path \in Paths /\ m.auto \in Settings
    BY <2>1 DEF Merged, UpdateTask, Row
  <2>5. jobs' = IF Exists(t.job)
                THEN [jobs EXCEPT ![t.job].path = m.path, ![t.job].auto = m.auto] ELSE jobs
    BY <1>5 DEF UpdateWrites
  <2> HIDE DEF m
  <2>6. /\ \A j \in Jobs \ {t.job} : jobs'[j] = jobs[j]
        /\ ~Exists(t.job) => jobs'[t.job] = jobs[t.job]
        /\ Exists(t.job) => /\ jobs[t.job] \in Row /\ jobs'[t.job] \in Row
                            /\ jobs'[t.job].status = jobs[t.job].status
                            /\ jobs'[t.job].lastRun = jobs[t.job].lastRun
    <3>1. CASE Exists(t.job)
      <4> DEFINE row == [jobs[t.job] EXCEPT !.path = m.path, !.auto = m.auto]
      <4>1. jobs[t.job] \in Row
        BY <1>1, <2>1, <3>1, ExistsRow
      <4>2. row \in Row /\ row.status = jobs[t.job].status /\ row.lastRun = jobs[t.job].lastRun
        BY <2>4, <4>1 DEF Row
      <4>3. jobs' = [jobs EXCEPT ![t.job] = row]
        BY <1>1, <2>1, <2>5, <3>1, <4>1 DEF Rows, Row
      <4> HIDE DEF row
      <4> QED BY <1>1, <2>1, <3>1, <4>1, <4>2, <4>3 DEF Rows
    <3> QED BY <2>5, <3>1
  <2>7. ASSUME NEW j \in Jobs PROVE EndFits(j)' /\ (jobs[j] # None => jobs'[j] # None)
    <3>1. EndFits(j)
      BY DEF EndsFit
    <3>2. \/ jobs'[j] = jobs[j]
          \/ /\ jobs[j] \in Row /\ jobs'[j] \in Row
             /\ jobs'[j].status = jobs[j].status /\ jobs'[j].lastRun = jobs[j].lastRun
      BY <2>6
    <3> QED BY <1>1, <3>1, <3>2, EndStays, CatalogNone
  <2>8. EndsFit' /\ Lasting
    BY <1>1, <2>7 DEF EndsFit, Lasting
  <2> QED BY <1>2, <2>3, <2>8
<1>6. ASSUME NEW t, UpdateEnds(t) PROVE Goal
  <2>1. Tell.kind # "queue"
    BY DEF Tell
  <2>2. UNCHANGED jobs /\ (Continue(t, Tell) \/ End(t))
    BY <1>6 DEF UpdateEnds
  <2> QED BY <1>3, <2>1, <2>2
<1>7. ASSUME NEW t \in AtWork(Assigning), NEW u, u.kind = "assign", Continue(t, u) \/ End(t), UNCHANGED jobs
      PROVE  Goal
  BY <1>3, <1>7
<1>8. ASSUME NEW t, WriteMembers(t) PROVE Goal
  <2>1. t \in AtWork(Assigning) /\ UNCHANGED jobs
        /\ (Continue(t, [t EXCEPT !.step = "links"]) \/ End(t))
    BY <1>8 DEF WriteMembers
  <2>2. PICK u : u = [t EXCEPT !.step = "links"]
    OBVIOUS
  <2>3. u.kind = "assign"
    BY <1>1, <2>1, <2>2, Assigner DEF AssignTask
  <2> QED BY <1>7, <2>1, <2>2, <2>3
<1>9. ASSUME NEW t, ReadLinks(t) PROVE Goal
  <2>1. t \in AtWork(Assigning) /\ UNCHANGED jobs
    BY <1>9 DEF ReadLinks
  <2>2. PICK u : u = [t EXCEPT !.step = "jobs", !.sources = links, !.next = None,
                               !.todo = {v \in Templates : links[v] # None} \X @]
    OBVIOUS
  <2>3. u.kind = "assign"
    BY <1>1, <2>1, <2>2, Assigner DEF AssignTask
  <2>4. Continue(t, u)
    BY <1>9, <2>2 DEF ReadLinks
  <2> QED BY <1>7, <2>1, <2>3, <2>4
<1>10. ASSUME NEW t, FindLink(t) PROVE Goal
  <2>1. t \in AtWork(Assigning) /\ UNCHANGED jobs
    BY <1>10 DEF FindLink
  <2>2. PICK u : u = [t EXCEPT !.step = IF links[t.next] = None THEN "insert" ELSE "relink",
                         !.link = linkIds[t.next]]
    OBVIOUS
  <2>3. u.kind = "assign"
    BY <1>1, <2>1, <2>2, Assigner DEF AssignTask
  <2>4. Continue(t, u)
    BY <1>10, <2>2 DEF FindLink
  <2> QED BY <1>7, <2>1, <2>3, <2>4
<1>11. ASSUME NEW t, WriteLink(t) PROVE Goal
  <2>1. t \in AtWork(Assigning) /\ UNCHANGED jobs
    BY <1>11 DEF WriteLink
  <2>2. PICK u : u = [t EXCEPT !.step = "jobs", !.link = 0]
    OBVIOUS
  <2>3. u.kind = "assign"
    BY <1>1, <2>1, <2>2, Assigner DEF AssignTask
  <2>4. Continue(t, u)
    BY <1>11, <2>2 DEF WriteLink
  <2> QED BY <1>7, <2>1, <2>3, <2>4
<1>12. ASSUME NEW t, ReadTemplate(t) PROVE Goal
  <2>1. t \in AtWork(Assigning) /\ UNCHANGED jobs
    BY <1>12 DEF ReadTemplate
  <2>2. PICK p \in t.todo :
          Continue(t, IF defaults[p[1]] = None
                      THEN [t EXCEPT !.todo = {q \in @ : q[1] # p[1]}]
                      ELSE [t EXCEPT !.triggers = defaults[p[1]], !.next = p[1]])
    BY <1>12 DEF ReadTemplate
  <2>3. PICK u : u = IF defaults[p[1]] = None
                     THEN [t EXCEPT !.todo = {q \in @ : q[1] # p[1]}]
                     ELSE [t EXCEPT !.triggers = defaults[p[1]], !.next = p[1]]
    OBVIOUS
  <2>4. u.kind = "assign"
    BY <1>1, <2>1, <2>3, Assigner DEF AssignTask
  <2> QED BY <1>7, <2>1, <2>2, <2>3, <2>4
<1>13. ASSUME NEW t, FindJob(t) PROVE Goal
  <2>1. t \in AtWork(Assigning) /\ UNCHANGED jobs
    BY <1>13 DEF FindJob
  <2>2. PICK p \in t.todo : Continue(t, [t EXCEPT
          !.todo = @ \ {p},
          !.triggers = IF \E q \in t.todo \ {p} : q[1] = t.next THEN @ ELSE None,
          !.draft = IF Found(p) THEN None ELSE NewRow(p, p[2], t.sources[p[1]], t.triggers)])
    BY <1>13 DEF FindJob
  <2>3. PICK u : u = [t EXCEPT
          !.todo = @ \ {p},
          !.triggers = IF \E q \in t.todo \ {p} : q[1] = t.next THEN @ ELSE None,
          !.draft = IF Found(p) THEN None ELSE NewRow(p, p[2], t.sources[p[1]], t.triggers)]
    OBVIOUS
  <2>4. u.kind = "assign"
    BY <1>1, <2>1, <2>3, Assigner DEF AssignTask
  <2> QED BY <1>7, <2>1, <2>2, <2>3, <2>4
<1>14. ASSUME NEW t, CreateJob(t) PROVE Goal
  <2>1. t \in AtWork(Assigning) /\ t.draft # None /\ Unused # {}
    BY <1>14 DEF CreateJob
  <2>2. t \in AssignTask /\ now \in Times
    BY <1>1, <2>1, Assigner DEF CatalogTypes
  <2>3. PICK row : row = [t.draft EXCEPT !.createdAt = now]
    OBVIOUS
  <2>4. row \in Row
    BY <2>1, <2>2, <2>3 DEF AssignTask, Row
  <2>5. jobs' = [jobs EXCEPT ![NewId] = row]
    BY <1>14, <2>3 DEF CreateJob
  <2>6. NewId \in Jobs /\ jobs[NewId] = None
    BY <2>1, NewIdTyped
  <2>7. \A j \in Jobs : (jobs[j] = None \/ jobs'[j] = jobs[j]) /\ (jobs[j] # None => jobs'[j] # None)
    BY <1>1, <2>4, <2>5, <2>6, CatalogNone DEF Rows
  <2>8. EndsFit' /\ Lasting
    BY <1>1, <2>7, EndStays DEF EndsFit, Lasting
  <2>9. PICK u : u = [t EXCEPT !.draft = None]
    OBVIOUS
  <2>10. u.kind # "queue" /\ Continue(t, u)
    BY <1>14, <2>2, <2>9 DEF CreateJob, AssignTask
  <2> QED BY <1>2, <2>8, <2>10
<1>15. ASSUME NEW t, FinishAssign(t) PROVE Goal
  <2>1. \A j \in Jobs : jobs'[j] = Deleted \/ jobs'[j] = jobs[j]
    BY <1>15 DEF FinishAssign
  <2>2. EndsFit' /\ Lasting
    BY <1>1, <2>1, EndStays, CatalogNone DEF EndsFit, Lasting
  <2>3. End(t) /\ Tell.kind # "queue"
    BY <1>15 DEF FinishAssign, Tell
  <2> QED BY <1>2, <2>2, <2>3
<1> QED BY <1>4, <1>5, <1>6, <1>8, <1>9, <1>10, <1>11, <1>12, <1>13, <1>14, <1>15 DEF Handlers, Goal

\* Neither disturbs the schedule.
LEMMA CatalogSchedules ==
    ASSUME CatalogTypes, AutoTypes, ScheduleInv, Catalog(Requests) \/ Catalog(Handlers)
    PROVE  ScheduleInv'
<1>1. /\ Requests \/ Handlers
      /\ UNCHANGED <<toAgent, toHub, runs, runHistory>>
  BY DEF Catalog, netVars
<1>2. EndsFit
  BY DEF ScheduleInv, EndsFit
<1>3. EndsFit' /\ Lasting /\ \A s \in DOMAIN tasks' : s \in DOMAIN tasks \/ NewQueue(s)
  BY <1>1, <1>2, RequestsEnd, HandlersEnd
<1>4. RunsMade'
  <2>1. Only(toAgent, toAgent', {}) /\ Only(toHub, toHub', {})
    BY <1>1, OnlySent DEF AutoTypes
  <2> QED BY <1>1, <1>3, <2>1, RunsStay DEF ScheduleInv
<1> QED BY <1>3, <1>4, KeepsSchedule

\* The server's steps keep what is known of the schedule.
LEMMA HubSchedules ==
    ASSUME CatalogTypes, AutoTypes, ScheduleInv, Hub
    PROVE  ScheduleInv'
<1>1. /\ TasksOK /\ jobs \in Rows /\ now \in Times /\ EndsFit /\ RunsMade /\ ended \in [Jobs -> Times \cup {None}]
      /\ toAgent \in Seq(ToAgentMessage) /\ toHub \in Seq(ToHub)
  BY DEF CatalogTypes, AutoTypes, ScheduleInv, EndsFit
<1>2. /\ UNCHANGED toAgent => Only(toAgent, toAgent', {})
      /\ UNCHANGED toHub => Only(toHub, toHub', {})
      /\ \A type : Received(type) => Only(toHub, toHub', {})
  BY <1>1, OnlySent DEF Received
<1>3. ASSUME UNCHANGED <<jobs, ended, cancelled>> PROVE EndsFit' /\ Lasting
  BY <1>1, <1>3, EndsStay
<1>4. ASSUME Lasting, EndsFit', NEW t, NEW u, NewQueue(u), UNCHANGED runs, NEW ms,
             Begin(u) \/ Continue(t, u) \/ End(t) \/ UNCHANGED tasks, Only(toHub, toHub', {}),
             Only(toAgent, toAgent', ms), \A m \in ms : m.type = "run" => jobs'[m.job] # None
      PROVE  ScheduleInv'
  <2>1. \A s \in DOMAIN tasks' : s \in DOMAIN tasks \/ NewQueue(s)
    BY <1>1, <1>4, OneNew
  <2>2. RunsMade'
    BY <1>1, <1>4, RunsStay
  <2> QED BY <1>4, <2>1, <2>2, KeepsSchedule
<1>5. NewQueue(Tell)
  BY DEF NewQueue, Tell
<1>6. ASSUME Poll PROVE ScheduleInv'
  <2>1. PICK u : u = Queue({j \in Jobs : Due(j)}, "schedule")
    OBVIOUS
  <2>2. Begin(u) /\ UNCHANGED <<jobs, ended, cancelled, toAgent, toHub, runs>>
    BY <1>6, <2>1 DEF Poll, autoVars, netVars, runHistory
  <2>3. NewQueue(u)
    <3>1. PICK due : due = {j \in Jobs : Due(j)}
      OBVIOUS
    <3>2. /\ u.todo = due /\ u.job = None /\ u.at = now
          /\ \A j \in due : u.rows[j] = jobs[j]
      BY <2>1, <3>1 DEF Queue
    <3>3. \A j \in due : Exists(j) /\ ~Active(j) /\ DueAt(jobs[j], now)
      BY <3>1 DEF Due, DueAt, shouldRunNow, shouldRunInterval
    <3>4. \A j \in due : jobs[j].status \notin {"queued", "running"} /\ jobs'[j] # None
      BY <2>2, <3>3 DEF Active, Exists
    <3>5. None \notin Jobs
      BY CatalogNone
    <3> QED BY <3>2, <3>3, <3>4, <3>5 DEF NewQueue
  <2> QED BY <1>2, <1>3, <1>4, <2>2, <2>3
<1>7. ASSUME HubRegister PROVE ScheduleInv'
  <2>1. PICK u : u = [Tell EXCEPT !.then = "queued"]
    OBVIOUS
  <2>2. Begin(u) /\ Received("register") /\ UNCHANGED <<jobs, ended, cancelled, toAgent, runs>>
    BY <1>7, <2>1 DEF HubRegister, runHistory
  <2>3. NewQueue(u)
    BY <2>1 DEF NewQueue, Tell
  <2> QED BY <1>2, <1>3, <1>4, <2>2, <2>3
<1>8. ASSUME HubTrigger PROVE ScheduleInv'
  <2>1. PICK m : m = Head(toHub)
    OBVIOUS
  <2>2. m \in ToHub /\ m.type = "trigger"
    BY <1>1, <1>8, <2>1 DEF HubTrigger, Received
  <2>3. PICK u : u = Queue({m.job}, m.reason)
    OBVIOUS
  <2>4. Received("trigger") /\ UNCHANGED <<jobs, ended, cancelled, toAgent, runs>>
    BY <1>8 DEF HubTrigger, runHistory
  <2>5. (Has(m.job, m.reason) /\ Begin(u)) \/ UNCHANGED tasks
    BY <1>8, <2>1, <2>3 DEF HubTrigger
  <2>6. CASE UNCHANGED tasks
    BY <1>2, <1>3, <1>4, <1>5, <2>4, <2>6
  <2>7. CASE Has(m.job, m.reason) /\ Begin(u)
    <3>1. u.todo = {m.job} /\ u.job = None /\ u.reason = m.reason
      BY <2>3 DEF Queue
    <3>2. m.reason # "schedule" /\ m.job \in Jobs
      BY <2>2 DEF ToHub
    <3>3. jobs'[m.job] # None
      BY <2>4, <2>7 DEF Has, Exists
    <3>4. None \notin Jobs
      BY CatalogNone
    <3>5. NewQueue(u)
      BY <3>1, <3>2, <3>3, <3>4 DEF NewQueue
    <3> QED BY <1>2, <1>3, <1>4, <2>4, <2>7, <3>5
  <2> QED BY <2>5, <2>6, <2>7
<1>9. ASSUME HubStarted PROVE ScheduleInv'
  <2>1. PICK m : m = Head(toHub)
    OBVIOUS
  <2>2. m \in ToHub /\ m.type = "started"
    BY <1>1, <1>9, <2>1 DEF HubStarted, Received
  <2>3. /\ jobs' = SetStatus(jobs, m.job, "running") /\ Received("started")
        /\ UNCHANGED <<tasks, ended, cancelled, toAgent, runs>>
    BY <1>9, <2>1 DEF HubStarted, runHistory
  <2>4. m.job \in Jobs /\ "running" \in Statuses
    BY <2>2 DEF ToHub, Statuses
  <2>5. EndsFit' /\ Lasting
    BY <1>1, <2>3, <2>4, EndsWith
  <2> QED BY <1>2, <1>4, <1>5, <2>3, <2>5
<1>10. ASSUME HubEnded PROVE ScheduleInv'
  <2>1. PICK m : m = Head(toHub)
    OBVIOUS
  <2>2. m \in ToHub /\ m.type = "ended" /\ toHub # <<>>
    BY <1>1, <1>10, <2>1 DEF HubEnded, Received
  <2>3. /\ jobs' = SetStatus(jobs, m.job, m.outcome) /\ Received("ended")
        /\ UNCHANGED <<tasks, toAgent, runs>>
        /\ IF m.outcome = "cancelled"
           THEN cancelled' = cancelled \cup {m.job} /\ UNCHANGED ended
           ELSE cancelled' = cancelled \ {m.job} /\ ended' = [ended EXCEPT ![m.job] = now]
    BY <1>10, <2>1 DEF HubEnded
  <2>4. m.job \in Jobs /\ m.outcome \in Statuses /\ m.outcome \in {"completed", "cancelled", "error"}
    BY <2>2 DEF ToHub, Statuses
  <2>5. jobs[m.job] # None
    <3>1. 1 \in DOMAIN toHub /\ m = toHub[1]
      BY <1>1, <2>1, <2>2
    <3> QED BY <1>1, <2>2, <3>1 DEF RunsMade, Made
  <2>6. EndsFit' /\ Lasting
    <3>1. CASE m.outcome = "cancelled"
      BY <1>1, <2>3, <2>4, <3>1, EndsWith
    <3>2. CASE m.outcome # "cancelled"
      BY <1>1, <2>3, <2>4, <2>5, <3>2, EndsWith
    <3> QED BY <3>1, <3>2
  <2> QED BY <1>2, <1>4, <1>5, <2>3, <2>6
<1>11. ASSUME NEW t \in AtWork({"queue"})
       PROVE  /\ t.kind = "queue" /\ t.todo \subseteq Jobs /\ (t.job # None => t.job \in Jobs)
              /\ \E js \in SUBSET Jobs : t \in QueueTask(js)
              /\ \A j \in Jobs : j \in t.todo \/ t.job = j => jobs[j] # None
              /\ t.reason = "schedule" => \A j \in t.todo :
                    t.rows[j].status \notin {"queued", "running"} /\ DueAt(t.rows[j], t.at)
  <2>1. PICK js \in SUBSET Jobs : t \in QueueTask(js)
    BY <1>1, Handler DEF AtWork
  <2>2. t.kind = "queue" /\ t.todo \subseteq Jobs /\ (t.job # None => t.job \in Jobs)
    BY <2>1 DEF QueueTask
  <2> QED BY <2>1, <2>2 DEF ScheduleInv, QueuedMade, DueWhenRead, Made
<1>12. ASSUME NEW t, QueueNext(t) PROVE ScheduleInv'
  <2>1. t \in AtWork({"queue"}) /\ UNCHANGED <<ended, cancelled, toAgent, toHub, runs>>
    BY <1>12 DEF QueueNext, autoVars, netVars, runHistory
  <2>2. PICK js \in SUBSET Jobs : t \in QueueTask(js)
    BY <1>11, <2>1
  <2>3. PICK j \in t.todo : /\ jobs' = SetStatus(jobs, j, "queued")
                            /\ Continue(t, [t EXCEPT !.job = j, !.todo = @ \ {j}])
    BY <1>12 DEF QueueNext
  <2>4. PICK u : u = [t EXCEPT !.job = j, !.todo = @ \ {j}]
    OBVIOUS
  <2>5. /\ u.kind = "queue" /\ u.job = j /\ u.todo = t.todo \ {j} /\ u.reason = t.reason
        /\ u.rows = t.rows /\ u.at = t.at
    BY <2>2, <2>4 DEF QueueTask
  <2>6. j \in Jobs /\ "queued" \in Statuses
    BY <2>2 DEF QueueTask, Statuses
  <2>7. EndsFit' /\ Lasting
    BY <1>1, <2>1, <2>3, <2>6, EndsWith
  <2>8. NewQueue(u)
    BY <1>11, <2>1, <2>5, <2>7 DEF NewQueue, Lasting
  <2> QED BY <1>2, <1>4, <2>1, <2>3, <2>4, <2>7, <2>8
<1>13. ASSUME NEW t, QueueSend(t) PROVE ScheduleInv'
  <2>1. PICK m : m = [type |-> "run", job |-> t.job, path |-> t.rows[t.job].path]
    OBVIOUS
  <2>2. PICK u : u = [t EXCEPT !.job = None]
    OBVIOUS
  <2>3. /\ t \in AtWork({"queue"}) /\ t.job # None /\ Continue(t, u) /\ UNCHANGED <<toHub, runs>>
        /\ \/ UNCHANGED <<jobs, ended, cancelled>> /\ toAgent' = Send(toAgent, m)
           \/ /\ jobs' = SetStatus(jobs, t.job, "error") /\ UNCHANGED toAgent
              /\ ended' = [ended EXCEPT ![t.job] = now] /\ cancelled' = cancelled \ {t.job}
    BY <1>13, <2>1, <2>2 DEF QueueSend, runHistory
  <2>4. PICK js \in SUBSET Jobs : t \in QueueTask(js) /\ t.todo \cup ({t.job} \ {None}) \subseteq js
    BY <1>1, <2>3, Handler
  <2>5. /\ u.kind = "queue" /\ u.job = None /\ u.todo = t.todo /\ u.reason = t.reason
        /\ u.rows = t.rows /\ u.at = t.at
    BY <2>2, <2>4 DEF QueueTask
  <2>6. t.job \in Jobs /\ jobs[t.job] # None /\ "error" \in Statuses
    BY <1>11, <2>3 DEF Statuses
  <2>7. EndsFit' /\ Lasting
    BY <1>1, <1>3, <2>3, <2>6, EndsWith
  <2>8. NewQueue(u)
    <3>1. None \notin Jobs
      BY CatalogNone
    <3> QED BY <1>11, <2>3, <2>5, <2>7, <3>1 DEF NewQueue, Lasting
  <2>9. m \in ToAgentMessage /\ m.type = "run" /\ m.job = t.job
    <3>1. t.rows[t.job] \in Row
      BY <2>4, <2>3 DEF QueueTask
    <3> QED BY <2>1, <2>6, <3>1 DEF ToAgentMessage, RunMessage, Row
  <2>10. Only(toAgent, toAgent', {m})
    BY <1>1, <2>3, <2>9, OnlySent DEF Only
  <2>11. \A x \in {m} : x.type = "run" => jobs'[x.job] # None
    BY <2>6, <2>7, <2>9 DEF Lasting
  <2> QED BY <1>2, <1>4, <2>3, <2>7, <2>8, <2>10, <2>11
<1>14. ASSUME NEW t, QueueEnds(t) PROVE ScheduleInv'
  <2>1. End(t) /\ UNCHANGED <<jobs, ended, cancelled, toAgent, toHub, runs>>
    BY <1>14 DEF QueueEnds, autoVars, netVars, runHistory
  <2> QED BY <1>2, <1>3, <1>4, <1>5, <2>1
<1>15. ASSUME NEW t, ReadWatched(t) PROVE ScheduleInv'
  <2>1. UNCHANGED <<jobs, ended, cancelled, toAgent, toHub, runs>>
    BY <1>15 DEF ReadWatched, autoVars, netVars, runHistory
  <2>2. CASE ~registered
    <3>1. End(t)
      BY <1>15, <2>2 DEF ReadWatched
    <3> QED BY <1>2, <1>3, <1>4, <1>5, <2>1, <3>1
  <2>3. CASE registered
    <3>1. t \in WatchTask
      <4>1. t \in AtWork({"watch"})
        BY <1>15 DEF ReadWatched
      <4> QED BY <1>1, <4>1, Handler DEF AtWork
    <3>2. Reading(t).kind = "watch"
      BY <3>1 DEF Reading, WatchTask
    <3>3. \A s \in WatchTask : Aged(s).kind = "watch"
      BY DEF Aged, WatchTask
    <3>4. \A s \in DOMAIN tasks' : s \in DOMAIN tasks \/ s.kind = "watch"
      BY <1>1, <1>15, <2>3, <3>2, <3>3, Reads
    <3>5. \A s \in DOMAIN tasks' : s \in DOMAIN tasks \/ NewQueue(s)
      BY <3>4 DEF NewQueue
    <3>6. EndsFit' /\ Lasting
      BY <1>3, <2>1
    <3>7. RunsMade'
      BY <1>1, <1>2, <2>1, <3>6, RunsStay
    <3> QED BY <3>5, <3>6, <3>7, KeepsSchedule
  <2> QED BY <2>2, <2>3
<1>16. ASSUME NEW t, SendWatched(t) PROVE ScheduleInv'
  <2>1. PICK m : m = [type |-> "watch", list |-> t.list]
    OBVIOUS
  <2>2. PICK u : u = [kind |-> "resend", conn |-> t.conn]
    OBVIOUS
  <2>3. /\ t \in AtWork({"watch"}) /\ t.list # None
        /\ toAgent' = toAgent \/ toAgent' = Append(toAgent, m)
        /\ End(t) \/ Continue(t, u)
        /\ UNCHANGED <<jobs, ended, cancelled, toHub, runs>>
    BY <1>16, <2>1, <2>2 DEF SendWatched, runHistory
  <2>4. t \in WatchTask
    BY <1>1, <2>3, Handler
  <2>5. m \in ToAgentMessage /\ m.type = "watch"
    BY <2>1, <2>3, <2>4 DEF WatchTask, ToAgentMessage, ListMessage
  <2>6. Only(toAgent, toAgent', {m})
    <3>1. Only(toAgent, toAgent, {}) /\ Only(toAgent, Append(toAgent, m), {m})
      BY <1>1, <2>5, OnlySent
    <3> QED BY <2>3, <3>1 DEF Only
  <2>7. NewQueue(u)
    BY <2>2 DEF NewQueue
  <2>8. \A x \in {m} : x.type = "run" => jobs'[x.job] # None
    BY <2>5
  <2>9. EndsFit' /\ Lasting /\ Only(toHub, toHub', {})
    BY <1>2, <1>3, <2>3
  <2>10. (End(t) \/ Continue(t, u)) /\ UNCHANGED runs
    BY <2>3
  <2> QED BY <1>4, <2>6, <2>7, <2>8, <2>9, <2>10
<1>17. ASSUME NEW t, ResendQueued(t) PROVE ScheduleInv'
  <2>1. End(t) /\ UNCHANGED <<jobs, ended, cancelled, toHub, runs>>
    BY <1>17 DEF ResendQueued, runHistory
  <2>2. PICK queued : queued = {j \in Jobs : Exists(j) /\ jobs[j].status = "queued"}
    OBVIOUS
  <2>3. PICK n : n = Cardinality(queued)
    OBVIOUS
  <2>4. n \in Nat
    BY <2>2, <2>3, CatalogAssumption, FS_Subset, FS_CardinalityType
  <2>5. PICK order \in [1..n -> queued] :
          \/ toAgent' = toAgent
          \/ toAgent' = toAgent \o [i \in DOMAIN order |->
                      [type |-> "run", job |-> order[i], path |-> jobs[order[i]].path]]
    BY <1>17, <2>2, <2>3 DEF ResendQueued
  <2> DEFINE say(j) == [type |-> "run", job |-> j, path |-> jobs[j].path]
             ms == {say(j) : j \in queued}
  <2>6. PICK r : r = [i \in DOMAIN order |-> say(order[i])]
    OBVIOUS
  <2>7. r \in [1..n -> ms]
    BY <2>6
  <2>8. \A m \in ms : m.type = "run" => jobs'[m.job] # None
    BY <2>1, <2>2 DEF Exists
  <2>9. toAgent' = toAgent \/ toAgent' = toAgent \o r
    BY <2>5, <2>6
  <2> HIDE DEF ms, say
  <2>10. Only(toAgent, toAgent', ms)
    <3>1. CASE toAgent' = toAgent
      BY <3>1 DEF Only
    <3>2. CASE toAgent' = toAgent \o r
      <4>1. PICK q : q = toAgent /\ q \in Seq(ToAgentMessage)
        BY <1>1
      <4>2. Len(r) = n /\ DOMAIN r = 1..n /\ Len(q) \in Nat
        BY <2>4, <2>7, <4>1
      <4>3. DOMAIN (q \o r) = 1..(Len(q) + n)
        BY <2>4, <4>2
      <4>4. \A i \in DOMAIN (q \o r) : (q \o r)[i] = IF i <= Len(q) THEN q[i] ELSE r[i - Len(q)]
        BY <2>4, <4>2, <4>3
      <4>5. ASSUME NEW i \in DOMAIN (q \o r) PROVE (q \o r)[i] \in ms \/ \E k \in DOMAIN q : (q \o r)[i] = q[k]
        <5>1. CASE i <= Len(q)
          BY <2>4, <4>1, <4>2, <4>3, <4>4, <5>1
        <5>2. CASE i > Len(q)
          <6>1. i - Len(q) \in 1..n
            BY <2>4, <4>2, <4>3, <5>2
          <6> QED BY <2>4, <2>7, <4>2, <4>3, <4>4, <5>2, <6>1
        <5> QED BY <4>2, <4>3, <5>1, <5>2, <2>4
      <4> QED BY <3>2, <4>1, <4>5 DEF Only
    <3> QED BY <2>9, <3>1, <3>2
  <2> QED BY <1>2, <1>3, <1>4, <1>5, <2>1, <2>8, <2>10
<1> QED BY <1>6, <1>7, <1>8, <1>9, <1>10, <1>12, <1>13, <1>14, <1>15, <1>16, <1>17 DEF Hub

\* The agent runs and reports what it was sent.
LEMMA AgentSchedules ==
    ASSUME CatalogTypes, AutoTypes, ScheduleInv, Agent
    PROVE  ScheduleInv'
<1>1. /\ jobs \in Rows /\ EndsFit /\ RunsMade
      /\ toAgent \in Seq(ToAgentMessage) /\ toHub \in Seq(ToHub)
      /\ runs \in [Jobs -> RunOfJob \cup {None}]
  BY DEF CatalogTypes, AutoTypes, ScheduleInv, EndsFit
<1>2. /\ UNCHANGED toAgent => Only(toAgent, toAgent', {})
      /\ UNCHANGED toHub => Only(toHub, toHub', {})
      /\ \A type : Delivered(type) => Only(toAgent, toAgent', {})
  BY <1>1, OnlySent DEF Delivered
<1>3. ASSUME UNCHANGED <<jobs, tasks, ended, cancelled>>, Only(toAgent, toAgent', {}),
             NEW ns, Only(toHub, toHub', ns), \A m \in ns : m.type = "ended" => jobs[m.job] # None,
             \A j \in Jobs : runs'[j] # None => runs[j] # None \/ jobs[j] # None
      PROVE  ScheduleInv'
  <2>1. EndsFit' /\ Lasting
    BY <1>1, <1>3, EndsStay
  <2>2. RunsMade'
    BY <1>1, <1>3, <2>1, RunsStay
  <2> QED BY <1>3, <2>1, <2>2, KeepsSchedule
<1>4. UNCHANGED <<catalogVars, runHistory>> => UNCHANGED <<jobs, tasks, ended, cancelled>>
  BY DEF catalogVars, runHistory
<1>5. ASSUME NEW m \in ToHub, UNCHANGED toHub \/ toHub' = Send(toHub, m) PROVE Only(toHub, toHub', {m})
  <2>1. Only(toHub, toHub, {}) /\ Only(toHub, Send(toHub, m), {m})
    BY <1>1, OnlySent
  <2> QED BY <1>5, <2>1 DEF Only
<1>6. ASSUME Connect PROVE ScheduleInv'
  <2>1. PICK m : m = [type |-> "register"]
    OBVIOUS
  <2>2. toHub' = <<m>> /\ UNCHANGED <<jobs, tasks, ended, cancelled, toAgent, runs>>
    BY <1>4, <1>6, <2>1 DEF Connect
  <2>3. Only(toHub, toHub', {m})
    BY <2>2 DEF Only
  <2>4. \A x \in {m} : x.type = "ended" => jobs[x.job] # None
    BY <2>1
  <2>5. Only(toAgent, toAgent', {})
    BY <1>2, <2>2
  <2> QED BY <1>3, <2>2, <2>3, <2>4, <2>5
<1>7. ASSUME AgentWatch PROVE ScheduleInv'
  <2>1. Delivered("watch") /\ UNCHANGED <<jobs, tasks, ended, cancelled, toHub, runs>>
    BY <1>4, <1>7 DEF AgentWatch
  <2> QED BY <1>2, <1>3, <2>1
<1>8. ASSUME AgentRun PROVE ScheduleInv'
  <2>1. PICK m : m = Head(toAgent)
    OBVIOUS
  <2>2. Delivered("run") /\ UNCHANGED <<jobs, tasks, ended, cancelled, toHub>>
    BY <1>4, <1>8 DEF AgentRun
  <2>3. m \in ToAgentMessage /\ m.type = "run" /\ 1 \in DOMAIN toAgent /\ m = toAgent[1]
    BY <1>1, <2>1, <2>2 DEF Delivered
  <2>4. m.job \in Jobs /\ jobs[m.job] # None
    BY <1>1, <2>3 DEF ToAgentMessage, RunMessage, CancelMessage, ListMessage, RunsMade, Made
  <2>5. PICK r : r = [step |-> "queued", path |-> m.path, conn |-> conn, stop |-> FALSE]
    OBVIOUS
  <2>6. runs' = runs \/ runs' = [runs EXCEPT ![m.job] = r]
    BY <1>8, <2>1, <2>5 DEF AgentRun
  <2>7. \A j \in Jobs : runs'[j] # None => runs[j] # None \/ jobs[j] # None
    BY <1>1, <2>4, <2>6
  <2> QED BY <1>2, <1>3, <2>2, <2>7
<1>9. ASSUME AgentCancel PROVE ScheduleInv'
  <2>1. PICK j : j = Head(toAgent).job
    OBVIOUS
  <2>2. PICK m : m = [type |-> "ended", job |-> j, outcome |-> "cancelled"]
    OBVIOUS
  <2>3. Delivered("cancel") /\ UNCHANGED <<jobs, tasks, ended, cancelled>>
    BY <1>4, <1>9 DEF AgentCancel
  <2>4. Head(toAgent) \in ToAgentMessage /\ Head(toAgent).type = "cancel"
    BY <1>1, <2>3 DEF Delivered
  <2>5. j \in Jobs /\ m \in ToHub
    <3>1. j \in Jobs
      BY <2>1, <2>4 DEF ToAgentMessage, RunMessage, CancelMessage, ListMessage
    <3> QED BY <2>2, <3>1 DEF ToHub
  <2>6. \/ runs[j] # None /\ runs' = [runs EXCEPT ![j] = None] /\ toHub' = Send(toHub, m)
        \/ runs[j] # None /\ runs' = [runs EXCEPT ![j].stop = TRUE] /\ UNCHANGED toHub
        \/ UNCHANGED <<runs, toHub>>
    BY <1>9, <2>1, <2>2 DEF AgentCancel
  <2>7. \A i \in Jobs : runs'[i] # None => runs[i] # None
    BY <1>1, <2>5, <2>6
  <2>8. CASE toHub' = Send(toHub, m) /\ runs[j] # None
    <3>1. \A x \in {m} : x.type = "ended" => jobs[x.job] # None
      BY <1>1, <2>2, <2>5, <2>8 DEF RunsMade, Made
    <3>2. Only(toHub, toHub', {m})
      BY <1>5, <2>5, <2>8
    <3> QED BY <1>2, <1>3, <2>3, <2>7, <3>1, <3>2
  <2>9. CASE UNCHANGED toHub
    BY <1>2, <1>3, <2>3, <2>7, <2>9
  <2> QED BY <2>6, <2>8, <2>9
<1>10. ASSUME NEW j \in Jobs, NEW reason \in {"watch", "connect"}, NEW paths \in SUBSET Paths,
              Fires(j, reason, paths)
       PROVE  ScheduleInv'
  <2>1. PICK m : m = [type |-> "trigger", job |-> j, reason |-> reason, paths |-> paths]
    OBVIOUS
  <2>2. toHub' = Send(toHub, m) /\ UNCHANGED <<jobs, tasks, ended, cancelled, toAgent, runs>>
    BY <1>4, <1>10, <2>1 DEF Fires
  <2>3. m \in ToHub
    BY <2>1 DEF ToHub
  <2>4. Only(toHub, toHub', {m}) /\ Only(toAgent, toAgent', {})
    BY <1>2, <1>5, <2>2, <2>3
  <2>5. \A x \in {m} : x.type = "ended" => jobs[x.job] # None
    BY <2>1
  <2> QED BY <1>3, <2>2, <2>4, <2>5
<1>11. ASSUME NEW j \in Jobs, WatchFires(j) \/ FolderFires(j) PROVE ScheduleInv'
  <2>1. CASE WatchFires(j)
    <3>1. {watching[j]} \in SUBSET Paths
      BY <2>1 DEF WatchFires, AutoTypes
    <3> QED BY <1>10, <2>1, <3>1 DEF WatchFires
  <2>2. CASE FolderFires(j)
    <3>1. connTimers[j] \in SUBSET Paths
      BY DEF AutoTypes
    <3> QED BY <1>10, <2>2, <3>1 DEF FolderFires
  <2> QED BY <1>11, <2>1, <2>2
<1>12. ASSUME NEW j \in Jobs, FolderLook(j) PROVE ScheduleInv'
  <2>1. UNCHANGED <<jobs, tasks, ended, cancelled, toAgent, toHub, runs>>
    BY <1>4, <1>12 DEF FolderLook, netVars
  <2> QED BY <1>2, <1>3, <2>1
<1>13. ASSUME NEW j \in Jobs, NEW step, runs[j] # None, runs' = [runs EXCEPT ![j].step = step]
       PROVE  \A i \in Jobs : runs'[i] # None => runs[i] # None
  BY <1>1, <1>13
<1>14. ASSUME NEW j \in Jobs, RunStarts(j) PROVE ScheduleInv'
  <2>1. PICK m : m = [type |-> "started", job |-> j]
    OBVIOUS
  <2>2. /\ runs[j] # None /\ runs' = [runs EXCEPT ![j].step = "started"]
        /\ toHub' = toHub \/ toHub' = Send(toHub, m)
        /\ UNCHANGED <<jobs, tasks, ended, cancelled, toAgent>>
    BY <1>4, <1>14, <2>1 DEF RunStarts, Reports
  <2>3. m \in ToHub
    BY <2>1 DEF ToHub
  <2>4. Only(toHub, toHub', {m}) /\ Only(toAgent, toAgent', {})
    BY <1>2, <1>5, <2>2, <2>3
  <2>5. \A x \in {m} : x.type = "ended" => jobs[x.job] # None
    BY <2>1
  <2>6. \A i \in Jobs : runs'[i] # None => runs[i] # None
    BY <1>13, <2>2
  <2> QED BY <1>3, <2>2, <2>4, <2>5, <2>6
<1>15. ASSUME NEW j \in Jobs, RunWalks(j) PROVE ScheduleInv'
  <2>1. /\ runs[j] # None /\ runs' = [runs EXCEPT ![j].step = "walked"]
        /\ UNCHANGED <<jobs, tasks, ended, cancelled, toAgent, toHub>>
    BY <1>4, <1>15 DEF RunWalks, netVars
  <2>2. \A i \in Jobs : runs'[i] # None => runs[i] # None
    BY <1>13, <2>1
  <2> QED BY <1>2, <1>3, <2>1, <2>2
<1>16. ASSUME NEW j \in Jobs, RunEnds(j) PROVE ScheduleInv'
  <2>1. PICK outcome \in {"completed", "cancelled", "error"} :
            Reports(j, [type |-> "ended", job |-> j, outcome |-> outcome])
    BY <1>16 DEF RunEnds
  <2>2. PICK m : m = [type |-> "ended", job |-> j, outcome |-> outcome]
    OBVIOUS
  <2>3. /\ runs[j] # None /\ runs' = [runs EXCEPT ![j] = None]
        /\ UNCHANGED <<jobs, tasks, ended, cancelled, toAgent>>
    BY <1>16 DEF RunEnds, runHistory
  <2>4. toHub' = toHub \/ toHub' = Send(toHub, m)
    BY <2>1, <2>2 DEF Reports
  <2>5. m \in ToHub
    BY <2>2 DEF ToHub
  <2>6. Only(toHub, toHub', {m}) /\ Only(toAgent, toAgent', {})
    BY <1>2, <1>5, <2>3, <2>4, <2>5
  <2>7. \A x \in {m} : x.type = "ended" => jobs[x.job] # None
    BY <1>1, <2>2, <2>3 DEF RunsMade, Made
  <2>8. \A i \in Jobs : runs'[i] # None => runs[i] # None
    BY <1>1, <2>3
  <2> QED BY <1>3, <2>3, <2>6, <2>7, <2>8
<1>17. ASSUME FolderAnswer PROVE ScheduleInv'
  <2>1. UNCHANGED <<jobs, tasks, ended, cancelled, toAgent, toHub, runs>>
    BY <1>4, <1>17 DEF FolderAnswer, netVars
  <2> QED BY <1>2, <1>3, <2>1
<1> QED BY <1>6, <1>7, <1>8, <1>9, <1>11, <1>12, <1>14, <1>15, <1>16, <1>17 DEF Agent

\* A new server queues the jobs of the start.
LEMMA RestartQueues ==
    ASSUME CatalogTypes, RestartApi, NEW s \in DOMAIN tasks'
    PROVE  /\ s.kind = "queue" /\ s.reason = "startup" /\ s.job = None
           /\ \A j \in s.todo : Exists(j)
<1>1. PICK startup : startup = {j \in Jobs : Has(j, "start")}
  OBVIOUS
<1>2. PICK rows : rows = [j \in Jobs |-> IF Active(j) THEN SetStatus(jobs, j, "error")[j] ELSE jobs[j]]
  OBVIOUS
<1>3. PICK u : u = [Queue(startup, "startup") EXCEPT !.rows = [j \in startup |-> rows[j]]]
  OBVIOUS
<1>4. tasks' = EmptyBag \/ tasks' = SetToBag({u})
  BY <1>1, <1>2, <1>3 DEF RestartApi
<1>5. s = u
  BY <1>4 DEF EmptyBag, SetToBag
<1>6. u.kind = "queue" /\ u.reason = "startup" /\ u.job = None /\ u.todo = startup
  BY <1>3 DEF Queue
<1>7. \A j \in startup : Exists(j)
  BY <1>1 DEF Has
<1> QED BY <1>5, <1>6, <1>7

\* What was active has failed.
LEMMA RestartSchedules ==
    ASSUME CatalogTypes, AutoTypes, ScheduleInv, RestartApi
    PROVE  ScheduleInv'
<1>1. jobs \in Rows /\ now \in Times /\ EndsFit
  BY DEF CatalogTypes, ScheduleInv, EndsFit
<1>2. /\ toAgent' = <<>> /\ toHub' = <<>> /\ runs' = runs
      /\ jobs' = [j \in Jobs |-> IF Active(j) THEN SetStatus(jobs, j, "error")[j] ELSE jobs[j]]
      /\ ended' = [j \in Jobs |-> IF Active(j) THEN now ELSE ended[j]]
      /\ cancelled' = {j \in cancelled : ~Active(j)}
  BY DEF RestartApi
<1>3. EndsFit' /\ Lasting
  <2>1. PICK js \in SUBSET Jobs : js = {j \in Jobs : Active(j)}
    OBVIOUS
  <2>2. \A j \in Jobs : j \in js <=> Active(j)
    BY <2>1
  <2>3. jobs' = [j \in Jobs |-> IF j \in js THEN SetStatus(jobs, j, "error")[j] ELSE jobs[j]]
    BY <1>2, <2>2
  <2>4. ended' = [j \in Jobs |-> IF j \in js THEN now ELSE ended[j]]
    BY <1>2, <2>2
  <2>5. \A j \in Jobs \ js : j \in cancelled => j \in cancelled'
    BY <1>2, <2>2
  <2> QED BY <1>1, <2>2, <2>3, <2>4, <2>5, EndTogether
<1>4. RunsMade'
  <2>1. Only(toAgent, toAgent', {}) /\ Only(toHub, toHub', {})
    BY <1>2 DEF Only
  <2> QED BY <1>2, <1>3, <2>1, RunsStay DEF ScheduleInv
<1>5. ASSUME NEW s \in DOMAIN tasks' PROVE NewQueue(s)
  <2>1. s.reason = "startup" /\ s.job = None /\ \A j \in s.todo : Exists(j)
    BY RestartQueues
  <2>2. \A j \in Jobs : j \in s.todo => jobs'[j] # None
    BY <1>3, <2>1 DEF Exists, Lasting
  <2>3. None \notin Jobs
    BY CatalogNone
  <2> QED BY <2>1, <2>2, <2>3 DEF NewQueue
<1> QED BY <1>3, <1>4, <1>5, KeepsSchedule

\* What users and the world do.
LEMMA WorldSchedules ==
    ASSUME CatalogTypes, AutoTypes, ScheduleInv, World \/ UNCHANGED vars
    PROVE  ScheduleInv'
<1>1. /\ TasksOK /\ jobs \in Rows /\ now \in Times /\ EndsFit /\ owned \subseteq Jobs
      /\ toAgent \in Seq(ToAgentMessage) /\ toHub \in Seq(ToHub)
  BY DEF CatalogTypes, AutoTypes, ScheduleInv, EndsFit
<1>2. /\ UNCHANGED toAgent => Only(toAgent, toAgent', {})
      /\ UNCHANGED toHub => Only(toHub, toHub', {})
  BY <1>1, OnlySent
<1>3. ASSUME Lasting, EndsFit', Only(toHub, toHub', {}), \A j \in Jobs : runs'[j] \in {None, runs[j]},
             NEW ms, Only(toAgent, toAgent', ms), \A m \in ms : m.type # "run",
             \A s \in DOMAIN tasks' : s \in DOMAIN tasks \/ NewQueue(s)
      PROVE  ScheduleInv'
  <2>1. RunsMade'
    BY <1>3, RunsStay DEF ScheduleInv
  <2> QED BY <1>3, <2>1, KeepsSchedule
<1>4. ASSUME UNCHANGED <<jobs, tasks, ended, cancelled, toAgent, toHub, runs>> PROVE ScheduleInv'
  <2>1. EndsFit' /\ Lasting
    BY <1>1, <1>4, EndsStay
  <2>2. Only(toAgent, toAgent', {}) /\ Only(toHub, toHub', {})
    BY <1>2, <1>4
  <2> QED BY <1>3, <1>4, <2>1, <2>2
<1>5. CASE UNCHANGED vars
  BY <1>4, <1>5 DEF vars, catalogVars, autoVars, netVars, runHistory
<1>6. ASSUME NEW j \in Jobs, RunRequest(j) PROVE ScheduleInv'
  <2>1. PICK u : u = Queue({j}, "manual")
    OBVIOUS
  <2>2. /\ Exists(j) /\ Begin(u)
        /\ UNCHANGED <<jobs, ended, cancelled, toAgent, toHub, runs>>
    BY <1>6, <2>1 DEF RunRequest, autoVars, netVars, runHistory
  <2>3. u.reason = "manual" /\ u.todo = {j} /\ u.job = None
    BY <2>1 DEF Queue
  <2>4. None \notin Jobs
    BY CatalogNone
  <2>5. NewQueue(u)
    BY <2>2, <2>3, <2>4 DEF NewQueue, Exists
  <2>6. \A s \in DOMAIN tasks' : s \in DOMAIN tasks \/ NewQueue(s)
    BY <1>1, <2>2, <2>5, OneNew
  <2>7. EndsFit' /\ Lasting
    BY <1>1, <2>2, EndsStay
  <2>8. Only(toAgent, toAgent', {}) /\ Only(toHub, toHub', {})
    BY <1>2, <2>2
  <2> QED BY <1>3, <2>2, <2>6, <2>7, <2>8
<1>7. ASSUME NEW j \in Jobs, CancelRequest(j) PROVE ScheduleInv'
  <2>1. PICK m : m = [type |-> "cancel", job |-> j]
    OBVIOUS
  <2>2. /\ jobs' = SetStatus(jobs, j, "cancelled")
        /\ toAgent' = toAgent \/ toAgent' = Send(toAgent, m)
        /\ ended' = ended /\ cancelled' = cancelled \cup {j}
        /\ UNCHANGED <<tasks, toHub, runs>>
    BY <1>7, <2>1 DEF CancelRequest
  <2>3. "cancelled" \in Statuses /\ m \in ToAgentMessage /\ m.type # "run"
    BY <2>1 DEF Statuses, ToAgentMessage, CancelMessage
  <2>4. EndsFit' /\ Lasting
    BY <1>1, <2>2, <2>3, EndsWith
  <2>5. Only(toAgent, toAgent', {m})
    <3>1. Only(toAgent, toAgent, {}) /\ Only(toAgent, Send(toAgent, m), {m})
      BY <1>1, <2>3, OnlySent
    <3> QED BY <2>2, <3>1 DEF Only
  <2>6. \A x \in {m} : x.type # "run"
    BY <2>3
  <2>7. Only(toHub, toHub', {}) /\ UNCHANGED <<tasks, runs>>
    BY <1>2, <2>2
  <2> QED BY <1>3, <2>4, <2>5, <2>6, <2>7
<1>8. ASSUME NEW p \in Paths, Edit(p) \/ FolderMoves(p) PROVE ScheduleInv'
  BY <1>4, <1>8 DEF Edit, FolderMoves, netVars, runHistory
<1>9. ASSUME Tick PROVE ScheduleInv'
  BY <1>4, <1>9 DEF Tick, autoVars, netVars, runHistory
<1>10. ASSUME Disconnect, UNCHANGED tasks, \A j \in Jobs : runs'[j] \in {None, runs[j]} PROVE ScheduleInv'
  <2>1. PICK js \in SUBSET Jobs : js = {j \in owned : Active(j)}
    BY <1>1
  <2>2. /\ toAgent' = <<>> /\ toHub' = <<>>
        /\ jobs' = [j \in Jobs |-> IF j \in js THEN SetStatus(jobs, j, "error")[j] ELSE jobs[j]]
        /\ ended' = [j \in Jobs |-> IF j \in js THEN now ELSE ended[j]]
        /\ cancelled' = cancelled \ js
    BY <1>10, <2>1 DEF Disconnect
  <2>3. \A j \in js : Active(j)
    BY <2>1
  <2>4. EndsFit' /\ Lasting
    BY <1>1, <2>2, <2>3, EndTogether
  <2>5. Only(toAgent, toAgent', {}) /\ Only(toHub, toHub', {})
    BY <2>2 DEF Only
  <2> QED BY <1>3, <1>10, <2>4, <2>5
<1>11. ASSUME ConnectionLost PROVE ScheduleInv'
  BY <1>10, <1>11 DEF ConnectionLost
<1>12. ASSUME AgentDies PROVE ScheduleInv'
  <2>1. Disconnect /\ UNCHANGED tasks /\ \A j \in Jobs : runs'[j] = None
    BY <1>12 DEF AgentDies
  <2> QED BY <1>10, <2>1
<1>13. ASSUME ApiDies PROVE ScheduleInv'
  BY <1>13, RestartSchedules DEF ApiDies
<1>14. ASSUME Catalog(Requests) PROVE ScheduleInv'
  BY <1>14, CatalogSchedules
<1> QED BY <1>5, <1>6, <1>7, <1>8, <1>9, <1>11, <1>12, <1>13, <1>14 DEF World

\* In the beginning nothing has ended, and nothing is queued, sent or run.
LEMMA InitSchedules == Init => ScheduleInv
<1> SUFFICES ASSUME NEW c \in Cases, CatalogInit(c), AgentInit(c.start) PROVE ScheduleInv
  BY DEF Init
<1>1. /\ tasks = EmptyBag /\ toAgent = <<>> /\ toHub = <<>>
      /\ runs = [j \in Jobs |-> None] /\ ended = [j \in Jobs |-> None]
  BY DEF CatalogInit, AgentInit
<1>2. AtWork({"queue"}) = {}
  BY <1>1 DEF AtWork, EmptyBag, SetToBag, BagToSet
<1>3. RunsMade
  BY <1>1 DEF RunsMade
<1>4. \A j \in Jobs : EndFits(j)
  BY <1>1 DEF EndFits
<1> QED BY <1>1, <1>2, <1>3, <1>4 DEF ScheduleInv, QueuedMade, DueWhenRead

\* No step disturbs the schedule.
LEMMA NextSchedules ==
    ASSUME CatalogTypes, AutoTypes, ScheduleInv, [Next]_vars
    PROVE  ScheduleInv'
<1>1. ASSUME NEW t, InsertFails(t) \/ LogFails PROVE ScheduleInv'
  BY <1>1, RestartSchedules DEF InsertFails, LogFails
<1> QED BY <1>1, CatalogSchedules, HubSchedules, AgentSchedules, WorldSchedules
        DEF Next, Progress, Failing

\* The schedule starts a job only in a minute it names, or when the period is over since its last
\* end, and never twice in a minute, but for the jobs named in ScheduleIsKept
\* (checkScheduledJobs, shouldRunNow, shouldRunInterval, setStatus).
THEOREM KeepsToSchedule == Spec => ScheduleIsKept
<1> DEFINE Inv == CatalogTypes /\ AutoTypes /\ ScheduleInv
           Kept == \A j \in Jobs, t \in BagToSet(tasks) :
              /\ t.kind = "queue" /\ t.reason = "schedule" /\ t.job = None /\ j \in t.todo
              /\ [t EXCEPT !.job = j, !.todo = @ \ {j}] \in BagToSet(tasks')
              /\ Exists(j) /\ jobs[j] = t.rows[j] /\ jobs'[j] # jobs[j]
              /\ j \notin cancelled /\ ended[j] # None
              => \/ "cron" \in jobs[j].auto /\ t.at \in CronMinutes /\ ended[j] # t.at
                 \/ "period" \in jobs[j].auto /\ t.at - ended[j] >= Every
<1>1. Init => Inv
  BY InitTypes, InitSchedules
<1>2. Inv /\ [Next]_vars => Inv'
  BY NextTypes, NextSchedules
<1>3. Inv => Kept
  <2> SUFFICES ASSUME Inv, NEW j \in Jobs, NEW t \in BagToSet(tasks),
                      t.kind = "queue", t.reason = "schedule", j \in t.todo,
                      Exists(j), jobs[j] = t.rows[j], j \notin cancelled, ended[j] # None
               PROVE  \/ "cron" \in jobs[j].auto /\ t.at \in CronMinutes /\ ended[j] # t.at
                      \/ "period" \in jobs[j].auto /\ t.at - ended[j] >= Every
    OBVIOUS
  <2>1. jobs[j].status \notin {"queued", "running"} /\ DueAt(jobs[j], t.at)
    BY DEF ScheduleInv, DueWhenRead, AtWork
  <2>2. jobs[j].lastRun = ended[j]
    BY <2>1 DEF ScheduleInv, EndFits, Active
  <2> QED BY <2>1, <2>2 DEF DueAt
<1>4. ScheduleIsKept <=> [][Kept]_vars
  BY DEF ScheduleIsKept
<1> HIDE DEF Kept, Inv
<1> QED BY <1>1, <1>2, <1>3, <1>4, PTL DEF Spec
=============================================================================
