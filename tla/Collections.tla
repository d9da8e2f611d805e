---------------------------- MODULE Collections ----------------------------
(***************************************************************************)
(* The job rows of the database and the requests of the web front end that *)
(* write them: the job routes, job templates, and one static collection of *)
(* devices, whose linked templates give each member a job.  A handler is   *)
(* a task; it is parked between its database statements, so that handlers  *)
(* interleave.  What a row's settings do is in Automation.                 *)
(***************************************************************************)
EXTENDS Integers, FiniteSets, Bags

CONSTANTS Devices, Templates, Paths, Jobs,
          Settings,    \* the sets of triggers a job may be given
          None, Deleted,
          MaxTime,     \* minutes
          Cases        \* how a behaviour may begin

VARIABLES jobs,        \* id -> row, None before it is made, Deleted afterwards
          members,     \* device_ids of the collection; None once it is deleted
          links,       \* template -> the source it was applied with, or None
          linkIds,     \* template -> the id of its last link
          defaults,    \* template -> its triggers; None once it is deleted
          tasks,       \* the handlers at work, a bag
          now,
          budget,      \* what the environment may still do, and the settings it offers
          \* History:
          overlapped,  \* two requests for the collection were at work at once
          interrupted, \* one of them was cut off
          unassigned,  \* pairs whose job the user deleted himself
          kept,        \* devices removed while their jobs were kept
          silent       \* jobs written by a request that tells no agent

catalogHistory == <<overlapped, interrupted, unassigned, kept, silent>>
catalogVars == <<jobs, members, links, linkIds, defaults, tasks, now, budget, catalogHistory>>

Times    == 0..MaxTime
Pairs    == Templates \X Devices
Statuses == {"idle", "queued", "running", "completed", "cancelled", "error"}
Row == [pair : Pairs \cup {None}, device : Devices \cup {None}, path : Paths,
        auto : Settings, status : Statuses, lastRun : Times \cup {None},
        createdAt : Times]

Bounds == [tasks : Nat, offers : SUBSET Settings, posts : Nat, routes : Nat, catalog : Nat,
           runs : Nat, edits : Nat, folders : Nat, minutes : Nat, faults : Nat]

ASSUME CatalogAssumption ==
    /\ IsFiniteSet(Jobs) /\ MaxTime \in Nat
    /\ Cases \subseteq [jobs : [Jobs -> Row \cup {None}], members : SUBSET Devices,
                        links : [Templates -> Paths \cup {None}],
                        defaults : [Templates -> Settings \cup {None}],
                        budget : Bounds, start : {"online", "new", "absent"}]

\* None and Deleted stand for what is not there, and are none of the things that may be.
ASSUME CatalogNone ==
    /\ None # Deleted
    /\ \A x \in {None, Deleted} : x \notin Row \cup Jobs \cup Paths \cup Devices \cup Templates
    /\ None \notin Settings \cup Pairs \cup Times

\* A behaviour begins with a collection that is served (CollectionIsServed).
ASSUME StartsServed ==
    \A c \in Cases :
        LET row(j) == c.jobs[j]
            assigned == {j \in Jobs : row(j) # None /\ row(j).pair # None} IN
        /\ \A j \in assigned : row(j).pair[2] = row(j).device /\ row(j).device \in c.members
        /\ \A i, j \in assigned : row(i).pair = row(j).pair => i = j
        /\ \A t \in Templates : c.links[t] # None =>
               /\ c.defaults[t] # None
               /\ \A d \in c.members : \E j \in assigned : row(j).pair = <<t, d>>

Exists(j) == jobs[j] \notin {None, Deleted}
Active(j) == Exists(j) /\ jobs[j].status \in {"queued", "running"}

Unused    == {j \in Jobs : jobs[j] = None}
NewId     == CHOOSE j \in Unused : TRUE

\* jobsDb.create: what is inserted.
NewRow(pair, device, path, auto) ==
    [pair |-> pair, device |-> device, path |-> path, auto |-> auto,
     status |-> "idle", lastRun |-> None, createdAt |-> now]

Spend(k)    == budget[k] > 0 /\ budget' = [budget EXCEPT ![k] = @ - 1]
AtWork(kinds) == {t \in BagToSet(tasks) : t.kind \in kinds}
Begin(t)       == BagCardinality(tasks) < budget.tasks /\ tasks' = tasks (+) SetToBag({t})
Continue(t, u) == tasks' = (tasks (-) SetToBag({t})) (+) SetToBag({u})
End(t)         == tasks' = tasks (-) SetToBag({t})

\* onJobsChanged: the agents are told what to watch.
Tell == [kind |-> "watch", conn |-> None, list |-> None, old |-> FALSE, then |-> "end"]

-----------------------------------------------------------------------------
(* The job routes. *)

PostJob(path, auto) ==
    /\ Spend("posts") /\ Unused # {}
    /\ jobs' = [jobs EXCEPT ![NewId] = NewRow(None, None, path, auto)]
    /\ Begin(Tell)
    /\ UNCHANGED <<members, links, linkIds, defaults, now, catalogHistory>>

DeleteJob(j) ==
    /\ Spend("routes") /\ Exists(j)
    /\ jobs' = [jobs EXCEPT ![j] = Deleted]
    /\ unassigned' = unassigned \cup ({jobs[j].pair} \ {None})
    /\ Begin(Tell)
    /\ UNCHANGED <<members, links, linkIds, defaults, now, overlapped, interrupted, kept, silent>>

\* jobsDb.update, for one job or, when a template is propagated, one after the
\* other: the row is read, merged with the patch, and written with all its settings.
\* A row that is gone is a 404, of which no agent is told.
Update(todo, patch, tell) ==
    [kind |-> "update", todo |-> todo, patch |-> patch, tell |-> tell, job |-> None, row |-> None]

UpdateTask == [kind : {"update"}, todo : SUBSET Jobs, patch : [path : Paths] \cup [auto : Settings],
               tell : BOOLEAN, job : Jobs \cup {None}, row : Row \cup {None}]

UpdateOK(t) ==
    /\ t.job # None => t.row # None /\ t.job \in t.todo
    /\ t.tell => \A i, j \in t.todo : i = j

PatchJob(j, patch) ==
    /\ Spend("routes") /\ Exists(j)
    /\ Begin(Update({j}, patch, TRUE))
    /\ UNCHANGED <<jobs, members, links, linkIds, defaults, now, catalogHistory>>

PropagateTemplate(t) ==
    /\ Spend("routes") /\ defaults[t] # None
    /\ Begin(Update({j \in Jobs : Exists(j) /\ jobs[j].pair # None /\ jobs[j].pair[1] = t},
                    [auto |-> defaults[t]], FALSE))
    /\ UNCHANGED <<jobs, members, links, linkIds, defaults, now, catalogHistory>>

UpdateReads(t) ==
    /\ t \in AtWork({"update"}) /\ t.job = None
    /\ \E j \in t.todo :
          IF Exists(j) THEN Continue(t, [t EXCEPT !.job = j, !.row = jobs[j]])
          ELSE IF t.tell THEN End(t) ELSE Continue(t, [t EXCEPT !.todo = @ \ {j}])
    /\ UNCHANGED <<jobs, members, links, linkIds, defaults, now, budget, catalogHistory>>

Merged(row, patch) ==
    [path |-> IF "path" \in DOMAIN patch THEN patch.path ELSE row.path,
     auto |-> IF "auto" \in DOMAIN patch THEN patch.auto ELSE row.auto]

UpdateWrites(t) ==
    /\ t \in AtWork({"update"}) /\ t.job # None
    /\ LET m == Merged(t.row, t.patch) IN
       /\ jobs' = IF Exists(t.job)
                  THEN [jobs EXCEPT ![t.job].path = m.path, ![t.job].auto = m.auto] ELSE jobs
       /\ silent' = IF t.tell THEN silent ELSE silent \cup {t.job}
       /\ Continue(t, [t EXCEPT !.job = None, !.row = None, !.todo = @ \ {t.job}])
    /\ UNCHANGED <<members, links, linkIds, defaults, now, budget, overlapped, interrupted, unassigned, kept>>

\* Mutant: only a new or deleted job is announced.
UpdateEnds_Silent(t) ==
    /\ t \in AtWork({"update"}) /\ t.todo = {}
    /\ End(t)
    /\ UNCHANGED <<jobs, members, links, linkIds, defaults, now, budget, catalogHistory>>

UpdateEnds(t) ==
    /\ t \in AtWork({"update"}) /\ t.todo = {}
    /\ IF t.tell THEN Continue(t, Tell) ELSE End(t)
    /\ UNCHANGED <<jobs, members, links, linkIds, defaults, now, budget, catalogHistory>>

-----------------------------------------------------------------------------
(* The collection. *)

Assigning == {"assign"}

\* A handler that will give jobs to devices.
Assign(step, todo, sources, triggers, next, removed) ==
    [kind |-> "assign", step |-> step, todo |-> todo, sources |-> sources,
     triggers |-> triggers, next |-> next, link |-> 0, removed |-> removed, draft |-> None]

BeginAssign(t) == Begin(t) /\ overlapped' = (overlapped \/ AtWork(Assigning) # {})

AssignTask == [kind : {"assign"}, step : {"members", "links", "link", "insert", "relink", "jobs"},
               todo : (SUBSET Devices) \cup SUBSET Pairs, sources : [Templates -> Paths \cup {None}],
               triggers : Settings \cup {None}, next : (SUBSET Devices) \cup Templates \cup {None},
               link : Nat, removed : [devices : SUBSET Devices, drop : BOOLEAN], draft : Row \cup {None}]

AssignOK(t) ==
    /\ t.step \in {"members", "links"} => t.todo \subseteq Devices /\ t.next \subseteq Devices
    /\ t.step \notin {"members", "links"} =>
           t.todo \subseteq Pairs /\ \A p \in t.todo : t.sources[p[1]] # None
    /\ t.step \in {"link", "insert", "relink"} => t.next \in Templates

\* Mutant: the difference is taken from the list that was just written.
PatchCollection_DiffsLate(devices, dropJobs) ==
    /\ Spend("catalog") /\ members # None
    /\ BeginAssign(Assign("members", {}, links, None, devices, [devices |-> {}, drop |-> dropJobs]))
    /\ kept' = IF dropJobs THEN kept \ devices ELSE (kept \cup members) \ devices
    /\ UNCHANGED <<jobs, members, links, linkIds, defaults, now, interrupted, unassigned, silent>>

\* The collection is read, and what the request adds and removes computed.
PatchCollection(devices, dropJobs) ==
    /\ Spend("catalog") /\ members # None
    /\ BeginAssign(Assign("members", devices \ members, links, None, devices,
                          [devices |-> members \ devices, drop |-> dropJobs]))
    /\ kept' = IF dropJobs THEN kept \ devices ELSE (kept \cup members) \ devices
    /\ UNCHANGED <<jobs, members, links, linkIds, defaults, now, interrupted, unassigned, silent>>

\* collectionsDb.update reads before it writes: a collection deleted before is a 404,
\* one deleted in between goes unnoticed.  Nothing is left to do without a change.
WriteMembers(t) ==
    /\ t \in AtWork(Assigning) /\ t.step = "members"
    /\ \/ /\ members' = IF members = None THEN None ELSE t.next
          /\ IF t.todo = {} /\ t.removed.devices = {}
             THEN End(t) ELSE Continue(t, [t EXCEPT !.step = "links"])
       \/ members = None /\ End(t) /\ UNCHANGED members
    /\ UNCHANGED <<jobs, links, linkIds, defaults, now, budget, catalogHistory>>

\* Every linked template for every added device.
ReadLinks(t) ==
    /\ t \in AtWork(Assigning) /\ t.step = "links"
    /\ Continue(t, [t EXCEPT
          !.step = "jobs", !.sources = links, !.next = None,
          !.todo = {u \in Templates : links[u] # None} \X @])
    /\ UNCHANGED <<jobs, members, links, linkIds, defaults, now, budget, catalogHistory>>

\* POST apply: collection and template are read.
ApplyTemplate(t, source) ==
    /\ Spend("catalog") /\ members # None /\ defaults[t] # None
    /\ BeginAssign(Assign("link", {t} \X members, [u \in Templates |-> source],
                          defaults[t], t, [devices |-> {}, drop |-> FALSE]))
    /\ UNCHANGED <<jobs, members, links, linkIds, defaults, now, interrupted, unassigned, kept, silent>>

\* collectionTemplatesDb.upsert looks for the link ...
FindLink(t) ==
    /\ t \in AtWork(Assigning) /\ t.step = "link"
    /\ Continue(t, [t EXCEPT
          !.step = IF links[t.next] = None THEN "insert" ELSE "relink", !.link = linkIds[t.next]])
    /\ UNCHANGED <<jobs, members, links, linkIds, defaults, now, budget, catalogHistory>>

\* ... and writes it: the link that was found, if it is still there, or a new one.  An
\* insert needs the collection, the template, and no link (a foreign key and a unique
\* constraint): see Automation's InsertFails for when it fails.
MayInsert(t) == members # None /\ defaults[t] # None /\ links[t] = None

WriteLink(t) ==
    /\ t \in AtWork(Assigning) /\ t.step \in {"insert", "relink"}
    /\ t.step = "insert" => MayInsert(t.next)
    /\ links' = IF t.step = "insert" \/ (links[t.next] # None /\ linkIds[t.next] = t.link)
                THEN [links EXCEPT ![t.next] = t.sources[t.next]] ELSE links
    /\ linkIds' = IF t.step = "insert" THEN [linkIds EXCEPT ![t.next] = @ + 1] ELSE linkIds
    /\ Continue(t, [t EXCEPT !.step = "jobs", !.link = 0])
    /\ UNCHANGED <<jobs, members, defaults, now, budget, catalogHistory>>

Found(p) == \E j \in Jobs : Exists(j) /\ jobs[j].pair = p

\* PATCH reads the template of each link before its devices' jobs, and passes over one that
\* is gone.
ReadTemplate(t) ==
    /\ t \in AtWork(Assigning) /\ t.step = "jobs" /\ t.draft = None /\ t.triggers = None
    /\ \E p \in t.todo :
          Continue(t, IF defaults[p[1]] = None
                      THEN [t EXCEPT !.todo = {q \in @ : q[1] # p[1]}]
                      ELSE [t EXCEPT !.triggers = defaults[p[1]], !.next = p[1]])
    /\ UNCHANGED <<jobs, members, links, linkIds, defaults, now, budget, catalogHistory>>

\* findByCollectionTemplateDevice, one device after the other, and the job built for it if
\* there is none.
FindJob(t) ==
    /\ t \in AtWork(Assigning) /\ t.step = "jobs" /\ t.draft = None /\ t.triggers # None
    /\ \E p \in t.todo : p[1] = t.next /\ Continue(t, [t EXCEPT
          !.todo = @ \ {p},
          !.triggers = IF \E q \in t.todo \ {p} : q[1] = t.next THEN @ ELSE None,
          !.draft = IF Found(p) THEN None ELSE NewRow(p, p[2], t.sources[p[1]], t.triggers)])
    /\ UNCHANGED <<jobs, members, links, linkIds, defaults, now, budget, catalogHistory>>

CreateJob(t) ==
    /\ t \in AtWork(Assigning) /\ t.draft # None
    /\ Unused # {}
    /\ jobs' = [jobs EXCEPT ![NewId] = [t.draft EXCEPT !.createdAt = now]]
    /\ silent' = silent \cup {NewId}
    /\ unassigned' = unassigned \ {t.draft.pair}
    /\ Continue(t, [t EXCEPT !.draft = None])
    /\ UNCHANGED <<members, links, linkIds, defaults, now, budget, overlapped, interrupted, kept>>

\* deleteByCollectionAndDevices, if the request asks for it, at the end.
Orphans(removed) == {j \in Jobs : /\ Exists(j) /\ jobs[j].pair # None /\ removed.drop
                                  /\ jobs[j].device \in removed.devices}

FinishAssign(t) ==
    /\ t \in AtWork(Assigning) /\ t.step = "jobs"
    /\ t.todo = {} /\ t.draft = None
    /\ LET gone == Orphans(t.removed) IN
       /\ jobs' = [j \in Jobs |-> IF j \in gone THEN Deleted ELSE jobs[j]]
       /\ silent' = silent \cup gone
    /\ End(t)
    /\ UNCHANGED <<members, links, linkIds, defaults, now, budget, overlapped, interrupted, unassigned, kept>>

Unapply(t) ==
    /\ Spend("catalog") /\ members # None /\ links[t] # None
    /\ links' = [links EXCEPT ![t] = None]
    /\ UNCHANGED <<jobs, members, linkIds, defaults, tasks, now, catalogHistory>>

\* The jobs stay; the links go with the collection.
DeleteCollection ==
    /\ Spend("catalog") /\ members # None
    /\ members' = None
    /\ links' = [t \in Templates |-> None]
    /\ UNCHANGED <<jobs, linkIds, defaults, tasks, now, catalogHistory>>

PatchTemplate(t, auto) ==
    /\ Spend("catalog") /\ defaults[t] \notin {None, auto}
    /\ defaults' = [defaults EXCEPT ![t] = auto]
    /\ UNCHANGED <<jobs, members, links, linkIds, tasks, now, catalogHistory>>

DeleteTemplate(t) ==
    /\ Spend("catalog") /\ defaults[t] # None
    /\ defaults' = [defaults EXCEPT ![t] = None]
    /\ links' = [links EXCEPT ![t] = None]
    /\ UNCHANGED <<jobs, members, linkIds, tasks, now, catalogHistory>>

-----------------------------------------------------------------------------

Requests ==
    \/ \E p \in Paths, a \in budget.offers : PostJob(p, a)
    \/ \E j \in Jobs, p \in Paths : PatchJob(j, [path |-> p])
    \/ \E j \in Jobs, a \in budget.offers : PatchJob(j, [auto |-> a])
    \/ \E j \in Jobs : DeleteJob(j)
    \/ \E ds \in SUBSET Devices, drop \in BOOLEAN : PatchCollection(ds, drop)
    \/ \E t \in Templates : \/ PropagateTemplate(t) \/ Unapply(t) \/ DeleteTemplate(t)
                            \/ \E p \in Paths : ApplyTemplate(t, p)
                            \/ \E a \in budget.offers : PatchTemplate(t, a)
    \/ DeleteCollection

Handlers == \E t \in BagToSet(tasks) :
    \/ UpdateReads(t) \/ UpdateWrites(t) \/ UpdateEnds(t)
    \/ WriteMembers(t) \/ ReadLinks(t) \/ FindLink(t) \/ WriteLink(t)
    \/ ReadTemplate(t) \/ FindJob(t) \/ CreateJob(t) \/ FinishAssign(t)

CatalogInit(c) ==
    /\ jobs = c.jobs /\ members = c.members /\ links = c.links
    /\ linkIds = [t \in Templates |-> 0]
    /\ defaults = c.defaults /\ budget = c.budget
    /\ tasks = EmptyBag /\ now = 0
    /\ overlapped = FALSE /\ interrupted = FALSE
    /\ unassigned = {} /\ kept = {} /\ silent = {}

-----------------------------------------------------------------------------

\* Once no request is at work, the collection and its jobs agree: every member
\* has one job of every linked template and nobody has two, and a device that
\* is no member has a job only if it was removed with its jobs kept.  It holds
\* as long as no two requests for the collection were at work at once and none was
\* cut off (collections.ts has no transaction and looks before it inserts), and
\* except for jobs the user deleted one by one and templates that are gone.
CollectionIsServed ==
    AtWork(Assigning) = {} /\ members # None /\ ~overlapped /\ ~interrupted =>
        /\ \A t \in Templates, d \in members :
              links[t] # None /\ <<t, d>> \notin unassigned => Found(<<t, d>>)
        /\ \A i, j \in Jobs : /\ Exists(i) /\ Exists(j) /\ i # j
                              => jobs[i].pair = None \/ jobs[i].pair # jobs[j].pair
        /\ \A j \in Jobs : Exists(j) /\ jobs[j].pair # None
                              => jobs[j].device \in members \cup kept
=============================================================================
