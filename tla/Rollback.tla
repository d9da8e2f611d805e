------------------------------ MODULE Rollback ------------------------------
(***************************************************************************)
(* Undoing a run: the server's log entries and their rollback data (routes *)
(* in api/src/routes/jobs.ts, messages in api/src/index.ts, rows in        *)
(* api/src/db.ts), and performRollback of the agent, beside the engine of  *)
(* OneWaySync, for one job.                                                *)
(*                                                                         *)
(* A finished run sends its manifest, which the server saves with the log. *)
(* A request checks the job's status and the manifest, claims the manifest *)
(* and sends it to the agent; between these steps anything may happen.     *)
(* The agent works rollbacks off outside its queue and takes no lock, so   *)
(* that one runs beside the runs of the same job and beside another.  Only *)
(* the newest Kept rollback directories stay on the agent's disk.          *)
(*                                                                         *)
(* Abstraction.  A run and its log entry are one number.  A broken         *)
(* connection is made again at once: what is in flight is lost, and work   *)
(* in the agent goes on unheard.                                           *)
(***************************************************************************)
EXTENDS OneWaySync

CONSTANTS
    Kept           \* rollback directories that are kept (5 in the code)

ASSUME RollbackAssumption == Kept \in Nat \ {0}

RunIds   == 1..MaxRuns
Attempts == 1..MaxRequests

\* "sent": the run has ended well and the server has not heard of it yet.
Statuses == {"none", "sent", "available", "used"}
\* "complete", "error": the answer is in flight; then its handler is at work.
Stages   == {"unused", "checked", "sent", "undoing", "deaf", "complete", "error",
             "restored", "logged", "failed", "reset", "over"}
Attempt  == [stage : Stages, log : 0..MaxRuns, checkedAt : 0..MaxRuns, todo : SUBSET Paths]

VARIABLES
    status,     \* rollback_status of each run's log entry
    manifests,  \* rollback_manifest of each run's log entry
    busy,       \* the job's row says "queued" or "running"
    ended,      \* runs whose end is a message in flight
    attempts,   \* the requests, and what became of each
    pending,    \* pendingRollbacks of the job: a log entry, or 0
    pruned,     \* runs whose rollback directory has been removed
    breaks,     \* broken connections and ended processes so far
    \* history variables:
    origin,     \* what each run found: run -> path -> Entry or None
    spoilt,     \* paths something other than the run and its rollback changed
    rows,       \* <<run undone, log entry the row names>>
    crossed,    \* rollbacks of two runs of the job have been under way at once
    misled      \* the row said the job was over while a run was at work

rollVars == <<status, manifests, busy, ended, attempts, pending, pruned, breaks,
              origin, spoilt, rows, crossed, misled>>
allVars  == <<owVars, rollVars>>

RollbackTypeOK ==
    /\ OneWayTypeOK
    /\ status \in [RunIds -> Statuses]
    /\ manifests \in [RunIds -> Manifest]
    /\ busy \in BOOLEAN
    /\ ended \subseteq RunIds
    /\ attempts \in [Attempts -> Attempt]
    /\ pending \in 0..MaxRuns
    /\ pruned \subseteq RunIds /\ breaks \in 0..MaxFaults
    /\ origin \in [RunIds -> [Paths -> Entry \cup {None}]]
    /\ spoilt \in [RunIds -> SUBSET Paths]
    /\ rows \subseteq RunIds \X RunIds
    /\ crossed \in BOOLEAN /\ misled \in BOOLEAN

RollbackInit ==
    /\ OneWayInit
    /\ status = [r \in RunIds |-> "none"]
    /\ manifests = [r \in RunIds |-> NoFiles]
    /\ busy = FALSE /\ ended = {} /\ pending = 0 /\ pruned = {} /\ breaks = 0
    /\ attempts = [a \in Attempts |-> [stage |-> "unused", log |-> 0,
                                       checkedAt |-> 0, todo |-> {}]]
    /\ origin = [r \in RunIds |-> NoFiles]
    /\ spoilt = [r \in RunIds |-> {}]
    /\ rows = {} /\ crossed = FALSE /\ misled = FALSE

-----------------------------------------------------------------------------
(* The engine's steps beside the rollbacks. *)

\* Every other run's rollback may no longer restore what r changed on the target.
Spoil(r) ==
    spoilt' = [l \in RunIds |->
                  IF l = r THEN spoilt[l]
                  ELSE spoilt[l] \cup {p \in Paths : fs'["dst"][p] # fs["dst"][p]}]

\* The user, or a step of the current run: it spoils every earlier one.
Beside(step) ==
    /\ step /\ Spoil(0)
    /\ UNCHANGED <<status, manifests, attempts, pending, pruned, breaks, origin, rows, crossed>>

\* The run was queued before, which set the job's row.
RunStarts == Beside(StartRun) /\ busy' = TRUE /\ UNCHANGED <<ended, misled>>

\* A step after which the run goes on, or ends with job:cancelled or job:complete.
RunGoesOn ==
    /\ Beside(User \/ (OneWayRun /\ phase # "idle"))
    /\ ended' = IF phase # "idle" /\ phase' = "idle" THEN ended \cup {runs} ELSE ended
    /\ UNCHANGED <<busy, misled>>

\* job:complete with the manifest of a run that wrote through the engine.
RunFinishes ==
    /\ Finish
    /\ ended' = ended \cup {runs}
    /\ status' = [status EXCEPT ![runs] = "sent"]
    /\ manifests' = [manifests EXCEPT ![runs] = manifest]
    /\ origin' = [origin EXCEPT ![runs] = before]
    /\ spoilt' = [spoilt EXCEPT ![runs] = dirty]
    /\ UNCHANGED <<busy, attempts, pending, pruned, breaks, rows, crossed, misled>>

\* pruneRollbackData, not awaited: the oldest directories go, while their log
\* entries stay as they are.  The one of a run at work counts.
Prune ==
    /\ \E r \in RunIds : status[r] # "none"
    /\ pruned' = {r \in RunIds : r <= runs - Kept}
    /\ pruned' # pruned
    /\ UNCHANGED <<owVars, status, manifests, busy, ended, attempts, pending, breaks,
                   origin, spoilt, rows, crossed, misled>>

-----------------------------------------------------------------------------
(* The server. *)

Stage(a, s) == attempts' = [attempts EXCEPT ![a].stage = s]

\* The job's row no longer says that a run is at work.
NotBusy == busy' = FALSE /\ misled' = (misled \/ phase # "idle")

\* The end of a run is heard: its manifest, if it has one, is saved.
EndHeard(r) ==
    /\ r \in ended
    /\ ended' = ended \ {r}
    /\ status' = [status EXCEPT ![r] = IF @ = "sent" THEN "available" ELSE @]
    /\ NotBusy
    /\ UNCHANGED <<owVars, manifests, attempts, pending, pruned, breaks, origin, spoilt, rows, crossed>>

\* Mutant: the job's status is not looked at.
RollbackAsked_AnyTime(a, r) ==
    /\ a <= budget.requests /\ attempts[a].stage = "unused" /\ status[r] = "available"
    /\ attempts' = [attempts EXCEPT ![a] = [@ EXCEPT !.stage = "checked", !.log = r,
                                                     !.checkedAt = runs]]
    /\ UNCHANGED <<owVars, status, manifests, busy, ended, pending, pruned, breaks,
                   origin, spoilt, rows, crossed, misled>>

\* POST /:id/log/:logId/rollback, up to its claim.
RollbackAsked(a, r) ==
    /\ a <= budget.requests /\ attempts[a].stage = "unused"
    /\ ~busy /\ status[r] = "available"
    /\ attempts' = [attempts EXCEPT ![a] = [@ EXCEPT !.stage = "checked", !.log = r,
                                                     !.checkedAt = runs]]
    /\ UNCHANGED <<owVars, status, manifests, busy, ended, pending, pruned, breaks,
                   origin, spoilt, rows, crossed, misled>>

\* A rollback the agent has, or is about to get, or has answered, until the server
\* has dealt with its log entry.
UnderWay(a) == attempts[a].stage \in {"sent", "undoing", "deaf", "complete", "error",
                                      "restored", "failed"}

\* Mutant: the log entry is marked as used whatever it says.
RollbackClaimed_Unconditional(a) ==
    LET r == attempts[a].log IN
    /\ attempts[a].stage = "checked"
    /\ Stage(a, "sent") /\ status' = [status EXCEPT ![r] = "used"] /\ pending' = r
    /\ crossed' = (crossed \/ \E b \in Attempts : UnderWay(b) /\ attempts[b].log # r)
    /\ UNCHANGED <<owVars, manifests, busy, ended, pruned, breaks, origin, spoilt, rows, misled>>

\* markRollbackUsed and sendToAgent.  The claim fails, or the agent is offline
\* and the claim is taken back; or the message is sent and awaited by its job.
RollbackClaimed(a) ==
    LET r == attempts[a].log IN
    /\ attempts[a].stage = "checked"
    /\ \/ Stage(a, "over") /\ UNCHANGED <<status, pending, crossed>>
       \/ /\ status[r] = "available"
          /\ Stage(a, "sent") /\ status' = [status EXCEPT ![r] = "used"] /\ pending' = r
          /\ crossed' = (crossed \/ \E b \in Attempts : UnderWay(b) /\ attempts[b].log # r)
    /\ UNCHANGED <<owVars, manifests, busy, ended, pruned, breaks, origin, spoilt, rows, misled>>

\* job:rollback:complete and job:rollback:error first ask whose job it is.
AnswerHeard(a) ==
    /\ \/ attempts[a].stage = "complete" /\ Stage(a, "restored")
       \/ attempts[a].stage = "error" /\ Stage(a, "failed")
    /\ UNCHANGED <<owVars, status, manifests, busy, ended, pending, pruned, breaks,
                   origin, spoilt, rows, crossed, misled>>

\* The row of a rollback names the log entry that is pending for the job by now; with
\* none there is no row, and the job is over at once.
RowWritten(a) ==
    /\ attempts[a].stage = "restored"
    /\ IF pending = 0
       THEN Stage(a, "over") /\ NotBusy /\ UNCHANGED rows
       ELSE /\ Stage(a, "logged") /\ rows' = rows \cup {<<attempts[a].log, pending>>}
            /\ UNCHANGED <<busy, misled>>
    /\ UNCHANGED <<owVars, status, manifests, ended, pending, pruned, breaks, origin, spoilt, crossed>>

\* Whatever is pending for the job by then is deleted, and the job's status is
\* "completed" whatever it was.
CompleteEnds(a) ==
    /\ attempts[a].stage = "logged"
    /\ Stage(a, "over") /\ pending' = 0 /\ NotBusy
    /\ UNCHANGED <<owVars, status, manifests, ended, pruned, breaks, origin, spoilt, rows, crossed>>

\* After an error the log entry pending for the job is available again ...
MadeAvailable(a) ==
    /\ attempts[a].stage = "failed"
    /\ Stage(a, IF pending = 0 THEN "over" ELSE "reset")
    /\ status' = [r \in RunIds |-> IF r = pending THEN "available" ELSE status[r]]
    /\ UNCHANGED <<owVars, manifests, busy, ended, pending, pruned, breaks, origin, spoilt,
                   rows, crossed, misled>>

\* ... and whatever is pending for it by then is deleted.
ErrorEnds(a) ==
    /\ attempts[a].stage = "reset"
    /\ Stage(a, "over") /\ pending' = 0
    /\ UNCHANGED <<owVars, status, manifests, busy, ended, pruned, breaks, origin, spoilt, rows,
                   crossed, misled>>

\* What the server's handlers are at work on.
AtServer == {"checked", "restored", "logged", "failed", "reset"}

\* The attempts after a break: messages are lost, a rollback at work is deaf.
AfterBreak(stage) == IF stage \in {"sent", "complete", "error"} THEN "over"
                     ELSE IF stage = "undoing" THEN "deaf" ELSE stage

Break == breaks < budget.breaks /\ breaks' = breaks + 1

\* The connection breaks; markOwnedJobsFailed fails the job's row.
Disconnect ==
    /\ Break
    /\ attempts' = [a \in Attempts |-> [attempts[a] EXCEPT !.stage = AfterBreak(@)]]
    /\ ended' = {} /\ NotBusy
    /\ UNCHANGED <<disk, runv, bounds, ghosts, status, manifests, pending,
                   pruned, origin, spoilt, rows, crossed>>

\* The server restarts: its handlers and pendingRollbacks are gone, and
\* recoverInterruptedJobs fails the job's row.
ServerRestart ==
    /\ Break
    /\ attempts' = [a \in Attempts |-> [attempts[a] EXCEPT !.stage =
                        IF @ \in AtServer THEN "over" ELSE AfterBreak(@)]]
    /\ ended' = {} /\ pending' = 0 /\ NotBusy
    /\ UNCHANGED <<disk, runv, bounds, ghosts, status, manifests,
                   pruned, origin, spoilt, rows, crossed>>

\* The agent's process dies, with its run and its rollbacks.
AgentCrash ==
    /\ Break
    /\ RunOver
    /\ attempts' = [a \in Attempts |-> [attempts[a] EXCEPT !.stage =
                        IF @ \in AtServer \cup {"unused"} THEN @ ELSE "over"]]
    /\ ended' = {} /\ busy' = FALSE
    /\ UNCHANGED <<disk, bounds, ghosts, status, manifests, pending, pruned,
                   origin, spoilt, rows, crossed, misled>>

-----------------------------------------------------------------------------
(* The agent. *)

\* handleRollback: the endpoints are resolved, or are not, and it begins.
UndoBegins(a) ==
    /\ attempts[a].stage = "sent"
    /\ \/ /\ attempts' = [attempts EXCEPT ![a] = [@ EXCEPT !.stage = "undoing",
                 !.todo = {p \in Paths : manifests[attempts[a].log][p] # None}]]
          /\ UNCHANGED faults
       \/ Fault /\ Stage(a, "error")
    /\ UNCHANGED <<budget, job, fs, stored, runv, runs, clock, ghosts, status, manifests, busy, ended,
                   pending, pruned, breaks, origin, spoilt, rows, crossed, misled>>

\* A rollback's write or delete at p, as the runs beside it see it.
Undone(r, p, e) ==
    /\ fs' = [fs EXCEPT !["dst"][p] = e]
    /\ Spoil(r)
    /\ touched' = touched \cup {p} /\ dirty' = dirty \cup {p}
    /\ late' = IF e # None /\ TargetWalked THEN late \cup {<<p, e.data>>} ELSE late

\* The file the run created goes to _saved_; if it is gone, that is an error.
UndoCreated(r, p) ==
    /\ manifests[r][p].action = "created"
    /\ Undone(r, p, None)
    /\ backups' = IF fs["dst"][p] = None THEN backups
                  ELSE backups \cup {<<p, fs["dst"][p].data>>}
    /\ UNCHANGED faults

\* The copy the run replaced or removed is written back.  A transfer of the
\* engine to the same path uses the same partial file: they may mix.
UndoReplaced(r, p) ==
    LET old == manifests[r][p].backup IN
    /\ manifests[r][p].action # "created" /\ old # None /\ r \notin pruned
    /\ \/ Undone(r, p, old)
       \/ /\ cur # None /\ cur.kind = "copy" /\ cur.target = p
          /\ fs' = [fs EXCEPT !["dst"][p] = [old EXCEPT !.data = Torn]]
          /\ spoilt' = [l \in RunIds |-> spoilt[l] \cup {p}]
          /\ touched' = touched \cup {p} /\ dirty' = dirty \cup {p}
          /\ late' = late \cup {<<p, Torn>>}
    /\ UNCHANGED <<faults, backups>>

\* The entry has no backup, its directory was pruned, or the write failed.
UndoFails(r, p) ==
    /\ \/ /\ manifests[r][p].action # "created"
          /\ manifests[r][p].backup = None \/ r \in pruned
          /\ UNCHANGED faults
       \/ Fault
    /\ spoilt' = [spoilt EXCEPT ![r] = @ \cup {p}]
    /\ UNCHANGED <<fs, touched, dirty, late, backups>>

\* One entry of performRollback; an error does not end the rollback.
UndoEntry(a, p) ==
    LET r == attempts[a].log IN
    /\ attempts[a].stage \in {"undoing", "deaf"} /\ p \in attempts[a].todo
    /\ attempts' = [attempts EXCEPT ![a].todo = @ \ {p}]
    /\ UndoCreated(r, p) \/ UndoReplaced(r, p) \/ UndoFails(r, p)
    /\ UNCHANGED <<budget, job, stored, runv, runs, clock, before, lost, completed, settled, status,
                   manifests, busy, ended, pending, pruned, breaks, origin, rows, crossed, misled>>

UndoEnds(a) ==
    /\ attempts[a].stage \in {"undoing", "deaf"} /\ attempts[a].todo = {}
    /\ Stage(a, IF attempts[a].stage = "deaf" THEN "over" ELSE "complete")
    /\ UNCHANGED <<owVars, status, manifests, busy, ended, pending, pruned, breaks,
                   origin, spoilt, rows, crossed, misled>>

RollbackNext ==
    \/ RunStarts \/ RunGoesOn \/ RunFinishes \/ Prune
    \/ Disconnect \/ ServerRestart \/ AgentCrash
    \/ \E r \in RunIds : EndHeard(r) \/ \E a \in Attempts : RollbackAsked(a, r)
    \/ \E a \in Attempts : \/ RollbackClaimed(a) \/ AnswerHeard(a)
                           \/ RowWritten(a) \/ CompleteEnds(a)
                           \/ MadeAvailable(a) \/ ErrorEnds(a)
                           \/ UndoBegins(a) \/ UndoEnds(a)
                           \/ \E p \in Paths : UndoEntry(a, p)

Spec == RollbackInit /\ [][RollbackNext]_allVars

-----------------------------------------------------------------------------
(* Properties. *)

\* A rollback's progress at run r: p is out of its way.
Restored(a, p) ==
    /\ attempts[a].stage \in {"undoing", "deaf", "complete", "restored", "logged"}
    /\ p \notin attempts[a].todo

\* A rollback puts back, entry by entry, what its run found: content, size and
\* time, at every path the manifest names and at every path it does not.  Not
\* promised are paths that a user, a later run or another rollback has changed,
\* whose backup failed or was pruned, or whose restoring failed.
RollbackRestores ==
    \A a \in Attempts : \A p \in Paths :
        LET r == attempts[a].log IN
        Restored(a, p) /\ p \notin spoilt[r] => fs["dst"][p] = origin[r][p]

\* A log entry that can be rolled back is not being rolled back: two requests
\* do not both get it, and a retry after an error is not a second rollback.  The
\* log's row of a rollback names the run that was rolled back: answers lost with a
\* connection or a process do not confuse it.  Not promised once rollbacks of
\* two runs have been under way at once, for the server keeps one pending entry a
\* job.
RollbacksKeepApart ==
    ~crossed =>
        /\ \A a, b \in Attempts :
              /\ UnderWay(a) => status[attempts[a].log] = "used"
              /\ UnderWay(a) /\ UnderWay(b) => a = b \/ attempts[a].log # attempts[b].log
        /\ \A row \in rows : row[1] = row[2]

\* A rollback is sent while a run of the job is at work only if that run began
\* after the request had checked the job, or the job's row had been set to
\* a finished state under the run: by a broken connection, a restart, or the
\* answer of an earlier rollback.
RollbackWaitsForRun ==
    [][\A a \in Attempts :
          attempts[a].stage = "checked" /\ attempts'[a].stage = "sent" /\ phase # "idle"
             => attempts[a].checkedAt < runs \/ misled]_allVars
=============================================================================
