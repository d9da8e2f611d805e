# TLA+ specifications of sync-tool

Specifications of the parts of sync-tool where order, failure and concurrency
decide what happens to the user's files and jobs: the agent's two-way, one-way
and remote sync engines, the rollback of runs, the transfer of files between
agents, the delta engine and its cache of signatures, the directory lock, the
agent's job queue, the dispatch of jobs between the API server and an agent, and
what makes jobs run by themselves. Every
definition is translated from the code under `packages/`; `PROJECT.json` maps
each one to its lines.

## The system

The **agent** (`packages/agent`) runs on a user's machine and syncs pairs of
directories. The **API server** (`packages/api`, "hub" in the modules) keeps
jobs, devices and users in a database and tells agents what to run over a
WebSocket. A **relay** (`packages/relay`) and a peer connection carry file
operations between agents. The **web** front end configures it all, and a
**macOS application** starts the agent as a child process.

| Component | State | Operations | Talks to | What makes it correct |
|---|---|---|---|---|
| Two-way engine, `agent/src/sync.ts` | walked maps, move checksums, new records of a run | walk, replay renames, decide, back up, copy, delete, save | backends, state store, lock | no version of a file is destroyed that was neither copied nor backed up; a finished run leaves both sides equal; a quiet run does nothing |
| State store, `agent/src/state.ts` | one record map per job, on disk and cached | get, set (atomic replacement), clear | two-way and one-way engine | a record says what the sides looked like when they were in sync |
| Directory lock, `agent/src/lock.ts` | `<dir>/_syncdata_/lock` | acquire, release | engines, other agent processes | one sync per directory; dead locks go away |
| Agent job queue, `agent/src/index.ts` | `queuedJobs`, `runningJobs`, the p-limit queue | job:run, job:cancel, start, end | server, engines | a job runs once at a time; what is queued runs |
| Job dispatch, `api/src/index.ts`, `routes/jobs.ts` | `jobs.status`, `agents`, `activeJobOwners` | run, cancel, register, reports, close, recovery | browsers, agents, database | what is shown is what runs; what is shown as active ends |
| One-way engine and imports, `agent/src/sync.ts` | walked maps, records, the run's manifest | copy, delete extras, back up, import | as the two-way engine | the target's own files survive; the source's are all there; nothing is replaced without a backup |
| Rollback, `agent/src/sync.ts`, `api/src` | manifests, rollback directories, `pendingRollbacks`, log rows | claim, restore, report, prune | dispatch, one-way engine | restores what one run changed, and no other; no run is undone twice |
| Remote engine, `agent/src/delta/remote.ts` | walked maps, records, the peer's manifest cache | listing, renames, copies, deletes over the wire | transfer sessions, relay client | as the two-way engine, with neither lock nor backup |
| Transfer sessions, `agent/src/delta/remote.ts` | session map, partial files, write queues | start, chunk, finish, abort, sweep | relay, peer server | a target changes as a whole to a version that was sent for it |
| Delta engine, `sync-engine-go`, `agent/src/delta/engine.ts` | signature cache, the scan's window | signature, delta, apply; cache by path, size and time | engines | no byte lost at a boundary; only whole versions are installed; a failed delta is made good |
| Relay, relay client, LAN discovery, peer server, peer-to-peer | connections, registrations, announcements, pending requests | route, request, answer, time out, reconnect | agents | a request is answered or times out; a transport keeps its order |
| Watcher, folder monitor, `agent/src/watch.ts` | watchers, timers, what was available | sync with a list of jobs, trigger | dispatch | watches what the jobs ask for; a change leads to a run |
| Scheduler, triggers, start-up, `api/src` | `last_run`, the jobs' settings | poll, queue | dispatch | a job runs when its schedule says so, and once |
| Jobs, templates, collections, `api/src/routes` | rows and links of the database | create, patch, delete, apply, propagate | watcher, scheduler | every member of a collection has one job of every template applied to it |
| Other backends, accounts, web, macOS | | | | adapters, I/O and user interface; not modelled |

Hard behaviours: the user edits files while a run is between its walk and its
copy; any step of a run fails or the process dies before the records are saved;
several agent processes race for one lock file; handlers of the server are
asynchronous and write what they read before an await; messages are lost with
the connection they are on, and each end notices a dead connection in its own
time; a cancelled job's closure stays in the limiter; an upload outlives the
request that began it, and changes its transport on the way; a rollback runs
beside the runs of its job; a signature in the cache outlives the content it is
of; what the agent watches is a list that may be old
when it is sent. `PROJECT.json` lists these
hazards at their lines, with the properties that cover them, or why none does.

## Modules

| Module | What it is |
|---|---|
| `BidirSync`, `BidirSyncProofs` | the two-way engine, the state store and the user, and what is proved of them |
| `DirLock`, `DirLockProofs` | the lock file, one action per file-system call, and what is proved of it |
| `JobAgent` | the agent's queue, a specification in its own right |
| `JobDispatch`, `JobDispatchProofs` | server, network and agent; EXTENDS `JobAgent`, whose actions the agent's part is made of |
| `OneWaySync`, `Rollback`, `RollbackProofs` | the one-way engine and imports; EXTENDed by the rollback of their runs, from the request to the restored file; and what is proved of both |
| `FileDelivery` | abstract: what a transfer of files between two agents promises |
| `PeerLink`, `TransferSession`, `RemoteSync`, `RemoteSyncProofs`, `RemoteRunProofs` | the transports; EXTENDed by uploads and sessions; EXTENDed by the remote engine; the proof that it implements `FileDelivery`, with what its transfers carry; and what is proved of its runs |
| `DeltaEngine`, `DeltaTransfer`, `DeltaTransferProofs` | checksums, signatures, scan and patch as operators; EXTENDed by a transfer by delta within one agent, and what is proved of it |
| `Collections`, `Automation`, `AutomationProofs` | the rows of jobs, templates and a collection, and the requests that write them; EXTENDed by scheduler, watchers and triggers; and what is proved of both |
| `MC*` | model values and cases for TLC |

Definitions named `X_Suffix` with a comment that begins "Mutant:" are wrong
variants of `X`. They are used by no specification: they are there to check that
a property fails when the code does.

### BidirSync

`fs` is the two directories, `stored` the job's state file. One run goes through
`StartRun` (lock, walk of the source), `WalkDst`, `DetectSrcMoves` and
`DetectDstMoves` (`detectAndApplyMoves`, not for encrypted jobs), then, per path
in any order, `Skip`, or `Choose` (decide and `backupBeforeAction`) followed by
`Copy`, `Delete` or one of their failures, and `Finish` (`setJobState`). The steps
are split where the code awaits something the user's edits can race. `Cancel`
sets the abort signal, `Abort` is the exception of `throwIfAborted`, `Crash` the
death of the process. The user writes, deletes and renames at any moment.

`resolveAction`, `fileChanged`, `mtimeEqual` are the pure functions of the same
names. A file is `[data, mtimeMs, size]`: contents are told apart by the tick
they were written at, all plaintexts have one length, and `size` counts the
overhead of encryption. A copy takes the *live* content under the *walked* mtime,
as `localBackend.write` does with `utimes`.

Abstracted: a delta transfer is a `Copy` like any other, since it ends in the
same replacement of the target (`DeltaTransfer` is its own model); retries are part of the failure that remains after
them; directories carry no content; filters are applied before the walk.
A source edited between the copy and its checksum verification is one of the
reasons of `VerifyFails`. A partial file is not visible to a walk.

History variables (`backups`, `touched`, `misrecorded`, `removed`, `propagated`,
`restamped`, `lost`, `completed`, `settled`) record what the properties speak
of. No guard reads them. `backups` is what was ever put in a backup: `runSync` also
prunes the rollback directories of old runs (`pruneRollbackData`), without awaiting it, which
takes nothing a later run reads and is modelled in `Rollback` (`Prune`), where it matters.

### DirLock

`lock` is the file with its owner, age and whether its content has been written;
`pc` says where each run is in `acquireLock`. `isPidAlive` is exact for a process
of the same host and arbitrary for another host's, whose process ids mean nothing
here. `Tick` ages the file up to the stale age. With `LongRuns = FALSE` the lock of
a run in possession does not age.

### JobAgent

`queuedJobs`, `runningJobs` and `abortedJobs` are the sets and the controllers of
`agent/src/index.ts`; `waiting` is the limiter's queue and `slots` what it runs. A
closure carries the connection its job:run came by.

### JobDispatch

A handler of the server parked at an await is a record in the bag `activities`;
its later steps are actions of their own. Each database statement takes effect
when it is issued. A connection has a link (`links`), a server end (`hubOpen`) and
an agent end (`activeWs`): `LinkDies` loses the messages under way, and
`HubClose` and `AgentClose` come in either order, so an agent may register anew
before the server handles the old connection's close.

In the code the close handler removes the first owned job in the same turn and
goes through them in insertion order; here other steps may come in between and
the order is free, which adds behaviours and removes none. `RestartHub` takes the
recovery at start as part of the restart, since it is awaited before the server
listens.

### OneWaySync and Rollback

`fs` is source and target, `manifest` what the run noted before it replaced or
removed a file, `dst` backups being in the run's own rollback directory. A run
walks both trees, visits the paths that `NeedsCopy` names, then those of
`DeleteCandidates`, and saves its records; an import puts each file under its new
name (a parameter of the job, several files may share one) and takes what the
walk saw there, and what it copied itself, for what is there. `Rollback` adds
the server's log rows (`status`, `manifests`), the requests (`attempts`, from the
check of the job's status to the end of the handler of the answer, one step for each
of its awaits), `pending`, and the agent's part: a rollback goes through its entries
one by one beside whatever else the agent does.
Broken connections, restarts of the server and of the agent, and the pruning of
rollback directories may come anywhere. A run and its log row are one number.

What the code does, and the model with it: a cancelled run saves no records and
returns no manifest, so that it cannot be undone; a copied import whose
verification failed is unknown to the rest of the run, and a second file of that
new name replaces it; an import of an encrypted job reports an error for every
file that is already there; an encrypted one-way run records the source's size, so
that what it copied is never taken for an orphan; a log row whose rollback
directory was pruned still offers the rollback; a rollback overwrites what was
edited since, without a backup, and does not touch the records, so that a two-way
run after it takes the removal of a "created" file for the user's; its completion sets
the job to completed even when a run is at work, and deletes what is pending by then,
which may be a later request's entry, so that the answer to that one writes no row;
two writers of one target share
its partial file (`Torn`).

### PeerLink, TransferSession, RemoteSync

`PeerLink` has the relay's registrations and its late closes, sockets to the
peer server that only one side may have opened, the peer-to-peer channel, and one
queue a transport and direction. `net` is what the network lets through. A
transport that breaks loses what is on it. `TransferSession` has the uploads of the
sender (in full, or as a delta with resumption) and the sessions of the receiver
with the queue of writes still under way; `Sweep` closes a session that no upload
uses any more, at any time. `RemoteSync` is the engine at A and the handlers at B.
A time-out is free when no answer can come any more and takes from the bounds
otherwise. Every message that is sent carries what the code's does as far as the
receiver's decisions depend on it.

`FileDelivery` says what this is to be worth: a file changes as a whole to a
version offered for its place; only a transfer in full can leave a place damaged,
and its sender is not told of success. A delta reads its source twice, for the scan and
for the hash the receiver is to check, and success is about the second (`Rereads`); an edit in
between lets the upload fail. The refinement maps the trees' contents
and the uploads, by the version they expect and what they have put so far (`Delivery`).

What the code does, and the model with it: answers that go out on a socket of the
peer server are dropped there, so that a network where only one side hears the
other answers nothing (`OneLan`); a listing is up to a minute old, and a run that follows another
deletes the source of what that one uploaded; a `finish` on a new transport
overtakes the last chunk on the old one, and the whole payload is in place before its
hash is looked at; renames on the other device are guessed from sizes; a failed copy
is recorded as done and never tried again, a failed delete brings the file back; a
rename that B hears late undoes the user's own; the relay's error and its late close
lose a registration; an empty file sent in full leaves no temporary file to
read, and the process dies.

### DeltaEngine and DeltaTransfer

A file is a sequence of bytes, cut into blocks. The weak checksum is computed as the
code computes it, rolled and from scratch, modulo `CheckMod` (2^16 in the code); the
strong hash is taken to be injective, so that the block stands for it, and likewise
SHA-256 for a whole file. `BuildDelta` is one action per turn of its loop:
`BlockFound`, `LastWindow`, `NextWindow`. A size of JSON is a line's: one for a
copy, more than its bytes for data, which is all that "not smaller than the file" looks
at.

`DeltaTransfer` is one transfer after another of one file of a one-way job, whose
`needsCopy` starts them: `EnsureSignature` and `StoreSignature` (twice, before and
after), `OpenSource` and the scan, `CompareSizes`, `HashSource`, `ApplyDelta` with the
comparison of the hashes, `Install` (the rename), `Stamp` (`utimes`), `DropSignature`,
and `CopyWhole` for the modes that fall back. The source and the target are read when
the code reads them, so that edits come between the walk, the signature, the
scan, the hash and the patch. An edit replaces the file, so that whoever has it open reads
one version; edited in place, a file may be read half old and half new, which the
expected hash would catch only if the second reading differs. `Written`
(time 0) is the time between rename and `utimes`, which no edit has. `Restore` puts
the target back with its old time, as a rollback does. The verification after a
full copy only reports, and is left out.

What the code does, and the model with it: the cache is looked up by path, size and
time, so that a target that comes back to an earlier size and time (a rollback, an
unpacked archive) meets a signature of what was there in between, made by a transfer
that read an edited target under its walked time; a crash while the signature is copied
leaves a part of it under its final name, and it is taken as it is ever after. Either
way the patch fails: an `auto` job copies the whole file, a `delta` job fails now
and in every later run, until the target gets another size or time.

### Collections and Automation

`jobs` are rows: the pair of template and device a job was made for, its path, its
triggers, status and `last_run`. A handler parked between two database statements
is a record in the bag `tasks`, as in `JobDispatch`. `Automation` adds one agent with
its watchers, debounce timers, folder monitor and runs, and the messages that
matter here: the list of jobs to watch, triggers, runs and their ends. The folder
monitor's poll takes two steps, since it awaits its look at a folder (`FolderLook`,
`FolderAnswer`): a list of jobs that comes in between may end the monitoring and clear
what there is of the job, and the answer is noted nevertheless, with a debounce timer for a
job that is no longer monitored. Looks that see nothing new are left out. What a run
does is left to the engines' modules: here it looks at its source (`RunWalks`).
`wanted` are the paths where something was noticed that no run has looked at,
`missed` those of them for which the code or the world gives a reason that none will.

What the code does, and the model with it: a trigger for a job that is active is
dropped; every status but completed and error clears `last_run`, so that a
cancelled periodic job is due at the next poll; a watcher stays on its old path; the
requests of collections and templates announce nothing to the agents, and two
lists of jobs may be sent in the other order than they were read; jobs made by a
collection name no destination device and go to the first agent there is; start-up
jobs are queued before any agent can connect and end in error; a collection's request
that was cut off between members and jobs is not made good by its repetition; two
applications of one template at once end in two jobs for a device, or, when the
second link breaks the unique constraint, in an unhandled rejection and the end
of the server (`InsertFails`); the log entry of a job that was deleted while it was at
work breaks a foreign key and ends the server in the same way (`InsertFails` for a job
that found no agent, `LogFails` for the end of a run); a link that was deleted and made
anew is not the one a request found before, and its update goes nowhere (`linkIds`). Requests are those the web front end sends: it always names the
collection's type, which the PATCH route writes as undefined otherwise.

## Runs

| Run | Expectation | What it shows |
|---|---|---|
| `bidir` | pass | `UnsyncedEditsSurvive`: a version never copied is destroyed only by newer-wins, by an edit racing the run, or after a failed transfer (under the other strategies, a skipped conflict) was recorded as synced. `LosersAreBackedUp`: unless it raced, it was put in a backup first. `CompletedRunConverges`: both sides equal after a completed run. `DeletesFollowTheUser`: a delete repeats what the user did on the other side. `QuietRunIsNoop`: no edit, no change. |
| `bidir_live` | pass | `EventuallyInSync`: runs do not undo each other's work for ever |
| `bidir_encrypted` | violation | `QuietRunIsNoop` fails for encrypted jobs, see findings |
| `dirlock` | pass | `OverlapNeedsTakeover`, `ReleaseRemovesOwnLock`, `WrittenDeadLockIsReclaimed` |
| `lock_race` | violation | `MutualExclusion` |
| `jobagent` | pass | `OneExecution`, `QueuedJobLeavesQueue` |
| `dispatch` | pass | `RunningIsShown`: what runs is shown as active. `ActiveIsWorkedOn`: what is shown as active is with the agent. `ActiveJobEnds` |
| `dispatch_owner` | violation | `RunningJobIsOwned` |
| `rollback` | pass | Engine: `OverwrittenIsKept`, `QuietRunIsNoop`, `QuietRunDelivers`, `DeletesFollowSource`. Rollback: `RollbackRestores` puts back what the run found, `RollbacksKeepApart`, `RollbackWaitsForRun`. |
| `remote` | pass | `ImplementsDelivery`, the refinement of `FileDelivery`; `VersionsSurvive`, `CompletedRunConverges` and `DeletesFollowTheUser` of the engine; `EverythingEnds`: no run, upload, session or request waits for ever |
| `delta` | pass | `ScanIsExact`: what was written, is held back and is still unread is the source, and the rolled checksum is the window's. `InstalledIsWhole`: only whole versions reach the target. `CatchesUp`: it gets the source's content, but for a strict job with a misleading signature. |
| `automation` | pass | `WatchersFollowJobs`: the agent watches what the jobs ask for. `ChangesAreSynced`: what was noticed is looked at by a run. `ScheduleIsKept`: no scheduled run too early or twice. `CollectionIsServed`: one job for each member and template. |

Each property's comment names the exceptions the code forces on it; the history
variables they refer to are read by no guard.

### Bounds

- `bidir`: two paths (so that a file can be renamed, and one path's record can be
  stale because of another's), `MaxClock` = 4 user edits, `MaxFaults` = 1. Four
  edits are two rounds of both sides changing, with runs in between without bound;
  a conflict after a first sync needs three or four. `bidir_live` has three edits.
  Ticks are further apart than the tolerance (`MTIME_TOLERANCE` = 0, `HOUR` = 10), so
  the daylight-saving shifts of `mtimeEqual` do not apply to these runs.
- `dirlock`: four runs in three processes on two hosts, two runs in one process.
  A takeover and its consequences need three parties: the one whose lock is judged
  dead, and two that judge. The stale age is two ticks.
- `jobagent`: three jobs for two slots, three closures waiting, two connections.
  The shortest interesting sequence, run, cancel and run again while slots are
  busy, needs one job more than slots and a stale closure.
- `dispatch`: one job, two requests, two connections, one restart of either
  process. `MaxWaiting` closures are never exceeded. `LinkDies` is allowed while
  another connection can be made: an agent that never reconnects leaves nothing
  to check. Deadlock is not checked, because with its requests used up the system
  has nothing left to do. Jobs of one agent do not interact on the server beyond
  the queue, which `jobagent` covers with three.
- `rollback`: two paths, and a case for each dimension: two edits or two runs of the
  engine for each policy, a fault for everyone, and rollbacks of one or two runs with
  an edit, a fault or a broken connection. One rollback directory is kept (`Kept`; five
  in the code), so that the second run prunes the first one's. An edit is a new file
  of one size now, or of another size under an old time, as unpacking an archive makes
  it. Both paths of an import have the same new name. Two rollback requests are what it
  takes for one to overtake the other.
- `remote`: two paths of at most two chunks, so that a chunk can be overtaken; one or
  two edits, two runs, and one fault of a kind: cancellation, broken transport, late
  answer, dead process. Each way of being connected is a start: relay, both
  sockets, one socket, peer to peer, and devices that find each other during the
  run. `MaxCalls` and `MaxUploads` leave room for an upload whose run is over beside
  that of the next one.
- `delta`: blocks of two bytes, three byte values of which two have the same checksum
  modulo three (0 and 3), a literal buffer of two. Every pair of files of up to four
  bytes is compared undisturbed: block boundaries, short last blocks, wrapped
  checksums, collisions and full buffers all occur with files of two blocks. One pair
  has, in both modes, two edits of either file, an engine fault, one retry, and a crash or
  a restored target. The job rests when there is nothing to copy, so deadlock is
  not checked.
- `automation`: two devices, one template, two folders, four jobs, which no case uses up;
  each case has at most two or three of edits, settings, requests, runs, minutes and
  faults, and one or two handlers at work at once (`tasks`). Two suffice for every
  race between handlers; a message of a third waits. A period is two minutes of
  three, a cron expression matches two of them with a gap between.

### Fairness

`BidirSync`: runs keep being started (schedule or watcher) and a run goes on.
User edits, faults, cancellations and crashes have no fairness. `DirLock`: a waiting
run tries again, a sync ends, time passes; crashes have none. `JobAgent`: the
limiter starts what it can and a sync ends. `JobDispatch`: a parked handler resumes
(one of them at a time, in any order that is fair to all of them together), a
message on a live link arrives, dead connections are noticed on both ends, the
agent reconnects, and a sync ends; requests and faults have none. `RemoteSync` and
`Automation`: whatever the programs do next (`Progress`: a handler resumes, a message
that is not lost arrives, a timer fires, a run goes on) is done in the end; the user,
the network and the clock of the scheduler have no fairness, and no lost connection
need come back. `DeltaTransfer`: the job runs again and its calls return or fail; edits,
faults and crashes have no fairness. `Rollback` has no liveness property.

### Findings

1. **Encrypted two-way jobs copy ciphertext back.** After a copy the target is
   recorded with the source's metadata (`sync.ts:850`), but the encrypted file is
   longer. The next quiet run takes it for an edit of the target and copies it
   over the plaintext.
2. **Two runs can hold the directory lock** (`lock.ts:55`): both judge a dead
   owner's lock dead, and the second unlinks the first one's new lock.
3. **A running job can lose its owner** (`api/src/index.ts:324`): the late end of a
   cancelled run is taken for the end of the next.

`WrittenDeadLockIsReclaimed` is about locks that got their content: an empty lock file, of
a process that died between creating and writing it, is never removed, since it does
not parse and the error is rethrown (`lock.ts:58`).

`ActiveJobEnds`, `ActiveIsWorkedOn` and `RunningIsShown` hold with two exceptions which are part of
their statement: a run whose closure reports to a dead connection makes the agent
ignore the next job:run without a word, and the end of one request may be written
over the row of the next. `UnsyncedEditsSurvive` and `CompletedRunConverges` except
paths whose failed transfer was recorded as synced (`sync.ts:898-922`), and contents
that got another version's mtime because an edit raced a copy. The facts listed
with the modules above contradict no sentence of the repository, and stand as
exceptions in the properties they bear on.

## Proofs

Checked by TLAPS for every value of the constants that satisfies the modules'
named assumptions (`ConfigAssumption`, `NoneAssumption`, `AgentAssumption`,
`NoneIsNoClosure`, `DispatchAssumption`, `NoneIsNoConn`, `DeltaAssumption`, `TransferAssumption`,
`OneWayAssumption`, `OneWayNone`, `RollbackAssumption`, `RemoteAssumption`, `RemoteNone`,
`CatalogAssumption`, `CatalogNone`, `AutomationAssumption`, `ListsAssumption`: kinds of the parameters, `None`
and `Deleted` distinct from data, finitely many jobs; and `StartsServed`: a behaviour of `Automation`
begins with a collection that is served).

- `BidirSyncProofs`. `TypeCorrect`, `BackedUp` (`LosersAreBackedUp`) and
  `DeletesFollow` (`DeletesFollowTheUser`), for any number of paths, edits and
  faults, encrypted or not, under each conflict strategy. None of the three is
  inductive; `RunInv` is. Two of its parts carry the argument. `RecordsExisted`:
  what a walk or a saved record saw on a side is still there, or its removal is in
  history, which no crash, failed visit or half-applied rename can undo.
  `AbsenceHolds`: what the walk did *not* see is still absent when the path's turn
  comes, or the user touched the path, since a run writes only where a path's own
  turn is and renames disk and walked map together. With them `CursorHolds` (a
  delete under way was chosen because a record saw the file on the other side
  and the walk did not) and `VictimSaved` (a copy's victim was backed up, or not
  there when walked) follow step by step, types need `CursorHolds` (what is
  copied was walked), and the properties are a last look at `Copy` and `Delete`.

  Three more theorems of this module are about contents, which the engine never
  looks at: it decides by mtimes and sizes. `EditsSurvive`
  (`UnsyncedEditsSurvive`), `RunConverges` (`CompletedRunConverges`) and `QuietNoop`
  (`QuietRunIsNoop`) assume `TicksApart`: no two edits have times that `mtimeEqual`
  takes for the same, within the tolerance or one or two hours apart. Without it
  they are false by design of the comparison (`sync.ts:248`): an edit is missed.
  `QuietNoop` assumes a job without encryption too, since the run `bidir_encrypted`
  refutes it for the others. The argument of `SyncInv` starts from the edits. A file wears
  the time of its own content, or history knows that a run put that time on
  another one (`Stamped`: a copy writes the live content under the walked time). A time
  found on both sides was therefore carried across, or such a one (`Apart`), and so is
  a time in a record that no failed transfer or skipped conflict made
  (`RecordsSynced`). A victim that is not in a conflict is unchanged against
  its record (`VictimKnown`), hence known to the other side, hence no loss. For
  convergence, each way through a visit leaves its path alike on both sides, or touched,
  or marked (`VisitedAlike`), and from a path's walk to its turn nothing but the user changes
  it (`WalkHolds`). For quiet runs, every visit leaves the records that match the
  files (`VisitsMatch`), so that a run that begins there finds nothing changed
  and no rename, and skips every path (`QuietGoes`). TLC found `SyncInv` and `QuietInv`
  to hold before they were proved, with newer-wins and with "skip". The proof
  needs the strategy to be arbitrary, and that corrected the model: a conflict that "skip"
  or "manual" leaves alone is recorded with both sides' metadata, as if synced
  (`sync.ts:824-834`, `915-922`), so that a later run overwrites one of the two
  without a conflict. `misrecorded` now holds these paths as well.
- `DirLockProofs`. `TypeCorrect`: the type invariant. `OverlapOnlyByTakeover` and
  `ReleaseIsOwn`: from the inductive invariant `OverlapInv`, types and "as long as no
  run lost its file, every run in possession is the owner of the file there is".
  The strengthening is needed because `MutualExclusion` speaks only of runs that
  hold the lock, while the file's owner is decided one step earlier.
  `UndisturbedExclusion`: on one host, with no crash and no run longer than the
  stale age, mutual exclusion holds outright: then a lock that exists is always
  fresh and its owner's, and nobody is about to unlink one (`NoTakeover`).
- `JobDispatchProofs`, of the queue alone first. `AgentTypeCorrect`, and
  `OneExecutionHolds` from the invariant that a job is never both queued and
  running: the closure that starts a job
  finds it queued, hence in no slot. `QueuedHasClosureHolds`: the closure that leaves
  the limiter leaves with its job, and every other closure stays. Of the composition:
  `TypeCorrect` in three parts (server, network, the rest), by
  way of the bag of activities: a message is about a job because the activity
  that sent it was. With the types every step of the composition is one of the queue or
  leaves the queue alone, as the actions are written (`QueueSteps`), so that what was
  proved of the queue holds in the composition (`DispatchedOnce`). `RunningShown`: at
  most one connection lives, the agent's own (`OneLink`), and the server takes and sends on it only once it knows the device by it
  (`ConnsFit`); so a report on a live connection is neither lost nor overtaken, and a
  run that can be heard is shown, or its start report or a cancellation of it is on the
  way, or the end of another request crossed it (`RunsShown`). Redispatch after a
  registration, which reads the rows and sends later, is where this is at stake.
  `ActiveWorkedOn` (`ActiveIsWorkedOn`): a job that is shown as active is always somebody's
  (`Pursued`): a handler's that will send, fail or end it, the agent's, a message's, or
  the close handler's of a connection that died under it (`WorkedInv`). For the hand-over
  of each to the next it takes that what is sent or reported has an owner (`HasOwner`),
  that behind a start report comes the run's end if the agent is not at it any more
  (`StartsFollowed`), that the agent reports only where it has registered
  (`ReportsKnown`), and that a job with one closure which is heard and one which is not
  is in history (`DeafIsUnheard`).
- `DeltaTransferProofs`. `TypeCorrect`, for any files, block size and buffer: with it
  the scan never holds back as much as `maxDataRun`, and whatever is read by
  whoever calls is there (a walked entry, a signature, a finished scan), after every
  failure and retry. `InstalledWhole` (`InstalledIsWhole`): from `VersionInv`, "the
  source's live content is one of the versions since the walk, and so is what is
  about to be installed", since the expected hash is taken from the live source and the
  versions are forgotten only with the transfer. It does not depend on the signature,
  which may be anything.
  `ScanExact` (`ScanIsExact`) is a proof by induction over data: the numbers at which a
  fact fails, if there are any, have a least one (`AllNumbers`, from the library's
  `WFMin`, which takes a relation and not an operator). With it the folds of the community
  modules are read as the functions their definitions choose: flattening grows at its end
  (`FlattenAppend`), and a sum does not depend on the order (`SumTakesOut`), so that the
  checksum is a weighted sum, and rolling it by a byte gives the new window's, modulo
  any `CheckMod` (`RollIs`). The blocks of a signature lie end to end and make up its file
  (`BlocksIs`, `SignedIs`): a block whose strong hash is the window's is worth the window
  (`CopyIs`). `Exact`, which every turn keeps (`CopyExact`, `LastExact`, `RollExact`), adds that a
  window shorter than a block is the last one. `ScanInv` carries it from the opening of the
  source until the result is installed or given up.
- `RollbackProofs`. Every property of the run `rollback`, from one inductive invariant,
  `RollbackInv`, which TLC found to hold on that run's instance before it was proved.
  `EngineCases` first cuts the twenty-odd actions down to what they are to the engine: a
  step of its own, the end of the run, a file changed by somebody else, or nothing;
  so that users, rollbacks, servers and crashes are dealt with once. `EngineInv` has a
  part for each question. `KeptInv`: a target file that the walk did not see, or that
  is about to be replaced, is excused or has a backup (`NothingIsDestroyed`). `SeenInv`
  ("the walks saw what is there"), `DoneInv` ("a visited path needs no other visit") and
  `BecameInv` ("what is there came from the source, or was there, or the policy
  removed it"), at every path nothing touched; together they are what a finished
  run promises (`Delivers`). `QuietInv`: after it nothing is left to do, so
  that the next run's choice of such a path contradicts its own walk (`QuietIsNoop`);
  the two prove each other and are carried along together. `ManifestInv`: a path
  without an entry is as the run found it, and an entry says what that was. At the end
  of the run this becomes `NotedInv`, the same of the log row; a rollback's list of
  entries comes from there, and what it writes is what the row says (`Restores`).
  `OneRollback` is needed for `KeepApart`: the claim of an available row finds no
  other rollback under way, so that the one pending entry is its own, or was deleted
  by the handler of an earlier answer. `BusyInv` gives
  `WaitsForRun`. `DeletesFollow` rests on `RunShape` alone: a delete's list is a part of
  `DeleteCandidates`.
- `RemoteSyncProofs`. `RemoteTypeCorrect`, and `RemoteImplementsDelivery`: the
  specification implements `FileDelivery`, for any paths, jobs, networks, faults and
  bounds. Both come from one inductive invariant, `RemoteInv`, which TLC found to hold on
  the instance of the run `remote` before it was proved. The difficulty is that a version
  is offered by an upload at one end and put in place by a session at the other, and that
  chunks, finishes and answers of older uploads may be anywhere in between, on several
  transports. `NumbersOwned` ties them together: to each number of an upload in full
  belongs one offer, and every request of that number on the way, and every chunk a
  session of that number holds, is of this offer. Sessions of deltas are shared by the
  uploads of one path, size and time, and need only that whatever they hold was offered
  for their path (`SessionsFit`, `MessagesFit`). That success is told of nothing but the own
  version takes three parts more: a finish comes from the upload of its number, which
  waits for no other answer (`FinishesFit`); there is at most one finish of a number,
  on the wire or in a queue (`OneFinish`); and once a session has applied it, or a good
  answer to it is on the way, the upload's version was put in place and nothing that
  could damage it is left (`OutcomesFit`). Types need the run's side of it: an answer that is
  taken is one to the question that was asked, though identifiers are reused
  (`RunFits`, `CallersFit`, `AnswersFit`). `Effect` lists the few things a step may do to
  files and uploads, each action of the engine is shown to do one of them (`EveryStep`),
  and each of those is an action of `FileDelivery` (`Refines`). The first attempt at
  this proof failed twice for good reasons, and the model was corrected: the number of a
  new upload has to be new to the finishes still on the way, as identifiers of the code are
  (`FreshNumbers`), and the second reading of a delta's source is a step of the abstract
  specification too (`Rereads`).
- `RemoteRunProofs`. `RemoteDeletesFollow` (`DeletesFollowTheUser`): what the run of one
  device does to files of both, over messages that may be lost, late or another run's. It
  rests on `DeleteInv`, a part for each question. `WalksExact`: what the walks say of a path
  is still so, unless the user or a fault was at it, and the run itself keeps its walks in step
  with its renames (`MoveExact`). `RecordsHad`: what a record says was there, was there, so that
  a path walked on one side and missing on the other was taken away there (`TakenAway`). `Commands`
  and `ReportsTrue`: a delete or a rename on the wire is the run's own, or a late one of a
  path that is blamed, and a good answer to it means that it was done. `UploadsLand`: an
  upload that ends without its file leaves its path blamed. The attempt showed the
  three properties of the run's engine false as they first stood, each by an order of steps that
  the instance of the run `remote` had no room for, and corrected the history: a command given up by
  its run may still be on the relay, and is carried out after the next run's; a copy
  given up half-way may still be put in place by its session; a crash may be in
  mid-copy; both sides may rename different files to one path. `blamed` holds all of these
  now, and the files a job starts with are one version of one size.
  `RemoteVersionsSurvive` (`VersionsSurvive`) and `RemoteRunsConverge`
  (`CompletedRunConverges`) need two invariants more. `Carrying` (in `RemoteSyncProofs`,
  where it is `RemoteCarrying`) says what uploads and sessions bring: an upload that
  has put its file has no finish left that could put it again (`Spent`), a version has one
  size and a session one time, wherever they are said (`OneSize`, `SessionTimes`), and of the
  run's request there is one, on the wire, in an upload made for it, or as its answer
  (`AskedOnce`). `TwoWay` is what a two-way run may rely on at the paths that nothing
  excuses. `Versions`: a file bears the time it was written at, so that one time is one
  version. `Plans`: the times in a record, the run's own new ones included, are times of versions that
  were on both devices (`RecordsFaithful`); renames pair files of one content
  (`MovesFaithful`); a copy's source is as it was walked, and its target too or
  already a copy (`CopyFits`); and what is visited is alike (`Converging`). `Flows`: the run's
  upload carries the file that is there (`UploadExact`), a good answer tells of a file that
  is now alike (`OutcomesTrue`), and what is under way but nobody's, an upload of a run given
  up, a late command, a finish that may yet take effect, is for a path that is blamed, or
  one at rest, where it would put what is there (`Stale`). The last is the heart of it: it
  has to survive the resuming of sessions and the reuse of identifiers, and a run
  may only forget what was touched before it (`Quiet`) because nothing is under way then.
  Versions and copies meet in one argument: what is written over differs from its
  record, or from the walk, in its time, and only a version that was on both devices has a
  time in a record; so it was on both, or the two sides conflicted and the time decided.
- `AutomationProofs`. Every safety property of the run `automation`, for any jobs, templates,
  devices, settings and schedules, each from an invariant of its own over the types, which TLC
  found to hold on that run's instance first. `AutomationTypeCorrect` goes by what a
  handler of each kind is (`TaskOK`) and by lemmas about a bag with one more, one less, or
  another of them. `CollectionServed`: unless two
  requests for the collection met or one was cut off, there is one handler at most that assigns
  jobs (`OneAssign`), and it knows what is missing: at each of its steps, a member's pair without a job
  is on its list, or is the one it is about to insert, and a device that has jobs is a
  member, was kept, or is to be dropped (`Assigned`); the rest is that no pair gets two jobs
  (`OneJobEach`) and that a link has its template (`LinksFit`). `WatchersFollow`: as long as
  nobody is about to read the jobs, the list read last is up to date wherever it
  is, with the handler that read it, last on the wire, or in what the agent made
  of it (`ListsFit`, `LastFits`); every change of a job leaves somebody who will read it, or is silent. It needs
  that a job has one path wherever it is watched or listed, unless it was given another
  (`OnePath`), and that nothing is listed of jobs not made yet (`NoneWatched`). The proof corrected the
  model: reading the jobs marked every handler as old, those that had not yet read them
  included, so that `overtaken` excused lists that were in order; only a list already read is old
  now (`Outdated`). `KeepsToSchedule`: a job that rests, and was not cancelled since, has
  the time of its last end in its row (`EndFits`), and what the scheduler queues was at rest and due when
  it was read (`DueWhenRead`); for a new job to have no end before it began, nothing may
  be queued, sent, run or reported of an identifier that is not in use (`QueuedMade`, `RunsMade`).

Only model-checked: all liveness properties, which are out of this prover's reach, as is
ENABLED. Every safety property that a passing run checks is a theorem too.

## What is left

In order of importance.

1. `BidirSync`: runs with the strategies "skip" and "manual", an unreadable directory in the
   walk, edits closer than the mtime tolerance, partial files left by a crash.
2. Dynamic collections: membership as a function of tags that change without a request.

## Not modelled

Storage backends other than the local one (adapters of client libraries: S3, SFTP,
FTP, mounted shares), path variables and file permissions, the rules of dynamic
collections (a pure predicate over tags), endpoints, accounts, organizations, audit,
notifications and analytics (request validation and one database statement each), the
limits and metrics of the relay and the WebRTC handshake (what they let through is a
parameter), the web and macOS user interfaces, and `phase-02`, an earlier copy of the engine.

About half of the repository's lines are user interface and a design prototype,
and most of `db.ts` is column lists; of the agent's and the server's own logic, the
map covers the parts named above. The share of mapped lines of the whole repository
stays small for that reason.

## Checking

`tlc -config MCBidirSync.cfg MCBidirSync` and likewise for the other runs;
`tlapm DirLockProofs.tla` and likewise for the other proof modules. The longest runs,
`rollback` and `remote`, take three minutes on two workers, `automation` two; the longest
proofs are `RemoteSyncProofs` and `RemoteRunProofs`, about twenty minutes each.
