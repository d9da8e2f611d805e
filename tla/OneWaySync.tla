----------------------------- MODULE OneWaySync -----------------------------
(***************************************************************************)
(* The one-way engine of the agent: syncOneWay, with its three deletion    *)
(* policies, and runImportSync (agent/src/sync.ts), one job, one agent.    *)
(*                                                                         *)
(* A run walks the source, then the target, copies what the target lacks   *)
(* or has in another size or an older version, deletes what the policy     *)
(* lets it delete, and saves the records at the end.  Before it replaces   *)
(* or removes a file it copies it into the run's rollback directory and    *)
(* notes it in the run's manifest.  An import copies into a layout of its  *)
(* own and neither replaces nor deletes.  The user edits either tree at    *)
(* any moment; transfers, deletes, backups and directory listings fail.    *)
(*                                                                         *)
(* Abstraction.  "src" is the tree the job reads, "dst" the one it writes, *)
(* whichever way the job's direction has them.  A file is [data, mtimeMs,  *)
(* size]; every user write makes a fresh content, under the current time   *)
(* or under an old one, as unpacking an archive does.  Times are further   *)
(* apart than the tolerance.  Directories are left out.                    *)
(***************************************************************************)
EXTENDS Integers, FiniteSets

CONSTANTS
    Paths,        \* relative paths inside the two trees
    None,         \* no file, no record, no backup
    MaxClock,     \* bound: number of user edits
    MaxFaults,    \* bound: number of injected faults of either kind
    MaxRuns,      \* bound: number of runs
    MaxRequests,  \* bound: number of rollback requests
    Cases,        \* the job settings considered, each with its bounds
    Edits         \* the user's writes considered, a subset of UserEdits

Policies    == {"backup", "backup-with-deletes", "mirror"}
JobSettings == [mode : {"sync", "import"}, policy : Policies, encrypted : BOOLEAN,
                importTo : [Paths -> Paths]]

\* A write makes a file of some size, with the current time or with an old one.
UserEdits == [size : {1, 2}, old : BOOLEAN]

\* Bounds are chosen with the settings, to go far in one dimension at a time.
Budget == [edits : 0..MaxClock, faults : 0..MaxFaults, breaks : 0..MaxFaults,
           runs : 0..MaxRuns, requests : 0..MaxRequests]

ASSUME OneWayAssumption ==
    /\ MaxClock \in Nat /\ MaxFaults \in Nat /\ MaxRuns \in Nat /\ MaxRequests \in Nat
    /\ Cases \subseteq [job : JobSettings, budget : Budget] /\ Edits \subseteq UserEdits

Sides     == {"src", "dst"}
Overhead  == 2                       \* what encryption adds to a file's size
Sizes     == 1..4
Torn      == MaxClock + 2            \* a mixture of two writes
Contents  == 0..Torn                 \* 0 and 1 are there before the first run
Times     == 0..MaxClock             \* 0 is a time before the first run

Entry == [data : Contents, mtimeMs : Times, size : Sizes]
Meta  == [mtimeMs : Times, size : Sizes]
StoredFileState   == [src : Meta, dst : Meta \cup {None}]
RollbackFileEntry == [action : {"created", "overwritten", "deleted"},
                      backup : Entry \cup {None}]
Manifest == [Paths -> RollbackFileEntry \cup {None}]
Cursor   == [path : Paths, target : Paths, kind : {"copy", "delete"}]

ASSUME OneWayNone ==
    None \notin Entry \cup Meta \cup StoredFileState \cup RollbackFileEntry \cup Cursor \cup Nat

VARIABLES
    budget,    \* the bounds of this behaviour, fixed
    job,       \* the job's settings, fixed
    fs,        \* the two trees: side -> path -> Entry or None
    stored,    \* the job's records: path -> StoredFileState or None
    phase,     \* where the run is
    walked,    \* srcFiles and dstFiles of the run: side -> path -> Meta or None
    todo,      \* the paths the run has still to visit
    cur,       \* the path being copied or deleted, or None
    manifest,  \* rollback.entries of the run, by path
    aborted,   \* the run's AbortSignal
    runs,      \* runs started so far
    clock,     \* user edits so far
    faults,    \* disk and transfer faults injected so far
    \* history variables, read by no action's guard:
    before,    \* the target as the run found it
    dirty,     \* target paths misread, not backed up, or changed by others since
    touched,   \* paths edited on either side, or hit by a fault, since the run began
    late,      \* <<path, data>> on the target that the run's walk does not know of,
               \* or whose backup failed
    backups,   \* <<path, data>> in a rollback directory or in _syncdata_/_saved_
    lost,      \* <<path, data>> the run destroyed with no backup
    completed, \* the last run ended with its records saved
    settled    \* the run began with nothing edited since a completed run

disk   == <<budget, job, fs, stored>>
runv   == <<phase, walked, todo, cur, manifest, aborted>>
bounds == <<runs, clock, faults>>
ghosts == <<before, dirty, touched, late, backups, lost, completed, settled>>
owVars == <<budget, job, fs, stored, phase, walked, todo, cur, manifest, aborted, runs, clock,
            faults, before, dirty, touched, late, backups, lost, completed, settled>>

Phases   == {"idle", "walkDst", "copy", "delete", "import"}
Versions == Paths \X Contents

OneWayTypeOK ==
    /\ budget \in Budget /\ job \in JobSettings
    /\ fs \in [Sides -> [Paths -> Entry \cup {None}]]
    /\ stored \in [Paths -> StoredFileState \cup {None}]
    /\ phase \in Phases
    /\ walked \in [Sides -> [Paths -> Meta \cup {None}]]
    /\ todo \subseteq Paths
    /\ cur \in Cursor \cup {None}
    /\ manifest \in Manifest
    /\ aborted \in BOOLEAN
    /\ runs \in 0..MaxRuns /\ clock \in 0..MaxClock /\ faults \in 0..MaxFaults
    /\ before \in [Paths -> Entry \cup {None}]
    /\ dirty \subseteq Paths /\ touched \subseteq Paths
    /\ late \subseteq Versions /\ backups \subseteq Versions /\ lost \subseteq Versions
    /\ completed \in BOOLEAN /\ settled \in BOOLEAN

NoFiles == [p \in Paths |-> None]
Found(side) == [data |-> IF side = "src" THEN 0 ELSE 1, mtimeMs |-> 0, size |-> 1]

\* Any files may be on either side before the first run.
OneWayInit ==
    /\ \E case \in Cases : job = case.job /\ budget = case.budget
    /\ fs \in {f \in [Sides -> [Paths -> {Found("src"), Found("dst"), None}]] :
                  \A side \in Sides, p \in Paths : f[side][p] \in {Found(side), None}}
    /\ stored = NoFiles
    /\ phase = "idle" /\ walked = [side \in Sides |-> NoFiles]
    /\ todo = {} /\ cur = None /\ manifest = NoFiles /\ aborted = FALSE
    /\ runs = 0 /\ clock = 0 /\ faults = 0
    /\ before = NoFiles /\ dirty = {} /\ touched = {} /\ late = {} /\ backups = {}
    /\ lost = {} /\ completed = FALSE /\ settled = FALSE

-----------------------------------------------------------------------------
(* Pure decisions. *)

MetaOf(e) == IF e = None THEN None ELSE [mtimeMs |-> e.mtimeMs, size |-> e.size]

\* Mutant: the target's copy counts as current whenever it is as long.
NeedsCopy_SizeOnly(src, dst) == dst # None => dst.size # src.size

\* Mutant: sizes are compared under encryption too.
NeedsCopy_AlwaysSize(src, dst) == dst # None => dst.size # src.size \/ src.mtimeMs > dst.mtimeMs

\* needsCopy: times are equal or further apart than the tolerance.
NeedsCopy(src, dst) ==
    dst # None => \/ ~job.encrypted /\ dst.size # src.size
                  \/ src.mtimeMs > dst.mtimeMs

\* entryMatchesStoredDst
MatchesStoredDst(entry, prev) == prev.dst # None /\ entry = prev.dst

\* Mutant: the target's file is not compared with its record.
DeleteCandidates_AnyVersion ==
    {p \in Paths : /\ walked["src"][p] = None /\ walked["dst"][p] # None
                   /\ \/ job.policy = "mirror"
                      \/ job.policy = "backup-with-deletes" /\ stored[p] # None}

\* Mutant: whatever the source lacks is deleted under every policy but "backup".
DeleteCandidates_MirrorAlways ==
    {p \in Paths : /\ job.policy # "backup"
                   /\ walked["src"][p] = None /\ walked["dst"][p] # None}

\* oneWayDeleteCandidates: the target's files the source no longer has.
DeleteCandidates ==
    {p \in Paths : /\ walked["src"][p] = None /\ walked["dst"][p] # None
                   /\ \/ job.policy = "mirror"
                      \/ /\ job.policy = "backup-with-deletes" /\ stored[p] # None
                         /\ MatchesStoredDst(walked["dst"][p], stored[p])}

\* oneWayState: a record for every file the source walk found, none for others.
OneWayState ==
    [p \in Paths |-> IF walked["src"][p] = None THEN None
                     ELSE [src |-> walked["src"][p], dst |-> walked["dst"][p]]]

-----------------------------------------------------------------------------
(* The user.  Each step may fall anywhere in a run. *)

\* The target's files a run has walked and not yet finished with.
TargetWalked == phase \in {"copy", "delete", "import"}

UserChange(side, p, e) ==
    /\ clock < budget.edits /\ clock' = clock + 1
    /\ fs' = [fs EXCEPT ![side][p] = e]
    /\ touched' = touched \cup {p}
    /\ dirty' = IF side = "dst" THEN dirty \cup {p} ELSE dirty
    /\ late' = IF side = "dst" /\ e # None /\ TargetWalked
               THEN late \cup {<<p, e.data>>} ELSE late
    /\ UNCHANGED <<budget, job, stored, runv, runs, faults, before, backups, lost, completed, settled>>

UserWrite(side, p) ==
    \E edit \in Edits :
        UserChange(side, p, [data |-> clock + 2, size |-> edit.size,
                             mtimeMs |-> IF edit.old THEN 0 ELSE clock + 1])

UserDelete(side, p) == fs[side][p] # None /\ UserChange(side, p, None)

User == \E side \in Sides, p \in Paths : UserWrite(side, p) \/ UserDelete(side, p)

-----------------------------------------------------------------------------
(* The run. *)

Fault == faults < budget.faults /\ faults' = faults + 1

\* Forgets the run's variables; the records are what the last save left.
RunOver == /\ phase' = "idle" /\ walked' = [side \in Sides |-> NoFiles]
           /\ todo' = {} /\ cur' = None /\ manifest' = NoFiles /\ aborted' = FALSE

\* A walk: a directory that cannot be listed is logged and walked as empty.
Walk(side) ==
    \/ /\ walked' = [walked EXCEPT ![side] = [p \in Paths |-> MetaOf(fs[side][p])]]
       /\ UNCHANGED faults
    \/ \E hidden \in SUBSET Paths :
        /\ \E p \in hidden : fs[side][p] # None
        /\ Fault
        /\ walked' = [walked EXCEPT ![side] =
                          [p \in Paths |-> IF p \in hidden THEN None ELSE MetaOf(fs[side][p])]]

\* The paths whose walked entry is not what is there.
Misread(side) == {p \in Paths : walked'[side][p] # MetaOf(fs[side][p])}

\* runSync takes the lock and makes the rollback directory; the source is walked.
StartRun ==
    /\ phase = "idle" /\ runs < budget.runs
    /\ phase' = "walkDst" /\ runs' = runs + 1
    /\ Walk("src")
    /\ touched' = Misread("src")
    /\ completed' = FALSE /\ settled' = (completed /\ touched = {})
    /\ late' = {} /\ lost' = {}
    /\ UNCHANGED <<disk, todo, cur, manifest, aborted, clock, before, dirty, backups>>

WalkDst ==
    /\ phase = "walkDst" /\ ~aborted
    /\ phase' = IF job.mode = "import" THEN "import" ELSE "copy"
    /\ Walk("dst")
    /\ touched' = touched \cup Misread("dst")
    /\ late' = {<<p, fs["dst"][p].data>> : p \in {q \in Misread("dst") : fs["dst"][q] # None}}
    /\ before' = fs["dst"] /\ dirty' = Misread("dst")
    /\ todo' = {p \in Paths : walked["src"][p] # None}
    /\ UNCHANGED <<disk, cur, manifest, aborted, runs, clock, backups, lost, completed, settled>>

\* A source file the target has in the same size and no older.
Skip(p) ==
    /\ phase = "copy" /\ cur = None /\ ~aborted /\ p \in todo
    /\ ~NeedsCopy(walked["src"][p], walked["dst"][p])
    /\ todo' = todo \ {p}
    /\ UNCHANGED <<disk, phase, walked, cur, manifest, aborted, bounds, ghosts>>

\* Mutant: the file is backed up after it was walked, from the source side.
BackupBeforeAction_WrongSide(p, action) ==
    /\ manifest' = [manifest EXCEPT ![p] = [action |-> action, backup |-> fs["src"][p]]]
    /\ backups' = IF fs["src"][p] = None THEN backups
                  ELSE backups \cup {<<p, fs["src"][p].data>>}
    /\ UNCHANGED <<faults, touched, late, dirty>>

\* What a rollback would write: the live content, under the time of the walk.
BackupOf(p) == IF fs["dst"][p] = None THEN None
               ELSE [fs["dst"][p] EXCEPT !.mtimeMs = walked["dst"][p].mtimeMs]

\* backupBeforeAction: the live file goes to the rollback directory; a backup
\* that fails is entered without one, and the action goes on.
BackupBeforeAction(p, action) ==
    \/ /\ manifest' = [manifest EXCEPT ![p] = [action |-> action, backup |-> BackupOf(p)]]
       /\ backups' = IF fs["dst"][p] = None THEN backups
                     ELSE backups \cup {<<p, fs["dst"][p].data>>}
       /\ UNCHANGED <<faults, touched, late, dirty>>
    \/ /\ Fault
       /\ manifest' = [manifest EXCEPT ![p] = [action |-> action, backup |-> None]]
       /\ touched' = touched \cup {p} /\ dirty' = dirty \cup {p}
       /\ late' = IF fs["dst"][p] = None THEN late ELSE late \cup {<<p, fs["dst"][p].data>>}
       /\ UNCHANGED backups

\* Mutant: nothing is entered for a file that is new on the target.
RecordCreated_Forgets(p) == UNCHANGED manifest

RecordCreated(p) ==
    manifest' = [manifest EXCEPT ![p] = [action |-> "created", backup |-> None]]

Choose(p) ==
    /\ phase = "copy" /\ cur = None /\ ~aborted /\ p \in todo
    /\ NeedsCopy(walked["src"][p], walked["dst"][p])
    /\ cur' = [path |-> p, target |-> p, kind |-> "copy"]
    /\ IF walked["dst"][p] # None THEN BackupBeforeAction(p, "overwritten")
       ELSE RecordCreated(p) /\ UNCHANGED <<faults, touched, late, dirty, backups>>
    /\ UNCHANGED <<disk, phase, walked, todo, aborted, runs, clock,
                   before, lost, completed, settled>>

\* The visit of cur is over.
Visited == /\ cur' = None /\ todo' = todo \ {cur.path}
           /\ UNCHANGED <<budget, job, stored, phase, manifest, aborted, runs, clock,
                          before, dirty, completed, settled>>

\* What a replaced or removed target file leaves behind.
LossAt(p) == IF fs["dst"][p] = None THEN {} ELSE {<<p, fs["dst"][p].data>>} \ backups

\* Mutant: a retry encrypts what the first try has encrypted.
Copied_EncryptedTwice(p) ==
    [data |-> fs["src"][p].data, mtimeMs |-> walked["src"][p].mtimeMs,
     size |-> fs["src"][p].size + IF job.encrypted THEN 2 * Overhead ELSE 0]

\* The live file under its walked mtime; encryption adds its overhead.
Copied(p) ==
    [data |-> fs["src"][p].data, mtimeMs |-> walked["src"][p].mtimeMs,
     size |-> fs["src"][p].size + IF job.encrypted THEN Overhead ELSE 0]

\* The file can be read to its end, and a plain one still has its walked size.
Readable(p) == /\ fs["src"][p] # None
               /\ job.encrypted \/ fs["src"][p].size = walked["src"][p].size

\* transferFile replaces the target's file atomically (partial file, rename).
Replace(p, target) ==
    /\ Readable(p)
    /\ fs' = [fs EXCEPT !["dst"][target] = Copied(p)]
    /\ lost' = lost \cup LossAt(target)

\* The signal is not looked at once the bytes are flowing.
Copy ==
    /\ cur # None /\ cur.kind = "copy"
    /\ Replace(cur.path, cur.target)
    /\ walked' = [walked EXCEPT !["dst"][cur.target] = walked["src"][cur.path]]
    /\ Visited
    /\ UNCHANGED <<faults, touched, late, backups>>

\* The source is gone or has another size, the transfer failed after its
\* retries, or the run was cancelled: nothing was replaced.
CopyFails ==
    /\ cur # None /\ cur.kind = "copy"
    /\ \/ (aborted \/ ~Readable(cur.path)) /\ UNCHANGED faults
       \/ Fault
    /\ Visited
    /\ touched' = touched \cup {cur.path, cur.target}
    /\ UNCHANGED <<fs, walked, late, backups, lost>>

\* The file was replaced and the checksum verification after it failed.
VerifyFails ==
    /\ cur # None /\ cur.kind = "copy" /\ ~job.encrypted
    /\ \/ aborted /\ UNCHANGED faults
       \/ Fault
    /\ Replace(cur.path, cur.target)
    /\ Visited
    /\ touched' = touched \cup {cur.path, cur.target}
    /\ late' = late \cup {<<cur.target, Copied(cur.path).data>>}
    /\ UNCHANGED <<walked, backups>>

\* The files are copied; the policy says what to delete.
StartDeletes ==
    /\ phase = "copy" /\ cur = None /\ todo = {}
    /\ phase' = "delete" /\ todo' = DeleteCandidates
    /\ UNCHANGED <<disk, walked, cur, manifest, aborted, bounds, ghosts>>

ChooseDelete(p) ==
    /\ phase = "delete" /\ cur = None /\ ~aborted /\ p \in todo
    /\ cur' = [path |-> p, target |-> p, kind |-> "delete"]
    /\ BackupBeforeAction(p, "deleted")
    /\ UNCHANGED <<disk, phase, walked, todo, aborted, runs, clock,
                   before, lost, completed, settled>>

\* delete moves the live file to _syncdata_/_saved_.
Delete ==
    /\ cur # None /\ cur.kind = "delete" /\ fs["dst"][cur.path] # None
    /\ fs' = [fs EXCEPT !["dst"][cur.path] = None]
    /\ backups' = backups \cup {<<cur.path, fs["dst"][cur.path].data>>}
    /\ walked' = [walked EXCEPT !["dst"][cur.path] = None]
    /\ Visited
    /\ UNCHANGED <<faults, touched, late, lost>>

DeleteFails ==
    /\ cur # None /\ cur.kind = "delete"
    /\ \/ fs["dst"][cur.path] = None /\ UNCHANGED faults
       \/ Fault
    /\ Visited
    /\ touched' = touched \cup {cur.path}
    /\ UNCHANGED <<fs, walked, late, backups, lost>>

\* setJobState, and the run ends with its manifest.
Finish ==
    /\ phase = "delete" /\ cur = None /\ todo = {}
    /\ stored' = OneWayState
    /\ RunOver
    /\ completed' = TRUE
    /\ UNCHANGED <<budget, job, fs, bounds, before, dirty, touched, late, backups, lost, settled>>

-----------------------------------------------------------------------------
(* An import: no backups, no records, no deletions. *)

ImportEnds(p) == /\ todo' = todo \ {p}
                 /\ UNCHANGED <<disk, phase, walked, cur, manifest, aborted, bounds,
                                before, dirty, late, backups, lost, completed, settled>>

\* The target has a file of that size and time under the file's new name, or a
\* different one, which is an error of the file.
ImportSkip(p) ==
    LET there == walked["dst"][job.importTo[p]] IN
    /\ phase = "import" /\ cur = None /\ ~aborted /\ p \in todo
    /\ there # None
    /\ touched' = IF there = walked["src"][p] THEN touched ELSE touched \cup {p}
    /\ ImportEnds(p)

ImportChoose(p) ==
    /\ phase = "import" /\ cur = None /\ ~aborted /\ p \in todo
    /\ walked["dst"][job.importTo[p]] = None
    /\ cur' = [path |-> p, target |-> job.importTo[p], kind |-> "copy"]
    /\ UNCHANGED <<disk, phase, walked, todo, manifest, aborted, bounds, ghosts>>

ImportFinish ==
    /\ phase = "import" /\ cur = None /\ todo = {}
    /\ RunOver
    /\ completed' = TRUE
    /\ UNCHANGED <<disk, bounds, before, dirty, touched, late, backups, lost, settled>>

-----------------------------------------------------------------------------
(* How a run ends early. *)

\* job:cancel aborts the run's signal.
Cancel ==
    /\ phase # "idle" /\ ~aborted
    /\ aborted' = TRUE
    /\ UNCHANGED <<disk, phase, walked, todo, cur, manifest, bounds, ghosts>>

\* throwIfAborted at the head of a loop: no records are saved, no manifest is
\* returned, and what was copied stays.
Abort ==
    /\ aborted /\ cur = None
    /\ phase = "walkDst" \/ todo # {}
    /\ RunOver
    /\ UNCHANGED <<disk, bounds, ghosts>>

\* The steps of a run after which it goes on, or ends without saving records.
OneWayRun ==
    \/ StartRun \/ WalkDst \/ StartDeletes
    \/ Copy \/ CopyFails \/ VerifyFails \/ Delete \/ DeleteFails
    \/ Cancel \/ Abort \/ ImportFinish
    \/ \E p \in Paths : \/ Skip(p) \/ Choose(p) \/ ChooseDelete(p)
                        \/ ImportSkip(p) \/ ImportChoose(p)

-----------------------------------------------------------------------------
(* Properties. *)

\* A run destroys no version of a target file that is in no backup: one in the
\* rollback directory or in _saved_.  Excepted are versions written after the
\* run walked the target, hidden by a directory that could not be listed, or put
\* there by a copy whose verification failed, and those whose backup failed.  An
\* import, which makes no backup, destroys none.
OverwrittenIsKept == lost \subseteq late

\* The target, after a completed run, at a path nothing disturbed meanwhile.
Mirrored(p) ==
    LET src == fs["src"][p]  dst == fs["dst"][p]  was == before[p] IN
    IF src # None
    THEN /\ dst # None /\ dst.mtimeMs >= src.mtimeMs
         /\ job.encrypted \/ dst.size = src.size
         /\ dst.data = src.data \/ dst = was
    ELSE dst = IF \/ job.policy = "mirror"
                  \/ /\ job.policy = "backup-with-deletes"
                     /\ was # None /\ stored[p] # None /\ stored[p].dst = MetaOf(was)
               THEN None ELSE was

\* The new name of an imported file, likewise.
Arrived(p) ==
    LET t == job.importTo[p] IN
    fs["src"][p] # None /\ t \notin touched /\ ~job.encrypted =>
        MetaOf(fs["dst"][t]) = MetaOf(fs["src"][p])

\* A one-way run that ends normally leaves, at every path no user and no fault
\* touched, the source's file or a target file of its size and no older; under
\* "mirror" nothing else, under "backup-with-deletes" what this job did not put
\* there or what changed there since, under "backup" all the target had.  An import
\* leaves every such file under its new name, with its size and time, unless it
\* reported an error for it: two files of one name do not replace each other.
QuietRunDelivers ==
    [][completed' => \A p \in Paths \ touched :
          /\ phase = "delete" => Mirrored(p)
          /\ phase = "import" => Arrived(p)]_owVars

\* A run after which nothing was edited is followed by a run that sends and
\* deletes nothing, except at paths touched meanwhile: no file, encrypted or
\* not, is sent again for ever, and no delete comes late.
QuietRunIsNoop ==
    settled /\ cur # None => {cur.path, cur.target} \cap touched # {}

\* A run removes a target file only where its source walk found none, and only
\* under a policy that deletes: under "backup" never, under
\* "backup-with-deletes" only a path an earlier run of the job recorded.
DeletesFollowSource ==
    [][\A p \in Paths :
          fs["dst"][p] # None /\ fs'["dst"][p] = None /\ cur # None /\ cur' = None
             => /\ walked["src"][p] = None /\ job.mode = "sync"
                /\ \/ job.policy = "mirror"
                   \/ job.policy = "backup-with-deletes" /\ stored[p] # None]_owVars
=============================================================================
