------------------------------ MODULE BidirSync ------------------------------
(***************************************************************************)
(* The two-way engine of the agent: syncBidirectional (agent/src/sync.ts)  *)
(* over the per-job state store (agent/src/state.ts), one job, one agent.  *)
(*                                                                         *)
(* A run walks both sides, applies detected renames, then visits every     *)
(* path: it compares the walked metadata with the stored record, picks an  *)
(* action, backs the victim up, and copies or deletes.  The new records    *)
(* are written to disk once, at the end.  The user edits either side at    *)
(* any moment, also between the walk and the copy; transfers and deletes   *)
(* fail; the run is cancelled; the process dies.                           *)
(*                                                                         *)
(* Abstraction.  A file is [data, mtimeMs, size].  Every user write makes  *)
(* a fresh content, identified by the tick it was written at; ticks are    *)
(* further apart than the mtime tolerance.  All plaintexts have the same   *)
(* length, so a user's edit shows in the mtime only; "size" counts the     *)
(* overhead that encryption adds to a file.                                *)
(***************************************************************************)
EXTENDS Integers, FiniteSets

CONSTANTS
    Paths,             \* relative paths inside the two synced directories
    None,              \* no file, no record, no checksum
    MaxClock,          \* bound: number of user edits
    MaxFaults,         \* bound: number of injected faults
    MTIME_TOLERANCE,   \* MTIME_TOLERANCE_MS, in ticks
    HOUR,              \* HOUR_MS, in ticks
    ConflictStrategy,  \* job.conflictStrategy
    Encrypted,         \* job.reliability.encryptionEnabled
    Faults             \* the faults that may happen, a subset of FaultKinds

FaultKinds == {"transfer", "verify", "delete", "backup", "cancel", "crash"}

ASSUME ConfigAssumption ==
    /\ MaxClock \in Nat /\ MaxFaults \in Nat
    /\ MTIME_TOLERANCE \in Nat /\ HOUR \in Nat
    /\ ConflictStrategy \in {"newer-wins", "skip", "manual"}
    /\ Encrypted \in BOOLEAN
    /\ Faults \subseteq FaultKinds

Sides == {"src", "dst"}
Other(side) == IF side = "src" THEN "dst" ELSE "src"

Entry == [data : 1..MaxClock, mtimeMs : 1..MaxClock, size : Nat]
Meta  == [mtimeMs : 1..MaxClock, size : Nat]
StoredFileState == [src : Meta \cup {None}, dst : Meta \cup {None},
                    checksum : 1..MaxClock \cup {None}]

ASSUME NoneAssumption ==
    /\ None \notin Entry /\ None \notin Meta /\ None \notin StoredFileState
    /\ None \notin Int /\ None \notin STRING

VARIABLES
    fs,        \* the two directories: side -> path -> Entry or None
    stored,    \* the job's state file: path -> StoredFileState or None
    phase,     \* where the run is
    walked,    \* srcFiles and dstFiles of the run: side -> path -> Meta or None
    moved,     \* movedChecksums of the run: path -> checksum or None
    todo,      \* the paths the run has still to visit
    cur,       \* the path being copied or deleted, or None
    newState,  \* the records gathered so far: path -> StoredFileState or None
    aborted,   \* the run's AbortSignal
    clock,     \* ticks, one per user edit
    faults,    \* faults injected so far
    \* history variables, read by no action's guard:
    backups,   \* contents put in rollback/<job>/ or in _syncdata_/_saved_
    touched,   \* paths the user edited, or a fault hit, since the run's walk
    misrecorded, \* paths whose stored record was made from a failed transfer, or
                 \* from a conflict that was left alone
    newMisrecorded,  \* the same for the records gathered so far
    removed,   \* <<side, path>> removed by the user, or by a run that followed the
               \* user (delete, replayed rename), and not written since
    propagated,\* contents that reached the other side
    restamped, \* mtimes that a run gave to another version's content
    lost,      \* [data, why] of contents a run destroyed that never had
    completed, \* the last run ended with its records saved
    settled    \* the run began with nothing edited since a completed run

disk   == <<fs, stored>>
runv   == <<phase, walked, moved, todo, cur, newState, aborted>>
ghosts == <<backups, touched, misrecorded, newMisrecorded, removed, propagated, restamped, lost, completed, settled>>
vars   == <<fs, stored, phase, walked, moved, todo, cur, newState, aborted,
            clock, faults, backups, touched, misrecorded, newMisrecorded, removed,
            propagated, restamped, lost, completed, settled>>

Phases  == {"idle", "walkDst", "moveSrc", "moveDst", "files"}
Actions == {"copy-to-dst", "copy-to-src", "delete-dst", "delete-src"}
Cursor  == [path : Paths, action : Actions, why : {"conflict", "change"}]

TypeOK ==
    /\ fs \in [Sides -> [Paths -> Entry \cup {None}]]
    /\ stored \in [Paths -> StoredFileState \cup {None}]
    /\ phase \in Phases
    /\ walked \in [Sides -> [Paths -> Meta \cup {None}]]
    /\ moved \in [Paths -> 1..MaxClock \cup {None}]
    /\ todo \subseteq Paths
    /\ cur \in Cursor \cup {None}
    /\ newState \in [Paths -> StoredFileState \cup {None}]
    /\ aborted \in BOOLEAN
    /\ clock \in 0..MaxClock
    /\ faults \in 0..MaxFaults
    /\ backups \subseteq 1..MaxClock
    /\ touched \subseteq Paths /\ misrecorded \subseteq Paths /\ newMisrecorded \subseteq Paths
    /\ removed \subseteq Sides \X Paths
    /\ propagated \subseteq 1..MaxClock /\ restamped \subseteq 1..MaxClock
    /\ lost \subseteq [data : 1..MaxClock, why : {"conflict", "race", "misrecorded", "clean"}]
    /\ completed \in BOOLEAN /\ settled \in BOOLEAN

NoFiles == [p \in Paths |-> None]

Init ==
    /\ fs = [side \in Sides |-> NoFiles]
    /\ stored = NoFiles
    /\ phase = "idle" /\ walked = [side \in Sides |-> NoFiles]
    /\ moved = NoFiles /\ todo = {} /\ cur = None
    /\ newState = NoFiles /\ aborted = FALSE
    /\ clock = 0 /\ faults = 0
    /\ backups = {} /\ touched = {} /\ misrecorded = {} /\ newMisrecorded = {}
    /\ removed = {} /\ propagated = {} /\ restamped = {} /\ lost = {} /\ completed = FALSE
    /\ settled = FALSE

-----------------------------------------------------------------------------
(* Pure decisions. *)

AbsDiff(a, b) == IF a > b THEN a - b ELSE b - a

mtimeEqual(a, b) ==
    \E shift \in {0, HOUR, 2 * HOUR} : AbsDiff(AbsDiff(a, b), shift) <= MTIME_TOLERANCE

fileChanged(entry, prev, side) ==
    /\ entry # None
    /\ \/ prev = None
       \/ prev[side] = None
       \/ entry.size # prev[side].size
       \/ ~ mtimeEqual(entry.mtimeMs, prev[side].mtimeMs)

\* Mutant: a file deleted on one side is deleted on the other, changed or not.
resolveAction_DeleteWins(src, dst, prev) ==
    CASE src # None /\ dst = None /\ prev # None -> "delete-src"
      [] src = None /\ dst # None /\ prev # None -> "delete-dst"
      [] OTHER -> IF fileChanged(src, prev, "src") THEN "copy-to-dst"
                  ELSE IF fileChanged(dst, prev, "dst") THEN "copy-to-src" ELSE "skip"

\* Mutant: the first sync takes a file missing on the source for deleted there.
resolveAction_FirstSyncMirrors(src, dst, prev) ==
    CASE src = None /\ dst # None -> "delete-dst"
      [] OTHER -> IF fileChanged(src, prev, "src") THEN "copy-to-dst" ELSE "skip"

\* src and dst are the walked entries of one path, prev its stored record.
resolveAction(src, dst, prev) ==
    LET firstSync  == prev = None
        existed(side) == prev # None /\ prev[side] # None
        srcChanged == fileChanged(src, prev, "src")
        dstChanged == fileChanged(dst, prev, "dst")
    IN  IF src = None /\ dst = None THEN "skip"
        ELSE IF dst = None THEN IF existed("dst") /\ ~srcChanged THEN "delete-src" ELSE "copy-to-dst"
        ELSE IF src = None THEN IF existed("src") /\ ~dstChanged THEN "delete-dst" ELSE "copy-to-src"
        ELSE IF firstSync THEN IF mtimeEqual(src.mtimeMs, dst.mtimeMs) THEN "skip"
                               ELSE IF src.mtimeMs > dst.mtimeMs THEN "copy-to-dst" ELSE "copy-to-src"
        ELSE IF srcChanged THEN IF dstChanged THEN "conflict" ELSE "copy-to-dst"
        ELSE IF dstChanged THEN "copy-to-src" ELSE "skip"

\* What the strategy makes of a conflict; "skip" and "manual" leave both files.
resolveConflict(src, dst) ==
    IF ConflictStrategy # "newer-wins" THEN "skip"
    ELSE IF src.mtimeMs >= dst.mtimeMs THEN "copy-to-dst" ELSE "copy-to-src"

IsCopy(action) == action \in {"copy-to-dst", "copy-to-src"}
Target(action) == IF action \in {"copy-to-dst", "delete-dst"} THEN "dst" ELSE "src"

MetaOf(e) == IF e = None THEN None ELSE [mtimeMs |-> e.mtimeMs, size |-> e.size]

-----------------------------------------------------------------------------
(* The user.  Each step may fall anywhere in a run. *)

Stamp(t) == [data |-> t, mtimeMs |-> t, size |-> 0]

UserWrite(side, p) ==
    /\ clock < MaxClock /\ clock' = clock + 1
    /\ fs' = [fs EXCEPT ![side][p] = Stamp(clock + 1)]
    /\ touched' = touched \cup {p}
    /\ removed' = removed \ {<<side, p>>}
    /\ UNCHANGED <<stored, runv, faults, backups, misrecorded, newMisrecorded,
                   propagated, restamped, lost, completed, settled>>

UserDelete(side, p) ==
    /\ fs[side][p] # None
    /\ clock < MaxClock /\ clock' = clock + 1
    /\ fs' = [fs EXCEPT ![side][p] = None]
    /\ touched' = touched \cup {p}
    /\ removed' = removed \cup {<<side, p>>}
    /\ UNCHANGED <<stored, runv, faults, backups, misrecorded, newMisrecorded,
                   propagated, restamped, lost, completed, settled>>

\* A rename keeps content and mtime; the user does not rename onto a file.
UserRename(side, p, q) ==
    /\ fs[side][p] # None /\ fs[side][q] = None
    /\ clock < MaxClock /\ clock' = clock + 1
    /\ fs' = [fs EXCEPT ![side][p] = None, ![side][q] = fs[side][p]]
    /\ touched' = touched \cup {p, q}
    /\ removed' = (removed \cup {<<side, p>>}) \ {<<side, q>>}
    /\ UNCHANGED <<stored, runv, faults, backups, misrecorded, newMisrecorded,
                   propagated, restamped, lost, completed, settled>>

-----------------------------------------------------------------------------
(* The run. *)

Fault(kind) == /\ kind \in Faults
               /\ faults < MaxFaults
               /\ faults' = faults + 1

\* Forgets the run's variables; the state file is what the last save left.  The
\* rollback directories that runSync prunes after it are in Rollback (Prune).
EndRun == /\ phase' = "idle"
          /\ walked' = [side \in Sides |-> NoFiles]
          /\ moved' = NoFiles /\ todo' = {} /\ cur' = None
          /\ newState' = NoFiles /\ aborted' = FALSE /\ newMisrecorded' = {}

\* An exception leaves syncBidirectional before setJobState.
RunThrows == /\ EndRun
             /\ completed' = FALSE
             /\ UNCHANGED <<stored, clock, backups, touched, misrecorded, removed,
                            propagated, restamped, lost, settled>>

\* Mutant: only the source's paths are visited.
AllPaths_SourceOnly(w) == {p \in Paths : w["src"][p] # None}

\* allPaths: every path the walks found on either side.
AllPaths(w) == {p \in Paths : \E side \in Sides : w[side][p] # None}

\* runSync takes the lock, and the source side is walked.
StartRun ==
    /\ phase = "idle"
    /\ phase' = "walkDst"
    /\ walked' = [walked EXCEPT !["src"] = [p \in Paths |-> MetaOf(fs["src"][p])]]
    /\ touched' = {} /\ newMisrecorded' = misrecorded /\ completed' = FALSE
    /\ settled' = (completed /\ touched = {} /\ misrecorded = {})
    /\ UNCHANGED <<fs, stored, moved, todo, cur, newState, aborted, clock, faults,
                   backups, misrecorded, removed, propagated, restamped, lost>>

\* The destination side is walked; an encrypted job detects no moves.
WalkDst ==
    /\ phase = "walkDst" /\ ~aborted
    /\ walked' = [walked EXCEPT !["dst"] = [p \in Paths |-> MetaOf(fs["dst"][p])]]
    /\ IF Encrypted
       THEN /\ phase' = "files"
            /\ todo' = AllPaths(walked')
       ELSE phase' = "moveSrc" /\ UNCHANGED todo
    /\ UNCHANGED <<fs, stored, moved, cur, newState, aborted, clock, faults, ghosts>>

existedOnBothSides(prev) == prev["src"] # None /\ prev["dst"] # None

\* Paths that left one side and are unchanged on the mirror.
MissingFrom(side) ==
    {p \in Paths :
        LET prev   == stored[p]
            mirror == walked[Other(side)][p]
        IN  /\ prev # None /\ walked[side][p] = None /\ mirror # None
            /\ existedOnBothSides(prev) /\ prev.checksum # None
            /\ ~fileChanged(mirror, prev, Other(side))
            /\ mirror.size = prev[side].size}

\* Paths new on one side, absent from the mirror and from the state.
AddedOn(side) ==
    {p \in Paths : /\ walked[side][p] # None /\ walked[Other(side)][p] = None
                   /\ stored[p] = None}

\* checksumMoveKey: the stored checksum and size, or those of the live file.
MissingKey(side, p) == <<stored[p].checksum, stored[p][side].size>>
AddedKey(side, p)   == <<fs[side][p].data, walked[side][p].size>>

\* Mutant: the map keeps the wrong half of the key.
MovedChecksum_SizePart(side, p) == AddedKey(side, p)[2]

\* What movedChecksums keeps of the key.
MovedChecksum(side, p) == AddedKey(side, p)[1]

\* The renames to replay on the mirror: one missing and one added path of a key.
Moves(side) ==
    {m \in MissingFrom(side) \X AddedOn(side) :
        /\ MissingKey(side, m[1]) = AddedKey(side, m[2])
        /\ \A p \in MissingFrom(side) : MissingKey(side, p) = MissingKey(side, m[1]) => p = m[1]
        /\ \A p \in AddedOn(side) : AddedKey(side, p) = AddedKey(side, m[2]) => p = m[2]}

\* The mirror after the renames ms, in the map f of files or of walked metadata.
AfterMoves(side, ms, f) ==
    [p \in Paths |->
        IF \E m \in ms : m[2] = p
        THEN LET m == CHOOSE m \in ms : m[2] = p
             IN  [f[m[1]] EXCEPT !.mtimeMs = walked[side][p].mtimeMs]
        ELSE IF \E m \in ms : m[1] = p THEN None ELSE f[p]]

\* Every added file is hashed, and a rename needs its source: either may be gone.
HashThrows(side) == \E p \in AddedOn(side) : fs[side][p] = None
Renamable(side)  == IF HashThrows(side) THEN {}
                    ELSE {m \in Moves(side) : fs[Other(side)][m[1]] # None}
MovesComplete(side) == ~HashThrows(side) /\ Renamable(side) = Moves(side)

\* A copy or a rename that races an edit gives the new content the walked mtime:
\* from then on that mtime no longer tells contents apart.
RestampedBy(e) == IF e # None /\ e.data # e.mtimeMs THEN {e.mtimeMs} ELSE {}
IsRestamped(e) == e # None /\ e.mtimeMs \in restamped

Why(e, p, why) == IF p \in touched \/ IsRestamped(e) THEN "race"
               ELSE IF why = "conflict" THEN "conflict"
               ELSE IF p \in misrecorded THEN "misrecorded" ELSE "clean"

\* What history records when a run destroys file e at path p.
Loss(e, p, why) ==
    IF e # None /\ e.data \notin propagated
    THEN {[data |-> e.data, why |-> Why(e, p, why)]} ELSE {}

\* removed, after the renames ms were replayed on the mirror of side.
RemovedBy(side, ms) ==
    (removed \cup {<<Other(side), m[1]>> : m \in ms}) \ {<<Other(side), m[2]>> : m \in ms}

OverwrittenBy(side, ms) ==
    UNION {Loss(fs[Other(side)][m[2]], m[2], "change") : m \in ms}

\* detectSideMoves for the side that changed: all its renames, on disk and in
\* the walked map of the mirror.
DetectSideMoves(side) ==
    LET ms     == Moves(side)
        mirror == Other(side)
    IN  /\ ~aborted /\ MovesComplete(side)
        /\ fs' = [fs EXCEPT ![mirror] = AfterMoves(side, ms, fs[mirror])]
        /\ walked' = [walked EXCEPT ![mirror] = AfterMoves(side, ms, walked[mirror])]
        /\ moved' = [p \in Paths |-> IF \E m \in ms : m[2] = p
                                     THEN MovedChecksum(side, p) ELSE moved[p]]
        /\ newMisrecorded' = newMisrecorded \cup {p \in Paths : \E m \in ms : m[1] \in newMisrecorded /\ m[2] = p}
        /\ lost' = lost \cup OverwrittenBy(side, ms)
        /\ removed' = RemovedBy(side, ms)
        /\ restamped' = restamped \cup UNION {RestampedBy(fs'[mirror][p]) : p \in Paths}
        /\ UNCHANGED <<stored, cur, newState, aborted, clock, faults, backups,
                       touched, misrecorded, propagated, completed, settled>>

DetectSrcMoves == /\ phase = "moveSrc" /\ phase' = "moveDst"
                  /\ DetectSideMoves("src")
                  /\ UNCHANGED todo

\* After the destination's moves the paths to visit are known (allPaths).
DetectDstMoves ==
    /\ phase = "moveDst" /\ phase' = "files"
    /\ DetectSideMoves("dst")
    /\ todo' = AllPaths(walked')

\* An exception ends the run; some of the renames may have been done.
MovesThrow(side) ==
    \E done \in SUBSET Renamable(side) :
        /\ ~aborted
        /\ ~MovesComplete(side)
        /\ fs' = [fs EXCEPT ![Other(side)] = AfterMoves(side, done, fs[Other(side)])]
        /\ lost' = lost \cup OverwrittenBy(side, done)
        /\ removed' = RemovedBy(side, done)
        /\ restamped' = restamped \cup UNION {RestampedBy(fs'[Other(side)][p]) : p \in Paths}
        /\ EndRun /\ completed' = FALSE
        /\ UNCHANGED <<stored, clock, faults, backups, touched, misrecorded,
                       propagated, settled>>

MovesFail == \/ phase = "moveSrc" /\ MovesThrow("src")
             \/ phase = "moveDst" /\ MovesThrow("dst")

-----------------------------------------------------------------------------
(* The files. *)

\* The record kept for a path; its sides are walked metadata, or what the
\* action made of them.
Record(src, dst, checksum) == [src |-> src, dst |-> dst, checksum |-> checksum]

\* prev?.checksum ?? movedChecksums.get(rel)
KnownChecksum(p) == IF stored[p] # None /\ stored[p].checksum # None
                    THEN stored[p].checksum ELSE moved[p]

\* backfillChecksum: only for a path recorded on both sides and unchanged,
\* whose live files are equal and still what was walked.
Backfill(p) ==
    LET unchanged(side) == /\ walked[side][p] # None
                           /\ ~fileChanged(walked[side][p], stored[p], side)
                           /\ fs[side][p] # None
                           /\ MetaOf(fs[side][p]) = walked[side][p]
    IN  IF /\ ~Encrypted /\ ~aborted
           /\ stored[p] # None /\ existedOnBothSides(stored[p])
           /\ unchanged("src") /\ unchanged("dst")
           /\ walked["src"][p].size = walked["dst"][p].size
           /\ fs["src"][p].data = fs["dst"][p].data
        THEN fs["src"][p].data ELSE None

Resolved(p) == resolveAction(walked["src"][p], walked["dst"][p], stored[p])
ActionFor(p) == IF Resolved(p) = "conflict"
                THEN resolveConflict(walked["src"][p], walked["dst"][p]) ELSE Resolved(p)

\* Both sides exist and differ: what the strategy, or newer-wins, decides.
IsConflict(p) == \/ Resolved(p) = "conflict"
                 \/ stored[p] = None /\ \A side \in Sides : walked[side][p] # None

\* A path left as it is: its record is the walked metadata of both sides.
Skip(p) ==
    /\ phase = "files" /\ cur = None /\ ~aborted /\ p \in todo
    /\ ActionFor(p) = "skip"
    /\ newState' = [newState EXCEPT ![p] =
            Record(walked["src"][p], walked["dst"][p],
                   IF KnownChecksum(p) # None THEN KnownChecksum(p) ELSE Backfill(p))]
    /\ todo' = todo \ {p}
    /\ newMisrecorded' = newMisrecorded \cup (IF Resolved(p) = "conflict" THEN {p} ELSE {})
    /\ UNCHANGED <<disk, phase, walked, moved, cur, aborted, clock, faults, backups, touched,
                   misrecorded, removed, propagated, restamped, lost, completed, settled>>

\* Mutant: the side that is read is backed up.
Victim_ReadSide(action) == Other(Target(action))

\* The side whose file backupBeforeAction saves.
Victim(action) == Target(action)

\* The victim the walk saw is backed up from the live file; a failed backup is
\* logged and the action goes on.
Choose(p) ==
    LET action == ActionFor(p)
        victim == Victim(action)
    IN  /\ phase = "files" /\ cur = None /\ ~aborted /\ p \in todo
        /\ action # "skip"
        /\ cur' = [path |-> p, action |-> action,
                   why |-> IF IsConflict(p) THEN "conflict" ELSE "change"]
        /\ \/ /\ backups' = IF walked[victim][p] # None /\ fs[victim][p] # None
                            THEN backups \cup {fs[victim][p].data} ELSE backups
              /\ UNCHANGED <<faults, touched>>
           \/ /\ walked[victim][p] # None /\ Fault("backup")
              /\ touched' = touched \cup {p}
              /\ UNCHANGED backups
        /\ UNCHANGED <<disk, phase, walked, moved, todo, newState, aborted, clock,
                       misrecorded, newMisrecorded, removed, propagated, restamped, lost, completed, settled>>

\* The end of a visit: the record is added and the next path may be chosen.
Visited(p, src, dst, checksum) ==
    /\ newState' = [newState EXCEPT ![p] = Record(src, dst, checksum)]
    /\ todo' = todo \ {p} /\ cur' = None
    /\ UNCHANGED <<stored, phase, walked, moved, aborted, clock, backups, misrecorded, completed, settled>>

\* A visit whose copy or delete failed records the walked metadata all the same.
VisitFailed(p) == Visited(p, walked["src"][p], walked["dst"][p], KnownChecksum(p))

\* Mutant: the copy keeps the time it was written at.
Copied_NoUtimes(from, p) == [data |-> fs[from][p].data,
                             mtimeMs |-> IF clock < MaxClock THEN clock + 1 ELSE clock,
                             size |-> fs[from][p].size]

\* The live file with the walked mtime; encryption adds its overhead.
Copied(from, p) == [data |-> fs[from][p].data, mtimeMs |-> walked[from][p].mtimeMs,
                    size |-> fs[from][p].size + IF Encrypted THEN 1 ELSE 0]

\* transferFile replaces the target's file atomically (partial file, rename).
Replace(p, to) ==
    LET from == Other(to) IN
    /\ fs[from][p] # None
    /\ fs' = [fs EXCEPT ![to][p] = Copied(from, p)]
    /\ lost' = IF fs[to][p] # None /\ fs[to][p].data = fs[from][p].data THEN lost
               ELSE lost \cup Loss(fs[to][p], p, cur.why)
    /\ propagated' = propagated \cup {fs[from][p].data}
    /\ restamped' = restamped \cup RestampedBy(fs'[to][p])
    /\ removed' = removed \ {<<to, p>>}

Copy(p, to) ==
    LET from == Other(to) IN
    /\ cur # None /\ cur.path = p /\ IsCopy(cur.action) /\ Target(cur.action) = to
    /\ Replace(p, to)
    /\ Visited(p, walked[from][p], walked[from][p],
               IF Encrypted THEN KnownChecksum(p) ELSE fs[from][p].data)
    /\ newMisrecorded' = newMisrecorded \ {p}
    /\ UNCHANGED <<faults, touched>>

\* The source is gone, the transfer failed after its retries, or the run was
\* cancelled: the error is caught and nothing was replaced.
CopyFails(p, to) ==
    /\ cur # None /\ cur.path = p /\ IsCopy(cur.action) /\ Target(cur.action) = to
    /\ \/ (aborted \/ fs[Other(to)][p] = None) /\ UNCHANGED faults
       \/ Fault("transfer")
    /\ VisitFailed(p)
    /\ newMisrecorded' = newMisrecorded \cup {p}
    /\ touched' = touched \cup {p}
    /\ UNCHANGED <<fs, removed, propagated, restamped, lost>>

\* The file was replaced and the checksum verification after it failed.
VerifyFails(p, to) ==
    /\ cur # None /\ cur.path = p /\ IsCopy(cur.action) /\ Target(cur.action) = to
    /\ ~Encrypted
    /\ \/ aborted /\ UNCHANGED faults
       \/ Fault("verify")
    /\ Replace(p, to)
    /\ VisitFailed(p)
    /\ newMisrecorded' = newMisrecorded \cup {p}
    /\ touched' = touched \cup {p}

\* delete moves the live file to _syncdata_/_saved_.
Delete(p, side) ==
    /\ cur # None /\ cur.path = p /\ ~IsCopy(cur.action) /\ Target(cur.action) = side
    /\ fs[side][p] # None
    /\ fs' = [fs EXCEPT ![side][p] = None]
    /\ backups' = backups \cup {fs[side][p].data}
    /\ lost' = lost \cup Loss(fs[side][p], p, cur.why)
    /\ newState' = [newState EXCEPT ![p] =
            Record(IF side = "src" THEN None ELSE walked["src"][p],
                   IF side = "dst" THEN None ELSE walked["dst"][p], KnownChecksum(p))]
    /\ todo' = todo \ {p} /\ cur' = None
    /\ newMisrecorded' = newMisrecorded \ {p}
    /\ removed' = removed \cup {<<side, p>>}
    /\ UNCHANGED <<stored, phase, walked, moved, aborted, clock, faults, touched,
                   misrecorded, propagated, restamped, completed, settled>>

DeleteFails(p, side) ==
    /\ cur # None /\ cur.path = p /\ ~IsCopy(cur.action) /\ Target(cur.action) = side
    /\ \/ fs[side][p] = None /\ UNCHANGED faults
       \/ Fault("delete")
    /\ VisitFailed(p)
    /\ touched' = touched \cup {p}
    /\ UNCHANGED <<fs, newMisrecorded, removed, propagated, restamped, lost>>

\* setJobState: the records of the visited paths replace the state file at once.
Finish ==
    /\ phase = "files" /\ cur = None /\ todo = {}
    /\ stored' = newState
    /\ EndRun
    /\ misrecorded' = {p \in newMisrecorded : newState[p] # None}
    /\ completed' = TRUE
    /\ UNCHANGED <<fs, clock, faults, backups, touched, removed, propagated, restamped, lost, settled>>

-----------------------------------------------------------------------------
(* Cancellation and crashes. *)

Cancel == /\ phase # "idle" /\ ~aborted
          /\ Fault("cancel")
          /\ aborted' = TRUE
          /\ UNCHANGED <<disk, phase, walked, moved, todo, cur, newState, clock, ghosts>>

\* throwIfAborted at the head of a step; a run with no path left still saves.
Abort == /\ phase # "idle" /\ aborted /\ cur = None
         /\ phase = "files" => todo # {}
         /\ RunThrows
         /\ UNCHANGED <<fs, faults>>

Crash == /\ phase # "idle"
         /\ Fault("crash")
         /\ RunThrows
         /\ UNCHANGED fs

User == \E side \in Sides, p \in Paths :
            \/ UserWrite(side, p)
            \/ UserDelete(side, p)
            \/ \E q \in Paths : UserRename(side, p, q)

Engine == \/ WalkDst \/ DetectSrcMoves \/ DetectDstMoves \/ MovesFail
          \/ \E p \in Paths : Skip(p) \/ Choose(p)
          \/ \E p \in Paths, side \in Sides :
                 Copy(p, side) \/ CopyFails(p, side) \/ VerifyFails(p, side)
                 \/ Delete(p, side) \/ DeleteFails(p, side)
          \/ Finish \/ Abort

Next == User \/ StartRun \/ Engine \/ Cancel \/ Crash

Spec == Init /\ [][Next]_vars

-----------------------------------------------------------------------------
(* Properties. *)

\* A user's version that never reached the other side is destroyed by a run
\* only if both sides had changed (newer-wins), if the user edited the path
\* while the run was at it, or if an earlier run had recorded as synced what it
\* did not transfer (resolveAction, the newState record of every visit).
UnsyncedEditsSurvive == \A l \in lost : l.why # "clean"

\* The loser of a conflict, and every other version a run destroys before it
\* was copied, has been put in the rollback directory or in _syncdata_/_saved_ by
\* then, unless the user wrote it while the run was at the path or its backup failed
\* (backupBeforeAction comes before transferFile and delete).  It says nothing of how
\* long it is kept: pruneRollbackData removes the directories of old runs.
LosersAreBackedUp == \A l \in lost : l.why # "race" => l.data \in backups

SameContent(p) == \/ fs["src"][p] = None /\ fs["dst"][p] = None
                  \/ /\ fs["src"][p] # None /\ fs["dst"][p] # None
                     /\ fs["src"][p].data = fs["dst"][p].data

Restamped(p) == \E side \in Sides : IsRestamped(fs[side][p])

\* When a run has ended normally, both sides hold the same content at every path
\* neither edited nor hit by a fault since the run began, whatever earlier runs
\* left behind: crashes, cancellations, half-applied renames (syncBidirectional).
\* A failed transfer recorded as synced, and a content under another version's
\* mtime, escape the comparison of metadata.
CompletedRunConverges ==
    phase = "idle" /\ completed =>
        \A p \in Paths \ (touched \cup misrecorded) : SameContent(p) \/ Restamped(p)

\* A run deletes a file only where it is gone from the other side because the
\* user removed it, or an earlier run did so following the user, except for what
\* the user does while the run is at the path (the two "follow" branches of
\* resolveAction).
DeletesFollowTheUser ==
    [][\A side \in Sides, p \in Paths :
          cur # None /\ cur' = None /\ fs[side][p] # None /\ fs'[side][p] = None
            => <<Other(side), p>> \in removed \/ p \in touched]_vars

\* A run that starts where a completed run left off, with no edit since, changes
\* neither side (fileChanged against the records of the previous run).
QuietRunIsNoop ==
    [][settled /\ touched' = {} /\ phase # "idle" => fs' = fs]_vars

\* Runs keep being started (schedule, watch), and a run keeps taking steps.
Fairness == WF_vars(StartRun) /\ WF_vars(Engine)
FairSpec == Spec /\ Fairness

\* Once the user's edits and the faults are over, both sides end up equal and
\* stay so, except for the paths CompletedRunConverges excepts: no two runs undo
\* each other's work (syncBidirectional, run after run).
EventuallyInSync ==
    <>[](\A p \in Paths : SameContent(p) \/ Restamped(p) \/ p \in misrecorded)
=============================================================================
