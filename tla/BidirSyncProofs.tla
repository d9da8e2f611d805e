--------------------------- MODULE BidirSyncProofs ---------------------------
(***************************************************************************)
(* What the two-way engine guarantees for any paths, clock, faults, time   *)
(* tolerance and conflict strategy.                                        *)
(*                                                                         *)
(* Two facts carry the proofs.  What a walk or a record saw on a side is   *)
(* still there, or was removed by the user or by a run that followed the   *)
(* user (RecordsExisted).  And what a walk did not see is still absent     *)
(* when the path's turn comes, unless the user touched the path            *)
(* (AbsenceHolds).                                                         *)
(*                                                                         *)
(* Two more carry what is said of contents.  An mtime is worn by the       *)
(* content written at it, or history knows that a run moved it, so that    *)
(* an unchanged file is one the other side has seen (Stamped, Apart,       *)
(* RecordsSynced).  And every visit leaves its path alike on both sides    *)
(* and in its record (VisitedAlike, VisitsMatch).                          *)
(***************************************************************************)
EXTENDS BidirSync, TLAPS

\* The file is there, or was removed and not written since.
Existed(side, p) == fs[side][p] # None \/ <<side, p>> \in removed

\* What walks and records saw existed.
RecordsExisted ==
    \A side \in Sides, p \in Paths :
        /\ walked[side][p] # None => Existed(side, p)
        /\ stored[p] # None /\ stored[p][side] # None => Existed(side, p)
        /\ newState[p] # None /\ newState[p][side] # None => Existed(side, p)

\* The side was walked and the path not visited yet.
Pending(side, p) == \/ phase = "walkDst" /\ side = "src"
                    \/ phase \in {"moveSrc", "moveDst"}
                    \/ phase = "files" /\ p \in todo

\* What a walk did not see is absent until the path's turn comes.
AbsenceHolds ==
    \A side \in Sides, p \in Paths :
        Pending(side, p) /\ walked[side][p] = None => fs[side][p] = None \/ p \in touched

\* What was known when the action under way was chosen.
Justified(p, action) ==
    LET from == Other(Target(action)) IN
    IF IsCopy(action) THEN walked[from][p] # None
    ELSE walked[from][p] = None /\ stored[p] # None /\ stored[p][from] # None

\* The action under way is one of the run's visits, and was justified.
CursorHolds ==
    cur # None => /\ phase = "files" /\ cur.path \in todo
                  /\ Justified(cur.path, cur.action)

\* The file a copy is about to replace was backed up.
VictimSaved ==
    cur # None /\ IsCopy(cur.action) =>
        LET victim == fs[Target(cur.action)][cur.path] IN
        victim # None => victim.data \in backups \/ cur.path \in touched

\* The inductive invariant of types, backups and deletes.
RunInv == TypeOK /\ RecordsExisted /\ AbsenceHolds /\ CursorHolds /\ VictimSaved

-----------------------------------------------------------------------------
(* The operators of the engine. *)

\* A walk's metadata is that of the file, and there if the file is.
LEMMA MetaTyped ==
    ASSUME NEW e \in Entry \cup {None}
    PROVE  /\ MetaOf(e) \in Meta \cup {None}
           /\ MetaOf(e) = None <=> e = None
BY NoneAssumption DEF MetaOf, Entry, Meta

\* Both sides of a record are metadata.
LEMMA RecordTyped ==
    ASSUME NEW src \in Meta \cup {None}, NEW dst \in Meta \cup {None},
           NEW checksum \in 1..MaxClock \cup {None}
    PROVE  /\ Record(src, dst, checksum) \in StoredFileState
           /\ Record(src, dst, checksum)["src"] = src
           /\ Record(src, dst, checksum)["dst"] = dst
BY DEF Record, StoredFileState

\* The sides, and the side an action changes (the cases of syncBidirectional).
LEMMA SidesTyped ==
    /\ \A side \in Sides : Other(side) \in Sides /\ Other(side) # side /\ Other(Other(side)) = side
    /\ \A action : Target(action) \in Sides
BY DEF Sides, Other, Target

\* A checksum the engine has of a path is one of a content.
LEMMA ChecksumTyped ==
    ASSUME TypeOK, NEW p \in Paths
    PROVE  /\ KnownChecksum(p) \in 1..MaxClock \cup {None}
           /\ Backfill(p) \in 1..MaxClock \cup {None}
<1>1. KnownChecksum(p) \in 1..MaxClock \cup {None}
  <2>1. stored[p] # None => stored[p].checksum \in 1..MaxClock \cup {None}
    BY DEF TypeOK, StoredFileState
  <2> QED BY <2>1 DEF TypeOK, KnownChecksum
<1>2. Backfill(p) \in 1..MaxClock \cup {None}
  <2>1. fs["src"][p] # None => fs["src"][p].data \in 1..MaxClock
    BY DEF TypeOK, Sides, Entry
  <2> DEFINE equal == fs["src"][p] # None /\ Backfill(p) = fs["src"][p].data
  <2>2. Backfill(p) = None \/ equal
    BY DEF Backfill
  <2> QED BY <2>1, <2>2
<1> QED BY <1>1, <1>2

\* A copy is chosen where there is something to copy; a delete where the file
\* is absent from the side that the record says it was on (resolveAction).
LEMMA Decision ==
    ASSUME TypeOK, NEW p \in Paths, ActionFor(p) # "skip"
    PROVE  ActionFor(p) \in Actions /\ Justified(p, ActionFor(p))
<1>1. \A entry, prev, side : fileChanged(entry, prev, side) => entry # None
  BY DEF fileChanged
<1> DEFINE src == walked["src"][p]
           dst == walked["dst"][p]
           resolved == Resolved(p)
<1>2. /\ resolved \in {"skip", "conflict"} \cup Actions
      /\ resolved = "conflict" => src # None /\ dst # None
      /\ resolved \in Actions => Justified(p, resolved)
  BY <1>1 DEF Resolved, resolveAction, Actions, Justified, IsCopy, Target, Other
<1>3. CASE resolved = "conflict"
  BY <1>2, <1>3 DEF ActionFor, resolveConflict, Actions, Justified, IsCopy, Target, Other
<1>4. CASE resolved # "conflict"
  BY <1>2, <1>4 DEF ActionFor
<1> QED BY <1>3, <1>4

\* A rename to replay leads from a path the mirror alone has to one it has not.
LEMMA MovesTyped ==
    ASSUME TypeOK, NEW side \in Sides, NEW m \in Moves(side)
    PROVE  /\ m[1] \in Paths /\ m[2] \in Paths
           /\ walked[side][m[1]] = None /\ walked[Other(side)][m[1]] # None
           /\ walked[side][m[2]] # None /\ walked[Other(side)][m[2]] = None
BY DEF Moves, MissingFrom, AddedOn

\* A file or its metadata under another mtime.
LEMMA Restamping ==
    ASSUME NEW t \in 1..MaxClock
    PROVE  /\ \A e \in Entry : [e EXCEPT !.mtimeMs = t] \in Entry
           /\ \A e \in Meta : [e EXCEPT !.mtimeMs = t] \in Meta
<1>1. ASSUME NEW e \in Entry PROVE [e EXCEPT !.mtimeMs = t] \in Entry
  BY ConfigAssumption DEF Entry
<1>2. ASSUME NEW e \in Meta PROVE [e EXCEPT !.mtimeMs = t] \in Meta
  BY ConfigAssumption DEF Meta
<1> QED BY <1>1, <1>2, Zenon

\* What the renames leave of a map: the new paths have a file, the old ones
\* none, the others what they had (detectSideMoves).
LEMMA RenamedMap ==
    ASSUME TypeOK, NEW side \in Sides, NEW ms \in SUBSET Moves(side),
           NEW T \in {Entry, Meta}, NEW f \in [Paths -> T \cup {None}],
           \A m \in ms : f[m[1]] # None
    PROVE  /\ AfterMoves(side, ms, f) \in [Paths -> T \cup {None}]
           /\ \A p \in Paths :
                  /\ AfterMoves(side, ms, f)[p] = None <=>
                        ~(\E m \in ms : m[2] = p) /\ (f[p] = None \/ \E m \in ms : m[1] = p)
                  /\ ~(\E m \in ms : m[1] = p \/ m[2] = p) => AfterMoves(side, ms, f)[p] = f[p]
<1> DEFINE g == AfterMoves(side, ms, f)
<1>1. ASSUME NEW p \in Paths, \E m \in ms : m[2] = p
      PROVE  g[p] \in T
  <2> DEFINE pair == CHOOSE m \in ms : m[2] = p
  <2>1. pair \in ms /\ pair[2] = p
    BY <1>1
  <2>2. g[p] = [f[pair[1]] EXCEPT !.mtimeMs = walked[side][p].mtimeMs]
    BY <1>1, Zenon DEF AfterMoves
  <2> HIDE DEF pair
  <2>3. pair \in Moves(side) /\ pair[1] \in Paths /\ walked[side][p] \in Meta
    BY <2>1, MovesTyped DEF TypeOK
  <2>4. f[pair[1]] \in T /\ walked[side][p].mtimeMs \in 1..MaxClock
    BY <2>1, <2>3 DEF Meta
  <2> HIDE DEF g
  <2> DEFINE old == f[pair[1]]
             new == [old EXCEPT !.mtimeMs = walked[side][p].mtimeMs]
  <2>5. (old \in Entry => new \in Entry) /\ (old \in Meta => new \in Meta)
    BY <2>4, Restamping, Zenon
  <2> HIDE DEF new
  <2>6. g[p] = new
    BY <2>2, Zenon DEF new
  <2> QED BY <2>4, <2>5, <2>6
<1>2. ASSUME NEW p \in Paths, ~(\E m \in ms : m[2] = p)
      PROVE  g[p] = IF \E m \in ms : m[1] = p THEN None ELSE f[p]
  BY <1>2 DEF AfterMoves
<1>3. None \notin T
  BY NoneAssumption
<1>4. \A p \in Paths : g[p] \in T \cup {None}
  BY <1>1, <1>2
<1>5. g = [p \in Paths |-> g[p]]
  BY DEF AfterMoves
<1>6. g \in [Paths -> T \cup {None}]
  BY <1>4, <1>5
<1> QED BY <1>1, <1>2, <1>3, <1>6

-----------------------------------------------------------------------------
(* Types. *)

\* What a step that leaves the disk's types alone adds to history.
LEMMA LossTyped ==
    ASSUME TypeOK, NEW e \in Entry \cup {None}, NEW p, NEW why \in {"conflict", "change"}
    PROVE  Loss(e, p, why) \subseteq [data : 1..MaxClock, why : {"conflict", "race", "misrecorded", "clean"}]
BY DEF Loss, Why, Entry

\* What history keeps of an mtime that moved to another content.
LEMMA RestampedTyped ==
    ASSUME NEW e \in Entry \cup {None} PROVE RestampedBy(e) \subseteq 1..MaxClock
BY DEF RestampedBy, Entry

\* The injected faults stay within their bound.
LEMMA FaultTyped ==
    ASSUME TypeOK, NEW kind, Fault(kind) PROVE faults' \in 0..MaxFaults
BY ConfigAssumption DEF Fault, TypeOK

\* What is left of a run that is over (EndRun).
LEMMA EndRunTyped ==
    ASSUME EndRun
    PROVE  /\ phase' \in Phases /\ todo' \subseteq Paths /\ cur' = None /\ aborted' \in BOOLEAN
           /\ walked' \in [Sides -> [Paths -> Meta \cup {None}]]
           /\ moved' \in [Paths -> 1..MaxClock \cup {None}]
           /\ newState' \in [Paths -> StoredFileState \cup {None}]
           /\ newMisrecorded' = {}
BY DEF EndRun, Phases, NoFiles

\* The user leaves the run, its records and what it backed up alone.
LEMMA UserKeeps ==
    ASSUME User
    PROVE  UNCHANGED <<stored, phase, walked, todo, cur, newState, backups, lost>> /\ touched \subseteq touched'
<1>1. ASSUME NEW side \in Sides, NEW p \in Paths, UserWrite(side, p)
      PROVE  UNCHANGED <<stored, phase, walked, todo, cur, newState, backups, lost>> /\ touched \subseteq touched'
  BY <1>1 DEF UserWrite, runv
<1>2. ASSUME NEW side \in Sides, NEW p \in Paths, UserDelete(side, p)
      PROVE  UNCHANGED <<stored, phase, walked, todo, cur, newState, backups, lost>> /\ touched \subseteq touched'
  BY <1>2 DEF UserDelete, runv
<1>3. ASSUME NEW side \in Sides, NEW p \in Paths, NEW q \in Paths, UserRename(side, p, q)
      PROVE  UNCHANGED <<stored, phase, walked, todo, cur, newState, backups, lost>> /\ touched \subseteq touched'
  BY <1>3 DEF UserRename, runv
<1> QED BY <1>1, <1>2, <1>3 DEF User

\* What the user changes is touched.
LEMMA UserTouches ==
    ASSUME TypeOK, User
    PROVE  \A at \in Sides, q \in Paths : fs'[at][q] = fs[at][q] \/ q \in touched'
<1>1. ASSUME NEW side \in Sides, NEW p \in Paths, UserWrite(side, p) \/ UserDelete(side, p)
      PROVE  \A at \in Sides, q \in Paths : fs'[at][q] = fs[at][q] \/ q \in touched'
  BY <1>1 DEF UserWrite, UserDelete, TypeOK
<1>2. ASSUME NEW side \in Sides, NEW p \in Paths, NEW q \in Paths, UserRename(side, p, q)
      PROVE  \A at \in Sides, r \in Paths : fs'[at][r] = fs[at][r] \/ r \in touched'
  BY <1>2 DEF UserRename, TypeOK
<1> QED BY <1>1, <1>2 DEF User

\* The user's steps (an edit is a fresh content).
LEMMA UserTypes == ASSUME TypeOK, User PROVE TypeOK'
<1> USE ConfigAssumption
<1>1. ASSUME NEW side \in Sides, NEW p \in Paths, UserWrite(side, p) PROVE TypeOK'
  <2>1. clock' \in 0..MaxClock /\ Stamp(clock + 1) \in Entry
    BY <1>1 DEF UserWrite, TypeOK, Stamp, Entry
  <2> QED BY <1>1, <2>1 DEF UserWrite, TypeOK, runv
<1>2. ASSUME NEW side \in Sides, NEW p \in Paths, UserDelete(side, p) PROVE TypeOK'
  <2>1. clock' \in 0..MaxClock
    BY <1>2 DEF UserDelete, TypeOK
  <2> QED BY <1>2, <2>1 DEF UserDelete, TypeOK, runv
<1>3. ASSUME NEW side \in Sides, NEW p \in Paths, NEW q \in Paths, UserRename(side, p, q) PROVE TypeOK'
  <2>1. clock' \in 0..MaxClock
    BY <1>3 DEF UserRename, TypeOK
  <2> QED BY <1>3, <2>1 DEF UserRename, TypeOK, runv
<1> QED BY <1>1, <1>2, <1>3 DEF User

\* A run begins, walks and ends.
LEMMA WalkTypes == ASSUME TypeOK, StartRun \/ WalkDst \/ Finish \/ Cancel \/ Abort \/ Crash PROVE TypeOK'
<1> USE ConfigAssumption
<1>0. \A side \in Sides : [p \in Paths |-> MetaOf(fs[side][p])] \in [Paths -> Meta \cup {None}]
  BY MetaTyped DEF TypeOK
<1>1. CASE StartRun
  BY <1>0, <1>1 DEF StartRun, TypeOK, Phases, Sides
<1>2. CASE WalkDst
  BY <1>0, <1>2 DEF WalkDst, TypeOK, Phases, Sides, AllPaths, ghosts
<1>3. CASE Finish
  BY <1>3, EndRunTyped DEF Finish, TypeOK
<1>4. CASE Cancel
  BY <1>4, FaultTyped DEF Cancel, TypeOK, disk, ghosts
<1>5. CASE Abort
  BY <1>5, EndRunTyped DEF Abort, RunThrows, TypeOK
<1>6. CASE Crash
  BY <1>6, EndRunTyped, FaultTyped DEF Crash, RunThrows, TypeOK
<1> QED BY <1>1, <1>2, <1>3, <1>4, <1>5, <1>6

\* The renames of one side, complete or not (detectSideMoves).
LEMMA MovesTypes ==
    ASSUME TypeOK, DetectSrcMoves \/ DetectDstMoves \/ MovesFail PROVE TypeOK'
<1>0. ASSUME NEW side \in Sides, NEW ms \in SUBSET Moves(side),
             \A m \in ms : fs[Other(side)][m[1]] # None,
             fs' = [fs EXCEPT ![Other(side)] = AfterMoves(side, ms, fs[Other(side)])]
      PROVE  /\ fs' \in [Sides -> [Paths -> Entry \cup {None}]]
             /\ RemovedBy(side, ms) \subseteq Sides \X Paths
             /\ OverwrittenBy(side, ms) \subseteq [data : 1..MaxClock, why : {"conflict", "race", "misrecorded", "clean"}]
             /\ UNION {RestampedBy(fs'[Other(side)][p]) : p \in Paths} \subseteq 1..MaxClock
  <2>1. \A m \in ms : m[1] \in Paths /\ m[2] \in Paths
    BY MovesTyped
  <2>2. fs[Other(side)] \in [Paths -> Entry \cup {None}]
    BY SidesTyped DEF TypeOK
  <2>3. AfterMoves(side, ms, fs[Other(side)]) \in [Paths -> Entry \cup {None}]
    BY <1>0, <2>2, RenamedMap
  <2>4. fs' \in [Sides -> [Paths -> Entry \cup {None}]]
    BY <1>0, <2>3, SidesTyped DEF TypeOK
  <2>5. RemovedBy(side, ms) \subseteq Sides \X Paths
    BY <2>1, SidesTyped DEF RemovedBy, TypeOK
  <2>6. \A m \in ms : Loss(fs[Other(side)][m[2]], m[2], "change")
                        \subseteq [data : 1..MaxClock, why : {"conflict", "race", "misrecorded", "clean"}]
    BY <2>1, <2>2, LossTyped
  <2>7. \A p \in Paths : RestampedBy(fs'[Other(side)][p]) \subseteq 1..MaxClock
    BY <2>4, SidesTyped, RestampedTyped
  <2> QED BY <2>4, <2>5, <2>6, <2>7 DEF OverwrittenBy
<1>1. ASSUME NEW side \in Sides, DetectSideMoves(side), phase' \in Phases, todo' \subseteq Paths
      PROVE  TypeOK'
  <2> DEFINE ms == Moves(side)
  <2>1. \A m \in ms : fs[Other(side)][m[1]] # None
    BY <1>1 DEF DetectSideMoves, MovesComplete, Renamable
  <2>2. /\ fs' \in [Sides -> [Paths -> Entry \cup {None}]]
        /\ removed' \subseteq Sides \X Paths
        /\ lost' \subseteq [data : 1..MaxClock, why : {"conflict", "race", "misrecorded", "clean"}]
        /\ restamped' \subseteq 1..MaxClock
    BY <1>0, <1>1, <2>1, Zenon DEF DetectSideMoves, TypeOK
  <2>3. \A m \in ms : walked[Other(side)][m[1]] # None
    BY MovesTyped
  <2>4. AfterMoves(side, ms, walked[Other(side)]) \in [Paths -> Meta \cup {None}]
    <3> DEFINE w == walked[Other(side)]
    <3>1. w \in [Paths -> Meta \cup {None}] /\ \A m \in ms : w[m[1]] # None
      BY <2>3, SidesTyped DEF TypeOK
    <3> HIDE DEF w
    <3>2. AfterMoves(side, ms, w) \in [Paths -> Meta \cup {None}]
      BY <3>1, RenamedMap
    <3> QED BY <3>2 DEF w
  <2>5. walked' \in [Sides -> [Paths -> Meta \cup {None}]]
    BY <1>1, <2>4, SidesTyped DEF DetectSideMoves, TypeOK
  <2>6. ASSUME NEW m \in ms PROVE MovedChecksum(side, m[2]) \in 1..MaxClock
    <3>1. m[2] \in Paths /\ fs[side][m[2]] # None
      BY <1>1, <2>6, MovesTyped DEF DetectSideMoves, MovesComplete, HashThrows, Moves, AddedOn
    <3> QED BY <3>1 DEF TypeOK, MovedChecksum, AddedKey, Entry
  <2>7. moved' \in [Paths -> 1..MaxClock \cup {None}]
    BY <1>1, <2>6 DEF DetectSideMoves, TypeOK
  <2> QED BY <1>1, <2>2, <2>5, <2>7 DEF DetectSideMoves, TypeOK
<1>2. CASE DetectSrcMoves
  BY <1>1, <1>2 DEF DetectSrcMoves, Phases, Sides, TypeOK
<1>3. CASE DetectDstMoves
  BY <1>1, <1>3 DEF DetectDstMoves, Phases, Sides, AllPaths
<1>4. ASSUME NEW side \in Sides, MovesThrow(side) PROVE TypeOK'
  <2>1. PICK done \in SUBSET Renamable(side) :
            /\ fs' = [fs EXCEPT ![Other(side)] = AfterMoves(side, done, fs[Other(side)])]
            /\ lost' = lost \cup OverwrittenBy(side, done)
            /\ removed' = RemovedBy(side, done)
            /\ restamped' = restamped \cup UNION {RestampedBy(fs'[Other(side)][p]) : p \in Paths}
    BY <1>4 DEF MovesThrow
  <2>2. done \in SUBSET Moves(side) /\ \A m \in done : fs[Other(side)][m[1]] # None
    BY DEF Renamable
  <2>3. /\ fs' \in [Sides -> [Paths -> Entry \cup {None}]]
        /\ removed' \subseteq Sides \X Paths
        /\ lost' \subseteq [data : 1..MaxClock, why : {"conflict", "race", "misrecorded", "clean"}]
        /\ restamped' \subseteq 1..MaxClock
    BY <1>0, <2>1, <2>2 DEF TypeOK
  <2>4. EndRun /\ completed' = FALSE
        /\ UNCHANGED <<stored, clock, faults, backups, touched, misrecorded, propagated, settled>>
    BY <1>4 DEF MovesThrow
  <2> QED BY <2>3, <2>4, EndRunTyped DEF TypeOK
<1> QED BY <1>2, <1>3, <1>4 DEF MovesFail, Sides

\* What a visit leaves, given the record it makes.
LEMMA VisitedTyped ==
    ASSUME TypeOK, NEW p \in Paths, NEW src \in Meta \cup {None}, NEW dst \in Meta \cup {None},
           NEW checksum \in 1..MaxClock \cup {None}, Visited(p, src, dst, checksum)
    PROVE  /\ newState' \in [Paths -> StoredFileState \cup {None}]
           /\ todo' \subseteq Paths /\ cur' = None
           /\ UNCHANGED <<stored, phase, walked, moved, aborted, clock, backups, misrecorded, completed, settled>>
BY RecordTyped DEF Visited, TypeOK

\* The same for a visit whose copy or delete failed.
LEMMA VisitFailedTyped ==
    ASSUME TypeOK, NEW p \in Paths, VisitFailed(p)
    PROVE  /\ newState' \in [Paths -> StoredFileState \cup {None}]
           /\ todo' \subseteq Paths /\ cur' = None
           /\ UNCHANGED <<stored, phase, walked, moved, aborted, clock, backups, misrecorded, completed, settled>>
<1>1. walked["src"][p] \in Meta \cup {None} /\ walked["dst"][p] \in Meta \cup {None}
  BY DEF TypeOK, Sides
<1> QED BY <1>1, ChecksumTyped, VisitedTyped DEF VisitFailed

\* The copy of a file the walk saw is a file (transferFile).
LEMMA ReplaceTyped ==
    ASSUME TypeOK, NEW p \in Paths, NEW to \in Sides, cur # None,
           walked[Other(to)][p] # None, Replace(p, to)
    PROVE  /\ fs' \in [Sides -> [Paths -> Entry \cup {None}]]
           /\ fs'[to][p] # None
           /\ \A side \in Sides, q \in Paths : q # p \/ side # to => fs'[side][q] = fs[side][q]
           /\ lost' \subseteq [data : 1..MaxClock, why : {"conflict", "race", "misrecorded", "clean"}]
           /\ propagated' \subseteq 1..MaxClock /\ restamped' \subseteq 1..MaxClock
           /\ removed' \subseteq Sides \X Paths
<1>1. fs[Other(to)][p] \in Entry /\ walked[Other(to)][p] \in Meta
  BY SidesTyped DEF Replace, TypeOK
<1>2. Copied(Other(to), p) \in Entry
  BY <1>1 DEF Copied, Entry, Meta
<1>3. /\ fs' \in [Sides -> [Paths -> Entry \cup {None}]]
      /\ fs'[to][p] = Copied(Other(to), p)
      /\ \A side \in Sides, q \in Paths : q # p \/ side # to => fs'[side][q] = fs[side][q]
  BY <1>2 DEF Replace, TypeOK
<1>4. cur.why \in {"conflict", "change"} /\ fs[to][p] \in Entry \cup {None}
  BY DEF TypeOK, Cursor
<1>5. lost' \subseteq [data : 1..MaxClock, why : {"conflict", "race", "misrecorded", "clean"}]
  BY <1>4, LossTyped DEF Replace, TypeOK
<1>6. propagated' \subseteq 1..MaxClock
  BY <1>1 DEF Replace, TypeOK, Entry
<1>7. restamped' \subseteq 1..MaxClock
  BY <1>2, <1>3, RestampedTyped DEF Replace, TypeOK
<1>8. removed' \subseteq Sides \X Paths
  BY DEF Replace, TypeOK
<1> QED BY <1>2, <1>3, <1>5, <1>6, <1>7, <1>8, NoneAssumption

\* A visit of one path (the body of the loop of syncBidirectional).
LEMMA VisitTypes ==
    ASSUME TypeOK, CursorHolds, NEW p \in Paths
    PROVE  /\ Skip(p) \/ Choose(p) => TypeOK'
           /\ \A side \in Sides : Copy(p, side) \/ CopyFails(p, side) \/ VerifyFails(p, side) => TypeOK'
           /\ \A side \in Sides : Delete(p, side) \/ DeleteFails(p, side) => TypeOK'
<1>0. walked["src"][p] \in Meta \cup {None} /\ walked["dst"][p] \in Meta \cup {None}
  BY DEF TypeOK, Sides
<1>1. ASSUME Skip(p) PROVE TypeOK'
  <2> DEFINE checksum == IF KnownChecksum(p) # None THEN KnownChecksum(p) ELSE Backfill(p)
  <2>1. checksum \in 1..MaxClock \cup {None}
    BY ChecksumTyped
  <2>2. newState' \in [Paths -> StoredFileState \cup {None}] /\ todo' \subseteq Paths
    BY <1>0, <1>1, <2>1, RecordTyped DEF Skip, TypeOK
  <2> QED BY <1>1, <2>2 DEF Skip, TypeOK, disk, ghosts
<1>2. ASSUME Choose(p) PROVE TypeOK'
  <2>1. cur' \in Cursor
    BY <1>2, Decision DEF Choose, Cursor
  <2>2. backups' \subseteq 1..MaxClock
    <3> DEFINE victim == fs[Victim(ActionFor(p))][p]
               content == victim.data
    <3>1. victim # None => content \in 1..MaxClock
      BY SidesTyped DEF Victim, TypeOK, Entry
    <3>2. backups' = backups \/ (victim # None /\ backups' = backups \cup {content})
      BY <1>2 DEF Choose
    <3>3. backups \subseteq 1..MaxClock
      BY DEF TypeOK
    <3> HIDE DEF victim, content
    <3> QED BY <3>1, <3>2, <3>3
  <2>3. faults' \in 0..MaxFaults /\ touched' \subseteq Paths
    BY <1>2, FaultTyped DEF Choose, TypeOK
  <2> QED BY <1>2, <2>1, <2>2, <2>3 DEF Choose, TypeOK, disk
<1>3. ASSUME NEW side \in Sides, Copy(p, side) PROVE TypeOK'
  <2>1. walked[Other(side)][p] # None
    BY <1>3 DEF Copy, CursorHolds, Justified
  <2>2. walked[Other(side)][p] \in Meta \cup {None}
    BY SidesTyped DEF TypeOK
  <2>3. (IF Encrypted THEN KnownChecksum(p) ELSE fs[Other(side)][p].data) \in 1..MaxClock \cup {None}
    <3>1. fs[Other(side)][p] \in Entry
      BY <1>3, SidesTyped DEF Copy, Replace, TypeOK
    <3> QED BY <3>1, ChecksumTyped DEF Entry
  <2>4. Replace(p, side) /\ cur # None
        /\ Visited(p, walked[Other(side)][p], walked[Other(side)][p],
                   IF Encrypted THEN KnownChecksum(p) ELSE fs[Other(side)][p].data)
        /\ newMisrecorded' = newMisrecorded \ {p} /\ UNCHANGED <<faults, touched>>
    BY <1>3 DEF Copy
  <2>5. /\ newState' \in [Paths -> StoredFileState \cup {None}]
        /\ todo' \subseteq Paths /\ cur' = None
        /\ UNCHANGED <<stored, phase, walked, moved, aborted, clock, backups, misrecorded, completed, settled>>
    BY <2>2, <2>3, <2>4, VisitedTyped
  <2>6. /\ fs' \in [Sides -> [Paths -> Entry \cup {None}]]
        /\ lost' \subseteq [data : 1..MaxClock, why : {"conflict", "race", "misrecorded", "clean"}]
        /\ propagated' \subseteq 1..MaxClock /\ restamped' \subseteq 1..MaxClock
        /\ removed' \subseteq Sides \X Paths
    BY <2>1, <2>4, ReplaceTyped
  <2> QED BY <2>4, <2>5, <2>6 DEF TypeOK
<1>4. ASSUME NEW side \in Sides, CopyFails(p, side) PROVE TypeOK'
  BY <1>4, VisitFailedTyped, FaultTyped DEF CopyFails, TypeOK
<1>5. ASSUME NEW side \in Sides, VerifyFails(p, side) PROVE TypeOK'
  <2>1. walked[Other(side)][p] # None
    BY <1>5 DEF VerifyFails, CursorHolds, Justified
  <2>2. /\ Replace(p, side) /\ cur # None /\ VisitFailed(p)
        /\ newMisrecorded' = newMisrecorded \cup {p} /\ touched' = touched \cup {p}
    BY <1>5 DEF VerifyFails
  <2>3. faults' \in 0..MaxFaults
    BY <1>5, FaultTyped DEF VerifyFails, TypeOK
  <2> QED BY <2>1, <2>2, <2>3, ReplaceTyped, VisitFailedTyped DEF TypeOK
<1>6. ASSUME NEW side \in Sides, Delete(p, side) PROVE TypeOK'
  <2>1. fs' \in [Sides -> [Paths -> Entry \cup {None}]]
    BY <1>6 DEF Delete, TypeOK
  <2>2. fs[side][p] \in Entry
    BY <1>6 DEF Delete, TypeOK
  <2>3. lost' \subseteq [data : 1..MaxClock, why : {"conflict", "race", "misrecorded", "clean"}]
    <3>1. cur.why \in {"conflict", "change"}
      BY <1>6 DEF Delete, TypeOK, Cursor
    <3> QED BY <1>6, <2>2, <3>1, LossTyped DEF Delete, TypeOK
  <2>4. newState' \in [Paths -> StoredFileState \cup {None}]
    <3> DEFINE record == Record(IF side = "src" THEN None ELSE walked["src"][p],
                                IF side = "dst" THEN None ELSE walked["dst"][p], KnownChecksum(p))
    <3>1. record \in StoredFileState
      BY <1>0, ChecksumTyped, RecordTyped
    <3>2. newState' = [newState EXCEPT ![p] = record]
      BY <1>6 DEF Delete
    <3> HIDE DEF record
    <3> QED BY <3>1, <3>2 DEF TypeOK
  <2>5. backups' \subseteq 1..MaxClock
    BY <1>6, <2>2 DEF Delete, TypeOK, Entry
  <2>6. removed' \subseteq Sides \X Paths
    BY <1>6 DEF Delete, TypeOK
  <2> QED BY <1>6, <2>1, <2>3, <2>4, <2>5, <2>6 DEF Delete, TypeOK
<1>7. ASSUME NEW side \in Sides, DeleteFails(p, side) PROVE TypeOK'
  BY <1>7, VisitFailedTyped, FaultTyped DEF DeleteFails, TypeOK
<1> QED BY <1>1, <1>2, <1>3, <1>4, <1>5, <1>6, <1>7

\* Every step keeps the types, if an action under way has its reason.
LEMMA TypeStep == ASSUME TypeOK, CursorHolds, [Next]_vars PROVE TypeOK'
<1>1. CASE UNCHANGED vars
  BY <1>1 DEF vars, TypeOK
<1> QED BY <1>1, UserTypes, WalkTypes, MovesTypes, VisitTypes DEF Next, Engine

-----------------------------------------------------------------------------
(* What was seen is there or was removed. *)

\* The renames replayed on the mirror of a side, on disk and in history.
LEMMA Renamed ==
    ASSUME TypeOK, NEW side \in Sides, NEW ms \in SUBSET Moves(side),
           \A m \in ms : fs[Other(side)][m[1]] # None,
           fs' = [fs EXCEPT ![Other(side)] = AfterMoves(side, ms, fs[Other(side)])],
           removed' = RemovedBy(side, ms)
    PROVE  /\ \A p \in Paths : fs'[side][p] = fs[side][p]
           /\ \A p \in Paths : fs'[Other(side)][p] = None <=>
                    ~(\E m \in ms : m[2] = p) /\ (fs[Other(side)][p] = None \/ \E m \in ms : m[1] = p)
           /\ \A at \in Sides, p \in Paths : Existed(at, p) => Existed(at, p)'
<1>1. fs[Other(side)] \in [Paths -> Entry \cup {None}] /\ Other(side) # side
  BY SidesTyped DEF TypeOK
<1>2. fs'[Other(side)] = AfterMoves(side, ms, fs[Other(side)]) /\ fs'[side] = fs[side]
  BY <1>1, SidesTyped DEF TypeOK
<1>3. \A p \in Paths : fs'[Other(side)][p] = None <=>
            ~(\E m \in ms : m[2] = p) /\ (fs[Other(side)][p] = None \/ \E m \in ms : m[1] = p)
  <2> DEFINE f == fs[Other(side)]
  <2>1. f \in [Paths -> Entry \cup {None}] /\ \A m \in ms : f[m[1]] # None
    BY <1>1
  <2> HIDE DEF f
  <2>2. \A p \in Paths : AfterMoves(side, ms, f)[p] = None <=>
            ~(\E m \in ms : m[2] = p) /\ (f[p] = None \/ \E m \in ms : m[1] = p)
    BY <2>1, RenamedMap
  <2> QED BY <1>2, <2>2 DEF f
<1>4. ASSUME NEW p \in Paths, Existed(side, p) PROVE Existed(side, p)'
  BY <1>1, <1>2, <1>4 DEF Existed, RemovedBy
<1>5. ASSUME NEW p \in Paths, Existed(Other(side), p) PROVE Existed(Other(side), p)'
  BY <1>3, <1>5 DEF Existed, RemovedBy
<1>6. \A at \in Sides : at = side \/ at = Other(side)
  BY DEF Sides, Other
<1> QED BY <1>2, <1>3, <1>4, <1>5, <1>6

\* The same of a whole step, complete or ended by an exception.
LEMMA MovesRename ==
    ASSUME TypeOK, NEW side \in Sides, DetectSideMoves(side) \/ MovesThrow(side)
    PROVE  \E ms \in SUBSET Moves(side) :
               /\ \A m \in ms : fs[Other(side)][m[1]] # None
               /\ fs' = [fs EXCEPT ![Other(side)] = AfterMoves(side, ms, fs[Other(side)])]
               /\ removed' = RemovedBy(side, ms)
               /\ lost' = lost \cup OverwrittenBy(side, ms)
               /\ restamped' = restamped \cup UNION {RestampedBy(fs'[Other(side)][p]) : p \in Paths}
<1>1. CASE DetectSideMoves(side)
  BY <1>1 DEF DetectSideMoves, MovesComplete, Renamable
<1>2. CASE MovesThrow(side)
  <2>1. PICK done \in SUBSET Renamable(side) :
            /\ fs' = [fs EXCEPT ![Other(side)] = AfterMoves(side, done, fs[Other(side)])]
            /\ lost' = lost \cup OverwrittenBy(side, done)
            /\ removed' = RemovedBy(side, done)
            /\ restamped' = restamped \cup UNION {RestampedBy(fs'[Other(side)][p]) : p \in Paths}
    BY <1>2 DEF MovesThrow
  <2>2. done \in SUBSET Moves(side) /\ \A m \in done : fs[Other(side)][m[1]] # None
    BY DEF Renamable
  <2> QED BY <1>2, <2>1, <2>2
<1> QED BY <1>1, <1>2

\* Disk and walked metadata change together (detectSideMoves).
LEMMA MovesDone ==
    ASSUME TypeOK, NEW side \in Sides, DetectSideMoves(side)
    PROVE  LET mirror == Other(side) IN
           /\ \A p \in Paths : walked'[side][p] = walked[side][p] /\ fs'[side][p] = fs[side][p]
           /\ \A p \in Paths : walked'[mirror][p] # None => walked[mirror][p] # None \/ fs'[mirror][p] # None
           /\ \A p \in Paths : walked'[mirror][p] = None =>
                    fs'[mirror][p] = None \/ (walked[mirror][p] = None /\ fs'[mirror][p] = fs[mirror][p])
<1> DEFINE mirror == Other(side)
<1>1. PICK ms \in SUBSET Moves(side) :
          /\ \A m \in ms : fs[mirror][m[1]] # None
          /\ fs' = [fs EXCEPT ![mirror] = AfterMoves(side, ms, fs[mirror])]
          /\ removed' = RemovedBy(side, ms)
          /\ walked' = [walked EXCEPT ![mirror] = AfterMoves(side, ms, walked[mirror])]
  BY DEF DetectSideMoves, MovesComplete, Renamable
<1>2. walked[mirror] \in [Paths -> Meta \cup {None}] /\ fs[mirror] \in [Paths -> Entry \cup {None}]
  BY SidesTyped DEF TypeOK
<1>3. \A m \in ms : walked[mirror][m[1]] # None
  BY MovesTyped
<1>4. \A p \in Paths : AfterMoves(side, ms, walked[mirror])[p] = None <=>
            ~(\E m \in ms : m[2] = p) /\ (walked[mirror][p] = None \/ \E m \in ms : m[1] = p)
  BY <1>2, <1>3, RenamedMap
<1>5. /\ \A p \in Paths : AfterMoves(side, ms, fs[mirror])[p] = None <=>
            ~(\E m \in ms : m[2] = p) /\ (fs[mirror][p] = None \/ \E m \in ms : m[1] = p)
      /\ \A p \in Paths : ~(\E m \in ms : m[1] = p \/ m[2] = p)
            => AfterMoves(side, ms, fs[mirror])[p] = fs[mirror][p]
  <2>1. fs[mirror] \in [Paths -> Entry \cup {None}] /\ \A m \in ms : fs[mirror][m[1]] # None
    BY <1>1, <1>2
  <2>2. \A p \in Paths : AfterMoves(side, ms, fs[mirror])[p] = None <=>
            ~(\E m \in ms : m[2] = p) /\ (fs[mirror][p] = None \/ \E m \in ms : m[1] = p)
    BY <2>1, RenamedMap
  <2>3. \A p \in Paths : ~(\E m \in ms : m[1] = p \/ m[2] = p)
            => AfterMoves(side, ms, fs[mirror])[p] = fs[mirror][p]
    BY DEF AfterMoves
  <2> QED BY <2>2, <2>3
<1>6. /\ walked'[side] = walked[side] /\ walked'[mirror] = AfterMoves(side, ms, walked[mirror])
      /\ fs'[side] = fs[side] /\ fs'[mirror] = AfterMoves(side, ms, fs[mirror])
  BY <1>1, SidesTyped DEF TypeOK
<1>7. ASSUME NEW p \in Paths
      PROVE  walked'[mirror][p] # None => walked[mirror][p] # None \/ fs'[mirror][p] # None
  BY <1>4, <1>5, <1>6
<1>8. ASSUME NEW p \in Paths, walked'[mirror][p] = None
      PROVE  fs'[mirror][p] = None \/ (walked[mirror][p] = None /\ fs'[mirror][p] = fs[mirror][p])
  BY <1>4, <1>5, <1>6, <1>8
<1> QED BY <1>6, <1>7, <1>8

\* A file that was seen stays in evidence: it is there, or history has its removal.
LEMMA ExistedStable ==
    ASSUME TypeOK, CursorHolds, [Next]_vars
    PROVE  \A side \in Sides, p \in Paths : Existed(side, p) => Existed(side, p)'
<1>1. ASSUME fs' = fs, removed' = removed
      PROVE  \A side \in Sides, p \in Paths : Existed(side, p) => Existed(side, p)'
  BY <1>1 DEF Existed
<1>2. CASE User
  <2>1. ASSUME NEW side \in Sides, NEW p \in Paths, UserWrite(side, p)
        PROVE  \A at \in Sides, q \in Paths : Existed(at, q) => Existed(at, q)'
    <3>1. Stamp(clock + 1) # None
      BY <2>1, NoneAssumption, ConfigAssumption DEF Stamp, UserWrite, TypeOK, Entry
    <3> QED BY <2>1, <3>1 DEF UserWrite, Existed, TypeOK
  <2>2. ASSUME NEW side \in Sides, NEW p \in Paths, UserDelete(side, p)
        PROVE  \A at \in Sides, q \in Paths : Existed(at, q) => Existed(at, q)'
    BY <2>2 DEF UserDelete, Existed, TypeOK
  <2>3. ASSUME NEW side \in Sides, NEW p \in Paths, NEW q \in Paths, UserRename(side, p, q)
        PROVE  \A at \in Sides, r \in Paths : Existed(at, r) => Existed(at, r)'
    BY <2>3 DEF UserRename, Existed, TypeOK
  <2> QED BY <1>2, <2>1, <2>2, <2>3 DEF User
<1>3. CASE DetectSrcMoves \/ DetectDstMoves \/ MovesFail
  <2>1. PICK side \in Sides : DetectSideMoves(side) \/ MovesThrow(side)
    BY <1>3 DEF DetectSrcMoves, DetectDstMoves, MovesFail, Sides
  <2> QED BY <2>1, MovesRename, Renamed
<1>4. ASSUME NEW p \in Paths, NEW side \in Sides, Copy(p, side) \/ VerifyFails(p, side)
      PROVE  \A at \in Sides, q \in Paths : Existed(at, q) => Existed(at, q)'
  <2>1. Replace(p, side) /\ cur # None /\ walked[Other(side)][p] # None
    BY <1>4 DEF Copy, VerifyFails, CursorHolds, Justified
  <2>2. /\ fs'[side][p] # None
        /\ \A at \in Sides, q \in Paths : q # p \/ at # side => fs'[at][q] = fs[at][q]
    BY <2>1, ReplaceTyped
  <2>3. removed' = removed \ {<<side, p>>}
    BY <2>1 DEF Replace
  <2> QED BY <2>2, <2>3 DEF Existed
<1>5. ASSUME NEW p \in Paths, NEW side \in Sides, Delete(p, side)
      PROVE  \A at \in Sides, q \in Paths : Existed(at, q) => Existed(at, q)'
  BY <1>5 DEF Delete, Existed, TypeOK
<1>6. ASSUME NEW p \in Paths, NEW side \in Sides, CopyFails(p, side) \/ DeleteFails(p, side)
      PROVE  fs' = fs /\ removed' = removed
  BY <1>6 DEF CopyFails, DeleteFails
<1>7. ASSUME NEW p \in Paths, Skip(p) \/ Choose(p) PROVE fs' = fs /\ removed' = removed
  BY <1>7 DEF Skip, Choose, disk, ghosts
<1>8. CASE StartRun \/ WalkDst \/ Finish \/ Cancel \/ Abort \/ Crash \/ UNCHANGED vars
  BY <1>1, <1>8 DEF StartRun, WalkDst, Finish, Cancel, Abort, Crash, RunThrows, disk, ghosts, vars
<1> QED BY <1>1, <1>2, <1>3, <1>4, <1>5, <1>6, <1>7, <1>8 DEF Next, Engine

\* Every walk, rename and record is of files that were there (newState of each visit).
LEMMA RecordsStep ==
    ASSUME TypeOK, CursorHolds, RecordsExisted, [Next]_vars PROVE RecordsExisted'
<1>1. \A side \in Sides, p \in Paths : Existed(side, p) => Existed(side, p)'
  BY ExistedStable
<1>2. ASSUME UNCHANGED <<walked, stored, newState>> PROVE RecordsExisted'
  BY <1>1, <1>2 DEF RecordsExisted
<1>3. ASSUME EndRun, stored' = stored \/ stored' = newState PROVE RecordsExisted'
  <2>1. \A side \in Sides, p \in Paths : walked'[side][p] = None /\ newState'[p] = None
    BY <1>3 DEF EndRun, NoFiles
  <2>2. \A side \in Sides, p \in Paths :
            stored'[p] # None /\ stored'[p][side] # None => Existed(side, p)
    BY <1>3 DEF RecordsExisted
  <2> QED BY <1>1, <2>1, <2>2 DEF RecordsExisted
<1>4. CASE StartRun \/ WalkDst
  <2>1. \A side \in Sides, p \in Paths :
            walked'[side][p] # None => walked[side][p] # None \/ fs[side][p] # None
    BY <1>4, MetaTyped DEF StartRun, WalkDst, TypeOK, Sides
  <2>2. stored' = stored /\ newState' = newState
    BY <1>4 DEF StartRun, WalkDst
  <2> QED BY <1>1, <2>1, <2>2 DEF RecordsExisted, Existed
<1>5. ASSUME NEW side \in Sides, DetectSideMoves(side) PROVE RecordsExisted'
  <2> DEFINE mirror == Other(side)
  <2>1. /\ stored' = stored /\ newState' = newState
        /\ \A p \in Paths : walked'[side][p] = walked[side][p]
        /\ \A p \in Paths : walked'[mirror][p] # None => walked[mirror][p] # None \/ fs'[mirror][p] # None
    BY <1>5, MovesDone, Zenon DEF DetectSideMoves
  <2>2. \A at \in Sides : at = side \/ at = mirror
    BY DEF Sides, Other
  <2> QED BY <1>1, <2>1, <2>2 DEF RecordsExisted, Existed
<1>6. ASSUME NEW p \in Paths, NEW src \in Meta \cup {None}, NEW dst \in Meta \cup {None},
             NEW checksum \in 1..MaxClock \cup {None},
             newState' = [newState EXCEPT ![p] = Record(src, dst, checksum)],
             src # None => Existed("src", p)', dst # None => Existed("dst", p)',
             UNCHANGED <<walked, stored>>
      PROVE  RecordsExisted'
  <2>1. newState'[p] = Record(src, dst, checksum) /\ \A q \in Paths : q # p => newState'[q] = newState[q]
    BY <1>6 DEF TypeOK
  <2>2. \A side \in Sides : newState'[p][side] # None => Existed(side, p)'
    <3>1. newState'[p]["src"] = src /\ newState'[p]["dst"] = dst
      BY <2>1 DEF Record
    <3> QED BY <1>6, <3>1 DEF Sides
  <2> QED BY <1>1, <1>6, <2>1, <2>2 DEF RecordsExisted
<1>7. ASSUME NEW p \in Paths
      PROVE  /\ walked["src"][p] \in Meta \cup {None} /\ walked["dst"][p] \in Meta \cup {None}
             /\ walked["src"][p] # None => Existed("src", p)'
             /\ walked["dst"][p] # None => Existed("dst", p)'
  BY <1>1 DEF TypeOK, RecordsExisted, Sides
<1>8. ASSUME NEW p \in Paths, VisitFailed(p) PROVE RecordsExisted'
  BY <1>6, <1>7, <1>8, ChecksumTyped DEF VisitFailed, Visited
<1>9. ASSUME NEW p \in Paths, Skip(p) PROVE RecordsExisted'
  <2>1. (IF KnownChecksum(p) # None THEN KnownChecksum(p) ELSE Backfill(p)) \in 1..MaxClock \cup {None}
    BY ChecksumTyped
  <2> QED BY <1>6, <1>7, <1>9, <2>1 DEF Skip, disk
<1>10. ASSUME NEW p \in Paths, NEW side \in Sides, Copy(p, side) PROVE RecordsExisted'
  <2> DEFINE checksum == IF Encrypted THEN KnownChecksum(p) ELSE fs[Other(side)][p].data
             seen == walked[Other(side)][p]
  <2>1. Replace(p, side) /\ Visited(p, seen, seen, checksum) /\ cur # None /\ seen # None
    BY <1>10 DEF Copy, CursorHolds, Justified
  <2>2. checksum \in 1..MaxClock \cup {None}
    <3>1. fs[Other(side)][p] \in Entry
      BY <2>1, SidesTyped DEF Replace, TypeOK
    <3> QED BY <3>1, ChecksumTyped DEF Entry
  <2>3. Existed(side, p)'
    BY <2>1, ReplaceTyped DEF Existed
  <2>4. Existed(Other(side), p)' /\ seen \in Meta \cup {None}
    BY <1>1, <2>1, SidesTyped DEF RecordsExisted, TypeOK
  <2>5. Existed("src", p)' /\ Existed("dst", p)'
    BY <2>3, <2>4 DEF Sides, Other
  <2>6. newState' = [newState EXCEPT ![p] = Record(seen, seen, checksum)] /\ UNCHANGED <<walked, stored>>
    BY <2>1 DEF Visited
  <2> HIDE DEF checksum, seen
  <2> QED BY <1>6, <2>2, <2>4, <2>5, <2>6
<1>11. ASSUME NEW p \in Paths, NEW side \in Sides, Delete(p, side) PROVE RecordsExisted'
  <2> DEFINE src == IF side = "src" THEN None ELSE walked["src"][p]
             dst == IF side = "dst" THEN None ELSE walked["dst"][p]
  <2>1. newState' = [newState EXCEPT ![p] = Record(src, dst, KnownChecksum(p))] /\ UNCHANGED <<walked, stored>>
    BY <1>11 DEF Delete
  <2>2. /\ src \in Meta \cup {None} /\ dst \in Meta \cup {None}
        /\ src # None => Existed("src", p)'
        /\ dst # None => Existed("dst", p)'
    BY <1>7
  <2> HIDE DEF src, dst
  <2> QED BY <1>6, <2>1, <2>2, ChecksumTyped
<1>12. ASSUME NEW p \in Paths, NEW side \in Sides,
              CopyFails(p, side) \/ VerifyFails(p, side) \/ DeleteFails(p, side)
       PROVE  VisitFailed(p)
  BY <1>12 DEF CopyFails, VerifyFails, DeleteFails
<1>13. ASSUME Finish \/ Abort \/ Crash \/ MovesFail PROVE EndRun /\ (stored' = stored \/ stored' = newState)
  BY <1>13 DEF Finish, Abort, Crash, RunThrows, MovesFail, MovesThrow
<1>14. ASSUME User \/ Cancel \/ (\E p \in Paths : Choose(p)) \/ UNCHANGED vars
       PROVE  UNCHANGED <<walked, stored, newState>>
  BY <1>14, UserKeeps DEF Cancel, Choose, disk, vars
<1>15. ASSUME DetectSrcMoves \/ DetectDstMoves PROVE \E side \in Sides : DetectSideMoves(side)
  BY <1>15 DEF DetectSrcMoves, DetectDstMoves, Sides
<1> QED BY <1>2, <1>3, <1>4, <1>5, <1>8, <1>9, <1>10, <1>11, <1>12, <1>13, <1>14, <1>15 DEF Next, Engine

-----------------------------------------------------------------------------
(* What was not seen is still absent. *)

\* Only the user, or the visit of the path itself, puts a file where the walk found none.
LEMMA AbsenceStep ==
    ASSUME TypeOK, CursorHolds, AbsenceHolds, [Next]_vars PROVE AbsenceHolds'
<1>1. ASSUME walked' = walked, touched \subseteq touched',
             \A at \in Sides, q \in Paths : Pending(at, q)' => Pending(at, q),
             \A at \in Sides, q \in Paths :
                 Pending(at, q)' => fs'[at][q] = None \/ fs'[at][q] = fs[at][q] \/ q \in touched'
      PROVE  AbsenceHolds'
  BY <1>1 DEF AbsenceHolds
<1>2. ASSUME walked' = walked, fs' = fs, touched \subseteq touched', phase' = phase, todo' \subseteq todo
      PROVE  AbsenceHolds'
  BY <1>1, <1>2 DEF Pending
<1>3. ASSUME EndRun PROVE AbsenceHolds'
  BY <1>3 DEF EndRun, AbsenceHolds, Pending
<1>4. CASE User
  <2>1. UNCHANGED <<walked, phase, todo>> /\ touched \subseteq touched'
    BY <1>4, UserKeeps
  <2>2. \A at \in Sides, q \in Paths : fs'[at][q] = fs[at][q] \/ q \in touched'
    BY <1>4, UserTouches
  <2> QED BY <1>1, <2>1, <2>2 DEF Pending
<1>5. CASE StartRun
  BY <1>5, MetaTyped DEF StartRun, AbsenceHolds, Pending, TypeOK, Sides
<1>6. CASE WalkDst
  <2>1. \A q \in Paths : walked'["dst"][q] = None => fs'["dst"][q] = None
    BY <1>6, MetaTyped DEF WalkDst, TypeOK, Sides
  <2>2. \A q \in Paths : walked'["src"][q] = None => fs'["src"][q] = None \/ q \in touched'
    BY <1>6 DEF WalkDst, AbsenceHolds, Pending, TypeOK, Sides, ghosts
  <2> QED BY <2>1, <2>2 DEF AbsenceHolds, Sides
<1>7. ASSUME NEW side \in Sides, DetectSideMoves(side), phase \in {"moveSrc", "moveDst"}
      PROVE  AbsenceHolds'
  <2>1. \A at \in Sides, q \in Paths : walked[at][q] = None => fs[at][q] = None \/ q \in touched
    BY <1>7 DEF AbsenceHolds, Pending
  <2>2. touched' = touched
    BY <1>7 DEF DetectSideMoves
  <2>3. \A q \in Paths : walked'[side][q] = None => fs'[side][q] = None \/ q \in touched'
    BY <1>7, <2>1, <2>2, MovesDone
  <2>4. \A q \in Paths : walked'[Other(side)][q] = None => fs'[Other(side)][q] = None \/ q \in touched'
    BY <1>7, <2>1, <2>2, MovesDone, SidesTyped
  <2>5. \A at \in Sides : at = side \/ at = Other(side)
    BY DEF Sides, Other
  <2> QED BY <2>3, <2>4, <2>5 DEF AbsenceHolds
<1>8. CASE DetectSrcMoves \/ DetectDstMoves
  BY <1>7, <1>8 DEF DetectSrcMoves, DetectDstMoves, Sides
<1>9. CASE MovesFail \/ Finish \/ Abort \/ Crash
  BY <1>3, <1>9 DEF MovesFail, MovesThrow, Finish, Abort, Crash, RunThrows
<1>10. ASSUME NEW p \in Paths, Skip(p) \/ Choose(p) PROVE AbsenceHolds'
  BY <1>2, <1>10 DEF Skip, Choose, disk, ghosts
<1>11. ASSUME NEW p \in Paths, NEW side \in Sides, Copy(p, side) \/ VerifyFails(p, side)
       PROVE  AbsenceHolds'
  <2>1. /\ Replace(p, side) /\ cur # None /\ walked[Other(side)][p] # None
        /\ phase = "files" /\ touched \subseteq touched'
        /\ UNCHANGED <<walked, phase>> /\ todo' = todo \ {p}
    BY <1>11 DEF Copy, VerifyFails, VisitFailed, Visited, CursorHolds, Justified
  <2>2. \A at \in Sides, q \in Paths : q # p => fs'[at][q] = fs[at][q]
    BY <2>1, ReplaceTyped
  <2> QED BY <1>1, <2>1, <2>2 DEF Pending
<1>12. ASSUME NEW p \in Paths, NEW side \in Sides, CopyFails(p, side) \/ DeleteFails(p, side)
       PROVE  AbsenceHolds'
  BY <1>2, <1>12 DEF CopyFails, DeleteFails, VisitFailed, Visited
<1>13. ASSUME NEW p \in Paths, NEW side \in Sides, Delete(p, side) PROVE AbsenceHolds'
  <2>1. UNCHANGED <<walked, touched, phase>> /\ todo' \subseteq todo
    BY <1>13 DEF Delete
  <2>2. \A at \in Sides, q \in Paths : fs'[at][q] = None \/ fs'[at][q] = fs[at][q]
    BY <1>13 DEF Delete, TypeOK
  <2> QED BY <1>1, <2>1, <2>2 DEF Pending
<1>14. CASE Cancel \/ UNCHANGED vars
  BY <1>2, <1>14 DEF Cancel, disk, ghosts, vars
<1> QED BY <1>4, <1>5, <1>6, <1>8, <1>9, <1>10, <1>11, <1>12, <1>13, <1>14 DEF Next, Engine

-----------------------------------------------------------------------------
(* The path under way. *)

\* Which steps keep a path under way.
LEMMA CursorKept ==
    ASSUME CursorHolds, [Next]_vars, cur' # None
    PROVE  \/ \E p \in Paths : Choose(p)
           \/ User \/ Cancel \/ UNCHANGED vars
<1>1. ASSUME NEW p \in Paths PROVE ~ Skip(p)
  BY DEF Skip
<1>2. ASSUME NEW p \in Paths, NEW side \in Sides
      PROVE  ~ (Copy(p, side) \/ CopyFails(p, side) \/ VerifyFails(p, side) \/ Delete(p, side) \/ DeleteFails(p, side))
  BY DEF Copy, CopyFails, VerifyFails, Delete, DeleteFails, VisitFailed, Visited
<1>3. ~ (MovesFail \/ Finish \/ Abort \/ Crash)
  BY DEF MovesFail, MovesThrow, Finish, Abort, Crash, RunThrows, EndRun
<1>4. ~ (StartRun \/ WalkDst \/ DetectSrcMoves \/ DetectDstMoves)
  BY DEF StartRun, WalkDst, DetectSrcMoves, DetectDstMoves, DetectSideMoves, CursorHolds
<1> QED BY <1>1, <1>2, <1>3, <1>4 DEF Next, Engine

\* The action under way keeps its reason, since walk and records are those it was chosen by.
LEMMA CursorStep ==
    ASSUME TypeOK, CursorHolds, [Next]_vars PROVE CursorHolds'
<1> SUFFICES ASSUME cur' # None PROVE CursorHolds'
  BY DEF CursorHolds
<1>1. ASSUME NEW p \in Paths, Choose(p) PROVE CursorHolds'
  <2>1. ActionFor(p) \in Actions /\ Justified(p, ActionFor(p))
    BY <1>1, Decision DEF Choose
  <2>2. /\ cur'.path = p /\ cur'.action = ActionFor(p) /\ p \in todo /\ phase = "files"
        /\ UNCHANGED <<walked, stored, phase, todo>>
    BY <1>1 DEF Choose, disk
  <2> QED BY <2>1, <2>2 DEF CursorHolds, Justified
<1>2. CASE User \/ Cancel \/ UNCHANGED vars
  <2>1. UNCHANGED <<walked, stored, phase, todo, cur>>
    BY <1>2, UserKeeps DEF Cancel, disk, vars
  <2> QED BY <2>1 DEF CursorHolds, Justified
<1> QED BY <1>1, <1>2, CursorKept

\* A choice backs its victim up, or finds that none was walked (backupBeforeAction).
LEMMA VictimStep ==
    ASSUME TypeOK, CursorHolds, AbsenceHolds, VictimSaved, [Next]_vars PROVE VictimSaved'
<1> SUFFICES ASSUME cur' # None, IsCopy(cur'.action), fs'[Target(cur'.action)][cur'.path] # None
             PROVE  fs'[Target(cur'.action)][cur'.path].data \in backups' \/ cur'.path \in touched'
  BY DEF VictimSaved, IsCopy, Target
<1> DEFINE path == cur'.path
           target == Target(cur'.action)
<1>1. ASSUME NEW p \in Paths, Choose(p)
      PROVE  fs'[target][path].data \in backups' \/ path \in touched'
  <2>1. /\ path = p /\ target = Victim(ActionFor(p)) /\ fs' = fs
        /\ phase = "files" /\ p \in todo
    BY <1>1 DEF Choose, Victim, disk
  <2>2. target \in Sides
    BY SidesTyped
  <2>3. walked[target][p] = None => p \in touched
    BY <2>1, <2>2 DEF AbsenceHolds, Pending
  <2>4. \/ walked[target][p] # None => backups' = backups \cup {fs[target][p].data}
        \/ touched' = touched \cup {p}
    BY <1>1, <2>1 DEF Choose
  <2>5. touched \subseteq touched'
    BY <1>1 DEF Choose
  <2> QED BY <2>1, <2>3, <2>4, <2>5
<1>2. CASE User \/ Cancel \/ UNCHANGED vars
  <2>1. cur' = cur /\ backups' = backups /\ touched \subseteq touched'
    BY <1>2, UserKeeps DEF Cancel, ghosts, vars
  <2>2. path \in Paths /\ target \in Sides
    BY <2>1, SidesTyped DEF TypeOK, Cursor
  <2>3. User => \A at \in Sides, q \in Paths : fs'[at][q] = fs[at][q] \/ q \in touched'
    BY UserTouches
  <2>4. Cancel \/ UNCHANGED vars => fs' = fs
    BY DEF Cancel, disk, vars
  <2>5. fs'[target][path] = fs[target][path] \/ path \in touched'
    BY <1>2, <2>2, <2>3, <2>4
  <2> QED BY <2>1, <2>5 DEF VictimSaved
<1> QED BY <1>1, <1>2, CursorKept

-----------------------------------------------------------------------------
(* The properties. *)

\* A loss that no edit or fault explains is of a file that is there.
LEMMA LossSaved ==
    ASSUME NEW e, NEW p, NEW why, NEW saved,
           e # None => e.data \in saved \/ p \in touched
    PROVE  \A l \in Loss(e, p, why) : l.why # "race" => l.data \in saved
BY DEF Loss, Why

\* No step destroys what it should have backed up.
LEMMA BackupStep ==
    ASSUME RunInv, LosersAreBackedUp, [Next]_vars PROVE LosersAreBackedUp'
<1> USE DEF RunInv
<1>1. ASSUME lost' = lost, backups \subseteq backups' PROVE LosersAreBackedUp'
  BY <1>1 DEF LosersAreBackedUp
<1>2. ASSUME NEW side \in Sides, DetectSideMoves(side) \/ MovesThrow(side),
             phase \in {"moveSrc", "moveDst"}
      PROVE  LosersAreBackedUp'
  <2>1. PICK ms \in SUBSET Moves(side) : lost' = lost \cup OverwrittenBy(side, ms)
    BY <1>2, MovesRename
  <2>2. ASSUME NEW m \in ms PROVE fs[Other(side)][m[2]] = None \/ m[2] \in touched
    <3>1. m[2] \in Paths /\ walked[Other(side)][m[2]] = None /\ Other(side) \in Sides
      BY MovesTyped, SidesTyped
    <3> QED BY <1>2, <3>1 DEF AbsenceHolds, Pending
  <2>3. \A m \in ms : \A l \in Loss(fs[Other(side)][m[2]], m[2], "change") :
            l.why # "race" => l.data \in backups
    BY <2>2, LossSaved
  <2>4. backups' = backups
    BY <1>2 DEF DetectSideMoves, MovesThrow
  <2> QED BY <2>1, <2>3, <2>4 DEF LosersAreBackedUp, OverwrittenBy
<1>3. CASE DetectSrcMoves \/ DetectDstMoves \/ MovesFail
  BY <1>2, <1>3 DEF DetectSrcMoves, DetectDstMoves, MovesFail, Sides
<1>4. ASSUME NEW p \in Paths, NEW side \in Sides, Copy(p, side) \/ VerifyFails(p, side)
      PROVE  LosersAreBackedUp'
  <2>1. fs[side][p] # None => fs[side][p].data \in backups \/ p \in touched
    BY <1>4 DEF Copy, VerifyFails, VictimSaved
  <2>2. lost' = lost \/ lost' = lost \cup Loss(fs[side][p], p, cur.why)
    BY <1>4 DEF Copy, VerifyFails, Replace
  <2>3. backups' = backups
    BY <1>4 DEF Copy, VerifyFails, VisitFailed, Visited
  <2>4. \A l \in Loss(fs[side][p], p, cur.why) : l.why # "race" => l.data \in backups
    BY <2>1, LossSaved
  <2> QED BY <2>2, <2>3, <2>4 DEF LosersAreBackedUp
<1>5. ASSUME NEW p \in Paths, NEW side \in Sides, Delete(p, side) PROVE LosersAreBackedUp'
  <2>1. lost' = lost \cup Loss(fs[side][p], p, cur.why) /\ backups' = backups \cup {fs[side][p].data}
    BY <1>5 DEF Delete
  <2>2. \A l \in Loss(fs[side][p], p, cur.why) : l.why # "race" => l.data \in backups'
    BY <2>1, LossSaved
  <2> QED BY <2>1, <2>2 DEF LosersAreBackedUp
<1>6. ASSUME NEW p \in Paths, NEW side \in Sides, CopyFails(p, side) \/ DeleteFails(p, side)
      PROVE  lost' = lost /\ backups' = backups
  BY <1>6 DEF CopyFails, DeleteFails, VisitFailed, Visited
<1>7. ASSUME NEW p \in Paths, Skip(p) \/ Choose(p) PROVE lost' = lost /\ backups \subseteq backups'
  BY <1>7 DEF Skip, Choose, ghosts
<1>8. CASE User \/ StartRun \/ WalkDst \/ Finish \/ Cancel \/ Abort \/ Crash \/ UNCHANGED vars
  <2>1. lost' = lost /\ backups' = backups
    BY <1>8, UserKeeps DEF StartRun, WalkDst, Finish, Cancel, Abort,
                Crash, RunThrows, ghosts, vars
  <2> QED BY <1>1, <2>1
<1> QED BY <1>1, <1>3, <1>4, <1>5, <1>6, <1>7, <1>8 DEF Next, Engine

\* The initial state.
LEMMA RunInvInit == Init => RunInv /\ LosersAreBackedUp
<1> SUFFICES ASSUME Init PROVE RunInv /\ LosersAreBackedUp
  OBVIOUS
<1>1. TypeOK
  <2>1. \A T : [side \in Sides |-> NoFiles] \in [Sides -> [Paths -> T \cup {None}]]
    BY DEF NoFiles
  <2>2. \A T : NoFiles \in [Paths -> T \cup {None}]
    BY DEF NoFiles
  <2>3. clock \in 0..MaxClock /\ faults \in 0..MaxFaults
    BY ConfigAssumption DEF Init
  <2> QED BY <2>1, <2>2, <2>3 DEF Init, TypeOK, Phases
<1>2. \A p \in Paths : stored[p] = None /\ newState[p] = None /\ \A side \in Sides : walked[side][p] = None
  BY DEF Init, NoFiles
<1>3. RecordsExisted
  BY <1>2 DEF RecordsExisted
<1>4. AbsenceHolds /\ CursorHolds /\ VictimSaved /\ LosersAreBackedUp
  BY DEF Init, AbsenceHolds, Pending, CursorHolds, VictimSaved, LosersAreBackedUp
<1> QED BY <1>1, <1>3, <1>4 DEF RunInv

\* The five parts of the invariant together are inductive.
LEMMA RunInvStep == RunInv /\ [Next]_vars => RunInv'
BY TypeStep, RecordsStep, AbsenceStep, CursorStep, VictimStep DEF RunInv

\* In every reachable state the engine's variables hold what they are declared
\* to (a run's walked maps, records and action under way).
THEOREM TypeCorrect == Spec => []TypeOK
<1>1. Init => RunInv
  BY RunInvInit
<1>2. RunInv => TypeOK
  BY DEF RunInv
<1> QED BY <1>1, <1>2, RunInvStep, PTL DEF Spec

\* No version is destroyed before it was copied without a copy of it in the
\* rollback directory or in _saved_, unless the user wrote it while the run was
\* at the path or its backup failed (backupBeforeAction).
THEOREM BackedUp == Spec => []LosersAreBackedUp
<1>1. Init => RunInv /\ LosersAreBackedUp
  BY RunInvInit
<1>2. RunInv /\ LosersAreBackedUp /\ [Next]_vars => (RunInv /\ LosersAreBackedUp)'
  BY RunInvStep, BackupStep
<1> QED BY <1>1, <1>2, PTL DEF Spec

\* A step that ends a visit with a file gone follows a removal on the other side.
LEMMA DeleteStep ==
    ASSUME RunInv, [Next]_vars, NEW side \in Sides, NEW p \in Paths,
           cur # None, cur' = None, fs[side][p] # None, fs'[side][p] = None
    PROVE  <<Other(side), p>> \in removed \/ p \in touched
<1> USE DEF RunInv
<1>1. ASSUME Delete(p, side) PROVE <<Other(side), p>> \in removed \/ p \in touched
  <2> DEFINE from == Other(side)
  <2>1. /\ walked[from][p] = None /\ stored[p] # None /\ stored[p][from] # None
        /\ phase = "files" /\ p \in todo
    BY <1>1 DEF Delete, CursorHolds, Justified
  <2>2. from \in Sides
    BY SidesTyped
  <2>3. fs[from][p] # None \/ <<from, p>> \in removed
    BY <2>1, <2>2 DEF RecordsExisted, Existed
  <2>4. fs[from][p] = None \/ p \in touched
    BY <2>1, <2>2 DEF AbsenceHolds, Pending
  <2> QED BY <2>3, <2>4
<1>2. ASSUME NEW q \in Paths, NEW at \in Sides, Delete(q, at) PROVE q = p /\ at = side
  BY <1>2 DEF Delete, TypeOK
<1>3. ASSUME NEW q \in Paths, NEW to \in Sides PROVE ~ (Copy(q, to) \/ VerifyFails(q, to))
  <2> SUFFICES ASSUME Copy(q, to) \/ VerifyFails(q, to) PROVE FALSE
    OBVIOUS
  <2>1. Replace(q, to) /\ walked[Other(to)][q] # None
    BY DEF Copy, VerifyFails, CursorHolds, Justified
  <2> QED BY <2>1, ReplaceTyped
<1>4. ASSUME NEW q \in Paths, NEW at \in Sides PROVE ~ (CopyFails(q, at) \/ DeleteFails(q, at))
  BY DEF CopyFails, DeleteFails
<1>5. ASSUME NEW q \in Paths PROVE ~ (Skip(q) \/ Choose(q))
  BY DEF Skip, Choose, disk
<1>6. ~ (DetectSrcMoves \/ DetectDstMoves \/ MovesFail)
  BY DEF DetectSrcMoves, DetectDstMoves, MovesFail, CursorHolds
<1>7. ~ (User \/ Cancel \/ UNCHANGED vars)
  BY UserKeeps DEF Cancel, vars
<1>8. ~ (StartRun \/ WalkDst \/ Finish \/ Abort \/ Crash)
  BY DEF StartRun, WalkDst, Finish, Abort, Crash
<1> QED BY <1>1, <1>2, <1>3, <1>4, <1>5, <1>6, <1>7, <1>8 DEF Next, Engine

\* A run deletes a file only where it is gone from the other side because the
\* user removed it, or a run did so following the user, unless the user or a
\* fault touched the path since the walk (resolveAction).
THEOREM DeletesFollow == Spec => DeletesFollowTheUser
<1>1. Init => RunInv
  BY RunInvInit
<1>2. RunInv /\ [Next]_vars =>
        [\A side \in Sides, p \in Paths :
             cur # None /\ cur' = None /\ fs[side][p] # None /\ fs'[side][p] = None
               => <<Other(side), p>> \in removed \/ p \in touched]_vars
  BY DeleteStep
<1> QED BY <1>1, <1>2, RunInvStep, PTL DEF Spec, DeletesFollowTheUser

-----------------------------------------------------------------------------
(* What mtimes tell of contents.                                           *)
(*                                                                         *)
(* An mtime is worn by the content written at it, unless a run gave it to  *)
(* another one, which history knows (Stamped).  So an mtime that is found  *)
(* on both sides, or in a record, was carried across (Apart,               *)
(* RecordsSynced), and a file whose metadata is that of its record is no   *)
(* edit that the other side has not seen.                                  *)

\* Two edits never compare equal: they are further apart than the tolerance,
\* and not one or two hours (mtimeEqual).
TicksApart == \A a, b \in 1..MaxClock : mtimeEqual(a, b) => a = b

\* A file wears its own mtime, or one that history knows was moved; and no later one
\* than the last edit.
Stamped ==
    \A side \in Sides, p \in Paths :
        fs[side][p] # None =>
            /\ fs[side][p].data = fs[side][p].mtimeMs \/ fs[side][p].mtimeMs \in restamped
            /\ fs[side][p].data <= clock /\ fs[side][p].mtimeMs <= clock

\* No walk found an mtime later than the last edit.
WalkedPast ==
    \A side \in Sides, p \in Paths : walked[side][p] # None => walked[side][p].mtimeMs <= clock

\* Edit t is to be found on a side: as a content, as an mtime, or in its walk.
OnSide(t, side) ==
    \E p \in Paths : \/ fs[side][p] # None /\ t \in {fs[side][p].data, fs[side][p].mtimeMs}
                     \/ walked[side][p] # None /\ t = walked[side][p].mtimeMs

\* Edit t was carried across, or its mtime was moved to another content.
Told(t) == t \in propagated \/ t \in restamped

\* What is to be found on both sides was carried across.
Apart == \A t \in 1..MaxClock : OnSide(t, "src") /\ OnSide(t, "dst") => Told(t)

\* What the record of a path, made of transfers that succeeded, says of its sides.
Synced(record) ==
    /\ \A side \in Sides : record[side] # None => Told(record[side].mtimeMs)
    /\ record["src"] # None /\ record["dst"] # None => record["src"].mtimeMs = record["dst"].mtimeMs

\* Records, unless history marks them, are of what was carried across.
RecordsSynced ==
    \A p \in Paths :
        /\ stored[p] # None /\ p \notin misrecorded => Synced(stored[p])
        /\ newState[p] # None /\ p \notin newMisrecorded => Synced(newState[p])

\* A path that was misrecorded when the run began is, until its turn comes.
MisrecordedKept ==
    \A p \in Paths :
        p \in misrecorded /\ phase # "idle" /\ (phase = "files" => p \in todo) => p \in newMisrecorded

\* Until its turn comes, a path nobody touched is as the walk found it.
WalkHolds ==
    \A side \in Sides, p \in Paths :
        Pending(side, p) /\ p \notin touched =>
            /\ walked[side][p] = None <=> fs[side][p] = None
            /\ fs[side][p] # None => fs[side][p].mtimeMs = walked[side][p].mtimeMs

\* What is about to be replaced or deleted without a conflict is what the record says.
VictimKnown ==
    cur # None /\ (cur.why = "change" \/ ~ IsCopy(cur.action)) =>
        LET victim == Target(cur.action) IN
        \/ walked[victim][cur.path] = None
        \/ ~ fileChanged(walked[victim][cur.path], stored[cur.path], victim)

\* Both sides have a file at the path, or neither has.
BothOrNone(p) == fs["src"][p] = None <=> fs["dst"][p] = None

\* The path has one content on both sides, but for mtimes that were moved.
Alike(p) == BothOrNone(p) /\ (SameContent(p) \/ Restamped(p))

\* A path that was visited is alike on both sides; a path without a record is on none.
VisitedAlike ==
    /\ phase = "files" =>
        \A p \in Paths \ (todo \cup touched) :
            /\ newState[p] = None => \A side \in Sides : fs[side][p] = None
            /\ p \in newMisrecorded \/ Alike(p)
    /\ phase = "idle" /\ completed => \A p \in Paths \ (touched \cup misrecorded) : Alike(p)

\* Records are made by visits.
NewRecords == phase # "files" => \A p \in Paths : newState[p] = None

\* The inductive invariant of contents.
SyncInv == /\ RunInv /\ NewRecords /\ Stamped /\ WalkedPast /\ Apart
           /\ RecordsSynced /\ MisrecordedKept /\ WalkHolds
           /\ VictimKnown /\ VisitedAlike /\ UnsyncedEditsSurvive

\* What a record says of a side, and what is there.
Recorded(records, p, side) == IF records[p] = None THEN None ELSE records[p][side]
\* The path's record is that of its files.
Matches(records, p) == \A side \in Sides : MetaOf(fs[side][p]) = Recorded(records, p, side)

\* Without encryption files keep their size.
PlainSizes ==
    \A side \in Sides, p \in Paths :
        /\ fs[side][p] # None => fs[side][p].size = 0
        /\ walked[side][p] # None => walked[side][p].size = 0

\* The records of the paths visited, and of a completed run, are those of the files.
VisitsMatch ==
    /\ phase = "files" =>
        \A p \in Paths \ (todo \cup touched \cup newMisrecorded) : Matches(newState, p)
    /\ phase = "idle" /\ completed =>
        \A p \in Paths \ (touched \cup misrecorded) : Matches(stored, p)

\* A run that begins where a completed one left off finds every file as recorded.
QuietGoes ==
    phase # "idle" /\ settled /\ touched = {} =>
        cur = None /\ \A p \in Paths : Matches(stored, p) /\ BothOrNone(p)

\* The inductive invariant of quiet runs.
QuietInv == SyncInv /\ PlainSizes /\ VisitsMatch /\ QuietGoes

-----------------------------------------------------------------------------
(* Where files and walks come from. *)

\* Edits, and what history knows of them, only grow.
LEMMA Grows ==
    ASSUME TypeOK, [Next]_vars
    PROVE  clock <= clock' /\ clock \in Nat /\ restamped \subseteq restamped' /\ propagated \subseteq propagated'
<1>0. clock \in Nat
  BY ConfigAssumption DEF TypeOK
<1>1. CASE User
  BY <1>0, <1>1 DEF User, UserWrite, UserDelete, UserRename
<1>2. CASE StartRun \/ WalkDst \/ Finish \/ Cancel \/ Abort \/ Crash \/ UNCHANGED vars
  BY <1>0, <1>2 DEF StartRun, WalkDst, Finish, Cancel, Abort, Crash, RunThrows, ghosts, vars
<1>3. CASE DetectSrcMoves \/ DetectDstMoves \/ MovesFail
  BY <1>0, <1>3 DEF DetectSrcMoves, DetectDstMoves, DetectSideMoves, MovesFail, MovesThrow
<1>4. ASSUME NEW p \in Paths, Skip(p) \/ Choose(p) PROVE UNCHANGED <<clock, restamped, propagated>>
  BY <1>4 DEF Skip, Choose, ghosts
<1>5. ASSUME NEW p \in Paths, NEW side \in Sides, Copy(p, side) \/ VerifyFails(p, side)
      PROVE  clock' = clock /\ restamped \subseteq restamped' /\ propagated \subseteq propagated'
  BY <1>5 DEF Copy, VerifyFails, VisitFailed, Visited, Replace
<1>6. ASSUME NEW p \in Paths, NEW side \in Sides, CopyFails(p, side) \/ Delete(p, side) \/ DeleteFails(p, side)
      PROVE  UNCHANGED <<clock, restamped, propagated>>
  BY <1>6 DEF CopyFails, Delete, DeleteFails, VisitFailed, Visited
<1> QED BY <1>0, <1>1, <1>2, <1>3, <1>4, <1>5, <1>6 DEF Next, Engine

\* What the renames make of one path: a file under the mtime walked on the changed side,
\* nothing, or what was there.
LEMMA RenamedFile ==
    ASSUME TypeOK, NEW side \in Sides, NEW ms \in SUBSET Moves(side),
           NEW T \in {Entry, Meta}, NEW f \in [Paths -> T \cup {None}],
           \A m \in ms : f[m[1]] # None, NEW p \in Paths
    PROVE  LET g == AfterMoves(side, ms, f)[p] IN
           /\ (\E m \in ms : m[2] = p) =>
                \E m \in ms : /\ m[2] = p /\ g # None /\ g.mtimeMs = walked[side][p].mtimeMs
                              /\ g.size = f[m[1]].size
           /\ ~(\E m \in ms : m[2] = p) =>
                g = IF \E m \in ms : m[1] = p THEN None ELSE f[p]
<1> DEFINE g == AfterMoves(side, ms, f)[p]
<1>1. ASSUME \E m \in ms : m[2] = p
      PROVE  \E m \in ms : /\ m[2] = p /\ g # None /\ g.mtimeMs = walked[side][p].mtimeMs
                           /\ g.size = f[m[1]].size
  <2> DEFINE pair == CHOOSE m \in ms : m[2] = p
  <2>1. pair \in ms /\ pair[2] = p
    BY <1>1
  <2>2. g = [f[pair[1]] EXCEPT !.mtimeMs = walked[side][p].mtimeMs]
    BY <1>1, Zenon DEF AfterMoves
  <2>3. AfterMoves(side, ms, f)[p] # None
    BY <1>1, RenamedMap
  <2> HIDE DEF pair
  <2>4. pair[1] \in Paths /\ f[pair[1]] \in T
    BY <2>1, MovesTyped
  <2> DEFINE old == f[pair[1]]
             new == [old EXCEPT !.mtimeMs = walked[side][p].mtimeMs]
  <2>5. old \in Entry \/ old \in Meta
    BY <2>4
  <2> HIDE DEF old
  <2>6. new.mtimeMs = walked[side][p].mtimeMs /\ new.size = old.size
    BY <2>5 DEF Entry, Meta
  <2>7. g = new
    BY <2>2 DEF old
  <2> HIDE DEF g, new
  <2>8. g # None
    BY <2>3 DEF g
  <2> QED BY <2>1, <2>6, <2>7, <2>8 DEF old
<1>2. ~(\E m \in ms : m[2] = p) => g = IF \E m \in ms : m[1] = p THEN None ELSE f[p]
  BY DEF AfterMoves
<1> QED BY <1>1, <1>2

\* Disk and walk of the mirror go together: a path keeps both, loses both, or has in
\* both the mtime walked on the changed side.
LEMMA MovesCarry ==
    ASSUME TypeOK, NEW side \in Sides, DetectSideMoves(side), NEW p \in Paths
    PROVE  LET mirror == Other(side) IN
           /\ walked'[side] = walked[side] /\ fs'[side] = fs[side]
           /\ \/ walked'[mirror][p] = walked[mirror][p] /\ fs'[mirror][p] = fs[mirror][p]
              \/ walked'[mirror][p] = None /\ fs'[mirror][p] = None
              \/ /\ walked[side][p] # None /\ walked'[mirror][p] # None /\ fs'[mirror][p] # None
                 /\ walked'[mirror][p].mtimeMs = walked[side][p].mtimeMs
                 /\ fs'[mirror][p].mtimeMs = walked[side][p].mtimeMs
                 /\ \E r \in Paths : /\ walked[mirror][r] # None
                                     /\ walked'[mirror][p].size = walked[mirror][r].size
<1> DEFINE mirror == Other(side)
<1>1. PICK ms \in SUBSET Moves(side) :
          /\ \A m \in ms : fs[mirror][m[1]] # None
          /\ fs' = [fs EXCEPT ![mirror] = AfterMoves(side, ms, fs[mirror])]
          /\ walked' = [walked EXCEPT ![mirror] = AfterMoves(side, ms, walked[mirror])]
  BY DEF DetectSideMoves, MovesComplete, Renamable
<1>2. walked[mirror] \in [Paths -> Meta \cup {None}] /\ fs[mirror] \in [Paths -> Entry \cup {None}]
  BY SidesTyped DEF TypeOK
<1>3. /\ walked'[side] = walked[side] /\ walked'[mirror] = AfterMoves(side, ms, walked[mirror])
      /\ fs'[side] = fs[side] /\ fs'[mirror] = AfterMoves(side, ms, fs[mirror])
  BY <1>1, SidesTyped DEF TypeOK
<1>4. \A m \in ms : /\ m[1] \in Paths /\ m[2] \in Paths /\ walked[mirror][m[1]] # None
                    /\ walked[side][m[2]] # None
  BY MovesTyped
<1> DEFINE w == walked[mirror]
           f == fs[mirror]
<1>5. w \in [Paths -> Meta \cup {None}] /\ f \in [Paths -> Entry \cup {None}]
      /\ \A m \in ms : w[m[1]] # None /\ f[m[1]] # None
  BY <1>1, <1>2, <1>4
<1> HIDE DEF w, f
<1> DEFINE gw == AfterMoves(side, ms, w)[p]
           gf == AfterMoves(side, ms, f)[p]
<1>6. CASE \E m \in ms : m[2] = p
  <2>1. \E m \in ms : /\ m[2] = p /\ gw # None /\ gw.mtimeMs = walked[side][p].mtimeMs
                      /\ gw.size = w[m[1]].size
    BY <1>5, <1>6, RenamedFile
  <2>2. \E m \in ms : m[2] = p /\ gf # None /\ gf.mtimeMs = walked[side][p].mtimeMs
    BY <1>5, <1>6, RenamedFile
  <2> HIDE DEF gw, gf
  <2> QED BY <1>3, <1>4, <2>1, <2>2 DEF gw, gf, w, f
<1>7. CASE ~(\E m \in ms : m[2] = p)
  <2>1. gw = IF \E m \in ms : m[1] = p THEN None ELSE w[p]
    BY <1>7 DEF AfterMoves
  <2>2. gf = IF \E m \in ms : m[1] = p THEN None ELSE f[p]
    BY <1>7 DEF AfterMoves
  <2> QED BY <1>3, <2>1, <2>2 DEF w, f
<1> QED BY <1>6, <1>7

\* A file as it was on its side, maybe at another path.
Kept(at, q) ==
    \E r \in Paths : /\ fs[at][r] # None /\ fs'[at][q].data = fs[at][r].data
                     /\ fs'[at][q].mtimeMs = fs[at][r].mtimeMs /\ fs'[at][q].size = fs[at][r].size

\* A file that a run gave the mtime walked on the other side, with a content of its own
\* side or one that reaches it now.
Carried(at, q) ==
    /\ fs'[at][q].data = fs'[at][q].mtimeMs \/ fs'[at][q].mtimeMs \in restamped'
    /\ \E r \in Paths : /\ walked[Other(at)][r] # None
                        /\ fs'[at][q].mtimeMs = walked[Other(at)][r].mtimeMs
    /\ \/ \E r \in Paths : /\ fs[at][r] # None /\ fs'[at][q].data = fs[at][r].data
                           /\ fs'[at][q].size = fs[at][r].size
       \/ /\ fs'[at][q].data \in propagated'
          /\ \E r \in Paths : /\ fs[Other(at)][r] # None /\ fs'[at][q].data = fs[Other(at)][r].data
                              /\ fs'[at][q].size = fs[Other(at)][r].size + IF Encrypted THEN 1 ELSE 0

\* A file under an mtime that is not its content is one history knows of.
LEMMA StampKnown ==
    ASSUME NEW e, e # None PROVE e.data = e.mtimeMs \/ e.mtimeMs \in RestampedBy(e)
BY DEF RestampedBy

\* Unless the user writes it, a file was on its side, or a run carried it there.
LEMMA FilesFrom ==
    ASSUME TypeOK, CursorHolds, [Next]_vars,
           \A side \in Sides, p \in Paths : ~ UserWrite(side, p),
           NEW at \in Sides, NEW q \in Paths, fs'[at][q] # None
    PROVE  Kept(at, q) \/ Carried(at, q)
<1>1. ASSUME fs'[at][q] = fs[at][q] PROVE Kept(at, q)
  BY <1>1 DEF Kept
<1>2. CASE User
  <2>1. ASSUME NEW side \in Sides, NEW p \in Paths, UserDelete(side, p) PROVE fs'[at][q] = fs[at][q]
    BY <2>1 DEF UserDelete, TypeOK
  <2>2. ASSUME NEW side \in Sides, NEW p \in Paths, NEW r \in Paths, UserRename(side, p, r)
        PROVE  Kept(at, q)
    <3>1. fs'[at][q] = fs[at][q] \/ (fs[at][p] # None /\ fs'[at][q] = fs[at][p])
      BY <2>2 DEF UserRename, TypeOK
    <3> QED BY <3>1 DEF Kept
  <2> QED BY <1>1, <1>2, <2>1, <2>2 DEF User
<1>3. ASSUME NEW side \in Sides, DetectSideMoves(side) \/ MovesThrow(side) PROVE Kept(at, q) \/ Carried(at, q)
  <2> DEFINE mirror == Other(side)
             f == fs[mirror]
  <2>1. PICK ms \in SUBSET Moves(side) :
            /\ \A m \in ms : fs[mirror][m[1]] # None
            /\ fs' = [fs EXCEPT ![mirror] = AfterMoves(side, ms, fs[mirror])]
            /\ restamped' = restamped \cup UNION {RestampedBy(fs'[mirror][p]) : p \in Paths}
    BY <1>3, MovesRename
  <2>2. fs'[side] = fs[side] /\ fs'[mirror] = AfterMoves(side, ms, f) /\ mirror \in Sides
    BY <2>1, SidesTyped DEF TypeOK
  <2>3. CASE at = side
    BY <1>1, <2>2, <2>3
  <2>4. ASSUME at = mirror, \E m \in ms : m[2] = q PROVE Carried(at, q)
    <3>0. f \in [Paths -> Entry \cup {None}] /\ \A m \in ms : f[m[1]] # None
      BY <2>1, <2>2 DEF TypeOK
    <3>1. \A m \in ms : m[1] \in Paths /\ m[2] \in Paths /\ walked[side][m[2]] # None
      BY MovesTyped
    <3> HIDE DEF f
    <3> DEFINE g == AfterMoves(side, ms, f)[q]
    <3>4. fs'[at][q] = g
      BY <2>2, <2>4
    <3> DEFINE m == CHOOSE m \in ms : m[2] = q
               old == f[m[1]]
               new == [old EXCEPT !.mtimeMs = walked[side][q].mtimeMs]
    <3>2. m \in ms /\ m[2] = q /\ g = new
      BY <2>4, Zenon DEF AfterMoves
    <3> HIDE DEF m, g
    <3>a. old \in Entry
      BY <3>0, <3>1, <3>2
    <3> HIDE DEF old
    <3>b. new.mtimeMs = walked[side][q].mtimeMs /\ new.size = old.size /\ new.data = old.data
      BY <3>a DEF Entry
    <3> HIDE DEF new
    <3>c. /\ g # None /\ g.mtimeMs = walked[side][q].mtimeMs
          /\ g.size = f[m[1]].size /\ g.data = f[m[1]].data /\ f[m[1]] # None
      BY <3>0, <3>2, <3>4, <3>b DEF old
    <3>5. fs'[at][q].data = fs'[at][q].mtimeMs \/ fs'[at][q].mtimeMs \in restamped'
      <4>1. g.data = g.mtimeMs \/ g.mtimeMs \in RestampedBy(g)
        BY <3>c, StampKnown
      <4>2. RestampedBy(g) \subseteq restamped'
        BY <2>1, <2>4, <3>4
      <4> QED BY <3>4, <4>1, <4>2
    <3>6. Other(at) = side
      BY <2>4, SidesTyped
    <3>7. f[m[1]] = fs[at][m[1]]
      BY <2>4 DEF f
    <3> QED BY <3>1, <3>2, <3>c, <3>4, <3>5, <3>6, <3>7 DEF Carried
  <2>5. ASSUME at = mirror, ~(\E m \in ms : m[2] = q) PROVE fs'[at][q] = fs[at][q]
    <3>1. AfterMoves(side, ms, f)[q] = IF \E m \in ms : m[1] = q THEN None ELSE f[q]
      BY <2>5 DEF AfterMoves
    <3> QED BY <2>2, <2>5, <3>1
  <2>6. at = side \/ at = mirror
    BY DEF Sides, Other
  <2> QED BY <1>1, <2>3, <2>4, <2>5, <2>6
<1>4. CASE DetectSrcMoves \/ DetectDstMoves \/ MovesFail
  BY <1>3, <1>4 DEF DetectSrcMoves, DetectDstMoves, MovesFail, Sides
<1>5. ASSUME NEW p \in Paths, NEW side \in Sides, Copy(p, side) \/ VerifyFails(p, side)
      PROVE  Kept(at, q) \/ Carried(at, q)
  <2> DEFINE from == Other(side)
  <2>1. Replace(p, side) /\ cur # None /\ walked[from][p] # None
    BY <1>5 DEF Copy, VerifyFails, CursorHolds, Justified
  <2>2. CASE at # side \/ q # p
    BY <1>1, <2>1, <2>2, ReplaceTyped
  <2>3. CASE at = side /\ q = p
    <3>1. fs'[at][q] = Copied(from, p)
      BY <2>1, <2>3 DEF Replace, TypeOK
    <3>2. /\ fs'[at][q].data = fs[from][p].data /\ fs'[at][q].mtimeMs = walked[from][p].mtimeMs
          /\ fs'[at][q].size = fs[from][p].size + IF Encrypted THEN 1 ELSE 0
      BY <3>1 DEF Copied
    <3>3. fs[from][p] # None /\ fs'[at][q].data \in propagated' /\ RestampedBy(fs'[at][q]) \subseteq restamped'
      BY <2>1, <2>3, <3>2 DEF Replace
    <3>4. fs'[at][q].data = fs'[at][q].mtimeMs \/ fs'[at][q].mtimeMs \in restamped'
      BY <3>3, StampKnown
    <3> QED BY <2>1, <2>3, <3>2, <3>3, <3>4 DEF Carried
  <2> QED BY <2>2, <2>3
<1>6. ASSUME NEW p \in Paths, NEW side \in Sides, Delete(p, side) PROVE fs'[at][q] = fs[at][q]
  BY <1>6 DEF Delete, TypeOK
<1>7. ASSUME \/ \E p \in Paths : Skip(p) \/ Choose(p)
             \/ \E p \in Paths, side \in Sides : CopyFails(p, side) \/ DeleteFails(p, side)
             \/ StartRun \/ WalkDst \/ Finish \/ Cancel \/ Abort \/ Crash \/ UNCHANGED vars
      PROVE  fs' = fs
  BY <1>7 DEF Skip, Choose, CopyFails, DeleteFails, StartRun, WalkDst, Finish, Cancel, Abort, Crash, disk, vars
<1> QED BY <1>1, <1>2, <1>4, <1>5, <1>6, <1>7 DEF Next, Engine

\* What a walk knows of a path: the file it finds, what it knew, or the mtime that a
\* rename carried to walk and file.
LEMMA WalkedFrom ==
    ASSUME TypeOK, CursorHolds, [Next]_vars, NEW at \in Sides, NEW q \in Paths, walked'[at][q] # None
    PROVE  \/ /\ fs[at][q] # None /\ walked'[at][q].mtimeMs = fs[at][q].mtimeMs
              /\ walked'[at][q].size = fs[at][q].size
           \/ walked'[at][q] = walked[at][q]
           \/ /\ walked[Other(at)][q] # None /\ walked'[at][q].mtimeMs = walked[Other(at)][q].mtimeMs
              /\ fs'[at][q] # None /\ fs'[at][q].mtimeMs = walked'[at][q].mtimeMs
              /\ \E r \in Paths : walked[at][r] # None /\ walked'[at][q].size = walked[at][r].size
<1>1. CASE StartRun \/ WalkDst
  <2>1. walked'[at][q] = walked[at][q] \/ walked'[at][q] = MetaOf(fs[at][q])
    BY <1>1 DEF StartRun, WalkDst, TypeOK, Sides
  <2>2. MetaOf(fs[at][q]) # None => /\ fs[at][q] # None /\ MetaOf(fs[at][q]).mtimeMs = fs[at][q].mtimeMs
                                    /\ MetaOf(fs[at][q]).size = fs[at][q].size
    BY DEF MetaOf
  <2> QED BY <2>1, <2>2
<1>2. ASSUME NEW side \in Sides, DetectSideMoves(side)
      PROVE  \/ walked'[at][q] = walked[at][q]
             \/ /\ walked[Other(at)][q] # None /\ walked'[at][q].mtimeMs = walked[Other(at)][q].mtimeMs
                /\ fs'[at][q] # None /\ fs'[at][q].mtimeMs = walked'[at][q].mtimeMs
                /\ \E r \in Paths : walked[at][r] # None /\ walked'[at][q].size = walked[at][r].size
  <2>1. at = side \/ (at = Other(side) /\ Other(at) = side)
    BY DEF Sides, Other
  <2> QED BY <1>2, <2>1, MovesCarry
<1>3. CASE DetectSrcMoves \/ DetectDstMoves
  BY <1>2, <1>3 DEF DetectSrcMoves, DetectDstMoves, Sides
<1>4. ASSUME MovesFail \/ Finish \/ Abort \/ Crash PROVE FALSE
  BY <1>4 DEF MovesFail, MovesThrow, Finish, Abort, Crash, RunThrows, EndRun, NoFiles
<1>5. ASSUME NEW p \in Paths, NEW side \in Sides,
             Copy(p, side) \/ VerifyFails(p, side) \/ CopyFails(p, side) \/ Delete(p, side) \/ DeleteFails(p, side)
      PROVE  walked' = walked
  BY <1>5 DEF Copy, VerifyFails, CopyFails, Delete, DeleteFails, VisitFailed, Visited
<1>6. ASSUME User \/ Cancel \/ UNCHANGED vars \/ (\E p \in Paths : Skip(p) \/ Choose(p)) PROVE walked' = walked
  BY <1>6, UserKeeps DEF Cancel, Skip, Choose, vars
<1> QED BY <1>1, <1>3, <1>4, <1>5, <1>6 DEF Next, Engine

-----------------------------------------------------------------------------
(* Mtimes and contents. *)

\* Whatever is to be found on a side is of an edit that was made.
LEMMA OnSidePast ==
    ASSUME TypeOK, Stamped, WalkedPast, NEW t, NEW at \in Sides, OnSide(t, at)
    PROVE  t <= clock
BY DEF OnSide, Stamped, WalkedPast

\* An edit's content and mtime are new to both sides.
LEMMA WriteStamps ==
    ASSUME TypeOK, Stamped, WalkedPast, Apart, NEW side \in Sides, NEW p \in Paths, UserWrite(side, p)
    PROVE  Stamped' /\ WalkedPast' /\ Apart'
<1>1. /\ fs'[side][p] # None => fs'[side][p].data = clock + 1 /\ fs'[side][p].mtimeMs = clock + 1
      /\ \A at \in Sides, q \in Paths : at # side \/ q # p => fs'[at][q] = fs[at][q]
      /\ clock' = clock + 1 /\ clock \in Nat /\ UNCHANGED <<walked, restamped, propagated>>
  BY ConfigAssumption DEF UserWrite, TypeOK, Stamp, runv
<1>2. \A at \in Sides, q \in Paths :
          /\ fs[at][q] # None => fs[at][q].data \in Int /\ fs[at][q].mtimeMs \in Int
          /\ walked[at][q] # None => walked[at][q].mtimeMs \in Int
  BY DEF TypeOK, Entry, Meta
<1>3. Stamped'
  BY <1>1, <1>2 DEF Stamped
<1>4. WalkedPast'
  BY <1>1, <1>2 DEF WalkedPast
<1>5. ASSUME NEW t \in 1..MaxClock, OnSide(t, "src")', OnSide(t, "dst")' PROVE Told(t)
  <2>1. \A at \in Sides : at # side => (OnSide(t, at)' => OnSide(t, at))
    BY <1>1 DEF OnSide
  <2>2. t # clock + 1 => \A at \in Sides : OnSide(t, at)' => OnSide(t, at)
    BY <1>1 DEF OnSide
  <2>3. \E at \in Sides : at # side
    BY SidesTyped
  <2>4. \A at \in Sides : OnSide(t, at) => t <= clock
    BY OnSidePast
  <2>5. \A at \in Sides : OnSide(t, at)'
    BY <1>5 DEF Sides
  <2>6. t # clock + 1
    BY <1>1, <2>1, <2>3, <2>4, <2>5
  <2> QED BY <2>2, <2>5, <2>6 DEF Apart, Sides
<1>6. Apart'
  BY <1>1, <1>5 DEF Apart, Told
<1> QED BY <1>3, <1>4, <1>6

\* No step lets an mtime be found on both sides, or worn by another content, unless it was
\* carried across or history knows.
LEMMA StampsStep ==
    ASSUME TypeOK, CursorHolds, Stamped, WalkedPast, Apart, [Next]_vars
    PROVE  Stamped' /\ WalkedPast' /\ Apart'
<1> SUFFICES ASSUME \A side \in Sides, p \in Paths : ~ UserWrite(side, p)
             PROVE  Stamped' /\ WalkedPast' /\ Apart'
  BY WriteStamps
<1>1. clock <= clock' /\ clock \in Nat /\ restamped \subseteq restamped' /\ propagated \subseteq propagated'
  BY Grows
<1>2. clock' \in Nat
  BY TypeStep, ConfigAssumption DEF TypeOK
<1>3. \A at \in Sides, q \in Paths :
          /\ fs[at][q] # None => fs[at][q].data \in Int /\ fs[at][q].mtimeMs \in Int
          /\ walked[at][q] # None => walked[at][q].mtimeMs \in Int
  BY DEF TypeOK, Entry, Meta
<1>4. \A at \in Sides : Other(at) \in Sides
  BY SidesTyped
<1>5. ASSUME NEW at \in Sides, NEW q \in Paths, fs'[at][q] # None
      PROVE  /\ fs'[at][q].data = fs'[at][q].mtimeMs \/ fs'[at][q].mtimeMs \in restamped'
             /\ fs'[at][q].data <= clock' /\ fs'[at][q].mtimeMs <= clock'
  <2>1. Kept(at, q) \/ Carried(at, q)
    BY <1>5, FilesFrom
  <2>2. CASE Kept(at, q)
    <3>1. PICK r \in Paths : /\ fs[at][r] # None /\ fs'[at][q].data = fs[at][r].data
                             /\ fs'[at][q].mtimeMs = fs[at][r].mtimeMs
      BY <2>2 DEF Kept
    <3>2. /\ fs[at][r].data = fs[at][r].mtimeMs \/ fs[at][r].mtimeMs \in restamped
          /\ fs[at][r].data <= clock /\ fs[at][r].mtimeMs <= clock
      BY <3>1 DEF Stamped
    <3> QED BY <1>1, <1>2, <1>3, <3>1, <3>2
  <2>3. CASE Carried(at, q)
    <3>1. PICK r \in Paths : /\ walked[Other(at)][r] # None
                             /\ fs'[at][q].mtimeMs = walked[Other(at)][r].mtimeMs
      BY <2>3 DEF Carried
    <3>2. PICK from \in Sides, s \in Paths : fs[from][s] # None /\ fs'[at][q].data = fs[from][s].data
      BY <2>3, <1>4 DEF Carried
    <3>3. walked[Other(at)][r].mtimeMs <= clock /\ fs[from][s].data <= clock
      BY <1>4, <3>1, <3>2 DEF Stamped, WalkedPast
    <3> QED BY <1>1, <1>2, <1>3, <1>4, <2>3, <3>1, <3>2, <3>3 DEF Carried
  <2> QED BY <2>1, <2>2, <2>3
<1>6. ASSUME NEW at \in Sides, NEW q \in Paths, walked'[at][q] # None
      PROVE  walked'[at][q].mtimeMs <= clock'
  <2>1. \E from \in Sides : \/ fs[from][q] # None /\ walked'[at][q].mtimeMs = fs[from][q].mtimeMs
                            \/ walked[from][q] # None /\ walked'[at][q].mtimeMs = walked[from][q].mtimeMs
    BY <1>4, <1>6, WalkedFrom
  <2>2. PICK from \in Sides : \/ fs[from][q] # None /\ walked'[at][q].mtimeMs = fs[from][q].mtimeMs
                              \/ walked[from][q] # None /\ walked'[at][q].mtimeMs = walked[from][q].mtimeMs
    BY <2>1
  <2>3. /\ fs[from][q] # None => fs[from][q].mtimeMs <= clock
        /\ walked[from][q] # None => walked[from][q].mtimeMs <= clock
    BY DEF Stamped, WalkedPast
  <2> QED BY <1>1, <1>2, <1>3, <2>2, <2>3
<1>7. ASSUME NEW at \in Sides, NEW t, NEW q \in Paths, fs'[at][q] # None,
             t \in {fs'[at][q].data, fs'[at][q].mtimeMs}
      PROVE  OnSide(t, at) \/ Told(t)'
  <2>1. Kept(at, q) \/ Carried(at, q)
    BY <1>7, FilesFrom
  <2>2. CASE Kept(at, q)
    BY <1>7, <2>2 DEF Kept, OnSide
  <2>3. CASE Carried(at, q)
    <3> DEFINE data == fs'[at][q].data
               time == fs'[at][q].mtimeMs
    <3>1. /\ data = time \/ time \in restamped'
          /\ (\E r \in Paths : fs[at][r] # None /\ data = fs[at][r].data) \/ data \in propagated'
          /\ t = data \/ t = time
      BY <1>7, <2>3 DEF Carried
    <3> HIDE DEF data, time
    <3>2. t = data \/ Told(t)'
      BY <3>1 DEF Told
    <3>3. (\E r \in Paths : fs[at][r] # None /\ t = fs[at][r].data) \/ Told(t)'
      BY <3>1, <3>2 DEF Told
    <3> QED BY <3>3 DEF OnSide
  <2> QED BY <2>1, <2>2, <2>3
<1>8. ASSUME NEW at \in Sides, NEW t, OnSide(t, at)' PROVE OnSide(t, at) \/ Told(t)'
  <2>1. PICK q \in Paths : \/ fs'[at][q] # None /\ t \in {fs'[at][q].data, fs'[at][q].mtimeMs}
                           \/ walked'[at][q] # None /\ t = walked'[at][q].mtimeMs
    BY <1>8 DEF OnSide
  <2>2. CASE fs'[at][q] # None /\ t \in {fs'[at][q].data, fs'[at][q].mtimeMs}
    BY <1>7, <2>2
  <2>3. CASE walked'[at][q] # None /\ t = walked'[at][q].mtimeMs
    <3>1. \/ fs[at][q] # None /\ t = fs[at][q].mtimeMs
          \/ walked[at][q] # None /\ t = walked[at][q].mtimeMs
          \/ fs'[at][q] # None /\ t = fs'[at][q].mtimeMs
      BY <2>3, WalkedFrom
    <3> QED BY <1>7, <3>1 DEF OnSide
  <2> QED BY <2>1, <2>2, <2>3
<1>9. Stamped'
  BY <1>5 DEF Stamped
<1>10. WalkedPast'
  BY <1>6 DEF WalkedPast
<1>11. \A t : Told(t) => Told(t)'
  BY <1>1 DEF Told
<1>12. Apart'
  <2> SUFFICES ASSUME NEW t \in 1..MaxClock, OnSide(t, "src")', OnSide(t, "dst")' PROVE Told(t)'
    BY DEF Apart
  <2>1. OnSide(t, "src") \/ Told(t)'
    BY <1>8 DEF Sides
  <2>2. OnSide(t, "dst") \/ Told(t)'
    BY <1>8 DEF Sides
  <2> QED BY <1>11, <2>1, <2>2 DEF Apart
<1> QED BY <1>9, <1>10, <1>12

-----------------------------------------------------------------------------
(* Records, and what a walk found. *)

\* The user leaves the run and its records alone.
LEMMA UserLeavesRun ==
    ASSUME User
    PROVE  UNCHANGED <<stored, runv, misrecorded, newMisrecorded, completed, settled, lost>>
BY DEF User, UserWrite, UserDelete, UserRename

\* Only a visit makes a record; one that was made of a failed transfer, or of a conflict
\* left alone, is known until the path's next turn.
LEMMA RecordsKeptStep ==
    ASSUME TypeOK, CursorHolds, NewRecords, MisrecordedKept, [Next]_vars
    PROVE  NewRecords' /\ MisrecordedKept'
<1>1. CASE User \/ Cancel \/ (\E p \in Paths : Choose(p)) \/ UNCHANGED vars
  <2>1. UNCHANGED <<newState, phase, todo, misrecorded, newMisrecorded>>
    BY <1>1, UserLeavesRun DEF Cancel, Choose, runv, ghosts, disk, vars
  <2> QED BY <2>1 DEF NewRecords, MisrecordedKept
<1>2. CASE StartRun
  BY <1>2 DEF StartRun, NewRecords, MisrecordedKept
<1>3. CASE WalkDst
  BY <1>3 DEF WalkDst, NewRecords, MisrecordedKept, ghosts
<1>4. ASSUME NEW side \in Sides, DetectSideMoves(side), phase \in {"moveSrc", "moveDst"}
      PROVE  NewRecords' /\ MisrecordedKept'
  <2>1. newState' = newState /\ misrecorded' = misrecorded /\ newMisrecorded \subseteq newMisrecorded'
    BY <1>4 DEF DetectSideMoves
  <2> QED BY <1>4, <2>1 DEF NewRecords, MisrecordedKept
<1>5. CASE DetectSrcMoves \/ DetectDstMoves
  BY <1>4, <1>5 DEF DetectSrcMoves, DetectDstMoves, Sides
<1>6. CASE MovesFail \/ Finish \/ Abort \/ Crash
  <2>1. EndRun
    BY <1>6 DEF MovesFail, MovesThrow, Finish, Abort, Crash, RunThrows
  <2> QED BY <2>1 DEF EndRun, NoFiles, NewRecords, MisrecordedKept
<1>7. ASSUME NEW p \in Paths, phase = "files", phase' = "files", todo' = todo \ {p},
             misrecorded' = misrecorded, newMisrecorded \ {p} \subseteq newMisrecorded'
      PROVE  NewRecords' /\ MisrecordedKept'
  BY <1>7 DEF NewRecords, MisrecordedKept
<1>8. ASSUME NEW p \in Paths, Skip(p) PROVE NewRecords' /\ MisrecordedKept'
  BY <1>7, <1>8 DEF Skip
<1>9. ASSUME NEW p \in Paths, NEW side \in Sides,
             Copy(p, side) \/ CopyFails(p, side) \/ VerifyFails(p, side) \/ Delete(p, side) \/ DeleteFails(p, side)
      PROVE  NewRecords' /\ MisrecordedKept'
  <2>1. phase = "files"
    BY <1>9 DEF Copy, CopyFails, VerifyFails, Delete, DeleteFails, CursorHolds
  <2>2. phase' = phase /\ todo' = todo \ {p} /\ misrecorded' = misrecorded
    BY <1>9 DEF Copy, CopyFails, VerifyFails, Delete, DeleteFails, VisitFailed, Visited
  <2>3. newMisrecorded \ {p} \subseteq newMisrecorded'
    BY <1>9 DEF Copy, CopyFails, VerifyFails, Delete, DeleteFails
  <2> QED BY <1>7, <2>1, <2>2, <2>3
<1> QED BY <1>1, <1>2, <1>3, <1>5, <1>6, <1>8, <1>9 DEF Next, Engine

\* A walk's metadata is that of the file.
LEMMA MetaOfFile ==
    ASSUME NEW e \in Entry \cup {None}
    PROVE  /\ MetaOf(e) = None <=> e = None
           /\ e # None => MetaOf(e).mtimeMs = e.mtimeMs /\ MetaOf(e).size = e.size
BY MetaTyped DEF MetaOf

\* Only the user, or the visit of the path itself, makes a path differ from its walk.
LEMMA WalkStep ==
    ASSUME TypeOK, CursorHolds, WalkHolds, [Next]_vars PROVE WalkHolds'
<1>1. ASSUME walked' = walked, touched \subseteq touched',
             \A at \in Sides, q \in Paths : Pending(at, q)' => Pending(at, q),
             \A at \in Sides, q \in Paths : Pending(at, q)' => fs'[at][q] = fs[at][q] \/ q \in touched'
      PROVE  WalkHolds'
  BY <1>1 DEF WalkHolds
<1>2. ASSUME walked' = walked, fs' = fs, touched \subseteq touched', phase' = phase, todo' \subseteq todo
      PROVE  WalkHolds'
  BY <1>1, <1>2 DEF Pending
<1>3. CASE User
  <2>1. UNCHANGED <<walked, phase, todo>> /\ touched \subseteq touched'
    BY <1>3, UserKeeps
  <2>2. \A at \in Sides, q \in Paths : fs'[at][q] = fs[at][q] \/ q \in touched'
    BY <1>3, UserTouches
  <2> QED BY <1>1, <2>1, <2>2 DEF Pending
<1>4. CASE StartRun
  <2>1. \A q \in Paths : fs["src"][q] \in Entry \cup {None} /\ walked'["src"][q] = MetaOf(fs["src"][q])
    BY <1>4 DEF StartRun, TypeOK, Sides
  <2>2. \A at \in Sides, q \in Paths : Pending(at, q)' => at = "src"
    BY <1>4 DEF StartRun, Pending
  <2> QED BY <1>4, <2>1, <2>2, MetaOfFile DEF StartRun, WalkHolds
<1>5. CASE WalkDst
  <2>1. \A q \in Paths : fs["dst"][q] \in Entry \cup {None} /\ walked'["dst"][q] = MetaOf(fs["dst"][q])
    BY <1>5 DEF WalkDst, TypeOK, Sides
  <2>2. \A q \in Paths : Pending("src", q) /\ walked'["src"][q] = walked["src"][q]
    BY <1>5 DEF WalkDst, Pending, TypeOK, Sides
  <2>3. fs' = fs /\ touched' = touched
    BY <1>5 DEF WalkDst, ghosts
  <2> QED BY <2>1, <2>2, <2>3, MetaOfFile DEF WalkHolds, Sides
<1>6. ASSUME NEW side \in Sides, DetectSideMoves(side), phase \in {"moveSrc", "moveDst"}
      PROVE  WalkHolds'
  <2>1. \A at \in Sides, q \in Paths : Pending(at, q)
    BY <1>6 DEF Pending
  <2>2. touched' = touched
    BY <1>6 DEF DetectSideMoves
  <2>3. \A at \in Sides : at = side \/ at = Other(side)
    BY DEF Sides, Other
  <2>4. ASSUME NEW at \in Sides, NEW q \in Paths, q \notin touched'
        PROVE  /\ walked'[at][q] = None <=> fs'[at][q] = None
               /\ fs'[at][q] # None => fs'[at][q].mtimeMs = walked'[at][q].mtimeMs
    <3>1. \/ walked'[at][q] = walked[at][q] /\ fs'[at][q] = fs[at][q]
          \/ walked'[at][q] = None /\ fs'[at][q] = None
          \/ /\ walked'[at][q] # None /\ fs'[at][q] # None
             /\ fs'[at][q].mtimeMs = walked'[at][q].mtimeMs
      BY <1>6, <2>3, MovesCarry
    <3> QED BY <2>1, <2>2, <2>4, <3>1 DEF WalkHolds
  <2> QED BY <2>4 DEF WalkHolds
<1>7. CASE DetectSrcMoves \/ DetectDstMoves
  BY <1>6, <1>7 DEF DetectSrcMoves, DetectDstMoves, Sides
<1>8. CASE MovesFail \/ Finish \/ Abort \/ Crash
  BY <1>8 DEF MovesFail, MovesThrow, Finish, Abort, Crash, RunThrows, EndRun, WalkHolds, Pending
<1>9. ASSUME NEW p \in Paths, Skip(p) \/ Choose(p) PROVE WalkHolds'
  BY <1>2, <1>9 DEF Skip, Choose, disk, ghosts
<1>10. ASSUME NEW p \in Paths, NEW side \in Sides, Copy(p, side) \/ VerifyFails(p, side)
       PROVE  WalkHolds'
  <2>1. /\ Replace(p, side) /\ cur # None /\ walked[Other(side)][p] # None
        /\ phase = "files" /\ touched \subseteq touched'
        /\ UNCHANGED <<walked, phase>> /\ todo' = todo \ {p}
    BY <1>10 DEF Copy, VerifyFails, VisitFailed, Visited, CursorHolds, Justified
  <2>2. \A at \in Sides, q \in Paths : q # p => fs'[at][q] = fs[at][q]
    BY <2>1, ReplaceTyped
  <2> QED BY <1>1, <2>1, <2>2 DEF Pending
<1>11. ASSUME NEW p \in Paths, NEW side \in Sides, CopyFails(p, side) \/ DeleteFails(p, side)
       PROVE  WalkHolds'
  BY <1>2, <1>11 DEF CopyFails, DeleteFails, VisitFailed, Visited
<1>12. ASSUME NEW p \in Paths, NEW side \in Sides, Delete(p, side) PROVE WalkHolds'
  <2>1. UNCHANGED <<walked, touched, phase>> /\ todo' = todo \ {p} /\ phase = "files"
    BY <1>12 DEF Delete, CursorHolds
  <2>2. \A at \in Sides, q \in Paths : q # p => fs'[at][q] = fs[at][q]
    BY <1>12 DEF Delete, TypeOK
  <2> QED BY <1>1, <2>1, <2>2 DEF Pending
<1>13. CASE Cancel \/ UNCHANGED vars
  BY <1>2, <1>13 DEF Cancel, disk, ghosts, vars
<1> QED BY <1>3, <1>4, <1>5, <1>7, <1>8, <1>9, <1>10, <1>11, <1>12, <1>13 DEF Next, Engine

\* A delete, or a copy without a conflict, is of a side that did not change (resolveAction).
LEMMA VictimUnchanged ==
    ASSUME NEW p \in Paths, ActionFor(p) # "skip", ~ IsConflict(p) \/ ~ IsCopy(ActionFor(p))
    PROVE  LET victim == Target(ActionFor(p)) IN
           walked[victim][p] = None \/ ~ fileChanged(walked[victim][p], stored[p], victim)
<1>1. Resolved(p) # "conflict"
  BY DEF IsConflict, ActionFor, resolveConflict, IsCopy
<1>2. ActionFor(p) = Resolved(p)
  BY <1>1 DEF ActionFor
<1>3. IsConflict(p) <=> stored[p] = None /\ \A side \in Sides : walked[side][p] # None
  BY <1>1 DEF IsConflict
<1>4. CASE ~ IsConflict(p)
  BY <1>1, <1>2, <1>3, <1>4 DEF Resolved, resolveAction, Target, Sides
<1>5. CASE IsConflict(p)
  BY <1>1, <1>2, <1>3, <1>5 DEF Resolved, resolveAction, IsCopy, Sides
<1> QED BY <1>4, <1>5

\* The action under way keeps what it was chosen by.
LEMMA VictimKnownStep ==
    ASSUME TypeOK, CursorHolds, VictimKnown, [Next]_vars PROVE VictimKnown'
<1> SUFFICES ASSUME cur' # None PROVE VictimKnown'
  BY DEF VictimKnown
<1>1. ASSUME NEW p \in Paths, Choose(p) PROVE VictimKnown'
  <2>1. /\ cur' = [path |-> p, action |-> ActionFor(p),
                   why |-> IF IsConflict(p) THEN "conflict" ELSE "change"]
        /\ walked' = walked /\ stored' = stored /\ ActionFor(p) # "skip"
    BY <1>1 DEF Choose, disk
  <2>2. /\ cur'.path = p /\ cur'.action = ActionFor(p)
        /\ cur'.why = "change" \/ ~ IsCopy(cur'.action) => ~ IsConflict(p) \/ ~ IsCopy(ActionFor(p))
    BY <2>1
  <2> QED BY <2>1, <2>2, VictimUnchanged DEF VictimKnown, IsCopy, Target, fileChanged
<1>2. CASE User \/ Cancel \/ UNCHANGED vars
  <2>1. UNCHANGED <<walked, stored, cur>>
    BY <1>2, UserKeeps DEF Cancel, disk, vars
  <2> QED BY <2>1 DEF VictimKnown, IsCopy, Target, fileChanged
<1> QED BY <1>1, <1>2, CursorKept

-----------------------------------------------------------------------------
(* What records say. *)

\* A walked file that did not change is the one of the record.
LEMMA UnchangedTime ==
    ASSUME TypeOK, TicksApart, NEW side \in Sides, NEW p \in Paths,
           walked[side][p] # None, ~ fileChanged(walked[side][p], stored[p], side)
    PROVE  /\ stored[p] # None /\ stored[p][side] # None
           /\ walked[side][p].mtimeMs = stored[p][side].mtimeMs
           /\ walked[side][p].size = stored[p][side].size
<1>1. /\ stored[p] # None /\ stored[p][side] # None
      /\ walked[side][p].size = stored[p][side].size
      /\ mtimeEqual(walked[side][p].mtimeMs, stored[p][side].mtimeMs)
  BY DEF fileChanged
<1>2. walked[side][p].mtimeMs \in 1..MaxClock /\ stored[p][side].mtimeMs \in 1..MaxClock
  <2>1. walked[side][p] \in Meta /\ stored[p] \in StoredFileState
    BY <1>1 DEF TypeOK
  <2>2. stored[p][side] \in Meta
    BY <1>1, <2>1 DEF StoredFileState, Sides
  <2> QED BY <2>1, <2>2 DEF Meta
<1> QED BY <1>1, <1>2 DEF TicksApart

\* A path is left alone if it is on no side, has no record but one mtime on both sides,
\* changed on neither side, or is in a conflict (resolveAction).
LEMMA SkipCases ==
    ASSUME TypeOK, NEW p \in Paths, ActionFor(p) = "skip", Resolved(p) # "conflict"
    PROVE  \/ walked["src"][p] = None /\ walked["dst"][p] = None
           \/ /\ walked["src"][p] # None /\ walked["dst"][p] # None
              /\ \/ stored[p] = None /\ mtimeEqual(walked["src"][p].mtimeMs, walked["dst"][p].mtimeMs)
                 \/ /\ ~ fileChanged(walked["src"][p], stored[p], "src")
                    /\ ~ fileChanged(walked["dst"][p], stored[p], "dst")
<1>1. Resolved(p) = "skip"
  BY DEF ActionFor
<1> QED BY <1>1 DEF Resolved, resolveAction

\* What such a path leaves in its record was carried across.
LEMMA SkipSynced ==
    ASSUME TypeOK, TicksApart, Apart, RecordsSynced, NEW p \in Paths,
           ActionFor(p) = "skip", Resolved(p) # "conflict", p \notin misrecorded
    PROVE  /\ \A side \in Sides : walked[side][p] # None => Told(walked[side][p].mtimeMs)
           /\ walked["src"][p] = None <=> walked["dst"][p] = None
           /\ walked["src"][p] # None => walked["src"][p].mtimeMs = walked["dst"][p].mtimeMs
<1>1. \A side \in Sides : walked[side][p] # None => walked[side][p].mtimeMs \in 1..MaxClock
  BY DEF TypeOK, Meta
<1> DEFINE src == walked["src"][p]
           dst == walked["dst"][p]
<1>2. CASE src # None /\ dst # None /\ stored[p] = None /\ mtimeEqual(src.mtimeMs, dst.mtimeMs)
  <2>1. src.mtimeMs = dst.mtimeMs /\ src.mtimeMs \in 1..MaxClock
    BY <1>1, <1>2 DEF TicksApart, Sides
  <2>2. OnSide(src.mtimeMs, "src") /\ OnSide(dst.mtimeMs, "dst")
    BY <1>2 DEF OnSide
  <2>3. Told(src.mtimeMs)
    BY <2>1, <2>2 DEF Apart
  <2> QED BY <1>2, <2>1, <2>3 DEF Sides
<1>3. CASE /\ src # None /\ dst # None
           /\ ~ fileChanged(src, stored[p], "src") /\ ~ fileChanged(dst, stored[p], "dst")
  <2>1. /\ stored[p] # None /\ stored[p]["src"] # None /\ stored[p]["dst"] # None
        /\ src.mtimeMs = stored[p]["src"].mtimeMs /\ dst.mtimeMs = stored[p]["dst"].mtimeMs
    BY <1>3, UnchangedTime DEF Sides
  <2>2. Synced(stored[p])
    BY <2>1 DEF RecordsSynced
  <2> QED BY <1>3, <2>1, <2>2 DEF Synced, Sides
<1> QED BY <1>2, <1>3, SkipCases DEF Sides

\* What a copy writes under the walked mtime is on both sides, or history knows.
LEMMA ReplaceTold ==
    ASSUME TypeOK, NEW p \in Paths, NEW to \in Sides, cur # None,
           walked[Other(to)][p] # None, Replace(p, to)
    PROVE  /\ fs'[to][p] = Copied(Other(to), p) /\ fs'[to][p] # None
           /\ \A t : t = walked[Other(to)][p].mtimeMs => Told(t)'
<1>1. fs'[to][p] = Copied(Other(to), p)
  BY DEF Replace, TypeOK
<1>2. /\ Copied(Other(to), p).data \in propagated'
      /\ Copied(Other(to), p).mtimeMs = walked[Other(to)][p].mtimeMs
      /\ RestampedBy(fs'[to][p]) \subseteq restamped'
  BY DEF Replace, Copied
<1>3. fs'[to][p] # None
  BY ReplaceTyped
<1>4. fs'[to][p].data = fs'[to][p].mtimeMs \/ fs'[to][p].mtimeMs \in RestampedBy(fs'[to][p])
  BY <1>3, StampKnown
<1> QED BY <1>1, <1>2, <1>3, <1>4 DEF Told

\* A record that a visit makes, of what was carried across or by a visit that history
\* marks (newState.set), and the save of all records, keep records true.
LEMMA RecordsSyncedStep ==
    ASSUME TypeOK, TicksApart, CursorHolds, NewRecords, Apart, RecordsSynced, MisrecordedKept,
           VictimKnown, [Next]_vars
    PROVE  RecordsSynced'
<1>1. \A t : Told(t) => Told(t)'
  BY Grows DEF Told
<1>2. \A record : Synced(record) => Synced(record)'
  BY <1>1 DEF Synced
<1>3. ASSUME UNCHANGED <<stored, newState, misrecorded>>, newMisrecorded \subseteq newMisrecorded'
      PROVE  RecordsSynced'
  BY <1>2, <1>3 DEF RecordsSynced
<1>4. CASE User \/ Cancel \/ WalkDst \/ (\E p \in Paths : Choose(p)) \/ UNCHANGED vars
  BY <1>3, <1>4, UserLeavesRun DEF Cancel, WalkDst, Choose, runv, ghosts, disk, vars
<1>5. CASE DetectSrcMoves \/ DetectDstMoves
  BY <1>3, <1>5 DEF DetectSrcMoves, DetectDstMoves, DetectSideMoves
<1>6. CASE StartRun
  <2>1. UNCHANGED <<stored, newState, misrecorded>> /\ \A p \in Paths : newState[p] = None
    BY <1>6 DEF StartRun, NewRecords
  <2> QED BY <1>2, <2>1 DEF RecordsSynced
<1>7. CASE MovesFail \/ Abort \/ Crash
  <2>1. EndRun /\ UNCHANGED <<stored, misrecorded>>
    BY <1>7 DEF MovesFail, MovesThrow, Abort, Crash, RunThrows
  <2>2. \A p \in Paths : newState'[p] = None
    BY <2>1 DEF EndRun, NoFiles
  <2> QED BY <1>2, <2>1, <2>2 DEF RecordsSynced
<1>8. CASE Finish
  <2>1. \A p \in Paths : newState'[p] = None
    BY <1>8 DEF Finish, EndRun, NoFiles
  <2>2. stored' = newState /\ misrecorded' = {p \in newMisrecorded : newState[p] # None}
    BY <1>8 DEF Finish
  <2> QED BY <1>2, <2>1, <2>2 DEF RecordsSynced
<1>9. ASSUME NEW p \in Paths, NEW src, NEW dst, NEW checksum,
             newState' = [newState EXCEPT ![p] = Record(src, dst, checksum)],
             UNCHANGED <<stored, misrecorded>>, newMisrecorded \ {p} \subseteq newMisrecorded',
             p \notin newMisrecorded' =>
                 /\ src # None => Told(src.mtimeMs)'
                 /\ dst # None => Told(dst.mtimeMs)'
                 /\ src # None /\ dst # None => src.mtimeMs = dst.mtimeMs
      PROVE  RecordsSynced'
  <2>1. newState'[p] = Record(src, dst, checksum) /\ \A q \in Paths : q # p => newState'[q] = newState[q]
    BY <1>9 DEF TypeOK
  <2>2. newState'[p]["src"] = src /\ newState'[p]["dst"] = dst
    BY <2>1 DEF Record
  <2>3. p \notin newMisrecorded' => Synced(newState[p])'
    BY <1>9, <2>2 DEF Synced, Sides
  <2> QED BY <1>2, <1>9, <2>1, <2>3 DEF RecordsSynced
<1>10. ASSUME NEW p \in Paths, Skip(p) PROVE RecordsSynced'
  <2> DEFINE src == walked["src"][p]
             dst == walked["dst"][p]
             checksum == IF KnownChecksum(p) # None THEN KnownChecksum(p) ELSE Backfill(p)
  <2>1. /\ newState' = [newState EXCEPT ![p] = Record(src, dst, checksum)]
        /\ UNCHANGED <<stored, misrecorded>> /\ newMisrecorded \subseteq newMisrecorded'
        /\ p \notin newMisrecorded' => Resolved(p) # "conflict"
        /\ ActionFor(p) = "skip" /\ phase = "files" /\ p \in todo
    BY <1>10 DEF Skip, disk
  <2>2. p \notin newMisrecorded' => p \notin misrecorded
    BY <2>1 DEF MisrecordedKept
  <2>3. p \notin newMisrecorded' =>
            /\ src # None => Told(src.mtimeMs)
            /\ dst # None => Told(dst.mtimeMs)
            /\ src # None /\ dst # None => src.mtimeMs = dst.mtimeMs
    BY <2>1, <2>2, SkipSynced DEF Sides
  <2>4. walked' = walked
    BY <1>10 DEF Skip
  <2>5. p \notin newMisrecorded' =>
            /\ src # None => Told(src.mtimeMs)'
            /\ dst # None => Told(dst.mtimeMs)'
    BY <1>1, <2>3, <2>4
  <2> HIDE DEF checksum
  <2> QED BY <1>9, <2>1, <2>3, <2>4, <2>5
<1>11. ASSUME NEW p \in Paths, NEW side \in Sides, Copy(p, side) PROVE RecordsSynced'
  <2> DEFINE checksum == IF Encrypted THEN KnownChecksum(p) ELSE fs[Other(side)][p].data
             seen == walked[Other(side)][p]
  <2>1. Replace(p, side) /\ Visited(p, seen, seen, checksum) /\ cur # None /\ seen # None
        /\ newMisrecorded' = newMisrecorded \ {p}
    BY <1>11 DEF Copy, CursorHolds, Justified
  <2>2. \A t : t = seen.mtimeMs => Told(t)'
    BY <2>1, ReplaceTold
  <2>3. newState' = [newState EXCEPT ![p] = Record(seen, seen, checksum)] /\ UNCHANGED <<walked, stored, misrecorded>>
    BY <2>1 DEF Visited
  <2>4. Told(seen.mtimeMs)'
    BY <2>2, <2>3
  <2> HIDE DEF checksum
  <2> QED BY <1>9, <2>1, <2>3, <2>4
<1>12. ASSUME NEW p \in Paths, VisitFailed(p), p \in newMisrecorded', newMisrecorded \subseteq newMisrecorded'
       PROVE  RecordsSynced'
  <2>1. /\ newState' = [newState EXCEPT ![p] = Record(walked["src"][p], walked["dst"][p], KnownChecksum(p))]
        /\ UNCHANGED <<stored, misrecorded>>
    BY <1>12 DEF VisitFailed, Visited
  <2> QED BY <1>9, <1>12, <2>1
<1>13. ASSUME NEW p \in Paths, NEW side \in Sides, CopyFails(p, side) \/ VerifyFails(p, side)
       PROVE  RecordsSynced'
  BY <1>12, <1>13 DEF CopyFails, VerifyFails
<1>14. ASSUME NEW p \in Paths, NEW side \in Sides, Delete(p, side) PROVE RecordsSynced'
  <2> DEFINE src == IF side = "src" THEN None ELSE walked["src"][p]
             dst == IF side = "dst" THEN None ELSE walked["dst"][p]
  <2>1. /\ newState' = [newState EXCEPT ![p] = Record(src, dst, KnownChecksum(p))]
        /\ UNCHANGED <<walked, stored, misrecorded>> /\ newMisrecorded' = newMisrecorded \ {p}
    BY <1>14 DEF Delete
  <2>2. walked[Other(side)][p] = None
    BY <1>14 DEF Delete, CursorHolds, Justified
  <2>3. src = None /\ dst = None
    BY <2>2 DEF Sides, Other
  <2> HIDE DEF src, dst
  <2> QED BY <1>9, <2>1, <2>3
<1>15. ASSUME NEW p \in Paths, NEW side \in Sides, DeleteFails(p, side) PROVE RecordsSynced'
  <2> DEFINE src == walked["src"][p]
             dst == walked["dst"][p]
  <2>1. /\ newState' = [newState EXCEPT ![p] = Record(src, dst, KnownChecksum(p))]
        /\ UNCHANGED <<walked, stored, misrecorded>> /\ newMisrecorded' = newMisrecorded
    BY <1>15 DEF DeleteFails, VisitFailed, Visited
  <2>2. /\ walked[Other(side)][p] = None /\ cur # None /\ cur.path = p
        /\ ~ IsCopy(cur.action) /\ Target(cur.action) = side /\ phase = "files" /\ p \in todo
    BY <1>15 DEF DeleteFails, CursorHolds, Justified
  <2>3. walked[side][p] = None \/ ~ fileChanged(walked[side][p], stored[p], side)
    BY <2>2 DEF VictimKnown
  <2>4. p \notin newMisrecorded => p \notin misrecorded
    BY <2>2 DEF MisrecordedKept
  <2>5. p \notin newMisrecorded /\ walked[side][p] # None => Told(walked[side][p].mtimeMs)
    BY <2>3, <2>4, UnchangedTime DEF RecordsSynced, Synced
  <2>6. p \notin newMisrecorded' =>
            /\ src # None => Told(src.mtimeMs)
            /\ dst # None => Told(dst.mtimeMs)
            /\ src = None \/ dst = None
    BY <2>1, <2>2, <2>5 DEF Sides, Other
  <2>7. p \notin newMisrecorded' =>
            /\ src # None => Told(src.mtimeMs)'
            /\ dst # None => Told(dst.mtimeMs)'
    BY <1>1, <2>1, <2>6
  <2> QED BY <1>9, <2>1, <2>6, <2>7
<1> QED BY <1>4, <1>5, <1>6, <1>7, <1>8, <1>10, <1>11, <1>13, <1>14, <1>15 DEF Next, Engine

-----------------------------------------------------------------------------
(* What a visit leaves on the two sides. *)

\* A visit ends with a record of its path, and concerns no other.
LEMMA VisitRecords ==
    ASSUME TypeOK, CursorHolds, NEW p \in Paths,
           \/ Skip(p)
           \/ \E side \in Sides : \/ Copy(p, side) \/ CopyFails(p, side) \/ VerifyFails(p, side)
                                  \/ Delete(p, side) \/ DeleteFails(p, side)
    PROVE  /\ phase = "files" /\ phase' = "files" /\ p \in todo /\ todo' = todo \ {p}
           /\ touched \subseteq touched'
           /\ newMisrecorded \ {p} \subseteq newMisrecorded'
           /\ newState'[p] # None
           /\ \A q \in Paths : q # p => /\ newState'[q] = newState[q]
                                        /\ \A at \in Sides : fs'[at][q] = fs[at][q]
<1>0. walked["src"][p] \in Meta \cup {None} /\ walked["dst"][p] \in Meta \cup {None}
  BY DEF TypeOK, Sides
<1>1. ASSUME NEW src \in Meta \cup {None}, NEW dst \in Meta \cup {None},
             NEW checksum \in 1..MaxClock \cup {None},
             newState' = [newState EXCEPT ![p] = Record(src, dst, checksum)]
      PROVE  newState'[p] # None /\ \A q \in Paths : q # p => newState'[q] = newState[q]
  <2>1. Record(src, dst, checksum) # None
    BY RecordTyped, NoneAssumption
  <2> HIDE DEF Record
  <2> QED BY <1>1, <2>1 DEF TypeOK
<1>2. CASE Skip(p)
  <2> DEFINE checksum == IF KnownChecksum(p) # None THEN KnownChecksum(p) ELSE Backfill(p)
  <2>1. checksum \in 1..MaxClock \cup {None}
    BY ChecksumTyped
  <2>2. newState' = [newState EXCEPT ![p] = Record(walked["src"][p], walked["dst"][p], checksum)]
    BY <1>2 DEF Skip
  <2> HIDE DEF checksum
  <2>3. newState'[p] # None /\ \A q \in Paths : q # p => newState'[q] = newState[q]
    BY <1>0, <1>1, <2>1, <2>2
  <2> QED BY <1>2, <2>3 DEF Skip, disk
<1>3. ASSUME VisitFailed(p) PROVE newState'[p] # None /\ \A q \in Paths : q # p => newState'[q] = newState[q]
  <2>1. newState' = [newState EXCEPT ![p] = Record(walked["src"][p], walked["dst"][p], KnownChecksum(p))]
    BY <1>3 DEF VisitFailed, Visited
  <2> QED BY <1>0, <1>1, <2>1, ChecksumTyped
<1>4. ASSUME NEW side \in Sides, CopyFails(p, side) \/ DeleteFails(p, side)
      PROVE  VisitFailed(p) /\ fs' = fs
  BY <1>4 DEF CopyFails, DeleteFails
<1>5. ASSUME NEW side \in Sides, Copy(p, side) \/ VerifyFails(p, side)
      PROVE  \A q \in Paths, at \in Sides : q # p => fs'[at][q] = fs[at][q]
  <2>1. Replace(p, side) /\ cur # None /\ walked[Other(side)][p] # None
    BY <1>5 DEF Copy, VerifyFails, CursorHolds, Justified
  <2> QED BY <2>1, ReplaceTyped
<1>6. ASSUME NEW side \in Sides, VerifyFails(p, side) PROVE VisitFailed(p)
  BY <1>6 DEF VerifyFails
<1>7. ASSUME NEW side \in Sides, Copy(p, side)
      PROVE  newState'[p] # None /\ \A q \in Paths : q # p => newState'[q] = newState[q]
  <2> DEFINE seen == walked[Other(side)][p]
             checksum == IF Encrypted THEN KnownChecksum(p) ELSE fs[Other(side)][p].data
  <2>1. newState' = [newState EXCEPT ![p] = Record(seen, seen, checksum)]
    BY <1>7 DEF Copy, Visited
  <2>2. fs[Other(side)][p] \in Entry
    BY <1>7, SidesTyped DEF Copy, Replace, TypeOK
  <2>3. checksum \in 1..MaxClock \cup {None}
    BY <2>2, ChecksumTyped DEF Entry
  <2>4. seen \in Meta \cup {None}
    BY SidesTyped DEF TypeOK
  <2> HIDE DEF seen, checksum
  <2> QED BY <1>1, <2>1, <2>3, <2>4
<1>8. ASSUME NEW side \in Sides, Delete(p, side)
      PROVE  /\ newState'[p] # None /\ \A q \in Paths : q # p => newState'[q] = newState[q]
             /\ \A q \in Paths, at \in Sides : q # p => fs'[at][q] = fs[at][q]
  <2> DEFINE src == IF side = "src" THEN None ELSE walked["src"][p]
             dst == IF side = "dst" THEN None ELSE walked["dst"][p]
  <2>1. newState' = [newState EXCEPT ![p] = Record(src, dst, KnownChecksum(p))]
    BY <1>8 DEF Delete
  <2>2. src \in Meta \cup {None} /\ dst \in Meta \cup {None}
    BY <1>0
  <2> HIDE DEF src, dst
  <2>3. newState'[p] # None /\ \A q \in Paths : q # p => newState'[q] = newState[q]
    BY <1>1, <2>1, <2>2, ChecksumTyped
  <2> QED BY <1>8, <2>3 DEF Delete, TypeOK
<1>9. ASSUME NEW side \in Sides,
             \/ Copy(p, side) \/ CopyFails(p, side) \/ VerifyFails(p, side)
             \/ Delete(p, side) \/ DeleteFails(p, side)
      PROVE  /\ phase = "files" /\ phase' = "files" /\ p \in todo /\ todo' = todo \ {p}
             /\ touched \subseteq touched' /\ newMisrecorded \ {p} \subseteq newMisrecorded'
  <2>1. phase = "files" /\ p \in todo
    BY <1>9 DEF Copy, CopyFails, VerifyFails, Delete, DeleteFails, CursorHolds
  <2>2. phase' = phase /\ todo' = todo \ {p}
    BY <1>9 DEF Copy, CopyFails, VerifyFails, Delete, DeleteFails, VisitFailed, Visited
  <2>3. touched \subseteq touched' /\ newMisrecorded \ {p} \subseteq newMisrecorded'
    BY <1>9 DEF Copy, CopyFails, VerifyFails, Delete, DeleteFails
  <2> QED BY <2>1, <2>2, <2>3
<1>10. CASE \E side \in Sides : \/ Copy(p, side) \/ CopyFails(p, side) \/ VerifyFails(p, side)
                                \/ Delete(p, side) \/ DeleteFails(p, side)
  <2>1. PICK side \in Sides : \/ Copy(p, side) \/ CopyFails(p, side) \/ VerifyFails(p, side)
                              \/ Delete(p, side) \/ DeleteFails(p, side)
    BY <1>10
  <2>2. newState'[p] # None /\ \A q \in Paths : q # p => newState'[q] = newState[q]
    BY <2>1, <1>3, <1>4, <1>6, <1>7, <1>8
  <2>3. \A q \in Paths : q # p => \A at \in Sides : fs'[at][q] = fs[at][q]
    BY <2>1, <1>4, <1>5, <1>8
  <2> QED BY <2>1, <2>2, <2>3, <1>9
<1> QED BY <1>2, <1>10

\* A path that no walk found, and nobody touched, is on no side.
LEMMA UnwalkedAbsent ==
    ASSUME TypeOK, WalkHolds, WalkDst \/ DetectDstMoves, NEW p \in Paths, p \notin AllPaths(walked)', p \notin touched'
    PROVE  \A side \in Sides : fs'[side][p] = None
<1>1. \A side \in Sides : walked'[side][p] = None
  BY DEF AllPaths
<1>2. CASE WalkDst
  <2>1. walked'["dst"][p] = MetaOf(fs["dst"][p]) /\ walked'["src"][p] = walked["src"][p]
    BY <1>2 DEF WalkDst, TypeOK, Sides
  <2>2. fs["dst"][p] = None
    BY <1>1, <2>1, MetaOfFile DEF TypeOK, Sides
  <2>3. Pending("src", p) /\ fs' = fs /\ touched' = touched
    BY <1>2 DEF WalkDst, Pending, ghosts
  <2>4. fs["src"][p] = None
    BY <1>1, <2>1, <2>3 DEF WalkHolds, Sides
  <2> QED BY <2>2, <2>3, <2>4 DEF Sides
<1>3. CASE DetectDstMoves
  <2>1. DetectSideMoves("dst") /\ touched' = touched /\ \A at \in Sides : Pending(at, p)
    BY <1>3 DEF DetectDstMoves, DetectSideMoves, Pending
  <2>2. \A at \in Sides : walked[at][p] = None => fs[at][p] = None
    BY <2>1 DEF WalkHolds
  <2>3. "dst" \in Sides /\ Other("dst") = "src"
    BY DEF Sides, Other
  <2>4. /\ walked'["dst"] = walked["dst"] /\ fs'["dst"] = fs["dst"]
        /\ \/ walked'["src"][p] = walked["src"][p] /\ fs'["src"][p] = fs["src"][p]
           \/ fs'["src"][p] = None \/ walked'["src"][p] # None
    BY <2>1, <2>3, MovesCarry
  <2> QED BY <1>1, <2>2, <2>4 DEF Sides
<1> QED BY <1>2, <1>3

\* Two files under one mtime have one content, or the mtime is one that was moved.
LEMMA SameTime ==
    ASSUME Stamped, NEW p \in Paths, BothOrNone(p),
           fs["src"][p] # None => fs["src"][p].mtimeMs = fs["dst"][p].mtimeMs
    PROVE  Alike(p)
<1>1. CASE fs["src"][p] = None
  BY <1>1 DEF Alike, BothOrNone, SameContent
<1>2. CASE fs["src"][p] # None
  <2>1. fs["dst"][p] # None
    BY <1>2 DEF BothOrNone
  <2>2. /\ fs["src"][p].data = fs["src"][p].mtimeMs \/ fs["src"][p].mtimeMs \in restamped
        /\ fs["dst"][p].data = fs["dst"][p].mtimeMs \/ fs["dst"][p].mtimeMs \in restamped
    BY <1>2, <2>1 DEF Stamped, Sides
  <2> QED BY <1>2, <2>1, <2>2 DEF Alike, SameContent, Restamped, IsRestamped, Sides
<1> QED BY <1>1, <1>2

\* A path that is skipped without a conflict is alike on both sides.
LEMMA SkipAlike ==
    ASSUME TypeOK, TicksApart, Stamped, Apart, RecordsSynced, MisrecordedKept, WalkHolds,
           NEW p \in Paths, Skip(p), p \notin newMisrecorded', p \notin touched
    PROVE  Alike(p)
<1>1. /\ ActionFor(p) = "skip" /\ Resolved(p) # "conflict" /\ phase = "files" /\ p \in todo
      /\ p \notin newMisrecorded
  BY DEF Skip
<1>2. p \notin misrecorded
  BY <1>1 DEF MisrecordedKept
<1>3. /\ walked["src"][p] = None <=> walked["dst"][p] = None
      /\ walked["src"][p] # None => walked["src"][p].mtimeMs = walked["dst"][p].mtimeMs
  BY <1>1, <1>2, SkipSynced
<1>4. \A at \in Sides : /\ walked[at][p] = None <=> fs[at][p] = None
                        /\ fs[at][p] # None => fs[at][p].mtimeMs = walked[at][p].mtimeMs
  BY <1>1 DEF WalkHolds, Pending
<1>5. /\ BothOrNone(p)
      /\ fs["src"][p] # None => fs["src"][p].mtimeMs = fs["dst"][p].mtimeMs
  BY <1>3, <1>4 DEF BothOrNone, Sides
<1> QED BY <1>5, SameTime

\* A copy makes the path alike; a delete does where the file is gone from the other side.
LEMMA TransferAlike ==
    ASSUME TypeOK, CursorHolds, WalkHolds, NEW p \in Paths, NEW side \in Sides,
           Copy(p, side) \/ Delete(p, side), p \notin touched
    PROVE  Alike(p)'
<1>1. CASE Copy(p, side)
  <2>1. Replace(p, side) /\ cur # None /\ walked[Other(side)][p] # None
    BY <1>1 DEF Copy, CursorHolds, Justified
  <2>2. fs'[side][p] = Copied(Other(side), p) /\ fs'[side][p] # None
    BY <2>1, ReplaceTold
  <2>3. fs'[Other(side)][p] = fs[Other(side)][p] /\ fs[Other(side)][p] # None
    BY <2>1, SidesTyped, ReplaceTyped DEF Replace
  <2>4. fs'[side][p].data = fs'[Other(side)][p].data
    BY <2>2, <2>3 DEF Copied
  <2> QED BY <2>2, <2>3, <2>4 DEF Alike, BothOrNone, SameContent, Sides, Other
<1>2. CASE Delete(p, side)
  <2>1. walked[Other(side)][p] = None /\ phase = "files" /\ p \in todo
    BY <1>2 DEF Delete, CursorHolds, Justified
  <2>2. fs[Other(side)][p] = None
    BY <2>1, SidesTyped DEF WalkHolds, Pending
  <2>3. fs'[side][p] = None /\ fs'[Other(side)][p] = None
    BY <1>2, <2>2, SidesTyped DEF Delete, TypeOK
  <2> QED BY <2>3 DEF Alike, BothOrNone, SameContent, Sides, Other
<1> QED BY <1>1, <1>2

\* What is alike stays so while its files do.
LEMMA AlikeKept ==
    ASSUME NEW p \in Paths, Alike(p), \A side \in Sides : fs'[side][p] = fs[side][p],
           restamped \subseteq restamped'
    PROVE  Alike(p)'
BY DEF Alike, BothOrNone, SameContent, Restamped, IsRestamped, Sides

\* Every visit leaves its path alike, unless the user touched it, a fault hit it or history
\* marks it; and so does the run.
LEMMA AlikeStep ==
    ASSUME TypeOK, TicksApart, CursorHolds, Stamped, Apart, RecordsSynced, MisrecordedKept,
           WalkHolds, VisitedAlike, [Next]_vars
    PROVE  VisitedAlike'
<1>0. restamped \subseteq restamped'
  BY Grows
<1>1. ASSUME \A p \in Paths : p \notin touched' => \A side \in Sides : fs'[side][p] = fs[side][p],
             touched \subseteq touched',
             UNCHANGED <<phase, todo, newState, newMisrecorded, misrecorded, completed>>
      PROVE  VisitedAlike'
  BY <1>0, <1>1, AlikeKept DEF VisitedAlike
<1>2. CASE User
  <2>1. UNCHANGED <<phase, todo, newState, newMisrecorded, misrecorded, completed>> /\ touched \subseteq touched'
    BY <1>2, UserLeavesRun, UserKeeps DEF runv
  <2>2. \A at \in Sides, q \in Paths : fs'[at][q] = fs[at][q] \/ q \in touched'
    BY <1>2, UserTouches
  <2> QED BY <1>1, <2>1, <2>2
<1>3. CASE Cancel \/ (\E p \in Paths : Choose(p)) \/ UNCHANGED vars
  <2>1. /\ fs' = fs /\ touched \subseteq touched'
        /\ UNCHANGED <<phase, todo, newState, newMisrecorded, misrecorded, completed>>
    BY <1>3 DEF Cancel, Choose, disk, ghosts, vars
  <2> QED BY <1>1, <2>1
<1>4. CASE StartRun \/ DetectSrcMoves
  BY <1>4 DEF StartRun, DetectSrcMoves, VisitedAlike
<1>5. CASE WalkDst \/ DetectDstMoves
  <2>1. phase' = "files" => todo' = AllPaths(walked)'
    BY <1>5 DEF WalkDst, DetectDstMoves, AllPaths
  <2>2. phase' # "idle"
    BY <1>5 DEF WalkDst, DetectDstMoves
  <2>3. ASSUME NEW p \in Paths \ (todo' \cup touched'), phase' = "files"
        PROVE  (\A side \in Sides : fs'[side][p] = None) /\ Alike(p)'
    <3>1. \A side \in Sides : fs'[side][p] = None
      BY <1>5, <2>1, <2>3, UnwalkedAbsent
    <3> QED BY <3>1 DEF Alike, BothOrNone, SameContent, Sides
  <2> QED BY <2>2, <2>3 DEF VisitedAlike
<1>6. CASE MovesFail \/ Abort \/ Crash
  <2>1. phase' = "idle" /\ completed' = FALSE
    BY <1>6 DEF MovesFail, MovesThrow, Abort, Crash, RunThrows, EndRun
  <2> QED BY <2>1 DEF VisitedAlike
<1>7. CASE Finish
  <2>1. /\ phase = "files" /\ todo = {} /\ phase' = "idle" /\ fs' = fs /\ touched' = touched
        /\ misrecorded' = {p \in newMisrecorded : newState[p] # None}
    BY <1>7 DEF Finish, EndRun
  <2>2. ASSUME NEW p \in Paths \ (touched' \cup misrecorded') PROVE Alike(p)
    <3>1. /\ newState[p] = None => \A side \in Sides : fs[side][p] = None
          /\ p \in newMisrecorded \/ Alike(p)
      BY <2>1, <2>2 DEF VisitedAlike
    <3> QED BY <2>1, <2>2, <3>1 DEF Alike, BothOrNone, SameContent, Sides
  <2>3. \A p \in Paths \ (touched' \cup misrecorded') : Alike(p)'
    BY <1>0, <2>1, <2>2, AlikeKept
  <2> QED BY <2>1, <2>3 DEF VisitedAlike
<1>8. ASSUME NEW p \in Paths,
             /\ phase = "files" /\ phase' = "files" /\ p \in todo /\ todo' = todo \ {p}
             /\ touched \subseteq touched'
             /\ newMisrecorded \ {p} \subseteq newMisrecorded'
             /\ newState'[p] # None
             /\ \A q \in Paths : q # p => /\ newState'[q] = newState[q]
                                          /\ \A at \in Sides : fs'[at][q] = fs[at][q],
             p \in newMisrecorded' \/ p \in touched' \/ Alike(p)'
      PROVE  VisitedAlike'
  <2>1. ASSUME NEW q \in Paths \ (todo' \cup touched')
        PROVE  /\ newState'[q] = None => \A side \in Sides : fs'[side][q] = None
               /\ q \in newMisrecorded' \/ Alike(q)'
    <3>1. CASE q = p
      BY <1>8, <2>1, <3>1
    <3>2. CASE q # p
      <4>1. /\ newState[q] = None => \A side \in Sides : fs[side][q] = None
            /\ q \in newMisrecorded \/ Alike(q)
        BY <1>8, <2>1, <3>2 DEF VisitedAlike
      <4> QED BY <1>0, <1>8, <3>2, <4>1, AlikeKept
    <3> QED BY <3>1, <3>2
  <2> QED BY <1>8, <2>1 DEF VisitedAlike
<1>9. ASSUME NEW p \in Paths, Skip(p) PROVE VisitedAlike'
  <2>1. fs' = fs
    BY <1>9 DEF Skip, disk
  <2>2. p \in newMisrecorded' \/ p \in touched \/ Alike(p)
    BY <1>9, SkipAlike
  <2>3. p \in newMisrecorded' \/ p \in touched' \/ Alike(p)'
    BY <1>0, <1>9, <2>1, <2>2, AlikeKept, VisitRecords
  <2> QED BY <1>8, <1>9, <2>3, VisitRecords
<1>10. ASSUME NEW p \in Paths, NEW side \in Sides, Copy(p, side) \/ Delete(p, side) PROVE VisitedAlike'
  <2>1. p \in touched' \/ Alike(p)'
    BY <1>10, TransferAlike, VisitRecords
  <2> QED BY <1>8, <1>10, <2>1, VisitRecords
<1>11. ASSUME NEW p \in Paths, NEW side \in Sides,
              CopyFails(p, side) \/ VerifyFails(p, side) \/ DeleteFails(p, side)
       PROVE  VisitedAlike'
  <2>1. p \in touched'
    BY <1>11 DEF CopyFails, VerifyFails, DeleteFails
  <2> QED BY <1>8, <1>11, <2>1, VisitRecords
<1> QED BY <1>2, <1>3, <1>4, <1>5, <1>6, <1>7, <1>9, <1>10, <1>11 DEF Next, Engine

-----------------------------------------------------------------------------
(* No edit is lost, and a completed run converges. *)

\* A loss of what is not there, was carried across, raced an edit, lost a conflict or was
\* misrecorded is none that a run has to answer for.
LEMMA LossExcused ==
    ASSUME NEW e, NEW p, NEW why,
           \/ e = None \/ e.data \in propagated \/ p \in touched \/ IsRestamped(e)
           \/ why = "conflict" \/ p \in misrecorded
    PROVE  \A l \in Loss(e, p, why) : l.why # "clean"
BY DEF Loss, Why

\* What the action under way replaces or deletes is such.
LEMMA VictimExcused ==
    ASSUME TypeOK, TicksApart, CursorHolds, Stamped, RecordsSynced, WalkHolds, VictimKnown, cur # None
    PROVE  LET victim == fs[Target(cur.action)][cur.path] IN
           \/ victim = None \/ victim.data \in propagated \/ cur.path \in touched \/ IsRestamped(victim)
           \/ cur.why = "conflict" \/ cur.path \in misrecorded
<1> DEFINE at == Target(cur.action)
           p == cur.path
           victim == fs[at][p]
<1>1. at \in Sides /\ p \in Paths /\ phase = "files" /\ p \in todo /\ cur.why \in {"conflict", "change"}
  BY SidesTyped DEF TypeOK, Cursor, CursorHolds
<1> SUFFICES ASSUME victim # None, p \notin touched, cur.why = "change", p \notin misrecorded
             PROVE  IsRestamped(victim) \/ victim.data \in propagated
  BY <1>1
<1>2. walked[at][p] # None /\ victim.mtimeMs = walked[at][p].mtimeMs
  BY <1>1 DEF WalkHolds, Pending
<1>3. ~ fileChanged(walked[at][p], stored[p], at)
  BY <1>2 DEF VictimKnown
<1>4. /\ stored[p] # None /\ stored[p][at] # None
      /\ walked[at][p].mtimeMs = stored[p][at].mtimeMs
  BY <1>1, <1>2, <1>3, UnchangedTime
<1>5. Told(victim.mtimeMs)
  BY <1>1, <1>2, <1>4 DEF RecordsSynced, Synced
<1>6. victim.data = victim.mtimeMs \/ victim.mtimeMs \in restamped
  BY <1>1 DEF Stamped
<1> QED BY <1>5, <1>6 DEF Told, IsRestamped

\* No step destroys an edit that has not reached the other side.
LEMMA SurviveStep ==
    ASSUME RunInv, TicksApart, Stamped, RecordsSynced, WalkHolds, VictimKnown,
           UnsyncedEditsSurvive, [Next]_vars
    PROVE  UnsyncedEditsSurvive'
<1> USE DEF RunInv
<1>1. ASSUME lost' = lost PROVE UnsyncedEditsSurvive'
  BY <1>1 DEF UnsyncedEditsSurvive
<1>2. ASSUME NEW side \in Sides, DetectSideMoves(side) \/ MovesThrow(side),
             phase \in {"moveSrc", "moveDst"}
      PROVE  UnsyncedEditsSurvive'
  <2>1. PICK ms \in SUBSET Moves(side) : lost' = lost \cup OverwrittenBy(side, ms)
    BY <1>2, MovesRename
  <2>2. ASSUME NEW m \in ms PROVE fs[Other(side)][m[2]] = None \/ m[2] \in touched
    <3>1. m[2] \in Paths /\ walked[Other(side)][m[2]] = None /\ Other(side) \in Sides
      BY MovesTyped, SidesTyped
    <3> QED BY <1>2, <3>1 DEF AbsenceHolds, Pending
  <2>3. \A m \in ms : \A l \in Loss(fs[Other(side)][m[2]], m[2], "change") : l.why # "clean"
    BY <2>2, LossExcused
  <2> QED BY <2>1, <2>3 DEF UnsyncedEditsSurvive, OverwrittenBy
<1>3. CASE DetectSrcMoves \/ DetectDstMoves \/ MovesFail
  BY <1>2, <1>3 DEF DetectSrcMoves, DetectDstMoves, MovesFail, Sides
<1>4. ASSUME NEW p \in Paths, NEW side \in Sides, Copy(p, side) \/ VerifyFails(p, side) \/ Delete(p, side)
      PROVE  UnsyncedEditsSurvive'
  <2>1. cur # None /\ cur.path = p /\ Target(cur.action) = side
    BY <1>4 DEF Copy, VerifyFails, Delete
  <2>2. lost' = lost \/ lost' = lost \cup Loss(fs[side][p], p, cur.why)
    BY <1>4 DEF Copy, VerifyFails, Replace, Delete
  <2>3. \/ fs[side][p] = None \/ fs[side][p].data \in propagated \/ p \in touched \/ IsRestamped(fs[side][p])
        \/ cur.why = "conflict" \/ p \in misrecorded
    BY <2>1, VictimExcused
  <2>4. \A l \in Loss(fs[side][p], p, cur.why) : l.why # "clean"
    BY <2>3, LossExcused
  <2> QED BY <2>2, <2>4 DEF UnsyncedEditsSurvive
<1>5. ASSUME NEW p \in Paths, NEW side \in Sides, CopyFails(p, side) \/ DeleteFails(p, side)
      PROVE  lost' = lost
  BY <1>5 DEF CopyFails, DeleteFails
<1>6. ASSUME NEW p \in Paths, Skip(p) \/ Choose(p) PROVE lost' = lost
  BY <1>6 DEF Skip, Choose
<1>7. CASE User \/ StartRun \/ WalkDst \/ Finish \/ Cancel \/ Abort \/ Crash \/ UNCHANGED vars
  <2>1. lost' = lost
    BY <1>7, UserKeeps DEF StartRun, WalkDst, Finish, Cancel, Abort, Crash, RunThrows, ghosts, vars
  <2> QED BY <1>1, <2>1
<1> QED BY <1>1, <1>3, <1>4, <1>5, <1>6, <1>7 DEF Next, Engine

\* Nothing was written, walked or recorded yet.
LEMMA SyncInvInit == Init => SyncInv
<1> SUFFICES ASSUME Init PROVE SyncInv
  OBVIOUS
<1>1. \A side \in Sides, p \in Paths : fs[side][p] = None /\ walked[side][p] = None
  BY DEF Init, NoFiles
<1>2. \A p \in Paths : stored[p] = None /\ newState[p] = None
  BY DEF Init, NoFiles
<1>3. phase = "idle" /\ cur = None /\ completed = FALSE /\ lost = {}
  BY DEF Init
<1>4. NewRecords /\ RecordsSynced /\ MisrecordedKept
  BY <1>2, <1>3 DEF NewRecords, RecordsSynced, MisrecordedKept
<1>5. Stamped /\ WalkedPast /\ Apart
  BY <1>1 DEF Stamped, WalkedPast, Apart, OnSide, Sides
<1>6. WalkHolds /\ VictimKnown /\ VisitedAlike /\ UnsyncedEditsSurvive
  BY <1>3 DEF WalkHolds, Pending, VictimKnown, VisitedAlike, UnsyncedEditsSurvive
<1> QED BY <1>4, <1>5, <1>6, RunInvInit DEF SyncInv

\* The parts of the invariant together are inductive.
LEMMA SyncInvStep == ASSUME TicksApart PROVE SyncInv /\ [Next]_vars => SyncInv'
<1> SUFFICES ASSUME SyncInv, [Next]_vars PROVE SyncInv'
  OBVIOUS
<1>1. RunInv /\ TypeOK /\ CursorHolds
  BY DEF SyncInv, RunInv
<1>2. RunInv'
  BY <1>1, RunInvStep
<1>3. NewRecords' /\ MisrecordedKept'
  BY <1>1, RecordsKeptStep DEF SyncInv
<1>4. Stamped' /\ WalkedPast' /\ Apart'
  BY <1>1, StampsStep DEF SyncInv
<1>5. RecordsSynced'
  BY <1>1, RecordsSyncedStep DEF SyncInv
<1>6. WalkHolds' /\ VictimKnown'
  BY <1>1, WalkStep, VictimKnownStep DEF SyncInv
<1>7. VisitedAlike'
  BY <1>1, AlikeStep DEF SyncInv
<1>8. UnsyncedEditsSurvive'
  BY <1>1, SurviveStep DEF SyncInv
<1> QED BY <1>2, <1>3, <1>4, <1>5, <1>6, <1>7, <1>8 DEF SyncInv

\* A version that never reached the other side is destroyed only by a conflict, a race with
\* the user or a fault, or where an earlier run recorded what it did not transfer, if edits
\* are far enough apart for mtimes to tell them (resolveAction, fileChanged).
THEOREM EditsSurvive == TicksApart => (Spec => []UnsyncedEditsSurvive)
<1> SUFFICES ASSUME TicksApart PROVE Spec => []UnsyncedEditsSurvive
  OBVIOUS
<1>1. Init => SyncInv
  BY SyncInvInit
<1>2. SyncInv /\ [Next]_vars => SyncInv'
  BY SyncInvStep
<1>3. SyncInv => UnsyncedEditsSurvive
  BY DEF SyncInv
<1> QED BY <1>1, <1>2, <1>3, PTL DEF Spec

\* When a run has ended normally, both sides have the same content at every path neither
\* edited nor hit by a fault since it began, except where a failed transfer was recorded or
\* an mtime was moved to another content; whatever earlier runs left (syncBidirectional).
THEOREM RunConverges == TicksApart => (Spec => []CompletedRunConverges)
<1> SUFFICES ASSUME TicksApart PROVE Spec => []CompletedRunConverges
  OBVIOUS
<1>1. Init => SyncInv
  BY SyncInvInit
<1>2. SyncInv /\ [Next]_vars => SyncInv'
  BY SyncInvStep
<1>3. SyncInv => CompletedRunConverges
  BY DEF SyncInv, VisitedAlike, Alike, CompletedRunConverges
<1> QED BY <1>1, <1>2, <1>3, PTL DEF Spec

-----------------------------------------------------------------------------
(* A run with nothing to do does nothing. *)

\* Without encryption no file gets another size, and so no walk finds one.
LEMMA SizesStep ==
    ASSUME TypeOK, CursorHolds, ~ Encrypted, PlainSizes, [Next]_vars PROVE PlainSizes'
<1>1. ASSUME NEW at \in Sides, NEW q \in Paths, fs'[at][q] # None PROVE fs'[at][q].size = 0
  <2>1. CASE \E side \in Sides, p \in Paths : UserWrite(side, p)
    <3>1. PICK side \in Sides, p \in Paths : UserWrite(side, p)
      BY <2>1
    <3>2. fs'[at][q] = Stamp(clock + 1) \/ fs'[at][q] = fs[at][q]
      BY <3>1 DEF UserWrite, TypeOK
    <3> QED BY <1>1, <3>2 DEF PlainSizes, Stamp
  <2>2. CASE ~ \E side \in Sides, p \in Paths : UserWrite(side, p)
    <3>1. Kept(at, q) \/ Carried(at, q)
      BY <1>1, <2>2, FilesFrom
    <3>2. PICK from \in Sides, r \in Paths :
              fs[from][r] # None /\ (fs'[at][q].size = fs[from][r].size \/ fs'[at][q].size = fs[from][r].size + 0)
      BY <3>1, SidesTyped DEF Kept, Carried
    <3>3. fs[from][r].size = 0
      BY <3>2 DEF PlainSizes
    <3> QED BY <3>2, <3>3
  <2> QED BY <2>1, <2>2
<1>2. ASSUME NEW at \in Sides, NEW q \in Paths, walked'[at][q] # None PROVE walked'[at][q].size = 0
  BY <1>2, WalkedFrom DEF PlainSizes
<1> QED BY <1>1, <1>2 DEF PlainSizes

\* Until its turn comes, a path nobody touched has the metadata that was walked.
LEMMA WalkExact ==
    ASSUME TypeOK, PlainSizes, WalkHolds, NEW at \in Sides, NEW p \in Paths,
           Pending(at, p), p \notin touched
    PROVE  MetaOf(fs[at][p]) = walked[at][p]
<1> DEFINE m == walked[at][p]
           e == fs[at][p]
<1>1. /\ m = None <=> e = None
      /\ e # None => e.mtimeMs = m.mtimeMs
  BY DEF WalkHolds
<1>2. CASE e = None
  BY <1>1, <1>2 DEF MetaOf
<1>3. CASE e # None
  <2>1. m \in Meta /\ m # None
    BY <1>1, <1>3 DEF TypeOK
  <2>2. e.size = m.size
    BY <1>3, <2>1 DEF PlainSizes
  <2>3. m = [mtimeMs |-> m.mtimeMs, size |-> m.size]
    BY <2>1 DEF Meta
  <2>4. MetaOf(e) = [mtimeMs |-> e.mtimeMs, size |-> e.size]
    BY <1>3 DEF MetaOf
  <2> QED BY <1>1, <1>3, <2>2, <2>3, <2>4
<1> QED BY <1>2, <1>3

\* The record a visit makes is that of the files it leaves, unless the user touched the
\* path, a fault hit it or history marks it.
LEMMA VisitMatches ==
    ASSUME TypeOK, CursorHolds, ~ Encrypted, PlainSizes, WalkHolds, NEW p \in Paths,
           \/ Skip(p)
           \/ \E side \in Sides : \/ Copy(p, side) \/ CopyFails(p, side) \/ VerifyFails(p, side)
                                  \/ Delete(p, side) \/ DeleteFails(p, side),
           p \notin touched'
    PROVE  \A at \in Sides : MetaOf(fs'[at][p]) = Recorded(newState', p, at)
<1>1. phase = "files" /\ p \in todo /\ p \notin touched /\ newState'[p] # None
  BY VisitRecords
<1>2. \A at \in Sides : MetaOf(fs[at][p]) = walked[at][p]
  BY <1>1, WalkExact DEF Pending
<1>3. ASSUME NEW src, NEW dst, NEW checksum, newState' = [newState EXCEPT ![p] = Record(src, dst, checksum)]
      PROVE  Recorded(newState', p, "src") = src /\ Recorded(newState', p, "dst") = dst
  <2>1. newState'[p] = Record(src, dst, checksum)
    BY <1>3 DEF TypeOK
  <2> QED BY <1>1, <2>1 DEF Recorded, Record
<1>4. CASE Skip(p)
  <2> DEFINE checksum == IF KnownChecksum(p) # None THEN KnownChecksum(p) ELSE Backfill(p)
  <2>1. fs' = fs /\ newState' = [newState EXCEPT ![p] = Record(walked["src"][p], walked["dst"][p], checksum)]
    BY <1>4 DEF Skip, disk
  <2> HIDE DEF checksum
  <2> QED BY <1>2, <1>3, <2>1 DEF Sides
<1>5. ASSUME NEW side \in Sides, Copy(p, side)
      PROVE  \A at \in Sides : MetaOf(fs'[at][p]) = Recorded(newState', p, at)
  <2> DEFINE from == Other(side)
             seen == walked[from][p]
             checksum == IF Encrypted THEN KnownChecksum(p) ELSE fs[from][p].data
  <2>1. /\ newState' = [newState EXCEPT ![p] = Record(seen, seen, checksum)]
        /\ Replace(p, side) /\ cur # None /\ seen # None
    BY <1>5 DEF Copy, Visited, CursorHolds, Justified
  <2>2. fs'[side][p] = Copied(from, p) /\ fs'[side][p] # None /\ fs'[from][p] = fs[from][p] /\ fs[from][p] # None
    BY <2>1, SidesTyped, ReplaceTold, ReplaceTyped DEF Replace
  <2>3. MetaOf(fs'[from][p]) = seen
    BY <1>2, <2>2, SidesTyped
  <2>4. fs[from][p].size = 0
    BY <2>2, SidesTyped DEF PlainSizes
  <2>5. MetaOf(fs'[side][p]) = [mtimeMs |-> seen.mtimeMs, size |-> 0]
    BY <2>2, <2>4 DEF MetaOf, Copied
  <2>6. seen = [mtimeMs |-> fs[from][p].mtimeMs, size |-> 0]
    BY <1>2, <2>2, <2>4, SidesTyped DEF MetaOf
  <2>7. MetaOf(fs'[side][p]) = seen
    BY <2>5, <2>6
  <2>8. Recorded(newState', p, "src") = seen /\ Recorded(newState', p, "dst") = seen
    BY <1>3, <2>1
  <2> HIDE DEF seen
  <2> QED BY <2>3, <2>7, <2>8 DEF Sides, Other
<1>6. ASSUME NEW side \in Sides, Delete(p, side)
      PROVE  \A at \in Sides : MetaOf(fs'[at][p]) = Recorded(newState', p, at)
  <2> DEFINE src == IF side = "src" THEN None ELSE walked["src"][p]
             dst == IF side = "dst" THEN None ELSE walked["dst"][p]
  <2>1. newState' = [newState EXCEPT ![p] = Record(src, dst, KnownChecksum(p))]
    BY <1>6 DEF Delete
  <2>2. walked[Other(side)][p] = None
    BY <1>6 DEF Delete, CursorHolds, Justified
  <2>3. fs'[side][p] = None /\ fs'[Other(side)][p] = fs[Other(side)][p]
    BY <1>6, SidesTyped DEF Delete, TypeOK
  <2>4. MetaOf(fs'[side][p]) = None /\ MetaOf(fs'[Other(side)][p]) = None
    BY <1>2, <2>2, <2>3, SidesTyped DEF MetaOf
  <2>5. src = None /\ dst = None
    BY <2>2 DEF Sides, Other
  <2> HIDE DEF src, dst
  <2>6. Recorded(newState', p, "src") = None /\ Recorded(newState', p, "dst") = None
    BY <1>3, <2>1, <2>5
  <2> QED BY <2>4, <2>6 DEF Sides, Other
<1>7. ASSUME NEW side \in Sides, CopyFails(p, side) \/ VerifyFails(p, side) \/ DeleteFails(p, side)
      PROVE  FALSE
  BY <1>7 DEF CopyFails, VerifyFails, DeleteFails
<1> QED BY <1>4, <1>5, <1>6, <1>7

\* The records of a run that ends normally are those of the files.
LEMMA MatchStep ==
    ASSUME TypeOK, CursorHolds, ~ Encrypted, PlainSizes, NewRecords, WalkHolds, VisitedAlike,
           VisitsMatch, [Next]_vars
    PROVE  VisitsMatch'
<1>1. ASSUME \A p \in Paths : p \notin touched' => \A side \in Sides : fs'[side][p] = fs[side][p],
             touched \subseteq touched',
             UNCHANGED <<phase, todo, newState, newMisrecorded, misrecorded, completed, stored>>
      PROVE  VisitsMatch'
  BY <1>1 DEF VisitsMatch, Matches, Recorded
<1>2. CASE User
  <2>1. UNCHANGED <<phase, todo, newState, newMisrecorded, misrecorded, completed, stored>> /\ touched \subseteq touched'
    BY <1>2, UserLeavesRun, UserKeeps DEF runv
  <2>2. \A at \in Sides, q \in Paths : fs'[at][q] = fs[at][q] \/ q \in touched'
    BY <1>2, UserTouches
  <2> QED BY <1>1, <2>1, <2>2
<1>3. CASE Cancel \/ (\E p \in Paths : Choose(p)) \/ UNCHANGED vars
  <2>1. /\ fs' = fs /\ touched \subseteq touched'
        /\ UNCHANGED <<phase, todo, newState, newMisrecorded, misrecorded, completed, stored>>
    BY <1>3 DEF Cancel, Choose, disk, ghosts, vars
  <2> QED BY <1>1, <2>1
<1>4. CASE StartRun \/ DetectSrcMoves
  BY <1>4 DEF StartRun, DetectSrcMoves, VisitsMatch
<1>5. CASE WalkDst \/ DetectDstMoves
  <2>1. phase' = "files" => todo' = AllPaths(walked)'
    BY <1>5 DEF WalkDst, DetectDstMoves, AllPaths
  <2>2. phase' # "idle" /\ \A p \in Paths : newState'[p] = None
    BY <1>5 DEF WalkDst, DetectDstMoves, DetectSideMoves, NewRecords
  <2>3. ASSUME NEW p \in Paths \ (todo' \cup touched'), phase' = "files"
        PROVE  Matches(newState, p)'
    <3>1. \A side \in Sides : fs'[side][p] = None
      BY <1>5, <2>1, <2>3, UnwalkedAbsent
    <3> QED BY <2>2, <3>1 DEF Matches, Recorded, MetaOf
  <2> QED BY <2>2, <2>3 DEF VisitsMatch
<1>6. CASE MovesFail \/ Abort \/ Crash
  <2>1. phase' = "idle" /\ completed' = FALSE
    BY <1>6 DEF MovesFail, MovesThrow, Abort, Crash, RunThrows, EndRun
  <2> QED BY <2>1 DEF VisitsMatch
<1>7. CASE Finish
  <2>1. /\ phase = "files" /\ todo = {} /\ phase' = "idle" /\ fs' = fs /\ touched' = touched
        /\ stored' = newState
        /\ misrecorded' = {p \in newMisrecorded : newState[p] # None}
    BY <1>7 DEF Finish, EndRun
  <2>2. ASSUME NEW p \in Paths \ (touched' \cup misrecorded') PROVE Matches(newState, p)
    <3>1. newState[p] = None => \A side \in Sides : fs[side][p] = None
      BY <2>1, <2>2 DEF VisitedAlike
    <3>2. p \in newMisrecorded \/ Matches(newState, p)
      BY <2>1, <2>2 DEF VisitsMatch
    <3>3. newState[p] = None => Matches(newState, p)
      BY <3>1 DEF Matches, Recorded, MetaOf
    <3> QED BY <2>1, <2>2, <3>2, <3>3
  <2>3. \A p \in Paths \ (touched' \cup misrecorded') : Matches(stored, p)'
    BY <2>1, <2>2 DEF Matches, Recorded
  <2> QED BY <2>1, <2>3 DEF VisitsMatch
<1>8. ASSUME NEW p \in Paths,
             \/ Skip(p)
             \/ \E side \in Sides : \/ Copy(p, side) \/ CopyFails(p, side) \/ VerifyFails(p, side)
                                    \/ Delete(p, side) \/ DeleteFails(p, side)
      PROVE  VisitsMatch'
  <2>1. /\ phase = "files" /\ phase' = "files" /\ p \in todo /\ todo' = todo \ {p}
        /\ touched \subseteq touched'
        /\ newMisrecorded \ {p} \subseteq newMisrecorded'
        /\ \A q \in Paths : q # p => /\ newState'[q] = newState[q]
                                     /\ \A at \in Sides : fs'[at][q] = fs[at][q]
    BY <1>8, VisitRecords
  <2>2. ASSUME NEW q \in Paths \ (todo' \cup touched' \cup newMisrecorded') PROVE Matches(newState, q)'
    <3>1. CASE q = p
      <4>1. \A at \in Sides : MetaOf(fs'[at][p]) = Recorded(newState', p, at)
        BY <1>8, <2>2, <3>1, VisitMatches
      <4> QED BY <3>1, <4>1 DEF Matches, Recorded
    <3>2. CASE q # p
      <4>1. Matches(newState, q)
        BY <2>1, <2>2, <3>2 DEF VisitsMatch
      <4> QED BY <2>1, <3>2, <4>1 DEF Matches, Recorded
    <3> QED BY <3>1, <3>2
  <2> QED BY <2>1, <2>2 DEF VisitsMatch
<1> QED BY <1>2, <1>3, <1>4, <1>5, <1>6, <1>7, <1>8 DEF Next, Engine

\* Where every file is as recorded, no path was renamed.
LEMMA NoMoves ==
    ASSUME TypeOK, WalkHolds, NEW side \in Sides, phase \in {"moveSrc", "moveDst"}, touched = {},
           \A p \in Paths : Matches(stored, p)
    PROVE  AddedOn(side) = {} /\ Moves(side) = {}
<1>1. ASSUME NEW p \in Paths, walked[side][p] # None PROVE stored[p] # None
  <2>1. Pending(side, p)
    BY DEF Pending
  <2>2. fs[side][p] # None
    BY <1>1, <2>1 DEF WalkHolds
  <2>3. MetaOf(fs[side][p]) # None
    BY <2>2, MetaOfFile DEF TypeOK
  <2> QED BY <2>3 DEF Matches, Recorded
<1> QED BY <1>1 DEF AddedOn, Moves

\* Where every file is as recorded, there is nothing to do (resolveAction).
LEMMA NothingToDo ==
    ASSUME TypeOK, PlainSizes, WalkHolds, NEW p \in Paths, phase = "files", p \in todo, touched = {},
           Matches(stored, p), BothOrNone(p)
    PROVE  ActionFor(p) = "skip"
<1>1. \A at \in Sides : walked[at][p] = Recorded(stored, p, at)
  BY WalkExact DEF Matches, Pending
<1>2. walked["src"][p] = None <=> walked["dst"][p] = None
  BY DEF WalkHolds, Pending, BothOrNone, Sides
<1>3. ASSUME NEW at \in Sides, walked[at][p] # None
      PROVE  stored[p] # None /\ ~ fileChanged(walked[at][p], stored[p], at)
  <2>1. stored[p] # None /\ stored[p][at] = walked[at][p]
    BY <1>1, <1>3 DEF Recorded
  <2>2. walked[at][p].mtimeMs \in Int
    BY <1>3 DEF TypeOK, Meta
  <2>3. mtimeEqual(walked[at][p].mtimeMs, walked[at][p].mtimeMs)
    BY <2>2, ConfigAssumption DEF mtimeEqual, AbsDiff
  <2> QED BY <1>3, <2>1, <2>3 DEF fileChanged
<1>4. Resolved(p) = "skip"
  <2>1. CASE walked["src"][p] = None
    BY <1>2, <2>1 DEF Resolved, resolveAction
  <2>2. CASE walked["src"][p] # None
    <3>1. /\ walked["dst"][p] # None /\ stored[p] # None
          /\ ~ fileChanged(walked["src"][p], stored[p], "src")
          /\ ~ fileChanged(walked["dst"][p], stored[p], "dst")
      BY <1>2, <1>3, <2>2 DEF Sides
    <3> QED BY <2>2, <3>1 DEF Resolved, resolveAction
  <2> QED BY <2>1, <2>2
<1> QED BY <1>4 DEF ActionFor

\* Every step but the beginning of a run keeps how the run began, and what was touched.
LEMMA RunGoesOn ==
    ASSUME TypeOK, [Next]_vars, phase # "idle"
    PROVE  settled' = settled /\ touched \subseteq touched'
<1>1. CASE User \/ Cancel \/ WalkDst \/ Finish \/ Abort \/ Crash \/ UNCHANGED vars
  BY <1>1, UserLeavesRun, UserKeeps DEF Cancel, WalkDst, Finish, Abort, Crash, RunThrows, ghosts, vars
<1>2. CASE DetectSrcMoves \/ DetectDstMoves \/ MovesFail
  BY <1>2 DEF DetectSrcMoves, DetectDstMoves, DetectSideMoves, MovesFail, MovesThrow
<1>3. ASSUME NEW p \in Paths, Skip(p) \/ Choose(p) PROVE settled' = settled /\ touched \subseteq touched'
  BY <1>3 DEF Skip, Choose
<1>4. ASSUME NEW p \in Paths, NEW side \in Sides, Copy(p, side) \/ CopyFails(p, side) \/ VerifyFails(p, side)
      PROVE  settled' = settled /\ touched \subseteq touched'
  BY <1>4 DEF Copy, CopyFails, VerifyFails, VisitFailed, Visited
<1>5. ASSUME NEW p \in Paths, NEW side \in Sides, Delete(p, side) \/ DeleteFails(p, side)
      PROVE  settled' = settled /\ touched \subseteq touched'
  BY <1>5 DEF Delete, DeleteFails, VisitFailed, Visited
<1>6. ~ StartRun
  BY DEF StartRun
<1> QED BY <1>1, <1>2, <1>3, <1>4, <1>5, <1>6 DEF Next, Engine

\* A quiet run changes no file, and goes on so until it saves its records.
LEMMA QuietStep ==
    ASSUME QuietInv, [Next]_vars, phase # "idle", settled, touched' = {}
    PROVE  /\ fs' = fs
           /\ phase' # "idle" => cur' = None /\ stored' = stored
<1>0. /\ TypeOK /\ CursorHolds /\ PlainSizes /\ WalkHolds /\ touched = {} /\ cur = None
      /\ \A p \in Paths : Matches(stored, p) /\ BothOrNone(p)
  BY RunGoesOn DEF QuietInv, SyncInv, RunInv, QuietGoes
<1>1. ASSUME User PROVE FALSE
  BY <1>1 DEF User, UserWrite, UserDelete, UserRename
<1>2. CASE Cancel \/ UNCHANGED vars
  BY <1>0, <1>2 DEF Cancel, disk, vars
<1>3. CASE WalkDst
  BY <1>0, <1>3 DEF WalkDst
<1>4. CASE Finish \/ Abort \/ Crash
  BY <1>4 DEF Finish, Abort, Crash, RunThrows, EndRun
<1>5. ASSUME NEW side \in Sides, DetectSideMoves(side), phase \in {"moveSrc", "moveDst"}
      PROVE  fs' = fs /\ cur' = None /\ stored' = stored
  <2> DEFINE mirror == Other(side)
  <2>1. Moves(side) = {}
    BY <1>0, <1>5, NoMoves
  <2>2. fs' = [fs EXCEPT ![mirror] = AfterMoves(side, Moves(side), fs[mirror])]
        /\ cur' = cur /\ stored' = stored
    BY <1>5 DEF DetectSideMoves
  <2>3. fs[mirror] \in [Paths -> Entry \cup {None}] /\ fs \in [Sides -> [Paths -> Entry \cup {None}]]
    BY <1>0, SidesTyped DEF TypeOK
  <2> DEFINE f == fs[mirror]
  <2>4. AfterMoves(side, {}, f) = [p \in Paths |-> f[p]]
    BY DEF AfterMoves
  <2>5. AfterMoves(side, Moves(side), f) = f
    BY <2>1, <2>3, <2>4
  <2>6. fs' = fs
    BY <2>2, <2>3, <2>5
  <2> QED BY <1>0, <2>2, <2>6
<1>6. CASE DetectSrcMoves \/ DetectDstMoves
  BY <1>5, <1>6 DEF DetectSrcMoves, DetectDstMoves, Sides
<1>7. ASSUME MovesFail PROVE FALSE
  <2>1. PICK side \in Sides : MovesThrow(side) /\ phase \in {"moveSrc", "moveDst"}
    BY <1>7 DEF MovesFail, Sides
  <2>2. AddedOn(side) = {} /\ Moves(side) = {}
    BY <1>0, <2>1, NoMoves
  <2>3. MovesComplete(side)
    BY <2>2 DEF MovesComplete, HashThrows, Renamable
  <2> QED BY <2>1, <2>3 DEF MovesThrow
<1>8. ASSUME NEW p \in Paths, Skip(p) PROVE fs' = fs /\ cur' = None /\ stored' = stored
  BY <1>0, <1>8 DEF Skip, disk
<1>9. ASSUME NEW p \in Paths, Choose(p) PROVE FALSE
  BY <1>0, <1>9, NothingToDo DEF Choose
<1>10. ASSUME NEW p \in Paths, NEW side \in Sides,
              Copy(p, side) \/ CopyFails(p, side) \/ VerifyFails(p, side) \/ Delete(p, side) \/ DeleteFails(p, side)
       PROVE  FALSE
  BY <1>0, <1>10 DEF Copy, CopyFails, VerifyFails, Delete, DeleteFails
<1>11. ~ StartRun
  BY DEF StartRun
<1> QED BY <1>1, <1>2, <1>3, <1>4, <1>6, <1>7, <1>8, <1>9, <1>10, <1>11 DEF Next, Engine

\* Every file stays as recorded while a quiet run lasts.
LEMMA QuietGoesStep == ASSUME QuietInv, [Next]_vars PROVE QuietGoes'
<1> SUFFICES ASSUME phase' # "idle", settled', touched' = {} PROVE QuietGoes'
  BY DEF QuietGoes
<1>1. CASE phase # "idle"
  <2>1. settled /\ touched = {}
    BY <1>1, RunGoesOn DEF QuietInv, SyncInv, RunInv
  <2>2. fs' = fs /\ cur' = None /\ stored' = stored
    BY <1>1, <2>1, QuietStep
  <2>3. \A p \in Paths : Matches(stored, p) /\ BothOrNone(p)
    BY <1>1, <2>1 DEF QuietInv, QuietGoes
  <2> QED BY <2>2, <2>3 DEF QuietGoes, Matches, Recorded, BothOrNone
<1>2. CASE phase = "idle"
  <2>1. CursorHolds /\ VisitedAlike /\ VisitsMatch
    BY DEF QuietInv, SyncInv, RunInv
  <2>2. cur = None
    BY <1>2, <2>1 DEF CursorHolds
  <2>3. StartRun
    <3>1. ~ (User \/ UNCHANGED vars)
      BY <1>2, UserKeeps DEF vars
    <3>2. ~ Engine
      BY <1>2, <2>2 DEF Engine, WalkDst, DetectSrcMoves, DetectDstMoves, MovesFail, Skip, Choose,
              Copy, CopyFails, VerifyFails, Delete, DeleteFails, Finish, Abort
    <3>3. ~ (Cancel \/ Crash)
      BY <1>2 DEF Cancel, Crash
    <3> QED BY <3>1, <3>2, <3>3 DEF Next
  <2>4. /\ completed /\ touched = {} /\ misrecorded = {} /\ UNCHANGED <<fs, stored, cur>>
    BY <2>3 DEF StartRun
  <2>5. \A p \in Paths : Matches(stored, p) /\ BothOrNone(p)
    BY <1>2, <2>1, <2>4 DEF VisitedAlike, VisitsMatch, Alike
  <2> QED BY <2>2, <2>4, <2>5 DEF QuietGoes, Matches, Recorded, BothOrNone
<1> QED BY <1>1, <1>2

\* The invariant of plain jobs is inductive.
LEMMA QuietInvStep == ASSUME TicksApart, ~ Encrypted PROVE QuietInv /\ [Next]_vars => QuietInv'
<1> SUFFICES ASSUME QuietInv, [Next]_vars PROVE QuietInv'
  OBVIOUS
<1>1. SyncInv'
  BY SyncInvStep DEF QuietInv
<1>2. PlainSizes'
  BY SizesStep DEF QuietInv, SyncInv, RunInv
<1>3. VisitsMatch'
  BY MatchStep DEF QuietInv, SyncInv, RunInv
<1> QED BY <1>1, <1>2, <1>3, QuietGoesStep DEF QuietInv

\* A run of a plain job that starts where a completed run left off, with no edit since,
\* changes neither side, if mtimes tell edits apart (fileChanged against the records).
THEOREM QuietNoop == TicksApart /\ ~ Encrypted => (Spec => QuietRunIsNoop)
<1> SUFFICES ASSUME TicksApart, ~ Encrypted PROVE Spec => QuietRunIsNoop
  OBVIOUS
<1>1. Init => QuietInv
  <2> SUFFICES ASSUME Init PROVE QuietInv
    OBVIOUS
  <2>1. \A side \in Sides, p \in Paths : fs[side][p] = None /\ walked[side][p] = None
    BY DEF Init, NoFiles
  <2>2. phase = "idle" /\ completed = FALSE
    BY DEF Init
  <2> QED BY <2>1, <2>2, SyncInvInit DEF QuietInv, PlainSizes, VisitsMatch, QuietGoes
<1>2. QuietInv /\ [Next]_vars => QuietInv'
  BY QuietInvStep
<1>3. QuietInv /\ [Next]_vars => [settled /\ touched' = {} /\ phase # "idle" => fs' = fs]_vars
  BY QuietStep
<1> QED BY <1>1, <1>2, <1>3, PTL DEF Spec, QuietRunIsNoop
=============================================================================
