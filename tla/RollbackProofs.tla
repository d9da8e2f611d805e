--------------------------- MODULE RollbackProofs ---------------------------
(***************************************************************************)
(* The one-way engine and its rollbacks keep all their promises, for any   *)
(* paths, files, job settings, faults, runs and requests.                  *)
(*                                                                         *)
(* To the engine every step is one of a few: a step of its own, the death  *)
(* of the run, a file changed by somebody else (a user or a rollback), or  *)
(* rest (EngineCases).  Its invariant, in eight parts, is about those.     *)
(* Only two of its parts reach the rollbacks: the types, and that the      *)
(* manifest of a run says what it found.  When the run ends it becomes a   *)
(* log entry that says so (NotedInv), and goes on saying so at every path  *)
(* nothing else has changed; hence an entry that was undone is restored.   *)
(***************************************************************************)
EXTENDS Rollback, TLAPS

-----------------------------------------------------------------------------
(* The invariant of the engine. *)

\* A user's files are smaller than what encryption makes of them.
SourceSizes == \A p \in Paths : fs["src"][p] # None => fs["src"][p].size \in {1, 2}

\* Where a run is and what it has at hand there.
RunShape ==
    /\ phase \in {"idle", "walkDst"} => cur = None /\ todo = {} /\ manifest = NoFiles
    /\ phase = "walkDst" => lost = {}
    /\ phase # "idle" => runs > 0 /\ ~completed
    /\ phase \in {"copy", "delete"} => job.mode = "sync"
    /\ phase = "import" => job.mode = "import"
    /\ phase \in {"copy", "import"} => \A p \in todo : walked["src"][p] # None
    /\ phase = "delete" => todo \subseteq DeleteCandidates

\* What is being copied or deleted.
CursorShape ==
    cur # None =>
        /\ cur.path \in todo
        /\ cur.kind = "delete" <=> phase = "delete"
        /\ phase # "import" => cur.target = cur.path
        /\ phase = "import" => /\ cur.target = job.importTo[cur.path]
                               /\ walked["dst"][cur.target] = None

\* A target file the run does not know of, or is about to replace or remove, is
\* excused or backed up.
KeptInv ==
    /\ TargetWalked => \A p \in Paths : fs["dst"][p] # None /\ walked["dst"][p] = None
                                           => <<p, fs["dst"][p].data>> \in late
    /\ cur # None => LossAt(cur.target) \subseteq late
    /\ lost \subseteq late

\* What the run's walks saw at a path nothing disturbed is what is there, but for
\* the size of what was encrypted.
Seen(m, e) == IF e = None THEN m = None
              ELSE /\ m # None /\ m.mtimeMs = e.mtimeMs
                   /\ ~job.encrypted => m.size = e.size

SeenInv ==
    \A p \in Paths \ touched :
        /\ phase # "idle" => walked["src"][p] = MetaOf(fs["src"][p])
        /\ TargetWalked => Seen(walked["dst"][p], fs["dst"][p])

\* What a policy deletes of what the run found.
Deletable(p) ==
    \/ job.policy = "mirror"
    \/ /\ job.policy = "backup-with-deletes"
       /\ before[p] # None /\ stored[p] # None /\ stored[p].dst = MetaOf(before[p])

\* What became of the target at such a path.
BecameInv ==
    phase \in {"copy", "delete"} =>
        \A p \in Paths \ touched :
            IF walked["src"][p] # None
            THEN fs["dst"][p] # None =>
                    fs["dst"][p].data = fs["src"][p].data \/ fs["dst"][p] = before[p]
            ELSE IF phase = "copy" \/ p \in todo
            THEN fs["dst"][p] = before[p] /\ walked["dst"][p] = MetaOf(before[p])
            ELSE fs["dst"][p] = IF Deletable(p) THEN None ELSE before[p]

\* The paths a run is done with need nothing more.
DoneInv ==
    \A p \in Paths \ touched : walked["src"][p] # None =>
        /\ phase = "delete" \/ (phase = "copy" /\ p \notin todo) =>
              /\ walked["dst"][p] # None
              /\ ~NeedsCopy(walked["src"][p], walked["dst"][p])
        /\ phase = "import" /\ p \notin todo /\ job.importTo[p] \notin touched =>
              /\ walked["dst"][job.importTo[p]] # None
              /\ ~job.encrypted => walked["dst"][job.importTo[p]] = walked["src"][p]

\* Nothing is left to do at a path.
Quiet(p) ==
    IF job.mode = "import"
    THEN fs["src"][p] # None /\ job.importTo[p] \notin touched => fs["dst"][job.importTo[p]] # None
    ELSE IF fs["src"][p] # None
    THEN fs["dst"][p] # None /\ ~NeedsCopy(MetaOf(fs["src"][p]), MetaOf(fs["dst"][p]))
    ELSE \/ fs["dst"][p] = None \/ job.policy = "backup"
         \/ job.policy = "backup-with-deletes" /\ stored[p] = None

\* After a completed run, and during a run that began after one.
QuietInv ==
    (IF phase = "idle" THEN completed ELSE settled) => \A p \in Paths \ touched : Quiet(p)

\* The manifest says what the run found at every path nobody else has changed.
Noted(entry, found) ==
    IF entry.action = "created" THEN found = None ELSE entry.backup = found

ManifestInv ==
    phase \in {"copy", "delete"} =>
        /\ \A p \in Paths \ dirty :
              IF manifest[p] = None
              THEN fs["dst"][p] = before[p] /\ walked["dst"][p] = MetaOf(before[p])
              ELSE Noted(manifest[p], before[p])
        /\ \A p \in todo : manifest[p] # None => cur # None /\ cur.path = p
        /\ phase = "copy" => \A p \in Paths : manifest[p] # None => walked["src"][p] # None
        /\ cur # None => manifest[cur.target] # None

-----------------------------------------------------------------------------
(* The invariant of the rollbacks. *)

\* Log entries are of finished runs, and requests of log entries.
LogInv ==
    /\ \A r \in RunIds : status[r] # "none" => r < runs \/ (r = runs /\ phase = "idle")
    /\ \A a \in Attempts :
          IF attempts[a].stage = "unused" THEN attempts[a].todo = {}
          ELSE /\ attempts[a].log \in RunIds /\ status[attempts[a].log] # "none"
               /\ attempts[a].checkedAt <= runs
               /\ \A p \in attempts[a].todo : manifests[attempts[a].log][p] # None
    /\ pending # 0 => status[pending] # "none"

\* A log entry says what its run found.
NotedInv ==
    \A r \in RunIds : status[r] # "none" =>
        \A p \in Paths \ spoilt[r] :
            IF manifests[r][p] = None THEN fs["dst"][p] = origin[r][p]
            ELSE Noted(manifests[r][p], origin[r][p])

\* Rollbacks whose end the server hears of, and has not dealt with.
Awaited == {"sent", "undoing", "complete", "error", "restored", "failed"}

\* As long as no two runs' rollbacks were under way at once there is one rollback,
\* and what the server awaits is its log entry, or nothing any more.
OneRollback ==
    ~crossed =>
        /\ \A a, b \in Attempts : UnderWay(a) /\ UnderWay(b) => a = b
        /\ \A a \in Attempts : attempts[a].stage \in Awaited => pending \in {0, attempts[a].log}

\* The job's row tells of a run at work.
BusyInv ==
    phase # "idle" /\ ~misled =>
        /\ busy
        /\ \A a \in Attempts : attempts[a].stage = "checked" => attempts[a].checkedAt < runs

\* The server deals with an answer (job:rollback:complete, job:rollback:error).
Answering(a) == \/ AnswerHeard(a) \/ RowWritten(a) \/ CompleteEnds(a)
                \/ MadeAvailable(a) \/ ErrorEnds(a)

-----------------------------------------------------------------------------
(* Lemmas about the trees and the data in them. *)

\* A change of one place of one tree.
LEMMA TreeEdit ==
    ASSUME NEW S, NEW f \in [Sides -> [Paths -> S]], NEW s \in Sides, NEW p \in Paths,
           NEW e \in S
    PROVE  LET g == [f EXCEPT ![s][p] = e] IN
           /\ g \in [Sides -> [Paths -> S]]
           /\ \A u \in Sides, q \in Paths : g[u][q] = IF u = s /\ q = p THEN e ELSE f[u][q]
           /\ \A u \in Sides \ {s} : g[u] = f[u]
OBVIOUS

\* A walk sees of a file its time and size, and nothing of what is not there.
LEMMA MetaFacts ==
    ASSUME NEW e \in Entry \cup {None}
    PROVE  /\ MetaOf(e) \in Meta \cup {None}
           /\ MetaOf(e) = None <=> e = None
           /\ e # None => MetaOf(e).mtimeMs = e.mtimeMs /\ MetaOf(e).size = e.size
BY OneWayNone DEF MetaOf, Entry, Meta

\* The bounds of a behaviour are within the bounds of the model.
LEMMA BudgetFacts ==
    ASSUME OneWayTypeOK
    PROVE  /\ budget.edits \in 0..MaxClock /\ budget.faults \in 0..MaxFaults
           /\ budget.runs \in 0..MaxRuns /\ budget.breaks \in 0..MaxFaults
           /\ budget.requests \in 0..MaxRequests
BY DEF OneWayTypeOK, Budget

\* A fault is within them.
LEMMA FaultType == ASSUME OneWayTypeOK, Fault PROVE faults' \in 0..MaxFaults
BY BudgetFacts, OneWayAssumption DEF OneWayTypeOK, Fault

\* A walk leaves what it did not walk alone, and what it did in its types.
LEMMA WalkType ==
    ASSUME OneWayTypeOK, NEW side \in Sides, Walk(side)
    PROVE  /\ walked' \in [Sides -> [Paths -> Meta \cup {None}]]
           /\ faults' \in 0..MaxFaults
           /\ \A s \in Sides \ {side} : walked'[s] = walked[s]
<1>1. \A p \in Paths : MetaOf(fs[side][p]) \in Meta \cup {None}
  BY MetaFacts DEF OneWayTypeOK
<1>2. faults' \in 0..MaxFaults
  BY FaultType DEF Walk, OneWayTypeOK
<1>3. \E m \in [Paths -> Meta \cup {None}] : walked' = [walked EXCEPT ![side] = m]
  BY <1>1 DEF Walk
<1> QED BY <1>2, <1>3 DEF OneWayTypeOK

-----------------------------------------------------------------------------
(* What the steps of Rollback are to the engine. *)

\* A step of the server, or of a rollback that changes no file.
Rests == /\ UNCHANGED <<disk, runv, runs, ghosts>>
         /\ clock' \in 0..MaxClock /\ faults' \in 0..MaxFaults

\* A file is changed by a user or by a rollback.
Disturbed(side, p, e) ==
    /\ fs' = [fs EXCEPT ![side][p] = e]
    /\ side = "src" /\ e # None => e.size \in {1, 2}
    /\ touched' = touched \cup {p}
    /\ dirty' = IF side = "dst" THEN dirty \cup {p} ELSE dirty
    /\ late' = IF side = "dst" /\ e # None /\ TargetWalked
               THEN late \cup {<<p, e.data>>} ELSE late
    /\ backups \subseteq backups' /\ backups' \subseteq Versions
    /\ clock' \in 0..MaxClock /\ faults' \in 0..MaxFaults
    /\ UNCHANGED <<budget, job, stored, runv, runs, before, lost, completed, settled>>

Disturbance ==
    \E side \in Sides, p \in Paths, e \in Entry \cup {None} : Disturbed(side, p, e)

\* A run ends without saving anything.
Dies == RunOver /\ UNCHANGED <<disk, bounds, ghosts>>

PathStep(p) == Skip(p) \/ Choose(p) \/ ChooseDelete(p) \/ ImportSkip(p) \/ ImportChoose(p)

EngineStep ==
    \/ Rests \/ Disturbance \/ Dies
    \/ StartRun \/ WalkDst \/ StartDeletes
    \/ Copy \/ CopyFails \/ VerifyFails \/ Delete \/ DeleteFails
    \/ Cancel \/ ImportFinish \/ Finish
    \/ \E p \in Paths : PathStep(p)

\* A user's change is a disturbance (UserWrite, UserDelete).
LEMMA UserDisturbs == ASSUME OneWayTypeOK, User PROVE Disturbance
<1>1. PICK side \in Sides, p \in Paths : UserWrite(side, p) \/ UserDelete(side, p)
  BY DEF User
<1>2. clock \in Nat /\ budget.edits \in Nat /\ budget.edits <= MaxClock
  BY BudgetFacts, OneWayAssumption DEF OneWayTypeOK
<1>3. CASE UserDelete(side, p)
  <2>1. Disturbed(side, p, None)
    BY <1>2, <1>3, OneWayAssumption DEF UserDelete, UserChange, Disturbed, bounds, OneWayTypeOK
  <2> QED BY <2>1 DEF Disturbance
<1>4. CASE UserWrite(side, p)
  <2>1. PICK edit \in Edits :
           UserChange(side, p, [data |-> clock + 2, size |-> edit.size,
                                mtimeMs |-> IF edit.old THEN 0 ELSE clock + 1])
    BY <1>4 DEF UserWrite
  <2> DEFINE e == [data |-> clock + 2, size |-> edit.size,
                   mtimeMs |-> IF edit.old THEN 0 ELSE clock + 1]
  <2>2. clock < MaxClock
    BY <1>2, <2>1, OneWayAssumption DEF UserChange
  <2>3. edit.size \in {1, 2}
    BY OneWayAssumption DEF UserEdits
  <2>4. e \in Entry /\ e.size \in {1, 2}
    BY <1>2, <2>2, <2>3, OneWayAssumption DEF Entry, Contents, Torn, Times, Sizes
  <2>5. UserChange(side, p, e)
    BY <2>1
  <2> HIDE DEF e
  <2>6. Disturbed(side, p, e)
    BY <1>2, <2>2, <2>4, <2>5, OneWayAssumption DEF UserChange, Disturbed, OneWayTypeOK
  <2> QED BY <2>4, <2>6 DEF Disturbance
<1> QED BY <1>1, <1>3, <1>4

\* A mixture of two writes is still a file.
LEMMA MixedEntry ==
    ASSUME NEW old \in Entry
    PROVE  [old EXCEPT !.data = Torn] \in Entry /\ [old EXCEPT !.data = Torn].data = Torn
BY OneWayAssumption DEF Entry, Contents, Torn

\* So is what a rollback writes or removes, and its failures change no file
\* (performRollback).
LEMMA UndoDisturbs ==
    ASSUME RollbackTypeOK, RunShape, NEW a \in Attempts, NEW p \in Paths,
           attempts[a].log \in RunIds, manifests[attempts[a].log][p] # None, UndoEntry(a, p)
    PROVE  Disturbance \/ Rests
<1> DEFINE r == attempts[a].log
           m == manifests[r][p]
<1> USE DEF RollbackTypeOK, Disturbance
<1>1. m \in RollbackFileEntry /\ m.backup \in Entry \cup {None}
  BY DEF Manifest, RollbackFileEntry
<1>2. fs["dst"][p] # None => <<p, fs["dst"][p].data>> \in Versions
  BY DEF OneWayTypeOK, Sides, Entry, Versions
<1>3. faults' \in 0..MaxFaults /\ clock' \in 0..MaxClock
  BY FaultType DEF UndoEntry, UndoCreated, UndoReplaced, UndoFails, OneWayTypeOK
<1>4. CASE UndoCreated(r, p)
  <2>1. Disturbed("dst", p, None)
    BY <1>2, <1>3, <1>4 DEF UndoEntry, UndoCreated, Undone, Disturbed, runv, OneWayTypeOK
  <2> QED BY <2>1 DEF Sides
<1>5. CASE UndoReplaced(r, p) /\ Undone(r, p, m.backup)
  <2>1. Disturbed("dst", p, m.backup)
    BY <1>3, <1>5 DEF UndoEntry, UndoReplaced, Undone, Disturbed, runv, OneWayTypeOK
  <2> QED BY <1>1, <2>1 DEF Sides
<1>6. CASE UndoReplaced(r, p) /\ ~Undone(r, p, m.backup)
  <2> DEFINE e == [m.backup EXCEPT !.data = Torn]
  <2>1. m.backup \in Entry
    BY <1>1, <1>6 DEF UndoReplaced
  <2>2. e \in Entry /\ e.data = Torn
    BY <2>1, MixedEntry
  <2>3. e # None
    BY <2>2, OneWayNone
  <2>4. TargetWalked
    BY <1>6 DEF UndoReplaced, RunShape, TargetWalked, OneWayTypeOK, Phases
  <2>5. /\ fs' = [fs EXCEPT !["dst"][p] = e] /\ late' = late \cup {<<p, Torn>>}
        /\ touched' = touched \cup {p} /\ dirty' = dirty \cup {p} /\ backups' = backups
    BY <1>6 DEF UndoReplaced
  <2> HIDE DEF e
  <2>6. Disturbed("dst", p, e)
    BY <1>3, <2>2, <2>3, <2>4, <2>5 DEF UndoEntry, Disturbed, runv, OneWayTypeOK
  <2> QED BY <2>2, <2>6 DEF Sides
<1>7. CASE UndoFails(r, p)
  BY <1>3, <1>7 DEF UndoEntry, UndoFails, Rests, disk, runv, ghosts
<1> QED BY <1>4, <1>5, <1>6, <1>7 DEF UndoEntry

\* Every step is one of these to the engine.
LEMMA EngineCases ==
    ASSUME RollbackTypeOK, RunShape, LogInv, [RollbackNext]_allVars
    PROVE  EngineStep
<1> USE DEF EngineStep
<1>1. ASSUME RunStarts PROVE EngineStep
  BY <1>1 DEF RunStarts, Beside
<1>2. ASSUME RunGoesOn PROVE EngineStep
  <2>1. CASE User
    BY <2>1, UserDisturbs DEF RollbackTypeOK
  <2>2. CASE OneWayRun
    BY <2>2 DEF OneWayRun, Abort, Dies, PathStep
  <2> QED BY <1>2, <2>1, <2>2 DEF RunGoesOn, Beside
<1>3. ASSUME RunFinishes PROVE EngineStep
  BY <1>3 DEF RunFinishes
<1>4. ASSUME AgentCrash PROVE EngineStep
  BY <1>4 DEF AgentCrash, Dies
<1>5. ASSUME NEW a \in Attempts, UndoBegins(a) PROVE EngineStep
  BY <1>5, FaultType DEF UndoBegins, Rests, disk, RollbackTypeOK, OneWayTypeOK
<1>6. ASSUME NEW a \in Attempts, NEW p \in Paths, UndoEntry(a, p) PROVE EngineStep
  BY <1>6, UndoDisturbs DEF LogInv, UndoEntry
<1>7. ASSUME UNCHANGED owVars PROVE EngineStep
  BY <1>7 DEF owVars, Rests, disk, runv, ghosts, RollbackTypeOK, OneWayTypeOK
<1>8. ASSUME Disconnect \/ ServerRestart PROVE EngineStep
  BY <1>8 DEF Disconnect, ServerRestart, Rests, bounds, RollbackTypeOK, OneWayTypeOK
<1>9. ASSUME Prune PROVE UNCHANGED owVars
  BY <1>9 DEF Prune
<1>10. ASSUME NEW r \in RunIds, NEW a \in Attempts, EndHeard(r) \/ RollbackAsked(a, r)
       PROVE  UNCHANGED owVars
  BY <1>10 DEF EndHeard, RollbackAsked
<1>11. ASSUME NEW r \in RunIds, EndHeard(r) PROVE UNCHANGED owVars
  BY <1>11 DEF EndHeard
<1>12. ASSUME NEW a \in Attempts,
              RollbackClaimed(a) \/ Answering(a) \/ UndoEnds(a)
       PROVE  UNCHANGED owVars
  BY <1>12 DEF RollbackClaimed, Answering, AnswerHeard, RowWritten, CompleteEnds, MadeAvailable,
               ErrorEnds, UndoEnds
<1> QED BY <1>1, <1>2, <1>3, <1>4, <1>5, <1>6, <1>7, <1>8, <1>9, <1>10, <1>11, <1>12
        DEF RollbackNext, Answering, allVars

-----------------------------------------------------------------------------
(* Types of the engine. *)

\* A backup entry has the types of the manifest (backupBeforeAction).
LEMMA BackupType ==
    ASSUME OneWayTypeOK, NEW p \in Paths, walked["dst"][p] # None,
           NEW action \in {"overwritten", "deleted"}, BackupBeforeAction(p, action)
    PROVE  /\ manifest' \in Manifest /\ backups' \subseteq Versions
           /\ faults' \in 0..MaxFaults /\ touched' \subseteq Paths
           /\ dirty' \subseteq Paths /\ late' \subseteq Versions
<1>1. fs["dst"][p] \in Entry \cup {None} /\ walked["dst"][p] \in Meta
  BY DEF OneWayTypeOK, Sides
<1>2. fs["dst"][p] # None => <<p, fs["dst"][p].data>> \in Versions
  BY <1>1 DEF Entry, Versions
<1>3. BackupOf(p) \in Entry \cup {None}
  BY <1>1 DEF BackupOf, Entry, Meta
<1>4. ASSUME NEW b \in Entry \cup {None},
             manifest' = [manifest EXCEPT ![p] = [action |-> action, backup |-> b]]
      PROVE  manifest' \in Manifest
  BY <1>4 DEF Manifest, RollbackFileEntry, OneWayTypeOK
<1>5. manifest' \in Manifest
  BY <1>3, <1>4 DEF BackupBeforeAction
<1>6. backups' \subseteq Versions /\ late' \subseteq Versions
  BY <1>2 DEF BackupBeforeAction, OneWayTypeOK
<1> QED
  BY <1>5, <1>6, FaultType DEF BackupBeforeAction, OneWayTypeOK

\* Types, with what they rest on.
Core == OneWayTypeOK /\ SourceSizes /\ RunShape /\ CursorShape

\* A run's step at a path is taken with the run at work there (CursorShape).
LEMMA CursorFacts ==
    ASSUME Core, cur # None
    PROVE  /\ cur \in Cursor /\ cur.path \in Paths /\ cur.target \in Paths
           /\ cur.path \in todo
           /\ cur.kind \in {"copy", "delete"}
           /\ cur.kind = "delete" <=> phase = "delete"
           /\ cur.kind = "copy" => phase \in {"copy", "import"}
           /\ phase \in {"copy", "delete", "import"}
           /\ phase # "import" => cur.target = cur.path
<1>1. cur \in Cursor /\ phase \in Phases
  BY DEF Core, OneWayTypeOK
<1> QED BY <1>1 DEF Core, CursorShape, RunShape, Cursor, Phases

\* What a copy writes is a file (transferFile).
LEMMA CopiedType ==
    ASSUME Core, cur # None, cur.kind = "copy", Readable(cur.path)
    PROVE  /\ Copied(cur.path) \in Entry
           /\ walked["src"][cur.path] \in Meta
           /\ Copied(cur.path).data = fs["src"][cur.path].data
           /\ Copied(cur.path).mtimeMs = walked["src"][cur.path].mtimeMs
           /\ ~job.encrypted => Copied(cur.path).size = walked["src"][cur.path].size
<1> DEFINE p == cur.path
<1>1. p \in Paths /\ p \in todo /\ phase \in {"copy", "import"}
  BY CursorFacts
<1>2. walked["src"][p] \in Meta
  BY <1>1 DEF Core, RunShape, OneWayTypeOK, Sides
<1>3. fs["src"][p] \in Entry /\ fs["src"][p].size \in {1, 2}
  BY <1>1 DEF Core, Readable, SourceSizes, OneWayTypeOK, Sides
<1>4. job.encrypted \in BOOLEAN
  BY DEF Core, OneWayTypeOK, JobSettings
<1>5. CASE job.encrypted
  BY <1>2, <1>3, <1>5 DEF Copied, Entry, Meta, Overhead, Sizes
<1>6. CASE ~job.encrypted
  BY <1>2, <1>3, <1>6 DEF Copied, Entry, Meta, Readable, Sizes
<1> QED BY <1>2, <1>4, <1>5, <1>6

\* What is lost is a version of a file.
LEMMA LossType ==
    ASSUME OneWayTypeOK, NEW p \in Paths
    PROVE  /\ LossAt(p) \subseteq Versions
           /\ fs["dst"][p] # None => <<p, fs["dst"][p].data>> \in Versions
BY DEF OneWayTypeOK, LossAt, Sides, Entry, Versions

\* Every step keeps the types.
LEMMA TypesKept == ASSUME Core, EngineStep PROVE OneWayTypeOK'
<1> USE DEF OneWayTypeOK, disk, runv, bounds, ghosts
<1>0. OneWayTypeOK
  BY DEF Core
<1>1. CASE Rests
  BY <1>0, <1>1 DEF Rests
<1>2. ASSUME NEW side \in Sides, NEW p \in Paths, NEW e \in Entry \cup {None},
             Disturbed(side, p, e)
      PROVE  OneWayTypeOK'
  <2>1. fs' \in [Sides -> [Paths -> Entry \cup {None}]]
    BY <1>0, <1>2 DEF Disturbed
  <2>2. late' \subseteq Versions
    BY <1>0, <1>2 DEF Disturbed, Entry, Versions
  <2> QED BY <1>0, <1>2, <2>1, <2>2 DEF Disturbed
<1>3. CASE Dies
  BY <1>0, <1>3 DEF Dies, RunOver, NoFiles, Phases, Manifest
<1>4. CASE StartRun
  <2>1. /\ walked' \in [Sides -> [Paths -> Meta \cup {None}]] /\ faults' \in 0..MaxFaults
    BY <1>0, <1>4, WalkType DEF StartRun, Sides
  <2>2. runs' \in 0..MaxRuns
    BY <1>0, <1>4, BudgetFacts, OneWayAssumption DEF StartRun
  <2> QED BY <1>0, <1>4, <2>1, <2>2 DEF StartRun, Phases, Misread
<1>5. CASE WalkDst
  <2>1. /\ walked' \in [Sides -> [Paths -> Meta \cup {None}]] /\ faults' \in 0..MaxFaults
    BY <1>0, <1>5, WalkType DEF WalkDst, Sides
  <2>2. late' \subseteq Versions
    BY <1>0, <1>5, LossType DEF WalkDst, Misread
  <2>3. before' \in [Paths -> Entry \cup {None}]
    BY <1>0, <1>5 DEF WalkDst, Sides
  <2> QED BY <1>0, <1>5, <2>1, <2>2, <2>3 DEF WalkDst, Phases, Misread
<1>6. CASE StartDeletes
  BY <1>0, <1>6 DEF StartDeletes, Phases, DeleteCandidates
<1>7. CASE Copy
  <2>1. fs' \in [Sides -> [Paths -> Entry \cup {None}]]
    BY <1>0, <1>7, CursorFacts, CopiedType DEF Copy, Replace
  <2>2. walked' \in [Sides -> [Paths -> Meta \cup {None}]]
    BY <1>0, <1>7, CursorFacts, CopiedType DEF Copy, Replace
  <2>3. lost' \subseteq Versions
    BY <1>0, <1>7, CursorFacts, LossType DEF Copy, Replace
  <2> QED BY <1>0, <1>7, <2>1, <2>2, <2>3 DEF Copy, Visited
<1>8. CASE CopyFails
  BY <1>0, <1>8, CursorFacts, FaultType DEF CopyFails, Visited
<1>9. CASE VerifyFails
  <2>1. fs' \in [Sides -> [Paths -> Entry \cup {None}]]
    BY <1>0, <1>9, CursorFacts, CopiedType DEF VerifyFails, Replace
  <2>2. lost' \subseteq Versions
    BY <1>0, <1>9, CursorFacts, LossType DEF VerifyFails, Replace
  <2>3. late' \subseteq Versions
    BY <1>0, <1>9, CursorFacts, CopiedType DEF VerifyFails, Replace, Entry, Versions
  <2> QED BY <1>0, <1>9, <2>1, <2>2, <2>3, CursorFacts, FaultType DEF VerifyFails, Visited
<1>10. CASE Delete
  <2>1. fs' \in [Sides -> [Paths -> Entry \cup {None}]]
    BY <1>0, <1>10, CursorFacts DEF Delete
  <2>2. walked' \in [Sides -> [Paths -> Meta \cup {None}]]
    BY <1>0, <1>10, CursorFacts DEF Delete
  <2>3. backups' \subseteq Versions
    BY <1>0, <1>10, CursorFacts, LossType DEF Delete
  <2> QED BY <1>0, <1>10, <2>1, <2>2, <2>3 DEF Delete, Visited
<1>11. CASE DeleteFails
  BY <1>0, <1>11, CursorFacts, FaultType DEF DeleteFails, Visited
<1>12. CASE Cancel
  BY <1>0, <1>12 DEF Cancel
<1>13. CASE ImportFinish
  BY <1>0, <1>13 DEF ImportFinish, RunOver, NoFiles, Phases, Manifest
<1>14. CASE Finish
  <2>1. stored' \in [Paths -> StoredFileState \cup {None}]
    BY <1>0, <1>14 DEF Finish, OneWayState, StoredFileState, Sides
  <2> QED BY <1>0, <1>14, <2>1 DEF Finish, RunOver, NoFiles, Phases, Manifest
<1>15. ASSUME NEW p \in Paths, PathStep(p) PROVE OneWayTypeOK'
  <2>1. CASE Skip(p)
    BY <1>0, <2>1 DEF Skip
  <2>2. CASE Choose(p)
    <3>1. cur' \in Cursor \cup {None}
      BY <2>2 DEF Choose, Cursor
    <3>2. manifest' \in Manifest
      BY <1>0, <2>2, BackupType DEF Choose, RecordCreated, Manifest, RollbackFileEntry
    <3>3. /\ backups' \subseteq Versions /\ faults' \in 0..MaxFaults
          /\ touched' \subseteq Paths /\ dirty' \subseteq Paths /\ late' \subseteq Versions
      BY <1>0, <2>2, BackupType DEF Choose
    <3> QED BY <1>0, <2>2, <3>1, <3>2, <3>3 DEF Choose
  <2>3. CASE ChooseDelete(p)
    <3>1. cur' \in Cursor \cup {None}
      BY <2>3 DEF ChooseDelete, Cursor
    <3>2. walked["dst"][p] # None
      BY <2>3 DEF ChooseDelete, Core, RunShape, DeleteCandidates
    <3>3. /\ manifest' \in Manifest /\ backups' \subseteq Versions /\ faults' \in 0..MaxFaults
          /\ touched' \subseteq Paths /\ dirty' \subseteq Paths /\ late' \subseteq Versions
      BY <1>0, <2>3, <3>2, BackupType DEF ChooseDelete
    <3> QED BY <1>0, <2>3, <3>1, <3>3 DEF ChooseDelete
  <2>4. CASE ImportSkip(p)
    BY <1>0, <2>4 DEF ImportSkip, ImportEnds
  <2>5. CASE ImportChoose(p)
    BY <1>0, <2>5 DEF ImportChoose, Cursor, JobSettings
  <2> QED BY <1>15, <2>1, <2>2, <2>3, <2>4, <2>5 DEF PathStep
<1> QED BY <1>1, <1>2, <1>3, <1>4, <1>5, <1>6, <1>7, <1>8, <1>9, <1>10, <1>11, <1>12, <1>13,
           <1>14, <1>15 DEF EngineStep, Disturbance

\* No step of the agent changes the source.
LEMMA SizesKept == ASSUME Core, EngineStep PROVE SourceSizes'
<1>0. OneWayTypeOK /\ SourceSizes
  BY DEF Core
<1>1. ASSUME NEW side \in Sides, NEW p \in Paths, NEW e \in Entry \cup {None},
             Disturbed(side, p, e)
      PROVE  SourceSizes'
  BY <1>0, <1>1 DEF Disturbed, SourceSizes, OneWayTypeOK, Sides
<1>2. CASE fs'["src"] = fs["src"]
  BY <1>0, <1>2 DEF SourceSizes
<1>3. ASSUME Copy \/ VerifyFails PROVE fs'["src"] = fs["src"]
  BY <1>0, <1>3 DEF Copy, VerifyFails, Replace, OneWayTypeOK, Sides
<1>4. ASSUME Delete PROVE fs'["src"] = fs["src"]
  BY <1>0, <1>4 DEF Delete, OneWayTypeOK, Sides
<1>5. ASSUME NEW p \in Paths, PathStep(p) PROVE fs' = fs
  BY <1>5 DEF PathStep, Skip, Choose, ChooseDelete, ImportSkip, ImportEnds, ImportChoose, disk
<1>6. ASSUME \/ Rests \/ Dies \/ StartRun \/ WalkDst \/ StartDeletes \/ CopyFails \/ DeleteFails
             \/ Cancel \/ ImportFinish \/ Finish
      PROVE  fs' = fs
  BY <1>6 DEF Rests, Dies, StartRun, WalkDst, StartDeletes, CopyFails, DeleteFails, Cancel,
              ImportFinish, Finish, disk
<1> QED BY <1>1, <1>2, <1>3, <1>4, <1>5, <1>6 DEF EngineStep, Disturbance

\* Nor do they leave the order of a run.
LEMMA ShapeKept == ASSUME Core, EngineStep PROVE RunShape' /\ CursorShape'
<1> USE DEF disk, runv, bounds, ghosts
<1>0. OneWayTypeOK /\ RunShape /\ CursorShape
  BY DEF Core
<1>1. CASE Rests
  BY <1>0, <1>1 DEF Rests, RunShape, CursorShape, DeleteCandidates
<1>2. CASE Disturbance
  BY <1>0, <1>2 DEF Disturbance, Disturbed, RunShape, CursorShape, DeleteCandidates
<1>3. CASE Dies \/ ImportFinish \/ Finish
  BY <1>0, <1>3 DEF Dies, ImportFinish, Finish, RunOver, RunShape, CursorShape
<1>4. CASE StartRun
  BY <1>0, <1>4 DEF StartRun, RunShape, CursorShape, OneWayTypeOK
<1>5. CASE WalkDst
  <2>1. walked'["src"] = walked["src"]
    BY <1>0, <1>5, WalkType DEF WalkDst, Sides
  <2> QED BY <1>0, <1>5, <2>1 DEF WalkDst, RunShape, CursorShape, OneWayTypeOK, JobSettings
<1>6. CASE StartDeletes
  BY <1>0, <1>6 DEF StartDeletes, DeleteCandidates, RunShape, CursorShape, OneWayTypeOK
<1>7. CASE Copy
  BY <1>0, <1>7, CursorFacts DEF Copy, Visited, RunShape, CursorShape, OneWayTypeOK, Sides
<1>8. CASE CopyFails \/ VerifyFails \/ DeleteFails
  BY <1>0, <1>8, CursorFacts
     DEF CopyFails, VerifyFails, DeleteFails, Visited, RunShape, CursorShape, DeleteCandidates
<1>9. CASE Delete
  BY <1>0, <1>9, CursorFacts
     DEF Delete, Visited, RunShape, CursorShape, DeleteCandidates, OneWayTypeOK, Sides
<1>10. CASE Cancel
  BY <1>0, <1>10 DEF Cancel, RunShape, CursorShape, DeleteCandidates
<1>11. ASSUME NEW p \in Paths, PathStep(p) PROVE RunShape' /\ CursorShape'
  <2>1. CASE Skip(p)
    BY <1>0, <2>1 DEF Skip, RunShape, CursorShape
  <2>2. CASE Choose(p)
    BY <1>0, <2>2, OneWayNone DEF Choose, RunShape, CursorShape
  <2>3. CASE ChooseDelete(p)
    BY <1>0, <2>3 DEF ChooseDelete, RunShape, CursorShape, DeleteCandidates
  <2>4. CASE ImportSkip(p)
    BY <1>0, <2>4 DEF ImportSkip, ImportEnds, RunShape, CursorShape
  <2>5. CASE ImportChoose(p)
    BY <1>0, <2>5 DEF ImportChoose, RunShape, CursorShape
  <2> QED BY <1>11, <2>1, <2>2, <2>3, <2>4, <2>5 DEF PathStep
<1> QED BY <1>1, <1>2, <1>3, <1>4, <1>5, <1>6, <1>7, <1>8, <1>9, <1>10, <1>11 DEF EngineStep

\* Types, and what they rest on, are kept.
LEMMA CoreKept == ASSUME Core, EngineStep PROVE Core'
BY TypesKept, SizesKept, ShapeKept DEF Core

-----------------------------------------------------------------------------
(* Nothing is destroyed that is not backed up. *)

\* A target file that was backed up, or whose backup failed (backupBeforeAction).
LEMMA BackedUp ==
    ASSUME NEW p \in Paths, NEW action, BackupBeforeAction(p, action)
    PROVE  /\ late \subseteq late' /\ backups \subseteq backups'
           /\ fs["dst"][p] # None =>
                 <<p, fs["dst"][p].data>> \in backups' \/ <<p, fs["dst"][p].data>> \in late'
BY DEF BackupBeforeAction

\* What a run knows of or is about to replace stays excused or backed up.
LEMMA KeptStep == ASSUME Core, KeptInv, EngineStep PROVE KeptInv'
<1> USE DEF disk, runv, bounds, ghosts
<1>0. OneWayTypeOK /\ RunShape /\ CursorShape
  BY DEF Core
<1>1. CASE Rests
  BY <1>1 DEF Rests, KeptInv, LossAt, TargetWalked
<1>2. ASSUME NEW side \in Sides, NEW p \in Paths, NEW e \in Entry \cup {None},
             Disturbed(side, p, e)
      PROVE  KeptInv'
  <2>1. /\ UNCHANGED <<phase, walked, cur, lost>> /\ late \subseteq late' /\ backups \subseteq backups'
        /\ side = "dst" /\ e # None /\ TargetWalked => <<p, e.data>> \in late'
    BY <1>2 DEF Disturbed
  <2>2. \A q \in Paths : fs'["dst"][q] = IF side = "dst" /\ q = p THEN e ELSE fs["dst"][q]
    BY <1>0, <1>2 DEF Disturbed, OneWayTypeOK, Sides
  <2>3. cur # None => cur.target \in Paths /\ TargetWalked
    BY CursorFacts DEF TargetWalked
  <2> QED BY <2>1, <2>2, <2>3 DEF KeptInv, LossAt, TargetWalked
<1>3. CASE Dies \/ ImportFinish \/ Finish
  BY <1>3 DEF Dies, ImportFinish, Finish, RunOver, KeptInv, TargetWalked
<1>4. CASE StartRun
  BY <1>0, <1>4 DEF StartRun, RunShape, KeptInv, TargetWalked
<1>5. CASE WalkDst
  <2>1. \A p \in Paths : fs["dst"][p] # None /\ walked'["dst"][p] = None
                            => <<p, fs["dst"][p].data>> \in late'
    BY <1>0, <1>5, MetaFacts DEF WalkDst, Misread, OneWayTypeOK, Sides
  <2>2. cur' = None /\ lost' = {} /\ fs' = fs
    BY <1>0, <1>5 DEF WalkDst, RunShape
  <2> QED BY <2>1, <2>2 DEF KeptInv
<1>6. CASE StartDeletes
  BY <1>6 DEF StartDeletes, KeptInv, TargetWalked
<1>7. CASE Copy
  <2> DEFINE t == cur.target
  <2>1. /\ TargetWalked /\ t \in Paths /\ walked["src"][cur.path] \in Meta
    BY <1>7, CursorFacts, CopiedType DEF Copy, Replace, TargetWalked
  <2>2. /\ \A q \in Paths : q # t => /\ fs'["dst"][q] = fs["dst"][q]
                                    /\ walked'["dst"][q] = walked["dst"][q]
        /\ walked'["dst"][t] # None
    BY <1>0, <1>7, <2>1, OneWayNone DEF Copy, Replace, OneWayTypeOK, Sides
  <2>3. cur' = None /\ late' = late /\ lost' = lost \cup LossAt(t) /\ cur # None
    BY <1>7 DEF Copy, Replace, Visited
  <2> QED BY <2>1, <2>2, <2>3 DEF KeptInv
<1>8. CASE CopyFails \/ DeleteFails
  BY <1>8 DEF CopyFails, DeleteFails, Visited, KeptInv, TargetWalked
<1>9. CASE VerifyFails
  <2> DEFINE t == cur.target
  <2>1. /\ TargetWalked /\ t \in Paths
    BY <1>9, CursorFacts DEF VerifyFails, TargetWalked
  <2>2. \A q \in Paths : fs'["dst"][q] = IF q = t THEN Copied(cur.path) ELSE fs["dst"][q]
    BY <1>0, <1>9, <2>1 DEF VerifyFails, Replace, OneWayTypeOK, Sides
  <2>3. /\ cur' = None /\ late' = late \cup {<<t, Copied(cur.path).data>>}
        /\ lost' = lost \cup LossAt(t) /\ cur # None /\ walked' = walked
    BY <1>9 DEF VerifyFails, Replace, Visited
  <2> QED BY <2>1, <2>2, <2>3 DEF KeptInv
<1>10. CASE Delete
  <2>1. /\ TargetWalked /\ cur.path \in Paths
    BY <1>10, CursorFacts DEF Delete, TargetWalked
  <2>2. \A q \in Paths : /\ fs'["dst"][q] = IF q = cur.path THEN None ELSE fs["dst"][q]
                         /\ q # cur.path => walked'["dst"][q] = walked["dst"][q]
    BY <1>0, <1>10, <2>1 DEF Delete, OneWayTypeOK, Sides
  <2>3. cur' = None /\ late' = late /\ lost' = lost
    BY <1>10 DEF Delete, Visited
  <2> QED BY <2>1, <2>2, <2>3 DEF KeptInv
<1>11. CASE Cancel
  BY <1>11 DEF Cancel, KeptInv, LossAt, TargetWalked
<1>12. ASSUME NEW p \in Paths, PathStep(p) PROVE KeptInv'
  <2>1. CASE Skip(p) \/ ImportSkip(p)
    BY <2>1 DEF Skip, ImportSkip, ImportEnds, KeptInv, LossAt, TargetWalked
  <2>2. CASE Choose(p) \/ ChooseDelete(p)
    <3>1. /\ UNCHANGED <<phase, walked, fs, lost>> /\ cur'.target = p
          /\ TargetWalked /\ late \subseteq late' /\ backups \subseteq backups'
      <4>1. CASE Choose(p)
        BY <4>1, BackedUp DEF Choose, TargetWalked
      <4>2. CASE ChooseDelete(p)
        BY <4>2, BackedUp DEF ChooseDelete, TargetWalked
      <4> QED BY <2>2, <4>1, <4>2
    <3>2. fs["dst"][p] # None =>
             <<p, fs["dst"][p].data>> \in backups' \/ <<p, fs["dst"][p].data>> \in late'
      <4>1. CASE walked["dst"][p] = None
        BY <2>2, <3>1, <4>1 DEF KeptInv, Choose, ChooseDelete, Core, RunShape
      <4>2. CASE walked["dst"][p] # None
        BY <2>2, <4>2, BackedUp DEF Choose, ChooseDelete
      <4> QED BY <4>1, <4>2
    <3> QED BY <3>1, <3>2 DEF KeptInv, LossAt, TargetWalked
  <2>3. CASE ImportChoose(p)
    <3>1. job.importTo[p] \in Paths /\ TargetWalked /\ cur'.target = job.importTo[p]
      BY <1>0, <2>3 DEF ImportChoose, OneWayTypeOK, JobSettings, TargetWalked
    <3> QED BY <2>3, <3>1 DEF ImportChoose, KeptInv, LossAt, TargetWalked
  <2> QED BY <1>12, <2>1, <2>2, <2>3 DEF PathStep
<1> QED BY <1>1, <1>2, <1>3, <1>4, <1>5, <1>6, <1>7, <1>8, <1>9, <1>10, <1>11, <1>12
        DEF EngineStep, Disturbance

-----------------------------------------------------------------------------
(* What each step does to the two trees and to what the run knows of them. *)

\* A file changed by somebody else.
LEMMA DisturbedFacts ==
    ASSUME Core, NEW side \in Sides, NEW p \in Paths, NEW e \in Entry \cup {None},
           Disturbed(side, p, e)
    PROVE  /\ UNCHANGED <<job, stored, phase, walked, todo, cur, manifest, before, completed,
                          settled>>
           /\ touched' = touched \cup {p} /\ dirty \subseteq dirty'
           /\ \A q \in Paths \ {p} : /\ fs'["src"][q] = fs["src"][q]
                                    /\ fs'["dst"][q] = fs["dst"][q]
           /\ \A q \in Paths \ dirty' : fs'["dst"][q] = fs["dst"][q]
<1>1. side = "dst" => p \in dirty'
  BY DEF Disturbed
<1>2. \A q \in Paths : /\ fs'["src"][q] = IF side = "src" /\ q = p THEN e ELSE fs["src"][q]
                       /\ fs'["dst"][q] = IF side = "dst" /\ q = p THEN e ELSE fs["dst"][q]
  BY DEF Disturbed, Core, OneWayTypeOK, Sides
<1> QED BY <1>1, <1>2 DEF Disturbed, runv

\* syncOneWay and runImportSync after transferFile.
LEMMA CopyFacts ==
    ASSUME Core, Copy
    PROVE  /\ UNCHANGED <<job, stored, phase, manifest, before, dirty, touched, completed, settled>>
           /\ cur # None /\ cur' = None /\ todo' = todo \ {cur.path}
           /\ cur.path \in todo /\ cur.path \in Paths /\ cur.target \in Paths
           /\ phase \in {"copy", "import"}
           /\ fs'["src"] = fs["src"] /\ walked'["src"] = walked["src"]
           /\ \A q \in Paths \ {cur.target} : /\ fs'["dst"][q] = fs["dst"][q]
                                              /\ walked'["dst"][q] = walked["dst"][q]
           /\ fs'["dst"][cur.target] = Copied(cur.path)
           /\ walked'["dst"][cur.target] = walked["src"][cur.path]
           /\ walked["src"][cur.path] \in Meta /\ fs["src"][cur.path] # None
<1>1. cur # None /\ cur.kind = "copy" /\ Readable(cur.path)
  BY DEF Copy, Replace
<1>2. /\ cur.path \in todo /\ cur.path \in Paths /\ cur.target \in Paths
      /\ phase \in {"copy", "import"}
  BY <1>1, CursorFacts
<1>3. walked["src"][cur.path] \in Meta
  BY <1>1, CopiedType
<1>4. /\ fs'["src"] = fs["src"] /\ walked'["src"] = walked["src"]
      /\ \A q \in Paths \ {cur.target} : /\ fs'["dst"][q] = fs["dst"][q]
                                         /\ walked'["dst"][q] = walked["dst"][q]
      /\ fs'["dst"][cur.target] = Copied(cur.path)
      /\ walked'["dst"][cur.target] = walked["src"][cur.path]
  BY <1>2 DEF Copy, Replace, Core, OneWayTypeOK, Sides
<1> QED BY <1>1, <1>2, <1>3, <1>4 DEF Copy, Visited, Readable

\* The same with a failed verification, and a copy or a delete that failed.
LEMMA FailFacts ==
    ASSUME Core, CopyFails \/ VerifyFails \/ DeleteFails
    PROVE  /\ UNCHANGED <<job, stored, phase, walked, manifest, before, dirty, completed, settled>>
           /\ cur # None /\ cur' = None /\ todo' = todo \ {cur.path}
           /\ cur.path \in todo /\ cur.path \in Paths /\ cur.target \in Paths
           /\ touched \subseteq touched' /\ cur.path \in touched' /\ cur.target \in touched'
           /\ fs'["src"] = fs["src"]
           /\ \A q \in Paths \ {cur.target} : fs'["dst"][q] = fs["dst"][q]
<1>1. /\ cur # None /\ cur.path \in todo /\ cur.path \in Paths /\ cur.target \in Paths
      /\ cur.kind = "delete" => cur.target = cur.path
  BY CursorFacts DEF CopyFails, VerifyFails, DeleteFails
<1>2. CASE CopyFails \/ DeleteFails
  BY <1>1, <1>2 DEF CopyFails, DeleteFails, Visited
<1>3. CASE VerifyFails
  BY <1>1, <1>3 DEF VerifyFails, Replace, Visited, Core, OneWayTypeOK, Sides
<1> QED BY <1>2, <1>3

\* deleteFile of the target's backend.
LEMMA DeleteFacts ==
    ASSUME Core, Delete
    PROVE  /\ UNCHANGED <<job, stored, phase, manifest, before, dirty, touched, completed, settled>>
           /\ cur # None /\ cur' = None /\ todo' = todo \ {cur.path}
           /\ cur.path \in todo /\ cur.path \in Paths /\ cur.target = cur.path
           /\ phase = "delete" /\ job.mode = "sync"
           /\ fs'["src"] = fs["src"] /\ walked'["src"] = walked["src"]
           /\ \A q \in Paths \ {cur.path} : /\ fs'["dst"][q] = fs["dst"][q]
                                            /\ walked'["dst"][q] = walked["dst"][q]
           /\ fs'["dst"][cur.path] = None /\ walked'["dst"][cur.path] = None
           /\ cur.path \in DeleteCandidates
<1>1. /\ cur # None /\ cur.path \in todo /\ cur.path \in Paths /\ cur.target = cur.path
      /\ phase = "delete" /\ job.mode = "sync"
  BY CursorFacts DEF Delete, Core, RunShape
<1>2. /\ fs'["src"] = fs["src"] /\ walked'["src"] = walked["src"]
      /\ \A q \in Paths \ {cur.path} : /\ fs'["dst"][q] = fs["dst"][q]
                                       /\ walked'["dst"][q] = walked["dst"][q]
      /\ fs'["dst"][cur.path] = None /\ walked'["dst"][cur.path] = None
  BY <1>1 DEF Delete, Core, OneWayTypeOK, Sides
<1> QED BY <1>1, <1>2 DEF Delete, Visited, Core, RunShape

\* The walk of the target, which begins the work.
LEMMA WalkDstFacts ==
    ASSUME Core, WalkDst
    PROVE  /\ UNCHANGED <<job, stored, fs, manifest, completed, settled>>
           /\ cur' = None /\ manifest' = NoFiles /\ phase = "walkDst"
           /\ phase' = IF job.mode = "import" THEN "import" ELSE "copy"
           /\ todo' = {p \in Paths : walked["src"][p] # None}
           /\ walked'["src"] = walked["src"] /\ before' = fs["dst"]
           /\ touched \subseteq touched' /\ dirty' \subseteq touched'
           /\ \A p \in Paths \ dirty' : walked'["dst"][p] = MetaOf(fs["dst"][p])
<1>1. walked'["src"] = walked["src"]
  BY WalkType DEF WalkDst, Core, Sides
<1> QED BY <1>1 DEF WalkDst, Misread, Core, RunShape, disk

\* The walk of the source.
LEMMA StartFacts ==
    ASSUME Core, StartRun
    PROVE  /\ UNCHANGED <<job, stored, fs, todo, cur, manifest>>
           /\ phase = "idle" /\ phase' = "walkDst" /\ cur = None
           /\ ~completed' /\ settled' = (completed /\ touched = {})
           /\ \A p \in Paths \ touched' : walked'["src"][p] = MetaOf(fs["src"][p])
BY DEF StartRun, Misread, Core, RunShape, disk

\* The choice of the next file.
LEMMA PathFacts ==
    ASSUME Core, NEW p \in Paths, PathStep(p)
    PROVE  /\ UNCHANGED <<job, stored, fs, walked, phase, before, completed, settled>>
           /\ touched \subseteq touched' /\ dirty \subseteq dirty'
           /\ cur = None /\ p \in todo
           /\ todo' = IF cur' = None THEN todo \ {p} ELSE todo
<1>1. CASE Skip(p) \/ ImportSkip(p)
  BY <1>1 DEF Skip, ImportSkip, ImportEnds, disk, ghosts
<1>2. CASE Choose(p)
  <2>1. cur' # None
    BY <1>2, OneWayNone DEF Choose, Cursor
  <2> QED BY <1>2, <2>1 DEF Choose, BackupBeforeAction, disk
<1>3. CASE ChooseDelete(p)
  <2>1. cur' # None
    BY <1>3, OneWayNone DEF ChooseDelete, Cursor
  <2> QED BY <1>3, <2>1 DEF ChooseDelete, BackupBeforeAction, disk
<1>4. CASE ImportChoose(p)
  <2>1. cur' # None
    BY <1>4, OneWayNone DEF ImportChoose, Cursor, Core, OneWayTypeOK, JobSettings
  <2> QED BY <1>4, <2>1 DEF ImportChoose, disk, ghosts
<1> QED BY <1>1, <1>2, <1>3, <1>4 DEF PathStep

-----------------------------------------------------------------------------
(* What the run knows, has done and has left to do. *)

\* A run that ends, and a step that leaves the trees and the walks alone.
Ends   == phase' = "idle" /\ UNCHANGED <<job, fs, touched>>
Leaves == UNCHANGED <<job, stored, fs, walked, phase, todo, cur, manifest, before, dirty, touched,
                      completed, settled>>

\* However a run ends, it leaves the trees as they are.
LEMMA EndsFacts == ASSUME Dies \/ ImportFinish \/ Finish PROVE Ends
BY DEF Dies, ImportFinish, Finish, RunOver, Ends, disk, ghosts

\* A cancel is only noticed later.
LEMMA LeavesFacts == ASSUME Rests \/ Cancel PROVE Leaves
BY DEF Rests, Cancel, Leaves, disk, runv, ghosts

\* A file a run copied or found is seen with its time and size.
LEMMA SeenStep == ASSUME Core, SeenInv, EngineStep PROVE SeenInv'
<1>1. CASE Rests \/ Cancel
  BY <1>1, LeavesFacts DEF Leaves, SeenInv, Seen, TargetWalked
<1>2. CASE Disturbance
  BY <1>2, DisturbedFacts DEF Disturbance, SeenInv, Seen, TargetWalked
<1>3. CASE Dies \/ ImportFinish \/ Finish
  BY <1>3, EndsFacts DEF Ends, SeenInv, TargetWalked
<1>4. CASE StartRun
  BY <1>4, StartFacts DEF SeenInv, TargetWalked
<1>5. CASE WalkDst
  <2>1. \A p \in Paths \ touched' : Seen(walked'["dst"][p], fs["dst"][p])
    BY <1>5, WalkDstFacts, MetaFacts DEF Seen, Core, OneWayTypeOK, Sides
  <2> QED BY <1>5, <2>1, WalkDstFacts DEF SeenInv, Seen
<1>6. CASE StartDeletes
  BY <1>6 DEF StartDeletes, SeenInv, Seen, TargetWalked, disk, ghosts
<1>7. CASE Copy
  <2> DEFINE t == cur.target
  <2>1. Seen(walked'["dst"][t], fs'["dst"][t])
    BY <1>7, CopyFacts, CopiedType, OneWayNone DEF Seen, Copy, Replace
  <2> QED BY <1>7, <2>1, CopyFacts DEF SeenInv, Seen, TargetWalked
<1>8. CASE CopyFails \/ VerifyFails \/ DeleteFails
  BY <1>8, FailFacts DEF SeenInv, Seen, TargetWalked
<1>9. CASE Delete
  BY <1>9, DeleteFacts DEF SeenInv, Seen, TargetWalked
<1>10. ASSUME NEW p \in Paths, PathStep(p) PROVE SeenInv'
  BY <1>10, PathFacts DEF SeenInv, Seen, TargetWalked
<1> QED BY <1>1, <1>2, <1>3, <1>4, <1>5, <1>6, <1>7, <1>8, <1>9, <1>10 DEF EngineStep

\* A copy has what was copied, and a path that was visited needs no other visit.
LEMMA DoneStep == ASSUME Core, DoneInv, EngineStep PROVE DoneInv'
<1>1. CASE Rests \/ Cancel
  BY <1>1, LeavesFacts DEF Leaves, DoneInv, NeedsCopy
<1>2. CASE Disturbance
  BY <1>2, DisturbedFacts DEF Disturbance, DoneInv, NeedsCopy
<1>3. CASE Dies \/ ImportFinish \/ Finish
  BY <1>3, EndsFacts DEF Ends, DoneInv
<1>4. CASE StartRun
  BY <1>4, StartFacts DEF DoneInv
<1>5. CASE WalkDst
  BY <1>5, WalkDstFacts DEF DoneInv
<1>6. CASE StartDeletes
  BY <1>6 DEF StartDeletes, DoneInv, NeedsCopy, disk, ghosts
<1>7. CASE Copy
  <2> DEFINE t == cur.target
  <2>1. ~(walked["src"][cur.path].mtimeMs > walked["src"][cur.path].mtimeMs)
    BY <1>7, CopyFacts, OneWayAssumption DEF Meta, Times
  <2>2. walked["src"][cur.path] # None
    BY <1>7, CopyFacts, OneWayNone
  <2>3. ~NeedsCopy(walked["src"][cur.path], walked["src"][cur.path])
    BY <1>7, <2>1, <2>2, CopyFacts DEF NeedsCopy
  <2>4. phase = "copy" => t = cur.path
    BY <1>7, CopyFacts, CursorFacts
  <2>5. phase = "import" => walked["dst"][t] = None /\ t = job.importTo[cur.path]
    BY <1>7, CopyFacts DEF Core, CursorShape
  <2>6. CASE phase = "copy"
    BY <1>7, <2>2, <2>3, <2>4, <2>6, CopyFacts DEF DoneInv, NeedsCopy
  <2>7. CASE phase = "import"
    BY <1>7, <2>2, <2>5, <2>7, CopyFacts DEF DoneInv, Core, OneWayTypeOK, JobSettings
  <2> QED BY <1>7, <2>6, <2>7, CopyFacts
<1>8. CASE CopyFails \/ VerifyFails \/ DeleteFails
  BY <1>8, FailFacts DEF DoneInv, NeedsCopy
<1>9. CASE Delete
  BY <1>9, DeleteFacts DEF DoneInv, NeedsCopy, DeleteCandidates
<1>10. ASSUME NEW p \in Paths, PathStep(p) PROVE DoneInv'
  <2>1. CASE Skip(p)
    BY <1>10, <2>1, PathFacts DEF Skip, DoneInv, NeedsCopy
  <2>2. CASE Choose(p) \/ ChooseDelete(p) \/ ImportChoose(p)
    <3>1. todo' = todo
      BY <2>2 DEF Choose, ChooseDelete, ImportChoose
    <3> QED BY <1>10, <3>1, PathFacts DEF DoneInv, NeedsCopy
  <2>3. CASE ImportSkip(p)
    BY <1>10, <2>3, PathFacts DEF ImportSkip, ImportEnds, DoneInv, NeedsCopy
  <2> QED BY <1>10, <2>1, <2>2, <2>3 DEF PathStep
<1> QED BY <1>1, <1>2, <1>3, <1>4, <1>5, <1>6, <1>7, <1>8, <1>9, <1>10 DEF EngineStep

\* What the policy leaves out of a delete is what stays.
LEMMA CandidateFacts ==
    ASSUME OneWayTypeOK, NEW p \in Paths, walked["src"][p] = None,
           fs["dst"][p] = before[p], walked["dst"][p] = MetaOf(before[p])
    PROVE  /\ p \in DeleteCandidates => Deletable(p)
           /\ p \notin DeleteCandidates /\ Deletable(p) => before[p] = None
<1>1. /\ MetaOf(before[p]) = None <=> before[p] = None
  BY MetaFacts DEF OneWayTypeOK
<1> QED BY <1>1 DEF DeleteCandidates, MatchesStoredDst, Deletable

\* A target file at a path of the source is the source's or was there; others are
\* there or not as the policy says.
LEMMA BecameStep == ASSUME Core, BecameInv, EngineStep PROVE BecameInv'
<1>1. CASE Rests \/ Cancel
  BY <1>1, LeavesFacts DEF Leaves, BecameInv, Deletable, MetaOf
<1>2. CASE Disturbance
  BY <1>2, DisturbedFacts DEF Disturbance, BecameInv, Deletable, MetaOf
<1>3. CASE Dies \/ ImportFinish \/ Finish
  BY <1>3, EndsFacts DEF Ends, BecameInv
<1>4. CASE StartRun
  BY <1>4, StartFacts DEF BecameInv
<1>5. CASE WalkDst
  BY <1>5, WalkDstFacts DEF BecameInv, MetaOf
<1>6. CASE StartDeletes
  <2>1. /\ phase = "copy" /\ todo = {} /\ phase' = "delete" /\ todo' = DeleteCandidates
        /\ UNCHANGED <<job, stored, fs, walked, before, touched>>
    BY <1>6 DEF StartDeletes, disk, ghosts
  <2>2. \A p \in Paths \ touched : walked["src"][p] = None =>
           /\ fs["dst"][p] = before[p] /\ walked["dst"][p] = MetaOf(before[p])
           /\ p \notin DeleteCandidates => fs["dst"][p] = IF Deletable(p) THEN None ELSE before[p]
    BY <2>1, CandidateFacts DEF BecameInv, Core
  <2> QED BY <2>1, <2>2 DEF BecameInv, Deletable, MetaOf
<1>7. CASE Copy
  <2>1. CASE phase = "copy"
    <3>1. cur.target = cur.path /\ fs'["dst"][cur.path].data = fs'["src"][cur.path].data
      BY <1>7, <2>1, CopyFacts, CopiedType, CursorFacts DEF Copy, Replace
    <3>2. walked'["src"][cur.path] # None /\ phase' = "copy"
      BY <1>7, <2>1, CopyFacts, OneWayNone
    <3> QED BY <1>7, <2>1, <3>1, <3>2, CopyFacts DEF BecameInv, Deletable, MetaOf
  <2>2. CASE phase # "copy"
    BY <1>7, <2>2, CopyFacts DEF BecameInv
  <2> QED BY <2>1, <2>2
<1>8. CASE CopyFails \/ VerifyFails \/ DeleteFails
  BY <1>8, FailFacts DEF BecameInv, Deletable, MetaOf
<1>9. CASE Delete
  <2> DEFINE p == cur.path
  <2>1. p \notin touched => fs["dst"][p] = before[p] /\ walked["dst"][p] = MetaOf(before[p])
                            /\ walked["src"][p] = None
    BY <1>9, DeleteFacts DEF BecameInv, DeleteCandidates
  <2>2. p \notin touched => Deletable(p)
    BY <1>9, <2>1, DeleteFacts, CandidateFacts DEF Core
  <2> QED BY <1>9, <2>1, <2>2, DeleteFacts DEF BecameInv, Deletable, MetaOf
<1>10. ASSUME NEW p \in Paths, PathStep(p) PROVE BecameInv'
  <2>1. phase = "delete" => todo' = todo
    BY <1>10 DEF PathStep, Skip, Choose, ChooseDelete, ImportSkip, ImportChoose
  <2> QED BY <1>10, <2>1, PathFacts DEF BecameInv, Deletable, MetaOf
<1> QED BY <1>1, <1>2, <1>3, <1>4, <1>5, <1>6, <1>7, <1>8, <1>9, <1>10 DEF EngineStep

\* Times that were compared by what a walk saw compare as they are.
LEMMA SeenNeeds ==
    ASSUME NEW src \in Entry, NEW dst \in Entry, NEW m \in Meta, Seen(m, dst)
    PROVE  NeedsCopy(MetaOf(src), m) <=> NeedsCopy(MetaOf(src), MetaOf(dst))
<1>1. m # None /\ MetaOf(dst) # None /\ dst # None
  BY OneWayNone, MetaFacts
<1>2. /\ m.mtimeMs = MetaOf(dst).mtimeMs
      /\ ~job.encrypted => m.size = MetaOf(dst).size
  BY <1>1, MetaFacts DEF Seen
<1> QED BY <1>1, <1>2 DEF NeedsCopy

\* What a run may do without need is done at paths something touched.
LEMMA NoopStep ==
    ASSUME Core, SeenInv, QuietInv, QuietRunIsNoop, EngineStep
    PROVE  QuietRunIsNoop'
<1>1. CASE Rests \/ Cancel
  BY <1>1, LeavesFacts DEF Leaves, QuietRunIsNoop
<1>2. CASE Disturbance
  BY <1>2, DisturbedFacts DEF Disturbance, QuietRunIsNoop
<1>3. CASE Dies \/ ImportFinish \/ Finish
  BY <1>3 DEF Dies, ImportFinish, Finish, RunOver, QuietRunIsNoop
<1>4. CASE StartRun \/ WalkDst \/ StartDeletes
  BY <1>4, StartFacts, WalkDstFacts DEF StartDeletes, QuietRunIsNoop
<1>5. CASE Copy \/ CopyFails \/ VerifyFails \/ Delete \/ DeleteFails
  BY <1>5, CopyFacts, FailFacts, DeleteFacts DEF QuietRunIsNoop
<1>6. ASSUME NEW p \in Paths, PathStep(p), settled, cur' # None
      PROVE  {cur'.path, cur'.target} \cap touched' # {}
  <2>0. /\ phase # "idle" => \A q \in Paths \ touched : Quiet(q)
        /\ touched \subseteq touched' /\ cur = None /\ p \in todo
        /\ fs["src"][p] \in Entry \cup {None} /\ fs["dst"][p] \in Entry \cup {None}
        /\ walked["dst"][p] \in Meta \cup {None}
    BY <1>6, PathFacts DEF QuietInv, Core, OneWayTypeOK, Sides
  <2>1. CASE Choose(p)
    <3>1. SUFFICES ASSUME p \notin touched PROVE FALSE
      BY <2>0, <2>1 DEF Choose
    <3>2. /\ phase = "copy" /\ job.mode = "sync" /\ walked["src"][p] # None
          /\ walked["src"][p] = MetaOf(fs["src"][p]) /\ Seen(walked["dst"][p], fs["dst"][p])
          /\ NeedsCopy(walked["src"][p], walked["dst"][p]) /\ Quiet(p)
      BY <2>0, <2>1, <3>1 DEF Choose, Core, RunShape, SeenInv, TargetWalked
    <3>3. fs["src"][p] # None /\ fs["src"][p] \in Entry
      BY <2>0, <3>2, MetaFacts
    <3>4. fs["dst"][p] # None /\ ~NeedsCopy(MetaOf(fs["src"][p]), MetaOf(fs["dst"][p]))
      BY <3>2, <3>3 DEF Quiet
    <3>5. walked["dst"][p] \in Meta
      BY <2>0, <3>2, <3>4 DEF Seen
    <3> QED BY <2>0, <3>2, <3>3, <3>4, <3>5, SeenNeeds
  <2>2. CASE ChooseDelete(p)
    <3>1. SUFFICES ASSUME p \notin touched PROVE FALSE
      BY <2>0, <2>2 DEF ChooseDelete
    <3>2. /\ phase = "delete" /\ job.mode = "sync" /\ p \in DeleteCandidates
          /\ walked["src"][p] = MetaOf(fs["src"][p]) /\ Seen(walked["dst"][p], fs["dst"][p])
          /\ Quiet(p)
      BY <2>0, <2>2, <3>1 DEF ChooseDelete, Core, RunShape, SeenInv, TargetWalked
    <3>3. fs["src"][p] = None /\ fs["dst"][p] # None
      BY <2>0, <3>2, MetaFacts DEF DeleteCandidates, Seen
    <3> QED BY <3>2, <3>3 DEF Quiet, DeleteCandidates
  <2>3. CASE ImportChoose(p)
    <3> DEFINE t == job.importTo[p]
    <3>1. SUFFICES ASSUME p \notin touched, t \notin touched PROVE FALSE
      BY <2>0, <2>3 DEF ImportChoose
    <3>2. t \in Paths
      BY DEF Core, OneWayTypeOK, JobSettings
    <3>3. /\ phase = "import" /\ job.mode = "import" /\ walked["src"][p] # None
          /\ walked["dst"][t] = None
          /\ walked["src"][p] = MetaOf(fs["src"][p]) /\ Seen(walked["dst"][t], fs["dst"][t])
          /\ Quiet(p)
      BY <2>0, <2>3, <3>1, <3>2 DEF ImportChoose, Core, RunShape, SeenInv, TargetWalked
    <3> QED BY <2>0, <3>1, <3>2, <3>3, MetaFacts DEF Quiet, Seen
  <2>4. CASE Skip(p) \/ ImportSkip(p)
    BY <1>6, <2>0, <2>4 DEF Skip, ImportSkip, ImportEnds
  <2> QED BY <1>6, <2>1, <2>2, <2>3, <2>4 DEF PathStep
<1>7. ASSUME NEW p \in Paths, PathStep(p) PROVE QuietRunIsNoop'
  BY <1>6, <1>7, PathFacts DEF QuietRunIsNoop
<1> QED BY <1>1, <1>2, <1>3, <1>4, <1>5, <1>7 DEF EngineStep

\* Nothing is left to do after a run that completed, nor where nothing happened
\* since.
LEMMA QuietStep ==
    ASSUME Core, SeenInv, DoneInv, BecameInv, QuietInv, QuietRunIsNoop, EngineStep
    PROVE  QuietInv'
<1> USE DEF NeedsCopy, MetaOf
<1>1. CASE Rests \/ Cancel
  BY <1>1, LeavesFacts DEF Leaves, QuietInv, Quiet
<1>2. ASSUME NEW side \in Sides, NEW p \in Paths, NEW e \in Entry \cup {None},
             Disturbed(side, p, e)
      PROVE  QuietInv'
  <2>1. \A q \in Paths : job.importTo[q] \in Paths
    BY DEF Core, OneWayTypeOK, JobSettings
  <2>2. \A q \in Paths \ touched' : Quiet(q) => Quiet(q)'
    BY <1>2, <2>1, DisturbedFacts DEF Quiet
  <2> QED BY <1>2, <2>2, DisturbedFacts DEF QuietInv
<1>3. CASE Dies
  <2>1. phase # "idle" => ~completed'
    BY <1>3 DEF Dies, Core, RunShape, ghosts
  <2> QED BY <1>3, <2>1 DEF Dies, RunOver, disk, ghosts, QuietInv, Quiet
<1>4. CASE StartRun
  <2>1. settled' => completed /\ touched = {}
    BY <1>4, StartFacts
  <2>2. settled' => \A p \in Paths \ touched' : Quiet(p)
    BY <1>4, <2>1, StartFacts DEF QuietInv
  <2> QED BY <1>4, <2>1, <2>2, StartFacts DEF QuietInv, Quiet
<1>5. CASE WalkDst
  BY <1>5, WalkDstFacts DEF QuietInv, Quiet
<1>6. CASE StartDeletes
  BY <1>6 DEF StartDeletes, disk, ghosts, QuietInv, Quiet
<1>7. CASE Copy
  <2> DEFINE t == cur.target
  <2>1. settled => cur.path \in touched \/ t \in touched
    BY <1>7, CopyFacts DEF QuietRunIsNoop
  <2>2. /\ fs'["dst"][t] # None
        /\ \A p \in Paths \ {t} : fs'["dst"][p] = fs["dst"][p]
        /\ UNCHANGED <<job, stored, touched, settled, phase>> /\ fs'["src"] = fs["src"]
        /\ phase \in {"copy", "import"}
    BY <1>7, CopyFacts, CopiedType, OneWayNone DEF Copy, Replace
  <2>3. CASE phase = "copy"
    <3>1. t = cur.path /\ job.mode = "sync"
      BY <1>7, <2>3, CopyFacts, CursorFacts DEF Core, RunShape
    <3> QED BY <2>1, <2>2, <2>3, <3>1 DEF QuietInv, Quiet
  <2>4. CASE phase = "import"
    <3>1. job.mode = "import" /\ \A p \in Paths : job.importTo[p] \in Paths
      BY <2>4 DEF Core, RunShape, OneWayTypeOK, JobSettings
    <3> QED BY <2>1, <2>2, <2>4, <3>1 DEF QuietInv, Quiet
  <2> QED BY <2>2, <2>3, <2>4
<1>8. CASE CopyFails \/ VerifyFails \/ DeleteFails
  <2>1. phase # "idle"
    BY <1>8, CursorFacts DEF CopyFails, VerifyFails, DeleteFails
  <2>2. \A p \in Paths : job.importTo[p] \in Paths
    BY DEF Core, OneWayTypeOK, JobSettings
  <2> QED BY <1>8, <2>1, <2>2, FailFacts DEF QuietInv, Quiet
<1>9. CASE Delete
  <2>1. settled => cur.path \in touched
    BY <1>9, DeleteFacts DEF QuietRunIsNoop
  <2> QED BY <1>9, <2>1, DeleteFacts DEF QuietInv, Quiet
<1>10. CASE Finish
  <2>0. /\ phase = "delete" /\ todo = {} /\ phase' = "idle" /\ UNCHANGED <<job, fs, touched>>
        /\ stored' = OneWayState /\ job.mode = "sync"
    BY <1>10 DEF Finish, RunOver, Core, RunShape
  <2>1. ASSUME NEW p \in Paths \ touched, fs["src"][p] # None
        PROVE  fs["dst"][p] # None /\ ~NeedsCopy(MetaOf(fs["src"][p]), MetaOf(fs["dst"][p]))
    <3>1. /\ fs["src"][p] \in Entry /\ fs["dst"][p] \in Entry \cup {None}
          /\ walked["dst"][p] \in Meta \cup {None}
      BY <2>1 DEF Core, OneWayTypeOK, Sides
    <3>2. /\ walked["src"][p] = MetaOf(fs["src"][p]) /\ walked["src"][p] # None
          /\ Seen(walked["dst"][p], fs["dst"][p])
      BY <2>0, <2>1, <3>1, MetaFacts DEF SeenInv, TargetWalked
    <3>3. walked["dst"][p] # None /\ ~NeedsCopy(walked["src"][p], walked["dst"][p])
      BY <2>0, <2>1, <3>2 DEF DoneInv
    <3>4. fs["dst"][p] # None
      BY <3>2, <3>3 DEF Seen
    <3> QED BY <3>1, <3>2, <3>3, <3>4, SeenNeeds
  <2>2. ASSUME NEW p \in Paths \ touched, fs["src"][p] = None, fs["dst"][p] # None,
               job.policy # "backup"
        PROVE  job.policy = "backup-with-deletes" /\ stored'[p] = None
    <3>1. walked["src"][p] = None
      BY <2>0, <2>2 DEF SeenInv, MetaOf
    <3>2. ~Deletable(p)
      BY <2>0, <2>2, <3>1 DEF BecameInv
    <3>3. job.policy \in Policies
      BY DEF Core, OneWayTypeOK, JobSettings
    <3> QED BY <2>0, <2>2, <3>1, <3>2, <3>3 DEF Deletable, OneWayState, Policies
  <2> QED BY <2>0, <2>1, <2>2 DEF QuietInv, Quiet
<1>11. CASE ImportFinish
  <2>0. /\ phase = "import" /\ todo = {} /\ phase' = "idle" /\ UNCHANGED <<job, fs, touched, stored>>
        /\ job.mode = "import"
    BY <1>11 DEF ImportFinish, RunOver, Core, RunShape, disk
  <2>1. ASSUME NEW p \in Paths \ touched, fs["src"][p] # None, job.importTo[p] \notin touched
        PROVE  fs["dst"][job.importTo[p]] # None
    <3>1. /\ fs["src"][p] \in Entry /\ job.importTo[p] \in Paths
      BY <2>1 DEF Core, OneWayTypeOK, JobSettings, Sides
    <3>2. walked["src"][p] # None
      BY <2>0, <2>1, <3>1, MetaFacts DEF SeenInv
    <3>3. walked["dst"][job.importTo[p]] # None
      BY <2>0, <2>1, <3>2 DEF DoneInv
    <3> QED BY <2>0, <2>1, <3>1, <3>3 DEF SeenInv, Seen, TargetWalked
  <2> QED BY <2>0, <2>1 DEF QuietInv, Quiet
<1>12. ASSUME NEW p \in Paths, PathStep(p) PROVE QuietInv'
  <2>1. phase # "idle"
    BY <1>12 DEF PathStep, Skip, Choose, ChooseDelete, ImportSkip, ImportChoose
  <2> QED BY <1>12, <2>1, PathFacts DEF QuietInv, Quiet
<1> QED BY <1>1, <1>2, <1>3, <1>4, <1>5, <1>6, <1>7, <1>8, <1>9, <1>10, <1>11, <1>12
        DEF EngineStep, Disturbance

\* A backup that was made of a file nobody touched is what the run found
\* (backupBeforeAction).
LEMMA BackupNotes ==
    ASSUME Core, NEW p \in Paths, NEW action \in {"overwritten", "deleted"},
           BackupBeforeAction(p, action), p \notin dirty',
           fs["dst"][p] = before[p], walked["dst"][p] = MetaOf(before[p])
    PROVE  Noted(manifest'[p], before[p])
<1>1. manifest'[p] = [action |-> action, backup |-> BackupOf(p)]
  BY DEF BackupBeforeAction, Core, OneWayTypeOK, Manifest
<1>2. before[p] \in Entry \cup {None}
  BY DEF Core, OneWayTypeOK
<1>3. BackupOf(p) = before[p]
  BY <1>2, MetaFacts DEF BackupOf, Entry
<1> QED BY <1>1, <1>3 DEF Noted

\* The manifest of a run says what it found (rollback.entries).
LEMMA ManifestStep == ASSUME Core, ManifestInv, EngineStep PROVE ManifestInv'
<1>1. CASE Rests \/ Cancel
  BY <1>1, LeavesFacts DEF Leaves, ManifestInv, Noted, MetaOf
<1>2. CASE Disturbance
  BY <1>2, DisturbedFacts DEF Disturbance, ManifestInv, Noted, MetaOf
<1>3. CASE Dies \/ ImportFinish \/ Finish
  BY <1>3, EndsFacts DEF Ends, ManifestInv
<1>4. CASE StartRun
  BY <1>4, StartFacts DEF ManifestInv
<1>5. CASE WalkDst
  BY <1>5, WalkDstFacts DEF ManifestInv, NoFiles, MetaOf
<1>6. CASE StartDeletes
  BY <1>6 DEF StartDeletes, ManifestInv, Noted, MetaOf, DeleteCandidates, disk, ghosts
<1>7. CASE Copy
  <2>1. phase = "copy" => cur.target = cur.path
    BY <1>7, CopyFacts, CursorFacts
  <2> QED BY <1>7, <2>1, CopyFacts DEF ManifestInv, Noted, MetaOf
<1>8. CASE CopyFails \/ VerifyFails \/ DeleteFails
  <2>1. phase # "import" => cur.target = cur.path
    BY <1>8, FailFacts, CursorFacts
  <2> QED BY <1>8, <2>1, FailFacts DEF ManifestInv, Noted, MetaOf
<1>9. CASE Delete
  BY <1>9, DeleteFacts DEF ManifestInv, Noted, MetaOf
<1>10. ASSUME NEW p \in Paths, PathStep(p) PROVE ManifestInv'
  <2>1. CASE Skip(p)
    BY <1>10, <2>1, PathFacts DEF Skip, ManifestInv, Noted, MetaOf, ghosts
  <2>2. CASE ImportSkip(p) \/ ImportChoose(p)
    BY <2>2 DEF ImportSkip, ImportEnds, ImportChoose, ManifestInv
  <2>3. ASSUME NEW action \in {"overwritten", "deleted", "created"}, NEW b,
               manifest' = [manifest EXCEPT ![p] = [action |-> action, backup |-> b]],
               cur' = [path |-> p, target |-> p, kind |-> IF phase = "copy" THEN "copy" ELSE "delete"],
               p \in Paths \ dirty' => Noted(manifest'[p], before[p]),
               phase = "copy" => walked["src"][p] # None,
               phase \in {"copy", "delete"}, b \in Entry \cup {None}
        PROVE  ManifestInv'
    <3>1. \A q \in Paths : manifest'[q] = IF q = p THEN [action |-> action, backup |-> b]
                                          ELSE manifest[q]
      BY <2>3 DEF Core, OneWayTypeOK, Manifest
    <3>2. [action |-> action, backup |-> b] # None
      BY <2>3, OneWayNone DEF RollbackFileEntry
    <3>3. cur' # None /\ cur'.path = p /\ cur'.target = p
      BY <2>3, OneWayNone DEF Cursor
    <3> QED BY <1>10, <2>3, <3>1, <3>2, <3>3, PathFacts DEF ManifestInv, Noted, MetaOf
  <2>4. p \notin dirty /\ phase \in {"copy", "delete"} =>
            fs["dst"][p] = before[p] /\ walked["dst"][p] = MetaOf(before[p])
    BY <1>10, PathFacts DEF ManifestInv
  <2>5. ASSUME NEW action \in {"overwritten", "deleted"}, BackupBeforeAction(p, action),
               phase \in {"copy", "delete"}, walked["dst"][p] # None
        PROVE  /\ p \in Paths \ dirty' => Noted(manifest'[p], before[p])
               /\ \E b \in Entry \cup {None} :
                     manifest' = [manifest EXCEPT ![p] = [action |-> action, backup |-> b]]
    <3>1. dirty \subseteq dirty'
      BY <2>5 DEF BackupBeforeAction
    <3>2. p \in Paths \ dirty' => Noted(manifest'[p], before[p])
      BY <2>4, <2>5, <3>1, BackupNotes
    <3>3. BackupOf(p) \in Entry \cup {None}
      BY <2>5 DEF BackupOf, Core, OneWayTypeOK, Entry, Meta, Sides
    <3> QED BY <2>5, <3>2, <3>3 DEF BackupBeforeAction
  <2>6. CASE Choose(p)
    <3>1. /\ phase = "copy" /\ walked["src"][p] # None
          /\ cur' = [path |-> p, target |-> p, kind |-> "copy"]
      BY <2>6 DEF Choose, Core, RunShape
    <3>2. CASE walked["dst"][p] # None
      <4>1. BackupBeforeAction(p, "overwritten")
        BY <2>6, <3>2 DEF Choose
      <4> QED BY <2>3, <2>5, <3>1, <3>2, <4>1
    <3>3. CASE walked["dst"][p] = None
      <4>1. /\ manifest' = [manifest EXCEPT ![p] = [action |-> "created", backup |-> None]]
            /\ dirty' = dirty
        BY <2>6, <3>3 DEF Choose, RecordCreated
      <4>2. manifest'[p] = [action |-> "created", backup |-> None]
        BY <4>1 DEF Core, OneWayTypeOK, Manifest
      <4>3. p \in Paths \ dirty' => before[p] = None
        BY <2>4, <3>1, <3>3, <4>1, MetaFacts DEF Core, OneWayTypeOK
      <4>4. p \in Paths \ dirty' => Noted(manifest'[p], before[p])
        BY <4>2, <4>3 DEF Noted
      <4> QED BY <2>3, <3>1, <4>1, <4>4
    <3> QED BY <3>2, <3>3
  <2>7. CASE ChooseDelete(p)
    <3>1. /\ phase = "delete" /\ walked["dst"][p] # None /\ BackupBeforeAction(p, "deleted")
          /\ cur' = [path |-> p, target |-> p, kind |-> "delete"]
      BY <2>7 DEF ChooseDelete, Core, RunShape, DeleteCandidates
    <3> QED BY <2>3, <2>5, <3>1
  <2> QED BY <1>10, <2>1, <2>2, <2>6, <2>7 DEF PathStep
<1> QED BY <1>1, <1>2, <1>3, <1>4, <1>5, <1>6, <1>7, <1>8, <1>9, <1>10 DEF EngineStep

\* The invariant of the engine, which every step keeps.
EngineInv == /\ Core /\ KeptInv /\ SeenInv /\ DoneInv /\ BecameInv
             /\ QuietInv /\ QuietRunIsNoop /\ ManifestInv

\* Before the first run nothing is known and nothing is lost.
LEMMA EngineStarts == ASSUME OneWayInit PROVE EngineInv
<1> USE DEF OneWayInit, NoFiles
<1>1. job \in JobSettings /\ budget \in Budget
  BY OneWayAssumption
<1>2. \A side \in Sides, p \in Paths : /\ fs[side][p] \in Entry \cup {None}
                                       /\ fs[side][p] # None => fs[side][p].size = 1
  BY OneWayAssumption DEF Found, Entry, Contents, Torn, Times, Sizes
<1>3. fs \in [Sides -> [Paths -> Entry \cup {None}]]
  BY <1>2
<1>4. OneWayTypeOK
  <2>1. walked \in [Sides -> [Paths -> Meta \cup {None}]] /\ manifest \in Manifest
    BY DEF Manifest
  <2>2. /\ stored \in [Paths -> StoredFileState \cup {None}]
        /\ before \in [Paths -> Entry \cup {None}]
    OBVIOUS
  <2>3. runs \in 0..MaxRuns /\ clock \in 0..MaxClock /\ faults \in 0..MaxFaults
    BY OneWayAssumption
  <2> QED BY <1>1, <1>3, <2>1, <2>2, <2>3 DEF OneWayTypeOK, Phases
<1>5. Core
  BY <1>2, <1>4 DEF Core, SourceSizes, RunShape, CursorShape, Sides
<1>6. KeptInv /\ SeenInv /\ DoneInv /\ BecameInv
  BY DEF KeptInv, SeenInv, DoneInv, BecameInv, TargetWalked
<1>7. QuietInv /\ QuietRunIsNoop /\ ManifestInv
  BY DEF QuietInv, QuietRunIsNoop, ManifestInv
<1> QED BY <1>5, <1>6, <1>7 DEF EngineInv

\* Part by part, what every step does to the engine.
LEMMA EngineKept == ASSUME EngineInv, EngineStep PROVE EngineInv'
BY CoreKept, KeptStep, SeenStep, DoneStep, BecameStep, QuietStep, NoopStep, ManifestStep
   DEF EngineInv

\* What a run that ends well leaves is what the target should be (syncOneWay,
\* runImportSync).
LEMMA DeliversStep ==
    ASSUME EngineInv, EngineStep, completed', NEW p \in Paths \ touched
    PROVE  /\ phase = "delete" => Mirrored(p)
           /\ phase = "import" => Arrived(p)
<1> USE DEF EngineInv
<1>0. /\ fs["src"][p] \in Entry \cup {None} /\ fs["dst"][p] \in Entry \cup {None}
      /\ walked["dst"][p] \in Meta \cup {None} /\ job.encrypted \in BOOLEAN
  BY DEF Core, OneWayTypeOK, JobSettings, Sides
<1>1. ASSUME phase \in {"delete", "import"} PROVE Finish \/ ImportFinish
  <2>1. ~completed
    BY <1>1 DEF Core, RunShape
  <2>2. phase' = "idle"
    BY CoreKept DEF Core, RunShape
  <2>3. ASSUME NEW q \in Paths, PathStep(q) PROVE FALSE
    BY <2>1, <2>3, PathFacts
  <2>4. ASSUME Rests \/ Cancel PROVE FALSE
    BY <2>1, <2>4, LeavesFacts DEF Leaves
  <2> QED BY <1>1, <2>1, <2>2, <2>3, <2>4, DisturbedFacts, CopyFacts, FailFacts, DeleteFacts
          DEF EngineStep, Disturbance, Dies, ghosts, StartRun, WalkDst, StartDeletes
<1>2. ASSUME phase = "delete" PROVE Mirrored(p)
  <2>0. todo = {}
    BY <1>1, <1>2 DEF Finish, ImportFinish
  <2>1. walked["src"][p] = MetaOf(fs["src"][p]) /\ Seen(walked["dst"][p], fs["dst"][p])
    BY <1>2 DEF SeenInv, TargetWalked
  <2>2. CASE fs["src"][p] # None
    <3>1. walked["src"][p] # None
      BY <1>0, <2>1, <2>2, MetaFacts
    <3>2. walked["dst"][p] # None /\ ~NeedsCopy(walked["src"][p], walked["dst"][p])
      BY <1>2, <3>1 DEF DoneInv
    <3>3. fs["dst"][p] # None
      BY <2>1, <3>2 DEF Seen
    <3>4. ~NeedsCopy(MetaOf(fs["src"][p]), MetaOf(fs["dst"][p]))
      BY <1>0, <2>1, <2>2, <3>2, <3>3, SeenNeeds
    <3>5. /\ ~(fs["src"][p].mtimeMs > fs["dst"][p].mtimeMs)
          /\ job.encrypted \/ fs["dst"][p].size = fs["src"][p].size
      BY <1>0, <2>2, <3>3, <3>4, MetaFacts DEF NeedsCopy
    <3>6. fs["dst"][p].mtimeMs >= fs["src"][p].mtimeMs
      BY <1>0, <2>2, <3>3, <3>5, OneWayAssumption DEF Entry, Times
    <3>7. fs["dst"][p].data = fs["src"][p].data \/ fs["dst"][p] = before[p]
      BY <1>2, <3>1, <3>3 DEF BecameInv
    <3> QED BY <2>2, <3>3, <3>5, <3>6, <3>7 DEF Mirrored
  <2>3. CASE fs["src"][p] = None
    <3>1. walked["src"][p] = None
      BY <1>0, <2>1, <2>3, MetaFacts
    <3>2. fs["dst"][p] = IF Deletable(p) THEN None ELSE before[p]
      BY <1>2, <2>0, <3>1 DEF BecameInv
    <3> QED BY <2>3, <3>2 DEF Mirrored, Deletable
  <2> QED BY <2>2, <2>3
<1>3. ASSUME phase = "import" PROVE Arrived(p)
  <2> DEFINE t == job.importTo[p]
  <2>0. todo = {} /\ t \in Paths
    BY <1>1, <1>3 DEF Finish, ImportFinish, Core, OneWayTypeOK, JobSettings
  <2>1. SUFFICES ASSUME fs["src"][p] # None, t \notin touched, ~job.encrypted
                 PROVE  MetaOf(fs["dst"][t]) = MetaOf(fs["src"][p])
    BY DEF Arrived
  <2>2. /\ walked["src"][p] = MetaOf(fs["src"][p]) /\ walked["src"][p] # None
        /\ Seen(walked["dst"][t], fs["dst"][t])
    BY <1>0, <1>3, <2>0, <2>1, MetaFacts DEF SeenInv, TargetWalked
  <2>3. walked["dst"][t] # None /\ walked["dst"][t] = walked["src"][p]
    BY <1>3, <2>0, <2>1, <2>2 DEF DoneInv
  <2>4. /\ fs["dst"][t] # None /\ fs["dst"][t].mtimeMs = walked["src"][p].mtimeMs
        /\ fs["dst"][t].size = walked["src"][p].size
    BY <2>1, <2>2, <2>3 DEF Seen
  <2> QED BY <1>0, <2>1, <2>2, <2>4 DEF MetaOf
<1> QED BY <1>2, <1>3

\* A run deletes what its policy says and nothing else.
LEMMA DeletesStep ==
    ASSUME EngineInv, EngineStep, NEW p \in Paths,
           fs["dst"][p] # None, fs'["dst"][p] = None, cur # None, cur' = None
    PROVE  /\ walked["src"][p] = None /\ job.mode = "sync"
           /\ \/ job.policy = "mirror"
              \/ job.policy = "backup-with-deletes" /\ stored[p] # None
<1> USE DEF EngineInv
<1>1. Copy \/ VerifyFails => FALSE
  <2>1. ASSUME Copy PROVE FALSE
    BY <2>1, CopyFacts, CopiedType, OneWayNone DEF Copy, Replace
  <2>2. ASSUME VerifyFails PROVE FALSE
    BY <2>2, CursorFacts, CopiedType, OneWayNone DEF VerifyFails, Replace, Core, OneWayTypeOK, Sides
  <2> QED BY <2>1, <2>2
<1>2. ASSUME Delete PROVE p = cur.path
  BY <1>2, DeleteFacts
<1>3. Delete
  <2>1. ASSUME NEW q \in Paths, PathStep(q) PROVE FALSE
    BY <2>1, PathFacts
  <2>2. ASSUME Rests \/ Cancel PROVE FALSE
    BY <2>2, LeavesFacts DEF Leaves
  <2>3. ASSUME Dies \/ ImportFinish \/ Finish PROVE FALSE
    BY <2>3, EndsFacts DEF Ends
  <2>4. ASSUME Disturbance PROVE FALSE
    BY <2>4, DisturbedFacts DEF Disturbance
  <2>5. ASSUME StartRun \/ WalkDst \/ StartDeletes \/ CopyFails \/ DeleteFails PROVE FALSE
    BY <2>5, StartFacts, WalkDstFacts DEF StartDeletes, CopyFails, DeleteFails, disk
  <2> QED BY <1>1, <2>1, <2>2, <2>3, <2>4, <2>5 DEF EngineStep
<1> QED BY <1>2, <1>3, DeleteFacts DEF DeleteCandidates

-----------------------------------------------------------------------------
(* Requests and log entries. *)

\* Only one request is concerned.
Bystanders(a) == \A b \in Attempts \ {a} : attempts'[b] = attempts[b]

\* A request's stage changes, and nothing else of it.
LEMMA StageFacts ==
    ASSUME RollbackTypeOK, NEW a \in Attempts, NEW s \in Stages, Stage(a, s)
    PROVE  /\ attempts' \in [Attempts -> Attempt] /\ Bystanders(a)
           /\ attempts'[a].stage = s /\ attempts'[a].log = attempts[a].log
           /\ attempts'[a].checkedAt = attempts[a].checkedAt
           /\ attempts'[a].todo = attempts[a].todo
BY DEF RollbackTypeOK, Stage, Attempt, Bystanders

\* A request is checked (POST /:id/log/:logId/rollback).
LEMMA AskedFacts ==
    ASSUME RollbackTypeOK, NEW a \in Attempts, NEW r \in RunIds, RollbackAsked(a, r)
    PROVE  /\ attempts' \in [Attempts -> Attempt] /\ Bystanders(a)
           /\ attempts'[a].stage = "checked" /\ attempts'[a].log = r
           /\ attempts'[a].checkedAt = runs /\ attempts'[a].todo = attempts[a].todo
<1> DEFINE new == [attempts[a] EXCEPT !.stage = "checked", !.log = r, !.checkedAt = runs]
<1>1. attempts[a] \in Attempt /\ r \in 0..MaxRuns /\ runs \in 0..MaxRuns
  BY OneWayAssumption DEF RollbackTypeOK, OneWayTypeOK, RunIds
<1>2. /\ new \in Attempt /\ new.stage = "checked" /\ new.log = r
      /\ new.checkedAt = runs /\ new.todo = attempts[a].todo
  BY <1>1 DEF Attempt, Stages
<1>3. attempts' = [attempts EXCEPT ![a] = new]
  BY DEF RollbackAsked
<1> HIDE DEF new
<1> QED BY <1>2, <1>3 DEF RollbackTypeOK, Bystanders

\* A rollback begins with every entry of its manifest to undo.
LEMMA BeginFacts ==
    ASSUME RollbackTypeOK, NEW a \in Attempts, NEW todoing \in SUBSET Paths,
           attempts' = [attempts EXCEPT ![a] = [@ EXCEPT !.stage = "undoing", !.todo = todoing]]
    PROVE  /\ attempts' \in [Attempts -> Attempt] /\ Bystanders(a)
           /\ attempts'[a].stage = "undoing" /\ attempts'[a].log = attempts[a].log
           /\ attempts'[a].checkedAt = attempts[a].checkedAt
           /\ attempts'[a].todo = todoing
<1> DEFINE new == [attempts[a] EXCEPT !.stage = "undoing", !.todo = todoing]
<1>1. attempts[a] \in Attempt
  BY DEF RollbackTypeOK
<1>2. /\ new \in Attempt /\ new.stage = "undoing" /\ new.log = attempts[a].log
      /\ new.checkedAt = attempts[a].checkedAt /\ new.todo = todoing
  BY <1>1 DEF Attempt, Stages
<1>3. attempts' = [attempts EXCEPT ![a] = new]
  OBVIOUS
<1> HIDE DEF new
<1> QED BY <1>2, <1>3 DEF RollbackTypeOK, Bystanders

\* One entry is done with.
LEMMA EntryFacts ==
    ASSUME RollbackTypeOK, NEW a \in Attempts, NEW p \in Paths, UndoEntry(a, p)
    PROVE  /\ attempts' \in [Attempts -> Attempt] /\ Bystanders(a)
           /\ attempts'[a].stage = attempts[a].stage /\ attempts'[a].log = attempts[a].log
           /\ attempts'[a].checkedAt = attempts[a].checkedAt
           /\ attempts'[a].todo = attempts[a].todo \ {p}
BY DEF UndoEntry, RollbackTypeOK, Attempt, Bystanders

\* Every request is at another stage.
LEMMA AllStages ==
    ASSUME RollbackTypeOK, NEW stage \in [Attempts -> Stages],
           attempts' = [a \in Attempts |-> [attempts[a] EXCEPT !.stage = stage[a]]]
    PROVE  /\ attempts' \in [Attempts -> Attempt]
           /\ \A a \in Attempts : /\ attempts'[a].stage = stage[a]
                                  /\ attempts'[a].log = attempts[a].log
                                  /\ attempts'[a].checkedAt = attempts[a].checkedAt
                                  /\ attempts'[a].todo = attempts[a].todo
BY DEF RollbackTypeOK, Attempt

\* What a break makes of a stage: nothing that works is left, but for the server's
\* handlers.
Broken(stage, next) ==
    /\ next = "unused" <=> stage = "unused"
    /\ next \in AtServer => stage = next
    /\ next = "deaf" => stage \in {"undoing", "deaf"}
    /\ next \notin {"sent", "undoing", "complete", "error"}

\* A connection or a process that breaks ends every rollback, or makes it deaf.
LEMMA BreakFacts ==
    ASSUME RollbackTypeOK, Disconnect \/ ServerRestart \/ AgentCrash
    PROVE  /\ attempts' \in [Attempts -> Attempt]
           /\ \A a \in Attempts :
                 /\ attempts'[a].log = attempts[a].log
                 /\ attempts'[a].checkedAt = attempts[a].checkedAt
                 /\ attempts'[a].todo = attempts[a].todo
                 /\ Broken(attempts[a].stage, attempts'[a].stage)
           /\ pending' \in {0, pending} /\ ended' = {} /\ breaks' \in 0..MaxFaults
           /\ fs' = fs /\ runs' = runs /\ phase' \in {phase, "idle"}
           /\ UNCHANGED <<status, manifests, pruned, origin, spoilt, rows, crossed>>
<1>0. \A a \in Attempts : attempts[a].stage \in Stages
  BY DEF RollbackTypeOK, Attempt
<1>1. breaks' \in 0..MaxFaults
  BY BudgetFacts, OneWayAssumption
     DEF Disconnect, ServerRestart, AgentCrash, Break, RollbackTypeOK
<1>2. /\ pending' \in {0, pending} /\ ended' = {}
      /\ fs' = fs /\ runs' = runs /\ phase' \in {phase, "idle"}
      /\ UNCHANGED <<status, manifests, pruned, origin, spoilt, rows, crossed>>
  BY DEF Disconnect, ServerRestart, AgentCrash, RunOver, disk, runv, bounds
<1>3. CASE Disconnect
  <2> DEFINE f == [a \in Attempts |-> AfterBreak(attempts[a].stage)]
  <2>1. f \in [Attempts -> Stages]
    BY <1>0 DEF AfterBreak, AtServer, Stages
  <2>2. attempts' = [a \in Attempts |-> [attempts[a] EXCEPT !.stage = f[a]]]
    BY <1>3 DEF Disconnect
  <2>3. \A a \in Attempts : f[a] = AfterBreak(attempts[a].stage)
    OBVIOUS
  <2> HIDE DEF f
  <2>4. \A a \in Attempts : Broken(attempts[a].stage, f[a])
    BY <1>0, <2>3 DEF Broken, AfterBreak, AtServer, Stages
  <2>5. /\ attempts' \in [Attempts -> Attempt]
        /\ \A a \in Attempts : /\ attempts'[a].stage = f[a]
                               /\ attempts'[a].log = attempts[a].log
                               /\ attempts'[a].checkedAt = attempts[a].checkedAt
                               /\ attempts'[a].todo = attempts[a].todo
    BY <2>1, <2>2, AllStages
  <2> QED BY <1>1, <1>2, <2>4, <2>5
<1>4. CASE ServerRestart
  <2> DEFINE f == [a \in Attempts |-> IF attempts[a].stage \in AtServer THEN "over"
                                      ELSE AfterBreak(attempts[a].stage)]
  <2>1. f \in [Attempts -> Stages]
    BY <1>0 DEF AfterBreak, AtServer, Stages
  <2>2. attempts' = [a \in Attempts |-> [attempts[a] EXCEPT !.stage = f[a]]]
    BY <1>4 DEF ServerRestart
  <2>3. \A a \in Attempts : f[a] = IF attempts[a].stage \in AtServer THEN "over"
                                   ELSE AfterBreak(attempts[a].stage)
    OBVIOUS
  <2> HIDE DEF f
  <2>4. \A a \in Attempts : Broken(attempts[a].stage, f[a])
    BY <1>0, <2>3 DEF Broken, AfterBreak, AtServer, Stages
  <2>5. /\ attempts' \in [Attempts -> Attempt]
        /\ \A a \in Attempts : /\ attempts'[a].stage = f[a]
                               /\ attempts'[a].log = attempts[a].log
                               /\ attempts'[a].checkedAt = attempts[a].checkedAt
                               /\ attempts'[a].todo = attempts[a].todo
    BY <2>1, <2>2, AllStages
  <2> QED BY <1>1, <1>2, <2>4, <2>5
<1>5. CASE AgentCrash
  <2> DEFINE f == [a \in Attempts |-> IF attempts[a].stage \in AtServer \cup {"unused"}
                                      THEN attempts[a].stage ELSE "over"]
  <2>1. f \in [Attempts -> Stages]
    BY <1>0 DEF AfterBreak, AtServer, Stages
  <2>2. attempts' = [a \in Attempts |-> [attempts[a] EXCEPT !.stage = f[a]]]
    BY <1>5 DEF AgentCrash
  <2>3. \A a \in Attempts : f[a] = IF attempts[a].stage \in AtServer \cup {"unused"}
                                   THEN attempts[a].stage ELSE "over"
    OBVIOUS
  <2> HIDE DEF f
  <2>4. \A a \in Attempts : Broken(attempts[a].stage, f[a])
    BY <1>0, <2>3 DEF Broken, AfterBreak, AtServer, Stages
  <2>5. /\ attempts' \in [Attempts -> Attempt]
        /\ \A a \in Attempts : /\ attempts'[a].stage = f[a]
                               /\ attempts'[a].log = attempts[a].log
                               /\ attempts'[a].checkedAt = attempts[a].checkedAt
                               /\ attempts'[a].todo = attempts[a].todo
    BY <2>1, <2>2, AllStages
  <2> QED BY <1>1, <1>2, <2>4, <2>5
<1> QED BY <1>3, <1>4, <1>5

\* What a change of the target spoils.
LEMMA SpoilFacts ==
    ASSUME RollbackTypeOK, NEW r, Spoil(r)
    PROVE  /\ spoilt' \in [RunIds -> SUBSET Paths]
           /\ \A l \in RunIds : /\ spoilt[l] \subseteq spoilt'[l]
                                /\ l = r => spoilt'[l] = spoilt[l]
           /\ \A l \in RunIds \ {r} : \A q \in Paths \ spoilt'[l] : fs'["dst"][q] = fs["dst"][q]
BY DEF RollbackTypeOK, Spoil

\* What an entry that was undone leaves (performRollback).
LEMMA UndoFacts ==
    ASSUME RollbackTypeOK, NEW a \in Attempts, NEW p \in Paths, UndoEntry(a, p),
           NEW r \in RunIds, r = attempts[a].log
    PROVE  /\ spoilt' \in [RunIds -> SUBSET Paths]
           /\ \A l \in RunIds : spoilt[l] \subseteq spoilt'[l]
           /\ \A l \in RunIds : \A q \in Paths \ spoilt'[l] :
                 l # r \/ q # p => fs'["dst"][q] = fs["dst"][q]
           /\ p \notin spoilt'[r] /\ Noted(manifests[r][p], origin[r][p])
                 => fs'["dst"][p] = origin[r][p]
<1>0. fs \in [Sides -> [Paths -> Entry \cup {None}]] /\ spoilt \in [RunIds -> SUBSET Paths]
  BY DEF RollbackTypeOK, OneWayTypeOK
<1>1. ASSUME NEW e, Undone(r, p, e),
             Noted(manifests[r][p], origin[r][p]) => e = origin[r][p]
      PROVE  /\ spoilt' \in [RunIds -> SUBSET Paths]
             /\ \A l \in RunIds : spoilt[l] \subseteq spoilt'[l]
             /\ \A l \in RunIds : \A q \in Paths \ spoilt'[l] :
                   l # r \/ q # p => fs'["dst"][q] = fs["dst"][q]
             /\ p \notin spoilt'[r] /\ Noted(manifests[r][p], origin[r][p])
                   => fs'["dst"][p] = origin[r][p]
  <2>1. \A q \in Paths : fs'["dst"][q] = IF q = p THEN e ELSE fs["dst"][q]
    BY <1>0, <1>1 DEF Undone, Sides
  <2>2. Spoil(r)
    BY <1>1 DEF Undone
  <2> QED BY <1>1, <2>1, <2>2, SpoilFacts
<1>2. CASE UndoCreated(r, p)
  BY <1>1, <1>2 DEF UndoCreated, Noted
<1>3. CASE UndoReplaced(r, p) /\ Undone(r, p, manifests[r][p].backup)
  BY <1>1, <1>3 DEF UndoReplaced, Noted
<1>4. CASE UndoReplaced(r, p) /\ ~Undone(r, p, manifests[r][p].backup)
  <2>1. /\ spoilt' = [l \in RunIds |-> spoilt[l] \cup {p}]
        /\ \E e : fs' = [fs EXCEPT !["dst"][p] = e]
    BY <1>4 DEF UndoReplaced
  <2>2. \A q \in Paths \ {p} : fs'["dst"][q] = fs["dst"][q]
    BY <1>0, <2>1 DEF Sides
  <2> QED BY <1>0, <2>1, <2>2
<1>5. CASE UndoFails(r, p)
  BY <1>0, <1>5 DEF UndoFails
<1> QED BY <1>2, <1>3, <1>4, <1>5 DEF UndoEntry

\* The engine's steps and the user's, beside the rollbacks.
LEMMA BesideFacts ==
    ASSUME RollbackTypeOK, RunStarts \/ RunGoesOn
    PROVE  /\ UNCHANGED <<status, manifests, attempts, pending, pruned, breaks, origin, rows, crossed>>
           /\ spoilt' \in [RunIds -> SUBSET Paths]
           /\ \A l \in RunIds : spoilt[l] \subseteq spoilt'[l]
           /\ \A l \in RunIds : \A q \in Paths \ spoilt'[l] : fs'["dst"][q] = fs["dst"][q]
           /\ misled' = misled
           /\ RunGoesOn => busy' = busy /\ runs' = runs /\ (phase = "idle" => phase' = "idle")
           /\ RunStarts => busy' /\ ended' = ended /\ runs' = runs + 1 /\ phase = "idle"
<1>1. /\ UNCHANGED <<status, manifests, attempts, pending, pruned, breaks, origin, rows, crossed>>
      /\ Spoil(0) /\ misled' = misled
      /\ RunGoesOn => busy' = busy
      /\ RunStarts => busy' /\ ended' = ended
  BY DEF RunStarts, RunGoesOn, Beside
<1>2. \A l \in RunIds : l # 0
  BY OneWayAssumption DEF RunIds
<1>3. /\ spoilt' \in [RunIds -> SUBSET Paths]
      /\ \A l \in RunIds : spoilt[l] \subseteq spoilt'[l]
      /\ \A l \in RunIds : \A q \in Paths \ spoilt'[l] : fs'["dst"][q] = fs["dst"][q]
  BY <1>1, <1>2, SpoilFacts
<1>4. RunStarts => runs' = runs + 1 /\ phase = "idle"
  BY DEF RunStarts, Beside, StartRun
<1>5. ASSUME RunGoesOn PROVE runs' = runs /\ (phase = "idle" => phase' = "idle")
  <2>1. CASE User
    BY <2>1 DEF User, UserWrite, UserDelete, UserChange, runv
  <2>2. CASE OneWayRun /\ phase # "idle"
    BY <2>2 DEF OneWayRun, StartRun, WalkDst, StartDeletes, Copy, CopyFails, VerifyFails, Delete,
                DeleteFails, Visited, Cancel, Abort, ImportFinish, Skip, Choose, ChooseDelete,
                ImportSkip, ImportEnds, ImportChoose, bounds
  <2> QED BY <1>5, <2>1, <2>2 DEF RunGoesOn, Beside
<1> QED BY <1>1, <1>3, <1>4, <1>5

\* What a request, its answer and the end of a run leave alone.
Quietly == UNCHANGED <<fs, phase, runs, manifests, origin, spoilt, pruned, breaks>>

\* The server's steps are such (api/src/routes/jobs.ts, api/src/index.ts).
LEMMA QuietlyFacts ==
    ASSUME \/ \E r \in RunIds : EndHeard(r) \/ \E a \in Attempts : RollbackAsked(a, r)
           \/ \E a \in Attempts : \/ RollbackClaimed(a) \/ Answering(a)
                                  \/ UndoBegins(a) \/ UndoEnds(a)
    PROVE  Quietly
BY DEF EndHeard, RollbackAsked, RollbackClaimed, Answering, AnswerHeard, RowWritten, CompleteEnds,
       MadeAvailable, ErrorEnds, UndoBegins, UndoEnds, owVars, runv, Quietly

\* What the server makes of an answer, one step after the other.
LEMMA AnsweringFacts ==
    ASSUME RollbackTypeOK, LogInv, NEW a \in Attempts, Answering(a)
    PROVE  /\ Bystanders(a) /\ attempts'[a].log = attempts[a].log
           /\ attempts'[a].todo = attempts[a].todo
           /\ attempts'[a].checkedAt = attempts[a].checkedAt
           /\ crossed' = crossed
           /\ attempts'[a].stage \in Stages \ {"unused"}
           /\ AnswerHeard(a) => /\ UNCHANGED <<status, busy, misled, pending, rows>>
                                /\ \/ attempts[a].stage = "complete"
                                      /\ attempts'[a].stage = "restored"
                                   \/ attempts[a].stage = "error"
                                      /\ attempts'[a].stage = "failed"
           /\ RowWritten(a) => /\ attempts[a].stage = "restored"
                               /\ attempts'[a].stage \in {"logged", "over"}
                               /\ UNCHANGED <<status, pending>>
           /\ CompleteEnds(a) => /\ attempts[a].stage = "logged" /\ attempts'[a].stage = "over"
                                 /\ pending' = 0 /\ UNCHANGED <<status, rows>>
           /\ MadeAvailable(a) => /\ attempts[a].stage = "failed"
                                  /\ attempts'[a].stage \in {"reset", "over"}
                                  /\ UNCHANGED <<busy, misled, pending, rows>>
           /\ ErrorEnds(a) => /\ attempts[a].stage = "reset" /\ attempts'[a].stage = "over"
                              /\ pending' = 0 /\ UNCHANGED <<status, busy, misled, rows>>
<1> DEFINE To(s) == Stage(a, s)
<1>1. ASSUME NEW s \in Stages, To(s)
      PROVE  /\ Bystanders(a) /\ attempts'[a].log = attempts[a].log
             /\ attempts'[a].todo = attempts[a].todo
             /\ attempts'[a].checkedAt = attempts[a].checkedAt
             /\ attempts'[a].stage = s
  BY <1>1, StageFacts
<1>2. \A s \in {"restored", "failed", "logged", "reset", "over"} : s \in Stages \ {"unused"}
  BY DEF Stages
<1>3. CASE AnswerHeard(a)
  BY <1>1, <1>2, <1>3 DEF AnswerHeard, RowWritten, CompleteEnds, MadeAvailable, ErrorEnds
<1>4. CASE RowWritten(a)
  BY <1>1, <1>2, <1>4 DEF AnswerHeard, RowWritten, CompleteEnds, MadeAvailable, ErrorEnds
<1>5. CASE CompleteEnds(a)
  BY <1>1, <1>2, <1>5 DEF AnswerHeard, RowWritten, CompleteEnds, MadeAvailable, ErrorEnds
<1>6. CASE MadeAvailable(a)
  BY <1>1, <1>2, <1>6 DEF AnswerHeard, RowWritten, CompleteEnds, MadeAvailable, ErrorEnds
<1>7. CASE ErrorEnds(a)
  BY <1>1, <1>2, <1>7 DEF AnswerHeard, RowWritten, CompleteEnds, MadeAvailable, ErrorEnds
<1> QED BY <1>3, <1>4, <1>5, <1>6, <1>7 DEF Answering

\* A run that is at work, or has just ended, has a number (runs).
LEMMA RunNumber == ASSUME RollbackTypeOK, RunShape, phase # "idle" PROVE runs \in RunIds
BY OneWayAssumption DEF RollbackTypeOK, OneWayTypeOK, RunShape, RunIds

\* The types of the requests and of the log.
LEMMA RollbackTypesStep ==
    ASSUME RollbackTypeOK, EngineInv, LogInv, [RollbackNext]_allVars
    PROVE  RollbackTypeOK'
<1>0. OneWayTypeOK'
  BY EngineCases, EngineKept DEF EngineInv, Core
<1> DEFINE Rest == /\ status \in [RunIds -> Statuses] /\ manifests \in [RunIds -> Manifest]
                   /\ busy \in BOOLEAN /\ ended \subseteq RunIds
                   /\ attempts \in [Attempts -> Attempt]
                   /\ pending \in 0..MaxRuns
                   /\ pruned \subseteq RunIds /\ breaks \in 0..MaxFaults
                   /\ origin \in [RunIds -> [Paths -> Entry \cup {None}]]
                   /\ spoilt \in [RunIds -> SUBSET Paths]
                   /\ rows \subseteq RunIds \X RunIds
                   /\ crossed \in BOOLEAN /\ misled \in BOOLEAN
<1>1. Rest
  BY DEF RollbackTypeOK
<1>2. ASSUME Rest' PROVE RollbackTypeOK'
  BY <1>0, <1>2 DEF RollbackTypeOK
<1>3. RunIds \subseteq 0..MaxRuns
  BY OneWayAssumption DEF RunIds
<1>4. CASE RunStarts \/ RunGoesOn
  <2>1. ended' \subseteq RunIds
    BY <1>1, <1>4, RunNumber DEF RunStarts, RunGoesOn, EngineInv, Core
  <2>2. busy' \in BOOLEAN
    BY <1>1, <1>4, BesideFacts DEF RunStarts
  <2> QED BY <1>1, <1>2, <1>4, <2>1, <2>2, BesideFacts
<1>5. CASE RunFinishes
  <2>1. runs \in RunIds /\ manifest \in Manifest /\ before \in [Paths -> Entry \cup {None}]
        /\ dirty \subseteq Paths
    BY <1>5, RunNumber DEF RunFinishes, Finish, EngineInv, Core, OneWayTypeOK
  <2> QED BY <1>1, <1>2, <1>5, <2>1 DEF RunFinishes, Statuses
<1>6. CASE Prune
  BY <1>1, <1>2, <1>6 DEF Prune
<1>7. CASE Disconnect \/ ServerRestart \/ AgentCrash
  <2>1. busy' \in BOOLEAN /\ misled' \in BOOLEAN
    BY <1>1, <1>7 DEF Disconnect, ServerRestart, AgentCrash, NotBusy
  <2>2. pending' \in 0..MaxRuns
    BY <1>1, <1>7, BreakFacts, OneWayAssumption
  <2> QED BY <1>1, <1>2, <1>7, <2>1, <2>2, BreakFacts
<1>8. ASSUME NEW r \in RunIds, EndHeard(r) PROVE Rest'
  BY <1>1, <1>8, QuietlyFacts DEF EndHeard, NotBusy, Statuses, Quietly
<1>9. ASSUME NEW r \in RunIds, NEW a \in Attempts, RollbackAsked(a, r) PROVE Rest'
  BY <1>1, <1>9, AskedFacts DEF RollbackAsked
<1>10. ASSUME NEW a \in Attempts, RollbackClaimed(a) PROVE Rest'
  <2>1. attempts' \in [Attempts -> Attempt]
    BY <1>10, StageFacts DEF RollbackClaimed, Stages
  <2>2. attempts[a].log \in RunIds
    BY <1>10 DEF RollbackClaimed, LogInv
  <2> QED BY <1>1, <1>3, <1>10, <2>1, <2>2 DEF RollbackClaimed, Statuses
<1>11. ASSUME NEW a \in Attempts, Answering(a) PROVE Rest'
  <2>1. attempts' \in [Attempts -> Attempt]
    BY <1>11, StageFacts
       DEF Answering, AnswerHeard, RowWritten, CompleteEnds, MadeAvailable, ErrorEnds, Stages
  <2>2. attempts[a].stage # "unused" => attempts[a].log \in RunIds
    BY DEF LogInv
  <2>3. pending # 0 => pending \in RunIds
    BY <1>1, OneWayAssumption DEF RunIds
  <2>4. rows' \subseteq RunIds \X RunIds
    BY <1>1, <1>11, <2>2, <2>3
       DEF Answering, AnswerHeard, RowWritten, CompleteEnds, MadeAvailable, ErrorEnds
  <2>5. pending' \in 0..MaxRuns
    BY <1>1, <1>11, OneWayAssumption
       DEF Answering, AnswerHeard, RowWritten, CompleteEnds, MadeAvailable, ErrorEnds
  <2>6. busy' \in BOOLEAN /\ misled' \in BOOLEAN
    BY <1>1, <1>11
       DEF Answering, AnswerHeard, RowWritten, CompleteEnds, MadeAvailable, ErrorEnds, NotBusy
  <2>7. status' \in [RunIds -> Statuses]
    BY <1>1, <1>11
       DEF Answering, AnswerHeard, RowWritten, CompleteEnds, MadeAvailable, ErrorEnds, Statuses
  <2>8. UNCHANGED <<manifests, pruned, breaks, origin, spoilt, ended, crossed>>
    BY <1>11 DEF Answering, AnswerHeard, RowWritten, CompleteEnds, MadeAvailable, ErrorEnds
  <2> QED BY <1>1, <2>1, <2>4, <2>5, <2>6, <2>7, <2>8
<1>13. ASSUME NEW a \in Attempts, UndoBegins(a) PROVE Rest'
  <2> DEFINE named == {p \in Paths : manifests[attempts[a].log][p] # None}
  <2>1. \/ attempts' = [attempts EXCEPT ![a] = [@ EXCEPT !.stage = "undoing", !.todo = named]]
        \/ Stage(a, "error")
    BY <1>13 DEF UndoBegins
  <2>2. named \subseteq Paths
    OBVIOUS
  <2> HIDE DEF named
  <2>3. attempts' \in [Attempts -> Attempt]
    BY <2>1, <2>2, BeginFacts, StageFacts DEF Stages
  <2> QED BY <1>1, <1>13, <2>3 DEF UndoBegins
<1>14. ASSUME NEW a \in Attempts, UndoEnds(a) PROVE Rest'
  <2>1. attempts' \in [Attempts -> Attempt]
    BY <1>14, StageFacts DEF UndoEnds, Stages
  <2> QED BY <1>1, <1>14, <2>1 DEF UndoEnds
<1>15. ASSUME NEW a \in Attempts, NEW p \in Paths, UndoEntry(a, p) PROVE Rest'
  <2>1. attempts[a].log \in RunIds
    BY <1>15 DEF UndoEntry, LogInv
  <2> QED BY <1>1, <1>15, <2>1, UndoFacts, EntryFacts DEF UndoEntry
<1>16. CASE UNCHANGED allVars
  BY <1>1, <1>2, <1>16 DEF allVars, rollVars
<1> HIDE DEF Rest
<1> QED BY <1>2, <1>4, <1>5, <1>6, <1>7, <1>8, <1>9, <1>10, <1>11, <1>13, <1>14, <1>15,
           <1>16 DEF RollbackNext, Answering

\* Log entries are of finished runs, requests of log entries, and what the server
\* awaits is one.
LEMMA LogStep ==
    ASSUME RollbackTypeOK, RunShape, LogInv, [RollbackNext]_allVars
    PROVE  LogInv'
<1>0. /\ runs \in Nat /\ \A r \in RunIds : r \in Nat
      /\ \A a \in Attempts : attempts[a].checkedAt \in Nat
  BY OneWayAssumption DEF RollbackTypeOK, OneWayTypeOK, RunIds, Attempt
<1>1. CASE RunStarts \/ RunGoesOn
  <2>1. \/ runs' = runs + 1
        \/ runs' = runs /\ (phase = "idle" => phase' = "idle")
    BY <1>1, BesideFacts
  <2>2. \A r \in RunIds : r < runs \/ (r = runs /\ phase = "idle") =>
                             r < runs' \/ (r = runs' /\ phase' = "idle")
    BY <1>0, <2>1
  <2> QED BY <1>0, <1>1, <2>1, <2>2, BesideFacts DEF LogInv
<1>2. CASE RunFinishes
  <2>1. /\ runs \in RunIds /\ runs' = runs /\ phase' = "idle" /\ phase # "idle"
        /\ attempts' = attempts /\ pending' = pending
    BY <1>2, RunNumber DEF RunFinishes, Finish, RunOver, bounds
  <2>2. /\ \A r \in RunIds \ {runs} : status'[r] = status[r] /\ manifests'[r] = manifests[r]
        /\ status'[runs] = "sent" /\ status[runs] = "none"
    BY <1>0, <1>2, <2>1 DEF RunFinishes, RollbackTypeOK, LogInv
  <2>3. pending # 0 => pending \in RunIds
    BY OneWayAssumption DEF RollbackTypeOK, RunIds
  <2>4. \A r \in RunIds : status'[r] # "none" => r < runs \/ r = runs
    BY <2>2 DEF LogInv
  <2>5. \A a \in Attempts : attempts[a].stage # "unused" =>
           attempts[a].log \in RunIds \ {runs} /\ status'[attempts[a].log] # "none"
    BY <2>2 DEF LogInv
  <2>6. pending # 0 => status'[pending] # "none"
    BY <2>2, <2>3 DEF LogInv
  <2> QED BY <2>1, <2>2, <2>4, <2>5, <2>6 DEF LogInv
<1>3. CASE Prune
  BY <1>3 DEF Prune, owVars, LogInv
<1>4. CASE Disconnect \/ ServerRestart \/ AgentCrash
  BY <1>4, BreakFacts DEF LogInv, Broken
<1>5. ASSUME Quietly, \A r \in RunIds : status[r] # "none" <=> status'[r] # "none",
             pending' \in {0, pending},
             NEW a \in Attempts, Bystanders(a),
             attempts'[a].stage # "unused", attempts'[a].log \in RunIds,
             status[attempts'[a].log] # "none", attempts'[a].checkedAt <= runs,
             \A p \in attempts'[a].todo : manifests[attempts'[a].log][p] # None
      PROVE  LogInv'
  <2>1. pending # 0 => pending \in RunIds
    BY OneWayAssumption DEF RollbackTypeOK, RunIds
  <2> QED BY <1>5, <2>1 DEF LogInv, Quietly, Bystanders
<1>6. ASSUME NEW r \in RunIds, EndHeard(r) PROVE LogInv'
  <2>1. Quietly /\ attempts' = attempts /\ pending' = pending
    BY <1>6, QuietlyFacts DEF EndHeard
  <2>2. \A l \in RunIds : status[l] # "none" <=> status'[l] # "none"
    BY <1>6 DEF EndHeard, RollbackTypeOK
  <2>3. pending # 0 => pending \in RunIds
    BY OneWayAssumption DEF RollbackTypeOK, RunIds
  <2> QED BY <2>1, <2>2, <2>3 DEF LogInv, Quietly
<1>7. ASSUME NEW r \in RunIds, NEW a \in Attempts, RollbackAsked(a, r) PROVE LogInv'
  <2>1. Quietly /\ status' = status /\ pending' = pending /\ status[r] = "available"
        /\ attempts[a].todo = {}
    BY <1>7, QuietlyFacts DEF RollbackAsked, LogInv
  <2> QED BY <1>0, <1>5, <1>7, <2>1, AskedFacts
<1>8. ASSUME NEW a \in Attempts, RollbackClaimed(a) PROVE LogInv'
  <2>1. /\ Quietly /\ Bystanders(a) /\ attempts'[a].stage \in {"over", "sent"}
        /\ attempts'[a].log = attempts[a].log /\ attempts'[a].todo = attempts[a].todo
        /\ attempts'[a].checkedAt = attempts[a].checkedAt /\ attempts[a].stage = "checked"
    BY <1>8, QuietlyFacts, StageFacts DEF RollbackClaimed, Stages
  <2>2. \A l \in RunIds : status[l] # "none" <=> status'[l] # "none"
    BY <1>8, <2>1 DEF RollbackClaimed, RollbackTypeOK, LogInv
  <2>3. /\ attempts[a].log \in RunIds /\ status[attempts[a].log] # "none"
        /\ attempts[a].checkedAt <= runs
        /\ \A p \in attempts[a].todo : manifests[attempts[a].log][p] # None
    BY <2>1 DEF LogInv
  <2>4. pending' \in {pending, attempts[a].log} /\ (pending # 0 => pending \in RunIds)
    BY <1>8, OneWayAssumption DEF RollbackClaimed, RollbackTypeOK, RunIds
  <2> QED BY <2>1, <2>2, <2>3, <2>4 DEF LogInv, Quietly, Bystanders
<1>9. ASSUME NEW a \in Attempts,
             Answering(a) \/ UndoEnds(a) \/ UndoBegins(a)
      PROVE  LogInv'
  <2>1. /\ Quietly /\ pending' \in {0, pending} /\ attempts[a].stage # "unused"
    BY <1>9, QuietlyFacts
       DEF Answering, AnswerHeard, RowWritten, CompleteEnds, MadeAvailable, ErrorEnds, UndoEnds,
           UndoBegins
  <2>2. (pending # 0 => pending \in RunIds) /\ 0 \notin RunIds
    BY OneWayAssumption DEF RollbackTypeOK, RunIds
  <2>3. \A l \in RunIds : status[l] # "none" <=> status'[l] # "none"
    BY <1>9, <2>2
       DEF Answering, AnswerHeard, RowWritten, CompleteEnds, MadeAvailable, ErrorEnds, UndoEnds,
           UndoBegins, LogInv
  <2>4. /\ attempts[a].log \in RunIds /\ status[attempts[a].log] # "none"
        /\ attempts[a].checkedAt <= runs
        /\ \A p \in attempts[a].todo : manifests[attempts[a].log][p] # None
    BY <2>1 DEF LogInv
  <2>5. CASE \E s \in Stages \ {"unused"} : Stage(a, s)
    BY <1>5, <2>1, <2>3, <2>4, <2>5, StageFacts
  <2>6. CASE UndoBegins(a) /\ ~Stage(a, "error")
    <3> DEFINE named == {p \in Paths : manifests[attempts[a].log][p] # None}
    <3>1. attempts' = [attempts EXCEPT ![a] = [@ EXCEPT !.stage = "undoing", !.todo = named]]
      BY <2>6 DEF UndoBegins
    <3>2. named \subseteq Paths /\ \A p \in named : manifests[attempts[a].log][p] # None
      OBVIOUS
    <3> HIDE DEF named
    <3>3. /\ Bystanders(a) /\ attempts'[a].stage = "undoing" /\ attempts'[a].todo = named
          /\ attempts'[a].log = attempts[a].log /\ attempts'[a].checkedAt = attempts[a].checkedAt
      BY <3>1, <3>2, BeginFacts
    <3> QED BY <1>5, <2>1, <2>3, <2>4, <3>2, <3>3
  <2>7. CASE Answering(a)
    BY <1>5, <2>1, <2>3, <2>4, <2>7, AnsweringFacts
  <2> QED BY <1>9, <2>5, <2>6, <2>7 DEF UndoEnds, Stages
<1>10. ASSUME NEW a \in Attempts, NEW p \in Paths, UndoEntry(a, p) PROVE LogInv'
  <2>1. /\ UNCHANGED <<phase, runs, status, manifests, pending>>
        /\ attempts[a].stage \in {"undoing", "deaf"}
    BY <1>10 DEF UndoEntry, runv
  <2>2. pending # 0 => pending \in RunIds
    BY OneWayAssumption DEF RollbackTypeOK, RunIds
  <2> QED BY <1>10, <2>1, <2>2, EntryFacts DEF LogInv, Bystanders
<1>11. CASE UNCHANGED allVars
  BY <1>11 DEF allVars, rollVars, owVars, LogInv
<1> QED BY <1>1, <1>2, <1>3, <1>4, <1>6, <1>7, <1>8, <1>9, <1>10, <1>11
        DEF RollbackNext, Answering

\* A log entry keeps saying what its run found where nothing else was changed.
LEMMA NotedStep ==
    ASSUME RollbackTypeOK, EngineInv, LogInv, NotedInv, [RollbackNext]_allVars
    PROVE  NotedInv'
<1>0. \A r \in RunIds : status[r] # "none" => r # runs \/ phase = "idle"
  BY OneWayAssumption DEF LogInv, RollbackTypeOK, OneWayTypeOK, RunIds
<1>1. CASE RunStarts \/ RunGoesOn
  <2>1. \A r \in RunIds : \A p \in Paths \ spoilt'[r] :
           p \notin spoilt[r] /\ fs'["dst"][p] = fs["dst"][p]
    BY <1>1, BesideFacts
  <2>2. UNCHANGED <<status, manifests, origin>>
    BY <1>1, BesideFacts
  <2> QED BY <2>1, <2>2 DEF NotedInv, Noted
<1>2. CASE RunFinishes
  <2>1. /\ runs \in RunIds /\ phase = "delete" /\ fs' = fs
    BY <1>2, RunNumber DEF RunFinishes, Finish, disk, EngineInv, Core
  <2>2. /\ \A r \in RunIds \ {runs} : /\ status'[r] = status[r] /\ manifests'[r] = manifests[r]
                                     /\ origin'[r] = origin[r] /\ spoilt'[r] = spoilt[r]
        /\ manifests'[runs] = manifest /\ origin'[runs] = before /\ spoilt'[runs] = dirty
    BY <1>2, <2>1 DEF RunFinishes, RollbackTypeOK
  <2>3. \A p \in Paths \ dirty : IF manifest[p] = None THEN fs["dst"][p] = before[p]
                                 ELSE Noted(manifest[p], before[p])
    BY <2>1 DEF EngineInv, ManifestInv
  <2> QED BY <2>1, <2>2, <2>3 DEF NotedInv, Noted
<1>3. CASE Quietly /\ \A r \in RunIds : status'[r] # "none" => status[r] # "none"
  BY <1>3 DEF NotedInv, Noted, Quietly
<1>4. ASSUME NEW r \in RunIds, EndHeard(r) PROVE NotedInv'
  <2>1. \A l \in RunIds : status'[l] # "none" => status[l] # "none"
    BY <1>4 DEF EndHeard, RollbackTypeOK
  <2> QED BY <1>3, <1>4, <2>1, QuietlyFacts
<1>5. ASSUME NEW r \in RunIds, NEW a \in Attempts, RollbackAsked(a, r) PROVE NotedInv'
  BY <1>3, <1>5, QuietlyFacts DEF RollbackAsked
<1>6. ASSUME NEW a \in Attempts,
             RollbackClaimed(a) \/ Answering(a) \/ UndoEnds(a) \/ UndoBegins(a)
      PROVE  NotedInv'
  <2>1. (pending # 0 => pending \in RunIds) /\ 0 \notin RunIds
    BY OneWayAssumption DEF RollbackTypeOK, RunIds
  <2>2. \A l \in RunIds : status'[l] # "none" => status[l] # "none"
    BY <1>6, <2>1
       DEF RollbackClaimed, Answering, AnswerHeard, RowWritten, CompleteEnds, MadeAvailable,
           ErrorEnds, UndoEnds, UndoBegins, LogInv, RollbackTypeOK
  <2> QED BY <1>3, <1>6, <2>2, QuietlyFacts
<1>7. ASSUME NEW a \in Attempts, NEW p \in Paths, UndoEntry(a, p) PROVE NotedInv'
  <2> DEFINE r == attempts[a].log
  <2>1. /\ UNCHANGED <<status, manifests, origin>> /\ r \in RunIds /\ manifests[r][p] # None
    BY <1>7 DEF UndoEntry, LogInv
  <2>2. \A l \in RunIds : \A q \in Paths \ spoilt'[l] :
           q \notin spoilt[l] /\ (manifests[l][q] = None => fs'["dst"][q] = fs["dst"][q])
    BY <1>7, <2>1, UndoFacts
  <2> QED BY <2>1, <2>2 DEF NotedInv, Noted
<1>8. CASE Disconnect \/ ServerRestart \/ AgentCrash
  BY <1>8, BreakFacts DEF NotedInv, Noted
<1>9. CASE Prune \/ UNCHANGED allVars
  BY <1>9 DEF Prune, allVars, rollVars, owVars, NotedInv, Noted
<1> QED BY <1>1, <1>2, <1>4, <1>5, <1>6, <1>7, <1>8, <1>9
        DEF RollbackNext, Answering

\* An entry that was undone stays as its run found it until something changes it.
LEMMA RestoresStep ==
    ASSUME RollbackTypeOK, EngineInv, LogInv, NotedInv, RollbackRestores, [RollbackNext]_allVars
    PROVE  RollbackRestores'
<1>0. \A a \in Attempts : attempts[a].stage # "unused" =>
         /\ attempts[a].log \in RunIds /\ status[attempts[a].log] # "none"
         /\ attempts[a].log # runs \/ phase = "idle"
  BY OneWayAssumption DEF LogInv, RollbackTypeOK, OneWayTypeOK, RunIds
<1>1. CASE RunStarts \/ RunGoesOn
  <2>1. \A r \in RunIds : \A p \in Paths \ spoilt'[r] :
           p \notin spoilt[r] /\ fs'["dst"][p] = fs["dst"][p]
    BY <1>1, BesideFacts
  <2>2. UNCHANGED <<attempts, origin>>
    BY <1>1, BesideFacts
  <2> QED BY <1>0, <2>1, <2>2 DEF RollbackRestores, Restored
<1>2. CASE RunFinishes
  <2>1. /\ runs \in RunIds /\ phase # "idle" /\ fs' = fs /\ attempts' = attempts
    BY <1>2, RunNumber DEF RunFinishes, Finish, disk, EngineInv, Core
  <2>2. \A r \in RunIds \ {runs} : origin'[r] = origin[r] /\ spoilt'[r] = spoilt[r]
    BY <1>2, <2>1 DEF RunFinishes, RollbackTypeOK
  <2> QED BY <1>0, <2>1, <2>2 DEF RollbackRestores, Restored
\* The stage of one request changes, and it has not restored more than before.
<1>3. ASSUME NEW a \in Attempts, Quietly, Bystanders(a),
             \A p \in Paths : Restored(a, p)' =>
                attempts'[a].log = attempts[a].log /\ (Restored(a, p) \/ p \in spoilt[attempts[a].log]
                   \/ fs["dst"][p] = origin[attempts[a].log][p])
      PROVE  RollbackRestores'
  BY <1>3 DEF RollbackRestores, Restored, Quietly, Bystanders
<1>4. ASSUME NEW r \in RunIds, EndHeard(r) PROVE RollbackRestores'
  BY <1>4, QuietlyFacts DEF EndHeard, Quietly, RollbackRestores, Restored
<1>5. ASSUME NEW r \in RunIds, NEW a \in Attempts, RollbackAsked(a, r) PROVE RollbackRestores'
  BY <1>3, <1>5, QuietlyFacts, AskedFacts DEF Restored
<1>6. ASSUME NEW a \in Attempts, RollbackClaimed(a) PROVE RollbackRestores'
  <2>1. Bystanders(a) /\ attempts'[a].stage \in {"over", "sent"}
    BY <1>6, StageFacts DEF RollbackClaimed, Stages
  <2> QED BY <1>3, <1>6, <2>1, QuietlyFacts DEF Restored
<1>7. ASSUME NEW a \in Attempts, Answering(a) PROVE RollbackRestores'
  <2>1. /\ Bystanders(a) /\ attempts'[a].log = attempts[a].log
        /\ \A p \in Paths : Restored(a, p)' => Restored(a, p)
    BY <1>7, AnsweringFacts DEF Answering, Restored
  <2> QED BY <1>3, <1>7, <2>1, QuietlyFacts
<1>8. ASSUME NEW a \in Attempts, UndoEnds(a) PROVE RollbackRestores'
  <2>1. /\ Bystanders(a) /\ attempts[a].stage \in {"undoing", "deaf"}
        /\ attempts'[a].log = attempts[a].log /\ attempts'[a].todo = attempts[a].todo
    BY <1>8, StageFacts DEF UndoEnds, Stages
  <2> QED BY <1>3, <1>8, <2>1, QuietlyFacts DEF Restored
<1>9. ASSUME NEW a \in Attempts, UndoBegins(a) PROVE RollbackRestores'
  <2> DEFINE r == attempts[a].log
             named == {p \in Paths : manifests[r][p] # None}
  <2>1. r \in RunIds /\ status[r] # "none"
    BY <1>0, <1>9 DEF UndoBegins
  <2>2. \A p \in Paths \ named : p \in spoilt[r] \/ fs["dst"][p] = origin[r][p]
    BY <2>1 DEF NotedInv
  <2>3. \/ attempts' = [attempts EXCEPT ![a] = [@ EXCEPT !.stage = "undoing", !.todo = named]]
        \/ Stage(a, "error")
    BY <1>9 DEF UndoBegins
  <2>4. named \subseteq Paths
    OBVIOUS
  <2> HIDE DEF named
  <2>5. CASE Stage(a, "error")
    BY <1>3, <1>9, <2>5, StageFacts, QuietlyFacts DEF Restored, Stages
  <2>6. CASE attempts' = [attempts EXCEPT ![a] = [@ EXCEPT !.stage = "undoing", !.todo = named]]
    <3>1. Bystanders(a) /\ attempts'[a].todo = named /\ attempts'[a].log = r
      BY <2>4, <2>6, BeginFacts
    <3> QED BY <1>3, <1>9, <2>2, <3>1, QuietlyFacts DEF Restored
  <2> QED BY <2>3, <2>5, <2>6
<1>10. ASSUME NEW a \in Attempts, NEW p \in Paths, UndoEntry(a, p) PROVE RollbackRestores'
  <2> DEFINE r == attempts[a].log
  <2>1. /\ origin' = origin /\ r \in RunIds /\ manifests[r][p] # None /\ status[r] # "none"
    BY <1>10 DEF UndoEntry, LogInv
  <2>2. /\ \A l \in RunIds : spoilt[l] \subseteq spoilt'[l]
        /\ \A l \in RunIds : \A q \in Paths \ spoilt'[l] :
              l # r \/ q # p => fs'["dst"][q] = fs["dst"][q]
        /\ p \notin spoilt'[r] => fs'["dst"][p] = origin[r][p]
    BY <1>10, <2>1, UndoFacts DEF NotedInv
  <2>3. \A b \in Attempts : \A q \in Paths : Restored(b, q)' =>
           /\ attempts'[b].log = attempts[b].log /\ attempts[b].stage # "unused"
           /\ Restored(b, q) \/ (b = a /\ q = p)
    BY <1>10, EntryFacts DEF Restored, Bystanders, UndoEntry
  <2> QED BY <1>0, <2>1, <2>2, <2>3 DEF RollbackRestores
<1>11. CASE Disconnect \/ ServerRestart \/ AgentCrash
  BY <1>11, BreakFacts DEF RollbackRestores, Restored, Broken, AtServer
<1>12. CASE Prune \/ UNCHANGED allVars
  BY <1>12 DEF Prune, allVars, rollVars, owVars, RollbackRestores, Restored
<1> QED BY <1>1, <1>2, <1>4, <1>5, <1>6, <1>7, <1>8, <1>9, <1>10, <1>11, <1>12
        DEF RollbackNext, Answering

\* One rollback at a time, and one log entry awaited (markRollbackUsed,
\* pendingRollbacks).
LEMMA ApartStep ==
    ASSUME RollbackTypeOK, RunShape, LogInv, OneRollback, RollbacksKeepApart, [RollbackNext]_allVars
    PROVE  OneRollback' /\ RollbacksKeepApart'
<1> USE DEF UnderWay, Awaited
<1>0. \A a \in Attempts : UnderWay(a) => attempts[a].log \in RunIds
  BY DEF LogInv
<1>1. CASE RunStarts \/ RunGoesOn
  <2>1. UNCHANGED <<status, attempts, pending, rows, crossed>>
    BY <1>1, BesideFacts
  <2> QED BY <2>1 DEF OneRollback, RollbacksKeepApart
<1>2. CASE RunFinishes
  <2>1. /\ runs \in RunIds /\ phase # "idle" /\ UNCHANGED <<attempts, pending, rows, crossed>>
        /\ status' = [status EXCEPT ![runs] = "sent"]
    BY <1>2, RunNumber DEF RunFinishes, Finish
  <2>2. \A a \in Attempts : UnderWay(a) => attempts[a].log # runs
    BY <2>1, OneWayAssumption DEF LogInv, RollbackTypeOK, OneWayTypeOK, RunIds
  <2>3. \A a \in Attempts : UnderWay(a) => status'[attempts[a].log] = status[attempts[a].log]
    BY <1>0, <2>1, <2>2 DEF RollbackTypeOK
  <2> QED BY <2>1, <2>3 DEF OneRollback, RollbacksKeepApart
<1>3. ASSUME NEW r \in RunIds, EndHeard(r) PROVE OneRollback' /\ RollbacksKeepApart'
  <2>1. /\ UNCHANGED <<attempts, pending, rows, crossed>>
        /\ \A l \in RunIds : status[l] = "used" => status'[l] = "used"
    BY <1>3 DEF EndHeard, RollbackTypeOK
  <2> QED BY <1>0, <2>1 DEF OneRollback, RollbacksKeepApart
<1>4. ASSUME NEW r \in RunIds, NEW a \in Attempts, RollbackAsked(a, r)
      PROVE  OneRollback' /\ RollbacksKeepApart'
  <2>1. /\ UNCHANGED <<status, pending, rows, crossed>> /\ Bystanders(a)
        /\ attempts'[a].stage = "checked"
    BY <1>4, AskedFacts DEF RollbackAsked
  <2> QED BY <2>1 DEF OneRollback, RollbacksKeepApart, Bystanders
<1>5. ASSUME NEW a \in Attempts, RollbackClaimed(a) PROVE OneRollback' /\ RollbacksKeepApart'
  <2> DEFINE r == attempts[a].log
  <2>1. /\ attempts[a].stage = "checked" /\ Bystanders(a) /\ rows' = rows
        /\ attempts'[a].log = r /\ r \in RunIds
    BY <1>5, StageFacts DEF RollbackClaimed, Stages, LogInv
  <2>2. CASE Stage(a, "over") /\ UNCHANGED <<status, pending, crossed>>
    <3>1. attempts'[a].stage = "over"
      BY <2>2, StageFacts DEF Stages
    <3> QED BY <2>1, <2>2, <3>1 DEF OneRollback, RollbacksKeepApart, Bystanders
  <2>3. CASE Stage(a, "sent") /\ status[r] = "available" /\ pending' = r
             /\ status' = [status EXCEPT ![r] = "used"]
             /\ crossed' = (crossed \/ \E b \in Attempts : UnderWay(b) /\ attempts[b].log # r)
    <3>1. attempts'[a].stage = "sent" /\ status'[r] = "used"
      BY <2>1, <2>3, StageFacts DEF Stages, RollbackTypeOK
    <3>2. ASSUME ~crossed', NEW b \in Attempts PROVE ~crossed /\ ~UnderWay(b)
      <4>1. ~crossed /\ (UnderWay(b) => attempts[b].log = r)
        BY <2>3, <3>2
      <4>2. UnderWay(b) => status[attempts[b].log] = "used"
        BY <4>1 DEF RollbacksKeepApart
      <4> QED BY <2>3, <4>1, <4>2
    <3>3. ASSUME ~crossed' PROVE ~crossed /\ \A b \in Attempts : UnderWay(b)' => b = a
      <4>1. \A b \in Attempts \ {a} : UnderWay(b)' <=> UnderWay(b)
        BY <2>1 DEF Bystanders
      <4> QED BY <3>2, <3>3, <4>1
    <3>4. OneRollback'
      BY <2>1, <2>3, <3>3 DEF OneRollback
    <3>5. RollbacksKeepApart'
      BY <2>1, <3>1, <3>3 DEF RollbacksKeepApart
    <3> QED BY <3>4, <3>5
  <2> QED BY <1>5, <2>2, <2>3 DEF RollbackClaimed
\* A rollback that was answered is the one there was.
<1>6. ASSUME NEW a \in Attempts, UnderWay(a), Bystanders(a),
             attempts'[a].stage \in {"over", "logged", "reset"}, crossed' = crossed, ~crossed
      PROVE  \A b \in Attempts : ~UnderWay(b)' /\ attempts'[b].stage \notin Awaited
  BY <1>6 DEF OneRollback, Bystanders
<1>7. ASSUME NEW a \in Attempts, RowWritten(a) \/ MadeAvailable(a)
      PROVE  OneRollback' /\ RollbacksKeepApart'
  <2>1. /\ UnderWay(a) /\ Bystanders(a) /\ crossed' = crossed
        /\ attempts'[a].stage \in {"over", "logged", "reset"}
        /\ MadeAvailable(a) => rows' = rows
    BY <1>7, AnsweringFacts DEF Answering
  <2>2. ~crossed => pending \in {0, attempts[a].log}
    BY <1>7 DEF RowWritten, MadeAvailable, OneRollback
  <2>3. ~crossed /\ (\A row \in rows : row[1] = row[2]) => \A row \in rows' : row[1] = row[2]
    BY <1>7, <2>1, <2>2 DEF RowWritten
  <2> QED BY <1>6, <2>1, <2>3 DEF OneRollback, RollbacksKeepApart
\* A handler that is done forgets what the server awaits.
<1>8. ASSUME NEW a \in Attempts, CompleteEnds(a) \/ ErrorEnds(a)
      PROVE  OneRollback' /\ RollbacksKeepApart'
  <2>1. /\ Bystanders(a) /\ attempts'[a].stage = "over" /\ pending' = 0
        /\ UNCHANGED <<status, rows, crossed>>
    BY <1>8, AnsweringFacts DEF Answering
  <2>2. \A b \in Attempts :
           /\ UnderWay(b)' => UnderWay(b)
           /\ attempts'[b].stage \in Awaited => attempts[b].stage \in Awaited
           /\ UnderWay(b)' => attempts'[b].log = attempts[b].log
    BY <2>1 DEF Bystanders
  <2>3. OneRollback'
    BY <2>1, <2>2 DEF OneRollback
  <2> QED BY <2>1, <2>2, <2>3 DEF RollbacksKeepApart
<1>9. ASSUME NEW a \in Attempts, Bystanders(a), UNCHANGED <<status, pending, rows, crossed>>,
             attempts'[a].log = attempts[a].log, UnderWay(a)' => UnderWay(a),
             attempts'[a].stage \in Awaited => attempts[a].stage \in Awaited
      PROVE  OneRollback' /\ RollbacksKeepApart'
  <2>1. \A b \in Attempts :
           /\ UnderWay(b)' => UnderWay(b)
           /\ attempts'[b].stage \in Awaited => attempts[b].stage \in Awaited
           /\ attempts'[b].log = attempts[b].log
    BY <1>9 DEF Bystanders
  <2>2. OneRollback'
    BY <1>9, <2>1 DEF OneRollback
  <2>3. RollbacksKeepApart'
    BY <1>9, <2>1 DEF RollbacksKeepApart
  <2> QED BY <2>2, <2>3
<1>10. ASSUME NEW a \in Attempts, UndoBegins(a) PROVE OneRollback' /\ RollbacksKeepApart'
  <2> DEFINE named == {p \in Paths : manifests[attempts[a].log][p] # None}
  <2>1. /\ attempts[a].stage = "sent" /\ UNCHANGED <<status, pending, rows, crossed>>
        /\ \/ attempts' = [attempts EXCEPT ![a] = [@ EXCEPT !.stage = "undoing", !.todo = named]]
           \/ Stage(a, "error")
    BY <1>10 DEF UndoBegins
  <2>2. named \subseteq Paths
    OBVIOUS
  <2> HIDE DEF named
  <2>3. /\ Bystanders(a) /\ attempts'[a].log = attempts[a].log
        /\ attempts'[a].stage \in {"undoing", "error"}
    BY <2>1, <2>2, BeginFacts, StageFacts DEF Stages
  <2> QED BY <1>9, <2>1, <2>3
<1>11. ASSUME NEW a \in Attempts, UndoEnds(a) PROVE OneRollback' /\ RollbacksKeepApart'
  <2>1. /\ UNCHANGED <<status, pending, rows, crossed>>
        /\ Bystanders(a) /\ attempts'[a].log = attempts[a].log
        /\ \/ attempts[a].stage = "deaf" /\ attempts'[a].stage = "over"
           \/ attempts[a].stage = "undoing" /\ attempts'[a].stage = "complete"
    BY <1>11, StageFacts DEF UndoEnds, Stages
  <2> QED BY <1>9, <2>1
<1>11a. ASSUME NEW a \in Attempts, AnswerHeard(a) PROVE OneRollback' /\ RollbacksKeepApart'
  <2>1. /\ UNCHANGED <<status, pending, rows, crossed>>
        /\ Bystanders(a) /\ attempts'[a].log = attempts[a].log
        /\ \/ attempts[a].stage = "complete" /\ attempts'[a].stage = "restored"
           \/ attempts[a].stage = "error" /\ attempts'[a].stage = "failed"
    BY <1>11a, AnsweringFacts DEF Answering
  <2> QED BY <1>9, <2>1
<1>12. ASSUME NEW a \in Attempts, NEW p \in Paths, UndoEntry(a, p)
       PROVE  OneRollback' /\ RollbacksKeepApart'
  <2>1. UNCHANGED <<status, pending, rows, crossed>>
    BY <1>12 DEF UndoEntry
  <2> QED BY <1>9, <1>12, <2>1, EntryFacts
<1>13. CASE Disconnect \/ ServerRestart \/ AgentCrash
  <2>1. /\ UNCHANGED <<status, rows, crossed>>
        /\ \A a \in Attempts :
              /\ attempts'[a].log = attempts[a].log
              /\ UnderWay(a)' => UnderWay(a)
              /\ attempts'[a].stage \in Awaited => attempts[a].stage \in Awaited
        /\ pending' \in {0, pending}
    BY <1>13, BreakFacts DEF Broken, AtServer
  <2> QED BY <2>1 DEF OneRollback, RollbacksKeepApart
<1>14. CASE Prune \/ UNCHANGED allVars
  BY <1>14 DEF Prune, allVars, rollVars, OneRollback, RollbacksKeepApart
<1> QED BY <1>1, <1>2, <1>3, <1>4, <1>5, <1>7, <1>8, <1>10, <1>11, <1>11a, <1>12, <1>13, <1>14
        DEF RollbackNext

\* The job's row says that a run is at work, or is known to be wrong (isJobBusy).
LEMMA BusyStep ==
    ASSUME RollbackTypeOK, LogInv, BusyInv, [RollbackNext]_allVars
    PROVE  BusyInv'
<1>0. /\ runs \in Nat /\ \A a \in Attempts : attempts[a].checkedAt \in Nat
  BY OneWayAssumption DEF RollbackTypeOK, OneWayTypeOK, Attempt
<1>1. CASE RunStarts
  <2>1. \A a \in Attempts : attempts[a].stage = "checked" => attempts[a].checkedAt <= runs
    BY DEF LogInv
  <2> QED BY <1>0, <1>1, <2>1, BesideFacts DEF BusyInv
<1>2. CASE RunGoesOn
  BY <1>2, BesideFacts DEF BusyInv
<1>3. CASE RunFinishes
  BY <1>3 DEF RunFinishes, Finish, RunOver, BusyInv
<1>4. CASE NotBusy /\ phase' \in {phase, "idle"}
  BY <1>4 DEF NotBusy, BusyInv
<1>5. ASSUME NEW r \in RunIds, EndHeard(r) PROVE BusyInv'
  BY <1>4, <1>5 DEF EndHeard, owVars
<1>6. ASSUME NEW r \in RunIds, NEW a \in Attempts, RollbackAsked(a, r) PROVE BusyInv'
  <2>1. ~busy /\ phase' = phase /\ misled' = misled
    BY <1>6 DEF RollbackAsked, owVars
  <2> QED BY <2>1 DEF BusyInv
\* A request that was checked before, and no other.
<1>7. ASSUME NEW a \in Attempts, Bystanders(a), UNCHANGED <<phase, runs, busy, misled>>,
             attempts'[a].stage # "checked"
      PROVE  BusyInv'
  BY <1>7 DEF BusyInv, Bystanders
<1>8. ASSUME NEW a \in Attempts, RollbackClaimed(a) PROVE BusyInv'
  <2>1. /\ Bystanders(a) /\ attempts'[a].stage # "checked" /\ UNCHANGED <<phase, runs, busy, misled>>
    BY <1>8, StageFacts DEF RollbackClaimed, Stages, owVars
  <2> QED BY <1>7, <2>1
<1>9. ASSUME NEW a \in Attempts, Answering(a) PROVE BusyInv'
  <2>1. Bystanders(a) /\ attempts'[a].stage # "checked"
    BY <1>9, AnsweringFacts DEF Answering
  <2>2. CASE NotBusy /\ phase' = phase
    BY <1>4, <2>2
  <2>3. CASE UNCHANGED <<phase, runs, busy, misled>>
    BY <1>7, <2>1, <2>3
  <2> QED BY <1>9, <2>2, <2>3
          DEF Answering, AnswerHeard, RowWritten, CompleteEnds, MadeAvailable, ErrorEnds, owVars
<1>10. ASSUME NEW a \in Attempts, UndoEnds(a) PROVE BusyInv'
  <2>1. /\ Bystanders(a) /\ attempts'[a].stage # "checked" /\ UNCHANGED <<phase, runs, busy, misled>>
    BY <1>10, StageFacts DEF UndoEnds, Stages, owVars
  <2> QED BY <1>7, <2>1
<1>11. ASSUME NEW a \in Attempts, UndoBegins(a) PROVE BusyInv'
  <2> DEFINE named == {p \in Paths : manifests[attempts[a].log][p] # None}
  <2>1. /\ UNCHANGED <<phase, runs, busy, misled>>
        /\ \/ attempts' = [attempts EXCEPT ![a] = [@ EXCEPT !.stage = "undoing", !.todo = named]]
           \/ Stage(a, "error")
    BY <1>11 DEF UndoBegins, runv
  <2>2. named \subseteq Paths
    OBVIOUS
  <2> HIDE DEF named
  <2>3. Bystanders(a) /\ attempts'[a].stage # "checked"
    BY <2>1, <2>2, BeginFacts, StageFacts DEF Stages
  <2> QED BY <1>7, <2>1, <2>3
<1>12. ASSUME NEW a \in Attempts, NEW p \in Paths, UndoEntry(a, p) PROVE BusyInv'
  <2>1. /\ UNCHANGED <<phase, runs, busy, misled>> /\ attempts[a].stage # "checked"
    BY <1>12 DEF UndoEntry, runv
  <2> QED BY <1>7, <1>12, <2>1, EntryFacts
<1>13. CASE Disconnect \/ ServerRestart
  BY <1>4, <1>13 DEF Disconnect, ServerRestart, runv
<1>14. CASE AgentCrash
  BY <1>14 DEF AgentCrash, RunOver, BusyInv
<1>15. CASE Prune \/ UNCHANGED allVars
  BY <1>15 DEF Prune, allVars, rollVars, owVars, BusyInv
<1> QED BY <1>1, <1>2, <1>3, <1>5, <1>6, <1>8, <1>9, <1>10, <1>11, <1>12, <1>13, <1>14, <1>15
        DEF RollbackNext, Answering

-----------------------------------------------------------------------------
(* The theorems. *)

\* The inductive invariant of a job's engine, its requests and its log.
RollbackInv ==
    /\ RollbackTypeOK /\ EngineInv
    /\ LogInv /\ NotedInv /\ RollbackRestores
    /\ OneRollback /\ RollbacksKeepApart /\ BusyInv

\* Every behaviour begins in it.
LEMMA RollbackStarts == ASSUME RollbackInit PROVE RollbackInv
<1> USE DEF RollbackInit, NoFiles
<1>0. \A a \in Attempts : attempts[a].stage = "unused" /\ attempts[a].todo = {}
  OBVIOUS
<1>1. EngineInv
  BY EngineStarts
<1>2. RollbackTypeOK
  <2>1. OneWayTypeOK
    BY <1>1 DEF EngineInv, Core
  <2>2. attempts \in [Attempts -> Attempt]
    BY OneWayAssumption DEF Attempt, Stages
  <2>3. /\ status \in [RunIds -> Statuses] /\ manifests \in [RunIds -> Manifest]
        /\ origin \in [RunIds -> [Paths -> Entry \cup {None}]]
        /\ spoilt \in [RunIds -> SUBSET Paths]
    BY DEF Statuses, Manifest
  <2>4. pending \in 0..MaxRuns /\ breaks \in 0..MaxFaults
    BY OneWayAssumption
  <2> QED BY <2>1, <2>2, <2>3, <2>4 DEF RollbackTypeOK
<1>3. LogInv
  BY <1>0 DEF LogInv
<1>4. NotedInv /\ BusyInv
  BY DEF NotedInv, BusyInv, OneWayInit
<1>5. RollbackRestores /\ OneRollback /\ RollbacksKeepApart
  BY <1>0 DEF RollbackRestores, Restored, OneRollback, RollbacksKeepApart, UnderWay
<1> QED BY <1>1, <1>2, <1>3, <1>4, <1>5 DEF RollbackInv

\* Every step stays in it.
LEMMA RollbackKept == ASSUME RollbackInv, [RollbackNext]_allVars PROVE RollbackInv'
<1>1. RunShape
  BY DEF RollbackInv, EngineInv, Core
<1>2. EngineInv'
  BY <1>1, EngineCases, EngineKept DEF RollbackInv
<1> QED BY <1>1, <1>2, RollbackTypesStep, LogStep, NotedStep, RestoresStep, ApartStep, BusyStep
        DEF RollbackInv

\* All that follows rests on this: the invariant holds in every reachable state.
THEOREM Inductive == Spec => []RollbackInv
<1>1. RollbackInit => RollbackInv
  BY RollbackStarts
<1>2. RollbackInv /\ [RollbackNext]_allVars => RollbackInv'
  BY RollbackKept
<1> QED BY <1>1, <1>2, PTL DEF Spec

\* The variables keep their types (the records of sync.ts and db.ts).
THEOREM TypeCorrect == Spec => []RollbackTypeOK
<1>1. RollbackInv => RollbackTypeOK
  BY DEF RollbackInv
<1> QED BY <1>1, Inductive, PTL

\* No run destroys a version of a target file that it knows of and that no backup
\* has (backupBeforeAction before every transfer and every delete).
THEOREM NothingIsDestroyed == Spec => []OverwrittenIsKept
<1>1. RollbackInv => OverwrittenIsKept
  BY DEF RollbackInv, EngineInv, KeptInv, OverwrittenIsKept
<1> QED BY <1>1, Inductive, PTL

\* A run after which nothing was edited leaves nothing to do for the next one
\* (needsCopy, oneWayDeleteCandidates, planImport).
THEOREM QuietIsNoop == Spec => []QuietRunIsNoop
<1>1. RollbackInv => QuietRunIsNoop
  BY DEF RollbackInv, EngineInv
<1> QED BY <1>1, Inductive, PTL

\* A run that ends well has made the target what its policy promises (syncOneWay,
\* runImportSync).
THEOREM Delivers == Spec => QuietRunDelivers
<1>1. /\ RollbackInv /\ [RollbackNext]_allVars
      => [completed' => \A p \in Paths \ touched : /\ phase = "delete" => Mirrored(p)
                                                   /\ phase = "import" => Arrived(p)]_owVars
  BY EngineCases, DeliversStep DEF RollbackInv, EngineInv, Core
<1> QED BY <1>1, Inductive, PTL DEF Spec, QuietRunDelivers

\* A run deletes only what its source lacks and its policy gives up
\* (oneWayDeleteCandidates).
THEOREM DeletesFollow == Spec => DeletesFollowSource
<1>1. /\ RollbackInv /\ [RollbackNext]_allVars
      => [\A p \in Paths :
             fs["dst"][p] # None /\ fs'["dst"][p] = None /\ cur # None /\ cur' = None
               => /\ walked["src"][p] = None /\ job.mode = "sync"
                  /\ \/ job.policy = "mirror"
                     \/ job.policy = "backup-with-deletes" /\ stored[p] # None]_owVars
  BY EngineCases, DeletesStep DEF RollbackInv, EngineInv, Core
<1> QED BY <1>1, Inductive, PTL DEF Spec, DeletesFollowSource

\* A rollback puts back what its run found (performRollback).
THEOREM Restores == Spec => []RollbackRestores
<1>1. RollbackInv => RollbackRestores
  BY DEF RollbackInv
<1> QED BY <1>1, Inductive, PTL

\* Two requests do not get one log entry, and the log names the run that was
\* undone (markRollbackUsed, pendingRollbacks).
THEOREM KeepApart == Spec => []RollbacksKeepApart
<1>1. RollbackInv => RollbacksKeepApart
  BY DEF RollbackInv
<1> QED BY <1>1, Inductive, PTL

\* A rollback that meets a run at work was asked for before that run began, or the
\* job's row was wrong (the job's status in POST /:id/log/:logId/rollback).
THEOREM WaitsForRun == Spec => RollbackWaitsForRun
<1>1. RollbackInv /\ [RollbackNext]_allVars
      => [\A a \in Attempts :
             attempts[a].stage = "checked" /\ attempts'[a].stage = "sent" /\ phase # "idle"
               => attempts[a].checkedAt < runs \/ misled]_allVars
  BY DEF RollbackInv, BusyInv
<1> QED BY <1>1, Inductive, PTL DEF Spec, RollbackWaitsForRun
=============================================================================
