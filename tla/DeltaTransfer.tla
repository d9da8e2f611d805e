---------------------------- MODULE DeltaTransfer ----------------------------
(***************************************************************************)
(* A file sent as a delta within one agent: transferFileDelta and its      *)
(* cache of signatures (agent/src/delta/engine.ts), as transferFile calls  *)
(* it (agent/src/sync.ts), with the user at work on both files.            *)
(*                                                                         *)
(* The cache is looked up by path, size and time.  A user's edit replaces  *)
(* the file, so that whoever has it open reads one version.                *)
(***************************************************************************)
EXTENDS DeltaEngine

CONSTANTS
    Files,    \* contents of the two files
    Edits,    \* those a user writes
    Retries,  \* retryAttempts
    MaxClock, \* bound: number of user edits
    Cases,    \* initial states: files, transfer mode, budget of events
    None, Torn

Times   == 0..MaxClock
Written == 0               \* the time of the engine's own write: no edit has it
File    == [data : Files, mtimeMs : Times]
Meta    == [size : {Len(f) : f \in Files}, mtimeMs : Times]
Events  == {"edits", "restores", "faults", "crashes"}

MetaOf(f) == [size |-> Len(f.data), mtimeMs |-> f.mtimeMs]

ASSUME TransferAssumption ==
    /\ Files \subseteq Seq(Bytes) /\ Edits \subseteq Files
    /\ Retries \in Nat /\ MaxClock \in Nat \ {0}
    /\ \A c \in Cases : /\ c.src \in File /\ c.dst \in File
                        /\ c.mode \in {"auto", "delta"} /\ c.budget \in [Events -> Nat]

VARIABLES
    src, dst,  \* the two files
    cache,     \* signatures by the target's size and time; Torn, or None
    mode,      \* transferMode of the job
    phase,     \* what transferFile does next
    entry,     \* srcEntry and dstEntry: what the run's walks saw
    sig,       \* a signature made or read
    scan,      \* BuildDelta at work
    target,    \* expectedSHA256, which stands for the content it is of
    tries,     \* retries made
    budget,    \* what may still happen
    clock,     \* ticks of user edits
    kept,      \* the target as the last run found it, as a rollback keeps it
    own,       \* history: the target's content is the user's
    versions,  \* history: contents the source had since the walk
    reading    \* history: the source as the scan reads it

attempt == <<entry, sig, scan, target, tries, versions, reading>>
outside == <<budget, clock, kept, own>>
vars == <<src, dst, cache, mode, phase, attempt, outside>>

Phases == {"idle", "sign", "store", "open", "scan", "hash", "apply", "install",
           "stamp", "drop", "resign", "restore", "full"}

Signatures == {BuildSignature(f) : f \in Files}

ScanTypeOK ==
    /\ DOMAIN scan = {"window", "weak", "rest", "pending", "ops", "done"}
    /\ {scan.window, scan.rest, scan.pending} \subseteq Seq(Bytes)
    /\ Len(scan.pending) < maxDataRun
    /\ scan.done \in BOOLEAN

DeltaTypeOK ==
    /\ src \in File /\ dst \in File /\ kept \in File \cup {None}
    /\ cache \in [Meta -> Signatures \cup {None, Torn}]
    /\ mode \in {"auto", "delta"} /\ phase \in Phases
    /\ phase # "idle" => entry \in [src : Meta, dst : Meta]
    /\ phase \in {"store", "restore", "scan"} => sig \in Signatures
    /\ phase = "open" => sig \in Signatures \cup {Torn}
    /\ phase \in {"scan", "hash", "apply", "install"} => ScanTypeOK
    /\ phase \in {"apply", "install"} => target \in Files
    /\ tries \in 0..Retries /\ clock \in Times /\ budget \in [Events -> Nat]
    /\ versions \subseteq Files /\ own \in BOOLEAN

Fresh == /\ entry = None /\ sig = None /\ scan = None /\ target = None
         /\ tries = 0 /\ versions = {} /\ reading = None

Init ==
    /\ \E c \in Cases : /\ src = c.src /\ dst = c.dst
                        /\ mode = c.mode /\ budget = c.budget
    /\ cache = [m \in Meta |-> None]
    /\ phase = "idle" /\ Fresh
    /\ clock = 1 /\ kept = None /\ own = TRUE

(***************************** transferFileDelta ****************************)

\* syncOneWay's needsCopy.
NeedsCopy == Len(src.data) # Len(dst.data) \/ src.mtimeMs > dst.mtimeMs

\* A run walks both sides, backs the target up and calls transferFile.
StartTransfer ==
    /\ phase = "idle" /\ NeedsCopy
    /\ entry' = [src |-> MetaOf(src), dst |-> MetaOf(dst)]
    /\ phase' = "sign" /\ kept' = dst /\ versions' = {src.data}
    /\ UNCHANGED <<src, dst, cache, mode, sig, scan, target, tries, reading, budget, clock, own>>

TransferOver ==
    /\ phase' = "idle" /\ entry' = None /\ sig' = None /\ scan' = None /\ target' = None
    /\ tries' = 0 /\ versions' = {} /\ reading' = None

\* A failed delta: auto copies the whole file, delta is retried and gives up.
DeltaFails ==
    \/ /\ mode = "auto" /\ phase' = "full"
       /\ sig' = None /\ scan' = None /\ target' = None /\ reading' = None
       /\ UNCHANGED <<entry, tries, versions>>
    \/ /\ mode = "delta" /\ tries < Retries /\ phase' = "sign" /\ tries' = tries + 1
       /\ sig' = None /\ scan' = None /\ target' = None /\ reading' = None
       /\ UNCHANGED <<entry, versions>>
    \/ mode = "delta" /\ tries = Retries /\ TransferOver

Goes(next) == phase' = next /\ UNCHANGED <<entry, tries, versions>>

\* The signature the transfer begins with is the one under the target's walked
\* size and time; it ends by making one under those of the source.
Key == IF phase \in {"sign", "store", "open"} THEN entry.dst ELSE entry.src

\* ensureSignature: a cached file is taken as it is, otherwise the target is read.
EnsureSignature ==
    /\ phase \in {"sign", "resign"}
    /\ LET found == cache[Key] # None IN
       IF phase = "sign"
       THEN /\ sig' = IF found THEN cache[Key] ELSE BuildSignature(dst.data)
            /\ Goes(IF found THEN "open" ELSE "store") /\ UNCHANGED <<scan, target, reading>>
       ELSE IF found THEN TransferOver
            ELSE /\ sig' = BuildSignature(dst.data)
                 /\ Goes("restore") /\ UNCHANGED <<scan, target, reading>>
    /\ UNCHANGED <<src, dst, cache, mode, outside>>

\* The new signature is copied into the cache.
StoreSignature ==
    /\ phase \in {"store", "restore"}
    /\ cache' = [cache EXCEPT ![Key] = sig]
    /\ IF phase = "store" THEN Goes("open") /\ UNCHANGED <<sig, scan, target, reading>>
       ELSE TransferOver
    /\ UNCHANGED <<src, dst, mode, outside>>

\* The engine reads the signature and opens the source.
OpenSource ==
    /\ phase = "open"
    /\ IF sig = Torn THEN DeltaFails
       ELSE /\ scan' = ScanOf(src.data) /\ reading' = src.data
            /\ Goes("scan") /\ UNCHANGED <<sig, target>>
    /\ UNCHANGED <<src, dst, cache, mode, outside>>

\* One turn of BuildDelta's loop.
Scanned(next) ==
    /\ scan' = next
    /\ UNCHANGED <<src, dst, cache, mode, phase, entry, sig, target, tries, versions, reading, outside>>

Scanning == phase = "scan" /\ ~scan.done
Found    == Matches(sig, scan.window, scan.weak)

BlockFound == Scanning /\ Found # {} /\ Scanned(ScanCopy(scan, sig[Min(Found)]))
LastWindow == Scanning /\ Found = {} /\ IsLast(scan) /\ Scanned(ScanLast(scan))
NextWindow == Scanning /\ Found = {} /\ ~IsLast(scan) /\ Scanned(ScanRoll(scan))

\* auto does not apply a delta that saves nothing.
CompareSizes ==
    /\ phase = "scan" /\ scan.done
    /\ IF mode = "auto" /\ DeltaSize(scan.ops) >= entry.src.size THEN DeltaFails
       ELSE Goes("hash") /\ UNCHANGED <<sig, scan, target, reading>>
    /\ UNCHANGED <<src, dst, cache, mode, outside>>

\* The source is read again for the hash the result must have.
HashSource ==
    /\ phase = "hash" /\ target' = src.data
    /\ Goes("apply") /\ UNCHANGED <<src, dst, cache, mode, sig, scan, reading, outside>>

\* Mutant: the engine is called without -expect-sha256.
ApplyDelta_Unchecked ==
    /\ phase = "apply"
    /\ IF ~Fits(dst.data, scan.ops) THEN DeltaFails
       ELSE /\ target' = Patched(dst.data, scan.ops)
            /\ Goes("install") /\ UNCHANGED <<sig, scan, reading>>
    /\ UNCHANGED <<src, dst, cache, mode, outside>>

\* The patch is written beside the target, and its hash compared.
ApplyDelta ==
    /\ phase = "apply"
    /\ IF ~Fits(dst.data, scan.ops) \/ Patched(dst.data, scan.ops) # target THEN DeltaFails
       ELSE Goes("install") /\ UNCHANGED <<sig, scan, target, reading>>
    /\ UNCHANGED <<src, dst, cache, mode, outside>>

\* It is renamed onto the target, whatever that is by now.
Install ==
    /\ phase = "install"
    /\ dst' = [data |-> target, mtimeMs |-> Written] /\ own' = FALSE
    /\ sig' = None /\ scan' = None /\ reading' = None
    /\ Goes("stamp") /\ UNCHANGED <<src, cache, mode, target, budget, clock, kept>>

\* Mutant: the target gets the time the source has by now.
Stamp_LiveTime ==
    /\ phase = "stamp"
    /\ dst' = [dst EXCEPT !.mtimeMs = src.mtimeMs]
    /\ Goes("drop") /\ UNCHANGED <<src, cache, mode, sig, scan, target, reading, outside>>

\* utimes: the target gets the source's walked time.
Stamp ==
    /\ phase = "stamp"
    /\ dst' = [dst EXCEPT !.mtimeMs = entry.src.mtimeMs]
    /\ Goes("drop") /\ UNCHANGED <<src, cache, mode, sig, scan, target, reading, outside>>

\* removeStaleSignature
DropSignature ==
    /\ phase = "drop"
    /\ cache' = [cache EXCEPT ![entry.dst] = None]
    /\ Goes("resign") /\ UNCHANGED <<src, dst, mode, sig, scan, target, reading, outside>>

\* transferFile's copy of the whole file: the live content under the walked time,
\* if it is as long as the walk saw it.
CopyWhole ==
    /\ phase = "full"
    /\ IF entry.src.size # 0 /\ Len(src.data) # entry.src.size
       THEN UNCHANGED <<dst, own>>
       ELSE dst' = [data |-> src.data, mtimeMs |-> entry.src.mtimeMs] /\ own' = FALSE
    /\ TransferOver
    /\ UNCHANGED <<src, cache, mode, budget, clock, kept>>

(****************************** what may happen *****************************)

Spend(event) == budget[event] > 0 /\ budget' = [budget EXCEPT ![event] = @ - 1]

\* A call of the engine fails.
EngineFails ==
    /\ phase \in {"sign", "open", "apply", "resign"} /\ Spend("faults")
    /\ DeltaFails
    /\ UNCHANGED <<src, dst, cache, mode, clock, kept, own>>

\* The agent dies; a signature may have been copied in part.
Crash ==
    /\ phase # "idle" /\ Spend("crashes")
    /\ \/ UNCHANGED cache
       \/ phase \in {"store", "restore"} /\ cache' = [cache EXCEPT ![Key] = Torn]
    /\ TransferOver
    /\ UNCHANGED <<src, dst, mode, clock, kept, own>>

Edited(data) == [data |-> data, mtimeMs |-> clock + 1]

UserEditsSource ==
    /\ Spend("edits") /\ clock < MaxClock /\ clock' = clock + 1
    /\ \E data \in Edits : /\ src' = Edited(data)
                           /\ versions' = IF phase = "idle" THEN {} ELSE versions \cup {data}
    /\ UNCHANGED <<dst, cache, mode, phase, entry, sig, scan, target, tries, reading, kept, own>>

UserEditsTarget ==
    /\ Spend("edits") /\ clock < MaxClock /\ clock' = clock + 1
    /\ \E data \in Edits : dst' = Edited(data)
    /\ own' = TRUE
    /\ UNCHANGED <<src, cache, mode, phase, attempt, kept>>

\* The target is put back as the last run found it, with its time, by a rollback
\* or by the user.
Restore ==
    /\ Spend("restores") /\ kept # None /\ dst' = kept /\ own' = TRUE
    /\ UNCHANGED <<src, cache, mode, phase, attempt, clock, kept>>

Scan == BlockFound \/ LastWindow \/ NextWindow

Agent == \/ StartTransfer \/ EnsureSignature \/ StoreSignature \/ OpenSource
         \/ Scan \/ CompareSizes \/ HashSource \/ ApplyDelta \/ Install
         \/ Stamp \/ DropSignature \/ CopyWhole

Next == Agent \/ EngineFails \/ Crash \/ UserEditsSource \/ UserEditsTarget \/ Restore

Spec == Init /\ [][Next]_vars

\* The job runs again and again, and its calls return.
FairSpec == Spec /\ WF_vars(Agent)

-----------------------------------------------------------------------------
(* Properties. *)

\* What the scan has written, holds back and has not read makes up the source,
\* against the file the signature was made of, at every turn of the loop, and the
\* rolled checksum is the window's: no byte is lost or sent twice at a boundary
\* of blocks or runs, and no block goes by unnoticed (BuildDelta, RollChecksum).
SignedFile == FlattenSeq([i \in DOMAIN sig |-> sig[i].strong])
ScanIsExact ==
    scan # None =>
        /\ Fits(SignedFile, scan.ops)
        /\ Patched(SignedFile, scan.ops) \o scan.pending
              \o (IF scan.done THEN <<>> ELSE scan.window \o scan.rest) = reading
        /\ scan.weak = RollingChecksum(scan.window)

\* The agent puts nothing into the target but, as a whole, a version the source
\* had since the run's walk, whatever signature it worked from and whoever edited
\* the two files meanwhile (apply with -expect-sha256, the copy of the whole file).
InstalledIsWhole ==
    [][dst' # dst /\ ~own' => dst'.data = dst.data \/ dst'.data \in versions]_vars

\* A cached signature that is not the target's: of another content of that size
\* and time, or cut off by a crash.
Misleading ==
    LET m == MetaOf(dst) IN cache[m] # None /\ cache[m] # BuildSignature(dst.data)

\* The target comes to have the source's content, or keeps one its user wrote that
\* counts as newer, whatever fails; unless the job insists on deltas and the cache
\* misleads it, which no later run repairs (exists in ensureSignature).
CatchesUp ==
    []<>(\/ dst.data = src.data
         \/ own /\ ~NeedsCopy
         \/ mode = "delta" /\ Misleading)
=============================================================================
