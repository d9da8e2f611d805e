----------------------------- MODULE RemoteSync -----------------------------
(***************************************************************************)
(* A job between two agents: the source's agent A walks its tree, asks     *)
(* agent B for a listing of the other, and replays renames, copies and     *)
(* deletes over PeerLink and TransferSession.  It takes no lock and makes  *)
(* no backups.  runRemoteDeltaSync and runRemoteBidirectionalSync of       *)
(* agent/src/delta/remote.ts, with the handlers of B.                      *)
(***************************************************************************)
EXTENDS TransferSession

CONSTANTS
    Cases,      \* the jobs considered, each with its start and its bounds
    MaxFaults,  \* bound: injected faults
    MaxRuns     \* bound: runs started

Jobs   == [mode : {"bidir", "mirror", "backup-with-deletes"}, delta : BOOLEAN]
Faults == {"cancel", "break", "late", "crash"}
Budget == [edits : 0..MaxClock, sizes : SUBSET Sizes, faults : [Faults -> 0..MaxFaults],
           runs : 0..MaxRuns]

ASSUME RemoteAssumption ==
    /\ MaxFaults \in Nat /\ MaxRuns \in Nat
    /\ Cases \subseteq [job : Jobs, shared : [Paths -> Sizes \cup {None}], start : Starts, budget : Budget]
    \* The files of the start are one version, number 0, and so of one size.
    /\ \A c \in Cases : \A p, q \in Paths :
           c.shared[p] # None /\ c.shared[q] # None => c.shared[p] = c.shared[q]

Listing         == [Paths -> Meta \cup {None}]
StoredFileState == [src : Meta \cup {None}, dst : Meta \cup {None}, sum : Contents \cup {None}]
Records         == [Paths -> StoredFileState \cup {None}]
Actions         == {"skip", "conflict", "copy-to-dst", "copy-to-src", "delete-dst", "delete-src"}
Cursor          == [path : Paths, from : Paths, step : {"signature", "transfer"},
                    action : Actions \cup {"move"}]

\* None stands for what is not there, and is none of the things that may be.
ASSUME RemoteNone == None \notin Nat \cup Entry \cup Meta \cup Cursor

VARIABLES
    job, budget,   \* the job and what is left of this behaviour's bounds
    clock,         \* user edits so far
    cache,         \* B's manifestCache: a listing or None
    stored,        \* the job's records, at A
    phase,         \* where the run is
    walked,        \* sourceFiles and targetFiles of the run
    todo,          \* paths the run has still to visit, or to delete
    cur,           \* the visit under way: path, action and step, or None
    newStored,     \* newState of the run
    movedSums,     \* checksums of the files the run renamed
    touched,       \* history: paths the user touched since the run began
    acted,         \* history: paths the run changed on either device
    removed,       \* history: <<device, path>> the user took away and nobody put back
    blamed,        \* history: paths a run went wrong over, or may still go wrong over
    propagated,    \* history: versions that were on both devices
    lost,          \* history: versions destroyed without need
    diverged       \* history: paths a completed run left different without reason

runVars  == <<phase, walked, todo, cur, newStored, movedSums>>
history  == <<touched, acted, removed, propagated, lost>>
settings == <<job, budget, clock>>
vars == <<linkVars, transferVars, settings, cache, stored, runVars, history, blamed, diverged>>

None2 == [d \in Devices |-> [p \in Paths |-> None]]

RemoteMessage ==
         [op : {"manifest"}, id : CallIds]
    \cup [op : {"signature", "delete"}, id : CallIds, path : Paths]
    \cup [op : {"send"}, id : CallIds, path : Paths, basis : Contents \cup {None}]
    \cup [op : {"move"}, id : CallIds, from : Paths, to : Paths, meta : Meta]
    \cup [answer : {"manifest"}, id : CallIds, ok : {TRUE}, listing : Listing]
    \cup [answer : {"signature"}, id : CallIds, ok : BOOLEAN, basis : Contents \cup {None}]
    \cup [answer : {"done"}, id : CallIds, ok : BOOLEAN]

\* What a request or an upload of the run may come to.
Heard ==
         [answer : {"none"}, ok : {FALSE}]
    \cup [answer : {"upload"}, ok : BOOLEAN, sum : Contents]
    \cup {m \in TransferMessage \cup RemoteMessage : IsAnswer(m)}

\* The state has its types: connections, messages, sessions, uploads, records and
\* the run of remote.ts; in particular no upload sends more chunks than its file has.
RemoteTypeOK ==
    /\ LinkTypeOK(TransferMessage \cup RemoteMessage)
    /\ TransferTypeOK
    /\ cache \in Listing \cup {None}
    /\ stored \in Records /\ newStored \in Records
    /\ phase \in {"idle", "manifest", "srcmoves", "dstmoves", "visit", "delete"}
    /\ walked \in [Devices -> Listing]
    /\ todo \subseteq Paths /\ touched \subseteq Paths /\ acted \subseteq Paths /\ blamed \subseteq Paths
    /\ removed \subseteq Devices \X Paths
    /\ movedSums \in [Paths -> Contents \cup {None}]
    /\ cur \in Cursor \cup {None} /\ heard \in Heard \cup {None}
    /\ job \in Jobs /\ budget \in Budget /\ clock \in 0..MaxClock

ListingOf(d) == [p \in Paths |-> MetaOf(fs[d][p])]

Init ==
    \E c \in Cases :
        LET m(p) == [size |-> c.shared[p], mtimeMs |-> 0]
        IN  /\ job = c.job /\ budget = c.budget
            /\ LinkInit(c.start)
            /\ fs = [d \in Devices |-> [p \in Paths |->
                        IF c.shared[p] = None THEN None
                        ELSE [data |-> 0, size |-> c.shared[p], mtimeMs |-> 0]]]
            /\ stored = [p \in Paths |-> IF c.shared[p] = None THEN None
                                         ELSE [src |-> m(p), dst |-> m(p), sum |-> 0]]
            /\ uploads = {} /\ sessions = {} /\ asked = 0 /\ heard = None /\ aborted = FALSE
            /\ offered = {} /\ told = [ok |-> FALSE, put |-> "no"]
            /\ clock = 0 /\ cache = None /\ phase = "idle" /\ walked = None2
            /\ todo = {} /\ cur = None /\ newStored = [p \in Paths |-> None]
            /\ movedSums = [p \in Paths |-> None]
            /\ touched = {} /\ acted = {} /\ removed = {} /\ blamed = {} /\ propagated = {0}
            /\ lost = {} /\ diverged = {}

(*************************** pure functions ********************************)

\* Mutant: only the size is compared.
fileChanged_SizeOnly(entry, prev, side) ==
    /\ entry # None
    /\ IF prev = None \/ prev[side] = None THEN TRUE ELSE prev[side].size # entry.size

\* sync.ts fileChanged; times here are equal or further apart than the tolerance.
fileChanged(entry, prev, side) ==
    /\ entry # None
    /\ prev = None \/ prev[side] # entry

\* Mutant: the source wins without a look at the other side.
resolveAction_SourceWins(src, dst, prev) ==
    IF src = None THEN (IF dst = None THEN "skip" ELSE "copy-to-src")
    ELSE IF dst = None \/ fileChanged(src, prev, "src") THEN "copy-to-dst"
    ELSE IF fileChanged(dst, prev, "dst") THEN "copy-to-src" ELSE "skip"

\* Mutant: a file missing on one side is taken for removed, whatever became of the other.
resolveAction_MissingIsRemoved(src, dst, prev) ==
    CASE src = None /\ dst = None -> "skip"
      [] src # None /\ dst = None -> IF prev # None THEN "delete-src" ELSE "copy-to-dst"
      [] src = None /\ dst # None -> IF prev # None THEN "delete-dst" ELSE "copy-to-src"
      [] OTHER -> IF src = dst THEN "skip"
                  ELSE IF src.mtimeMs >= dst.mtimeMs THEN "copy-to-dst" ELSE "copy-to-src"

resolveAction(src, dst, prev) ==
    LET srcChanged == fileChanged(src, prev, "src")
        dstChanged == fileChanged(dst, prev, "dst")
    IN  CASE src = None /\ dst = None -> "skip"
          [] src # None /\ dst = None ->
                IF prev # None /\ prev.dst # None /\ ~srcChanged THEN "delete-src" ELSE "copy-to-dst"
          [] src = None /\ dst # None ->
                IF prev # None /\ prev.src # None /\ ~dstChanged THEN "delete-dst" ELSE "copy-to-src"
          [] src # None /\ dst # None /\ prev = None ->
                IF src.mtimeMs = dst.mtimeMs THEN "skip"
                ELSE IF src.mtimeMs > dst.mtimeMs THEN "copy-to-dst" ELSE "copy-to-src"
          [] OTHER ->
                IF srcChanged /\ dstChanged THEN "conflict"
                ELSE IF srcChanged THEN "copy-to-dst"
                ELSE IF dstChanged THEN "copy-to-src" ELSE "skip"

newerWins(action, src, dst) ==
    IF action # "conflict" THEN action
    ELSE IF src.mtimeMs >= dst.mtimeMs THEN "copy-to-dst" ELSE "copy-to-src"

needsCopy(src, dst) == dst = None \/ dst.size # src.size \/ src.mtimeMs > dst.mtimeMs

ActionFor(p) ==
    LET src == walked["A"][p]  dst == walked["B"][p]
    IN  IF job.mode = "bidir" THEN newerWins(resolveAction(src, dst, stored[p]), src, dst)
        ELSE IF needsCopy(src, dst) THEN "copy-to-dst" ELSE "skip"

\* Orphans of the target: all of them, or those a record saw on both sides.
DeleteCandidates ==
    {p \in Paths : /\ walked["B"][p] # None /\ walked["A"][p] = None
                   /\ \/ job.mode = "mirror"
                      \/ /\ job.mode = "backup-with-deletes"
                         /\ stored[p] # None /\ stored[p].src # None
                         /\ stored[p].dst = walked["B"][p]}

(******************************** renames **********************************)

Changed(side) == IF side = "src" THEN walked["A"] ELSE walked["B"]
Mirror(side)  == IF side = "src" THEN walked["B"] ELSE walked["A"]
Across(side)  == IF side = "src" THEN "dst" ELSE "src"

\* Gone from one side, unchanged on the other, and once on both.
Missing(side) ==
    {p \in Paths : /\ Changed(side)[p] = None /\ Mirror(side)[p] # None
                   /\ stored[p] # None /\ stored[p].src # None /\ stored[p].dst # None
                   /\ stored[p].sum # None
                   /\ ~fileChanged(Mirror(side)[p], stored[p], Across(side))
                   /\ Mirror(side)[p].size = stored[p][side].size}

Added(side) ==
    {q \in Paths : Changed(side)[q] # None /\ Mirror(side)[q] = None /\ stored[q] = None}

\* checksumForRemoteAddedEntry: the content of a file of B is guessed by its size.
Guess(q) ==
    LET sums == {stored[r].sum : r \in {r \in Paths : /\ stored[r] # None /\ stored[r].sum # None
                                                      /\ stored[r].dst # None
                                                      /\ stored[r].dst.size = walked["B"][q].size}}
    IN  IF Cardinality(sums) = 1 THEN CHOOSE c \in sums : TRUE ELSE None

SumOf(side, q) == IF side = "dst" THEN Guess(q) ELSE fs["A"][q].data

Renamed(side) ==
    LET like(p, q) == /\ stored[p].sum = SumOf(side, q)
                      /\ stored[p][side].size = Changed(side)[q].size
        pairs == {m \in Missing(side) \X Added(side) : like(m[1], m[2])}
    IN  {m \in pairs : \A k \in pairs \ {m} : k[1] # m[1] /\ k[2] # m[2]}

\* backend.move: rename over whatever is there, then utimes.
Moved(tree, p, q, mtimeMs) ==
    [tree EXCEPT ![q] = [tree[p] EXCEPT !.mtimeMs = mtimeMs], ![p] = None]

\* What is known of a path goes with its file.
Follows(ps, p, q) == IF p \in ps THEN ps \cup {q} ELSE ps

(********************************* the run *********************************)

Unheard == [answer |-> "none", ok |-> FALSE]

\* A request of the run; it throws if there is no transport at all.
Asks(m) ==
    IF CanReach("A")
    THEN \E id \in FreshCalls : /\ asked' = id /\ heard' = None
                                /\ wire' = Sent(wire, "A", [m EXCEPT !.id = id])
    ELSE asked' = 0 /\ heard' = Unheard /\ UNCHANGED wire

UploadsOnly == <<uploads, offered>>
NoLink      == <<net, relaySock, devices, lateClose, known, lan, p2p>>
Still       == <<sessions, told, NoLink, settings, cache>>

\* Nothing of an earlier run is under way any more.
Quiet == uploads = {} /\ sessions = {} /\ OnWire = {}

StartRun ==
    /\ phase = "idle" /\ budget.runs > 0
    /\ relaySock["A"] = "ready"                  \* canRunRemoteDelta
    /\ phase' = "manifest"
    /\ walked' = [None2 EXCEPT !["A"] = ListingOf("A")]
    /\ Asks([op |-> "manifest", id |-> 0])
    /\ budget' = [budget EXCEPT !.runs = @ - 1]
    /\ touched' = IF Quiet THEN {} ELSE touched
    /\ UNCHANGED <<todo, cur, newStored, movedSums, fs, UploadsOnly, aborted, stored, blamed, diverged,
                   sessions, told, NoLink, job, clock, cache>>

RunOver ==
    /\ phase' = "idle" /\ walked' = None2 /\ todo' = {} /\ cur' = None
    /\ newStored' = [p \in Paths |-> None] /\ movedSums' = [p \in Paths |-> None]
    /\ heard' = None /\ aborted' = FALSE

\* An exception leaves the run with no records saved.
RunFails ==
    /\ RunOver
    /\ blamed' = blamed \cup acted
    /\ UNCHANGED <<stored, diverged, fs, UploadsOnly, asked, wire, touched, Still>>

HearListing ==
    /\ phase = "manifest" /\ heard # None
    /\ IF ~heard.ok \/ aborted THEN RunFails
       ELSE /\ walked' = [walked EXCEPT !["B"] = heard.listing]
            /\ phase' = "srcmoves" /\ heard' = None
            /\ UNCHANGED <<todo, cur, newStored, movedSums, fs, UploadsOnly, asked, aborted, wire,
                           stored, blamed, diverged, touched, Still>>

ToVisit == {p \in Paths : walked["A"][p] # None \/ (job.mode = "bidir" /\ walked["B"][p] # None)}

SrcMoves ==
    /\ phase = "srcmoves" /\ cur = None
    /\ IF aborted \/ \E q \in Added("src") : fs["A"][q] = None THEN RunFails
       ELSE /\ IF Renamed("src") = {}
               THEN /\ IF job.mode = "bidir" THEN phase' = "dstmoves" /\ UNCHANGED todo
                       ELSE phase' = "visit" /\ todo' = ToVisit
                    /\ UNCHANGED <<cur, asked, heard, wire>>
               ELSE \E m \in Renamed("src") :
                    /\ cur' = [path |-> m[2], from |-> m[1], action |-> "move", step |-> "transfer"]
                    /\ Asks([op |-> "move", id |-> 0, from |-> m[1], to |-> m[2],
                             meta |-> walked["A"][m[2]]])
                    /\ UNCHANGED <<phase, todo>>
            /\ UNCHANGED <<walked, newStored, movedSums, fs, UploadsOnly, aborted,
                           stored, blamed, diverged, touched, Still>>

HearMove ==
    /\ cur # None /\ cur.action = "move" /\ heard # None
    /\ IF ~heard.ok THEN RunFails
       ELSE /\ walked' = [walked EXCEPT !["B"][cur.from] = None,
                                        !["B"][cur.path] = walked["A"][cur.path]]
            /\ movedSums' = [movedSums EXCEPT ![cur.path] = stored[cur.from].sum]
            /\ cur' = None /\ heard' = None
            /\ UNCHANGED <<phase, todo, newStored, fs, UploadsOnly, asked, aborted, wire,
                           stored, blamed, diverged, touched, Still>>

DstMoves ==
    /\ phase = "dstmoves"
    /\ IF aborted \/ \E m \in Renamed("dst") : fs["A"][m[1]] = None THEN RunFails
       ELSE /\ IF Renamed("dst") = {}
               THEN /\ phase' = "visit" /\ todo' = ToVisit
                    /\ UNCHANGED <<fs, walked, movedSums, blamed, touched>>
               ELSE \E m \in Renamed("dst") :
                    LET meta == walked["B"][m[2]]
                    IN  /\ fs' = [fs EXCEPT !["A"] = Moved(@, m[1], m[2], meta.mtimeMs)]
                        /\ walked' = [walked EXCEPT !["A"][m[1]] = None, !["A"][m[2]] = meta]
                        /\ movedSums' = [movedSums EXCEPT ![m[2]] = stored[m[1]].sum]
                        /\ touched' = Follows(touched, m[1], m[2])
                        /\ blamed' = IF /\ fs["B"][m[2]] # None
                                        /\ fs["B"][m[2]].data = fs["A"][m[1]].data
                                     THEN Follows(blamed, m[1], m[2]) \cup ({m[2]} \cap touched')
                                     ELSE blamed \cup {m[1], m[2]}
                        /\ UNCHANGED <<phase, todo>>
            /\ UNCHANGED <<cur, newStored, UploadsOnly, asked, heard, aborted, wire,
                           stored, diverged, sessions, told, NoLink, settings, cache>>

(****************************** visiting a path ****************************)

SumBefore(p) == IF stored[p] # None THEN stored[p].sum ELSE None

\* newState of p, after action came to ok with the checksum sum.
RecordOf(p, action, ok, sum) ==
    LET src   == walked["A"][p]
        dst   == walked["B"][p]
        moved == IF SumBefore(p) # None THEN SumBefore(p) ELSE movedSums[p]
        sum2  == IF sum # None THEN sum ELSE moved
    IN  IF job.mode # "bidir"
        THEN [src |-> src, dst |-> IF dst = None THEN src ELSE dst,
              sum |-> IF sum # None THEN sum
                      ELSE IF movedSums[p] # None THEN movedSums[p] ELSE SumBefore(p)]
        ELSE [src |-> IF ok /\ action = "copy-to-src" THEN dst
                      ELSE IF ok /\ action = "delete-src" THEN None ELSE src,
              dst |-> IF ok /\ action = "copy-to-dst" THEN src ELSE dst,
              sum |-> sum2]

Visited(p, action, ok, sum) ==
    /\ todo' = todo \ {p}
    /\ cur' = None
    /\ newStored' = [newStored EXCEPT ![p] = RecordOf(p, action, ok, sum)]
    /\ blamed' = IF ok THEN blamed ELSE blamed \cup {p}

\* transferRemoteFull: the source is opened under what the walk saw of it.
SendsFull(p) ==
    LET e == fs["A"][p]
    IN  IF e = None \/ aborted
        THEN heard' = Unheard /\ UNCHANGED UploadsOnly
        ELSE /\ \E n \in FreshNumbers :
                   Begun(Uploading(n, "A", <<>>, p, "full", walked["A"][p], e, None))
             /\ heard' = None

At(p, action, step) == [path |-> p, from |-> p, action |-> action, step |-> step]

Visit(p) ==
    LET action == ActionFor(p)
        src == walked["A"][p]  dst == walked["B"][p]
        basis == IF src # None /\ job.delta /\ fs["A"][p] # None THEN fs["A"][p].data ELSE None
    IN  /\ phase = "visit" /\ cur = None /\ p \in todo /\ ~aborted
        /\ \/ /\ action = "skip"
              /\ Visited(p, action, TRUE, None)
              /\ UNCHANGED <<fs, asked, heard, wire, UploadsOnly>>
           \/ /\ action = "copy-to-dst" /\ (dst = None \/ ~job.delta)
              /\ cur' = At(p, action, "transfer") /\ SendsFull(p)
              /\ UNCHANGED <<todo, newStored, blamed, fs, asked, wire>>
           \/ /\ action = "copy-to-dst" /\ dst # None /\ job.delta
              /\ cur' = At(p, action, "signature")
              /\ Asks([op |-> "signature", id |-> 0, path |-> p])
              /\ UNCHANGED <<todo, newStored, blamed, fs, UploadsOnly>>
           \/ /\ action = "copy-to-src"
              /\ cur' = At(p, action, "transfer")
              /\ IF src # None /\ job.delta /\ fs["A"][p] = None
                 THEN heard' = Unheard /\ UNCHANGED <<asked, wire>>
                 ELSE Asks([op |-> "send", id |-> 0, path |-> p, basis |-> basis])
              /\ UNCHANGED <<todo, newStored, blamed, fs, UploadsOnly>>
           \/ /\ action = "delete-dst"
              /\ cur' = At(p, action, "transfer")
              /\ Asks([op |-> "delete", id |-> 0, path |-> p])
              /\ UNCHANGED <<todo, newStored, blamed, fs, UploadsOnly>>
           \/ /\ action = "delete-src"
              /\ fs' = [fs EXCEPT !["A"][p] = None]
              /\ Visited(p, action, fs["A"][p] # None, None)
              /\ UNCHANGED <<asked, heard, wire, UploadsOnly>>
        /\ UNCHANGED <<phase, walked, movedSums, aborted, stored, diverged, touched,
                       sessions, told, NoLink, settings, cache>>

\* transferRemoteDelta: a delta if it is smaller than the file, and the file in
\* full if it is not, or if there is no signature.
HearSignature ==
    LET p == cur.path  e == fs["A"][p]
    IN  /\ cur # None /\ cur.step = "signature" /\ heard # None
        /\ cur' = [cur EXCEPT !.step = "transfer"]
        /\ \/ SendsFull(p)
           \/ /\ heard.ok /\ e # None /\ walked["A"][p].size = 2
              /\ heard' = None
              /\ \E n \in FreshNumbers :
                    Begun(Uploading(n, "A", <<>>, p, "delta", walked["A"][p], e, heard.basis))
        /\ UNCHANGED <<phase, walked, todo, newStored, movedSums, fs, asked, aborted, wire,
                       stored, blamed, diverged, touched, Still>>

HearOutcome ==
    /\ cur # None /\ cur.step = "transfer" /\ cur.action # "move" /\ heard # None
    /\ heard' = None
    /\ IF phase = "delete"
       THEN todo' = todo \ {cur.path} /\ cur' = None /\ UNCHANGED <<newStored, blamed>>
       ELSE Visited(cur.path, cur.action, heard.ok, IF "sum" \in DOMAIN heard /\ heard.ok
                                                    THEN heard.sum ELSE None)
    /\ UNCHANGED <<phase, walked, movedSums, fs, UploadsOnly, asked, aborted, wire,
                   stored, diverged, touched, Still>>

\* throwIfAborted at the head of the loops.
Abort == /\ aborted /\ cur = None /\ phase \in {"visit", "delete"} /\ todo # {}
         /\ RunFails

(*************************** deletes, and the end **************************)

ToDeletes ==
    /\ phase = "visit" /\ todo = {} /\ cur = None /\ job.mode # "bidir"
    /\ phase' = "delete" /\ todo' = DeleteCandidates
    /\ UNCHANGED <<walked, cur, newStored, movedSums, fs, UploadsOnly, asked, heard, aborted, wire,
                   stored, blamed, diverged, touched, Still>>

DeleteOrphan(p) ==
    /\ phase = "delete" /\ p \in todo /\ cur = None /\ ~aborted
    /\ cur' = At(p, "delete-dst", "transfer")
    /\ Asks([op |-> "delete", id |-> 0, path |-> p])
    /\ UNCHANGED <<phase, walked, todo, newStored, movedSums, fs, UploadsOnly, aborted,
                   stored, blamed, diverged, touched, Still>>

Alike(p) == fs["A"][p] = fs["B"][p]

\* A file bears the time it was written at.
Genuine(e) == e # None => e.data = e.mtimeMs

\* The record says what is there on both sides.
TrueOf(r, p) ==
    /\ Alike(p) /\ Genuine(fs["A"][p])
    /\ r # None => /\ r.src = MetaOf(fs["A"][p]) /\ r.dst = MetaOf(fs["B"][p])
                   /\ r.sum = None \/ fs["A"][p] = None \/ r.sum = fs["A"][p].data

FinishRun ==
    /\ phase = IF job.mode = "bidir" THEN "visit" ELSE "delete"
    /\ todo = {} /\ cur = None
    /\ stored' = newStored
    /\ diverged' = IF job.mode = "bidir"
                   THEN {p \in Paths \ (touched \cup blamed) : ~Alike(p)} ELSE {}
    /\ blamed' = {p \in blamed \cup touched : ~TrueOf(newStored[p], p)}
    /\ RunOver
    /\ UNCHANGED <<fs, UploadsOnly, asked, wire, touched, Still>>

(******************************** B's handlers *****************************)

\* A listing younger than MANIFEST_CACHE_TTL is given again, whatever happened since.
HandleManifest(t, m) ==
    /\ m.op = "manifest"
    /\ \E listing \in {ListingOf("B")} \cup ({cache} \ {None}) :
           /\ cache' = listing
           /\ blamed' = blamed \cup {p \in Paths : listing[p] # ListingOf("B")[p]}
           /\ wire' = Answered(Taken("B", t), "B", t, [answer |-> "manifest", id |-> m.id,
                                                       ok |-> TRUE, listing |-> listing])
    /\ UNCHANGED <<fs, UploadsOnly, touched>>

HandleSignature(t, m) ==
    LET e == fs["B"][m.path]
    IN  /\ m.op = "signature"
        /\ wire' = Answered(Taken("B", t), "B", t,
                      [answer |-> "signature", id |-> m.id, ok |-> e # None,
                       basis |-> IF e = None THEN None ELSE e.data])
        /\ UNCHANGED <<fs, UploadsOnly, cache, blamed, touched>>

\* handleSendFull and handleSendDelta: B uploads, and answers when it is done.
HandleSend(t, m) ==
    LET e == fs["B"][m.path]
    IN  /\ m.op = "send"
        /\ IF e = None
           THEN /\ wire' = Answered(Taken("B", t), "B", t, [answer |-> "send", id |-> m.id,
                                                            ok |-> FALSE, sum |-> None])
                /\ UNCHANGED UploadsOnly
           ELSE /\ wire' = Taken("B", t)
                /\ \E n \in FreshNumbers,
                      kind \in IF m.basis # None /\ e.size = 2 THEN {"delta", "full"} ELSE {"full"} :
                      Begun(Uploading(n, "B", <<m.id, t>>, m.path, kind, MetaOf(e), e,
                                      IF kind = "delta" THEN m.basis ELSE None))
        /\ UNCHANGED <<fs, cache, blamed, touched>>

Done(t, m, ok) == wire' = Answered(Taken("B", t), "B", t,
                                   [answer |-> "done", id |-> m.id, ok |-> ok])

\* The path the run is at work on.
Pursued == IF cur = None THEN {} ELSE {cur.path}

\* A command of a run that has given up waiting for it.
Late(m, ps) == IF m.id = asked THEN {} ELSE ps

HandleMove(t, m) ==
    LET there == fs["B"][m.from] # None
    IN  /\ m.op = "move"
        /\ fs' = IF there THEN [fs EXCEPT !["B"] = Moved(@, m.from, m.to, m.meta.mtimeMs)] ELSE fs
        /\ Done(t, m, there)
        /\ touched' = IF there THEN Follows(touched, m.from, m.to) ELSE touched
        /\ blamed' = IF ~there THEN blamed
                     ELSE Follows(blamed, m.from, m.to) \cup Late(m, {m.from, m.to})
                          \cup ({m.to} \cap touched')
        /\ UNCHANGED <<UploadsOnly, cache>>

HandleDelete(t, m) ==
    /\ m.op = "delete"
    /\ fs' = [fs EXCEPT !["B"][m.path] = None]
    /\ Done(t, m, fs["B"][m.path] # None)
    /\ blamed' = blamed \cup Late(m, {m.path})
    /\ UNCHANGED <<UploadsOnly, cache, touched>>

RequestHandled(t) == \E m \in {Head(wire["B"][t])} :
    /\ ~IsAnswer(m)
    /\ \/ HandleManifest(t, m) \/ HandleSignature(t, m) \/ HandleSend(t, m)
       \/ HandleMove(t, m) \/ HandleDelete(t, m)
    /\ UNCHANGED <<NoLink, sessions, asked, heard, aborted, told, settings, stored, runVars,
                   diverged>>

\* The answer to the run's request; one that came too late is dropped.
RequestAnswered(t) == \E m \in {Head(wire["A"][t])} :
    /\ IsAnswer(m) /\ m.answer # "transfer"
    /\ wire' = Taken("A", t)
    /\ IF m.id = asked /\ TakesResponse("A", t) THEN heard' = m /\ asked' = 0
       ELSE UNCHANGED <<heard, asked>>
    /\ UNCHANGED <<fs, UploadsOnly, phase, walked, todo, cur, newStored, movedSums, aborted,
                   stored, blamed, diverged, touched, Still>>

(************************** what goes wrong ****************************)

CopyTo(d) == IF d = "A" THEN "copy-to-src" ELSE "copy-to-dst"

\* A file put there that the run is not copying there, or torn, or under the user's hands.
Unforeseen == {p \in Paths : \E d \in Devices :
                  /\ fs'[d][p] # fs[d][p]
                  /\ \/ cur = None \/ cur.path # p \/ cur.action # CopyTo(d)
                     \/ p \in touched \/ fs'[d][p].data = Torn}

\* An upload that ended, or was lost, before its file was there.
GivenUp == {u.path : u \in {v \in uploads : /\ v.put # "whole"
                                            /\ \A x \in uploads' : x.n # v.n}}

(*************************** the user and faults ***************************)

EngineStays == <<linkVars, uploads, sessions, asked, heard, offered, told, cache, stored, runVars,
                 diverged>>

UserActs(d, tree, ps) ==
    /\ clock < budget.edits /\ clock' = clock + 1
    /\ fs' = [fs EXCEPT ![d] = tree]
    /\ touched' = touched \cup ps
    /\ UNCHANGED <<EngineStays, job, budget, aborted>>

UserWrites(d, p, size) ==
    /\ UserActs(d, [fs[d] EXCEPT ![p] = [data |-> clock + 1, size |-> size, mtimeMs |-> clock + 1]], {p})
    /\ UNCHANGED blamed

UserDeletes(d, p) ==
    /\ fs[d][p] # None
    /\ UserActs(d, [fs[d] EXCEPT ![p] = None], {p})
    /\ UNCHANGED blamed

UserRenames(d, p, q) ==
    /\ fs[d][p] # None /\ fs[d][q] = None
    /\ UserActs(d, [fs[d] EXCEPT ![q] = fs[d][p], ![p] = None], {p, q})
    /\ blamed' = Follows(blamed, p, q)

Faulty(kind) == /\ budget.faults[kind] > 0
                /\ budget' = [budget EXCEPT !.faults[kind] = @ - 1]
                /\ UNCHANGED <<job, clock>>

Cancel == /\ phase # "idle" /\ ~aborted /\ Faulty("cancel")
          /\ aborted' = TRUE
          /\ UNCHANGED <<fs, EngineStays, touched, blamed>>

LinkBreaks ==
    /\ Faulty("break")
    /\ \/ \E d \in Devices : RelayBreaks(d) \/ RelayRejects(d) \/ LanForgets(d)
       \/ \E gone \in SUBSET lan \ {{}} : LanBreaks(gone)
       \/ P2pCloses
    /\ UNCHANGED <<transferVars, cache, stored, runVars, touched, blamed, diverged>>

LinkRecovers ==
    /\ \/ \E d \in Devices : RelayConnects(d) \/ RelayCloses(d) \/ LanMeets(d)
       \/ P2pOpens
    /\ UNCHANGED <<transferVars, settings, cache, stored, runVars, touched, blamed, diverged>>

\* An answer that may still come is slow only at the cost of a fault.
TimeOut(id) == IF MayAnswer(id) THEN Faulty("late") ELSE UNCHANGED settings

\* A stream that cannot be opened, and nobody listens to yet, takes its process down:
\* a source gone since the walk, the temporary file of a session that got no chunk.
Trips(d) ==
    \/ \E s \in sessions : /\ s.at = d /\ Finishing(s) /\ s.applied = "no" /\ ~s.writeError
                           /\ s.kind = "full" /\ s.got = <<>>
    \/ /\ d = "A" /\ cur # None /\ cur.action = "copy-to-dst" /\ cur.step = "transfer"
       /\ heard = Unheard /\ fs["A"][cur.path] = None

AgentDies(d) ==
    /\ IF Trips(d) THEN UNCHANGED settings ELSE Faulty("crash")
    /\ LinkDies(d)
    /\ sessions' = {s \in sessions : s.at # d}
    /\ uploads' = {u \in uploads : u.at # d}
    /\ IF d = "A" THEN /\ RunOver /\ asked' = 0 /\ UNCHANGED cache
                       /\ blamed' = blamed \cup acted \cup Pursued
       ELSE /\ cache' = None /\ blamed' = blamed \cup GivenUp
            /\ UNCHANGED <<runVars, asked, heard, aborted>>
    /\ UNCHANGED <<fs, offered, told, stored, touched, diverged>>

(****************************** specification ******************************)

EngineSteps ==
    \/ StartRun \/ HearListing \/ SrcMoves \/ HearMove \/ DstMoves
    \/ \E p \in Paths : Visit(p) \/ DeleteOrphan(p)
    \/ HearSignature \/ HearOutcome \/ Abort \/ ToDeletes \/ FinishRun
    \/ \E t \in Transports : \/ wire["A"][t] # <<>> /\ RequestAnswered(t)
                             \/ wire["B"][t] # <<>> /\ RequestHandled(t)

TransferSteps == /\ UploadProgress \/ (\E s \in sessions : Sweep(s))
                 /\ blamed' = blamed \cup Unforeseen \cup GivenUp
                 /\ UNCHANGED <<NoLink, settings, cache, stored, runVars, touched, diverged>>

TimeOuts ==
    \/ \E u \in uploads : /\ TimesOut(u) /\ TimeOut(u.call)
                          /\ blamed' = blamed \cup GivenUp
                          /\ UNCHANGED <<NoLink, cache, stored, runVars, touched, diverged>>
    \/ /\ asked # 0 /\ asked' = 0 /\ heard' = Unheard /\ TimeOut(asked)
       /\ blamed' = blamed \cup Pursued
       /\ UNCHANGED <<fs, UploadsOnly, sessions, told, linkVars, aborted, cache, stored, runVars,
                      touched, diverged>>

UserSteps ==
    \E d \in Devices, p \in Paths :
        \/ \E size \in budget.sizes : UserWrites(d, p, size)
        \/ UserDeletes(d, p)
        \/ \E q \in Paths : UserRenames(d, p, q)

Observe ==
    LET user == clock' # clock
        both == {fs'["A"][p] : p \in {q \in Paths : /\ fs'["A"][q] # None /\ fs'["B"][q] # None
                                                    /\ fs'["A"][q].data = fs'["B"][q].data}}
        conceded(p) == cur # None /\ cur.path = p /\
                       (stored[p] = None \/ resolveAction(walked["A"][p], walked["B"][p], stored[p]) = "conflict")
        over(d, p)  == /\ fs[d][p] # None /\ fs'[d][p] # None /\ fs'[d][p].data # fs[d][p].data
                       /\ ~user /\ p \notin touched \cup blamed /\ ~conceded(p)
                       /\ job.mode = "bidir"
        victims     == {fs[x[1]][x[2]].data : x \in {y \in Devices \X Paths : over(y[1], y[2])}}
    IN  /\ removed' = (IF user THEN removed \cup {x \in Devices \X Paths :
                                        fs[x[1]][x[2]] # None /\ fs'[x[1]][x[2]] = None}
                       ELSE removed) \ {x \in Devices \X Paths : fs'[x[1]][x[2]] # None}
        /\ acted' = (IF phase = "idle" /\ Quiet THEN {} ELSE acted)
                    \cup IF user THEN {} ELSE {p \in Paths : \E d \in Devices : fs'[d][p] # fs[d][p]}
        /\ propagated' = propagated \cup {e.data : e \in both}
        /\ lost' = lost \cup (victims \ (propagated' \cup {Torn}))

Next ==
    /\ \/ EngineSteps \/ TransferSteps \/ TimeOuts \/ LinkRecovers
       \/ UserSteps \/ Cancel \/ LinkBreaks \/ \E d \in Devices : AgentDies(d)
    /\ Observe

Progress == (EngineSteps \/ TransferSteps \/ TimeOuts) /\ Observe /\ UNCHANGED budget

\* Fairness: engine, handlers and timers go on; no connection need ever come back.
Spec     == Init /\ [][Next]_vars
FairSpec == Spec /\ WF_vars(Progress)

(******************************* properties ********************************)

\* Uploads, sessions and writes keep the promise of FileDelivery, whatever is lost,
\* overtaken, resumed or restarted on the way: a file changes as a whole to a version
\* offered for its path, or is damaged by a full upload whose sender is not told of
\* success; a delta never damages its target.
ImplementsDelivery == Delivery!Spec

\* Unless the target is to be a mirror, a file disappears by the job's doing only if
\* the user took it away on the other side, or had a hand in it during the run, or an
\* earlier run went wrong over it (stale listing, late command, failed copy).
DeletesFollowTheUser ==
    [][\A d \in Devices, p \in Paths :
          (/\ fs[d][p] # None /\ fs'[d][p] = None
           /\ clock' = clock /\ job.mode # "mirror")
          => \/ <<Other(d), p>> \in removed \/ p \in touched \cup blamed
             \/ d = "B" /\ p \in blamed']_vars

\* A two-way run never writes over the only copy of a version: what it writes over had
\* been on both devices, or lost a conflict by its time, or the user wrote it while
\* the run was at work, or an earlier run went wrong over the path.
VersionsSurvive == lost = {}

\* When a two-way run completes, the two devices have the same file at every path the
\* user left alone during the run and no step of the run failed over.
CompletedRunConverges == diverged = {}

\* Runs, uploads, requests and transfer sessions all come to an end, with the other
\* device gone, the answer lost or the process restarted: nothing waits for ever.
EverythingEnds == <>[](phase = "idle" /\ uploads = {} /\ sessions = {} /\ asked = 0)
=============================================================================
