--------------------------- MODULE TransferSession ---------------------------
(***************************************************************************)
(* Files sent between two agents in chunks: the sender's upload, and the   *)
(* receiver's session, which collects the chunks in a temporary file and   *)
(* replaces the target with them.  An upload in full has a session of its  *)
(* own; an upload of a delta proposes an identifier made of path, size and *)
(* time, and goes on with the session an earlier one left under it.        *)
(*   agent/src/delta/remote.ts, with delta/engine.ts and the Go engine     *)
(***************************************************************************)
EXTENDS PeerLink, FiniteSets, FiniteSetsExt, SequencesExt

CONSTANTS
    Paths, None,
    MaxClock,   \* bound: number of user edits
    MaxCalls,   \* bound: requests under way at one time
    MaxUploads  \* bound: uploads under way at one time

ASSUME TransferAssumption ==
    MaxClock \in Nat /\ MaxCalls \in Nat \ {0} /\ MaxUploads \in Nat \ {0}

Torn     == MaxClock + 1       \* not a version but a part of one
Contents == 0..Torn
Times    == 0..MaxClock
Sizes    == 0..2               \* counted in chunks; a delta is always one chunk

Entry == [data : Contents, size : Sizes, mtimeMs : Times]
Meta  == [size : Sizes, mtimeMs : Times]

MetaOf(e) == IF e = None THEN None ELSE [size |-> e.size, mtimeMs |-> e.mtimeMs]

VARIABLES
    fs,        \* the two trees: device -> path -> Entry or None
    uploads,   \* uploads under way
    sessions,  \* transferSessions of both agents
    asked,     \* the request the initiator's run waits for, or 0
    heard,     \* what a request or an upload came to, or None
    aborted,   \* the run's AbortSignal
    offered,   \* history: every version a transfer was begun with
    told       \* history: what the last upload that ended told its caller

transferVars == <<fs, uploads, sessions, asked, heard, aborted, offered, told>>

CallIds == 1..MaxCalls
Numbers == 1..MaxUploads

\* A random identifier, or one made of path, size and mtime.
SessionIds == {<<n>> : n \in Numbers} \cup (Paths \X Sizes \X Times)

\* The caller of an upload is the run, or a request that came over a transport.
Callers == {<<>>} \cup (CallIds \X Transports)

\* A chunk of a full upload is a part of data, a delta is made against a basis.
Chunk == [data : Contents, basis : Contents \cup {None}]

Upload == [n : Numbers, at : Devices, caller : Callers, path : Paths,
           kind : {"full", "delta"}, meta : Meta, chunk : Chunk, size : Sizes,
           expect : Contents, stage : {"hash", "start", "send", "finish", "abort"},
           session : SessionIds, seq : 0..2, call : 0..MaxCalls,
           put : {"no", "whole", "damaged"}]

Write  == [seq : 0..2, chunk : Chunk]
Finish == [finish : Transports, id : CallIds, n : Numbers, expect : Contents, size : Sizes]
Session == [at : Devices, id : SessionIds, kind : {"full", "delta"}, path : Paths,
            meta : Meta, got : Seq(Write), queue : Seq(Write \cup Finish),
            writeError : BOOLEAN, applied : {"no", "ok", "error"}]

(******************************** messages *********************************)

TransferMessage ==
         [op : {"start"}, id : CallIds, session : SessionIds, kind : {"full", "delta"},
          path : Paths, meta : Meta]
    \cup [op : {"chunk"}, session : SessionIds, write : Write]
    \cup [op : {"finish"}, id : CallIds, session : SessionIds, n : Numbers,
          expect : Contents, size : Sizes]
    \cup [op : {"abort"}, id : CallIds, session : SessionIds]
    \cup [answer : {"transfer"}, id : CallIds, ok : BOOLEAN, next : 0..2]
    \cup [answer : {"send"}, id : CallIds, ok : BOOLEAN, sum : Contents \cup {None}]

IsAnswer(m) == "answer" \in DOMAIN m

TransferAnswer(id, ok, next) ==
    [answer |-> "transfer", id |-> id, ok |-> ok, next |-> next]

OnWire   == UNION {UNION {ToSet(wire[d][t]) : t \in Transports} : d \in Devices}
Items    == UNION {ToSet(s.queue) : s \in sessions}
Finishes == {w \in Items : "finish" \in DOMAIN w}

\* Whether anything is left of a request that may still lead to an answer.
MayAnswer(id) ==
    \/ \E m \in OnWire : "id" \in DOMAIN m /\ m.id = id
    \/ \E w \in Finishes : w.id = id
    \/ \E u \in uploads : u.caller # <<>> /\ u.caller[1] = id

\* Identifiers are random; here one that nothing refers to is used again.
FreshCalls ==
    LET free == {id \in CallIds : /\ ~MayAnswer(id) /\ asked # id
                                  /\ \A u \in uploads : u.call # id}
    IN  IF free = {} THEN {} ELSE {Min(free)}

FreshNumbers ==
    LET free == {n \in Numbers : /\ \A u \in uploads : u.n # n
                                 /\ \A s \in sessions : s.id # <<n>>
                                 /\ \A w \in Finishes : w.n # n
                                 /\ \A m \in OnWire :
                                        /\ "session" \in DOMAIN m => m.session # <<n>>
                                        /\ "n" \in DOMAIN m => m.n # n}
    IN  IF free = {} THEN {} ELSE {Min(free)}

(******************************* the sender ********************************)

\* uploadStreamInChunks and uploadFileInChunks: version e of the file goes out
\* under the size and time its walk saw.
Uploading(n, d, caller, p, kind, meta, e, basis) ==
    [n |-> n, at |-> d, caller |-> caller, path |-> p, kind |-> kind, meta |-> meta,
     chunk |-> [data |-> e.data, basis |-> basis], size |-> e.size, expect |-> e.data,
     stage |-> IF kind = "delta" THEN "hash" ELSE "start",
     session |-> IF kind = "delta" THEN <<p, meta.size, meta.mtimeMs>> ELSE <<n>>,
     seq |-> 0, call |-> 0, put |-> "no"]

Begun(u) == /\ uploads' = uploads \cup {u}
            /\ offered' = offered \cup {[to |-> Other(u.at), path |-> u.path,
                                         data |-> u.chunk.data, kind |-> u.kind]}

\* Mutant: one chunk too many.
Chunks_OneMore(u) == IF u.kind = "full" THEN u.size + 1 ELSE 2

Chunks(u) == IF u.kind = "full" THEN u.size ELSE 1

Became(u, v) == uploads' = (uploads \ {u}) \cup {v}

\* The upload returns to the run, or answers the request it was made for.
Ended(u, ok, w) ==
    /\ uploads' = uploads \ {u}
    /\ told' = [ok |-> ok, put |-> u.put]
    /\ IF u.caller = <<>>
       THEN /\ heard' = [answer |-> "upload", ok |-> ok, sum |-> u.expect]
            /\ wire' = w
       ELSE /\ UNCHANGED heard
            /\ wire' = Answered(w, u.at, u.caller[2],
                          [answer |-> "send", id |-> u.caller[1], ok |-> ok, sum |-> u.expect])

Cancelled(u) == aborted /\ u.caller = <<>>

\* After a failure the session is given up by name, whatever comes of it.
Failed(u, w) ==
    IF u.stage \in {"send", "finish"}
    THEN /\ Became(u, [u EXCEPT !.stage = "abort", !.call = 0])
         /\ wire' = w /\ UNCHANGED <<heard, told>>
    ELSE Ended(u, FALSE, w)

\* The source is read a second time, for the hash the target must come to.
Hash(u) ==
    LET e == fs[u.at][u.path]
    IN  /\ u.stage = "hash"
        /\ IF e = None THEN Ended(u, FALSE, wire)
           ELSE /\ Became(u, [u EXCEPT !.expect = e.data, !.size = e.size, !.stage = "start"])
                /\ UNCHANGED <<wire, heard, told>>
        /\ UNCHANGED <<fs, sessions, asked, aborted, offered>>

StageRequest(u, id) ==
    CASE u.stage = "start"  -> [op |-> "start", id |-> id, session |-> u.session,
                                kind |-> u.kind, path |-> u.path, meta |-> u.meta]
      [] u.stage = "finish" -> [op |-> "finish", id |-> id, session |-> u.session, n |-> u.n,
                                expect |-> u.expect, size |-> u.size]
      [] u.stage = "abort"  -> [op |-> "abort", id |-> id, session |-> u.session]

Requests(u) ==
    /\ u.call = 0 /\ u.stage \in {"start", "finish", "abort"}
    /\ IF ~CanReach(u.at) \/ (u.stage = "start" /\ Cancelled(u)) THEN Failed(u, wire)
       ELSE \E id \in FreshCalls :
                /\ Became(u, [u EXCEPT !.call = id])
                /\ wire' = Sent(wire, u.at, StageRequest(u, id))
                /\ UNCHANGED <<heard, told>>
    /\ UNCHANGED <<fs, sessions, asked, aborted, offered>>

SendsChunk(u) ==
    /\ u.stage = "send"
    /\ IF ~CanReach(u.at) \/ Cancelled(u) THEN Failed(u, wire)
       ELSE /\ Became(u, [u EXCEPT !.seq = @ + 1,
                                   !.stage = IF u.seq + 1 < Chunks(u) THEN @ ELSE "finish"])
            /\ wire' = Sent(wire, u.at, [op |-> "chunk", session |-> u.session,
                                         write |-> [seq |-> u.seq, chunk |-> u.chunk]])
            /\ UNCHANGED <<heard, told>>
    /\ UNCHANGED <<fs, sessions, asked, aborted, offered>>

\* The answer to the request of the upload's stage.
Hears(u, ok, next, w) ==
    IF u.stage = "start" /\ ok
    THEN /\ Became(u, [u EXCEPT !.seq = next, !.call = 0,
                                !.stage = IF next < Chunks(u) THEN "send" ELSE "finish"])
         /\ wire' = w /\ UNCHANGED <<heard, told>>
    ELSE IF u.stage = "finish" /\ ok THEN Ended(u, TRUE, w)
    ELSE Failed(u, w)

\* An answer nobody waits for any more is dropped.
TransferAnswered(d, t) == \E m \in {Head(wire[d][t])} :
    /\ IsAnswer(m) /\ m.answer = "transfer"
    /\ LET waiting == {u \in uploads : u.at = d /\ u.call = m.id}
       IN  IF TakesResponse(d, t) /\ waiting # {}
           THEN \E u \in waiting : Hears(u, m.ok, m.next, Taken(d, t))
           ELSE wire' = Taken(d, t) /\ UNCHANGED <<uploads, heard, told>>
    /\ UNCHANGED <<fs, sessions, asked, aborted, offered>>

\* Mutant: a request that was not answered is made again, for ever.
TimesOut_Again(u) ==
    /\ u.call # 0
    /\ Became(u, [u EXCEPT !.call = 0])
    /\ UNCHANGED <<fs, sessions, asked, aborted, offered, wire, heard, told>>

TimesOut(u) ==
    /\ u.call # 0
    /\ Failed(u, wire)
    /\ UNCHANGED <<fs, sessions, asked, aborted, offered>>

(****************************** the receiver *******************************)

SessionOf(d, id) == {s \in sessions : s.at = d /\ s.id = id}

NewSession(d, m) ==
    [at |-> d, id |-> m.session, kind |-> m.kind, path |-> m.path, meta |-> m.meta,
     got |-> <<>>, queue |-> <<>>, writeError |-> FALSE, applied |-> "no"]

Resumable(s, m) == s.kind = m.kind /\ s.path = m.path /\ ~s.writeError

Replaced(s, t) == sessions' = (sessions \ {s}) \cup {t}

\* nextSeq counts the chunks written, not those still queued.
HandleStart(d, t, m) ==
    /\ m.op = "start"
    /\ LET old == SessionOf(d, m.session)
           go  == {s \in old : Resumable(s, m)}
       IN  IF go # {}
           THEN /\ UNCHANGED sessions
                /\ \E s \in go :
                      wire' = Answered(Taken(d, t), d, t, TransferAnswer(m.id, TRUE, Len(s.got)))
           ELSE /\ sessions' = (sessions \ old) \cup {NewSession(d, m)}
                /\ wire' = Answered(Taken(d, t), d, t, TransferAnswer(m.id, TRUE, 0))

\* A chunk is an event: nobody hears that its session is unknown.
HandleChunk(d, t, m) ==
    /\ m.op = "chunk"
    /\ IF SessionOf(d, m.session) = {} THEN UNCHANGED sessions
       ELSE \E s \in SessionOf(d, m.session) :
                Replaced(s, [s EXCEPT !.queue = Append(@, m.write)])
    /\ wire' = Taken(d, t)

\* finish waits for the writes queued before it: it queues behind them.
HandleFinish(d, t, m) ==
    /\ m.op = "finish"
    /\ IF SessionOf(d, m.session) = {}
       THEN /\ wire' = Answered(Taken(d, t), d, t, TransferAnswer(m.id, FALSE, 0))
            /\ UNCHANGED sessions
       ELSE /\ wire' = Taken(d, t)
            /\ \E s \in SessionOf(d, m.session) :
                  Replaced(s, [s EXCEPT !.queue = Append(@,
                      [finish |-> t, id |-> m.id, n |-> m.n, expect |-> m.expect, size |-> m.size])])

\* The session goes with its temporary file, whatever waits in its queue.
HandleAbort(d, t, m) ==
    /\ m.op = "abort"
    /\ sessions' = sessions \ SessionOf(d, m.session)
    /\ wire' = Answered(Taken(d, t), d, t, TransferAnswer(m.id, TRUE, 0))

TransferHandled(d, t) == \E m \in {Head(wire[d][t])} :
    /\ ~IsAnswer(m)
    /\ \/ HandleStart(d, t, m) \/ HandleChunk(d, t, m)
       \/ HandleFinish(d, t, m) \/ HandleAbort(d, t, m)
    /\ UNCHANGED <<fs, uploads, asked, heard, aborted, offered, told>>

Writing(s) == s.queue # <<>> /\ "chunk" \in DOMAIN Head(s.queue)

InSequence(s, write) == write.seq = Len(s.got)

WriteChunk(s) ==
    /\ Writing(s)
    /\ Replaced(s, IF InSequence(s, Head(s.queue))
                   THEN [s EXCEPT !.got = Append(@, Head(s.queue)), !.queue = Tail(@)]
                   ELSE [s EXCEPT !.writeError = TRUE, !.queue = Tail(@)])
    /\ UNCHANGED <<fs, uploads, asked, heard, aborted, offered, told, wire>>

\* The hash of what was received is the one the sender announced.
Whole(s, f) == s.got = [i \in 1..f.size |-> [seq   |-> i - 1,
                                             chunk |-> [data |-> f.expect, basis |-> None]]]

\* Mutant: no -expect-sha256.
DeltaFits_Unchecked(s, f) == s.got # <<>> /\ fs[s.at][s.path] # None

\* The engine rebuilds the file from target and delta, and replaces the target
\* only with what has the announced hash.
DeltaFits(s, f) ==
    LET e == fs[s.at][s.path]
    IN  s.got # <<>> /\ e # None /\ s.got[1].chunk = [data |-> f.expect, basis |-> e.data]

\* The target is replaced before its hash is looked at: an incomplete file stays.
\* With no chunk at all there is no temporary file, and nothing is replaced.
Put(s, f) ==
    CASE s.writeError -> "no"
      [] ~s.writeError /\ s.kind = "delta" -> IF DeltaFits(s, f) THEN "whole" ELSE "no"
      [] ~s.writeError /\ s.kind = "full"  -> IF s.got = <<>> THEN "no"
                                              ELSE IF Whole(s, f) THEN "whole" ELSE "damaged"

Result(s, f, put) ==
    [data    |-> IF put = "damaged" THEN Torn ELSE f.expect,
     size    |-> IF s.kind = "full" THEN Len(s.got) ELSE f.size,
     mtimeMs |-> s.meta.mtimeMs]

Finishing(s) == s.queue # <<>> /\ "finish" \in DOMAIN Head(s.queue)

Apply(s) ==
    LET f == Head(s.queue)  put == Put(s, f)
    IN  /\ Finishing(s) /\ s.applied = "no"
        /\ Replaced(s, [s EXCEPT !.applied = IF put = "whole" THEN "ok" ELSE "error"])
        /\ fs' = IF put = "no" THEN fs
                 ELSE [fs EXCEPT ![s.at][s.path] = Result(s, f, put)]
        /\ uploads' = {IF u.n = f.n /\ put # "no" THEN [u EXCEPT !.put = put] ELSE u : u \in uploads}
        /\ UNCHANGED <<asked, heard, aborted, offered, told, wire>>

\* The session is deleted only then: until now another upload may have resumed it.
FinishEnds(s) ==
    LET f == Head(s.queue)
    IN  /\ Finishing(s) /\ s.applied # "no"
        /\ sessions' = sessions \ {s}
        /\ wire' = Answered(wire, s.at, f.finish, TransferAnswer(f.id, s.applied = "ok", 0))
        /\ UNCHANGED <<fs, uploads, asked, heard, aborted, offered, told>>

\* A session nobody has touched for TRANSFER_SESSION_TTL_MS.
Sweep(s) ==
    /\ s.queue = <<>>
    /\ \A u \in uploads : u.session # s.id
    /\ sessions' = sessions \ {s}
    /\ UNCHANGED <<fs, uploads, asked, heard, aborted, offered, told, wire>>

(******************************* all together ******************************)

UploadProgress ==
    \/ \E u \in uploads : Hash(u) \/ Requests(u) \/ SendsChunk(u)
    \/ \E d \in Devices, t \in Transports :
           wire[d][t] # <<>> /\ (TransferAnswered(d, t) \/ TransferHandled(d, t))
    \/ \E s \in sessions : WriteChunk(s) \/ Apply(s) \/ FinishEnds(s)

TransferTypeOK ==
    /\ fs \in [Devices -> [Paths -> Entry \cup {None}]]
    /\ uploads \subseteq Upload
    /\ sessions \subseteq Session
    /\ asked \in 0..MaxCalls
    /\ aborted \in BOOLEAN
    /\ told \in [ok : BOOLEAN, put : {"no", "whole", "damaged"}]

(************************** what a transfer promises ***********************)

Delivery == INSTANCE FileDelivery WITH
    Versions <- Contents,
    content  <- [d \in Devices |-> [p \in Paths |->
                    IF fs[d][p] = None THEN None ELSE fs[d][p].data]],
    sends    <- {[n |-> u.n, put |-> u.put,
                  offer |-> [to |-> Other(u.at), path |-> u.path,
                             data |-> u.expect, kind |-> u.kind]] : u \in uploads}
=============================================================================
