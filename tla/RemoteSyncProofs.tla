-------------------------- MODULE RemoteSyncProofs --------------------------
(***************************************************************************)
(* The remote engine is well typed, and its uploads, sessions and writes   *)
(* implement FileDelivery, for any paths, jobs, networks and bounds.  Both *)
(* rest on one invariant.  It says which requests, chunks and answers on   *)
(* the way, and which sessions of the receiver, belong to which upload and *)
(* to which request of the run: what a resumed session holds was offered   *)
(* for its place, and only the answer to its own finish tells an upload    *)
(* of success.  A second invariant, Carrying, says what they carry: a file *)
(* once put is not put again by its upload, a version has one size and     *)
(* goes with one time, and the run's request is made once.                 *)
(***************************************************************************)
EXTENDS RemoteSync, FiniteSetTheorems, SequenceTheorems, WellFoundedInduction, TLAPS

(*************************** the invariant *********************************)

\* The messages on their way to d.
InBox(w, d) == UNION {ToSet(w[d][t]) : t \in Transports}

Is(m, op)  == ~IsAnswer(m) /\ m.op = op
SaysOk(m)  == IsAnswer(m) /\ m.answer = "transfer" /\ m.ok

DeltaIds == Paths \X Sizes \X Times

\* What an upload transfers, and what it was begun with.
OfferOf(u) == [to |-> Other(u.at), path |-> u.path, data |-> u.chunk.data, kind |-> u.kind]

DeltaOffer(d, p, v) == [to |-> d, path |-> p, data |-> v, kind |-> "delta"]

IsChunk(w)  == "chunk" \in DOMAIN w
IsFinish(w) == "finish" \in DOMAIN w

\* The uploads: what they send was offered, and their stage fits their kind.
UploadFits(u) ==
    /\ OfferOf(u) \in offered
    /\ u.kind = "full"  => u.session = <<u.n>> /\ u.expect = u.chunk.data /\ u.stage # "hash"
    /\ u.kind = "delta" => u.session \in DeltaIds /\ u.session[1] = u.path
    /\ u.stage = "send" => u.seq < Chunks(u)
    /\ u.stage \in {"hash", "send"} => u.call = 0
    /\ u.stage = "hash" => u.put = "no"

UploadsFit == /\ \A u \in uploads : UploadFits(u)
              /\ \A u, v \in uploads : u.n = v.n => u = v

\* The requests that open a session and fill it.
StartFits(m)    == /\ m.kind = "full" => \E n \in Numbers : m.session = <<n>>
                   /\ m.kind = "delta" => m.session \in DeltaIds /\ m.session[1] = m.path
ChunkFits(d, m) == /\ m.write.seq <= 1
                   /\ m.session \in DeltaIds
                        => DeltaOffer(d, m.session[1], m.write.chunk.data) \in offered

MessagesFit ==
    \A d \in Devices : \A m \in InBox(wire, d) :
        /\ Is(m, "start") => StartFits(m)
        /\ Is(m, "chunk") => ChunkFits(d, m)

\* The sessions: what they hold was offered, and was numbered from the start.
Holds(s, v) == \/ \E i \in 1..Len(s.got) : s.got[i].chunk.data = v
               \/ \E i \in 1..Len(s.queue) : IsChunk(s.queue[i]) /\ s.queue[i].chunk.data = v

SessionFits(s) ==
    /\ s.kind = "full"  => \E n \in Numbers : s.id = <<n>>
    /\ s.kind = "delta" => s.id \in DeltaIds /\ s.id[1] = s.path
    /\ s.kind = "delta" => \A v \in Contents : Holds(s, v) => DeltaOffer(s.at, s.path, v) \in offered
    /\ Len(s.got) <= 2
    /\ \A i \in 1..Len(s.queue) : IsChunk(s.queue[i]) => s.queue[i].seq <= 1
    /\ s.applied # "no" => Finishing(s)

SessionsFit == \A s \in sessions : SessionFits(s)

\* Everything under number n belongs to one upload in full, that of offer o.
Owns(n, o) ==
    /\ \A u \in uploads : u.session = <<n>> => OfferOf(u) = o
    /\ \A d \in Devices : \A m \in InBox(wire, d) :
          /\ Is(m, "start") /\ m.session = <<n>>
                => o \in offered /\ o.kind = "full" /\ o.to = d /\ o.path = m.path
          /\ Is(m, "chunk") /\ m.session = <<n>> => o.data = m.write.chunk.data
    /\ \A s \in sessions : s.id = <<n>> =>
          /\ o \in offered /\ o.kind = "full" /\ o.to = s.at /\ o.path = s.path
          /\ \A v \in Contents : Holds(s, v) => o.data = v

\* The offer a number stands for, or None if nothing bears it.
Owners == Delivery!Offer \cup {None}

NumbersOwned == \A n \in Numbers : \E o \in Owners : Owns(n, o)

\* A finish, on its way to d or waiting in a session there, comes from the upload of its
\* number, and no other request or answer is taken for it.
FinishFits(d, session, w) ==
    \A u \in uploads :
        /\ u.n = w.n => /\ u.stage \in {"finish", "abort"}
                        /\ u.stage = "finish" => u.call # 0
                        /\ u.expect = w.expect /\ Other(u.at) = d /\ u.session = session
        /\ u.stage = "finish" /\ u.call = w.id => u.n = w.n

FinishesFit ==
    /\ \A d \in Devices : \A m \in InBox(wire, d) : Is(m, "finish") => FinishFits(d, m.session, m)
    /\ \A s \in sessions : \A i \in 1..Len(s.queue) :
          IsFinish(s.queue[i]) => FinishFits(s.at, s.id, s.queue[i])
    /\ \A d \in Devices : \A m \in InBox(wire, d) : Is(m, "start") \/ Is(m, "abort") =>
          \A u \in uploads : u.call = m.id => u.stage # "finish"

\* There is one finish to a number at most.
OneOnWire(w) ==
    \A d, e \in Devices : \A t, r \in Transports :
        \A i \in 1..Len(w[d][t]), j \in 1..Len(w[e][r]) :
            /\ Is(w[d][t][i], "finish") /\ Is(w[e][r][j], "finish") /\ w[d][t][i].n = w[e][r][j].n
            => d = e /\ t = r /\ i = j

OneQueued ==
    \A s, z \in sessions : \A i \in 1..Len(s.queue), j \in 1..Len(z.queue) :
        IsFinish(s.queue[i]) /\ IsFinish(z.queue[j]) /\ s.queue[i].n = z.queue[j].n
        => s = z /\ i = j

NoneOnWire(n) == \A d \in Devices : \A m \in InBox(wire, d) : Is(m, "finish") => m.n # n
NoneQueued(n) == \A s \in sessions : \A i \in 1..Len(s.queue) :
                     IsFinish(s.queue[i]) => s.queue[i].n # n

OneFinish == /\ OneOnWire(wire) /\ OneQueued
             /\ \A s \in sessions : \A i \in 1..Len(s.queue) :
                    IsFinish(s.queue[i]) => NoneOnWire(s.queue[i].n)

\* An upload is told of success when its version was put there whole, and then nothing
\* of its finish is left that could damage it.
OutcomesFit ==
    /\ \A s \in sessions : s.applied = "ok" =>
          \A u \in uploads : u.n = Head(s.queue).n => u.put = "whole"
    /\ \A d \in Devices : \A m \in InBox(wire, d) : SaysOk(m) =>
          \A u \in uploads : u.stage = "finish" /\ u.call = m.id =>
              u.put = "whole" /\ NoneOnWire(u.n) /\ NoneQueued(u.n)

TransferInv == /\ UploadsFit /\ MessagesFit /\ SessionsFit /\ NumbersOwned
               /\ FinishesFit /\ OneFinish /\ OutcomesFit

\* Versions are numbered as they are written.
Seen == 0..clock \cup {Torn}
VersionsSeen == /\ offered \subseteq Delivery!Offer
                /\ \A o \in offered : o.data \in Seen
                /\ \A d \in Devices, p \in Paths : fs[d][p] # None => fs[d][p].data \in Seen

\* What the run waits for.
Wanted == IF phase = "manifest" THEN "manifest"
          ELSE IF cur.step = "signature" THEN "signature"
          ELSE IF cur.action = "copy-to-src" THEN "send"
          ELSE IF cur.action = "copy-to-dst" THEN "upload" ELSE "done"

AnswerTo(op) == IF op \in {"move", "delete"} THEN "done"
                ELSE IF op \in {"start", "finish", "abort"} THEN "transfer" ELSE op

RunFits ==
    /\ phase \in {"idle", "manifest", "dstmoves"} => cur = None
    /\ asked # 0 \/ heard # None => phase = "manifest" \/ cur # None
    /\ asked # 0 => heard = None
    /\ heard # None => heard.answer \in {Wanted, "none"}
    /\ cur # None =>
         /\ cur.action = "move" <=> phase = "srcmoves"
         /\ cur.action = "move" => stored[cur.from] # None /\ cur.step = "transfer"
         /\ cur.step = "signature" => cur.action = "copy-to-dst"
         /\ cur.action = "copy-to-dst" => /\ walked["A"][cur.path] # None
                                          /\ cur.step = "transfer" => asked = 0
    /\ phase = "visit" /\ job.mode # "bidir" => \A p \in todo : walked["A"][p] # None

\* The run's upload, and those B makes for it.
CallersFit ==
    /\ \A u \in uploads : u.caller = <<>> =>
          /\ u.at = "A" /\ heard = None
          /\ cur # None /\ cur.action = "copy-to-dst" /\ cur.step = "transfer"
    /\ \A u, v \in uploads : u.caller = <<>> /\ v.caller = <<>> => u = v
    /\ \A u \in uploads : u.caller # <<>> => u.at = "B"

\* Only the answer to the run's request bears its identifier.
AnswersFit ==
    asked # 0 =>
        /\ \A d \in Devices : \A m \in InBox(wire, d) : "id" \in DOMAIN m /\ m.id = asked =>
              Wanted = IF IsAnswer(m) THEN m.answer ELSE AnswerTo(m.op)
        /\ \A s \in sessions : \A i \in 1..Len(s.queue) : IsFinish(s.queue[i]) => s.queue[i].id # asked
        /\ \A u \in uploads : u.caller # <<>> /\ u.caller[1] = asked => Wanted = "send"

RemoteInv == RemoteTypeOK /\ TransferInv /\ VersionsSeen /\ RunFits /\ CallersFit /\ AnswersFit

(************************** wires and messages *****************************)

Message == TransferMessage \cup RemoteMessage
Wires   == [Devices -> [Transports -> Seq(Message)]]

\* All w2 has on its way was there in w, but for a message m to device to.
Carries(w2, w, to, m) ==
    \A e \in Devices : \A x \in InBox(w2, e) : x \in InBox(w, e) \/ (e = to /\ x = m)

\* The two devices.
LEMMA Two == \A d \in Devices : Other(d) \in Devices /\ Other(d) # d /\ Other(Other(d)) = d
BY DEF Other, Devices

\* What is preferred is a transport.
LEMMA RouteTyped == \A d \in Devices : Route(d) \in Transports /\ OpenedBy(d) \in Transports
BY DEF Route, OpenedBy, Transports, Devices

\* The messages on the way to a device, one transport at a time.
LEMMA InBoxDef ==
    ASSUME NEW w \in Wires, NEW d \in Devices
    PROVE  /\ \A x : x \in InBox(w, d)
                <=> \E t \in Transports : \E i \in 1..Len(w[d][t]) : x = w[d][t][i]
           /\ InBox(w, d) \subseteq Message
<1>1. \A t \in Transports : w[d][t] \in Seq(Message)
  BY DEF Wires
<1>2. \A t \in Transports : DOMAIN w[d][t] = 1..Len(w[d][t])
  BY <1>1
<1>3. \A x : x \in InBox(w, d) <=> \E t \in Transports : \E i \in 1..Len(w[d][t]) : x = w[d][t][i]
  BY <1>2 DEF InBox, ToSet
<1>4. \A t \in Transports : \A i \in 1..Len(w[d][t]) : w[d][t][i] \in Message
  BY <1>1
<1> QED BY <1>3, <1>4

\* Sending adds one message at most, at the end.
LEMMA SentOnWire ==
    ASSUME NEW w \in Wires, NEW d \in Devices, NEW t \in Transports, NEW m \in Message
    PROVE  /\ SentOn(w, d, t, m) \in Wires
           /\ Carries(SentOn(w, d, t, m), w, Other(d), m)
           /\ OneOnWire(w) /\ (Is(m, "finish") => \A e \in Devices : \A x \in InBox(w, e) :
                                                    Is(x, "finish") => x.n # m.n)
              => OneOnWire(SentOn(w, d, t, m))
<1> DEFINE v == SentOn(w, d, t, m)
<1>1. CASE ~Delivers(d, t)
  <2>1. v = w
    BY <1>1 DEF SentOn
  <2> QED BY <2>1 DEF Carries
<1>2. CASE Delivers(d, t)
  <2>0. Other(d) \in Devices
    BY Two
  <2>1. w[Other(d)][t] \in Seq(Message)
    BY <2>0 DEF Wires
  <2>2. v = [w EXCEPT ![Other(d)][t] = Append(w[Other(d)][t], m)]
    BY <1>2 DEF SentOn
  <2>3. v \in Wires
    BY <2>0, <2>1, <2>2 DEF Wires
  <2>4. \A e \in Devices, r \in Transports :
           v[e][r] = IF e = Other(d) /\ r = t THEN Append(w[e][r], m) ELSE w[e][r]
    BY <2>0, <2>2 DEF Wires
  <2>5. \A e \in Devices, r \in Transports : \A i \in 1..Len(v[e][r]) :
           \/ i \in 1..Len(w[e][r]) /\ v[e][r][i] = w[e][r][i]
           \/ e = Other(d) /\ r = t /\ i = Len(w[e][r]) + 1 /\ v[e][r][i] = m
    <3> SUFFICES ASSUME NEW e \in Devices, NEW r \in Transports, NEW i \in 1..Len(v[e][r])
                 PROVE  \/ i \in 1..Len(w[e][r]) /\ v[e][r][i] = w[e][r][i]
                        \/ e = Other(d) /\ r = t /\ i = Len(w[e][r]) + 1 /\ v[e][r][i] = m
      OBVIOUS
    <3>1. CASE e = Other(d) /\ r = t
      <4>1. v[e][r] = Append(w[e][r], m)
        BY <2>4, <3>1
      <4> QED BY <2>1, <3>1, <4>1
    <3>2. CASE ~(e = Other(d) /\ r = t)
      BY <2>4, <3>2
    <3> QED BY <3>1, <3>2
  <2> HIDE DEF v
  <2>6. Carries(v, w, Other(d), m)
    BY <2>3, <2>5, InBoxDef DEF Carries
  <2>7. ASSUME OneOnWire(w), Is(m, "finish") => \A e \in Devices : \A x \in InBox(w, e) :
                                                    Is(x, "finish") => x.n # m.n
        PROVE  OneOnWire(v)
    <3>1. Is(m, "finish") => \A e \in Devices, r \in Transports : \A i \in 1..Len(w[e][r]) :
                                 Is(w[e][r][i], "finish") => w[e][r][i].n # m.n
      BY <2>7, InBoxDef
    <3>2. SUFFICES ASSUME NEW e \in Devices, NEW f \in Devices, NEW r \in Transports, NEW q \in Transports,
                          NEW i \in 1..Len(v[e][r]), NEW j \in 1..Len(v[f][q]),
                          Is(v[e][r][i], "finish"), Is(v[f][q][j], "finish"),
                          v[e][r][i].n = v[f][q][j].n
                   PROVE  e = f /\ r = q /\ i = j
      BY DEF OneOnWire
    <3>3. CASE i \in 1..Len(w[e][r]) /\ v[e][r][i] = w[e][r][i]
      <4>1. CASE j \in 1..Len(w[f][q]) /\ v[f][q][j] = w[f][q][j]
        <5>1. Is(w[e][r][i], "finish") /\ Is(w[f][q][j], "finish") /\ w[e][r][i].n = w[f][q][j].n
          BY <3>2, <3>3, <4>1
        <5> QED BY <2>7, <3>3, <4>1, <5>1 DEF OneOnWire
      <4>2. CASE v[f][q][j] = m
        <5>1. Is(w[e][r][i], "finish") /\ Is(m, "finish") /\ w[e][r][i].n = m.n
          BY <3>2, <3>3, <4>2
        <5> QED BY <3>1, <3>3, <5>1
      <4> QED BY <2>5, <4>1, <4>2
    <3>4. CASE e = Other(d) /\ r = t /\ i = Len(w[e][r]) + 1 /\ v[e][r][i] = m
      <4>1. CASE j \in 1..Len(w[f][q]) /\ v[f][q][j] = w[f][q][j]
        <5>1. Is(w[f][q][j], "finish") /\ Is(m, "finish") /\ w[f][q][j].n = m.n
          BY <3>2, <3>4, <4>1
        <5> QED BY <3>1, <4>1, <5>1
      <4>2. CASE f = Other(d) /\ q = t /\ j = Len(w[f][q]) + 1
        BY <3>4, <4>2
      <4> QED BY <2>5, <4>1, <4>2
    <3> QED BY <2>5, <3>3, <3>4
  <2> QED BY <2>3, <2>6, <2>7 DEF v
<1> QED BY <1>1, <1>2

\* The same for what is sent by preference, and for an answer.
LEMMA SentWire ==
    ASSUME NEW w \in Wires, NEW d \in Devices, NEW t \in Transports, NEW m \in Message,
           NEW v, v = Sent(w, d, m) \/ v = Answered(w, d, t, m) \/ v = w
    PROVE  /\ v \in Wires
           /\ Carries(v, w, Other(d), m)
           /\ OneOnWire(w) /\ ~Is(m, "finish") => OneOnWire(v)
           /\ OneOnWire(w) /\ (\A e \in Devices : \A x \in InBox(w, e) : Is(x, "finish") => x.n # m.n)
              => OneOnWire(v)
<1>1. CASE v = w
  BY <1>1 DEF Carries
<1>2. CASE v = Sent(w, d, m)
  BY <1>2, RouteTyped, SentOnWire DEF Sent
<1>3. CASE v = Answered(w, d, t, m)
  BY <1>3, RouteTyped, Two, SentOnWire DEF Answered
<1> QED BY <1>1, <1>2, <1>3

\* A message that is taken was the first, and is gone.
LEMMA TakenWire ==
    ASSUME wire \in Wires, NEW d \in Devices, NEW t \in Transports, wire[d][t] # <<>>,
           NEW m, m = Head(wire[d][t])
    PROVE  /\ Taken(d, t) \in Wires
           /\ m \in Message /\ m \in InBox(wire, d)
           /\ \A e \in Devices : InBox(Taken(d, t), e) \subseteq InBox(wire, e)
           /\ OneOnWire(wire) => OneOnWire(Taken(d, t))
           /\ OneOnWire(wire) /\ Is(m, "finish") =>
                 \A e \in Devices : \A x \in InBox(Taken(d, t), e) : Is(x, "finish") => x.n # m.n
<1> DEFINE v == Taken(d, t)
<1>1. wire[d][t] \in Seq(Message)
  BY DEF Wires
<1>2. v = [wire EXCEPT ![d][t] = Tail(wire[d][t])]
  BY DEF Taken
<1>3. v \in Wires
  BY <1>1, <1>2 DEF Wires
<1>4. \A e \in Devices, r \in Transports :
         v[e][r] = IF e = d /\ r = t THEN Tail(wire[e][r]) ELSE wire[e][r]
  BY <1>2 DEF Wires
<1>5. \A e \in Devices, r \in Transports : \A i \in 1..Len(v[e][r]) :
         \/ e = d /\ r = t /\ i + 1 \in 1..Len(wire[e][r]) /\ v[e][r][i] = wire[e][r][i + 1]
         \/ ~(e = d /\ r = t) /\ i \in 1..Len(wire[e][r]) /\ v[e][r][i] = wire[e][r][i]
  <2> SUFFICES ASSUME NEW e \in Devices, NEW r \in Transports, NEW i \in 1..Len(v[e][r])
               PROVE  \/ /\ e = d /\ r = t /\ i + 1 \in 1..Len(wire[e][r])
                         /\ v[e][r][i] = wire[e][r][i + 1]
                      \/ ~(e = d /\ r = t) /\ i \in 1..Len(wire[e][r]) /\ v[e][r][i] = wire[e][r][i]
    OBVIOUS
  <2>1. CASE e = d /\ r = t
    <3>1. v[e][r] = Tail(wire[e][r])
      BY <1>4, <2>1
    <3> QED BY <1>1, <2>1, <3>1
  <2>2. CASE ~(e = d /\ r = t)
    BY <1>4, <2>2
  <2> QED BY <2>1, <2>2
<1>6. 1 \in 1..Len(wire[d][t]) /\ m = wire[d][t][1]
  BY <1>1
<1>7. \A e \in Devices, r \in Transports : Len(wire[e][r]) \in Nat
  BY DEF Wires
<1> HIDE DEF v
<1>8. m \in InBox(wire, d) /\ m \in Message
  BY <1>6, InBoxDef
<1>9. \A e \in Devices : InBox(v, e) \subseteq InBox(wire, e)
  <2> SUFFICES ASSUME NEW e \in Devices, NEW x \in InBox(v, e) PROVE x \in InBox(wire, e)
    OBVIOUS
  <2>1. PICK r \in Transports : \E i \in 1..Len(v[e][r]) : x = v[e][r][i]
    BY <1>3, InBoxDef
  <2>2. PICK i \in 1..Len(v[e][r]) : x = v[e][r][i]
    BY <2>1
  <2>3. \E k \in 1..Len(wire[e][r]) : x = wire[e][r][k]
    BY <1>5, <2>2
  <2> QED BY <2>3, InBoxDef
<1>10. ASSUME OneOnWire(wire) PROVE OneOnWire(v)
  <2> SUFFICES ASSUME NEW e \in Devices, NEW f \in Devices, NEW r \in Transports, NEW q \in Transports,
                      NEW i \in 1..Len(v[e][r]), NEW j \in 1..Len(v[f][q]),
                      Is(v[e][r][i], "finish"), Is(v[f][q][j], "finish"),
                      v[e][r][i].n = v[f][q][j].n
               PROVE  e = f /\ r = q /\ i = j
    BY DEF OneOnWire
  <2>1. PICK k \in 1..Len(wire[e][r]) : /\ v[e][r][i] = wire[e][r][k]
                                        /\ k = IF e = d /\ r = t THEN i + 1 ELSE i
    BY <1>5
  <2>2. PICK l \in 1..Len(wire[f][q]) : /\ v[f][q][j] = wire[f][q][l]
                                        /\ l = IF f = d /\ q = t THEN j + 1 ELSE j
    BY <1>5
  <2>0. /\ Is(wire[e][r][k], "finish") /\ Is(wire[f][q][l], "finish")
        /\ wire[e][r][k].n = wire[f][q][l].n
    BY <2>1, <2>2
  <2>3. e = f /\ r = q /\ k = l
    BY <1>10, <2>0 DEF OneOnWire
  <2> QED BY <2>1, <2>2, <2>3
<1>11. ASSUME OneOnWire(wire), Is(m, "finish")
       PROVE  \A e \in Devices : \A x \in InBox(v, e) : Is(x, "finish") => x.n # m.n
  <2> SUFFICES ASSUME NEW e \in Devices, NEW x \in InBox(v, e), Is(x, "finish"), x.n = m.n
               PROVE  FALSE
    OBVIOUS
  <2>1. PICK r \in Transports : \E i \in 1..Len(v[e][r]) : x = v[e][r][i]
    BY <1>3, InBoxDef
  <2>2. PICK i \in 1..Len(v[e][r]) : x = v[e][r][i]
    BY <2>1
  <2>3. PICK k \in 1..Len(wire[e][r]) : /\ x = wire[e][r][k]
                                        /\ k = IF e = d /\ r = t THEN i + 1 ELSE i
    BY <1>5, <2>2
  <2>4. e = d /\ r = t /\ k = 1
    BY <1>6, <1>11, <2>3 DEF OneOnWire
  <2> QED BY <2>3, <2>4
<1> QED BY <1>3, <1>8, <1>9, <1>10, <1>11 DEF v

\* What breaks loses messages and adds none.
LEMMA LostWire ==
    ASSUME wire \in Wires, NEW ts
    PROVE  /\ Lost(ts) \in Wires
           /\ \A e \in Devices : InBox(Lost(ts), e) \subseteq InBox(wire, e)
           /\ OneOnWire(wire) => OneOnWire(Lost(ts))
<1> DEFINE v == Lost(ts)
<1>1. \A e \in Devices, r \in Transports : v[e][r] = IF r \in ts THEN <<>> ELSE wire[e][r]
  BY DEF Lost
<1>2. v \in Wires
  BY DEF Lost, Wires
<1>3. \A e \in Devices, r \in Transports : \A i \in 1..Len(v[e][r]) :
         i \in 1..Len(wire[e][r]) /\ v[e][r][i] = wire[e][r][i]
  BY <1>1
<1> HIDE DEF v
<1>4. \A e \in Devices : InBox(v, e) \subseteq InBox(wire, e)
  <2> SUFFICES ASSUME NEW e \in Devices, NEW x \in InBox(v, e) PROVE x \in InBox(wire, e)
    OBVIOUS
  <2>1. PICK r \in Transports : \E i \in 1..Len(v[e][r]) : x = v[e][r][i]
    BY <1>2, InBoxDef
  <2>2. \E k \in 1..Len(wire[e][r]) : x = wire[e][r][k]
    BY <1>3, <2>1
  <2> QED BY <2>2, InBoxDef
<1>5. OneOnWire(wire) => OneOnWire(v)
  <2> SUFFICES ASSUME OneOnWire(wire),
                      NEW e \in Devices, NEW f \in Devices, NEW r \in Transports, NEW q \in Transports,
                      NEW i \in 1..Len(v[e][r]), NEW j \in 1..Len(v[f][q]),
                      Is(v[e][r][i], "finish"), Is(v[f][q][j], "finish"),
                      v[e][r][i].n = v[f][q][j].n
               PROVE  e = f /\ r = q /\ i = j
    BY DEF OneOnWire
  <2>1. /\ i \in 1..Len(wire[e][r]) /\ v[e][r][i] = wire[e][r][i]
        /\ j \in 1..Len(wire[f][q]) /\ v[f][q][j] = wire[f][q][j]
    BY <1>3
  <2>2. /\ Is(wire[e][r][i], "finish") /\ Is(wire[f][q][j], "finish")
        /\ wire[e][r][i].n = wire[f][q][j].n
    BY <2>1
  <2> QED BY <2>1, <2>2 DEF OneOnWire
<1> QED BY <1>2, <1>4, <1>5 DEF v

\* The fields of the messages of a transfer, and of the run's requests.
LEMMA MessageTypes ==
    ASSUME NEW m \in Message
    PROVE  /\ Is(m, "start") => /\ m \in [op : {"start"}, id : CallIds, session : SessionIds,
                                          kind : {"full", "delta"}, path : Paths, meta : Meta]
           /\ Is(m, "chunk") => m \in [op : {"chunk"}, session : SessionIds, write : Write]
           /\ Is(m, "finish") => m \in [op : {"finish"}, id : CallIds, session : SessionIds,
                                        n : Numbers, expect : Contents, size : Sizes]
           /\ Is(m, "abort") => m \in [op : {"abort"}, id : CallIds, session : SessionIds]
           /\ Is(m, "manifest") => m \in [op : {"manifest"}, id : CallIds]
           /\ Is(m, "signature") \/ Is(m, "delete") =>
                 m \in [op : {"signature", "delete"}, id : CallIds, path : Paths]
           /\ Is(m, "send") => m \in [op : {"send"}, id : CallIds, path : Paths,
                                      basis : Contents \cup {None}]
           /\ Is(m, "move") => m \in [op : {"move"}, id : CallIds, from : Paths, to : Paths,
                                      meta : Meta]
           /\ IsAnswer(m) /\ m.answer = "transfer" =>
                 m \in [answer : {"transfer"}, id : CallIds, ok : BOOLEAN, next : 0..2]
<1>1. CASE m \in [op : {"start"}, id : CallIds, session : SessionIds, kind : {"full", "delta"},
                  path : Paths, meta : Meta]
  BY <1>1 DEF Is, IsAnswer
<1>2. CASE m \in [op : {"chunk"}, session : SessionIds, write : Write]
  BY <1>2 DEF Is, IsAnswer
<1>3. CASE m \in [op : {"finish"}, id : CallIds, session : SessionIds, n : Numbers,
                  expect : Contents, size : Sizes]
  BY <1>3 DEF Is, IsAnswer
<1>4. CASE m \in [op : {"abort"}, id : CallIds, session : SessionIds]
  BY <1>4 DEF Is, IsAnswer
<1>5. CASE m \in [answer : {"transfer"}, id : CallIds, ok : BOOLEAN, next : 0..2]
  BY <1>5 DEF Is, IsAnswer
<1>6. CASE m \in [answer : {"send"}, id : CallIds, ok : BOOLEAN, sum : Contents \cup {None}]
  BY <1>6 DEF Is, IsAnswer
<1>7. CASE m \in [op : {"manifest"}, id : CallIds]
  BY <1>7 DEF Is, IsAnswer
<1>8. CASE m \in [op : {"signature", "delete"}, id : CallIds, path : Paths]
  BY <1>8 DEF Is, IsAnswer
<1>9. CASE m \in [op : {"send"}, id : CallIds, path : Paths, basis : Contents \cup {None}]
  BY <1>9 DEF Is, IsAnswer
<1>10. CASE m \in [op : {"move"}, id : CallIds, from : Paths, to : Paths, meta : Meta]
  BY <1>10 DEF Is, IsAnswer
<1>11. CASE m \in [answer : {"manifest"}, id : CallIds, ok : {TRUE}, listing : Listing]
  BY <1>11 DEF Is, IsAnswer
<1>12. CASE m \in [answer : {"signature"}, id : CallIds, ok : BOOLEAN, basis : Contents \cup {None}]
  BY <1>12 DEF Is, IsAnswer
<1>13. CASE m \in [answer : {"done"}, id : CallIds, ok : BOOLEAN]
  BY <1>13 DEF Is, IsAnswer
<1> QED BY <1>1, <1>2, <1>3, <1>4, <1>5, <1>6, <1>7, <1>8, <1>9, <1>10, <1>11, <1>12, <1>13
        DEF Message, TransferMessage, RemoteMessage

\* A session identifier is a number's or a delta's.
LEMMA Identifiers ==
    /\ \A n : <<n>> \notin DeltaIds
    /\ \A id \in SessionIds : id \in DeltaIds \/ \E n \in Numbers : id = <<n>>
    /\ \A a, b : <<a>> = <<b>> => a = b
<1>1. \A n : <<n>> \notin DeltaIds
  BY DEF DeltaIds
<1>2. \A id \in SessionIds : id \in DeltaIds \/ \E n \in Numbers : id = <<n>>
  BY DEF SessionIds, DeltaIds
<1> QED BY <1>1, <1>2

\* The items of a queue, and the numbers that are counted.
LEMMA QueueTypes ==
    ASSUME RemoteTypeOK, NEW s \in sessions
    PROVE  /\ s \in Session
           /\ \A i \in 1..Len(s.queue) :
                 /\ s.queue[i] \in Write \cup Finish
                 /\ IsFinish(s.queue[i]) => s.queue[i] \in Finish /\ ~IsChunk(s.queue[i])
                 /\ IsChunk(s.queue[i]) => s.queue[i] \in Write /\ ~IsFinish(s.queue[i])
           /\ s.queue # <<>> => Len(s.queue) > 0 /\ Head(s.queue) = s.queue[1]
           /\ Len(s.queue) \in Nat /\ Len(s.got) \in Nat
           /\ \A i \in 1..Len(s.got) : s.got[i] \in Write
<1>1. s \in Session
  BY DEF RemoteTypeOK, TransferTypeOK
<1>2. s.queue \in Seq(Write \cup Finish) /\ s.got \in Seq(Write)
  BY <1>1 DEF Session
<1>3. \A w \in Write \cup Finish : /\ IsFinish(w) => w \in Finish /\ ~IsChunk(w)
                                   /\ IsChunk(w) => w \in Write /\ ~IsFinish(w)
  <2>1. \A w \in Write : ~IsFinish(w)
    BY DEF Write, IsFinish
  <2>2. \A w \in Finish : ~IsChunk(w)
    BY DEF Finish, IsChunk
  <2> QED BY <2>1, <2>2
<1>4. \A i \in 1..Len(s.queue) : s.queue[i] \in Write \cup Finish
  BY <1>2
<1>5. s.queue # <<>> => Len(s.queue) > 0 /\ Head(s.queue) = s.queue[1]
  BY <1>2
<1>6. Len(s.queue) \in Nat /\ Len(s.got) \in Nat /\ \A i \in 1..Len(s.got) : s.got[i] \in Write
  BY <1>2
<1> QED BY <1>1, <1>3, <1>4, <1>5, <1>6

(*************************** what keeps a part *****************************)

\* Fewer uploads fit as well as before, and so do more offers.
LEMMA UploadsKept ==
    ASSUME UploadsFit, uploads' \subseteq uploads, offered \subseteq offered'
    PROVE  UploadsFit'
BY DEF UploadsFit, UploadFits, OfferOf, Chunks

\* Messages that open or fill no session.
LEMMA MessagesKept ==
    ASSUME MessagesFit, offered \subseteq offered',
           \A d \in Devices : \A m \in InBox(wire', d) :
               m \in InBox(wire, d) \/ (~Is(m, "start") /\ ~Is(m, "chunk"))
    PROVE  MessagesFit'
BY DEF MessagesFit, StartFits, ChunkFits

\* Sessions that go.
LEMMA SessionsKept ==
    ASSUME SessionsFit, offered \subseteq offered', sessions' \subseteq sessions
    PROVE  SessionsFit'
BY DEF SessionsFit, SessionFits

\* Nothing new under a number.
LEMMA NumbersKept ==
    ASSUME NumbersOwned, offered \subseteq offered', sessions' \subseteq sessions,
           \A u \in uploads' : \E v \in uploads : u.session = v.session /\ OfferOf(u) = OfferOf(v),
           \A d \in Devices : \A m \in InBox(wire', d) :
               m \in InBox(wire, d) \/ (~Is(m, "start") /\ ~Is(m, "chunk"))
    PROVE  NumbersOwned'
<1> SUFFICES ASSUME NEW n \in Numbers PROVE \E o \in Owners : Owns(n, o)'
  BY DEF NumbersOwned, Owners, Delivery!Offer, Delivery!Kinds
<1>1. PICK o \in Owners : Owns(n, o)
  BY DEF NumbersOwned
<1>2. Owns(n, o)'
  BY <1>1 DEF Owns
<1> QED BY <1>2

\* Uploads that go, sessions that go, and no new request of an upload.
LEMMA FinishesKept ==
    ASSUME FinishesFit, uploads' \subseteq uploads, sessions' \subseteq sessions,
           \A d \in Devices : \A m \in InBox(wire', d) :
               m \in InBox(wire, d) \/ (~Is(m, "start") /\ ~Is(m, "finish") /\ ~Is(m, "abort"))
    PROVE  FinishesFit'
BY DEF FinishesFit, FinishFits

\* No new finish.
LEMMA OneFinishKept ==
    ASSUME OneFinish, sessions' \subseteq sessions, OneOnWire(wire'),
           \A d \in Devices : \A m \in InBox(wire', d) : m \in InBox(wire, d) \/ ~Is(m, "finish")
    PROVE  OneFinish'
<1>1. OneOnWire(wire)'
  OBVIOUS
<1>2. OneQueued'
  BY DEF OneFinish, OneQueued
<1>3. \A n : NoneOnWire(n) => NoneOnWire(n)'
  BY DEF NoneOnWire
<1> QED BY <1>1, <1>2, <1>3 DEF OneFinish

\* No new word of success.
LEMMA OutcomesKept ==
    ASSUME OutcomesFit, uploads' \subseteq uploads, sessions' \subseteq sessions,
           \A d \in Devices : \A m \in InBox(wire', d) :
               m \in InBox(wire, d) \/ (~Is(m, "finish") /\ ~SaysOk(m))
    PROVE  OutcomesFit'
<1>1. \A n : NoneOnWire(n) => NoneOnWire(n)'
  BY DEF NoneOnWire
<1>2. \A n : NoneQueued(n) => NoneQueued(n)'
  BY DEF NoneQueued
<1> QED BY <1>1, <1>2 DEF OutcomesFit

\* A message that is no part of an upload, but may tell one of a failure.
Harmless(m) == /\ ~Is(m, "start") /\ ~Is(m, "chunk") /\ ~Is(m, "finish") /\ ~Is(m, "abort")
               /\ ~SaysOk(m)

\* Uploads and sessions that end, and other messages.
LEMMA QuietStep ==
    ASSUME TransferInv, uploads' \subseteq uploads, sessions' \subseteq sessions, offered' = offered,
           OneOnWire(wire'),
           \A d \in Devices : \A m \in InBox(wire', d) : m \in InBox(wire, d) \/ Harmless(m)
    PROVE  TransferInv'
<1>1. offered \subseteq offered'
  OBVIOUS
<1>2. \A u \in uploads' : \E v \in uploads : u.session = v.session /\ OfferOf(u) = OfferOf(v)
  OBVIOUS
<1>3. \A d \in Devices : \A m \in InBox(wire', d) : m \in InBox(wire, d) \/
         (~Is(m, "start") /\ ~Is(m, "chunk") /\ ~Is(m, "finish") /\ ~Is(m, "abort") /\ ~SaysOk(m))
  BY DEF Harmless
<1>4. UploadsFit'
  BY <1>1, UploadsKept DEF TransferInv
<1>5. MessagesFit'
  BY <1>1, <1>3, MessagesKept DEF TransferInv
<1>6. SessionsFit'
  BY <1>1, SessionsKept DEF TransferInv
<1>7. NumbersOwned'
  BY <1>1, <1>2, <1>3, NumbersKept DEF TransferInv
<1>8. FinishesFit'
  BY <1>3, FinishesKept DEF TransferInv
<1>9. OneFinish'
  BY <1>3, OneFinishKept DEF TransferInv
<1>10. OutcomesFit'
  BY <1>3, OutcomesKept DEF TransferInv
<1> QED BY <1>4, <1>5, <1>6, <1>7, <1>8, <1>9, <1>10 DEF TransferInv

\* Upload u goes on as v, which has finished no more than u, and sends nothing new but
\* what is looked at elsewhere.
LEMMA Advances ==
    ASSUME RemoteTypeOK, TransferInv, NEW u \in uploads, NEW v \in Upload,
           uploads' = (uploads \ {u}) \cup {v}, UploadFits(v),
           v.n = u.n, v.session = u.session, OfferOf(v) = OfferOf(u), v.put = u.put, v.at = u.at,
           u.stage \in {"finish", "abort"} => v.stage \in {"finish", "abort"} /\ v.expect = u.expect,
           v.stage = "finish" => v.call = 0 /\ u.stage \in {"start", "send"},
           sessions' = sessions, offered' = offered, wire' \in Wires, OneOnWire(wire'),
           \A d \in Devices : \A m \in InBox(wire', d) :
               m \in InBox(wire, d) \/ (~Is(m, "finish") /\ ~SaysOk(m))
    PROVE  /\ UploadsFit' /\ SessionsFit' /\ OneFinish' /\ OutcomesFit'
           /\ (\A d \in Devices : \A m \in InBox(wire', d) :
                   m \in InBox(wire, d) \/ (~Is(m, "start") /\ ~Is(m, "chunk")))
              => MessagesFit' /\ NumbersOwned'
           /\ (\A d \in Devices : \A m \in InBox(wire', d) :
                   m \in InBox(wire, d) \/ (~Is(m, "start") /\ ~Is(m, "abort")))
              => FinishesFit'
<1>1. UploadsFit'
  BY DEF TransferInv, UploadsFit, UploadFits
<1>2. SessionsFit'
  BY SessionsKept DEF TransferInv
<1>3. OneFinish'
  BY OneFinishKept DEF TransferInv
<1>4. \A d \in Devices : \A m \in InBox(wire', d) : m \in InBox(wire, d) => m \in Message
  BY InBoxDef DEF RemoteTypeOK, LinkTypeOK, Wires, Message
<1>5. \A d \in Devices : \A m \in InBox(wire, d) : m \in Message
  BY InBoxDef DEF RemoteTypeOK, LinkTypeOK, Wires, Message
<1>6. 0 \notin CallIds
  BY DEF CallIds
<1>7. \A d \in Devices : \A m \in InBox(wire, d) :
         Is(m, "start") \/ Is(m, "finish") \/ Is(m, "abort") \/ SaysOk(m) => m.id # 0
  BY <1>5, <1>6, MessageTypes DEF SaysOk
<1>8. \A s \in sessions : \A i \in 1..Len(s.queue) : IsFinish(s.queue[i]) => s.queue[i].id # 0
  BY <1>6, QueueTypes DEF Finish
<1>9. OutcomesFit'
  <2>1. \A n : (NoneOnWire(n) => NoneOnWire(n)') /\ (NoneQueued(n) => NoneQueued(n)')
    BY DEF NoneOnWire, NoneQueued
  <2>2. ASSUME NEW s \in sessions', s.applied = "ok", NEW x \in uploads', x.n = Head(s.queue).n
        PROVE  x.put = "whole"
    BY <2>2 DEF TransferInv, OutcomesFit
  <2>3. ASSUME NEW d \in Devices, NEW m \in InBox(wire', d), SaysOk(m),
               NEW x \in uploads', x.stage = "finish", x.call = m.id
        PROVE  x.put = "whole" /\ NoneOnWire(x.n)' /\ NoneQueued(x.n)'
    <3>1. m \in InBox(wire, d)
      BY <2>3
    <3>2. x # v
      BY <1>7, <2>3, <3>1
    <3> QED BY <2>1, <2>3, <3>1, <3>2 DEF TransferInv, OutcomesFit
  <2> QED BY <2>2, <2>3 DEF OutcomesFit
<1>10. ASSUME \A d \in Devices : \A m \in InBox(wire', d) :
                 m \in InBox(wire, d) \/ (~Is(m, "start") /\ ~Is(m, "chunk"))
       PROVE  MessagesFit' /\ NumbersOwned'
  <2>1. \A x \in uploads' : \E y \in uploads : x.session = y.session /\ OfferOf(x) = OfferOf(y)
    OBVIOUS
  <2> QED BY <1>10, <2>1, MessagesKept, NumbersKept DEF TransferInv
<1>11. ASSUME \A d \in Devices : \A m \in InBox(wire', d) :
                 m \in InBox(wire, d) \/ (~Is(m, "start") /\ ~Is(m, "abort"))
       PROVE  FinishesFit'
  <2>1. ASSUME NEW d, NEW z, NEW w, w.id # 0, FinishFits(d, z, w)
        PROVE  FinishFits(d, z, w)'
    <3>1. v.n = w.n => /\ v.stage \in {"finish", "abort"} /\ v.stage # "finish"
                       /\ v.expect = w.expect /\ Other(v.at) = d /\ v.session = z
      BY <2>1 DEF FinishFits
    <3>2. ~(v.stage = "finish" /\ v.call = w.id)
      BY <2>1
    <3> QED BY <2>1, <3>1, <3>2 DEF FinishFits
  <2>2. \A d \in Devices : \A m \in InBox(wire', d) : Is(m, "finish") => FinishFits(d, m.session, m)'
    BY <1>7, <2>1 DEF TransferInv, FinishesFit
  <2>3. \A s \in sessions' : \A i \in 1..Len(s.queue) :
           IsFinish(s.queue[i]) => FinishFits(s.at, s.id, s.queue[i])'
    BY <1>8, <2>1 DEF TransferInv, FinishesFit
  <2>4. ASSUME NEW d \in Devices, NEW m \in InBox(wire', d), Is(m, "start") \/ Is(m, "abort"),
               NEW x \in uploads', x.call = m.id
        PROVE  x.stage # "finish"
    <3>1. m \in InBox(wire, d)
      BY <1>11, <2>4
    <3> QED BY <1>7, <2>4, <3>1 DEF TransferInv, FinishesFit
  <2> QED BY <2>2, <2>3, <2>4 DEF FinishesFit
<1> QED BY <1>1, <1>2, <1>3, <1>9, <1>10, <1>11

(************************** fresh identifiers ******************************)

\* A set of numbers has a least one.
LEMMA LeastNumber ==
    ASSUME NEW S \in SUBSET Nat, S # {}
    PROVE  Min(S) \in S
<1>1. PICK x \in S : \A y \in S : ~ (<<y, x>> \in OpToRel(<, Nat))
  BY NatLessThanWellFounded, WFMin, Zenon
<1>2. \A y \in S : ~(y < x)
  BY <1>1 DEF OpToRel
<1>3. \A y \in S : x <= y
  BY <1>2
<1> QED BY <1>3 DEF Min

\* A request's new identifier: nothing on the way, queued or waiting bears it.
LEMMA FreshCall ==
    ASSUME RemoteTypeOK, NEW id \in FreshCalls
    PROVE  /\ id \in CallIds /\ id # 0 /\ asked # id
           /\ \A u \in uploads : u.call # id /\ (u.caller # <<>> => u.caller[1] # id)
           /\ \A d \in Devices : \A m \in InBox(wire, d) :
                 /\ "id" \in DOMAIN m => m.id # id
                 /\ Is(m, "start") \/ Is(m, "finish") \/ Is(m, "abort") \/ SaysOk(m) => m.id # id
           /\ \A s \in sessions : \A i \in 1..Len(s.queue) :
                 IsFinish(s.queue[i]) => s.queue[i].id # id
<1> DEFINE free == {c \in CallIds : /\ ~MayAnswer(c) /\ asked # c
                                    /\ \A u \in uploads : u.call # c}
<1>1. free # {} /\ id = Min(free)
  BY DEF FreshCalls
<1>2. free \in SUBSET Nat
  BY DEF CallIds
<1>3. id \in free
  BY <1>1, <1>2, LeastNumber
<1>4. id \in CallIds /\ asked # id /\ ~MayAnswer(id) /\ \A u \in uploads : u.call # id
  BY <1>3
<1>5. id # 0
  BY <1>4 DEF CallIds
<1>6. \A u \in uploads : u.caller # <<>> => u.caller[1] # id
  BY <1>4 DEF MayAnswer
<1>7. \A d \in Devices : \A m \in InBox(wire, d) : m \in OnWire /\ m \in Message
  <2>1. wire \in Wires
    BY DEF RemoteTypeOK, LinkTypeOK, Wires, Message
  <2>2. OnWire = UNION {InBox(wire, d) : d \in Devices}
    BY Zenon DEF OnWire, InBox
  <2> QED BY <2>1, <2>2, InBoxDef
<1>8. \A d \in Devices : \A m \in InBox(wire, d) : "id" \in DOMAIN m => m.id # id
  BY <1>4, <1>7 DEF MayAnswer
<1>9. ASSUME NEW d \in Devices, NEW m \in InBox(wire, d),
             Is(m, "start") \/ Is(m, "finish") \/ Is(m, "abort") \/ SaysOk(m)
      PROVE  m.id # id
  <2>1. "id" \in DOMAIN m
    BY <1>7, <1>9, MessageTypes DEF SaysOk
  <2> QED BY <1>8, <2>1
<1>10. ASSUME NEW s \in sessions, NEW i \in 1..Len(s.queue), IsFinish(s.queue[i])
       PROVE  s.queue[i].id # id
  <2>1. s.queue \in Seq(Write \cup Finish)
    BY DEF RemoteTypeOK, TransferTypeOK, Session
  <2>2. s.queue[i] \in ToSet(s.queue)
    BY <2>1 DEF ToSet
  <2>3. s.queue[i] \in Finishes
    BY <1>10, <2>2 DEF Finishes, Items, IsFinish
  <2> QED BY <1>4, <2>3 DEF MayAnswer
<1> QED BY <1>4, <1>5, <1>6, <1>8, <1>9, <1>10

\* The same for an upload's number.
LEMMA FreshNumber ==
    ASSUME RemoteTypeOK, NEW n \in FreshNumbers
    PROVE  /\ n \in Numbers
           /\ \A u \in uploads : u.n # n
           /\ \A s \in sessions : s.id # <<n>>
           /\ \A d \in Devices : \A m \in InBox(wire, d) :
                 /\ Is(m, "start") \/ Is(m, "chunk") \/ Is(m, "finish") => m.session # <<n>>
                 /\ Is(m, "finish") => m.n # n
           /\ \A s \in sessions : \A i \in 1..Len(s.queue) :
                 IsFinish(s.queue[i]) => s.queue[i].n # n
<1> DEFINE free == {k \in Numbers : /\ \A u \in uploads : u.n # k
                                    /\ \A s \in sessions : s.id # <<k>>
                                    /\ \A w \in Finishes : w.n # k
                                    /\ \A m \in OnWire :
                                           /\ "session" \in DOMAIN m => m.session # <<k>>
                                           /\ "n" \in DOMAIN m => m.n # k}
<1>1. free # {} /\ n = Min(free)
  BY DEF FreshNumbers
<1>2. free \in SUBSET Nat
  BY DEF Numbers
<1>3. n \in free
  BY <1>1, <1>2, LeastNumber
<1>4. /\ n \in Numbers
      /\ \A u \in uploads : u.n # n
      /\ \A s \in sessions : s.id # <<n>>
      /\ \A w \in Finishes : w.n # n
      /\ \A m \in OnWire : /\ "session" \in DOMAIN m => m.session # <<n>>
                           /\ "n" \in DOMAIN m => m.n # n
  BY <1>3
<1>5. \A d \in Devices : \A m \in InBox(wire, d) : m \in OnWire /\ m \in Message
  <2>1. wire \in Wires
    BY DEF RemoteTypeOK, LinkTypeOK, Wires, Message
  <2>2. OnWire = UNION {InBox(wire, d) : d \in Devices}
    BY Zenon DEF OnWire, InBox
  <2> QED BY <2>1, <2>2, InBoxDef
<1>6. ASSUME NEW d \in Devices, NEW m \in InBox(wire, d)
      PROVE  /\ Is(m, "start") \/ Is(m, "chunk") \/ Is(m, "finish") => m.session # <<n>>
             /\ Is(m, "finish") => m.n # n
  <2>1. m \in OnWire /\ m \in Message
    BY <1>5
  <2>2. Is(m, "start") \/ Is(m, "chunk") \/ Is(m, "finish") => "session" \in DOMAIN m
    BY <2>1, MessageTypes
  <2>3. Is(m, "finish") => "n" \in DOMAIN m
    BY <2>1, MessageTypes
  <2> QED BY <1>4, <2>1, <2>2, <2>3
<1>7. ASSUME NEW s \in sessions, NEW i \in 1..Len(s.queue), IsFinish(s.queue[i])
      PROVE  s.queue[i].n # n
  <2>1. s.queue \in Seq(Write \cup Finish)
    BY DEF RemoteTypeOK, TransferTypeOK, Session
  <2>2. s.queue[i] \in ToSet(s.queue)
    BY <2>1 DEF ToSet
  <2>3. s.queue[i] \in Finishes
    BY <1>7, <2>2 DEF Finishes, Items, IsFinish
  <2> QED BY <1>4, <2>3
<1> QED BY <1>4, <1>6, <1>7

(************************ the run while files are sent *********************)

\* What changes while a file is sent is of its type.
TransferTyped ==
    /\ fs \in [Devices -> [Paths -> Entry \cup {None}]]
    /\ uploads \subseteq Upload /\ sessions \subseteq Session
    /\ told \in [ok : BOOLEAN, put : {"no", "whole", "damaged"}]
    /\ wire \in Wires /\ heard \in Heard \cup {None}
    /\ aborted \in BOOLEAN /\ asked \in 0..MaxCalls

Local == TransferTyped /\ TransferInv /\ RunFits /\ CallersFit /\ AnswersFit

\* A transfer leaves the run where it is.
Frame == UNCHANGED <<NoLink, job, cache, stored, runVars, asked, aborted>>

\* The types of the whole include these.
LEMMA TypedParts == RemoteTypeOK => TransferTyped
BY DEF RemoteTypeOK, TransferTypeOK, TransferTyped, LinkTypeOK, Wires, Message

\* A queued finish has an identifier, and it is not that of the run's request.
LEMMA QueueIdTyped ==
    ASSUME Local
    PROVE  \A s \in sessions : \A i \in 1..Len(s.queue) : IsFinish(s.queue[i]) =>
              s.queue[i].id \in CallIds /\ s.queue[i].id # 0 /\ s.queue[i].id # asked
<1> SUFFICES ASSUME NEW s \in sessions, NEW i \in 1..Len(s.queue), IsFinish(s.queue[i])
             PROVE  s.queue[i].id \in CallIds /\ s.queue[i].id # 0 /\ s.queue[i].id # asked
  OBVIOUS
<1>1. s.queue \in Seq(Write \cup Finish)
  BY DEF Local, TransferTyped, Session
<1>2. s.queue[i] \in Write \cup Finish
  BY <1>1
<1>3. s.queue[i] \in Finish
  BY <1>2 DEF Write, IsFinish
<1>4. s.queue[i].id \in CallIds /\ s.queue[i].id # 0
  BY <1>3 DEF Finish, CallIds
<1> QED BY <1>4 DEF Local, AnswersFit

\* No request or answer is taken for another, as long as the new ones bear other names.
LEMMA RunKept ==
    ASSUME Local, Frame, heard' = heard,
           \/ uploads' \subseteq uploads
           \/ \E u \in uploads : \E v : /\ uploads' = (uploads \ {u}) \cup {v}
                                        /\ v.caller = u.caller /\ v.at = u.at,
           \A d \in Devices : \A m \in InBox(wire', d) :
               \/ m \in InBox(wire, d)
               \/ "id" \in DOMAIN m =>
                     (m.id # asked \/ (IsAnswer(m) /\ m.answer = "send" /\ Wanted = "send")),
           \A s \in sessions' : \A i \in 1..Len(s.queue) :
               IsFinish(s.queue[i]) => s.queue[i].id # asked
    PROVE  RunFits' /\ CallersFit' /\ AnswersFit'
<1>1. RunFits'
  BY DEF Local, Frame, RunFits, Wanted, runVars
<1>2. CallersFit'
  BY DEF Local, Frame, CallersFit, runVars
<1>3. Wanted' = Wanted
  BY DEF Wanted, Frame, runVars
<1>4. ASSUME asked # 0, NEW d \in Devices, NEW m \in InBox(wire', d), "id" \in DOMAIN m, m.id = asked
      PROVE  Wanted = IF IsAnswer(m) THEN m.answer ELSE AnswerTo(m.op)
  BY <1>4 DEF Local, AnswersFit
<1>5. ASSUME asked # 0, NEW u \in uploads', u.caller # <<>>, u.caller[1] = asked
      PROVE  Wanted = "send"
  BY <1>5 DEF Local, AnswersFit
<1>6. asked' = asked
  BY DEF Frame
<1> QED BY <1>1, <1>2, <1>3, <1>4, <1>5, <1>6 DEF AnswersFit

(****************************** the sender *********************************)

\* What an upload came to is a message, or something the run may hear.
LEMMA OutcomeTyped ==
    ASSUME NEW ok \in BOOLEAN, NEW sum \in Contents
    PROVE  /\ \A id \in CallIds : [answer |-> "send", id |-> id, ok |-> ok, sum |-> sum] \in Message
           /\ [answer |-> "upload", ok |-> ok, sum |-> sum] \in Heard
BY DEF Message, TransferMessage, Heard

\* An upload that ends.
LEMMA EndedKeeps ==
    ASSUME Local, Frame, UNCHANGED <<fs, sessions, offered>>, NEW u \in uploads, NEW ok \in BOOLEAN,
           NEW w \in Wires, OneOnWire(w), \A e \in Devices : InBox(w, e) \subseteq InBox(wire, e),
           Ended(u, ok, w)
    PROVE  Local'
<1>0. u \in Upload
  BY DEF Local, TransferTyped
<1>1. uploads' \subseteq uploads /\ told' \in [ok : BOOLEAN, put : {"no", "whole", "damaged"}]
  BY <1>0 DEF Ended, Upload
<1>2. CASE u.caller = <<>>
  <2>1. heard' = [answer |-> "upload", ok |-> ok, sum |-> u.expect] /\ wire' = w
    BY <1>2 DEF Ended
  <2>2. heard' \in Heard /\ heard'.answer = "upload"
    BY <1>0, <2>1, OutcomeTyped DEF Upload
  <2>3. TransferTyped'
    BY <1>1, <2>1, <2>2 DEF Local, TransferTyped, Frame
  <2>4. TransferInv'
    BY <1>1, <2>1, QuietStep DEF Local
  <2>5. cur # None /\ cur.action = "copy-to-dst" /\ cur.step = "transfer"
    BY <1>2 DEF Local, CallersFit
  <2>6. asked = 0 /\ phase # "manifest" /\ Wanted = "upload"
    BY <2>5 DEF Local, RunFits, Wanted
  <2>7. Wanted' = Wanted
    BY DEF Wanted, Frame, runVars
  <2>8. RunFits'
    <3>1. heard' # None => phase' = "manifest" \/ cur' # None
      BY <2>5 DEF Frame, runVars
    <3>2. asked' = 0
      BY <2>6 DEF Frame
    <3>3. heard' # None => heard'.answer \in {Wanted', "none"}
      BY <2>2, <2>6, <2>7
    <3>4. RunFits
      BY DEF Local
    <3>5. UNCHANGED <<phase, cur, stored, walked, todo, job>>
      BY DEF Frame, runVars
    <3> QED BY <3>1, <3>2, <3>3, <3>4, <3>5 DEF RunFits
  <2>9. CallersFit'
    BY <1>2, <2>5 DEF Local, CallersFit, Frame, runVars, Ended
  <2>10. AnswersFit'
    BY <2>6 DEF AnswersFit, Frame
  <2> QED BY <2>3, <2>4, <2>8, <2>9, <2>10 DEF Local
<1>3. CASE u.caller # <<>>
  <2> DEFINE m == [answer |-> "send", id |-> u.caller[1], ok |-> ok, sum |-> u.expect]
  <2>1. heard' = heard /\ wire' = Answered(w, u.at, u.caller[2], m)
    BY <1>3 DEF Ended
  <2>2. u.at \in Devices /\ u.caller[1] \in CallIds /\ u.caller[2] \in Transports
    BY <1>0, <1>3 DEF Upload, Callers
  <2>3. m \in Message
    BY <1>0, <2>2, OutcomeTyped DEF Upload
  <2>4. Harmless(m) /\ IsAnswer(m) /\ m.answer = "send" /\ m.id = u.caller[1]
    BY DEF Harmless, Is, IsAnswer, SaysOk
  <2> HIDE DEF m
  <2>5. wire' \in Wires /\ Carries(wire', w, Other(u.at), m) /\ OneOnWire(wire')
    BY <2>1, <2>2, <2>3, <2>4, SentWire DEF Harmless
  <2>6. \A d \in Devices : \A x \in InBox(wire', d) : x \in InBox(wire, d) \/ x = m
    BY <2>5 DEF Carries
  <2>7. TransferTyped'
    BY <1>1, <2>1, <2>5 DEF Local, TransferTyped, Frame
  <2>8. TransferInv'
    BY <1>1, <2>4, <2>5, <2>6, QuietStep DEF Local
  <2>9. m.id = asked => Wanted = "send"
    <3>1. AnswersFit
      BY DEF Local
    <3>2. u.caller[1] # 0
      BY <2>2 DEF CallIds
    <3> QED BY <1>3, <2>4, <3>1, <3>2 DEF AnswersFit
  <2>10. \A s \in sessions' : \A i \in 1..Len(s.queue) :
              IsFinish(s.queue[i]) => s.queue[i].id # asked
    BY QueueIdTyped DEF Local, AnswersFit
  <2>11. RunFits' /\ CallersFit' /\ AnswersFit'
    BY <1>1, <2>1, <2>4, <2>6, <2>9, <2>10, RunKept
  <2> QED BY <2>7, <2>8, <2>11 DEF Local
<1> QED BY <1>2, <1>3

\* An upload that fails ends, or gives its session up.
LEMMA FailedKeeps ==
    ASSUME RemoteTypeOK, Local, Frame, UNCHANGED <<fs, sessions, offered>>, NEW u \in uploads,
           NEW w \in Wires, OneOnWire(w), \A e \in Devices : InBox(w, e) \subseteq InBox(wire, e),
           Failed(u, w)
    PROVE  Local'
<1>1. CASE u.stage \in {"send", "finish"}
  <2> DEFINE v == [u EXCEPT !.stage = "abort", !.call = 0]
  <2>0. u \in Upload /\ UploadFits(u)
    BY DEF Local, TransferTyped, TransferInv, UploadsFit
  <2>1. uploads' = (uploads \ {u}) \cup {v} /\ wire' = w /\ UNCHANGED <<heard, told>>
    BY <1>1 DEF Failed, Became
  <2>2. v \in Upload
    <3>1. 0 \in 0..MaxCalls
      BY TransferAssumption
    <3> QED BY <2>0, <3>1 DEF Upload
  <2>3. /\ v.n = u.n /\ v.session = u.session /\ OfferOf(v) = OfferOf(u) /\ v.put = u.put
        /\ v.at = u.at /\ v.caller = u.caller /\ v.expect = u.expect /\ v.stage = "abort"
    BY <2>0 DEF Upload, OfferOf
  <2>4. UploadFits(v)
    BY <2>0 DEF UploadFits, Upload, OfferOf
  <2> HIDE DEF v
  <2>5. TransferInv'
    <3>1. UploadsFit' /\ SessionsFit' /\ OneFinish' /\ OutcomesFit' /\ MessagesFit' /\ NumbersOwned'
          /\ FinishesFit'
      BY <2>1, <2>2, <2>3, <2>4, Advances DEF Local
    <3> QED BY <3>1 DEF TransferInv
  <2>6. TransferTyped'
    BY <2>1, <2>2 DEF Local, TransferTyped, Frame
  <2>7. \A s \in sessions' : \A i \in 1..Len(s.queue) :
              IsFinish(s.queue[i]) => s.queue[i].id # asked
    BY QueueIdTyped DEF Local, AnswersFit
  <2>8. RunFits' /\ CallersFit' /\ AnswersFit'
    BY <2>1, <2>3, <2>7, RunKept
  <2> QED BY <2>5, <2>6, <2>8 DEF Local
<1>2. CASE u.stage \notin {"send", "finish"}
  BY <1>2, EndedKeeps DEF Failed
<1> QED BY <1>1, <1>2

\* An upload that times out.
LEMMA TimesOutKeeps ==
    ASSUME RemoteTypeOK, Local, Frame, NEW u \in uploads, TimesOut(u)
    PROVE  Local'
BY FailedKeeps DEF TimesOut, Local, TransferTyped, TransferInv, OneFinish

\* The source of a delta is read again.
LEMMA HashKeeps ==
    ASSUME RemoteTypeOK, Local, Frame, NEW u \in uploads, Hash(u)
    PROVE  Local'
<1> DEFINE e == fs[u.at][u.path]
           v == [u EXCEPT !.expect = e.data, !.size = e.size, !.stage = "start"]
<1>0. u \in Upload /\ UploadFits(u) /\ u.stage = "hash" /\ wire \in Wires /\ OneOnWire(wire)
  BY DEF Local, TransferTyped, TransferInv, UploadsFit, Hash, OneFinish
<1>1. CASE e = None
  BY <1>0, <1>1, EndedKeeps DEF Hash
<1>2. CASE e # None
  <2>0. e \in Entry
    BY <1>0, <1>2 DEF Local, TransferTyped, Upload
  <2>1. uploads' = (uploads \ {u}) \cup {v} /\ UNCHANGED <<wire, heard, told, fs, sessions, offered>>
    BY <1>2 DEF Hash, Became
  <2>2. v \in Upload
    BY <1>0, <2>0 DEF Upload, Entry
  <2>3. /\ v.n = u.n /\ v.session = u.session /\ OfferOf(v) = OfferOf(u) /\ v.put = u.put
        /\ v.at = u.at /\ v.caller = u.caller /\ v.stage = "start" /\ u.kind = "delta"
    BY <1>0 DEF Upload, OfferOf, UploadFits
  <2>4. UploadFits(v)
    BY <1>0, <2>3 DEF UploadFits, Upload, OfferOf
  <2> HIDE DEF v
  <2>5. TransferInv'
    <3>1. UploadsFit' /\ SessionsFit' /\ OneFinish' /\ OutcomesFit' /\ MessagesFit' /\ NumbersOwned'
          /\ FinishesFit'
      BY <1>0, <2>1, <2>2, <2>3, <2>4, Advances DEF Local
    <3> QED BY <3>1 DEF TransferInv
  <2>6. TransferTyped'
    BY <2>1, <2>2 DEF Local, TransferTyped, Frame
  <2>7. \A s \in sessions' : \A i \in 1..Len(s.queue) :
              IsFinish(s.queue[i]) => s.queue[i].id # asked
    BY <2>1, QueueIdTyped DEF Local, AnswersFit
  <2>8. RunFits' /\ CallersFit' /\ AnswersFit'
    BY <2>1, <2>3, <2>7, RunKept
  <2> QED BY <2>5, <2>6, <2>8 DEF Local
<1> QED BY <1>1, <1>2

\* The requests of an upload's stages.
LEMMA RequestForms ==
    ASSUME NEW u \in Upload, NEW id \in CallIds, u.stage \in {"start", "finish", "abort"}
    PROVE  /\ StageRequest(u, id) \in Message
           /\ \A op \in {"start", "chunk", "finish", "abort"} :
                 Is(StageRequest(u, id), op) <=> u.stage = op
           /\ ~IsAnswer(StageRequest(u, id)) /\ ~SaysOk(StageRequest(u, id))
           /\ StageRequest(u, id).id = id /\ StageRequest(u, id).session = u.session
           /\ u.stage = "start" => StageRequest(u, id).kind = u.kind /\ StageRequest(u, id).path = u.path
           /\ u.stage = "finish" => StageRequest(u, id).n = u.n /\ StageRequest(u, id).expect = u.expect
<1>1. CASE u.stage = "start"
  <2>1. StageRequest(u, id) = [op |-> "start", id |-> id, session |-> u.session,
                               kind |-> u.kind, path |-> u.path, meta |-> u.meta]
    BY <1>1 DEF StageRequest
  <2> QED BY <1>1, <2>1 DEF Is, IsAnswer, SaysOk, Message, TransferMessage, Upload
<1>2. CASE u.stage = "finish"
  <2>1. StageRequest(u, id) = [op |-> "finish", id |-> id, session |-> u.session, n |-> u.n,
                               expect |-> u.expect, size |-> u.size]
    BY <1>2 DEF StageRequest
  <2> QED BY <1>2, <2>1 DEF Is, IsAnswer, SaysOk, Message, TransferMessage, Upload
<1>3. CASE u.stage = "abort"
  <2>1. StageRequest(u, id) = [op |-> "abort", id |-> id, session |-> u.session]
    BY <1>3 DEF StageRequest
  <2> QED BY <1>3, <2>1 DEF Is, IsAnswer, SaysOk, Message, TransferMessage, Upload
<1> QED BY <1>1, <1>2, <1>3

\* An upload asks for a session, or gives one up.
LEMMA OpensOrAborts ==
    ASSUME RemoteTypeOK, Local, NEW u \in uploads, NEW id \in FreshCalls, NEW v, NEW m \in Message,
           u.stage \in {"start", "abort"}, u.call = 0,
           v = [u EXCEPT !.call = id], m = StageRequest(u, id),
           uploads' = (uploads \ {u}) \cup {v}, v \in Upload,
           sessions' = sessions, offered' = offered,
           wire' \in Wires, OneOnWire(wire'), Carries(wire', wire, Other(u.at), m)
    PROVE  TransferInv'
<1>0. u \in Upload /\ UploadFits(u) /\ id \in CallIds /\ u.n \in Numbers
  BY FreshCall DEF Local, TransferTyped, TransferInv, UploadsFit, Upload
<1>1. /\ v.n = u.n /\ v.session = u.session /\ OfferOf(v) = OfferOf(u) /\ v.put = u.put
      /\ v.at = u.at /\ v.stage = u.stage /\ v.expect = u.expect /\ v.call = id
  BY <1>0 DEF Upload, OfferOf
<1>2. UploadFits(v)
  BY <1>0 DEF UploadFits, Upload, OfferOf
<1>3. /\ ~Is(m, "finish") /\ ~Is(m, "chunk") /\ ~SaysOk(m) /\ m.id = id /\ m.session = u.session
      /\ Is(m, "start") => u.stage = "start" /\ m.kind = u.kind /\ m.path = u.path
  BY <1>0, RequestForms
<1>4. \A d \in Devices : \A x \in InBox(wire', d) :
         x \in InBox(wire, d) \/ (d = Other(u.at) /\ x = m)
  BY DEF Carries
<1>5. UploadsFit' /\ SessionsFit' /\ OneFinish' /\ OutcomesFit'
  <2>1. v.stage # "finish"
    BY <1>1
  <2> QED BY <1>1, <1>2, <1>3, <1>4, <2>1, Advances DEF Local
<1>6. MessagesFit'
  <2>1. Is(m, "start") => StartFits(m)
    BY <1>0, <1>3 DEF UploadFits, StartFits
  <2>2. \A d \in Devices : \A x \in InBox(wire', d) :
            /\ Is(x, "start") => StartFits(x)
            /\ Is(x, "chunk") => ChunkFits(d, x)
    BY <1>3, <1>4, <2>1 DEF Local, TransferInv, MessagesFit
  <2> QED BY <2>2 DEF MessagesFit, StartFits, ChunkFits
<1>7. NumbersOwned'
  <2> SUFFICES ASSUME NEW n \in Numbers PROVE \E o \in Owners : Owns(n, o)'
    BY DEF NumbersOwned, Owners, Delivery!Offer, Delivery!Kinds
  <2>1. PICK o \in Owners : Owns(n, o)
    BY DEF Local, TransferInv, NumbersOwned
  <2>2. Is(m, "start") /\ m.session = <<n>>
            => o \in offered /\ o.kind = "full" /\ o.to = Other(u.at) /\ o.path = m.path
    <3> SUFFICES ASSUME Is(m, "start"), m.session = <<n>>
                 PROVE  o \in offered /\ o.kind = "full" /\ o.to = Other(u.at) /\ o.path = m.path
      OBVIOUS
    <3>1. u.session = <<n>> /\ m.path = u.path
      BY <1>3
    <3>2. o = OfferOf(u) /\ o \in offered
      BY <1>0, <2>1, <3>1 DEF Owns, UploadFits
    <3>3. u.kind = "full"
      BY <1>0, <3>1, Identifiers DEF UploadFits, Upload
    <3> QED BY <3>1, <3>2, <3>3 DEF OfferOf
  <2>3. \A x \in uploads' : x.session = <<n>> => OfferOf(x) = o
    BY <1>1, <2>1 DEF Owns
  <2>4. \A d \in Devices : \A x \in InBox(wire', d) :
          /\ Is(x, "start") /\ x.session = <<n>>
                => o \in offered /\ o.kind = "full" /\ o.to = d /\ o.path = x.path
          /\ Is(x, "chunk") /\ x.session = <<n>> => o.data = x.write.chunk.data
    BY <1>3, <1>4, <2>1, <2>2 DEF Owns
  <2>5. \A s \in sessions' : s.id = <<n>> =>
          /\ o \in offered /\ o.kind = "full" /\ o.to = s.at /\ o.path = s.path
          /\ \A z \in Contents : Holds(s, z) => o.data = z
    BY <2>1 DEF Owns
  <2>6. o \in offered' <=> o \in offered
    OBVIOUS
  <2>7. Owns(n, o)'
    BY Zenon, <2>3, <2>4, <2>5, <2>6 DEF Owns
  <2> QED BY <2>7
<1>8. FinishesFit'
  <2>1. ASSUME NEW d, NEW z, NEW w, FinishFits(d, z, w)
        PROVE  FinishFits(d, z, w)'
    <3>1. v.n = w.n => /\ v.stage \in {"finish", "abort"} /\ v.stage # "finish"
                       /\ v.expect = w.expect /\ Other(v.at) = d /\ v.session = z
      BY <1>1, <2>1 DEF FinishFits
    <3>2. v.stage # "finish"
      BY <1>1
    <3> QED BY <2>1, <3>1, <3>2 DEF FinishFits
  <2>2. \A d \in Devices : \A x \in InBox(wire', d) : Is(x, "finish") => FinishFits(d, x.session, x)'
    BY <1>3, <1>4, <2>1 DEF Local, TransferInv, FinishesFit
  <2>3. \A s \in sessions' : \A i \in 1..Len(s.queue) :
           IsFinish(s.queue[i]) => FinishFits(s.at, s.id, s.queue[i])'
    BY <2>1 DEF Local, TransferInv, FinishesFit
  <2>4. ASSUME NEW d \in Devices, NEW x \in InBox(wire', d), Is(x, "start") \/ Is(x, "abort"),
               NEW y \in uploads', y.call = x.id
        PROVE  y.stage # "finish"
    <3>1. CASE x \in InBox(wire, d)
      BY <1>1, <2>4, <3>1, FreshCall DEF Local, TransferInv, FinishesFit
    <3>2. CASE x = m
      BY <1>1, <1>3, <2>4, <3>2, FreshCall
    <3> QED BY <1>4, <3>1, <3>2
  <2> QED BY <2>2, <2>3, <2>4 DEF FinishesFit
<1> QED BY <1>5, <1>6, <1>7, <1>8 DEF TransferInv

\* An upload asks for its session to be put in place.
LEMMA AsksToFinish ==
    ASSUME RemoteTypeOK, Local, NEW u \in uploads, NEW id \in FreshCalls, NEW v, NEW m \in Message,
           u.stage = "finish", u.call = 0,
           v = [u EXCEPT !.call = id], m = StageRequest(u, id),
           uploads' = (uploads \ {u}) \cup {v}, v \in Upload,
           sessions' = sessions, offered' = offered,
           wire' = Sent(wire, u.at, m)
    PROVE  TransferInv'
<1>0. u \in Upload /\ UploadFits(u) /\ id \in CallIds /\ id # 0 /\ u.n \in Numbers /\ u.at \in Devices
  BY FreshCall DEF Local, TransferTyped, TransferInv, UploadsFit, Upload
<1>1. /\ v.n = u.n /\ v.session = u.session /\ OfferOf(v) = OfferOf(u) /\ v.put = u.put
      /\ v.at = u.at /\ v.stage = "finish" /\ v.expect = u.expect /\ v.call = id
  BY <1>0 DEF Upload, OfferOf
<1>2. UploadFits(v)
  BY <1>0 DEF UploadFits, Upload, OfferOf, Chunks
<1>3. /\ Is(m, "finish") /\ ~Is(m, "start") /\ ~Is(m, "chunk") /\ ~Is(m, "abort") /\ ~SaysOk(m)
      /\ m.id = id /\ m.session = u.session /\ m.n = u.n /\ m.expect = u.expect
  BY <1>0, RequestForms
<1>4. NoneOnWire(u.n) /\ NoneQueued(u.n)
  BY DEF Local, TransferInv, FinishesFit, FinishFits, NoneOnWire, NoneQueued
<1>5. wire \in Wires /\ OneOnWire(wire)
  BY DEF Local, TransferTyped, TransferInv, OneFinish
<1>6. wire' \in Wires /\ Carries(wire', wire, Other(u.at), m) /\ OneOnWire(wire')
  <2>1. \A e \in Devices : \A x \in InBox(wire, e) : Is(x, "finish") => x.n # m.n
    BY <1>3, <1>4 DEF NoneOnWire
  <2> QED BY <1>0, <1>5, <2>1, SentWire, RouteTyped
<1>7. \A d \in Devices : \A x \in InBox(wire', d) :
         x \in InBox(wire, d) \/ (d = Other(u.at) /\ x = m)
  BY <1>6 DEF Carries
<1>8. UploadsFit'
  <2>1. \A x : UploadFits(x) => UploadFits(x)'
    BY DEF UploadFits
  <2>2. /\ \A x \in uploads : UploadFits(x)
        /\ \A x, y \in uploads : x.n = y.n => x = y
    BY DEF Local, TransferInv, UploadsFit
  <2>3. \A x \in uploads' : UploadFits(x)'
    BY <1>2, <2>1, <2>2
  <2>4. ASSUME NEW x \in uploads', NEW y \in uploads', x.n = y.n PROVE x = y
    <3>1. \A z \in uploads \ {u} : z.n # v.n
      BY <1>1, <2>2
    <3>2. CASE x = v
      BY <2>4, <3>1, <3>2
    <3>3. CASE y = v
      BY <2>4, <3>1, <3>3
    <3>4. CASE x # v /\ y # v
      BY <2>2, <2>4, <3>4
    <3> QED BY <3>2, <3>3, <3>4
  <2> QED BY <2>3, <2>4 DEF UploadsFit
<1>9. MessagesFit' /\ SessionsFit'
  BY <1>3, <1>7, MessagesKept, SessionsKept DEF Local, TransferInv
<1>10. NumbersOwned'
  <2>1. \A x \in uploads' : \E y \in uploads : x.session = y.session /\ OfferOf(x) = OfferOf(y)
    BY <1>1
  <2> QED BY <1>3, <1>7, <2>1, NumbersKept DEF Local, TransferInv
<1>11. \A x \in uploads' : x.n = u.n => x = v
  <2>1. \A x \in uploads : x.n = u.n => x = u
    BY DEF Local, TransferInv, UploadsFit
  <2> QED BY <1>1, <2>1
<1>12. FinishesFit'
  <2>1. ASSUME NEW d, NEW z, NEW w, FinishFits(d, z, w), w.n # u.n, w.id # id
        PROVE  FinishFits(d, z, w)'
    BY <1>1, <2>1 DEF FinishFits
  <2>2. FinishFits(Other(u.at), m.session, m)'
    BY <1>0, <1>1, <1>3, <1>11, FreshCall DEF FinishFits
  <2>3. ASSUME NEW d \in Devices, NEW x \in InBox(wire', d), Is(x, "finish")
        PROVE  FinishFits(d, x.session, x)'
    <3>1. CASE x \in InBox(wire, d)
      <4>1. FinishFits(d, x.session, x) /\ x.n # u.n /\ x.id # id
        BY <1>4, <2>3, <3>1, FreshCall DEF Local, TransferInv, FinishesFit, NoneOnWire
      <4> QED BY <2>1, <4>1
    <3> QED BY <1>7, <2>2, <3>1
  <2>4. ASSUME NEW s \in sessions', NEW i \in 1..Len(s.queue), IsFinish(s.queue[i])
        PROVE  FinishFits(s.at, s.id, s.queue[i])'
    <3>1. FinishFits(s.at, s.id, s.queue[i]) /\ s.queue[i].n # u.n /\ s.queue[i].id # id
      BY <1>4, <2>4, FreshCall DEF Local, TransferInv, FinishesFit, NoneQueued
    <3> QED BY <2>1, <3>1
  <2>5. ASSUME NEW d \in Devices, NEW x \in InBox(wire', d), Is(x, "start") \/ Is(x, "abort"),
               NEW y \in uploads', y.call = x.id
        PROVE  y.stage # "finish"
    <3>1. x \in InBox(wire, d)
      BY <1>3, <1>7, <2>5
    <3>2. x.id # id
      BY <2>5, <3>1, FreshCall
    <3>3. y # v
      BY <1>1, <2>5, <3>2
    <3> QED BY <2>5, <3>1, <3>3 DEF Local, TransferInv, FinishesFit
  <2> QED BY <2>3, <2>4, <2>5 DEF FinishesFit
<1>13. ASSUME NEW k, k # u.n PROVE (NoneOnWire(k) => NoneOnWire(k)') /\ (NoneQueued(k) => NoneQueued(k)')
  BY <1>3, <1>7, <1>13 DEF NoneOnWire, NoneQueued
<1>14. OneFinish'
  <2>1. OneOnWire(wire)'
    BY <1>6
  <2>2. OneQueued'
    BY DEF Local, TransferInv, OneFinish, OneQueued
  <2>3. ASSUME NEW s \in sessions', NEW i \in 1..Len(s.queue), IsFinish(s.queue[i])
        PROVE  NoneOnWire(s.queue[i].n)'
    <3>1. NoneOnWire(s.queue[i].n) /\ s.queue[i].n # u.n
      BY <1>4, <2>3 DEF Local, TransferInv, OneFinish, NoneQueued
    <3> QED BY <1>13, <3>1
  <2> QED BY <2>1, <2>2, <2>3 DEF OneFinish
<1>15. OutcomesFit'
  <2>1. ASSUME NEW s \in sessions', s.applied = "ok", NEW x \in uploads', x.n = Head(s.queue).n
        PROVE  x.put = "whole"
    BY <1>1, <2>1 DEF Local, TransferInv, OutcomesFit
  <2>2. ASSUME NEW d \in Devices, NEW y \in InBox(wire', d), SaysOk(y),
               NEW x \in uploads', x.stage = "finish", x.call = y.id
        PROVE  x.put = "whole" /\ NoneOnWire(x.n)' /\ NoneQueued(x.n)'
    <3>1. y \in InBox(wire, d) /\ y.id # id
      BY <1>3, <1>7, <2>2, FreshCall
    <3>2. x # v
      BY <1>1, <2>2, <3>1
    <3>3. x \in uploads /\ x.n # u.n
      BY <1>11, <3>2
    <3> QED BY <1>13, <2>2, <3>1, <3>3 DEF Local, TransferInv, OutcomesFit
  <2> QED BY <2>1, <2>2 DEF OutcomesFit
<1> QED BY <1>8, <1>9, <1>10, <1>12, <1>14, <1>15 DEF TransferInv

\* An upload makes the request of its stage.
LEMMA RequestsKeeps ==
    ASSUME RemoteTypeOK, Local, Frame, NEW u \in uploads, Requests(u)
    PROVE  Local'
<1>0. u \in Upload /\ wire \in Wires /\ OneOnWire(wire) /\ u.stage \in {"start", "finish", "abort"}
      /\ u.at \in Devices /\ u.call = 0
  BY DEF Local, TransferTyped, TransferInv, OneFinish, Requests, Upload
<1>1. CASE ~CanReach(u.at) \/ (u.stage = "start" /\ Cancelled(u))
  BY <1>0, <1>1, FailedKeeps DEF Requests
<1>2. CASE ~(~CanReach(u.at) \/ (u.stage = "start" /\ Cancelled(u)))
  <2>1. PICK id \in FreshCalls : /\ Became(u, [u EXCEPT !.call = id])
                                 /\ wire' = Sent(wire, u.at, StageRequest(u, id))
                                 /\ UNCHANGED <<heard, told>>
    BY <1>2 DEF Requests
  <2> DEFINE v == [u EXCEPT !.call = id]
             m == StageRequest(u, id)
  <2>2. id \in CallIds /\ id # asked
    BY FreshCall
  <2>3. v \in Upload
    <3>1. id \in 0..MaxCalls
      BY <2>2 DEF CallIds
    <3> QED BY <1>0, <3>1 DEF Upload
  <2>4. m \in Message /\ m.id = id /\ (Is(m, "finish") => u.stage = "finish")
    BY <1>0, <2>2, RequestForms
  <2>5. uploads' = (uploads \ {u}) \cup {v} /\ UNCHANGED <<fs, sessions, offered>>
    BY <2>1 DEF Became, Requests
  <2>6. v.caller = u.caller /\ v.at = u.at
    BY <1>0 DEF Upload
  <2>7. wire' = Sent(wire, u.at, m)
    BY <2>1
  <2>8. wire' \in Wires /\ Carries(wire', wire, Other(u.at), m)
        /\ (~Is(m, "finish") => OneOnWire(wire'))
    BY <1>0, <2>4, <2>7, SentWire, RouteTyped
  <2>9. TransferInv'
    <3>1. CASE u.stage = "finish"
      BY <1>0, <2>3, <2>4, <2>5, <2>7, <3>1, AsksToFinish
    <3>2. CASE u.stage # "finish"
      BY <1>0, <2>3, <2>4, <2>5, <2>8, <3>2, OpensOrAborts
    <3> QED BY <3>1, <3>2
  <2> HIDE DEF v, m
  <2>10. TransferTyped'
    BY <2>1, <2>3, <2>5, <2>8 DEF Local, TransferTyped, Frame
  <2>11. \A s \in sessions' : \A i \in 1..Len(s.queue) :
              IsFinish(s.queue[i]) => s.queue[i].id # asked
    BY <2>5, QueueIdTyped
  <2>12. \A d \in Devices : \A x \in InBox(wire', d) : x \in InBox(wire, d) \/ x.id # asked
    BY <2>2, <2>4, <2>8 DEF Carries
  <2>13. RunFits' /\ CallersFit' /\ AnswersFit'
    BY <2>1, <2>5, <2>6, <2>11, <2>12, RunKept
  <2> QED BY <2>9, <2>10, <2>13 DEF Local
<1> QED BY <1>1, <1>2

\* An upload sends a chunk.
LEMMA SendsChunkKeeps ==
    ASSUME RemoteTypeOK, Local, Frame, NEW u \in uploads, SendsChunk(u)
    PROVE  Local'
<1>0. /\ u \in Upload /\ UploadFits(u) /\ wire \in Wires /\ OneOnWire(wire) /\ u.stage = "send"
      /\ u.at \in Devices /\ u.call = 0
  BY DEF Local, TransferTyped, TransferInv, OneFinish, SendsChunk, Upload, UploadsFit, UploadFits
<1>1. CASE ~CanReach(u.at) \/ Cancelled(u)
  BY <1>0, <1>1, FailedKeeps DEF SendsChunk
<1>2. CASE ~(~CanReach(u.at) \/ Cancelled(u))
  <2> DEFINE next == IF u.seq + 1 < Chunks(u) THEN u.stage ELSE "finish"
             v == [u EXCEPT !.seq = u.seq + 1, !.stage = next]
             m == [op |-> "chunk", session |-> u.session,
                   write |-> [seq |-> u.seq, chunk |-> u.chunk]]
  <2>1. /\ uploads' = (uploads \ {u}) \cup {v} /\ wire' = Sent(wire, u.at, m)
        /\ UNCHANGED <<heard, told, fs, sessions, offered>>
    BY <1>2 DEF SendsChunk, Became
  <2>2. u.seq \in 0..2 /\ u.seq < Chunks(u) /\ Chunks(u) \in Nat /\ Chunks(u) <= 2
    BY <1>0 DEF Upload, UploadFits, Chunks, Sizes
  <2>3. /\ v \in Upload /\ v.n = u.n /\ v.session = u.session /\ OfferOf(v) = OfferOf(u)
        /\ v.put = u.put /\ v.at = u.at /\ v.caller = u.caller /\ v.call = u.call
        /\ v.stage = next /\ Chunks(v) = Chunks(u) /\ v.seq = u.seq + 1 /\ v.kind = u.kind
        /\ v.path = u.path /\ v.expect = u.expect /\ v.chunk = u.chunk
    <3>1. u.seq + 1 \in 0..2
      BY <2>2
    <3>2. next \in {"send", "finish"}
      BY <1>0
    <3> HIDE DEF next
    <3> QED BY <1>0, <3>1, <3>2 DEF Upload, OfferOf, Chunks
  <2>4. v.stage \in {"send", "finish"} /\ (v.stage = "send" => v.seq < Chunks(v))
    BY <1>0, <2>3
  <2>5. /\ m \in Message /\ "id" \notin DOMAIN m /\ Is(m, "chunk") /\ m.session = u.session
        /\ m.write.seq = u.seq /\ m.write.chunk = u.chunk
        /\ ~Is(m, "start") /\ ~Is(m, "finish") /\ ~Is(m, "abort") /\ ~SaysOk(m)
    BY <1>0 DEF Message, TransferMessage, Upload, Write, Is, IsAnswer, SaysOk
  <2> HIDE DEF v, m, next
  <2>6. UploadFits(v)
    BY <1>0, <2>3, <2>4 DEF UploadFits, OfferOf
  <2>7. wire' \in Wires /\ Carries(wire', wire, Other(u.at), m) /\ OneOnWire(wire')
    BY <1>0, <2>1, <2>5, SentWire, RouteTyped
  <2>8. \A d \in Devices : \A x \in InBox(wire', d) :
           x \in InBox(wire, d) \/ (d = Other(u.at) /\ x = m)
    BY <2>7 DEF Carries
  <2>9. UploadsFit' /\ SessionsFit' /\ OneFinish' /\ OutcomesFit' /\ FinishesFit'
    BY <1>0, <2>1, <2>3, <2>4, <2>5, <2>6, <2>7, <2>8, Advances DEF Local
  <2>10. u.session \in DeltaIds => u.kind = "delta" /\ u.session[1] = u.path
    BY <1>0, Identifiers DEF UploadFits, Upload
  <2>11. MessagesFit'
    <3>1. ChunkFits(Other(u.at), m)
      BY <1>0, <2>2, <2>5, <2>10 DEF ChunkFits, UploadFits, OfferOf, DeltaOffer
    <3>2. \A d \in Devices : \A x \in InBox(wire', d) :
              /\ Is(x, "start") => StartFits(x)
              /\ Is(x, "chunk") => ChunkFits(d, x)
      BY <2>5, <2>8, <3>1 DEF Local, TransferInv, MessagesFit
    <3> QED BY <2>1, <3>2 DEF MessagesFit, StartFits, ChunkFits
  <2>12. NumbersOwned'
    <3> SUFFICES ASSUME NEW n \in Numbers PROVE \E o \in Owners : Owns(n, o)'
      BY DEF NumbersOwned, Owners, Delivery!Offer, Delivery!Kinds
    <3>1. PICK o \in Owners : Owns(n, o)
      BY DEF Local, TransferInv, NumbersOwned
    <3>2. m.session = <<n>> => o.data = m.write.chunk.data
      <4>1. m.session = <<n>> => OfferOf(u) = o
        BY <2>5, <3>1 DEF Owns
      <4>2. OfferOf(u).data = m.write.chunk.data
        BY <2>5 DEF OfferOf
      <4> QED BY <4>1, <4>2
    <3>3. \A x \in uploads' : x.session = <<n>> => OfferOf(x) = o
      BY <2>1, <2>3, <3>1 DEF Owns
    <3>4. \A d \in Devices : \A x \in InBox(wire', d) :
            /\ Is(x, "start") /\ x.session = <<n>>
                  => o \in offered /\ o.kind = "full" /\ o.to = d /\ o.path = x.path
            /\ Is(x, "chunk") /\ x.session = <<n>> => o.data = x.write.chunk.data
      BY <2>5, <2>8, <3>1, <3>2 DEF Owns
    <3>5. \A s \in sessions' : s.id = <<n>> =>
            /\ o \in offered /\ o.kind = "full" /\ o.to = s.at /\ o.path = s.path
            /\ \A z \in Contents : Holds(s, z) => o.data = z
      BY <2>1, <3>1 DEF Owns
    <3>6. o \in offered' <=> o \in offered
      BY <2>1
    <3>7. Owns(n, o)'
      BY Zenon, <3>3, <3>4, <3>5, <3>6 DEF Owns
    <3> QED BY <3>7
  <2>13. TransferTyped'
    BY <2>1, <2>3, <2>7 DEF Local, TransferTyped, Frame
  <2>14. \A s \in sessions' : \A i \in 1..Len(s.queue) :
              IsFinish(s.queue[i]) => s.queue[i].id # asked
    BY <2>1, QueueIdTyped
  <2>15. RunFits' /\ CallersFit' /\ AnswersFit'
    BY <2>1, <2>3, <2>5, <2>8, <2>14, RunKept
  <2> QED BY <2>9, <2>11, <2>12, <2>13, <2>15 DEF Local, TransferInv
<1> QED BY <1>1, <1>2

\* The answer to the request of an upload's stage.
LEMMA HearsKeeps ==
    ASSUME RemoteTypeOK, Local, Frame, NEW u \in uploads, NEW ok \in BOOLEAN, NEW next \in 0..2,
           UNCHANGED <<fs, sessions, offered>>,
           NEW w \in Wires, OneOnWire(w), \A e \in Devices : InBox(w, e) \subseteq InBox(wire, e),
           Hears(u, ok, next, w)
    PROVE  Local'
<1>0. u \in Upload /\ UploadFits(u)
  BY DEF Local, TransferTyped, TransferInv, UploadsFit
<1>1. CASE u.stage = "start" /\ ok
  <2> DEFINE stage == IF next < Chunks(u) THEN "send" ELSE "finish"
             v == [u EXCEPT !.seq = next, !.call = 0, !.stage = stage]
  <2>1. uploads' = (uploads \ {u}) \cup {v} /\ wire' = w /\ UNCHANGED <<heard, told>>
    BY <1>1 DEF Hears, Became
  <2>2. /\ v \in Upload /\ v.n = u.n /\ v.session = u.session /\ OfferOf(v) = OfferOf(u)
        /\ v.put = u.put /\ v.at = u.at /\ v.caller = u.caller /\ v.call = 0
        /\ v.stage = stage /\ Chunks(v) = Chunks(u) /\ v.seq = next /\ v.kind = u.kind
        /\ v.path = u.path /\ v.expect = u.expect /\ v.chunk = u.chunk
    <3>1. 0 \in 0..MaxCalls
      BY TransferAssumption
    <3>2. stage \in {"send", "finish"}
      OBVIOUS
    <3> HIDE DEF stage
    <3> QED BY <1>0, <3>1, <3>2 DEF Upload, OfferOf, Chunks
  <2> HIDE DEF v
  <2>3. v.stage \in {"send", "finish"} /\ (v.stage = "send" => v.seq < Chunks(v))
    <3>1. CASE next < Chunks(u)
      BY <2>2, <3>1
    <3>2. CASE ~(next < Chunks(u))
      BY <2>2, <3>2
    <3> QED BY <3>1, <3>2
  <2> HIDE DEF stage
  <2>4. UploadFits(v)
    BY <1>0, <2>2, <2>3 DEF UploadFits, OfferOf
  <2>5. TransferInv'
    <3>1. UploadsFit' /\ SessionsFit' /\ OneFinish' /\ OutcomesFit' /\ MessagesFit' /\ NumbersOwned'
          /\ FinishesFit'
      BY <1>1, <2>1, <2>2, <2>3, <2>4, Advances DEF Local
    <3> QED BY <3>1 DEF TransferInv
  <2>6. TransferTyped'
    BY <2>1, <2>2 DEF Local, TransferTyped, Frame
  <2>7. \A s \in sessions' : \A i \in 1..Len(s.queue) :
              IsFinish(s.queue[i]) => s.queue[i].id # asked
    BY QueueIdTyped
  <2>8. RunFits' /\ CallersFit' /\ AnswersFit'
    BY <2>1, <2>2, <2>7, RunKept
  <2> QED BY <2>5, <2>6, <2>8 DEF Local
<1>2. CASE ~(u.stage = "start" /\ ok) /\ u.stage = "finish" /\ ok
  BY <1>2, EndedKeeps DEF Hears
<1>3. CASE ~(u.stage = "start" /\ ok) /\ ~(u.stage = "finish" /\ ok)
  BY <1>3, FailedKeeps DEF Hears
<1> QED BY <1>1, <1>2, <1>3

\* An answer to a request of an upload, or to nobody.
LEMMA TransferAnsweredKeeps ==
    ASSUME RemoteTypeOK, Local, Frame, NEW d \in Devices, NEW t \in Transports, wire[d][t] # <<>>,
           TransferAnswered(d, t)
    PROVE  Local'
<1> DEFINE m == Head(wire[d][t])
<1>1. /\ IsAnswer(m) /\ m.answer = "transfer"
      /\ UNCHANGED <<fs, sessions, asked, aborted, offered>>
      /\ \/ \E u \in uploads : Hears(u, m.ok, m.next, Taken(d, t))
         \/ wire' = Taken(d, t) /\ UNCHANGED <<uploads, heard, told>>
  BY DEF TransferAnswered
<1>2. wire \in Wires /\ OneOnWire(wire)
  BY DEF Local, TransferTyped, TransferInv, OneFinish
<1>3. /\ Taken(d, t) \in Wires /\ m \in Message /\ OneOnWire(Taken(d, t))
      /\ \A e \in Devices : InBox(Taken(d, t), e) \subseteq InBox(wire, e)
  BY <1>2, TakenWire
<1>4. m.ok \in BOOLEAN /\ m.next \in 0..2
  BY <1>1, <1>3, MessageTypes
<1> HIDE DEF m
<1>5. CASE \E u \in uploads : Hears(u, m.ok, m.next, Taken(d, t))
  BY <1>1, <1>3, <1>4, <1>5, HearsKeeps
<1>6. CASE wire' = Taken(d, t) /\ UNCHANGED <<uploads, heard, told>>
  <2>1. TransferInv'
    BY <1>1, <1>3, <1>6, QuietStep DEF Local
  <2>2. TransferTyped'
    BY <1>1, <1>3, <1>6 DEF Local, TransferTyped
  <2>3. \A s \in sessions' : \A i \in 1..Len(s.queue) :
              IsFinish(s.queue[i]) => s.queue[i].id # asked
    BY <1>1, QueueIdTyped
  <2>4. RunFits' /\ CallersFit' /\ AnswersFit'
    BY <1>3, <1>6, <2>3, RunKept
  <2> QED BY <2>1, <2>2, <2>4 DEF Local
<1> QED BY <1>1, <1>5, <1>6

(***************************** the receiver ********************************)

\* Sessions with z among them.
LEMMA SessionsWith ==
    ASSUME SessionsFit, NEW z, SessionFits(z), sessions' \subseteq sessions \cup {z},
           offered' = offered
    PROVE  SessionsFit'
<1>1. \A s : SessionFits(s) => SessionFits(s)'
  BY DEF SessionFits
<1> QED BY <1>1 DEF SessionsFit

\* What z holds under a number belongs to its owner.
LEMMA NumbersWith ==
    ASSUME NumbersOwned, NEW z, sessions' \subseteq sessions \cup {z}, offered' = offered,
           \A u \in uploads' : \E v \in uploads : u.session = v.session /\ OfferOf(u) = OfferOf(v),
           \A d \in Devices : \A m \in InBox(wire', d) :
               m \in InBox(wire, d) \/ (~Is(m, "start") /\ ~Is(m, "chunk")),
           \A n \in Numbers, o \in Owners : Owns(n, o) /\ z.id = <<n>> =>
               /\ o \in offered /\ o.kind = "full" /\ o.to = z.at /\ o.path = z.path
               /\ \A v \in Contents : Holds(z, v) => o.data = v
    PROVE  NumbersOwned'
<1> SUFFICES ASSUME NEW n \in Numbers PROVE \E o \in Owners : Owns(n, o)'
  BY DEF NumbersOwned, Owners, Delivery!Offer, Delivery!Kinds
<1>1. PICK o \in Owners : Owns(n, o)
  BY DEF NumbersOwned
<1>2. \A x \in uploads' : x.session = <<n>> => OfferOf(x) = o
  BY <1>1 DEF Owns
<1>3. \A d \in Devices : \A x \in InBox(wire', d) :
        /\ Is(x, "start") /\ x.session = <<n>>
              => o \in offered /\ o.kind = "full" /\ o.to = d /\ o.path = x.path
        /\ Is(x, "chunk") /\ x.session = <<n>> => o.data = x.write.chunk.data
  BY <1>1 DEF Owns
<1>4. \A s \in sessions' : s.id = <<n>> =>
        /\ o \in offered /\ o.kind = "full" /\ o.to = s.at /\ o.path = s.path
        /\ \A v \in Contents : Holds(s, v) => o.data = v
  <2> SUFFICES ASSUME NEW s \in sessions', s.id = <<n>>
               PROVE  /\ o \in offered /\ o.kind = "full" /\ o.to = s.at /\ o.path = s.path
                      /\ \A v \in Contents : Holds(s, v) => o.data = v
    OBVIOUS
  <2>1. CASE s \in sessions
    BY <1>1, <2>1, Zenon DEF Owns
  <2>2. CASE s = z
    <3>1. z.id = <<n>>
      BY <2>2
    <3>2. /\ o \in offered /\ o.kind = "full" /\ o.to = z.at /\ o.path = z.path
          /\ \A v \in Contents : Holds(z, v) => o.data = v
      BY <1>1, <3>1
    <3> QED BY <2>2, <3>2, Zenon
  <2> QED BY <2>1, <2>2
<1>5. o \in offered' <=> o \in offered
  OBVIOUS
<1>6. Owns(n, o)'
  BY Zenon, <1>2, <1>3, <1>4, <1>5 DEF Owns
<1> QED BY <1>6

\* The finishes queued in z come from their uploads.
LEMMA FinishesWith ==
    ASSUME FinishesFit, NEW z, sessions' \subseteq sessions \cup {z},
           \A u \in uploads' : \E v \in uploads :
               /\ u.n = v.n /\ u.stage = v.stage /\ u.call = v.call /\ u.expect = v.expect
               /\ u.at = v.at /\ u.session = v.session,
           \A i \in 1..Len(z.queue) : IsFinish(z.queue[i]) => FinishFits(z.at, z.id, z.queue[i]),
           \A d \in Devices : \A m \in InBox(wire', d) :
               m \in InBox(wire, d) \/ (~Is(m, "start") /\ ~Is(m, "finish") /\ ~Is(m, "abort"))
    PROVE  FinishesFit'
<1>1. \A d, y, w : FinishFits(d, y, w) => FinishFits(d, y, w)'
  BY DEF FinishFits
<1>2. \A d \in Devices : \A m \in InBox(wire', d) : Is(m, "finish") => FinishFits(d, m.session, m)'
  BY <1>1 DEF FinishesFit
<1>3. \A s \in sessions' : \A i \in 1..Len(s.queue) :
         IsFinish(s.queue[i]) => FinishFits(s.at, s.id, s.queue[i])'
  BY <1>1 DEF FinishesFit
<1>4. ASSUME NEW d \in Devices, NEW m \in InBox(wire', d), Is(m, "start") \/ Is(m, "abort"),
             NEW u \in uploads', u.call = m.id
      PROVE  u.stage # "finish"
  <2>1. m \in InBox(wire, d)
    BY <1>4
  <2>2. PICK v \in uploads : u.stage = v.stage /\ u.call = v.call
    OBVIOUS
  <2> QED BY <1>4, <2>1, <2>2 DEF FinishesFit
<1> QED BY <1>2, <1>3, <1>4 DEF FinishesFit

\* A session goes on as z, with the finishes it had and one more at most.
LEMMA OneFinishWith ==
    ASSUME OneFinish, NEW s \in sessions, NEW z, sessions' = (sessions \ {s}) \cup {z},
           Len(s.queue) \in Nat, Len(z.queue) \in Nat, NEW k \in {0, 1},
           \A i \in 1..Len(z.queue) : IsFinish(z.queue[i]) =>
               \/ i + k \in 1..Len(s.queue) /\ z.queue[i] = s.queue[i + k]
               \/ /\ i = Len(s.queue) + 1 /\ k = 0
                  /\ NoneQueued(z.queue[i].n) /\ NoneOnWire(z.queue[i].n)',
           OneOnWire(wire'),
           \A d \in Devices : \A m \in InBox(wire', d) : m \in InBox(wire, d) \/ ~Is(m, "finish")
    PROVE  OneFinish'
<1>1. \A n : NoneOnWire(n) => NoneOnWire(n)'
  BY DEF NoneOnWire
<1>2. ASSUME NEW x \in sessions', NEW i \in 1..Len(x.queue), IsFinish(x.queue[i])
      PROVE  NoneOnWire(x.queue[i].n)'
  <2>1. CASE x \in sessions
    BY <1>1, <1>2, <2>1 DEF OneFinish
  <2>2. CASE x = z
    <3>1. CASE i + k \in 1..Len(s.queue) /\ z.queue[i] = s.queue[i + k]
      <4>1. IsFinish(s.queue[i + k])
        BY <1>2, <2>2, <3>1
      <4>2. NoneOnWire(s.queue[i + k].n)
        BY <3>1, <4>1 DEF OneFinish
      <4> QED BY <1>1, <2>2, <3>1, <4>2
    <3> QED BY <1>2, <2>2, <3>1
  <2> QED BY <2>1, <2>2
<1>3. ASSUME NEW x \in sessions', NEW y \in sessions', NEW i \in 1..Len(x.queue),
             NEW j \in 1..Len(y.queue), IsFinish(x.queue[i]), IsFinish(y.queue[j]),
             x.queue[i].n = y.queue[j].n
      PROVE  x = y /\ i = j
  <2>1. ASSUME NEW a \in sessions', NEW b \in sessions', NEW g \in 1..Len(a.queue),
               NEW h \in 1..Len(b.queue), IsFinish(a.queue[g]), IsFinish(b.queue[h]),
               a.queue[g].n = b.queue[h].n, a \in sessions \ {s}, b = z, b \notin sessions \ {s}
        PROVE  FALSE
    <3>1. CASE h + k \in 1..Len(s.queue) /\ z.queue[h] = s.queue[h + k]
      BY <2>1, <3>1 DEF OneFinish, OneQueued
    <3>2. CASE NoneQueued(z.queue[h].n)
      BY <2>1, <3>2 DEF NoneQueued
    <3> QED BY <2>1, <3>1, <3>2
  <2>2. CASE x \in sessions \ {s} /\ y \in sessions \ {s}
    BY <1>3, <2>2 DEF OneFinish, OneQueued
  <2>3. CASE x \in sessions \ {s} /\ y \notin sessions \ {s}
    BY <1>3, <2>1, <2>3
  <2>4. CASE x \notin sessions \ {s} /\ y \in sessions \ {s}
    BY <1>3, <2>1, <2>4
  <2>5. CASE x = z /\ y = z
    <3>1. CASE i + k \in 1..Len(s.queue) /\ z.queue[i] = s.queue[i + k]
      <4>1. CASE j + k \in 1..Len(s.queue) /\ z.queue[j] = s.queue[j + k]
        <5>1. i + k = j + k
          BY <1>3, <2>5, <3>1, <4>1 DEF OneFinish, OneQueued
        <5> QED BY <2>5, <5>1
      <4>2. CASE NoneQueued(z.queue[j].n)
        BY <1>3, <2>5, <3>1, <4>2 DEF NoneQueued
      <4> QED BY <1>3, <2>5, <4>1, <4>2
    <3>2. CASE i = Len(s.queue) + 1 /\ NoneQueued(z.queue[i].n)
      <4>1. CASE j + k \in 1..Len(s.queue) /\ z.queue[j] = s.queue[j + k]
        BY <1>3, <2>5, <3>2, <4>1 DEF NoneQueued
      <4>2. CASE j = Len(s.queue) + 1
        BY <2>5, <3>2, <4>2
      <4> QED BY <1>3, <2>5, <4>1, <4>2
    <3> QED BY <1>3, <2>5, <3>1, <3>2
  <2> QED BY <2>2, <2>3, <2>4, <2>5
<1>4. OneQueued'
  BY <1>3 DEF OneQueued
<1>5. OneOnWire(wire)'
  OBVIOUS
<1> QED BY <1>2, <1>4, <1>5 DEF OneFinish

\* Words of success stay true: a new one of message a is, and z has said none it should not.
LEMMA OutcomesWith ==
    ASSUME OutcomesFit, NEW z, sessions' \subseteq sessions \cup {z}, uploads' = uploads,
           z.applied = "ok" => \A u \in uploads : u.n = Head(z.queue).n => u.put = "whole",
           \A n : NoneQueued(n) /\ NoneOnWire(n) => NoneQueued(n)',
           NEW a, SaysOk(a) => \A u \in uploads : u.stage = "finish" /\ u.call = a.id =>
               u.put = "whole" /\ NoneOnWire(u.n)' /\ NoneQueued(u.n)',
           \A d \in Devices : \A m \in InBox(wire', d) :
               m \in InBox(wire, d) \/ (~Is(m, "finish") /\ (SaysOk(m) => m = a))
    PROVE  OutcomesFit'
<1>1. \A n : NoneOnWire(n) => NoneOnWire(n)'
  BY DEF NoneOnWire
<1>2. ASSUME NEW s \in sessions', s.applied = "ok", NEW u \in uploads', u.n = Head(s.queue).n
      PROVE  u.put = "whole"
  BY <1>2 DEF OutcomesFit
<1>3. ASSUME NEW d \in Devices, NEW m \in InBox(wire', d), SaysOk(m),
             NEW u \in uploads', u.stage = "finish", u.call = m.id
      PROVE  u.put = "whole" /\ NoneOnWire(u.n)' /\ NoneQueued(u.n)'
  <2>1. CASE m \in InBox(wire, d)
    BY <1>1, <1>3, <2>1 DEF OutcomesFit
  <2>2. CASE m = a
    BY <1>3, <2>2
  <2> QED BY <1>3, <2>1, <2>2
<1> QED BY <1>2, <1>3 DEF OutcomesFit

\* No request of an upload is taken for the run's.
LEMMA NotAsked ==
    ASSUME Local, NEW d \in Devices, NEW m \in InBox(wire, d),
           Is(m, "start") \/ Is(m, "finish") \/ Is(m, "abort")
    PROVE  m.id \in CallIds /\ m.id # 0 /\ m.id # asked
<1>1. m \in Message
  BY InBoxDef DEF Local, TransferTyped
<1>2. m.id \in CallIds /\ m.id # 0 /\ "id" \in DOMAIN m
  BY <1>1, MessageTypes DEF CallIds
<1>3. ~IsAnswer(m) /\ AnswerTo(m.op) = "transfer"
  BY DEF Is, AnswerTo
<1>4. Wanted # "transfer"
  BY DEF Wanted
<1>5. AnswersFit
  BY DEF Local
<1> QED BY <1>2, <1>3, <1>4, <1>5 DEF AnswersFit

\* An answer to an upload.
LEMMA AnswerForm ==
    ASSUME NEW id \in CallIds, NEW ok \in BOOLEAN, NEW next \in 0..2
    PROVE  LET a == TransferAnswer(id, ok, next)
           IN  /\ a \in Message /\ IsAnswer(a) /\ a.id = id /\ (SaysOk(a) <=> ok)
               /\ ~Is(a, "start") /\ ~Is(a, "chunk") /\ ~Is(a, "finish") /\ ~Is(a, "abort")
BY DEF TransferAnswer, Message, TransferMessage, IsAnswer, SaysOk, Is

\* The receiver leaves uploads and run alone.
LEMMA ReceiverKeeps ==
    ASSUME Local, Frame, UNCHANGED <<fs, uploads, heard, offered, told>>,
           sessions' \subseteq Session, wire' \in Wires, TransferInv',
           \A d \in Devices : \A m \in InBox(wire', d) :
               m \in InBox(wire, d) \/ ("id" \in DOMAIN m => m.id # asked),
           \A s \in sessions' : \A i \in 1..Len(s.queue) :
               IsFinish(s.queue[i]) => s.queue[i].id # asked
    PROVE  Local'
<1>1. TransferTyped'
  BY DEF Local, TransferTyped, Frame
<1>2. RunFits' /\ CallersFit' /\ AnswersFit'
  BY RunKept
<1> QED BY <1>1, <1>2 DEF Local

\* A session is opened, or resumed.
LEMMA HandleStartKeeps ==
    ASSUME RemoteTypeOK, Local, Frame, UNCHANGED <<fs, uploads, heard, offered, told>>,
           NEW d \in Devices, NEW t \in Transports, wire[d][t] # <<>>,
           NEW m, m = Head(wire[d][t]), ~IsAnswer(m), HandleStart(d, t, m)
    PROVE  Local'
<1> DEFINE old == SessionOf(d, m.session)
           go  == {s \in old : Resumable(s, m)}
           z   == NewSession(d, m)
<1>1. wire \in Wires /\ OneOnWire(wire) /\ sessions \subseteq Session
  BY DEF Local, TransferTyped, TransferInv, OneFinish
<1>2. /\ Taken(d, t) \in Wires /\ m \in Message /\ m \in InBox(wire, d) /\ OneOnWire(Taken(d, t))
      /\ \A e \in Devices : InBox(Taken(d, t), e) \subseteq InBox(wire, e)
  BY <1>1, TakenWire
<1>3. Is(m, "start")
  BY DEF Is, HandleStart
<1>4. m \in [op : {"start"}, id : CallIds, session : SessionIds,
             kind : {"full", "delta"}, path : Paths, meta : Meta]
  BY <1>2, <1>3, MessageTypes
<1>5. m.id \in CallIds /\ m.id # asked
  BY <1>2, <1>3, NotAsked
<1>6. StartFits(m)
  BY <1>2, <1>3 DEF Local, TransferInv, MessagesFit
<1>7. /\ z \in Session /\ z.queue = <<>> /\ z.got = <<>> /\ z.id = m.session /\ z.kind = m.kind
      /\ z.path = m.path /\ z.at = d /\ z.applied = "no" /\ Len(z.queue) = 0 /\ Len(z.got) = 0
  BY <1>4 DEF NewSession, Session
<1>8. \A v : ~Holds(z, v)
  <2>1. Len(z.queue) = 0 /\ Len(z.got) = 0
    BY <1>7
  <2> HIDE DEF z, old, go
  <2> QED BY ONLY <2>1 DEF Holds
<1>9. PICK next \in 0..2 :
         /\ wire' = Answered(Taken(d, t), d, t, TransferAnswer(m.id, TRUE, next))
         /\ sessions' = sessions \/ sessions' = (sessions \ old) \cup {z}
  <2>1. CASE go # {}
    <3>1. PICK s \in go : wire' = Answered(Taken(d, t), d, t, TransferAnswer(m.id, TRUE, Len(s.got)))
      BY <2>1 DEF HandleStart
    <3>2. s \in sessions
      BY DEF SessionOf
    <3>3. Len(s.got) \in 0..2
      <4>1. Len(s.got) \in Nat /\ Len(s.got) <= 2
        BY <3>2, QueueTypes DEF Local, TransferInv, SessionsFit, SessionFits
      <4>2. \A k \in Nat : k <= 2 => k \in 0..2
        OBVIOUS
      <4> HIDE DEF old, go
      <4> QED BY <4>1, <4>2, Zenon
    <3>4. sessions' = sessions
      BY <2>1 DEF HandleStart
    <3> HIDE DEF old, go
    <3> QED BY <3>1, <3>3, <3>4
  <2>2. CASE go = {}
    <3>1. wire' = Answered(Taken(d, t), d, t, TransferAnswer(m.id, TRUE, 0))
      BY <2>2 DEF HandleStart
    <3>2. sessions' = (sessions \ old) \cup {z}
      BY <2>2 DEF HandleStart
    <3> HIDE DEF old, go, z
    <3> QED BY <3>1, <3>2
  <2> QED BY <2>1, <2>2
<1> DEFINE a == TransferAnswer(m.id, TRUE, next)
<1>10. /\ a \in Message /\ IsAnswer(a) /\ a.id = m.id /\ SaysOk(a)
       /\ ~Is(a, "start") /\ ~Is(a, "chunk") /\ ~Is(a, "finish") /\ ~Is(a, "abort")
  BY <1>5, AnswerForm
<1>31. wire' = Answered(Taken(d, t), d, t, a)
  BY <1>9
<1> HIDE DEF a, z
<1>11. wire' \in Wires /\ Carries(wire', Taken(d, t), Other(d), a) /\ OneOnWire(wire')
  BY <1>2, <1>10, <1>31, SentWire
<1>12. \A e \in Devices : \A x \in InBox(wire', e) : x \in InBox(wire, e) \/ x = a
  BY <1>2, <1>11 DEF Carries
<1>13. sessions' \subseteq sessions \cup {z}
  BY <1>9
<1>14. UploadsFit' /\ MessagesFit'
  BY <1>10, <1>12, UploadsKept, MessagesKept DEF Local, TransferInv
<1>15. SessionsFit'
  <2>1. SessionFits(z)
    BY <1>6, <1>7, <1>8 DEF SessionFits, StartFits
  <2> QED BY <1>13, <2>1, SessionsWith DEF Local, TransferInv
<1>16. NumbersOwned'
  <2>1. ASSUME NEW n \in Numbers, NEW o \in Owners, Owns(n, o), z.id = <<n>>
        PROVE  /\ o \in offered /\ o.kind = "full" /\ o.to = z.at /\ o.path = z.path
               /\ \A v \in Contents : Holds(z, v) => o.data = v
    BY <1>2, <1>3, <1>7, <1>8, <2>1 DEF Owns
  <2> QED BY <1>10, <1>12, <1>13, <2>1, NumbersWith DEF Local, TransferInv
<1>17. FinishesFit'
  BY <1>7, <1>10, <1>12, <1>13, FinishesWith DEF Local, TransferInv
<1>18. OneFinish'
  <2>1. \A n : NoneOnWire(n) => NoneOnWire(n)'
    BY <1>10, <1>12 DEF NoneOnWire
  <2>2. \A s \in sessions' : s.queue # <<>> => s \in sessions
    BY <1>7, <1>13
  <2>3. \A s \in sessions' : \A i \in 1..Len(s.queue) : s \in sessions
    BY <1>7, <1>13
  <2>4. OneQueued'
    BY <2>3 DEF Local, TransferInv, OneFinish, OneQueued
  <2>5. OneOnWire(wire)'
    BY <1>11
  <2> QED BY <2>1, <2>3, <2>4, <2>5 DEF Local, TransferInv, OneFinish
<1>19. OutcomesFit'
  <2>1. \A u \in uploads : u.call = a.id => u.stage # "finish"
    BY <1>2, <1>3, <1>10 DEF Local, TransferInv, FinishesFit
  <2>2. \A n : NoneQueued(n) => NoneQueued(n)'
    BY <1>7, <1>13 DEF NoneQueued
  <2> QED BY <1>7, <1>10, <1>12, <1>13, <2>1, <2>2, OutcomesWith DEF Local, TransferInv
<1>20. TransferInv'
  BY <1>14, <1>15, <1>16, <1>17, <1>18, <1>19 DEF TransferInv
<1>21. \A s \in sessions' : \A i \in 1..Len(s.queue) : IsFinish(s.queue[i]) => s.queue[i].id # asked
  BY <1>7, <1>13, QueueIdTyped
<1>22. sessions' \subseteq Session
  BY <1>1, <1>7, <1>13
<1> QED BY <1>5, <1>10, <1>11, <1>12, <1>20, <1>21, <1>22, ReceiverKeeps

\* A session is given up.
LEMMA HandleAbortKeeps ==
    ASSUME RemoteTypeOK, Local, Frame, UNCHANGED <<fs, uploads, heard, offered, told>>,
           NEW d \in Devices, NEW t \in Transports, wire[d][t] # <<>>,
           NEW m, m = Head(wire[d][t]), ~IsAnswer(m), HandleAbort(d, t, m)
    PROVE  Local'
<1>1. wire \in Wires /\ OneOnWire(wire) /\ sessions \subseteq Session
  BY DEF Local, TransferTyped, TransferInv, OneFinish
<1>2. /\ Taken(d, t) \in Wires /\ m \in Message /\ m \in InBox(wire, d) /\ OneOnWire(Taken(d, t))
      /\ \A e \in Devices : InBox(Taken(d, t), e) \subseteq InBox(wire, e)
  BY <1>1, TakenWire
<1>3. Is(m, "abort") /\ sessions' \subseteq sessions
  BY DEF Is, HandleAbort
<1>4. m.id \in CallIds /\ m.id # asked
  BY <1>2, <1>3, NotAsked
<1> DEFINE a == TransferAnswer(m.id, TRUE, 0)
           z == [applied |-> "no"]
<1>5. /\ a \in Message /\ IsAnswer(a) /\ a.id = m.id /\ SaysOk(a)
      /\ ~Is(a, "start") /\ ~Is(a, "chunk") /\ ~Is(a, "finish") /\ ~Is(a, "abort")
  <2>1. 0 \in 0..2
    OBVIOUS
  <2> QED BY <1>4, <2>1, AnswerForm
<1>6. wire' = Answered(Taken(d, t), d, t, a)
  BY DEF HandleAbort
<1> HIDE DEF a
<1>7. wire' \in Wires /\ Carries(wire', Taken(d, t), Other(d), a) /\ OneOnWire(wire')
  BY <1>2, <1>5, <1>6, SentWire
<1>8. \A e \in Devices : \A x \in InBox(wire', e) : x \in InBox(wire, e) \/ x = a
  BY <1>2, <1>7 DEF Carries
<1>9. UploadsFit' /\ MessagesFit' /\ SessionsFit' /\ NumbersOwned' /\ FinishesFit' /\ OneFinish'
  BY <1>3, <1>5, <1>7, <1>8, UploadsKept, MessagesKept, SessionsKept, NumbersKept, FinishesKept,
     OneFinishKept DEF Local, TransferInv
<1>10. OutcomesFit'
  <2>1. \A u \in uploads : u.call = a.id => u.stage # "finish"
    BY <1>2, <1>3, <1>5 DEF Local, TransferInv, FinishesFit
  <2>2. \A n : NoneQueued(n) => NoneQueued(n)'
    BY <1>3 DEF NoneQueued
  <2>3. sessions' \subseteq sessions \cup {z} /\ z.applied = "no"
    BY <1>3
  <2> HIDE DEF z
  <2> QED BY <1>5, <1>8, <2>1, <2>2, <2>3, OutcomesWith DEF Local, TransferInv
<1>11. TransferInv'
  BY <1>9, <1>10 DEF TransferInv
<1>12. \A s \in sessions' : \A i \in 1..Len(s.queue) : IsFinish(s.queue[i]) => s.queue[i].id # asked
  BY <1>3, QueueIdTyped
<1> QED BY <1>1, <1>3, <1>4, <1>5, <1>7, <1>8, <1>11, <1>12, ReceiverKeeps

\* Appending to a queue.
LEMMA Appended ==
    ASSUME NEW q \in Seq(Write \cup Finish), NEW w \in Write \cup Finish
    PROVE  /\ Append(q, w) \in Seq(Write \cup Finish) /\ Len(Append(q, w)) = Len(q) + 1
           /\ Len(q) \in Nat
           /\ \A i \in 1..Len(q) + 1 : \/ i \in 1..Len(q) /\ Append(q, w)[i] = q[i]
                                       \/ i = Len(q) + 1 /\ Append(q, w)[i] = w
OBVIOUS

\* What is written, or finishes.
LEMMA ItemKinds ==
    /\ \A w \in Write : IsChunk(w) /\ ~IsFinish(w)
    /\ \A w \in Finish : IsFinish(w) /\ ~IsChunk(w)
BY DEF IsChunk, IsFinish, Write, Finish

\* A chunk is queued.
LEMMA HandleChunkKeeps ==
    ASSUME RemoteTypeOK, Local, Frame, UNCHANGED <<fs, uploads, heard, offered, told>>,
           NEW d \in Devices, NEW t \in Transports, wire[d][t] # <<>>,
           NEW m, m = Head(wire[d][t]), ~IsAnswer(m), HandleChunk(d, t, m)
    PROVE  Local'
<1>1. wire \in Wires /\ OneOnWire(wire) /\ sessions \subseteq Session
  BY DEF Local, TransferTyped, TransferInv, OneFinish
<1>2. /\ wire' \in Wires /\ m \in Message /\ m \in InBox(wire, d) /\ OneOnWire(wire')
      /\ \A e \in Devices : InBox(wire', e) \subseteq InBox(wire, e)
  BY <1>1, TakenWire DEF HandleChunk
<1>3. Is(m, "chunk")
  BY DEF Is, HandleChunk
<1>4. m \in [op : {"chunk"}, session : SessionIds, write : Write]
  BY <1>2, <1>3, MessageTypes
<1>5. ChunkFits(d, m)
  BY <1>2, <1>3 DEF Local, TransferInv, MessagesFit
<1>6. CASE sessions' = sessions
  <2>1. TransferInv'
    BY <1>2, <1>6, QuietStep DEF Local
  <2> QED BY <1>1, <1>2, <1>6, <2>1, QueueIdTyped, ReceiverKeeps
<1>7. CASE sessions' # sessions
  <2>1. PICK s \in SessionOf(d, m.session) : Replaced(s, [s EXCEPT !.queue = Append(@, m.write)])
    BY <1>7 DEF HandleChunk
  <2> DEFINE w == m.write
             z == [s EXCEPT !.queue = Append(s.queue, w)]
  <2>2. s \in sessions /\ s \in Session /\ s.at = d /\ s.id = m.session /\ SessionFits(s)
    BY <1>1 DEF SessionOf, Local, TransferInv, SessionsFit
  <2>3. sessions' = (sessions \ {s}) \cup {z}
    BY <2>1 DEF Replaced
  <2>4. s.queue \in Seq(Write \cup Finish) /\ w \in Write
    BY <1>4, <2>2 DEF Session
  <2>5. /\ Append(s.queue, w) \in Seq(Write \cup Finish) /\ Len(Append(s.queue, w)) = Len(s.queue) + 1
        /\ Len(s.queue) \in Nat
        /\ \A i \in 1..Len(s.queue) + 1 : \/ i \in 1..Len(s.queue) /\ Append(s.queue, w)[i] = s.queue[i]
                                          \/ i = Len(s.queue) + 1 /\ Append(s.queue, w)[i] = w
    BY <2>4, Appended
  <2>6. /\ z \in Session /\ z.id = s.id /\ z.at = s.at /\ z.path = s.path /\ z.kind = s.kind
        /\ z.got = s.got /\ z.applied = s.applied /\ z.queue = Append(s.queue, w)
    BY <2>2, <2>5 DEF Session
  <2> HIDE DEF z
  <2>7. /\ Len(z.queue) = Len(s.queue) + 1 /\ Len(z.queue) \in Nat
        /\ \A i \in 1..Len(z.queue) : \/ i \in 1..Len(s.queue) /\ z.queue[i] = s.queue[i]
                                      \/ i = Len(s.queue) + 1 /\ z.queue[i] = w
    BY <2>5, <2>6
  <2>8. IsChunk(w) /\ ~IsFinish(w)
    BY <2>4, ItemKinds
  <2> HIDE DEF w
  <2>9. \A v : Holds(z, v) => Holds(s, v) \/ v = w.chunk.data
    BY <2>6, <2>7 DEF Holds
  <2>10. s.queue # <<>> => Head(z.queue) = Head(s.queue) /\ z.queue # <<>>
    BY <2>4, <2>5, <2>6
  <2>11. sessions' \subseteq sessions \cup {z}
    BY <2>3
  <2>12. UploadsFit' /\ MessagesFit'
    BY <1>2, UploadsKept, MessagesKept DEF Local, TransferInv
  <2>13. SessionsFit'
    <3>1. z.kind = "delta" => \A v \in Contents : Holds(z, v) => DeltaOffer(z.at, z.path, v) \in offered
      <4>1. s.kind = "delta" => DeltaOffer(d, s.path, w.chunk.data) \in offered
        BY <1>5, <2>2 DEF ChunkFits, SessionFits, w
      <4> QED BY <2>2, <2>6, <2>9, <4>1 DEF SessionFits
    <3>2. \A i \in 1..Len(z.queue) : IsChunk(z.queue[i]) => z.queue[i].seq <= 1
      <4>1. w.seq <= 1
        BY <1>5 DEF ChunkFits, w
      <4> QED BY <2>2, <2>7, <4>1 DEF SessionFits
    <3>3. z.applied # "no" => Finishing(z)
      <4>1. s.applied # "no" => Finishing(s)
        BY <2>2 DEF SessionFits
      <4> QED BY <2>6, <2>10, <4>1 DEF Finishing
    <3>4. SessionFits(z)
      BY <2>2, <2>6, <3>1, <3>2, <3>3 DEF SessionFits
    <3> QED BY <2>11, <3>4, SessionsWith DEF Local, TransferInv
  <2>14. NumbersOwned'
    <3>1. ASSUME NEW n \in Numbers, NEW o \in Owners, Owns(n, o), z.id = <<n>>
          PROVE  /\ o \in offered /\ o.kind = "full" /\ o.to = z.at /\ o.path = z.path
                 /\ \A v \in Contents : Holds(z, v) => o.data = v
      <4>1. o.data = w.chunk.data
        BY <1>2, <1>3, <2>2, <2>6, <3>1 DEF Owns, w
      <4>2. /\ o \in offered /\ o.kind = "full" /\ o.to = s.at /\ o.path = s.path
            /\ \A v \in Contents : Holds(s, v) => o.data = v
        BY <2>2, <2>6, <3>1 DEF Owns
      <4> QED BY <2>6, <2>9, <4>1, <4>2
    <3> QED BY <1>2, <2>11, <3>1, NumbersWith DEF Local, TransferInv
  <2>15. FinishesFit'
    <3>1. \A i \in 1..Len(z.queue) : IsFinish(z.queue[i]) => FinishFits(z.at, z.id, z.queue[i])
      BY <2>2, <2>6, <2>7, <2>8 DEF Local, TransferInv, FinishesFit
    <3> QED BY <1>2, <2>11, <3>1, FinishesWith DEF Local, TransferInv
  <2>16. OneFinish'
    <3>1. \A i \in 1..Len(z.queue) : IsFinish(z.queue[i]) =>
             i + 0 \in 1..Len(s.queue) /\ z.queue[i] = s.queue[i + 0]
      BY <2>5, <2>7, <2>8
    <3> QED BY <1>2, <2>2, <2>3, <2>5, <2>7, <3>1, OneFinishWith DEF Local, TransferInv
  <2>17. OutcomesFit'
    <3>1. \A n : NoneQueued(n) => NoneQueued(n)'
      BY <2>2, <2>3, <2>7, <2>8 DEF NoneQueued
    <3>2. z.applied = "ok" => \A u \in uploads : u.n = Head(z.queue).n => u.put = "whole"
      <4>1. z.applied = "ok" => s.applied = "ok" /\ Head(z.queue) = Head(s.queue)
        BY <2>2, <2>6, <2>10 DEF SessionFits, Finishing
      <4> QED BY <2>2, <4>1 DEF Local, TransferInv, OutcomesFit
    <3>3. ~SaysOk(m)
      BY <1>3 DEF Is, SaysOk
    <3> QED BY <1>2, <2>11, <3>1, <3>2, <3>3, OutcomesWith DEF Local, TransferInv
  <2>18. TransferInv'
    BY <2>12, <2>13, <2>14, <2>15, <2>16, <2>17 DEF TransferInv
  <2>19. \A x \in sessions' : \A i \in 1..Len(x.queue) : IsFinish(x.queue[i]) => x.queue[i].id # asked
    BY <2>2, <2>3, <2>7, <2>8, QueueIdTyped
  <2>20. sessions' \subseteq Session
    BY <1>1, <2>6, <2>11
  <2> QED BY <1>2, <2>18, <2>19, <2>20, ReceiverKeeps
<1> QED BY <1>6, <1>7

\* A finish queues behind the chunks, or finds no session.
LEMMA HandleFinishKeeps ==
    ASSUME RemoteTypeOK, Local, Frame, UNCHANGED <<fs, uploads, heard, offered, told>>,
           NEW d \in Devices, NEW t \in Transports, wire[d][t] # <<>>,
           NEW m, m = Head(wire[d][t]), ~IsAnswer(m), HandleFinish(d, t, m)
    PROVE  Local'
<1>1. wire \in Wires /\ OneOnWire(wire) /\ sessions \subseteq Session
  BY DEF Local, TransferTyped, TransferInv, OneFinish
<1>2. Is(m, "finish")
  BY DEF Is, HandleFinish
<1>3. /\ Taken(d, t) \in Wires /\ m \in Message /\ m \in InBox(wire, d) /\ OneOnWire(Taken(d, t))
      /\ \A e \in Devices : InBox(Taken(d, t), e) \subseteq InBox(wire, e)
      /\ \A e \in Devices : \A x \in InBox(Taken(d, t), e) : Is(x, "finish") => x.n # m.n
  BY <1>1, <1>2, TakenWire
<1>4. m \in [op : {"finish"}, id : CallIds, session : SessionIds,
             n : Numbers, expect : Contents, size : Sizes]
  BY <1>2, <1>3, MessageTypes
<1>5. m.id \in CallIds /\ m.id # asked
  BY <1>2, <1>3, NotAsked
<1>6. FinishFits(d, m.session, m)
  BY <1>2, <1>3 DEF Local, TransferInv, FinishesFit
<1>7. CASE SessionOf(d, m.session) = {}
  <2> DEFINE a == TransferAnswer(m.id, FALSE, 0)
  <2>1. wire' = Answered(Taken(d, t), d, t, a) /\ sessions' = sessions
    BY <1>7 DEF HandleFinish
  <2>2. a \in Message /\ a.id = m.id /\ Harmless(a)
    <3>1. 0 \in 0..2
      OBVIOUS
    <3> QED BY <1>5, <3>1, AnswerForm DEF Harmless
  <2> HIDE DEF a
  <2>3. wire' \in Wires /\ Carries(wire', Taken(d, t), Other(d), a) /\ OneOnWire(wire')
    BY <1>3, <2>1, <2>2, SentWire DEF Harmless
  <2>4. \A e \in Devices : \A x \in InBox(wire', e) : x \in InBox(wire, e) \/ x = a
    BY <1>3, <2>3 DEF Carries
  <2>5. TransferInv'
    BY <2>1, <2>2, <2>3, <2>4, QuietStep DEF Local
  <2> QED BY <1>1, <1>5, <2>1, <2>2, <2>3, <2>4, <2>5, QueueIdTyped, ReceiverKeeps
<1>8. CASE SessionOf(d, m.session) # {}
  <2> DEFINE w == [finish |-> t, id |-> m.id, n |-> m.n, expect |-> m.expect, size |-> m.size]
  <2>0. wire' = Taken(d, t)
    BY <1>8 DEF HandleFinish
  <2>1. PICK s \in SessionOf(d, m.session) : Replaced(s, [s EXCEPT !.queue = Append(@, w)])
    BY <1>8 DEF HandleFinish
  <2>2. s \in sessions /\ s \in Session /\ s.at = d /\ s.id = m.session /\ SessionFits(s)
    BY <1>1 DEF SessionOf, Local, TransferInv, SessionsFit
  <2> DEFINE z == [s EXCEPT !.queue = Append(s.queue, w)]
  <2>3. sessions' = (sessions \ {s}) \cup {z}
    BY <2>1 DEF Replaced
  <2>4. s.queue \in Seq(Write \cup Finish) /\ w \in Finish
    BY <1>4, <2>2 DEF Session, Finish
  <2>5. /\ Append(s.queue, w) \in Seq(Write \cup Finish) /\ Len(Append(s.queue, w)) = Len(s.queue) + 1
        /\ Len(s.queue) \in Nat
        /\ \A i \in 1..Len(s.queue) + 1 : \/ i \in 1..Len(s.queue) /\ Append(s.queue, w)[i] = s.queue[i]
                                          \/ i = Len(s.queue) + 1 /\ Append(s.queue, w)[i] = w
    <3> HIDE DEF w
    <3> QED BY <2>4, Appended
  <2>6. w.id = m.id /\ w.n = m.n /\ w.expect = m.expect
    OBVIOUS
  <2>7. IsFinish(w) /\ ~IsChunk(w)
    <3> HIDE DEF w
    <3> QED BY <2>4, ItemKinds
  <2> HIDE DEF w
  <2>8. /\ z \in Session /\ z.id = s.id /\ z.at = s.at /\ z.path = s.path /\ z.kind = s.kind
        /\ z.got = s.got /\ z.applied = s.applied /\ z.queue = Append(s.queue, w)
    BY <2>2, <2>5 DEF Session
  <2> HIDE DEF z
  <2>9. /\ Len(z.queue) = Len(s.queue) + 1 /\ Len(z.queue) \in Nat
        /\ \A i \in 1..Len(z.queue) : \/ i \in 1..Len(s.queue) /\ z.queue[i] = s.queue[i]
                                      \/ i = Len(s.queue) + 1 /\ z.queue[i] = w
    BY <2>5, <2>8
  <2>10. s.queue # <<>> => Head(z.queue) = Head(s.queue) /\ z.queue # <<>>
    BY <2>4, <2>5, <2>8
  <2>11. sessions' \subseteq sessions \cup {z}
    BY <2>3
  <2>12. \A v : Holds(z, v) => Holds(s, v)
    BY <2>7, <2>8, <2>9 DEF Holds
  <2>13. UploadsFit' /\ MessagesFit'
    BY <1>3, <2>0, UploadsKept, MessagesKept DEF Local, TransferInv
  <2>14. SessionsFit'
    <3>1. z.applied # "no" => Finishing(z)
      <4>1. s.applied # "no" => Finishing(s)
        BY <2>2 DEF SessionFits
      <4> QED BY <2>8, <2>10, <4>1 DEF Finishing
    <3>2. \A i \in 1..Len(z.queue) : IsChunk(z.queue[i]) => z.queue[i].seq <= 1
      BY <2>2, <2>7, <2>9 DEF SessionFits
    <3>3. SessionFits(z)
      BY <2>2, <2>8, <2>12, <3>1, <3>2 DEF SessionFits
    <3> QED BY <2>11, <3>3, SessionsWith DEF Local, TransferInv
  <2>15. NumbersOwned'
    <3>1. ASSUME NEW n \in Numbers, NEW o \in Owners, Owns(n, o), z.id = <<n>>
          PROVE  /\ o \in offered /\ o.kind = "full" /\ o.to = z.at /\ o.path = z.path
                 /\ \A v \in Contents : Holds(z, v) => o.data = v
      <4>1. /\ o \in offered /\ o.kind = "full" /\ o.to = s.at /\ o.path = s.path
            /\ \A v \in Contents : Holds(s, v) => o.data = v
        BY <2>2, <2>8, <3>1 DEF Owns
      <4> QED BY <2>8, <2>12, <4>1
    <3> QED BY <1>3, <2>0, <2>11, <3>1, NumbersWith DEF Local, TransferInv
  <2>16. FinishesFit'
    <3>1. FinishFits(d, m.session, w)
      BY <1>6, <2>6 DEF FinishFits
    <3>2. \A i \in 1..Len(z.queue) : IsFinish(z.queue[i]) => FinishFits(z.at, z.id, z.queue[i])
      BY <2>2, <2>8, <2>9, <3>1 DEF Local, TransferInv, FinishesFit
    <3> QED BY <1>3, <2>0, <2>11, <3>2, FinishesWith DEF Local, TransferInv
  <2>17. NoneQueued(w.n) /\ NoneOnWire(w.n)'
    <3>1. NoneQueued(w.n)
      BY <1>2, <1>3, <2>6 DEF Local, TransferInv, OneFinish, NoneOnWire, NoneQueued
    <3>2. NoneOnWire(w.n)'
      BY <1>3, <2>0, <2>6 DEF NoneOnWire
    <3> QED BY <3>1, <3>2
  <2>18. OneFinish'
    <3>1. \A i \in 1..Len(z.queue) : IsFinish(z.queue[i]) =>
               \/ i + 0 \in 1..Len(s.queue) /\ z.queue[i] = s.queue[i + 0]
               \/ /\ i = Len(s.queue) + 1 /\ 0 = 0
                  /\ NoneQueued(z.queue[i].n) /\ NoneOnWire(z.queue[i].n)'
      BY <2>5, <2>9, <2>17
    <3> QED BY <1>3, <2>0, <2>2, <2>3, <2>5, <2>9, <3>1, OneFinishWith DEF Local, TransferInv
  <2>19. OutcomesFit'
    <3>1. ASSUME NEW n, NoneQueued(n), NoneOnWire(n) PROVE NoneQueued(n)'
      <4>1. w.n # n
        BY <1>2, <1>3, <2>6, <3>1 DEF NoneOnWire
      <4>2. \A x \in sessions' : \A i \in 1..Len(x.queue) : IsFinish(x.queue[i]) => x.queue[i].n # n
        BY <2>2, <2>3, <2>9, <3>1, <4>1 DEF NoneQueued
      <4> QED BY <4>2 DEF NoneQueued
    <3>2. z.applied = "ok" => \A u \in uploads : u.n = Head(z.queue).n => u.put = "whole"
      <4>1. z.applied = "ok" => s.applied = "ok" /\ Head(z.queue) = Head(s.queue)
        BY <2>2, <2>8, <2>10 DEF SessionFits, Finishing
      <4> QED BY <2>2, <4>1 DEF Local, TransferInv, OutcomesFit
    <3>3. ~SaysOk(m)
      BY <1>2 DEF Is, SaysOk
    <3> QED BY <1>3, <2>0, <2>11, <3>1, <3>2, <3>3, OutcomesWith DEF Local, TransferInv
  <2>20. TransferInv'
    BY <2>13, <2>14, <2>15, <2>16, <2>18, <2>19 DEF TransferInv
  <2>21. \A x \in sessions' : \A i \in 1..Len(x.queue) : IsFinish(x.queue[i]) => x.queue[i].id # asked
    BY <1>5, <2>2, <2>3, <2>6, <2>9, QueueIdTyped
  <2>22. sessions' \subseteq Session
    BY <1>1, <2>8, <2>11
  <2> QED BY <1>3, <2>0, <2>20, <2>21, <2>22, ReceiverKeeps
<1> QED BY <1>7, <1>8

\* What is left of a queue.
LEMMA Rest ==
    ASSUME NEW q \in Seq(Write \cup Finish), q # <<>>
    PROVE  /\ Tail(q) \in Seq(Write \cup Finish) /\ Len(q) \in Nat /\ Len(q) > 0
           /\ Len(Tail(q)) = Len(q) - 1 /\ Head(q) = q[1] /\ Head(q) \in Write \cup Finish
           /\ \A i \in 1..Len(Tail(q)) : i + 1 \in 1..Len(q) /\ Tail(q)[i] = q[i + 1]
OBVIOUS

\* What has been written.
LEMMA Written ==
    ASSUME NEW g \in Seq(Write), NEW w \in Write
    PROVE  /\ Append(g, w) \in Seq(Write) /\ Len(Append(g, w)) = Len(g) + 1 /\ Len(g) \in Nat
           /\ \A i \in 1..Len(g) + 1 : \/ i \in 1..Len(g) /\ Append(g, w)[i] = g[i]
                                       \/ i = Len(g) + 1 /\ Append(g, w)[i] = w
OBVIOUS

\* A queued chunk is written, or found out of sequence.
LEMMA WriteChunkKeeps ==
    ASSUME RemoteTypeOK, Local, Frame, NEW s \in sessions, WriteChunk(s)
    PROVE  Local'
<1> DEFINE w == Head(s.queue)
           z == IF InSequence(s, w)
                THEN [s EXCEPT !.got = Append(s.got, w), !.queue = Tail(s.queue)]
                ELSE [s EXCEPT !.writeError = TRUE, !.queue = Tail(s.queue)]
<1>1. /\ wire \in Wires /\ OneOnWire(wire) /\ s \in Session /\ SessionFits(s) /\ s.queue # <<>>
      /\ UNCHANGED <<fs, uploads, asked, heard, aborted, offered, told, wire>>
      /\ sessions \subseteq Session
  BY DEF Local, TransferTyped, TransferInv, OneFinish, SessionsFit, WriteChunk, Writing
<1>2. IsChunk(w)
  BY DEF WriteChunk, Writing, IsChunk
<1>3. sessions' = (sessions \ {s}) \cup {z}
  BY DEF WriteChunk, Replaced
<1>4. s.queue \in Seq(Write \cup Finish) /\ s.got \in Seq(Write)
  BY <1>1 DEF Session
<1>5. /\ Tail(s.queue) \in Seq(Write \cup Finish) /\ Len(s.queue) \in Nat /\ Len(s.queue) > 0
      /\ Len(Tail(s.queue)) = Len(s.queue) - 1 /\ w = s.queue[1] /\ w \in Write \cup Finish
      /\ \A i \in 1..Len(Tail(s.queue)) :
            i + 1 \in 1..Len(s.queue) /\ Tail(s.queue)[i] = s.queue[i + 1]
  BY <1>1, <1>4, Rest
<1>6. w \in Write /\ ~IsFinish(w)
  BY <1>2, <1>5, ItemKinds
<1>7. 1 \in 1..Len(s.queue)
  BY <1>5
<1>8. w.seq <= 1 /\ w.seq \in 0..2
  BY <1>1, <1>2, <1>5, <1>6, <1>7 DEF SessionFits, Write
<1>9. /\ Append(s.got, w) \in Seq(Write) /\ Len(Append(s.got, w)) = Len(s.got) + 1 /\ Len(s.got) \in Nat
      /\ \A i \in 1..Len(s.got) + 1 : \/ i \in 1..Len(s.got) /\ Append(s.got, w)[i] = s.got[i]
                                      \/ i = Len(s.got) + 1 /\ Append(s.got, w)[i] = w
  BY <1>4, <1>6, Written
<1> HIDE DEF w
<1>10. /\ z \in Session /\ z.id = s.id /\ z.at = s.at /\ z.path = s.path /\ z.kind = s.kind
       /\ z.applied = s.applied /\ z.queue = Tail(s.queue)
       /\ \/ z.got = s.got
          \/ z.got = Append(s.got, w) /\ Len(s.got) <= 1
  <2>1. CASE InSequence(s, w)
    <3>1. Len(s.got) <= 1
      BY <1>8, <1>9, <2>1 DEF InSequence
    <3> QED BY <1>1, <1>5, <1>9, <2>1, <3>1 DEF Session
  <2>2. CASE ~InSequence(s, w)
    BY <1>1, <1>5, <2>2 DEF Session
  <2> QED BY <2>1, <2>2
<1> HIDE DEF z
<1>11. /\ Len(z.queue) \in Nat
       /\ \A i \in 1..Len(z.queue) : i + 1 \in 1..Len(s.queue) /\ z.queue[i] = s.queue[i + 1]
  BY <1>5, <1>10
<1>12. s.applied = "no"
  <2>1. ~Finishing(s)
    BY <1>6 DEF Finishing, IsFinish, w
  <2> QED BY <1>1, <2>1 DEF SessionFits
<1>13. \A v : Holds(z, v) => Holds(s, v)
  <2> SUFFICES ASSUME NEW v, Holds(z, v) PROVE Holds(s, v)
    OBVIOUS
  <2>1. CASE \E i \in 1..Len(z.got) : z.got[i].chunk.data = v
    <3>1. CASE z.got = s.got
      BY <2>1, <3>1 DEF Holds
    <3>2. CASE z.got = Append(s.got, w)
      <4>1. \/ \E i \in 1..Len(s.got) : s.got[i].chunk.data = v
            \/ w.chunk.data = v
        BY <1>9, <2>1, <3>2
      <4> QED BY <1>2, <1>5, <1>7, <4>1 DEF Holds
    <3> QED BY <1>10, <3>1, <3>2
  <2>2. CASE \E i \in 1..Len(z.queue) : IsChunk(z.queue[i]) /\ z.queue[i].chunk.data = v
    BY <1>11, <2>2 DEF Holds
  <2> QED BY <2>1, <2>2 DEF Holds
<1>14. sessions' \subseteq sessions \cup {z}
  BY <1>3
<1>15. UploadsFit' /\ MessagesFit'
  BY <1>1, UploadsKept, MessagesKept DEF Local, TransferInv
<1>16. SessionsFit'
  <2>1. Len(z.got) <= 2
    BY <1>1, <1>9, <1>10 DEF SessionFits
  <2>2. \A i \in 1..Len(z.queue) : IsChunk(z.queue[i]) => z.queue[i].seq <= 1
    BY <1>1, <1>11 DEF SessionFits
  <2>3. SessionFits(z)
    BY <1>1, <1>10, <1>12, <1>13, <2>1, <2>2 DEF SessionFits
  <2> QED BY <1>1, <1>14, <2>3, SessionsWith DEF Local, TransferInv
<1>17. NumbersOwned'
  <2>1. ASSUME NEW n \in Numbers, NEW o \in Owners, Owns(n, o), z.id = <<n>>
        PROVE  /\ o \in offered /\ o.kind = "full" /\ o.to = z.at /\ o.path = z.path
               /\ \A v \in Contents : Holds(z, v) => o.data = v
    <3>1. /\ o \in offered /\ o.kind = "full" /\ o.to = s.at /\ o.path = s.path
          /\ \A v \in Contents : Holds(s, v) => o.data = v
      BY <1>10, <2>1 DEF Owns
    <3> QED BY <1>10, <1>13, <3>1
  <2> QED BY <1>1, <1>14, <2>1, NumbersWith DEF Local, TransferInv
<1>18. FinishesFit'
  <2>1. \A i \in 1..Len(z.queue) : IsFinish(z.queue[i]) => FinishFits(z.at, z.id, z.queue[i])
    BY <1>10, <1>11 DEF Local, TransferInv, FinishesFit
  <2> QED BY <1>1, <1>14, <2>1, FinishesWith DEF Local, TransferInv
<1>19. OneFinish'
  BY <1>1, <1>3, <1>5, <1>11, OneFinishWith DEF Local, TransferInv
<1>20. OutcomesFit'
  <2>1. \A n : NoneQueued(n) => NoneQueued(n)'
    BY <1>3, <1>11 DEF NoneQueued
  <2>2. z.applied # "ok"
    BY <1>10, <1>12
  <2>3. PICK a : ~SaysOk(a)
    <3>1. ~SaysOk([op |-> "none"])
      BY DEF SaysOk, IsAnswer
    <3> QED BY <3>1
  <2>4. uploads' = uploads /\ \A e \in Devices : \A x \in InBox(wire', e) : x \in InBox(wire, e)
    BY <1>1
  <2> QED BY <1>14, <2>1, <2>2, <2>3, <2>4, OutcomesWith DEF Local, TransferInv
<1>21. TransferInv'
  BY <1>15, <1>16, <1>17, <1>18, <1>19, <1>20 DEF TransferInv
<1>22. \A x \in sessions' : \A i \in 1..Len(x.queue) : IsFinish(x.queue[i]) => x.queue[i].id # asked
  BY <1>3, <1>11, QueueIdTyped
<1>23. sessions' \subseteq Session
  BY <1>1, <1>10, <1>14
<1> QED BY <1>1, <1>21, <1>22, <1>23, ReceiverKeeps

\* The outcome of a finish answers its upload, and its session goes.
LEMMA FinishEndsKeeps ==
    ASSUME RemoteTypeOK, Local, Frame, NEW s \in sessions, FinishEnds(s)
    PROVE  Local'
<1> DEFINE f == Head(s.queue)
           a == TransferAnswer(f.id, s.applied = "ok", 0)
           z == [applied |-> "no"]
<1>1. /\ wire \in Wires /\ OneOnWire(wire) /\ s \in Session /\ SessionFits(s) /\ s.queue # <<>>
      /\ UNCHANGED <<fs, uploads, asked, heard, aborted, offered, told>>
      /\ sessions \subseteq Session /\ sessions' = sessions \ {s}
      /\ wire' = Answered(wire, s.at, f.finish, a)
  BY DEF Local, TransferTyped, TransferInv, OneFinish, SessionsFit, FinishEnds, Finishing
<1>2. IsFinish(f)
  BY DEF FinishEnds, Finishing, IsFinish
<1>3. s.queue \in Seq(Write \cup Finish) /\ s.at \in Devices
  BY <1>1 DEF Session
<1>4. f = s.queue[1] /\ f \in Write \cup Finish /\ 1 \in 1..Len(s.queue)
  <2> HIDE DEF f, a
  <2>1. Head(s.queue) = s.queue[1] /\ Len(s.queue) \in Nat /\ Len(s.queue) > 0
        /\ Head(s.queue) \in Write \cup Finish
    BY <1>1, <1>3, Rest
  <2>2. 1 \in 1..Len(s.queue)
    BY <2>1
  <2> QED BY <2>1, <2>2 DEF f
<1> HIDE DEF f
<1>5. f \in Finish
  BY <1>2, <1>4, ItemKinds
<1>6. f.id \in CallIds /\ f.id # asked /\ f.finish \in Transports
  BY <1>2, <1>4, <1>5, QueueIdTyped DEF Finish
<1>7. FinishFits(s.at, s.id, f) /\ NoneOnWire(f.n)
  BY <1>2, <1>4 DEF Local, TransferInv, FinishesFit, OneFinish
<1>8. /\ a \in Message /\ IsAnswer(a) /\ a.id = f.id /\ (SaysOk(a) <=> s.applied = "ok")
      /\ ~Is(a, "start") /\ ~Is(a, "chunk") /\ ~Is(a, "finish") /\ ~Is(a, "abort")
  <2>1. 0 \in 0..2 /\ (s.applied = "ok") \in BOOLEAN
    OBVIOUS
  <2> QED BY <1>6, <2>1, AnswerForm
<1> HIDE DEF a, z
<1>9. wire' \in Wires /\ Carries(wire', wire, Other(s.at), a) /\ OneOnWire(wire')
  BY <1>1, <1>3, <1>6, <1>8, SentWire
<1>10. \A e \in Devices : \A x \in InBox(wire', e) : x \in InBox(wire, e) \/ x = a
  BY <1>9 DEF Carries
<1>11. UploadsFit' /\ MessagesFit' /\ SessionsFit' /\ NumbersOwned' /\ FinishesFit' /\ OneFinish'
  BY <1>1, <1>8, <1>9, <1>10, UploadsKept, MessagesKept, SessionsKept, NumbersKept, FinishesKept,
     OneFinishKept DEF Local, TransferInv
<1>12. OutcomesFit'
  <2>1. ASSUME SaysOk(a), NEW u \in uploads, u.stage = "finish", u.call = a.id
        PROVE  u.put = "whole" /\ NoneOnWire(u.n)' /\ NoneQueued(u.n)'
    <3>1. u.n = f.n
      BY <1>7, <1>8, <2>1 DEF FinishFits
    <3>2. u.put = "whole"
      BY <1>8, <2>1, <3>1 DEF Local, TransferInv, OutcomesFit, f
    <3>3. NoneOnWire(u.n)'
      BY <1>7, <1>8, <1>10, <3>1 DEF NoneOnWire
    <3>4. NoneQueued(u.n)'
      BY <1>1, <1>2, <1>4, <3>1 DEF Local, TransferInv, OneFinish, OneQueued, NoneQueued
    <3> QED BY <3>2, <3>3, <3>4
  <2>2. \A n : NoneQueued(n) => NoneQueued(n)'
    BY <1>1 DEF NoneQueued
  <2>3. sessions' \subseteq sessions \cup {z} /\ z.applied # "ok"
    BY <1>1 DEF z
  <2> QED BY <1>1, <1>8, <1>10, <2>1, <2>2, <2>3, OutcomesWith DEF Local, TransferInv
<1>13. TransferInv'
  BY <1>11, <1>12 DEF TransferInv
<1>14. \A x \in sessions' : \A i \in 1..Len(x.queue) : IsFinish(x.queue[i]) => x.queue[i].id # asked
  BY <1>1, QueueIdTyped
<1> QED BY <1>1, <1>6, <1>8, <1>9, <1>10, <1>13, <1>14, ReceiverKeeps

\* A session nobody touches any more goes.
LEMMA SweepKeeps ==
    ASSUME RemoteTypeOK, Local, Frame, NEW s \in sessions, Sweep(s)
    PROVE  Local'
<1>1. /\ sessions' \subseteq sessions /\ sessions \subseteq Session /\ wire \in Wires /\ OneOnWire(wire)
      /\ UNCHANGED <<fs, uploads, asked, heard, aborted, offered, told, wire>>
  BY DEF Sweep, Local, TransferTyped, TransferInv, OneFinish
<1>2. TransferInv'
  BY <1>1, QuietStep DEF Local
<1>3. \A x \in sessions' : \A i \in 1..Len(x.queue) : IsFinish(x.queue[i]) => x.queue[i].id # asked
  BY <1>1, QueueIdTyped
<1> QED BY <1>1, <1>2, <1>3, ReceiverKeeps

\* What is put in place was offered for it, and only a full upload damages anything.
LEMMA PutOffered ==
    ASSUME TransferTyped, TransferInv, NEW s \in sessions, NEW f \in Finish
    PROVE  /\ Put(s, f) \in {"no", "whole", "damaged"}
           /\ Put(s, f) # "no" => \E o \in offered :
                 /\ o.to = s.at /\ o.path = s.path
                 /\ Put(s, f) = "whole" => o.data = f.expect
                 /\ Put(s, f) = "damaged" => o.kind = "full"
<1>1. s \in Session /\ SessionFits(s)
  BY DEF TransferTyped, TransferInv, SessionsFit
<1>2. /\ s.kind \in {"full", "delta"} /\ s.writeError \in BOOLEAN /\ s.got \in Seq(Write)
      /\ f.expect \in Contents /\ f.size \in Nat
  BY <1>1 DEF Session, Finish, Sizes
<1>3. s.got # <<>> => 1 \in 1..Len(s.got)
  BY <1>2
<1>4. CASE s.writeError
  BY <1>4 DEF Put
<1>5. CASE ~s.writeError /\ s.kind = "delta"
  <2>1. Put(s, f) = IF DeltaFits(s, f) THEN "whole" ELSE "no"
    BY <1>2, <1>5 DEF Put
  <2>2. DeltaFits(s, f) => s.got # <<>> /\ s.got[1].chunk.data = f.expect
    BY DEF DeltaFits
  <2>3. DeltaFits(s, f) => Holds(s, f.expect)
    BY <1>3, <2>2 DEF Holds
  <2>4. DeltaFits(s, f) => DeltaOffer(s.at, s.path, f.expect) \in offered
    BY <1>1, <1>2, <1>5, <2>3 DEF SessionFits
  <2> QED BY <2>1, <2>4 DEF DeltaOffer
<1>6. CASE ~s.writeError /\ s.kind = "full"
  <2>1. Put(s, f) = IF s.got = <<>> THEN "no" ELSE IF Whole(s, f) THEN "whole" ELSE "damaged"
    BY <1>2, <1>6 DEF Put
  <2>2. PICK n \in Numbers : s.id = <<n>>
    BY <1>1, <1>6 DEF SessionFits
  <2>3. PICK o \in Owners : Owns(n, o)
    BY DEF TransferInv, NumbersOwned
  <2>4. /\ o \in offered /\ o.kind = "full" /\ o.to = s.at /\ o.path = s.path
        /\ \A v \in Contents : Holds(s, v) => o.data = v
    BY <2>2, <2>3 DEF Owns
  <2>5. s.got # <<>> /\ Whole(s, f) => s.got[1].chunk.data = f.expect
    <3> SUFFICES ASSUME s.got # <<>>, Whole(s, f) PROVE s.got[1].chunk.data = f.expect
      OBVIOUS
    <3> DEFINE g == [i \in 1..f.size |-> [seq |-> i - 1, chunk |-> [data |-> f.expect, basis |-> None]]]
    <3>1. s.got = g
      BY DEF Whole
    <3>2. DOMAIN s.got = 1..Len(s.got)
      BY <1>2
    <3>3. 1 \in 1..f.size
      BY <1>3, <3>1, <3>2
    <3> QED BY <3>1, <3>3
  <2>6. s.got # <<>> /\ Whole(s, f) => o.data = f.expect
    BY <1>2, <1>3, <2>4, <2>5 DEF Holds
  <2> QED BY <2>1, <2>4, <2>6
<1> QED BY <1>2, <1>4, <1>5, <1>6

\* What is put in place is an entry.
LEMMA ResultTyped ==
    ASSUME TransferTyped, TransferInv, NEW s \in sessions, NEW f \in Finish, NEW put
    PROVE  Result(s, f, put) \in Entry /\ s.at \in Devices /\ s.path \in Paths
<1>1. s \in Session /\ SessionFits(s)
  BY DEF TransferTyped, TransferInv, SessionsFit
<1>2. Torn \in Contents
  BY TransferAssumption DEF Torn, Contents
<1>3. Len(s.got) \in Sizes
  <2>1. Len(s.got) \in Nat /\ Len(s.got) <= 2
    BY <1>1 DEF SessionFits, Session
  <2>2. \A k \in Nat : k <= 2 => k \in 0..2
    OBVIOUS
  <2> QED BY <2>1, <2>2, Zenon DEF Sizes
<1>4. f.expect \in Contents /\ f.size \in Sizes /\ s.meta.mtimeMs \in Times
  BY <1>1 DEF Finish, Session, Meta
<1> QED BY <1>1, <1>2, <1>3, <1>4 DEF Result, Entry, Session

\* One upload at most learns what became of its number.
LEMMA UploadsPut ==
    ASSUME UploadsFit, NEW n, NEW put,
           uploads' = {IF u.n = n /\ put # "no" THEN [u EXCEPT !.put = put] ELSE u : u \in uploads}
    PROVE  \/ uploads' = uploads /\ (put = "no" \/ \A u \in uploads : u.n # n)
           \/ \E u \in uploads : /\ u.n = n /\ put # "no"
                                 /\ uploads' = (uploads \ {u}) \cup {[u EXCEPT !.put = put]}
<1>1. CASE put = "no" \/ \A u \in uploads : u.n # n
  BY <1>1
<1>2. CASE put # "no" /\ \E u \in uploads : u.n = n
  <2>1. PICK u \in uploads : u.n = n
    BY <1>2
  <2>2. \A v \in uploads : v.n = n <=> v = u
    BY <2>1 DEF UploadsFit
  <2> DEFINE w == [u EXCEPT !.put = put]
  <2>3. \A v \in uploads : (IF v.n = n /\ put # "no" THEN [v EXCEPT !.put = put] ELSE v)
                           = IF v = u THEN w ELSE v
    BY <1>2, <2>2
  <2>4. uploads' = {IF v = u THEN w ELSE v : v \in uploads}
    BY <2>3
  <2> HIDE DEF w
  <2>5. uploads' = (uploads \ {u}) \cup {w}
    BY <2>4
  <2> QED BY <1>2, <2>1, <2>5 DEF w
<1> QED BY <1>1, <1>2

\* A session is put in place, or comes to nothing.
LEMMA ApplyKeeps ==
    ASSUME RemoteTypeOK, Local, Frame, NEW s \in sessions, Apply(s)
    PROVE  Local'
<1> DEFINE f == Head(s.queue)
           put == Put(s, f)
           verdict == IF put = "whole" THEN "ok" ELSE "error"
           z == [s EXCEPT !.applied = verdict]
<1>1. /\ wire \in Wires /\ OneOnWire(wire) /\ s \in Session /\ SessionFits(s) /\ s.queue # <<>>
      /\ UNCHANGED <<asked, heard, aborted, offered, told, wire>>
      /\ sessions \subseteq Session /\ s.applied = "no"
  BY DEF Local, TransferTyped, TransferInv, OneFinish, SessionsFit, Apply, Finishing
<1>2. sessions' = (sessions \ {s}) \cup {z}
  BY DEF Apply, Replaced
<1>3. uploads' = {IF u.n = f.n /\ put # "no" THEN [u EXCEPT !.put = put] ELSE u : u \in uploads}
  BY DEF Apply
<1>4. fs' = IF put = "no" THEN fs ELSE [fs EXCEPT ![s.at][s.path] = Result(s, f, put)]
  BY DEF Apply
<1>5. IsFinish(f) /\ Finishing(s)
  BY DEF Apply, Finishing, IsFinish
<1>6. s.queue \in Seq(Write \cup Finish) /\ s.at \in Devices
  BY <1>1 DEF Session
<1>7. f = s.queue[1] /\ f \in Write \cup Finish /\ Len(s.queue) \in Nat /\ 1 \in 1..Len(s.queue)
  <2>1. Head(s.queue) = s.queue[1] /\ Len(s.queue) \in Nat /\ Len(s.queue) > 0
        /\ Head(s.queue) \in Write \cup Finish
    BY <1>1, <1>6, Rest
  <2>2. 1 \in 1..Len(s.queue)
    BY <2>1
  <2> HIDE DEF put, verdict, z
  <2> QED BY <2>1, <2>2
<1> HIDE DEF f, put, verdict, z
<1>8. f \in Finish
  BY <1>5, <1>7, ItemKinds
<1>9. put \in {"no", "whole", "damaged"}
  BY <1>8, PutOffered DEF Local, put
<1>10. /\ z \in Session /\ z.id = s.id /\ z.at = s.at /\ z.path = s.path /\ z.kind = s.kind
       /\ z.got = s.got /\ z.queue = s.queue /\ (z.applied = "ok" <=> put = "whole")
  <2>1. verdict \in {"ok", "error"} /\ (verdict = "ok" <=> put = "whole")
    BY DEF verdict
  <2> QED BY <1>1, <2>1 DEF Session, z
<1>11. FinishFits(s.at, s.id, f)
  BY <1>5, <1>7 DEF Local, TransferInv, FinishesFit
<1>12. \/ uploads' = uploads /\ (put = "no" \/ \A u \in uploads : u.n # f.n)
       \/ \E u \in uploads : /\ u.n = f.n /\ put # "no"
                             /\ uploads' = (uploads \ {u}) \cup {[u EXCEPT !.put = put]}
  BY <1>3, UploadsPut DEF Local, TransferInv
<1>13. /\ \A v \in uploads' : v \in Upload /\ \E u \in uploads :
             /\ u.n = v.n /\ u.stage = v.stage /\ u.call = v.call /\ u.expect = v.expect
             /\ u.at = v.at /\ u.session = v.session /\ OfferOf(u) = OfferOf(v)
             /\ (v = u \/ (u.n = f.n /\ v.put = put /\ put # "no" /\ v = [u EXCEPT !.put = put]))
       /\ \A v \in uploads' : v.n = f.n /\ put # "no" => v.put = put
       /\ \A v, w \in uploads' : v.n = w.n => v = w
  <2>0. \A u \in uploads : u \in Upload
    BY DEF Local, TransferTyped
  <2>1. \A u, v \in uploads : u.n = v.n => u = v
    BY DEF Local, TransferInv, UploadsFit
  <2>2. CASE uploads' = uploads /\ (put = "no" \/ \A u \in uploads : u.n # f.n)
    BY <2>0, <2>1, <2>2
  <2>3. CASE \E u \in uploads : /\ u.n = f.n /\ put # "no"
                                /\ uploads' = (uploads \ {u}) \cup {[u EXCEPT !.put = put]}
    <3>1. PICK u \in uploads : /\ u.n = f.n /\ put # "no"
                               /\ uploads' = (uploads \ {u}) \cup {[u EXCEPT !.put = put]}
      BY <2>3
    <3> DEFINE v == [u EXCEPT !.put = put]
    <3>2. /\ v \in Upload /\ u.n = v.n /\ u.stage = v.stage /\ u.call = v.call /\ u.expect = v.expect
          /\ u.at = v.at /\ u.session = v.session /\ OfferOf(u) = OfferOf(v) /\ v.put = put
      BY <1>9, <2>0 DEF Upload, OfferOf
    <3>3. uploads' = (uploads \ {u}) \cup {v}
      BY <3>1
    <3>4. v = [u EXCEPT !.put = put]
      OBVIOUS
    <3> HIDE DEF v
    <3>5. \A x \in uploads : x.n = f.n => x = u
      BY <2>1, <3>1
    <3>6. \A x, w \in uploads' : x.n = w.n => x = w
      BY <2>1, <3>1, <3>2, <3>3, <3>5
    <3>7. \A x \in uploads' : x.n = f.n /\ put # "no" => x.put = put
      BY <3>2, <3>3, <3>5
    <3> QED BY <2>0, <3>1, <3>2, <3>3, <3>4, <3>6, <3>7
  <2> QED BY <1>12, <2>2, <2>3
<1>14. sessions' \subseteq sessions \cup {z}
  BY <1>2
<1>15. TransferTyped'
  <2>1. fs' \in [Devices -> [Paths -> Entry \cup {None}]]
    <3>1. CASE put = "no"
      BY <1>4, <3>1 DEF Local, TransferTyped
    <3>2. CASE put # "no"
      <4>1. Result(s, f, put) \in Entry /\ s.at \in Devices /\ s.path \in Paths
        BY <1>8, ResultTyped DEF Local
      <4> QED BY <1>4, <3>2, <4>1 DEF Local, TransferTyped
    <3> QED BY <3>1, <3>2
  <2>2. uploads' \subseteq Upload /\ sessions' \subseteq Session
    BY <1>1, <1>10, <1>13, <1>14
  <2> QED BY <1>1, <2>1, <2>2 DEF Local, TransferTyped
<1>16. UploadsFit'
  <2>1. ASSUME NEW v \in uploads' PROVE UploadFits(v)'
    <3>1. PICK u \in uploads :
             /\ u.n = v.n /\ u.stage = v.stage
             /\ (v = u \/ (u.n = f.n /\ v.put = put /\ put # "no" /\ v = [u EXCEPT !.put = put]))
      BY <1>13
    <3>2. UploadFits(u) /\ u \in Upload
      BY DEF Local, TransferTyped, TransferInv, UploadsFit
    <3>3. CASE v = u
      BY <1>1, <3>2, <3>3 DEF UploadFits
    <3>4. CASE v # u
      <4>1. u.stage \in {"finish", "abort"} /\ v = [u EXCEPT !.put = put]
        BY <1>11, <3>1, <3>4 DEF FinishFits
      <4> QED BY <1>1, <3>2, <4>1 DEF UploadFits, OfferOf, Upload, Chunks
    <3> QED BY <3>3, <3>4
  <2> QED BY <1>13, <2>1 DEF UploadsFit
<1>17. MessagesFit'
  BY <1>1, MessagesKept DEF Local, TransferInv
<1>18. \A v : Holds(z, v) => Holds(s, v)
  BY <1>10 DEF Holds
<1>19. SessionsFit'
  <2>1. SessionFits(z)
    BY <1>1, <1>5, <1>10, <1>18 DEF SessionFits, Finishing
  <2> QED BY <1>1, <1>14, <2>1, SessionsWith DEF Local, TransferInv
<1>20. NumbersOwned'
  <2>1. ASSUME NEW n \in Numbers, NEW o \in Owners, Owns(n, o), z.id = <<n>>
        PROVE  /\ o \in offered /\ o.kind = "full" /\ o.to = z.at /\ o.path = z.path
               /\ \A v \in Contents : Holds(z, v) => o.data = v
    <3>1. /\ o \in offered /\ o.kind = "full" /\ o.to = s.at /\ o.path = s.path
          /\ \A v \in Contents : Holds(s, v) => o.data = v
      BY <1>10, <2>1 DEF Owns
    <3> QED BY <1>10, <1>18, <3>1
  <2>2. \A v \in uploads' : \E u \in uploads : v.session = u.session /\ OfferOf(v) = OfferOf(u)
    BY <1>13
  <2> QED BY <1>1, <1>14, <2>1, <2>2, NumbersWith DEF Local, TransferInv
<1>21. FinishesFit'
  <2>1. \A i \in 1..Len(z.queue) : IsFinish(z.queue[i]) => FinishFits(z.at, z.id, z.queue[i])
    BY <1>10 DEF Local, TransferInv, FinishesFit
  <2>2. \A v \in uploads' : \E u \in uploads :
               /\ v.n = u.n /\ v.stage = u.stage /\ v.call = u.call /\ v.expect = u.expect
               /\ v.at = u.at /\ v.session = u.session
    BY <1>13
  <2> QED BY <1>1, <1>14, <2>1, <2>2, FinishesWith DEF Local, TransferInv
<1>22. OneFinish'
  <2>1. \A i \in 1..Len(z.queue) : IsFinish(z.queue[i]) =>
             i + 0 \in 1..Len(s.queue) /\ z.queue[i] = s.queue[i + 0]
    BY <1>7, <1>10
  <2> QED BY <1>1, <1>2, <1>7, <1>10, <2>1, OneFinishWith DEF Local, TransferInv
<1>23. OutcomesFit'
  <2>1. ASSUME NEW x \in sessions', x.applied = "ok", NEW v \in uploads', v.n = Head(x.queue).n
        PROVE  v.put = "whole"
    <3>1. PICK u \in uploads : u.n = v.n /\ (v = u \/ u.n = f.n)
      BY <1>13
    <3>2. CASE x = z
      <4>1. v.n = f.n /\ put = "whole"
        BY <1>10, <2>1, <3>2 DEF f
      <4> QED BY <1>13, <4>1
    <3>3. CASE x \in sessions \ {s}
      <4>1. Finishing(x) /\ x \in Session
        BY <1>1, <2>1, <3>3 DEF Local, TransferInv, SessionsFit, SessionFits
      <4>2. x.queue \in Seq(Write \cup Finish) /\ x.queue # <<>> /\ IsFinish(Head(x.queue))
        BY <4>1 DEF Finishing, Session, IsFinish
      <4>3. Head(x.queue) = x.queue[1] /\ 1 \in 1..Len(x.queue)
        BY <4>2, Rest
      <4>4. Head(x.queue).n # f.n
        BY <1>5, <1>7, <3>3, <4>2, <4>3 DEF Local, TransferInv, OneFinish, OneQueued
      <4>5. v = u
        BY <2>1, <3>1, <4>4
      <4> QED BY <2>1, <3>3, <4>5 DEF Local, TransferInv, OutcomesFit
    <3> QED BY <1>2, <3>2, <3>3
  <2>2. ASSUME NEW n PROVE (NoneOnWire(n) => NoneOnWire(n)') /\ (NoneQueued(n) => NoneQueued(n)')
    BY <1>1, <1>2, <1>10 DEF NoneOnWire, NoneQueued
  <2>3. ASSUME NEW d \in Devices, NEW m \in InBox(wire', d), SaysOk(m),
               NEW v \in uploads', v.stage = "finish", v.call = m.id
        PROVE  v.put = "whole" /\ NoneOnWire(v.n)' /\ NoneQueued(v.n)'
    <3>1. PICK u \in uploads : /\ u.n = v.n /\ u.stage = v.stage /\ u.call = v.call
                               /\ (v = u \/ u.n = f.n)
      BY <1>13
    <3>2. u.put = "whole" /\ NoneOnWire(u.n) /\ NoneQueued(u.n)
      BY <1>1, <2>3, <3>1 DEF Local, TransferInv, OutcomesFit
    <3>3. u.n # f.n
      BY <1>5, <1>7, <3>2 DEF NoneQueued
    <3> QED BY <2>2, <3>1, <3>2, <3>3
  <2> QED BY <2>1, <2>3 DEF OutcomesFit
<1>24. TransferInv'
  BY <1>16, <1>17, <1>19, <1>20, <1>21, <1>22, <1>23 DEF TransferInv
<1>25. \A x \in sessions' : \A i \in 1..Len(x.queue) : IsFinish(x.queue[i]) => x.queue[i].id # asked
  BY <1>2, <1>10, QueueIdTyped
<1>26. RunFits' /\ CallersFit' /\ AnswersFit'
  <2>1. \/ uploads' \subseteq uploads
        \/ \E u \in uploads : \E v : /\ uploads' = (uploads \ {u}) \cup {v}
                                     /\ v.caller = u.caller /\ v.at = u.at
    <3>1. \A u \in uploads : LET v == [u EXCEPT !.put = put] IN v.caller = u.caller /\ v.at = u.at
      BY DEF Local, TransferTyped, Upload
    <3> QED BY <1>12, <3>1
  <2> QED BY <1>1, <1>25, <2>1, RunKept
<1> QED BY <1>15, <1>24, <1>26 DEF Local

\* Every step of uploads and sessions keeps their invariant.
LEMMA TransferKeeps ==
    ASSUME RemoteTypeOK, Local, Frame, UploadProgress \/ \E s \in sessions : Sweep(s)
    PROVE  Local'
<1>1. CASE \E u \in uploads : Hash(u) \/ Requests(u) \/ SendsChunk(u)
  BY <1>1, HashKeeps, RequestsKeeps, SendsChunkKeeps
<1>2. ASSUME NEW d \in Devices, NEW t \in Transports, wire[d][t] # <<>>, TransferAnswered(d, t)
      PROVE  Local'
  BY <1>2, TransferAnsweredKeeps
<1>3. ASSUME NEW d \in Devices, NEW t \in Transports, wire[d][t] # <<>>, TransferHandled(d, t)
      PROVE  Local'
  <2> DEFINE m == Head(wire[d][t])
  <2>1. /\ ~IsAnswer(m) /\ UNCHANGED <<fs, uploads, heard, offered, told>>
        /\ \/ HandleStart(d, t, m) \/ HandleChunk(d, t, m)
           \/ HandleFinish(d, t, m) \/ HandleAbort(d, t, m)
    BY <1>3 DEF TransferHandled
  <2> HIDE DEF m
  <2>2. m = Head(wire[d][t])
    BY DEF m
  <2> QED BY <1>3, <2>1, <2>2, HandleStartKeeps, HandleChunkKeeps, HandleFinishKeeps, HandleAbortKeeps
<1>4. CASE \E s \in sessions : WriteChunk(s) \/ Apply(s) \/ FinishEnds(s)
  BY <1>4, WriteChunkKeeps, ApplyKeeps, FinishEndsKeeps
<1>5. CASE \E s \in sessions : Sweep(s)
  BY <1>5, SweepKeeps
<1> QED BY <1>1, <1>2, <1>3, <1>4, <1>5 DEF UploadProgress

(******************************** the run **********************************)

\* What the run and the links keep is of its type.
LinkTyped ==
    /\ net \in Nets
    /\ relaySock \in [Devices -> {"down", "ready", "rejected"}]
    /\ devices \subseteq Devices /\ lateClose \subseteq Devices
    /\ known \subseteq Devices /\ lan \subseteq Devices
    /\ p2p \in {"none", "possible", "open"}

RunTyped ==
    /\ cache \in Listing \cup {None}
    /\ stored \in Records /\ newStored \in Records
    /\ phase \in {"idle", "manifest", "srcmoves", "dstmoves", "visit", "delete"}
    /\ walked \in [Devices -> Listing]
    /\ todo \subseteq Paths /\ touched \subseteq Paths /\ blamed \subseteq Paths
    /\ movedSums \in [Paths -> Contents \cup {None}]
    /\ cur \in Cursor \cup {None}
    /\ job \in Jobs /\ budget \in Budget /\ clock \in 0..MaxClock

Core == Local /\ LinkTyped /\ RunTyped

\* An upload begins under a number nothing refers to.
LEMMA BegunKeeps ==
    ASSUME RemoteTypeOK, TransferInv, NEW n \in FreshNumbers, NEW d \in Devices, NEW caller \in Callers,
           NEW p \in Paths, NEW kind \in {"full", "delta"}, NEW meta \in Meta, NEW e \in Entry,
           NEW basis \in Contents \cup {None},
           NEW u, u = Uploading(n, d, caller, p, kind, meta, e, basis), Begun(u),
           sessions' = sessions, OneOnWire(wire'),
           \A x \in Devices : InBox(wire', x) \subseteq InBox(wire, x)
    PROVE  /\ TransferInv' /\ uploads' \subseteq Upload
           /\ u.caller = caller /\ u.at = d /\ u.n = n /\ u.n \in Numbers /\ u.put = "no"
           /\ uploads' = uploads \cup {u}
           /\ offered' = offered \cup {OfferOf(u)} /\ OfferOf(u) \in Delivery!Offer
           /\ OfferOf(u).data = e.data /\ u.expect = e.data
<1>1. /\ n \in Numbers /\ \A v \in uploads : v.n # n
      /\ \A s \in sessions : s.id # <<n>>
      /\ \A x \in Devices : \A m \in InBox(wire, x) :
            /\ Is(m, "start") \/ Is(m, "chunk") \/ Is(m, "finish") => m.session # <<n>>
            /\ Is(m, "finish") => m.n # n
      /\ \A s \in sessions : \A i \in 1..Len(s.queue) : IsFinish(s.queue[i]) => s.queue[i].n # n
  BY FreshNumber
<1> DEFINE session == IF kind = "delta" THEN <<p, meta.size, meta.mtimeMs>> ELSE <<n>>
           stage == IF kind = "delta" THEN "hash" ELSE "start"
<1>2. session \in SessionIds
  BY <1>1 DEF SessionIds, Meta
<1>3. e.data \in Contents /\ e.size \in Sizes
  BY DEF Entry
<1>4. stage \in {"hash", "start"} /\ (kind = "full" => stage = "start") /\ (stage = "hash" => kind = "delta")
  OBVIOUS
<1>5. /\ kind = "full" => session = <<n>>
      /\ kind = "delta" => session \in DeltaIds /\ session[1] = p
  BY DEF DeltaIds, Meta
<1>6. /\ u.n = n /\ u.at = d /\ u.caller = caller /\ u.path = p /\ u.kind = kind /\ u.meta = meta
      /\ u.chunk = [data |-> e.data, basis |-> basis] /\ u.size = e.size /\ u.expect = e.data
      /\ u.stage = stage /\ u.session = session /\ u.seq = 0 /\ u.call = 0 /\ u.put = "no"
  BY DEF Uploading
<1>7. u \in Upload
  <2>1. 0 \in 0..MaxCalls /\ 0 \in 0..2
    BY TransferAssumption
  <2>2. [data |-> e.data, basis |-> basis] \in Chunk
    BY <1>3 DEF Chunk
  <2>3. u = [n |-> n, at |-> d, caller |-> caller, path |-> p, kind |-> kind, meta |-> meta,
             chunk |-> [data |-> e.data, basis |-> basis], size |-> e.size, expect |-> e.data,
             stage |-> stage, session |-> session, seq |-> 0, call |-> 0, put |-> "no"]
    BY DEF Uploading
  <2> HIDE DEF stage, session
  <2> QED BY <1>1, <1>2, <1>3, <1>4, <2>1, <2>2, <2>3 DEF Upload
<1> HIDE DEF stage, session
<1>8. uploads' = uploads \cup {u} /\ offered' = offered \cup {OfferOf(u)}
  BY DEF Begun, OfferOf
<1>9. OfferOf(u).data = e.data /\ OfferOf(u).kind = kind /\ OfferOf(u).to = Other(d) /\ OfferOf(u).path = p
  BY <1>6 DEF OfferOf
<1>10. OfferOf(u) \in Delivery!Offer
  <2>1. Other(d) \in Devices
    BY Two
  <2> QED BY <1>3, <1>6, <2>1 DEF OfferOf, Delivery!Offer, Delivery!Kinds
<1>11. UploadsFit'
  <2>1. \A v : UploadFits(v) => UploadFits(v)'
    BY <1>8 DEF UploadFits, Chunks
  <2>2. UploadFits(u)'
    BY <1>4, <1>5, <1>6, <1>8 DEF UploadFits
  <2>3. \A v \in uploads' : UploadFits(v)'
    BY <1>8, <2>1, <2>2 DEF TransferInv, UploadsFit
  <2>4. \A v, w \in uploads' : v.n = w.n => v = w
    BY <1>1, <1>6, <1>8 DEF TransferInv, UploadsFit
  <2> QED BY <2>3, <2>4 DEF UploadsFit
<1>12. MessagesFit' /\ SessionsFit'
  BY <1>8, MessagesKept, SessionsKept DEF TransferInv
<1>13. NumbersOwned'
  <2> SUFFICES ASSUME NEW k \in Numbers PROVE \E o \in Owners : Owns(k, o)'
    BY DEF NumbersOwned, Owners, Delivery!Offer, Delivery!Kinds
  <2>1. u.session = <<k>> => k = n /\ kind = "full"
    BY <1>5, <1>6, Identifiers
  <2>2. CASE k = n
    <3> DEFINE o == OfferOf(u)
    <3>1. \A v \in uploads : v.session # <<n>>
      <4> SUFFICES ASSUME NEW v \in uploads, v.session = <<n>> PROVE FALSE
        OBVIOUS
      <4>1. UploadFits(v) /\ v \in Upload
        BY DEF TransferInv, UploadsFit, RemoteTypeOK, TransferTypeOK
      <4>2. v.kind = "full"
        BY <4>1, Identifiers DEF UploadFits, Upload
      <4>3. <<v.n>> = <<n>>
        BY <4>1, <4>2 DEF UploadFits
      <4> QED BY <1>1, <4>3, Identifiers
    <3>2. \A v \in uploads' : v.session = <<k>> => OfferOf(v) = o
      BY <1>8, <2>2, <3>1
    <3>3. \A x \in Devices : \A m \in InBox(wire', x) :
            /\ Is(m, "start") /\ m.session = <<k>>
                  => o \in offered' /\ o.kind = "full" /\ o.to = x /\ o.path = m.path
            /\ Is(m, "chunk") /\ m.session = <<k>> => o.data = m.write.chunk.data
      BY <1>1, <2>2
    <3>4. \A s \in sessions' : s.id = <<k>> =>
            /\ o \in offered' /\ o.kind = "full" /\ o.to = s.at /\ o.path = s.path
            /\ \A v \in Contents : Holds(s, v) => o.data = v
      BY <1>1, <2>2
    <3> HIDE DEF o
    <3>5. Owns(k, o)'
      BY Zenon, <3>2, <3>3, <3>4 DEF Owns
    <3> QED BY <1>10, <3>5 DEF o, Owners
  <2>3. CASE k # n
    <3>1. PICK o \in Owners : Owns(k, o)
      BY DEF TransferInv, NumbersOwned
    <3>2. \A v \in uploads' : v.session = <<k>> => OfferOf(v) = o
      BY <1>8, <2>1, <2>3, <3>1 DEF Owns
    <3>3. \A x \in Devices : \A m \in InBox(wire', x) :
            /\ Is(m, "start") /\ m.session = <<k>>
                  => o \in offered' /\ o.kind = "full" /\ o.to = x /\ o.path = m.path
            /\ Is(m, "chunk") /\ m.session = <<k>> => o.data = m.write.chunk.data
      BY <1>8, <3>1 DEF Owns
    <3>4. \A s \in sessions' : s.id = <<k>> =>
            /\ o \in offered' /\ o.kind = "full" /\ o.to = s.at /\ o.path = s.path
            /\ \A v \in Contents : Holds(s, v) => o.data = v
      BY <1>8, <3>1 DEF Owns
    <3>5. Owns(k, o)'
      BY Zenon, <3>2, <3>3, <3>4 DEF Owns
    <3> QED BY <3>5
  <2> QED BY <2>2, <2>3
<1>14. FinishesFit'
  <2>1. ASSUME NEW x, NEW z, NEW w, w.n # n, FinishFits(x, z, w)
        PROVE  FinishFits(x, z, w)'
    BY <1>4, <1>6, <1>8, <2>1 DEF FinishFits
  <2>2. \A x \in Devices : \A m \in InBox(wire', x) : Is(m, "finish") => FinishFits(x, m.session, m)'
    BY <1>1, <2>1 DEF TransferInv, FinishesFit
  <2>3. \A s \in sessions' : \A i \in 1..Len(s.queue) :
           IsFinish(s.queue[i]) => FinishFits(s.at, s.id, s.queue[i])'
    BY <1>1, <2>1 DEF TransferInv, FinishesFit
  <2>4. \A x \in Devices : \A m \in InBox(wire', x) : Is(m, "start") \/ Is(m, "abort") =>
            \A v \in uploads' : v.call = m.id => v.stage # "finish"
    BY <1>4, <1>6, <1>8 DEF TransferInv, FinishesFit
  <2> QED BY <2>2, <2>3, <2>4 DEF FinishesFit
<1>15. OneFinish'
  BY OneFinishKept DEF TransferInv
<1>16. OutcomesFit'
  <2>1. \A k : (NoneOnWire(k) => NoneOnWire(k)') /\ (NoneQueued(k) => NoneQueued(k)')
    BY DEF NoneOnWire, NoneQueued
  <2>2. ASSUME NEW s \in sessions', s.applied = "ok", NEW v \in uploads', v.n = Head(s.queue).n
        PROVE  v.put = "whole"
    <3>1. Finishing(s) /\ s \in Session
      BY <2>2 DEF TransferInv, SessionsFit, SessionFits, RemoteTypeOK, TransferTypeOK
    <3>2. s.queue # <<>> /\ IsFinish(Head(s.queue)) /\ s.queue \in Seq(Write \cup Finish)
      BY <3>1 DEF Finishing, IsFinish, Session
    <3>3. Head(s.queue) = s.queue[1] /\ 1 \in 1..Len(s.queue)
      BY <3>2, Rest
    <3>4. v # u
      BY <1>1, <1>6, <2>2, <3>2, <3>3
    <3> QED BY <1>8, <2>2, <3>4 DEF TransferInv, OutcomesFit
  <2>3. ASSUME NEW x \in Devices, NEW m \in InBox(wire', x), SaysOk(m),
               NEW v \in uploads', v.stage = "finish", v.call = m.id
        PROVE  v.put = "whole" /\ NoneOnWire(v.n)' /\ NoneQueued(v.n)'
    <3>1. v \in uploads
      BY <1>4, <1>6, <1>8, <2>3
    <3> QED BY <2>1, <2>3, <3>1 DEF TransferInv, OutcomesFit
  <2> QED BY <2>2, <2>3 DEF OutcomesFit
<1>17. TransferInv'
  BY <1>11, <1>12, <1>13, <1>14, <1>15, <1>16 DEF TransferInv
<1>18. uploads' \subseteq Upload
  BY <1>7, <1>8 DEF RemoteTypeOK, TransferTypeOK
<1> QED BY <1>1, <1>6, <1>8, <1>9, <1>10, <1>17, <1>18

\* A run without an upload of its own.
NoUpload == \A u \in uploads : u.caller # <<>>

\* The run's request goes out under a fresh identifier, or comes to nothing at once.
LEMMA AsksKeeps ==
    ASSUME RemoteTypeOK, Local, NoUpload, NEW m, NEW op \in {"manifest", "signature", "send", "delete", "move"},
           \A id \in CallIds : LET x == [m EXCEPT !.id = id]
                               IN  x \in Message /\ x.id = id /\ ~IsAnswer(x) /\ x.op = op,
           Asks(m), UNCHANGED <<fs, uploads, sessions, offered, told, aborted>>,
           Wanted' = AnswerTo(op)
    PROVE  /\ TransferTyped' /\ TransferInv' /\ AnswersFit' /\ NoUpload'
           /\ heard' = None \/ (heard' = Unheard /\ asked' = 0)
<1>0. wire \in Wires /\ OneOnWire(wire)
  BY DEF Local, TransferTyped, TransferInv, OneFinish
<1>1. CASE CanReach("A")
  <2>1. PICK id \in FreshCalls : /\ asked' = id /\ heard' = None
                                 /\ wire' = Sent(wire, "A", [m EXCEPT !.id = id])
    BY <1>1 DEF Asks
  <2> DEFINE x == [m EXCEPT !.id = id]
  <2>2. /\ id \in CallIds /\ id # 0
        /\ \A u \in uploads : u.caller # <<>> => u.caller[1] # id
        /\ \A d \in Devices : \A y \in InBox(wire, d) : "id" \in DOMAIN y => y.id # id
        /\ \A s \in sessions : \A i \in 1..Len(s.queue) : IsFinish(s.queue[i]) => s.queue[i].id # id
    BY FreshCall
  <2>3. x \in Message /\ x.id = id /\ ~IsAnswer(x) /\ x.op = op
    BY <2>2
  <2>4. Harmless(x)
    BY <2>3 DEF Harmless, Is, SaysOk
  <2>5. "A" \in Devices /\ "relay" \in Transports
    BY DEF Devices, Transports
  <2> HIDE DEF x
  <2>6. wire' \in Wires /\ Carries(wire', wire, Other("A"), x) /\ OneOnWire(wire')
    BY <1>0, <2>1, <2>3, <2>4, <2>5, SentWire DEF Harmless, x
  <2>7. \A d \in Devices : \A y \in InBox(wire', d) : y \in InBox(wire, d) \/ y = x
    BY <2>6 DEF Carries
  <2>8. TransferInv'
    BY <2>4, <2>6, <2>7, QuietStep DEF Local
  <2>9. id \in 0..MaxCalls
    BY <2>2 DEF CallIds
  <2>10. TransferTyped'
    BY <2>1, <2>6, <2>9 DEF Local, TransferTyped
  <2>11. AnswersFit'
    <3>1. \A d \in Devices : \A y \in InBox(wire', d) : "id" \in DOMAIN y /\ y.id = asked' =>
              Wanted' = IF IsAnswer(y) THEN y.answer ELSE AnswerTo(y.op)
      BY <2>1, <2>2, <2>3, <2>7
    <3>2. \A u \in uploads' : u.caller # <<>> => u.caller[1] # asked'
      BY <2>1, <2>2
    <3>3. \A s \in sessions' : \A i \in 1..Len(s.queue) : IsFinish(s.queue[i]) => s.queue[i].id # asked'
      BY <2>1, <2>2
    <3> QED BY <3>1, <3>2, <3>3 DEF AnswersFit
  <2> QED BY <2>1, <2>8, <2>10, <2>11 DEF NoUpload
<1>2. CASE ~CanReach("A")
  <2>1. asked' = 0 /\ heard' = Unheard /\ wire' = wire
    BY <1>2 DEF Asks
  <2>2. TransferInv'
    BY <1>0, <2>1, QuietStep DEF Local
  <2>3. 0 \in 0..MaxCalls
    BY TransferAssumption
  <2>4. Unheard \in Heard
    BY DEF Unheard, Heard
  <2>5. TransferTyped'
    BY <2>1, <2>3, <2>4 DEF Local, TransferTyped
  <2>6. AnswersFit'
    BY <2>1 DEF AnswersFit
  <2> QED BY <2>1, <2>2, <2>5, <2>6 DEF NoUpload
<1> QED BY <1>1, <1>2

\* None is neither a cursor nor an entry.
LEMMA NotNone == None \notin Cursor /\ None \notin Entry /\ None \notin Nat
BY RemoteNone

\* What a request or an upload came to, by its kind.
LEMMA HeardTypes ==
    ASSUME NEW h \in Heard
    PROVE  /\ h.answer = "manifest" => h.listing \in Listing
           /\ h.answer = "signature" => h.basis \in Contents \cup {None}
           /\ h.answer = "none" => ~h.ok
           /\ h.answer \in {"upload", "send"} => h.sum \in Contents \cup {None}
           /\ "sum" \in DOMAIN h => h.sum \in Contents \cup {None}
           /\ h.ok \in BOOLEAN
<1>1. CASE h \in [answer : {"none"}, ok : {FALSE}]
  BY <1>1
<1>2. CASE h \in [answer : {"upload"}, ok : BOOLEAN, sum : Contents]
  BY <1>2
<1>3. CASE h \in TransferMessage \cup RemoteMessage /\ IsAnswer(h)
  <2>1. CASE h \in [answer : {"transfer"}, id : CallIds, ok : BOOLEAN, next : 0..2]
    BY <2>1
  <2>2. CASE h \in [answer : {"send"}, id : CallIds, ok : BOOLEAN, sum : Contents \cup {None}]
    BY <2>2
  <2>3. CASE h \in [answer : {"manifest"}, id : CallIds, ok : {TRUE}, listing : Listing]
    BY <2>3
  <2>4. CASE h \in [answer : {"signature"}, id : CallIds, ok : BOOLEAN, basis : Contents \cup {None}]
    BY <2>4
  <2>5. CASE h \in [answer : {"done"}, id : CallIds, ok : BOOLEAN]
    BY <2>5
  <2>6. /\ h \notin [op : {"start"}, id : CallIds, session : SessionIds,
                       kind : {"full", "delta"}, path : Paths, meta : Meta]
        /\ h \notin [op : {"chunk"}, session : SessionIds, write : Write]
        /\ h \notin [op : {"finish"}, id : CallIds, session : SessionIds, n : Numbers,
                     expect : Contents, size : Sizes]
        /\ h \notin [op : {"abort"}, id : CallIds, session : SessionIds]
    BY <1>3 DEF IsAnswer
  <2>7. /\ h \notin [op : {"manifest"}, id : CallIds]
        /\ h \notin [op : {"signature", "delete"}, id : CallIds, path : Paths]
        /\ h \notin [op : {"send"}, id : CallIds, path : Paths, basis : Contents \cup {None}]
        /\ h \notin [op : {"move"}, id : CallIds, from : Paths, to : Paths, meta : Meta]
    BY <1>3 DEF IsAnswer
  <2> QED BY Zenon, <1>3, <2>1, <2>2, <2>3, <2>4, <2>5, <2>6, <2>7 DEF TransferMessage, RemoteMessage
<1> QED BY <1>1, <1>2, <1>3 DEF Heard

\* A run that waits for nothing, and the engine that waits with it.
LEMMA Waiting ==
    ASSUME RunFits, CallersFit
    PROVE  /\ cur = None /\ phase # "manifest" => asked = 0 /\ heard = None
           /\ heard # None => asked = 0
           /\ cur = None \/ heard # None => NoUpload
           /\ cur # None /\ cur.step = "signature" => NoUpload
           /\ cur # None /\ cur.action # "copy-to-dst" => NoUpload
BY DEF RunFits, CallersFit, NoUpload

\* The run ends, well or not.
LEMMA RunOverKeeps ==
    ASSUME RemoteTypeOK, Core, RunOver, asked = 0, NoUpload,
           UNCHANGED <<fs, uploads, offered, asked, wire, sessions, told, NoLink, settings, cache>>,
           stored' \in Records, blamed' \subseteq Paths, touched' \subseteq Paths
    PROVE  Core'
<1>0. OneOnWire(wire)
  BY DEF Core, Local, TransferInv, OneFinish
<1>1. TransferTyped'
  BY DEF Core, Local, TransferTyped, RunOver
<1>2. TransferInv'
  BY <1>0, QuietStep DEF Core, Local
<1>3. RunFits' /\ CallersFit' /\ AnswersFit'
  BY DEF Core, Local, RunOver, RunFits, CallersFit, AnswersFit, NoUpload
<1>4. LinkTyped'
  BY DEF Core, LinkTyped, NoLink
<1>5. RunTyped'
  <2>1. None2 \in [Devices -> Listing]
    BY DEF None2, Listing
  <2> QED BY <2>1 DEF Core, RunTyped, RunOver, Records, settings
<1> QED BY <1>1, <1>2, <1>3, <1>4, <1>5 DEF Core, Local

\* The same for a run that fails.
LEMMA RunFailsKeeps ==
    ASSUME RemoteTypeOK, Core, RunFails, asked = 0, NoUpload
    PROVE  Core'
<1>1. UNCHANGED <<fs, uploads, offered, asked, wire, sessions, told, NoLink, settings, cache>>
  BY DEF RunFails, Still, UploadsOnly
<1>2. stored' \in Records /\ blamed' \subseteq Paths /\ touched' \subseteq Paths /\ RunOver
  BY DEF RunFails, RemoteTypeOK
<1> QED BY <1>1, <1>2, RunOverKeeps

\* The run goes on without a word to anybody.
LEMMA RunGoesOn ==
    ASSUME RemoteTypeOK, Core, UNCHANGED <<uploads, offered, asked, wire, sessions, told, NoLink>>,
           fs' \in [Devices -> [Paths -> Entry \cup {None}]],
           aborted' \in BOOLEAN, heard' \in Heard \cup {None},
           asked # 0 => Wanted' = Wanted, RunFits', CallersFit', RunTyped'
    PROVE  Core'
<1>0. OneOnWire(wire)
  BY DEF Core, Local, TransferInv, OneFinish
<1>1. TransferTyped'
  BY DEF Core, Local, TransferTyped
<1>2. TransferInv'
  BY <1>0, QuietStep DEF Core, Local
<1>3. AnswersFit'
  <2>1. CASE asked = 0
    BY <2>1 DEF AnswersFit
  <2>2. CASE asked # 0
    BY <2>2 DEF Core, Local, AnswersFit
  <2> QED BY <2>1, <2>2
<1>4. LinkTyped'
  BY DEF Core, LinkTyped, NoLink
<1> QED BY <1>1, <1>2, <1>3, <1>4 DEF Core, Local

\* A run starts with a walk, and asks for the listing.
LEMMA StartRunKeeps ==
    ASSUME RemoteTypeOK, Core, StartRun
    PROVE  Core'
<1>1. /\ phase = "idle" /\ phase' = "manifest" /\ cur' = cur /\ todo' = todo
      /\ Asks([op |-> "manifest", id |-> 0])
      /\ UNCHANGED <<fs, uploads, offered, sessions, told, aborted, stored, job, NoLink>>
  BY DEF StartRun, UploadsOnly
<1>2. cur = None /\ NoUpload
  BY <1>1, Waiting DEF Core, Local, RunFits
<1>3. ASSUME NEW id \in CallIds
      PROVE  LET x == [[op |-> "manifest", id |-> 0] EXCEPT !.id = id]
             IN  x \in Message /\ x.id = id /\ ~IsAnswer(x) /\ x.op = "manifest"
  <2>1. [[op |-> "manifest", id |-> 0] EXCEPT !.id = id] = [op |-> "manifest", id |-> id]
    OBVIOUS
  <2> QED BY <2>1 DEF Message, RemoteMessage, IsAnswer
<1>4. Wanted' = AnswerTo("manifest")
  BY <1>1 DEF Wanted, AnswerTo
<1>5. /\ TransferTyped' /\ TransferInv' /\ AnswersFit' /\ NoUpload'
      /\ heard' = None \/ (heard' = Unheard /\ asked' = 0)
  BY <1>1, <1>2, <1>3, <1>4, AsksKeeps DEF Core
<1>6. RunFits'
  BY <1>1, <1>2, <1>5 DEF RunFits, Unheard
<1>7. CallersFit'
  BY <1>1, <1>5 DEF Core, Local, CallersFit, NoUpload
<1>8. LinkTyped'
  BY <1>1 DEF Core, LinkTyped, NoLink
<1>9. RunTyped'
  <2>1. ListingOf("A") \in Listing
    BY DEF ListingOf, Listing, MetaOf, Entry, Meta, Core, Local, TransferTyped, Devices
  <2>2. walked' \in [Devices -> Listing]
    BY <2>1 DEF StartRun, None2, Listing
  <2>3. budget' \in Budget
    <3>1. budget \in Budget /\ budget.runs > 0 /\ budget.runs \in 0..MaxRuns
      BY DEF StartRun, Core, RunTyped, Budget
    <3>2. budget.runs - 1 \in 0..MaxRuns
      BY <3>1, RemoteAssumption
    <3> DEFINE r == budget.runs - 1
    <3>3. budget' = [budget EXCEPT !.runs = r]
      BY DEF StartRun
    <3> HIDE DEF r
    <3> QED BY <3>1, <3>2, <3>3 DEF Budget, r
  <2>4. touched' \subseteq Paths
    BY DEF StartRun, Core, RunTyped
  <2> QED BY <1>1, <2>2, <2>3, <2>4 DEF StartRun, Core, RunTyped
<1> QED BY <1>5, <1>6, <1>7, <1>8, <1>9 DEF Core, Local

\* The listing arrives, or does not.
LEMMA HearListingKeeps ==
    ASSUME RemoteTypeOK, Core, HearListing
    PROVE  Core'
<1>1. asked = 0 /\ NoUpload /\ cur = None /\ phase = "manifest" /\ heard # None
  BY Waiting DEF Core, Local, RunFits, HearListing
<1>2. CASE ~heard.ok \/ aborted
  BY <1>1, <1>2, RunFailsKeeps DEF HearListing
<1>3. CASE ~(~heard.ok \/ aborted)
  <2>1. /\ walked' = [walked EXCEPT !["B"] = heard.listing]
        /\ phase' = "srcmoves" /\ heard' = None
        /\ UNCHANGED <<todo, cur, newStored, movedSums, fs, UploadsOnly, asked, aborted, wire,
                       stored, blamed, diverged, touched, Still>>
    BY <1>3 DEF HearListing
  <2>2. heard.listing \in Listing
    <3>1. heard \in Heard /\ heard.answer \in {"manifest", "none"} /\ heard.ok
      BY <1>1, <1>3 DEF Core, Local, TransferTyped, RunFits, Wanted
    <3> QED BY <3>1, HeardTypes
  <2>3. RunTyped'
    BY <2>1, <2>2 DEF Core, RunTyped, Still, settings, Devices
  <2>4. RunFits'
    BY <1>1, <2>1 DEF RunFits
  <2>5. CallersFit'
    BY <1>1, <2>1 DEF Core, Local, CallersFit, NoUpload, UploadsOnly
  <2> QED BY <1>1, <2>1, <2>3, <2>4, <2>5, RunGoesOn DEF Core, Local, TransferTyped, UploadsOnly, Still
<1> QED BY <1>2, <1>3

\* A rename of the source's is replayed, or there is none left.
LEMMA SrcMovesKeeps ==
    ASSUME RemoteTypeOK, Core, SrcMoves
    PROVE  Core'
<1>1. asked = 0 /\ heard = None /\ NoUpload /\ cur = None /\ phase = "srcmoves"
  BY Waiting DEF Core, Local, SrcMoves
<1>2. CASE aborted \/ \E q \in Added("src") : fs["A"][q] = None
  BY <1>1, <1>2, RunFailsKeeps DEF SrcMoves
<1>3. CASE ~(aborted \/ \E q \in Added("src") : fs["A"][q] = None)
  <2>0. UNCHANGED <<walked, newStored, movedSums, fs, UploadsOnly, aborted,
                    stored, blamed, diverged, touched, Still>>
    BY <1>3 DEF SrcMoves
  <2>1. CASE Renamed("src") = {}
    <3>1. /\ \/ job.mode = "bidir" /\ phase' = "dstmoves" /\ UNCHANGED todo
             \/ phase' = "visit" /\ todo' = ToVisit
          /\ UNCHANGED <<cur, asked, heard, wire>>
      BY <1>3, <2>1 DEF SrcMoves
    <3>2. RunTyped'
      BY <2>0, <3>1 DEF Core, RunTyped, Still, settings, ToVisit
    <3>3. RunFits'
      <4>1. CASE phase' = "visit" /\ todo' = ToVisit
        BY <1>1, <2>0, <3>1, <4>1 DEF RunFits, ToVisit, Still, settings
      <4>2. CASE phase' = "dstmoves"
        BY <1>1, <3>1, <4>2 DEF RunFits
      <4> QED BY <3>1, <4>1, <4>2
    <3>4. CallersFit'
      BY <1>1, <2>0, <3>1 DEF Core, Local, CallersFit, NoUpload, UploadsOnly
    <3> QED BY <1>1, <2>0, <3>1, <3>2, <3>3, <3>4, RunGoesOn
            DEF Core, Local, TransferTyped, UploadsOnly, Still
  <2>2. CASE Renamed("src") # {}
    <3>1. PICK m \in Renamed("src") :
             /\ cur' = [path |-> m[2], from |-> m[1], action |-> "move", step |-> "transfer"]
             /\ Asks([op |-> "move", id |-> 0, from |-> m[1], to |-> m[2], meta |-> walked["A"][m[2]]])
             /\ UNCHANGED <<phase, todo>>
      BY <1>3, <2>2 DEF SrcMoves
    <3>2. m[1] \in Missing("src") /\ m[2] \in Added("src")
      BY DEF Renamed
    <3>3. m[1] \in Paths /\ m[2] \in Paths /\ stored[m[1]] # None /\ walked["A"][m[2]] # None
      BY <3>2 DEF Missing, Added, Changed
    <3>4. walked["A"][m[2]] \in Meta
      BY <3>3 DEF Core, RunTyped, Listing, Devices
    <3> DEFINE y == [op |-> "move", id |-> 0, from |-> m[1], to |-> m[2], meta |-> walked["A"][m[2]]]
    <3>5. ASSUME NEW id \in CallIds
          PROVE  LET x == [y EXCEPT !.id = id]
                 IN  x \in Message /\ x.id = id /\ ~IsAnswer(x) /\ x.op = "move"
      <4>1. [y EXCEPT !.id = id] = [op |-> "move", id |-> id, from |-> m[1], to |-> m[2],
                                    meta |-> walked["A"][m[2]]]
        OBVIOUS
      <4> DEFINE x == [y EXCEPT !.id = id]
      <4>2. x \in [op : {"move"}, id : CallIds, from : Paths, to : Paths, meta : Meta]
        BY <3>3, <3>4, <4>1
      <4>3. x.id = id /\ x.op = "move" /\ ~IsAnswer(x)
        BY <4>1 DEF IsAnswer
      <4> HIDE DEF x
      <4>4. x \in Message
        BY <4>2 DEF Message, RemoteMessage
      <4> QED BY <4>3, <4>4 DEF x
    <3>6. cur' \in Cursor /\ cur' # None /\ cur'.action = "move" /\ cur'.step = "transfer"
          /\ cur'.from = m[1]
      BY <3>1, <3>3, NotNone DEF Cursor
    <3>7. Wanted' = AnswerTo("move")
      BY <1>1, <3>1, <3>6 DEF Wanted, AnswerTo
    <3>8. Asks(y)
      BY <3>1
    <3> HIDE DEF y
    <3>9. /\ TransferTyped' /\ TransferInv' /\ AnswersFit' /\ NoUpload'
          /\ heard' = None \/ (heard' = Unheard /\ asked' = 0)
      BY <1>1, <2>0, <3>5, <3>7, <3>8, AsksKeeps DEF Core, UploadsOnly, Still
    <3>10. RunFits'
      <4>1. stored' = stored
        BY <2>0
      <4> QED BY <1>1, <3>1, <3>3, <3>6, <3>9, <4>1 DEF RunFits, Unheard
    <3>11. CallersFit'
      BY <2>0, <3>9 DEF Core, Local, CallersFit, NoUpload, UploadsOnly
    <3>12. LinkTyped'
      BY <2>0 DEF Core, LinkTyped, NoLink, Still
    <3>13. RunTyped'
      BY <2>0, <3>1, <3>6 DEF Core, RunTyped, Still, settings
    <3> QED BY <3>9, <3>10, <3>11, <3>12, <3>13 DEF Core, Local
  <2> QED BY <2>1, <2>2
<1> QED BY <1>2, <1>3

\* A file renamed in a tree.
LEMMA MovedTyped ==
    ASSUME NEW tree \in [Paths -> Entry \cup {None}], NEW p \in Paths, NEW q \in Paths,
           NEW mtimeMs \in Times, tree[p] # None
    PROVE  /\ Moved(tree, p, q, mtimeMs) \in [Paths -> Entry \cup {None}]
           /\ \A r \in Paths : Moved(tree, p, q, mtimeMs)[r] # None =>
                 \E o \in Paths : tree[o] # None /\ Moved(tree, p, q, mtimeMs)[r].data = tree[o].data
<1> DEFINE e == [tree[p] EXCEPT !.mtimeMs = mtimeMs]
<1>1. e \in Entry /\ e.data = tree[p].data
  BY DEF Entry
<1>2. Moved(tree, p, q, mtimeMs) = [tree EXCEPT ![q] = e, ![p] = None]
  BY DEF Moved
<1> HIDE DEF e
<1>3. [tree EXCEPT ![q] = e, ![p] = None] \in [Paths -> Entry \cup {None}]
  BY <1>1
<1>4. \A r \in Paths : [tree EXCEPT ![q] = e, ![p] = None][r] =
         IF r = p THEN None ELSE IF r = q THEN e ELSE tree[r]
  OBVIOUS
<1> QED BY <1>1, <1>2, <1>3, <1>4

\* The outcome of a rename.
LEMMA HearMoveKeeps ==
    ASSUME RemoteTypeOK, Core, HearMove
    PROVE  Core'
<1>1. /\ asked = 0 /\ NoUpload /\ cur # None /\ cur.action = "move" /\ heard # None
      /\ phase = "srcmoves" /\ stored[cur.from] # None
  BY Waiting DEF Core, Local, RunFits, HearMove
<1>2. CASE ~heard.ok
  BY <1>1, <1>2, RunFailsKeeps DEF HearMove
<1>3. CASE heard.ok
  <2>1. /\ walked' = [walked EXCEPT !["B"][cur.from] = None, !["B"][cur.path] = walked["A"][cur.path]]
        /\ movedSums' = [movedSums EXCEPT ![cur.path] = stored[cur.from].sum]
        /\ cur' = None /\ heard' = None
        /\ UNCHANGED <<phase, todo, newStored, fs, UploadsOnly, asked, aborted, wire,
                       stored, blamed, diverged, touched, Still>>
    BY <1>3 DEF HearMove
  <2>2. cur \in Cursor /\ cur.from \in Paths /\ cur.path \in Paths
    BY <1>1 DEF Core, RunTyped, Cursor
  <2>3. walked' \in [Devices -> Listing]
    <3>1. walked["A"] \in Listing /\ walked["B"] \in Listing
      BY DEF Core, RunTyped, Devices
    <3>2. walked["A"][cur.path] \in Meta \cup {None}
      BY <2>2, <3>1 DEF Listing
    <3> DEFINE x == walked["A"][cur.path]
    <3>3. walked' = [walked EXCEPT !["B"][cur.from] = None, !["B"][cur.path] = x]
      BY <2>1
    <3> HIDE DEF x
    <3> QED BY <2>2, <3>2, <3>3 DEF Core, RunTyped, Listing, x
  <2>4. movedSums' \in [Paths -> Contents \cup {None}]
    <3>1. stored[cur.from] \in StoredFileState
      BY <1>1, <2>2 DEF Core, RunTyped, Records
    <3>2. stored[cur.from].sum \in Contents \cup {None}
      BY <3>1 DEF StoredFileState
    <3> QED BY <2>1, <2>2, <3>2 DEF Core, RunTyped
  <2>5. RunTyped'
    BY <2>1, <2>3, <2>4 DEF Core, RunTyped, Still, settings
  <2>6. RunFits'
    BY <1>1, <2>1 DEF RunFits
  <2>7. CallersFit'
    BY <1>1, <2>1 DEF Core, Local, CallersFit, NoUpload, UploadsOnly
  <2> QED BY <1>1, <2>1, <2>5, <2>6, <2>7, RunGoesOn DEF Core, Local, TransferTyped, UploadsOnly, Still
<1> QED BY <1>2, <1>3 DEF Core, Local, TransferTyped

\* A rename of the target's is made at the source, or there is none left.
LEMMA DstMovesKeeps ==
    ASSUME RemoteTypeOK, Core, DstMoves
    PROVE  Core'
<1>1. asked = 0 /\ heard = None /\ NoUpload /\ cur = None /\ phase = "dstmoves"
  BY Waiting DEF Core, Local, RunFits, DstMoves
<1>2. CASE aborted \/ \E m \in Renamed("dst") : fs["A"][m[1]] = None
  BY <1>1, <1>2, RunFailsKeeps DEF DstMoves
<1>3. CASE ~(aborted \/ \E m \in Renamed("dst") : fs["A"][m[1]] = None)
  <2>0. UNCHANGED <<cur, newStored, UploadsOnly, asked, heard, aborted, wire,
                    stored, diverged, sessions, told, NoLink, settings, cache>>
    BY <1>3 DEF DstMoves
  <2>1. CASE Renamed("dst") = {}
    <3>1. phase' = "visit" /\ todo' = ToVisit /\ UNCHANGED <<fs, walked, movedSums, blamed, touched>>
      BY <1>3, <2>1 DEF DstMoves
    <3>2. RunTyped'
      BY <2>0, <3>1 DEF Core, RunTyped, settings, ToVisit
    <3>3. RunFits'
      BY <1>1, <2>0, <3>1 DEF RunFits, ToVisit, settings
    <3>4. CallersFit'
      BY <1>1, <2>0, <3>1 DEF Core, Local, CallersFit, NoUpload, UploadsOnly
    <3> QED BY <1>1, <2>0, <3>1, <3>2, <3>3, <3>4, RunGoesOn
            DEF Core, Local, TransferTyped, UploadsOnly
  <2>2. CASE Renamed("dst") # {}
    <3>1. PICK m \in Renamed("dst") :
             /\ fs' = [fs EXCEPT !["A"] = Moved(@, m[1], m[2], walked["B"][m[2]].mtimeMs)]
             /\ walked' = [walked EXCEPT !["A"][m[1]] = None, !["A"][m[2]] = walked["B"][m[2]]]
             /\ movedSums' = [movedSums EXCEPT ![m[2]] = stored[m[1]].sum]
             /\ blamed' = IF /\ fs["B"][m[2]] # None
                             /\ fs["B"][m[2]].data = fs["A"][m[1]].data
                          THEN Follows(blamed, m[1], m[2]) \cup ({m[2]} \cap touched')
                          ELSE blamed \cup {m[1], m[2]}
             /\ touched' = Follows(touched, m[1], m[2])
             /\ UNCHANGED <<phase, todo>>
      BY <1>3, <2>2 DEF DstMoves
    <3>2. m[1] \in Missing("dst") /\ m[2] \in Added("dst")
      BY DEF Renamed
    <3>3. m[1] \in Paths /\ m[2] \in Paths /\ stored[m[1]] # None /\ walked["B"][m[2]] # None
      BY <3>2 DEF Missing, Added, Changed
    <3>4. walked["B"][m[2]] \in Meta /\ walked["A"] \in Listing
      BY <3>3 DEF Core, RunTyped, Listing, Devices
    <3>5. fs["A"][m[1]] # None /\ fs["A"] \in [Paths -> Entry \cup {None}]
      BY <1>3 DEF Core, Local, TransferTyped, Devices
    <3> DEFINE tree == Moved(fs["A"], m[1], m[2], walked["B"][m[2]].mtimeMs)
    <3>6. tree \in [Paths -> Entry \cup {None}]
      <4>1. walked["B"][m[2]].mtimeMs \in Times
        BY <3>4 DEF Meta
      <4> QED BY <3>3, <3>5, <4>1, MovedTyped
    <3>7. fs' = [fs EXCEPT !["A"] = tree]
      BY <3>1
    <3> HIDE DEF tree
    <3>8. fs' \in [Devices -> [Paths -> Entry \cup {None}]]
      BY <3>6, <3>7 DEF Core, Local, TransferTyped
    <3>9. walked' \in [Devices -> Listing]
      <4> DEFINE x == walked["B"][m[2]]
      <4>1. walked' = [walked EXCEPT !["A"][m[1]] = None, !["A"][m[2]] = x] /\ x \in Meta
        BY <3>1, <3>4
      <4> HIDE DEF x
      <4> QED BY <3>3, <3>4, <4>1 DEF Core, RunTyped, Listing
    <3>10. movedSums' \in [Paths -> Contents \cup {None}]
      <4>1. stored[m[1]] \in StoredFileState
        BY <3>3 DEF Core, RunTyped, Records
      <4>2. stored[m[1]].sum \in Contents \cup {None}
        BY <4>1 DEF StoredFileState
      <4> QED BY <3>1, <3>3, <4>2 DEF Core, RunTyped
    <3>11. blamed' \subseteq Paths /\ touched' \subseteq Paths
      BY <3>1, <3>3 DEF Core, RunTyped, Follows
    <3>12. RunTyped'
      BY <2>0, <3>1, <3>9, <3>10, <3>11 DEF Core, RunTyped, settings
    <3>13. RunFits'
      BY <1>1, <2>0, <3>1 DEF RunFits
    <3>14. CallersFit'
      BY <1>1, <2>0 DEF Core, Local, CallersFit, NoUpload, UploadsOnly
    <3> QED BY <1>1, <2>0, <3>8, <3>12, <3>13, <3>14, RunGoesOn
            DEF Core, Local, TransferTyped, UploadsOnly
  <2> QED BY <2>1, <2>2
<1> QED BY <1>2, <1>3

\* What a visit records is a record.
LEMMA RecordTyped ==
    ASSUME Core, NEW p \in Paths, NEW action, NEW ok \in BOOLEAN, NEW sum \in Contents \cup {None}
    PROVE  /\ RecordOf(p, action, ok, sum) \in StoredFileState
           /\ SumBefore(p) \in Contents \cup {None}
<1>1. walked["A"][p] \in Meta \cup {None} /\ walked["B"][p] \in Meta \cup {None}
  BY DEF Core, RunTyped, Listing, Devices
<1>2. movedSums[p] \in Contents \cup {None}
  BY DEF Core, RunTyped
<1>3. SumBefore(p) \in Contents \cup {None}
  <2>1. stored[p] # None => stored[p] \in StoredFileState
    BY DEF Core, RunTyped, Records
  <2> QED BY <2>1 DEF SumBefore, StoredFileState
<1> HIDE DEF SumBefore
<1>4. CASE job.mode # "bidir"
  <2>1. RecordOf(p, action, ok, sum) =
           [src |-> walked["A"][p], dst |-> IF walked["B"][p] = None THEN walked["A"][p] ELSE walked["B"][p],
            sum |-> IF sum # None THEN sum
                    ELSE IF movedSums[p] # None THEN movedSums[p] ELSE SumBefore(p)]
    BY <1>4 DEF RecordOf
  <2> QED BY <1>1, <1>2, <1>3, <2>1 DEF StoredFileState
<1>5. CASE job.mode = "bidir"
  <2> DEFINE src == walked["A"][p]  dst == walked["B"][p]
             moved == IF SumBefore(p) # None THEN SumBefore(p) ELSE movedSums[p]
             s1 == IF ok /\ action = "copy-to-src" THEN dst
                   ELSE IF ok /\ action = "delete-src" THEN None ELSE src
             d1 == IF ok /\ action = "copy-to-dst" THEN src ELSE dst
             c1 == IF sum # None THEN sum ELSE moved
  <2>1. RecordOf(p, action, ok, sum) = [src |-> s1, dst |-> d1, sum |-> c1]
    BY <1>5 DEF RecordOf
  <2>2. s1 \in Meta \cup {None} /\ d1 \in Meta \cup {None} /\ c1 \in Contents \cup {None}
    BY <1>1, <1>2, <1>3
  <2> HIDE DEF s1, d1, c1
  <2> QED BY <1>3, <2>1, <2>2 DEF StoredFileState
<1> QED BY <1>4, <1>5

\* A visit that ends leaves the types and the run's waiting as they are.
LEMMA VisitedKeeps ==
    ASSUME Core, NEW p \in Paths, NEW action, NEW ok \in BOOLEAN, NEW sum \in Contents \cup {None},
           Visited(p, action, ok, sum),
           UNCHANGED <<phase, walked, movedSums, stored, touched, settings, cache>>
    PROVE  RunTyped' /\ cur' = None /\ todo' \subseteq todo
<1>1. RecordOf(p, action, ok, sum) \in StoredFileState
  BY RecordTyped
<1> DEFINE r == RecordOf(p, action, ok, sum)
<1>2. newStored' = [newStored EXCEPT ![p] = r] /\ todo' = todo \ {p} /\ cur' = None
      /\ blamed' \subseteq blamed \cup {p}
  BY DEF Visited
<1> HIDE DEF r
<1>3. newStored' \in Records
  BY <1>1, <1>2 DEF Core, RunTyped, Records, r
<1> QED BY <1>2, <1>3 DEF Core, RunTyped, settings

\* Only what the walk of the source saw is copied to the target.
LEMMA CopiesWhatWasSeen ==
    ASSUME NEW p \in Paths, ActionFor(p) = "copy-to-dst",
           job.mode # "bidir" => walked["A"][p] # None
    PROVE  walked["A"][p] # None
<1> DEFINE src == walked["A"][p]  dst == walked["B"][p]
<1>1. CASE job.mode = "bidir"
  <2>1. newerWins(resolveAction(src, dst, stored[p]), src, dst) = "copy-to-dst"
    BY <1>1 DEF ActionFor
  <2>2. resolveAction(src, dst, stored[p]) \in {"copy-to-dst", "conflict"}
    BY <2>1 DEF newerWins
  <2>3. CASE src = None /\ dst = None
    BY <2>2, <2>3 DEF resolveAction
  <2>4. CASE src = None /\ dst # None
    <3>1. resolveAction(src, dst, stored[p]) \in {"delete-dst", "copy-to-src"}
      BY <2>4 DEF resolveAction
    <3> QED BY <2>2, <3>1
  <2> QED BY <2>3, <2>4
<1> QED BY <1>1

\* The run's own upload begins.
LEMMA RunBegins ==
    ASSUME RemoteTypeOK, Core, asked = 0, NEW p \in Paths, NEW kind \in {"full", "delta"},
           walked["A"][p] # None, fs["A"][p] # None, NEW basis \in Contents \cup {None},
           NEW n \in FreshNumbers,
           Begun(Uploading(n, "A", <<>>, p, kind, walked["A"][p], fs["A"][p], basis)), heard' = None,
           UNCHANGED <<fs, asked, wire, aborted, sessions, told>>
    PROVE  /\ TransferTyped' /\ TransferInv' /\ AnswersFit'
           /\ \E u : u.caller = <<>> /\ u.at = "A" /\ uploads' = uploads \cup {u}
<1> DEFINE u == Uploading(n, "A", <<>>, p, kind, walked["A"][p], fs["A"][p], basis)
<1>1. walked["A"][p] \in Meta /\ fs["A"][p] \in Entry
  BY DEF Core, Local, RunTyped, TransferTyped, Listing, Devices
<1>2. "A" \in Devices /\ <<>> \in Callers
  BY DEF Devices, Callers
<1>3. OneOnWire(wire')
  BY DEF Core, Local, TransferInv, OneFinish
<1>4. Begun(u) /\ TransferInv /\ UNCHANGED <<sessions, wire>>
  BY DEF Core, Local
<1>5. u = Uploading(n, "A", <<>>, p, kind, walked["A"][p], fs["A"][p], basis)
  OBVIOUS
<1> HIDE DEF u
<1>6. TransferInv' /\ uploads' \subseteq Upload /\ u.caller = <<>> /\ u.at = "A" /\ uploads' = uploads \cup {u}
  BY <1>1, <1>2, <1>3, <1>4, <1>5, BegunKeeps
<1>7. TransferTyped'
  BY <1>6 DEF Core, Local, TransferTyped
<1>8. AnswersFit'
  BY DEF AnswersFit
<1> QED BY <1>6, <1>7, <1>8

\* The source in full, if it is still there.
LEMMA SendsFullKeeps ==
    ASSUME RemoteTypeOK, Core, asked = 0, NEW p \in Paths, walked["A"][p] # None, SendsFull(p),
           UNCHANGED <<fs, asked, wire, aborted, sessions, told>>
    PROVE  /\ TransferTyped' /\ TransferInv' /\ AnswersFit'
           /\ \/ heard' = Unheard /\ uploads' = uploads
              \/ heard' = None /\ \E u : u.caller = <<>> /\ u.at = "A" /\ uploads' = uploads \cup {u}
<1>1. CASE fs["A"][p] = None \/ aborted
  <2>1. heard' = Unheard /\ UNCHANGED <<uploads, offered>>
    BY <1>1 DEF SendsFull, UploadsOnly
  <2>2. Unheard \in Heard
    BY DEF Unheard, Heard
  <2>3. TransferTyped'
    BY <2>1, <2>2 DEF Core, Local, TransferTyped
  <2>4. TransferInv'
    BY <2>1, QuietStep DEF Core, Local, TransferInv, OneFinish
  <2>5. AnswersFit'
    BY DEF AnswersFit
  <2> QED BY <2>1, <2>3, <2>4, <2>5
<1>2. CASE ~(fs["A"][p] = None \/ aborted)
  <2>1. PICK n \in FreshNumbers :
           Begun(Uploading(n, "A", <<>>, p, "full", walked["A"][p], fs["A"][p], None))
    BY <1>2 DEF SendsFull
  <2>2. heard' = None /\ fs["A"][p] # None
    BY <1>2 DEF SendsFull
  <2> QED BY <2>1, <2>2, RunBegins
<1> QED BY <1>1, <1>2

\* The run's upload is the only one of its own, if it had none.
LEMMA OwnUpload ==
    ASSUME Core, NoUpload,
           \/ uploads' = uploads
           \/ heard' = None /\ \E u : u.caller = <<>> /\ u.at = "A" /\ uploads' = uploads \cup {u},
           cur' # None, cur'.action = "copy-to-dst", cur'.step = "transfer"
    PROVE  CallersFit'
<1>1. \A u \in uploads : u.caller # <<>> /\ u.at = "B"
  BY DEF NoUpload, Core, Local, CallersFit
<1>2. CASE uploads' = uploads
  BY <1>1, <1>2 DEF CallersFit
<1>3. CASE heard' = None /\ \E u : u.caller = <<>> /\ u.at = "A" /\ uploads' = uploads \cup {u}
  <2>1. PICK u : u.caller = <<>> /\ u.at = "A" /\ uploads' = uploads \cup {u}
    BY <1>3
  <2> QED BY <1>1, <1>3, <2>1 DEF CallersFit
<1> QED BY <1>2, <1>3

\* The cursor of a visit.
LEMMA CursorAt ==
    ASSUME NEW p \in Paths, NEW action \in Actions, NEW step \in {"signature", "transfer"}
    PROVE  LET c == At(p, action, step)
           IN  /\ c \in Cursor /\ c # None /\ c.path = p /\ c.action = action /\ c.step = step
               /\ c.action # "move"
<1>1. At(p, action, step) \in Cursor
  BY DEF At, Cursor
<1> QED BY <1>1, NotNone DEF At, Actions

\* The run asks B for something about path p.
LEMMA AskForms ==
    ASSUME NEW id \in CallIds, NEW p \in Paths, NEW basis \in Contents \cup {None}
    PROVE  /\ LET x == [[op |-> "signature", id |-> 0, path |-> p] EXCEPT !.id = id]
              IN  x \in Message /\ x.id = id /\ ~IsAnswer(x) /\ x.op = "signature"
           /\ LET x == [[op |-> "delete", id |-> 0, path |-> p] EXCEPT !.id = id]
              IN  x \in Message /\ x.id = id /\ ~IsAnswer(x) /\ x.op = "delete"
           /\ LET x == [[op |-> "send", id |-> 0, path |-> p, basis |-> basis] EXCEPT !.id = id]
              IN  x \in Message /\ x.id = id /\ ~IsAnswer(x) /\ x.op = "send"
<1>1. [[op |-> "signature", id |-> 0, path |-> p] EXCEPT !.id = id] = [op |-> "signature", id |-> id, path |-> p]
  OBVIOUS
<1>2. [[op |-> "delete", id |-> 0, path |-> p] EXCEPT !.id = id] = [op |-> "delete", id |-> id, path |-> p]
  OBVIOUS
<1>3. [[op |-> "send", id |-> 0, path |-> p, basis |-> basis] EXCEPT !.id = id]
         = [op |-> "send", id |-> id, path |-> p, basis |-> basis]
  OBVIOUS
<1>4. [op |-> "signature", id |-> id, path |-> p] \in Message
  BY DEF Message, RemoteMessage
<1>5. [op |-> "delete", id |-> id, path |-> p] \in Message
  BY DEF Message, RemoteMessage
<1>6. [op |-> "send", id |-> id, path |-> p, basis |-> basis] \in Message
  BY DEF Message, RemoteMessage
<1> QED BY <1>1, <1>2, <1>3, <1>4, <1>5, <1>6 DEF IsAnswer

\* The run waits for an answer about cur'.
LEMMA AsksAbout ==
    ASSUME RemoteTypeOK, Core, NoUpload, asked = 0,
           NEW m, NEW op \in {"signature", "send", "delete"},
           \A id \in CallIds : LET x == [m EXCEPT !.id = id]
                               IN  x \in Message /\ x.id = id /\ ~IsAnswer(x) /\ x.op = op,
           \/ Asks(m)
           \/ heard' = Unheard /\ UNCHANGED <<asked, wire>>,
           UNCHANGED <<fs, uploads, sessions, offered, told, aborted, NoLink>>,
           cur' # None, cur'.action # "move", phase' \in {"visit", "delete"},
           cur'.step = "signature" => cur'.action = "copy-to-dst",
           cur'.action = "copy-to-dst" => cur'.step # "transfer" /\ walked'["A"][cur'.path] # None,
           Wanted' = AnswerTo(op), RunTyped',
           phase' = "visit" /\ job'.mode # "bidir" => \A p \in todo' : walked'["A"][p] # None
    PROVE  Core'
<1>1. /\ TransferTyped' /\ TransferInv' /\ AnswersFit' /\ NoUpload'
      /\ heard' = None \/ (heard' = Unheard /\ asked' = 0)
  <2>1. CASE Asks(m)
    BY <2>1, AsksKeeps DEF Core
  <2>2. CASE heard' = Unheard /\ UNCHANGED <<asked, wire>>
    <3>1. TransferInv'
      BY <2>2, QuietStep DEF Core, Local, TransferInv, OneFinish
    <3>2. Unheard \in Heard
      BY DEF Unheard, Heard
    <3>3. TransferTyped'
      BY <2>2, <3>2 DEF Core, Local, TransferTyped
    <3>4. AnswersFit'
      BY <2>2 DEF AnswersFit
    <3> QED BY <2>2, <3>1, <3>3, <3>4 DEF NoUpload
  <2> QED BY <2>1, <2>2
<1>2. RunFits'
  BY <1>1 DEF RunFits, Unheard
<1>3. CallersFit'
  BY <1>1 DEF Core, Local, CallersFit, NoUpload
<1>4. LinkTyped'
  BY DEF Core, LinkTyped, NoLink
<1> QED BY <1>1, <1>2, <1>3, <1>4 DEF Core, Local

\* A path is visited.
LEMMA VisitKeeps ==
    ASSUME RemoteTypeOK, Core, NEW p \in Paths, Visit(p)
    PROVE  Core'
<1> DEFINE action == ActionFor(p)
           src == walked["A"][p]  dst == walked["B"][p]
           basis == IF src # None /\ job.delta /\ fs["A"][p] # None THEN fs["A"][p].data ELSE None
<1>1. /\ phase = "visit" /\ cur = None /\ p \in todo /\ asked = 0 /\ heard = None /\ NoUpload
      /\ UNCHANGED <<phase, walked, movedSums, aborted, stored, diverged, touched,
                     sessions, told, NoLink, settings, cache>>
  BY Waiting DEF Visit, Core, Local
<1>2. job.mode # "bidir" => \A q \in todo : walked["A"][q] # None
  BY <1>1 DEF Core, Local, RunFits
<1>3. action = "copy-to-dst" => src # None
  BY <1>1, <1>2, CopiesWhatWasSeen
<1>4. \/ /\ action = "skip"
         /\ Visited(p, action, TRUE, None)
         /\ UNCHANGED <<fs, asked, heard, wire, UploadsOnly>>
      \/ /\ action = "copy-to-dst"
         /\ cur' = At(p, action, "transfer") /\ SendsFull(p)
         /\ UNCHANGED <<todo, newStored, blamed, fs, asked, wire>>
      \/ /\ action = "copy-to-dst"
         /\ cur' = At(p, action, "signature")
         /\ Asks([op |-> "signature", id |-> 0, path |-> p])
         /\ UNCHANGED <<todo, newStored, blamed, fs, UploadsOnly>>
      \/ /\ action = "copy-to-src"
         /\ cur' = At(p, action, "transfer")
         /\ \/ heard' = Unheard /\ UNCHANGED <<asked, wire>>
            \/ Asks([op |-> "send", id |-> 0, path |-> p, basis |-> basis])
         /\ UNCHANGED <<todo, newStored, blamed, fs, UploadsOnly>>
      \/ /\ action = "delete-dst"
         /\ cur' = At(p, action, "transfer")
         /\ Asks([op |-> "delete", id |-> 0, path |-> p])
         /\ UNCHANGED <<todo, newStored, blamed, fs, UploadsOnly>>
      \/ /\ action = "delete-src"
         /\ fs' = [fs EXCEPT !["A"][p] = None]
         /\ Visited(p, action, fs["A"][p] # None, None)
         /\ UNCHANGED <<asked, heard, wire, UploadsOnly>>
  BY DEF Visit
<1>5. basis \in Contents \cup {None}
  <2>1. fs["A"][p] # None => fs["A"][p].data \in Contents
    BY DEF Core, Local, TransferTyped, Devices, Entry
  <2> QED BY <2>1
<1> HIDE DEF action, src, dst, basis
<1>6. ASSUME NEW ok \in BOOLEAN, Visited(p, action, ok, None),
             UNCHANGED <<asked, heard, wire, UploadsOnly>>,
             fs' \in [Devices -> [Paths -> Entry \cup {None}]]
      PROVE  Core'
  <2>1. RunTyped' /\ cur' = None /\ todo' \subseteq todo
    BY <1>1, <1>6, VisitedKeeps
  <2>2. RunFits'
    BY <1>1, <1>2, <1>6, <2>1 DEF RunFits, settings
  <2>3. CallersFit'
    BY <1>1, <1>6 DEF Core, Local, CallersFit, NoUpload, UploadsOnly
  <2> QED BY <1>1, <1>6, <2>1, <2>2, <2>3, RunGoesOn DEF Core, Local, TransferTyped, UploadsOnly
<1>7. ASSUME NEW step \in {"signature", "transfer"}, action \in Actions, cur' = At(p, action, step),
             UNCHANGED <<todo, newStored, blamed, fs>>
      PROVE  /\ RunTyped' /\ cur' # None /\ cur'.path = p /\ cur'.action = action /\ cur'.step = step
             /\ cur'.action # "move"
             /\ phase' = "visit" /\ (job'.mode # "bidir" => \A q \in todo' : walked'["A"][q] # None)
  <2>1. /\ cur' \in Cursor /\ cur' # None /\ cur'.path = p /\ cur'.action = action /\ cur'.step = step
        /\ cur'.action # "move"
    BY <1>7, CursorAt
  <2>2. RunTyped'
    BY <1>1, <1>7, <2>1 DEF Core, RunTyped, settings
  <2> QED BY <1>1, <1>2, <1>7, <2>1, <2>2 DEF settings
<1>8. CASE /\ action = "skip" /\ Visited(p, action, TRUE, None)
           /\ UNCHANGED <<fs, asked, heard, wire, UploadsOnly>>
  <2>1. fs' \in [Devices -> [Paths -> Entry \cup {None}]]
    BY <1>8 DEF Core, Local, TransferTyped
  <2> QED BY <1>6, <1>8, <2>1
<1>9. CASE /\ action = "copy-to-dst"
           /\ cur' = At(p, action, "transfer") /\ SendsFull(p)
           /\ UNCHANGED <<todo, newStored, blamed, fs, asked, wire>>
  <2>1. /\ RunTyped' /\ cur' # None /\ cur'.path = p /\ cur'.action = "copy-to-dst"
        /\ cur'.step = "transfer" /\ phase' = "visit"
        /\ (job'.mode # "bidir" => \A q \in todo' : walked'["A"][q] # None)
    BY <1>7, <1>9 DEF Actions
  <2>2. walked["A"][p] # None
    BY <1>3, <1>9 DEF src
  <2>3. /\ TransferTyped' /\ TransferInv' /\ AnswersFit'
        /\ \/ heard' = Unheard /\ uploads' = uploads
           \/ heard' = None /\ \E u : u.caller = <<>> /\ u.at = "A" /\ uploads' = uploads \cup {u}
    BY <1>1, <1>9, <2>2, SendsFullKeeps
  <2>4. CallersFit'
    BY <1>1, <2>1, <2>3, OwnUpload
  <2>5. heard' # None => heard'.answer = "none"
    BY <2>3 DEF Unheard
  <2>6. RunFits'
    BY <1>1, <1>9, <2>1, <2>2, <2>5 DEF RunFits
  <2>7. LinkTyped'
    BY <1>1 DEF Core, LinkTyped, NoLink
  <2> QED BY <2>1, <2>3, <2>4, <2>6, <2>7 DEF Core, Local
<1>10. CASE /\ action = "copy-to-dst"
            /\ cur' = At(p, action, "signature")
            /\ Asks([op |-> "signature", id |-> 0, path |-> p])
            /\ UNCHANGED <<todo, newStored, blamed, fs, UploadsOnly>>
  <2>1. /\ RunTyped' /\ cur' # None /\ cur'.path = p /\ cur'.action = "copy-to-dst"
        /\ cur'.step = "signature" /\ phase' = "visit" /\ cur'.action # "move"
        /\ (job'.mode # "bidir" => \A q \in todo' : walked'["A"][q] # None)
    BY <1>7, <1>10 DEF Actions
  <2>2. walked'["A"][cur'.path] # None
    BY <1>1, <1>3, <1>10, <2>1 DEF src
  <2>3. Wanted' = AnswerTo("signature")
    BY <2>1 DEF Wanted, AnswerTo
  <2> DEFINE m == [op |-> "signature", id |-> 0, path |-> p]
  <2>4. \A id \in CallIds : LET x == [m EXCEPT !.id = id]
                            IN  x \in Message /\ x.id = id /\ ~IsAnswer(x) /\ x.op = "signature"
    BY <1>5, AskForms
  <2>5. Asks(m)
    BY <1>10
  <2> HIDE DEF m
  <2> QED BY <1>1, <1>10, <2>1, <2>2, <2>3, <2>4, <2>5, AsksAbout DEF UploadsOnly
<1>11. CASE /\ action = "copy-to-src"
            /\ cur' = At(p, action, "transfer")
            /\ \/ heard' = Unheard /\ UNCHANGED <<asked, wire>>
               \/ Asks([op |-> "send", id |-> 0, path |-> p, basis |-> basis])
            /\ UNCHANGED <<todo, newStored, blamed, fs, UploadsOnly>>
  <2>1. /\ RunTyped' /\ cur' # None /\ cur'.path = p /\ cur'.action = "copy-to-src"
        /\ cur'.step = "transfer" /\ phase' = "visit" /\ cur'.action # "move"
        /\ (job'.mode # "bidir" => \A q \in todo' : walked'["A"][q] # None)
    BY <1>7, <1>11 DEF Actions
  <2>2. Wanted' = AnswerTo("send")
    BY <2>1 DEF Wanted, AnswerTo
  <2> DEFINE m == [op |-> "send", id |-> 0, path |-> p, basis |-> basis]
  <2>3. \A id \in CallIds : LET x == [m EXCEPT !.id = id]
                            IN  x \in Message /\ x.id = id /\ ~IsAnswer(x) /\ x.op = "send"
    BY <1>5, AskForms
  <2>4. Asks(m) \/ (heard' = Unheard /\ UNCHANGED <<asked, wire>>)
    BY <1>11
  <2> HIDE DEF m
  <2> QED BY <1>1, <1>11, <2>1, <2>2, <2>3, <2>4, AsksAbout DEF UploadsOnly
<1>12. CASE /\ action = "delete-dst"
            /\ cur' = At(p, action, "transfer")
            /\ Asks([op |-> "delete", id |-> 0, path |-> p])
            /\ UNCHANGED <<todo, newStored, blamed, fs, UploadsOnly>>
  <2>1. /\ RunTyped' /\ cur' # None /\ cur'.path = p /\ cur'.action = "delete-dst"
        /\ cur'.step = "transfer" /\ phase' = "visit" /\ cur'.action # "move"
        /\ (job'.mode # "bidir" => \A q \in todo' : walked'["A"][q] # None)
    BY <1>7, <1>12 DEF Actions
  <2>2. Wanted' = AnswerTo("delete")
    BY <2>1 DEF Wanted, AnswerTo
  <2> DEFINE m == [op |-> "delete", id |-> 0, path |-> p]
  <2>3. \A id \in CallIds : LET x == [m EXCEPT !.id = id]
                            IN  x \in Message /\ x.id = id /\ ~IsAnswer(x) /\ x.op = "delete"
    BY <1>5, AskForms
  <2>4. Asks(m)
    BY <1>12
  <2> HIDE DEF m
  <2> QED BY <1>1, <1>12, <2>1, <2>2, <2>3, <2>4, AsksAbout DEF UploadsOnly
<1>13. CASE /\ action = "delete-src"
            /\ fs' = [fs EXCEPT !["A"][p] = None]
            /\ Visited(p, action, fs["A"][p] # None, None)
            /\ UNCHANGED <<asked, heard, wire, UploadsOnly>>
  <2>1. fs' \in [Devices -> [Paths -> Entry \cup {None}]]
    BY <1>13 DEF Core, Local, TransferTyped
  <2>2. (fs["A"][p] # None) \in BOOLEAN
    OBVIOUS
  <2> QED BY <1>6, <1>13, <2>1, <2>2
<1> QED BY <1>4, <1>8, <1>9, <1>10, <1>11, <1>12, <1>13

\* The signature of the target arrives, or does not: a delta, or the file in full.
LEMMA HearSignatureKeeps ==
    ASSUME RemoteTypeOK, Core, HearSignature
    PROVE  Core'
<1> DEFINE p == cur.path
<1>1. /\ cur # None /\ cur.step = "signature" /\ heard # None
      /\ cur' = [cur EXCEPT !.step = "transfer"]
      /\ \/ SendsFull(p)
         \/ /\ heard.ok /\ fs["A"][p] # None /\ heard' = None
            /\ \E n \in FreshNumbers :
                  Begun(Uploading(n, "A", <<>>, p, "delta", walked["A"][p], fs["A"][p], heard.basis))
      /\ UNCHANGED <<phase, walked, todo, newStored, movedSums, fs, asked, aborted, wire,
                     stored, blamed, diverged, touched, Still>>
  BY DEF HearSignature
<1>2. asked = 0 /\ NoUpload
  BY <1>1, Waiting DEF Core, Local
<1>3. /\ cur \in Cursor /\ cur.action = "copy-to-dst" /\ walked["A"][p] # None
      /\ heard \in Heard /\ heard.answer \in {"signature", "none"}
      /\ phase \notin {"idle", "manifest", "dstmoves", "srcmoves"}
  <2>1. cur \in Cursor /\ heard \in Heard
    BY <1>1 DEF Core, Local, RunTyped, TransferTyped
  <2>2. cur.action = "copy-to-dst" /\ walked["A"][p] # None
    BY <1>1 DEF Core, Local, RunFits
  <2>3. phase \notin {"idle", "manifest", "dstmoves"} /\ phase # "srcmoves"
    BY <1>1, <2>2 DEF Core, Local, RunFits
  <2>4. heard.answer \in {"signature", "none"}
    BY <1>1, <2>3 DEF Core, Local, RunFits, Wanted
  <2> QED BY <2>1, <2>2, <2>3, <2>4
<1>4. p \in Paths
  BY <1>3 DEF Cursor
<1>5. heard.ok => heard.basis \in Contents \cup {None}
  BY <1>3, HeardTypes
<1>6. /\ cur' \in Cursor /\ cur' # None /\ cur'.path = p /\ cur'.action = "copy-to-dst"
      /\ cur'.step = "transfer" /\ cur'.action # "move"
  <2>1. cur' \in Cursor /\ cur'.path = p /\ cur'.action = "copy-to-dst" /\ cur'.step = "transfer"
    BY <1>1, <1>3 DEF Cursor
  <2> QED BY <2>1, NotNone
<1> HIDE DEF p
<1>7. /\ TransferTyped' /\ TransferInv' /\ AnswersFit'
      /\ \/ heard' = Unheard /\ uploads' = uploads
         \/ heard' = None /\ \E u : u.caller = <<>> /\ u.at = "A" /\ uploads' = uploads \cup {u}
  <2>1. CASE SendsFull(p)
    BY <1>1, <1>2, <1>3, <1>4, <2>1, SendsFullKeeps DEF Still
  <2>2. CASE /\ heard.ok /\ fs["A"][p] # None /\ heard' = None
             /\ \E n \in FreshNumbers :
                   Begun(Uploading(n, "A", <<>>, p, "delta", walked["A"][p], fs["A"][p], heard.basis))
    <3> DEFINE basis == heard.basis
    <3>1. basis \in Contents \cup {None}
      BY <1>5, <2>2
    <3>2. PICK n \in FreshNumbers :
             Begun(Uploading(n, "A", <<>>, p, "delta", walked["A"][p], fs["A"][p], basis))
      BY <2>2
    <3> HIDE DEF basis
    <3> QED BY <1>1, <1>2, <1>3, <1>4, <2>2, <3>1, <3>2, RunBegins DEF Still
  <2> QED BY <1>1, <2>1, <2>2
<1>8. CallersFit'
  BY <1>2, <1>6, <1>7, OwnUpload
<1>9. heard' # None => heard'.answer = "none"
  BY <1>7 DEF Unheard
<1>10. RunFits'
  <2>1. phase = "visit" /\ job.mode # "bidir" => \A q \in todo : walked["A"][q] # None
    BY DEF Core, Local, RunFits
  <2> QED BY <1>1, <1>2, <1>3, <1>6, <1>9, <2>1 DEF RunFits, Still, settings
<1>11. LinkTyped'
  BY <1>1 DEF Core, LinkTyped, NoLink, Still
<1>12. RunTyped'
  BY <1>1, <1>6 DEF Core, RunTyped, Still, settings
<1> QED BY <1>7, <1>8, <1>10, <1>11, <1>12 DEF Core, Local

\* The outcome of a visit, or of a delete.
LEMMA HearOutcomeKeeps ==
    ASSUME RemoteTypeOK, Core, HearOutcome
    PROVE  Core'
<1> DEFINE sum == IF "sum" \in DOMAIN heard /\ heard.ok THEN heard.sum ELSE None
<1>1. /\ cur # None /\ cur.step = "transfer" /\ cur.action # "move" /\ heard # None /\ heard' = None
      /\ \/ todo' = todo \ {cur.path} /\ cur' = None /\ UNCHANGED <<newStored, blamed>>
         \/ Visited(cur.path, cur.action, heard.ok, sum)
      /\ UNCHANGED <<phase, walked, movedSums, fs, UploadsOnly, asked, aborted, wire,
                     stored, diverged, touched, Still>>
  BY DEF HearOutcome
<1>2. asked = 0 /\ NoUpload
  BY <1>1, Waiting DEF Core, Local
<1>3. cur \in Cursor /\ heard \in Heard
  BY <1>1 DEF Core, Local, RunTyped, TransferTyped
<1>4. cur.path \in Paths /\ heard.ok \in BOOLEAN /\ sum \in Contents \cup {None}
  BY <1>3, HeardTypes DEF Cursor
<1>5. phase # "manifest"
  BY <1>1 DEF Core, Local, RunFits
<1> HIDE DEF sum
<1>6. RunTyped' /\ cur' = None /\ todo' \subseteq todo
  <2>1. CASE todo' = todo \ {cur.path} /\ cur' = None /\ UNCHANGED <<newStored, blamed>>
    BY <1>1, <2>1 DEF Core, RunTyped, Still, settings
  <2>2. CASE Visited(cur.path, cur.action, heard.ok, sum)
    BY <1>1, <1>4, <2>2, VisitedKeeps DEF Still
  <2> QED BY <1>1, <2>1, <2>2
<1>7. RunFits'
  <2>1. phase = "visit" /\ job.mode # "bidir" => \A q \in todo : walked["A"][q] # None
    BY DEF Core, Local, RunFits
  <2> QED BY <1>1, <1>2, <1>6, <2>1 DEF RunFits, Still, settings
<1>8. CallersFit'
  BY <1>1, <1>2 DEF Core, Local, CallersFit, NoUpload, UploadsOnly
<1> QED BY <1>1, <1>2, <1>6, <1>7, <1>8, RunGoesOn DEF Core, Local, TransferTyped, UploadsOnly, Still

\* A run is stopped between two paths, ends, or goes on to the orphans of the target.
LEMMA AbortKeeps ==
    ASSUME RemoteTypeOK, Core, Abort
    PROVE  Core'
<1>1. cur = None /\ phase \in {"visit", "delete"} /\ RunFails
  BY DEF Abort
<1>2. asked = 0 /\ NoUpload
  BY <1>1, Waiting DEF Core, Local
<1> QED BY <1>1, <1>2, RunFailsKeeps

\* The end of a run keeps the core of the invariant.
LEMMA FinishRunKeeps ==
    ASSUME RemoteTypeOK, Core, FinishRun
    PROVE  Core'
<1>1. /\ cur = None /\ phase \in {"visit", "delete"} /\ RunOver
      /\ stored' = newStored /\ blamed' \subseteq blamed \cup touched
      /\ UNCHANGED <<fs, UploadsOnly, asked, wire, touched, Still>>
  BY DEF FinishRun
<1>2. asked = 0 /\ NoUpload
  BY <1>1, Waiting DEF Core, Local
<1>3. stored' \in Records /\ blamed' \subseteq Paths /\ touched' \subseteq Paths
  BY <1>1 DEF Core, RunTyped
<1> QED BY <1>1, <1>2, <1>3, RunOverKeeps DEF UploadsOnly, Still

\* What is left to delete is chosen once every path was visited.
LEMMA ToDeletesKeeps ==
    ASSUME RemoteTypeOK, Core, ToDeletes
    PROVE  Core'
<1>1. /\ cur = None /\ phase = "visit" /\ phase' = "delete" /\ todo' \subseteq Paths
      /\ UNCHANGED <<walked, cur, newStored, movedSums, fs, UploadsOnly, asked, heard, aborted, wire,
                     stored, blamed, diverged, touched, Still>>
  BY DEF ToDeletes, DeleteCandidates
<1>2. asked = 0 /\ heard = None /\ NoUpload
  BY <1>1, Waiting DEF Core, Local
<1>3. RunTyped'
  BY <1>1 DEF Core, RunTyped, Still, settings
<1>4. RunFits'
  BY <1>1, <1>2 DEF RunFits
<1>5. CallersFit'
  BY <1>1, <1>2 DEF Core, Local, CallersFit, NoUpload, UploadsOnly
<1> QED BY <1>1, <1>2, <1>3, <1>4, <1>5, RunGoesOn DEF Core, Local, TransferTyped, UploadsOnly, Still

\* An orphan of the target is deleted.
LEMMA DeleteOrphanKeeps ==
    ASSUME RemoteTypeOK, Core, NEW p \in Paths, DeleteOrphan(p)
    PROVE  Core'
<1> DEFINE m == [op |-> "delete", id |-> 0, path |-> p]
<1>1. /\ phase = "delete" /\ cur = None /\ cur' = At(p, "delete-dst", "transfer") /\ Asks(m)
      /\ UNCHANGED <<phase, walked, todo, newStored, movedSums, fs, UploadsOnly, aborted,
                     stored, blamed, diverged, touched, Still>>
  BY DEF DeleteOrphan
<1>2. asked = 0 /\ heard = None /\ NoUpload
  BY <1>1, Waiting DEF Core, Local
<1>3. "delete-dst" \in Actions
  BY DEF Actions
<1>4. /\ cur' \in Cursor /\ cur' # None /\ cur'.path = p /\ cur'.action = "delete-dst"
      /\ cur'.step = "transfer" /\ cur'.action # "move"
  BY <1>1, <1>3, CursorAt
<1>5. RunTyped'
  BY <1>1, <1>4 DEF Core, RunTyped, Still, settings
<1>6. Wanted' = AnswerTo("delete")
  BY <1>1, <1>4 DEF Wanted, AnswerTo
<1>7. \A id \in CallIds : LET x == [m EXCEPT !.id = id]
                          IN  x \in Message /\ x.id = id /\ ~IsAnswer(x) /\ x.op = "delete"
  BY AskForms
<1> HIDE DEF m
<1> QED BY <1>1, <1>2, <1>4, <1>5, <1>6, <1>7, AsksAbout DEF UploadsOnly, Still

\* B answers a request of the run, with what the run waits for.
LEMMA AnsweredKeeps ==
    ASSUME RemoteTypeOK, Core, NEW t \in Transports, wire["B"][t] # <<>>,
           NEW m, m = Head(wire["B"][t]), ~IsAnswer(m), "id" \in DOMAIN m,
           NEW a \in Message, IsAnswer(a), a.answer # "transfer",
           a.id = m.id, a.answer = AnswerTo(m.op),
           wire' = Answered(Taken("B", t), "B", t, a),
           UNCHANGED <<uploads, offered, NoLink, sessions, asked, heard, aborted, told, settings,
                       stored, runVars>>,
           fs' \in [Devices -> [Paths -> Entry \cup {None}]],
           cache' \in Listing \cup {None}, blamed' \subseteq Paths, touched' \subseteq Paths
    PROVE  Core'
<1>1. wire \in Wires /\ OneOnWire(wire) /\ "B" \in Devices
  BY DEF Core, Local, TransferTyped, TransferInv, OneFinish, Devices
<1>2. /\ Taken("B", t) \in Wires /\ OneOnWire(Taken("B", t)) /\ m \in InBox(wire, "B")
      /\ \A d \in Devices : InBox(Taken("B", t), d) \subseteq InBox(wire, d)
  BY <1>1, TakenWire
<1>3. Harmless(a) /\ ~Is(a, "finish")
  BY DEF Harmless, Is, SaysOk
<1>4. wire' \in Wires /\ Carries(wire', Taken("B", t), Other("B"), a) /\ OneOnWire(wire')
  BY <1>1, <1>2, <1>3, SentWire
<1>5. \A d \in Devices : \A y \in InBox(wire', d) : y \in InBox(wire, d) \/ y = a
  BY <1>2, <1>4 DEF Carries
<1>6. TransferInv'
  BY <1>3, <1>4, <1>5, QuietStep DEF Core, Local
<1>7. TransferTyped'
  BY <1>4 DEF Core, Local, TransferTyped
<1>8. RunFits' /\ CallersFit'
  <2>1. UNCHANGED <<phase, cur, asked, heard, stored, walked, job, todo, uploads>>
    BY DEF runVars, settings
  <2>2. Wanted' = Wanted
    BY <2>1 DEF Wanted
  <2>3. RunFits'
    BY <2>1, <2>2 DEF Core, Local, RunFits
  <2>4. CallersFit'
    BY <2>1 DEF Core, Local, CallersFit
  <2> QED BY <2>3, <2>4
<1>9. AnswersFit'
  <2> SUFFICES ASSUME asked # 0 PROVE AnswersFit'
    BY DEF AnswersFit
  <2>1. Wanted' = Wanted /\ asked' = asked
    BY DEF Wanted, runVars
  <2>2. \A d \in Devices : \A y \in InBox(wire, d) : "id" \in DOMAIN y /\ y.id = asked =>
            Wanted = IF IsAnswer(y) THEN y.answer ELSE AnswerTo(y.op)
    BY DEF Core, Local, AnswersFit
  <2>3. a.id = asked => Wanted = a.answer
    BY <1>1, <1>2, <2>2
  <2>4. \A d \in Devices : \A y \in InBox(wire', d) : "id" \in DOMAIN y /\ y.id = asked' =>
            Wanted' = IF IsAnswer(y) THEN y.answer ELSE AnswerTo(y.op)
    BY <1>5, <2>1, <2>2, <2>3
  <2>5. /\ \A s \in sessions' : \A i \in 1..Len(s.queue) : IsFinish(s.queue[i]) => s.queue[i].id # asked'
        /\ \A u \in uploads' : u.caller # <<>> /\ u.caller[1] = asked' => Wanted' = "send"
    BY <2>1 DEF Core, Local, AnswersFit
  <2> QED BY <2>4, <2>5 DEF AnswersFit
<1>10. LinkTyped'
  BY DEF Core, LinkTyped, NoLink
<1>11. RunTyped'
  BY DEF Core, RunTyped, runVars, settings
<1> QED BY <1>6, <1>7, <1>8, <1>9, <1>10, <1>11 DEF Core, Local

\* B's upload for the run begins.
LEMMA SendBeginsKeeps ==
    ASSUME RemoteTypeOK, Core, NEW t \in Transports, wire["B"][t] # <<>>,
           NEW m, m = Head(wire["B"][t]), Is(m, "send"), NEW e \in Entry,
           NEW n \in FreshNumbers, NEW kind \in {"delta", "full"},
           NEW basis \in Contents \cup {None}, NEW meta \in Meta,
           Begun(Uploading(n, "B", <<m.id, t>>, m.path, kind, meta, e, basis)), wire' = Taken("B", t),
           UNCHANGED <<fs, cache, blamed, touched, NoLink, sessions, asked, heard, aborted, told,
                       settings, stored, runVars>>
    PROVE  Core'
<1>1. wire \in Wires /\ OneOnWire(wire) /\ "B" \in Devices
  BY DEF Core, Local, TransferTyped, TransferInv, OneFinish, Devices
<1>2. /\ wire' \in Wires /\ OneOnWire(wire') /\ m \in InBox(wire, "B") /\ m \in Message
      /\ \A d \in Devices : InBox(wire', d) \subseteq InBox(wire, d)
  BY <1>1, TakenWire
<1>3. m.id \in CallIds /\ m.path \in Paths /\ "id" \in DOMAIN m /\ m.op = "send" /\ ~IsAnswer(m)
  BY <1>2, MessageTypes DEF Is
<1> DEFINE caller == <<m.id, t>>
           u == Uploading(n, "B", caller, m.path, kind, meta, e, basis)
<1>4. caller \in Callers /\ caller # <<>> /\ caller[1] = m.id
  BY <1>3 DEF Callers
<1>5. Begun(u) /\ TransferInv /\ sessions' = sessions /\ kind \in {"full", "delta"} /\ m.path \in Paths
  BY <1>3 DEF Core, Local
<1>6. u = Uploading(n, "B", caller, m.path, kind, meta, e, basis)
  OBVIOUS
<1> HIDE DEF u, caller
<1>7. TransferInv' /\ uploads' \subseteq Upload /\ u.caller = caller /\ u.at = "B" /\ uploads' = uploads \cup {u}
  BY <1>1, <1>2, <1>4, <1>5, <1>6, BegunKeeps
<1>8. TransferTyped'
  BY <1>2, <1>7 DEF Core, Local, TransferTyped
<1>9. RunFits'
  <2>1. UNCHANGED <<phase, cur, asked, heard, stored, walked, job, todo>>
    BY DEF runVars, settings
  <2>2. Wanted' = Wanted
    BY <2>1 DEF Wanted
  <2> QED BY <2>1, <2>2 DEF Core, Local, RunFits
<1>10. CallersFit'
  BY <1>4, <1>7 DEF Core, Local, CallersFit, runVars
<1>11. AnswersFit'
  <2> SUFFICES ASSUME asked # 0 PROVE AnswersFit'
    BY DEF AnswersFit
  <2>1. Wanted' = Wanted /\ asked' = asked
    BY DEF Wanted, runVars
  <2>2. m.id = asked => Wanted = "send"
    BY <1>1, <1>2, <1>3 DEF Core, Local, AnswersFit, AnswerTo
  <2>3. \A v \in uploads' : v.caller # <<>> /\ v.caller[1] = asked' => Wanted' = "send"
    BY <1>4, <1>7, <2>1, <2>2 DEF Core, Local, AnswersFit
  <2>4. \A d \in Devices : \A y \in InBox(wire', d) : "id" \in DOMAIN y /\ y.id = asked' =>
            Wanted' = IF IsAnswer(y) THEN y.answer ELSE AnswerTo(y.op)
    BY <1>2, <2>1 DEF Core, Local, AnswersFit
  <2>5. \A s \in sessions' : \A i \in 1..Len(s.queue) : IsFinish(s.queue[i]) => s.queue[i].id # asked'
    BY <2>1 DEF Core, Local, AnswersFit
  <2> QED BY <2>3, <2>4, <2>5 DEF AnswersFit
<1>12. LinkTyped'
  BY DEF Core, LinkTyped, NoLink
<1>13. RunTyped'
  BY DEF Core, RunTyped, runVars, settings
<1> QED BY <1>7, <1>8, <1>9, <1>10, <1>11, <1>12, <1>13 DEF Core, Local

\* The answers of B, by their kind.
LEMMA AnswerForms ==
    ASSUME NEW id \in CallIds
    PROVE  /\ \A listing \in Listing :
                 LET a == [answer |-> "manifest", id |-> id, ok |-> TRUE, listing |-> listing]
                 IN  a \in Message /\ IsAnswer(a) /\ a.id = id /\ a.answer = "manifest"
           /\ \A ok \in BOOLEAN, basis \in Contents \cup {None} :
                 LET a == [answer |-> "signature", id |-> id, ok |-> ok, basis |-> basis]
                 IN  a \in Message /\ IsAnswer(a) /\ a.id = id /\ a.answer = "signature"
           /\ \A ok \in BOOLEAN, sum \in Contents \cup {None} :
                 LET a == [answer |-> "send", id |-> id, ok |-> ok, sum |-> sum]
                 IN  a \in Message /\ IsAnswer(a) /\ a.id = id /\ a.answer = "send"
           /\ \A ok \in BOOLEAN :
                 LET a == [answer |-> "done", id |-> id, ok |-> ok]
                 IN  a \in Message /\ IsAnswer(a) /\ a.id = id /\ a.answer = "done"
<1>1. \A listing \in Listing :
         [answer |-> "manifest", id |-> id, ok |-> TRUE, listing |-> listing] \in Message
  BY DEF Message, RemoteMessage
<1>2. \A ok \in BOOLEAN, basis \in Contents \cup {None} :
         [answer |-> "signature", id |-> id, ok |-> ok, basis |-> basis] \in Message
  BY DEF Message, RemoteMessage
<1>3. \A ok \in BOOLEAN, sum \in Contents \cup {None} :
         [answer |-> "send", id |-> id, ok |-> ok, sum |-> sum] \in Message
  BY DEF Message, TransferMessage
<1>4. \A ok \in BOOLEAN : [answer |-> "done", id |-> id, ok |-> ok] \in Message
  BY DEF Message, RemoteMessage
<1> QED BY <1>1, <1>2, <1>3, <1>4 DEF IsAnswer

\* A request of the run is handled by B.
LEMMA RequestHandledKeeps ==
    ASSUME RemoteTypeOK, Core, NEW t \in Transports, wire["B"][t] # <<>>, RequestHandled(t)
    PROVE  Core'
<1> DEFINE m == Head(wire["B"][t])
<1>1. /\ ~IsAnswer(m)
      /\ HandleManifest(t, m) \/ HandleSignature(t, m) \/ HandleSend(t, m)
            \/ HandleMove(t, m) \/ HandleDelete(t, m)
      /\ UNCHANGED <<NoLink, sessions, asked, heard, aborted, told, settings, stored, runVars,
                     diverged>>
  BY DEF RequestHandled
<1>2. wire \in Wires /\ "B" \in Devices
  BY DEF Core, Local, TransferTyped, Devices
<1>3. m \in Message /\ m = Head(wire["B"][t])
  BY <1>2, TakenWire
<1>4. /\ fs \in [Devices -> [Paths -> Entry \cup {None}]]
      /\ fs["B"] \in [Paths -> Entry \cup {None}]
      /\ cache \in Listing \cup {None} /\ blamed \subseteq Paths /\ touched \subseteq Paths
  BY <1>2 DEF Core, Local, TransferTyped, RunTyped
<1> HIDE DEF m
<1>5. CASE HandleManifest(t, m)
  <2>1. PICK listing \in {ListingOf("B")} \cup ({cache} \ {None}) :
           /\ cache' = listing
           /\ blamed' = blamed \cup {p \in Paths : listing[p] # ListingOf("B")[p]}
           /\ wire' = Answered(Taken("B", t), "B", t, [answer |-> "manifest", id |-> m.id,
                                                       ok |-> TRUE, listing |-> listing])
    BY <1>5 DEF HandleManifest
  <2>2. ListingOf("B") \in Listing
    BY <1>4 DEF ListingOf, Listing, MetaOf, Entry, Meta
  <2>3. listing \in Listing
    BY <1>4, <2>2
  <2>4. m.op = "manifest" /\ UNCHANGED <<fs, uploads, offered, touched>>
    BY <1>5 DEF HandleManifest, UploadsOnly
  <2>5. m.id \in CallIds /\ "id" \in DOMAIN m
    BY <1>1, <1>3, <2>4, MessageTypes DEF Is
  <2> DEFINE a == [answer |-> "manifest", id |-> m.id, ok |-> TRUE, listing |-> listing]
  <2>6. a \in Message /\ IsAnswer(a) /\ a.id = m.id /\ a.answer = "manifest"
    BY <2>3, <2>5, AnswerForms
  <2>7. AnswerTo(m.op) = "manifest"
    BY <2>4 DEF AnswerTo
  <2>8. wire' = Answered(Taken("B", t), "B", t, a)
    BY <2>1
  <2> HIDE DEF a
  <2>9. cache' \in Listing \cup {None} /\ blamed' \subseteq Paths /\ touched' \subseteq Paths
        /\ fs' \in [Devices -> [Paths -> Entry \cup {None}]]
    BY <1>4, <2>1, <2>3, <2>4
  <2> QED BY <1>1, <1>3, <2>4, <2>5, <2>6, <2>7, <2>8, <2>9, AnsweredKeeps
<1>6. CASE HandleSignature(t, m)
  <2> DEFINE e == fs["B"][m.path]  ok == (e # None)  basis == IF e = None THEN None ELSE e.data
  <2>1. m.op = "signature" /\ UNCHANGED <<fs, uploads, offered, cache, blamed, touched>>
    BY <1>6 DEF HandleSignature, UploadsOnly
  <2>2. m.id \in CallIds /\ "id" \in DOMAIN m /\ m.path \in Paths
    BY <1>1, <1>3, <2>1, MessageTypes DEF Is
  <2>3. ok \in BOOLEAN /\ basis \in Contents \cup {None}
    BY <1>4, <2>2 DEF Entry
  <2>4. wire' = Answered(Taken("B", t), "B", t,
                      [answer |-> "signature", id |-> m.id, ok |-> ok, basis |-> basis])
    BY <1>6 DEF HandleSignature
  <2> HIDE DEF ok, basis
  <2> DEFINE a == [answer |-> "signature", id |-> m.id, ok |-> ok, basis |-> basis]
  <2>5. a \in Message /\ IsAnswer(a) /\ a.id = m.id /\ a.answer = "signature"
    BY <2>2, <2>3, AnswerForms
  <2>6. AnswerTo(m.op) = "signature"
    BY <2>1 DEF AnswerTo
  <2>7. wire' = Answered(Taken("B", t), "B", t, a)
    BY <2>4
  <2> HIDE DEF a
  <2> QED BY <1>1, <1>3, <1>4, <2>1, <2>2, <2>5, <2>6, <2>7, AnsweredKeeps
<1>7. CASE HandleSend(t, m)
  <2>1. m.op = "send" /\ UNCHANGED <<fs, cache, blamed, touched>>
    BY <1>7 DEF HandleSend
  <2>2. m.id \in CallIds /\ "id" \in DOMAIN m /\ m.path \in Paths /\ m.basis \in Contents \cup {None}
    BY <1>1, <1>3, <2>1, MessageTypes DEF Is
  <2> DEFINE e == fs["B"][m.path]
  <2>3. CASE e = None
    <3>1. /\ wire' = Answered(Taken("B", t), "B", t, [answer |-> "send", id |-> m.id,
                                                      ok |-> FALSE, sum |-> None])
          /\ UNCHANGED <<uploads, offered>>
      BY <1>7, <2>3 DEF HandleSend, UploadsOnly
    <3> DEFINE a == [answer |-> "send", id |-> m.id, ok |-> FALSE, sum |-> None]
    <3>2. a \in Message /\ IsAnswer(a) /\ a.id = m.id /\ a.answer = "send"
      BY <2>2, AnswerForms
    <3>3. AnswerTo(m.op) = "send"
      BY <2>1 DEF AnswerTo
    <3>4. wire' = Answered(Taken("B", t), "B", t, a)
      BY <3>1
    <3> HIDE DEF a
    <3> QED BY <1>1, <1>3, <1>4, <2>1, <2>2, <3>1, <3>2, <3>3, <3>4, AnsweredKeeps
  <2>4. CASE e # None
    <3>1. wire' = Taken("B", t) /\ \E n \in FreshNumbers, kind \in {"delta", "full"} :
             Begun(Uploading(n, "B", <<m.id, t>>, m.path, kind, MetaOf(e), e,
                             IF kind = "delta" THEN m.basis ELSE None))
      BY <1>7, <2>4 DEF HandleSend
    <3>2. PICK n \in FreshNumbers, kind \in {"delta", "full"} :
             Begun(Uploading(n, "B", <<m.id, t>>, m.path, kind, MetaOf(e), e,
                             IF kind = "delta" THEN m.basis ELSE None))
      BY <3>1
    <3>3. e \in Entry /\ MetaOf(e) \in Meta
      BY <1>4, <2>2, <2>4 DEF MetaOf, Entry, Meta
    <3> DEFINE basis == IF kind = "delta" THEN m.basis ELSE None
               meta  == MetaOf(e)
    <3>4. basis \in Contents \cup {None} /\ meta \in Meta
      BY <2>2, <3>3
    <3>5. Begun(Uploading(n, "B", <<m.id, t>>, m.path, kind, meta, e, basis))
      BY <3>2
    <3> HIDE DEF basis, meta, e
    <3>6. Is(m, "send")
      BY <1>1, <2>1 DEF Is
    <3> QED BY <1>1, <1>3, <2>1, <3>1, <3>3, <3>4, <3>5, <3>6, SendBeginsKeeps
  <2> QED BY <2>3, <2>4
<1>8. CASE HandleMove(t, m)
  <2> DEFINE there == (fs["B"][m.from] # None)
  <2>1. m.op = "move" /\ UNCHANGED <<uploads, offered, cache>>
    BY <1>8 DEF HandleMove, UploadsOnly
  <2>2. m.id \in CallIds /\ "id" \in DOMAIN m /\ m.from \in Paths /\ m.to \in Paths /\ m.meta \in Meta
    BY <1>1, <1>3, <2>1, MessageTypes DEF Is
  <2>3. wire' = Answered(Taken("B", t), "B", t, [answer |-> "done", id |-> m.id, ok |-> there])
    BY <1>8 DEF HandleMove, Done
  <2>4. fs' \in [Devices -> [Paths -> Entry \cup {None}]]
    <3>1. CASE there
      <4>1. fs' = [fs EXCEPT !["B"] = Moved(fs["B"], m.from, m.to, m.meta.mtimeMs)]
        BY <1>2, <1>4, <1>8, <3>1 DEF HandleMove
      <4>2. m.meta.mtimeMs \in Times
        BY <2>2 DEF Meta
      <4>3. Moved(fs["B"], m.from, m.to, m.meta.mtimeMs) \in [Paths -> Entry \cup {None}]
        BY <1>4, <2>2, <3>1, <4>2, MovedTyped
      <4> QED BY <1>2, <1>4, <4>1, <4>3
    <3>2. CASE ~there
      BY <1>4, <1>8, <3>2 DEF HandleMove
    <3> QED BY <3>1, <3>2
  <2>5. touched' \subseteq Paths /\ blamed' \subseteq Paths
    BY <1>4, <1>8, <2>2 DEF HandleMove, Follows, Late
  <2>6. there \in BOOLEAN
    OBVIOUS
  <2> HIDE DEF there
  <2> DEFINE a == [answer |-> "done", id |-> m.id, ok |-> there]
  <2>7. a \in Message /\ IsAnswer(a) /\ a.id = m.id /\ a.answer = "done"
    BY <2>2, <2>6, AnswerForms
  <2>8. AnswerTo(m.op) = "done"
    BY <2>1 DEF AnswerTo
  <2>9. wire' = Answered(Taken("B", t), "B", t, a)
    BY <2>3
  <2> HIDE DEF a
  <2> QED BY <1>1, <1>3, <1>4, <2>1, <2>2, <2>4, <2>5, <2>7, <2>8, <2>9, AnsweredKeeps
<1>9. CASE HandleDelete(t, m)
  <2> DEFINE there == (fs["B"][m.path] # None)
  <2>1. m.op = "delete" /\ UNCHANGED <<uploads, offered, cache, touched>>
    BY <1>9 DEF HandleDelete, UploadsOnly
  <2>2. m.id \in CallIds /\ "id" \in DOMAIN m /\ m.path \in Paths
    BY <1>1, <1>3, <2>1, MessageTypes DEF Is
  <2>3. wire' = Answered(Taken("B", t), "B", t, [answer |-> "done", id |-> m.id, ok |-> there])
    BY <1>9 DEF HandleDelete, Done
  <2>4. fs' \in [Devices -> [Paths -> Entry \cup {None}]] /\ blamed' \subseteq Paths
    BY <1>4, <1>9, <2>2 DEF HandleDelete, Late
  <2>6. there \in BOOLEAN
    OBVIOUS
  <2> HIDE DEF there
  <2> DEFINE a == [answer |-> "done", id |-> m.id, ok |-> there]
  <2>7. a \in Message /\ IsAnswer(a) /\ a.id = m.id /\ a.answer = "done"
    BY <2>2, <2>6, AnswerForms
  <2>8. AnswerTo(m.op) = "done"
    BY <2>1 DEF AnswerTo
  <2>9. wire' = Answered(Taken("B", t), "B", t, a)
    BY <2>3
  <2> HIDE DEF a
  <2> QED BY <1>1, <1>3, <1>4, <2>1, <2>2, <2>4, <2>7, <2>8, <2>9, AnsweredKeeps
<1> QED BY <1>1, <1>5, <1>6, <1>7, <1>8, <1>9

\* A message that is an answer is one of these.
LEMMA AnswerKinds ==
    ASSUME NEW m \in TransferMessage \cup RemoteMessage, "answer" \in DOMAIN m
    PROVE  \/ m \in [answer : {"transfer"}, id : CallIds, ok : BOOLEAN, next : 0..2]
           \/ m \in [answer : {"send"}, id : CallIds, ok : BOOLEAN, sum : Contents \cup {None}]
           \/ m \in [answer : {"manifest"}, id : CallIds, ok : {TRUE}, listing : Listing]
           \/ m \in [answer : {"signature"}, id : CallIds, ok : BOOLEAN, basis : Contents \cup {None}]
           \/ m \in [answer : {"done"}, id : CallIds, ok : BOOLEAN]
<1>1. /\ m \notin [op : {"start"}, id : CallIds, session : SessionIds,
                   kind : {"full", "delta"}, path : Paths, meta : Meta]
      /\ m \notin [op : {"chunk"}, session : SessionIds, write : Write]
      /\ m \notin [op : {"finish"}, id : CallIds, session : SessionIds, n : Numbers,
                   expect : Contents, size : Sizes]
      /\ m \notin [op : {"abort"}, id : CallIds, session : SessionIds]
  OBVIOUS
<1>2. /\ m \notin [op : {"manifest"}, id : CallIds]
      /\ m \notin [op : {"signature", "delete"}, id : CallIds, path : Paths]
      /\ m \notin [op : {"send"}, id : CallIds, path : Paths, basis : Contents \cup {None}]
      /\ m \notin [op : {"move"}, id : CallIds, from : Paths, to : Paths, meta : Meta]
  OBVIOUS
<1> QED BY Zenon, <1>1, <1>2 DEF TransferMessage, RemoteMessage

\* The answer to the run's request arrives, or one that came too late is dropped.
LEMMA RequestAnsweredKeeps ==
    ASSUME RemoteTypeOK, Core, NEW t \in Transports, wire["A"][t] # <<>>, RequestAnswered(t)
    PROVE  Core'
<1> DEFINE m == Head(wire["A"][t])
<1>1. /\ IsAnswer(m) /\ m.answer # "transfer" /\ wire' = Taken("A", t)
      /\ \/ m.id = asked /\ heard' = m /\ asked' = 0
         \/ UNCHANGED <<heard, asked>>
      /\ UNCHANGED <<fs, UploadsOnly, phase, walked, todo, cur, newStored, movedSums, aborted,
                     stored, blamed, diverged, touched, Still>>
  BY DEF RequestAnswered
<1>2. wire \in Wires /\ OneOnWire(wire) /\ "A" \in Devices
  BY DEF Core, Local, TransferTyped, TransferInv, OneFinish, Devices
<1>3. m = Head(wire["A"][t])
  OBVIOUS
<1> HIDE DEF m
<1>4. /\ wire' \in Wires /\ OneOnWire(wire') /\ m \in InBox(wire, "A") /\ m \in Message
      /\ \A d \in Devices : InBox(wire', d) \subseteq InBox(wire, d)
  BY <1>1, <1>2, <1>3, TakenWire
<1>5. TransferInv'
  BY <1>1, <1>4, QuietStep DEF Core, Local, UploadsOnly, Still
<1>6. LinkTyped' /\ RunTyped'
  BY <1>1 DEF Core, LinkTyped, RunTyped, NoLink, Still, settings
<1>7. CASE UNCHANGED <<heard, asked>>
  <2>1. TransferTyped'
    BY <1>1, <1>4, <1>7 DEF Core, Local, TransferTyped, UploadsOnly, Still
  <2>2. UNCHANGED <<phase, cur, asked, heard, stored, walked, job, todo, uploads, sessions>>
    BY <1>1, <1>7 DEF UploadsOnly, Still, settings
  <2>3. Wanted' = Wanted
    BY <1>1 DEF Wanted
  <2>4. AnswersFit'
    BY <1>4, <2>2, <2>3 DEF Core, Local, AnswersFit
  <2>5. RunFits'
    BY <2>2, <2>3 DEF Core, Local, RunFits
  <2>6. CallersFit'
    BY <2>2 DEF Core, Local, CallersFit
  <2> QED BY <1>5, <1>6, <2>1, <2>4, <2>5, <2>6 DEF Core, Local
<1>8. CASE m.id = asked /\ heard' = m /\ asked' = 0
  <2>1. "id" \in DOMAIN m /\ m.id \in CallIds
    <3>1. m \in TransferMessage \cup RemoteMessage /\ "answer" \in DOMAIN m
      BY <1>1, <1>4 DEF Message, IsAnswer
    <3>2. \/ m \in [answer : {"transfer"}, id : CallIds, ok : BOOLEAN, next : 0..2]
          \/ m \in [answer : {"send"}, id : CallIds, ok : BOOLEAN, sum : Contents \cup {None}]
          \/ m \in [answer : {"manifest"}, id : CallIds, ok : {TRUE}, listing : Listing]
          \/ m \in [answer : {"signature"}, id : CallIds, ok : BOOLEAN, basis : Contents \cup {None}]
          \/ m \in [answer : {"done"}, id : CallIds, ok : BOOLEAN]
      BY <3>1, AnswerKinds
    <3> QED BY <3>2
  <2>2. asked # 0
    BY <1>8, <2>1 DEF CallIds
  <2>3. m.answer = Wanted
    BY <1>1, <1>2, <1>4, <1>8, <2>1, <2>2 DEF Core, Local, AnswersFit
  <2>4. heard = None /\ (phase = "manifest" \/ cur # None)
    BY <2>2 DEF Core, Local, RunFits
  <2>5. NoUpload
    BY <2>2 DEF Core, Local, RunFits, CallersFit, NoUpload
  <2>6. Wanted' = Wanted
    BY <1>1 DEF Wanted
  <2>7. RunFits'
    BY <1>1, <1>8, <2>3, <2>4, <2>6 DEF Core, Local, RunFits, Still, settings
  <2>8. CallersFit'
    BY <1>1, <2>5 DEF Core, Local, CallersFit, NoUpload, UploadsOnly
  <2>9. AnswersFit'
    BY <1>8 DEF AnswersFit
  <2>10. heard' \in Heard
    BY <1>1, <1>4, <1>8 DEF Heard, Message
  <2>11. 0 \in 0..MaxCalls
    BY TransferAssumption
  <2>12. TransferTyped'
    BY <1>1, <1>4, <1>8, <2>10, <2>11 DEF Core, Local, TransferTyped, UploadsOnly, Still
  <2> QED BY <1>5, <1>6, <2>7, <2>8, <2>9, <2>12 DEF Core, Local
<1> QED BY <1>1, <1>7, <1>8

(**************************** users and faults *****************************)

\* The run stands still.
LEMMA RunStays ==
    ASSUME RunFits, CallersFit, uploads' \subseteq uploads,
           UNCHANGED <<phase, cur, asked, heard, stored, walked, job, todo>>
    PROVE  RunFits' /\ CallersFit' /\ Wanted' = Wanted
<1>1. Wanted' = Wanted
  BY DEF Wanted
<1>2. RunFits'
  BY <1>1 DEF RunFits
<1>3. CallersFit'
  BY DEF CallersFit
<1> QED BY <1>1, <1>2, <1>3

\* Messages are lost, and uploads and sessions with their process.
LEMMA LosesKeeps ==
    ASSUME RemoteTypeOK, Core, uploads' \subseteq uploads, sessions' \subseteq sessions,
           wire' \in Wires, OneOnWire(wire'), \A d \in Devices : InBox(wire', d) \subseteq InBox(wire, d),
           UNCHANGED <<fs, asked, heard, aborted, offered, told, phase, cur, stored, walked, job, todo>>,
           LinkTyped', RunTyped'
    PROVE  Core'
<1>1. TransferTyped'
  BY DEF Core, Local, TransferTyped
<1>2. TransferInv'
  BY QuietStep DEF Core, Local
<1>3. RunFits' /\ CallersFit' /\ Wanted' = Wanted
  BY RunStays DEF Core, Local
<1>4. AnswersFit'
  BY <1>3 DEF Core, Local, AnswersFit
<1> QED BY <1>1, <1>2, <1>3, <1>4 DEF Core, Local

\* One fault less is left.
LEMMA FaultyTyped ==
    ASSUME budget \in Budget, NEW kind \in Faults, Faulty(kind)
    PROVE  budget' \in Budget /\ job' = job /\ clock' = clock
<1> DEFINE k == budget.faults[kind] - 1
           faults == [budget.faults EXCEPT ![kind] = k]
<1>1. budget.faults \in [Faults -> 0..MaxFaults] /\ budget.faults[kind] > 0
  BY DEF Budget, Faulty
<1>2. k \in 0..MaxFaults
  BY <1>1, RemoteAssumption
<1>3. budget' = [budget EXCEPT !.faults = faults]
  BY <1>1 DEF Faulty, Budget
<1> HIDE DEF k
<1>4. faults \in [Faults -> 0..MaxFaults]
  BY <1>1, <1>2
<1> HIDE DEF faults
<1> QED BY <1>3, <1>4 DEF Budget, Faulty

\* A step of a transfer leaves the run alone.
LEMMA TransferStays ==
    ASSUME UploadProgress \/ \E s \in sessions : Sweep(s)
    PROVE  UNCHANGED <<asked, aborted>>
<1>1. CASE \E u \in uploads : Hash(u) \/ Requests(u) \/ SendsChunk(u)
  BY <1>1 DEF Hash, Requests, SendsChunk
<1>2. CASE \E d \in Devices, t \in Transports :
              wire[d][t] # <<>> /\ (TransferAnswered(d, t) \/ TransferHandled(d, t))
  BY <1>2 DEF TransferAnswered, TransferHandled
<1>3. CASE \E s \in sessions : WriteChunk(s) \/ Apply(s) \/ FinishEnds(s) \/ Sweep(s)
  BY <1>3 DEF WriteChunk, Apply, FinishEnds, Sweep
<1> QED BY <1>1, <1>2, <1>3 DEF UploadProgress

\* What may be blamed are paths.
LEMMA BlameTyped ==
    ASSUME RemoteTypeOK
    PROVE  Unforeseen \subseteq Paths /\ GivenUp \subseteq Paths /\ Pursued \subseteq Paths
<1>1. uploads \subseteq Upload /\ cur \in Cursor \cup {None}
  BY DEF RemoteTypeOK, TransferTypeOK
<1>2. \A u \in uploads : u.path \in Paths
  BY <1>1 DEF Upload
<1>3. cur # None => cur.path \in Paths
  BY <1>1 DEF Cursor
<1> QED BY <1>2, <1>3 DEF Unforeseen, GivenUp, Pursued

\* Whatever an upload or a session does next, the core is kept.
LEMMA TransferStepsKeeps ==
    ASSUME RemoteTypeOK, Core, TransferSteps
    PROVE  Core'
<1>1. /\ UploadProgress \/ \E s \in sessions : Sweep(s)
      /\ blamed' = blamed \cup Unforeseen \cup GivenUp
      /\ UNCHANGED <<NoLink, settings, cache, stored, runVars, touched, diverged>>
  BY DEF TransferSteps
<1>2. UNCHANGED <<asked, aborted>>
  BY <1>1, TransferStays
<1>3. Frame
  BY <1>1, <1>2 DEF Frame, settings
<1>4. Local'
  BY <1>1, <1>3, TransferKeeps DEF Core
<1>5. Unforeseen \subseteq Paths /\ GivenUp \subseteq Paths
  BY BlameTyped
<1>6. LinkTyped'
  BY <1>1 DEF Core, LinkTyped, NoLink
<1>7. RunTyped'
  BY <1>1, <1>5 DEF Core, RunTyped, runVars, settings
<1> QED BY <1>4, <1>6, <1>7 DEF Core

\* An answer comes too late, or never.
LEMMA TimeOutTyped ==
    ASSUME budget \in Budget, NEW id, TimeOut(id)
    PROVE  budget' \in Budget /\ job' = job /\ clock' = clock
BY FaultyTyped DEF TimeOut, settings, Faults

\* So it is when a request, an upload or a session times out.
LEMMA TimeOutsKeeps ==
    ASSUME RemoteTypeOK, Core, TimeOuts
    PROVE  Core'
<1>0. budget \in Budget /\ GivenUp \subseteq Paths /\ Pursued \subseteq Paths
  BY BlameTyped DEF Core, RunTyped
<1>1. ASSUME NEW u \in uploads, TimesOut(u), TimeOut(u.call), blamed' = blamed \cup GivenUp,
             UNCHANGED <<NoLink, cache, stored, runVars, touched, diverged>>
      PROVE  Core'
  <2>1. budget' \in Budget /\ job' = job /\ clock' = clock
    BY <1>0, <1>1, TimeOutTyped
  <2>2. UNCHANGED <<asked, aborted>>
    BY <1>1 DEF TimesOut
  <2>3. Frame
    BY <1>1, <2>1, <2>2 DEF Frame
  <2>4. Local'
    BY <1>1, <2>3, TimesOutKeeps DEF Core
  <2>5. LinkTyped'
    BY <1>1 DEF Core, LinkTyped, NoLink
  <2>6. RunTyped'
    BY <1>0, <1>1, <2>1 DEF Core, RunTyped, runVars
  <2> QED BY <2>4, <2>5, <2>6 DEF Core
<1>2. ASSUME asked # 0, asked' = 0, heard' = Unheard, TimeOut(asked),
             blamed' = blamed \cup Pursued,
             UNCHANGED <<fs, UploadsOnly, sessions, told, linkVars, aborted, cache, stored, runVars,
                         touched, diverged>>
      PROVE  Core'
  <2>1. budget' \in Budget /\ job' = job /\ clock' = clock
    BY <1>0, <1>2, TimeOutTyped
  <2>2. Unheard \in Heard /\ Unheard.answer = "none"
    BY DEF Unheard, Heard
  <2>3. 0 \in 0..MaxCalls
    BY TransferAssumption
  <2>4. wire' = wire /\ OneOnWire(wire) /\ uploads' = uploads
    BY <1>2 DEF linkVars, UploadsOnly, Core, Local, TransferInv, OneFinish
  <2>5. TransferInv'
    BY <1>2, <2>4, QuietStep DEF Core, Local, UploadsOnly
  <2>6. TransferTyped'
    BY <1>2, <2>2, <2>3, <2>4 DEF Core, Local, TransferTyped, UploadsOnly
  <2>7. NoUpload
    BY <1>2 DEF Core, Local, RunFits, CallersFit, NoUpload
  <2>8. phase = "manifest" \/ cur # None
    BY <1>2 DEF Core, Local, RunFits
  <2>9. RunFits'
    BY <1>2, <2>1, <2>2, <2>8 DEF Core, Local, RunFits, runVars
  <2>10. CallersFit'
    BY <2>4, <2>7 DEF Core, Local, CallersFit, NoUpload
  <2>11. AnswersFit'
    BY <1>2 DEF AnswersFit
  <2>12. LinkTyped'
    BY <1>2 DEF Core, LinkTyped, linkVars
  <2>13. RunTyped'
    BY <1>0, <1>2, <2>1 DEF Core, RunTyped, runVars
  <2> QED BY <2>5, <2>6, <2>9, <2>10, <2>11, <2>12, <2>13 DEF Core, Local
<1> QED BY <1>1, <1>2 DEF TimeOuts

\* The user, on either device.
LEMMA UserActsKeeps ==
    ASSUME RemoteTypeOK, Core, NEW d \in Devices, NEW tree \in [Paths -> Entry \cup {None}],
           NEW ps \in SUBSET Paths, UserActs(d, tree, ps), blamed' \subseteq Paths
    PROVE  Core'
<1>1. /\ clock < budget.edits /\ clock' = clock + 1 /\ fs' = [fs EXCEPT ![d] = tree]
      /\ touched' = touched \cup ps
      /\ UNCHANGED <<EngineStays, job, budget, aborted>>
  BY DEF UserActs
<1>2. clock' \in 0..MaxClock
  <2>1. clock \in 0..MaxClock /\ budget.edits \in 0..MaxClock
    BY DEF Core, RunTyped, Budget
  <2> QED BY <1>1, <2>1, TransferAssumption
<1>3. fs' \in [Devices -> [Paths -> Entry \cup {None}]]
  BY <1>1 DEF Core, Local, TransferTyped
<1>4. RunTyped'
  BY <1>1, <1>2 DEF Core, RunTyped, EngineStays, runVars
<1>5. UNCHANGED <<uploads, offered, asked, wire, sessions, told, NoLink, heard, aborted,
                  phase, cur, stored, walked, job, todo>>
  BY <1>1 DEF EngineStays, linkVars, NoLink, runVars
<1>6. RunFits' /\ CallersFit' /\ Wanted' = Wanted
  BY <1>5, RunStays DEF Core, Local
<1>7. aborted' \in BOOLEAN /\ heard' \in Heard \cup {None}
  BY <1>5 DEF Core, Local, TransferTyped
<1> QED BY <1>3, <1>4, <1>5, <1>6, <1>7, RunGoesOn

\* The user's edits leave requests and messages alone.
LEMMA UserStepsKeeps ==
    ASSUME RemoteTypeOK, Core, UserSteps
    PROVE  Core'
<1>1. /\ fs \in [Devices -> [Paths -> Entry \cup {None}]] /\ clock \in 0..MaxClock
      /\ budget \in Budget /\ blamed \subseteq Paths
  BY DEF Core, Local, TransferTyped, RunTyped
<1>2. ASSUME NEW d \in Devices, NEW p \in Paths, NEW size \in budget.sizes, UserWrites(d, p, size)
      PROVE  Core'
  <2> DEFINE e == [data |-> clock + 1, size |-> size, mtimeMs |-> clock + 1]
             tree == [fs[d] EXCEPT ![p] = e]
  <2>1. UserActs(d, tree, {p}) /\ blamed' \subseteq Paths
    BY <1>1, <1>2 DEF UserWrites
  <2>2. clock < budget.edits /\ budget.edits \in 0..MaxClock /\ size \in Sizes
    BY <1>1, <2>1 DEF UserActs, Budget
  <2>3. clock + 1 \in Times /\ clock + 1 \in Contents
    BY <1>1, <2>2, TransferAssumption DEF Times, Contents, Torn
  <2>4. e \in Entry
    BY <2>2, <2>3 DEF Entry
  <2> HIDE DEF e
  <2>5. tree \in [Paths -> Entry \cup {None}]
    BY <1>1, <2>4
  <2> HIDE DEF tree
  <2> QED BY <2>1, <2>5, UserActsKeeps
<1>3. ASSUME NEW d \in Devices, NEW p \in Paths, UserDeletes(d, p)
      PROVE  Core'
  <2> DEFINE tree == [fs[d] EXCEPT ![p] = None]
  <2>1. /\ UserActs(d, tree, {p}) /\ tree \in [Paths -> Entry \cup {None}]
        /\ blamed' \subseteq Paths
    BY <1>1, <1>3 DEF UserDeletes
  <2> HIDE DEF tree
  <2> QED BY <2>1, UserActsKeeps
<1>4. ASSUME NEW d \in Devices, NEW p \in Paths, NEW q \in Paths, UserRenames(d, p, q)
      PROVE  Core'
  <2> DEFINE tree == [fs[d] EXCEPT ![q] = fs[d][p], ![p] = None]
  <2>1. /\ UserActs(d, tree, {p, q}) /\ tree \in [Paths -> Entry \cup {None}]
        /\ blamed' \subseteq Paths
    BY <1>1, <1>4 DEF UserRenames, Follows
  <2> HIDE DEF tree
  <2> QED BY <2>1, UserActsKeeps
<1> QED BY <1>2, <1>3, <1>4 DEF UserSteps

\* The user cancels the run.
LEMMA CancelKeeps ==
    ASSUME RemoteTypeOK, Core, Cancel
    PROVE  Core'
<1>1. /\ Faulty("cancel") /\ aborted' = TRUE /\ UNCHANGED <<fs, EngineStays, touched, blamed>>
  BY DEF Cancel
<1>2. "cancel" \in Faults /\ budget \in Budget
  BY DEF Faults, Core, RunTyped
<1>3. budget' \in Budget /\ job' = job /\ clock' = clock
  BY <1>1, <1>2, FaultyTyped
<1>4. UNCHANGED <<uploads, offered, asked, wire, sessions, told, NoLink, heard,
                  phase, cur, stored, walked, job, todo>>
  BY <1>1, <1>3 DEF EngineStays, linkVars, NoLink, runVars
<1>5. RunFits' /\ CallersFit' /\ Wanted' = Wanted
  BY <1>4, RunStays DEF Core, Local
<1>6. RunTyped'
  BY <1>1, <1>3 DEF Core, RunTyped, EngineStays, runVars
<1>7. aborted' \in BOOLEAN /\ heard' \in Heard \cup {None} /\ fs' \in [Devices -> [Paths -> Entry \cup {None}]]
  BY <1>1, <1>4 DEF Core, Local, TransferTyped
<1> QED BY <1>4, <1>5, <1>6, <1>7, RunGoesOn

\* The links come and go, and take with them what is on the way.
LEMMA LinkMoves ==
    ASSUME LinkTyped, wire \in Wires, NEW d \in Devices,
           \/ RelayBreaks(d) \/ RelayRejects(d) \/ LanForgets(d) \/ P2pCloses \/ LinkDies(d)
           \/ \E gone \in SUBSET lan \ {{}} : LanBreaks(gone)
           \/ RelayConnects(d) \/ RelayCloses(d) \/ LanMeets(d) \/ P2pOpens
    PROVE  LinkTyped' /\ (wire' = wire \/ \E ts : wire' = Lost(ts))
<1>1. CASE RelayBreaks(d)
  BY <1>1 DEF RelayBreaks, LinkTyped
<1>2. CASE RelayRejects(d)
  BY <1>2 DEF RelayRejects, LinkTyped
<1>3. CASE LanForgets(d) \/ P2pCloses
  BY <1>3 DEF LanForgets, P2pCloses, LinkTyped
<1>4. CASE LinkDies(d)
  BY <1>4 DEF LinkDies, LinkTyped
<1>5. CASE \E gone \in SUBSET lan \ {{}} : LanBreaks(gone)
  BY <1>5 DEF LanBreaks, LinkTyped
<1>6. CASE RelayConnects(d)
  BY <1>6 DEF RelayConnects, LinkTyped
<1>7. CASE RelayCloses(d)
  BY <1>7 DEF RelayCloses, LinkTyped
<1>8. CASE LanMeets(d) \/ P2pOpens
  BY <1>8 DEF LanMeets, P2pOpens, LinkTyped
<1> QED BY <1>1, <1>2, <1>3, <1>4, <1>5, <1>6, <1>7, <1>8

\* What a step of the transports leaves on the wire was there before it.
LEMMA WireAfter ==
    ASSUME Core, wire' = wire \/ \E ts : wire' = Lost(ts)
    PROVE  /\ wire' \in Wires /\ OneOnWire(wire')
           /\ \A d \in Devices : InBox(wire', d) \subseteq InBox(wire, d)
BY LostWire DEF Core, Local, TransferTyped, TransferInv, OneFinish

\* A transport that comes, breaks or closes only loses messages.
LEMMA LinkStepKeeps ==
    ASSUME RemoteTypeOK, Core, LinkBreaks \/ LinkRecovers
    PROVE  Core'
<1>1. LinkTyped /\ wire \in Wires /\ budget \in Budget /\ "break" \in Faults /\ "A" \in Devices
  BY DEF Core, Local, TransferTyped, RunTyped, Faults, Devices
<1>2. LinkTyped' /\ (wire' = wire \/ \E ts : wire' = Lost(ts))
  <2>1. CASE LinkBreaks
    BY <1>1, <2>1, LinkMoves DEF LinkBreaks
  <2>2. CASE LinkRecovers
    BY <1>1, <2>2, LinkMoves DEF LinkRecovers
  <2> QED BY <2>1, <2>2
<1>3. /\ budget' \in Budget /\ job' = job /\ clock' = clock
      /\ UNCHANGED <<transferVars, cache, stored, runVars, touched, blamed>>
  <2>1. CASE LinkBreaks
    BY <1>1, <2>1, FaultyTyped DEF LinkBreaks
  <2>2. CASE LinkRecovers
    BY <1>1, <2>2 DEF LinkRecovers, settings
  <2> QED BY <2>1, <2>2
<1>4. RunTyped'
  BY <1>3 DEF Core, RunTyped, runVars
<1>5. UNCHANGED <<fs, uploads, sessions, asked, heard, aborted, offered, told, phase, cur, stored,
                  walked, job, todo>>
  BY <1>3 DEF transferVars, runVars
<1> QED BY <1>2, <1>4, <1>5, WireAfter, LosesKeeps

\* A process dies, and what it had under way with it.
LEMMA AgentDiesKeeps ==
    ASSUME RemoteTypeOK, Core, NEW d \in Devices, AgentDies(d)
    PROVE  Core'
<1>1. LinkTyped /\ wire \in Wires /\ budget \in Budget /\ "crash" \in Faults
  BY DEF Core, Local, TransferTyped, RunTyped, Faults
<1>2. LinkTyped' /\ (wire' = wire \/ \E ts : wire' = Lost(ts))
  BY <1>1, LinkMoves DEF AgentDies
<1>3. /\ wire' \in Wires /\ OneOnWire(wire')
      /\ \A e \in Devices : InBox(wire', e) \subseteq InBox(wire, e)
  BY <1>2, WireAfter
<1>4. budget' \in Budget /\ job' = job /\ clock' = clock
  BY <1>1, FaultyTyped DEF AgentDies, settings
<1>5. /\ sessions' = {s \in sessions : s.at # d} /\ uploads' = {u \in uploads : u.at # d}
      /\ UNCHANGED <<fs, offered, told, stored, touched>>
  BY DEF AgentDies
<1>6. sessions' \subseteq sessions /\ uploads' \subseteq uploads
  BY <1>5
<1>7. CASE d = "A"
  <2>1. RunOver /\ asked' = 0 /\ blamed' = blamed \cup acted \cup Pursued /\ cache' = cache
    BY <1>7 DEF AgentDies
  <2>2. 0 \in 0..MaxCalls
    BY TransferAssumption
  <2>3. TransferTyped'
    BY <1>3, <1>5, <1>6, <2>1, <2>2 DEF Core, Local, TransferTyped, RunOver
  <2>4. TransferInv'
    BY <1>3, <1>5, <1>6, QuietStep DEF Core, Local
  <2>5. RunFits' /\ AnswersFit'
    BY <2>1 DEF RunOver, RunFits, AnswersFit
  <2>6. \A u \in uploads' : u.caller # <<>> /\ u.at = "B"
    BY <1>5, <1>7 DEF Core, Local, CallersFit
  <2>7. CallersFit'
    BY <2>6 DEF CallersFit
  <2>8. RunTyped'
    <3>1. None2 \in [Devices -> Listing]
      BY DEF None2, Listing
    <3>2. acted \subseteq Paths /\ Pursued \subseteq Paths
      BY BlameTyped DEF RemoteTypeOK
    <3> QED BY <1>4, <1>5, <2>1, <3>1, <3>2 DEF Core, RunTyped, RunOver, Records
  <2> QED BY <1>2, <2>3, <2>4, <2>5, <2>7, <2>8 DEF Core, Local
<1>8. CASE d # "A"
  <2>1. /\ cache' = None /\ blamed' = blamed \cup GivenUp
        /\ UNCHANGED <<runVars, asked, heard, aborted>>
    BY <1>8 DEF AgentDies
  <2>2. RunTyped'
    BY <1>4, <1>5, <2>1, BlameTyped DEF Core, RunTyped, runVars
  <2>3. UNCHANGED <<fs, asked, heard, aborted, offered, told, phase, cur, stored, walked, job, todo>>
    BY <1>4, <1>5, <2>1 DEF runVars
  <2> QED BY <1>2, <1>3, <1>6, <2>2, <2>3, LosesKeeps
<1> QED BY <1>7, <1>8

(************************ what a step does to the files ********************)

\* What the invariant knows of types, and what the history keeps.
LEMMA WholeType ==
    RemoteTypeOK <=> TransferTyped /\ LinkTyped /\ RunTyped
                     /\ acted \subseteq Paths /\ removed \subseteq Devices \X Paths
BY DEF RemoteTypeOK, TransferTypeOK, LinkTypeOK, TransferTyped, LinkTyped, RunTyped, Wires, Message

\* The primed type invariant, part by part.
LEMMA WholeTypeNext ==
    RemoteTypeOK' <=> TransferTyped' /\ LinkTyped' /\ RunTyped'
                     /\ acted' \subseteq Paths /\ removed' \subseteq Devices \X Paths
BY DEF RemoteTypeOK, TransferTypeOK, LinkTypeOK, TransferTyped, LinkTyped, RunTyped, Wires, Message

\* A transfer begins, with what is there.
Begins ==
    /\ UNCHANGED <<fs, told>>
    /\ \E u : /\ u.n \in Numbers /\ u.put = "no" /\ u.expect = u.chunk.data
              /\ u.n \in FreshNumbers /\ fs[u.at][u.path] # None
              /\ u.expect = fs[u.at][u.path].data /\ u.size = fs[u.at][u.path].size
              /\ u.session = <<u.n>> \/ u.session = <<u.path, u.meta.size, u.meta.mtimeMs>>
              /\ OfferOf(u) \in Delivery!Offer
              /\ \E d \in Devices, p \in Paths : fs[d][p] # None /\ u.expect = fs[d][p].data
              /\ uploads' = uploads \cup {u} /\ offered' = offered \cup {OfferOf(u)}

\* A file goes, or goes elsewhere.
Clears(d, p) == fs' = [fs EXCEPT ![d][p] = None]

Shifts(d, p, q) ==
    /\ fs[d][p] # None
    /\ \A e \in Devices, r \in Paths :
          /\ e = d /\ r = p => fs'[e][r] = None
          /\ e = d /\ r = q /\ r # p => /\ fs'[e][r] # None /\ fs'[e][r].data = fs[d][p].data
                                        /\ fs'[e][r].size = fs[d][p].size
          /\ e # d \/ (r # p /\ r # q) => fs'[e][r] = fs[e][r]

Rearranges == /\ UNCHANGED <<uploads, offered, told>>
              /\ \E d \in Devices, p, q \in Paths : Clears(d, p) \/ Shifts(d, p, q)

\* The user writes a new version.
WritesNew == /\ UNCHANGED <<uploads, offered, told>> /\ clock' = clock + 1
             /\ \E d \in Devices, p \in Paths : \E e :
                    e.data = clock + 1 /\ e \in Entry /\ fs' = [fs EXCEPT ![d][p] = e]

\* Nothing happens to the files, whatever transfers end with their process.
Rests == UNCHANGED <<fs, offered, told>> /\ uploads' \subseteq uploads

Transfers == /\ UploadProgress \/ (\E s \in sessions : Sweep(s)) \/ (\E u \in uploads : TimesOut(u))
             /\ clock' = clock

Effect == \/ Begins \/ Rearranges \/ Rests \/ WritesNew
          \/ Transfers

\* What begins is offered.
LEMMA BegunOffers ==
    ASSUME RemoteTypeOK, NEW n \in FreshNumbers, NEW d \in Devices, NEW p \in Paths,
           NEW kind \in {"full", "delta"}, fs[d][p] # None, NEW caller, NEW meta, NEW basis,
           Begun(Uploading(n, d, caller, p, kind, meta, fs[d][p], basis)), UNCHANGED <<fs, told>>
    PROVE  Begins
<1> DEFINE u == Uploading(n, d, caller, p, kind, meta, fs[d][p], basis)
<1>1. /\ u.n = n /\ u.put = "no" /\ u.expect = fs[d][p].data /\ u.chunk.data = fs[d][p].data
      /\ u.at = d /\ u.path = p /\ u.kind = kind /\ u.size = fs[d][p].size
      /\ u.session = <<u.n>> \/ u.session = <<u.path, u.meta.size, u.meta.mtimeMs>>
  BY DEF Uploading
<1>2. uploads' = uploads \cup {u} /\ offered' = offered \cup {OfferOf(u)}
  BY DEF Begun, OfferOf
<1> HIDE DEF u
<1>3. n \in Numbers
  BY FreshNumber
<1>4. fs[d][p] \in Entry
  BY WholeType DEF TransferTyped
<1>5. OfferOf(u) \in Delivery!Offer
  BY <1>1, <1>4, Two DEF OfferOf, Delivery!Offer, Delivery!Kinds, Entry
<1> QED BY <1>1, <1>2, <1>3, <1>5 DEF Begins

\* A file that is moved takes its content with it.
LEMMA MovedShifts ==
    ASSUME fs \in [Devices -> [Paths -> Entry \cup {None}]], NEW d \in Devices,
           NEW p \in Paths, NEW q \in Paths, NEW mtimeMs \in Times, fs[d][p] # None,
           fs' = [fs EXCEPT ![d] = Moved(fs[d], p, q, mtimeMs)]
    PROVE  Shifts(d, p, q)
<1> DEFINE e == [fs[d][p] EXCEPT !.mtimeMs = mtimeMs]
           tree == [fs[d] EXCEPT ![q] = e, ![p] = None]
<1>1. fs[d] \in [Paths -> Entry \cup {None}] /\ fs[d][p] \in Entry
  OBVIOUS
<1>2. e.data = fs[d][p].data /\ e.size = fs[d][p].size /\ e # None
  <2>1. e \in Entry /\ e.data = fs[d][p].data /\ e.size = fs[d][p].size
    BY <1>1 DEF Entry
  <2> QED BY <2>1, NotNone
<1>3. fs' = [fs EXCEPT ![d] = tree]
  BY DEF Moved
<1> HIDE DEF e
<1>4. \A r \in Paths : /\ r = p => tree[r] = None
                       /\ r = q /\ r # p => tree[r] = e
                       /\ r # p /\ r # q => tree[r] = fs[d][r]
  BY <1>1
<1> HIDE DEF tree
<1>5. fs'[d] = tree /\ \A x \in Devices : x # d => fs'[x] = fs[x]
  BY <1>3
<1> QED BY <1>2, <1>4, <1>5 DEF Shifts

\* The steps of the run.
LEMMA RunEffect ==
    ASSUME RemoteTypeOK, Core,
           \/ StartRun \/ HearListing \/ SrcMoves \/ HearMove \/ DstMoves
           \/ \E p \in Paths : Visit(p) \/ DeleteOrphan(p)
           \/ HearSignature \/ HearOutcome \/ Abort \/ ToDeletes \/ FinishRun
    PROVE  Effect /\ clock' = clock
<1>0. "A" \in Devices /\ fs \in [Devices -> [Paths -> Entry \cup {None}]]
  BY DEF Devices, Core, Local, TransferTyped
<1>1. RunFails => Rests /\ clock' = clock
  BY DEF RunFails, Rests, UploadsOnly, Still, settings
<1>2. CASE StartRun
  BY <1>2 DEF StartRun, Effect, Rests, UploadsOnly
<1>3. CASE HearListing
  BY <1>1, <1>3 DEF HearListing, Effect, Rests, UploadsOnly, Still, settings
<1>4. CASE SrcMoves
  BY <1>1, <1>4 DEF SrcMoves, Effect, Rests, UploadsOnly, Still, settings
<1>5. CASE HearMove
  BY <1>1, <1>5 DEF HearMove, Effect, Rests, UploadsOnly, Still, settings
<1>6. CASE DstMoves
  <2>1. CASE aborted \/ \E m \in Renamed("dst") : fs["A"][m[1]] = None
    BY <1>1, <1>6, <2>1 DEF DstMoves, Effect
  <2>2. CASE ~(aborted \/ \E m \in Renamed("dst") : fs["A"][m[1]] = None)
    <3>1. UNCHANGED <<uploads, offered, told, clock>>
      BY <1>6, <2>2 DEF DstMoves, UploadsOnly, settings
    <3>2. CASE Renamed("dst") = {}
      BY <1>6, <2>2, <3>1, <3>2 DEF DstMoves, Effect, Rests
    <3>3. CASE Renamed("dst") # {}
      <4>1. PICK m \in Renamed("dst") :
               fs' = [fs EXCEPT !["A"] = Moved(@, m[1], m[2], walked["B"][m[2]].mtimeMs)]
        BY <1>6, <2>2, <3>3 DEF DstMoves
      <4>2. m[1] \in Missing("dst") /\ m[2] \in Added("dst")
        BY DEF Renamed
      <4>3. m[1] \in Paths /\ m[2] \in Paths /\ fs["A"][m[1]] # None
        BY <2>2, <4>2 DEF Missing, Added
      <4>4. fs' = [fs EXCEPT !["A"] = Moved(fs["A"], m[1], m[2], walked["B"][m[2]].mtimeMs)]
        BY <1>0, <4>1
      <4> DEFINE mtimeMs == walked["B"][m[2]].mtimeMs
      <4>5. mtimeMs \in Times
        <5>1. walked["B"] \in Listing /\ walked["B"][m[2]] # None
          BY <4>2 DEF Added, Changed, Core, RunTyped, Devices
        <5> QED BY <4>3, <5>1 DEF Listing, Meta
      <4>6. fs' = [fs EXCEPT !["A"] = Moved(fs["A"], m[1], m[2], mtimeMs)]
        BY <4>4
      <4> HIDE DEF mtimeMs
      <4>7. Shifts("A", m[1], m[2])
        BY <1>0, <4>3, <4>5, <4>6, MovedShifts
      <4> QED BY <1>0, <3>1, <4>3, <4>7 DEF Effect, Rearranges
    <3> QED BY <3>2, <3>3
  <2> QED BY <2>1, <2>2
<1>7. ASSUME NEW p \in Paths, SendsFull(p), UNCHANGED <<fs, told>>
      PROVE  Effect
  <2>1. CASE fs["A"][p] = None \/ aborted
    BY <1>7, <2>1 DEF SendsFull, UploadsOnly, Effect, Rests
  <2>2. CASE ~(fs["A"][p] = None \/ aborted)
    <3>1. PICK n \in FreshNumbers :
             Begun(Uploading(n, "A", <<>>, p, "full", walked["A"][p], fs["A"][p], None))
      BY <1>7, <2>2 DEF SendsFull
    <3> QED BY <1>0, <1>7, <2>2, <3>1, BegunOffers DEF Effect
  <2> QED BY <2>1, <2>2
<1>8. ASSUME NEW p \in Paths, Visit(p)
      PROVE  Effect /\ clock' = clock
  <2>1. UNCHANGED <<told, clock>>
    BY <1>8 DEF Visit, settings
  <2>2. \/ SendsFull(p) /\ UNCHANGED fs
        \/ UNCHANGED <<fs, uploads, offered>>
        \/ Clears("A", p) /\ UNCHANGED <<uploads, offered>>
    BY <1>8 DEF Visit, UploadsOnly, Clears
  <2>3. CASE SendsFull(p) /\ UNCHANGED fs
    BY <1>7, <2>1, <2>3
  <2>4. CASE UNCHANGED <<fs, uploads, offered>>
    BY <2>1, <2>4 DEF Effect, Rests
  <2>5. CASE Clears("A", p) /\ UNCHANGED <<uploads, offered>>
    BY <1>0, <2>1, <2>5 DEF Effect, Rearranges
  <2> QED BY <2>2, <2>3, <2>4, <2>5
<1>9. ASSUME NEW p \in Paths, DeleteOrphan(p)
      PROVE  Effect /\ clock' = clock
  BY <1>9 DEF DeleteOrphan, Effect, Rests, UploadsOnly, Still, settings
<1>10. CASE HearSignature
  <2> DEFINE p == cur.path
  <2>1. /\ UNCHANGED <<fs, told, clock>> /\ cur # None
        /\ \/ SendsFull(p)
           \/ /\ fs["A"][p] # None
              /\ \E n \in FreshNumbers :
                    Begun(Uploading(n, "A", <<>>, p, "delta", walked["A"][p], fs["A"][p], heard.basis))
    BY <1>10 DEF HearSignature, Still, settings
  <2>2. p \in Paths
    BY <2>1 DEF Core, RunTyped, Cursor
  <2> HIDE DEF p
  <2>3. CASE SendsFull(p)
    BY <1>7, <2>1, <2>2, <2>3
  <2>4. CASE ~SendsFull(p)
    <3>1. PICK n \in FreshNumbers :
             Begun(Uploading(n, "A", <<>>, p, "delta", walked["A"][p], fs["A"][p], heard.basis))
      BY <2>1, <2>4
    <3> QED BY <1>0, <2>1, <2>2, <2>4, <3>1, BegunOffers DEF Effect
  <2> QED BY <2>3, <2>4
<1>11. CASE HearOutcome
  BY <1>11 DEF HearOutcome, Effect, Rests, UploadsOnly, Still, settings
<1>12. CASE Abort
  BY <1>1, <1>12 DEF Abort, Effect
<1>13. CASE ToDeletes
  BY <1>13 DEF ToDeletes, Effect, Rests, UploadsOnly, Still, settings
<1>14. CASE FinishRun
  BY <1>14 DEF FinishRun, Effect, Rests, UploadsOnly, Still, settings
<1> QED BY <1>2, <1>3, <1>4, <1>5, <1>6, <1>8, <1>9, <1>10, <1>11, <1>12, <1>13, <1>14

\* The steps of B, and the answers that arrive.
LEMMA RequestEffect ==
    ASSUME RemoteTypeOK, Core, NEW t \in Transports,
           \/ wire["A"][t] # <<>> /\ RequestAnswered(t)
           \/ wire["B"][t] # <<>> /\ RequestHandled(t)
    PROVE  Effect /\ clock' = clock
<1>0. "B" \in Devices /\ fs \in [Devices -> [Paths -> Entry \cup {None}]] /\ wire \in Wires
  BY DEF Devices, Core, Local, TransferTyped
<1>1. CASE RequestAnswered(t)
  BY <1>1 DEF RequestAnswered, Effect, Rests, UploadsOnly, Still, settings
<1>2. CASE wire["B"][t] # <<>> /\ RequestHandled(t)
  <2> DEFINE m == Head(wire["B"][t])
  <2>1. /\ ~IsAnswer(m) /\ UNCHANGED <<told, clock>>
        /\ HandleManifest(t, m) \/ HandleSignature(t, m) \/ HandleSend(t, m)
              \/ HandleMove(t, m) \/ HandleDelete(t, m)
    BY <1>2 DEF RequestHandled, settings
  <2>2. m \in Message
    BY <1>0, <1>2, TakenWire
  <2> HIDE DEF m
  <2>3. CASE HandleManifest(t, m) \/ HandleSignature(t, m)
    BY <2>1, <2>3 DEF HandleManifest, HandleSignature, Effect, Rests, UploadsOnly
  <2>4. CASE HandleSend(t, m)
    <3>1. m.op = "send" /\ UNCHANGED fs
      BY <2>4 DEF HandleSend
    <3>2. m.path \in Paths
      BY <2>1, <2>2, <3>1, MessageTypes DEF Is
    <3>3. CASE fs["B"][m.path] = None
      BY <2>1, <2>4, <3>1, <3>3 DEF HandleSend, Effect, Rests, UploadsOnly
    <3>4. CASE fs["B"][m.path] # None
      <4> DEFINE e == fs["B"][m.path]
      <4>1. \E n \in FreshNumbers, kind \in {"delta", "full"} :
               Begun(Uploading(n, "B", <<m.id, t>>, m.path, kind, MetaOf(e), e,
                               IF kind = "delta" THEN m.basis ELSE None))
        BY <2>4, <3>4 DEF HandleSend
      <4>2. PICK n \in FreshNumbers, kind \in {"delta", "full"} :
               Begun(Uploading(n, "B", <<m.id, t>>, m.path, kind, MetaOf(e), e,
                               IF kind = "delta" THEN m.basis ELSE None))
        BY <4>1
      <4> DEFINE caller == <<m.id, t>>
                 meta == MetaOf(e)
                 basis == IF kind = "delta" THEN m.basis ELSE None
                 path == m.path
      <4>3. Begun(Uploading(n, "B", caller, path, kind, meta, fs["B"][path], basis))
        BY <4>2
      <4>4. path \in Paths /\ fs["B"][path] # None
        BY <3>2, <3>4
      <4> HIDE DEF caller, meta, basis, path
      <4>5. kind \in {"full", "delta"}
        OBVIOUS
      <4> QED BY <1>0, <2>1, <3>1, <4>3, <4>4, <4>5, BegunOffers DEF Effect
    <3> QED BY <3>3, <3>4
  <2>5. CASE HandleMove(t, m)
    <3>1. m.op = "move" /\ UNCHANGED <<uploads, offered>>
      BY <2>5 DEF HandleMove, UploadsOnly
    <3>2. m.from \in Paths /\ m.to \in Paths /\ m.meta.mtimeMs \in Times
      <4>1. m.from \in Paths /\ m.to \in Paths /\ m.meta \in Meta
        BY <2>1, <2>2, <3>1, MessageTypes DEF Is
      <4> QED BY <4>1 DEF Meta
    <3>3. CASE fs["B"][m.from] = None
      BY <2>1, <2>5, <3>1, <3>3 DEF HandleMove, Effect, Rests
    <3>4. CASE fs["B"][m.from] # None
      <4>1. fs' = [fs EXCEPT !["B"] = Moved(fs["B"], m.from, m.to, m.meta.mtimeMs)]
        BY <1>0, <2>5, <3>4 DEF HandleMove
      <4>2. Shifts("B", m.from, m.to)
        BY <1>0, <3>2, <3>4, <4>1, MovedShifts
      <4> QED BY <1>0, <2>1, <3>1, <3>2, <4>2 DEF Effect, Rearranges
    <3> QED BY <3>3, <3>4
  <2>6. CASE HandleDelete(t, m)
    <3>1. m.op = "delete" /\ UNCHANGED <<uploads, offered>> /\ fs' = [fs EXCEPT !["B"][m.path] = None]
      BY <2>6 DEF HandleDelete, UploadsOnly
    <3>2. m.path \in Paths
      BY <2>1, <2>2, <3>1, MessageTypes DEF Is
    <3> QED BY <1>0, <2>1, <3>1, <3>2 DEF Effect, Rearranges, Clears
  <2> QED BY <2>1, <2>3, <2>4, <2>5, <2>6
<1> QED BY <1>1, <1>2

\* The steps of the transfers, the user and the links.
LEMMA OtherEffect ==
    ASSUME RemoteTypeOK, Core,
           \/ TransferSteps \/ TimeOuts \/ LinkRecovers \/ UserSteps \/ Cancel \/ LinkBreaks
           \/ \E d \in Devices : AgentDies(d)
    PROVE  Effect /\ clock' \in {clock, clock + 1}
<1>0. /\ fs \in [Devices -> [Paths -> Entry \cup {None}]] /\ budget \in Budget
      /\ clock \in 0..MaxClock
  BY DEF Core, Local, TransferTyped, RunTyped
<1>1. CASE TransferSteps
  BY <1>1 DEF TransferSteps, Effect, Transfers, settings
<1>2. CASE TimeOuts
  <2>1. ASSUME NEW u \in uploads, TimesOut(u), TimeOut(u.call) PROVE Effect /\ clock' = clock
    <3>1. clock' = clock
      BY <1>0, <2>1, TimeOutTyped
    <3> QED BY <2>1, <3>1 DEF Effect, Transfers
  <2>2. ASSUME TimeOut(asked), UNCHANGED <<fs, UploadsOnly, told>> PROVE Effect /\ clock' = clock
    <3>1. clock' = clock
      BY <1>0, <2>2, TimeOutTyped
    <3> QED BY <2>2, <3>1 DEF Effect, Rests, UploadsOnly
  <2> QED BY <1>2, <2>1, <2>2 DEF TimeOuts
<1>3. CASE LinkRecovers
  BY <1>3 DEF LinkRecovers, Effect, Rests, transferVars, settings
<1>4. CASE LinkBreaks
  BY <1>4 DEF LinkBreaks, Faulty, Effect, Rests, transferVars
<1>5. CASE Cancel
  BY <1>5 DEF Cancel, Faulty, Effect, Rests, EngineStays
<1>6. CASE \E d \in Devices : AgentDies(d)
  <2>1. PICK d \in Devices : AgentDies(d)
    BY <1>6
  <2>2. "crash" \in Faults
    BY DEF Faults
  <2>3. clock' = clock
    BY <1>0, <2>1, <2>2, FaultyTyped DEF AgentDies, settings
  <2>4. Rests
    BY <2>1 DEF AgentDies, Rests
  <2> QED BY <2>3, <2>4 DEF Effect
<1>7. CASE UserSteps
  <2>1. ASSUME NEW d \in Devices, NEW p \in Paths, NEW size \in budget.sizes, UserWrites(d, p, size)
        PROVE  Effect /\ clock' = clock + 1
    <3> DEFINE e == [data |-> clock + 1, size |-> size, mtimeMs |-> clock + 1]
    <3>1. /\ UserActs(d, [fs[d] EXCEPT ![p] = e], {p})
      BY <2>1 DEF UserWrites
    <3>2. /\ clock < budget.edits /\ clock' = clock + 1 /\ UNCHANGED <<uploads, offered, told>>
          /\ fs' = [fs EXCEPT ![d] = [fs[d] EXCEPT ![p] = e]]
      BY <3>1 DEF UserActs, EngineStays
    <3>3. budget.edits \in 0..MaxClock /\ size \in Sizes
      BY <1>0 DEF Budget
    <3>4. clock + 1 \in Times /\ clock + 1 \in Contents
      BY <1>0, <3>2, <3>3, TransferAssumption DEF Times, Contents, Torn
    <3>5. e \in Entry /\ e.data = clock + 1
      BY <3>3, <3>4 DEF Entry
    <3> HIDE DEF e
    <3>6. fs' = [fs EXCEPT ![d][p] = e]
      BY <1>0, <3>2
    <3> QED BY <3>2, <3>5, <3>6 DEF Effect, WritesNew
  <2>2. ASSUME NEW d \in Devices, NEW p \in Paths, UserDeletes(d, p)
        PROVE  Effect /\ clock' = clock + 1
    <3>1. /\ clock' = clock + 1 /\ UNCHANGED <<uploads, offered, told>>
          /\ fs' = [fs EXCEPT ![d] = [fs[d] EXCEPT ![p] = None]]
      BY <2>2 DEF UserDeletes, UserActs, EngineStays
    <3>2. Clears(d, p)
      BY <1>0, <3>1 DEF Clears
    <3> QED BY <3>1, <3>2 DEF Effect, Rearranges
  <2>3. ASSUME NEW d \in Devices, NEW p \in Paths, NEW q \in Paths, UserRenames(d, p, q)
        PROVE  Effect /\ clock' = clock + 1
    <3> DEFINE tree == [fs[d] EXCEPT ![q] = fs[d][p], ![p] = None]
    <3>1. /\ clock' = clock + 1 /\ UNCHANGED <<uploads, offered, told>>
          /\ fs' = [fs EXCEPT ![d] = tree] /\ fs[d][p] # None
      BY <2>3 DEF UserRenames, UserActs, EngineStays
    <3>2. \A r \in Paths : /\ r = p => tree[r] = None
                           /\ r = q /\ r # p => tree[r] = fs[d][p]
                           /\ r # p /\ r # q => tree[r] = fs[d][r]
      BY <1>0
    <3> HIDE DEF tree
    <3>3. fs'[d] = tree /\ \A x \in Devices : x # d => fs'[x] = fs[x]
      BY <1>0, <3>1
    <3>4. Shifts(d, p, q)
      BY <3>1, <3>2, <3>3 DEF Shifts
    <3> QED BY <3>1, <3>4 DEF Effect, Rearranges
  <2> QED BY <1>7, <2>1, <2>2, <2>3 DEF UserSteps
<1> QED BY <1>1, <1>2, <1>3, <1>4, <1>5, <1>6, <1>7

(**************************** the refinement *******************************)

\* The state FileDelivery is about: what is in the files, and the transfers under way.
Content == [d \in Devices |-> [p \in Paths |-> IF fs[d][p] = None THEN None ELSE fs[d][p].data]]

SendOf(u) == [n |-> u.n, put |-> u.put,
              offer |-> [to |-> Other(u.at), path |-> u.path, data |-> u.expect, kind |-> u.kind]]

Sends == {SendOf(u) : u \in uploads}

\* What a step of a transfer does to it: nothing; the sender is told; the source of a
\* delta is read again; or a file is put there, whole or damaged.
Stutters == UNCHANGED <<fs, told, Sends>>

TellsOne == /\ UNCHANGED fs
            /\ \E s \in Sends, ok \in BOOLEAN :
                  /\ ok => s.put = "whole"
                  /\ Sends' = Sends \ {s} /\ told' = [ok |-> ok, put |-> s.put]

RereadsOne == /\ UNCHANGED <<fs, told>>
              /\ \E s \in Sends, v \in Contents :
                    /\ s.offer.kind = "delta" /\ s.put = "no"
                    /\ Sends' = (Sends \ {s}) \cup {[s EXCEPT !.offer.data = v]}

PutsWholeOne(o) ==
    /\ UNCHANGED told
    /\ \E e \in Entry : e.data = o.data /\ fs' = [fs EXCEPT ![o.to][o.path] = e]
    /\ \/ Sends' = Sends
       \/ \E s \in Sends : /\ s.offer.to = o.to /\ s.offer.path = o.path /\ s.offer.data = o.data
                           /\ Sends' = (Sends \ {s}) \cup {[s EXCEPT !.put = "whole"]}

DamagesOne(o) ==
    /\ o.kind = "full" /\ UNCHANGED told
    /\ \E e \in Entry : e.data = Torn /\ fs' = [fs EXCEPT ![o.to][o.path] = e]
    /\ \/ Sends' = Sends
       \/ \E s \in Sends : Sends' = (Sends \ {s}) \cup {[s EXCEPT !.put = "damaged"]}

Transferred == /\ UNCHANGED offered
               /\ \/ Stutters \/ TellsOne \/ RereadsOne
                  \/ \E o \in offered : PutsWholeOne(o) \/ DamagesOne(o)

\* One upload changes, or ends.
LEMMA SendsChange ==
    ASSUME UploadsFit, NEW u \in uploads, NEW v
    PROVE  /\ SendOf(u) \in Sends
           /\ uploads' = (uploads \ {u}) \cup {v} => Sends' = (Sends \ {SendOf(u)}) \cup {SendOf(v)}
           /\ uploads' = (uploads \ {u}) \cup {v} /\ SendOf(v) = SendOf(u) => Sends' = Sends
           /\ uploads' = uploads \ {u} => Sends' = Sends \ {SendOf(u)}
<1>1. \A w \in uploads : SendOf(w) = SendOf(u) => w = u
  BY DEF UploadsFit, SendOf
<1>2. SendOf(u) \in Sends
  BY DEF Sends
<1>3. ASSUME uploads' = (uploads \ {u}) \cup {v}
      PROVE  Sends' = (Sends \ {SendOf(u)}) \cup {SendOf(v)}
  <2>1. Sends' = {SendOf(w) : w \in uploads'}
    BY DEF Sends, SendOf
  <2> QED BY <1>1, <1>3, <2>1 DEF Sends
<1>4. ASSUME uploads' = uploads \ {u}
      PROVE  Sends' = Sends \ {SendOf(u)}
  <2>1. Sends' = {SendOf(w) : w \in uploads'}
    BY DEF Sends, SendOf
  <2> QED BY <1>1, <1>4, <2>1 DEF Sends
<1> QED BY <1>2, <1>3, <1>4

\* An upload ends, or fails.
LEMMA EndedTells ==
    ASSUME UploadsFit, NEW u \in uploads, NEW ok \in BOOLEAN, NEW w, Ended(u, ok, w),
           ok => u.put = "whole", UNCHANGED <<fs, offered>>
    PROVE  Transferred
<1>1. Sends' = Sends \ {SendOf(u)} /\ SendOf(u) \in Sends
  BY SendsChange DEF Ended
<1>2. told' = [ok |-> ok, put |-> SendOf(u).put] /\ (ok => SendOf(u).put = "whole")
  BY DEF Ended, SendOf
<1> HIDE DEF Sends
<1> QED BY <1>1, <1>2 DEF Transferred, TellsOne

\* A step of an upload that neither ends it nor puts anything is none of FileDelivery.
LEMMA BecameStutters ==
    ASSUME UploadsFit, NEW u \in uploads, NEW v, Became(u, v), SendOf(v) = SendOf(u),
           UNCHANGED <<fs, offered, told>>
    PROVE  Transferred
BY SendsChange DEF Became, Transferred, Stutters

\* An upload that fails tells of failure, whatever was put.
LEMMA FailedTells ==
    ASSUME UploadsFit, NEW u \in uploads, u \in Upload, NEW w, Failed(u, w), UNCHANGED <<fs, offered>>
    PROVE  Transferred
<1>1. CASE u.stage \in {"send", "finish"}
  <2> DEFINE v == [u EXCEPT !.stage = "abort", !.call = 0]
  <2>1. Became(u, v) /\ UNCHANGED told
    BY <1>1 DEF Failed
  <2>2. SendOf(v) = SendOf(u)
    BY DEF SendOf, Upload
  <2> HIDE DEF v
  <2> QED BY <2>1, <2>2, BecameStutters
<1>2. CASE u.stage \notin {"send", "finish"}
  BY <1>2, EndedTells DEF Failed
<1> QED BY <1>1, <1>2

\* The steps of an upload.
LEMMA UploadTransfers ==
    ASSUME RemoteTypeOK, Core, NEW u \in uploads, Hash(u) \/ Requests(u) \/ SendsChunk(u) \/ TimesOut(u)
    PROVE  Transferred
<1>1. /\ UploadsFit /\ u \in Upload /\ UploadFits(u) /\ FALSE \in BOOLEAN
      /\ fs \in [Devices -> [Paths -> Entry \cup {None}]]
  BY DEF Core, Local, TransferInv, TransferTyped, UploadsFit
<1>2. CASE Hash(u)
  <2> DEFINE e == fs[u.at][u.path]
  <2>1. u.stage = "hash" /\ UNCHANGED <<fs, offered>>
    BY <1>2 DEF Hash
  <2>2. CASE e = None
    <3>1. Ended(u, FALSE, wire)
      BY <1>2, <2>2 DEF Hash
    <3> QED BY <1>1, <2>1, <3>1, EndedTells
  <2>3. CASE e # None
    <3> DEFINE v == [u EXCEPT !.expect = e.data, !.size = e.size, !.stage = "start"]
    <3>1. Became(u, v) /\ UNCHANGED told
      BY <1>2, <2>3 DEF Hash
    <3>2. e.data \in Contents
      BY <1>1, <2>3 DEF Upload, Entry
    <3>3. SendOf(v) = [SendOf(u) EXCEPT !.offer.data = e.data]
      BY <1>1 DEF SendOf, Upload
    <3>4. SendOf(u).offer.kind = "delta" /\ SendOf(u).put = "no"
      BY <1>1, <2>1 DEF SendOf, UploadFits, Upload
    <3> DEFINE d == e.data
    <3>5. d \in Contents /\ SendOf(v) = [SendOf(u) EXCEPT !.offer.data = d]
      BY <3>2, <3>3
    <3> HIDE DEF v, d, e
    <3>6. Sends' = (Sends \ {SendOf(u)}) \cup {SendOf(v)} /\ SendOf(u) \in Sends
      BY <1>1, <3>1, SendsChange DEF Became
    <3> HIDE DEF Sends
    <3> QED BY <2>1, <3>1, <3>4, <3>5, <3>6 DEF Transferred, RereadsOne
  <2> QED BY <2>2, <2>3
<1>3. CASE Requests(u)
  <2>1. UNCHANGED <<fs, offered>>
    BY <1>3 DEF Requests
  <2>2. CASE Failed(u, wire)
    BY <1>1, <2>1, <2>2, FailedTells
  <2>3. CASE ~Failed(u, wire)
    <3>1. PICK id \in FreshCalls : Became(u, [u EXCEPT !.call = id]) /\ UNCHANGED told
      BY <1>3, <2>3 DEF Requests
    <3> DEFINE v == [u EXCEPT !.call = id]
    <3>2. SendOf(v) = SendOf(u) /\ Became(u, v)
      BY <1>1, <3>1 DEF SendOf, Upload
    <3> HIDE DEF v
    <3> QED BY <1>1, <2>1, <3>1, <3>2, BecameStutters
  <2> QED BY <2>2, <2>3
<1>4. CASE SendsChunk(u)
  <2>1. UNCHANGED <<fs, offered>>
    BY <1>4 DEF SendsChunk
  <2>2. CASE Failed(u, wire)
    BY <1>1, <2>1, <2>2, FailedTells
  <2>3. CASE ~Failed(u, wire)
    <3> DEFINE seq == u.seq + 1
               stage == IF u.seq + 1 < Chunks(u) THEN u.stage ELSE "finish"
               v == [u EXCEPT !.seq = seq, !.stage = stage]
    <3>1. Became(u, v) /\ UNCHANGED told
      BY <1>4, <2>3 DEF SendsChunk
    <3> HIDE DEF seq, stage
    <3>2. SendOf(v) = SendOf(u)
      BY <1>1 DEF SendOf, Upload
    <3> HIDE DEF v
    <3> QED BY <1>1, <2>1, <3>1, <3>2, BecameStutters
  <2> QED BY <2>2, <2>3
<1>5. CASE TimesOut(u)
  BY <1>1, <1>5, FailedTells DEF TimesOut
<1> QED BY <1>2, <1>3, <1>4, <1>5

\* An upload hears: of success only when its version is there.
LEMMA HearingTransfers ==
    ASSUME RemoteTypeOK, Core, NEW d \in Devices, NEW t \in Transports, wire[d][t] # <<>>,
           TransferAnswered(d, t)
    PROVE  Transferred
<1> DEFINE m == Head(wire[d][t])
<1>1. /\ IsAnswer(m) /\ m.answer = "transfer" /\ UNCHANGED <<fs, offered>>
      /\ \/ \E u \in uploads : u.call = m.id /\ Hears(u, m.ok, m.next, Taken(d, t))
         \/ UNCHANGED <<uploads, told>>
  BY DEF TransferAnswered
<1>2. m \in InBox(wire, d) /\ m \in Message
  BY TakenWire DEF Core, Local, TransferTyped
<1>3. m.ok \in BOOLEAN /\ m.next \in 0..2
  BY <1>1, <1>2, MessageTypes
<1> HIDE DEF m
<1>4. CASE UNCHANGED <<uploads, told>>
  BY <1>1, <1>4 DEF Transferred, Stutters, Sends, SendOf
<1>5. ASSUME NEW u \in uploads, u.call = m.id, Hears(u, m.ok, m.next, Taken(d, t))
      PROVE  Transferred
  <2>1. UploadsFit /\ u \in Upload
    BY DEF Core, Local, TransferInv, TransferTyped
  <2>2. CASE u.stage = "start" /\ m.ok
    <3> DEFINE stage == IF m.next < Chunks(u) THEN "send" ELSE "finish"
               seq == m.next
               v == [u EXCEPT !.seq = seq, !.call = 0, !.stage = stage]
    <3>1. Became(u, v) /\ UNCHANGED told
      BY <1>5, <2>2 DEF Hears
    <3> HIDE DEF stage, seq
    <3>2. SendOf(v) = SendOf(u)
      BY <2>1 DEF SendOf, Upload
    <3> HIDE DEF v
    <3> QED BY <1>1, <2>1, <3>1, <3>2, BecameStutters
  <2>3. CASE u.stage = "finish" /\ m.ok
    <3>1. Ended(u, TRUE, Taken(d, t))
      BY <1>5, <2>3 DEF Hears
    <3>2. SaysOk(m)
      BY <1>1, <2>3 DEF SaysOk
    <3>3. u.put = "whole"
      BY <1>2, <1>5, <2>3, <3>2 DEF Core, Local, TransferInv, OutcomesFit
    <3> QED BY <1>1, <2>1, <3>1, <3>3, EndedTells
  <2>4. CASE ~(u.stage = "start" /\ m.ok) /\ ~(u.stage = "finish" /\ m.ok)
    <3>1. Failed(u, Taken(d, t))
      BY <1>5, <2>4 DEF Hears
    <3> QED BY <1>1, <2>1, <3>1, FailedTells
  <2> QED BY <2>2, <2>3, <2>4
<1> QED BY <1>1, <1>4, <1>5

\* A finish takes effect: what is put there was offered for this place.
LEMMA ApplyTransfers ==
    ASSUME RemoteTypeOK, Core, NEW s \in sessions, Apply(s)
    PROVE  Transferred
<1> DEFINE f == Head(s.queue)
           put == Put(s, f)
           e == Result(s, f, put)
<1>1. /\ s \in Session /\ SessionFits(s) /\ s.queue # <<>> /\ IsFinish(f)
      /\ UNCHANGED <<offered, told>>
      /\ uploads' = {IF u.n = f.n /\ put # "no" THEN [u EXCEPT !.put = put] ELSE u : u \in uploads}
      /\ fs' = IF put = "no" THEN fs ELSE [fs EXCEPT ![s.at][s.path] = e]
  BY DEF Core, Local, TransferTyped, TransferInv, SessionsFit, Apply, Finishing, IsFinish
<1>2. s.queue \in Seq(Write \cup Finish) /\ s.at \in Devices
  BY <1>1 DEF Session
<1>3. f = s.queue[1] /\ f \in Write \cup Finish /\ 1 \in 1..Len(s.queue)
  <2>1. Head(s.queue) = s.queue[1] /\ Len(s.queue) \in Nat /\ Len(s.queue) > 0
        /\ Head(s.queue) \in Write \cup Finish
    BY <1>1, <1>2, Rest
  <2>2. 1 \in 1..Len(s.queue)
    BY <2>1
  <2> HIDE DEF put, e
  <2> QED BY <2>1, <2>2
<1> HIDE DEF f, put, e
<1>4. f \in Finish
  BY <1>1, <1>3, ItemKinds
<1>5. /\ put \in {"no", "whole", "damaged"}
      /\ put # "no" => \E o \in offered : /\ o.to = s.at /\ o.path = s.path
                                          /\ put = "whole" => o.data = f.expect
                                          /\ put = "damaged" => o.kind = "full"
  BY <1>4, PutOffered DEF Core, Local, put
<1>6. e \in Entry
  BY <1>4, ResultTyped DEF Core, Local, e
<1>7. e.data = IF put = "damaged" THEN Torn ELSE f.expect
  BY DEF e, Result
<1>8. FinishFits(s.at, s.id, f)
  BY <1>1, <1>3 DEF Core, Local, TransferInv, FinishesFit
<1>9. \/ uploads' = uploads
      \/ put # "no" /\ \E u \in uploads : u.n = f.n /\ uploads' = (uploads \ {u}) \cup {[u EXCEPT !.put = put]}
  <2>1. uploads' = {IF u.n = f.n /\ put # "no" THEN [u EXCEPT !.put = put] ELSE u : u \in uploads}
    BY <1>1
  <2> QED BY <2>1, UploadsPut DEF Core, Local, TransferInv
<1>10. CASE put = "no"
  BY <1>1, <1>9, <1>10 DEF Transferred, Stutters, Sends, SendOf
<1>11. CASE put # "no"
  <2>1. PICK o \in offered : /\ o.to = s.at /\ o.path = s.path
                             /\ put = "whole" => o.data = f.expect
                             /\ put = "damaged" => o.kind = "full"
    BY <1>5, <1>11
  <2>2. fs' = [fs EXCEPT ![o.to][o.path] = e] /\ e \in Entry
    BY <1>1, <1>6, <1>11, <2>1
  <2>3. \/ Sends' = Sends
        \/ \E z \in Sends : /\ z.offer.to = s.at /\ z.offer.path = s.path /\ z.offer.data = f.expect
                            /\ Sends' = (Sends \ {z}) \cup {[z EXCEPT !.put = put]}
    <3>1. CASE uploads' = uploads
      BY <3>1 DEF Sends, SendOf
    <3>2. CASE \E u \in uploads : u.n = f.n /\ uploads' = (uploads \ {u}) \cup {[u EXCEPT !.put = put]}
      <4>1. PICK u \in uploads : u.n = f.n /\ uploads' = (uploads \ {u}) \cup {[u EXCEPT !.put = put]}
        BY <3>2
      <4> DEFINE v == [u EXCEPT !.put = put]
                 z == SendOf(u)
      <4>2. u \in Upload /\ UploadFits(u) /\ UploadsFit
        BY DEF Core, Local, TransferTyped, TransferInv, UploadsFit
      <4>3. u.expect = f.expect /\ Other(u.at) = s.at /\ u.session = s.id
        BY <1>8, <4>1 DEF FinishFits
      <4>4. u.path = s.path
        <5>1. CASE u.kind = "full"
          <6>1. u.session = <<u.n>> /\ u.n \in Numbers
            BY <4>2, <5>1 DEF UploadFits, Upload
          <6>2. PICK x \in Owners : Owns(u.n, x)
            BY <6>1 DEF Core, Local, TransferInv, NumbersOwned
          <6>3. OfferOf(u) = x /\ x.path = s.path
            BY <4>3, <6>1, <6>2 DEF Owns
          <6> QED BY <6>3 DEF OfferOf
        <5>2. CASE u.kind = "delta"
          <6>1. u.session \in DeltaIds /\ u.session[1] = u.path
            BY <4>2, <5>2 DEF UploadFits
          <6>2. s.kind = "delta"
            <7>1. s.kind = "full" => \E n \in Numbers : s.id = <<n>>
              BY <1>1 DEF SessionFits
            <7>2. s.kind # "full"
              BY <4>3, <6>1, <7>1, Identifiers
            <7> QED BY <1>1, <7>2 DEF Session
          <6> QED BY <1>1, <4>3, <6>1, <6>2 DEF SessionFits
        <5> QED BY <4>2, <5>1, <5>2 DEF Upload
      <4>5. SendOf(v) = [z EXCEPT !.put = put]
        BY <4>2 DEF SendOf, Upload
      <4>6. z.offer.to = s.at /\ z.offer.path = s.path /\ z.offer.data = f.expect
        BY <4>3, <4>4 DEF SendOf
      <4>7. uploads' = (uploads \ {u}) \cup {v}
        BY <4>1
      <4> HIDE DEF v
      <4>8. Sends' = (Sends \ {SendOf(u)}) \cup {SendOf(v)} /\ SendOf(u) \in Sends
        BY <4>2, <4>7, SendsChange
      <4> HIDE DEF Sends
      <4> QED BY <4>5, <4>6, <4>8
    <3> QED BY <1>9, <3>1, <3>2
  <2> HIDE DEF Sends
  <2>4. CASE put = "whole"
    <3>1. e.data = o.data
      BY <1>7, <2>1, <2>4
    <3>2. PutsWholeOne(o)
      BY <1>1, <2>1, <2>2, <2>3, <2>4, <3>1 DEF PutsWholeOne
    <3> QED BY <1>1, <3>2 DEF Transferred
  <2>5. CASE put = "damaged"
    <3>1. e.data = Torn
      BY <1>7, <2>5
    <3>2. DamagesOne(o)
      BY <1>1, <2>1, <2>2, <2>3, <2>5, <3>1 DEF DamagesOne
    <3> QED BY <1>1, <3>2 DEF Transferred
  <2> QED BY <1>5, <1>11, <2>4, <2>5
<1> QED BY <1>10, <1>11

\* Every step of a transfer.
LEMMA TransfersTransfer ==
    ASSUME RemoteTypeOK, Core, Transfers
    PROVE  Transferred
<1>1. ASSUME UNCHANGED <<fs, uploads, offered, told>> PROVE Transferred
  BY <1>1 DEF Transferred, Stutters, Sends, SendOf
<1>2. CASE \E u \in uploads : Hash(u) \/ Requests(u) \/ SendsChunk(u) \/ TimesOut(u)
  BY <1>2, UploadTransfers
<1>3. CASE \E d \in Devices, t \in Transports :
              wire[d][t] # <<>> /\ (TransferAnswered(d, t) \/ TransferHandled(d, t))
  <2>1. PICK d \in Devices, t \in Transports :
           wire[d][t] # <<>> /\ (TransferAnswered(d, t) \/ TransferHandled(d, t))
    BY <1>3
  <2>2. CASE TransferAnswered(d, t)
    BY <2>1, <2>2, HearingTransfers
  <2>3. CASE TransferHandled(d, t)
    BY <1>1, <2>3 DEF TransferHandled
  <2> QED BY <2>1, <2>2, <2>3
<1>4. CASE \E s \in sessions : WriteChunk(s) \/ Apply(s) \/ FinishEnds(s) \/ Sweep(s)
  <2>1. PICK s \in sessions : WriteChunk(s) \/ Apply(s) \/ FinishEnds(s) \/ Sweep(s)
    BY <1>4
  <2>2. CASE Apply(s)
    BY <2>2, ApplyTransfers
  <2>3. CASE WriteChunk(s) \/ FinishEnds(s) \/ Sweep(s)
    BY <1>1, <2>3 DEF WriteChunk, FinishEnds, Sweep
  <2> QED BY <2>1, <2>2, <2>3
<1> QED BY <1>2, <1>3, <1>4 DEF Transfers, UploadProgress

(************************* the inductive invariant *************************)

\* Versions stay numbered as they are written.
LEMMA SeenKeeps ==
    ASSUME RemoteTypeOK, Core, VersionsSeen, Effect, clock' \in {clock, clock + 1}
    PROVE  VersionsSeen'
<1>0. clock \in Nat /\ clock' \in Nat /\ fs \in [Devices -> [Paths -> Entry \cup {None}]]
  <2>1. clock \in 0..MaxClock
    BY DEF Core, RunTyped
  <2>2. clock \in Nat /\ clock + 1 \in Nat
    BY <2>1, TransferAssumption
  <2> QED BY <2>2 DEF Core, Local, TransferTyped
<1>1. Seen \subseteq Seen' /\ Torn \in Seen' /\ (clock' = clock + 1 => clock + 1 \in Seen')
  BY <1>0 DEF Seen, Torn
<1>2. /\ offered \subseteq Delivery!Offer /\ \A o \in offered : o.data \in Seen
      /\ \A d \in Devices, p \in Paths : fs[d][p] # None => fs[d][p].data \in Seen
  BY DEF VersionsSeen
<1>3. ASSUME offered' \subseteq Delivery!Offer, \A o \in offered' : o.data \in Seen',
             \A d \in Devices, p \in Paths : fs'[d][p] # None => fs'[d][p].data \in Seen'
      PROVE  VersionsSeen'
  BY <1>3 DEF VersionsSeen, Delivery!Offer, Delivery!Kinds
<1> HIDE DEF Seen
<1>4. CASE Begins
  <2>1. PICK u : /\ u.expect = u.chunk.data /\ OfferOf(u) \in Delivery!Offer
                 /\ \E d \in Devices, p \in Paths : fs[d][p] # None /\ u.expect = fs[d][p].data
                 /\ offered' = offered \cup {OfferOf(u)}
    BY <1>4 DEF Begins
  <2>2. OfferOf(u).data \in Seen
    BY <1>2, <2>1 DEF OfferOf
  <2> QED BY <1>1, <1>2, <1>3, <1>4, <2>1, <2>2 DEF Begins
<1>5. CASE Rearranges
  <2>1. PICK d \in Devices, p \in Paths, q \in Paths : Clears(d, p) \/ Shifts(d, p, q)
    BY <1>5 DEF Rearranges
  <2>2. CASE Clears(d, p)
    <3>1. \A e \in Devices, r \in Paths : fs'[e][r] = None \/ fs'[e][r] = fs[e][r]
      BY <1>0, <2>2 DEF Clears
    <3> QED BY <1>1, <1>2, <1>3, <1>5, <3>1 DEF Rearranges
  <2>3. CASE Shifts(d, p, q)
    <3>1. \A e \in Devices, r \in Paths : \/ fs'[e][r] = None \/ fs'[e][r] = fs[e][r]
                                          \/ fs'[e][r].data = fs[d][p].data
      BY <2>3 DEF Shifts
    <3>2. fs[d][p] # None
      BY <2>3 DEF Shifts
    <3> QED BY <1>1, <1>2, <1>3, <1>5, <3>1, <3>2 DEF Rearranges
  <2> QED BY <2>1, <2>2, <2>3
<1>6. CASE Rests
  BY <1>1, <1>2, <1>3, <1>6 DEF Rests
<1>7. CASE WritesNew
  <2>1. PICK d \in Devices, p \in Paths : \E e : e.data = clock + 1 /\ fs' = [fs EXCEPT ![d][p] = e]
    BY <1>7 DEF WritesNew
  <2>2. PICK e : e.data = clock + 1 /\ fs' = [fs EXCEPT ![d][p] = e]
    BY <2>1
  <2>3. \A x \in Devices, r \in Paths : fs'[x][r] = e \/ fs'[x][r] = fs[x][r]
    BY <1>0, <2>2
  <2> QED BY <1>1, <1>2, <1>3, <1>7, <2>2, <2>3 DEF WritesNew
<1>8. CASE Transfers
  <2>1. Transferred
    BY <1>8, TransfersTransfer
  <2>2. offered' = offered
    BY <2>1 DEF Transferred
  <2>3. CASE fs' = fs
    BY <1>1, <1>2, <1>3, <2>2, <2>3
  <2>4. CASE fs' # fs
    <3>1. PICK o \in offered : \E e \in Entry : /\ e.data = o.data \/ e.data = Torn
                                                /\ fs' = [fs EXCEPT ![o.to][o.path] = e]
      BY <2>1, <2>4 DEF Transferred, Stutters, TellsOne, RereadsOne, PutsWholeOne, DamagesOne
    <3>2. PICK e \in Entry : /\ e.data = o.data \/ e.data = Torn
                             /\ fs' = [fs EXCEPT ![o.to][o.path] = e]
      BY <3>1
    <3>3. \A x \in Devices, r \in Paths : fs'[x][r] = e \/ fs'[x][r] = fs[x][r]
      BY <1>0, <3>2
    <3>4. e.data \in Seen'
      BY <1>1, <1>2, <3>2
    <3> QED BY <1>1, <1>2, <1>3, <2>2, <3>3, <3>4
  <2> QED BY <2>3, <2>4
<1> QED BY <1>4, <1>5, <1>6, <1>7, <1>8 DEF Effect

\* What a step of the engine does, whatever it is observed for.
LEMMA EveryStep ==
    ASSUME RemoteTypeOK, Core,
           \/ EngineSteps \/ TransferSteps \/ TimeOuts \/ LinkRecovers
           \/ UserSteps \/ Cancel \/ LinkBreaks \/ \E d \in Devices : AgentDies(d)
    PROVE  Core' /\ Effect /\ clock' \in {clock, clock + 1}
<1>1. CASE \/ StartRun \/ HearListing \/ SrcMoves \/ HearMove \/ DstMoves
           \/ \E p \in Paths : Visit(p) \/ DeleteOrphan(p)
           \/ HearSignature \/ HearOutcome \/ Abort \/ ToDeletes \/ FinishRun
  <2>1. Effect /\ clock' = clock
    BY <1>1, RunEffect
  <2>2. Core'
    BY <1>1, StartRunKeeps, HearListingKeeps, SrcMovesKeeps, HearMoveKeeps, DstMovesKeeps, VisitKeeps,
       DeleteOrphanKeeps, HearSignatureKeeps, HearOutcomeKeeps, AbortKeeps, ToDeletesKeeps, FinishRunKeeps
  <2> QED BY <2>1, <2>2
<1>2. CASE \E t \in Transports : \/ wire["A"][t] # <<>> /\ RequestAnswered(t)
                                 \/ wire["B"][t] # <<>> /\ RequestHandled(t)
  BY <1>2, RequestEffect, RequestAnsweredKeeps, RequestHandledKeeps
<1>3. CASE \/ TransferSteps \/ TimeOuts \/ LinkRecovers \/ UserSteps \/ Cancel \/ LinkBreaks
           \/ \E d \in Devices : AgentDies(d)
  <2>1. Effect /\ clock' \in {clock, clock + 1}
    BY <1>3, OtherEffect
  <2>2. Core'
    BY <1>3, TransferStepsKeeps, TimeOutsKeeps, LinkStepKeeps, UserStepsKeeps, CancelKeeps, AgentDiesKeeps
  <2> QED BY <2>1, <2>2
<1> QED BY <1>1, <1>2, <1>3 DEF EngineSteps

\* The parts of the invariant.
LEMMA InvParts ==
    /\ RemoteInv <=> /\ Core /\ VersionsSeen
                     /\ acted \subseteq Paths /\ removed \subseteq Devices \X Paths
    /\ RemoteInv => RemoteTypeOK
BY WholeType DEF RemoteInv, Core, Local

\* The primed invariant, part by part.
LEMMA InvPartsNext ==
    RemoteInv' <=> /\ Core' /\ VersionsSeen'
                   /\ acted' \subseteq Paths /\ removed' \subseteq Devices \X Paths
BY WholeTypeNext DEF RemoteInv, Core, Local

\* The history keeps to the paths.
LEMMA ObserveTyped ==
    ASSUME acted \subseteq Paths, removed \subseteq Devices \X Paths, Observe
    PROVE  acted' \subseteq Paths /\ removed' \subseteq Devices \X Paths
<1>1. removed' \subseteq Devices \X Paths
  <2>1. \/ removed' \subseteq removed
        \/ removed' \subseteq removed \cup {x \in Devices \X Paths :
                                        fs[x[1]][x[2]] # None /\ fs'[x[1]][x[2]] = None}
    BY DEF Observe
  <2> QED BY <2>1
<1>2. acted' \subseteq Paths
  <2>1. acted' \subseteq acted \cup {p \in Paths : \E d \in Devices : fs'[d][p] # fs[d][p]}
    BY DEF Observe
  <2> QED BY <2>1
<1> QED BY <1>1, <1>2

\* The invariant is inductive: every step of engine, user and network keeps it.
LEMMA Inductive == RemoteInv /\ [Next]_vars => RemoteInv'
<1> SUFFICES ASSUME RemoteInv, [Next]_vars PROVE RemoteInv'
  OBVIOUS
<1>1. /\ RemoteTypeOK /\ Core /\ VersionsSeen
      /\ acted \subseteq Paths /\ removed \subseteq Devices \X Paths
  BY InvParts
<1>2. CASE Next
  <2>1. Core' /\ Effect /\ clock' \in {clock, clock + 1}
    BY <1>1, <1>2, EveryStep DEF Next
  <2>2. VersionsSeen'
    BY <1>1, <2>1, SeenKeeps
  <2>3. acted' \subseteq Paths /\ removed' \subseteq Devices \X Paths
    BY <1>1, <1>2, ObserveTyped DEF Next
  <2> QED BY <2>1, <2>2, <2>3, InvPartsNext
<1>3. CASE UNCHANGED vars
  <2>1. UNCHANGED <<NoLink, wire, fs, uploads, sessions, asked, heard, aborted, offered, told, job, budget,
                    clock, cache, stored, phase, walked, todo, cur, newStored, movedSums, touched,
                    acted, removed, blamed>>
    BY <1>3 DEF vars, linkVars, transferVars, settings, runVars, history, NoLink
  <2>2. OneOnWire(wire') /\ wire' \in Wires
    BY <1>1, <2>1 DEF Core, Local, TransferTyped, TransferInv, OneFinish
  <2>3. LinkTyped' /\ RunTyped'
    BY <1>1, <2>1 DEF Core, LinkTyped, RunTyped, NoLink
  <2>4. Core'
    BY <1>1, <2>1, <2>2, <2>3, LosesKeeps
  <2>5. VersionsSeen'
    BY <1>1, <2>1 DEF VersionsSeen, Seen, Delivery!Offer, Delivery!Kinds
  <2> QED BY <1>1, <2>1, <2>4, <2>5, InvPartsNext
<1> QED BY <1>2, <1>3

\* At the start nothing is under way.
LEMMA InitInv == Init => RemoteInv
<1> SUFFICES ASSUME Init PROVE RemoteInv
  OBVIOUS
<1>1. PICK c \in Cases :
         /\ job = c.job /\ budget = c.budget /\ LinkInit(c.start)
         /\ fs = [d \in Devices |-> [p \in Paths |->
                     IF c.shared[p] = None THEN None
                     ELSE [data |-> 0, size |-> c.shared[p], mtimeMs |-> 0]]]
         /\ stored = [p \in Paths |-> IF c.shared[p] = None THEN None
                        ELSE [src |-> [size |-> c.shared[p], mtimeMs |-> 0],
                              dst |-> [size |-> c.shared[p], mtimeMs |-> 0], sum |-> 0]]
  BY DEF Init
<1>2. /\ uploads = {} /\ sessions = {} /\ asked = 0 /\ heard = None /\ aborted = FALSE
      /\ offered = {} /\ told = [ok |-> FALSE, put |-> "no"]
      /\ clock = 0 /\ cache = None /\ phase = "idle" /\ walked = None2
      /\ todo = {} /\ cur = None /\ newStored = [p \in Paths |-> None]
      /\ movedSums = [p \in Paths |-> None]
      /\ touched = {} /\ acted = {} /\ removed = {} /\ blamed = {}
  BY DEF Init
<1>3. /\ c.job \in Jobs /\ c.shared \in [Paths -> Sizes \cup {None}] /\ c.start \in Starts
      /\ c.budget \in Budget
  BY RemoteAssumption
<1>4. 0 \in Contents /\ 0 \in Times /\ 0 \in 0..MaxCalls /\ 0 \in 0..MaxClock
  BY TransferAssumption DEF Contents, Times, Torn
<1>5. /\ wire = [d \in Devices |-> [t \in Transports |-> <<>>]]
      /\ LinkTyped
  BY <1>1, <1>3 DEF LinkInit, LinkTyped, Starts
<1>6. wire \in Wires /\ \A d \in Devices, t \in Transports : wire[d][t] = <<>>
  BY <1>5 DEF Wires
<1>7. OneOnWire(wire) /\ \A d \in Devices : InBox(wire, d) = {}
  <2>1. \A d \in Devices, t \in Transports : Len(wire[d][t]) = 0
    BY <1>6
  <2>2. OneOnWire(wire)
    BY <2>1 DEF OneOnWire
  <2>3. \A d \in Devices : \A x : x \notin InBox(wire, d)
    BY <1>6, <2>1, InBoxDef
  <2> QED BY <2>2, <2>3
<1>8. fs \in [Devices -> [Paths -> Entry \cup {None}]]
  <2>1. \A p \in Paths : c.shared[p] # None => [data |-> 0, size |-> c.shared[p], mtimeMs |-> 0] \in Entry
    BY <1>3, <1>4 DEF Entry
  <2> QED BY <1>1, <2>1
<1>9. TransferTyped
  BY <1>2, <1>4, <1>6, <1>8 DEF TransferTyped
<1>10. TransferInv
  <2>1. UploadsFit /\ MessagesFit /\ SessionsFit
    BY <1>2, <1>7 DEF UploadsFit, MessagesFit, SessionsFit
  <2>2. NumbersOwned
    <3> SUFFICES ASSUME NEW n \in Numbers PROVE \E o \in Owners : Owns(n, o)
      BY DEF NumbersOwned
    <3>1. \A o : Owns(n, o)
      BY <1>2, <1>7 DEF Owns
    <3> QED BY <3>1 DEF Owners
  <2>3. FinishesFit /\ OutcomesFit
    BY <1>2, <1>7 DEF FinishesFit, OutcomesFit
  <2>4. OneFinish
    BY <1>2, <1>7 DEF OneFinish, OneQueued
  <2> QED BY <2>1, <2>2, <2>3, <2>4 DEF TransferInv
<1>11. RunFits /\ CallersFit /\ AnswersFit
  BY <1>2 DEF RunFits, CallersFit, AnswersFit
<1>12. RunTyped
  <2>1. None2 \in [Devices -> Listing]
    BY DEF None2, Listing
  <2>2. stored \in Records
    <3>1. \A p \in Paths : c.shared[p] # None =>
             [src |-> [size |-> c.shared[p], mtimeMs |-> 0],
              dst |-> [size |-> c.shared[p], mtimeMs |-> 0], sum |-> 0] \in StoredFileState
      BY <1>3, <1>4 DEF StoredFileState, Meta
    <3> QED BY <1>1, <3>1 DEF Records
  <2>3. newStored \in Records /\ movedSums \in [Paths -> Contents \cup {None}]
    BY <1>2 DEF Records
  <2> QED BY <1>1, <1>2, <1>3, <1>4, <2>1, <2>2, <2>3 DEF RunTyped
<1>13. VersionsSeen
  <2>1. 0 \in Seen
    BY <1>2 DEF Seen
  <2>2. \A d \in Devices, p \in Paths : fs[d][p] # None => fs[d][p].data = 0
    BY <1>1
  <2> QED BY <1>2, <2>1, <2>2 DEF VersionsSeen
<1> QED BY <1>2, <1>5, <1>9, <1>10, <1>11, <1>12, <1>13, InvParts DEF Core, Local

(************************** what follows from it ***************************)

\* The actions of FileDelivery, as the engine's state carries them out.
LEMMA DeliveryStutters ==
    ASSUME UNCHANGED <<fs, offered, told>>, Sends' = Sends
    PROVE  UNCHANGED Delivery!vars
<1>1. Content' = Content
  BY DEF Content
<1> QED BY <1>1 DEF Delivery!vars, Content, Sends, SendOf

\* An upload that begins is an offer.
LEMMA DeliveryOffers ==
    ASSUME NEW n \in Numbers, NEW o \in Delivery!Offer, UNCHANGED <<fs, told>>,
           offered' = offered \cup {o}, Sends' = Sends \cup {[n |-> n, offer |-> o, put |-> "no"]}
    PROVE  Delivery!Next
<1>1. Content' = Content
  BY DEF Content
<1>2. Delivery!Offers(n, o)
  BY <1>1 DEF Delivery!Offers, Content, Sends, SendOf
<1> QED BY <1>2 DEF Delivery!Next

\* An upload that is lost with its process is forgotten.
LEMMA DeliveryForgets ==
    ASSUME UNCHANGED <<fs, offered, told>>, Sends' \subseteq Sends
    PROVE  Delivery!Next
<1>1. Content' = Content
  BY DEF Content
<1>2. Delivery!Forgets
  BY <1>1 DEF Delivery!Forgets, Content, Sends, SendOf
<1> QED BY <1>2 DEF Delivery!Next

\* An upload that ends tells what it came to.
LEMMA DeliveryTells ==
    ASSUME UNCHANGED <<fs, offered>>, NEW s \in Sends, NEW ok \in BOOLEAN,
           ok => s.put = "whole", Sends' = Sends \ {s}, told' = [ok |-> ok, put |-> s.put]
    PROVE  Delivery!Next
<1>1. Content' = Content
  BY DEF Content
<1>2. Delivery!Tells(s, ok)
  BY <1>1 DEF Delivery!Tells, Content, Sends, SendOf
<1> QED BY <1>2 DEF Delivery!Next, Sends, SendOf

\* A delta that hashes its source again offers what it found.
LEMMA DeliveryRereads ==
    ASSUME UNCHANGED <<fs, offered, told>>, NEW s \in Sends, NEW v \in Contents,
           s.offer.kind = "delta", s.put = "no",
           Sends' = (Sends \ {s}) \cup {[s EXCEPT !.offer.data = v]}
    PROVE  Delivery!Next
<1>1. Content' = Content
  BY DEF Content
<1>2. Delivery!Rereads(s)
  BY <1>1 DEF Delivery!Rereads, Content, Sends, SendOf
<1> QED BY <1>2 DEF Delivery!Next, Sends, SendOf

\* What FileDelivery sees of the files, after any step.
LEMMA ContentNext ==
    Content' = [x \in Devices |-> [r \in Paths |-> IF fs'[x][r] = None THEN None ELSE fs'[x][r].data]]
BY DEF Content

\* A session that is applied puts one offered version, or damages the file.
LEMMA DeliveryPuts ==
    ASSUME fs \in [Devices -> [Paths -> Entry \cup {None}]], offered \subseteq Delivery!Offer,
           UNCHANGED offered, NEW o \in offered, PutsWholeOne(o) \/ DamagesOne(o)
    PROVE  Delivery!Next
<1> DEFINE d == o.to
           p == o.path
           g == fs'
           c == Content'
<1>1. d \in Devices /\ p \in Paths
  BY DEF Delivery!Offer
<1>0. c = [x \in Devices |-> [r \in Paths |-> IF g[x][r] = None THEN None ELSE g[x][r].data]]
  BY ContentNext
<1>2. CASE PutsWholeOne(o)
  <2>1. PICK e \in Entry : e.data = o.data /\ fs' = [fs EXCEPT ![o.to][o.path] = e]
    BY <1>2 DEF PutsWholeOne
  <2>2. Content' = [Content EXCEPT ![o.to][o.path] = o.data]
    <3>1. g = [fs EXCEPT ![d][p] = e]
      BY <2>1
    <3> HIDE DEF d, p, g, c
    <3>2. g \in [Devices -> [Paths -> Entry \cup {None}]]
      BY <1>1, <3>1
    <3>3. \A x \in Devices, r \in Paths : x # d \/ r # p => g[x][r] = fs[x][r]
      BY <1>1, <3>1
    <3>4. (IF g[d][p] = None THEN None ELSE g[d][p].data) = o.data
      BY <1>1, <2>1, <3>1, NotNone
    <3>5. c = [Content EXCEPT ![d][p] = o.data]
      <4>1. [Content EXCEPT ![d][p] = o.data]
            = [x \in Devices |-> [r \in Paths |-> IF x = d /\ r = p THEN o.data ELSE Content[x][r]]]
        BY <1>1 DEF Content
      <4>2. \A x \in Devices, r \in Paths :
               (IF g[x][r] = None THEN None ELSE g[x][r].data)
               = IF x = d /\ r = p THEN o.data ELSE Content[x][r]
        BY <3>3, <3>4 DEF Content
      <4>3. \A x \in Devices :
               [r \in Paths |-> IF g[x][r] = None THEN None ELSE g[x][r].data]
               = [r \in Paths |-> IF x = d /\ r = p THEN o.data ELSE Content[x][r]]
        BY <4>2
      <4> QED BY <1>0, <4>1, <4>3
    <3> QED BY <3>5 DEF c, d, p
  <2>3. \/ Sends' = Sends
        \/ \E s \in Sends : /\ s.offer.to = o.to /\ s.offer.path = o.path /\ s.offer.data = o.data
                            /\ Sends' = (Sends \ {s}) \cup {[s EXCEPT !.put = "whole"]}
    BY <1>2 DEF PutsWholeOne
  <2>4. Delivery!PutsWhole(o)
    BY <1>2, <2>2, <2>3 DEF Delivery!PutsWhole, Content, Sends, SendOf, PutsWholeOne
  <2> QED BY <2>4 DEF Delivery!Next
<1>3. CASE DamagesOne(o)
  <2>1. PICK e \in Entry : e.data = Torn /\ fs' = [fs EXCEPT ![o.to][o.path] = e]
    BY <1>3 DEF DamagesOne
  <2>2. Content' = [Content EXCEPT ![o.to][o.path] = Torn]
    <3>1. g = [fs EXCEPT ![d][p] = e]
      BY <2>1
    <3> HIDE DEF d, p, g, c
    <3>2. g \in [Devices -> [Paths -> Entry \cup {None}]]
      BY <1>1, <3>1
    <3>3. \A x \in Devices, r \in Paths : x # d \/ r # p => g[x][r] = fs[x][r]
      BY <1>1, <3>1
    <3>4. (IF g[d][p] = None THEN None ELSE g[d][p].data) = Torn
      BY <1>1, <2>1, <3>1, NotNone
    <3>5. c = [Content EXCEPT ![d][p] = Torn]
      <4>1. [Content EXCEPT ![d][p] = Torn]
            = [x \in Devices |-> [r \in Paths |-> IF x = d /\ r = p THEN Torn ELSE Content[x][r]]]
        BY <1>1 DEF Content
      <4>2. \A x \in Devices, r \in Paths :
               (IF g[x][r] = None THEN None ELSE g[x][r].data)
               = IF x = d /\ r = p THEN Torn ELSE Content[x][r]
        BY <3>3, <3>4 DEF Content
      <4>3. \A x \in Devices :
               [r \in Paths |-> IF g[x][r] = None THEN None ELSE g[x][r].data]
               = [r \in Paths |-> IF x = d /\ r = p THEN Torn ELSE Content[x][r]]
        BY <4>2
      <4> QED BY <1>0, <4>1, <4>3
    <3> QED BY <3>5 DEF c, d, p
  <2>3. \/ Sends' = Sends
        \/ \E s \in Sends : Sends' = (Sends \ {s}) \cup {[s EXCEPT !.put = "damaged"]}
    BY <1>3 DEF DamagesOne
  <2>4. Delivery!Damages(o)
    BY <1>3, <2>2, <2>3 DEF Delivery!Damages, Content, Sends, SendOf, DamagesOne
  <2> QED BY <2>4 DEF Delivery!Next
<1> QED BY <1>2, <1>3

\* Deletes and renames of the run and the user are those of FileDelivery.
LEMMA DeliveryRearranges ==
    ASSUME fs \in [Devices -> [Paths -> Entry \cup {None}]], Rearranges
    PROVE  Delivery!Next
<1>1. PICK d \in Devices, p \in Paths, q \in Paths : Clears(d, p) \/ Shifts(d, p, q)
  BY DEF Rearranges
<1>2. UNCHANGED <<offered, told>> /\ Sends' = Sends
  BY DEF Rearranges, Sends, SendOf
<1>3. CASE Clears(d, p)
  <2>1. Content' = [Content EXCEPT ![d][p] = None]
    <3> DEFINE g == fs'
               c == Content'
    <3>0. c = [x \in Devices |-> [r \in Paths |-> IF g[x][r] = None THEN None ELSE g[x][r].data]]
      BY ContentNext
    <3>1. g = [fs EXCEPT ![d][p] = None]
      BY <1>3 DEF Clears
    <3> HIDE DEF g, c
    <3>2. g \in [Devices -> [Paths -> Entry \cup {None}]]
      BY <3>1
    <3>3. \A x \in Devices, r \in Paths : x # d \/ r # p => g[x][r] = fs[x][r]
      BY <3>1
    <3>4. (IF g[d][p] = None THEN None ELSE g[d][p].data) = None
      BY <3>1
    <3>5. c = [Content EXCEPT ![d][p] = None]
      <4>1. [Content EXCEPT ![d][p] = None]
            = [x \in Devices |-> [r \in Paths |-> IF x = d /\ r = p THEN None ELSE Content[x][r]]]
        BY DEF Content
      <4>2. \A x \in Devices, r \in Paths :
               (IF g[x][r] = None THEN None ELSE g[x][r].data)
               = IF x = d /\ r = p THEN None ELSE Content[x][r]
        BY <3>3, <3>4 DEF Content
      <4>3. \A x \in Devices :
               [r \in Paths |-> IF g[x][r] = None THEN None ELSE g[x][r].data]
               = [r \in Paths |-> IF x = d /\ r = p THEN None ELSE Content[x][r]]
        BY <4>2
      <4> QED BY <3>0, <4>1, <4>3
    <3> QED BY <3>5 DEF c
  <2>2. Delivery!Removes(d, p)
    BY <1>2, <2>1 DEF Delivery!Removes, Content, Sends, SendOf
  <2> QED BY <2>2 DEF Delivery!Next
<1>4. CASE Shifts(d, p, q)
  <2>1. /\ fs[d][p] # None
        /\ \A e \in Devices, r \in Paths :
              /\ e = d /\ r = p => fs'[e][r] = None
              /\ e = d /\ r = q /\ r # p => fs'[e][r] # None /\ fs'[e][r].data = fs[d][p].data
              /\ e # d \/ (r # p /\ r # q) => fs'[e][r] = fs[e][r]
    BY <1>4 DEF Shifts
  <2>2. Content' = [e \in Devices |-> [r \in Paths |->
                       IF fs'[e][r] = None THEN None ELSE fs'[e][r].data]]
    BY DEF Content
  <2>3. Content' = [Content EXCEPT ![d][q] = Content[d][p], ![d][p] = None]
    <3> DEFINE c == fs[d][p].data
    <3>1. Content[d][p] = c
      BY <2>1 DEF Content
    <3>2. [Content EXCEPT ![d][q] = c, ![d][p] = None]
            = [e \in Devices |-> [r \in Paths |->
                  IF e = d /\ r = p THEN None ELSE IF e = d /\ r = q THEN c ELSE Content[e][r]]]
      <4> HIDE DEF c
      <4> QED BY DEF Content
    <3>3. \A e \in Devices, r \in Paths :
             (IF fs'[e][r] = None THEN None ELSE fs'[e][r].data)
             = IF e = d /\ r = p THEN None ELSE IF e = d /\ r = q THEN c ELSE Content[e][r]
      BY <2>1 DEF Content
    <3>4. \A e \in Devices :
             [r \in Paths |-> IF fs'[e][r] = None THEN None ELSE fs'[e][r].data]
             = [r \in Paths |-> IF e = d /\ r = p THEN None
                                ELSE IF e = d /\ r = q THEN c ELSE Content[e][r]]
      BY <3>3
    <3> HIDE DEF c
    <3> QED BY <2>2, <3>1, <3>2, <3>4
  <2>4. Delivery!Renames(d, p, q)
    BY <1>2, <2>3 DEF Delivery!Renames, Content, Sends, SendOf
  <2> QED BY <2>4 DEF Delivery!Next
<1> QED BY <1>1, <1>3, <1>4

\* A version the user writes was never offered, and is nowhere yet.
LEMMA DeliveryWrites ==
    ASSUME fs \in [Devices -> [Paths -> Entry \cup {None}]], VersionsSeen, WritesNew,
           clock \in 0..MaxClock, clock' \in 0..MaxClock
    PROVE  Delivery!Next
<1>1. PICK d \in Devices, p \in Paths : \E e : e.data = clock + 1 /\ e \in Entry /\ fs' = [fs EXCEPT ![d][p] = e]
  BY DEF WritesNew
<1>2. PICK e : e.data = clock + 1 /\ e \in Entry /\ fs' = [fs EXCEPT ![d][p] = e]
  BY <1>1
<1>3. UNCHANGED <<offered, told>> /\ Sends' = Sends /\ clock' = clock + 1
  BY DEF WritesNew, Sends, SendOf
<1> DEFINE v == clock + 1
<1>4. v \in Contents \ {Torn} /\ v \notin Seen /\ v \in Nat
  BY <1>3, TransferAssumption DEF Contents, Torn, Seen
<1>5. Content' = [Content EXCEPT ![d][p] = v]
  <2> HIDE DEF v
  <2>6. e \in Entry /\ e # None /\ e.data = v
    BY <1>2, NotNone DEF v
  <2> DEFINE g == fs'
             c == Content'
  <2>0. c = [x \in Devices |-> [r \in Paths |-> IF g[x][r] = None THEN None ELSE g[x][r].data]]
    BY ContentNext
  <2>1. g = [fs EXCEPT ![d][p] = e]
    BY <1>2
  <2> HIDE DEF g, c
  <2>2. g \in [Devices -> [Paths -> Entry \cup {None}]]
    BY <2>1, <2>6
  <2>3. \A x \in Devices, r \in Paths : x # d \/ r # p => g[x][r] = fs[x][r]
    BY <2>1
  <2>4. (IF g[d][p] = None THEN None ELSE g[d][p].data) = v
    BY <2>1, <2>6
  <2>5. c = [Content EXCEPT ![d][p] = v]
    <3>1. [Content EXCEPT ![d][p] = v]
          = [x \in Devices |-> [r \in Paths |-> IF x = d /\ r = p THEN v ELSE Content[x][r]]]
      BY DEF Content
    <3>2. \A x \in Devices, r \in Paths :
             (IF g[x][r] = None THEN None ELSE g[x][r].data)
             = IF x = d /\ r = p THEN v ELSE Content[x][r]
      BY <2>3, <2>4 DEF Content
    <3>3. \A x \in Devices :
             [r \in Paths |-> IF g[x][r] = None THEN None ELSE g[x][r].data]
             = [r \in Paths |-> IF x = d /\ r = p THEN v ELSE Content[x][r]]
      BY <3>2
    <3> QED BY <2>0, <3>1, <3>3
  <2> QED BY <2>5 DEF c
<1>6. \A x \in Devices, q \in Paths : Content[x][q] # v
  <2> SUFFICES ASSUME NEW x \in Devices, NEW q \in Paths PROVE Content[x][q] # v
    OBVIOUS
  <2>1. Content[x][q] = IF fs[x][q] = None THEN None ELSE fs[x][q].data
    BY DEF Content
  <2>2. CASE fs[x][q] = None
    BY <1>4, <2>1, <2>2, NotNone
  <2>3. CASE fs[x][q] # None
    BY <1>4, <2>1, <2>3 DEF VersionsSeen
  <2> QED BY <2>2, <2>3
<1>7. \A o \in offered : o.data # v
  BY <1>4 DEF VersionsSeen
<1> HIDE DEF v
<1>8. Delivery!Writes(d, p)
  BY <1>3, <1>4, <1>5, <1>6, <1>7 DEF Delivery!Writes, Content, Sends, SendOf
<1> QED BY <1>8 DEF Delivery!Next

\* Every step of the engine is a step of FileDelivery, or none.
LEMMA Refines == RemoteInv /\ [Next]_vars => [Delivery!Next]_(Delivery!vars)
<1> SUFFICES ASSUME RemoteInv, [Next]_vars PROVE Delivery!Next \/ UNCHANGED Delivery!vars
  OBVIOUS
<1>1. /\ RemoteTypeOK /\ Core /\ VersionsSeen /\ fs \in [Devices -> [Paths -> Entry \cup {None}]]
      /\ clock \in 0..MaxClock
  BY InvParts DEF Core, Local, TransferTyped, RunTyped
<1>2. CASE Next
  <2>1. Core' /\ Effect
    BY <1>1, <1>2, EveryStep DEF Next
  <2>2. CASE Begins
    <3>1. PICK u : /\ u.n \in Numbers /\ u.put = "no" /\ u.expect = u.chunk.data
                   /\ OfferOf(u) \in Delivery!Offer
                   /\ uploads' = uploads \cup {u} /\ offered' = offered \cup {OfferOf(u)}
      BY <2>2 DEF Begins
    <3>2. SendOf(u) = [n |-> u.n, offer |-> OfferOf(u), put |-> "no"]
      BY <3>1 DEF SendOf, OfferOf
    <3>3. Sends' = Sends \cup {SendOf(u)}
      BY <3>1 DEF Sends, SendOf
    <3> QED BY <2>2, <3>1, <3>2, <3>3, DeliveryOffers DEF Begins
  <2>3. CASE Rearranges
    BY <1>1, <2>3, DeliveryRearranges
  <2>4. CASE Rests
    <3>1. Sends' \subseteq Sends
      BY <2>4 DEF Rests, Sends, SendOf
    <3> QED BY <2>4, <3>1, DeliveryForgets DEF Rests
  <2>5. CASE WritesNew
    <3>1. clock' \in 0..MaxClock
      BY <2>1 DEF Core, RunTyped
    <3> QED BY <1>1, <2>5, <3>1, DeliveryWrites
  <2>6. CASE Transfers
    <3>1. Transferred /\ offered \subseteq Delivery!Offer
      BY <1>1, <2>6, TransfersTransfer DEF VersionsSeen
    <3>2. CASE Stutters
      BY <3>1, <3>2, DeliveryStutters DEF Transferred, Stutters
    <3>3. CASE TellsOne
      BY <3>1, <3>3, DeliveryTells DEF Transferred, TellsOne
    <3>4. CASE RereadsOne
      BY <3>1, <3>4, DeliveryRereads DEF Transferred, RereadsOne
    <3>5. CASE \E o \in offered : PutsWholeOne(o) \/ DamagesOne(o)
      BY <1>1, <3>1, <3>5, DeliveryPuts DEF Transferred
    <3> QED BY <3>1, <3>2, <3>3, <3>4, <3>5 DEF Transferred
  <2> QED BY <2>1, <2>2, <2>3, <2>4, <2>5, <2>6 DEF Effect
<1>3. CASE UNCHANGED vars
  <2>1. UNCHANGED <<fs, uploads, offered, told>>
    BY <1>3 DEF vars, transferVars
  <2>2. Sends' = Sends
    BY <2>1 DEF Sends, SendOf
  <2> QED BY <2>1, <2>2, DeliveryStutters
<1> QED BY <1>2, <1>3

\* At the start nothing is offered, and every file is whole.
LEMMA DeliveryStarts == Init => Delivery!Init
<1> SUFFICES ASSUME Init PROVE Delivery!Init
  OBVIOUS
<1>1. PICK c \in Cases :
         fs = [d \in Devices |-> [p \in Paths |->
                     IF c.shared[p] = None THEN None
                     ELSE [data |-> 0, size |-> c.shared[p], mtimeMs |-> 0]]]
  BY DEF Init
<1>2. uploads = {} /\ offered = {} /\ told = [ok |-> FALSE, put |-> "no"]
  BY DEF Init
<1>3. 0 \in Contents \ {Torn}
  BY TransferAssumption DEF Contents, Torn
<1>4. \A d \in Devices, p \in Paths :
         (IF fs[d][p] = None THEN None ELSE fs[d][p].data) \in (Contents \ {Torn}) \cup {None}
  <2> SUFFICES ASSUME NEW d \in Devices, NEW p \in Paths, fs[d][p] # None
               PROVE  fs[d][p].data = 0
    BY <1>3
  <2> QED BY <1>1
<1> QED BY <1>2, <1>4 DEF Delivery!Init

\* The invariant holds in every reachable state.
LEMMA RemoteInvariant == Spec => []RemoteInv
BY InitInv, Inductive, PTL DEF Spec

\* Connections, messages, uploads, sessions and the run of remote.ts are what they are
\* meant to be, whatever is lost, late, repeated or restarted on the way.
THEOREM RemoteTypeCorrect == Spec => []RemoteTypeOK
<1>1. RemoteInv => RemoteTypeOK
  BY InvParts
<1> QED BY <1>1, RemoteInvariant, PTL

\* Uploads in chunks, sessions that resume, answers and time-outs implement FileDelivery:
\* a file changes as a whole to a version that was offered for its place, or is damaged by an
\* upload in full whose sender does not hear of success, and a sender hears of success only
\* when its own version was put there.
THEOREM RemoteImplementsDelivery == Spec => ImplementsDelivery
<1>1. Init => Delivery!Init
  BY DeliveryStarts
<1>2. RemoteInv /\ [Next]_vars => [Delivery!Next]_(Delivery!vars)
  BY Refines
<1> QED BY <1>1, <1>2, RemoteInvariant, PTL DEF Spec, ImplementsDelivery, Delivery!Spec

(*** what a transfer brings ***)

\* An upload after a step was there before it, and what it has put is there.
Heir(u) == \E v \in uploads : /\ u.n = v.n /\ u.caller = v.caller /\ u.path = v.path /\ u.at = v.at
                              /\ u.put = v.put \/ (/\ fs'[Other(u.at)][u.path] # None
                                                   /\ u.put = "whole" => fs'[Other(u.at)][u.path].data = u.expect)

\* A new message belongs to a transfer, or answers the request an upload was made for.
Foreign(m) ==
    \/ ~IsAnswer(m) /\ m.op \in {"start", "chunk", "finish", "abort"}
    \/ IsAnswer(m) /\ m.answer = "transfer"
    \/ /\ IsAnswer(m) /\ m.answer = "send"
       /\ \E u \in uploads : /\ u.caller # <<>> /\ m.id = u.caller[1]
                             /\ m.ok => u.put = "whole" /\ m.sum = u.expect

TransferNews ==
    /\ \A u \in uploads' : Heir(u)
    /\ \A d \in Devices : \A m \in InBox(wire', d) : m \in InBox(wire, d) \/ Foreign(m)
    /\ heard' = heard \/ \E u \in uploads : /\ u.caller = <<>>
                                            /\ heard'.ok => u.put = "whole" /\ heard'.sum = u.expect
    /\ fs' = fs \/ \E d \in Devices, p \in Paths, e \in Entry : fs' = [fs EXCEPT ![d][p] = e]

\* An upload that ends.
LEMMA EndedNews ==
    ASSUME UNCHANGED fs, NEW u \in uploads, u \in Upload, NEW ok \in BOOLEAN, ok => u.put = "whole",
           NEW w \in Wires, \A e \in Devices : InBox(w, e) \subseteq InBox(wire, e), Ended(u, ok, w)
    PROVE  TransferNews
<1>1. \A x \in uploads' : Heir(x)
  BY DEF Ended, Heir
<1>2. CASE u.caller = <<>>
  <2>1. heard' = [answer |-> "upload", ok |-> ok, sum |-> u.expect] /\ wire' = w
    BY <1>2 DEF Ended
  <2>2. heard'.ok = ok /\ heard'.sum = u.expect
    BY <2>1
  <2> QED BY <1>1, <1>2, <2>1, <2>2 DEF TransferNews
<1>3. CASE u.caller # <<>>
  <2> DEFINE m == [answer |-> "send", id |-> u.caller[1], ok |-> ok, sum |-> u.expect]
  <2>1. heard' = heard /\ wire' = Answered(w, u.at, u.caller[2], m)
    BY <1>3 DEF Ended
  <2>2. u.at \in Devices /\ u.caller[1] \in CallIds /\ u.caller[2] \in Transports
    BY <1>3 DEF Upload, Callers
  <2>3. m \in Message
    BY <2>2, OutcomeTyped DEF Upload
  <2>4. Foreign(m)
    BY <1>3 DEF Foreign, IsAnswer
  <2> HIDE DEF m
  <2>5. \A e \in Devices : \A x \in InBox(wire', e) : x \in InBox(w, e) \/ x = m
    BY <2>1, <2>2, <2>3, SentWire DEF Carries
  <2> QED BY <1>1, <2>1, <2>4, <2>5 DEF TransferNews
<1> QED BY <1>2, <1>3

\* An upload that goes on.
LEMMA BecameNews ==
    ASSUME UNCHANGED <<fs, heard>>, NEW u \in uploads, NEW v, Became(u, v),
           v.n = u.n /\ v.caller = u.caller /\ v.path = u.path /\ v.at = u.at /\ v.put = u.put,
           \A d \in Devices : \A m \in InBox(wire', d) : m \in InBox(wire, d) \/ Foreign(m)
    PROVE  TransferNews
BY DEF Became, TransferNews, Heir

\* An upload that fails.
LEMMA FailedNews ==
    ASSUME UNCHANGED fs, NEW u \in uploads, u \in Upload,
           NEW w \in Wires, \A e \in Devices : InBox(w, e) \subseteq InBox(wire, e), Failed(u, w)
    PROVE  TransferNews
<1>1. CASE u.stage \in {"send", "finish"}
  <2> DEFINE v == [u EXCEPT !.stage = "abort", !.call = 0]
  <2>1. Became(u, v) /\ wire' = w /\ UNCHANGED heard
    BY <1>1 DEF Failed
  <2>2. v.n = u.n /\ v.caller = u.caller /\ v.path = u.path /\ v.at = u.at /\ v.put = u.put
    BY DEF Upload
  <2> HIDE DEF v
  <2>3. \A d \in Devices : \A m \in InBox(wire', d) : m \in InBox(wire, d) \/ Foreign(m)
    BY <2>1
  <2> QED BY <2>1, <2>2, <2>3, BecameNews
<1>2. CASE u.stage \notin {"send", "finish"}
  BY <1>2, EndedNews DEF Failed
<1> QED BY <1>1, <1>2

\* The steps of an upload.
LEMMA UploadNews ==
    ASSUME RemoteTypeOK, Core, NEW u \in uploads,
           Hash(u) \/ Requests(u) \/ SendsChunk(u) \/ TimesOut(u)
    PROVE  TransferNews
<1>1. /\ u \in Upload /\ FALSE \in BOOLEAN /\ wire \in Wires
      /\ fs \in [Devices -> [Paths -> Entry \cup {None}]]
  BY DEF Core, Local, TransferTyped
<1>2. CASE Hash(u)
  <2> DEFINE e == fs[u.at][u.path]
  <2>1. UNCHANGED fs
    BY <1>2 DEF Hash
  <2>2. CASE e = None
    <3>1. Ended(u, FALSE, wire)
      BY <1>2, <2>2 DEF Hash
    <3> QED BY <1>1, <2>1, <3>1, EndedNews
  <2>3. CASE e # None
    <3> DEFINE data == e.data
               size == e.size
               v == [u EXCEPT !.expect = data, !.size = size, !.stage = "start"]
    <3>1. Became(u, v) /\ UNCHANGED <<heard, wire>>
      BY <1>2, <2>3 DEF Hash
    <3> HIDE DEF data, size
    <3>2. v.n = u.n /\ v.caller = u.caller /\ v.path = u.path /\ v.at = u.at /\ v.put = u.put
      BY <1>1 DEF Upload
    <3> HIDE DEF v
    <3>3. \A d \in Devices : \A m \in InBox(wire', d) : m \in InBox(wire, d) \/ Foreign(m)
      BY <3>1
    <3> QED BY <2>1, <3>1, <3>2, <3>3, BecameNews
  <2> QED BY <2>2, <2>3
<1>3. CASE Requests(u)
  <2>1. UNCHANGED fs
    BY <1>3 DEF Requests
  <2>2. CASE Failed(u, wire)
    BY <1>1, <2>1, <2>2, FailedNews
  <2>3. CASE ~Failed(u, wire)
    <3>1. PICK id \in FreshCalls : /\ Became(u, [u EXCEPT !.call = id]) /\ UNCHANGED heard
                                   /\ wire' = Sent(wire, u.at, StageRequest(u, id))
                                   /\ u.stage \in {"start", "finish", "abort"}
      BY <1>3, <2>3 DEF Requests
    <3> DEFINE v == [u EXCEPT !.call = id]
               m == StageRequest(u, id)
    <3>2. v.n = u.n /\ v.caller = u.caller /\ v.path = u.path /\ v.at = u.at /\ v.put = u.put
      BY <1>1 DEF Upload
    <3>3. id \in CallIds
      BY FreshCall
    <3>4. m \in Message /\ ~IsAnswer(m) /\ Is(m, u.stage)
      BY <1>1, <3>1, <3>3, RequestForms
    <3>5. Foreign(m)
      BY <3>1, <3>4 DEF Foreign, Is
    <3>6. Became(u, v) /\ wire' = Sent(wire, u.at, m) /\ u.at \in Devices
      BY <1>1, <3>1 DEF Upload
    <3> HIDE DEF v, m
    <3>7. Carries(wire', wire, Other(u.at), m)
      BY <1>1, <3>4, <3>6, SentWire, RouteTyped
    <3>8. \A d \in Devices : \A x \in InBox(wire', d) : x \in InBox(wire, d) \/ Foreign(x)
      BY <3>5, <3>7 DEF Carries
    <3> QED BY <2>1, <3>1, <3>2, <3>6, <3>8, BecameNews
  <2> QED BY <2>2, <2>3
<1>4. CASE SendsChunk(u)
  <2>1. UNCHANGED fs
    BY <1>4 DEF SendsChunk
  <2>2. CASE Failed(u, wire)
    BY <1>1, <2>1, <2>2, FailedNews
  <2>3. CASE ~Failed(u, wire)
    <3> DEFINE seq == u.seq + 1
               stage == IF u.seq + 1 < Chunks(u) THEN u.stage ELSE "finish"
               v == [u EXCEPT !.seq = seq, !.stage = stage]
               m == [op |-> "chunk", session |-> u.session,
                     write |-> [seq |-> u.seq, chunk |-> u.chunk]]
    <3>1. Became(u, v) /\ UNCHANGED heard /\ wire' = Sent(wire, u.at, m)
      BY <1>4, <2>3 DEF SendsChunk
    <3> HIDE DEF seq, stage
    <3>2. v.n = u.n /\ v.caller = u.caller /\ v.path = u.path /\ v.at = u.at /\ v.put = u.put
      BY <1>1 DEF Upload
    <3>3. m \in Message
      BY <1>1 DEF Message, TransferMessage, Upload, Write
    <3>4. Foreign(m)
      BY DEF Foreign, IsAnswer
    <3>5. u.at \in Devices
      BY <1>1 DEF Upload
    <3> HIDE DEF v, m
    <3>6. Carries(wire', wire, Other(u.at), m)
      BY <1>1, <3>1, <3>3, <3>5, SentWire, RouteTyped
    <3>7. \A d \in Devices : \A x \in InBox(wire', d) : x \in InBox(wire, d) \/ Foreign(x)
      BY <3>4, <3>6 DEF Carries
    <3> QED BY <2>1, <3>1, <3>2, <3>7, BecameNews
  <2> QED BY <2>2, <2>3
<1>5. CASE TimesOut(u)
  BY <1>1, <1>5, FailedNews DEF TimesOut
<1> QED BY <1>2, <1>3, <1>4, <1>5

\* An upload hears: of success only when its version is there.
LEMMA HearingNews ==
    ASSUME RemoteTypeOK, Core, NEW d \in Devices, NEW t \in Transports, wire[d][t] # <<>>,
           TransferAnswered(d, t)
    PROVE  TransferNews
<1> DEFINE m == Head(wire[d][t])
           w == Taken(d, t)
<1>1. /\ IsAnswer(m) /\ m.answer = "transfer" /\ UNCHANGED fs
      /\ \/ \E u \in uploads : u.call = m.id /\ Hears(u, m.ok, m.next, w)
         \/ UNCHANGED <<uploads, heard>> /\ wire' = w
  BY DEF TransferAnswered
<1>2. m \in InBox(wire, d) /\ m \in Message /\ w \in Wires
      /\ \A e \in Devices : InBox(w, e) \subseteq InBox(wire, e)
  BY TakenWire DEF Core, Local, TransferTyped
<1>3. m.ok \in BOOLEAN /\ m.next \in 0..2
  BY <1>1, <1>2, MessageTypes
<1> HIDE DEF m, w
<1>4. CASE UNCHANGED <<uploads, heard>> /\ wire' = w
  BY <1>1, <1>2, <1>4 DEF TransferNews, Heir
<1>5. ASSUME NEW u \in uploads, u.call = m.id, Hears(u, m.ok, m.next, w)
      PROVE  TransferNews
  <2>1. u \in Upload
    BY DEF Core, Local, TransferTyped
  <2>2. CASE u.stage = "start" /\ m.ok
    <3> DEFINE stage == IF m.next < Chunks(u) THEN "send" ELSE "finish"
               seq == m.next
               v == [u EXCEPT !.seq = seq, !.call = 0, !.stage = stage]
    <3>1. Became(u, v) /\ UNCHANGED heard /\ wire' = w
      BY <1>5, <2>2 DEF Hears
    <3> HIDE DEF stage, seq
    <3>2. v.n = u.n /\ v.caller = u.caller /\ v.path = u.path /\ v.at = u.at /\ v.put = u.put
      BY <2>1 DEF Upload
    <3> HIDE DEF v
    <3>3. \A e \in Devices : \A x \in InBox(wire', e) : x \in InBox(wire, e) \/ Foreign(x)
      BY <1>2, <3>1
    <3> QED BY <1>1, <3>1, <3>2, <3>3, BecameNews
  <2>3. CASE u.stage = "finish" /\ m.ok
    <3>1. Ended(u, TRUE, w)
      BY <1>5, <2>3 DEF Hears
    <3>2. SaysOk(m)
      BY <1>1, <2>3 DEF SaysOk
    <3>3. u.put = "whole"
      BY <1>2, <1>5, <2>3, <3>2 DEF Core, Local, TransferInv, OutcomesFit
    <3> QED BY <1>1, <1>2, <2>1, <3>1, <3>3, EndedNews
  <2>4. CASE ~(u.stage = "start" /\ m.ok) /\ ~(u.stage = "finish" /\ m.ok)
    <3>1. Failed(u, w)
      BY <1>5, <2>4 DEF Hears
    <3> QED BY <1>1, <1>2, <2>1, <3>1, FailedNews
  <2> QED BY <2>2, <2>3, <2>4
<1> QED BY <1>1, <1>4, <1>5
\* A finish is about the path of the session it is queued in.
LEMMA FinishAbout ==
    ASSUME Core, NEW s \in sessions, NEW f \in Finish, FinishFits(s.at, s.id, f),
           NEW u \in uploads, u.n = f.n
    PROVE  u.path = s.path /\ Other(u.at) = s.at
<1>1. /\ s \in Session /\ SessionFits(s) /\ u \in Upload /\ UploadFits(u)
  BY DEF Core, Local, TransferTyped, TransferInv, SessionsFit, UploadsFit
<1>2. Other(u.at) = s.at /\ u.session = s.id
  BY DEF FinishFits
<1>3. CASE u.kind = "full"
  <2>1. u.session = <<u.n>> /\ u.n \in Numbers
    BY <1>1, <1>3 DEF UploadFits, Upload
  <2>2. PICK x \in Owners : Owns(u.n, x)
    BY <2>1 DEF Core, Local, TransferInv, NumbersOwned
  <2>3. OfferOf(u) = x /\ x.path = s.path
    BY <1>2, <2>1, <2>2 DEF Owns
  <2> QED BY <1>2, <2>3 DEF OfferOf
<1>4. CASE u.kind = "delta"
  <2>1. u.session \in DeltaIds /\ u.session[1] = u.path
    BY <1>1, <1>4 DEF UploadFits
  <2>2. s.kind = "delta"
    <3>1. s.kind = "full" => \E n \in Numbers : s.id = <<n>>
      BY <1>1 DEF SessionFits
    <3>2. s.kind # "full"
      BY <1>2, <2>1, <3>1, Identifiers
    <3> QED BY <1>1, <3>2 DEF Session
  <2> QED BY <1>1, <1>2, <2>1, <2>2 DEF SessionFits
<1> QED BY <1>1, <1>3, <1>4 DEF Upload

\* A finish takes effect: the upload it comes from has its file there.
LEMMA ApplyNews ==
    ASSUME RemoteTypeOK, Core, NEW s \in sessions, Apply(s)
    PROVE  TransferNews
<1> DEFINE f == Head(s.queue)
           put == Put(s, f)
           e == Result(s, f, put)
<1>1. /\ s \in Session /\ SessionFits(s) /\ s.queue # <<>> /\ IsFinish(f)
      /\ UNCHANGED <<heard, wire>>
      /\ uploads' = {IF u.n = f.n /\ put # "no" THEN [u EXCEPT !.put = put] ELSE u : u \in uploads}
      /\ fs' = IF put = "no" THEN fs ELSE [fs EXCEPT ![s.at][s.path] = e]
  BY DEF Core, Local, TransferTyped, TransferInv, SessionsFit, Apply, Finishing, IsFinish
<1>2. s.queue \in Seq(Write \cup Finish) /\ s.at \in Devices
  BY <1>1 DEF Session
<1>3. f = s.queue[1] /\ f \in Write \cup Finish /\ 1 \in 1..Len(s.queue)
  <2>1. Head(s.queue) = s.queue[1] /\ Len(s.queue) \in Nat /\ Len(s.queue) > 0
        /\ Head(s.queue) \in Write \cup Finish
    BY <1>1, <1>2, Rest
  <2>2. 1 \in 1..Len(s.queue)
    BY <2>1
  <2> HIDE DEF put, e
  <2> QED BY <2>1, <2>2
<1> HIDE DEF f, put, e
<1>4. f \in Finish
  BY <1>1, <1>3, ItemKinds
<1>5. e \in Entry /\ s.at \in Devices /\ s.path \in Paths
  BY <1>4, ResultTyped DEF Core, Local, e
<1>6. FinishFits(s.at, s.id, f)
  BY <1>1, <1>3 DEF Core, Local, TransferInv, FinishesFit
<1>7. put # "no" => fs'[s.at][s.path] # None /\ (put = "whole" => fs'[s.at][s.path].data = f.expect)
  <2>0. put = "whole" => e.data = f.expect
    BY DEF Result, e
  <2>1. fs \in [Devices -> [Paths -> Entry \cup {None}]]
    BY DEF Core, Local, TransferTyped
  <2> QED BY <1>1, <1>5, <2>0, <2>1, NotNone
<1>8. ASSUME NEW x \in uploads' PROVE Heir(x)
  <2>1. PICK u \in uploads : x = IF u.n = f.n /\ put # "no" THEN [u EXCEPT !.put = put] ELSE u
    BY <1>1, <1>8
  <2>2. CASE u.n = f.n /\ put # "no"
    <3>1. u.path = s.path /\ Other(u.at) = s.at
      BY <1>4, <1>6, <2>2, FinishAbout
    <3>2. u \in Upload
      BY DEF Core, Local, TransferTyped
    <3>3. /\ x.n = u.n /\ x.caller = u.caller /\ x.path = u.path /\ x.at = u.at
          /\ x.expect = u.expect /\ x.put = put
      BY <2>1, <2>2, <3>2 DEF Upload
    <3>4. u.expect = f.expect
      BY <1>6, <2>2 DEF FinishFits
    <3> QED BY <1>7, <2>2, <3>1, <3>3, <3>4 DEF Heir
  <2>3. CASE ~(u.n = f.n /\ put # "no")
    BY <2>1, <2>3 DEF Heir
  <2> QED BY <2>2, <2>3
<1>9. fs' = fs \/ \E d \in Devices, p \in Paths, x \in Entry : fs' = [fs EXCEPT ![d][p] = x]
  BY <1>1, <1>5
<1> QED BY <1>1, <1>8, <1>9 DEF TransferNews

\* Every step of a transfer.
LEMMA TransfersNews ==
    ASSUME RemoteTypeOK, Core, Transfers
    PROVE  TransferNews
<1>1. ASSUME UNCHANGED <<fs, uploads, heard>>,
             \A d \in Devices : \A m \in InBox(wire', d) : m \in InBox(wire, d) \/ Foreign(m)
      PROVE  TransferNews
  BY <1>1 DEF TransferNews, Heir
<1>2. CASE \E u \in uploads : Hash(u) \/ Requests(u) \/ SendsChunk(u) \/ TimesOut(u)
  BY <1>2, UploadNews
<1>3. CASE \E d \in Devices, t \in Transports :
              wire[d][t] # <<>> /\ (TransferAnswered(d, t) \/ TransferHandled(d, t))
  <2>1. PICK d \in Devices, t \in Transports :
           wire[d][t] # <<>> /\ (TransferAnswered(d, t) \/ TransferHandled(d, t))
    BY <1>3
  <2>2. CASE TransferAnswered(d, t)
    BY <2>1, <2>2, HearingNews
  <2>3. CASE TransferHandled(d, t)
    <3> DEFINE m == Head(wire[d][t])
               w == Taken(d, t)
    <3>1. UNCHANGED <<fs, uploads, heard>>
      BY <2>3 DEF TransferHandled
    <3>2. m \in InBox(wire, d) /\ m \in Message /\ w \in Wires
          /\ \A e \in Devices : InBox(w, e) \subseteq InBox(wire, e)
      BY <2>1, TakenWire DEF Core, Local, TransferTyped
    <3>3. /\ ~IsAnswer(m) /\ m.op \in {"start", "chunk", "finish", "abort"}
          /\ \/ wire' = w
             \/ \E ok \in BOOLEAN, n \in Nat :
                   /\ m.op # "chunk" /\ (n = 0 \/ \E s \in sessions : n = Len(s.got))
                   /\ wire' = Answered(w, d, t, TransferAnswer(m.id, ok, n))
      <4>1. ~IsAnswer(m) /\ (\/ HandleStart(d, t, m) \/ HandleChunk(d, t, m)
                             \/ HandleFinish(d, t, m) \/ HandleAbort(d, t, m))
        BY <2>3 DEF TransferHandled
      <4>2. \A s \in sessions : Len(s.got) \in Nat
        BY DEF Core, Local, TransferTyped, Session
      <4> HIDE DEF m, w
      <4>3. w = Taken(d, t)
        BY DEF w
      <4>4. CASE HandleStart(d, t, m)
        <5>1. CASE \E s \in sessions : wire' = Answered(w, d, t, TransferAnswer(m.id, TRUE, Len(s.got)))
          BY <4>1, <4>2, <4>4, <5>1 DEF HandleStart
        <5>2. CASE wire' = Answered(w, d, t, TransferAnswer(m.id, TRUE, 0))
          BY <4>1, <4>4, <5>2 DEF HandleStart
        <5> QED BY <4>3, <4>4, <5>1, <5>2 DEF HandleStart, SessionOf
      <4>5. CASE HandleChunk(d, t, m)
        BY <4>1, <4>3, <4>5 DEF HandleChunk
      <4>6. CASE HandleFinish(d, t, m)
        BY <4>1, <4>3, <4>6 DEF HandleFinish
      <4>7. CASE HandleAbort(d, t, m)
        BY <4>1, <4>3, <4>7 DEF HandleAbort
      <4> QED BY <4>1, <4>4, <4>5, <4>6, <4>7
    <3> HIDE DEF m, w
    <3>4. CASE wire' = w
      BY <1>1, <3>1, <3>2, <3>4
    <3>5. ASSUME NEW ok \in BOOLEAN, NEW n \in Nat, m.op # "chunk",
                 n = 0 \/ \E s \in sessions : n = Len(s.got),
                 wire' = Answered(w, d, t, TransferAnswer(m.id, ok, n))
          PROVE  TransferNews
      <4>1. n \in 0..2
        BY <3>5 DEF Core, Local, TransferInv, SessionsFit, SessionFits
      <4>2. m.id \in CallIds
        BY <3>2, <3>3, <3>5, MessageTypes DEF Is
      <4> DEFINE a == TransferAnswer(m.id, ok, n)
      <4>3. a \in Message
        BY <4>1, <4>2, AnswerForm
      <4>4. Foreign(a)
        BY DEF Foreign, TransferAnswer, IsAnswer
      <4>5. wire' = Answered(w, d, t, a)
        BY <3>5
      <4> HIDE DEF a
      <4>6. \A e \in Devices : \A x \in InBox(wire', e) : x \in InBox(w, e) \/ x = a
        BY <3>2, <4>3, <4>5, SentWire DEF Carries
      <4>7. \A e \in Devices : \A x \in InBox(wire', e) : x \in InBox(wire, e) \/ Foreign(x)
        BY <3>2, <4>4, <4>6
      <4> QED BY <1>1, <3>1, <4>7
    <3> QED BY <3>3, <3>4, <3>5
  <2> QED BY <2>1, <2>2, <2>3
<1>4. ASSUME NEW s \in sessions, WriteChunk(s) \/ Apply(s) \/ FinishEnds(s) \/ Sweep(s)
      PROVE  TransferNews
  <2>1. CASE Apply(s)
    BY <2>1, ApplyNews
  <2>2. CASE WriteChunk(s) \/ Sweep(s)
    BY <1>1, <2>2 DEF WriteChunk, Sweep
  <2>3. CASE FinishEnds(s)
    <3> DEFINE f == Head(s.queue)
               ok == s.applied = "ok"
               a == TransferAnswer(f.id, ok, 0)
    <3>1. /\ UNCHANGED <<fs, uploads, heard>> /\ IsFinish(f) /\ s.queue # <<>>
          /\ wire' = Answered(wire, s.at, f.finish, a)
      BY <2>3 DEF FinishEnds, Finishing, IsFinish
    <3>2. s \in Session /\ wire \in Wires
      BY DEF Core, Local, TransferTyped
    <3>3. s.queue \in Seq(Write \cup Finish) /\ s.at \in Devices
      BY <3>2 DEF Session
    <3>4. f \in Write \cup Finish
      BY <3>1, <3>3, Rest
    <3>5. f \in Finish
      BY <3>1, <3>4, ItemKinds
    <3>6. f.id \in CallIds /\ f.finish \in Transports /\ ok \in BOOLEAN /\ 0 \in 0..2
      BY <3>5 DEF Finish
    <3>7. a \in Message
      BY <3>6, AnswerForm
    <3>8. Foreign(a)
      BY DEF Foreign, TransferAnswer, IsAnswer
    <3> HIDE DEF f, ok, a
    <3>9. Carries(wire', wire, Other(s.at), a)
      BY <3>1, <3>2, <3>3, <3>6, <3>7, SentWire
    <3> QED BY <1>1, <3>1, <3>8, <3>9 DEF Carries
  <2> QED BY <1>4, <2>1, <2>2, <2>3
<1> QED BY <1>2, <1>3, <1>4 DEF Transfers, UploadProgress
\* The type of an upload.
LEMMA OwnTyped ==
    ASSUME TransferTyped, NEW u \in uploads
    PROVE  /\ u \in Upload /\ u.at \in Devices /\ u.path \in Paths /\ Other(u.at) \in Devices
           /\ u.caller # <<>> => u.caller[1] \in CallIds /\ u.caller[1] # 0
<1>1. u \in Upload
  BY DEF TransferTyped
<1>2. u.at \in Devices /\ u.path \in Paths /\ u.caller \in Callers
  BY <1>1 DEF Upload
<1>3. u.caller # <<>> => u.caller[1] \in CallIds
  BY <1>2 DEF Callers
<1> QED BY <1>1, <1>2, <1>3, Two DEF CallIds

\* The upload of the source in full.
LEMMA SendsFullAlone ==
    ASSUME NEW p, SendsFull(p)
    PROVE  \/ heard' = Unheard /\ uploads' = uploads
           \/ heard' = None /\ \E u : /\ u.caller = <<>> /\ u.path = p /\ u.put # "whole"
                                      /\ uploads' = uploads \cup {u}
<1>1. CASE fs["A"][p] = None \/ aborted
  BY <1>1 DEF SendsFull, UploadsOnly
<1>2. CASE ~(fs["A"][p] = None \/ aborted)
  <2>1. PICK n \in FreshNumbers :
           Begun(Uploading(n, "A", <<>>, p, "full", walked["A"][p], fs["A"][p], None))
    BY <1>2 DEF SendsFull
  <2> DEFINE u == Uploading(n, "A", <<>>, p, "full", walked["A"][p], fs["A"][p], None)
  <2>2. u.caller = <<>> /\ u.path = p /\ u.put # "whole"
    BY DEF Uploading
  <2>3. uploads' = uploads \cup {u}
    BY <2>1 DEF Begun
  <2>4. heard' = None
    BY <1>2 DEF SendsFull
  <2> HIDE DEF u
  <2> QED BY <2>2, <2>3, <2>4
<1> QED BY <1>1, <1>2

(******************** what uploads and sessions carry **********************)

\* A finish may be carried out: it is on its way, or waits in the queue of a session.
Pending(s, i) == IsFinish(s.queue[i]) /\ (i > 1 \/ s.applied = "no")

\* Where a session of the given name puts, or may come to put, its file on d.
Aims(d, id, p) ==
    \/ \E s \in sessions : s.at = d /\ s.id = id /\ s.path = p
    \/ \E m \in InBox(wire, d) : Is(m, "start") /\ m.session = id /\ m.path = p
    \/ \E u \in uploads : Other(u.at) = d /\ u.session = id /\ u.path = p
    \/ id \in DeltaIds /\ id[1] = p

\* A finish of upload number n may yet put a file at p.
MayPut(n, p) ==
    \/ \E d \in Devices : \E m \in InBox(wire, d) : Is(m, "finish") /\ m.n = n /\ Aims(d, m.session, p)
    \/ \E s \in sessions : \E i \in 1..Len(s.queue) : Pending(s, i) /\ s.queue[i].n = n /\ s.path = p

\* The upload's finish has been sent, or never will be.
Closed(u) == u.stage \in {"finish", "abort"} /\ (u.stage = "finish" => u.call # 0)

\* An upload that has put its file has nothing on the way that could put it again.
Spent == \A u \in uploads : u.put # "no" => Closed(u) /\ \A p \in Paths : ~MayPut(u.n, p)

\* The time that goes with a session is that of the upload, and of the identifier.
Timely(id, meta) == /\ id \in DeltaIds => id[3] = meta.mtimeMs
                    /\ \A u \in uploads : u.session = id => u.meta.mtimeMs = meta.mtimeMs

SessionTimes ==
    /\ \A u \in uploads : u.session \in DeltaIds => u.session[3] = u.meta.mtimeMs
    /\ \A d \in Devices : \A m \in InBox(wire, d) : Is(m, "start") => Timely(m.session, m.meta)
    /\ \A s \in sessions : Timely(s.id, s.meta)

\* A file, an upload or a finish says that version v has size z.
SizeSaid(v, z) ==
    \/ \E d \in Devices, p \in Paths : fs[d][p] # None /\ fs[d][p].data = v /\ fs[d][p].size = z
    \/ \E u \in uploads : u.expect = v /\ u.size = z
    \/ \E d \in Devices : \E m \in InBox(wire, d) : Is(m, "finish") /\ m.expect = v /\ m.size = z
    \/ \E s \in sessions : \E i \in 1..Len(s.queue) :
          IsFinish(s.queue[i]) /\ s.queue[i].expect = v /\ s.queue[i].size = z

\* A version has one size.
OneSize ==
    /\ \A v \in Contents, z \in Sizes : SizeSaid(v, z) => v \in Seen
    /\ \A v \in Contents, y, z \in Sizes : SizeSaid(v, y) /\ SizeSaid(v, z) /\ v # Torn => y = z

\* Of the messages in M there is one at most.
One(w, M) ==
    \A d, e \in Devices : \A t, r \in Transports : \A i \in 1..Len(w[d][t]), j \in 1..Len(w[e][r]) :
        w[d][t][i] \in M /\ w[e][r][j] \in M => d = e /\ t = r /\ i = j

Named(id) == {m \in Message : "id" \in DOMAIN m /\ m.id = id}
MadeFor(u, id) == u.caller # <<>> /\ u.caller[1] = id

\* The run's request is on the way, or an upload is made for it, or its answer is on the way.
AskedOnce == asked # 0 =>
    /\ One(wire, Named(asked))
    /\ \A u \in uploads : MadeFor(u, asked) =>
          /\ \A d \in Devices : \A m \in InBox(wire, d) : m \notin Named(asked)
          /\ \A v \in uploads : MadeFor(v, asked) => u = v

Carrying == Spent /\ SessionTimes /\ OneSize /\ AskedOnce

(*** what a step may bring to uploads and sessions ***)

\* The same upload, further on: at most it has read its file again.
Same(x, u) == /\ x.n = u.n /\ x.at = u.at /\ x.caller = u.caller /\ x.path = u.path
              /\ x.session = u.session /\ x.meta = u.meta /\ x.chunk = u.chunk

Reads(x, e) == e # None /\ x.expect = e.data /\ x.size = e.size

Continues(x, u) == /\ Same(x, u) /\ (Closed(u) => Closed(x))
                   /\ (x.expect = u.expect /\ x.size = u.size) \/ Reads(x, fs[u.at][u.path])

\* A new upload, under a number nothing bears.
Anew(x) == /\ x.n \in FreshNumbers /\ x.put = "no" /\ Reads(x, fs[x.at][x.path])
           /\ x.session = <<x.n>> \/ x.session = <<x.path, x.meta.size, x.meta.mtimeMs>>

UploadsGoOn == \A x \in uploads' : (\E u \in uploads : Continues(x, u)) \/ Anew(x)

\* A new request that opens a session, or ends one, is that of an upload.
Opens(u, d, m)  == /\ Is(m, "start") /\ Other(u.at) = d
                   /\ m.session = u.session /\ m.path = u.path /\ m.meta = u.meta
Closes(u, d, m) == /\ Is(m, "finish") /\ Other(u.at) = d /\ u.stage = "finish" /\ u.call = 0
                   /\ m.session = u.session /\ m.n = u.n /\ m.expect = u.expect /\ m.size = u.size

MailGoesOn == \A d \in Devices : \A m \in InBox(wire', d) :
    \/ m \in InBox(wire, d) \/ (~Is(m, "start") /\ ~Is(m, "finish"))
    \/ \E u \in uploads : Opens(u, d, m) \/ Closes(u, d, m)

\* A finish in the queue was there, or came from the wire.
Queued(s, i, z, j) == s.queue[i] = z.queue[j] /\ (Pending(s, i) => Pending(z, j))
CameIn(f, s) == \E m \in InBox(wire, s.at) : /\ Is(m, "finish") /\ m.session = s.id
                                             /\ m.n = f.n /\ m.expect = f.expect /\ m.size = f.size

HeldOn(s, z) == /\ s.at = z.at /\ s.id = z.id /\ s.path = z.path /\ s.meta = z.meta
                /\ \A i \in 1..Len(s.queue) : IsFinish(s.queue[i]) =>
                      (\E j \in 1..Len(z.queue) : Queued(s, i, z, j)) \/ CameIn(s.queue[i], s)
OpenedBy2(s) == /\ s.queue = <<>>
                /\ \E m \in InBox(wire, s.at) : /\ Is(m, "start") /\ m.session = s.id
                                                /\ m.path = s.path /\ m.meta = s.meta

SessionsGoOn == \A s \in sessions' : (\E z \in sessions : HeldOn(s, z)) \/ OpenedBy2(s)

GoesOn == UploadsGoOn /\ MailGoesOn /\ SessionsGoOn

\* Where a session named for an upload puts its file is where the upload is for.
LEMMA AimsOnly ==
    ASSUME Core, NEW u \in uploads, NEW p, Aims(Other(u.at), u.session, p)
    PROVE  p = u.path
<1>1. /\ TransferTyped /\ UploadsFit /\ MessagesFit /\ SessionsFit /\ NumbersOwned
      /\ UploadFits(u) /\ u \in Upload /\ u.kind \in {"full", "delta"} /\ u.n \in Numbers
      /\ Other(u.at) \in Devices
  BY Two DEF Core, Local, TransferInv, UploadsFit, TransferTyped, Upload
<1>2. CASE u.kind = "full"
  <2>1. u.session = <<u.n>> /\ u.session \notin DeltaIds
    BY <1>1, <1>2, Identifiers DEF UploadFits
  <2>2. PICK o \in Owners : Owns(u.n, o)
    BY <1>1 DEF NumbersOwned
  <2>3. o.path = u.path
    BY <2>1, <2>2 DEF Owns, OfferOf
  <2>4. \A v \in uploads : v.session = u.session => v.path = o.path
    BY <2>1, <2>2 DEF Owns, OfferOf
  <2>5. \A s \in sessions : s.id = u.session => s.path = o.path
    BY <2>1, <2>2 DEF Owns
  <2>6. \A m \in InBox(wire, Other(u.at)) : Is(m, "start") /\ m.session = u.session => m.path = o.path
    BY <1>1, <2>1, <2>2 DEF Owns
  <2> QED BY <2>1, <2>3, <2>4, <2>5, <2>6 DEF Aims
<1>3. CASE u.kind = "delta"
  <2>1. u.session \in DeltaIds /\ u.session[1] = u.path
    BY <1>1, <1>3 DEF UploadFits
  <2>2. ASSUME NEW s \in sessions, s.id = u.session PROVE s.path = u.path
    <3>1. SessionFits(s) /\ s \in Session
      BY <1>1 DEF SessionsFit, TransferTyped
    <3>2. s.kind = "full" => \E n \in Numbers : s.id = <<n>>
      BY <3>1 DEF SessionFits
    <3>3. s.kind # "full"
      BY <2>1, <2>2, <3>2, Identifiers
    <3> QED BY <2>1, <2>2, <3>1, <3>3 DEF SessionFits, Session
  <2>3. ASSUME NEW m \in InBox(wire, Other(u.at)), Is(m, "start"), m.session = u.session
        PROVE  m.path = u.path
    <3>1. StartFits(m) /\ m \in Message
      BY <1>1, <2>3, InBoxDef DEF MessagesFit, TransferTyped
    <3>2. m.kind \in {"full", "delta"}
      BY <2>3, <3>1, MessageTypes
    <3>3. m.kind # "full"
      BY <2>1, <2>3, <3>1, Identifiers DEF StartFits
    <3> QED BY <2>1, <2>3, <3>1, <3>2, <3>3 DEF StartFits
  <2>4. ASSUME NEW v \in uploads, v.session = u.session PROVE v.path = u.path
    <3>1. UploadFits(v) /\ v \in Upload
      BY <1>1 DEF UploadsFit, TransferTyped
    <3>2. v.kind # "full"
      BY <2>1, <2>4, <3>1, Identifiers DEF UploadFits
    <3> QED BY <2>1, <2>4, <3>1, <3>2 DEF UploadFits, Upload
  <2> QED BY <2>1, <2>2, <2>3, <2>4 DEF Aims
<1> QED BY <1>1, <1>2, <1>3

\* A new upload's name is its number's, or says its path and its time.
LEMMA AnewNamed ==
    ASSUME TransferTyped', NEW x \in uploads', Anew(x)
    PROVE  \/ x.session = <<x.n>>
           \/ x.session \in DeltaIds /\ x.session[1] = x.path /\ x.session[3] = x.meta.mtimeMs
<1>1. x \in Upload
  BY DEF TransferTyped
<1>2. x.path \in Paths /\ x.meta.size \in Sizes /\ x.meta.mtimeMs \in Times
  BY <1>1 DEF Upload, Meta
<1> QED BY <1>2 DEF Anew, DeltaIds


\* Where a session of that name puts its file is settled when the name is new.
LEMMA AimsFlow ==
    ASSUME TransferTyped', GoesOn, NEW d \in Devices, NEW id, NEW p, Aims(d, id, p)'
    PROVE  Aims(d, id, p) \/ \E x \in uploads' : Anew(x) /\ id = <<x.n>>
<1>1. UploadsGoOn /\ MailGoesOn /\ SessionsGoOn
  BY DEF GoesOn
<1>2. ASSUME NEW s \in sessions', s.at = d, s.id = id, s.path = p PROVE Aims(d, id, p)
  BY <1>1, <1>2 DEF SessionsGoOn, HeldOn, OpenedBy2, Aims
<1>3. ASSUME NEW m \in InBox(wire', d), Is(m, "start"), m.session = id, m.path = p PROVE Aims(d, id, p)
  BY <1>1, <1>3 DEF MailGoesOn, Opens, Closes, Aims, Is
<1>4. ASSUME NEW x \in uploads', Other(x.at) = d, x.session = id, x.path = p
      PROVE  Aims(d, id, p) \/ \E y \in uploads' : Anew(y) /\ id = <<y.n>>
  <2>1. CASE \E u \in uploads : Continues(x, u)
    BY <1>4, <2>1 DEF Continues, Same, Aims
  <2>2. CASE Anew(x)
    BY <1>4, <2>2, AnewNamed DEF Aims
  <2> QED BY <1>1, <2>1, <2>2 DEF UploadsGoOn
<1>5. (id \in DeltaIds /\ id[1] = p) => Aims(d, id, p)
  BY DEF Aims
<1> QED BY <1>2, <1>3, <1>4, <1>5 DEF Aims

\* The name of an upload is not one that is new.
LEMMA NameTaken ==
    ASSUME RemoteTypeOK, Core, NEW u \in uploads, NEW n \in FreshNumbers
    PROVE  u.session # <<n>>
<1>1. UploadFits(u) /\ u \in Upload /\ u.n # n
  BY FreshNumber DEF Core, Local, TransferInv, TransferTyped, UploadsFit
<1>2. u.session = <<u.n>> \/ u.session \in DeltaIds
  BY <1>1 DEF UploadFits, Upload
<1> QED BY <1>1, <1>2, Identifiers

\* A finish that may be carried out might have been before, or is being sent.
LEMMA MayPutFlow ==
    ASSUME RemoteTypeOK, Core, TransferTyped', GoesOn, NEW n, NEW p, MayPut(n, p)'
    PROVE  MayPut(n, p) \/ \E u \in uploads : u.n = n /\ u.path = p /\ u.stage = "finish" /\ u.call = 0
<1>1. UploadsGoOn /\ MailGoesOn /\ SessionsGoOn
  BY DEF GoesOn
<1>2. ASSUME NEW d \in Devices, NEW m \in InBox(wire', d), Is(m, "finish"), m.n = n,
             Aims(d, m.session, p)'
      PROVE  MayPut(n, p) \/ \E u \in uploads : u.n = n /\ u.path = p /\ u.stage = "finish" /\ u.call = 0
  <2>1. Aims(d, m.session, p) \/ \E x \in uploads' : Anew(x) /\ m.session = <<x.n>>
    BY <1>2, AimsFlow
  <2>2. CASE m \in InBox(wire, d)
    <3>1. ~ \E x \in uploads' : Anew(x) /\ m.session = <<x.n>>
      BY <1>2, <2>2, FreshNumber DEF Anew
    <3> QED BY <1>2, <2>1, <2>2, <3>1 DEF MayPut
  <2>3. CASE m \notin InBox(wire, d)
    <3>1. PICK u \in uploads : Closes(u, d, m)
      BY <1>1, <1>2, <2>3 DEF MailGoesOn, Opens, Is
    <3>2. Aims(Other(u.at), u.session, p)
      <4>1. \A x \in uploads' : Anew(x) => u.session # <<x.n>>
        BY NameTaken DEF Anew
      <4> QED BY <2>1, <3>1, <4>1 DEF Closes
    <3>3. p = u.path
      BY <3>2, AimsOnly
    <3> QED BY <1>2, <3>1, <3>3 DEF Closes
  <2> QED BY <2>2, <2>3
<1>3. ASSUME NEW s \in sessions', NEW i \in 1..Len(s.queue), Pending(s, i), s.queue[i].n = n, s.path = p
      PROVE  MayPut(n, p)
  <2>1. s.queue # <<>> /\ IsFinish(s.queue[i])
    BY <1>3 DEF Pending
  <2>2. PICK z \in sessions : HeldOn(s, z)
    BY <1>1, <2>1 DEF SessionsGoOn, OpenedBy2
  <2>3. CASE \E j \in 1..Len(z.queue) : Queued(s, i, z, j)
    BY <1>3, <2>2, <2>3 DEF HeldOn, Queued, MayPut
  <2>4. CASE CameIn(s.queue[i], s)
    <3>1. PICK m \in InBox(wire, s.at) : Is(m, "finish") /\ m.session = s.id /\ m.n = n
      BY <1>3, <2>4 DEF CameIn
    <3>2. s.at = z.at /\ s.id = z.id /\ z.path = p /\ z \in Session
      BY <1>3, <2>2 DEF HeldOn, Core, Local, TransferTyped
    <3>3. z.at \in Devices /\ Aims(z.at, z.id, p)
      BY <3>2 DEF Session, Aims
    <3> QED BY <3>1, <3>2, <3>3 DEF MayPut
  <2> QED BY <2>1, <2>2, <2>3, <2>4 DEF HeldOn
<1> QED BY <1>2, <1>3 DEF MayPut

\* An upload's time is that of its name.
LEMMA UploadTimely ==
    ASSUME Core, SessionTimes, NEW u \in uploads
    PROVE  Timely(u.session, u.meta)
<1> SUFFICES ASSUME NEW v \in uploads, v.session = u.session PROVE v.meta.mtimeMs = u.meta.mtimeMs
  BY DEF Timely, SessionTimes
<1>1. /\ UploadFits(u) /\ u \in Upload /\ UploadFits(v) /\ v \in Upload
      /\ u.n = v.n => u = v
  BY DEF Core, Local, TransferInv, TransferTyped, UploadsFit
<1>2. (u.session = <<u.n>> \/ u.session \in DeltaIds) /\ (v.session = <<v.n>> \/ v.session \in DeltaIds)
  BY <1>1 DEF UploadFits, Upload
<1> QED BY <1>1, <1>2, Identifiers DEF SessionTimes

\* Times stay with their names.
LEMMA SessionTimesKept ==
    ASSUME RemoteTypeOK, Core, TransferTyped', GoesOn, SessionTimes
    PROVE  SessionTimes'
<1>1. UploadsGoOn /\ MailGoesOn /\ SessionsGoOn
  BY DEF GoesOn
<1>2. ASSUME NEW x \in uploads', x.session \in DeltaIds PROVE x.session[3] = x.meta.mtimeMs
  <2>1. CASE \E u \in uploads : Continues(x, u)
    BY <1>2, <2>1 DEF Continues, Same, SessionTimes
  <2>2. CASE Anew(x)
    BY <1>2, <2>2, AnewNamed, Identifiers
  <2> QED BY <1>1, <2>1, <2>2 DEF UploadsGoOn
<1>3. ASSUME NEW id, NEW meta, Timely(id, meta), \A x \in uploads' : Anew(x) => id # <<x.n>>
      PROVE  Timely(id, meta)'
  <2>1. ASSUME NEW x \in uploads', x.session = id PROVE x.meta.mtimeMs = meta.mtimeMs
    <3>1. CASE \E u \in uploads : Continues(x, u)
      BY <1>3, <2>1, <3>1 DEF Continues, Same, Timely
    <3>2. CASE Anew(x)
      BY <1>3, <2>1, <3>2, AnewNamed DEF Timely
    <3> QED BY <1>1, <3>1, <3>2 DEF UploadsGoOn
  <2> QED BY <1>3, <2>1 DEF Timely
<1>4. ASSUME NEW d \in Devices, NEW m \in InBox(wire', d), Is(m, "start") PROVE Timely(m.session, m.meta)'
  <2>1. CASE m \in InBox(wire, d)
    <3>1. Timely(m.session, m.meta) /\ \A x \in uploads' : Anew(x) => m.session # <<x.n>>
      BY <1>4, <2>1, FreshNumber DEF SessionTimes, Anew
    <3> QED BY <1>3, <3>1
  <2>2. CASE m \notin InBox(wire, d)
    <3>1. PICK u \in uploads : Opens(u, d, m)
      BY <1>1, <1>4, <2>2 DEF MailGoesOn, Closes, Is
    <3>2. Timely(u.session, u.meta) /\ \A x \in uploads' : Anew(x) => u.session # <<x.n>>
      BY UploadTimely, NameTaken DEF Anew
    <3>3. Timely(u.session, u.meta)'
      BY ONLY <1>3, <3>2
    <3> QED BY <3>1, <3>3 DEF Opens
  <2> QED BY <2>1, <2>2
<1>5. ASSUME NEW s \in sessions' PROVE Timely(s.id, s.meta)'
  <2>1. CASE \E z \in sessions : HeldOn(s, z)
    <3>1. PICK z \in sessions : HeldOn(s, z)
      BY <2>1
    <3>2. Timely(z.id, z.meta) /\ \A x \in uploads' : Anew(x) => z.id # <<x.n>>
      BY FreshNumber DEF SessionTimes, Anew
    <3>3. Timely(z.id, z.meta)'
      BY ONLY <1>3, <3>2
    <3> QED BY <3>1, <3>3 DEF HeldOn
  <2>2. CASE OpenedBy2(s)
    <3>1. PICK m \in InBox(wire, s.at) : Is(m, "start") /\ m.session = s.id /\ m.meta = s.meta
      BY <2>2 DEF OpenedBy2
    <3>2. s.at \in Devices
      BY DEF TransferTyped, Session
    <3>3. Timely(m.session, m.meta) /\ \A x \in uploads' : Anew(x) => m.session # <<x.n>>
      BY <3>1, <3>2, FreshNumber DEF SessionTimes, Anew
    <3>4. Timely(m.session, m.meta)'
      BY ONLY <1>3, <3>3
    <3> QED BY <3>1, <3>4
  <2> QED BY <1>1, <2>1, <2>2 DEF SessionsGoOn
<1> QED BY <1>2, <1>4, <1>5 DEF SessionTimes

\* A file that a step brings is a known version, in part or whole, or the user's new one.
FilesGoOn ==
    \E z \in Sizes : \A d \in Devices, p \in Paths : fs'[d][p] # None =>
        \/ SizeSaid(fs'[d][p].data, fs'[d][p].size) \/ fs'[d][p].data = Torn
        \/ clock' = clock + 1 /\ fs'[d][p].data = clock + 1 /\ fs'[d][p].size = z

\* What is said of a version's size was said before, but of new files.
LEMMA SizesFlow ==
    ASSUME Core, TransferTyped', GoesOn, NEW v, NEW z, SizeSaid(v, z)'
    PROVE  \/ SizeSaid(v, z)
           \/ \E d \in Devices, p \in Paths : fs'[d][p] # None /\ fs'[d][p].data = v /\ fs'[d][p].size = z
<1>1. UploadsGoOn /\ MailGoesOn /\ SessionsGoOn
  BY DEF GoesOn
<1>2. ASSUME NEW x \in uploads', x.expect = v, x.size = z PROVE SizeSaid(v, z)
  <2>1. CASE \E u \in uploads : Continues(x, u) /\ x.expect = u.expect /\ x.size = u.size
    BY <1>2, <2>1 DEF SizeSaid
  <2>2. CASE \E d \in Devices, p \in Paths : Reads(x, fs[d][p])
    BY <1>2, <2>2 DEF SizeSaid, Reads
  <2>3. \A u \in uploads : u.at \in Devices /\ u.path \in Paths
    BY OwnTyped DEF Core, Local
  <2>4. x.at \in Devices /\ x.path \in Paths
    BY DEF TransferTyped, Upload
  <2> QED BY <1>1, <2>1, <2>2, <2>3, <2>4 DEF UploadsGoOn, Continues, Anew
<1>3. ASSUME NEW d \in Devices, NEW m \in InBox(wire', d), Is(m, "finish"), m.expect = v, m.size = z
      PROVE  SizeSaid(v, z)
  BY <1>1, <1>3 DEF MailGoesOn, Opens, Closes, Is, SizeSaid
<1>4. ASSUME NEW s \in sessions', NEW i \in 1..Len(s.queue), IsFinish(s.queue[i]),
             s.queue[i].expect = v, s.queue[i].size = z
      PROVE  SizeSaid(v, z)
  <2>1. PICK y \in sessions : HeldOn(s, y)
    BY <1>1, <1>4 DEF SessionsGoOn, OpenedBy2
  <2>2. s.at \in Devices
    BY DEF TransferTyped, Session
  <2>3. CASE \E j \in 1..Len(y.queue) : Queued(s, i, y, j)
    BY <1>4, <2>3 DEF Queued, SizeSaid
  <2>4. CASE CameIn(s.queue[i], s)
    BY <1>4, <2>2, <2>4 DEF CameIn, SizeSaid
  <2> QED BY <1>4, <2>1, <2>3, <2>4 DEF HeldOn
<1> QED BY <1>2, <1>3, <1>4 DEF SizeSaid

\* A version keeps its one size.
LEMMA OneSizeKept ==
    ASSUME Core, TransferTyped', GoesOn, FilesGoOn, OneSize, clock \in Nat, clock' \in {clock, clock + 1}
    PROVE  OneSize'
<1>1. PICK new \in Sizes : \A d \in Devices, p \in Paths : fs'[d][p] # None =>
         \/ SizeSaid(fs'[d][p].data, fs'[d][p].size) \/ fs'[d][p].data = Torn
         \/ clock' = clock + 1 /\ fs'[d][p].data = clock + 1 /\ fs'[d][p].size = new
  BY DEF FilesGoOn
<1>2. \A v, z : SizeSaid(v, z)' => \/ SizeSaid(v, z) \/ v = Torn
                                   \/ clock' = clock + 1 /\ v = clock + 1 /\ z = new
  BY <1>1, SizesFlow
<1>3. Torn \in Seen' /\ (\A v \in Seen : v \in Seen') /\ (clock' = clock + 1 => clock + 1 \in Seen')
  BY DEF Seen
<1>4. clock + 1 = Torn \/ clock + 1 \notin Seen
  BY DEF Seen
<1>5. ASSUME NEW v \in Contents, NEW z \in Sizes, SizeSaid(v, z)' PROVE v \in Seen'
  BY <1>2, <1>3, <1>5 DEF OneSize
<1>6. ASSUME NEW v \in Contents, NEW y \in Sizes, NEW z \in Sizes, SizeSaid(v, y)', SizeSaid(v, z)', v # Torn
      PROVE  y = z
  <2>1. v = clock + 1 => ~SizeSaid(v, y) /\ ~SizeSaid(v, z)
    BY <1>4, <1>6 DEF OneSize
  <2> QED BY <1>2, <1>6, <2>1 DEF OneSize
<1>7. Torn' = Torn
  BY DEF Torn
<1> QED BY <1>5, <1>6, <1>7 DEF OneSize

\* An upload has put its file: it had before, or nothing of its finish is left.
PutsGoOn ==
    \A x \in uploads' : x.put # "no" =>
        \/ \E u \in uploads : Continues(x, u) /\ u.put # "no"
        \/ Closed(x) /\ \A p \in Paths : ~MayPut(x.n, p)'

\* A file once put is not put again.
LEMMA SpentKept ==
    ASSUME RemoteTypeOK, Core, TransferTyped', GoesOn, PutsGoOn, Spent
    PROVE  Spent'
<1> SUFFICES ASSUME NEW x \in uploads', x.put # "no", NEW u \in uploads, Continues(x, u), u.put # "no"
             PROVE  Closed(x) /\ \A p \in Paths : ~MayPut(x.n, p)'
  BY DEF Spent, PutsGoOn
<1>1. Closed(u) /\ (\A p \in Paths : ~MayPut(u.n, p)) /\ Closed(x) /\ x.n = u.n
  BY DEF Spent, Continues, Same
<1>2. \A v \in uploads : v.n = u.n => v = u
  BY DEF Core, Local, TransferInv, UploadsFit
<1>3. \A p : MayPut(u.n, p)' => MayPut(u.n, p)
  BY <1>1, <1>2, MayPutFlow DEF Closed
<1> QED BY <1>1, <1>3


(*** one message to a request ***)

NoneIn(w, M) == \A d \in Devices : \A m \in InBox(w, d) : m \notin M

\* One more is the only one, if there was none.
LEMMA SentOne ==
    ASSUME NEW w \in Wires, NEW d \in Devices, NEW t \in Transports, NEW m \in Message, NEW M,
           One(w, M), m \in M => NoneIn(w, M)
    PROVE  One(SentOn(w, d, t, m), M)
<1> DEFINE v == SentOn(w, d, t, m)
<1>1. CASE ~Delivers(d, t)
  BY <1>1 DEF SentOn
<1>2. CASE Delivers(d, t)
  <2>0. Other(d) \in Devices
    BY Two
  <2>1. w[Other(d)][t] \in Seq(Message)
    BY <2>0 DEF Wires
  <2>2. v = [w EXCEPT ![Other(d)][t] = Append(w[Other(d)][t], m)]
    BY <1>2 DEF SentOn
  <2>4. \A e \in Devices, r \in Transports :
           v[e][r] = IF e = Other(d) /\ r = t THEN Append(w[e][r], m) ELSE w[e][r]
    BY <2>0, <2>2 DEF Wires
  <2>5. \A e \in Devices, r \in Transports : \A i \in 1..Len(v[e][r]) :
           \/ i \in 1..Len(w[e][r]) /\ v[e][r][i] = w[e][r][i]
           \/ e = Other(d) /\ r = t /\ i = Len(w[e][r]) + 1 /\ v[e][r][i] = m
    <3> SUFFICES ASSUME NEW e \in Devices, NEW r \in Transports, NEW i \in 1..Len(v[e][r])
                 PROVE  \/ i \in 1..Len(w[e][r]) /\ v[e][r][i] = w[e][r][i]
                        \/ e = Other(d) /\ r = t /\ i = Len(w[e][r]) + 1 /\ v[e][r][i] = m
      OBVIOUS
    <3>1. CASE e = Other(d) /\ r = t
      <4>1. v[e][r] = Append(w[e][r], m)
        BY <2>4, <3>1
      <4> QED BY <2>1, <3>1, <4>1
    <3>2. CASE ~(e = Other(d) /\ r = t)
      BY <2>4, <3>2
    <3> QED BY <3>1, <3>2
  <2> HIDE DEF v
  <2>6. \A e \in Devices, r \in Transports : \A i \in 1..Len(w[e][r]) :
           w[e][r][i] \in M => m \notin M
    BY InBoxDef DEF NoneIn
  <2> SUFFICES ASSUME NEW e \in Devices, NEW f \in Devices, NEW r \in Transports, NEW q \in Transports,
                      NEW i \in 1..Len(v[e][r]), NEW j \in 1..Len(v[f][q]),
                      v[e][r][i] \in M, v[f][q][j] \in M
               PROVE  e = f /\ r = q /\ i = j
    BY DEF One, v
  <2>7. CASE i \in 1..Len(w[e][r]) /\ v[e][r][i] = w[e][r][i]
    <3>1. w[e][r][i] \in M /\ m \notin M
      BY <2>6, <2>7
    <3>2. j \in 1..Len(w[f][q]) /\ v[f][q][j] = w[f][q][j]
      BY <2>5, <3>1
    <3> QED BY <2>7, <3>1, <3>2 DEF One
  <2>8. CASE e = Other(d) /\ r = t /\ i = Len(w[e][r]) + 1 /\ v[e][r][i] = m
    <3>1. ~(j \in 1..Len(w[f][q]) /\ v[f][q][j] = w[f][q][j])
      BY <2>6, <2>8
    <3>2. f = Other(d) /\ q = t /\ j = Len(w[f][q]) + 1
      BY <2>5, <3>1
    <3> QED BY <2>8, <3>2
  <2> QED BY <2>5, <2>7, <2>8
<1> QED BY <1>1, <1>2

\* The same for what is sent by preference, and for an answer.
LEMMA AnsweredOne ==
    ASSUME NEW w \in Wires, NEW d \in Devices, NEW t \in Transports, NEW m \in Message, NEW M,
           NEW v, v = Sent(w, d, m) \/ v = Answered(w, d, t, m) \/ v = w,
           One(w, M), m \in M => NoneIn(w, M)
    PROVE  One(v, M)
<1>1. CASE v = w
  BY <1>1
<1>2. CASE v = Sent(w, d, m)
  BY <1>2, RouteTyped, SentOne DEF Sent
<1>3. CASE v = Answered(w, d, t, m)
  BY <1>3, RouteTyped, Two, SentOne DEF Answered
<1> QED BY <1>1, <1>2, <1>3

\* What is taken was the only one.
LEMMA TakenOne ==
    ASSUME wire \in Wires, NEW d \in Devices, NEW t \in Transports, wire[d][t] # <<>>, NEW M,
           One(wire, M)
    PROVE  /\ One(Taken(d, t), M)
           /\ Head(wire[d][t]) \in M => NoneIn(Taken(d, t), M)
<1> DEFINE v == Taken(d, t)
           m == Head(wire[d][t])
<1>1. wire[d][t] \in Seq(Message)
  BY DEF Wires
<1>2. v = [wire EXCEPT ![d][t] = Tail(wire[d][t])]
  BY DEF Taken
<1>3. v \in Wires
  BY <1>1, <1>2 DEF Wires
<1>4. \A e \in Devices, r \in Transports :
         v[e][r] = IF e = d /\ r = t THEN Tail(wire[e][r]) ELSE wire[e][r]
  BY <1>2 DEF Wires
<1>5. \A e \in Devices, r \in Transports : \A i \in 1..Len(v[e][r]) :
         \/ e = d /\ r = t /\ i + 1 \in 1..Len(wire[e][r]) /\ v[e][r][i] = wire[e][r][i + 1]
         \/ ~(e = d /\ r = t) /\ i \in 1..Len(wire[e][r]) /\ v[e][r][i] = wire[e][r][i]
  <2> SUFFICES ASSUME NEW e \in Devices, NEW r \in Transports, NEW i \in 1..Len(v[e][r])
               PROVE  \/ /\ e = d /\ r = t /\ i + 1 \in 1..Len(wire[e][r])
                         /\ v[e][r][i] = wire[e][r][i + 1]
                      \/ ~(e = d /\ r = t) /\ i \in 1..Len(wire[e][r]) /\ v[e][r][i] = wire[e][r][i]
    OBVIOUS
  <2>1. CASE e = d /\ r = t
    <3>1. v[e][r] = Tail(wire[e][r])
      BY <1>4, <2>1
    <3> QED BY <1>1, <2>1, <3>1
  <2>2. CASE ~(e = d /\ r = t)
    BY <1>4, <2>2
  <2> QED BY <2>1, <2>2
<1>6. 1 \in 1..Len(wire[d][t]) /\ m = wire[d][t][1]
  BY <1>1
<1>7. \A e \in Devices, r \in Transports : Len(wire[e][r]) \in Nat
  BY DEF Wires
<1> HIDE DEF v, m
<1>8. \A e \in Devices, r \in Transports : \A i \in 1..Len(v[e][r]) :
         \E k \in 1..Len(wire[e][r]) : /\ v[e][r][i] = wire[e][r][k]
                                       /\ k = IF e = d /\ r = t THEN i + 1 ELSE i
  BY <1>5
<1>9. One(v, M)
  <2> SUFFICES ASSUME NEW e \in Devices, NEW f \in Devices, NEW r \in Transports, NEW q \in Transports,
                      NEW i \in 1..Len(v[e][r]), NEW j \in 1..Len(v[f][q]),
                      v[e][r][i] \in M, v[f][q][j] \in M
               PROVE  e = f /\ r = q /\ i = j
    BY DEF One
  <2>1. PICK k \in 1..Len(wire[e][r]) : /\ v[e][r][i] = wire[e][r][k]
                                        /\ k = IF e = d /\ r = t THEN i + 1 ELSE i
    BY <1>8
  <2>2. PICK l \in 1..Len(wire[f][q]) : /\ v[f][q][j] = wire[f][q][l]
                                        /\ l = IF f = d /\ q = t THEN j + 1 ELSE j
    BY <1>8
  <2>0. wire[e][r][k] \in M /\ wire[f][q][l] \in M
    BY <2>1, <2>2
  <2>3. e = f /\ r = q /\ k = l
    BY <2>0 DEF One
  <2> QED BY <2>1, <2>2, <2>3
<1>10. ASSUME m \in M, NEW e \in Devices, NEW x \in InBox(v, e), x \in M
       PROVE  FALSE
  <2>1. PICK r \in Transports : \E i \in 1..Len(v[e][r]) : x = v[e][r][i]
    BY <1>3, InBoxDef
  <2>2. PICK i \in 1..Len(v[e][r]) : x = v[e][r][i]
    BY <2>1
  <2>3. PICK k \in 1..Len(wire[e][r]) : /\ x = wire[e][r][k]
                                        /\ k = IF e = d /\ r = t THEN i + 1 ELSE i
    BY <1>8, <2>2
  <2>4. e = d /\ r = t /\ k = 1
    BY <1>6, <1>10, <2>3 DEF One
  <2> QED BY <2>3, <2>4
<1> QED BY <1>9, <1>10 DEF v, m, NoneIn

\* Losing leaves one at most.
LEMMA LostOne ==
    ASSUME wire \in Wires, NEW ts, NEW M, One(wire, M)
    PROVE  One(Lost(ts), M)
<1> DEFINE v == Lost(ts)
<1>1. \A e \in Devices, r \in Transports : v[e][r] = IF r \in ts THEN <<>> ELSE wire[e][r]
  BY DEF Lost
<1>2. \A e \in Devices, r \in Transports : \A i \in 1..Len(v[e][r]) :
         i \in 1..Len(wire[e][r]) /\ v[e][r][i] = wire[e][r][i]
  BY <1>1
<1> HIDE DEF v
<1>3. One(v, M)
  <2> SUFFICES ASSUME NEW e \in Devices, NEW f \in Devices, NEW r \in Transports, NEW q \in Transports,
                      NEW i \in 1..Len(v[e][r]), NEW j \in 1..Len(v[f][q]),
                      v[e][r][i] \in M, v[f][q][j] \in M
               PROVE  e = f /\ r = q /\ i = j
    BY DEF One
  <2>1. /\ i \in 1..Len(wire[e][r]) /\ wire[e][r][i] \in M
        /\ j \in 1..Len(wire[f][q]) /\ wire[f][q][j] \in M
    BY <1>2
  <2> QED BY <2>1 DEF One
<1> QED BY <1>3 DEF v

\* The request goes on if nothing new bears its name.
LEMMA OnceKept ==
    ASSUME AskedOnce, UploadsFit', asked' \in {asked, 0},
           One(wire, Named(asked)) => One(wire', Named(asked)),
           \A d \in Devices : \A m \in InBox(wire', d) : m \in InBox(wire, d) \/ m \notin Named(asked),
           \A x \in uploads' : x.caller # <<>> => \E u \in uploads : x.n = u.n /\ x.caller = u.caller
    PROVE  AskedOnce'
<1> SUFFICES ASSUME asked # 0, asked' = asked PROVE AskedOnce'
  BY DEF AskedOnce
<1>1. One(wire', Named(asked))
  BY DEF AskedOnce
<1>2. ASSUME NEW x \in uploads', MadeFor(x, asked)
      PROVE  \E u \in uploads : x.n = u.n /\ MadeFor(u, asked)
  BY <1>2 DEF MadeFor
<1>3. ASSUME NEW x \in uploads', MadeFor(x, asked), NEW d \in Devices, NEW m \in InBox(wire', d)
      PROVE  m \notin Named(asked)
  BY <1>2, <1>3 DEF AskedOnce
<1>4. ASSUME NEW x \in uploads', MadeFor(x, asked), NEW y \in uploads', MadeFor(y, asked)
      PROVE  x = y
  <2>1. PICK u \in uploads : x.n = u.n /\ MadeFor(u, asked)
    BY <1>2, <1>4
  <2>2. PICK v \in uploads : y.n = v.n /\ MadeFor(v, asked)
    BY <1>2, <1>4
  <2>3. u = v
    BY <2>1, <2>2 DEF AskedOnce
  <2> QED BY <2>1, <2>2, <2>3 DEF UploadsFit
<1>5. Named(asked') = Named(asked) /\ \A x : MadeFor(x, asked') = MadeFor(x, asked)
  OBVIOUS
<1> QED BY <1>1, <1>3, <1>4, <1>5 DEF AskedOnce

\* An upload that was made for the request answers it, and is gone.
LEMMA OnceAnswered ==
    ASSUME AskedOnce, UploadsFit', asked' = asked, NEW u \in uploads, u.caller # <<>>,
           uploads' = uploads \ {u}, NEW w \in Wires, NEW d \in Devices, NEW t \in Transports,
           NEW m \in Message, m.id = u.caller[1], wire' = Answered(w, d, t, m),
           \A e \in Devices : InBox(w, e) \subseteq InBox(wire, e),
           One(wire, Named(asked)) => One(w, Named(asked))
    PROVE  AskedOnce'
<1>1. Carries(wire', w, Other(d), m)
  BY SentWire
<1>2. CASE asked = 0 \/ m \notin Named(asked)
  <2>1. asked # 0 => (One(wire, Named(asked)) => One(wire', Named(asked)))
    BY <1>2, AnsweredOne
  <2>2. \A e \in Devices : \A x \in InBox(wire', e) : x \in InBox(wire, e) \/ x = m
    BY <1>1 DEF Carries
  <2> QED BY <1>2, <2>1, <2>2, OnceKept DEF AskedOnce
<1>3. CASE asked # 0 /\ m \in Named(asked)
  <2>1. MadeFor(u, asked)
    BY <1>3 DEF Named, MadeFor
  <2>2. NoneIn(wire, Named(asked)) /\ \A v \in uploads : MadeFor(v, asked) => u = v
    BY <1>3, <2>1 DEF AskedOnce, NoneIn
  <2>3. NoneIn(w, Named(asked)) /\ One(w, Named(asked))
    BY <1>3, <2>2 DEF NoneIn, AskedOnce
  <2>4. One(wire', Named(asked))
    BY <2>3, AnsweredOne
  <2>5. \A x \in uploads' : ~MadeFor(x, asked)
    BY <2>2
  <2>6. Named(asked') = Named(asked) /\ \A x : MadeFor(x, asked') = MadeFor(x, asked)
    OBVIOUS
  <2> QED BY <2>4, <2>5, <2>6 DEF AskedOnce
<1> QED BY <1>2, <1>3


(*** uploads, sessions and the request of the run go on ***)

Going == GoesOn /\ PutsGoOn /\ FilesGoOn /\ AskedOnce'

\* As long as the files stay.
LEMMA FilesStay ==
    ASSUME Core, UNCHANGED fs
    PROVE  FilesGoOn
<1>1. 0 \in Sizes
  BY DEF Sizes
<1>2. \A d \in Devices, p \in Paths : fs'[d][p] # None => SizeSaid(fs'[d][p].data, fs'[d][p].size)
  BY DEF SizeSaid
<1> QED BY <1>1, <1>2 DEF FilesGoOn

\* Uploads and sessions that stay or go.
LEMMA FewerGo ==
    ASSUME uploads' \subseteq uploads, sessions' \subseteq sessions
    PROVE  UploadsGoOn /\ SessionsGoOn /\ PutsGoOn
<1>1. \A u \in uploads : Continues(u, u)
  BY DEF Continues, Same
<1>2. \A s \in sessions : HeldOn(s, s)
  BY DEF HeldOn, Queued
<1> QED BY <1>1, <1>2 DEF UploadsGoOn, SessionsGoOn, PutsGoOn

\* What a new message must not be.
Apart(m) == ~Is(m, "start") /\ ~Is(m, "finish") /\ m \notin Named(asked)

\* Messages that concern neither uploads nor the request.
LEMMA FewerMailGo ==
    ASSUME Core, UploadsFit', AskedOnce, UNCHANGED <<fs, asked>>,
           uploads' \subseteq uploads, sessions' \subseteq sessions,
           One(wire, Named(asked)) => One(wire', Named(asked)),
           \A d \in Devices : \A m \in InBox(wire', d) : m \in InBox(wire, d) \/ Apart(m)
    PROVE  Going
<1>1. MailGoesOn
  BY DEF MailGoesOn, Apart
<1>2. AskedOnce'
  BY OnceKept DEF Apart
<1> QED BY <1>1, <1>2, FewerGo, FilesStay DEF Going, GoesOn

\* An upload that goes on.
LEMMA BecameGoes ==
    ASSUME Core, UploadsFit', AskedOnce, UNCHANGED <<fs, sessions, asked>>,
           NEW u \in uploads, NEW v, Became(u, v), Continues(v, u), v.put = u.put,
           One(wire, Named(asked)) => One(wire', Named(asked)),
           \A d \in Devices : \A m \in InBox(wire', d) :
               m \in InBox(wire, d) \/ Apart(m)
               \/ (m \notin Named(asked) /\ (Opens(u, d, m) \/ Closes(u, d, m)))
    PROVE  Going
<1>1. \A x \in uploads' : x \in uploads \/ x = v
  BY DEF Became
<1>2. UploadsGoOn /\ PutsGoOn
  BY <1>1 DEF UploadsGoOn, PutsGoOn, Continues, Same
<1>3. SessionsGoOn
  BY DEF SessionsGoOn, HeldOn, Queued
<1>4. MailGoesOn
  BY DEF MailGoesOn, Apart
<1>5. \A x \in uploads' : x.caller # <<>> => \E y \in uploads : x.n = y.n /\ x.caller = y.caller
  BY <1>1 DEF Continues, Same
<1>6. AskedOnce'
  BY <1>5, OnceKept DEF Apart
<1> QED BY <1>2, <1>3, <1>4, <1>6, FilesStay DEF Going, GoesOn

\* An upload that ends.
LEMMA EndedGoes ==
    ASSUME Core, UploadsFit', AskedOnce, UNCHANGED <<fs, sessions, asked>>,
           NEW u \in uploads, NEW ok \in BOOLEAN, NEW w \in Wires,
           \A e \in Devices : InBox(w, e) \subseteq InBox(wire, e),
           One(wire, Named(asked)) => One(w, Named(asked)), Ended(u, ok, w)
    PROVE  Going
<1>1. uploads' = uploads \ {u} /\ u \in Upload
  BY DEF Ended, Core, Local, TransferTyped
<1>2. CASE u.caller = <<>>
  <2>1. wire' = w
    BY <1>2 DEF Ended
  <2> QED BY <1>1, <2>1, FewerMailGo
<1>3. CASE u.caller # <<>>
  <2> DEFINE m == [answer |-> "send", id |-> u.caller[1], ok |-> ok, sum |-> u.expect]
  <2>1. wire' = Answered(w, u.at, u.caller[2], m)
    BY <1>3 DEF Ended
  <2>2. u.at \in Devices /\ u.caller[1] \in CallIds /\ u.caller[2] \in Transports
    BY <1>1, <1>3 DEF Upload, Callers
  <2>3. m \in Message /\ m.id = u.caller[1] /\ IsAnswer(m)
    BY <1>1, <2>2, OutcomeTyped DEF Upload, IsAnswer
  <2> HIDE DEF m
  <2>0. w \in Wires /\ m \in Message
    BY <2>3
  <2>4. \A e \in Devices : \A x \in InBox(wire', e) : x \in InBox(w, e) \/ x = m
    <3>1. Carries(wire', w, Other(u.at), m)
      BY ONLY <2>0, <2>1, <2>2, SentWire
    <3> QED BY <3>1 DEF Carries
  <2>5. MailGoesOn
    BY <2>3, <2>4 DEF MailGoesOn, Is
  <2>6. AskedOnce'
    BY <1>1, <1>3, <2>1, <2>2, <2>3, OnceAnswered
  <2> QED BY <1>1, <2>5, <2>6, FewerGo, FilesStay DEF Going, GoesOn
<1> QED BY <1>2, <1>3

\* An upload that fails.
LEMMA FailedGoes ==
    ASSUME Core, UploadsFit', AskedOnce, UNCHANGED <<fs, sessions, asked>>,
           NEW u \in uploads, NEW w \in Wires,
           \A e \in Devices : InBox(w, e) \subseteq InBox(wire, e),
           One(wire, Named(asked)) => One(w, Named(asked)), Failed(u, w)
    PROVE  Going
<1>1. CASE u.stage \in {"send", "finish"}
  <2> DEFINE v == [u EXCEPT !.stage = "abort", !.call = 0]
  <2>1. Became(u, v) /\ wire' = w
    BY <1>1 DEF Failed
  <2>2. u \in Upload
    BY DEF Core, Local, TransferTyped
  <2>3. Continues(v, u) /\ v.put = u.put
    BY <2>2 DEF Upload, Continues, Same, Closed
  <2> HIDE DEF v
  <2> QED BY <2>1, <2>3, BecameGoes
<1>2. CASE u.stage \notin {"send", "finish"}
  <2>1. Ended(u, FALSE, w)
    BY <1>2 DEF Failed
  <2> QED BY <2>1, EndedGoes
<1> QED BY <1>1, <1>2

\* The steps of an upload.
LEMMA UploadGoes ==
    ASSUME RemoteTypeOK, Core, UploadsFit', AskedOnce, NEW u \in uploads,
           Hash(u) \/ Requests(u) \/ SendsChunk(u) \/ TimesOut(u)
    PROVE  Going
<1>1. /\ u \in Upload /\ FALSE \in BOOLEAN /\ wire \in Wires
      /\ fs \in [Devices -> [Paths -> Entry \cup {None}]]
  BY DEF Core, Local, TransferTyped
<1>2. UNCHANGED <<fs, sessions, asked>>
  BY DEF Hash, Requests, SendsChunk, TimesOut
<1>3. CASE Failed(u, wire)
  BY <1>1, <1>2, <1>3, FailedGoes
<1>4. CASE Hash(u)
  <2> DEFINE e == fs[u.at][u.path]
  <2>2. CASE e = None
    <3>1. Ended(u, FALSE, wire)
      BY <1>4, <2>2 DEF Hash
    <3> QED BY <1>1, <1>2, <3>1, EndedGoes
  <2>3. CASE e # None
    <3> DEFINE data == e.data
               size == e.size
               v == [u EXCEPT !.expect = data, !.size = size, !.stage = "start"]
    <3>1. Became(u, v) /\ UNCHANGED wire /\ u.stage = "hash"
      BY <1>4, <2>3 DEF Hash
    <3> HIDE DEF data, size
    <3>2. Same(v, u) /\ v.put = u.put /\ v.expect = data /\ v.size = size
      BY <1>1 DEF Upload, Same
    <3>3. Reads(v, e) /\ ~Closed(u)
      BY <2>3, <3>1, <3>2 DEF Reads, data, size, Closed
    <3> HIDE DEF v
    <3>4. Continues(v, u)
      BY <3>2, <3>3 DEF Continues
    <3> QED BY <1>2, <3>1, <3>2, <3>4, BecameGoes
  <2> QED BY <2>2, <2>3
<1>5. CASE Requests(u) /\ ~Failed(u, wire)
  <2>1. PICK id \in FreshCalls : /\ Became(u, [u EXCEPT !.call = id])
                                 /\ wire' = Sent(wire, u.at, StageRequest(u, id))
                                 /\ u.stage \in {"start", "finish", "abort"} /\ u.call = 0
    BY <1>5 DEF Requests
  <2> DEFINE v == [u EXCEPT !.call = id]
             m == StageRequest(u, id)
  <2>2. Continues(v, u) /\ v.put = u.put
    BY <1>1, <2>1 DEF Upload, Continues, Same, Closed
  <2>3. id \in CallIds /\ asked # id
    BY FreshCall
  <2>4. m \in Message /\ m.id = id /\ Is(m, u.stage) /\ u.at \in Devices
        /\ \A op \in {"start", "chunk", "finish", "abort"} : Is(m, op) <=> u.stage = op
    BY <1>1, <2>1, <2>3, RequestForms DEF Upload
  <2>5. m \notin Named(asked)
    BY <2>3, <2>4 DEF Named
  <2>6. Apart(m) \/ Opens(u, Other(u.at), m) \/ Closes(u, Other(u.at), m)
    <3>1. CASE u.stage = "start"
      BY <2>4, <3>1 DEF Opens, StageRequest
    <3>2. CASE u.stage = "finish"
      BY <2>1, <2>4, <3>2 DEF Closes, StageRequest
    <3>3. CASE u.stage = "abort"
      BY <2>4, <2>5, <3>3 DEF Apart
    <3> QED BY <2>1, <3>1, <3>2, <3>3
  <2>7. Became(u, v) /\ wire' = Sent(wire, u.at, m)
    BY <2>1
  <2> HIDE DEF v, m
  <2>8. Carries(wire', wire, Other(u.at), m) /\ (One(wire, Named(asked)) => One(wire', Named(asked)))
    BY <1>1, <2>4, <2>5, <2>7, SentWire, AnsweredOne, RouteTyped
  <2>9. \A d \in Devices : \A x \in InBox(wire', d) :
           x \in InBox(wire, d) \/ Apart(x) \/ (x \notin Named(asked) /\ (Opens(u, d, x) \/ Closes(u, d, x)))
    BY <2>5, <2>6, <2>8 DEF Carries
  <2> QED BY <1>2, <2>2, <2>7, <2>8, <2>9, BecameGoes
<1>6. CASE SendsChunk(u) /\ ~Failed(u, wire)
  <2> DEFINE seq == u.seq + 1
             stage == IF u.seq + 1 < Chunks(u) THEN u.stage ELSE "finish"
             v == [u EXCEPT !.seq = seq, !.stage = stage]
             m == [op |-> "chunk", session |-> u.session,
                   write |-> [seq |-> u.seq, chunk |-> u.chunk]]
  <2>1. Became(u, v) /\ u.stage = "send" /\ wire' = Sent(wire, u.at, m)
    BY <1>6 DEF SendsChunk
  <2> HIDE DEF seq, stage
  <2>2. Continues(v, u) /\ v.put = u.put
    BY <1>1, <2>1 DEF Upload, Continues, Same, Closed
  <2>3. m \in Message /\ u.at \in Devices
    BY <1>1 DEF Message, TransferMessage, Upload, Write
  <2>4. Apart(m)
    BY DEF Apart, Is, IsAnswer, Named
  <2> HIDE DEF v, m
  <2>5. Carries(wire', wire, Other(u.at), m) /\ (One(wire, Named(asked)) => One(wire', Named(asked)))
    BY <1>1, <2>1, <2>3, <2>4, SentWire, AnsweredOne, RouteTyped DEF Apart
  <2>6. \A d \in Devices : \A x \in InBox(wire', d) : x \in InBox(wire, d) \/ Apart(x)
    BY <2>4, <2>5 DEF Carries
  <2> QED BY <1>2, <2>1, <2>2, <2>5, <2>6, BecameGoes
<1> QED BY <1>3, <1>4, <1>5, <1>6 DEF TimesOut

\* An upload hears an answer.
LEMMA HearingGoes ==
    ASSUME RemoteTypeOK, Core, UploadsFit', AskedOnce, NEW d \in Devices, NEW t \in Transports,
           wire[d][t] # <<>>, TransferAnswered(d, t)
    PROVE  Going
<1> DEFINE m == Head(wire[d][t])
           w == Taken(d, t)
<1>1. /\ UNCHANGED <<fs, sessions, asked>>
      /\ \/ \E u \in uploads : Hears(u, m.ok, m.next, w)
         \/ UNCHANGED uploads /\ wire' = w
  BY DEF TransferAnswered
<1>2. m \in InBox(wire, d) /\ m \in Message /\ w \in Wires
      /\ \A e \in Devices : InBox(w, e) \subseteq InBox(wire, e)
  BY TakenWire DEF Core, Local, TransferTyped
<1>3. IsAnswer(m) /\ m.answer = "transfer"
  BY DEF TransferAnswered
<1>4. One(wire, Named(asked)) => One(w, Named(asked))
  BY TakenOne DEF Core, Local, TransferTyped
<1> HIDE DEF m, w
<1>5. CASE UNCHANGED uploads /\ wire' = w
  BY <1>1, <1>2, <1>4, <1>5, FewerMailGo
<1>6. ASSUME NEW u \in uploads, Hears(u, m.ok, m.next, w)
      PROVE  Going
  <2>1. u \in Upload
    BY DEF Core, Local, TransferTyped
  <2>2. CASE u.stage = "start" /\ m.ok
    <3> DEFINE stage == IF m.next < Chunks(u) THEN "send" ELSE "finish"
               seq == m.next
               v == [u EXCEPT !.seq = seq, !.call = 0, !.stage = stage]
    <3>1. Became(u, v) /\ wire' = w
      BY <1>6, <2>2 DEF Hears
    <3> HIDE DEF stage, seq
    <3>2. Continues(v, u) /\ v.put = u.put
      BY <2>1, <2>2 DEF Upload, Continues, Same, Closed
    <3> HIDE DEF v
    <3> QED BY <1>1, <1>2, <1>4, <3>1, <3>2, BecameGoes
  <2>3. CASE u.stage = "finish" /\ m.ok
    <3>1. Ended(u, TRUE, w)
      BY <1>6, <2>3 DEF Hears
    <3> QED BY <1>1, <1>2, <1>4, <3>1, EndedGoes
  <2>4. CASE ~(u.stage = "start" /\ m.ok) /\ ~(u.stage = "finish" /\ m.ok)
    <3>1. Failed(u, w)
      BY <1>6, <2>4 DEF Hears
    <3> QED BY <1>1, <1>2, <1>4, <3>1, FailedGoes
  <2> QED BY <2>2, <2>3, <2>4
<1> QED BY <1>1, <1>5, <1>6


\* Uploads that stay.
LEMMA UploadsStay ==
    ASSUME uploads' = uploads
    PROVE  UploadsGoOn /\ PutsGoOn
<1>1. \A u \in uploads : Continues(u, u)
  BY DEF Continues, Same
<1> QED BY <1>1 DEF UploadsGoOn, PutsGoOn

\* A session that becomes another, which holds no other finish.
LEMMA ReplacedGoes ==
    ASSUME NEW s, NEW z, sessions' = (sessions \ {s}) \cup {z}, HeldOn(z, s), s \in sessions
    PROVE  SessionsGoOn
BY DEF SessionsGoOn, HeldOn, Queued

\* The steps of the receiver.
LEMMA ReceiverGoes ==
    ASSUME Core, UploadsFit', AskedOnce, NEW d \in Devices, NEW t \in Transports,
           wire[d][t] # <<>>, TransferHandled(d, t)
    PROVE  Going
<1> DEFINE m == Head(wire[d][t])
           w == Taken(d, t)
<1>1. UNCHANGED <<fs, uploads, asked>> /\ ~IsAnswer(m)
  BY DEF TransferHandled
<1>2. m \in InBox(wire, d) /\ m \in Message /\ w \in Wires
      /\ \A e \in Devices : InBox(w, e) \subseteq InBox(wire, e)
  BY TakenWire DEF Core, Local, TransferTyped
<1>3. One(wire, Named(asked)) => One(w, Named(asked))
  BY TakenOne DEF Core, Local, TransferTyped
<1>4. \/ HandleStart(d, t, m) \/ HandleChunk(d, t, m)
      \/ HandleFinish(d, t, m) \/ HandleAbort(d, t, m)
  BY DEF TransferHandled
<1> HIDE DEF m
<1>5. \A s \in sessions : /\ Len(s.got) \in 0..2 /\ s \in Session
                          /\ s.queue \in Seq(Write \cup Finish) /\ s.at \in Devices
  <2> SUFFICES ASSUME NEW s \in sessions
               PROVE  Len(s.got) \in 0..2 /\ s \in Session /\ s.queue \in Seq(Write \cup Finish) /\ s.at \in Devices
    OBVIOUS
  <2>1. s \in Session /\ SessionFits(s)
    BY DEF Core, Local, TransferTyped, TransferInv, SessionsFit
  <2>2. s.got \in Seq(Write) /\ s.queue \in Seq(Write \cup Finish) /\ s.at \in Devices
    BY <2>1 DEF Session
  <2>3. Len(s.got) <= 2 /\ Len(s.got) \in Nat
    BY <2>1, <2>2 DEF SessionFits
  <2>0. \A k \in Nat : k <= 2 => k \in 0..2
    OBVIOUS
  <2>4. Len(s.got) \in 0..2
    BY <2>0, <2>3
  <2> QED BY <2>1, <2>2, <2>4
<1>6. \/ wire' = w
      \/ /\ Is(m, "start") \/ Is(m, "finish") \/ Is(m, "abort")
         /\ \E ok \in BOOLEAN, n \in 0..2 : wire' = Answered(w, d, t, TransferAnswer(m.id, ok, n))
  <2>0. w = Taken(d, t) /\ TRUE \in BOOLEAN /\ FALSE \in BOOLEAN /\ 0 \in 0..2
    OBVIOUS
  <2> HIDE DEF w
  <2>1. CASE HandleStart(d, t, m)
    <3>1. Is(m, "start")
      BY <1>1, <2>1 DEF HandleStart, Is
    <3>2. \/ \E s \in sessions : wire' = Answered(w, d, t, TransferAnswer(m.id, TRUE, Len(s.got)))
          \/ wire' = Answered(w, d, t, TransferAnswer(m.id, TRUE, 0))
      BY <2>0, <2>1 DEF HandleStart, SessionOf
    <3> QED BY <1>5, <2>0, <3>1, <3>2
  <2>2. CASE HandleChunk(d, t, m)
    BY <2>0, <2>2 DEF HandleChunk
  <2>3. CASE HandleFinish(d, t, m)
    <3>1. Is(m, "finish")
      BY <1>1, <2>3 DEF HandleFinish, Is
    <3>2. wire' = w \/ wire' = Answered(w, d, t, TransferAnswer(m.id, FALSE, 0))
      BY <2>0, <2>3 DEF HandleFinish
    <3> QED BY <2>0, <3>1, <3>2
  <2>4. CASE HandleAbort(d, t, m)
    <3>1. Is(m, "abort")
      BY <1>1, <2>4 DEF HandleAbort, Is
    <3>2. wire' = Answered(w, d, t, TransferAnswer(m.id, TRUE, 0))
      BY <2>0, <2>4 DEF HandleAbort
    <3> QED BY <2>0, <3>1, <3>2
  <2> QED BY <1>4, <2>1, <2>2, <2>3, <2>4
<1> HIDE DEF w
<1>7. /\ \A e \in Devices : \A x \in InBox(wire', e) : x \in InBox(wire, e) \/ Apart(x)
      /\ One(wire, Named(asked)) => One(wire', Named(asked))
  <2>1. CASE wire' = w
    BY <1>2, <1>3, <2>1
  <2>2. ASSUME Is(m, "start") \/ Is(m, "finish") \/ Is(m, "abort"), NEW ok \in BOOLEAN, NEW n \in 0..2,
               wire' = Answered(w, d, t, TransferAnswer(m.id, ok, n))
        PROVE  /\ \A e \in Devices : \A x \in InBox(wire', e) : x \in InBox(wire, e) \/ Apart(x)
               /\ One(wire, Named(asked)) => One(wire', Named(asked))
    <3> DEFINE a == TransferAnswer(m.id, ok, n)
    <3>1. m.id \in CallIds /\ m.id # asked
      BY <1>2, <2>2, NotAsked DEF Core
    <3>2. a \in Message /\ a.id = m.id /\ ~Is(a, "start") /\ ~Is(a, "finish")
      BY <3>1, AnswerForm
    <3>3. wire' = Answered(w, d, t, a)
      BY <2>2
    <3> HIDE DEF a
    <3>4. Apart(a) /\ a \notin Named(asked)
      BY <3>1, <3>2 DEF Apart, Named
    <3>5. Carries(wire', w, Other(d), a)
      BY <1>2, <3>2, <3>3, SentWire
    <3>6. One(w, Named(asked)) => One(wire', Named(asked))
      BY <1>2, <3>2, <3>3, <3>4, AnsweredOne
    <3> QED BY <1>2, <1>3, <3>4, <3>5, <3>6 DEF Carries
  <2> QED BY <1>6, <2>1, <2>2
<1>8. SessionsGoOn
  <2>1. CASE sessions' \subseteq sessions
    BY <2>1 DEF SessionsGoOn, HeldOn, Queued
  <2>2. CASE HandleStart(d, t, m) /\ sessions' = (sessions \ SessionOf(d, m.session)) \cup {NewSession(d, m)}
    <3>1. OpenedBy2(NewSession(d, m))
      BY <1>1, <1>2, <2>2 DEF OpenedBy2, NewSession, HandleStart, Is
    <3> QED BY <2>2, <3>1 DEF SessionsGoOn, HeldOn, Queued
  <2>3. ASSUME NEW s \in sessions, NEW x \in Write \cup Finish,
               Replaced(s, [s EXCEPT !.queue = Append(@, x)]), s.at = d, s.id = m.session,
               IsFinish(x) => Is(m, "finish") /\ x.n = m.n /\ x.expect = m.expect /\ x.size = m.size
        PROVE  SessionsGoOn
    <3> DEFINE q == Append(s.queue, x)
               z == [s EXCEPT !.queue = q]
    <3>1. sessions' = (sessions \ {s}) \cup {z}
      BY <2>3 DEF Replaced
    <3>2. \A i \in 1..Len(q) : \/ i \in 1..Len(s.queue) /\ q[i] = s.queue[i]
                               \/ q[i] = x
      BY <1>5
    <3> HIDE DEF q
    <3>3. z.at = s.at /\ z.id = s.id /\ z.path = s.path /\ z.meta = s.meta /\ z.queue = q
          /\ z.applied = s.applied
      BY <1>5 DEF Session
    <3> HIDE DEF z
    <3>4. ASSUME NEW i \in 1..Len(z.queue), IsFinish(z.queue[i])
          PROVE  (\E j \in 1..Len(s.queue) : Queued(z, i, s, j)) \/ CameIn(z.queue[i], z)
      <4>1. CASE i \in 1..Len(s.queue) /\ q[i] = s.queue[i]
        BY <3>3, <4>1 DEF Queued, Pending
      <4>2. CASE q[i] = x
        BY <1>2, <2>3, <3>3, <3>4, <4>2 DEF CameIn
      <4> QED BY <3>2, <3>3, <4>1, <4>2
    <3>5. HeldOn(z, s)
      BY <3>3, <3>4 DEF HeldOn
    <3> QED BY <3>1, <3>5, ReplacedGoes
  <2>4. CASE HandleChunk(d, t, m)
    <3>1. Is(m, "chunk")
      BY <1>1, <2>4 DEF HandleChunk, Is
    <3>2. m.write \in Write /\ ~IsFinish(m.write)
      BY <1>2, <3>1, MessageTypes, ItemKinds
    <3> QED BY <2>1, <2>3, <2>4, <3>2 DEF HandleChunk, SessionOf
  <2>5. CASE HandleFinish(d, t, m)
    <3> DEFINE f == [finish |-> t, id |-> m.id, n |-> m.n, expect |-> m.expect, size |-> m.size]
    <3>1. Is(m, "finish")
      BY <1>1, <2>5 DEF HandleFinish, Is
    <3>2. f \in Finish
      BY <1>2, <3>1, MessageTypes DEF Finish
    <3>3. \/ sessions' = sessions
          \/ \E s \in SessionOf(d, m.session) : Replaced(s, [s EXCEPT !.queue = Append(@, f)])
      BY <2>5 DEF HandleFinish
    <3>4. f.n = m.n /\ f.expect = m.expect /\ f.size = m.size
      OBVIOUS
    <3> HIDE DEF f
    <3> QED BY <2>1, <2>3, <3>1, <3>2, <3>3, <3>4 DEF SessionOf
  <2>6. CASE HandleAbort(d, t, m)
    BY <2>1, <2>6 DEF HandleAbort
  <2> QED BY <1>4, <2>1, <2>2, <2>4, <2>5, <2>6 DEF HandleStart
<1>9. MailGoesOn
  BY <1>7 DEF MailGoesOn, Apart
<1>10. AskedOnce'
  BY <1>1, <1>7, OnceKept DEF Apart
<1> QED BY <1>1, <1>8, <1>9, <1>10, UploadsStay, FilesStay DEF Going, GoesOn

\* A chunk is written; a session ends, or is swept.
LEMMA SessionGoes ==
    ASSUME Core, UploadsFit', AskedOnce, NEW s \in sessions, WriteChunk(s) \/ FinishEnds(s) \/ Sweep(s)
    PROVE  Going
<1>1. s \in Session /\ s.queue \in Seq(Write \cup Finish) /\ s.at \in Devices /\ wire \in Wires
      /\ UNCHANGED <<fs, uploads, asked>>
  BY DEF Core, Local, TransferTyped, Session, WriteChunk, FinishEnds, Sweep
<1>2. CASE WriteChunk(s)
  <2> DEFINE h == Head(s.queue)
             q == Tail(s.queue)
             g == IF InSequence(s, h) THEN Append(s.got, h) ELSE s.got
             e == IF InSequence(s, h) THEN s.writeError ELSE TRUE
             z == IF InSequence(s, h) THEN [s EXCEPT !.got = Append(s.got, h), !.queue = q]
                  ELSE [s EXCEPT !.writeError = TRUE, !.queue = q]
  <2>1. sessions' = (sessions \ {s}) \cup {z} /\ UNCHANGED wire /\ s.queue # <<>>
    BY <1>2 DEF WriteChunk, Replaced, Writing
  <2>2. \A i \in 1..Len(q) : i + 1 \in 1..Len(s.queue) /\ q[i] = s.queue[i + 1] /\ i + 1 > 1
    BY <1>1, <2>1, Rest
  <2> HIDE DEF h, q
  <2>3. z.at = s.at /\ z.id = s.id /\ z.path = s.path /\ z.meta = s.meta /\ z.queue = q
    BY <1>1 DEF Session
  <2> HIDE DEF z
  <2>4. ASSUME NEW i \in 1..Len(z.queue), IsFinish(z.queue[i])
        PROVE  \E j \in 1..Len(s.queue) : Queued(z, i, s, j)
    <3>1. Queued(z, i, s, i + 1)
      BY <2>2, <2>3, <2>4 DEF Queued, Pending
    <3> QED BY <2>2, <2>3, <3>1
  <2>5. HeldOn(z, s)
    BY <2>3, <2>4 DEF HeldOn
  <2>6. SessionsGoOn
    BY <2>1, <2>5, ReplacedGoes
  <2>7. MailGoesOn /\ AskedOnce'
    BY <1>1, <2>1, OnceKept DEF MailGoesOn
  <2> QED BY <1>1, <2>6, <2>7, UploadsStay, FilesStay DEF Going, GoesOn
<1>3. CASE Sweep(s)
  BY <1>1, <1>3, FewerMailGo DEF Sweep
<1>4. CASE FinishEnds(s)
  <2> DEFINE f == Head(s.queue)
             ok == s.applied = "ok"
             a == TransferAnswer(f.id, ok, 0)
  <2>1. /\ IsFinish(f) /\ s.queue # <<>> /\ sessions' \subseteq sessions
        /\ wire' = Answered(wire, s.at, f.finish, a)
    BY <1>4 DEF FinishEnds, Finishing, IsFinish
  <2>2. f \in Write \cup Finish /\ f = s.queue[1] /\ 1 \in 1..Len(s.queue)
    BY <1>1, <2>1, Rest
  <2>3. f \in Finish
    BY <2>1, <2>2, ItemKinds
  <2>4. f.id \in CallIds /\ f.finish \in Transports /\ ok \in BOOLEAN /\ 0 \in 0..2
    BY <2>3 DEF Finish
  <2>5. f.id # asked
    BY <2>1, <2>2, QueueIdTyped DEF Core
  <2>6. a \in Message /\ a.id = f.id /\ ~Is(a, "start") /\ ~Is(a, "finish")
    BY <2>4, AnswerForm
  <2> HIDE DEF f, ok, a
  <2>7. Apart(a) /\ a \notin Named(asked)
    BY <2>5, <2>6 DEF Apart, Named
  <2>8. Carries(wire', wire, Other(s.at), a)
    BY <1>1, <2>1, <2>4, <2>6, SentWire
  <2>9. One(wire, Named(asked)) => One(wire', Named(asked))
    BY <1>1, <2>1, <2>4, <2>6, <2>7, AnsweredOne
  <2>10. \A d \in Devices : \A x \in InBox(wire', d) : x \in InBox(wire, d) \/ Apart(x)
    BY <2>7, <2>8 DEF Carries
  <2> QED BY <1>1, <2>1, <2>9, <2>10, FewerMailGo
<1> QED BY <1>2, <1>3, <1>4


\* What a finish puts is what it announces, or a torn file.
LEMMA PutsSaid ==
    ASSUME NEW s \in Session, NEW f \in Finish, NEW put, put = Put(s, f), put # "no",
           NEW e, e = Result(s, f, put)
    PROVE  e.data = Torn \/ (e.data = f.expect /\ e.size = f.size)
<1>1. put \in {"whole", "damaged"} /\ (put = "whole" /\ s.kind = "full" => Whole(s, f))
      /\ s.kind \in {"full", "delta"}
  BY DEF Put, Session
<1>2. e.data = (IF put = "damaged" THEN Torn ELSE f.expect)
      /\ e.size = (IF s.kind = "full" THEN Len(s.got) ELSE f.size)
  BY DEF Result
<1>3. Whole(s, f) => Len(s.got) = f.size
  <2>1. f.size \in Nat
    BY DEF Finish, Sizes
  <2>2. ASSUME Whole(s, f) PROVE Len(s.got) = f.size
    <3> DEFINE w(i) == [seq |-> i - 1, chunk |-> [data |-> f.expect, basis |-> None]]
    <3>1. s.got = [i \in 1..f.size |-> w(i)]
      BY <2>2 DEF Whole
    <3> HIDE DEF w
    <3>2. DOMAIN s.got = 1..f.size /\ s.got \in Seq(Write)
      BY <3>1 DEF Session
    <3>3. Len(s.got) \in Nat /\ DOMAIN s.got = 1..Len(s.got)
      BY <3>2
    <3> QED BY <2>1, <3>2, <3>3
  <2> QED BY <2>2
<1> QED BY <1>1, <1>2, <1>3

\* A finish takes effect.
LEMMA ApplyGoes ==
    ASSUME RemoteTypeOK, Core, UploadsFit', AskedOnce, NEW s \in sessions, Apply(s)
    PROVE  Going
<1> DEFINE f == Head(s.queue)
           put == Put(s, f)
           e == Result(s, f, put)
           z == [s EXCEPT !.applied = IF put = "whole" THEN "ok" ELSE "error"]
<1>1. /\ s \in Session /\ SessionFits(s) /\ s.queue # <<>> /\ IsFinish(f)
      /\ UNCHANGED <<asked, wire>> /\ s.applied = "no"
      /\ uploads' = {IF u.n = f.n /\ put # "no" THEN [u EXCEPT !.put = put] ELSE u : u \in uploads}
      /\ fs' = IF put = "no" THEN fs ELSE [fs EXCEPT ![s.at][s.path] = e]
      /\ sessions' = (sessions \ {s}) \cup {z}
  BY DEF Core, Local, TransferTyped, TransferInv, SessionsFit, Apply, Finishing, IsFinish, Replaced
<1>2. s.queue \in Seq(Write \cup Finish) /\ s.at \in Devices /\ s.path \in Paths
  BY <1>1 DEF Session
<1>3. f = s.queue[1] /\ f \in Write \cup Finish /\ 1 \in 1..Len(s.queue)
  <2>1. Head(s.queue) = s.queue[1] /\ Len(s.queue) \in Nat /\ Len(s.queue) > 0
        /\ Head(s.queue) \in Write \cup Finish
    BY <1>1, <1>2, Rest
  <2>2. 1 \in 1..Len(s.queue)
    BY <2>1
  <2> HIDE DEF put, e, z
  <2> QED BY <2>1, <2>2
<1>4. z.at = s.at /\ z.id = s.id /\ z.path = s.path /\ z.meta = s.meta /\ z.queue = s.queue
      /\ z.applied \in {"ok", "error"}
  BY <1>1 DEF Session
<1>5. f \in Finish
  BY <1>1, <1>3, ItemKinds
<1>6. put # "no" => e.data = Torn \/ (e.data = f.expect /\ e.size = f.size)
  BY <1>1, <1>5, PutsSaid
<1> HIDE DEF f, put, e, z
<1>7. /\ FinishFits(s.at, s.id, f) /\ NoneOnWire(f.n)
      /\ \A y \in sessions : \A i \in 1..Len(y.queue) :
             IsFinish(y.queue[i]) /\ y.queue[i].n = f.n => y = s /\ i = 1
  BY <1>1, <1>3 DEF Core, Local, TransferInv, FinishesFit, OneFinish, OneQueued
<1>8. ASSUME NEW x \in uploads'
      PROVE  \E u \in uploads : Continues(x, u) /\ (x.put = u.put \/ (u.n = f.n /\ x.n = f.n /\ Closed(x)))
  <2>1. PICK u \in uploads : x = IF u.n = f.n /\ put # "no" THEN [u EXCEPT !.put = put] ELSE u
    BY <1>1, <1>8
  <2>2. u \in Upload
    BY DEF Core, Local, TransferTyped
  <2>3. CASE u.n = f.n /\ put # "no"
    <3>1. x = [u EXCEPT !.put = put]
      BY <2>1, <2>3
    <3>2. Same(x, u) /\ x.expect = u.expect /\ x.size = u.size /\ x.stage = u.stage /\ x.call = u.call
      BY <2>2, <3>1 DEF Upload, Same
    <3>3. Closed(u)
      BY <1>7, <2>3 DEF FinishFits, Closed
    <3> QED BY <2>3, <3>2, <3>3 DEF Continues, Closed, Same
  <2>4. CASE ~(u.n = f.n /\ put # "no")
    BY <2>1, <2>4 DEF Continues, Same
  <2> QED BY <2>3, <2>4
<1>9. ASSUME NEW p \in Paths PROVE ~MayPut(f.n, p)'
  <2>1. ~ \E d \in Devices : \E m \in InBox(wire', d) : Is(m, "finish") /\ m.n = f.n
    BY <1>1, <1>7 DEF NoneOnWire
  <2>2. ASSUME NEW y \in sessions', NEW i \in 1..Len(y.queue), Pending(y, i), y.queue[i].n = f.n
        PROVE  FALSE
    <3>1. IsFinish(y.queue[i]) /\ (i > 1 \/ y.applied = "no")
      BY <2>2 DEF Pending
    <3>2. CASE y = z
      BY <1>4, <1>7, <2>2, <3>1, <3>2
    <3>3. CASE y \in sessions /\ y # s
      BY <1>7, <2>2, <3>1, <3>3
    <3> QED BY <1>1, <3>2, <3>3
  <2> QED BY <2>1, <2>2 DEF MayPut
<1>10. UploadsGoOn /\ PutsGoOn
  BY <1>8, <1>9 DEF UploadsGoOn, PutsGoOn
<1>11. HeldOn(z, s)
  BY <1>1, <1>4 DEF HeldOn, Queued, Pending
<1>12. SessionsGoOn /\ MailGoesOn
  BY <1>1, <1>11, ReplacedGoes DEF MailGoesOn
<1>13. FilesGoOn
  <2>1. CASE put = "no"
    BY <1>1, <2>1, FilesStay
  <2>2. CASE put # "no"
    <3>1. SizeSaid(f.expect, f.size)
      BY <1>1, <1>3 DEF SizeSaid
    <3>2. fs \in [Devices -> [Paths -> Entry \cup {None}]] /\ 0 \in Sizes
      BY DEF Core, Local, TransferTyped, Sizes
    <3>3. ASSUME NEW d \in Devices, NEW p \in Paths
          PROVE  fs'[d][p] = fs[d][p] \/ fs'[d][p] = e
      BY <1>1, <1>2, <2>2, <3>2
    <3>4. \A d \in Devices, p \in Paths : fs[d][p] # None => SizeSaid(fs[d][p].data, fs[d][p].size)
      BY DEF SizeSaid
    <3> QED BY <1>6, <2>2, <3>1, <3>2, <3>3, <3>4 DEF FilesGoOn
  <2> QED BY <2>1, <2>2
<1>14. AskedOnce'
  <2>1. \A x \in uploads' : x.caller # <<>> => \E u \in uploads : x.n = u.n /\ x.caller = u.caller
    BY <1>8 DEF Continues, Same
  <2> QED BY <1>1, <2>1, OnceKept
<1> QED BY <1>10, <1>12, <1>13, <1>14 DEF Going, GoesOn

\* Every step of a transfer.
LEMMA TransfersGoes ==
    ASSUME RemoteTypeOK, Core, UploadsFit', AskedOnce, Transfers
    PROVE  Going
<1>1. CASE \E u \in uploads : Hash(u) \/ Requests(u) \/ SendsChunk(u) \/ TimesOut(u)
  BY <1>1, UploadGoes
<1>2. CASE \E d \in Devices, t \in Transports :
              wire[d][t] # <<>> /\ (TransferAnswered(d, t) \/ TransferHandled(d, t))
  BY <1>2, HearingGoes, ReceiverGoes
<1>3. CASE \E s \in sessions : WriteChunk(s) \/ Apply(s) \/ FinishEnds(s) \/ Sweep(s)
  BY <1>3, SessionGoes, ApplyGoes
<1> QED BY <1>1, <1>2, <1>3 DEF Transfers, UploadProgress


(*** the steps that are none of a transfer's ***)

\* Sessions stay or go, none is opened or ended, and the request goes on.
Idles == /\ sessions' \subseteq sessions /\ AskedOnce'
         /\ \A d \in Devices : \A m \in InBox(wire', d) :
               m \in InBox(wire, d) \/ (~Is(m, "start") /\ ~Is(m, "finish"))

\* What becomes of files and uploads then.
LEMMA RestGoes ==
    ASSUME Core, Core', Begins \/ Rearranges \/ Rests \/ WritesNew, Idles
    PROVE  Going
<1>1. SessionsGoOn /\ MailGoesOn
  BY DEF SessionsGoOn, HeldOn, Queued, MailGoesOn, Idles
<1>2. fs \in [Devices -> [Paths -> Entry \cup {None}]] /\ 0 \in Sizes
  BY DEF Core, Local, TransferTyped, Sizes
<1>3. \A d \in Devices, p \in Paths : fs[d][p] # None => SizeSaid(fs[d][p].data, fs[d][p].size)
  BY DEF SizeSaid
<1>4. CASE Begins
  <2>1. PICK u : /\ u.put = "no" /\ u.n \in FreshNumbers /\ fs[u.at][u.path] # None
                 /\ u.expect = fs[u.at][u.path].data /\ u.size = fs[u.at][u.path].size
                 /\ u.session = <<u.n>> \/ u.session = <<u.path, u.meta.size, u.meta.mtimeMs>>
                 /\ uploads' = uploads \cup {u}
    BY <1>4 DEF Begins
  <2>2. Anew(u)
    BY <2>1 DEF Anew, Reads
  <2>3. UploadsGoOn /\ PutsGoOn
    BY <2>1, <2>2 DEF UploadsGoOn, PutsGoOn, Continues, Same
  <2> QED BY <1>1, <1>4, <2>3, FilesStay DEF Begins, Going, GoesOn, Idles
<1>5. CASE Rests
  <2>1. uploads' \subseteq uploads /\ UNCHANGED fs /\ sessions' \subseteq sessions
    BY <1>5 DEF Rests, Idles
  <2> QED BY <1>1, <2>1, FewerGo, FilesStay DEF Going, GoesOn, Idles
<1>6. CASE Rearranges
  <2>1. PICK d \in Devices, p \in Paths, q \in Paths : Clears(d, p) \/ Shifts(d, p, q)
    BY <1>6 DEF Rearranges
  <2>2. ASSUME NEW e \in Devices, NEW r \in Paths, fs'[e][r] # None
        PROVE  \E a \in Devices, b \in Paths : /\ fs[a][b] # None /\ fs'[e][r].data = fs[a][b].data
                                               /\ fs'[e][r].size = fs[a][b].size
    <3>1. CASE Clears(d, p)
      <4>1. fs'[e][r] = fs[e][r]
        BY <1>2, <2>2, <3>1 DEF Clears
      <4> QED BY <2>2, <4>1
    <3>2. CASE Shifts(d, p, q)
      <4>1. fs'[e][r] = fs[e][r] \/ (fs[d][p] # None /\ fs'[e][r].data = fs[d][p].data
                                     /\ fs'[e][r].size = fs[d][p].size)
        BY <2>2, <3>2 DEF Shifts
      <4> QED BY <2>2, <4>1
    <3> QED BY <2>1, <3>1, <3>2
  <2>3. FilesGoOn
    BY <1>2, <1>3, <2>2 DEF FilesGoOn
  <2> QED BY <1>1, <1>6, <2>3, UploadsStay DEF Going, GoesOn, Idles, Rearranges
<1>7. CASE WritesNew
  <2>1. PICK d \in Devices, p \in Paths : \E e :
           e.data = clock + 1 /\ e \in Entry /\ fs' = [fs EXCEPT ![d][p] = e]
    BY <1>7 DEF WritesNew
  <2>2. PICK e \in Entry : e.data = clock + 1 /\ fs' = [fs EXCEPT ![d][p] = e]
    BY <2>1
  <2>3. \A a \in Devices, r \in Paths : fs'[a][r] = fs[a][r] \/ fs'[a][r] = e
    BY <1>2, <2>2
  <2>4. e.size \in Sizes /\ clock' = clock + 1
    BY <1>7 DEF Entry, WritesNew
  <2>5. FilesGoOn
    BY <1>3, <2>2, <2>3, <2>4 DEF FilesGoOn
  <2> QED BY <1>1, <1>7, <2>5, UploadsStay DEF Going, GoesOn, Idles, WritesNew
<1> QED BY <1>4, <1>5, <1>6, <1>7

\* Nothing is sent.
LEMMA QuietIdles ==
    ASSUME Core', AskedOnce, sessions' \subseteq sessions, asked' \in {asked, 0},
           One(wire, Named(asked)) => One(wire', Named(asked)),
           \A d \in Devices : InBox(wire', d) \subseteq InBox(wire, d),
           \A x \in uploads' : x \in uploads \/ x.caller = <<>>
    PROVE  Idles
<1>1. UploadsFit'
  BY DEF Core, Local, TransferInv
<1>2. AskedOnce'
  BY <1>1, OnceKept
<1> QED BY <1>2 DEF Idles

\* None means there is not more than one.
LEMMA NoneOne ==
    ASSUME NEW w \in Wires, NEW M, NoneIn(w, M)
    PROVE  One(w, M)
<1>1. \A d \in Devices, t \in Transports : \A i \in 1..Len(w[d][t]) : w[d][t][i] \in InBox(w, d)
  BY InBoxDef
<1> QED BY <1>1 DEF One, NoneIn

\* The run asks.
LEMMA AsksIdles ==
    ASSUME RemoteTypeOK, Core, Core', AskedOnce, uploads' = uploads, sessions' = sessions,
           NEW m, NEW op, op \notin {"start", "finish"},
           \A id \in CallIds : LET x == [m EXCEPT !.id = id]
                               IN  x \in Message /\ x.id = id /\ ~IsAnswer(x) /\ x.op = op,
           Asks(m) \/ UNCHANGED <<asked, wire>>
    PROVE  Idles
<1>1. CASE UNCHANGED wire /\ asked' \in {asked, 0}
  BY <1>1, QuietIdles
<1>2. CASE CanReach("A") /\ Asks(m)
  <2>1. PICK id \in FreshCalls : /\ asked' = id
                                 /\ wire' = Sent(wire, "A", [m EXCEPT !.id = id])
    BY <1>2 DEF Asks
  <2> DEFINE x == [m EXCEPT !.id = id]
  <2>2. /\ id \in CallIds /\ id # 0
        /\ \A u \in uploads : u.caller # <<>> => u.caller[1] # id
        /\ \A d \in Devices : \A y \in InBox(wire, d) : "id" \in DOMAIN y => y.id # id
    BY FreshCall
  <2>3. x \in Message /\ x.id = id /\ ~IsAnswer(x) /\ x.op = op
    BY <2>2
  <2>4. wire' = Sent(wire, "A", x)
    BY <2>1
  <2> HIDE DEF x
  <2>5. wire \in Wires /\ "A" \in Devices /\ "relay" \in Transports
    BY DEF Core, Local, TransferTyped, Devices, Transports
  <2>6. Carries(wire', wire, Other("A"), x)
    BY <2>3, <2>4, <2>5, SentWire
  <2>7. NoneIn(wire, Named(id))
    BY <2>2 DEF NoneIn, Named
  <2>8. One(wire', Named(id))
    BY <2>3, <2>4, <2>5, <2>7, NoneOne, AnsweredOne
  <2>9. \A u \in uploads' : ~MadeFor(u, id)
    BY <2>2 DEF MadeFor
  <2>10. AskedOnce'
    <3>1. One(wire', Named(asked')) /\ \A u \in uploads' : ~MadeFor(u, asked')
      BY <2>1, <2>8, <2>9
    <3> QED BY <3>1 DEF AskedOnce
  <2> QED BY <2>3, <2>6, <2>10 DEF Idles, Carries, Is
<1> QED BY <1>1, <1>2 DEF Asks

\* The steps of the run.
LEMMA RunIdles ==
    ASSUME RemoteTypeOK, Core, Core', AskedOnce,
           \/ StartRun \/ HearListing \/ SrcMoves \/ HearMove \/ DstMoves
           \/ \E p \in Paths : Visit(p) \/ DeleteOrphan(p)
           \/ HearSignature \/ HearOutcome \/ Abort \/ ToDeletes \/ FinishRun
    PROVE  Idles
<1>0. \A p : SendsFull(p) => \A x \in uploads' : x \in uploads \/ x.caller = <<>>
  BY SendsFullAlone
<1>1. sessions' = sessions
  BY DEF StartRun, HearListing, SrcMoves, HearMove, DstMoves, Visit, DeleteOrphan, HearSignature,
         HearOutcome, Abort, ToDeletes, FinishRun, RunFails, Still
<1>2. CASE StartRun
  <2> DEFINE m == [op |-> "manifest", id |-> 0]
  <2>1. ASSUME NEW id \in CallIds
        PROVE  LET x == [m EXCEPT !.id = id]
               IN  x \in Message /\ x.id = id /\ ~IsAnswer(x) /\ x.op = "manifest"
    <3>1. [m EXCEPT !.id = id] = [op |-> "manifest", id |-> id]
      OBVIOUS
    <3> QED BY <3>1 DEF Message, RemoteMessage, IsAnswer
  <2>2. Asks(m) /\ uploads' = uploads
    BY <1>2 DEF StartRun, UploadsOnly
  <2> HIDE DEF m
  <2> QED BY <1>1, <2>1, <2>2, AsksIdles
<1>3. CASE HearListing \/ HearMove \/ DstMoves \/ HearOutcome \/ Abort \/ ToDeletes \/ FinishRun
  <2>1. UNCHANGED <<uploads, asked, wire>>
    BY <1>3 DEF HearListing, HearMove, DstMoves, HearOutcome, Abort, ToDeletes, FinishRun, RunFails,
                UploadsOnly
  <2> QED BY <1>1, <2>1, QuietIdles
<1>4. CASE SrcMoves
  <2>1. uploads' = uploads
    BY <1>4 DEF SrcMoves, RunFails, UploadsOnly
  <2>2. CASE UNCHANGED <<asked, wire>>
    BY <1>1, <2>1, <2>2, QuietIdles
  <2>3. CASE \E m \in Renamed("src") :
                Asks([op |-> "move", id |-> 0, from |-> m[1], to |-> m[2], meta |-> walked["A"][m[2]]])
    <3>1. PICK m \in Renamed("src") :
             Asks([op |-> "move", id |-> 0, from |-> m[1], to |-> m[2], meta |-> walked["A"][m[2]]])
      BY <2>3
    <3> DEFINE from == m[1]
               to == m[2]
               meta == walked["A"][m[2]]
               y == [op |-> "move", id |-> 0, from |-> from, to |-> to, meta |-> meta]
    <3>2. m[1] \in Missing("src") /\ m[2] \in Added("src")
      BY DEF Renamed
    <3>3. from \in Paths /\ to \in Paths /\ meta # None
      BY <3>2 DEF Missing, Added, Changed
    <3>4. meta \in Meta
      BY <3>3 DEF Core, RunTyped, Listing, Devices
    <3>5. Asks(y)
      BY <3>1
    <3> HIDE DEF from, to, meta
    <3>6. ASSUME NEW id \in CallIds
          PROVE  LET x == [y EXCEPT !.id = id]
                 IN  x \in Message /\ x.id = id /\ ~IsAnswer(x) /\ x.op = "move"
      <4>1. [y EXCEPT !.id = id] = [op |-> "move", id |-> id, from |-> from, to |-> to, meta |-> meta]
        OBVIOUS
      <4> DEFINE x == [y EXCEPT !.id = id]
      <4>2. x \in [op : {"move"}, id : CallIds, from : Paths, to : Paths, meta : Meta]
        BY <3>3, <3>4, <4>1
      <4>3. x.id = id /\ x.op = "move" /\ ~IsAnswer(x)
        BY <4>1 DEF IsAnswer
      <4> HIDE DEF x
      <4>4. x \in Message
        BY <4>2 DEF Message, RemoteMessage
      <4> QED BY <4>3, <4>4 DEF x
    <3> HIDE DEF y
    <3> QED BY <1>1, <2>1, <3>5, <3>6, AsksIdles
  <2> QED BY <1>4, <2>2, <2>3 DEF SrcMoves, RunFails
<1>5. CASE HearSignature
  <2>1. \A x \in uploads' : x \in uploads \/ x.caller = <<>>
    <3>1. CASE SendsFull(cur.path)
      BY <1>0, <3>1
    <3>2. CASE \E n \in FreshNumbers :
                  Begun(Uploading(n, "A", <<>>, cur.path, "delta", walked["A"][cur.path],
                                  fs["A"][cur.path], heard.basis))
      BY <3>2 DEF Begun, Uploading
    <3> QED BY <1>5, <3>1, <3>2 DEF HearSignature
  <2>2. UNCHANGED <<asked, wire>>
    BY <1>5 DEF HearSignature
  <2> QED BY <1>1, <2>1, <2>2, QuietIdles
<1>6. ASSUME NEW p \in Paths, Visit(p) \/ DeleteOrphan(p)
      PROVE  Idles
  <2> DEFINE basis == IF walked["A"][p] # None /\ job.delta /\ fs["A"][p] # None
                      THEN fs["A"][p].data ELSE None
             a == [op |-> "signature", id |-> 0, path |-> p]
             b == [op |-> "send", id |-> 0, path |-> p, basis |-> basis]
             c == [op |-> "delete", id |-> 0, path |-> p]
  <2>1. basis \in Contents \cup {None}
    <3>1. fs["A"][p] # None => fs["A"][p].data \in Contents
      BY DEF Core, Local, TransferTyped, Devices, Entry
    <3> QED BY <3>1
  <2>2. \/ UNCHANGED <<asked, wire>> /\ \A x \in uploads' : x \in uploads \/ x.caller = <<>>
        \/ uploads' = uploads /\ (Asks(a) \/ Asks(b) \/ Asks(c))
    BY <1>0, <1>6 DEF Visit, DeleteOrphan, UploadsOnly
  <2> HIDE DEF basis
  <2>3. \A id \in CallIds :
           /\ LET x == [a EXCEPT !.id = id]
              IN  x \in Message /\ x.id = id /\ ~IsAnswer(x) /\ x.op = "signature"
           /\ LET x == [b EXCEPT !.id = id]
              IN  x \in Message /\ x.id = id /\ ~IsAnswer(x) /\ x.op = "send"
           /\ LET x == [c EXCEPT !.id = id]
              IN  x \in Message /\ x.id = id /\ ~IsAnswer(x) /\ x.op = "delete"
    BY <2>1, AskForms
  <2> HIDE DEF a, b, c
  <2>4. CASE UNCHANGED <<asked, wire>> /\ \A x \in uploads' : x \in uploads \/ x.caller = <<>>
    BY <1>1, <2>4, QuietIdles
  <2>5. CASE uploads' = uploads /\ Asks(a)
    <3>1. \A id \in CallIds : LET x == [a EXCEPT !.id = id]
                              IN  x \in Message /\ x.id = id /\ ~IsAnswer(x) /\ x.op = "signature"
      BY <2>3
    <3> QED BY <1>1, <2>5, <3>1, AsksIdles
  <2>6. CASE uploads' = uploads /\ Asks(b)
    <3>1. \A id \in CallIds : LET x == [b EXCEPT !.id = id]
                              IN  x \in Message /\ x.id = id /\ ~IsAnswer(x) /\ x.op = "send"
      BY <2>3
    <3> QED BY <1>1, <2>6, <3>1, AsksIdles
  <2>7. CASE uploads' = uploads /\ Asks(c)
    <3>1. \A id \in CallIds : LET x == [c EXCEPT !.id = id]
                              IN  x \in Message /\ x.id = id /\ ~IsAnswer(x) /\ x.op = "delete"
      BY <2>3
    <3> QED BY <1>1, <2>7, <3>1, AsksIdles
  <2> QED BY <2>2, <2>4, <2>5, <2>6, <2>7
<1> QED BY <1>2, <1>3, <1>4, <1>5, <1>6


\* A request of the run is handled: answered, or an upload begins that will answer it.
LEMMA HandledIdles ==
    ASSUME RemoteTypeOK, Core, Core', AskedOnce, NEW t \in Transports, wire["B"][t] # <<>>,
           RequestHandled(t)
    PROVE  Idles
<1> DEFINE m == Head(wire["B"][t])
           w == Taken("B", t)
<1>0. wire \in Wires /\ "B" \in Devices /\ UploadsFit'
  BY DEF Core, Local, TransferTyped, TransferInv, Devices
<1>1. m \in InBox(wire, "B") /\ m \in Message /\ w \in Wires
      /\ \A e \in Devices : InBox(w, e) \subseteq InBox(wire, e)
  BY <1>0, TakenWire
<1>2. /\ ~IsAnswer(m) /\ sessions' = sessions /\ asked' = asked
      /\ HandleManifest(t, m) \/ HandleSignature(t, m) \/ HandleSend(t, m)
         \/ HandleMove(t, m) \/ HandleDelete(t, m)
  BY DEF RequestHandled
<1>3. One(wire, Named(asked)) => /\ One(w, Named(asked))
                                 /\ m \in Named(asked) => NoneIn(w, Named(asked))
  BY <1>0, TakenOne
<1> HIDE DEF m
<1>4. m.id \in CallIds /\ "id" \in DOMAIN m
  <2>1. m.op \in {"manifest", "signature", "send", "move", "delete"}
    BY <1>2 DEF HandleManifest, HandleSignature, HandleSend, HandleMove, HandleDelete
  <2>2. \/ m \in [op : {"manifest"}, id : CallIds]
        \/ m \in [op : {"signature", "delete"}, id : CallIds, path : Paths]
        \/ m \in [op : {"send"}, id : CallIds, path : Paths, basis : Contents \cup {None}]
        \/ m \in [op : {"move"}, id : CallIds, from : Paths, to : Paths, meta : Meta]
    BY <1>1, <1>2, <2>1, MessageTypes DEF Is
  <2> QED BY <2>2
<1>5. \/ uploads' = uploads /\ \E a \in Message : IsAnswer(a) /\ a.id = m.id /\ wire' = Answered(w, "B", t, a)
      \/ wire' = w /\ \E u : /\ u.caller = <<m.id, t>> /\ u.n \in FreshNumbers
                             /\ uploads' = uploads \cup {u}
  <2>0. w = Taken("B", t)
    OBVIOUS
  <2> HIDE DEF w
  <2>1. CASE HandleManifest(t, m)
    <3>1. PICK listing \in {ListingOf("B")} \cup ({cache} \ {None}) :
             wire' = Answered(w, "B", t, [answer |-> "manifest", id |-> m.id, ok |-> TRUE, listing |-> listing])
      BY <2>0, <2>1 DEF HandleManifest
    <3>2. listing \in Listing
      <4>1. \A p \in Paths : MetaOf(fs["B"][p]) \in Meta \cup {None}
        BY <1>0 DEF Core, Local, TransferTyped, MetaOf, Entry, Meta
      <4>2. ListingOf("B") \in Listing
        BY <4>1 DEF ListingOf, Listing
      <4> QED BY <4>2 DEF Core, RunTyped
    <3> DEFINE a == [answer |-> "manifest", id |-> m.id, ok |-> TRUE, listing |-> listing]
    <3>3. a \in Message /\ IsAnswer(a) /\ a.id = m.id
      BY <1>4, <3>2, AnswerForms
    <3>4. wire' = Answered(w, "B", t, a)
      BY <3>1
    <3> HIDE DEF a
    <3> QED BY <2>1, <3>3, <3>4 DEF HandleManifest, UploadsOnly
  <2>2. CASE HandleSignature(t, m)
    <3> DEFINE e == fs["B"][m.path]
               ok == e # None
               basis == IF e = None THEN None ELSE e.data
               a == [answer |-> "signature", id |-> m.id, ok |-> ok, basis |-> basis]
    <3>1. wire' = Answered(w, "B", t, a)
      BY <2>0, <2>2 DEF HandleSignature
    <3>2. m.path \in Paths
      BY <1>1, <1>2, <2>2, MessageTypes DEF HandleSignature, Is
    <3>3. ok \in BOOLEAN /\ basis \in Contents \cup {None}
      BY <1>0, <3>2 DEF Core, Local, TransferTyped, Entry
    <3> HIDE DEF e, ok, basis
    <3>4. a \in Message /\ IsAnswer(a) /\ a.id = m.id
      BY <1>4, <3>3, AnswerForms
    <3> HIDE DEF a
    <3> QED BY <2>2, <3>1, <3>4 DEF HandleSignature, UploadsOnly
  <2>3. CASE HandleSend(t, m) /\ fs["B"][m.path] = None
    <3> DEFINE a == [answer |-> "send", id |-> m.id, ok |-> FALSE, sum |-> None]
    <3>1. wire' = Answered(w, "B", t, a) /\ uploads' = uploads
      BY <2>0, <2>3 DEF HandleSend, UploadsOnly
    <3>2. FALSE \in BOOLEAN /\ None \in Contents \cup {None}
      OBVIOUS
    <3>3. a \in Message /\ IsAnswer(a) /\ a.id = m.id
      BY <1>4, <3>2, AnswerForms
    <3> HIDE DEF a
    <3> QED BY <3>1, <3>3
  <2>4. CASE HandleSend(t, m) /\ fs["B"][m.path] # None
    <3>1. PICK n \in FreshNumbers, kind \in {"delta", "full"} :
             Begun(Uploading(n, "B", <<m.id, t>>, m.path, kind, MetaOf(fs["B"][m.path]), fs["B"][m.path],
                             IF kind = "delta" THEN m.basis ELSE None))
      BY <2>4 DEF HandleSend
    <3> DEFINE u == Uploading(n, "B", <<m.id, t>>, m.path, kind, MetaOf(fs["B"][m.path]), fs["B"][m.path],
                              IF kind = "delta" THEN m.basis ELSE None)
    <3>2. u.caller = <<m.id, t>> /\ u.n = n
      BY DEF Uploading
    <3>3. uploads' = uploads \cup {u}
      BY <3>1 DEF Begun
    <3>4. wire' = w
      BY <2>0, <2>4 DEF HandleSend
    <3> HIDE DEF u
    <3> QED BY <3>2, <3>3, <3>4
  <2>5. CASE HandleMove(t, m) \/ HandleDelete(t, m)
    <3>1. PICK ok \in BOOLEAN : Done(t, m, ok) /\ uploads' = uploads
      BY <2>5 DEF HandleMove, HandleDelete, UploadsOnly
    <3> DEFINE a == [answer |-> "done", id |-> m.id, ok |-> ok]
    <3>2. wire' = Answered(w, "B", t, a)
      BY <2>0, <3>1 DEF Done
    <3>3. a \in Message /\ IsAnswer(a) /\ a.id = m.id
      BY <1>4, AnswerForms
    <3> HIDE DEF a
    <3> QED BY <3>1, <3>2, <3>3
  <2> QED BY <1>2, <2>1, <2>2, <2>3, <2>4, <2>5
<1> HIDE DEF w
<1>6. ASSUME uploads' = uploads, NEW a \in Message, IsAnswer(a), a.id = m.id, wire' = Answered(w, "B", t, a)
      PROVE  Idles
  <2>1. Carries(wire', w, Other("B"), a)
    BY <1>0, <1>1, <1>6, SentWire
  <2>2. \A d \in Devices : \A x \in InBox(wire', d) :
           x \in InBox(wire, d) \/ (~Is(x, "start") /\ ~Is(x, "finish"))
    BY <1>1, <1>6, <2>1 DEF Carries, Is
  <2>3. CASE a \in Named(asked) => m \in Named(asked)
    <3>1. CASE m \in Named(asked) /\ asked # 0
      <4>1. One(wire, Named(asked)) /\ \A u \in uploads : ~MadeFor(u, asked)
        BY <1>0, <1>1, <3>1 DEF AskedOnce
      <4>2. One(wire', Named(asked))
        BY <1>0, <1>1, <1>3, <1>6, <3>1, <4>1, AnsweredOne
      <4>3. One(wire', Named(asked')) /\ \A u \in uploads' : ~MadeFor(u, asked')
        BY <1>2, <1>6, <4>1, <4>2
      <4>4. AskedOnce'
        BY <4>3 DEF AskedOnce
      <4> QED BY <1>2, <2>2, <4>4 DEF Idles
    <3>2. CASE m \notin Named(asked)
      <4>1. a \notin Named(asked)
        BY <2>3, <3>2
      <4>2. One(wire, Named(asked)) => One(wire', Named(asked))
        BY <1>0, <1>1, <1>3, <1>6, <4>1, AnsweredOne
      <4>3. \A d \in Devices : \A x \in InBox(wire', d) : x \in InBox(wire, d) \/ x \notin Named(asked)
        BY <1>1, <2>1, <4>1 DEF Carries
      <4>4. AskedOnce'
        BY <1>0, <1>2, <1>6, <4>2, <4>3, OnceKept
      <4> QED BY <1>2, <2>2, <4>4 DEF Idles
    <3>3. CASE asked = 0
      <4>1. AskedOnce'
        BY <1>2, <3>3 DEF AskedOnce
      <4> QED BY <1>2, <2>2, <4>1 DEF Idles
    <3> QED BY <3>1, <3>2, <3>3
  <2>4. a \in Named(asked) => m \in Named(asked)
    BY <1>1, <1>4, <1>6 DEF Named
  <2> QED BY <2>3, <2>4
<1>7. ASSUME wire' = w, NEW u, u.caller = <<m.id, t>>, u.n \in FreshNumbers, uploads' = uploads \cup {u}
      PROVE  Idles
  <2>1. \A d \in Devices : \A x \in InBox(wire', d) :
           x \in InBox(wire, d) \/ (~Is(x, "start") /\ ~Is(x, "finish"))
    BY <1>1, <1>7
  <2>2. CASE asked = 0
    <3>1. AskedOnce'
      BY <1>2, <2>2 DEF AskedOnce
    <3> QED BY <1>2, <2>1, <3>1 DEF Idles
  <2>3. CASE m.id # asked /\ asked # 0
    <3>1. ~MadeFor(u, asked)
      BY <1>7, <2>3 DEF MadeFor
    <3>2. One(wire', Named(asked))
      BY <1>3, <1>7, <2>3 DEF AskedOnce
    <3>3. \A x \in uploads' : MadeFor(x, asked) => x \in uploads
      BY <1>7, <3>1
    <3>4. One(wire', Named(asked')) /\ \A x \in uploads' : MadeFor(x, asked') => x \in uploads
      BY <1>2, <3>2, <3>3
    <3>5. \A x \in uploads : MadeFor(x, asked') =>
             /\ \A d \in Devices : \A y \in InBox(wire', d) : y \notin Named(asked')
             /\ \A v \in uploads : MadeFor(v, asked') => x = v
      BY <1>1, <1>2, <1>7, <2>3 DEF AskedOnce
    <3>6. AskedOnce'
      BY <3>4, <3>5 DEF AskedOnce
    <3> QED BY <1>2, <2>1, <3>6 DEF Idles
  <2>4. CASE m.id = asked /\ asked # 0
    <3>1. m \in Named(asked)
      BY <1>1, <1>4, <2>4 DEF Named
    <3>2. One(wire, Named(asked)) /\ \A x \in uploads : ~MadeFor(x, asked)
      BY <1>0, <1>1, <2>4, <3>1 DEF AskedOnce
    <3>3. One(wire', Named(asked)) /\ NoneIn(wire', Named(asked))
      BY <1>3, <1>7, <3>1, <3>2
    <3>4. \A x \in uploads' : MadeFor(x, asked) => x = u
      BY <1>7, <3>2
    <3>5. /\ One(wire', Named(asked')) /\ NoneIn(wire', Named(asked'))
          /\ \A x \in uploads' : MadeFor(x, asked') => x = u
      BY <1>2, <3>3, <3>4
    <3>6. AskedOnce'
      BY <3>5 DEF AskedOnce, NoneIn
    <3> QED BY <1>2, <2>1, <3>6 DEF Idles
  <2> QED BY <2>2, <2>3, <2>4
<1> QED BY <1>5, <1>6, <1>7

\* The request of the run is answered.
LEMMA AnsweredIdles ==
    ASSUME RemoteTypeOK, Core, Core', AskedOnce, NEW t \in Transports, wire["A"][t] # <<>>,
           RequestAnswered(t)
    PROVE  Idles
<1>1. wire \in Wires /\ "A" \in Devices
  BY DEF Core, Local, TransferTyped, Devices
<1>2. /\ wire' = Taken("A", t) /\ uploads' = uploads /\ sessions' = sessions /\ asked' \in {asked, 0}
  BY DEF RequestAnswered, UploadsOnly, Still
<1>3. One(wire, Named(asked)) => One(wire', Named(asked))
  BY <1>1, <1>2, TakenOne
<1>4. \A d \in Devices : InBox(wire', d) \subseteq InBox(wire, d)
  BY <1>1, <1>2, TakenWire
<1> QED BY <1>2, <1>3, <1>4, QuietIdles

\* The user, the links and the processes.
LEMMA OtherIdles ==
    ASSUME RemoteTypeOK, Core, Core', AskedOnce,
           \/ LinkRecovers \/ UserSteps \/ Cancel \/ LinkBreaks
           \/ \E d \in Devices : AgentDies(d)
    PROVE  Idles
<1>1. wire \in Wires
  BY DEF Core, Local, TransferTyped
<1>2. uploads' \subseteq uploads /\ sessions' \subseteq sessions /\ asked' \in {asked, 0}
  BY DEF LinkRecovers, UserSteps, Cancel, LinkBreaks, AgentDies, transferVars, UserWrites, UserDeletes,
         UserRenames, UserActs, EngineStays
<1>3. wire' = wire \/ \E ts : wire' = Lost(ts)
  <2>1. CASE UserSteps \/ Cancel
    BY <2>1 DEF UserSteps, Cancel, UserWrites, UserDeletes, UserRenames, UserActs, EngineStays, linkVars
  <2>2. CASE LinkRecovers
    BY <2>2 DEF LinkRecovers, RelayConnects, RelayCloses, LanMeets, P2pOpens
  <2>3. CASE LinkBreaks
    BY <2>3 DEF LinkBreaks, RelayBreaks, RelayRejects, LanForgets, LanBreaks, P2pCloses
  <2>4. CASE \E d \in Devices : AgentDies(d)
    BY <2>4 DEF AgentDies, LinkDies
  <2> QED BY <2>1, <2>2, <2>3, <2>4
<1>4. One(wire, Named(asked)) => One(wire', Named(asked))
  BY <1>1, <1>3, LostOne
<1>5. \A d \in Devices : InBox(wire', d) \subseteq InBox(wire, d)
  BY <1>1, <1>3, LostWire
<1> QED BY <1>2, <1>4, <1>5, QuietIdles

\* Whatever happens, uploads, sessions and the request go on.
LEMMA AllGoes ==
    ASSUME RemoteTypeOK, Core, AskedOnce, Next
    PROVE  Going
<1>1. Core' /\ Effect
  BY EveryStep DEF Next
<1>2. UploadsFit'
  BY <1>1 DEF Core, Local, TransferInv
<1>3. CASE Transfers
  BY <1>2, <1>3, TransfersGoes
<1>4. CASE ~Transfers
  <2>1. Idles
    <3>1. CASE EngineSteps
      BY <1>1, <3>1, RunIdles, HandledIdles, AnsweredIdles DEF EngineSteps
    <3>2. CASE TimeOuts
      <4>1. CASE asked' = 0 /\ UNCHANGED <<uploads, sessions, wire>>
        BY <1>1, <4>1, QuietIdles
      <4>2. clock' = clock => ~ \E u \in uploads : TimesOut(u)
        BY <1>4 DEF Transfers
      <4>3. ASSUME NEW u \in uploads, TimesOut(u), TimeOut(u.call) PROVE FALSE
        <5>1. clock' = clock
          BY <4>3, TimeOutTyped DEF Core, RunTyped
        <5> QED BY <4>2, <4>3, <5>1
      <4> QED BY <3>2, <4>1, <4>3 DEF TimeOuts, UploadsOnly, linkVars
    <3>3. CASE TransferSteps
      BY <1>4, <3>3 DEF TransferSteps, Transfers, settings
    <3>4. CASE \/ LinkRecovers \/ UserSteps \/ Cancel \/ LinkBreaks \/ \E d \in Devices : AgentDies(d)
      BY <1>1, <3>4, OtherIdles
    <3> QED BY <3>1, <3>2, <3>3, <3>4 DEF Next
  <2> QED BY <1>1, <1>4, <2>1, RestGoes DEF Effect
<1> QED BY <1>3, <1>4

\* What uploads and sessions carry is kept.
LEMMA CarryingKept ==
    ASSUME RemoteTypeOK, Core, Carrying, Next
    PROVE  Carrying'
<1>1. Core' /\ clock' \in {clock, clock + 1} /\ Going
  BY EveryStep, AllGoes DEF Next, Carrying
<1>2. TransferTyped' /\ clock \in Nat
  BY <1>1 DEF Core, Local, RunTyped
<1>3. Spent'
  BY <1>1, <1>2, SpentKept DEF Going, Carrying
<1>4. SessionTimes'
  BY <1>1, <1>2, SessionTimesKept DEF Going, Carrying
<1>5. OneSize'
  BY <1>1, <1>2, OneSizeKept DEF Going, Carrying
<1> QED BY <1>1, <1>3, <1>4, <1>5 DEF Going, Carrying


\* At the start nothing is carried, and the files are one version of one size.
LEMMA CarryingStarts == Init => Carrying
<1> SUFFICES ASSUME Init PROVE Carrying
  OBVIOUS
<1>1. PICK c \in Cases : /\ LinkInit(c.start)
                         /\ fs = [d \in Devices |-> [p \in Paths |->
                                    IF c.shared[p] = None THEN None
                                    ELSE [data |-> 0, size |-> c.shared[p], mtimeMs |-> 0]]]
  BY DEF Init
<1>2. uploads = {} /\ sessions = {} /\ asked = 0 /\ clock = 0
  BY DEF Init
<1>3. \A d \in Devices : InBox(wire, d) = {}
  <2>1. wire = [d \in Devices |-> [t \in Transports |-> <<>>]]
    BY <1>1 DEF LinkInit
  <2>2. wire \in Wires /\ \A d \in Devices, t \in Transports : Len(wire[d][t]) = 0
    BY <2>1 DEF Wires
  <2>3. \A d \in Devices : \A x : x \notin InBox(wire, d)
    BY <2>2, InBoxDef
  <2> QED BY <2>3
<1>4. Spent /\ SessionTimes /\ AskedOnce
  BY <1>2, <1>3 DEF Spent, SessionTimes, AskedOnce
<1>5. \A v, z : SizeSaid(v, z) => v = 0 /\ \E p \in Paths : c.shared[p] # None /\ z = c.shared[p]
  <2>1. \A d \in Devices, p \in Paths : fs[d][p] # None =>
           fs[d][p].data = 0 /\ fs[d][p].size = c.shared[p] /\ c.shared[p] # None
    BY <1>1
  <2> QED BY <1>2, <1>3, <2>1 DEF SizeSaid
<1>6. 0 \in Seen
  BY <1>2 DEF Seen
<1>7. \A p, q \in Paths : c.shared[p] # None /\ c.shared[q] # None => c.shared[p] = c.shared[q]
  BY RemoteAssumption
<1>8. OneSize
  BY <1>5, <1>6, <1>7 DEF OneSize
<1> QED BY <1>4, <1>8 DEF Carrying

\* Nothing changes.
LEMMA CarryingStutters ==
    ASSUME Core, Carrying, UNCHANGED vars
    PROVE  Carrying'
<1>1. UNCHANGED <<fs, uploads, sessions, wire, asked, clock>>
  BY DEF vars, linkVars, transferVars, settings
<1>2. \A d : InBox(wire', d) = InBox(wire, d)
  BY <1>1
<1>3. \A d, id, p : Aims(d, id, p)' <=> Aims(d, id, p)
  BY <1>1 DEF Aims
<1>4. \A n, p : MayPut(n, p)' <=> MayPut(n, p)
  BY <1>1, <1>3 DEF MayPut
<1>5. Spent'
  BY <1>1, <1>4 DEF Carrying, Spent
<1>6. SessionTimes'
  <2>1. \A id, meta : Timely(id, meta)' <=> Timely(id, meta)
    BY <1>1 DEF Timely
  <2> QED BY <1>1, <2>1 DEF Carrying, SessionTimes
<1>7. OneSize'
  <2>1. \A v, z : SizeSaid(v, z)' <=> SizeSaid(v, z)
    BY <1>1 DEF SizeSaid
  <2>2. Seen' = Seen
    BY <1>1 DEF Seen
  <2> QED BY <2>1, <2>2 DEF Carrying, OneSize
<1>8. AskedOnce'
  BY <1>1 DEF Carrying, AskedOnce
<1> QED BY <1>5, <1>6, <1>7, <1>8 DEF Carrying

\* What uploads and sessions carry is an invariant, with the one of the transfers.
LEMMA CarryingInductive == RemoteInv /\ Carrying /\ [Next]_vars => Carrying'
<1> SUFFICES ASSUME RemoteInv, Carrying, [Next]_vars PROVE Carrying'
  OBVIOUS
<1>1. RemoteTypeOK /\ Core
  BY InvParts
<1> QED BY <1>1, CarryingKept, CarryingStutters

\* Nothing of a finish is left once it has taken effect; a version has one size, and goes
\* with one time; and the request of the run is made once.
THEOREM RemoteCarrying == Spec => []Carrying
<1> QED BY RemoteInvariant, CarryingStarts, CarryingInductive, PTL DEF Spec
=============================================================================
