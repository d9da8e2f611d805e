--------------------------- MODULE RemoteRunProofs ---------------------------
(***************************************************************************)
(* What the runs of the remote engine do to the user's files, for any      *)
(* paths, jobs, networks and bounds.  A run acts on what it knows: its     *)
(* walks, the records of the run before, and what the target told it.      *)
(* Each was true once; between then and now come the user, commands of     *)
(* runs given up, and copies nobody waits for.  The invariants say what of *)
(* it still holds at the paths that none of these has touched: DeleteInv,  *)
(* that what the run takes away the user took away; TwoWay, that what a    *)
(* two-way run writes over had been on both devices, and that what it has  *)
(* visited is the same on both.                                            *)
(***************************************************************************)
EXTENDS RemoteSyncProofs

(******************** what the run knows, and why it deletes ***************)

Bidir      == job.mode = "bidir"
Excused(p) == p \in touched \cup blamed

\* The run is changing, or has changed, device d at p.
Busy(d, p) ==
    \/ cur # None /\ p \in {cur.path, cur.from} /\ (cur.action = "copy-to-src" <=> d = "A")
    \/ phase = "visit" /\ p \notin todo /\ (Bidir \/ d = "B")
    \/ phase = "delete" /\ d = "B"

\* The run has walked d, or has heard its listing.
Knows(d) == phase # "idle" /\ (d = "B" => phase # "manifest")

\* The file is there, or the user took it away.
Has(d, p)    == fs[d][p] # None \/ <<d, p>> \in removed
Landed(d, p) == Excused(p) \/ Has(d, p)

\* A message that bears the identifier of the run's request, and an upload made for it.
Mine(m) == "id" \in DOMAIN m /\ m.id = asked
Own(u)  == u.caller = <<>> \/ u.caller[1] = asked

\* What was taken away is not there.
RemovedGone == \A d \in Devices, p \in Paths : <<d, p>> \in removed => fs[d][p] = None

RunPlan ==
    /\ phase = "dstmoves" => Bidir
    /\ phase = "delete" => ~Bidir /\ todo \subseteq DeleteCandidates
    /\ cur # None =>
          /\ cur.action \in {"move", "copy-to-dst", "copy-to-src", "delete-dst"}
          /\ cur.action = "copy-to-src" => Bidir
          /\ cur.action = "copy-to-dst" => phase = "visit"
          /\ cur.action = "delete-dst" => walked["A"][cur.path] = None
          /\ cur.action # "move" => cur.from = cur.path /\ cur.path \in todo
          /\ cur.action = "move" => cur.from # cur.path
    /\ \A p \in Paths : newStored[p] # None =>
          phase = "delete" \/ (phase = "visit" /\ p \notin todo)

\* The commands and uploads of the run are about the path it is at work on.
Commands ==
    /\ \A m \in InBox(wire, "B") : ~IsAnswer(m) /\ Mine(m) =>
          /\ m.op = "send" => m.path = cur.path
          /\ m.op = "delete" => cur.action = "delete-dst" /\ m.path = cur.path
          /\ m.op = "move" => /\ cur.action = "move" /\ m.from = cur.from /\ m.to = cur.path
                              /\ m.meta = walked["A"][cur.path]
    /\ \A u \in uploads : Own(u) => u.path = cur.path

\* What the run knows of a device is what is there, but for what it has changed itself.
WalksExact ==
    \A d \in Devices, p \in Paths :
        Knows(d) => Excused(p) \/ Busy(d, p) \/ walked[d][p] = MetaOf(fs[d][p])

\* A rename is made on B as a whole.
Unmoved == /\ Excused(cur.from) \/ MetaOf(fs["B"][cur.from]) = walked["B"][cur.from]
           /\ Excused(cur.path) \/ fs["B"][cur.path] = None
Arrived == /\ Excused(cur.from) \/ fs["B"][cur.from] = None
           /\ Excused(cur.path) \/ MetaOf(fs["B"][cur.path]) = walked["A"][cur.path]

Moving == cur # None /\ cur.action = "move"

MoveExact == Moving =>
    /\ walked["A"][cur.from] = None /\ walked["A"][cur.path] # None
    /\ walked["B"][cur.from] # None /\ stored[cur.path] = None
    /\ walked["B"][cur.from].size = walked["A"][cur.path].size
    /\ Unmoved \/ Arrived

\* An upload that is done has brought its file.
UploadsLand == \A u \in uploads : Own(u) /\ u.put = "whole" => Landed(Other(u.at), u.path)

\* What a report of success says: the listing is true, the file was renamed, or copied.
Listed(listing) == \A p \in Paths : Excused(p) \/ listing[p] = MetaOf(fs["B"][p])

Tells(m) ==
    /\ phase = "manifest" => Listed(m.listing)
    /\ Moving => Arrived
    /\ cur # None /\ cur.action = "copy-to-src" => Landed("A", cur.path)
    /\ cur # None /\ cur.action = "copy-to-dst" /\ cur.step = "transfer" => Landed("B", cur.path)

Good(m) == IsAnswer(m) /\ Mine(m) /\ m.ok

ReportsTrue == /\ \A m \in InBox(wire, "A") : Good(m) => Tells(m)
               /\ \A h \in {heard} : h # None /\ h.ok => Tells(h)

\* A record of both sides: both had the file, and lost it to the user or to this run.
Both(r) == r # None /\ r.src # None /\ r.dst # None

Handled(p) == Busy("A", p) \/ Busy("B", p)
              \/ (Knows("B") /\ walked["A"][p] = None /\ walked["B"][p] = None)

HadBefore(d, p) == Has(d, p) \/ (Bidir /\ phase # "idle" /\ p \in acted /\ Handled(p))

RecordsHad ==
    /\ \A p \in Paths : Both(stored[p]) =>
          p \in blamed \/ (HadBefore("A", p) /\ (Bidir => HadBefore("B", p)))
    /\ \A p \in Paths : Both(newStored[p]) =>
          Landed("A", p) /\ (Bidir => Landed("B", p))

\* The user took the file away where the run has it deleted or renamed for it.
TakenAway ==
    Moving \/ (cur # None /\ cur.action = "delete-dst" /\ job.mode # "mirror")
        => <<"A", cur.from>> \in removed \/ Excused(cur.from)

DeleteInv == /\ RemovedGone /\ RunPlan /\ Commands /\ WalksExact /\ MoveExact
             /\ UploadsLand /\ ReportsTrue /\ RecordsHad /\ TakenAway

(*** what a step that is none of the run's may change ***)

Stands == UNCHANGED <<phase, walked, todo, cur, newStored, movedSums, stored, job>>
Grows  == touched \subseteq touched' /\ blamed \subseteq blamed'

\* The run has device d changed at p.
Ordered(d, p) ==
    cur # None /\ \/ p = cur.path /\ cur.action = CopyTo(d) /\ fs'[d][p] # None
                  \/ d = "B" /\ p = cur.from /\ cur.action = "delete-dst"
                  \/ d = "B" /\ p \in {cur.path, cur.from} /\ cur.action = "move"

\* What changes is excused from now on, or was ordered; what goes was the user's to take,
\* or is blamed, or was ordered to go.
Accounted ==
    \A d \in Devices, p \in Paths :
        /\ fs'[d][p] # fs[d][p] => p \in touched' \cup blamed' \/ Ordered(d, p)
        /\ fs[d][p] # None /\ fs'[d][p] = None /\ clock' = clock =>
              \/ p \in blamed'
              \/ d = "B" /\ cur # None /\ p = cur.from /\ cur.action \in {"move", "delete-dst"}

MoveGoesOn == Moving => (Unmoved \/ Arrived => (Unmoved \/ Arrived)') /\ (Arrived => Arrived')

\* What the history keeps of a step.
LEMMA Observed ==
    ASSUME Observe, RemovedGone, NEW d \in Devices, NEW p \in Paths
    PROVE  /\ RemovedGone'
           /\ Has(d, p) => Has(d, p)' \/ (clock' = clock /\ fs[d][p] # None /\ fs'[d][p] = None)
           /\ clock' = clock /\ Has(d, p)' => Has(d, p) \/ fs'[d][p] # None
           /\ clock' = clock /\ fs'[d][p] = fs[d][p] => Has(d, p)' = Has(d, p)
           /\ <<d, p>> \in removed /\ fs'[d][p] = fs[d][p] => <<d, p>> \in removed'
           /\ p \in acted => p \in acted' \/ phase = "idle"
           /\ clock' = clock /\ fs'[d][p] # fs[d][p] => p \in acted'
<1>1. removed' = (IF clock' # clock THEN removed \cup {x \in Devices \X Paths :
                                        fs[x[1]][x[2]] # None /\ fs'[x[1]][x[2]] = None}
                  ELSE removed) \ {x \in Devices \X Paths : fs'[x[1]][x[2]] # None}
  BY DEF Observe
<1>2. /\ p \in acted => p \in acted' \/ phase = "idle"
      /\ clock' = clock /\ fs'[d][p] # fs[d][p] => p \in acted'
  BY DEF Observe
<1>3. \A e \in Devices, q \in Paths :
         /\ <<e, q>> \in removed' => fs'[e][q] = None
         /\ <<e, q>> \in removed /\ fs'[e][q] = None => <<e, q>> \in removed'
         /\ clock' # clock /\ fs[e][q] # None /\ fs'[e][q] = None => <<e, q>> \in removed'
         /\ clock' = clock /\ <<e, q>> \in removed' => <<e, q>> \in removed
  BY <1>1
<1>4. RemovedGone'
  BY <1>3 DEF RemovedGone
<1>5. <<d, p>> \in removed => fs[d][p] = None
  BY DEF RemovedGone
<1> QED BY <1>2, <1>3, <1>4, <1>5 DEF Has

\* While the run stands, what it knows stays true of what it has not changed.
LEMMA StandsWalks ==
    ASSUME Stands, Grows, Accounted, WalksExact, RunPlan
    PROVE  WalksExact'
<1>1. UNCHANGED <<phase, walked, todo, cur, job>>
  BY DEF Stands
<1> SUFFICES ASSUME NEW d \in Devices, NEW p \in Paths, Knows(d)', ~Excused(p)', ~Busy(d, p)'
             PROVE  (walked[d][p] = MetaOf(fs[d][p]))'
  BY DEF WalksExact
<1>2. Knows(d) /\ ~Excused(p) /\ ~Busy(d, p)
  BY <1>1 DEF Knows, Excused, Busy, Bidir, Grows
<1>3. walked[d][p] = MetaOf(fs[d][p])
  BY <1>2 DEF WalksExact
<1>4. fs'[d][p] = fs[d][p]
  <2>1. p \notin touched' \cup blamed'
    BY DEF Excused
  <2>2. ~Ordered(d, p)
    <3>1. cur # None => (cur.action \in {"copy-to-src", "copy-to-dst", "delete-dst"} => cur.from = cur.path)
      BY DEF RunPlan
    <3> QED BY <1>2, <3>1, Two DEF Busy, Ordered, CopyTo, Devices
  <2> QED BY <2>1, <2>2 DEF Accounted
<1> QED BY <1>1, <1>3, <1>4 DEF MetaOf

\* Every file that was there or taken away stays so, or is blamed, or was ordered to go.
LEMMA StandsHas ==
    ASSUME Grows, Accounted, Observe, RemovedGone, NEW d \in Devices, NEW p \in Paths
    PROVE  /\ Has(d, p) => \/ Has(d, p)' \/ p \in blamed'
                           \/ /\ d = "B" /\ cur # None /\ p = cur.from
                              /\ cur.action \in {"move", "delete-dst"} /\ p \in acted'
           /\ Landed(d, p) => \/ Landed(d, p)'
                              \/ /\ d = "B" /\ cur # None /\ p = cur.from
                                 /\ cur.action \in {"move", "delete-dst"}
<1>1. /\ Has(d, p) => Has(d, p)' \/ (clock' = clock /\ fs[d][p] # None /\ fs'[d][p] = None)
      /\ clock' = clock /\ fs'[d][p] # fs[d][p] => p \in acted'
  BY Observed
<1>2. fs[d][p] # None /\ fs'[d][p] = None /\ clock' = clock =>
         \/ p \in blamed'
         \/ d = "B" /\ cur # None /\ p = cur.from /\ cur.action \in {"move", "delete-dst"}
  BY DEF Accounted
<1>3. Excused(p) => Excused(p)'
  BY DEF Grows, Excused
<1>4. p \in blamed' => Excused(p)'
  BY DEF Excused
<1> QED BY <1>1, <1>2, <1>3, <1>4 DEF Landed

\* While the run stands, the records stay true of what was on both sides.
LEMMA StandsRecords ==
    ASSUME Stands, Grows, Accounted, Observe, RemovedGone, RunPlan, RecordsHad,
           RunFits
    PROVE  RecordsHad'
<1>1. UNCHANGED <<phase, walked, todo, cur, job, stored, newStored>>
  BY DEF Stands
<1>2. ASSUME NEW p \in Paths, Both(stored[p]), p \notin blamed', NEW d \in Devices,
             HadBefore(d, p), d = "B" => Bidir
      PROVE  HadBefore(d, p)'
  <2>1. Handled(p)' = Handled(p)
    BY <1>1 DEF Handled, Busy, Knows, Bidir
  <2>2. CASE Bidir /\ phase # "idle" /\ p \in acted /\ Handled(p)
    BY <1>1, <2>1, <2>2, Observed DEF HadBefore, Bidir
  <2>3. CASE Has(d, p)
    <3>1. CASE Has(d, p)'
      BY <3>1 DEF HadBefore
    <3>2. CASE ~Has(d, p)'
      <4>1. /\ d = "B" /\ cur # None /\ p = cur.from
            /\ cur.action \in {"move", "delete-dst"} /\ p \in acted'
        BY <1>2, <2>3, <3>2, StandsHas
      <4>2. Busy("B", p)
        BY <4>1 DEF Busy
      <4> QED BY <1>1, <1>2, <2>1, <4>1, <4>2 DEF HadBefore, Handled, Bidir, RunFits
    <3> QED BY <3>1, <3>2
  <2> QED BY <1>2, <2>2, <2>3 DEF HadBefore
<1>3. ASSUME NEW p \in Paths, Both(newStored[p]), NEW d \in Devices, Landed(d, p), d = "B" => Bidir
      PROVE  Landed(d, p)'
  <2>1. newStored[p] # None /\ (phase = "delete" \/ (phase = "visit" /\ p \notin todo))
    BY <1>3 DEF Both, RunPlan
  <2>2. ~(d = "B" /\ cur # None /\ p = cur.from /\ cur.action \in {"move", "delete-dst"})
    BY <1>3, <2>1 DEF RunPlan, RunFits
  <2> QED BY <1>3, <2>2, StandsHas
<1>4. "A" \in Devices /\ "B" \in Devices /\ blamed \subseteq blamed'
  BY DEF Devices, Grows
<1>5. \A p \in Paths : Both(stored'[p]) = Both(stored[p]) /\ Both(newStored'[p]) = Both(newStored[p])
  BY <1>1
<1>6. Bidir' = Bidir
  BY <1>1 DEF Bidir
<1>7. \A p \in Paths : Both(stored[p]) => p \in blamed' \/ (HadBefore("A", p)' /\ (Bidir => HadBefore("B", p)'))
  BY <1>2, <1>4 DEF RecordsHad
<1>8. \A p \in Paths : Both(newStored[p]) => Landed("A", p)' /\ (Bidir => Landed("B", p)')
  BY <1>3, <1>4 DEF RecordsHad
<1> QED BY <1>1, <1>6, <1>7, <1>8 DEF RecordsHad, Both

\* What the run may hear of after a step was there before it, or is true.
NewsTrue ==
    /\ asked' \in {asked, 0}
    /\ \A m \in InBox(wire', "B") :
          ~IsAnswer(m) /\ m.op \in {"send", "delete", "move"} => m \in InBox(wire, "B")
    /\ \A u \in uploads' : Own(u)' =>
          \/ \E v \in uploads : /\ Own(v) /\ u.path = v.path /\ u.at = v.at
                                /\ u.put = v.put \/ fs'[Other(u.at)][u.path] # None
          \/ u.put # "whole" /\ u.path = cur.path
    /\ \A m \in InBox(wire', "A") : Good(m)' => (m \in InBox(wire, "A") /\ Good(m)) \/ Tells(m)'
    /\ \A h \in {heard'} : h # None /\ h.ok =>
          h = heard \/ (h \in InBox(wire, "A") /\ Good(h)) \/ Tells(h)'

\* The identifiers of messages and requests.
LEMMA IdTyped ==
    ASSUME TransferTyped, NEW d \in Devices, NEW m \in InBox(wire, d)
    PROVE  m \in Message /\ ("id" \in DOMAIN m => m.id \in CallIds /\ m.id # 0)
<1>1. m \in Message
  BY InBoxDef DEF TransferTyped
<1>2. "id" \in DOMAIN m => m.id \in CallIds
  BY <1>1 DEF Message, TransferMessage, RemoteMessage
<1> QED BY <1>1, <1>2 DEF CallIds

\* What a report says stays true while the run stands.
LEMMA StandsTells ==
    ASSUME TransferTyped, RunTyped, RunFits, RunPlan, RemovedGone, Stands, Grows, Accounted,
           MoveGoesOn, Observe, NEW m, Tells(m)
    PROVE  Tells(m)'
<1>1. UNCHANGED <<phase, walked, todo, cur, job>>
  BY DEF Stands
<1>2. ASSUME phase = "manifest" PROVE Listed(m.listing)'
  <2>1. cur = None /\ Listed(m.listing)
    BY <1>2 DEF RunFits, Tells
  <2>2. ASSUME NEW p \in Paths PROVE Excused(p)' \/ m.listing[p] = MetaOf(fs["B"][p])'
    <3>1. CASE Excused(p)
      BY <3>1 DEF Excused, Grows
    <3>2. CASE fs'["B"][p] # fs["B"][p]
      BY <2>1, <3>2 DEF Accounted, Ordered, Excused, Devices
    <3>3. CASE m.listing[p] = MetaOf(fs["B"][p]) /\ fs'["B"][p] = fs["B"][p]
      BY <3>3 DEF MetaOf
    <3> QED BY <2>1, <3>1, <3>2, <3>3 DEF Listed
  <2> QED BY <2>2 DEF Listed
<1>3. Moving => Arrived'
  BY DEF Tells, MoveGoesOn
<1>4. cur # None => cur.path \in Paths
  BY DEF RunTyped, Cursor
<1>5. ASSUME cur # None, NEW d \in Devices, Landed(d, cur.path), cur.action \in {"copy-to-src", "copy-to-dst"}
      PROVE  Landed(d, cur.path)'
  <2> DEFINE p == cur.path
  <2>1. p \in Paths /\ cur' = cur
    BY <1>1, <1>4, <1>5
  <2>2. Landed(d, p)
    BY <1>5
  <2>3. p' = p
    BY <2>1
  <2> HIDE DEF p
  <2>4. \A q \in Paths : Landed(d, q) => Landed(d, q)'
    BY <1>5, StandsHas
  <2>5. Landed(d, p)' <=> \A q : q = p => Landed(d, q)'
    BY <2>3 DEF Landed, Has, Excused
  <2>6. p = cur.path
    BY DEF p
  <2> QED BY <2>1, <2>2, <2>3, <2>4, <2>5, <2>6 DEF Landed, Has, Excused
<1>6. "A" \in Devices /\ "B" \in Devices
  BY DEF Devices
<1> QED BY <1>1, <1>2, <1>3, <1>5, <1>6 DEF Tells, Moving

\* While the run stands, the invariant of its deletes is kept.
LEMMA StandsKeeps ==
    ASSUME Core, DeleteInv, Stands, Grows, Accounted, MoveGoesOn, NewsTrue, Observe
    PROVE  DeleteInv'
<1>1. UNCHANGED <<phase, walked, todo, cur, newStored, job, stored>>
  BY DEF Stands
<1>2. TransferTyped /\ RunTyped /\ RunFits
  BY DEF Core, Local
<1>3. /\ RemovedGone /\ RunPlan /\ Commands /\ WalksExact /\ MoveExact
      /\ UploadsLand /\ ReportsTrue /\ RecordsHad /\ TakenAway
  BY DEF DeleteInv
<1>4. RemovedGone'
  BY <1>3, Observed DEF Devices, RemovedGone
<1>5. RunPlan'
  BY <1>1, <1>3 DEF RunPlan, Bidir, DeleteCandidates
<1>6. Commands'
  <2>1. ASSUME NEW m \in InBox(wire', "B"), ~IsAnswer(m), Mine(m)', m.op \in {"send", "delete", "move"}
        PROVE  m \in InBox(wire, "B") /\ Mine(m)
    <3>1. m \in InBox(wire, "B")
      BY <2>1 DEF NewsTrue
    <3>2. "id" \in DOMAIN m /\ m.id = asked' /\ m.id # 0
      BY <1>2, <2>1, <3>1, IdTyped DEF Mine, Devices
    <3> QED BY <3>1, <3>2 DEF NewsTrue, Mine
  <2>2. ASSUME NEW u \in uploads', Own(u)' PROVE u.path = cur.path
    BY <1>3, <2>2 DEF NewsTrue, Commands
  <2> QED BY <1>1, <1>3, <2>1, <2>2 DEF Commands
<1>7. WalksExact'
  BY <1>3, StandsWalks
<1>8. MoveExact'
  BY <1>1, <1>3 DEF MoveExact, MoveGoesOn, Moving
<1>9. UploadsLand'
  <2>1. ASSUME NEW u \in uploads', Own(u)', u.put = "whole"
        PROVE  Landed(Other(u.at), u.path)'
    <3>1. PICK v \in uploads : /\ Own(v) /\ u.path = v.path /\ u.at = v.at
                               /\ u.put = v.put \/ fs'[Other(u.at)][u.path] # None
      BY <2>1 DEF NewsTrue
    <3>2. u.path \in Paths /\ Other(u.at) \in Devices
      BY <1>2, <3>1, OwnTyped
    <3>3. CASE fs'[Other(u.at)][u.path] # None
      BY <3>3 DEF Landed, Has
    <3>4. CASE v.put = "whole"
      <4>1. Landed(Other(u.at), u.path)
        BY <1>3, <3>1, <3>4 DEF UploadsLand
      <4>2. cur.action \notin {"move", "delete-dst"}
        <5>1. CASE v.caller = <<>>
          BY <1>2, <5>1 DEF Core, Local, CallersFit
        <5>2. CASE v.caller # <<>>
          <6>1. asked # 0 /\ Wanted = "send"
            BY <1>2, <3>1, <5>2, OwnTyped DEF Own, Core, Local, AnswersFit
          <6> QED BY <6>1 DEF Wanted
        <5> QED BY <5>1, <5>2
      <4> QED BY <1>3, <3>2, <4>1, <4>2, StandsHas
    <3> QED BY <2>1, <3>1, <3>3, <3>4
  <2> QED BY <2>1 DEF UploadsLand
<1>10. ReportsTrue'
  <2>0. ASSUME NEW m, Tells(m) PROVE Tells(m)'
    BY <1>2, <1>3, <2>0, StandsTells
  <2>1. ASSUME NEW m \in InBox(wire', "A"), Good(m)' PROVE Tells(m)'
    BY <1>3, <2>0, <2>1 DEF NewsTrue, ReportsTrue
  <2>2. ASSUME NEW h \in {heard'}, h # None, h.ok PROVE Tells(h)'
    BY <1>3, <2>0, <2>2 DEF NewsTrue, ReportsTrue
  <2> QED BY <2>1, <2>2 DEF ReportsTrue
<1>11. RecordsHad'
  BY <1>2, <1>3, StandsRecords
<1>12. TakenAway'
  <2>1. SUFFICES ASSUME Moving \/ (cur # None /\ cur.action = "delete-dst" /\ job.mode # "mirror"),
                        ~(<<"A", cur.from>> \in removed'), ~(cur.from \in touched' \cup blamed')
                 PROVE  FALSE
    BY <1>1 DEF TakenAway, Moving, Excused
  <2>2. <<"A", cur.from>> \in removed /\ cur.from \in Paths /\ cur.action # "copy-to-src"
    BY <1>2, <1>3, <2>1 DEF TakenAway, Excused, Grows, RunTyped, Cursor, Moving
  <2>3. fs'["A"][cur.from] = fs["A"][cur.from]
    BY <2>1, <2>2 DEF Accounted, Ordered, CopyTo, Devices
  <2> QED BY <1>3, <2>1, <2>2, <2>3, Observed DEF Devices
<1> QED BY <1>4, <1>5, <1>6, <1>7, <1>8, <1>9, <1>10, <1>11, <1>12 DEF DeleteInv

(*** steps that are none of the run's ***)

\* Every message that bears an identifier.
LEMMA MessageId ==
    ASSUME NEW m \in Message, "id" \in DOMAIN m
    PROVE  m.id \in CallIds /\ m.id # 0
<1>1. m.id \in CallIds
  BY DEF Message, TransferMessage, RemoteMessage
<1> QED BY <1>1 DEF CallIds

\* A rename under way stays whole if nobody else is at work on its paths unexcused.
LEMMA MoveStays ==
    ASSUME Grows, UNCHANGED <<cur, walked>>,
           Moving => \A p \in {cur.path, cur.from} : fs'["B"][p] # fs["B"][p] => p \in touched' \cup blamed'
    PROVE  MoveGoesOn
<1>1. SUFFICES ASSUME Moving PROVE (Unmoved => Unmoved') /\ (Arrived => Arrived')
  BY DEF MoveGoesOn
<1>2. \A p \in {cur.path, cur.from} : \/ p \in touched' \cup blamed'
                                      \/ fs'["B"][p] = fs["B"][p]
  BY <1>1
<1>3. \A p : p \in touched \cup blamed => p \in touched' \cup blamed'
  BY DEF Grows
<1> QED BY <1>2, <1>3 DEF Unmoved, Arrived, Excused, MetaOf

\* News that are none: messages and uploads are lost.
LEMMA NoNews ==
    ASSUME uploads' \subseteq uploads, UNCHANGED <<asked, heard>>,
           \A d \in Devices : InBox(wire', d) \subseteq InBox(wire, d)
    PROVE  NewsTrue
<1>1. "A" \in Devices /\ "B" \in Devices
  BY DEF Devices
<1>2. \A u \in uploads' : Own(u)' => Own(u)
  BY DEF Own
<1>3. \A m : Good(m)' => Good(m)
  BY DEF Good, Mine
<1>4. \A u \in uploads' : Own(u)' => \E v \in uploads : /\ Own(v) /\ u.path = v.path /\ u.at = v.at
                                                        /\ u.put = v.put
  BY <1>2
<1> QED BY <1>1, <1>3, <1>4 DEF NewsTrue

\* What an upload that has put its file reports is true.
LEMMA UploadTells ==
    ASSUME Core, DeleteInv, Stands, Grows, Accounted, Observe, NEW u \in uploads, u.put = "whole", Own(u),
           NEW m
    PROVE  Tells(m)'
<1>1. /\ TransferTyped /\ RunTyped /\ RunFits /\ CallersFit /\ AnswersFit
      /\ Commands /\ UploadsLand /\ RemovedGone /\ RunPlan
      /\ UNCHANGED <<phase, walked, todo, cur, job>>
  BY DEF Core, Local, DeleteInv, Stands
<1>2. u.path = cur.path /\ Landed(Other(u.at), u.path)
  BY <1>1 DEF Commands, UploadsLand
<1>3. /\ phase # "manifest" /\ cur # None /\ ~Moving
      /\ \/ u.at = "A" /\ cur.action = "copy-to-dst"
         \/ u.at = "B" /\ cur.action = "copy-to-src"
  <2>1. CASE u.caller = <<>>
    <3>1. u.at = "A" /\ cur # None /\ cur.action = "copy-to-dst"
      BY <1>1, <2>1 DEF CallersFit
    <3> QED BY <1>1, <3>1 DEF RunFits, Moving
  <2>2. CASE u.caller # <<>>
    <3>1. asked # 0 /\ Wanted = "send" /\ u.at = "B"
      BY <1>1, <2>2, OwnTyped DEF Own, AnswersFit, CallersFit
    <3>2. phase # "manifest" /\ cur.action = "copy-to-src"
      BY <3>1 DEF Wanted
    <3>3. cur # None
      BY <1>1, <3>1, <3>2 DEF RunFits
    <3> QED BY <3>1, <3>2, <3>3 DEF Moving
  <2> QED BY <2>1, <2>2
<1> DEFINE p == cur.path
           d == Other(u.at)
<1>4. p \in Paths /\ d \in Devices
  BY <1>1, <1>2, OwnTyped
<1>5. Landed(d, p) /\ cur.action \notin {"move", "delete-dst"}
  BY <1>2, <1>3
<1>6. \A e \in Devices, q \in Paths : Landed(e, q) => Landed(e, q)'
  BY <1>1, <1>3, StandsHas
<1>7. \A q \in Paths : Landed("A", q) => Landed("A", q)'
  BY <1>6 DEF Devices
<1>8. \A q \in Paths : Landed("B", q) => Landed("B", q)'
  BY <1>6 DEF Devices
<1>9. p' = p
  BY <1>1
<1>10. cur.path = p
  OBVIOUS
<1> HIDE DEF p
<1>11. cur.action = "copy-to-src" => Landed("A", p)'
  <2>1. cur.action = "copy-to-src" => Landed("A", p)
    BY <1>3, <1>5 DEF Other
  <2>2. Landed("A", p)' <=> \A q : q = p => Landed("A", q)'
    BY <1>9 DEF Landed, Has, Excused
  <2> QED BY <1>4, <1>7, <2>1, <2>2
<1>12. cur.action = "copy-to-dst" => Landed("B", p)'
  <2>1. cur.action = "copy-to-dst" => Landed("B", p)
    BY <1>3, <1>5 DEF Other
  <2>2. Landed("B", p)' <=> \A q : q = p => Landed("B", q)'
    BY <1>9 DEF Landed, Has, Excused
  <2> QED BY <1>4, <1>8, <2>1, <2>2
<1> QED BY <1>1, <1>3, <1>9, <1>10, <1>11, <1>12 DEF Tells, Moving, Landed, Has, Excused

\* What transfers bring to the run is true.
LEMMA TransferNewsTrue ==
    ASSUME Core, DeleteInv, AnswersFit', wire' \in Wires, Stands, Grows, Accounted, Observe, asked' = asked, TransferNews
    PROVE  NewsTrue
<1>1. TransferTyped /\ RunTyped /\ CallersFit
  BY DEF Core, Local
<1>2. "A" \in Devices /\ "B" \in Devices
  BY DEF Devices
<1>3. ASSUME NEW m \in InBox(wire', "B"), ~IsAnswer(m), m.op \in {"send", "delete", "move"}
      PROVE  m \in InBox(wire, "B")
  BY <1>2, <1>3 DEF TransferNews, Foreign
<1>4. ASSUME NEW u \in uploads', Own(u)'
      PROVE  \E v \in uploads : /\ Own(v) /\ u.path = v.path /\ u.at = v.at
                                /\ u.put = v.put \/ fs'[Other(u.at)][u.path] # None
  <2>0. Heir(u)
    BY DEF TransferNews
  <2>1. PICK v \in uploads :
            /\ u.n = v.n /\ u.caller = v.caller /\ u.path = v.path /\ u.at = v.at
            /\ u.put = v.put \/ (/\ fs'[Other(u.at)][u.path] # None
                                 /\ u.put = "whole" => fs'[Other(u.at)][u.path].data = u.expect)
    BY <2>0 DEF Heir
  <2>2. Own(v)
    BY <1>4, <2>1 DEF Own
  <2> QED BY <2>1, <2>2
<1>5. ASSUME NEW m \in InBox(wire', "A"), Good(m)'
      PROVE  (m \in InBox(wire, "A") /\ Good(m)) \/ Tells(m)'
  <2>0. Good(m)
    BY <1>5 DEF Good, Mine
  <2>1. CASE m \in InBox(wire, "A")
    BY <2>0, <2>1
  <2>2. CASE Foreign(m)
    <3>1. IsAnswer(m) /\ "id" \in DOMAIN m /\ m.id = asked /\ m.ok
      BY <2>0 DEF Good, Mine
    <3>2. CASE m.answer = "transfer"
      <4>1. asked' # 0 => m.answer = Wanted'
        BY <1>2, <1>5, <3>1 DEF AnswersFit
      <4>2. Wanted' # "transfer"
        BY DEF Wanted
      <4>3. asked = 0
        BY <3>2, <4>1, <4>2
      <4>4. m \in Message
        BY <1>2, <1>5, InBoxDef
      <4>5. m.id \in CallIds
        BY <3>1, <4>4, MessageId
      <4> QED BY <3>1, <4>3, <4>5 DEF CallIds
    <3>3. CASE m.answer = "send"
      <4>1. PICK u \in uploads : u.caller # <<>> /\ m.id = u.caller[1] /\ u.put = "whole"
        BY <2>2, <3>1, <3>3 DEF Foreign
      <4>2. Own(u)
        BY <3>1, <4>1 DEF Own
      <4> QED BY <4>1, <4>2, UploadTells
    <3> QED BY <2>2, <3>1, <3>2, <3>3 DEF Foreign
  <2> QED BY <1>2, <1>5, <2>1, <2>2 DEF TransferNews
<1>6. ASSUME NEW h \in {heard'}, h # None, h.ok
      PROVE  h = heard \/ Tells(h)'
  <2>1. CASE heard' = heard
    BY <1>6, <2>1
  <2>2. ASSUME NEW u \in uploads, u.caller = <<>>, u.put = "whole"
        PROVE  Tells(h)'
    BY <2>2, UploadTells DEF Own
  <2>3. heard' = heard \/ \E u \in uploads : u.caller = <<>> /\ (heard'.ok => u.put = "whole")
    BY DEF TransferNews
  <2> QED BY <1>6, <2>1, <2>2, <2>3
<1> QED BY <1>3, <1>4, <1>5, <1>6 DEF NewsTrue
\* Uploads and sessions go on.
LEMMA TransferStepsDelete ==
    ASSUME RemoteTypeOK, Core, Core', DeleteInv, TransferSteps, Observe
    PROVE  DeleteInv'
<1>1. /\ UploadProgress \/ \E s \in sessions : Sweep(s)
      /\ blamed' = blamed \cup Unforeseen \cup GivenUp
      /\ UNCHANGED <<settings, stored, runVars, touched>>
  BY DEF TransferSteps
<1>2. asked' = asked
  BY <1>1, TransferStays
<1>3. Stands /\ Grows /\ clock' = clock
  BY <1>1 DEF Stands, Grows, runVars, settings
<1>4. Transfers
  BY <1>1, <1>3 DEF Transfers
<1>5. TransferNews
  BY <1>4, TransfersNews
<1>6. fs \in [Devices -> [Paths -> Entry \cup {None}]] /\ RunPlan
  BY DEF Core, Local, TransferTyped, DeleteInv
<1>7. \A d \in Devices, p \in Paths : fs'[d][p] # fs[d][p] => fs'[d][p] # None
  <2>1. ASSUME NEW d \in Devices, NEW p \in Paths, NEW e \in Entry, fs' = [fs EXCEPT ![d][p] = e]
        PROVE  \A c \in Devices, q \in Paths : fs'[c][q] # fs[c][q] => fs'[c][q] # None
    BY <1>6, <2>1, NotNone
  <2> QED BY <1>5, <2>1 DEF TransferNews
<1>8. \A d \in Devices, p \in Paths : fs'[d][p] # fs[d][p] =>
         p \in blamed' \/ (cur # None /\ p = cur.path /\ cur.action = CopyTo(d))
  BY <1>1 DEF Unforeseen
<1>9. Accounted
  BY <1>7, <1>8 DEF Accounted, Ordered
<1>10. MoveGoesOn
  <2>1. ASSUME Moving, NEW p \in {cur.path, cur.from}, fs'["B"][p] # fs["B"][p]
        PROVE  p \in touched' \cup blamed'
    <3>1. p \in Paths /\ "B" \in Devices
      BY <2>1 DEF Moving, Core, RunTyped, Cursor, Devices
    <3>2. cur.action # CopyTo("B")
      BY <2>1 DEF Moving, CopyTo
    <3> QED BY <1>8, <2>1, <3>1, <3>2
  <2>2. UNCHANGED <<cur, walked>>
    BY <1>3 DEF Stands
  <2> QED BY <1>3, <2>1, <2>2, MoveStays
<1>11. NewsTrue
  BY <1>2, <1>3, <1>5, <1>9, TransferNewsTrue DEF Core, Local, TransferTyped
<1> QED BY <1>3, <1>9, <1>10, <1>11, StandsKeeps

\* The files stay as they are, and so does the run.
LEMMA FilesStayDelete ==
    ASSUME Core, DeleteInv, Stands, Grows, NewsTrue, Observe, UNCHANGED fs
    PROVE  DeleteInv'
<1>1. Accounted
  BY DEF Accounted
<1>2. MoveGoesOn
  BY MoveStays DEF Stands
<1> QED BY <1>1, <1>2, StandsKeeps

\* An answer comes too late, or never.
LEMMA TimeOutsDelete ==
    ASSUME RemoteTypeOK, Core, Core', DeleteInv, TimeOuts, Observe
    PROVE  DeleteInv'
<1>0. budget \in Budget
  BY DEF Core, RunTyped
<1>1. ASSUME NEW u \in uploads, TimesOut(u), TimeOut(u.call), blamed' = blamed \cup GivenUp,
             UNCHANGED <<NoLink, cache, stored, runVars, touched, diverged>>
      PROVE  DeleteInv'
  <2>1. UNCHANGED <<job, clock>>
    BY <1>0, <1>1, TimeOutTyped
  <2>2. UNCHANGED <<asked, fs>>
    BY <1>1 DEF TimesOut
  <2>3. Stands /\ Grows
    BY <1>1, <2>1 DEF Stands, Grows, runVars
  <2>4. TransferNews
    BY <1>1, UploadNews
  <2>5. Accounted
    BY <2>2 DEF Accounted
  <2>6. NewsTrue
    BY <2>2, <2>3, <2>4, <2>5, TransferNewsTrue DEF Core, Local, TransferTyped
  <2> QED BY <2>2, <2>3, <2>6, FilesStayDelete
<1>2. ASSUME asked # 0, asked' = 0, heard' = Unheard, TimeOut(asked), blamed' = blamed \cup Pursued,
             UNCHANGED <<fs, UploadsOnly, linkVars, stored, runVars, touched>>
      PROVE  DeleteInv'
  <2>1. UNCHANGED <<job, clock>>
    BY <1>0, <1>2, TimeOutTyped
  <2>2. Stands /\ Grows
    BY <1>2, <2>1 DEF Stands, Grows, runVars
  <2>3. UNCHANGED <<uploads, wire>>
    BY <1>2 DEF UploadsOnly, linkVars
  <2>4. TransferTyped /\ "A" \in Devices /\ "B" \in Devices
    BY DEF Core, Local, Devices
  <2>5. ASSUME NEW u \in uploads', Own(u)'
        PROVE  \E v \in uploads : /\ Own(v) /\ u.path = v.path /\ u.at = v.at
                                  /\ u.put = v.put
    <3>1. u \in uploads /\ (u.caller = <<>> \/ u.caller[1] = 0)
      BY <1>2, <2>3, <2>5 DEF Own
    <3>2. u.caller = <<>>
      BY <2>4, <3>1, OwnTyped
    <3> QED BY <3>1, <3>2 DEF Own
  <2>6. ASSUME NEW m \in InBox(wire', "A"), Good(m)' PROVE FALSE
    <3>1. m \in InBox(wire, "A") /\ "id" \in DOMAIN m /\ m.id = 0
      BY <1>2, <2>3, <2>6 DEF Good, Mine
    <3> QED BY <2>4, <3>1, IdTyped
  <2>7. ~heard'.ok
    BY <1>2 DEF Unheard
  <2>8. NewsTrue
    BY <1>2, <2>3, <2>5, <2>6, <2>7 DEF NewsTrue
  <2> QED BY <1>2, <2>2, <2>8, FilesStayDelete
<1> QED BY <1>1, <1>2 DEF TimeOuts

\* A transport comes, breaks or closes; the user cancels.
LEMMA LinkDelete ==
    ASSUME RemoteTypeOK, Core, DeleteInv, LinkRecovers \/ LinkBreaks \/ Cancel, Observe
    PROVE  DeleteInv'
<1>1. LinkTyped /\ wire \in Wires /\ budget \in Budget /\ {"break", "cancel"} \subseteq Faults /\ "A" \in Devices
  BY DEF Core, Local, TransferTyped, RunTyped, Faults, Devices
<1>2. wire' = wire \/ \E ts : wire' = Lost(ts)
  <2>1. CASE LinkBreaks
    BY <1>1, <2>1, LinkMoves DEF LinkBreaks
  <2>2. CASE LinkRecovers
    BY <1>1, <2>2, LinkMoves DEF LinkRecovers
  <2>3. CASE Cancel
    BY <2>3 DEF Cancel, EngineStays, linkVars
  <2> QED BY <2>1, <2>2, <2>3
<1>3. UNCHANGED <<job, fs, uploads, asked, heard, stored, runVars, touched, blamed>>
  <2>1. CASE LinkBreaks
    BY <1>1, <2>1, FaultyTyped DEF LinkBreaks, transferVars
  <2>2. CASE LinkRecovers
    BY <1>1, <2>2 DEF LinkRecovers, settings, transferVars
  <2>3. CASE Cancel
    BY <1>1, <2>3, FaultyTyped DEF Cancel, EngineStays
  <2> QED BY <2>1, <2>2, <2>3
<1>4. Stands /\ Grows
  BY <1>3 DEF Stands, Grows, runVars
<1>5. NewsTrue
  BY <1>2, <1>3, WireAfter, NoNews
<1> QED BY <1>3, <1>4, <1>5, FilesStayDelete

\* B's process dies.
LEMMA OtherDiesDelete ==
    ASSUME RemoteTypeOK, Core, DeleteInv, AgentDies("B"), Observe
    PROVE  DeleteInv'
<1>1. LinkTyped /\ wire \in Wires /\ budget \in Budget /\ "crash" \in Faults /\ "B" \in Devices
  BY DEF Core, Local, TransferTyped, RunTyped, Faults, Devices
<1>2. wire' = wire \/ \E ts : wire' = Lost(ts)
  BY <1>1, LinkMoves DEF AgentDies
<1>3. job' = job
  BY <1>1, FaultyTyped DEF AgentDies, settings
<1>4. /\ uploads' \subseteq uploads /\ blamed' = blamed \cup GivenUp
      /\ UNCHANGED <<fs, stored, touched, runVars, asked, heard>>
  BY DEF AgentDies
<1>5. Stands /\ Grows
  BY <1>3, <1>4 DEF Stands, Grows, runVars
<1>6. NewsTrue
  BY <1>2, <1>4, WireAfter, NoNews
<1> QED BY <1>4, <1>5, <1>6, FilesStayDelete

\* The user edits what he likes.
LEMMA UserStepsDelete ==
    ASSUME RemoteTypeOK, Core, DeleteInv, UserSteps, Observe
    PROVE  DeleteInv'
<1>1. /\ fs \in [Devices -> [Paths -> Entry \cup {None}]] /\ wire \in Wires
      /\ clock \in Nat /\ cur \in Cursor \cup {None}
  BY DEF Core, Local, TransferTyped, RunTyped
<1>2. PICK d \in Devices, ps \in SUBSET Paths : \E tree :
         /\ UserActs(d, tree, ps) /\ blamed \subseteq blamed'
         /\ \A p \in Paths \ ps : tree[p] = fs[d][p]
  <2>1. PICK d \in Devices, p \in Paths :
           \/ \E size \in budget.sizes : UserWrites(d, p, size)
           \/ UserDeletes(d, p)
           \/ \E q \in Paths : UserRenames(d, p, q)
    BY DEF UserSteps
  <2>2. ASSUME NEW size \in budget.sizes, UserWrites(d, p, size)
        PROVE  \E tree : /\ UserActs(d, tree, {p}) /\ blamed \subseteq blamed'
                         /\ \A r \in Paths \ {p} : tree[r] = fs[d][r]
    <3> DEFINE e == [data |-> clock + 1, size |-> size, mtimeMs |-> clock + 1]
               tree == [fs[d] EXCEPT ![p] = e]
    <3>1. UserActs(d, tree, {p}) /\ blamed' = blamed
      BY <2>2 DEF UserWrites
    <3> HIDE DEF e
    <3>2. \A r \in Paths \ {p} : tree[r] = fs[d][r]
      OBVIOUS
    <3> QED BY <3>1, <3>2
  <2>3. ASSUME UserDeletes(d, p)
        PROVE  \E tree : /\ UserActs(d, tree, {p}) /\ blamed \subseteq blamed'
                         /\ \A r \in Paths \ {p} : tree[r] = fs[d][r]
    <3> DEFINE tree == [fs[d] EXCEPT ![p] = None]
    <3>1. UserActs(d, tree, {p}) /\ blamed' = blamed
      BY <2>3 DEF UserDeletes
    <3>2. \A r \in Paths \ {p} : tree[r] = fs[d][r]
      OBVIOUS
    <3> QED BY <3>1, <3>2
  <2>4. ASSUME NEW q \in Paths, UserRenames(d, p, q)
        PROVE  \E tree : /\ UserActs(d, tree, {p, q}) /\ blamed \subseteq blamed'
                         /\ \A r \in Paths \ {p, q} : tree[r] = fs[d][r]
    <3> DEFINE e == fs[d][p]
               tree == [fs[d] EXCEPT ![q] = e, ![p] = None]
    <3>1. UserActs(d, tree, {p, q}) /\ blamed' = Follows(blamed, p, q)
      BY <2>4 DEF UserRenames
    <3> HIDE DEF e
    <3>2. \A r \in Paths \ {p, q} : tree[r] = fs[d][r]
      <4>1. fs[d] \in [Paths -> Entry \cup {None}]
        BY <1>1
      <4> QED BY <4>1
    <3>3. blamed \subseteq blamed'
      BY <3>1 DEF Follows
    <3> HIDE DEF tree
    <3> QED BY <3>1, <3>2, <3>3
  <2>5. \E x \in SUBSET Paths : \E tree : /\ UserActs(d, tree, x) /\ blamed \subseteq blamed'
                                          /\ \A r \in Paths \ x : tree[r] = fs[d][r]
    <3>1. CASE (\E size \in budget.sizes : UserWrites(d, p, size)) \/ UserDeletes(d, p)
      <4>1. {p} \in SUBSET Paths
        OBVIOUS
      <4> QED BY <2>2, <2>3, <3>1, <4>1
    <3>2. ASSUME NEW q \in Paths, UserRenames(d, p, q)
          PROVE  \E x \in SUBSET Paths : \E tree : /\ UserActs(d, tree, x) /\ blamed \subseteq blamed'
                                                   /\ \A r \in Paths \ x : tree[r] = fs[d][r]
      <4>1. {p, q} \in SUBSET Paths
        OBVIOUS
      <4> QED BY <2>4, <3>2, <4>1
    <3> QED BY <2>1, <3>1, <3>2
  <2> QED BY <2>5
<1>3. PICK tree : /\ UserActs(d, tree, ps) /\ blamed \subseteq blamed'
                  /\ \A p \in Paths \ ps : tree[p] = fs[d][p]
  BY <1>2
<1>4. /\ clock' = clock + 1 /\ fs' = [fs EXCEPT ![d] = tree] /\ touched' = touched \cup ps
      /\ UNCHANGED <<job, wire, uploads, asked, heard, stored, runVars>>
  BY <1>3 DEF UserActs, EngineStays, linkVars
<1>5. Stands /\ Grows
  BY <1>3, <1>4 DEF Stands, Grows, runVars
<1>6. \A c \in Devices, p \in Paths : fs'[c][p] # fs[c][p] => p \in touched'
  <2>1. ASSUME NEW c \in Devices, NEW p \in Paths, p \notin ps PROVE fs'[c][p] = fs[c][p]
    <3>1. fs'[c] = IF c = d THEN tree ELSE fs[c]
      BY <1>1, <1>4
    <3> QED BY <1>3, <2>1, <3>1
  <2> QED BY <1>4, <2>1
<1>7. clock' # clock
  BY <1>1, <1>4
<1>8. Accounted
  BY <1>6, <1>7 DEF Accounted
<1>9. MoveGoesOn
  <2>1. ASSUME Moving, NEW p \in {cur.path, cur.from}, fs'["B"][p] # fs["B"][p]
        PROVE  p \in touched' \cup blamed'
    <3>1. p \in Paths /\ "B" \in Devices
      BY <1>1, <2>1 DEF Moving, Cursor, Devices
    <3> QED BY <1>6, <2>1, <3>1
  <2>2. UNCHANGED <<cur, walked>>
    BY <1>5 DEF Stands
  <2> QED BY <1>5, <2>1, <2>2, MoveStays
<1>10. NewsTrue
  BY <1>4, NoNews
<1> QED BY <1>5, <1>8, <1>9, <1>10, StandsKeeps
(*** B's handlers ***)

\* What a request that bears the run's identifier says of the run.
LEMMA RequestTells ==
    ASSUME Core, NEW m \in InBox(wire, "B"), ~IsAnswer(m), Mine(m)
    PROVE  /\ asked # 0 /\ heard = None
           /\ m.op = "manifest" => phase = "manifest" /\ cur = None
           /\ m.op # "manifest" => phase # "manifest" /\ cur # None
           /\ m.op = "signature" => cur.step = "signature" /\ cur.action = "copy-to-dst"
           /\ m.op = "send" => cur.action = "copy-to-src"
           /\ m.op \in {"move", "delete"} => cur.action \notin {"copy-to-src", "copy-to-dst"}
<1>1. TransferTyped /\ RunFits /\ AnswersFit /\ "B" \in Devices
  BY DEF Core, Local, Devices
<1>2. asked # 0
  BY <1>1, IdTyped DEF Mine
<1>3. Wanted = AnswerTo(m.op)
  BY <1>1, <1>2 DEF AnswersFit, Mine
<1>4. phase # "manifest" => cur # None
  BY <1>1, <1>2 DEF RunFits
<1>5. phase = "manifest" => cur = None
  BY <1>1 DEF RunFits
<1>6. cur # None => (cur.step = "signature" => cur.action = "copy-to-dst")
  BY <1>1 DEF RunFits
<1>7. heard = None
  BY <1>1, <1>2 DEF RunFits
<1>8. m.op \in {"start", "finish", "abort", "chunk", "manifest", "signature", "delete", "send", "move"}
  <2>1. m \in Message
    BY <1>1, IdTyped
  <2> QED BY <2>1 DEF Message, TransferMessage, RemoteMessage, IsAnswer
<1> QED BY <1>2, <1>3, <1>4, <1>5, <1>6, <1>7, <1>8 DEF Wanted, AnswerTo

\* A handler answers truly.
LEMMA HandlerNews ==
    ASSUME Core, NEW t \in Transports, wire["B"][t] # <<>>, NEW a \in Message, IsAnswer(a),
           wire' = Answered(Taken("B", t), "B", t, a), UNCHANGED <<uploads, asked, heard>>,
           \A x \in {a} : Good(x) => Tells(x)'
    PROVE  NewsTrue
<1>1. wire \in Wires /\ "B" \in Devices /\ "A" \in Devices
  BY DEF Core, Local, TransferTyped, Devices
<1> DEFINE w == Taken("B", t)
<1>2. w \in Wires /\ \A e \in Devices : InBox(w, e) \subseteq InBox(wire, e)
  BY <1>1, TakenWire
<1>3. wire' = Answered(w, "B", t, a)
  OBVIOUS
<1> HIDE DEF w
<1>4. Carries(wire', w, Other("B"), a)
  BY <1>1, <1>2, <1>3, SentWire
<1>5. \A e \in Devices : \A x \in InBox(wire', e) : x \in InBox(wire, e) \/ x = a
  BY <1>2, <1>4 DEF Carries
<1>6. \A m : Good(m)' => Good(m)
  BY DEF Good, Mine
<1>7. \A u \in uploads' : Own(u)' => Own(u) /\ u \in uploads
  BY DEF Own
<1>8. \A m \in InBox(wire', "A") : Good(m)' => (m \in InBox(wire, "A") /\ Good(m)) \/ Tells(m)'
  <2>1. ASSUME NEW m \in InBox(wire', "A"), Good(m)' PROVE (m \in InBox(wire, "A") /\ Good(m)) \/ Tells(m)'
    <3>1. CASE m \in InBox(wire, "A")
      BY <1>6, <2>1, <3>1
    <3>2. CASE m = a
      BY <1>6, <2>1, <3>2
    <3> QED BY <1>1, <1>5, <3>1, <3>2
  <2> QED BY <2>1
<1>9. \A m \in InBox(wire', "B") :
          ~IsAnswer(m) /\ m.op \in {"send", "delete", "move"} => m \in InBox(wire, "B")
  BY <1>1, <1>5
<1>10. \A u \in uploads' : Own(u)' => \E v \in uploads : /\ Own(v) /\ u.path = v.path /\ u.at = v.at
                                                         /\ u.put = v.put
  BY <1>7
<1> QED BY <1>8, <1>9, <1>10 DEF NewsTrue

\* B renames: the file is then under its new name as the run knows it.
LEMMA MoveArrives ==
    ASSUME Core, DeleteInv, NEW m, Is(m, "move"), Mine(m), m \in InBox(wire, "B"),
           fs["B"][m.from] # None,
           fs' = [fs EXCEPT !["B"] = Moved(@, m.from, m.to, m.meta.mtimeMs)],
           touched' = Follows(touched, m.from, m.to), Follows(blamed, m.from, m.to) \subseteq blamed',
           UNCHANGED <<cur, walked>>
    PROVE  Moving /\ Arrived'
<1>1. /\ cur # None /\ cur.action = "move" /\ m.from = cur.from /\ m.to = cur.path
      /\ m.meta = walked["A"][cur.path] /\ cur.path # cur.from
  <2>1. ~IsAnswer(m) /\ m.op = "move"
    BY DEF Is
  <2>2. cur # None
    BY <2>1, RequestTells
  <2> QED BY <2>1, <2>2 DEF DeleteInv, Commands, RunPlan
<1>2. /\ fs \in [Devices -> [Paths -> Entry \cup {None}]] /\ "B" \in Devices /\ "A" \in Devices
      /\ walked \in [Devices -> Listing] /\ cur.path \in Paths /\ cur.from \in Paths
  BY <1>1 DEF Core, Local, TransferTyped, RunTyped, Devices, Cursor
<1> DEFINE p == cur.from  q == cur.path  e == fs["B"][p]  w == walked["A"][q]
<1>3. /\ p \in Paths /\ q \in Paths /\ p # q /\ e \in Entry /\ w \in Meta
      /\ walked["B"][p].size = w.size
      /\ Unmoved \/ Arrived
  <2>1. e \in Entry
    BY <1>1, <1>2
  <2>2. w # None /\ walked["B"][p].size = w.size /\ (Unmoved \/ Arrived)
    BY <1>1 DEF DeleteInv, MoveExact, Moving
  <2>3. w \in Meta
    BY <1>2, <2>2 DEF Listing
  <2> QED BY <1>1, <1>2, <2>1, <2>2, <2>3
<1>4. fs'["B"][p] = None /\ fs'["B"][q] = [e EXCEPT !.mtimeMs = w.mtimeMs]
  <2> DEFINE tree == fs["B"]
             x == [e EXCEPT !.mtimeMs = w.mtimeMs]
  <2>1. fs' = [fs EXCEPT !["B"] = Moved(tree, p, q, w.mtimeMs)]
    BY <1>1, <1>2
  <2>2. Moved(tree, p, q, w.mtimeMs) = [tree EXCEPT ![q] = x, ![p] = None]
    BY DEF Moved
  <2>3. tree \in [Paths -> Entry \cup {None}]
    BY <1>2
  <2> HIDE DEF tree, x, p, q, w
  <2>4. fs'["B"] = [tree EXCEPT ![q] = x, ![p] = None]
    BY <1>2, <2>1, <2>2
  <2>5. fs'["B"][p] = None /\ fs'["B"][q] = x
    BY <1>3, <2>3, <2>4
  <2> QED BY <2>5 DEF x
<1>5. p \in touched \cup blamed => q \in touched' \cup blamed'
  BY <1>1 DEF Follows
<1>6. q \in touched' \cup blamed' \/ MetaOf(fs'["B"][q]) = w
  <2>1. CASE p \in touched \cup blamed
    BY <1>5, <2>1
  <2>2. CASE p \notin touched \cup blamed
    <3>0. ~Excused(cur.from) /\ fs["B"][cur.from] # None
      BY <1>1, <2>2 DEF Excused
    <3>1. MetaOf(e) = walked["B"][p]
      <4>1. CASE Unmoved
        BY <3>0, <4>1 DEF Unmoved
      <4>2. CASE Arrived
        BY <3>0, <4>2 DEF Arrived
      <4> QED BY <1>3, <4>1, <4>2
    <3>2. e # None /\ fs'["B"][q] # None
      <4>1. fs'["B"][q] \in Entry
        BY <1>3, <1>4 DEF Entry, Meta
      <4> QED BY <1>3, <4>1, NotNone
    <3>3. e.size = w.size
      BY <1>3, <3>1, <3>2 DEF MetaOf
    <3>4. fs'["B"][q].size = e.size /\ fs'["B"][q].mtimeMs = w.mtimeMs
      BY <1>3, <1>4 DEF Entry
    <3>5. MetaOf(fs'["B"][q]) = [size |-> w.size, mtimeMs |-> w.mtimeMs]
      BY <3>2, <3>3, <3>4 DEF MetaOf
    <3>6. w = [size |-> w.size, mtimeMs |-> w.mtimeMs]
      BY <1>3 DEF Meta
    <3> QED BY <3>5, <3>6
  <2> QED BY <2>1, <2>2
<1>7. Moving
  BY <1>1 DEF Moving
<1>8. Arrived'
  BY <1>4, <1>6 DEF Arrived, Excused
<1> QED BY <1>7, <1>8
\* The run's requests are handled at B.
LEMMA RequestHandledDelete ==
    ASSUME RemoteTypeOK, Core, Core', DeleteInv, NEW t \in Transports, wire["B"][t] # <<>>,
           RequestHandled(t), Observe
    PROVE  DeleteInv'
<1> DEFINE m == Head(wire["B"][t])
<1>1. /\ ~IsAnswer(m)
      /\ HandleManifest(t, m) \/ HandleSignature(t, m) \/ HandleSend(t, m)
            \/ HandleMove(t, m) \/ HandleDelete(t, m)
      /\ UNCHANGED <<asked, heard, settings, stored, runVars>>
  BY DEF RequestHandled
<1>2. wire \in Wires /\ "B" \in Devices
  BY DEF Core, Local, TransferTyped, Devices
<1>3. m \in Message /\ m \in InBox(wire, "B") /\ "id" \in DOMAIN m => m.id \in CallIds
  BY <1>2, TakenWire, MessageId
<1>4. m \in Message /\ m \in InBox(wire, "B") /\ Taken("B", t) \in Wires
      /\ \A e \in Devices : InBox(Taken("B", t), e) \subseteq InBox(wire, e)
  BY <1>2, TakenWire
<1>5. /\ fs \in [Devices -> [Paths -> Entry \cup {None}]]
      /\ fs["B"] \in [Paths -> Entry \cup {None}]
      /\ cache \in Listing \cup {None} /\ Commands /\ RunPlan
  BY <1>2 DEF Core, Local, TransferTyped, RunTyped, DeleteInv
<1>6. UNCHANGED <<phase, walked, todo, cur, newStored, movedSums, stored, job, clock, asked, heard>>
  BY <1>1 DEF runVars, settings
<1>7. Stands
  BY <1>6 DEF Stands
<1> HIDE DEF m
<1>8. CASE HandleManifest(t, m)
  <2>1. PICK listing \in {ListingOf("B")} \cup ({cache} \ {None}) :
           /\ blamed' = blamed \cup {p \in Paths : listing[p] # ListingOf("B")[p]}
           /\ wire' = Answered(Taken("B", t), "B", t, [answer |-> "manifest", id |-> m.id,
                                                       ok |-> TRUE, listing |-> listing])
    BY <1>8 DEF HandleManifest
  <2>2. ListingOf("B") \in Listing
    BY <1>5 DEF ListingOf, Listing, MetaOf, Entry, Meta
  <2>3. listing \in Listing
    BY <1>5, <2>2
  <2>4. m.op = "manifest" /\ UNCHANGED <<fs, uploads, touched>>
    BY <1>8 DEF HandleManifest, UploadsOnly
  <2>5. m.id \in CallIds /\ "id" \in DOMAIN m
    BY <1>1, <1>4, <2>4, MessageTypes DEF Is
  <2> DEFINE a == [answer |-> "manifest", id |-> m.id, ok |-> TRUE, listing |-> listing]
  <2>6. a \in Message /\ IsAnswer(a) /\ a.id = m.id /\ a.listing = listing
    BY <2>3, <2>5, AnswerForms
  <2>7. Grows
    BY <2>1, <2>4 DEF Grows
  <2>8. ASSUME NEW x \in {a}, Good(x) PROVE Tells(x)'
    <3>1. phase = "manifest" /\ cur = None
      BY <1>1, <1>4, <2>4, <2>5, <2>6, <2>8, RequestTells DEF Good, Mine
    <3>2. \A p \in Paths : p \in blamed' \/ listing[p] = MetaOf(fs'["B"][p])
      BY <2>1, <2>4 DEF ListingOf
    <3>3. Listed(listing)'
      BY <3>2 DEF Listed, Excused
    <3>4. x.listing = listing
      BY <2>6, <2>8
    <3> QED BY <1>6, <3>1, <3>3, <3>4 DEF Tells, Moving
  <2>9. wire' = Answered(Taken("B", t), "B", t, a)
    BY <2>1
  <2> HIDE DEF a
  <2>10. NewsTrue
    BY <1>6, <2>4, <2>6, <2>8, <2>9, HandlerNews
  <2> QED BY <1>7, <2>4, <2>7, <2>10, FilesStayDelete
<1>9. CASE HandleSignature(t, m)
  <2> DEFINE e == fs["B"][m.path]  ok == (e # None)  basis == IF e = None THEN None ELSE e.data
  <2>1. m.op = "signature" /\ UNCHANGED <<fs, uploads, blamed, touched>>
    BY <1>9 DEF HandleSignature, UploadsOnly
  <2>2. m.id \in CallIds /\ "id" \in DOMAIN m /\ m.path \in Paths
    BY <1>1, <1>4, <2>1, MessageTypes DEF Is
  <2>3. ok \in BOOLEAN /\ basis \in Contents \cup {None}
    BY <1>5, <2>2 DEF Entry
  <2>4. wire' = Answered(Taken("B", t), "B", t,
                      [answer |-> "signature", id |-> m.id, ok |-> ok, basis |-> basis])
    BY <1>9 DEF HandleSignature
  <2> HIDE DEF ok, basis
  <2> DEFINE a == [answer |-> "signature", id |-> m.id, ok |-> ok, basis |-> basis]
  <2>5. a \in Message /\ IsAnswer(a) /\ a.id = m.id
    BY <2>2, <2>3, AnswerForms
  <2>6. wire' = Answered(Taken("B", t), "B", t, a)
    BY <2>4
  <2> HIDE DEF a
  <2>7. ASSUME NEW x \in {a}, Good(x) PROVE Tells(x)'
    <3>1. /\ phase # "manifest" /\ cur.step = "signature" /\ cur.action = "copy-to-dst"
      BY <1>1, <1>4, <2>1, <2>2, <2>5, <2>7, RequestTells DEF Good, Mine
    <3> QED BY <1>6, <3>1 DEF Tells, Moving
  <2>8. Grows
    BY <2>1 DEF Grows
  <2>9. NewsTrue
    BY <1>6, <2>1, <2>5, <2>6, <2>7, HandlerNews
  <2> QED BY <1>7, <2>1, <2>8, <2>9, FilesStayDelete
<1>10. CASE HandleSend(t, m)
  <2>1. m.op = "send" /\ UNCHANGED <<fs, blamed, touched>>
    BY <1>10 DEF HandleSend
  <2>2. m.id \in CallIds /\ "id" \in DOMAIN m /\ m.path \in Paths
    BY <1>1, <1>4, <2>1, MessageTypes DEF Is
  <2>3. Grows
    BY <2>1 DEF Grows
  <2> DEFINE e == fs["B"][m.path]
  <2>4. CASE e = None
    <3>1. /\ wire' = Answered(Taken("B", t), "B", t, [answer |-> "send", id |-> m.id,
                                                      ok |-> FALSE, sum |-> None])
          /\ UNCHANGED uploads
      BY <1>10, <2>4 DEF HandleSend, UploadsOnly
    <3> DEFINE a == [answer |-> "send", id |-> m.id, ok |-> FALSE, sum |-> None]
    <3>2. a \in Message /\ IsAnswer(a) /\ ~a.ok
      BY <2>2, AnswerForms
    <3>3. wire' = Answered(Taken("B", t), "B", t, a)
      BY <3>1
    <3> HIDE DEF a
    <3>4. NewsTrue
      BY <1>6, <3>1, <3>2, <3>3, HandlerNews DEF Good
    <3> QED BY <1>7, <2>1, <2>3, <3>4, FilesStayDelete
  <2>5. CASE e # None
    <3>1. wire' = Taken("B", t) /\ \E n, kind, basis :
             uploads' = uploads \cup {Uploading(n, "B", <<m.id, t>>, m.path, kind, MetaOf(e), e, basis)}
      <4> DEFINE x == MetaOf(e)
      <4> HIDE DEF x, e
      <4>1. wire' = Taken("B", t) /\ \E n \in FreshNumbers, kind \in {"delta", "full"} :
             Begun(Uploading(n, "B", <<m.id, t>>, m.path, kind, x, e,
                             IF kind = "delta" THEN m.basis ELSE None))
        BY <1>10, <2>5 DEF HandleSend, x, e
      <4> QED BY <4>1 DEF Begun, x, e
    <3>2. PICK n, kind, basis :
             uploads' = uploads \cup {Uploading(n, "B", <<m.id, t>>, m.path, kind, MetaOf(e), e, basis)}
      BY <3>1
    <3> DEFINE u == Uploading(n, "B", <<m.id, t>>, m.path, kind, MetaOf(e), e, basis)
    <3>3. u.put = "no" /\ u.caller = <<m.id, t>> /\ u.path = m.path
      BY DEF Uploading
    <3>4. uploads' = uploads \cup {u}
      BY <3>2
    <3> HIDE DEF u
    <3>5. \A x \in {u} : Own(x)' => x.path = cur.path
      <4>1. u.caller # <<>> /\ u.caller[1] = m.id
        BY <3>3
      <4>2. ASSUME m.id = asked PROVE m.path = cur.path
        <5>1. Mine(m)
          BY <2>2, <4>2 DEF Mine
        <5> QED BY <1>1, <1>4, <1>5, <2>1, <5>1 DEF Commands
      <4> QED BY <1>6, <3>3, <4>1, <4>2 DEF Own
    <3>6. \A x \in uploads : Own(x)' => Own(x)
      BY <1>6 DEF Own
    <3>7. NewsTrue
      <4>1. \A x \in uploads' : Own(x)' =>
              \/ \E v \in uploads : /\ Own(v) /\ x.path = v.path /\ x.at = v.at
                                    /\ x.put = v.put \/ fs'[Other(x.at)][x.path] # None
              \/ x.put # "whole" /\ x.path = cur.path
        <5>1. ASSUME NEW x \in uploads', Own(x)', x \in uploads
              PROVE  \E v \in uploads : /\ Own(v) /\ x.path = v.path /\ x.at = v.at
                                        /\ x.put = v.put
          BY <3>6, <5>1
        <5>2. ASSUME NEW x \in uploads', Own(x)', x = u
              PROVE  x.put # "whole" /\ x.path = cur.path
          BY <3>3, <3>5, <5>2
        <5> QED BY <3>4, <5>1, <5>2
      <4>2. "A" \in Devices
        BY DEF Devices
      <4>3. \A x \in InBox(wire', "A") : Good(x)' => x \in InBox(wire, "A") /\ Good(x)
        BY <1>4, <1>6, <3>1, <4>2 DEF Good, Mine
      <4> QED BY <1>2, <1>4, <1>6, <3>1, <4>1, <4>3 DEF NewsTrue
    <3> QED BY <1>7, <2>1, <2>3, <3>7, FilesStayDelete
  <2> QED BY <2>4, <2>5
<1>11. CASE HandleMove(t, m)
  <2> DEFINE there == (fs["B"][m.from] # None)
  <2>1. m.op = "move" /\ UNCHANGED uploads
    BY <1>11 DEF HandleMove, UploadsOnly
  <2>2. /\ m.id \in CallIds /\ "id" \in DOMAIN m /\ m.from \in Paths /\ m.to \in Paths
        /\ m.meta \in Meta /\ Is(m, "move")
    BY <1>1, <1>4, <2>1, MessageTypes DEF Is
  <2>3. wire' = Answered(Taken("B", t), "B", t, [answer |-> "done", id |-> m.id, ok |-> there])
    BY <1>11 DEF HandleMove, Done
  <2>4. there => /\ fs' = [fs EXCEPT !["B"] = Moved(@, m.from, m.to, m.meta.mtimeMs)]
                 /\ touched' = Follows(touched, m.from, m.to)
                 /\ Follows(blamed, m.from, m.to) \subseteq blamed'
                 /\ Late(m, {m.from, m.to}) \subseteq blamed'
    BY <1>11 DEF HandleMove
  <2>5. ~there => UNCHANGED <<fs, touched, blamed>>
    BY <1>11 DEF HandleMove
  <2>6. there \in BOOLEAN
    OBVIOUS
  <2>7. there /\ Mine(m) => Moving /\ Arrived'
    BY <1>4, <1>6, <2>2, <2>4, MoveArrives
  <2>8. Mine(m) => /\ cur # None /\ cur.action = "move" /\ m.from = cur.from /\ m.to = cur.path
                   /\ phase # "manifest"
    BY <1>1, <1>4, <1>5, <2>1, RequestTells DEF Commands
  <2>9. \A d \in Devices, p \in Paths : fs'[d][p] # fs[d][p] => there /\ d = "B" /\ p \in {m.from, m.to}
    <3>1. CASE there
      <4> DEFINE tree == Moved(fs["B"], m.from, m.to, m.meta.mtimeMs)
      <4>1. fs' = [fs EXCEPT !["B"] = tree]
        BY <1>2, <1>5, <2>4, <3>1
      <4>2. \A p \in Paths : p \notin {m.from, m.to} => tree[p] = fs["B"][p]
        BY <1>5, <2>2 DEF Moved
      <4> HIDE DEF tree
      <4> QED BY <1>2, <1>5, <3>1, <4>1, <4>2
    <3>2. CASE ~there
      BY <2>5, <3>2
    <3> QED BY <3>1, <3>2
  <2>10. there /\ ~Mine(m) => {m.from, m.to} \subseteq blamed'
    BY <2>2, <2>4 DEF Late, Mine
  <2>11. there /\ Mine(m) => \A p \in Paths : p # m.from => fs'["B"][p] # None \/ fs["B"][p] = None
    <3>1. ASSUME there, Mine(m), NEW p \in Paths, p # m.from, fs["B"][p] # None PROVE fs'["B"][p] # None
      <4> DEFINE tree == fs["B"]
                 x == [tree[m.from] EXCEPT !.mtimeMs = m.meta.mtimeMs]
      <4>1. fs' = [fs EXCEPT !["B"] = [tree EXCEPT ![m.to] = x, ![m.from] = None]]
        BY <1>2, <1>5, <2>4, <3>1 DEF Moved
      <4>2. tree[m.from] \in Entry
        BY <1>5, <2>2, <3>1
      <4>3. m.meta.mtimeMs \in Times
        BY <2>2 DEF Meta
      <4>4. x \in Entry
        BY <4>2, <4>3 DEF Entry
      <4>5. tree[p] # None /\ tree \in [Paths -> Entry \cup {None}]
        BY <1>5, <3>1
      <4> HIDE DEF tree, x
      <4>6. fs'["B"] = [tree EXCEPT ![m.to] = x, ![m.from] = None]
        BY <1>2, <1>5, <4>1
      <4> QED BY <2>2, <3>1, <4>4, <4>5, <4>6, NotNone
    <3> QED BY <3>1
  <2> HIDE DEF there
  <2>12. Grows
    <3>1. touched \subseteq Follows(touched, m.from, m.to) /\ blamed \subseteq Follows(blamed, m.from, m.to)
      BY DEF Follows
    <3> QED BY <2>4, <2>5, <3>1 DEF Grows
  <2>13. Accounted
    <3>1. ASSUME NEW d \in Devices, NEW p \in Paths, fs'[d][p] # fs[d][p], p \notin blamed'
          PROVE  /\ cur # None /\ d = "B" /\ p \in {cur.path, cur.from} /\ cur.action = "move"
                 /\ fs[d][p] # None /\ fs'[d][p] = None => p = cur.from
      BY <2>8, <2>9, <2>10, <2>11, <3>1
    <3>2. \A d \in Devices, p \in Paths :
             fs'[d][p] # fs[d][p] => p \in touched' \cup blamed' \/ Ordered(d, p)
      BY <3>1 DEF Ordered
    <3>3. ASSUME NEW d \in Devices, NEW p \in Paths, fs[d][p] # None, fs'[d][p] = None
          PROVE  \/ p \in blamed'
                 \/ d = "B" /\ cur # None /\ p = cur.from /\ cur.action \in {"move", "delete-dst"}
      BY <3>1, <3>3
    <3> QED BY <3>2, <3>3 DEF Accounted
  <2>14. MoveGoesOn
    <3>1. CASE there /\ Mine(m)
      BY <2>7, <3>1 DEF MoveGoesOn
    <3>2. CASE ~(there /\ Mine(m))
      <4>1. ASSUME Moving, NEW p \in {cur.path, cur.from}, fs'["B"][p] # fs["B"][p]
            PROVE  p \in touched' \cup blamed'
        <5>1. p \in Paths
          BY <4>1 DEF Moving, Core, RunTyped, Cursor
        <5> QED BY <1>2, <2>9, <2>10, <3>2, <4>1, <5>1
      <4> QED BY <1>6, <2>12, <4>1, MoveStays
    <3> QED BY <3>1, <3>2
  <2> DEFINE a == [answer |-> "done", id |-> m.id, ok |-> there]
  <2>15. a \in Message /\ IsAnswer(a) /\ a.id = m.id /\ a.ok = there
    BY <2>2, <2>6, AnswerForms DEF there
  <2>16. wire' = Answered(Taken("B", t), "B", t, a)
    BY <2>3 DEF there
  <2> HIDE DEF a
  <2>17. ASSUME NEW x \in {a}, Good(x) PROVE Tells(x)'
    <3>1. Mine(m) /\ there
      BY <2>2, <2>15, <2>17 DEF Good, Mine
    <3>2. Moving /\ Arrived' /\ phase # "manifest"
      BY <2>7, <2>8, <3>1
    <3> QED BY <1>6, <3>2 DEF Tells, Moving
  <2>18. NewsTrue
    BY <1>6, <2>1, <2>15, <2>16, <2>17, HandlerNews
  <2> QED BY <1>7, <2>12, <2>13, <2>14, <2>18, StandsKeeps
<1>12. CASE HandleDelete(t, m)
  <2> DEFINE there == (fs["B"][m.path] # None)
  <2>1. m.op = "delete" /\ UNCHANGED <<uploads, touched>>
        /\ fs' = [fs EXCEPT !["B"][m.path] = None] /\ blamed' = blamed \cup Late(m, {m.path})
    BY <1>12 DEF HandleDelete, UploadsOnly
  <2>2. m.id \in CallIds /\ "id" \in DOMAIN m /\ m.path \in Paths
    BY <1>1, <1>4, <2>1, MessageTypes DEF Is
  <2>3. wire' = Answered(Taken("B", t), "B", t, [answer |-> "done", id |-> m.id, ok |-> there])
    BY <1>12 DEF HandleDelete, Done
  <2>4. there \in BOOLEAN
    OBVIOUS
  <2> HIDE DEF there
  <2>5. Mine(m) => /\ cur # None /\ cur.action = "delete-dst" /\ m.path = cur.path /\ cur.from = cur.path
                   /\ phase # "manifest"
    <3>1. Mine(m) => /\ cur # None /\ cur.action = "delete-dst" /\ m.path = cur.path
                     /\ phase # "manifest"
      BY <1>1, <1>4, <1>5, <2>1, RequestTells DEF Commands
    <3> QED BY <1>5, <3>1 DEF RunPlan
  <2>6. \A d \in Devices, p \in Paths : fs'[d][p] # fs[d][p] => d = "B" /\ p = m.path
    BY <1>2, <1>5, <2>1, <2>2
  <2>7. ~Mine(m) => m.path \in blamed'
    BY <2>1, <2>2 DEF Late, Mine
  <2>8. Grows
    BY <2>1 DEF Grows
  <2>9. Accounted
    <3>1. ASSUME NEW d \in Devices, NEW p \in Paths, fs'[d][p] # fs[d][p], p \notin blamed'
          PROVE  cur # None /\ d = "B" /\ p = cur.from /\ cur.action = "delete-dst"
      BY <2>5, <2>6, <2>7, <3>1
    <3>2. \A d \in Devices, p \in Paths :
             fs'[d][p] # fs[d][p] => p \in touched' \cup blamed' \/ Ordered(d, p)
      BY <3>1 DEF Ordered
    <3>3. ASSUME NEW d \in Devices, NEW p \in Paths, fs[d][p] # None, fs'[d][p] = None
          PROVE  \/ p \in blamed'
                 \/ d = "B" /\ cur # None /\ p = cur.from /\ cur.action \in {"move", "delete-dst"}
      BY <3>1, <3>3
    <3> QED BY <3>2, <3>3 DEF Accounted
  <2>10. MoveGoesOn
    <3>1. ASSUME Moving, NEW p \in {cur.path, cur.from}, fs'["B"][p] # fs["B"][p]
          PROVE  p \in touched' \cup blamed'
      <4>1. p \in Paths /\ ~Mine(m)
        BY <2>5, <3>1 DEF Moving, Core, RunTyped, Cursor
      <4> QED BY <1>2, <2>6, <2>7, <3>1, <4>1
    <3> QED BY <1>6, <2>8, <3>1, MoveStays
  <2> DEFINE a == [answer |-> "done", id |-> m.id, ok |-> there]
  <2>11. a \in Message /\ IsAnswer(a) /\ a.id = m.id
    BY <2>2, <2>4, AnswerForms DEF there
  <2>12. wire' = Answered(Taken("B", t), "B", t, a)
    BY <2>3 DEF there
  <2> HIDE DEF a
  <2>13. ASSUME NEW x \in {a}, Good(x) PROVE Tells(x)'
    <3>1. Mine(m)
      BY <2>2, <2>11, <2>13 DEF Good, Mine
    <3> QED BY <1>6, <2>5, <3>1 DEF Tells, Moving
  <2>14. NewsTrue
    BY <1>6, <2>1, <2>11, <2>12, <2>13, HandlerNews
  <2> QED BY <1>7, <2>8, <2>9, <2>10, <2>14, StandsKeeps
<1> QED BY <1>1, <1>8, <1>9, <1>10, <1>11, <1>12

\* The answer to the run's request arrives, or one that came too late is dropped.
LEMMA RequestAnsweredDelete ==
    ASSUME RemoteTypeOK, Core, Core', DeleteInv, NEW t \in Transports, wire["A"][t] # <<>>,
           RequestAnswered(t), Observe
    PROVE  DeleteInv'
<1> DEFINE m == Head(wire["A"][t])
<1>1. /\ IsAnswer(m) /\ wire' = Taken("A", t)
      /\ \/ m.id = asked /\ heard' = m /\ asked' = 0
         \/ UNCHANGED <<heard, asked>>
      /\ UNCHANGED <<fs, UploadsOnly, phase, walked, todo, cur, newStored, movedSums, stored, blamed, touched, Still>>
  BY DEF RequestAnswered
<1>2. TransferTyped /\ wire \in Wires /\ "A" \in Devices /\ "B" \in Devices
  BY DEF Core, Local, TransferTyped, Devices
<1>3. m \in Message /\ m \in InBox(wire, "A")
      /\ \A e \in Devices : InBox(wire', e) \subseteq InBox(wire, e)
  BY <1>1, <1>2, TakenWire
<1>4. "id" \in DOMAIN m
  <2>1. m \in TransferMessage \cup RemoteMessage /\ "answer" \in DOMAIN m
    BY <1>1, <1>3 DEF IsAnswer, Message
  <2> HIDE DEF m
  <2> QED BY <2>1, AnswerKinds
<1> HIDE DEF m
<1>5. Stands /\ Grows /\ UNCHANGED <<fs, uploads>>
  BY <1>1 DEF Stands, Grows, Still, settings, UploadsOnly
<1>6. CASE UNCHANGED <<heard, asked>>
  <2>1. NewsTrue
    BY <1>3, <1>5, <1>6, NoNews
  <2> QED BY <1>5, <2>1, FilesStayDelete
<1>7. CASE m.id = asked /\ heard' = m /\ asked' = 0
  <2>1. ASSUME NEW u \in uploads', Own(u)'
        PROVE  \E v \in uploads : /\ Own(v) /\ u.path = v.path /\ u.at = v.at
                                  /\ u.put = v.put
    <3>1. u \in uploads /\ (u.caller = <<>> \/ u.caller[1] = 0)
      BY <1>5, <1>7, <2>1 DEF Own
    <3>2. u.caller = <<>>
      BY <1>2, <3>1, OwnTyped
    <3> QED BY <3>1, <3>2 DEF Own
  <2>2. ASSUME NEW x \in InBox(wire', "A"), Good(x)' PROVE FALSE
    <3>1. x \in InBox(wire, "A") /\ "id" \in DOMAIN x /\ x.id = 0
      BY <1>2, <1>3, <1>7, <2>2 DEF Good, Mine
    <3> QED BY <1>2, <3>1, IdTyped
  <2>3. m.ok => Good(m)
    BY <1>1, <1>4, <1>7 DEF Good, Mine
  <2>4. \A h \in {heard'} : h # None /\ h.ok => h \in InBox(wire, "A") /\ Good(h)
    BY <1>3, <1>7, <2>3
  <2>5. \A x \in InBox(wire', "B") : x \in InBox(wire, "B")
    BY <1>2, <1>3
  <2>6. NewsTrue
    BY <1>7, <2>1, <2>2, <2>4, <2>5 DEF NewsTrue
  <2> QED BY <1>5, <2>6, FilesStayDelete
<1> QED BY <1>1, <1>6, <1>7
(*** the run's own steps ***)

\* What every step of the run starts from.
LEMMA RunParts ==
    ASSUME Core, DeleteInv
    PROVE  /\ TransferTyped /\ LinkTyped /\ RunTyped /\ RunFits /\ CallersFit /\ AnswersFit
           /\ RemovedGone /\ RunPlan /\ Commands /\ WalksExact /\ MoveExact
           /\ UploadsLand /\ ReportsTrue /\ RecordsHad /\ TakenAway
BY DEF Core, Local, DeleteInv

\* A step that writes nothing leaves every file there or taken away as it was.
LEMMA HasStays ==
    ASSUME Observe, RemovedGone, UNCHANGED <<fs, clock>>
    PROVE  /\ RemovedGone'
           /\ \A d \in Devices, p \in Paths :
                 /\ Has(d, p) <=> Has(d, p)'
                 /\ <<d, p>> \in removed <=> <<d, p>> \in removed'
           /\ \A p \in Paths : p \in acted => p \in acted' \/ phase = "idle"
<1>1. ASSUME NEW d \in Devices, NEW p \in Paths
      PROVE  /\ RemovedGone' /\ (Has(d, p) <=> Has(d, p)')
             /\ <<d, p>> \in removed => <<d, p>> \in removed'
             /\ p \in acted => p \in acted' \/ phase = "idle"
  <2>1. /\ RemovedGone'
        /\ Has(d, p)' = Has(d, p)
        /\ <<d, p>> \in removed => <<d, p>> \in removed'
        /\ p \in acted => p \in acted' \/ phase = "idle"
    BY Observed
  <2> QED BY <2>1
<1>2. ASSUME NEW d \in Devices, NEW p \in Paths, <<d, p>> \in removed'
      PROVE  <<d, p>> \in removed
  BY <1>1, <1>2 DEF RemovedGone, Has
<1>3. "A" \in Devices
  BY DEF Devices
<1>4. ASSUME NEW p \in Paths PROVE RemovedGone' /\ (p \in acted => p \in acted' \/ phase = "idle")
  BY <1>1, <1>3
<1>5. RemovedGone'
  <2>1. removed' = (IF clock' # clock THEN removed \cup {x \in Devices \X Paths :
                                        fs[x[1]][x[2]] # None /\ fs'[x[1]][x[2]] = None}
                    ELSE removed) \ {x \in Devices \X Paths : fs'[x[1]][x[2]] # None}
    BY DEF Observe
  <2> QED BY <2>1 DEF RemovedGone
<1> QED BY <1>1, <1>2, <1>4, <1>5

\* A run that asked for nothing hears of nothing.
LEMMA Silent ==
    ASSUME TransferTyped', asked' = 0, \A u \in uploads' : u.caller # <<>>,
           heard' = None \/ ~heard'.ok
    PROVE  Commands' /\ UploadsLand' /\ ReportsTrue'
<1>1. ASSUME NEW d \in Devices, NEW m \in InBox(wire', d) PROVE ~Mine(m)'
  <2>1. m \in Message
    BY <1>1, InBoxDef DEF TransferTyped
  <2>2. "id" \in DOMAIN m => m.id # 0
    BY <2>1, MessageId
  <2> QED BY <2>2 DEF Mine
<1>2. ASSUME NEW u \in uploads' PROVE ~Own(u)'
  <2>1. u.caller \in Callers
    BY DEF TransferTyped, Upload
  <2>2. u.caller[1] # 0
    BY <2>1 DEF Callers, CallIds
  <2> QED BY <2>2 DEF Own
<1>3. "A" \in Devices /\ "B" \in Devices
  BY DEF Devices
<1>4. Commands'
  BY <1>1, <1>2, <1>3 DEF Commands
<1>5. UploadsLand'
  BY <1>2 DEF UploadsLand
<1>6. ReportsTrue'
  BY <1>1, <1>3 DEF ReportsTrue, Good
<1> QED BY <1>4, <1>5, <1>6

\* What the run asks is all that bears its new identifier.
LEMMA AsksAlone ==
    ASSUME RemoteTypeOK, Core, Core', NoUpload, asked = 0, UNCHANGED uploads,
           NEW m, NEW op,
           \A id \in CallIds : LET x == [m EXCEPT !.id = id]
                               IN  x \in Message /\ x.id = id /\ ~IsAnswer(x) /\ x.op = op,
           Asks(m) \/ (heard' = Unheard /\ UNCHANGED <<asked, wire>>)
    PROVE  /\ \A y \in InBox(wire', "B") : Mine(y)' => \E id \in CallIds : y = [m EXCEPT !.id = id]
           /\ UploadsLand' /\ ReportsTrue' /\ \A u \in uploads' : ~Own(u)'
<1>0. /\ wire \in Wires /\ TransferTyped' /\ TransferTyped /\ "A" \in Devices /\ "B" \in Devices
      /\ "relay" \in Transports
  BY DEF Core, Local, TransferTyped, Devices, Transports
<1>1. ASSUME asked' = 0, heard' = Unheard PROVE
            /\ \A y \in InBox(wire', "B") : Mine(y)' => \E id \in CallIds : y = [m EXCEPT !.id = id]
            /\ UploadsLand' /\ ReportsTrue' /\ \A u \in uploads' : ~Own(u)'
  <2>1. UploadsLand' /\ ReportsTrue'
    BY <1>0, <1>1, Silent DEF NoUpload, Unheard
  <2>2. ASSUME NEW y \in InBox(wire', "B") PROVE ~Mine(y)'
    <3>1. y \in Message
      BY <1>0, <2>2, InBoxDef DEF TransferTyped
    <3>2. "id" \in DOMAIN y => y.id # 0
      BY <3>1, MessageId
    <3> QED BY <1>1, <3>2 DEF Mine
  <2>3. ASSUME NEW u \in uploads' PROVE ~Own(u)'
    <3>1. u \in uploads /\ u.caller # <<>>
      BY <2>3 DEF NoUpload
    <3>2. u.caller[1] # 0
      BY <1>0, <3>1, OwnTyped
    <3> QED BY <1>1, <3>1, <3>2 DEF Own
  <2> QED BY <2>1, <2>2, <2>3
<1>2. CASE CanReach("A") /\ Asks(m)
  <2>1. PICK id \in FreshCalls : /\ asked' = id /\ heard' = None
                                 /\ wire' = Sent(wire, "A", [m EXCEPT !.id = id])
    BY <1>2 DEF Asks
  <2> DEFINE x == [m EXCEPT !.id = id]
  <2>2. /\ id \in CallIds /\ id # 0
        /\ \A u \in uploads : u.caller # <<>> => u.caller[1] # id
        /\ \A d \in Devices : \A y \in InBox(wire, d) : "id" \in DOMAIN y => y.id # id
    BY FreshCall
  <2>3. x \in Message /\ x.id = id /\ ~IsAnswer(x)
    BY <2>2
  <2>4. wire' = Sent(wire, "A", x) /\ x = [m EXCEPT !.id = id]
    BY <2>1
  <2> HIDE DEF x
  <2>5. Carries(wire', wire, Other("A"), x)
    BY <1>0, <2>3, <2>4, SentWire
  <2>6. \A d \in Devices : \A y \in InBox(wire', d) : y \in InBox(wire, d) \/ (d = Other("A") /\ y = x)
    BY <2>5 DEF Carries
  <2>7. Other("A") = "B"
    BY DEF Other
  <2>8. \A y \in InBox(wire', "B") : Mine(y)' => y = x
    BY <1>0, <2>1, <2>2, <2>6 DEF Mine
  <2>9. \A y \in InBox(wire', "A") : ~Mine(y)'
    BY <1>0, <2>1, <2>2, <2>6, <2>7 DEF Mine
  <2>10. \A u \in uploads' : ~Own(u)'
    BY <2>1, <2>2 DEF Own, NoUpload
  <2>11. UploadsLand'
    BY <2>10 DEF UploadsLand
  <2>12. ReportsTrue'
    BY <2>1, <2>9 DEF ReportsTrue, Good
  <2> QED BY <2>2, <2>4, <2>8, <2>10, <2>11, <2>12
<1>3. CASE ~CanReach("A") /\ Asks(m)
  BY <1>1, <1>3 DEF Asks
<1> QED BY <1>1, <1>2, <1>3

\* The run's upload begins: it is about the path of the visit, and has put nothing.
LEMMA BeginsAlone ==
    ASSUME Core, Core', NoUpload, asked = 0, UNCHANGED asked,
           \/ heard' = Unheard /\ uploads' = uploads
           \/ heard' = None /\ \E u : /\ u.caller = <<>> /\ u.path = cur'.path /\ u.put # "whole"
                                      /\ uploads' = uploads \cup {u}
    PROVE  Commands' /\ UploadsLand' /\ ReportsTrue'
<1>0. TransferTyped /\ TransferTyped' /\ "A" \in Devices /\ "B" \in Devices
  BY DEF Core, Local, Devices
<1>1. ASSUME NEW d \in Devices, NEW m \in InBox(wire', d) PROVE ~Mine(m)'
  <2>1. m \in Message
    BY <1>0, <1>1, InBoxDef DEF TransferTyped
  <2>2. "id" \in DOMAIN m => m.id # 0
    BY <2>1, MessageId
  <2> QED BY <2>2 DEF Mine
<1>2. ASSUME NEW u \in uploads PROVE ~Own(u)'
  <2>1. u.caller # <<>>
    BY DEF NoUpload
  <2>2. u.caller[1] # 0
    BY <1>0, <2>1, OwnTyped
  <2> QED BY <2>1, <2>2 DEF Own
<1>3. ASSUME NEW u \in uploads', Own(u)' PROVE u.path = cur'.path /\ u.put # "whole"
  BY <1>2, <1>3
<1>4. Commands'
  BY <1>0, <1>1, <1>3 DEF Commands
<1>5. UploadsLand'
  BY <1>3 DEF UploadsLand
<1>6. ReportsTrue'
  BY <1>0, <1>1 DEF ReportsTrue, Good, Unheard
<1> QED BY <1>4, <1>5, <1>6

\* A run that ends badly, over paths it has changed.
LEMMA RunEnds ==
    ASSUME Core, Core', DeleteInv, RunOver, UNCHANGED <<fs, clock, stored, job>>,
           acted \subseteq blamed', blamed \subseteq blamed',
           asked' = 0, \A u \in uploads' : u.caller # <<>>, Observe
    PROVE  DeleteInv'
<1>1. /\ TransferTyped' /\ RemovedGone /\ RecordsHad
      /\ phase' = "idle" /\ cur' = None /\ heard' = None
      /\ \A p \in Paths : newStored'[p] = None
  BY RunParts DEF RunOver, Core, Local
<1>2. /\ RemovedGone'
      /\ \A d \in Devices, p \in Paths : Has(d, p) <=> Has(d, p)'
  BY <1>1, HasStays
<1>3. Commands' /\ UploadsLand' /\ ReportsTrue'
  BY <1>1, Silent
<1>4. RunPlan' /\ WalksExact' /\ MoveExact' /\ TakenAway'
  BY <1>1 DEF RunPlan, WalksExact, MoveExact, TakenAway, Knows, Moving
<1>5. RecordsHad'
  <2>1. "A" \in Devices /\ "B" \in Devices
    BY DEF Devices
  <2>2. ASSUME NEW p \in Paths, Both(stored[p]), p \notin blamed'
        PROVE  Has("A", p)' /\ (Bidir => Has("B", p)')
    BY <1>1, <1>2, <2>1, <2>2 DEF RecordsHad, HadBefore
  <2> QED BY <1>1, <2>2 DEF RecordsHad, HadBefore, Both, Bidir
<1> QED BY <1>2, <1>3, <1>4, <1>5 DEF DeleteInv

\* An exception ends the run, and blames what it did.
LEMMA RunFailsDelete ==
    ASSUME Core, Core', DeleteInv, RunFails, asked = 0, NoUpload, Observe
    PROVE  DeleteInv'
<1>1. /\ RunOver /\ UNCHANGED <<fs, clock, stored, job, asked, uploads>>
      /\ acted \subseteq blamed' /\ blamed \subseteq blamed'
  BY DEF RunFails, Still, settings, UploadsOnly
<1> QED BY <1>1, RunEnds DEF NoUpload

\* The source's agent dies, and its run with it.
LEMMA SourceDiesDelete ==
    ASSUME Core, Core', DeleteInv, AgentDies("A"), Observe
    PROVE  DeleteInv'
<1>1. /\ RunOver /\ UNCHANGED <<fs, stored>> /\ asked' = 0
      /\ blamed' = blamed \cup acted \cup Pursued /\ uploads' = {u \in uploads : u.at # "A"}
  BY DEF AgentDies
<1>2. UNCHANGED <<clock, job>>
  BY DEF AgentDies, Faulty, settings
<1>3. \A u \in uploads' : u.caller # <<>>
  BY <1>1 DEF Core, Local, CallersFit
<1> QED BY <1>1, <1>2, <1>3, RunEnds

\* A cancelled run fails before its next path.
LEMMA AbortDelete ==
    ASSUME Core, Core', DeleteInv, Abort, Observe
    PROVE  DeleteInv'
<1>1. cur = None /\ phase \in {"visit", "delete"} /\ RunFails
  BY DEF Abort
<1>2. asked = 0 /\ NoUpload
  BY <1>1, Waiting DEF Core, Local
<1> QED BY <1>1, <1>2, RunFailsDelete
\* While the run writes nothing and forgets nothing it has handled, its records stay true.
LEMMA RecordsStay ==
    ASSUME Observe, RemovedGone, RecordsHad, UNCHANGED <<fs, clock, stored, newStored, job>>, Grows,
           (phase # "idle" /\ phase' # "idle") \/ \A p \in Paths : ~(phase # "idle" /\ Handled(p)),
           \A p \in Paths : Handled(p) => Handled(p)'
    PROVE  RecordsHad'
<1>1. /\ \A d \in Devices, p \in Paths : Has(d, p) <=> Has(d, p)'
      /\ \A p \in Paths : p \in acted => p \in acted' \/ phase = "idle"
  BY HasStays
<1>2. "A" \in Devices /\ "B" \in Devices
  BY DEF Devices
<1>3. \A d \in Devices, p \in Paths : HadBefore(d, p) => HadBefore(d, p)'
  BY <1>1 DEF HadBefore, Bidir
<1>4. \A d \in Devices, p \in Paths : Landed(d, p) => Landed(d, p)'
  BY <1>1 DEF Landed, Excused, Grows
<1>5. ASSUME NEW p \in Paths, Both(stored[p])
      PROVE  p \in blamed' \/ (HadBefore("A", p)' /\ (Bidir => HadBefore("B", p)'))
  BY <1>2, <1>3, <1>5 DEF RecordsHad, Grows
<1>6. ASSUME NEW p \in Paths, Both(newStored[p])
      PROVE  Landed("A", p)' /\ (Bidir => Landed("B", p)')
  BY <1>2, <1>4, <1>6 DEF RecordsHad
<1> QED BY <1>5, <1>6 DEF RecordsHad, Both, Bidir

\* A run starts with the source's listing.
LEMMA StartRunDelete ==
    ASSUME RemoteTypeOK, Core, Core', DeleteInv, StartRun, Observe
    PROVE  DeleteInv'
<1>1. /\ phase = "idle" /\ phase' = "manifest" /\ cur' = cur
      /\ walked' = [None2 EXCEPT !["A"] = ListingOf("A")]
      /\ Asks([op |-> "manifest", id |-> 0])
      /\ UNCHANGED <<todo, cur, newStored, fs, uploads, stored, blamed, job, clock>>
  BY DEF StartRun, UploadsOnly
<1>2. /\ RemovedGone /\ RecordsHad /\ RunPlan /\ RunFits
      /\ cur = None /\ asked = 0 /\ NoUpload
  BY <1>1, RunParts, Waiting DEF RunFits
<1>3. \A p \in Paths : newStored[p] = None
  BY <1>1, <1>2 DEF RunPlan
<1> DEFINE m == [op |-> "manifest", id |-> 0]
<1>4. ASSUME NEW id \in CallIds
      PROVE  LET x == [m EXCEPT !.id = id]
             IN  x \in Message /\ x.id = id /\ ~IsAnswer(x) /\ x.op = "manifest"
  <2>1. [m EXCEPT !.id = id] = [op |-> "manifest", id |-> id]
    OBVIOUS
  <2> QED BY <2>1 DEF Message, RemoteMessage, IsAnswer
<1>5. Asks(m)
  BY <1>1
<1> HIDE DEF m
<1>6. /\ \A y \in InBox(wire', "B") : Mine(y)' => \E id \in CallIds : y = [m EXCEPT !.id = id]
      /\ UploadsLand' /\ ReportsTrue' /\ \A u \in uploads' : ~Own(u)'
  BY <1>1, <1>2, <1>4, <1>5, AsksAlone
<1>7. Commands'
  BY <1>4, <1>6 DEF Commands
<1>8. RunPlan'
  BY <1>1, <1>2, <1>3 DEF RunPlan
<1>9. WalksExact'
  BY <1>1 DEF WalksExact, Knows, ListingOf, Devices, None2
<1>10. MoveExact' /\ TakenAway'
  BY <1>1, <1>2 DEF MoveExact, TakenAway, Moving
<1>11. RemovedGone' /\ \A d \in Devices, p \in Paths : Has(d, p) <=> Has(d, p)'
  BY <1>1, <1>2, HasStays
<1>12. RecordsHad'
  <2>1. "A" \in Devices /\ "B" \in Devices
    BY DEF Devices
  <2>2. ASSUME NEW p \in Paths, Both(stored[p])
        PROVE  p \in blamed' \/ (HadBefore("A", p)' /\ (Bidir => HadBefore("B", p)'))
    BY <1>1, <1>2, <1>11, <2>1, <2>2 DEF RecordsHad, HadBefore
  <2> QED BY <1>1, <1>3, <2>2 DEF RecordsHad, Both, Bidir
<1> QED BY <1>6, <1>7, <1>8, <1>9, <1>10, <1>11, <1>12 DEF DeleteInv

\* The target's listing arrives: the run knows both sides.
LEMMA HearListingDelete ==
    ASSUME RemoteTypeOK, Core, Core', DeleteInv, HearListing, Observe
    PROVE  DeleteInv'
<1>0. /\ RemovedGone /\ RecordsHad /\ RunPlan /\ RunFits /\ CallersFit /\ WalksExact /\ ReportsTrue /\ TransferTyped'
  BY RunParts DEF Core, Local
<1>1. asked = 0 /\ NoUpload /\ cur = None /\ phase = "manifest" /\ heard # None
  BY <1>0, Waiting DEF RunFits, HearListing
<1>2. CASE ~heard.ok \/ aborted
  BY <1>1, <1>2, RunFailsDelete DEF HearListing
<1>3. CASE ~(~heard.ok \/ aborted)
  <2>1. /\ walked' = [walked EXCEPT !["B"] = heard.listing]
        /\ phase' = "srcmoves" /\ heard' = None
        /\ UNCHANGED <<todo, cur, newStored, fs, uploads, asked, stored, blamed, touched, job, clock>>
    BY <1>3 DEF HearListing, UploadsOnly, Still, settings
  <2>2. Listed(heard.listing)
    BY <1>0, <1>1, <1>3 DEF ReportsTrue, Tells
  <2>3. Commands' /\ UploadsLand' /\ ReportsTrue'
    BY <1>0, <1>1, <2>1, Silent DEF NoUpload
  <2>4. RunPlan'
    BY <1>0, <1>1, <2>1 DEF RunPlan
  <2>5. \A p \in Paths : walked'["B"][p] = heard.listing[p] /\ walked'["A"][p] = walked["A"][p]
    BY <2>1 DEF Core, RunTyped, Devices
  <2>6. WalksExact'
    BY <1>0, <1>1, <2>1, <2>2, <2>5 DEF WalksExact, Listed, Excused, Knows, Busy, Devices, MetaOf
  <2>7. MoveExact' /\ TakenAway'
    BY <1>1, <2>1 DEF MoveExact, TakenAway, Moving
  <2>8. RemovedGone'
    BY <1>0, <2>1, HasStays
  <2>9. \A p \in Paths : ~Handled(p)
    BY <1>1 DEF Handled, Busy, Knows
  <2>10. RecordsHad'
    BY <1>0, <2>1, <2>9, RecordsStay DEF Grows
  <2> QED BY <2>3, <2>4, <2>6, <2>7, <2>8, <2>10 DEF DeleteInv
<1> QED BY <1>2, <1>3

\* The renames are through: what was walked is true, and nothing was handled but renamed.
LEMMA RenamesThrough ==
    ASSUME RemoteTypeOK, Core, Core', DeleteInv, phase \in {"srcmoves", "dstmoves"},
           (phase' = "dstmoves" /\ Bidir) \/ (phase' = "visit" /\ todo' \subseteq Paths),
           UNCHANGED <<walked, cur, newStored, fs, uploads, asked, heard, wire, stored, blamed,
                       touched, job, clock>>,
           cur = None, asked = 0, heard = None, NoUpload, Observe
    PROVE  DeleteInv'
<1>0. RemovedGone /\ RecordsHad /\ RunPlan /\ WalksExact /\ TransferTyped'
  BY RunParts DEF Core, Local
<1>1. Commands' /\ UploadsLand' /\ ReportsTrue'
  BY <1>0, Silent DEF NoUpload
<1>2. RunPlan'
  BY <1>0 DEF RunPlan, Bidir
<1>3. WalksExact'
  BY <1>0 DEF WalksExact, Excused, Knows, Busy, MetaOf
<1>4. MoveExact' /\ TakenAway'
  BY DEF MoveExact, TakenAway, Moving
<1>5. RemovedGone'
  BY <1>0, HasStays
<1>6. \A p \in Paths : Handled(p) => Handled(p)'
  BY DEF Handled, Busy, Knows
<1>7. RecordsHad'
  BY <1>0, <1>6, RecordsStay DEF Grows
<1> QED BY <1>1, <1>2, <1>3, <1>4, <1>5, <1>7 DEF DeleteInv
\* The listing of a device that has nothing at a path.
LEMMA NothingThere ==
    ASSUME TransferTyped, NEW d \in Devices, NEW p \in Paths
    PROVE  MetaOf(fs[d][p]) = None <=> fs[d][p] = None
<1>1. fs[d][p] \in Entry \cup {None}
  BY DEF TransferTyped
<1>2. fs[d][p] \in Entry => MetaOf(fs[d][p]) \in Meta
  BY NotNone DEF MetaOf, Entry, Meta
<1>3. None \notin Meta
  BY RemoteNone
<1> QED BY <1>1, <1>2, <1>3, NotNone DEF MetaOf

\* What a record and the walk say together of a path the run has not handled.
LEMMA RecordSays ==
    ASSUME Core, DeleteInv, NEW p \in Paths, Both(stored[p]), walked["A"][p] = None,
           phase # "idle", ~Busy("A", p), ~Busy("B", p), walked["B"][p] # None
    PROVE  <<"A", p>> \in removed \/ Excused(p)
<1>0. TransferTyped /\ RecordsHad /\ WalksExact /\ "A" \in Devices
  BY RunParts DEF Devices
<1>1. p \in blamed \/ HadBefore("A", p)
  BY <1>0 DEF RecordsHad
<1>2. ~Handled(p)
  BY DEF Handled
<1>3. Excused(p) \/ walked["A"][p] = MetaOf(fs["A"][p])
  BY <1>0 DEF WalksExact, Knows
<1>4. MetaOf(fs["A"][p]) = None => fs["A"][p] = None
  BY <1>0, NothingThere
<1> QED BY <1>1, <1>2, <1>3, <1>4 DEF HadBefore, Has, Excused

\* The run has the target rename what the source has renamed.
LEMMA SrcMovesDelete ==
    ASSUME RemoteTypeOK, Core, Core', DeleteInv, SrcMoves, Observe
    PROVE  DeleteInv'
<1>0. /\ RemovedGone /\ RecordsHad /\ RunPlan /\ RunFits /\ CallersFit /\ WalksExact /\ TransferTyped
      /\ RunTyped /\ "A" \in Devices /\ "B" \in Devices
  BY RunParts DEF Devices
<1>1. asked = 0 /\ heard = None /\ NoUpload /\ cur = None /\ phase = "srcmoves"
  BY <1>0, Waiting DEF SrcMoves
<1>2. CASE aborted \/ \E q \in Added("src") : fs["A"][q] = None
  BY <1>1, <1>2, RunFailsDelete DEF SrcMoves
<1>3. CASE ~(aborted \/ \E q \in Added("src") : fs["A"][q] = None)
  <2>0. UNCHANGED <<walked, newStored, fs, uploads, stored, blamed, touched, job, clock>>
    BY <1>3 DEF SrcMoves, UploadsOnly, Still, settings
  <2>1. CASE Renamed("src") = {}
    <3>1. /\ \/ job.mode = "bidir" /\ phase' = "dstmoves" /\ UNCHANGED todo
             \/ phase' = "visit" /\ todo' = ToVisit
          /\ UNCHANGED <<cur, asked, heard, wire>>
      BY <1>3, <2>1 DEF SrcMoves
    <3>2. (phase' = "dstmoves" /\ Bidir) \/ (phase' = "visit" /\ todo' \subseteq Paths)
      BY <3>1 DEF ToVisit, Bidir
    <3> QED BY <1>1, <2>0, <3>1, <3>2, RenamesThrough
  <2>2. CASE Renamed("src") # {}
    <3>1. PICK m \in Renamed("src") :
             /\ cur' = [path |-> m[2], from |-> m[1], action |-> "move", step |-> "transfer"]
             /\ Asks([op |-> "move", id |-> 0, from |-> m[1], to |-> m[2], meta |-> walked["A"][m[2]]])
             /\ UNCHANGED <<phase, todo>>
      BY <1>3, <2>2 DEF SrcMoves
    <3>2. /\ m[1] \in Missing("src") /\ m[2] \in Added("src")
          /\ stored[m[1]]["src"].size = walked["A"][m[2]].size
      BY DEF Renamed, Changed
    <3>3. /\ m[1] \in Paths /\ m[2] \in Paths /\ Both(stored[m[1]]) /\ stored[m[2]] = None
          /\ walked["A"][m[1]] = None /\ walked["B"][m[1]] # None
          /\ walked["A"][m[2]] # None /\ walked["B"][m[2]] = None
          /\ walked["B"][m[1]].size = stored[m[1]]["src"].size
      BY <3>2 DEF Missing, Added, Changed, Mirror, Both
    <3> DEFINE y == [op |-> "move", id |-> 0, from |-> m[1], to |-> m[2], meta |-> walked["A"][m[2]]]
    <3>4. walked["A"][m[2]] \in Meta
      BY <1>0, <3>3 DEF RunTyped, Listing
    <3>5. ASSUME NEW id \in CallIds
          PROVE  LET x == [y EXCEPT !.id = id]
                 IN  /\ x \in Message /\ x.id = id /\ ~IsAnswer(x) /\ x.op = "move"
                     /\ x.from = m[1] /\ x.to = m[2] /\ x.meta = walked["A"][m[2]]
      <4>1. [y EXCEPT !.id = id] = [op |-> "move", id |-> id, from |-> m[1], to |-> m[2],
                                    meta |-> walked["A"][m[2]]]
        OBVIOUS
      <4> DEFINE x == [y EXCEPT !.id = id]
      <4>2. x \in [op : {"move"}, id : CallIds, from : Paths, to : Paths, meta : Meta]
        BY <3>3, <3>4, <4>1
      <4>3. /\ x.id = id /\ x.op = "move" /\ ~IsAnswer(x)
            /\ x.from = m[1] /\ x.to = m[2] /\ x.meta = walked["A"][m[2]]
        BY <4>1 DEF IsAnswer
      <4> HIDE DEF x
      <4>4. x \in Message
        BY <4>2 DEF Message, RemoteMessage
      <4> QED BY <4>3, <4>4 DEF x
    <3>6. Asks(y)
      BY <3>1
    <3> HIDE DEF y
    <3>7. cur' # None
      <4>1. cur' \in Cursor
        BY <3>1, <3>3 DEF Cursor
      <4> QED BY <4>1, NotNone
    <3>8. cur'.path = m[2] /\ cur'.from = m[1] /\ cur'.action = "move"
      BY <3>1
    <3>9. /\ \A z \in InBox(wire', "B") : Mine(z)' => \E id \in CallIds : z = [y EXCEPT !.id = id]
          /\ UploadsLand' /\ ReportsTrue' /\ \A u \in uploads' : ~Own(u)'
      <4>1. \A id \in CallIds : LET x == [y EXCEPT !.id = id]
                                IN  x \in Message /\ x.id = id /\ ~IsAnswer(x) /\ x.op = "move"
        BY <3>5
      <4> QED BY <1>1, <2>0, <3>6, <4>1, AsksAlone
    <3>10. Commands'
      <4>1. ASSUME NEW z \in InBox(wire', "B"), Mine(z)'
            PROVE  z.op = "move" /\ z.from = m[1] /\ z.to = m[2] /\ z.meta = walked["A"][m[2]]
        <5>1. PICK id \in CallIds : z = [y EXCEPT !.id = id]
          BY <3>9, <4>1
        <5> DEFINE x == [y EXCEPT !.id = id]
        <5>2. /\ x.op = "move" /\ x.from = m[1] /\ x.to = m[2] /\ x.meta = walked["A"][m[2]]
          BY <3>5
        <5>3. z = x
          BY <5>1
        <5> HIDE DEF x
        <5> QED BY <5>2, <5>3
      <4>2. cur'.path = m[2] /\ cur'.from = m[1] /\ cur'.action = "move" /\ walked' = walked
        BY <2>0, <3>8
      <4>3. ASSUME NEW z \in InBox(wire', "B"), ~IsAnswer(z), Mine(z)'
            PROVE  /\ z.op # "send" /\ z.op # "delete"
                   /\ z.from = cur'.from /\ z.to = cur'.path /\ z.meta = walked'["A"][cur'.path]
        BY <4>1, <4>2, <4>3
      <4> QED BY <3>9, <4>2, <4>3 DEF Commands
    <3>11. \A p \in Paths : newStored[p] = None
      BY <1>0, <1>1 DEF RunPlan
    <3>12. m[1] # m[2]
      BY <3>3
    <3>13. RunPlan'
      BY <1>1, <2>0, <3>1, <3>8, <3>11, <3>12 DEF RunPlan
    <3>14. \A d \in Devices, p \in Paths : ~Busy(d, p)
      BY <1>1 DEF Busy
    <3>15. \A d \in Devices, p \in Paths : Excused(p) \/ walked[d][p] = MetaOf(fs[d][p])
      BY <1>0, <1>1, <3>14 DEF WalksExact, Knows
    <3>16. WalksExact'
      BY <2>0, <3>15 DEF WalksExact, Excused, MetaOf
    <3>17. MoveExact'
      <4>1. Excused(m[1]) \/ MetaOf(fs["B"][m[1]]) = walked["B"][m[1]]
        BY <1>0, <3>3, <3>15
      <4>2. Excused(m[2]) \/ fs["B"][m[2]] = None
        BY <1>0, <3>3, <3>15, NothingThere
      <4>3. Unmoved'
        BY <2>0, <3>8, <4>1, <4>2 DEF Unmoved, Excused, MetaOf
      <4> QED BY <2>0, <3>2, <3>3, <3>8, <4>3 DEF MoveExact
    <3>18. TakenAway'
      <4>1. <<"A", m[1]>> \in removed \/ Excused(m[1])
        BY <1>0, <1>1, <3>3, <3>14, RecordSays
      <4>2. <<"A", m[1]>> \in removed => <<"A", m[1]>> \in removed'
        BY <1>0, <2>0, <3>3, HasStays
      <4> QED BY <2>0, <3>8, <4>1, <4>2 DEF TakenAway, Excused
    <3>19. RemovedGone'
      BY <1>0, <2>0, HasStays
    <3>20. \A p \in Paths : Handled(p) => Handled(p)'
      BY <1>1, <2>0, <3>1 DEF Handled, Busy, Knows
    <3>21. RecordsHad'
      BY <1>0, <1>1, <2>0, <3>1, <3>20, RecordsStay DEF Grows
    <3> QED BY <3>9, <3>10, <3>13, <3>16, <3>17, <3>18, <3>19, <3>21 DEF DeleteInv
  <2> QED BY <2>1, <2>2
<1> QED BY <1>2, <1>3

\* The target has renamed: the walks change as its files did.
LEMMA HearMoveDelete ==
    ASSUME RemoteTypeOK, Core, Core', DeleteInv, HearMove, Observe
    PROVE  DeleteInv'
<1>0. /\ RemovedGone /\ RecordsHad /\ RunPlan /\ RunFits /\ CallersFit /\ WalksExact /\ MoveExact
      /\ ReportsTrue /\ RunTyped /\ TransferTyped /\ TransferTyped' /\ "A" \in Devices /\ "B" \in Devices
  BY RunParts DEF Core, Local, Devices
<1>1. /\ asked = 0 /\ NoUpload /\ cur # None /\ cur.action = "move" /\ heard # None
      /\ phase = "srcmoves"
  BY <1>0, Waiting DEF RunFits, HearMove
<1>2. CASE ~heard.ok
  BY <1>1, <1>2, RunFailsDelete DEF HearMove
<1>3. CASE heard.ok
  <2>1. /\ walked' = [walked EXCEPT !["B"][cur.from] = None, !["B"][cur.path] = walked["A"][cur.path]]
        /\ cur' = None /\ heard' = None
        /\ UNCHANGED <<phase, todo, newStored, fs, uploads, asked, wire, stored, blamed, touched,
                       job, clock>>
    BY <1>3 DEF HearMove, UploadsOnly, Still, settings
  <2>2. cur.path \in Paths /\ cur.from \in Paths /\ cur.path # cur.from /\ Moving
    BY <1>0, <1>1 DEF RunTyped, Cursor, RunPlan, Moving
  <2>3. Arrived
    BY <1>0, <1>1, <1>3, <2>2 DEF ReportsTrue, Tells
  <2>4. /\ walked'["A"] = walked["A"]
        /\ \A p \in Paths : walked'["B"][p] = IF p = cur.path THEN walked["A"][cur.path]
                                              ELSE IF p = cur.from THEN None ELSE walked["B"][p]
    <3>1. walked["A"] \in Listing /\ walked["B"] \in Listing
      BY <1>0 DEF RunTyped
    <3> DEFINE x == walked["A"][cur.path]
    <3>2. walked' = [walked EXCEPT !["B"][cur.from] = None, !["B"][cur.path] = x]
      BY <2>1
    <3> HIDE DEF x
    <3>3. \A p \in Paths : walked'["B"][p] = IF p = cur.path THEN x
                                              ELSE IF p = cur.from THEN None ELSE walked["B"][p]
      BY <1>0, <2>2, <3>1, <3>2 DEF RunTyped, Listing
    <3>4. walked'["A"] = walked["A"]
      BY <1>0, <3>1, <3>2 DEF RunTyped
    <3> QED BY <3>3, <3>4 DEF x
  <2>5. Commands' /\ UploadsLand' /\ ReportsTrue'
    BY <1>0, <1>1, <2>1, Silent DEF NoUpload
  <2>6. RunPlan'
    BY <1>0, <1>1, <2>1 DEF RunPlan
  <2>7. WalksExact'
    <3>1. ASSUME NEW d \in Devices, NEW p \in Paths, ~Excused(p)'
          PROVE  walked'[d][p] = MetaOf(fs'[d][p])
      <4>1. ~Excused(p) /\ fs'[d][p] = fs[d][p]
        BY <2>1, <3>1 DEF Excused
      <4>2. CASE d = "B" /\ p = cur.from
        BY <2>2, <2>3, <2>4, <4>1, <4>2 DEF Arrived, MetaOf
      <4>3. CASE d = "B" /\ p = cur.path
        BY <2>2, <2>3, <2>4, <4>1, <4>3 DEF Arrived
      <4>4. CASE ~(d = "B" /\ p \in {cur.path, cur.from})
        <5>1. ~Busy(d, p)
          BY <1>1, <4>4 DEF Busy, Devices
        <5>2. walked[d][p] = MetaOf(fs[d][p])
          BY <1>0, <1>1, <4>1, <5>1 DEF WalksExact, Knows
        <5> QED BY <2>4, <4>1, <4>4, <5>2 DEF Devices
      <4> QED BY <4>2, <4>3, <4>4
    <3> QED BY <3>1 DEF WalksExact, MetaOf
  <2>8. MoveExact' /\ TakenAway'
    BY <2>1 DEF MoveExact, TakenAway, Moving
  <2>9. /\ RemovedGone'
        /\ \A d \in Devices, p \in Paths : Has(d, p) <=> Has(d, p)'
        /\ \A p \in Paths : p \in acted => p \in acted' \/ phase = "idle"
    BY <1>0, <2>1, HasStays
  <2>10. RecordsHad'
    <3>1. \A p \in Paths : newStored[p] = None
      BY <1>0, <1>1 DEF RunPlan
    <3>2. stored[cur.path] = None /\ walked["A"][cur.from] = None
      BY <1>0, <2>2 DEF MoveExact
    <3>3. ASSUME NEW p \in Paths, Both(stored[p]), Handled(p) PROVE Handled(p)'
      <4>1. p # cur.path
        BY <3>2, <3>3 DEF Both
      <4>2. CASE p = cur.from
        BY <1>1, <2>1, <2>2, <2>4, <3>2, <4>2 DEF Handled, Knows
      <4>3. CASE p # cur.from
        BY <1>1, <2>1, <2>4, <3>3, <4>1, <4>3 DEF Handled, Knows, Busy
      <4> QED BY <4>2, <4>3
    <3>4. ASSUME NEW p \in Paths, Both(stored[p]), NEW d \in Devices, HadBefore(d, p) PROVE HadBefore(d, p)'
      BY <1>1, <2>1, <2>9, <3>3, <3>4 DEF HadBefore, Bidir
    <3>5. \A p \in Paths : Both(stored[p]) => p \in blamed \/ (HadBefore("A", p)' /\ (Bidir => HadBefore("B", p)'))
      BY <1>0, <3>4 DEF RecordsHad
    <3> QED BY <2>1, <3>1, <3>5 DEF RecordsHad, Both, Bidir
  <2> QED BY <2>5, <2>6, <2>7, <2>8, <2>9, <2>10 DEF DeleteInv
<1> QED BY <1>2, <1>3 DEF Core, Local, TransferTyped
\* The run renames at the source what the target has renamed.
LEMMA DstMovesDelete ==
    ASSUME RemoteTypeOK, Core, Core', DeleteInv, DstMoves, Observe
    PROVE  DeleteInv'
<1>0. /\ RemovedGone /\ RecordsHad /\ RunPlan /\ RunFits /\ CallersFit /\ WalksExact
      /\ RunTyped /\ TransferTyped /\ TransferTyped' /\ "A" \in Devices /\ "B" \in Devices
  BY RunParts DEF Core, Local, Devices
<1>1. asked = 0 /\ heard = None /\ NoUpload /\ cur = None /\ phase = "dstmoves"
  BY <1>0, Waiting DEF RunFits, DstMoves
<1>2. CASE aborted \/ \E m \in Renamed("dst") : fs["A"][m[1]] = None
  BY <1>1, <1>2, RunFailsDelete DEF DstMoves
<1>3. CASE ~(aborted \/ \E m \in Renamed("dst") : fs["A"][m[1]] = None)
  <2>0. UNCHANGED <<cur, newStored, uploads, asked, heard, wire, stored, job, clock>>
    BY <1>3 DEF DstMoves, UploadsOnly, settings
  <2>1. CASE Renamed("dst") = {}
    <3>1. phase' = "visit" /\ todo' = ToVisit /\ UNCHANGED <<fs, walked, blamed, touched>>
      BY <1>3, <2>1 DEF DstMoves
    <3>2. todo' \subseteq Paths
      BY <3>1 DEF ToVisit
    <3> QED BY <1>1, <2>0, <3>1, <3>2, RenamesThrough
  <2>2. CASE Renamed("dst") # {}
    <3>1. PICK m \in Renamed("dst") :
             /\ fs' = [fs EXCEPT !["A"] = Moved(@, m[1], m[2], walked["B"][m[2]].mtimeMs)]
             /\ walked' = [walked EXCEPT !["A"][m[1]] = None, !["A"][m[2]] = walked["B"][m[2]]]
             /\ blamed' = IF /\ fs["B"][m[2]] # None
                             /\ fs["B"][m[2]].data = fs["A"][m[1]].data
                          THEN Follows(blamed, m[1], m[2]) \cup ({m[2]} \cap touched')
                          ELSE blamed \cup {m[1], m[2]}
             /\ touched' = Follows(touched, m[1], m[2])
             /\ UNCHANGED <<phase, todo>>
      BY <1>3, <2>2 DEF DstMoves
    <3>2. /\ m[1] \in Missing("dst") /\ m[2] \in Added("dst")
          /\ stored[m[1]]["dst"].size = walked["B"][m[2]].size
      BY DEF Renamed, Changed
    <3>3. /\ m[1] \in Paths /\ m[2] \in Paths /\ stored[m[2]] = None
          /\ walked["B"][m[1]] = None /\ walked["A"][m[1]] # None
          /\ walked["B"][m[2]] # None /\ walked["A"][m[2]] = None
          /\ walked["A"][m[1]].size = stored[m[1]]["dst"].size
      BY <3>2 DEF Missing, Added, Changed, Mirror
    <3>4. m[1] # m[2] /\ fs["A"][m[1]] # None
      BY <1>3, <3>3
    <3> DEFINE old == fs["A"][m[1]]
               meta == walked["B"][m[2]]
               e == [old EXCEPT !.mtimeMs = meta.mtimeMs]
    <3>5. /\ walked'["B"] = walked["B"]
          /\ \A p \in Paths : walked'["A"][p] = IF p = m[2] THEN meta
                                                ELSE IF p = m[1] THEN None ELSE walked["A"][p]
      <4>1. walked' = [walked EXCEPT !["A"][m[1]] = None, !["A"][m[2]] = meta]
        BY <3>1
      <4>2. walked["A"] \in Listing /\ walked["B"] \in Listing
        BY <1>0 DEF RunTyped
      <4> HIDE DEF meta
      <4>3. walked'["B"] = walked["B"]
        BY <1>0, <4>1, <4>2 DEF RunTyped
      <4> QED BY <1>0, <3>3, <4>1, <4>2, <4>3 DEF RunTyped, Listing
    <3>6. /\ fs'["B"] = fs["B"]
          /\ \A p \in Paths : fs'["A"][p] = IF p = m[1] THEN None
                                            ELSE IF p = m[2] THEN e ELSE fs["A"][p]
      <4> DEFINE tree == Moved(fs["A"], m[1], m[2], meta.mtimeMs)
      <4>1. fs' = [fs EXCEPT !["A"] = tree]
        BY <3>1
      <4>2. tree = [fs["A"] EXCEPT ![m[2]] = e, ![m[1]] = None]
        BY DEF Moved
      <4> HIDE DEF tree, e
      <4>3. fs'["A"] = tree /\ fs'["B"] = fs["B"]
        BY <1>0, <4>1 DEF TransferTyped
      <4>4. fs["A"] \in [Paths -> Entry \cup {None}]
        BY <1>0 DEF TransferTyped
      <4>5. \A p \in Paths : [fs["A"] EXCEPT ![m[2]] = e, ![m[1]] = None][p] =
               IF p = m[1] THEN None ELSE IF p = m[2] THEN e ELSE fs["A"][p]
        BY <3>3, <4>4
      <4> QED BY <4>2, <4>3, <4>5
    <3>7. /\ \A p \in Paths : Excused(p) => Excused(p)'
          /\ Excused(m[1]) => Excused(m[2])'
          /\ blamed \subseteq blamed'
      BY <3>1 DEF Excused, Follows
    <3>8. MetaOf(e) = [size |-> old.size, mtimeMs |-> meta.mtimeMs] /\ e # None
      <4>1. old \in Entry
        BY <1>0, <3>3, <3>4 DEF TransferTyped
      <4>2. meta \in Meta
        BY <1>0, <3>3 DEF RunTyped, Listing
      <4> HIDE DEF old, meta
      <4>3. e \in Entry /\ e.size = old.size /\ e.mtimeMs = meta.mtimeMs
        BY <4>1, <4>2 DEF Entry, Meta
      <4> HIDE DEF e
      <4> QED BY <4>3, NotNone DEF MetaOf
    <3>9. \A d \in Devices, p \in Paths : Excused(p) \/ walked[d][p] = MetaOf(fs[d][p])
      BY <1>0, <1>1 DEF WalksExact, Knows, Busy
    <3>10. Excused(m[2])' \/ MetaOf(e) = meta
      <4>1. CASE ~Excused(m[1])
        <5>1. walked["A"][m[1]] = MetaOf(old)
          BY <1>0, <3>3, <3>9, <4>1
        <5>2. old.size = meta.size
          <6>1. MetaOf(old).size = old.size
            BY <3>4 DEF MetaOf
          <6> QED BY <3>2, <3>3, <5>1, <6>1
        <5>3. meta \in [size : Sizes, mtimeMs : Times]
          BY <1>0, <3>3 DEF RunTyped, Listing, Meta
        <5>4. meta = [size |-> meta.size, mtimeMs |-> meta.mtimeMs]
          BY <5>3
        <5> QED BY <3>8, <5>2, <5>4
      <4> QED BY <3>7, <4>1
    <3> HIDE DEF old, e
    <3>11. Commands' /\ UploadsLand' /\ ReportsTrue'
      BY <1>0, <1>1, <2>0, Silent DEF NoUpload
    <3>12. \A p \in Paths : newStored[p] = None
      BY <1>0, <1>1 DEF RunPlan
    <3>13. RunPlan'
      BY <1>0, <1>1, <2>0, <3>1, <3>12 DEF RunPlan, Bidir
    <3>14. WalksExact'
      <4>1. ASSUME NEW d \in Devices, NEW p \in Paths, ~Excused(p)'
            PROVE  walked'[d][p] = MetaOf(fs'[d][p])
        <5>1. ~Excused(p)
          BY <3>7, <4>1
        <5>2. CASE d = "B"
          BY <3>5, <3>6, <3>9, <5>1, <5>2
        <5>3. CASE d = "A" /\ p = m[1]
          BY <3>4, <3>5, <3>6, <5>3 DEF MetaOf
        <5>4. CASE d = "A" /\ p = m[2]
          BY <3>4, <3>5, <3>6, <3>10, <4>1, <5>4
        <5>5. CASE d = "A" /\ p # m[1] /\ p # m[2]
          BY <3>5, <3>6, <3>9, <5>1, <5>5
        <5> QED BY <5>2, <5>3, <5>4, <5>5 DEF Devices
      <4> QED BY <4>1 DEF WalksExact, MetaOf
    <3>15. MoveExact' /\ TakenAway'
      BY <1>1, <2>0 DEF MoveExact, TakenAway, Moving
    <3>16. RemovedGone'
      BY <1>0, <3>3, Observed
    <3>17. RecordsHad'
      <4>1. ASSUME NEW p \in Paths, Both(stored[p]), NEW d \in Devices, HadBefore(d, p)
            PROVE  HadBefore(d, p)'
        <5>1. Bidir' /\ phase' = "dstmoves" /\ cur' = None
          BY <1>0, <1>1, <2>0, <3>1 DEF RunPlan, Bidir
        <5>2. /\ Has(d, p) => Has(d, p)' \/ (fs[d][p] # None /\ fs'[d][p] = None)
              /\ p \in acted => p \in acted'
              /\ fs'[d][p] # fs[d][p] => p \in acted'
          BY <1>0, <1>1, <2>0, Observed
        <5>3. p # m[2]
          BY <3>3, <4>1 DEF Both
        <5>4. CASE Has(d, p)'
          BY <5>4 DEF HadBefore
        <5>5. CASE fs[d][p] # None /\ fs'[d][p] = None
          <6>1. p = m[1]
            BY <3>6, <5>3, <5>5 DEF Devices
          <6>2. walked'["A"][p] = None /\ walked'["B"][p] = None
            BY <3>3, <3>5, <5>3, <6>1
          <6> QED BY <5>1, <5>2, <5>5, <6>2 DEF HadBefore, Handled, Knows
        <5>6. CASE p \in acted /\ Handled(p)
          <6>1. walked["A"][p] = None /\ walked["B"][p] = None
            BY <1>1, <5>6 DEF Handled, Busy
          <6>2. walked'["A"][p] = None /\ walked'["B"][p] = None
            BY <3>5, <5>3, <6>1
          <6> QED BY <5>1, <5>2, <5>6, <6>2 DEF HadBefore, Handled, Knows
        <5> QED BY <4>1, <5>2, <5>4, <5>5, <5>6 DEF HadBefore
      <4>2. \A p \in Paths : Both(stored[p]) => p \in blamed' \/ (HadBefore("A", p)' /\ (Bidir => HadBefore("B", p)'))
        BY <1>0, <3>7, <4>1 DEF RecordsHad
      <4> QED BY <2>0, <3>12, <4>2 DEF RecordsHad, Both, Bidir
    <3> QED BY <3>11, <3>13, <3>14, <3>15, <3>16, <3>17 DEF DeleteInv
  <2> QED BY <2>1, <2>2
<1> QED BY <1>2, <1>3
\* What a two-way run has deleted was on the other side, unchanged, when it was recorded.
LEMMA DeletesWhatWentAway ==
    ASSUME NEW p \in Paths, ActionFor(p) \in {"delete-dst", "delete-src", "copy-to-src"}
    PROVE  /\ Bidir
           /\ ActionFor(p) = "delete-dst" =>
                 Both(stored[p]) /\ walked["A"][p] = None /\ walked["B"][p] # None
           /\ ActionFor(p) = "delete-src" =>
                 Both(stored[p]) /\ walked["B"][p] = None /\ walked["A"][p] # None
           /\ ActionFor(p) = "copy-to-src" => walked["B"][p] # None
<1> DEFINE src == walked["A"][p]  dst == walked["B"][p]  prev == stored[p]
           a == resolveAction(src, dst, prev)
<1>1. Bidir /\ ActionFor(p) = newerWins(a, src, dst)
  BY DEF ActionFor, Bidir
<1>2. ActionFor(p) = a \/ (a = "conflict" /\ ActionFor(p) \in {"copy-to-dst", "copy-to-src"})
  BY <1>1 DEF newerWins
<1>3. CASE src = None /\ dst = None
  <2>1. a = "skip"
    BY <1>3 DEF resolveAction
  <2> QED BY <1>2, <2>1
<1>4. CASE src # None /\ dst = None
  <2>1. a = IF prev # None /\ prev.dst # None /\ ~fileChanged(src, prev, "src") THEN "delete-src" ELSE "copy-to-dst"
    BY <1>4 DEF resolveAction
  <2>2. ~fileChanged(src, prev, "src") /\ prev # None => prev.src # None
    BY <1>4 DEF fileChanged
  <2> QED BY <1>1, <1>2, <1>4, <2>1, <2>2 DEF Both
<1>5. CASE src = None /\ dst # None
  <2>1. a = IF prev # None /\ prev.src # None /\ ~fileChanged(dst, prev, "dst") THEN "delete-dst" ELSE "copy-to-src"
    BY <1>5 DEF resolveAction
  <2>2. ~fileChanged(dst, prev, "dst") /\ prev # None => prev.dst # None
    BY <1>5 DEF fileChanged
  <2> QED BY <1>1, <1>2, <1>5, <2>1, <2>2 DEF Both
<1>6. CASE src # None /\ dst # None
  <2>1. a \in {"skip", "copy-to-dst", "copy-to-src", "conflict"}
    BY <1>6 DEF resolveAction
  <2> QED BY <1>1, <1>2, <1>6, <2>1
<1> QED BY <1>3, <1>4, <1>5, <1>6

\* What a visit that is over records of both sides is there, or is excused.
LEMMA RecordLands ==
    ASSUME Core, DeleteInv, NEW p \in Paths, NEW action, NEW ok \in BOOLEAN,
           NEW sum, phase = "visit", p \in todo,
           cur # None => action = cur.action /\ p = cur.path /\ cur.step = "transfer",
           cur = None => action \in {"skip", "delete-src"},
           action = "copy-to-dst" /\ ok => Landed("B", p),
           action = "copy-to-src" /\ ok => Landed("A", p),
           Both(RecordOf(p, action, ok, sum)), ~Excused(p), ok
    PROVE  Landed("A", p) /\ (Bidir => Landed("B", p))
<1>0. /\ RunPlan /\ RunFits /\ WalksExact /\ TransferTyped /\ "A" \in Devices /\ "B" \in Devices
  BY RunParts DEF Devices
<1> DEFINE r == RecordOf(p, action, ok, sum)
<1>1. r.src # None /\ r.dst # None
  BY DEF Both
<1>2. cur # None => /\ action \in {"copy-to-dst", "copy-to-src", "delete-dst", "move"}
                    /\ action = "delete-dst" => walked["A"][p] = None
                    /\ action = "copy-to-src" => Bidir
                    /\ action # "move" /\ cur.from = cur.path
  BY <1>0 DEF RunPlan, RunFits
<1>3. ASSUME NEW d \in Devices, walked[d][p] # None, d = "A" => action # "copy-to-src",
             d = "B" => action \in {"skip", "delete-src", "copy-to-src"}
      PROVE  Landed(d, p)
  <2>1. ~Busy(d, p)
    BY <1>2, <1>3 DEF Busy, Devices
  <2>2. walked[d][p] = MetaOf(fs[d][p])
    BY <1>0, <2>1 DEF WalksExact, Knows
  <2> QED BY <1>3, <2>2 DEF MetaOf, Landed, Has
<1>4. CASE ~Bidir
  <2>1. r.src = walked["A"][p]
    BY <1>4 DEF RecordOf, Bidir
  <2> QED BY <1>0, <1>1, <1>2, <1>3, <1>4, <2>1
<1>5. CASE Bidir
  <2>1. /\ r.src = IF action = "copy-to-src" THEN walked["B"][p]
                   ELSE IF action = "delete-src" THEN None ELSE walked["A"][p]
        /\ r.dst = IF action = "copy-to-dst" THEN walked["A"][p] ELSE walked["B"][p]
    BY <1>5 DEF RecordOf, Bidir
  <2> HIDE DEF r
  <2>2. CASE action = "copy-to-src"
    <3>1. Landed("A", p) /\ walked["B"][p] # None
      BY <1>1, <2>1, <2>2
    <3> QED BY <1>0, <1>3, <2>2, <3>1
  <2>3. CASE action = "copy-to-dst"
    <3>1. Landed("B", p) /\ walked["A"][p] # None
      BY <1>1, <2>1, <2>3
    <3> QED BY <1>0, <1>3, <2>3, <3>1
  <2>4. CASE action \in {"skip", "delete-src", "delete-dst"}
    <3>1. action = "skip" /\ walked["A"][p] # None /\ walked["B"][p] # None
      BY <1>1, <1>2, <2>1, <2>4
    <3> QED BY <1>0, <1>3, <3>1
  <2> QED BY <1>2, <2>2, <2>3, <2>4
<1> QED BY <1>4, <1>5

\* A visit that is over, of a path that was left alone or changed at the source as planned.
LEMMA VisitedDelete ==
    ASSUME Core, Core', DeleteInv, Observe, NEW p \in Paths, NEW action, NEW ok \in BOOLEAN,
           NEW sum, Visited(p, action, ok, sum), phase = "visit", p \in todo,
           cur # None => action = cur.action /\ p = cur.path /\ cur.step = "transfer" /\ cur.from = p,
           cur = None => action \in {"skip", "delete-src"},
           action = "copy-to-dst" /\ ok => Landed("B", p),
           action = "copy-to-src" /\ ok => Landed("A", p),
           UNCHANGED <<phase, walked, stored, touched, job, clock, uploads, asked>>,
           asked = 0, NoUpload, heard' = None,
           \/ UNCHANGED fs
           \/ action = "delete-src" /\ Bidir /\ fs' = [fs EXCEPT !["A"][p] = None]
    PROVE  DeleteInv'
<1>0. /\ RemovedGone /\ RecordsHad /\ RunPlan /\ RunFits /\ WalksExact
      /\ RunTyped /\ TransferTyped /\ TransferTyped' /\ "A" \in Devices /\ "B" \in Devices
  BY RunParts DEF Core, Local, Devices
<1> DEFINE r == RecordOf(p, action, ok, sum)
<1>1. /\ todo' = todo \ {p} /\ cur' = None
      /\ newStored' = [newStored EXCEPT ![p] = r]
      /\ blamed' = IF ok THEN blamed ELSE blamed \cup {p}
  BY DEF Visited
<1>2. \A d \in Devices, q \in Paths : fs'[d][q] # fs[d][q] =>
         d = "A" /\ q = p /\ action = "delete-src" /\ Bidir /\ fs'[d][q] = None
  BY <1>0 DEF TransferTyped
<1>3. \A q \in Paths : newStored'[q] = IF q = p THEN r ELSE newStored[q]
  BY <1>0, <1>1 DEF RunTyped, Records
<1>4. Commands' /\ UploadsLand' /\ ReportsTrue'
  BY <1>0, Silent DEF NoUpload
<1>5. RunPlan'
  BY <1>0, <1>1, <1>3 DEF RunPlan
<1>6. Bidir' = Bidir
  BY DEF Bidir
<1>7. WalksExact'
  <2>1. ASSUME NEW d \in Devices, NEW q \in Paths, ~Excused(q)', ~Busy(d, q)'
        PROVE  walked'[d][q] = MetaOf(fs'[d][q])
    <3>1. ~Excused(q)
      BY <1>1, <2>1 DEF Excused
    <3>2. ~Busy(d, q)
      BY <1>0, <1>1, <1>6, <2>1 DEF Busy, Devices, RunPlan
    <3>3. walked[d][q] = MetaOf(fs[d][q])
      BY <1>0, <3>1, <3>2 DEF WalksExact, Knows
    <3>4. fs'[d][q] = fs[d][q]
      BY <1>1, <1>2, <1>6, <2>1 DEF Busy
    <3> QED BY <3>3, <3>4
  <2> QED BY <2>1 DEF WalksExact, MetaOf
<1>8. MoveExact' /\ TakenAway'
  BY <1>1 DEF MoveExact, TakenAway, Moving
<1>9. /\ RemovedGone'
      /\ \A d \in Devices, q \in Paths : Has(d, q) => Has(d, q)' \/ fs'[d][q] # fs[d][q]
      /\ \A d \in Devices, q \in Paths : fs'[d][q] # fs[d][q] => q \in acted'
      /\ \A q \in Paths : q \in acted => q \in acted'
  <2>1. ASSUME NEW d \in Devices, NEW q \in Paths
        PROVE  /\ RemovedGone'
               /\ Has(d, q) => Has(d, q)' \/ fs'[d][q] # fs[d][q]
               /\ fs'[d][q] # fs[d][q] => q \in acted'
               /\ q \in acted => q \in acted'
    BY <1>0, Observed
  <2> QED BY <1>0, <2>1
<1>10. RecordsHad'
  <2>1. ASSUME NEW q \in Paths, Handled(q) PROVE Handled(q)'
    <3>1. CASE q = p
      BY <1>1, <3>1 DEF Handled, Busy
    <3>2. CASE q # p
      BY <1>0, <1>1, <1>6, <2>1, <3>2 DEF Handled, Busy, Knows, RunPlan
    <3> QED BY <3>1, <3>2
  <2>2. ASSUME NEW q \in Paths, NEW d \in Devices, HadBefore(d, q)
        PROVE  HadBefore(d, q)'
    <3>1. CASE fs'[d][q] # fs[d][q]
      <4>1. Bidir /\ q = p /\ q \in acted'
        BY <1>2, <1>9, <3>1
      <4>2. Handled(q)'
        BY <1>1, <4>1 DEF Handled, Busy
      <4> QED BY <1>6, <4>1, <4>2 DEF HadBefore
    <3>2. CASE fs'[d][q] = fs[d][q]
      BY <1>6, <1>9, <2>1, <2>2, <3>2 DEF HadBefore
    <3> QED BY <3>1, <3>2
  <2>3. \A q \in Paths : Both(stored[q]) => q \in blamed' \/ (HadBefore("A", q)' /\ (Bidir => HadBefore("B", q)'))
    BY <1>0, <1>1, <2>2 DEF RecordsHad
  <2>4. ASSUME NEW q \in Paths, Both(newStored'[q]) PROVE Landed("A", q)' /\ (Bidir => Landed("B", q)')
    <3>1. CASE q # p
      <4>1. Landed("A", q) /\ (Bidir => Landed("B", q))
        BY <1>0, <1>3, <2>4, <3>1 DEF RecordsHad
      <4>2. \A d \in Devices : fs'[d][q] = fs[d][q]
        BY <1>2, <3>1
      <4>3. \A d \in Devices : Landed(d, q) => Landed(d, q)'
        BY <1>1, <1>9, <4>2 DEF Landed, Excused
      <4> QED BY <1>0, <4>1, <4>3
    <3>2. CASE q = p /\ (Excused(q) \/ ~ok)
      BY <1>1, <3>2 DEF Landed, Excused
    <3>3. CASE q = p /\ ~Excused(q) /\ ok
      <4>1. Both(r)
        BY <1>3, <2>4, <3>3
      <4>2. Landed("A", p) /\ (Bidir => Landed("B", p))
        BY <3>3, <4>1, RecordLands
      <4>3. ~(action = "delete-src" /\ Bidir)
        BY <3>3, <4>1 DEF Both, RecordOf, Bidir
      <4>4. \A d \in Devices : fs'[d][q] = fs[d][q]
        BY <1>2, <4>3
      <4>5. \A d \in Devices : Landed(d, q) => Landed(d, q)'
        BY <1>1, <1>9, <4>4 DEF Landed, Excused
      <4> QED BY <1>0, <3>3, <4>2, <4>5
    <3> QED BY <3>1, <3>2, <3>3
  <2> QED BY <1>6, <2>3, <2>4 DEF RecordsHad, Both
<1> QED BY <1>4, <1>5, <1>7, <1>8, <1>9, <1>10 DEF DeleteInv
\* A visit, or the delete of an orphan, is under way.
LEMMA UnderWay ==
    ASSUME Core, Core', DeleteInv, Observe, NEW p \in Paths, phase \in {"visit", "delete"}, p \in todo,
           cur = None, cur' # None, cur'.path = p, cur'.from = p,
           cur'.action \in {"copy-to-dst", "copy-to-src", "delete-dst"},
           cur'.action = "copy-to-src" => Bidir,
           cur'.action = "copy-to-dst" => phase = "visit",
           cur'.action = "delete-dst" =>
              /\ walked["A"][p] = None /\ walked["B"][p] # None
              /\ job.mode # "mirror" => Both(stored[p]),
           UNCHANGED <<phase, walked, todo, newStored, stored, blamed, touched, fs, job, clock>>,
           Commands', UploadsLand', ReportsTrue'
    PROVE  DeleteInv'
<1>0. /\ RemovedGone /\ RecordsHad /\ RunPlan /\ RunFits /\ WalksExact
      /\ "A" \in Devices /\ "B" \in Devices
  BY RunParts DEF Devices
<1>1. RunPlan'
  BY <1>0 DEF RunPlan, Bidir, DeleteCandidates
<1>2. WalksExact'
  <2>1. \A d \in Devices, q \in Paths : Busy(d, q) => Busy(d, q)'
    BY DEF Busy, Bidir
  <2> QED BY <1>0, <2>1 DEF WalksExact, Knows, Excused, MetaOf
<1>3. MoveExact'
  BY DEF MoveExact, Moving
<1>4. /\ RemovedGone'
      /\ \A q \in Paths : <<"A", q>> \in removed => <<"A", q>> \in removed'
  BY <1>0, HasStays
<1>5. TakenAway'
  <2>1. SUFFICES ASSUME cur'.action = "delete-dst", job.mode # "mirror"
                 PROVE  <<"A", p>> \in removed' \/ Excused(p)'
    BY DEF TakenAway, Moving
  <2>2. CASE phase = "visit" \/ phase = "delete"
    <3>1. ~Busy("A", p)
      BY <1>0, <2>2 DEF Busy, RunPlan
    <3>2. Excused(p) \/ walked["A"][p] = MetaOf(fs["A"][p])
      BY <1>0, <2>2, <3>1 DEF WalksExact, Knows
    <3>3. MetaOf(fs["A"][p]) = None => fs["A"][p] = None
      BY <1>0, NothingThere, RunParts
    <3>4. p \in blamed \/ HadBefore("A", p)
      BY <1>0, <2>1 DEF RecordsHad
    <3>5. HadBefore("A", p) => Has("A", p)
      <4>1. CASE phase = "visit"
        BY <2>1, <4>1 DEF HadBefore, Handled, Busy
      <4>2. CASE phase = "delete"
        BY <1>0, <4>2 DEF HadBefore, RunPlan
      <4> QED BY <4>1, <4>2
    <3>6. <<"A", p>> \in removed \/ Excused(p)
      BY <2>1, <3>2, <3>3, <3>4, <3>5 DEF Has, Excused
    <3> QED BY <1>4, <3>6 DEF Excused
  <2> QED BY <2>2
<1>6. \A q \in Paths : Handled(q) => Handled(q)'
  BY DEF Handled, Busy, Knows, Bidir
<1>7. RecordsHad'
  BY <1>0, <1>6, RecordsStay DEF Grows
<1> QED BY <1>1, <1>2, <1>3, <1>4, <1>5, <1>7 DEF DeleteInv

\* What the run asks about a path is about its path, and of what kind it says.
LEMMA AsksAboutPath ==
    ASSUME RemoteTypeOK, Core, Core', NoUpload, asked = 0, UNCHANGED uploads,
           NEW m, NEW op \in {"signature", "send", "delete"}, NEW p,
           \A id \in CallIds : LET x == [m EXCEPT !.id = id]
                               IN  /\ x \in Message /\ x.id = id /\ ~IsAnswer(x) /\ x.op = op
                                   /\ x.path = p,
           Asks(m) \/ (heard' = Unheard /\ UNCHANGED <<asked, wire>>),
           cur'.path = p, op = "delete" => cur'.action = "delete-dst"
    PROVE  Commands' /\ UploadsLand' /\ ReportsTrue'
<1>1. /\ \A y \in InBox(wire', "B") : Mine(y)' => \E id \in CallIds : y = [m EXCEPT !.id = id]
      /\ UploadsLand' /\ ReportsTrue' /\ \A u \in uploads' : ~Own(u)'
  <2>1. \A id \in CallIds : LET x == [m EXCEPT !.id = id]
                            IN  x \in Message /\ x.id = id /\ ~IsAnswer(x) /\ x.op = op
    OBVIOUS
  <2>2. /\ RemoteTypeOK /\ Core /\ Core' /\ NoUpload /\ asked = 0 /\ UNCHANGED uploads
        /\ Asks(m) \/ (heard' = Unheard /\ UNCHANGED <<asked, wire>>)
    OBVIOUS
  <2> QED BY ONLY <2>1, <2>2, AsksAlone
<1>2. ASSUME NEW z \in InBox(wire', "B"), Mine(z)' PROVE z.op = op /\ z.path = p
  <2>1. PICK id \in CallIds : z = [m EXCEPT !.id = id]
    BY <1>1, <1>2
  <2> DEFINE x == [m EXCEPT !.id = id]
  <2>2. x.op = op /\ x.path = p
    OBVIOUS
  <2>3. z = x
    BY <2>1
  <2> HIDE DEF x
  <2> QED BY <2>2, <2>3
<1>3. ASSUME NEW z \in InBox(wire', "B"), ~IsAnswer(z), Mine(z)'
      PROVE  /\ z.op # "move" /\ z.path = cur'.path
             /\ z.op = "delete" => cur'.action = "delete-dst"
  BY <1>2, <1>3
<1>4. Commands'
  BY <1>1, <1>3 DEF Commands
<1> QED BY <1>1, <1>4

\* What the run may ask about a path.
LEMMA AskPaths ==
    ASSUME NEW id \in CallIds, NEW p \in Paths, NEW basis \in Contents \cup {None}
    PROVE  /\ LET x == [[op |-> "signature", id |-> 0, path |-> p] EXCEPT !.id = id]
              IN  x \in Message /\ x.id = id /\ ~IsAnswer(x) /\ x.op = "signature" /\ x.path = p
           /\ LET x == [[op |-> "delete", id |-> 0, path |-> p] EXCEPT !.id = id]
              IN  x \in Message /\ x.id = id /\ ~IsAnswer(x) /\ x.op = "delete" /\ x.path = p
           /\ LET x == [[op |-> "send", id |-> 0, path |-> p, basis |-> basis] EXCEPT !.id = id]
              IN  x \in Message /\ x.id = id /\ ~IsAnswer(x) /\ x.op = "send" /\ x.path = p
<1>1. /\ [[op |-> "signature", id |-> 0, path |-> p] EXCEPT !.id = id].path = p
      /\ [[op |-> "delete", id |-> 0, path |-> p] EXCEPT !.id = id].path = p
      /\ [[op |-> "send", id |-> 0, path |-> p, basis |-> basis] EXCEPT !.id = id].path = p
  OBVIOUS
<1> QED BY <1>1, AskForms

\* The run visits a path.
LEMMA VisitDelete ==
    ASSUME RemoteTypeOK, Core, Core', DeleteInv, NEW p \in Paths, Visit(p), Observe
    PROVE  DeleteInv'
<1> DEFINE action == ActionFor(p)
           src == walked["A"][p]  dst == walked["B"][p]
           basis == IF src # None /\ job.delta /\ fs["A"][p] # None THEN fs["A"][p].data ELSE None
<1>0. RunPlan /\ RunFits /\ CallersFit /\ TransferTyped
  BY RunParts
<1>1. /\ phase = "visit" /\ cur = None /\ p \in todo /\ asked = 0 /\ heard = None /\ NoUpload
      /\ UNCHANGED <<phase, walked, stored, touched, job, clock>>
  BY <1>0, Waiting DEF Visit, settings
<1>2. \/ /\ action = "skip"
         /\ Visited(p, action, TRUE, None)
         /\ UNCHANGED <<fs, asked, heard, wire, uploads>>
      \/ /\ action = "copy-to-dst"
         /\ cur' = At(p, action, "transfer") /\ SendsFull(p)
         /\ UNCHANGED <<todo, newStored, blamed, fs, asked, wire>>
      \/ /\ action = "copy-to-dst"
         /\ cur' = At(p, action, "signature")
         /\ Asks([op |-> "signature", id |-> 0, path |-> p])
         /\ UNCHANGED <<todo, newStored, blamed, fs, uploads>>
      \/ /\ action = "copy-to-src"
         /\ cur' = At(p, action, "transfer")
         /\ \/ heard' = Unheard /\ UNCHANGED <<asked, wire>>
            \/ Asks([op |-> "send", id |-> 0, path |-> p, basis |-> basis])
         /\ UNCHANGED <<todo, newStored, blamed, fs, uploads>>
      \/ /\ action = "delete-dst"
         /\ cur' = At(p, action, "transfer")
         /\ Asks([op |-> "delete", id |-> 0, path |-> p])
         /\ UNCHANGED <<todo, newStored, blamed, fs, uploads>>
      \/ /\ action = "delete-src"
         /\ fs' = [fs EXCEPT !["A"][p] = None]
         /\ Visited(p, action, fs["A"][p] # None, None)
         /\ UNCHANGED <<asked, heard, wire, uploads>>
  BY DEF Visit, UploadsOnly
<1>3. basis \in Contents \cup {None}
  <2>1. fs["A"][p] # None => fs["A"][p].data \in Contents
    BY <1>0 DEF TransferTyped, Devices, Entry
  <2> QED BY <2>1
<1>4. /\ action \in {"delete-dst", "delete-src", "copy-to-src"} => Bidir
      /\ action = "delete-dst" =>
            /\ Both(stored[p]) /\ walked["A"][p] = None /\ walked["B"][p] # None
  BY DeletesWhatWentAway
<1> HIDE DEF action, src, dst, basis
<1>5. ASSUME NEW step \in {"signature", "transfer"}, cur' = At(p, action, step),
             action \in {"copy-to-dst", "copy-to-src", "delete-dst"},
             UNCHANGED <<todo, newStored, blamed, fs>>,
             Commands', UploadsLand', ReportsTrue'
      PROVE  DeleteInv'
  <2>1. cur' # None
    BY <1>5, CursorAt DEF Actions
  <2>2. cur'.path = p /\ cur'.from = p /\ cur'.action = action
    BY <1>5 DEF At
  <2> QED BY <1>1, <1>4, <1>5, <2>1, <2>2, UnderWay
<1>6. ASSUME NEW step, cur' = At(p, action, step) PROVE cur'.path = p /\ cur'.action = action
  BY <1>6 DEF At
<1>7. CASE /\ action = "skip" /\ Visited(p, action, TRUE, None)
           /\ UNCHANGED <<fs, asked, heard, wire, uploads>>
  <2>1. TRUE \in BOOLEAN
    OBVIOUS
  <2> QED BY <1>1, <1>7, <2>1, VisitedDelete
<1>8. CASE /\ action = "copy-to-dst" /\ cur' = At(p, action, "transfer") /\ SendsFull(p)
           /\ UNCHANGED <<todo, newStored, blamed, fs, asked, wire>>
  <2>1. \/ heard' = Unheard /\ uploads' = uploads
        \/ heard' = None /\ \E u : /\ u.caller = <<>> /\ u.path = p /\ u.put # "whole"
                                   /\ uploads' = uploads \cup {u}
    BY <1>8, SendsFullAlone
  <2>2. cur'.path = p
    BY <1>6, <1>8
  <2>3. Commands' /\ UploadsLand' /\ ReportsTrue'
    BY <1>1, <1>8, <2>1, <2>2, BeginsAlone
  <2> QED BY <1>5, <1>8, <2>3
<1>9. CASE /\ action = "copy-to-dst" /\ cur' = At(p, action, "signature")
           /\ Asks([op |-> "signature", id |-> 0, path |-> p])
           /\ UNCHANGED <<todo, newStored, blamed, fs, uploads>>
  <2> DEFINE m == [op |-> "signature", id |-> 0, path |-> p]
  <2>1. Asks(m)
    BY <1>9
  <2>2. \A id \in CallIds : LET x == [m EXCEPT !.id = id]
                            IN  /\ x \in Message /\ x.id = id /\ ~IsAnswer(x) /\ x.op = "signature"
                                /\ x.path = p
    BY <1>3, AskPaths
  <2>3. cur'.path = p /\ cur'.action = "copy-to-dst"
    BY <1>6, <1>9
  <2> HIDE DEF m
  <2>4. Commands' /\ UploadsLand' /\ ReportsTrue'
    BY <1>1, <1>9, <2>1, <2>2, <2>3, AsksAboutPath
  <2> QED BY <1>5, <1>9, <2>4
<1>10. CASE /\ action = "copy-to-src" /\ cur' = At(p, action, "transfer")
            /\ \/ heard' = Unheard /\ UNCHANGED <<asked, wire>>
               \/ Asks([op |-> "send", id |-> 0, path |-> p, basis |-> basis])
            /\ UNCHANGED <<todo, newStored, blamed, fs, uploads>>
  <2> DEFINE m == [op |-> "send", id |-> 0, path |-> p, basis |-> basis]
  <2>1. Asks(m) \/ (heard' = Unheard /\ UNCHANGED <<asked, wire>>)
    BY <1>10
  <2>2. \A id \in CallIds : LET x == [m EXCEPT !.id = id]
                            IN  /\ x \in Message /\ x.id = id /\ ~IsAnswer(x) /\ x.op = "send"
                                /\ x.path = p
    BY <1>3, AskPaths
  <2>3. cur'.path = p
    BY <1>6, <1>10
  <2> HIDE DEF m
  <2>4. Commands' /\ UploadsLand' /\ ReportsTrue'
    <3>1. /\ RemoteTypeOK /\ Core /\ Core' /\ NoUpload /\ asked = 0 /\ UNCHANGED uploads
          /\ "send" \in {"signature", "send", "delete"} /\ "send" # "delete"
      BY <1>1, <1>10
    <3> QED BY ONLY <2>1, <2>2, <2>3, <3>1, AsksAboutPath
  <2> QED BY <1>5, <1>10, <2>4
<1>11. CASE /\ action = "delete-dst" /\ cur' = At(p, action, "transfer")
            /\ Asks([op |-> "delete", id |-> 0, path |-> p])
            /\ UNCHANGED <<todo, newStored, blamed, fs, uploads>>
  <2> DEFINE m == [op |-> "delete", id |-> 0, path |-> p]
  <2>1. Asks(m)
    BY <1>11
  <2>2. \A id \in CallIds : LET x == [m EXCEPT !.id = id]
                            IN  /\ x \in Message /\ x.id = id /\ ~IsAnswer(x) /\ x.op = "delete"
                                /\ x.path = p
    BY <1>3, AskPaths
  <2>3. cur'.path = p /\ cur'.action = "delete-dst"
    BY <1>6, <1>11
  <2> HIDE DEF m
  <2>4. Commands' /\ UploadsLand' /\ ReportsTrue'
    BY <1>1, <1>11, <2>1, <2>2, <2>3, AsksAboutPath
  <2> QED BY <1>5, <1>11, <2>4
<1>12. CASE /\ action = "delete-src" /\ fs' = [fs EXCEPT !["A"][p] = None]
            /\ Visited(p, action, fs["A"][p] # None, None)
            /\ UNCHANGED <<asked, heard, wire, uploads>>
  <2>1. (fs["A"][p] # None) \in BOOLEAN
    OBVIOUS
  <2> QED BY <1>1, <1>4, <1>12, <2>1, VisitedDelete
<1> QED BY <1>2, <1>7, <1>8, <1>9, <1>10, <1>11, <1>12

\* The run has an orphan deleted.
LEMMA DeleteOrphanDelete ==
    ASSUME RemoteTypeOK, Core, Core', DeleteInv, NEW p \in Paths, DeleteOrphan(p), Observe
    PROVE  DeleteInv'
<1> DEFINE m == [op |-> "delete", id |-> 0, path |-> p]
<1>0. RunPlan /\ RunFits /\ CallersFit
  BY RunParts
<1>1. /\ phase = "delete" /\ cur = None /\ cur' = At(p, "delete-dst", "transfer") /\ Asks(m)
      /\ p \in todo
      /\ UNCHANGED <<phase, walked, todo, newStored, fs, uploads, stored, blamed, touched, job, clock>>
  BY DEF DeleteOrphan, UploadsOnly, Still, settings
<1>2. asked = 0 /\ heard = None /\ NoUpload
  BY <1>0, <1>1, Waiting
<1>3. p \in DeleteCandidates
  BY <1>0, <1>1 DEF RunPlan
<1>4. walked["A"][p] = None /\ walked["B"][p] # None /\ (job.mode # "mirror" => Both(stored[p]))
  BY <1>3 DEF DeleteCandidates, Both
<1>5. \A id \in CallIds : LET x == [m EXCEPT !.id = id]
                          IN  /\ x \in Message /\ x.id = id /\ ~IsAnswer(x) /\ x.op = "delete"
                              /\ x.path = p
  BY AskPaths
<1>6. cur'.path = p /\ cur'.from = p /\ cur'.action = "delete-dst"
  BY <1>1 DEF At
<1>7. cur' # None
  BY <1>1, CursorAt DEF Actions
<1> HIDE DEF m
<1>8. Commands' /\ UploadsLand' /\ ReportsTrue'
  BY <1>1, <1>2, <1>5, <1>6, AsksAboutPath
<1> QED BY <1>1, <1>4, <1>6, <1>7, <1>8, UnderWay

\* The signature has come, and the upload begins.
LEMMA HearSignatureDelete ==
    ASSUME RemoteTypeOK, Core, Core', DeleteInv, HearSignature, Observe
    PROVE  DeleteInv'
<1> DEFINE p == cur.path
<1>0. /\ RemovedGone /\ RecordsHad /\ RunPlan /\ RunFits /\ CallersFit /\ WalksExact /\ RunTyped
      /\ TakenAway
  BY RunParts
<1>1. /\ cur # None /\ cur.step = "signature" /\ heard # None
      /\ cur' = [cur EXCEPT !.step = "transfer"]
      /\ \/ SendsFull(p)
         \/ /\ heard' = None
            /\ \E n \in FreshNumbers :
                  Begun(Uploading(n, "A", <<>>, p, "delta", walked["A"][p], fs["A"][p], heard.basis))
      /\ UNCHANGED <<phase, walked, todo, newStored, fs, asked, stored, blamed, touched, job, clock>>
  BY DEF HearSignature, Still, settings
<1>2. asked = 0 /\ NoUpload
  BY <1>0, <1>1, Waiting
<1>3. cur.action = "copy-to-dst" /\ cur \in Cursor /\ phase # "idle"
  BY <1>0, <1>1 DEF RunFits, RunTyped
<1>4. /\ cur'.path = cur.path /\ cur'.from = cur.from /\ cur'.action = cur.action /\ cur' # None
  <2>1. cur' \in Cursor /\ cur'.path = cur.path /\ cur'.from = cur.from /\ cur'.action = cur.action
    BY <1>1, <1>3 DEF Cursor
  <2> QED BY <2>1, NotNone
<1>5. cur'.path = p
  BY <1>4
<1> HIDE DEF p
<1>6. \/ heard' = Unheard /\ uploads' = uploads
      \/ heard' = None /\ \E u : /\ u.caller = <<>> /\ u.path = p /\ u.put # "whole"
                                 /\ uploads' = uploads \cup {u}
  <2>1. CASE SendsFull(p)
    BY <2>1, SendsFullAlone
  <2>2. CASE /\ heard' = None
             /\ \E n \in FreshNumbers :
                   Begun(Uploading(n, "A", <<>>, p, "delta", walked["A"][p], fs["A"][p], heard.basis))
    <3>1. PICK n \in FreshNumbers :
             Begun(Uploading(n, "A", <<>>, p, "delta", walked["A"][p], fs["A"][p], heard.basis))
      BY <2>2
    <3> DEFINE u == Uploading(n, "A", <<>>, p, "delta", walked["A"][p], fs["A"][p], heard.basis)
    <3>2. u.caller = <<>> /\ u.path = p /\ u.put # "whole"
      BY DEF Uploading
    <3>3. uploads' = uploads \cup {u}
      BY <3>1 DEF Begun
    <3> HIDE DEF u
    <3> QED BY <2>2, <3>2, <3>3
  <2> QED BY <1>1, <2>1, <2>2
<1>7. Commands' /\ UploadsLand' /\ ReportsTrue'
  BY <1>1, <1>2, <1>5, <1>6, BeginsAlone
<1>8. RunPlan'
  BY <1>0, <1>1, <1>3, <1>4 DEF RunPlan, Bidir, DeleteCandidates
<1>9. \A d \in Devices, q \in Paths : Busy(d, q) <=> Busy(d, q)'
  BY <1>1, <1>4 DEF Busy, Bidir
<1>10. WalksExact'
  BY <1>0, <1>1, <1>9 DEF WalksExact, Knows, Excused, MetaOf
<1>11. MoveExact' /\ TakenAway'
  BY <1>3, <1>4 DEF MoveExact, Moving, TakenAway
<1>12. RemovedGone'
  BY <1>0, <1>1, HasStays
<1>13. \A q \in Paths : Handled(q) => Handled(q)'
  <2>1. "A" \in Devices /\ "B" \in Devices
    BY DEF Devices
  <2> QED BY <1>1, <1>9, <2>1 DEF Handled, Knows
<1>14. RecordsHad'
  BY <1>0, <1>1, <1>3, <1>13, RecordsStay DEF Grows
<1> QED BY <1>7, <1>8, <1>10, <1>11, <1>12, <1>14 DEF DeleteInv
\* The run's upload or delete has ended.
LEMMA HearOutcomeDelete ==
    ASSUME RemoteTypeOK, Core, Core', DeleteInv, HearOutcome, Observe
    PROVE  DeleteInv'
<1> DEFINE sum == IF "sum" \in DOMAIN heard /\ heard.ok THEN heard.sum ELSE None
<1>0. /\ RemovedGone /\ RecordsHad /\ RunPlan /\ RunFits /\ CallersFit /\ WalksExact /\ RunTyped
      /\ ReportsTrue /\ TransferTyped /\ TransferTyped' /\ "A" \in Devices /\ "B" \in Devices
  BY RunParts DEF Core, Local, Devices
<1>1. /\ cur # None /\ cur.step = "transfer" /\ cur.action # "move" /\ heard # None /\ heard' = None
      /\ IF phase = "delete"
         THEN todo' = todo \ {cur.path} /\ cur' = None /\ UNCHANGED <<newStored, blamed>>
         ELSE Visited(cur.path, cur.action, heard.ok, sum)
      /\ UNCHANGED <<phase, walked, fs, uploads, asked, stored, touched, job, clock>>
  BY DEF HearOutcome, UploadsOnly, Still, settings
<1>2. asked = 0 /\ NoUpload
  BY <1>0, <1>1, Waiting
<1>3. cur \in Cursor /\ cur.path \in Paths /\ cur.from = cur.path /\ cur.path \in todo
      /\ cur.action \in {"copy-to-dst", "copy-to-src", "delete-dst"}
  BY <1>0, <1>1 DEF RunTyped, Cursor, RunPlan
<1>4. heard.ok \in BOOLEAN
  BY <1>0, <1>1, HeardTypes DEF TransferTyped
<1>5. heard.ok => Tells(heard)
  BY <1>0, <1>1 DEF ReportsTrue
<1> HIDE DEF sum
<1>6. CASE phase # "delete"
  <2>1. phase = "visit"
    BY <1>0, <1>1, <1>6 DEF RunFits, RunTyped
  <2> DEFINE p == cur.path
             a == cur.action
             ok == heard.ok
  <2>2. p \in Paths /\ ok \in BOOLEAN /\ p \in todo /\ a = cur.action /\ p = cur.path /\ cur.from = p
    BY <1>3, <1>4
  <2>3. Visited(p, a, ok, sum)
    BY <1>1, <1>6
  <2>4. (a = "copy-to-dst" /\ ok => Landed("B", p)) /\ (a = "copy-to-src" /\ ok => Landed("A", p))
    BY <1>1, <1>5 DEF Tells
  <2> HIDE DEF p, a, ok
  <2> QED BY <1>1, <1>2, <2>1, <2>2, <2>3, <2>4, VisitedDelete
<1>7. CASE phase = "delete"
  <2>1. todo' = todo \ {cur.path} /\ cur' = None /\ UNCHANGED <<newStored, blamed>>
    BY <1>1, <1>7
  <2>2. ~Bidir
    BY <1>0, <1>7 DEF RunPlan
  <2>3. Commands' /\ UploadsLand' /\ ReportsTrue'
    BY <1>0, <1>1, <1>2, Silent DEF NoUpload
  <2>4. RunPlan'
    BY <1>0, <1>1, <1>7, <2>1 DEF RunPlan, Bidir, DeleteCandidates
  <2>5. \A q \in Paths : ~Busy("A", q)
    BY <1>0, <1>7, <2>2 DEF Busy, RunPlan
  <2>6. \A q \in Paths : Busy("B", q)'
    BY <1>1, <1>7 DEF Busy
  <2>7. WalksExact'
    BY <1>0, <1>1, <1>7, <2>1, <2>5, <2>6 DEF WalksExact, Knows, Excused, MetaOf, Devices
  <2>8. MoveExact' /\ TakenAway'
    BY <2>1 DEF MoveExact, TakenAway, Moving
  <2>9. RemovedGone'
    BY <1>0, <1>1, HasStays
  <2>10. \A q \in Paths : Handled(q)'
    BY <2>6 DEF Handled
  <2>11. RecordsHad'
    BY <1>0, <1>1, <1>7, <2>1, <2>10, RecordsStay DEF Grows
  <2> QED BY <2>3, <2>4, <2>7, <2>8, <2>9, <2>11 DEF DeleteInv
<1> QED BY <1>6, <1>7

\* A one-way run goes on to the orphans.
LEMMA ToDeletesDelete ==
    ASSUME RemoteTypeOK, Core, Core', DeleteInv, ToDeletes, Observe
    PROVE  DeleteInv'
<1>0. /\ RemovedGone /\ RecordsHad /\ RunPlan /\ RunFits /\ CallersFit /\ WalksExact
      /\ TransferTyped' /\ "A" \in Devices /\ "B" \in Devices
  BY RunParts DEF Core, Local, Devices
<1>1. /\ phase = "visit" /\ todo = {} /\ cur = None /\ ~Bidir
      /\ phase' = "delete" /\ todo' = DeleteCandidates
      /\ UNCHANGED <<walked, cur, newStored, fs, uploads, asked, heard, stored, blamed, touched,
                     job, clock>>
  BY DEF ToDeletes, UploadsOnly, Still, settings, Bidir
<1>2. asked = 0 /\ heard = None /\ NoUpload
  BY <1>0, <1>1, Waiting
<1>3. Commands' /\ UploadsLand' /\ ReportsTrue'
  BY <1>0, <1>1, <1>2, Silent DEF NoUpload
<1>4. RunPlan'
  BY <1>1 DEF RunPlan, Bidir, DeleteCandidates
<1>5. \A q \in Paths : ~Busy("A", q) /\ Busy("B", q)'
  BY <1>1 DEF Busy
<1>6. WalksExact'
  BY <1>0, <1>1, <1>5 DEF WalksExact, Knows, Excused, MetaOf, Devices
<1>7. MoveExact' /\ TakenAway'
  BY <1>1 DEF MoveExact, TakenAway, Moving
<1>8. RemovedGone'
  BY <1>0, <1>1, HasStays
<1>9. \A q \in Paths : Handled(q)'
  BY <1>5 DEF Handled
<1>10. RecordsHad'
  BY <1>0, <1>1, <1>9, RecordsStay DEF Grows
<1> QED BY <1>3, <1>4, <1>6, <1>7, <1>8, <1>10 DEF DeleteInv

\* The records a run leaves are true of what it leaves, but where they are blamed.
LEMMA FinishRunDelete ==
    ASSUME RemoteTypeOK, Core, Core', DeleteInv, FinishRun, Observe
    PROVE  DeleteInv'
<1>0. /\ RemovedGone /\ RecordsHad /\ RunFits /\ CallersFit /\ TransferTyped'
      /\ "A" \in Devices /\ "B" \in Devices
  BY RunParts DEF Core, Local, Devices
<1>1. /\ phase \in {"visit", "delete"} /\ cur = None
      /\ stored' = newStored /\ RunOver
      /\ blamed' = {p \in blamed \cup touched : ~TrueOf(newStored[p], p)}
      /\ UNCHANGED <<fs, uploads, asked, job, clock>>
  BY DEF FinishRun, UploadsOnly, Still, settings
<1>2. asked = 0 /\ NoUpload
  BY <1>0, <1>1, Waiting
<1>3. phase' = "idle" /\ cur' = None /\ heard' = None /\ \A p \in Paths : newStored'[p] = None
  BY <1>1 DEF RunOver
<1>4. Commands' /\ UploadsLand' /\ ReportsTrue'
  BY <1>0, <1>1, <1>2, <1>3, Silent DEF NoUpload
<1>5. RunPlan' /\ WalksExact' /\ MoveExact' /\ TakenAway'
  BY <1>3 DEF RunPlan, WalksExact, MoveExact, TakenAway, Knows, Moving
<1>6. RemovedGone' /\ \A d \in Devices, p \in Paths : Has(d, p) <=> Has(d, p)'
  BY <1>0, <1>1, HasStays
<1>7. RecordsHad'
  <2>1. ASSUME NEW p \in Paths, Both(newStored[p]), p \notin blamed'
        PROVE  Has("A", p) /\ (Bidir => Has("B", p))
    <3>1. CASE Excused(p)
      <4>1. TrueOf(newStored[p], p)
        BY <1>1, <2>1, <3>1 DEF Excused
      <4>2. MetaOf(fs["A"][p]) # None /\ MetaOf(fs["B"][p]) # None
        BY <2>1, <4>1 DEF TrueOf, Both
      <4> QED BY <4>2 DEF MetaOf, Has
    <3>2. CASE ~Excused(p)
      BY <1>0, <2>1, <3>2 DEF RecordsHad, Landed
    <3> QED BY <3>1, <3>2
  <2>2. ASSUME NEW p \in Paths, Both(newStored[p]), p \notin blamed'
        PROVE  HadBefore("A", p)' /\ (Bidir => HadBefore("B", p)')
    BY <1>0, <1>6, <2>1, <2>2 DEF HadBefore
  <2> QED BY <1>1, <1>3, <2>2 DEF RecordsHad, Both, Bidir
<1> QED BY <1>4, <1>5, <1>6, <1>7 DEF DeleteInv

\* The invariant holds at the start.
LEMMA DeleteStarts == Init => DeleteInv
<1> SUFFICES ASSUME Init PROVE DeleteInv
  OBVIOUS
<1>1. PICK c \in Cases :
         LET m(p) == [size |-> c.shared[p], mtimeMs |-> 0]
         IN  /\ job = c.job
             /\ LinkInit(c.start)
             /\ fs = [d \in Devices |-> [p \in Paths |->
                         IF c.shared[p] = None THEN None
                         ELSE [data |-> 0, size |-> c.shared[p], mtimeMs |-> 0]]]
             /\ stored = [p \in Paths |-> IF c.shared[p] = None THEN None
                                          ELSE [src |-> m(p), dst |-> m(p), sum |-> 0]]
             /\ uploads = {} /\ asked = 0 /\ heard = None
             /\ phase = "idle" /\ cur = None
             /\ newStored = [p \in Paths |-> None] /\ removed = {}
  BY DEF Init
<1>2. \A d \in Devices : InBox(wire, d) = {}
  <2>1. wire = [d \in Devices |-> [t \in Transports |-> <<>>]]
    BY <1>1 DEF LinkInit
  <2>2. wire \in Wires /\ \A d \in Devices, t \in Transports : Len(wire[d][t]) = 0
    BY <2>1 DEF Wires
  <2>3. \A d \in Devices : \A x : x \notin InBox(wire, d)
    BY <2>2, InBoxDef
  <2> QED BY <2>3
<1>3. RemovedGone
  BY <1>1 DEF RemovedGone
<1>4. RunPlan /\ WalksExact /\ MoveExact /\ TakenAway
  BY <1>1 DEF RunPlan, WalksExact, MoveExact, TakenAway, Knows, Moving
<1>5. Commands /\ UploadsLand /\ ReportsTrue
  BY <1>1, <1>2 DEF Commands, UploadsLand, ReportsTrue, Devices
<1>6. RecordsHad
  <2>1. ASSUME NEW p \in Paths, stored[p] # None, NEW d \in Devices PROVE HadBefore(d, p)
    <3>1. c.shared[p] # None
      BY <1>1, <2>1
    <3>2. fs[d][p] = [data |-> 0, size |-> c.shared[p], mtimeMs |-> 0]
      BY <1>1, <3>1
    <3>3. c \in [job : Jobs, shared : [Paths -> Sizes \cup {None}], start : Starts, budget : Budget]
      BY RemoteAssumption
    <3>4. c.shared[p] \in Sizes
      BY <3>1, <3>3
    <3>5. fs[d][p] \in Entry
      <4>1. 0 \in Contents /\ 0 \in Times
        BY TransferAssumption DEF Contents, Times, Torn
      <4> QED BY <3>2, <3>4, <4>1 DEF Entry
    <3>6. fs[d][p] # None
      BY <3>5, NotNone
    <3> QED BY <3>6 DEF HadBefore, Has
  <2>2. \A p \in Paths : newStored[p] = None
    BY <1>1
  <2> QED BY <2>1, <2>2 DEF RecordsHad, Both, Devices
<1> QED BY <1>3, <1>4, <1>5, <1>6 DEF DeleteInv
\* Every step keeps the invariant of the deletes.
LEMMA DeleteSteps ==
    ASSUME RemoteTypeOK, Core, Core', DeleteInv, Observe,
           \/ EngineSteps \/ TransferSteps \/ TimeOuts \/ LinkRecovers
           \/ UserSteps \/ Cancel \/ LinkBreaks \/ \E d \in Devices : AgentDies(d)
    PROVE  DeleteInv'
<1>1. CASE \/ StartRun \/ HearListing \/ SrcMoves \/ HearMove \/ DstMoves
           \/ \E p \in Paths : Visit(p) \/ DeleteOrphan(p)
           \/ HearSignature \/ HearOutcome \/ Abort \/ ToDeletes \/ FinishRun
  BY <1>1, StartRunDelete, HearListingDelete, SrcMovesDelete, HearMoveDelete, DstMovesDelete,
     VisitDelete, DeleteOrphanDelete, HearSignatureDelete, HearOutcomeDelete, AbortDelete,
     ToDeletesDelete, FinishRunDelete
<1>2. CASE \E t \in Transports : \/ wire["A"][t] # <<>> /\ RequestAnswered(t)
                                 \/ wire["B"][t] # <<>> /\ RequestHandled(t)
  BY <1>2, RequestAnsweredDelete, RequestHandledDelete
<1>3. CASE \E d \in Devices : AgentDies(d)
  BY <1>3, SourceDiesDelete, OtherDiesDelete DEF Devices
<1>4. CASE TransferSteps \/ TimeOuts \/ LinkRecovers \/ UserSteps \/ Cancel \/ LinkBreaks
  BY <1>4, TransferStepsDelete, TimeOutsDelete, LinkDelete, UserStepsDelete
<1> QED BY <1>1, <1>2, <1>3, <1>4 DEF EngineSteps

\* Nothing of the invariant reads a variable that a stuttering step changes.
LEMMA DeleteStutters ==
    ASSUME DeleteInv, UNCHANGED vars
    PROVE  DeleteInv'
<1>1. UNCHANGED <<wire, fs, uploads, asked, heard, job, stored, phase, walked, todo, cur,
                  newStored, touched, acted, removed, blamed>>
  BY DEF vars, linkVars, transferVars, settings, runVars, history
<1>2. RemovedGone' /\ RunPlan' /\ WalksExact' /\ MoveExact' /\ TakenAway'
  <2>1. RemovedGone'
    BY <1>1 DEF DeleteInv, RemovedGone
  <2>2. RunPlan'
    BY <1>1 DEF DeleteInv, RunPlan, Bidir, DeleteCandidates
  <2>3. WalksExact'
    BY <1>1 DEF DeleteInv, WalksExact, Knows, Excused, Busy, Bidir, MetaOf
  <2>4. MoveExact'
    BY <1>1 DEF DeleteInv, MoveExact, Moving, Unmoved, Arrived, Excused, MetaOf
  <2>5. TakenAway'
    BY <1>1 DEF DeleteInv, TakenAway, Moving, Excused
  <2> QED BY <2>1, <2>2, <2>3, <2>4, <2>5
<1>3. \A d : InBox(wire', d) = InBox(wire, d)
  BY <1>1
<1>4. Commands'
  BY <1>1, <1>3 DEF DeleteInv, Commands, Mine, Own
<1>5. /\ \A d, p : Landed(d, p)' <=> Landed(d, p)
      /\ \A d, p : HadBefore(d, p)' <=> HadBefore(d, p)
  <2>1. ASSUME NEW d, NEW p
        PROVE  (Landed(d, p)' <=> Landed(d, p)) /\ (HadBefore(d, p)' <=> HadBefore(d, p))
    BY <1>1 DEF Landed, HadBefore, Has, Excused, Bidir, Handled, Busy, Knows
  <2> QED BY <2>1
<1>6. UploadsLand'
  <2>1. ASSUME NEW u \in uploads', Own(u)', u.put = "whole" PROVE Landed(Other(u.at), u.path)'
    <3>1. Own(u)
      BY <1>1, <2>1 DEF Own
    <3>2. Landed(Other(u.at), u.path)
      BY <1>1, <2>1, <3>1 DEF DeleteInv, UploadsLand
    <3> QED BY <1>1, <3>2 DEF Landed, Has, Excused
  <2> QED BY <2>1 DEF UploadsLand
<1>7. ReportsTrue'
  <2>1. ASSUME NEW m, Tells(m) PROVE Tells(m)'
    <3>1. phase' = "manifest" => Listed(m.listing)'
      BY <1>1, <2>1 DEF Tells, Listed, Excused, MetaOf
    <3>2. Moving' => Arrived'
      BY <1>1, <2>1 DEF Tells, Moving, Arrived, Excused, MetaOf
    <3>3. /\ (cur # None /\ cur.action = "copy-to-src" => Landed("A", cur.path))'
          /\ (cur # None /\ cur.action = "copy-to-dst" /\ cur.step = "transfer" => Landed("B", cur.path))'
      BY <1>1, <2>1 DEF Tells, Landed, Has, Excused
    <3> QED BY <3>1, <3>2, <3>3 DEF Tells
  <2>2. \A m : Good(m)' <=> Good(m)
    BY <1>1 DEF Good, Mine
  <2> QED BY <1>1, <1>3, <2>1, <2>2 DEF DeleteInv, ReportsTrue
<1>8. RecordsHad'
  BY <1>1, <1>5 DEF DeleteInv, RecordsHad, Both, Bidir
<1> QED BY <1>2, <1>4, <1>6, <1>7, <1>8 DEF DeleteInv

\* The invariant of the deletes is inductive, with the one of the transfers.
LEMMA DeleteInductive == RemoteInv /\ DeleteInv /\ [Next]_vars => DeleteInv'
<1> SUFFICES ASSUME RemoteInv, DeleteInv, [Next]_vars PROVE DeleteInv'
  OBVIOUS
<1>1. RemoteTypeOK /\ Core
  BY InvParts
<1>2. CASE Next
  <2>1. Core'
    BY <1>1, <1>2, EveryStep DEF Next
  <2> QED BY <1>1, <1>2, <2>1, DeleteSteps DEF Next
<1> QED BY <1>2, DeleteStutters

(*** what the user did on one side is what the job deletes on the other ***)

\* What a two-way run's record and walk say of a path that is gone from the target.
LEMMA TargetSays ==
    ASSUME Core, DeleteInv, NEW p \in Paths, Both(stored[p]), Bidir, Knows("B"), cur = None,
           walked["B"][p] = None, walked["A"][p] # None, ~Busy("A", p), ~Busy("B", p)
    PROVE  <<"B", p>> \in removed \/ Excused(p)
<1>0. TransferTyped /\ RecordsHad /\ WalksExact /\ "B" \in Devices
  BY RunParts DEF Devices
<1>1. p \in blamed \/ HadBefore("B", p)
  BY <1>0 DEF RecordsHad
<1>2. ~Handled(p)
  BY DEF Handled
<1>3. Excused(p) \/ walked["B"][p] = MetaOf(fs["B"][p])
  BY <1>0 DEF WalksExact
<1>4. MetaOf(fs["B"][p]) = None => fs["B"][p] = None
  BY <1>0, NothingThere
<1> QED BY <1>1, <1>2, <1>3, <1>4 DEF HadBefore, Has, Excused

\* The file that went may go.
MayGo(d, p) == <<Other(d), p>> \in removed \/ Excused(p) \/ (d = "B" /\ p \in blamed')

\* A file renamed away at the source had been taken away at the target.
LEMMA DstMovesFollow ==
    ASSUME Core, DeleteInv, DstMoves, NEW d \in Devices, NEW p \in Paths,
           fs[d][p] # None, fs'[d][p] = None
    PROVE  MayGo(d, p)
<1>0. /\ RunFits /\ RunPlan /\ TransferTyped /\ RunTyped
  BY RunParts
<1>1. phase = "dstmoves" /\ cur = None /\ Bidir
  BY <1>0 DEF DstMoves, RunFits, RunPlan
<1>2. fs' # fs
  OBVIOUS
<1>3. PICK m \in Renamed("dst") : fs' = [fs EXCEPT !["A"] = Moved(@, m[1], m[2], walked["B"][m[2]].mtimeMs)]
  BY <1>2 DEF DstMoves, RunFails, UploadsOnly, Still
<1>4. m[1] \in Missing("dst") /\ m[2] \in Added("dst")
  BY DEF Renamed
<1>5. /\ m[1] \in Paths /\ m[2] \in Paths /\ Both(stored[m[1]])
      /\ walked["B"][m[1]] = None /\ walked["A"][m[1]] # None
      /\ walked["B"][m[2]] # None
  BY <1>4 DEF Missing, Added, Changed, Mirror, Both
<1> DEFINE e == [fs["A"][m[1]] EXCEPT !.mtimeMs = walked["B"][m[2]].mtimeMs]
           tree == Moved(fs["A"], m[1], m[2], walked["B"][m[2]].mtimeMs)
<1>6. d = "A" /\ p \in {m[1], m[2]}
  <2>1. fs' = [fs EXCEPT !["A"] = tree]
    BY <1>3
  <2>2. tree = [fs["A"] EXCEPT ![m[2]] = e, ![m[1]] = None]
    BY DEF Moved
  <2> HIDE DEF tree, e
  <2>3. fs["A"] \in [Paths -> Entry \cup {None}]
    BY <1>0 DEF TransferTyped, Devices
  <2>4. d # "A" => fs'[d] = fs[d]
    BY <1>0, <2>1 DEF TransferTyped
  <2>5. d = "A" => fs'[d] = tree
    BY <1>0, <2>1 DEF TransferTyped
  <2>6. p \notin {m[1], m[2]} => tree[p] = fs["A"][p]
    BY <2>2, <2>3
  <2> QED BY <2>4, <2>5, <2>6
<1>7. CASE p = m[1]
  <2>1. <<"B", p>> \in removed \/ Excused(p)
    BY <1>1, <1>5, <1>7, TargetSays DEF Knows, Busy
  <2> QED BY <1>6, <2>1 DEF MayGo, Other
<1>8. CASE p = m[2] /\ m[2] # m[1]
  <2>1. fs["A"][m[1]] # None
    BY <1>2 DEF DstMoves, RunFails, UploadsOnly, Still
  <2>2. e \in Entry
    <3>1. walked["B"][m[2]] \in Meta /\ fs["A"][m[1]] \in Entry
      BY <1>0, <1>5, <2>1 DEF RunTyped, TransferTyped, Listing, Devices
    <3> QED BY <3>1 DEF Entry, Meta
  <2>3. fs'["A"] = [fs["A"] EXCEPT ![m[2]] = e, ![m[1]] = None]
    BY <1>0, <1>3 DEF Moved, TransferTyped, Devices
  <2> HIDE DEF e
  <2>4. fs["A"] \in [Paths -> Entry \cup {None}]
    BY <1>0 DEF TransferTyped, Devices
  <2>5. fs'["A"][p] = e
    BY <1>5, <1>8, <2>3, <2>4
  <2> QED BY <1>6, <2>2, <2>5, NotNone
<1> QED BY <1>6, <1>7, <1>8

\* A file deleted at the source had been taken away at the target.
LEMMA VisitFollows ==
    ASSUME Core, DeleteInv, NEW q \in Paths, Visit(q), NEW d \in Devices, NEW p \in Paths,
           fs[d][p] # None, fs'[d][p] = None
    PROVE  MayGo(d, p)
<1>0. TransferTyped
  BY RunParts
<1>1. /\ phase = "visit" /\ cur = None /\ q \in todo
      /\ UNCHANGED fs \/ (ActionFor(q) = "delete-src" /\ fs' = [fs EXCEPT !["A"][q] = None])
  BY DEF Visit
<1>2. ActionFor(q) = "delete-src" /\ d = "A" /\ p = q
  BY <1>0, <1>1 DEF TransferTyped
<1>3. Bidir /\ Both(stored[p]) /\ walked["B"][p] = None /\ walked["A"][p] # None
  BY <1>2, DeletesWhatWentAway
<1>4. <<"B", p>> \in removed \/ Excused(p)
  BY <1>1, <1>2, <1>3, TargetSays DEF Knows, Busy
<1> QED BY <1>2, <1>4 DEF MayGo, Other

\* A file renamed away or deleted at the target had been taken away at the source,
\* or the command came too late.
LEMMA HandlersFollow ==
    ASSUME Core, DeleteInv, NEW t \in Transports, wire["B"][t] # <<>>, RequestHandled(t),
           job.mode # "mirror", NEW d \in Devices, NEW p \in Paths,
           fs[d][p] # None, fs'[d][p] = None
    PROVE  MayGo(d, p)
<1> DEFINE m == Head(wire["B"][t])
<1>0. /\ TransferTyped /\ Commands /\ TakenAway /\ RunPlan /\ RunTyped /\ "B" \in Devices /\ wire \in Wires
  BY RunParts DEF Devices, TransferTyped
<1>1. /\ ~IsAnswer(m)
      /\ HandleManifest(t, m) \/ HandleSignature(t, m) \/ HandleSend(t, m)
            \/ HandleMove(t, m) \/ HandleDelete(t, m)
  BY DEF RequestHandled
<1>2. m \in Message /\ m \in InBox(wire, "B")
  BY <1>0, TakenWire
<1> HIDE DEF m
<1>3. HandleMove(t, m) \/ HandleDelete(t, m)
  BY <1>1 DEF HandleManifest, HandleSignature, HandleSend
<1>4. "id" \in DOMAIN m /\ (m.op = "move" => m.from \in Paths /\ m.to \in Paths /\ m.meta \in Meta)
  BY <1>1, <1>2, <1>3 DEF HandleMove, HandleDelete, Message, RemoteMessage, TransferMessage, IsAnswer
<1>5. Mine(m) \/ m.id # asked
  BY <1>4 DEF Mine
<1>6. Mine(m) => /\ m.op = "delete" => cur.action = "delete-dst" /\ m.path = cur.path
                 /\ m.op = "move" => cur.action = "move" /\ m.from = cur.from
  BY <1>0, <1>1, <1>2 DEF Commands
<1>7. Mine(m) => cur # None
  <2>1. m.op \in {"move", "delete"}
    BY <1>3 DEF HandleMove, HandleDelete
  <2> QED BY <1>1, <1>2, <2>1, RequestTells
<1>8. CASE HandleDelete(t, m)
  <2>1. m.op = "delete" /\ fs' = [fs EXCEPT !["B"][m.path] = None] /\ blamed' = blamed \cup Late(m, {m.path})
    BY <1>8 DEF HandleDelete
  <2>2. d = "B" /\ p = m.path
    BY <1>0, <2>1 DEF TransferTyped
  <2>3. CASE m.id # asked
    BY <2>1, <2>2, <2>3 DEF Late, MayGo
  <2>4. CASE Mine(m)
    <3>1. cur.from = cur.path /\ cur.path = p
      BY <1>0, <1>6, <1>7, <2>1, <2>2, <2>4 DEF RunPlan
    <3> QED BY <1>0, <1>6, <1>7, <2>1, <2>2, <2>4, <3>1 DEF TakenAway, MayGo, Other
  <2> QED BY <1>5, <2>3, <2>4
<1>9. CASE HandleMove(t, m)
  <2>1. /\ m.op = "move" /\ fs["B"][m.from] # None
        /\ fs' = [fs EXCEPT !["B"] = Moved(@, m.from, m.to, m.meta.mtimeMs)]
        /\ blamed' = Follows(blamed, m.from, m.to) \cup Late(m, {m.from, m.to}) \cup ({m.to} \cap touched')
    BY <1>9 DEF HandleMove
  <2> DEFINE e == [fs["B"][m.from] EXCEPT !.mtimeMs = m.meta.mtimeMs]
             tree == Moved(fs["B"], m.from, m.to, m.meta.mtimeMs)
  <2>2. fs' = [fs EXCEPT !["B"] = tree]
    BY <2>1
  <2>3. tree = [fs["B"] EXCEPT ![m.to] = e, ![m.from] = None]
    BY DEF Moved
  <2>4. e \in Entry
    <3>1. m.meta \in Meta /\ fs["B"][m.from] \in Entry
      BY <1>0, <1>4, <2>1 DEF TransferTyped
    <3> QED BY <3>1 DEF Entry, Meta
  <2> HIDE DEF tree, e
  <2>5. fs["B"] \in [Paths -> Entry \cup {None}]
    BY <1>0 DEF TransferTyped
  <2>6. d = "B" /\ fs'[d] = tree
    BY <1>0, <2>2 DEF TransferTyped
  <2>7. p = m.from
    BY <1>4, <2>1, <2>3, <2>4, <2>5, <2>6, NotNone
  <2>8. CASE m.id # asked
    BY <2>1, <2>6, <2>7, <2>8 DEF Late, MayGo
  <2>9. CASE Mine(m)
    <3>1. Moving /\ cur.from = p
      BY <1>6, <1>7, <2>1, <2>7, <2>9 DEF Moving
    <3> QED BY <1>0, <2>6, <3>1 DEF TakenAway, MayGo, Other
  <2> QED BY <1>5, <2>8, <2>9
<1> QED BY <1>3, <1>8, <1>9
\* A step that takes a file away while the user does nothing.
LEMMA StepsFollow ==
    ASSUME RemoteTypeOK, Core, Core', DeleteInv, Next, NEW d \in Devices, NEW p \in Paths,
           fs[d][p] # None, fs'[d][p] = None, clock' = clock, job.mode # "mirror"
    PROVE  MayGo(d, p)
<1>0. TransferTyped /\ clock \in Nat /\ fs' # fs
  BY RunParts DEF TransferTyped, RunTyped, Core, Local
<1>1. CASE \/ StartRun \/ HearListing \/ SrcMoves \/ HearMove \/ HearSignature \/ HearOutcome
           \/ Abort \/ ToDeletes \/ FinishRun \/ \E q \in Paths : DeleteOrphan(q)
           \/ \E t \in Transports : RequestAnswered(t)
  BY <1>0, <1>1 DEF StartRun, HearListing, SrcMoves, HearMove, HearSignature, HearOutcome, Abort,
                    ToDeletes, FinishRun, DeleteOrphan, RequestAnswered, RunFails
<1>2. CASE DstMoves \/ \E q \in Paths : Visit(q)
  BY <1>2, DstMovesFollow, VisitFollows
<1>3. CASE \E t \in Transports : wire["B"][t] # <<>> /\ RequestHandled(t)
  BY <1>3, HandlersFollow
<1>4. CASE TransferSteps
  <2>1. UploadProgress \/ \E s \in sessions : Sweep(s)
    BY <1>4 DEF TransferSteps
  <2>2. Transfers
    BY <2>1, <1>4 DEF TransferSteps, Transfers, settings, runVars, Stands, Grows
  <2>3. TransferNews
    BY <2>2, TransfersNews
  <2>4. PICK c \in Devices, q \in Paths, e \in Entry : fs' = [fs EXCEPT ![c][q] = e]
    BY <1>0, <2>3 DEF TransferNews
  <2> QED BY <1>0, <2>4, NotNone DEF TransferTyped
<1>5. CASE TimeOuts \/ LinkRecovers \/ Cancel \/ LinkBreaks \/ \E c \in Devices : AgentDies(c)
  BY <1>0, <1>5 DEF TimeOuts, TimesOut, Ended, LinkRecovers, Cancel, LinkBreaks, AgentDies,
                    transferVars, EngineStays
<1>6. CASE UserSteps
  <2>1. clock' = clock + 1
    BY <1>6 DEF UserSteps, UserWrites, UserDeletes, UserRenames, UserActs
  <2> QED BY <1>0, <2>1
<1> QED BY <1>1, <1>2, <1>3, <1>4, <1>5, <1>6 DEF Next, EngineSteps

\* No run takes a file away that the user has not taken away on the other side.
LEMMA Following ==
    RemoteInv /\ DeleteInv /\ [Next]_vars =>
        [\A d \in Devices, p \in Paths :
            (/\ fs[d][p] # None /\ fs'[d][p] = None
             /\ clock' = clock /\ job.mode # "mirror")
            => \/ <<Other(d), p>> \in removed \/ p \in touched \cup blamed
               \/ d = "B" /\ p \in blamed']_vars
<1> SUFFICES ASSUME RemoteInv, DeleteInv, Next, NEW d \in Devices, NEW p \in Paths,
                    fs[d][p] # None, fs'[d][p] = None, clock' = clock, job.mode # "mirror"
             PROVE  \/ <<Other(d), p>> \in removed \/ p \in touched \cup blamed
                    \/ d = "B" /\ p \in blamed'
  OBVIOUS
<1>1. RemoteTypeOK /\ Core
  BY InvParts
<1>2. Core'
  BY <1>1, EveryStep DEF Next
<1>3. MayGo(d, p)
  BY <1>1, <1>2, StepsFollow
<1> QED BY <1>3 DEF MayGo, Excused

\* The invariant of the deletes holds whatever the cases, the budget and the faults.
THEOREM RemoteDeleteInvariant == Spec => []DeleteInv
<1> QED BY RemoteInvariant, DeleteStarts, DeleteInductive, PTL DEF Spec

\* Unless the target is to be a mirror, a file disappears by the job's doing only if the
\* user took it away on the other side, had a hand in it, or an earlier run went wrong.
THEOREM RemoteDeletesFollow == Spec => DeletesFollowTheUser
<1> QED BY RemoteInvariant, RemoteDeleteInvariant, Following, PTL DEF Spec, DeletesFollowTheUser

(***************************************************************************)
(* Two-way runs: what is where, and under which records.                   *)
(***************************************************************************)

\* The upload of number n is the run's.
Runs(n) == \E u \in uploads : Own(u) /\ u.n = n

\* Records whose times were times of versions that were on both devices.
Faithful(r) ==
    /\ r.src # None => r.src.mtimeMs \in propagated
    /\ r.dst # None => r.dst.mtimeMs \in propagated
    /\ Both(r) => r.src = r.dst /\ r.sum \in {None, r.src.mtimeMs}

Pure == \A d \in Devices, p \in Paths : p \notin blamed => Genuine(fs[d][p])

BothHad == \A p \in Paths : fs["A"][p] # None /\ fs["B"][p] # None /\ fs["A"][p].data = fs["B"][p].data
                            => fs["A"][p].data \in propagated

RecordsFaithful ==
    /\ \A p \in Paths : stored[p] # None => p \in blamed \/ Faithful(stored[p])
    /\ \A p \in Paths : newStored[p] # None => Excused(p) \/ Faithful(newStored[p])

\* What the run knows of the files it renames.
MovesFaithful ==
    /\ \A p \in Paths : movedSums[p] # None =>
          /\ phase \in {"srcmoves", "dstmoves", "visit"}
          /\ Excused(p) \/ (/\ walked["A"][p] # None /\ walked["A"][p] = walked["B"][p]
                            /\ movedSums[p] = walked["A"][p].mtimeMs)
    /\ Moving => /\ stored[cur.from] # None
                 /\ Excused(cur.path) \/ stored[cur.from].sum = walked["A"][cur.path].mtimeMs
                 /\ Excused(cur.from) \/ walked["B"][cur.from].mtimeMs = stored[cur.from].sum

PlanFits == phase = "visit" /\ cur # None => cur.action = ActionFor(cur.path)

\* While a file is copied to d, its source is as it was walked, and so is its target, or they are alike.
CopyFits == \A d \in Devices : cur # None /\ cur.action = CopyTo(d) =>
    \/ Excused(cur.path)
    \/ /\ MetaOf(fs[Other(d)][cur.path]) = walked[Other(d)][cur.path]
       /\ MetaOf(fs[d][cur.path]) = walked[d][cur.path] \/ Alike(cur.path)

\* The run's upload carries the file that is there.
Exact(u) == /\ fs[u.at][u.path] # None
            /\ u.meta = MetaOf(fs[u.at][u.path]) /\ u.size = fs[u.at][u.path].size
            /\ u.chunk.data = fs[u.at][u.path].data /\ u.expect = u.chunk.data
            /\ u.put = "whole" => Alike(u.path)

UploadExact == \A u \in uploads : Own(u) => Excused(u.path) \/ Exact(u)

Matches(r, p) == r # None => r.src = MetaOf(fs["A"][p]) /\ r.dst = MetaOf(fs["B"][p])
Working(p)    == cur # None /\ p \in {cur.path, cur.from}

\* Nothing is to be done, and nothing is being done, at p.
Settled(p) == Alike(p) /\ Matches(stored[p], p) /\ Matches(newStored[p], p) /\ ~Working(p)
Calm(p)    == Excused(p) \/ Settled(p)

\* What is not the current request's, or upload's, can do no harm any more.
Stale ==
    /\ \A u \in uploads : Own(u) \/ Calm(u.path)
    /\ \A m \in InBox(wire, "B") : /\ Is(m, "send") => Mine(m) \/ Calm(m.path)
                                   /\ Is(m, "move") => Mine(m) \/ Calm(m.to)
    /\ \A n \in Numbers, p \in Paths : MayPut(n, p) => Runs(n) \/ Calm(p)

\* A report of success on the path the run is at work on.
Copied(m) == Excused(cur.path) \/ (/\ Alike(cur.path) /\ fs["A"][cur.path] # None
                                   /\ m.sum = fs["A"][cur.path].data)
Outcome(m) ==
    cur # None => /\ cur.step = "transfer" /\ cur.action \in {"copy-to-dst", "copy-to-src"} => Copied(m)
                  /\ cur.action = "delete-dst" => Excused(cur.path) \/ Alike(cur.path)

OutcomesTrue == /\ \A m \in InBox(wire, "A") : Good(m) => Outcome(m)
                /\ \A h \in {heard} : h # None /\ h.ok => Outcome(h)

Converging == phase = "visit" => \A p \in Paths : p \notin todo => Excused(p) \/ Alike(p)

Versions == Pure /\ BothHad
Plans    == RecordsFaithful /\ MovesFaithful /\ PlanFits /\ CopyFits /\ Converging
Flows    == UploadExact /\ Stale /\ OutcomesTrue

TwoWay == /\ VersionsSurvive /\ CompletedRunConverges
          /\ Bidir => Versions /\ Plans /\ Flows

(*** what the history keeps, and what a file's time says ***)

\* A version that is on both devices is known to have been.
LEMMA ObservedBoth ==
    ASSUME Observe
    PROVE  BothHad' /\ propagated \subseteq propagated'
<1> DEFINE both == {fs'["A"][p] : p \in {q \in Paths : /\ fs'["A"][q] # None /\ fs'["B"][q] # None
                                                       /\ fs'["A"][q].data = fs'["B"][q].data}}
<1>1. propagated' = propagated \cup {e.data : e \in both}
  BY DEF Observe
<1>2. \A p \in Paths : fs'["A"][p] # None /\ fs'["B"][p] # None /\ fs'["A"][p].data = fs'["B"][p].data
                       => fs'["A"][p] \in both
  OBVIOUS
<1>3. \A e \in both : e.data \in propagated'
  BY <1>1
<1> QED BY <1>1, <1>2, <1>3 DEF BothHad

\* What the run writes over is a version that was on both devices, or loses a conflict.
Conceded(p) == cur # None /\ cur.path = p /\
               (stored[p] = None \/ resolveAction(walked["A"][p], walked["B"][p], stored[p]) = "conflict")

Spares ==
    \A d \in Devices, p \in Paths :
        /\ fs[d][p] # None /\ fs'[d][p] # None /\ fs'[d][p].data # fs[d][p].data
        /\ clock' = clock /\ ~Excused(p) /\ ~Conceded(p)
        => fs[d][p].data \in propagated

\* A step that spares the only copies destroys nothing.
LEMMA SparesSurvive ==
    ASSUME Observe, VersionsSurvive, job.mode = "bidir" => Spares
    PROVE  VersionsSurvive'
<1> DEFINE user == clock' # clock
           over(d, p)  == /\ fs[d][p] # None /\ fs'[d][p] # None /\ fs'[d][p].data # fs[d][p].data
                          /\ ~user /\ p \notin touched \cup blamed /\ ~Conceded(p)
                          /\ job.mode = "bidir"
           victims == {fs[x[1]][x[2]].data : x \in {y \in Devices \X Paths : over(y[1], y[2])}}
<1>1. lost' = lost \cup (victims \ (propagated' \cup {Torn}))
  BY DEF Observe, Conceded
<1>2. \A d \in Devices, p \in Paths : over(d, p) => fs[d][p].data \in propagated'
  BY ObservedBoth DEF Spares, Excused
<1>3. \A x \in Devices \X Paths : over(x[1], x[2]) => fs[x[1]][x[2]].data \in propagated'
  BY <1>2
<1>4. victims \subseteq propagated'
  BY <1>3
<1> QED BY <1>1, <1>4 DEF VersionsSurvive

\* Files as they are.
LEMMA SparesStill ==
    ASSUME \A d \in Devices, p \in Paths : fs'[d][p] = fs[d][p]
    PROVE  Spares
BY DEF Spares

\* A file that bears its time is the version of that time.
LEMMA SameTime ==
    ASSUME TransferTyped, OneSize, Pure, NEW p \in Paths, ~Excused(p),
           fs["A"][p] # None, fs["B"][p] # None, fs["A"][p].mtimeMs = fs["B"][p].mtimeMs
    PROVE  Alike(p)
<1> DEFINE a == fs["A"][p]
           b == fs["B"][p]
<1>1. a \in Entry /\ b \in Entry /\ "A" \in Devices /\ "B" \in Devices
  BY DEF TransferTyped, Devices
<1>2. a.data = a.mtimeMs /\ b.data = b.mtimeMs
  BY <1>1 DEF Pure, Genuine, Excused
<1>3. a.data = b.data /\ a.data \in Contents /\ a.size \in Sizes /\ b.size \in Sizes
  BY <1>1, <1>2 DEF Entry
<1>4. a.data # Torn
  BY <1>1, <1>2, TransferAssumption DEF Entry, Times, Torn
<1>5. SizeSaid(a.data, a.size) /\ SizeSaid(a.data, b.size)
  BY <1>1, <1>3 DEF SizeSaid
<1>6. a.size = b.size
  BY <1>3, <1>4, <1>5 DEF OneSize
<1>7. a = b
  BY <1>1, <1>2, <1>3, <1>6 DEF Entry
<1> QED BY <1>7 DEF Alike

\* What is known of a file.
LEMMA MetaKnown ==
    ASSUME TransferTyped, NEW d \in Devices, NEW p \in Paths
    PROVE  /\ MetaOf(fs[d][p]) = None <=> fs[d][p] = None
           /\ fs[d][p] # None => /\ MetaOf(fs[d][p]).mtimeMs = fs[d][p].mtimeMs
                                 /\ MetaOf(fs[d][p]).size = fs[d][p].size
                                 /\ MetaOf(fs[d][p]) \in Meta /\ fs[d][p] \in Entry
<1>1. fs[d][p] # None => fs[d][p] \in Entry
  BY DEF TransferTyped
<1>2. fs[d][p] # None => MetaOf(fs[d][p]) \in Meta
  BY <1>1 DEF MetaOf, Entry, Meta
<1>3. None \notin Meta
  BY RemoteNone
<1> QED BY <1>1, <1>2, <1>3 DEF MetaOf

\* Files of the same size and time are the same.
LEMMA SameMeta ==
    ASSUME TransferTyped, OneSize, Pure, NEW p \in Paths, ~Excused(p),
           MetaOf(fs["A"][p]) = MetaOf(fs["B"][p])
    PROVE  Alike(p)
<1>1. "A" \in Devices /\ "B" \in Devices
  BY DEF Devices
<1>2. fs["A"][p] = None <=> fs["B"][p] = None
  BY <1>1, MetaKnown
<1>3. CASE fs["A"][p] = None
  BY <1>2, <1>3 DEF Alike
<1>4. CASE fs["A"][p] # None
  BY <1>1, <1>2, <1>4, MetaKnown, SameTime
<1> QED BY <1>3, <1>4

\* A file on both devices, whose time is known, is a version that was on both.
LEMMA KnownTime ==
    ASSUME TransferTyped, Pure, BothHad, NEW p \in Paths, ~Excused(p), Alike(p), NEW d \in Devices, fs[d][p] # None
    PROVE  fs[d][p].mtimeMs \in propagated /\ fs[d][p].data \in propagated
           /\ MetaOf(fs[d][p]).mtimeMs = fs[d][p].data
<1>1. d \in {"A", "B"}
  BY DEF Devices
<1>2. fs[d][p].data = fs[d][p].mtimeMs
  BY DEF Pure, Genuine, Excused
<1>3. fs["A"][p] = fs["B"][p]
  BY DEF Alike
<1>4. fs[d][p].data \in propagated
  BY <1>1, <1>3 DEF BothHad
<1> QED BY <1>2, <1>4, MetaKnown

(*** two-way runs: steps that are none of the run's ***)

\* The run has it changed, to what it is to be.
Mended(d, p) ==
    /\ cur # None
    /\ \/ p = cur.path /\ cur.action = CopyTo(d) /\ fs'[Other(d)][p] = fs[Other(d)][p] /\ Alike(p)'
       \/ p = cur.path /\ cur.action = "delete-dst" /\ Alike(p)'
       \/ p \in {cur.path, cur.from} /\ cur.action = "move"

\* A change is excused from now on, or the run's; and it leaves a file with its time, or is blamed.
Lawful ==
    \A d \in Devices, p \in Paths : fs'[d][p] # fs[d][p] =>
        /\ Excused(p)' \/ Mended(d, p)
        /\ p \in blamed' \/ Genuine(fs'[d][p])

\* Files that stay as they are.
LEMMA LawfulStill ==
    ASSUME \A d \in Devices, p \in Paths : fs'[d][p] = fs[d][p]
    PROVE  Lawful
BY DEF Lawful

CalmStays == \A p \in Paths : Calm(p) => Calm(p)'

\* What is at rest stays at rest, while the run stands.
LEMMA StandsCalm ==
    ASSUME Stands, Grows, Lawful
    PROVE  CalmStays
<1> SUFFICES ASSUME NEW p \in Paths, Calm(p), ~Excused(p)' PROVE Settled(p)'
  BY DEF CalmStays, Calm
<1>1. UNCHANGED <<cur, stored, newStored>> /\ ~Excused(p)
  BY DEF Stands, Grows, Excused
<1>2. Settled(p)
  BY <1>1 DEF Calm
<1>3. \A d \in Devices : fs'[d][p] = fs[d][p]
  BY <1>2 DEF Lawful, Mended, Settled, Working
<1>4. fs'["A"][p] = fs["A"][p] /\ fs'["B"][p] = fs["B"][p]
  BY <1>3 DEF Devices
<1>5. Alike(p)' /\ ~Working(p)'
  BY <1>1, <1>2, <1>4 DEF Settled, Alike, Working
<1>6. Matches(stored[p], p)' /\ Matches(newStored[p], p)'
  BY <1>1, <1>2, <1>4 DEF Settled, Matches, MetaOf
<1> QED BY <1>5, <1>6 DEF Settled

\* What the versions and the plans say stays true.
LEMMA StandsPlans ==
    ASSUME Core, RunPlan, Stands, Grows, Lawful, Observe, Versions, Plans
    PROVE  Versions' /\ Plans'
<1>1. UNCHANGED <<phase, walked, todo, cur, newStored, movedSums, stored, job>>
  BY DEF Stands
<1>2. \A p : Excused(p) => Excused(p)'
  BY DEF Grows, Excused
<1>3. propagated \subseteq propagated' /\ BothHad'
  BY ObservedBoth
<1>4. Pure'
  <2> SUFFICES ASSUME NEW d \in Devices, NEW p \in Paths, p \notin blamed' PROVE Genuine(fs'[d][p])
    BY DEF Pure, Genuine
  <2>1. p \notin blamed
    BY DEF Grows
  <2>2. CASE fs'[d][p] = fs[d][p]
    BY <2>1, <2>2 DEF Versions, Pure, Genuine
  <2>3. CASE fs'[d][p] # fs[d][p]
    BY <2>3 DEF Lawful
  <2> QED BY <2>2, <2>3
<1>5. RecordsFaithful'
  <2>1. ASSUME NEW p \in Paths, stored[p] # None, p \notin blamed' PROVE Faithful(stored[p])'
    <3>1. Faithful(stored[p])
      BY <2>1 DEF Plans, RecordsFaithful, Grows
    <3> QED BY <1>1, <1>3, <3>1 DEF Faithful, Both
  <2>2. ASSUME NEW p \in Paths, newStored[p] # None, ~Excused(p)' PROVE Faithful(newStored[p])'
    <3>1. Faithful(newStored[p])
      BY <1>2, <2>2 DEF Plans, RecordsFaithful
    <3> QED BY <1>1, <1>3, <3>1 DEF Faithful, Both
  <2> QED BY <1>1, <2>1, <2>2 DEF RecordsFaithful
<1>6. MovesFaithful'
  <2>1. \A p \in Paths : movedSums'[p] # None =>
          /\ phase' \in {"srcmoves", "dstmoves", "visit"}
          /\ Excused(p)' \/ (/\ walked'["A"][p] # None /\ walked'["A"][p] = walked'["B"][p]
                             /\ movedSums'[p] = walked'["A"][p].mtimeMs)
    BY <1>1, <1>2 DEF Plans, MovesFaithful
  <2>2. Moving' => /\ stored'[cur'.from] # None
                   /\ Excused(cur.path)' \/ stored'[cur'.from].sum = walked'["A"][cur'.path].mtimeMs
                   /\ Excused(cur.from)' \/ walked'["B"][cur'.from].mtimeMs = stored'[cur'.from].sum
    BY <1>1, <1>2 DEF Plans, MovesFaithful, Moving, Excused
  <2> QED BY <1>1, <2>1, <2>2 DEF MovesFaithful, Excused
<1>7. PlanFits'
  BY <1>1 DEF Plans, PlanFits, ActionFor
<1>8. CopyFits'
  <2>1. ASSUME NEW d \in Devices, cur # None, cur.action = CopyTo(d), ~Excused(cur.path)'
        PROVE  /\ MetaOf(fs'[Other(d)][cur.path]) = walked[Other(d)][cur.path]
               /\ MetaOf(fs'[d][cur.path]) = walked[d][cur.path] \/ Alike(cur.path)'
    <3> DEFINE p == cur.path
    <3>1. p \in Paths /\ Other(d) \in Devices /\ Other(d) # d /\ cur' = cur
      BY <1>1, <2>1, Two DEF Core, RunTyped, Cursor
    <3>2. ~Excused(p) /\ ~(p \in touched' \cup blamed')
      BY <1>1, <2>1 DEF Grows, Excused
    <3>3. /\ MetaOf(fs[Other(d)][p]) = walked[Other(d)][p]
          /\ MetaOf(fs[d][p]) = walked[d][p] \/ Alike(p)
      BY <2>1, <3>2 DEF Plans, CopyFits
    <3>4. fs'[Other(d)][p] = fs[Other(d)][p]
      BY <2>1, <3>1, <3>2 DEF Lawful, Mended, CopyTo, Devices, Excused, Other
    <3>5. fs'[d][p] = fs[d][p] \/ fs'["A"][p] = fs'["B"][p]
      BY <2>1, <3>1, <3>2 DEF Lawful, Mended, CopyTo, Devices, Excused, Other, Alike
    <3>6. fs'[d][p] = fs[d][p] /\ Alike(p) => fs'["A"][p] = fs'["B"][p]
      BY <3>4, Two DEF Alike, Devices, Other
    <3> QED BY <1>1, <3>3, <3>4, <3>5, <3>6 DEF MetaOf, Alike
  <2> QED BY <1>1, <2>1 DEF CopyFits, CopyTo, Excused, Alike, MetaOf
<1>9. Converging'
  <2> SUFFICES ASSUME phase = "visit", NEW p \in Paths, p \notin todo, ~Excused(p)' PROVE Alike(p)'
    BY <1>1 DEF Converging
  <2>1. ~Excused(p) /\ Alike(p)
    BY <1>2 DEF Plans, Converging
  <2>2. \A d \in Devices : fs'[d][p] = fs[d][p]
    BY DEF Lawful, Mended, RunPlan, Core, Local, RunFits, CopyTo
  <2> QED BY <2>1, <2>2 DEF Alike, Devices
<1> QED BY <1>3, <1>4, <1>5, <1>6, <1>7, <1>8, <1>9 DEF Versions, Plans

(*** what is under way, after a step ***)

\* A finish puts its file where its upload is for.
LEMMA MayPutOwn ==
    ASSUME Core, NEW u \in uploads, NEW p, MayPut(u.n, p)
    PROVE  p = u.path
<1>1. TransferTyped /\ FinishesFit
  BY DEF Core, Local, TransferInv
<1>2. ASSUME NEW d \in Devices, NEW m \in InBox(wire, d), Is(m, "finish"), m.n = u.n, Aims(d, m.session, p)
      PROVE  p = u.path
  <2>1. Other(u.at) = d /\ u.session = m.session
    BY <1>1, <1>2 DEF FinishesFit, FinishFits
  <2> QED BY <1>2, <2>1, AimsOnly
<1>3. ASSUME NEW s \in sessions, NEW i \in 1..Len(s.queue), Pending(s, i), s.queue[i].n = u.n, s.path = p
      PROVE  p = u.path
  <2> DEFINE f == s.queue[i]
  <2>1. s.queue \in Seq(Write \cup Finish) /\ IsFinish(f)
    BY <1>1, <1>3 DEF TransferTyped, Session, Pending
  <2>2. f \in Finish
    BY <2>1, ItemKinds
  <2>3. FinishFits(s.at, s.id, f)
    BY <1>1, <2>1 DEF FinishesFit
  <2>4. u.n = f.n
    BY <1>3
  <2> HIDE DEF f
  <2> QED BY <1>3, <2>2, <2>3, <2>4, FinishAbout
<1> QED BY <1>2, <1>3 DEF MayPut

\* What was the run's still is, or can do no harm; what is new is the run's.
Handover ==
    /\ \A x \in uploads' : \/ Own(x)' \/ Calm(x.path)'
                           \/ \E u \in uploads : x.path = u.path /\ ~Own(u)
    /\ \A u \in uploads : Own(u) => \/ Runs(u.n)' \/ Calm(u.path)'
                                    \/ \A p \in Paths : ~MayPut(u.n, p)'
    /\ \A m \in InBox(wire', "B") :
          /\ Is(m, "send") => Mine(m)' \/ Calm(m.path)' \/ (m \in InBox(wire, "B") /\ ~Mine(m))
          /\ Is(m, "move") => Mine(m)' \/ Calm(m.to)' \/ (m \in InBox(wire, "B") /\ ~Mine(m))

\* What is nobody's any more does no harm after the step either.
LEMMA StaleKept ==
    ASSUME RemoteTypeOK, Core, TransferTyped', GoesOn, Stale, CalmStays, Handover
    PROVE  Stale'
<1>0. \A p \in Paths : Calm(p) => Calm(p)'
  BY DEF CalmStays
<1>1. ASSUME NEW x \in uploads' PROVE Own(x)' \/ Calm(x.path)'
  <2>1. SUFFICES ASSUME NEW u \in uploads, x.path = u.path, ~Own(u) PROVE Calm(x.path)'
    BY DEF Handover
  <2>2. x.path \in Paths /\ Calm(x.path)
    BY <2>1, OwnTyped DEF Core, Local, Stale
  <2> QED BY <1>0, <2>2
<1>2. ASSUME NEW m \in InBox(wire', "B")
      PROVE  /\ Is(m, "send") => Mine(m)' \/ Calm(m.path)'
             /\ Is(m, "move") => Mine(m)' \/ Calm(m.to)'
  <2>1. m \in Message
    BY InBoxDef DEF TransferTyped, Devices
  <2>2. /\ Is(m, "send") => m.path \in Paths
        /\ Is(m, "move") => m.to \in Paths
    BY <2>1, MessageTypes
  <2>3. CASE m \in InBox(wire, "B") /\ ~Mine(m)
    <3>1. /\ Is(m, "send") => Calm(m.path)
          /\ Is(m, "move") => Calm(m.to)
      BY <2>3 DEF Stale
    <3> QED BY <1>0, <2>2, <3>1
  <2> QED BY <2>3 DEF Handover
<1>3. ASSUME NEW n \in Numbers, NEW p \in Paths, MayPut(n, p)' PROVE Runs(n)' \/ Calm(p)'
  <2>1. ASSUME NEW u \in uploads, u.n = n, p = u.path PROVE Runs(n)' \/ Calm(p)'
    <3>1. CASE Own(u)
      <4>1. Runs(u.n)' \/ Calm(u.path)' \/ \A q \in Paths : ~MayPut(u.n, q)'
        BY <3>1 DEF Handover
      <4> QED BY <1>3, <2>1, <4>1
    <3>2. CASE ~Own(u)
      <4>1. Calm(u.path)
        BY <3>2 DEF Stale
      <4>2. Calm(p)
        BY <2>1, <4>1
      <4> QED BY <1>0, <4>2
    <3> QED BY <3>1, <3>2
  <2>2. CASE MayPut(n, p)
    <3>1. Runs(n) \/ Calm(p)
      BY <2>2 DEF Stale
    <3>2. CASE Calm(p)
      BY <1>0, <3>2
    <3>3. ASSUME NEW u \in uploads, Own(u), u.n = n PROVE p = u.path
      BY <2>2, <3>3, MayPutOwn
    <3> QED BY <2>1, <3>1, <3>2, <3>3 DEF Runs
  <2>3. MayPut(n, p) \/ \E u \in uploads : u.n = n /\ u.path = p
    BY <1>3, MayPutFlow
  <2> QED BY <2>1, <2>2, <2>3
<1> QED BY <1>1, <1>2, <1>3 DEF Stale

\* The run's uploads are those it had, and the file they read is as it was; or they are exact.
Kin == \A x \in uploads' : Own(x)' =>
    \/ Excused(x.path)' \/ Exact(x)'
    \/ \E u \in uploads : /\ Own(u) /\ Continues(x, u)
                          /\ x.put = "whole" => u.put = "whole" \/ Alike(x.path)'

Sources == \A u \in uploads : Own(u) =>
    \/ Excused(u.path)'
    \/ /\ ~Excused(u.path) /\ fs'[u.at][u.path] = fs[u.at][u.path]
       /\ Alike(u.path) => Alike(u.path)'

\* What the run's upload carries is still what is there.
LEMMA ExactKept ==
    ASSUME UploadExact, Kin, Sources
    PROVE  UploadExact'
<1> SUFFICES ASSUME NEW x \in uploads', Own(x)', ~Excused(x.path)' PROVE Exact(x)'
  BY DEF UploadExact
<1>1. SUFFICES ASSUME NEW u \in uploads, Own(u), Continues(x, u),
                      x.put = "whole" => u.put = "whole" \/ Alike(x.path)'
               PROVE  Exact(x)'
  BY DEF Kin
<1>2. x.path = u.path /\ x.at = u.at /\ x.meta = u.meta /\ x.chunk = u.chunk
      /\ ((x.expect = u.expect /\ x.size = u.size) \/ Reads(x, fs[u.at][u.path]))
  BY <1>1 DEF Continues, Same
<1>3. /\ ~Excused(u.path) /\ fs'[u.at][u.path] = fs[u.at][u.path]
      /\ Alike(u.path) => Alike(u.path)'
  <2>1. ~Excused(u.path)'
    BY <1>2
  <2> QED BY <1>1, <2>1 DEF Sources
<1>4. Exact(u)
  BY <1>1, <1>3 DEF UploadExact
<1>5. x.expect = u.expect /\ x.size = u.size
  BY <1>2, <1>4 DEF Exact, Reads
<1>6. x.put = "whole" => Alike(x.path)'
  <2>1. Alike(u.path)' <=> Alike(x.path)'
    BY <1>2
  <2> QED BY <1>1, <1>3, <1>4, <2>1 DEF Exact
<1> QED BY <1>2, <1>3, <1>4, <1>5, <1>6 DEF Exact, MetaOf

\* What the run is told is what it was told, or true.
Told == /\ \A m \in InBox(wire', "A") : Good(m)' => (m \in InBox(wire, "A") /\ Good(m)) \/ Outcome(m)'
        /\ \A h \in {heard'} : h # None /\ h.ok =>
              h = heard \/ (h \in InBox(wire, "A") /\ Good(h)) \/ Outcome(h)'

\* And what the run is told of is so.
LEMMA ToldKept ==
    ASSUME OutcomesTrue, Told, \A m : Outcome(m) => Outcome(m)'
    PROVE  OutcomesTrue'
<1>1. ASSUME NEW m \in InBox(wire', "A"), Good(m)' PROVE Outcome(m)'
  BY <1>1 DEF OutcomesTrue, Told
<1>2. ASSUME NEW h \in {heard'}, h # None, h.ok PROVE Outcome(h)'
  <2>1. h = heard => Outcome(h)
    BY <1>2 DEF OutcomesTrue
  <2>2. h \in InBox(wire, "A") /\ Good(h) => Outcome(h)
    BY DEF OutcomesTrue
  <2> QED BY <1>2, <2>1, <2>2 DEF Told
<1> QED BY <1>1, <1>2 DEF OutcomesTrue

(*** the same for steps that are none of the run's ***)

\* The run's uploads copy its file the way it copies it.
LEMMA OwnCopies ==
    ASSUME Core, Commands, NEW u \in uploads, Own(u)
    PROVE  /\ cur # None /\ u.path = cur.path /\ u.path \in Paths /\ u.at \in Devices
           /\ cur.action = CopyTo(Other(u.at)) /\ cur.step = "transfer"
<1>1. /\ TransferTyped /\ RunTyped /\ RunFits /\ CallersFit /\ AnswersFit
      /\ u.path = cur.path /\ u.path \in Paths /\ u.at \in Devices
  BY OwnTyped DEF Core, Local, Commands
<1>2. CASE u.caller = <<>>
  <2>1. u.at = "A" /\ cur # None /\ cur.action = "copy-to-dst" /\ cur.step = "transfer"
    BY <1>1, <1>2 DEF CallersFit
  <2> QED BY <1>1, <2>1 DEF CopyTo, Other
<1>3. CASE u.caller # <<>>
  <2>1. asked # 0 /\ Wanted = "send" /\ u.at = "B"
    BY <1>1, <1>3, OwnTyped DEF Own, AnswersFit, CallersFit
  <2>2. phase # "manifest" /\ cur.action = "copy-to-src" /\ cur.step # "signature"
    BY <2>1 DEF Wanted
  <2>3. cur # None /\ cur \in Cursor
    BY <1>1, <2>1, <2>2 DEF RunFits, RunTyped
  <2> QED BY <1>1, <2>1, <2>2, <2>3 DEF CopyTo, Other, Cursor
<1> QED BY <1>2, <1>3

\* The run's sources stay as they were walked, while it stands.
LEMMA StandsSources ==
    ASSUME Core, Commands, Stands, Grows, Lawful
    PROVE  Sources
<1> SUFFICES ASSUME NEW u \in uploads, Own(u), ~Excused(u.path)'
             PROVE  /\ ~Excused(u.path) /\ fs'[u.at][u.path] = fs[u.at][u.path]
                    /\ Alike(u.path) => Alike(u.path)'
  BY DEF Sources
<1> DEFINE p == u.path
           d == u.at
<1>1. /\ cur # None /\ p = cur.path /\ p \in Paths /\ d \in Devices
      /\ cur.action = CopyTo(Other(d))
  BY OwnCopies
<1>2. ~Excused(p) /\ ~Excused(p)'
  BY DEF Grows, Excused
<1> HIDE DEF p, d
<1>3. fs'[d][p] = fs[d][p]
  BY <1>1, <1>2 DEF Lawful, Mended, CopyTo, Devices, Other
<1>4. fs'[Other(d)][p] = fs[Other(d)][p] \/ Alike(p)'
  BY <1>1, <1>2 DEF Lawful, Mended, CopyTo, Devices, Other
<1>5. Alike(p) => Alike(p)'
  BY <1>1, <1>3, <1>4 DEF Alike, Devices, Other
<1> QED BY <1>2, <1>3, <1>5 DEF p, d

\* What the run was told stays true.
LEMMA StandsOutcome ==
    ASSUME Core, Stands, Grows, Lawful, NEW m, Outcome(m)
    PROVE  Outcome(m)'
<1>1. cur' = cur /\ (cur # None => cur.path \in Paths)
  BY DEF Stands, Core, RunTyped, Cursor
<1> SUFFICES ASSUME cur # None, ~Excused(cur.path)'
             PROVE  /\ cur.step = "transfer" /\ cur.action \in {"copy-to-dst", "copy-to-src"} =>
                          Alike(cur.path)' /\ fs'["A"][cur.path] # None /\ m.sum = fs'["A"][cur.path].data
                    /\ cur.action = "delete-dst" => Alike(cur.path)'
  BY <1>1 DEF Outcome, Copied, Excused, Alike
<1>2. PICK p \in Paths : p = cur.path
  BY <1>1
<1>3. ~Excused(p) /\ ~Excused(p)'
  BY <1>1, <1>2 DEF Grows, Excused
<1>4. /\ cur.step = "transfer" /\ cur.action \in {"copy-to-dst", "copy-to-src"} =>
             Alike(p) /\ fs["A"][p] # None /\ m.sum = fs["A"][p].data
      /\ cur.action = "delete-dst" => Alike(p)
  BY <1>2, <1>3 DEF Outcome, Copied
<1>5. \A d \in Devices : fs'[d][p] = fs[d][p] \/ Mended(d, p)
  BY <1>3 DEF Lawful
<1>6. CASE cur.action = "delete-dst"
  <2>1. \A d \in Devices : fs'[d][p] = fs[d][p] \/ fs'["A"][p] = fs'["B"][p]
    BY <1>5, <1>6 DEF Mended, CopyTo, Alike
  <2>2. fs'["A"][p] = fs'["B"][p]
    BY <1>4, <1>6, <2>1 DEF Alike, Devices
  <2> QED BY <1>1, <1>2, <1>6, <2>2 DEF Alike
<1>7. ASSUME cur.action \in {"copy-to-dst", "copy-to-src"}, cur.step = "transfer"
      PROVE  fs'["A"][p] = fs'["B"][p] /\ fs'["A"][p] # None /\ m.sum = fs'["A"][p].data
  <2>1. \A d \in Devices : fs'[d][p] = fs[d][p] \/ (fs'["A"][p] = fs'["B"][p] /\ fs'[Other(d)][p] = fs[Other(d)][p])
    BY <1>5, <1>7 DEF Mended, Alike
  <2>2. /\ fs'["A"][p] = fs["A"][p] \/ (fs'["A"][p] = fs'["B"][p] /\ fs'["B"][p] = fs["B"][p])
        /\ fs'["B"][p] = fs["B"][p] \/ (fs'["A"][p] = fs'["B"][p] /\ fs'["A"][p] = fs["A"][p])
    BY <2>1 DEF Devices, Other
  <2> QED BY <1>4, <1>7, <2>2 DEF Alike
<1> QED BY <1>1, <1>2, <1>6, <1>7 DEF Alike

\* What a step that is none of the run's leaves true.
LEMMA StandsTwoWay ==
    ASSUME RemoteTypeOK, Core, TransferTyped', DeleteInv, TwoWay, Bidir, Stands, Grows, Lawful, Spares,
           GoesOn, Handover, Kin, Told, diverged' = diverged, Observe
    PROVE  TwoWay'
<1>1. RunPlan /\ Commands
  BY DEF DeleteInv
<1>2. Versions /\ Plans /\ Flows /\ VersionsSurvive /\ CompletedRunConverges
  BY DEF TwoWay
<1>3. Versions' /\ Plans'
  BY <1>1, <1>2, StandsPlans
<1>4. Stale'
  BY <1>2, StandsCalm, StaleKept DEF Flows
<1>5. UploadExact'
  BY <1>1, <1>2, StandsSources, ExactKept DEF Flows
<1>6. OutcomesTrue'
  <2>1. \A m : Outcome(m) => Outcome(m)'
    BY StandsOutcome
  <2> QED BY <1>2, <2>1, ToldKept DEF Flows
<1>7. VersionsSurvive' /\ CompletedRunConverges'
  BY <1>2, SparesSurvive DEF CompletedRunConverges
<1> QED BY <1>3, <1>4, <1>5, <1>6, <1>7 DEF TwoWay, Flows

(*** a transfer takes effect ***)

\* The decisions that write over a file that is known take it for the record's.
LEMMA KnownTarget ==
    ASSUME NEW d \in Devices, NEW a, NEW b, NEW r, r # None, resolveAction(a, b, r) = CopyTo(d),
           d = "A" => a # None, d = "B" => b # None
    PROVE  /\ d = "A" => r.src = a
           /\ d = "B" => r.dst = b
<1>1. d \in {"A", "B"}
  BY DEF Devices
<1>2. CASE d = "A"
  <2>1. resolveAction(a, b, r) = "copy-to-src"
    BY <1>2 DEF CopyTo
  <2>2. b # None
    BY <1>2, <2>1 DEF resolveAction, fileChanged
  <2>3. ~fileChanged(a, r, "src")
    BY <1>2, <2>1, <2>2 DEF resolveAction
  <2> QED BY <1>2, <2>3 DEF fileChanged
<1>3. CASE d = "B"
  <2>1. resolveAction(a, b, r) = "copy-to-dst"
    BY <1>3 DEF CopyTo
  <2>2. a # None
    BY <1>3, <2>1 DEF resolveAction, fileChanged
  <2>3. ~fileChanged(b, r, "dst")
    BY <1>3, <2>1, <2>2 DEF resolveAction
  <2> QED BY <1>3, <2>3 DEF fileChanged
<1> QED BY <1>1, <1>2, <1>3

\* What the run copies over had been on both devices, or loses a conflict.
LEMMA CopySpares ==
    ASSUME Core, RunPlan, Bidir, Versions, Plans, NEW d \in Devices, NEW p \in Paths,
           cur # None, cur.path = p, cur.action = CopyTo(d), ~Excused(p), ~Conceded(p), fs[d][p] # None
    PROVE  fs[d][p].data \in propagated
<1>1. TransferTyped /\ RunTyped /\ RunFits /\ Pure /\ BothHad
  BY DEF Core, Local, Versions
<1>2. phase = "visit"
  BY <1>1 DEF RunPlan, RunFits, RunTyped, CopyTo
<1>3. ActionFor(p) = CopyTo(d)
  BY <1>2 DEF Plans, PlanFits
<1>4. stored[p] # None /\ resolveAction(walked["A"][p], walked["B"][p], stored[p]) # "conflict"
  BY DEF Conceded
<1>5. resolveAction(walked["A"][p], walked["B"][p], stored[p]) = CopyTo(d)
  BY <1>3, <1>4 DEF ActionFor, newerWins, Bidir
<1>6. CASE Alike(p)
  BY <1>1, <1>6, KnownTime
<1>7. CASE ~Alike(p)
  <2>1. MetaOf(fs[d][p]) = walked[d][p]
    BY <1>7 DEF Plans, CopyFits
  <2>2. walked[d][p] # None /\ walked[d][p].mtimeMs = fs[d][p].mtimeMs
    BY <1>1, <2>1, MetaKnown
  <2> DEFINE r == stored[p]
             a == walked["A"][p]
             b == walked["B"][p]
  <2>3. /\ d = "A" => a # None
        /\ d = "B" => b # None
    BY <2>2
  <2>4. r # None /\ resolveAction(a, b, r) = CopyTo(d)
    BY <1>4, <1>5
  <2>5. Faithful(r)
    BY <2>4 DEF Plans, RecordsFaithful, Excused
  <2>6. /\ d = "A" => r.src = a
        /\ d = "B" => r.dst = b
    <3> HIDE DEF r, a, b
    <3> QED BY <2>3, <2>4, KnownTarget
  <2>7. walked[d][p].mtimeMs \in propagated
    BY <2>3, <2>5, <2>6 DEF Faithful, Devices
  <2>8. fs[d][p].data = fs[d][p].mtimeMs
    BY <1>1 DEF Pure, Genuine, Excused
  <2> QED BY <2>2, <2>7, <2>8
<1> QED BY <1>6, <1>7

\* The upload a finish comes from is the run's, or its path is calm.
LEMMA FinishRuns ==
    ASSUME RemoteTypeOK, Core, Carrying, DeleteInv, UploadExact, Stale, NEW s \in sessions, s.applied = "no",
           NEW f \in Finish, s.queue # <<>>, f = Head(s.queue), ~Calm(s.path)
    PROVE  \E u \in uploads : /\ Own(u) /\ u.n = f.n /\ u.path = s.path /\ Other(u.at) = s.at
                              /\ u.expect = f.expect /\ s.meta.mtimeMs = u.meta.mtimeMs
<1>1. TransferTyped /\ FinishesFit /\ s \in Session
  BY DEF Core, Local, TransferInv, TransferTyped
<1>2. s.queue \in Seq(Write \cup Finish) /\ s.path \in Paths
  BY <1>1 DEF Session
<1>3. f = s.queue[1] /\ 1 \in 1..Len(s.queue) /\ IsFinish(f)
  <2>1. Len(s.queue) \in Nat /\ Len(s.queue) > 0 /\ Head(s.queue) = s.queue[1]
    BY <1>2, Rest
  <2>2. 1 \in 1..Len(s.queue)
    BY <2>1
  <2> QED BY <2>1, <2>2, ItemKinds
<1>4. Pending(s, 1)
  BY <1>3 DEF Pending
<1>5. f.n \in Numbers /\ MayPut(f.n, s.path)
  BY <1>3, <1>4 DEF MayPut, Finish
<1>6. Runs(f.n)
  BY <1>2, <1>5 DEF Stale
<1>7. PICK u \in uploads : Own(u) /\ u.n = f.n
  BY <1>6 DEF Runs
<1>8. FinishFits(s.at, s.id, f)
  BY <1>1, <1>3 DEF FinishesFit
<1>9. u.path = s.path /\ Other(u.at) = s.at
  BY <1>7, <1>8, FinishAbout
<1>10. u.expect = f.expect /\ u.session = s.id
  BY <1>7, <1>8 DEF FinishFits
<1>11. s.meta.mtimeMs = u.meta.mtimeMs
  BY <1>10 DEF Carrying, SessionTimes, Timely
<1> QED BY <1>7, <1>9, <1>10, <1>11

\* A finish puts the run's file, or is excused, and spares the only copies.
LEMMA ApplyLawful ==
    ASSUME RemoteTypeOK, Core, Carrying, DeleteInv, TwoWay, Bidir, NEW s \in sessions, Apply(s),
           blamed' = blamed \cup Unforeseen \cup GivenUp, touched' = touched
    PROVE  Lawful /\ Spares
<1> DEFINE f == Head(s.queue)
           put == Put(s, f)
           e == Result(s, f, put)
           d == s.at
           p == s.path
<1>1. /\ s \in Session /\ s.queue # <<>> /\ IsFinish(f) /\ s.applied = "no"
      /\ fs' = IF put = "no" THEN fs ELSE [fs EXCEPT ![d][p] = e]
  BY DEF Core, Local, TransferTyped, Apply, Finishing, IsFinish
<1>2. s.queue \in Seq(Write \cup Finish) /\ d \in Devices /\ p \in Paths
  BY <1>1 DEF Session
<1>3. Head(s.queue) \in Write \cup Finish /\ Head(s.queue) = s.queue[1] /\ Len(s.queue) \in Nat /\ Len(s.queue) > 0
  BY <1>1, <1>2, Rest
<1>4. f \in Finish
  BY <1>1, <1>3, ItemKinds
<1>5. TransferTyped /\ RunPlan /\ Versions /\ Plans /\ Flows /\ Pure /\ BothHad
  BY DEF Core, Local, TwoWay, DeleteInv, Versions
<1>6. CASE put = "no"
  BY <1>1, <1>6, LawfulStill, SparesStill
<1>7. CASE put # "no"
  <2> HIDE DEF put, e, f
  <2>1. e \in Entry
    BY <1>4, ResultTyped DEF Core, Local, e
  <2>2. e.data = Torn \/ (e.data = f.expect /\ e.size = f.size)
    BY <1>1, <1>4, <1>7, PutsSaid DEF put, e
  <2>3. e.mtimeMs = s.meta.mtimeMs
    BY DEF e, Result
  <2>4. \A c \in Devices, q \in Paths : fs'[c][q] = IF c = d /\ q = p THEN e ELSE fs[c][q]
    BY <1>1, <1>2, <1>5, <1>7 DEF TransferTyped
  <2>5. ASSUME ~Calm(p)
        PROVE  \E u \in uploads : /\ Own(u) /\ u.n = f.n /\ u.path = p /\ Other(u.at) = d
                                  /\ u.expect = f.expect /\ s.meta.mtimeMs = u.meta.mtimeMs
    <3>1. f = Head(s.queue) /\ UploadExact /\ Stale
      BY <1>5 DEF f, Flows
    <3> QED BY <1>1, <1>4, <2>5, <3>1, FinishRuns
  <2>6. ASSUME p \notin blamed', fs'[d][p] # fs[d][p]
        PROVE  /\ cur # None /\ p = cur.path /\ cur.action = CopyTo(d)
               /\ fs[Other(d)][p] = e /\ Genuine(e)
    <3>1. p \notin Unforeseen
      BY <2>6
    <3>2. cur # None /\ cur.path = p /\ cur.action = CopyTo(d) /\ p \notin touched /\ e.data # Torn
      BY <1>2, <2>4, <2>6, <3>1 DEF Unforeseen
    <3>3. ~Excused(p) /\ ~Settled(p)
      BY <2>6, <3>2 DEF Excused, Settled, Working
    <3>4. PICK u \in uploads : /\ Own(u) /\ u.path = p /\ Other(u.at) = d
                               /\ u.expect = f.expect /\ s.meta.mtimeMs = u.meta.mtimeMs
      BY <2>5, <3>3 DEF Calm
    <3>5. Exact(u)
      BY <1>5, <3>3, <3>4 DEF Flows, UploadExact
    <3>6. u.at \in Devices /\ u.at = Other(d)
      BY <3>4, <1>5, OwnTyped, Two
    <3> DEFINE a == fs[u.at][p]
    <3>7. a # None /\ u.meta = MetaOf(a) /\ u.expect = a.data
      BY <3>4, <3>5 DEF Exact
    <3>8. a \in Entry /\ MetaOf(a).mtimeMs = a.mtimeMs
      BY <1>2, <1>5, <3>6, <3>7, MetaKnown
    <3>9. a.data = a.mtimeMs
      BY <1>2, <1>5, <3>3, <3>6, <3>7 DEF Pure, Genuine, Excused
    <3>10. e.data = a.data /\ e.mtimeMs = a.mtimeMs /\ e.size = f.size
      BY <2>2, <2>3, <3>2, <3>4, <3>7, <3>8
    <3>11. SizeSaid(a.data, a.size) /\ SizeSaid(a.data, f.size)
      <4>1. SizeSaid(a.data, a.size)
        BY <1>2, <3>6, <3>7 DEF SizeSaid
      <4>2. f = s.queue[1] /\ 1 \in 1..Len(s.queue)
        BY <1>3 DEF f
      <4>3. f.expect = a.data
        BY <3>4, <3>7
      <4>4. SizeSaid(f.expect, f.size)
        BY <1>1, <4>2 DEF SizeSaid, IsFinish
      <4> HIDE DEF a
      <4> QED BY <4>1, <4>3, <4>4
    <3>12. a.size = f.size
      <4>1. a.data \in Contents /\ a.size \in Sizes /\ f.size \in Sizes /\ a.data # Torn
        BY <1>4, <3>2, <3>8, <3>10 DEF Entry, Finish
      <4> HIDE DEF a
      <4> QED BY <3>11, <4>1 DEF Carrying, OneSize
    <3>13. e = a
      BY <2>1, <3>8, <3>10, <3>12 DEF Entry
    <3>14. Genuine(e)
      BY <3>9, <3>13 DEF Genuine
    <3>15. fs[Other(d)][p] = e
      BY <3>6, <3>13
    <3> QED BY <3>2, <3>14, <3>15
  <2>7. Lawful
    <3> SUFFICES ASSUME NEW c \in Devices, NEW q \in Paths, fs'[c][q] # fs[c][q], q \notin blamed'
                 PROVE  Mended(c, q) /\ Genuine(fs'[c][q])
      BY DEF Lawful, Excused
    <3>1. c = d /\ q = p /\ fs'[d][p] = e
      BY <2>4
    <3>2. /\ cur # None /\ p = cur.path /\ cur.action = CopyTo(d)
          /\ fs[Other(d)][p] = e /\ Genuine(e)
      BY <2>6, <3>1
    <3>3. fs'[Other(d)][p] = fs[Other(d)][p]
      BY <1>2, <2>4, Two
    <3>4. fs'["A"][p] = fs'["B"][p]
      BY <1>2, <3>1, <3>2, <3>3 DEF Devices, Other
    <3> HIDE DEF d, p
    <3> QED BY <3>1, <3>2, <3>3, <3>4 DEF Mended, Alike
  <2>8. Spares
    <3> SUFFICES ASSUME NEW c \in Devices, NEW q \in Paths, fs[c][q] # None, fs'[c][q] # fs[c][q],
                        ~Excused(q), ~Conceded(q)
                 PROVE  fs[c][q].data \in propagated
      BY DEF Spares
    <3>1. c = d /\ q = p
      BY <2>4
    <3>2. CASE Calm(p)
      <4>1. Alike(p)
        BY <3>1, <3>2 DEF Calm, Settled
      <4> QED BY <1>5, <3>1, <4>1, KnownTime
    <3>3. CASE ~Calm(p)
      <4>1. PICK u \in uploads : Own(u) /\ u.path = p /\ Other(u.at) = d
        BY <2>5, <3>3
      <4>2. cur # None /\ u.path = cur.path /\ cur.action = CopyTo(Other(u.at))
        BY <4>1, OwnCopies DEF DeleteInv
      <4>3. cur # None /\ cur.path = p /\ cur.action = CopyTo(d) /\ ~Excused(p) /\ ~Conceded(p) /\ fs[d][p] # None
        BY <3>1, <4>1, <4>2
      <4>4. fs[d][p].data \in propagated
        <5> HIDE DEF d, p
        <5> QED BY <1>2, <1>5, <4>3, CopySpares DEF d, p
      <4> QED BY <3>1, <4>4
    <3> QED BY <3>2, <3>3
  <2> QED BY <2>7, <2>8
<1> QED BY <1>6, <1>7

(*** what transfers leave true ***)

\* What a transfer brings: its uploads, its messages and what the run hears of it.
Brought ==
    /\ \A u \in uploads' : Heir(u)
    /\ \A d \in Devices : \A m \in InBox(wire', d) : m \in InBox(wire, d) \/ Foreign(m)
    /\ heard' = heard \/ \E u \in uploads : /\ u.caller = <<>>
                                            /\ heard'.ok => u.put = "whole" /\ heard'.sum = u.expect

\* A file with the content of its source is the source's file.
LEMMA SameData ==
    ASSUME TransferTyped, OneSize, Pure, NEW p \in Paths, ~Excused(p),
           fs["A"][p] # None, fs["B"][p] # None, fs["A"][p].data = fs["B"][p].data
    PROVE  Alike(p)
<1>1. "A" \in Devices /\ "B" \in Devices
  BY DEF Devices
<1>2. fs["A"][p].mtimeMs = fs["A"][p].data /\ fs["B"][p].mtimeMs = fs["B"][p].data
  BY <1>1 DEF Pure, Genuine, Excused
<1> QED BY <1>2, SameTime

\* It holds in every state, so after every step.
DataTells == TransferTyped /\ OneSize /\ Pure => \A p \in Paths :
    ~Excused(p) /\ fs["A"][p] # None /\ fs["B"][p] # None /\ fs["A"][p].data = fs["B"][p].data => Alike(p)

\* Equal contents are of equal size: before the step,
LEMMA DataTellsTrue == DataTells
BY SameData DEF DataTells

\* and after it.
LEMMA DataTellsNext == DataTells'
BY DataTellsTrue, PTL

\* The run's uploads stay the run's, end for good, or are blamed.
LEMMA TransferHandsOver ==
    ASSUME RemoteTypeOK, Core, TransferTyped', Spent, GoesOn, Brought, asked' = asked, GivenUp \subseteq blamed'
    PROVE  Handover
<1>1. UploadsFit
  BY DEF Core, Local, TransferInv
<1>2. ASSUME NEW x \in uploads'
      PROVE  Own(x)' \/ \E u \in uploads : x.path = u.path /\ ~Own(u)
  <2>1. Heir(x)
    BY DEF Brought
  <2>2. PICK v \in uploads : x.caller = v.caller /\ x.path = v.path
    BY <2>1 DEF Heir
  <2> QED BY <2>2 DEF Own
<1>3. ASSUME NEW u \in uploads, Own(u)
      PROVE  Runs(u.n)' \/ Calm(u.path)' \/ \A p \in Paths : ~MayPut(u.n, p)'
  <2>1. CASE \E x \in uploads' : x.n = u.n
    <3>1. PICK x \in uploads' : x.n = u.n
      BY <2>1
    <3>2. Heir(x)
      BY DEF Brought
    <3>3. PICK v \in uploads : x.n = v.n /\ x.caller = v.caller
      BY <3>2 DEF Heir
    <3>4. v = u
      BY <1>1, <3>1, <3>3 DEF UploadsFit
    <3>5. Own(x)'
      BY <1>3, <3>3, <3>4 DEF Own
    <3>6. \A n : n = u.n => Runs(n)'
      BY <3>1, <3>5 DEF Runs
    <3> QED BY <3>6
  <2>2. CASE \A x \in uploads' : x.n # u.n
    <3>1. CASE u.put = "whole"
      <4>1. Closed(u) /\ \A p \in Paths : ~MayPut(u.n, p)
        BY <3>1 DEF Spent
      <4>2. ASSUME NEW p \in Paths, MayPut(u.n, p)' PROVE FALSE
        <5>1. MayPut(u.n, p) \/ \E v \in uploads : v.n = u.n /\ v.path = p /\ v.stage = "finish" /\ v.call = 0
          BY <4>2, MayPutFlow
        <5>2. PICK v \in uploads : v.n = u.n /\ v.stage = "finish" /\ v.call = 0
          BY <4>1, <5>1
        <5>3. v = u
          BY <1>1, <5>2 DEF UploadsFit
        <5> QED BY <4>1, <5>2, <5>3 DEF Closed
      <4> QED BY <4>2
    <3>2. CASE u.put # "whole"
      <4>1. u.path \in blamed'
        BY <2>2, <3>2 DEF GivenUp
      <4>2. \A p : p = u.path => Calm(p)'
        BY <4>1 DEF Calm, Excused
      <4> QED BY <4>2
    <3> QED BY <3>1, <3>2
  <2> QED BY <2>1, <2>2
<1>4. ASSUME NEW m \in InBox(wire', "B"), Is(m, "send") \/ Is(m, "move")
      PROVE  m \in InBox(wire, "B") /\ Mine(m)' = Mine(m)
  <2>1. m \in InBox(wire, "B")
    BY <1>4 DEF Brought, Foreign, Is, Devices
  <2> QED BY <2>1 DEF Mine
<1>5. \A m \in InBox(wire', "B") :
          /\ Is(m, "send") => Mine(m)' \/ (m \in InBox(wire, "B") /\ ~Mine(m))
          /\ Is(m, "move") => Mine(m)' \/ (m \in InBox(wire, "B") /\ ~Mine(m))
  BY <1>4
<1> QED BY <1>2, <1>3, <1>5 DEF Handover

\* What an upload has put is what it reads.
LEMMA TransferKin ==
    ASSUME RemoteTypeOK, Core, TransferTyped', OneSize', Pure', Commands, UploadExact,
           Sources, GoesOn, Brought, asked' = asked
    PROVE  Kin
<1> SUFFICES ASSUME NEW x \in uploads', Own(x)', ~Excused(x.path)'
             PROVE  \E u \in uploads : /\ Own(u) /\ Continues(x, u)
                                       /\ x.put = "whole" => u.put = "whole" \/ Alike(x.path)'
  BY DEF Kin
<1>1. Heir(x)
  BY DEF Brought
<1>2. PICK v \in uploads : /\ x.n = v.n /\ x.caller = v.caller /\ x.path = v.path /\ x.at = v.at
                           /\ x.put = v.put \/ (/\ fs'[Other(x.at)][x.path] # None
                                                /\ x.put = "whole" => fs'[Other(x.at)][x.path].data = x.expect)
  BY <1>1 DEF Heir
<1>3. ~Anew(x)
  BY <1>2, FreshNumber DEF Anew
<1>4. PICK u \in uploads : Continues(x, u)
  BY <1>3 DEF GoesOn, UploadsGoOn
<1>5. u = v
  BY <1>2, <1>4 DEF Continues, Same, Core, Local, TransferInv, UploadsFit
<1>6. Own(u)
  BY <1>2, <1>5 DEF Own
<1>7. ASSUME x.put = "whole", u.put # "whole" PROVE Alike(x.path)'
  <2>1. /\ u.path \in Paths /\ u.at \in Devices /\ TransferTyped
        /\ x.path = u.path /\ x.at = u.at
    BY <1>2, <1>5, OwnTyped DEF Core, Local
  <2>2. ~Excused(u.path)'
    BY <1>2, <1>5
  <2>3. ~Excused(u.path) /\ fs'[u.at][u.path] = fs[u.at][u.path]
    BY <1>6, <2>2 DEF Sources
  <2>4. Exact(u)
    BY <1>6, <2>3 DEF UploadExact
  <2>5. fs[u.at][u.path] # None /\ u.expect = fs[u.at][u.path].data
    BY <2>4 DEF Exact
  <2>6. x.expect = u.expect
    BY <1>4, <2>5 DEF Continues, Reads
  <2>7. /\ fs'[u.at][u.path] # None /\ fs'[Other(u.at)][u.path] # None
        /\ fs'[Other(u.at)][u.path].data = fs'[u.at][u.path].data
    BY <1>2, <1>5, <1>7, <2>1, <2>3, <2>5, <2>6
  <2> DEFINE p == u.path
  <2>8. p \in Paths /\ fs'["A"][p] # None /\ fs'["B"][p] # None /\ fs'["A"][p].data = fs'["B"][p].data
    BY <2>1, <2>7 DEF Devices, Other
  <2>9. \A q \in Paths : ~Excused(q)' /\ fs'["A"][q] # None /\ fs'["B"][q] # None
                         /\ fs'["A"][q].data = fs'["B"][q].data => Alike(q)'
    BY DataTellsNext DEF DataTells
  <2>10. Alike(u.path)'
    BY <2>2, <2>8, <2>9
  <2> QED BY <2>1, <2>10
<1> QED BY <1>4, <1>6, <1>7

\* What the run hears of its transfers is true.
LEMMA TransferTold ==
    ASSUME RemoteTypeOK, Core, AnswersFit', wire' \in Wires, Commands, UploadExact,
           Sources, Stands, Brought, asked' = asked
    PROVE  Told
<1>0. TransferTyped /\ UNCHANGED <<phase, cur>> /\ (cur # None => cur.path \in Paths) /\ "A" \in Devices
  BY DEF Core, Local, Stands, RunTyped, Cursor, Devices
<1>1. ASSUME NEW u \in uploads, Own(u), u.put = "whole", NEW m, m.sum = u.expect PROVE Outcome(m)'
  <2>1. /\ cur # None /\ u.path = cur.path /\ u.path \in Paths /\ u.at \in Devices
        /\ cur.action = CopyTo(Other(u.at)) /\ cur.step = "transfer"
    BY <1>1, OwnCopies
  <2>2. ASSUME ~Excused(u.path)'
        PROVE  fs'["A"][u.path] = fs'["B"][u.path] /\ fs'["A"][u.path] # None /\ m.sum = fs'["A"][u.path].data
    <3>1. /\ ~Excused(u.path) /\ fs'[u.at][u.path] = fs[u.at][u.path]
          /\ Alike(u.path) => Alike(u.path)'
      BY <1>1, <2>2 DEF Sources
    <3>2. Exact(u)
      BY <1>1, <3>1 DEF UploadExact
    <3>3. /\ Alike(u.path)' /\ fs[u.at][u.path] # None /\ u.expect = fs[u.at][u.path].data
      BY <1>1, <3>1, <3>2 DEF Exact
    <3> QED BY <1>1, <2>1, <3>1, <3>3 DEF Alike, Devices
  <2>3. Excused(u.path)' <=> u.path \in touched' \cup blamed'
    BY DEF Excused
  <2> QED BY <1>0, <2>1, <2>2, <2>3 DEF Outcome, Copied, Excused, Alike, CopyTo
<1>2. ASSUME NEW m \in InBox(wire', "A"), Good(m)'
      PROVE  (m \in InBox(wire, "A") /\ Good(m)) \/ Outcome(m)'
  <2>0. Good(m)
    BY <1>2 DEF Good, Mine
  <2>1. IsAnswer(m) /\ "id" \in DOMAIN m /\ m.id = asked /\ m.ok
    BY <2>0 DEF Good, Mine
  <2>2. CASE Foreign(m)
    <3>1. asked # 0
      <4>1. m \in Message
        BY <1>0, <1>2, InBoxDef
      <4> QED BY <2>1, <4>1, MessageId
    <3>2. m.answer = Wanted'
      BY <1>0, <1>2, <2>1, <3>1 DEF AnswersFit
    <3>3. m.answer # "transfer"
      BY <3>2 DEF Wanted
    <3>4. PICK u \in uploads : u.caller # <<>> /\ m.id = u.caller[1] /\ u.put = "whole" /\ m.sum = u.expect
      BY <2>1, <2>2, <3>3 DEF Foreign
    <3> QED BY <1>1, <2>1, <3>4 DEF Own
  <2> QED BY <1>0, <1>2, <2>0, <2>2 DEF Brought
<1>3. ASSUME NEW h \in {heard'}, h # None, h.ok PROVE h = heard \/ Outcome(h)'
  <2>1. heard' = heard \/ \E u \in uploads : /\ u.caller = <<>>
                                             /\ heard'.ok => u.put = "whole" /\ heard'.sum = u.expect
    BY DEF Brought
  <2>2. CASE heard' = heard
    BY <1>3, <2>2
  <2>3. CASE heard' # heard
    <3>1. PICK u \in uploads : u.caller = <<>> /\ (heard'.ok => u.put = "whole" /\ heard'.sum = u.expect)
      BY <2>1, <2>3
    <3>2. Own(u) /\ u.put = "whole" /\ h.sum = u.expect
      BY <1>3, <3>1 DEF Own
    <3>3. Outcome(h)'
      BY <1>1, <3>2
    <3> QED BY <3>3
  <2> QED BY <2>2, <2>3
<1> QED BY <1>2, <1>3 DEF Told

\* The steps of transfers.
LEMMA TransferTwoWay ==
    ASSUME RemoteTypeOK, Core, Core', Carrying, Carrying', DeleteInv, TwoWay, Bidir, Stands, Grows, Lawful,
           Spares, GoesOn, Brought, asked' = asked, GivenUp \subseteq blamed', diverged' = diverged, Observe
    PROVE  TwoWay'
<1>1. RunPlan /\ Commands /\ TransferTyped' /\ AnswersFit' /\ wire' \in Wires
  BY DEF DeleteInv, Core, Local, TransferTyped
<1>2. Versions /\ Plans /\ UploadExact
  BY DEF TwoWay, Flows
<1>3. Pure'
  BY <1>1, <1>2, StandsPlans DEF Versions
<1>4. Sources
  BY <1>1, StandsSources
<1>5. Spent /\ OneSize'
  BY DEF Carrying
<1>6. Handover
  BY <1>1, <1>5, TransferHandsOver
<1>7. Kin
  BY <1>1, <1>2, <1>3, <1>4, <1>5, TransferKin
<1>8. Told
  BY <1>1, <1>2, <1>4, TransferTold
<1> QED BY <1>1, <1>6, <1>7, <1>8, StandsTwoWay

\* Uploads and messages that are lost.
LEMMA QuietTwoWay ==
    ASSUME RemoteTypeOK, Core, Core', Carrying, Carrying', DeleteInv, TwoWay, Bidir, Stands, Grows, Lawful,
           Spares, GoesOn, uploads' \subseteq uploads, UNCHANGED <<asked, heard, diverged>>,
           \A d \in Devices : InBox(wire', d) \subseteq InBox(wire, d),
           GivenUp \subseteq blamed', Observe
    PROVE  TwoWay'
<1>1. Brought
  BY DEF Brought, Heir
<1> QED BY <1>1, TransferTwoWay

\* Of the steps of a transfer only Apply changes files.
LEMMA TransferFiles ==
    ASSUME UploadProgress \/ \E s \in sessions : Sweep(s)
    PROVE  fs' = fs \/ \E s \in sessions : Apply(s)
<1>1. CASE \E u \in uploads : Hash(u) \/ Requests(u) \/ SendsChunk(u)
  BY <1>1 DEF Hash, Requests, SendsChunk
<1>2. CASE \E d \in Devices, t \in Transports :
              wire[d][t] # <<>> /\ (TransferAnswered(d, t) \/ TransferHandled(d, t))
  BY <1>2 DEF TransferAnswered, TransferHandled
<1>3. CASE \E s \in sessions : WriteChunk(s) \/ FinishEnds(s) \/ Sweep(s)
  BY <1>3 DEF WriteChunk, FinishEnds, Sweep
<1> QED BY <1>1, <1>2, <1>3 DEF UploadProgress

\* Uploads and sessions go on (UploadProgress, Sweep).
LEMMA TransferStepsTwoWay ==
    ASSUME RemoteTypeOK, Core, Core', Carrying, Carrying', DeleteInv, TwoWay, Bidir, GoesOn, TransferSteps, Observe
    PROVE  TwoWay'
<1>1. /\ UploadProgress \/ \E s \in sessions : Sweep(s)
      /\ blamed' = blamed \cup Unforeseen \cup GivenUp
      /\ UNCHANGED <<settings, stored, runVars, touched, diverged>>
  BY DEF TransferSteps
<1>2. asked' = asked
  BY <1>1, TransferStays
<1>3. Stands /\ Grows /\ clock' = clock
  BY <1>1 DEF Stands, Grows, runVars, settings
<1>4. Transfers
  BY <1>1, <1>3 DEF Transfers
<1>5. Brought
  BY <1>4, TransfersNews DEF TransferNews, Brought
<1>6. Lawful /\ Spares
  <2>1. CASE fs' = fs
    BY <2>1, LawfulStill, SparesStill
  <2>2. ASSUME NEW s \in sessions, Apply(s) PROVE Lawful /\ Spares
    BY <1>1, <2>2, ApplyLawful
  <2> QED BY <1>1, <2>1, <2>2, TransferFiles
<1> QED BY <1>1, <1>2, <1>3, <1>5, <1>6, TransferTwoWay

\* An answer comes too late, or never.
LEMMA TimeOutsTwoWay ==
    ASSUME RemoteTypeOK, Core, Core', Carrying, Carrying', DeleteInv, TwoWay, Bidir, GoesOn, TimeOuts, Observe
    PROVE  TwoWay'
<1>0. budget \in Budget
  BY DEF Core, RunTyped
<1>1. fs' = fs /\ diverged' = diverged
  BY DEF TimeOuts, TimesOut
<1>2. Lawful /\ Spares
  BY <1>1, LawfulStill, SparesStill
<1>3. ASSUME NEW u \in uploads, TimesOut(u), TimeOut(u.call), blamed' = blamed \cup GivenUp,
             UNCHANGED <<NoLink, cache, stored, runVars, touched, diverged>>
      PROVE  TwoWay'
  <2>1. UNCHANGED <<job, clock>>
    BY <1>0, <1>3, TimeOutTyped
  <2>2. asked' = asked
    BY <1>3 DEF TimesOut
  <2>3. Stands /\ Grows
    BY <1>3, <2>1 DEF Stands, Grows, runVars
  <2>4. Brought
    BY <1>3, UploadNews DEF TransferNews, Brought
  <2> QED BY <1>1, <1>2, <1>3, <2>2, <2>3, <2>4, TransferTwoWay
<1>4. ASSUME asked # 0, asked' = 0, heard' = Unheard, TimeOut(asked), blamed' = blamed \cup Pursued,
             UNCHANGED <<fs, UploadsOnly, linkVars, stored, runVars, touched>>
      PROVE  TwoWay'
  <2>1. UNCHANGED <<job, clock>>
    BY <1>0, <1>4, TimeOutTyped
  <2>2. Stands /\ Grows
    BY <1>4, <2>1 DEF Stands, Grows, runVars
  <2>3. UNCHANGED <<uploads, wire, touched>>
    BY <1>4 DEF UploadsOnly, linkVars
  <2>4. TransferTyped /\ "A" \in Devices /\ "B" \in Devices /\ Commands
    BY DEF Core, Local, Devices, DeleteInv
  <2>5. cur # None => \A p : p = cur.path => Calm(p)'
    BY <1>4 DEF Pursued, Calm, Excused
  <2>6. ASSUME NEW u \in uploads, Own(u)
        PROVE  Own(u)' \/ Calm(u.path)'
    <3>1. cur # None /\ u.path = cur.path
      BY <2>4, <2>6, OwnCopies
    <3> QED BY <2>5, <3>1
  <2>7. \A m : Mine(m)' => "id" \in DOMAIN m /\ m.id = 0
    BY <1>4 DEF Mine
  <2>8. ASSUME NEW m \in InBox(wire, "B"), Mine(m)
        PROVE  /\ Is(m, "send") => Calm(m.path)'
               /\ Is(m, "move") => Calm(m.to)'
    <3>1. Is(m, "send") \/ Is(m, "move") => cur # None
      BY <2>8, RequestTells DEF Is
    <3>2. /\ Is(m, "send") => m.path = cur.path
          /\ Is(m, "move") => m.to = cur.path
      BY <2>4, <2>8 DEF Commands, Is
    <3> QED BY <2>5, <3>1, <3>2
  <2>9. Handover
    <3>1. ASSUME NEW x \in uploads'
          PROVE  \/ Own(x)' \/ Calm(x.path)'
                 \/ \E u \in uploads : x.path = u.path /\ ~Own(u)
      BY <2>3, <2>6
    <3>2. ASSUME NEW u \in uploads, Own(u)
          PROVE  Runs(u.n)' \/ Calm(u.path)'
      <4>1. ASSUME Own(u)' PROVE \A n : n = u.n => Runs(n)'
        BY <2>3, <4>1 DEF Runs
      <4> QED BY <2>6, <3>2, <4>1
    <3>3. ASSUME NEW m \in InBox(wire', "B")
          PROVE  /\ Is(m, "send") => Calm(m.path)' \/ (m \in InBox(wire, "B") /\ ~Mine(m))
                 /\ Is(m, "move") => Calm(m.to)' \/ (m \in InBox(wire, "B") /\ ~Mine(m))
      BY <2>3, <2>8
    <3> QED BY <3>1, <3>2, <3>3 DEF Handover
  <2>10. Kin
    <3> SUFFICES ASSUME NEW x \in uploads', Own(x)'
                 PROVE  \E u \in uploads : /\ Own(u) /\ Continues(x, u)
                                           /\ x.put = "whole" => u.put = "whole" \/ Alike(x.path)'
      BY DEF Kin
    <3>1. x \in uploads /\ (x.caller = <<>> \/ x.caller[1] = 0)
      BY <1>4, <2>3 DEF Own
    <3>2. x.caller = <<>>
      BY <2>4, <3>1, OwnTyped
    <3>3. Own(x) /\ Continues(x, x)
      BY <3>2 DEF Own, Continues, Same
    <3> QED BY <3>1, <3>3
  <2>11. Told
    <3>1. ASSUME NEW m \in InBox(wire', "A"), Good(m)' PROVE FALSE
      <4>1. m \in InBox(wire, "A") /\ "id" \in DOMAIN m /\ m.id = 0
        BY <2>3, <2>7, <3>1 DEF Good
      <4> QED BY <2>4, <4>1, IdTyped
    <3>2. ~heard'.ok
      BY <1>4 DEF Unheard
    <3> QED BY <3>1, <3>2 DEF Told
  <2>12. TransferTyped'
    BY DEF Core, Local
  <2> QED BY <1>1, <1>2, <2>2, <2>9, <2>10, <2>11, <2>12, StandsTwoWay
<1> QED BY <1>3, <1>4 DEF TimeOuts

\* A transport comes, breaks or closes; the user cancels.
LEMMA LinkTwoWay ==
    ASSUME RemoteTypeOK, Core, Core', Carrying, Carrying', DeleteInv, TwoWay, Bidir, GoesOn,
           LinkRecovers \/ LinkBreaks \/ Cancel, Observe
    PROVE  TwoWay'
<1>1. LinkTyped /\ wire \in Wires /\ budget \in Budget /\ {"break", "cancel"} \subseteq Faults /\ "A" \in Devices
  BY DEF Core, Local, TransferTyped, RunTyped, Faults, Devices
<1>2. wire' = wire \/ \E ts : wire' = Lost(ts)
  <2>1. CASE LinkBreaks
    BY <1>1, <2>1, LinkMoves DEF LinkBreaks
  <2>2. CASE LinkRecovers
    BY <1>1, <2>2, LinkMoves DEF LinkRecovers
  <2>3. CASE Cancel
    BY <2>3 DEF Cancel, EngineStays, linkVars
  <2> QED BY <2>1, <2>2, <2>3
<1>3. UNCHANGED <<job, fs, uploads, asked, heard, stored, runVars, touched, blamed, diverged>>
  <2>1. CASE LinkBreaks
    BY <1>1, <2>1, FaultyTyped DEF LinkBreaks, transferVars
  <2>2. CASE LinkRecovers
    BY <1>1, <2>2 DEF LinkRecovers, settings, transferVars
  <2>3. CASE Cancel
    BY <1>1, <2>3, FaultyTyped DEF Cancel, EngineStays
  <2> QED BY <2>1, <2>2, <2>3
<1>4. Stands /\ Grows /\ Lawful /\ Spares
  BY <1>3, LawfulStill, SparesStill DEF Stands, Grows, runVars
<1>5. GivenUp \subseteq blamed'
  BY <1>3 DEF GivenUp
<1>6. \A d \in Devices : InBox(wire', d) \subseteq InBox(wire, d)
  BY <1>1, <1>2, WireAfter
<1> QED BY <1>3, <1>4, <1>5, <1>6, QuietTwoWay

\* B's process dies.
LEMMA OtherDiesTwoWay ==
    ASSUME RemoteTypeOK, Core, Core', Carrying, Carrying', DeleteInv, TwoWay, Bidir, GoesOn, AgentDies("B"), Observe
    PROVE  TwoWay'
<1>1. LinkTyped /\ wire \in Wires /\ budget \in Budget /\ "crash" \in Faults /\ "B" \in Devices
  BY DEF Core, Local, TransferTyped, RunTyped, Faults, Devices
<1>2. wire' = wire \/ \E ts : wire' = Lost(ts)
  BY <1>1, LinkMoves DEF AgentDies
<1>3. job' = job
  BY <1>1, FaultyTyped DEF AgentDies, settings
<1>4. /\ uploads' \subseteq uploads /\ blamed' = blamed \cup GivenUp
      /\ UNCHANGED <<fs, stored, touched, runVars, asked, heard, diverged>>
  BY DEF AgentDies
<1>5. Stands /\ Grows /\ Lawful /\ Spares
  BY <1>3, <1>4, LawfulStill, SparesStill DEF Stands, Grows, runVars
<1>6. \A d \in Devices : InBox(wire', d) \subseteq InBox(wire, d)
  BY <1>1, <1>2, WireAfter
<1> QED BY <1>4, <1>5, <1>6, QuietTwoWay

\* The user edits what he likes.
LEMMA UserLawful ==
    ASSUME Core, Pure, UserSteps
    PROVE  Lawful
<1>1. fs \in [Devices -> [Paths -> Entry \cup {None}]] /\ clock \in Nat
  BY DEF Core, Local, TransferTyped, RunTyped
<1>2. PICK d \in Devices, p \in Paths :
         \/ \E size \in budget.sizes : UserWrites(d, p, size)
         \/ UserDeletes(d, p)
         \/ \E q \in Paths : UserRenames(d, p, q)
  BY DEF UserSteps
<1>3. ASSUME NEW tree, NEW ps, UserActs(d, tree, ps), tree \in [Paths -> Entry \cup {None}],
             \A q \in Paths : tree[q] # fs[d][q] => q \in ps /\ (q \in blamed' \/ Genuine(tree[q]))
      PROVE  Lawful
  <2> SUFFICES ASSUME NEW c \in Devices, NEW q \in Paths, fs'[c][q] # fs[c][q]
               PROVE  Excused(q)' /\ (q \in blamed' \/ Genuine(fs'[c][q]))
    BY DEF Lawful
  <2>1. fs' = [fs EXCEPT ![d] = tree] /\ touched' = touched \cup ps
    BY <1>3 DEF UserActs
  <2>2. fs'[c] = IF c = d THEN tree ELSE fs[c]
    BY <1>1, <2>1
  <2>3. c = d /\ fs'[c][q] = tree[q]
    BY <2>2
  <2> QED BY <1>3, <2>1, <2>3 DEF Excused
<1>4. ASSUME NEW size \in budget.sizes, UserWrites(d, p, size) PROVE Lawful
  <2> DEFINE e == [data |-> clock + 1, size |-> size, mtimeMs |-> clock + 1]
             tree == [fs[d] EXCEPT ![p] = e]
  <2>1. UserActs(d, tree, {p})
    BY <1>4 DEF UserWrites
  <2>2. e \in Entry
    <3>1. size \in Sizes /\ clock + 1 \in 0..MaxClock
      <4>1. budget \in Budget
        BY DEF Core, RunTyped
      <4>2. budget.sizes \subseteq Sizes /\ budget.edits \in 0..MaxClock
        BY <4>1 DEF Budget
      <4>3. clock < budget.edits
        BY <2>1 DEF UserActs
      <4> QED BY <1>1, <4>2, <4>3, TransferAssumption
    <3>2. clock + 1 \in Times /\ clock + 1 \in Contents
      BY <3>1, TransferAssumption DEF Times, Contents, Torn
    <3> QED BY <3>1, <3>2 DEF Entry
  <2>3. Genuine(e)
    BY DEF Genuine
  <2> HIDE DEF e
  <2>4. tree \in [Paths -> Entry \cup {None}]
    BY <1>1, <2>2
  <2>5. \A q \in Paths : tree[q] # fs[d][q] => q \in {p} /\ Genuine(tree[q])
    BY <1>1, <2>3
  <2> HIDE DEF tree
  <2> QED BY <1>3, <2>1, <2>4, <2>5
<1>5. ASSUME UserDeletes(d, p) PROVE Lawful
  <2> DEFINE tree == [fs[d] EXCEPT ![p] = None]
  <2>1. UserActs(d, tree, {p})
    BY <1>5 DEF UserDeletes
  <2>2. tree \in [Paths -> Entry \cup {None}]
    BY <1>1
  <2>3. \A q \in Paths : tree[q] # fs[d][q] => q \in {p} /\ Genuine(tree[q])
    BY <1>1 DEF Genuine
  <2> HIDE DEF tree
  <2> QED BY <1>3, <2>1, <2>2, <2>3
<1>6. ASSUME NEW q \in Paths, UserRenames(d, p, q) PROVE Lawful
  <2> DEFINE e == fs[d][p]
             tree == [fs[d] EXCEPT ![q] = e, ![p] = None]
  <2>1. UserActs(d, tree, {p, q}) /\ blamed' = Follows(blamed, p, q)
    BY <1>6 DEF UserRenames
  <2>2. e \in Entry \cup {None} /\ fs[d] \in [Paths -> Entry \cup {None}]
    BY <1>1
  <2>3. q \in blamed' \/ Genuine(e)
    BY <2>1 DEF Pure, Follows, Genuine
  <2> HIDE DEF e
  <2>4. tree \in [Paths -> Entry \cup {None}]
    BY <2>2
  <2>5. \A r \in Paths : tree[r] # fs[d][r] => r \in {p, q} /\ (r \in blamed' \/ Genuine(tree[r]))
    BY <2>2, <2>3 DEF Genuine
  <2> HIDE DEF tree
  <2> QED BY <1>3, <2>1, <2>4, <2>5
<1> QED BY <1>2, <1>4, <1>5, <1>6

\* The user writes, deletes or renames a file.
LEMMA UserStepsTwoWay ==
    ASSUME RemoteTypeOK, Core, Core', Carrying, Carrying', DeleteInv, TwoWay, Bidir, GoesOn, UserSteps, Observe
    PROVE  TwoWay'
<1>1. clock' = clock + 1 /\ clock \in Nat
      /\ UNCHANGED <<job, wire, uploads, asked, heard, stored, runVars, diverged>>
      /\ touched \subseteq touched' /\ blamed \subseteq blamed'
  BY DEF UserSteps, UserWrites, UserDeletes, UserRenames, UserActs, EngineStays, linkVars, Core, RunTyped, Follows
<1>2. Stands /\ Grows
  BY <1>1 DEF Stands, Grows, runVars
<1>3. Lawful
  BY UserLawful DEF TwoWay, Versions
<1>4. Spares
  BY <1>1 DEF Spares
<1>5. GivenUp \subseteq blamed'
  BY <1>1 DEF GivenUp
<1> QED BY <1>1, <1>2, <1>3, <1>4, <1>5, QuietTwoWay

(*** two-way runs: B's handlers ***)

\* A handler that answers.
LEMMA HandlerTwoWay ==
    ASSUME RemoteTypeOK, Core, Core', DeleteInv, TwoWay, Bidir, GoesOn, NEW t \in Transports, wire["B"][t] # <<>>,
           NEW a \in Message, IsAnswer(a), wire' = Answered(Taken("B", t), "B", t, a),
           UNCHANGED <<uploads, asked, heard, diverged>>, \A x \in {a} : Good(x) => Outcome(x)',
           Stands, Grows, Lawful, Spares, Observe
    PROVE  TwoWay'
<1>1. TransferTyped /\ wire \in Wires /\ "A" \in Devices /\ "B" \in Devices /\ TransferTyped'
  BY DEF Core, Local, TransferTyped, Devices
<1>2. \A m : Mine(m)' = Mine(m) /\ Good(m)' = Good(m)
  BY DEF Mine, Good
<1>3. \A u : Own(u)' = Own(u)
  BY DEF Own
<1>4. /\ \A m \in InBox(wire', "B") : m \in InBox(wire, "B")
      /\ \A m \in InBox(wire', "A") : m \in InBox(wire, "A") \/ m = a
  <2>1. Taken("B", t) \in Wires /\ \A e \in Devices : InBox(Taken("B", t), e) \subseteq InBox(wire, e)
    BY <1>1, TakenWire
  <2>2. Carries(wire', Taken("B", t), Other("B"), a)
    BY <1>1, <2>1, SentWire
  <2>3. Other("B") = "A" /\ "A" # "B"
    BY DEF Other
  <2> QED BY <1>1, <2>1, <2>2, <2>3 DEF Carries
<1>5. Handover
  <2>1. \A x \in uploads' : Own(x)' \/ \E u \in uploads : x.path = u.path /\ ~Own(u)
    BY <1>3
  <2>2. ASSUME NEW u \in uploads, Own(u) PROVE Runs(u.n)'
    <3>1. \A n : n = u.n => Runs(n)'
      BY <1>3, <2>2 DEF Runs
    <3> QED BY <3>1
  <2>3. \A m \in InBox(wire', "B") : Mine(m)' \/ (m \in InBox(wire, "B") /\ ~Mine(m))
    BY <1>2, <1>4
  <2> QED BY <2>1, <2>2, <2>3 DEF Handover
<1>6. Kin
  <2> SUFFICES ASSUME NEW x \in uploads', Own(x)'
               PROVE  \E u \in uploads : /\ Own(u) /\ Continues(x, u)
                                         /\ x.put = "whole" => u.put = "whole" \/ Alike(x.path)'
    BY DEF Kin
  <2>1. x \in uploads /\ Own(x) /\ Continues(x, x)
    BY <1>3 DEF Continues, Same
  <2> QED BY <2>1
<1>7. Told
  <2>1. \A m \in InBox(wire', "A") : Good(m)' => (m \in InBox(wire, "A") /\ Good(m)) \/ Outcome(m)'
    BY <1>2, <1>4
  <2> QED BY <2>1 DEF Told
<1> QED BY <1>1, <1>5, <1>6, <1>7, StandsTwoWay

\* A command to rename, carried out: the run's, or one that can do no harm.
LEMMA MoveLawful ==
    ASSUME RemoteTypeOK, Core, DeleteInv, TwoWay, Bidir, NEW t \in Transports, NEW m \in Message,
           m \in InBox(wire, "B"), Is(m, "move"), ~IsAnswer(m), HandleMove(t, m), cur' = cur
    PROVE  Lawful /\ Spares
<1>1. /\ fs \in [Devices -> [Paths -> Entry \cup {None}]] /\ "B" \in Devices
      /\ TransferTyped /\ RunTyped /\ RunPlan /\ Commands /\ MoveExact
      /\ Pure /\ BothHad /\ Plans /\ Stale
  BY DEF Core, Local, TransferTyped, DeleteInv, TwoWay, Versions, Flows, Devices
<1>2. m.id \in CallIds /\ "id" \in DOMAIN m /\ m.from \in Paths /\ m.to \in Paths /\ m.meta \in Meta
  BY MessageTypes
<1>3. CASE fs["B"][m.from] = None
  <2>1. fs' = fs
    BY <1>3 DEF HandleMove
  <2> QED BY <2>1, LawfulStill, SparesStill
<1>4. CASE fs["B"][m.from] # None
  <2>1. /\ fs' = [fs EXCEPT !["B"] = Moved(@, m.from, m.to, m.meta.mtimeMs)]
        /\ touched' = Follows(touched, m.from, m.to)
        /\ blamed' = Follows(blamed, m.from, m.to) \cup Late(m, {m.from, m.to}) \cup ({m.to} \cap touched')
    BY <1>4 DEF HandleMove
  <2> DEFINE tree == fs["B"]
             e == tree[m.from]
             x == [e EXCEPT !.mtimeMs = m.meta.mtimeMs]
  <2>2. e \in Entry /\ m.meta.mtimeMs \in Times
    BY <1>1, <1>2, <1>4 DEF Meta
  <2>3. x \in Entry /\ x.data = e.data /\ x.mtimeMs = m.meta.mtimeMs
    BY <2>2 DEF Entry
  <2>4. fs' = [fs EXCEPT !["B"] = [tree EXCEPT ![m.to] = x, ![m.from] = None]]
    BY <1>1, <2>1 DEF Moved
  <2>5. \A d \in Devices, p \in Paths :
           fs'[d][p] = IF d = "B" /\ p = m.from THEN None
                       ELSE IF d = "B" /\ p = m.to THEN x ELSE fs[d][p]
    <3> HIDE DEF x
    <3> QED BY <1>1, <1>2, <2>4
  <2> HIDE DEF x
  <2>6. Mine(m) => /\ cur # None /\ cur.action = "move" /\ m.from = cur.from /\ m.to = cur.path
                   /\ m.meta = walked["A"][cur.path]
    BY <1>1, RequestTells DEF Commands, Is
  <2>7. ~Mine(m) => {m.from, m.to} \subseteq blamed'
    BY <1>2, <2>1 DEF Late, Mine
  <2>8. m.to \in blamed' \/ Genuine(x)
    <3> SUFFICES ASSUME m.to \notin blamed' PROVE x.data = x.mtimeMs
      BY DEF Genuine
    <3>1. ~Excused(m.from) /\ ~Excused(m.to) /\ Mine(m)
      BY <2>1, <2>7 DEF Follows, Excused
    <3>2. /\ cur # None /\ cur.action = "move" /\ m.from = cur.from /\ m.to = cur.path
          /\ m.meta = walked["A"][cur.path]
      BY <2>6, <3>1
    <3>3. Moving /\ (Unmoved \/ Arrived) /\ walked["B"][cur.from] # None
      BY <1>1, <3>2 DEF Moving, MoveExact
    <3>4. MetaOf(fs["B"][cur.from]) = walked["B"][cur.from]
      BY <1>4, <3>1, <3>2, <3>3 DEF Unmoved, Arrived
    <3>5. /\ stored[cur.from].sum = walked["A"][cur.path].mtimeMs
          /\ walked["B"][cur.from].mtimeMs = stored[cur.from].sum
      BY <1>1, <3>1, <3>2, <3>3 DEF Plans, MovesFaithful
    <3>6. e.mtimeMs = m.meta.mtimeMs
      BY <1>1, <1>2, <1>4, <3>2, <3>4, <3>5, MetaKnown
    <3>7. e.data = e.mtimeMs
      BY <1>1, <1>2, <1>4, <3>1 DEF Pure, Genuine, Excused
    <3> QED BY <2>3, <3>6, <3>7
  <2>9. Lawful
    <3> SUFFICES ASSUME NEW d \in Devices, NEW p \in Paths, fs'[d][p] # fs[d][p]
                 PROVE  (Excused(p)' \/ Mended(d, p)) /\ (p \in blamed' \/ Genuine(fs'[d][p]))
      BY DEF Lawful
    <3>1. d = "B" /\ (p = m.from \/ p = m.to)
      BY <2>5
    <3>2. Excused(p)' \/ Mended(d, p)
      BY <2>6, <2>7, <3>1 DEF Excused, Mended
    <3>3. p = m.from => fs'[d][p] = None
      BY <2>5, <3>1
    <3>4. p # m.from => fs'[d][p] = x /\ p = m.to
      BY <2>5, <3>1
    <3>5. p = m.from => Genuine(fs'[d][p])
      BY <3>3 DEF Genuine
    <3> QED BY <2>8, <3>2, <3>4, <3>5
  <2>10. Spares
    <3> SUFFICES ASSUME NEW d \in Devices, NEW p \in Paths, fs[d][p] # None, fs'[d][p] # None,
                        fs'[d][p] # fs[d][p], ~Excused(p), ~Conceded(p)
                 PROVE  fs[d][p].data \in propagated
      BY DEF Spares
    <3>1. d = "B" /\ p = m.to
      BY <2>5
    <3>2. ~Mine(m)
      BY <1>1, <2>6, <3>1 DEF MoveExact, Moving, Conceded
    <3>3. Calm(m.to)
      BY <1>1, <3>2 DEF Stale
    <3>4. Alike(p)
      BY <3>1, <3>3 DEF Calm, Settled
    <3> QED BY <1>1, <3>4, KnownTime
  <2> QED BY <2>9, <2>10
<1> QED BY <1>3, <1>4

\* A command to delete, carried out.
LEMMA DeleteLawful ==
    ASSUME RemoteTypeOK, Core, DeleteInv, Bidir, NEW t \in Transports, NEW m \in Message,
           m \in InBox(wire, "B"), Is(m, "delete"), ~IsAnswer(m), HandleDelete(t, m), cur' = cur
    PROVE  /\ Lawful /\ Spares
           /\ Mine(m) => /\ cur # None /\ cur.action = "delete-dst" /\ m.path = cur.path
                         /\ Excused(cur.path)' \/ Alike(cur.path)'
<1>1. /\ fs \in [Devices -> [Paths -> Entry \cup {None}]] /\ "B" \in Devices /\ "A" \in Devices
      /\ TransferTyped /\ RunTyped /\ RunFits /\ RunPlan /\ Commands /\ WalksExact
  BY DEF Core, Local, TransferTyped, DeleteInv, Devices
<1>2. m.id \in CallIds /\ "id" \in DOMAIN m /\ m.path \in Paths
  BY MessageTypes
<1>3. /\ fs' = [fs EXCEPT !["B"][m.path] = None] /\ touched' = touched
      /\ blamed' = blamed \cup Late(m, {m.path})
  BY DEF HandleDelete
<1>4. \A d \in Devices, p \in Paths : fs'[d][p] = IF d = "B" /\ p = m.path THEN None ELSE fs[d][p]
  BY <1>1, <1>2, <1>3
<1>5. ~Mine(m) => m.path \in blamed'
  BY <1>2, <1>3 DEF Late, Mine
<1>6. Mine(m) => cur # None /\ cur.action = "delete-dst" /\ m.path = cur.path
  BY <1>1, RequestTells DEF Commands, Is
<1>7. ASSUME Mine(m), ~Excused(m.path)' PROVE fs'["A"][m.path] = fs'["B"][m.path]
  <2>1. ~Excused(m.path)
    BY <1>3, <1>7 DEF Excused
  <2>2. cur # None /\ cur.action = "delete-dst" /\ m.path = cur.path
    BY <1>6, <1>7
  <2>3. walked["A"][m.path] = None /\ m.path \in todo /\ phase = "visit"
    <3>1. walked["A"][m.path] = None /\ m.path \in todo /\ phase # "delete"
      BY <1>1, <2>2 DEF RunPlan
    <3>2. phase \notin {"idle", "manifest", "dstmoves", "srcmoves"}
      BY <1>1, <2>2 DEF RunFits
    <3> QED BY <1>1, <3>1, <3>2 DEF RunTyped
  <2>4. Knows("A") /\ ~Busy("A", m.path)
    BY <2>2, <2>3 DEF Knows, Busy
  <2>5. MetaOf(fs["A"][m.path]) = None
    BY <1>1, <1>2, <2>1, <2>3, <2>4 DEF WalksExact
  <2>6. fs["A"][m.path] = None
    BY <1>1, <1>2, <2>5, MetaKnown
  <2> QED BY <1>1, <1>2, <1>4, <2>6
<1>8. Lawful
  <2> SUFFICES ASSUME NEW d \in Devices, NEW p \in Paths, fs'[d][p] # fs[d][p]
               PROVE  (Excused(p)' \/ Mended(d, p)) /\ Genuine(fs'[d][p])
    BY DEF Lawful
  <2>1. p = m.path /\ fs'[d][p] = None
    BY <1>4
  <2>2. Excused(p)' \/ Mended(d, p)
    <3>1. ASSUME ~Excused(p)'
          PROVE  cur # None /\ p = cur.path /\ cur.action = "delete-dst" /\ fs'["A"][p] = fs'["B"][p]
      BY <1>5, <1>6, <1>7, <2>1, <3>1 DEF Excused
    <3> QED BY <3>1 DEF Mended, Alike
  <2> QED BY <2>1, <2>2 DEF Genuine
<1>9. Spares
  BY <1>4 DEF Spares
<1>10. ASSUME Mine(m) PROVE Excused(cur.path)' \/ Alike(cur.path)'
  <2>1. Excused(m.path)' \/ fs'["A"][m.path] = fs'["B"][m.path]
    BY <1>7, <1>10
  <2> QED BY <1>6, <1>10, <2>1 DEF Excused, Alike
<1> QED BY <1>6, <1>8, <1>9, <1>10

\* A command to upload a file, carried out.
LEMMA SendTwoWay ==
    ASSUME RemoteTypeOK, Core, Core', DeleteInv, TwoWay, Bidir, GoesOn, NEW t \in Transports, wire["B"][t] # <<>>,
           NEW m \in Message, m = Head(wire["B"][t]), Is(m, "send"), ~IsAnswer(m), HandleSend(t, m),
           UNCHANGED <<asked, heard, diverged>>, Stands, Observe
    PROVE  TwoWay'
<1>1. TransferTyped /\ wire \in Wires /\ "A" \in Devices /\ "B" \in Devices /\ TransferTyped' /\ Commands
  BY DEF Core, Local, TransferTyped, Devices, DeleteInv
<1>2. /\ m.id \in CallIds /\ "id" \in DOMAIN m /\ m.path \in Paths
      /\ m \in InBox(wire, "B")
  BY <1>1, TakenWire, MessageTypes
<1>3. UNCHANGED <<fs, blamed, touched>>
  BY DEF HandleSend
<1>4. Grows /\ Lawful /\ Spares
  BY <1>3, LawfulStill, SparesStill DEF Grows
<1>5. /\ \A x : Mine(x)' = Mine(x) /\ Good(x)' = Good(x)
      /\ \A u : Own(u)' = Own(u)
  BY DEF Mine, Good, Own
<1> DEFINE e == fs["B"][m.path]
<1>6. CASE e = None
  <2> DEFINE a == [answer |-> "send", id |-> m.id, ok |-> FALSE, sum |-> None]
  <2>1. a \in Message /\ IsAnswer(a) /\ ~a.ok
    BY <1>2, AnswerForms
  <2>2. wire' = Answered(Taken("B", t), "B", t, a) /\ uploads' = uploads
    BY <1>6 DEF HandleSend, UploadsOnly
  <2> HIDE DEF a
  <2>3. \A x \in {a} : Good(x) => Outcome(x)'
    BY <2>1 DEF Good
  <2> QED BY <1>4, <2>1, <2>2, <2>3, HandlerTwoWay
<1>7. CASE e # None
  <2>1. wire' = Taken("B", t) /\ \E n, kind, basis :
           uploads' = uploads \cup {Uploading(n, "B", <<m.id, t>>, m.path, kind, MetaOf(e), e, basis)}
    <3> DEFINE x == MetaOf(e)
    <3> HIDE DEF x, e
    <3>1. wire' = Taken("B", t) /\ \E n \in FreshNumbers, kind \in {"delta", "full"} :
           Begun(Uploading(n, "B", <<m.id, t>>, m.path, kind, x, e,
                           IF kind = "delta" THEN m.basis ELSE None))
      BY <1>7 DEF HandleSend, x, e
    <3>2. PICK n \in FreshNumbers, kind \in {"delta", "full"} :
             Begun(Uploading(n, "B", <<m.id, t>>, m.path, kind, x, e, IF kind = "delta" THEN m.basis ELSE None))
      BY <3>1
    <3>3. uploads' = uploads \cup {Uploading(n, "B", <<m.id, t>>, m.path, kind, x, e,
                                            IF kind = "delta" THEN m.basis ELSE None)}
      BY <3>2 DEF Begun
    <3>4. \E k, l, b : uploads' = uploads \cup {Uploading(k, "B", <<m.id, t>>, m.path, l, x, e, b)}
      BY <3>3
    <3> QED BY <3>1, <3>4 DEF x
  <2>2. PICK n, kind, basis :
           uploads' = uploads \cup {Uploading(n, "B", <<m.id, t>>, m.path, kind, MetaOf(e), e, basis)}
    BY <2>1
  <2> DEFINE u == Uploading(n, "B", <<m.id, t>>, m.path, kind, MetaOf(e), e, basis)
  <2>3. /\ u.put = "no" /\ u.caller = <<m.id, t>> /\ u.path = m.path /\ u.at = "B" /\ u.meta = MetaOf(e)
        /\ u.chunk.data = e.data /\ u.size = e.size /\ u.expect = e.data
    BY DEF Uploading
  <2>4. uploads' = uploads \cup {u}
    BY <2>2
  <2> HIDE DEF u
  <2>5. \A d \in Devices : InBox(wire', d) \subseteq InBox(wire, d)
    BY <1>1, <2>1, TakenWire
  <2>6. ASSUME NEW y \in {u} PROVE Own(y)' \/ Calm(y.path)'
    <3>1. CASE Mine(m)
      <4>1. y.caller[1] = asked
        BY <2>3, <3>1 DEF Mine
      <4> QED BY <4>1 DEF Own
    <3>2. CASE ~Mine(m)
      <4>1. Calm(m.path)
        BY <1>2, <3>2 DEF TwoWay, Flows, Stale
      <4>2. Calm(y.path)
        BY <2>3, <4>1
      <4>3. y.path \in Paths
        BY <1>2, <2>3
      <4> QED BY <1>4, <4>2, <4>3, StandsCalm DEF CalmStays
    <3> QED BY <3>1, <3>2
  <2>7. ASSUME NEW y \in {u} PROVE Exact(y)'
    <3>1. fs'[y.at][y.path] = e
      BY <1>3, <2>3
    <3>2. /\ fs'[y.at][y.path] # None /\ y.meta = MetaOf(fs'[y.at][y.path])
          /\ y.size = fs'[y.at][y.path].size
          /\ y.chunk.data = fs'[y.at][y.path].data /\ y.expect = y.chunk.data
      BY <1>7, <2>3, <3>1
    <3> QED BY <2>3, <3>2 DEF Exact, MetaOf
  <2>8. Handover
    <3>1. ASSUME NEW x \in uploads'
          PROVE  Own(x)' \/ Calm(x.path)' \/ \E v \in uploads : x.path = v.path /\ ~Own(v)
      <4>1. CASE x \in uploads
        BY <1>5, <4>1
      <4>2. CASE x = u
        BY <2>6, <4>2
      <4> QED BY <2>4, <4>1, <4>2
    <3>2. ASSUME NEW v \in uploads, Own(v) PROVE Runs(v.n)'
      <4>1. \A k : k = v.n => Runs(k)'
        BY <1>5, <2>4, <3>2 DEF Runs
      <4> QED BY <4>1
    <3>3. \A x \in InBox(wire', "B") : Mine(x)' \/ (x \in InBox(wire, "B") /\ ~Mine(x))
      BY <1>1, <1>5, <2>5
    <3> QED BY <3>1, <3>2, <3>3 DEF Handover
  <2>9. Kin
    <3> SUFFICES ASSUME NEW x \in uploads', Own(x)'
                 PROVE  \/ Exact(x)'
                        \/ \E v \in uploads : /\ Own(v) /\ Continues(x, v)
                                              /\ x.put = "whole" => v.put = "whole" \/ Alike(x.path)'
      BY DEF Kin
    <3>1. CASE x \in uploads
      <4>1. Own(x) /\ Continues(x, x)
        BY <1>5 DEF Continues, Same
      <4> QED BY <3>1, <4>1
    <3>2. CASE x = u
      BY <2>7, <3>2
    <3> QED BY <2>4, <3>1, <3>2
  <2>10. Told
    <3>1. \A x \in InBox(wire', "A") : Good(x)' => x \in InBox(wire, "A") /\ Good(x)
      BY <1>1, <1>5, <2>5
    <3> QED BY <3>1 DEF Told
  <2> QED BY <1>1, <1>4, <2>8, <2>9, <2>10, StandsTwoWay
<1> QED BY <1>6, <1>7

\* B handles a request.
LEMMA RequestHandledTwoWay ==
    ASSUME RemoteTypeOK, Core, Core', DeleteInv, TwoWay, Bidir, GoesOn, NEW t \in Transports, wire["B"][t] # <<>>,
           RequestHandled(t), Observe
    PROVE  TwoWay'
<1> DEFINE m == Head(wire["B"][t])
<1>1. /\ ~IsAnswer(m)
      /\ HandleManifest(t, m) \/ HandleSignature(t, m) \/ HandleSend(t, m)
            \/ HandleMove(t, m) \/ HandleDelete(t, m)
      /\ UNCHANGED <<asked, heard, settings, stored, runVars, diverged>>
  BY DEF RequestHandled
<1>2. wire \in Wires /\ "B" \in Devices
  BY DEF Core, Local, TransferTyped, Devices
<1>3. m \in Message /\ m \in InBox(wire, "B")
  BY <1>2, TakenWire
<1>4. /\ fs \in [Devices -> [Paths -> Entry \cup {None}]]
      /\ cache \in Listing \cup {None} /\ Commands /\ RunPlan
  BY DEF Core, Local, TransferTyped, RunTyped, DeleteInv
<1>5. UNCHANGED <<phase, walked, todo, cur, newStored, movedSums, stored, job, asked, heard, diverged>>
  BY <1>1 DEF runVars, settings
<1>6. Stands
  BY <1>5 DEF Stands
<1> HIDE DEF m
<1>7. CASE HandleManifest(t, m)
  <2>1. PICK listing \in {ListingOf("B")} \cup ({cache} \ {None}) :
           /\ blamed' = blamed \cup {p \in Paths : listing[p] # ListingOf("B")[p]}
           /\ wire' = Answered(Taken("B", t), "B", t, [answer |-> "manifest", id |-> m.id,
                                                       ok |-> TRUE, listing |-> listing])
    BY <1>7 DEF HandleManifest
  <2>2. ListingOf("B") \in Listing
    BY <1>2, <1>4 DEF ListingOf, Listing, MetaOf, Entry, Meta
  <2>3. listing \in Listing
    BY <1>4, <2>2
  <2>4. m.op = "manifest" /\ UNCHANGED <<fs, uploads, touched>>
    BY <1>7 DEF HandleManifest, UploadsOnly
  <2>5. m.id \in CallIds /\ "id" \in DOMAIN m
    BY <1>1, <1>3, <2>4, MessageTypes DEF Is
  <2> DEFINE a == [answer |-> "manifest", id |-> m.id, ok |-> TRUE, listing |-> listing]
  <2>6. a \in Message /\ IsAnswer(a) /\ a.id = m.id
    BY <2>3, <2>5, AnswerForms
  <2>7. Grows /\ Lawful /\ Spares
    BY <2>1, <2>4, LawfulStill, SparesStill DEF Grows
  <2>8. wire' = Answered(Taken("B", t), "B", t, a)
    BY <2>1
  <2> HIDE DEF a
  <2>9. \A x \in {a} : Good(x) => Outcome(x)'
    <3>1. Good(a) => cur = None
      BY <1>1, <1>3, <2>4, <2>5, <2>6, RequestTells DEF Good, Mine
    <3> QED BY <1>5, <3>1 DEF Outcome
  <2> QED BY <1>5, <1>6, <2>4, <2>6, <2>7, <2>8, <2>9, HandlerTwoWay
<1>8. CASE HandleSignature(t, m)
  <2> DEFINE e == fs["B"][m.path]  ok == (e # None)  basis == IF e = None THEN None ELSE e.data
  <2>1. m.op = "signature" /\ UNCHANGED <<fs, uploads, blamed, touched>>
    BY <1>8 DEF HandleSignature, UploadsOnly
  <2>2. m.id \in CallIds /\ "id" \in DOMAIN m /\ m.path \in Paths
    BY <1>1, <1>3, <2>1, MessageTypes DEF Is
  <2>3. ok \in BOOLEAN /\ basis \in Contents \cup {None}
    BY <1>2, <1>4, <2>2 DEF Entry
  <2>4. wire' = Answered(Taken("B", t), "B", t,
                      [answer |-> "signature", id |-> m.id, ok |-> ok, basis |-> basis])
    BY <1>8 DEF HandleSignature
  <2> HIDE DEF ok, basis
  <2> DEFINE a == [answer |-> "signature", id |-> m.id, ok |-> ok, basis |-> basis]
  <2>5. a \in Message /\ IsAnswer(a) /\ a.id = m.id
    BY <2>2, <2>3, AnswerForms
  <2>6. wire' = Answered(Taken("B", t), "B", t, a)
    BY <2>4
  <2> HIDE DEF a
  <2>7. \A x \in {a} : Good(x) => Outcome(x)'
    <3>1. Good(a) => cur.step = "signature" /\ cur.action = "copy-to-dst"
      BY <1>1, <1>3, <2>1, <2>2, <2>5, RequestTells DEF Good, Mine
    <3> QED BY <1>5, <3>1 DEF Outcome
  <2>8. Grows /\ Lawful /\ Spares
    BY <2>1, LawfulStill, SparesStill DEF Grows
  <2> QED BY <1>5, <1>6, <2>1, <2>5, <2>6, <2>7, <2>8, HandlerTwoWay
<1>9. CASE HandleSend(t, m)
  <2>1. Is(m, "send")
    BY <1>1, <1>9 DEF HandleSend, Is
  <2>2. m = Head(wire["B"][t])
    BY DEF m
  <2> QED BY <1>1, <1>3, <1>5, <1>6, <1>9, <2>1, <2>2, SendTwoWay
<1>10. CASE HandleMove(t, m)
  <2> DEFINE there == (fs["B"][m.from] # None)
  <2>1. Is(m, "move") /\ m.op = "move" /\ UNCHANGED uploads
    BY <1>1, <1>10 DEF HandleMove, Is, UploadsOnly
  <2>2. m.id \in CallIds /\ "id" \in DOMAIN m
    BY <1>3, <2>1, MessageTypes
  <2>3. wire' = Answered(Taken("B", t), "B", t, [answer |-> "done", id |-> m.id, ok |-> there])
    BY <1>10 DEF HandleMove, Done
  <2>4. there \in BOOLEAN
    OBVIOUS
  <2>5. Grows
    BY <1>10 DEF HandleMove, Grows, Follows
  <2>6. Lawful /\ Spares
    BY <1>1, <1>3, <1>5, <1>10, <2>1, MoveLawful
  <2> HIDE DEF there
  <2> DEFINE a == [answer |-> "done", id |-> m.id, ok |-> there]
  <2>7. a \in Message /\ IsAnswer(a) /\ a.id = m.id
    BY <2>2, <2>4, AnswerForms
  <2>8. wire' = Answered(Taken("B", t), "B", t, a)
    BY <2>3
  <2> HIDE DEF a
  <2>9. \A x \in {a} : Good(x) => Outcome(x)'
    <3>1. Good(a) => cur.action = "move"
      <4>1. Good(a) => Mine(m)
        BY <2>2, <2>7 DEF Good, Mine
      <4> QED BY <1>1, <1>3, <1>4, <2>1, <4>1 DEF Commands
    <3> QED BY <1>5, <3>1 DEF Outcome
  <2> QED BY <1>5, <1>6, <2>1, <2>5, <2>6, <2>7, <2>8, <2>9, HandlerTwoWay
<1>11. CASE HandleDelete(t, m)
  <2> DEFINE there == (fs["B"][m.path] # None)
  <2>1. Is(m, "delete") /\ m.op = "delete" /\ UNCHANGED uploads
    BY <1>1, <1>11 DEF HandleDelete, Is, UploadsOnly
  <2>2. m.id \in CallIds /\ "id" \in DOMAIN m
    BY <1>3, <2>1, MessageTypes
  <2>3. wire' = Answered(Taken("B", t), "B", t, [answer |-> "done", id |-> m.id, ok |-> there])
    BY <1>11 DEF HandleDelete, Done
  <2>4. there \in BOOLEAN
    OBVIOUS
  <2>5. Grows
    BY <1>11 DEF HandleDelete, Grows
  <2>6. /\ Lawful /\ Spares
        /\ Mine(m) => /\ cur # None /\ cur.action = "delete-dst" /\ m.path = cur.path
                      /\ Excused(cur.path)' \/ Alike(cur.path)'
    BY <1>1, <1>3, <1>5, <1>11, <2>1, DeleteLawful
  <2> HIDE DEF there
  <2> DEFINE a == [answer |-> "done", id |-> m.id, ok |-> there]
  <2>7. a \in Message /\ IsAnswer(a) /\ a.id = m.id
    BY <2>2, <2>4, AnswerForms
  <2>8. wire' = Answered(Taken("B", t), "B", t, a)
    BY <2>3
  <2> HIDE DEF a
  <2>9. \A x \in {a} : Good(x) => Outcome(x)'
    <3>1. Good(a) => Mine(m)
      BY <2>2, <2>7 DEF Good, Mine
    <3>2. Good(a) => cur.action = "delete-dst" /\ (Excused(cur.path)' \/ Alike(cur.path)')
      BY <2>6, <3>1
    <3> QED BY <1>5, <3>2 DEF Outcome, Excused, Alike
  <2> QED BY <1>5, <1>6, <2>1, <2>5, <2>6, <2>7, <2>8, <2>9, HandlerTwoWay
<1> QED BY <1>1, <1>7, <1>8, <1>9, <1>10, <1>11

\* The answer to the run's request arrives, or one that came too late is dropped.
LEMMA RequestAnsweredTwoWay ==
    ASSUME RemoteTypeOK, Core, Core', Carrying, Carrying', DeleteInv, TwoWay, Bidir, GoesOn,
           NEW t \in Transports, wire["A"][t] # <<>>, RequestAnswered(t), Observe
    PROVE  TwoWay'
<1> DEFINE m == Head(wire["A"][t])
<1>1. /\ IsAnswer(m) /\ wire' = Taken("A", t)
      /\ \/ m.id = asked /\ heard' = m /\ asked' = 0
         \/ UNCHANGED <<heard, asked>>
      /\ UNCHANGED <<fs, UploadsOnly, phase, walked, todo, cur, newStored, movedSums, stored, blamed, diverged, touched, Still>>
  BY DEF RequestAnswered
<1>2. TransferTyped /\ wire \in Wires /\ "A" \in Devices /\ "B" \in Devices /\ TransferTyped'
  BY DEF Core, Local, TransferTyped, Devices
<1>3. m \in Message /\ m \in InBox(wire, "A")
      /\ \A e \in Devices : InBox(wire', e) \subseteq InBox(wire, e)
  BY <1>1, <1>2, TakenWire
<1>4. "id" \in DOMAIN m
  <2>1. m \in TransferMessage \cup RemoteMessage /\ "answer" \in DOMAIN m
    BY <1>1, <1>3 DEF IsAnswer, Message
  <2> HIDE DEF m
  <2> QED BY <2>1, AnswerKinds
<1> HIDE DEF m
<1>5. Stands /\ Grows /\ Lawful /\ Spares /\ UNCHANGED <<fs, uploads, diverged>>
  BY <1>1, LawfulStill, SparesStill DEF Stands, Grows, Still, settings, UploadsOnly
<1>6. CASE UNCHANGED <<heard, asked>>
  <2>1. GivenUp \subseteq blamed'
    BY <1>5 DEF GivenUp
  <2> QED BY <1>3, <1>5, <1>6, <2>1, QuietTwoWay
<1>7. CASE m.id = asked /\ heard' = m /\ asked' = 0
  <2>1. asked # 0 /\ m \in Named(asked)
    BY <1>2, <1>3, <1>4, <1>7, IdTyped DEF Named
  <2>2. /\ One(wire, Named(asked))
        /\ \A u \in uploads : ~MadeFor(u, asked)
    BY <1>2, <1>3, <2>1 DEF Carrying, AskedOnce
  <2>3. ASSUME NEW u \in uploads PROVE Own(u) <=> u.caller = <<>>
    BY <2>2 DEF Own, MadeFor
  <2>4. ASSUME NEW u \in uploads PROVE Own(u)' <=> u.caller = <<>>
    BY <1>2, <1>7, OwnTyped DEF Own
  <2>5. ASSUME NEW x \in InBox(wire, "B"), Mine(x) PROVE FALSE
    <3>1. x \in Named(asked)
      BY <1>2, <2>5, IdTyped DEF Named, Mine
    <3>2. PICK r \in Transports : \E j \in 1..Len(wire["B"][r]) : x = wire["B"][r][j]
      BY <1>2, InBoxDef
    <3>3. PICK s \in Transports : \E i \in 1..Len(wire["A"][s]) : m = wire["A"][s][i]
      BY <1>2, <1>3, InBoxDef
    <3> QED BY <1>2, <2>1, <2>2, <3>1, <3>2, <3>3 DEF One
  <2>6. Handover
    <3>1. ASSUME NEW x \in uploads' PROVE Own(x)' \/ \E u \in uploads : x.path = u.path /\ ~Own(u)
      BY <1>5, <2>3, <2>4
    <3>2. ASSUME NEW u \in uploads, Own(u) PROVE Runs(u.n)'
      <4>1. u \in uploads' /\ Own(u)'
        BY <1>5, <2>3, <2>4, <3>2
      <4>2. \A n : n = u.n => Runs(n)'
        BY <4>1 DEF Runs
      <4> QED BY <4>2
    <3>3. \A x \in InBox(wire', "B") : x \in InBox(wire, "B") /\ ~Mine(x)
      BY <1>2, <1>3, <2>5
    <3> QED BY <3>1, <3>2, <3>3 DEF Handover
  <2>7. Kin
    <3> SUFFICES ASSUME NEW x \in uploads', Own(x)'
                 PROVE  \E u \in uploads : /\ Own(u) /\ Continues(x, u)
                                           /\ x.put = "whole" => u.put = "whole" \/ Alike(x.path)'
      BY DEF Kin
    <3>1. x \in uploads /\ Own(x) /\ Continues(x, x)
      BY <1>5, <2>3, <2>4 DEF Continues, Same
    <3> QED BY <3>1
  <2>8. Told
    <3>1. ASSUME NEW x \in InBox(wire', "A"), Good(x)' PROVE FALSE
      <4>1. x \in InBox(wire, "A") /\ "id" \in DOMAIN x /\ x.id = 0
        BY <1>2, <1>3, <1>7, <3>1 DEF Good, Mine
      <4> QED BY <1>2, <4>1, IdTyped
    <3>2. m.ok => Good(m)
      BY <1>1, <1>4, <1>7 DEF Good, Mine
    <3>3. \A h \in {heard'} : h # None /\ h.ok => h \in InBox(wire, "A") /\ Good(h)
      BY <1>3, <1>7, <3>2
    <3> QED BY <3>1, <3>3 DEF Told
  <2> QED BY <1>2, <1>5, <2>6, <2>7, <2>8, StandsTwoWay
<1> QED BY <1>1, <1>6, <1>7

(*** the run's own steps: what is under way ***)

\* A run that waits for nothing has nothing under way.
LEMMA FreeOwn ==
    ASSUME Core, asked = 0, NoUpload
    PROVE  /\ \A u \in uploads : ~Own(u)
           /\ \A d \in Devices : \A m \in InBox(wire, d) : ~Mine(m)
<1>1. TransferTyped
  BY DEF Core, Local
<1>2. ASSUME NEW u \in uploads PROVE ~Own(u)
  <2>1. u.caller # <<>>
    BY DEF NoUpload
  <2>2. u.caller[1] # 0
    BY <1>1, <2>1, OwnTyped
  <2> QED BY <2>1, <2>2 DEF Own
<1>3. ASSUME NEW d \in Devices, NEW m \in InBox(wire, d) PROVE ~Mine(m)
  <2>1. "id" \in DOMAIN m => m.id # 0
    BY <1>1, <1>3, IdTyped
  <2> QED BY <2>1 DEF Mine
<1> QED BY <1>2, <1>3

\* What is under way after a step of a run that was waiting for nothing.
LEMMA FreeFlows ==
    ASSUME RemoteTypeOK, Core, Core', GoesOn, Stale, CalmStays, asked = 0, NoUpload,
           \A x \in uploads' : \/ x \in uploads /\ ~Own(x)'
                               \/ Own(x)' /\ (Excused(x.path)' \/ Exact(x)'),
           \A y \in InBox(wire', "B") : Is(y, "send") \/ Is(y, "move") => y \in InBox(wire, "B") \/ Mine(y)',
           \A y \in InBox(wire', "A") : ~Mine(y)',
           heard' = None \/ ~heard'.ok
    PROVE  Flows'
<1>1. /\ \A u \in uploads : ~Own(u)
      /\ \A m \in InBox(wire, "B") : ~Mine(m)
  BY FreeOwn DEF Devices
<1>2. TransferTyped'
  BY DEF Core, Local
<1>3. Handover
  <2>1. \A x \in uploads' : Own(x)' \/ \E u \in uploads : x.path = u.path /\ ~Own(u)
    BY <1>1
  <2>2. \A u \in uploads : Own(u) => Runs(u.n)'
    BY <1>1
  <2>3. \A m \in InBox(wire', "B") :
          /\ Is(m, "send") => Mine(m)' \/ (m \in InBox(wire, "B") /\ ~Mine(m))
          /\ Is(m, "move") => Mine(m)' \/ (m \in InBox(wire, "B") /\ ~Mine(m))
    BY <1>1
  <2> QED BY <1>1, <2>1, <2>3 DEF Handover
<1>4. Stale'
  BY <1>2, <1>3, StaleKept
<1>5. UploadExact'
  BY DEF UploadExact
<1>6. OutcomesTrue'
  BY DEF OutcomesTrue, Good
<1> QED BY <1>4, <1>5, <1>6 DEF Flows

\* It asks, or cannot.
LEMMA AsksFlows ==
    ASSUME RemoteTypeOK, Core, Core', GoesOn, Stale, CalmStays, asked = 0, NoUpload, UNCHANGED uploads, NEW m,
           \A id \in CallIds : [m EXCEPT !.id = id] \in Message /\ [m EXCEPT !.id = id].id = id,
           Asks(m) \/ (heard' = Unheard /\ UNCHANGED <<asked, wire>>)
    PROVE  Flows'
<1>0. /\ wire \in Wires /\ TransferTyped /\ "A" \in Devices /\ "B" \in Devices /\ "relay" \in Transports
  BY DEF Core, Local, TransferTyped, Devices, Transports
<1>1. /\ \A u \in uploads : ~Own(u)
      /\ \A d \in Devices : \A y \in InBox(wire, d) : ~Mine(y)
  BY FreeOwn
<1>2. CASE asked' = 0 /\ heard' = Unheard /\ wire' = wire
  <2>1. \A u \in uploads' : u \in uploads /\ ~Own(u)'
    BY <1>1, <1>2 DEF Own
  <2>2. \A y \in InBox(wire', "A") : ~Mine(y)'
    BY <1>0, <1>1, <1>2 DEF Mine
  <2>3. ~heard'.ok /\ \A y \in InBox(wire', "B") : y \in InBox(wire, "B")
    BY <1>2 DEF Unheard
  <2> QED BY <2>1, <2>2, <2>3, FreeFlows
<1>3. CASE CanReach("A") /\ Asks(m)
  <2>1. PICK id \in FreshCalls : /\ asked' = id /\ heard' = None
                                 /\ wire' = Sent(wire, "A", [m EXCEPT !.id = id])
    BY <1>3 DEF Asks
  <2> DEFINE x == [m EXCEPT !.id = id]
  <2>2. /\ id \in CallIds /\ id # 0
        /\ \A u \in uploads : u.caller # <<>> => u.caller[1] # id
        /\ \A d \in Devices : \A y \in InBox(wire, d) : "id" \in DOMAIN y => y.id # id
    BY FreshCall
  <2>3. x \in Message /\ x.id = id
    BY <2>2
  <2>4. wire' = Sent(wire, "A", x)
    BY <2>1
  <2> HIDE DEF x
  <2>5. Carries(wire', wire, Other("A"), x)
    BY <1>0, <2>3, <2>4, SentWire
  <2>6. \A d \in Devices : \A y \in InBox(wire', d) : y \in InBox(wire, d) \/ (d = Other("A") /\ y = x)
    BY <2>5 DEF Carries
  <2>7. Other("A") = "B" /\ "A" # "B"
    BY DEF Other
  <2>8. Is(x, "send") \/ Is(x, "move") => "id" \in DOMAIN x
    BY <2>3, MessageTypes
  <2>9. ASSUME NEW y \in InBox(wire', "B"), Is(y, "send") \/ Is(y, "move")
        PROVE  y \in InBox(wire, "B") \/ Mine(y)'
    <3>1. y \in InBox(wire, "B") \/ y = x
      BY <1>0, <2>6
    <3>2. y = x => "id" \in DOMAIN y /\ y.id = asked'
      BY <2>1, <2>3, <2>8, <2>9
    <3> QED BY <3>1, <3>2 DEF Mine
  <2>10. \A y \in InBox(wire', "A") : ~Mine(y)'
    BY <1>0, <2>1, <2>2, <2>6, <2>7 DEF Mine
  <2>11. \A u \in uploads' : u \in uploads /\ ~Own(u)'
    BY <2>1, <2>2 DEF Own, NoUpload
  <2> QED BY <2>1, <2>9, <2>10, <2>11, FreeFlows
<1>4. CASE ~CanReach("A") /\ Asks(m)
  BY <1>2, <1>4 DEF Asks
<1> QED BY <1>2, <1>3, <1>4

\* It uploads, or cannot, or does neither.
LEMMA BeginsFlows ==
    ASSUME RemoteTypeOK, Core, Core', GoesOn, Stale, CalmStays, asked = 0, NoUpload, UNCHANGED <<asked, wire>>,
           heard' = None \/ ~heard'.ok,
           \/ uploads' = uploads
           \/ \E u : /\ u.caller = <<>> /\ uploads' = uploads \cup {u}
                     /\ \A x \in {u} : Excused(x.path)' \/ Exact(x)'
    PROVE  Flows'
<1>1. /\ \A u \in uploads : ~Own(u)
      /\ \A y \in InBox(wire, "A") : ~Mine(y)
  BY FreeOwn DEF Devices
<1>2. \A u \in uploads : ~Own(u)'
  BY <1>1 DEF Own
<1>3. \A x \in uploads' : \/ x \in uploads /\ ~Own(x)'
                          \/ Own(x)' /\ (Excused(x.path)' \/ Exact(x)')
  <2>1. CASE uploads' = uploads
    BY <1>2, <2>1
  <2>2. ASSUME NEW u, u.caller = <<>>, uploads' = uploads \cup {u},
               \A x \in {u} : Excused(x.path)' \/ Exact(x)'
        PROVE  \A x \in uploads' : \/ x \in uploads /\ ~Own(x)'
                                   \/ Own(x)' /\ (Excused(x.path)' \/ Exact(x)')
    <3>1. \A x \in {u} : Own(x)'
      BY <2>2 DEF Own
    <3> QED BY <1>2, <2>2, <3>1
  <2> QED BY <2>1, <2>2
<1>4. \A y \in InBox(wire', "A") : ~Mine(y)'
  BY <1>1 DEF Mine
<1>5. \A y \in InBox(wire', "B") : y \in InBox(wire, "B")
  OBVIOUS
<1> QED BY <1>3, <1>4, <1>5, FreeFlows

(*** the run's own steps: what is known ***)

\* A step that writes nothing.
LEMMA NothingWritten ==
    ASSUME UNCHANGED fs, Grows, Versions, VersionsSurvive, Observe
    PROVE  /\ Versions' /\ VersionsSurvive' /\ propagated \subseteq propagated'
           /\ \A p : Excused(p) => Excused(p)'
<1>1. BothHad' /\ propagated \subseteq propagated'
  BY ObservedBoth
<1>2. VersionsSurvive'
  BY SparesStill, SparesSurvive
<1>3. Pure'
  BY DEF Versions, Pure, Grows, Genuine
<1> QED BY <1>1, <1>2, <1>3 DEF Versions, Excused, Grows

\* Records of the run before stay as true as they were.
LEMMA RecordsKept ==
    ASSUME RecordsFaithful, Grows, propagated \subseteq propagated', UNCHANGED stored,
           \A p \in Paths : newStored'[p] \in {None, newStored[p]} \/ Excused(p)' \/ Faithful(newStored[p])'
    PROVE  RecordsFaithful'
<1>1. ASSUME NEW p \in Paths, stored[p] # None, p \notin blamed' PROVE Faithful(stored[p])'
  <2>1. Faithful(stored[p])
    BY <1>1 DEF RecordsFaithful, Grows
  <2> QED BY <2>1 DEF Faithful, Both
<1>2. ASSUME NEW p \in Paths, newStored'[p] # None, ~Excused(p)' PROVE Faithful(newStored[p])'
  <2>1. CASE newStored'[p] = newStored[p]
    <3>1. Faithful(newStored[p])
      BY <1>2, <2>1 DEF RecordsFaithful, Grows, Excused
    <3> QED BY <2>1, <3>1 DEF Faithful, Both
  <2> QED BY <1>2, <2>1
<1> QED BY <1>1, <1>2 DEF RecordsFaithful

\* What is at rest stays at rest, if the step records it as it is.
LEMMA CalmKept ==
    ASSUME UNCHANGED <<fs, stored>>, Grows,
           \A p \in Paths : Settled(p) /\ ~Excused(p)' => Matches(newStored[p], p)' /\ ~Working(p)'
    PROVE  CalmStays
<1> SUFFICES ASSUME NEW p \in Paths, Calm(p), ~Excused(p)' PROVE Settled(p)'
  BY DEF CalmStays, Calm
<1>1. Settled(p)
  BY DEF Calm, Excused, Grows
<1>2. Alike(p)' /\ Matches(stored[p], p)'
  BY <1>1 DEF Settled, Alike, Matches, MetaOf
<1> QED BY <1>1, <1>2 DEF Settled

(*** a run ends badly ***)

\* A run that is over plans nothing.
LEMMA OverPlans ==
    ASSUME RunOver, UNCHANGED <<fs, stored>>, Grows, RecordsFaithful, propagated \subseteq propagated'
    PROVE  Plans' /\ CalmStays
<1>1. phase' = "idle" /\ cur' = None /\ \A p \in Paths : newStored'[p] = None /\ movedSums'[p] = None
  BY DEF RunOver
<1>2. RecordsFaithful'
  BY <1>1, RecordsKept
<1>3. MovesFaithful' /\ PlanFits' /\ CopyFits' /\ Converging'
  BY <1>1 DEF MovesFaithful, Moving, PlanFits, CopyFits, Converging
<1>4. CalmStays
  BY <1>1, CalmKept DEF Matches, Working
<1> QED BY <1>2, <1>3, <1>4 DEF Plans

\* An exception ends the run.
LEMMA RunFailsTwoWay ==
    ASSUME RemoteTypeOK, Core, Core', TwoWay, Bidir, GoesOn, RunFails, asked = 0, NoUpload, Observe
    PROVE  TwoWay'
<1>1. /\ RunOver /\ UNCHANGED <<fs, stored, diverged, asked, uploads, wire>>
      /\ Grows /\ heard' = None
  BY DEF RunFails, RunOver, Still, UploadsOnly, Grows
<1>2. Versions /\ Plans /\ Flows /\ VersionsSurvive /\ CompletedRunConverges
  BY DEF TwoWay
<1>3. Versions' /\ VersionsSurvive' /\ propagated \subseteq propagated'
  BY <1>1, <1>2, NothingWritten
<1>4. Plans' /\ CalmStays
  BY <1>1, <1>2, <1>3, OverPlans DEF Plans
<1>5. Flows'
  BY <1>1, <1>2, <1>4, BeginsFlows DEF Flows
<1>6. CompletedRunConverges'
  BY <1>1, <1>2 DEF CompletedRunConverges
<1> QED BY <1>3, <1>4, <1>5, <1>6 DEF TwoWay

\* The source's agent dies, and its run with it: what it had under way can do no more harm.
LEMMA SourceDiesTwoWay ==
    ASSUME RemoteTypeOK, Core, Core', DeleteInv, TwoWay, Bidir, GoesOn, AgentDies("A"), Observe
    PROVE  TwoWay'
<1>0. /\ TransferTyped /\ LinkTyped /\ wire \in Wires /\ "A" \in Devices /\ "B" \in Devices
      /\ TransferTyped' /\ CallersFit /\ Commands
  BY DEF Core, Local, TransferTyped, Devices, DeleteInv
<1>1. /\ RunOver /\ UNCHANGED <<fs, stored, touched, diverged>> /\ asked' = 0 /\ heard' = None
      /\ blamed' = blamed \cup acted \cup Pursued /\ uploads' = {u \in uploads : u.at # "A"}
  BY DEF AgentDies, RunOver
<1>2. wire' = wire \/ \E ts : wire' = Lost(ts)
  BY <1>0, LinkMoves DEF AgentDies
<1>3. \A d \in Devices : InBox(wire', d) \subseteq InBox(wire, d)
  BY <1>0, <1>2, WireAfter
<1>4. Grows
  BY <1>1 DEF Grows
<1>5. Versions /\ Plans /\ Flows /\ VersionsSurvive /\ CompletedRunConverges
  BY DEF TwoWay
<1>6. Versions' /\ VersionsSurvive' /\ propagated \subseteq propagated'
  BY <1>1, <1>4, <1>5, NothingWritten
<1>7. Plans' /\ CalmStays
  BY <1>1, <1>4, <1>5, <1>6, OverPlans DEF Plans
<1>8. cur # None => \A p : p = cur.path => Calm(p)'
  BY <1>1 DEF Pursued, Calm, Excused
<1>9. ASSUME NEW u \in uploads' PROVE ~Own(u)' /\ u \in uploads
  <2>1. u \in uploads /\ u.at # "A"
    BY <1>1
  <2>2. u.caller # <<>>
    BY <1>0, <2>1 DEF CallersFit
  <2>3. u.caller[1] # 0
    BY <1>0, <2>1, <2>2, OwnTyped
  <2> QED BY <1>1, <2>1, <2>2, <2>3 DEF Own
<1>10. \A u \in uploads : Own(u) => Calm(u.path)'
  <2>1. ASSUME NEW u \in uploads, Own(u) PROVE Calm(u.path)'
    <3>1. cur # None /\ u.path = cur.path
      BY <1>0, <2>1, OwnCopies DEF Commands
    <3> QED BY <1>8, <3>1
  <2> QED BY <2>1
<1>11. ASSUME NEW m \in InBox(wire, "B"), Mine(m)
       PROVE  /\ Is(m, "send") => Calm(m.path)'
              /\ Is(m, "move") => Calm(m.to)'
  <2>1. Is(m, "send") \/ Is(m, "move") => cur # None
    BY <1>11, RequestTells DEF Is
  <2>2. /\ Is(m, "send") => m.path = cur.path
        /\ Is(m, "move") => m.to = cur.path
    BY <1>0, <1>11 DEF Commands, Is
  <2> QED BY <1>8, <2>1, <2>2
<1>12. Handover
  <2>1. ASSUME NEW x \in uploads'
        PROVE  Calm(x.path)' \/ \E u \in uploads : x.path = u.path /\ ~Own(u)
    BY <1>9, <1>10
  <2>2. ASSUME NEW m \in InBox(wire', "B")
        PROVE  /\ Is(m, "send") => Calm(m.path)' \/ (m \in InBox(wire, "B") /\ ~Mine(m))
               /\ Is(m, "move") => Calm(m.to)' \/ (m \in InBox(wire, "B") /\ ~Mine(m))
    BY <1>0, <1>3, <1>11
  <2> QED BY <1>10, <2>1, <2>2 DEF Handover
<1>13. Stale'
  BY <1>0, <1>5, <1>7, <1>12, StaleKept DEF Flows
<1>14. UploadExact'
  BY <1>9 DEF UploadExact
<1>15. OutcomesTrue'
  <2>1. ASSUME NEW m \in InBox(wire', "A"), Good(m)' PROVE FALSE
    <3>1. m \in InBox(wire, "A") /\ "id" \in DOMAIN m /\ m.id = 0
      BY <1>0, <1>1, <1>3, <2>1 DEF Good, Mine
    <3> QED BY <1>0, <3>1, IdTyped
  <2> QED BY <1>1, <2>1 DEF OutcomesTrue
<1>16. CompletedRunConverges'
  BY <1>1, <1>5 DEF CompletedRunConverges
<1> QED BY <1>6, <1>7, <1>13, <1>14, <1>15, <1>16 DEF TwoWay, Flows

(*** a run starts, and ends well ***)

\* A cancelled run ends between two paths.
LEMMA AbortTwoWay ==
    ASSUME RemoteTypeOK, Core, Core', TwoWay, Bidir, GoesOn, Abort, Observe
    PROVE  TwoWay'
<1>1. cur = None /\ phase # "manifest" /\ RunFails
  BY DEF Abort
<1>2. asked = 0 /\ NoUpload
  BY <1>1, Waiting DEF Core, Local
<1> QED BY <1>1, <1>2, RunFailsTwoWay

\* Where the run is at work on nothing, and its records are as they were.
LEMMA FreePlans ==
    ASSUME Observe, UNCHANGED <<fs, stored, newStored, movedSums>>, Grows, Versions, Plans, cur' = None,
           phase' \in {"srcmoves", "dstmoves", "visit"} \/ (\A p \in Paths : movedSums[p] = None),
           \A p \in Paths : movedSums[p] # None =>
               walked'["A"][p] = walked["A"][p] /\ walked'["B"][p] = walked["B"][p],
           phase' # "visit"
    PROVE  Plans' /\ CalmStays
<1>1. propagated \subseteq propagated' /\ \A p : Excused(p) => Excused(p)'
  BY ObservedBoth DEF Grows, Excused
<1>2. RecordsFaithful'
  BY <1>1, RecordsKept DEF Plans
<1>3. MovesFaithful'
  <2>1. ASSUME NEW p \in Paths, movedSums[p] # None
        PROVE  \/ Excused(p)'
               \/ /\ walked'["A"][p] # None /\ walked'["A"][p] = walked'["B"][p]
                  /\ movedSums[p] = walked'["A"][p].mtimeMs
    BY <1>1, <2>1 DEF Plans, MovesFaithful
  <2> QED BY <2>1 DEF MovesFaithful, Moving
<1>4. PlanFits' /\ CopyFits' /\ Converging'
  BY DEF PlanFits, CopyFits, Converging
<1>5. CalmStays
  <2>1. ASSUME NEW p \in Paths, Settled(p) PROVE Matches(newStored[p], p)' /\ ~Working(p)'
    BY <2>1 DEF Settled, Matches, MetaOf, Working
  <2> QED BY <2>1, CalmKept
<1> QED BY <1>2, <1>3, <1>4, <1>5 DEF Plans

\* The run hears what the target has.
LEMMA HearListingTwoWay ==
    ASSUME RemoteTypeOK, Core, Core', DeleteInv, TwoWay, Bidir, GoesOn, HearListing, Observe
    PROVE  TwoWay'
<1>0. RunFits /\ CallersFit
  BY RunParts
<1>1. asked = 0 /\ NoUpload /\ cur = None /\ phase = "manifest" /\ heard # None
  BY <1>0, Waiting DEF RunFits, HearListing
<1>2. CASE ~heard.ok \/ aborted
  BY <1>1, <1>2, RunFailsTwoWay DEF HearListing
<1>3. CASE ~(~heard.ok \/ aborted)
  <2>1. /\ phase' = "srcmoves" /\ heard' = None /\ cur' = None
        /\ UNCHANGED <<fs, stored, newStored, movedSums, uploads, asked, wire, blamed, touched, diverged>>
    BY <1>1, <1>3 DEF HearListing, UploadsOnly
  <2>2. Versions /\ Plans /\ Flows /\ VersionsSurvive /\ CompletedRunConverges /\ Grows
    BY <2>1 DEF TwoWay, Grows
  <2>3. \A p \in Paths : movedSums[p] = None
    BY <1>1, <2>2 DEF Plans, MovesFaithful
  <2>4. Plans' /\ CalmStays
    BY <2>1, <2>2, <2>3, FreePlans
  <2>5. Versions' /\ VersionsSurvive'
    BY <2>1, <2>2, NothingWritten
  <2>6. Flows'
    BY <1>1, <2>1, <2>2, <2>4, BeginsFlows DEF Flows
  <2> QED BY <2>1, <2>2, <2>4, <2>5, <2>6 DEF TwoWay, CompletedRunConverges
<1> QED BY <1>2, <1>3

\* What a request leaves on the way.
LEMMA AsksOne ==
    ASSUME RemoteTypeOK, Core, NEW m, Asks(m), \A id \in CallIds : [m EXCEPT !.id = id] \in Message
    PROVE  /\ heard' = None \/ heard' = Unheard
           /\ \A d \in Devices : \A y \in InBox(wire', d) :
                 y \in InBox(wire, d) \/ \E id \in CallIds : y = [m EXCEPT !.id = id]
<1>0. /\ wire \in Wires /\ "A" \in Devices /\ "relay" \in Transports
  BY DEF Core, Local, TransferTyped, Devices, Transports
<1>1. CASE CanReach("A")
  <2>1. PICK id \in FreshCalls : /\ asked' = id /\ heard' = None
                                 /\ wire' = Sent(wire, "A", [m EXCEPT !.id = id])
    BY <1>1 DEF Asks
  <2>2. id \in CallIds
    BY FreshCall DEF Core
  <2> DEFINE x == [m EXCEPT !.id = id]
  <2>3. wire' = Sent(wire, "A", x) /\ x \in Message
    BY <2>1, <2>2
  <2>4. x = [m EXCEPT !.id = id]
    OBVIOUS
  <2> HIDE DEF x
  <2>5. Carries(wire', wire, Other("A"), x)
    BY <1>0, <2>3, SentWire
  <2>6. \A d \in Devices : \A y \in InBox(wire', d) : y \in InBox(wire, d) \/ y = x
    BY <2>5 DEF Carries
  <2> QED BY <2>1, <2>2, <2>4, <2>6
<1>2. CASE ~CanReach("A")
  BY <1>2 DEF Asks
<1> QED BY <1>1, <1>2

\* Nothing is left of an earlier run: nothing on its way can do harm.
LEMMA QuietStale ==
    ASSUME Quiet, Core, Core', UNCHANGED <<uploads, sessions>>, NEW m, m.op = "manifest",
           \A id \in CallIds : [m EXCEPT !.id = id] \in Message /\ [m EXCEPT !.id = id].op = "manifest"
                               /\ ~IsAnswer([m EXCEPT !.id = id]),
           \A d \in Devices : \A y \in InBox(wire', d) :
               y \in InBox(wire, d) \/ \E id \in CallIds : y = [m EXCEPT !.id = id],
           heard' = None \/ heard' = Unheard
    PROVE  Flows'
<1>1. uploads' = {} /\ sessions' = {} /\ OnWire = {}
  BY DEF Quiet
<1>2. \A d \in Devices : InBox(wire, d) = {}
  BY <1>1 DEF OnWire, InBox
<1>3. ASSUME NEW d \in Devices, NEW y \in InBox(wire', d) PROVE ~IsAnswer(y) /\ y.op = "manifest"
  <2>1. PICK id \in CallIds : y = [m EXCEPT !.id = id]
    BY <1>2
  <2> DEFINE x == [m EXCEPT !.id = id]
  <2>2. ~IsAnswer(x) /\ x.op = "manifest"
    OBVIOUS
  <2>3. y = x
    BY <2>1
  <2> HIDE DEF x
  <2> QED BY <2>2, <2>3
<1>4. "A" \in Devices /\ "B" \in Devices
  BY DEF Devices
<1>5. ASSUME NEW n \in Numbers, NEW p \in Paths, MayPut(n, p)' PROVE FALSE
  BY <1>1, <1>3, <1>5 DEF MayPut, Is
<1>6. Stale'
  BY <1>1, <1>3, <1>4, <1>5 DEF Stale, Is
<1>7. OutcomesTrue'
  BY <1>3, <1>4 DEF OutcomesTrue, Good, Unheard
<1> QED BY <1>1, <1>6, <1>7 DEF Flows, UploadExact

\* A run starts, and asks for the listing; what it forgets was of a run long over.
LEMMA StartRunTwoWay ==
    ASSUME RemoteTypeOK, Core, Core', DeleteInv, TwoWay, Bidir, GoesOn, StartRun, Observe
    PROVE  TwoWay'
<1> DEFINE m == [op |-> "manifest", id |-> 0]
<1>1. /\ phase = "idle" /\ phase' = "manifest" /\ Asks(m)
      /\ touched' = IF Quiet THEN {} ELSE touched
      /\ UNCHANGED <<cur, newStored, movedSums, fs, uploads, stored, blamed, diverged, sessions>>
  BY DEF StartRun, UploadsOnly
<1>2. /\ RunPlan /\ RunFits /\ cur = None /\ asked = 0 /\ NoUpload
      /\ Versions /\ Plans /\ Flows /\ VersionsSurvive /\ CompletedRunConverges
  BY <1>1, RunParts, Waiting DEF RunFits, TwoWay
<1>3. \A p \in Paths : newStored[p] = None /\ movedSums[p] = None
  BY <1>1, <1>2 DEF RunPlan, Plans, MovesFaithful
<1>4. ASSUME NEW id \in CallIds
      PROVE  LET x == [m EXCEPT !.id = id]
             IN  x \in Message /\ x.id = id /\ ~IsAnswer(x) /\ x.op = "manifest"
  <2>1. [m EXCEPT !.id = id] = [op |-> "manifest", id |-> id]
    OBVIOUS
  <2> QED BY <2>1 DEF Message, RemoteMessage, IsAnswer
<1>5. m.op = "manifest"
  OBVIOUS
<1> HIDE DEF m
<1>6. /\ heard' = None \/ heard' = Unheard
      /\ \A d \in Devices : \A y \in InBox(wire', d) :
            y \in InBox(wire, d) \/ \E id \in CallIds : y = [m EXCEPT !.id = id]
  BY <1>1, <1>4, AsksOne
<1>7. CompletedRunConverges'
  BY <1>1, <1>2 DEF CompletedRunConverges
<1>8. CASE ~Quiet
  <2>1. Grows
    BY <1>1, <1>8 DEF Grows
  <2>2. Plans' /\ CalmStays
    BY <1>1, <1>2, <1>3, <2>1, FreePlans
  <2>3. Versions' /\ VersionsSurvive'
    BY <1>1, <1>2, <2>1, NothingWritten
  <2>4. \A id \in CallIds : [m EXCEPT !.id = id] \in Message /\ [m EXCEPT !.id = id].id = id
    BY <1>4
  <2>5. Flows'
    BY <1>1, <1>2, <2>2, <2>4, AsksFlows DEF Flows
  <2> QED BY <1>7, <2>2, <2>3, <2>5 DEF TwoWay
<1>9. CASE Quiet
  <2>1. BothHad' /\ propagated \subseteq propagated'
    BY ObservedBoth
  <2>2. VersionsSurvive'
    BY <1>1, <1>2, SparesStill, SparesSurvive
  <2>3. Pure'
    BY <1>1, <1>2 DEF Versions, Pure, Genuine
  <2>4. RecordsFaithful'
    <3>1. ASSUME NEW p \in Paths, stored[p] # None, p \notin blamed PROVE Faithful(stored[p])'
      <4>1. Faithful(stored[p])
        BY <1>2, <3>1 DEF Plans, RecordsFaithful
      <4> QED BY <1>1, <2>1, <4>1 DEF Faithful, Both
    <3> QED BY <1>1, <1>3, <3>1 DEF RecordsFaithful
  <2>5. MovesFaithful' /\ PlanFits' /\ CopyFits' /\ Converging'
    BY <1>1, <1>2, <1>3 DEF MovesFaithful, Moving, PlanFits, CopyFits, Converging
  <2>6. \A id \in CallIds : [m EXCEPT !.id = id] \in Message /\ [m EXCEPT !.id = id].op = "manifest"
                            /\ ~IsAnswer([m EXCEPT !.id = id])
    BY <1>4
  <2>7. Flows'
    BY <1>1, <1>5, <1>6, <1>9, <2>6, QuietStale
  <2> QED BY <1>7, <2>1, <2>2, <2>3, <2>4, <2>5, <2>7 DEF TwoWay, Versions, Plans
<1> QED BY <1>8, <1>9

\* A run that completes saves its records, and leaves the devices alike.
LEMMA FinishRunTwoWay ==
    ASSUME RemoteTypeOK, Core, Core', DeleteInv, TwoWay, Bidir, GoesOn, FinishRun, Observe
    PROVE  TwoWay'
<1>0. RunFits /\ CallersFit /\ TransferTyped /\ "A" \in Devices /\ "B" \in Devices
  BY RunParts DEF Devices
<1>1. /\ phase = "visit" /\ todo = {} /\ cur = None /\ stored' = newStored /\ RunOver
      /\ diverged' = {p \in Paths \ (touched \cup blamed) : ~Alike(p)}
      /\ blamed' = {p \in blamed \cup touched : ~TrueOf(newStored[p], p)}
      /\ UNCHANGED <<fs, uploads, asked, wire, touched>>
  BY DEF FinishRun, UploadsOnly, Bidir
<1>2. asked = 0 /\ NoUpload
  BY <1>0, <1>1, Waiting
<1>3. Versions /\ Plans /\ Flows /\ VersionsSurvive /\ CompletedRunConverges
  BY DEF TwoWay
<1>4. /\ phase' = "idle" /\ cur' = None /\ heard' = None
      /\ \A p \in Paths : newStored'[p] = None /\ movedSums'[p] = None
  BY <1>1 DEF RunOver
<1>5. CompletedRunConverges'
  BY <1>1, <1>3 DEF CompletedRunConverges, Plans, Converging, Excused
<1>6. BothHad' /\ propagated \subseteq propagated'
  BY ObservedBoth
<1>7. VersionsSurvive'
  BY <1>1, <1>3, SparesStill, SparesSurvive
<1>8. \A p \in Paths : p \notin blamed' => ~Excused(p) \/ TrueOf(newStored[p], p)
  BY <1>1 DEF Excused
<1>9. Pure'
  <2>1. ASSUME NEW d \in Devices, NEW p \in Paths, p \notin blamed' PROVE Genuine(fs[d][p])
    <3>1. CASE ~Excused(p)
      BY <1>3, <3>1 DEF Versions, Pure, Excused
    <3>2. CASE TrueOf(newStored[p], p)
      BY <3>2 DEF TrueOf, Alike, Devices
    <3> QED BY <1>8, <2>1, <3>1, <3>2
  <2> QED BY <1>1, <2>1 DEF Pure, Genuine
<1>10. RecordsFaithful'
  <2>1. ASSUME NEW p \in Paths, newStored[p] # None, p \notin blamed' PROVE Faithful(stored[p])'
    <3>1. CASE ~Excused(p)
      <4>1. Faithful(newStored[p])
        BY <1>3, <2>1, <3>1 DEF Plans, RecordsFaithful
      <4> QED BY <1>1, <1>6, <4>1 DEF Faithful, Both
    <3>2. CASE TrueOf(newStored[p], p)
      <4> DEFINE r == newStored[p]
                 e == fs["A"][p]
      <4>1. /\ e = fs["B"][p] /\ r.src = MetaOf(e) /\ r.dst = MetaOf(e)
            /\ r.sum = None \/ e = None \/ r.sum = e.data
            /\ e # None => e.data = e.mtimeMs
        BY <2>1, <3>2 DEF TrueOf, Alike, Genuine
      <4>2. e # None => e.mtimeMs \in propagated' /\ MetaOf(e).mtimeMs = e.mtimeMs
        BY <1>0, <1>1, <1>6, <4>1, MetaKnown DEF BothHad
      <4>3. MetaOf(e) = None <=> e = None
        BY <1>0, MetaKnown
      <4> HIDE DEF r, e
      <4>4. /\ r.src # None => r.src.mtimeMs \in propagated'
            /\ r.dst # None => r.dst.mtimeMs \in propagated'
            /\ Both(r) => r.src = r.dst /\ r.sum \in {None, r.src.mtimeMs}
        BY <4>1, <4>2, <4>3 DEF Both
      <4> QED BY <1>1, <4>4 DEF Faithful, Both, r
    <3> QED BY <1>8, <2>1, <3>1, <3>2
  <2> QED BY <1>1, <1>4, <2>1 DEF RecordsFaithful
<1>11. MovesFaithful' /\ PlanFits' /\ CopyFits' /\ Converging'
  BY <1>4 DEF MovesFaithful, Moving, PlanFits, CopyFits, Converging
<1>12. CalmStays
  <2> SUFFICES ASSUME NEW p \in Paths, Calm(p), ~Excused(p)' PROVE Settled(p)'
    BY DEF CalmStays, Calm
  <2>1. Alike(p) /\ Matches(newStored[p], p)
    <3>1. CASE ~Excused(p)
      BY <3>1 DEF Calm, Settled
    <3>2. CASE TrueOf(newStored[p], p)
      BY <3>2 DEF TrueOf, Matches
    <3> QED BY <1>8, <3>1, <3>2 DEF Excused
  <2>2. Alike(p)' /\ Matches(stored[p], p)' /\ Matches(newStored[p], p)' /\ ~Working(p)'
    BY <1>1, <1>4, <2>1 DEF Alike, Matches, MetaOf, Working
  <2> QED BY <2>2 DEF Settled
<1>13. Flows'
  BY <1>1, <1>2, <1>3, <1>4, <1>12, BeginsFlows DEF Flows
<1> QED BY <1>5, <1>6, <1>7, <1>9, <1>10, <1>11, <1>13 DEF TwoWay, Versions, Plans

(*** the renames ***)

\* Between two visits, the run knows both devices at the paths that are not excused.
LEMMA AllKnown ==
    ASSUME WalksExact, cur = None, phase \in {"srcmoves", "dstmoves"}
    PROVE  \A d \in Devices, p \in Paths : Excused(p) \/ walked[d][p] = MetaOf(fs[d][p])
BY DEF WalksExact, Knows, Busy

\* A record both sides of which are known says their time, and its checksum is that.
LEMMA SumSays ==
    ASSUME RecordsFaithful, NEW side \in {"src", "dst"}, NEW p \in Missing(side), ~Excused(p)
    PROVE  /\ stored[p] # None /\ stored[p].sum # None
           /\ stored[p].sum = Mirror(side)[p].mtimeMs
<1>1. /\ p \in Paths /\ Mirror(side)[p] # None /\ Both(stored[p]) /\ stored[p].sum # None
      /\ ~fileChanged(Mirror(side)[p], stored[p], Across(side))
  BY DEF Missing, Both
<1>2. Faithful(stored[p])
  BY <1>1 DEF RecordsFaithful, Both, Excused
<1>3. stored[p].src = stored[p].dst /\ stored[p].sum = stored[p].src.mtimeMs
  BY <1>1, <1>2 DEF Faithful
<1>4. stored[p][Across(side)] = Mirror(side)[p]
  BY <1>1 DEF fileChanged, Both
<1>5. stored[p][Across(side)] \in {stored[p].src, stored[p].dst}
  BY DEF Across
<1> QED BY <1>1, <1>3, <1>4, <1>5 DEF Both

\* A file found on one device alone is not at rest.
LEMMA OneSided ==
    ASSUME TransferTyped, NEW p \in Paths, ~Excused(p), (walked["A"][p] = None) # (walked["B"][p] = None),
           \A d \in Devices : walked[d][p] = MetaOf(fs[d][p])
    PROVE  ~Alike(p)
<1>1. "A" \in Devices /\ "B" \in Devices
  BY DEF Devices
<1>2. (fs["A"][p] = None) # (fs["B"][p] = None)
  BY <1>1, MetaKnown
<1> QED BY <1>2 DEF Alike

\* A rename at the source is replayed at the target.
LEMMA SrcMovesTwoWay ==
    ASSUME RemoteTypeOK, Core, Core', DeleteInv, TwoWay, Bidir, GoesOn, SrcMoves, Observe
    PROVE  TwoWay'
<1>0. /\ RunPlan /\ RunFits /\ CallersFit /\ WalksExact /\ TransferTyped
      /\ RunTyped /\ "A" \in Devices /\ "B" \in Devices
      /\ Versions /\ Plans /\ Flows /\ VersionsSurvive /\ CompletedRunConverges
  BY RunParts DEF Devices, TwoWay
<1>1. asked = 0 /\ heard = None /\ NoUpload /\ cur = None /\ phase = "srcmoves"
  BY <1>0, Waiting DEF SrcMoves
<1>2. CASE aborted \/ \E q \in Added("src") : fs["A"][q] = None
  BY <1>1, <1>2, RunFailsTwoWay DEF SrcMoves
<1>3. CASE ~(aborted \/ \E q \in Added("src") : fs["A"][q] = None)
  <2>1. /\ UNCHANGED <<walked, newStored, movedSums, fs, uploads, stored, blamed, touched, diverged>>
        /\ Grows
    BY <1>3 DEF SrcMoves, UploadsOnly, Grows
  <2>2. Versions' /\ VersionsSurvive' /\ propagated \subseteq propagated' /\ CompletedRunConverges'
    BY <1>0, <2>1, NothingWritten DEF CompletedRunConverges
  <2>3. CASE Renamed("src") = {}
    <3>1. phase' = "dstmoves" /\ UNCHANGED <<cur, asked, heard, wire>>
      BY <1>3, <2>3 DEF SrcMoves, Bidir
    <3>2. Plans' /\ CalmStays
      BY <1>0, <1>1, <2>1, <3>1, FreePlans
    <3>3. Flows'
      BY <1>0, <1>1, <2>1, <3>1, <3>2, BeginsFlows DEF Flows
    <3> QED BY <2>2, <3>2, <3>3 DEF TwoWay
  <2>4. CASE Renamed("src") # {}
    <3>1. PICK m \in Renamed("src") :
             /\ cur' = [path |-> m[2], from |-> m[1], action |-> "move", step |-> "transfer"]
             /\ Asks([op |-> "move", id |-> 0, from |-> m[1], to |-> m[2], meta |-> walked["A"][m[2]]])
             /\ UNCHANGED <<phase, todo>>
      BY <1>3, <2>4 DEF SrcMoves
    <3>2. /\ m[1] \in Missing("src") /\ m[2] \in Added("src")
          /\ stored[m[1]].sum = fs["A"][m[2]].data
      BY DEF Renamed, SumOf
    <3>3. /\ m[1] \in Paths /\ m[2] \in Paths
          /\ walked["A"][m[1]] = None /\ walked["B"][m[1]] # None
          /\ walked["A"][m[2]] # None /\ walked["B"][m[2]] = None
      BY <3>2 DEF Missing, Added, Changed, Mirror
    <3>4. \A d \in Devices, p \in Paths : Excused(p) \/ walked[d][p] = MetaOf(fs[d][p])
      BY <1>0, <1>1, AllKnown
    <3>5. cur'.path = m[2] /\ cur'.from = m[1] /\ cur'.action = "move"
      BY <3>1
    <3> DEFINE y == [op |-> "move", id |-> 0, from |-> m[1], to |-> m[2], meta |-> walked["A"][m[2]]]
    <3>6. \A id \in CallIds : [y EXCEPT !.id = id] \in Message /\ [y EXCEPT !.id = id].id = id
      <4>1. ASSUME NEW id \in CallIds
            PROVE  [y EXCEPT !.id = id] \in [op : {"move"}, id : CallIds, from : Paths, to : Paths, meta : Meta]
                   /\ [y EXCEPT !.id = id].id = id
        <5>1. [y EXCEPT !.id = id] = [op |-> "move", id |-> id, from |-> m[1], to |-> m[2],
                                      meta |-> walked["A"][m[2]]]
          OBVIOUS
        <5>2. walked["A"][m[2]] \in Meta
          BY <1>0, <3>3 DEF RunTyped, Listing
        <5> QED BY <3>3, <5>1, <5>2
      <4> HIDE DEF y
      <4> QED BY <4>1 DEF Message, RemoteMessage
    <3>7. Asks(y)
      BY <3>1
    <3> HIDE DEF y
    <3>8. RecordsFaithful'
      BY <1>0, <2>1, <2>2, RecordsKept DEF Plans
    <3>9. MovesFaithful'
      <4>1. stored[m[1]] # None
        BY <3>2 DEF Missing
      <4>2. Excused(m[2]) \/ stored[m[1]].sum = walked["A"][m[2]].mtimeMs
        <5>1. SUFFICES ASSUME ~Excused(m[2]) PROVE stored[m[1]].sum = walked["A"][m[2]].mtimeMs
          OBVIOUS
        <5>2. walked["A"][m[2]] = MetaOf(fs["A"][m[2]])
          BY <1>0, <3>3, <3>4, <5>1
        <5>3. fs["A"][m[2]] # None /\ walked["A"][m[2]].mtimeMs = fs["A"][m[2]].mtimeMs
          BY <1>0, <3>3, <5>2, MetaKnown
        <5>4. Genuine(fs["A"][m[2]])
          BY <1>0, <3>3, <5>1 DEF Versions, Pure, Excused
        <5> QED BY <3>2, <5>3, <5>4 DEF Genuine
      <4>3. Excused(m[1]) \/ walked["B"][m[1]].mtimeMs = stored[m[1]].sum
        BY <1>0, <3>2, SumSays DEF Plans, Mirror
      <4>4. \A p \in Paths : movedSums'[p] # None =>
              /\ phase' \in {"srcmoves", "dstmoves", "visit"}
              /\ Excused(p)' \/ (/\ walked'["A"][p] # None /\ walked'["A"][p] = walked'["B"][p]
                                 /\ movedSums'[p] = walked'["A"][p].mtimeMs)
        BY <1>0, <2>1, <3>1 DEF Plans, MovesFaithful, Excused
      <4>5. /\ stored'[cur'.from] # None
            /\ Excused(cur.path)' \/ stored'[cur'.from].sum = walked'["A"][cur'.path].mtimeMs
            /\ Excused(cur.from)' \/ walked'["B"][cur'.from].mtimeMs = stored'[cur'.from].sum
        BY <2>1, <3>5, <4>1, <4>2, <4>3 DEF Excused
      <4> QED BY <4>4, <4>5 DEF MovesFaithful
    <3>10. PlanFits' /\ CopyFits' /\ Converging'
      BY <1>1, <3>1, <3>5 DEF PlanFits, CopyFits, Converging, CopyTo
    <3>11. CalmStays
      <4>1. ASSUME NEW p \in Paths, Settled(p), ~Excused(p)'
            PROVE  Matches(newStored[p], p)' /\ ~Working(p)'
        <5>1. Matches(newStored[p], p)' /\ ~Excused(p) /\ Alike(p)
          BY <2>1, <4>1 DEF Settled, Matches, MetaOf, Excused
        <5>2. (walked["A"][p] = None) = (walked["B"][p] = None)
          BY <1>0, <3>4, <4>1, <5>1, OneSided
        <5> QED BY <3>3, <3>5, <5>1, <5>2 DEF Working
      <4> QED BY <2>1, <4>1, CalmKept
    <3>12. Flows'
      BY <1>0, <1>1, <2>1, <3>6, <3>7, <3>11, AsksFlows DEF Flows
    <3> QED BY <2>2, <3>8, <3>9, <3>10, <3>12 DEF TwoWay, Plans
  <2> QED BY <2>3, <2>4
<1> QED BY <1>2, <1>3

\* The target has renamed the file.
LEMMA HearMoveTwoWay ==
    ASSUME RemoteTypeOK, Core, Core', DeleteInv, TwoWay, Bidir, GoesOn, HearMove, Observe
    PROVE  TwoWay'
<1>0. /\ RunPlan /\ RunFits /\ CallersFit /\ MoveExact
      /\ RunTyped /\ "A" \in Devices /\ "B" \in Devices
      /\ Versions /\ Plans /\ Flows /\ VersionsSurvive /\ CompletedRunConverges
  BY RunParts DEF Devices, TwoWay
<1>1. /\ asked = 0 /\ NoUpload /\ cur # None /\ cur.action = "move" /\ heard # None
      /\ phase = "srcmoves"
  BY <1>0, Waiting DEF RunFits, HearMove
<1>2. CASE ~heard.ok
  BY <1>1, <1>2, RunFailsTwoWay DEF HearMove
<1>3. CASE heard.ok
  <2>1. /\ walked' = [walked EXCEPT !["B"][cur.from] = None, !["B"][cur.path] = walked["A"][cur.path]]
        /\ movedSums' = [movedSums EXCEPT ![cur.path] = stored[cur.from].sum]
        /\ cur' = None /\ heard' = None /\ Grows
        /\ UNCHANGED <<phase, todo, newStored, fs, uploads, asked, wire, stored, blamed, touched, diverged>>
    BY <1>3 DEF HearMove, UploadsOnly, Grows
  <2>2. cur.path \in Paths /\ cur.from \in Paths /\ cur.path # cur.from /\ Moving
    BY <1>0, <1>1 DEF RunTyped, Cursor, RunPlan, Moving
  <2>3. Versions' /\ VersionsSurvive' /\ propagated \subseteq propagated' /\ CompletedRunConverges'
    BY <1>0, <2>1, NothingWritten DEF CompletedRunConverges
  <2>4. RecordsFaithful'
    BY <1>0, <2>1, <2>3, RecordsKept DEF Plans
  <2>5. /\ walked'["A"] = walked["A"]
        /\ \A p \in Paths : walked'["B"][p] = IF p = cur.path THEN walked["A"][cur.path]
                                              ELSE IF p = cur.from THEN None ELSE walked["B"][p]
    <3>1. walked["A"] \in Listing /\ walked["B"] \in Listing
      BY <1>0 DEF RunTyped
    <3> DEFINE x == walked["A"][cur.path]
    <3>2. walked' = [walked EXCEPT !["B"][cur.from] = None, !["B"][cur.path] = x]
      BY <2>1
    <3> HIDE DEF x
    <3>3. \A p \in Paths : walked'["B"][p] = IF p = cur.path THEN x
                                              ELSE IF p = cur.from THEN None ELSE walked["B"][p]
      BY <1>0, <2>2, <3>1, <3>2 DEF RunTyped, Listing
    <3>4. walked'["A"] = walked["A"]
      BY <1>0, <3>1, <3>2 DEF RunTyped
    <3> QED BY <3>3, <3>4 DEF x
  <2>6. \A p \in Paths : movedSums'[p] = IF p = cur.path THEN stored[cur.from].sum ELSE movedSums[p]
    BY <1>0, <2>1, <2>2 DEF RunTyped
  <2>7. \A p : Excused(p)' <=> Excused(p)
    BY <2>1 DEF Excused
  <2>8. MovesFaithful'
    <3>1. ASSUME NEW p \in Paths, movedSums'[p] # None, ~Excused(p)
          PROVE  /\ walked'["A"][p] # None /\ walked'["A"][p] = walked'["B"][p]
                 /\ movedSums'[p] = walked'["A"][p].mtimeMs
      <4>1. CASE p = cur.path
        <5>1. walked["A"][cur.path] # None
          BY <1>0, <2>2 DEF MoveExact
        <5>2. stored[cur.from].sum = walked["A"][cur.path].mtimeMs
          BY <1>0, <2>2, <3>1, <4>1 DEF Plans, MovesFaithful
        <5> QED BY <2>5, <2>6, <4>1, <5>1, <5>2
      <4>2. CASE p = cur.from
        <5>1. walked["A"][p] = None
          BY <1>0, <2>2, <4>2 DEF MoveExact
        <5>2. movedSums[p] # None
          BY <2>2, <2>6, <3>1, <4>2
        <5> QED BY <1>0, <3>1, <5>1, <5>2 DEF Plans, MovesFaithful
      <4>3. CASE p # cur.path /\ p # cur.from
        BY <1>0, <2>5, <2>6, <3>1, <4>3 DEF Plans, MovesFaithful
      <4> QED BY <4>1, <4>2, <4>3
    <3>2. phase' = "srcmoves" /\ ~Moving'
      BY <1>1, <2>1 DEF Moving
    <3> QED BY <2>7, <3>1, <3>2 DEF MovesFaithful
  <2>9. PlanFits' /\ CopyFits' /\ Converging'
    BY <1>1, <2>1 DEF PlanFits, CopyFits, Converging
  <2>10. CalmStays
    <3>1. ASSUME NEW p \in Paths, Settled(p) PROVE Matches(newStored[p], p)' /\ ~Working(p)'
      BY <2>1, <3>1 DEF Settled, Matches, MetaOf, Working
    <3> QED BY <2>1, <3>1, CalmKept
  <2>11. Flows'
    BY <1>0, <1>1, <2>1, <2>10, BeginsFlows DEF Flows
  <2> QED BY <2>3, <2>4, <2>8, <2>9, <2>11 DEF TwoWay, Plans
<1> QED BY <1>2, <1>3

\* A rename at the target is replayed at the source.
LEMMA DstMovesTwoWay ==
    ASSUME RemoteTypeOK, Core, Core', DeleteInv, TwoWay, Bidir, GoesOn, DstMoves, Observe
    PROVE  TwoWay'
<1>0. /\ RunPlan /\ RunFits /\ CallersFit /\ WalksExact /\ TransferTyped
      /\ RunTyped /\ "A" \in Devices /\ "B" \in Devices
      /\ Versions /\ Plans /\ Flows /\ VersionsSurvive /\ CompletedRunConverges
  BY RunParts DEF Devices, TwoWay
<1>1. asked = 0 /\ heard = None /\ NoUpload /\ cur = None /\ phase = "dstmoves"
  BY <1>0, Waiting DEF RunFits, DstMoves
<1>2. CASE aborted \/ \E m \in Renamed("dst") : fs["A"][m[1]] = None
  BY <1>1, <1>2, RunFailsTwoWay DEF DstMoves
<1>3. CASE ~(aborted \/ \E m \in Renamed("dst") : fs["A"][m[1]] = None)
  <2>0. UNCHANGED <<cur, newStored, uploads, asked, heard, wire, stored, diverged>>
    BY <1>3 DEF DstMoves, UploadsOnly
  <2>1. \A d \in Devices, p \in Paths : Excused(p) \/ walked[d][p] = MetaOf(fs[d][p])
    BY <1>0, <1>1, AllKnown
  <2>2. BothHad' /\ propagated \subseteq propagated' /\ CompletedRunConverges'
    BY <1>0, <2>0, ObservedBoth DEF CompletedRunConverges
  <2>3. CASE Renamed("dst") = {}
    <3>1. /\ phase' = "visit" /\ todo' = ToVisit /\ UNCHANGED <<fs, walked, movedSums, blamed, touched>>
          /\ Grows
      BY <1>3, <2>3 DEF DstMoves, Grows
    <3>2. Versions' /\ VersionsSurvive'
      BY <1>0, <3>1, NothingWritten
    <3>3. RecordsFaithful'
      BY <1>0, <2>0, <2>2, <3>1, RecordsKept DEF Plans
    <3>4. MovesFaithful'
      <4>1. \A p \in Paths : movedSums'[p] # None =>
              Excused(p)' \/ (/\ walked'["A"][p] # None /\ walked'["A"][p] = walked'["B"][p]
                              /\ movedSums'[p] = walked'["A"][p].mtimeMs)
        BY <1>0, <3>1 DEF Plans, MovesFaithful, Excused
      <4>2. phase' = "visit" /\ ~Moving'
        BY <1>1, <2>0, <3>1 DEF Moving
      <4> QED BY <4>1, <4>2 DEF MovesFaithful
    <3>5. PlanFits' /\ CopyFits'
      BY <1>1, <2>0 DEF PlanFits, CopyFits
    <3>6. Converging'
      <4>1. ASSUME NEW p \in Paths, p \notin ToVisit, ~Excused(p) PROVE Alike(p)
        <5>1. walked["A"][p] = None /\ walked["B"][p] = None
          BY <4>1 DEF ToVisit, Bidir
        <5>2. fs["A"][p] = None /\ fs["B"][p] = None
          BY <1>0, <2>1, <4>1, <5>1, MetaKnown
        <5> QED BY <5>2 DEF Alike
      <4> QED BY <3>1, <4>1 DEF Converging, Excused, Alike
    <3>7. CalmStays
      <4>1. ASSUME NEW p \in Paths, Settled(p) PROVE Matches(newStored[p], p)' /\ ~Working(p)'
        BY <1>1, <2>0, <3>1, <4>1 DEF Settled, Matches, MetaOf, Working
      <4> QED BY <2>0, <3>1, <4>1, CalmKept
    <3>8. Flows'
      BY <1>0, <1>1, <2>0, <3>7, BeginsFlows DEF Flows
    <3> QED BY <2>2, <3>2, <3>3, <3>4, <3>5, <3>6, <3>8 DEF TwoWay, Plans
  <2>4. CASE Renamed("dst") # {}
    <3>1. PICK m \in Renamed("dst") :
             /\ fs' = [fs EXCEPT !["A"] = Moved(@, m[1], m[2], walked["B"][m[2]].mtimeMs)]
             /\ walked' = [walked EXCEPT !["A"][m[1]] = None, !["A"][m[2]] = walked["B"][m[2]]]
             /\ movedSums' = [movedSums EXCEPT ![m[2]] = stored[m[1]].sum]
             /\ blamed' = IF /\ fs["B"][m[2]] # None
                             /\ fs["B"][m[2]].data = fs["A"][m[1]].data
                          THEN Follows(blamed, m[1], m[2]) \cup ({m[2]} \cap touched')
                          ELSE blamed \cup {m[1], m[2]}
             /\ touched' = Follows(touched, m[1], m[2])
             /\ UNCHANGED <<phase, todo>>
      BY <1>3, <2>4 DEF DstMoves
    <3>2. m[1] \in Missing("dst") /\ m[2] \in Added("dst")
      BY DEF Renamed
    <3>3. /\ m[1] \in Paths /\ m[2] \in Paths
          /\ walked["B"][m[1]] = None /\ walked["A"][m[1]] # None
          /\ walked["B"][m[2]] # None /\ walked["A"][m[2]] = None
      BY <3>2 DEF Missing, Added, Changed, Mirror
    <3>4. m[1] # m[2] /\ fs["A"][m[1]] # None
      BY <1>3, <3>3
    <3> DEFINE old == fs["A"][m[1]]
               meta == walked["B"][m[2]]
               e == [old EXCEPT !.mtimeMs = meta.mtimeMs]
    <3>5. /\ walked'["B"] = walked["B"]
          /\ \A p \in Paths : walked'["A"][p] = IF p = m[2] THEN meta
                                                ELSE IF p = m[1] THEN None ELSE walked["A"][p]
      <4>1. walked' = [walked EXCEPT !["A"][m[1]] = None, !["A"][m[2]] = meta]
        BY <3>1
      <4>2. walked["A"] \in Listing /\ walked["B"] \in Listing
        BY <1>0 DEF RunTyped
      <4> HIDE DEF meta
      <4>3. walked'["B"] = walked["B"]
        BY <1>0, <4>1, <4>2 DEF RunTyped
      <4> QED BY <1>0, <3>3, <4>1, <4>2, <4>3 DEF RunTyped, Listing
    <3>6. /\ fs'["B"] = fs["B"]
          /\ \A p \in Paths : fs'["A"][p] = IF p = m[1] THEN None
                                            ELSE IF p = m[2] THEN e ELSE fs["A"][p]
      <4> DEFINE tree == Moved(fs["A"], m[1], m[2], meta.mtimeMs)
      <4>1. fs' = [fs EXCEPT !["A"] = tree]
        BY <3>1
      <4>2. tree = [fs["A"] EXCEPT ![m[2]] = e, ![m[1]] = None]
        BY DEF Moved
      <4> HIDE DEF tree, e
      <4>3. fs'["A"] = tree /\ fs'["B"] = fs["B"]
        BY <1>0, <4>1 DEF TransferTyped
      <4>4. fs["A"] \in [Paths -> Entry \cup {None}]
        BY <1>0 DEF TransferTyped
      <4>5. \A p \in Paths : [fs["A"] EXCEPT ![m[2]] = e, ![m[1]] = None][p] =
               IF p = m[1] THEN None ELSE IF p = m[2] THEN e ELSE fs["A"][p]
        BY <3>3, <4>4
      <4> QED BY <4>2, <4>3, <4>5
    <3>7. /\ Grows /\ \A p \in Paths : Excused(p) => Excused(p)'
          /\ Excused(m[1]) => Excused(m[2])'
          /\ touched' \cap {m[2]} # {} => m[2] \in blamed'
          /\ m[1] \in blamed => m[2] \in blamed'
      BY <3>1 DEF Grows, Excused, Follows
    <3>8. m[2] \notin blamed' => /\ ~Excused(m[1]) /\ ~Excused(m[2])
                                 /\ fs["B"][m[2]] # None /\ fs["B"][m[2]].data = old.data
      <4>1. m[2] \notin blamed' => fs["B"][m[2]] # None /\ fs["B"][m[2]].data = old.data
        BY <3>1
      <4>2. m[1] \in touched => m[2] \in touched'
        BY <3>1 DEF Follows
      <4> QED BY <3>7, <4>1, <4>2 DEF Excused, Grows
    <3>9. e.data = old.data /\ e.mtimeMs = meta.mtimeMs
      <4>1. old \in Entry
        BY <1>0, <3>3, <3>4 DEF TransferTyped
      <4> HIDE DEF old, meta
      <4> QED BY <4>1 DEF Entry
    <3>10. m[2] \notin blamed' =>
              /\ meta.mtimeMs = old.data
              /\ old.data = old.mtimeMs /\ walked["A"][m[1]].mtimeMs = old.mtimeMs
      <4>1. SUFFICES ASSUME m[2] \notin blamed'
                     PROVE  /\ meta.mtimeMs = old.data
                            /\ old.data = old.mtimeMs /\ walked["A"][m[1]].mtimeMs = old.mtimeMs
        OBVIOUS
      <4>2. meta = MetaOf(fs["B"][m[2]]) /\ walked["A"][m[1]] = MetaOf(old)
        BY <1>0, <2>1, <3>3, <3>8, <4>1
      <4>3. Genuine(fs["B"][m[2]]) /\ Genuine(old)
        BY <1>0, <3>3, <3>8, <4>1 DEF Versions, Pure, Excused
      <4>4. /\ MetaOf(fs["B"][m[2]]).mtimeMs = fs["B"][m[2]].mtimeMs
            /\ MetaOf(old).mtimeMs = old.mtimeMs
        BY <1>0, <3>3, <3>4, <3>8, <4>1, MetaKnown
      <4> QED BY <3>4, <3>8, <4>1, <4>2, <4>3, <4>4 DEF Genuine
    <3> HIDE DEF old, e, meta
    <3>11. Pure'
      <4>1. ASSUME NEW d \in Devices, NEW p \in Paths, p \notin blamed' PROVE Genuine(fs'[d][p])
        <5>1. Genuine(fs[d][p])
          BY <1>0, <3>7, <4>1 DEF Versions, Pure, Grows
        <5>2. CASE d = "B" \/ (p # m[1] /\ p # m[2])
          BY <3>6, <5>1, <5>2 DEF Devices
        <5>3. CASE d = "A" /\ p = m[1]
          BY <3>6, <5>3 DEF Genuine
        <5>4. CASE d = "A" /\ p = m[2]
          <6>1. Genuine(e)
            BY <3>9, <3>10, <4>1, <5>4 DEF Genuine
          <6> QED BY <3>4, <3>6, <5>4, <6>1
        <5> QED BY <5>2, <5>3, <5>4 DEF Devices
      <4> QED BY <4>1 DEF Pure, Genuine
    <3>12. Spares
      <4>1. ASSUME NEW d \in Devices, NEW p \in Paths, fs[d][p] # None, fs'[d][p] # None,
                   fs'[d][p].data # fs[d][p].data, ~Excused(p)
            PROVE  FALSE
        <5>1. d = "A" /\ p = m[2]
          BY <3>6, <4>1 DEF Devices
        <5>2. MetaOf(fs["A"][p]) = None
          BY <1>0, <2>1, <3>3, <4>1, <5>1
        <5> QED BY <1>0, <4>1, <5>1, <5>2, MetaKnown
      <4> QED BY <4>1 DEF Spares
    <3>13. VersionsSurvive'
      BY <1>0, <3>12, SparesSurvive
    <3>14. RecordsFaithful'
      BY <1>0, <2>0, <2>2, <3>7, RecordsKept DEF Plans
    <3>15. MovesFaithful'
      <4>1. \A p \in Paths : movedSums'[p] = IF p = m[2] THEN stored[m[1]].sum ELSE movedSums[p]
        BY <1>0, <3>1, <3>3 DEF RunTyped
      <4>2. ASSUME NEW p \in Paths, movedSums'[p] # None, ~Excused(p)'
            PROVE  /\ walked'["A"][p] # None /\ walked'["A"][p] = walked'["B"][p]
                   /\ movedSums'[p] = walked'["A"][p].mtimeMs
        <5>1. CASE p = m[2]
          <6>1. m[2] \notin blamed' /\ ~Excused(m[1])
            BY <3>7, <4>2, <5>1 DEF Excused
          <6>2. stored[m[1]].sum = walked["A"][m[1]].mtimeMs
            BY <1>0, <3>2, <6>1, SumSays DEF Plans, Mirror
          <6>3. stored[m[1]].sum = meta.mtimeMs
            BY <3>10, <6>1, <6>2
          <6> QED BY <3>3, <3>5, <4>1, <5>1, <6>3 DEF meta
        <5>2. CASE p # m[2]
          <6>1. /\ walked["A"][p] # None /\ walked["A"][p] = walked["B"][p]
                /\ movedSums[p] = walked["A"][p].mtimeMs
            BY <1>0, <3>7, <4>1, <4>2, <5>2 DEF Plans, MovesFaithful
          <6>2. p # m[1]
            BY <3>3, <6>1
          <6> QED BY <3>5, <4>1, <5>2, <6>1, <6>2
        <5> QED BY <5>1, <5>2
      <4>3. phase' = "dstmoves" /\ ~Moving'
        BY <1>1, <2>0, <3>1 DEF Moving
      <4> QED BY <4>2, <4>3 DEF MovesFaithful
    <3>16. PlanFits' /\ CopyFits' /\ Converging'
      BY <1>1, <2>0, <3>1 DEF PlanFits, CopyFits, Converging
    <3>17. CalmStays
      <4> SUFFICES ASSUME NEW p \in Paths, Calm(p), ~Excused(p)' PROVE Settled(p)'
        BY DEF CalmStays, Calm
      <4>1. ~Excused(p) /\ Settled(p)
        BY <3>7 DEF Calm
      <4>2. (walked["A"][p] = None) = (walked["B"][p] = None)
        BY <1>0, <2>1, <4>1, OneSided DEF Settled
      <4>3. fs'["A"][p] = fs["A"][p] /\ fs'["B"][p] = fs["B"][p]
        BY <3>3, <3>6, <4>2
      <4>4. Alike(p)' /\ Matches(stored[p], p)' /\ Matches(newStored[p], p)' /\ ~Working(p)'
        BY <1>1, <2>0, <4>1, <4>3 DEF Settled, Alike, Matches, MetaOf, Working
      <4> QED BY <4>4 DEF Settled
    <3>18. Flows'
      BY <1>0, <1>1, <2>0, <3>17, BeginsFlows DEF Flows
    <3> QED BY <2>2, <3>11, <3>13, <3>14, <3>15, <3>16, <3>18 DEF TwoWay, Versions, Plans
  <2> QED BY <2>3, <2>4
<1> QED BY <1>2, <1>3

(*** what a visit decides ***)

\* What the run is about to visit, it knows.
LEMMA VisitKnown ==
    ASSUME WalksExact, cur = None, phase = "visit", NEW p \in todo, p \in Paths, ~Excused(p)
    PROVE  \A d \in Devices : walked[d][p] = MetaOf(fs[d][p])
BY DEF WalksExact, Knows, Busy

\* A file that is on both devices is recorded as it is.
LEMMA AlikeRecord ==
    ASSUME TransferTyped, Pure, BothHad, NEW p \in Paths, ~Excused(p), Alike(p), NEW r,
           r.src = MetaOf(fs["A"][p]), r.dst = MetaOf(fs["B"][p]),
           fs["A"][p] # None => r.sum \in {None, fs["A"][p].data}
    PROVE  Faithful(r) /\ Matches(r, p)
<1>1. "A" \in Devices /\ "B" \in Devices
  BY DEF Devices
<1>2. fs["A"][p] = fs["B"][p] /\ r.src = r.dst
  BY DEF Alike
<1>3. CASE fs["A"][p] = None
  <2>1. r.src = None /\ r.dst = None
    BY <1>1, <1>2, <1>3, MetaKnown
  <2> QED BY <2>1 DEF Faithful, Both, Matches
<1>4. CASE fs["A"][p] # None
  <2>1. r.src.mtimeMs = fs["A"][p].data /\ fs["A"][p].data \in propagated
    BY <1>1, <1>4, KnownTime
  <2> QED BY <1>2, <1>4, <2>1 DEF Faithful, Matches
<1> QED BY <1>3, <1>4

\* Files are left alone where they are alike, and the record says so.
LEMMA SkipSays ==
    ASSUME TransferTyped, OneSize, Pure, RecordsFaithful, Bidir, NEW p \in Paths, ~Excused(p),
           \A d \in Devices : walked[d][p] = MetaOf(fs[d][p]), ActionFor(p) = "skip"
    PROVE  Alike(p) /\ (fs["A"][p] # None => SumBefore(p) \in {None, walked["A"][p].mtimeMs})
<1> DEFINE src == walked["A"][p]  dst == walked["B"][p]  prev == stored[p]
           a == resolveAction(src, dst, prev)
<1>0. /\ "A" \in Devices /\ "B" \in Devices
      /\ src = MetaOf(fs["A"][p]) /\ dst = MetaOf(fs["B"][p])
  BY DEF Devices
<1>1. a = "skip"
  BY DEF ActionFor, newerWins, Bidir
<1>2. /\ src = None <=> fs["A"][p] = None
      /\ dst = None <=> fs["B"][p] = None
  BY <1>0, MetaKnown
<1>3. CASE src = None /\ dst = None
  BY <1>2, <1>3 DEF Alike
<1>4. CASE src # None /\ dst = None
  BY <1>1, <1>4 DEF resolveAction
<1>5. CASE src = None /\ dst # None
  BY <1>1, <1>5 DEF resolveAction
<1>6. CASE src # None /\ dst # None /\ prev = None
  <2>1. src.mtimeMs = dst.mtimeMs
    BY <1>1, <1>6 DEF resolveAction
  <2>2. fs["A"][p].mtimeMs = fs["B"][p].mtimeMs
    BY <1>0, <1>2, <1>6, <2>1, MetaKnown
  <2>3. Alike(p)
    BY <1>2, <1>6, <2>2, SameTime
  <2> QED BY <1>6, <2>3 DEF SumBefore
<1>7. CASE src # None /\ dst # None /\ prev # None
  <2>1. ~fileChanged(src, prev, "src") /\ ~fileChanged(dst, prev, "dst")
    BY <1>1, <1>7 DEF resolveAction
  <2>2. prev.src = src /\ prev.dst = dst
    BY <1>7, <2>1 DEF fileChanged
  <2>3. Faithful(prev)
    BY <1>7 DEF RecordsFaithful, Excused
  <2>4. src = dst /\ prev.sum \in {None, src.mtimeMs}
    BY <1>7, <2>2, <2>3 DEF Faithful, Both
  <2>5. Alike(p)
    BY <1>0, <2>4, SameMeta
  <2> QED BY <1>7, <2>4, <2>5 DEF SumBefore
<1> QED BY <1>3, <1>4, <1>5, <1>6, <1>7

\* And what is at rest is left alone.
LEMMA SettledSkips ==
    ASSUME TransferTyped, Bidir, NEW p \in Paths, Settled(p),
           \A d \in Devices : walked[d][p] = MetaOf(fs[d][p])
    PROVE  ActionFor(p) = "skip"
<1> DEFINE src == walked["A"][p]  dst == walked["B"][p]  prev == stored[p]
           a == resolveAction(src, dst, prev)
<1>1. src = dst /\ (prev # None => prev.src = src /\ prev.dst = dst)
  BY DEF Settled, Alike, Matches, Devices
<1>2. a = "skip"
  <2>1. CASE src = None
    BY <1>1, <2>1 DEF resolveAction
  <2>2. CASE src # None /\ prev = None
    BY <1>1, <2>2 DEF resolveAction
  <2>3. CASE src # None /\ prev # None
    <3>1. ~fileChanged(src, prev, "src") /\ ~fileChanged(dst, prev, "dst")
      BY <1>1, <2>3 DEF fileChanged
    <3> QED BY <1>1, <2>3, <3>1 DEF resolveAction
  <2> QED BY <2>1, <2>2, <2>3
<1> QED BY <1>2 DEF ActionFor, newerWins, Bidir

\* A visit that is over.
LEMMA VisitedTwoWay ==
    ASSUME RemoteTypeOK, Core, Core', TwoWay, Bidir, GoesOn, Observe,
           NEW p \in Paths, NEW action, NEW ok, NEW sum, Visited(p, action, ok, sum),
           phase = "visit", p \in todo, cur # None => cur.path = p,
           UNCHANGED <<phase, walked, stored, movedSums, touched, uploads, asked, wire, diverged>>,
           asked = 0, NoUpload, heard' = None,
           \/ UNCHANGED fs
           \/ fs' = [fs EXCEPT !["A"][p] = None] /\ (~Excused(p) => ~Alike(p)),
           ~Excused(p)' => /\ Alike(p)' /\ Faithful(newStored[p])'
                           /\ cur = None => Matches(newStored[p], p)'
    PROVE  TwoWay'
<1>0. /\ TransferTyped /\ RunTyped /\ "A" \in Devices /\ "B" \in Devices
      /\ Versions /\ Plans /\ Flows /\ VersionsSurvive /\ CompletedRunConverges
  BY DEF Core, Local, Devices, TwoWay
<1>1. /\ todo' = todo \ {p} /\ cur' = None /\ Grows
      /\ \A q \in Paths : q # p => newStored'[q] = newStored[q]
  BY <1>0 DEF Visited, RunTyped, Records, Grows
<1>2. \A d \in Devices, q \in Paths : fs'[d][q] = fs[d][q]
                                      \/ (d = "A" /\ q = p /\ fs'[d][q] = None)
  BY <1>0 DEF TransferTyped
<1>3. \A q : Excused(q) => Excused(q)'
  BY <1>1 DEF Grows, Excused
<1>4. BothHad' /\ propagated \subseteq propagated' /\ CompletedRunConverges'
  BY <1>0, ObservedBoth DEF CompletedRunConverges
<1>5. Pure'
  <2>1. ASSUME NEW d \in Devices, NEW q \in Paths, q \notin blamed' PROVE Genuine(fs'[d][q])
    <3>1. Genuine(fs[d][q])
      BY <1>0, <1>1, <2>1 DEF Versions, Pure, Grows
    <3> QED BY <1>2, <3>1 DEF Genuine
  <2> QED BY <2>1 DEF Pure, Genuine
<1>6. VersionsSurvive'
  <2>1. Spares
    BY <1>2 DEF Spares
  <2> QED BY <1>0, <2>1, SparesSurvive
<1>7. RecordsFaithful'
  <2>1. \A q \in Paths : newStored'[q] \in {None, newStored[q]} \/ Excused(q)' \/ Faithful(newStored[q])'
    BY <1>1
  <2> QED BY <1>0, <1>1, <1>4, <2>1, RecordsKept DEF Plans
<1>8. MovesFaithful'
  <2>1. \A q \in Paths : movedSums'[q] # None =>
          Excused(q)' \/ (/\ walked'["A"][q] # None /\ walked'["A"][q] = walked'["B"][q]
                          /\ movedSums'[q] = walked'["A"][q].mtimeMs)
    BY <1>0, <1>3 DEF Plans, MovesFaithful
  <2> QED BY <1>1, <2>1 DEF MovesFaithful, Moving
<1>9. PlanFits' /\ CopyFits'
  BY <1>1 DEF PlanFits, CopyFits
<1>10. Converging'
  <2>1. ASSUME NEW q \in Paths, q \notin todo', ~Excused(q)' PROVE Alike(q)'
    <3>1. CASE q = p
      BY <2>1, <3>1
    <3>2. CASE q # p
      <4>1. Alike(q)
        BY <1>0, <1>1, <1>3, <2>1, <3>2 DEF Plans, Converging
      <4> QED BY <1>0, <1>2, <3>2, <4>1 DEF Alike
    <3> QED BY <3>1, <3>2
  <2> QED BY <2>1 DEF Converging
<1>11. CalmStays
  <2> SUFFICES ASSUME NEW q \in Paths, Calm(q), ~Excused(q)' PROVE Settled(q)'
    BY DEF CalmStays, Calm
  <2>1. Settled(q) /\ ~Excused(q)
    BY <1>3 DEF Calm
  <2>2. fs'["A"][q] = fs["A"][q] /\ fs'["B"][q] = fs["B"][q]
    <3>1. CASE UNCHANGED fs
      BY <3>1
    <3>2. CASE ~Excused(p) => ~Alike(p)
      BY <1>0, <1>2, <2>1, <3>2 DEF Settled
    <3> QED BY <3>1, <3>2
  <2>3. Alike(q)' /\ Matches(stored[q], q)' /\ ~Working(q)'
    BY <1>1, <2>1, <2>2 DEF Settled, Alike, Matches, MetaOf, Working
  <2>4. Matches(newStored[q], q)'
    <3>1. CASE q = p
      BY <2>1, <3>1 DEF Settled, Working
    <3>2. CASE q # p
      BY <1>1, <2>1, <2>2, <3>2 DEF Settled, Matches, MetaOf
    <3> QED BY <3>1, <3>2
  <2> QED BY <2>3, <2>4 DEF Settled
<1>12. Flows'
  BY <1>0, <1>11, BeginsFlows DEF Flows
<1> QED BY <1>4, <1>5, <1>6, <1>7, <1>8, <1>9, <1>10, <1>12 DEF TwoWay, Versions, Plans

\* A visit that is begun.
LEMMA VisitBegins ==
    ASSUME TransferTyped, WalksExact, Versions, Plans, Bidir, Observe, phase = "visit", cur = None,
           NEW p \in Paths, p \in todo,
           cur' # None, cur'.path = p, cur'.from = p, cur'.action = ActionFor(p),
           ActionFor(p) \in {"copy-to-dst", "copy-to-src", "delete-dst"},
           UNCHANGED <<phase, walked, todo, newStored, movedSums, fs, stored, blamed, touched, job>>
    PROVE  Plans' /\ CalmStays
<1>0. "A" \in Devices /\ "B" \in Devices
  BY DEF Devices
<1>1. propagated \subseteq propagated' /\ Grows /\ \A q : Excused(q)' <=> Excused(q)
  BY ObservedBoth DEF Grows, Excused
<1>2. ~Excused(p) => \A d \in Devices : walked[d][p] = MetaOf(fs[d][p])
  BY VisitKnown
<1>3. RecordsFaithful'
  BY <1>1, RecordsKept DEF Plans
<1>4. MovesFaithful'
  <2>1. \A q \in Paths : movedSums'[q] # None =>
          /\ phase' \in {"srcmoves", "dstmoves", "visit"}
          /\ Excused(q)' \/ (/\ walked'["A"][q] # None /\ walked'["A"][q] = walked'["B"][q]
                             /\ movedSums'[q] = walked'["A"][q].mtimeMs)
    BY <1>1 DEF Plans, MovesFaithful
  <2>2. ~Moving'
    BY DEF Moving
  <2> QED BY <2>1, <2>2 DEF MovesFaithful
<1>5. PlanFits'
  BY DEF PlanFits, ActionFor
<1>6. CopyFits'
  <2>1. ASSUME NEW d \in Devices, ~Excused(p)
        PROVE  /\ MetaOf(fs[Other(d)][p]) = walked[Other(d)][p]
               /\ MetaOf(fs[d][p]) = walked[d][p]
    BY <1>2, <2>1, Two
  <2> QED BY <1>1, <2>1 DEF CopyFits, Excused, MetaOf
<1>7. Converging'
  BY DEF Plans, Converging, Excused, Alike
<1>8. CalmStays
  <2>1. ASSUME NEW q \in Paths, Settled(q), ~Excused(q)'
        PROVE  Matches(newStored[q], q)' /\ ~Working(q)'
    <3>1. Matches(newStored[q], q)'
      BY <2>1 DEF Settled, Matches, MetaOf
    <3>2. q # p
      BY <1>1, <1>2, <2>1, SettledSkips
    <3> QED BY <3>1, <3>2 DEF Working
  <2> QED BY <1>1, <2>1, CalmKept
<1> QED BY <1>3, <1>4, <1>5, <1>6, <1>7, <1>8 DEF Plans

(*** visits ***)

\* What the run uploads is the file that is there.
LEMMA UploadingExact ==
    ASSUME NEW n, NEW p, NEW kind, NEW basis, fs["A"][p] # None, UNCHANGED <<fs, touched, blamed>>,
           Excused(p) \/ walked["A"][p] = MetaOf(fs["A"][p]),
           Begun(Uploading(n, "A", <<>>, p, kind, walked["A"][p], fs["A"][p], basis))
    PROVE  \E u : /\ u.caller = <<>> /\ uploads' = uploads \cup {u}
                  /\ \A x \in {u} : Excused(x.path)' \/ Exact(x)'
<1> DEFINE u == Uploading(n, "A", <<>>, p, kind, walked["A"][p], fs["A"][p], basis)
           e == fs["A"][p]
<1>1. /\ u.caller = <<>> /\ u.at = "A" /\ u.path = p /\ u.meta = walked["A"][p] /\ u.size = e.size
      /\ u.chunk.data = e.data /\ u.expect = e.data /\ u.put = "no"
  BY DEF Uploading
<1>2. uploads' = uploads \cup {u}
  BY DEF Begun
<1> HIDE DEF u
<1>3. ASSUME NEW x, x = u PROVE Excused(x.path)' \/ Exact(x)'
  <2>1. x.at = "A" /\ x.path = p
    BY <1>1, <1>3
  <2>2. CASE Excused(p)
    BY <2>1, <2>2 DEF Excused
  <2>3. CASE walked["A"][p] = MetaOf(fs["A"][p])
    <3>1. /\ fs'[x.at][x.path] # None /\ x.meta = MetaOf(fs'[x.at][x.path]) /\ x.size = fs'[x.at][x.path].size
          /\ x.chunk.data = fs'[x.at][x.path].data /\ x.expect = x.chunk.data
          /\ x.put # "whole"
      BY <1>1, <1>3, <2>1, <2>3
    <3> QED BY <3>1 DEF Exact, MetaOf
  <2> QED BY <2>2, <2>3
<1> QED BY <1>1, <1>2, <1>3

\* The same for the upload in full.
LEMMA SendsFullExact ==
    ASSUME NEW p, SendsFull(p), UNCHANGED <<fs, touched, blamed>>,
           Excused(p) \/ walked["A"][p] = MetaOf(fs["A"][p])
    PROVE  \/ heard' = Unheard /\ uploads' = uploads
           \/ heard' = None /\ \E u : /\ u.caller = <<>> /\ uploads' = uploads \cup {u}
                                      /\ \A x \in {u} : Excused(x.path)' \/ Exact(x)'
<1>1. CASE fs["A"][p] = None \/ aborted
  BY <1>1 DEF SendsFull, UploadsOnly
<1>2. CASE ~(fs["A"][p] = None \/ aborted)
  <2>1. PICK n \in FreshNumbers :
           Begun(Uploading(n, "A", <<>>, p, "full", walked["A"][p], fs["A"][p], None))
    BY <1>2 DEF SendsFull
  <2>2. heard' = None
    BY <1>2 DEF SendsFull
  <2>3. \E u : /\ u.caller = <<>> /\ uploads' = uploads \cup {u}
               /\ \A x \in {u} : Excused(x.path)' \/ Exact(x)'
    BY <1>2, <2>1, UploadingExact
  <2> QED BY <2>2, <2>3
<1> QED BY <1>1, <1>2

\* The records of what was left alone, and of what was deleted at the source.
LEMMA SkipTwoWay ==
    ASSUME RemoteTypeOK, Core, Core', DeleteInv, Carrying, TwoWay, Bidir, GoesOn, Observe, NEW p \in Paths,
           phase = "visit", cur = None, p \in todo, asked = 0, heard = None, NoUpload,
           ActionFor(p) = "skip", Visited(p, "skip", TRUE, None),
           UNCHANGED <<phase, walked, stored, movedSums, touched, uploads, asked, wire, diverged, fs, heard, job>>
    PROVE  TwoWay'
<1>0. /\ WalksExact /\ TransferTyped /\ RunTyped /\ "A" \in Devices /\ "B" \in Devices
      /\ Versions /\ Plans
  BY RunParts DEF Devices, TwoWay
<1> DEFINE r == RecordOf(p, "skip", TRUE, None)
<1>1. newStored'[p] = r /\ blamed' = blamed
  BY <1>0 DEF Visited, RunTyped, Records
<1>2. ASSUME ~Excused(p)' PROVE Alike(p)' /\ Faithful(newStored[p])' /\ Matches(newStored[p], p)'
  <2>1. ~Excused(p)
    BY <1>1, <1>2 DEF Excused
  <2>2. \A d \in Devices : walked[d][p] = MetaOf(fs[d][p])
    BY <1>0, <2>1, VisitKnown
  <2>3. Alike(p) /\ (fs["A"][p] # None => SumBefore(p) \in {None, walked["A"][p].mtimeMs})
    BY <1>0, <2>1, <2>2, SkipSays DEF Carrying, Versions, Plans
  <2>4. movedSums[p] # None => movedSums[p] = walked["A"][p].mtimeMs
    BY <1>0, <2>1 DEF Plans, MovesFaithful
  <2>5. fs["A"][p] # None => walked["A"][p].mtimeMs = fs["A"][p].data
    BY <1>0, <2>1, <2>2, <2>3, KnownTime DEF Versions
  <2>6. /\ r.src = walked["A"][p] /\ r.dst = walked["B"][p]
        /\ r.sum = IF SumBefore(p) # None THEN SumBefore(p) ELSE movedSums[p]
    BY DEF RecordOf, Bidir
  <2> HIDE DEF r
  <2>7. fs["A"][p] # None => r.sum \in {None, fs["A"][p].data}
    BY <2>3, <2>4, <2>5, <2>6
  <2>8. Faithful(r) /\ Matches(r, p)
    BY <1>0, <2>1, <2>2, <2>3, <2>6, <2>7, AlikeRecord DEF Versions
  <2>9. propagated \subseteq propagated'
    BY ObservedBoth
  <2> QED BY <1>1, <2>3, <2>8, <2>9 DEF Alike, Faithful, Both, Matches, MetaOf
<1>3. heard' = None
  OBVIOUS
<1> QED BY <1>2, <1>3, VisitedTwoWay

\* What the user took away at the target is deleted at the source.
LEMMA DeleteSrcTwoWay ==
    ASSUME RemoteTypeOK, Core, Core', DeleteInv, Carrying, TwoWay, Bidir, GoesOn, Observe, NEW p \in Paths,
           phase = "visit", cur = None, p \in todo, asked = 0, heard = None, NoUpload,
           ActionFor(p) = "delete-src", fs' = [fs EXCEPT !["A"][p] = None],
           Visited(p, "delete-src", fs["A"][p] # None, None),
           UNCHANGED <<phase, walked, stored, movedSums, touched, uploads, asked, wire, diverged, heard, job>>
    PROVE  TwoWay'
<1>0. /\ WalksExact /\ TransferTyped /\ RunTyped /\ "A" \in Devices /\ "B" \in Devices
      /\ Versions /\ Plans
  BY RunParts DEF Devices, TwoWay
<1> DEFINE ok == fs["A"][p] # None
           r == RecordOf(p, "delete-src", ok, None)
<1>1. newStored'[p] = r /\ blamed' = IF ok THEN blamed ELSE blamed \cup {p}
  BY <1>0 DEF Visited, RunTyped, Records
<1>2. walked["B"][p] = None /\ walked["A"][p] # None
  BY DeletesWhatWentAway
<1>3. ~Excused(p) => fs["B"][p] = None /\ fs["A"][p] # None
  <2>1. SUFFICES ASSUME ~Excused(p) PROVE fs["B"][p] = None /\ fs["A"][p] # None
    OBVIOUS
  <2>2. \A d \in Devices : walked[d][p] = MetaOf(fs[d][p])
    BY <1>0, <2>1, VisitKnown
  <2> QED BY <1>0, <1>2, <2>2, MetaKnown
<1>4. ASSUME ~Excused(p)' PROVE Alike(p)' /\ Faithful(newStored[p])' /\ Matches(newStored[p], p)'
  <2>1. ok /\ ~Excused(p)
    BY <1>1, <1>4 DEF Excused
  <2>2. fs'["A"][p] = None /\ fs'["B"][p] = None
    BY <1>0, <1>3, <2>1 DEF TransferTyped
  <2>3. r.src = None /\ r.dst = None
    BY <1>2, <2>1 DEF RecordOf, Bidir
  <2> HIDE DEF r
  <2> QED BY <1>1, <2>2, <2>3 DEF Alike, Faithful, Both, Matches, MetaOf
<1>5. /\ heard' = None
      /\ fs' = [fs EXCEPT !["A"][p] = None] /\ (~Excused(p) => ~Alike(p))
  BY <1>3 DEF Alike
<1>6. Visited(p, "delete-src", ok, None)
  OBVIOUS
<1> HIDE DEF ok, r
<1> QED BY <1>4, <1>5, <1>6, VisitedTwoWay

\* A path is visited: left alone, copied or deleted.
LEMMA VisitTwoWay ==
    ASSUME RemoteTypeOK, Core, Core', DeleteInv, Carrying, TwoWay, Bidir, GoesOn,
           NEW p \in Paths, Visit(p), Observe
    PROVE  TwoWay'
<1> DEFINE action == ActionFor(p)
           src == walked["A"][p]
           basis == IF src # None /\ job.delta /\ fs["A"][p] # None THEN fs["A"][p].data ELSE None
<1>0. /\ RunPlan /\ RunFits /\ CallersFit /\ TransferTyped /\ WalksExact /\ "A" \in Devices
      /\ Versions /\ Plans /\ Flows /\ VersionsSurvive /\ CompletedRunConverges
  BY RunParts DEF Devices, TwoWay
<1>1. /\ phase = "visit" /\ cur = None /\ p \in todo /\ asked = 0 /\ heard = None /\ NoUpload
      /\ UNCHANGED <<phase, walked, movedSums, stored, touched, diverged, job>>
  BY <1>0, Waiting DEF Visit, settings
<1>2. \/ /\ action = "skip"
         /\ Visited(p, action, TRUE, None)
         /\ UNCHANGED <<fs, asked, heard, wire, uploads>>
      \/ /\ action = "copy-to-dst"
         /\ cur' = At(p, action, "transfer") /\ SendsFull(p)
         /\ UNCHANGED <<todo, newStored, blamed, fs, asked, wire>>
      \/ /\ action = "copy-to-dst"
         /\ cur' = At(p, action, "signature")
         /\ Asks([op |-> "signature", id |-> 0, path |-> p])
         /\ UNCHANGED <<todo, newStored, blamed, fs, uploads>>
      \/ /\ action = "copy-to-src"
         /\ cur' = At(p, action, "transfer")
         /\ \/ heard' = Unheard /\ UNCHANGED <<asked, wire>>
            \/ Asks([op |-> "send", id |-> 0, path |-> p, basis |-> basis])
         /\ UNCHANGED <<todo, newStored, blamed, fs, uploads>>
      \/ /\ action = "delete-dst"
         /\ cur' = At(p, action, "transfer")
         /\ Asks([op |-> "delete", id |-> 0, path |-> p])
         /\ UNCHANGED <<todo, newStored, blamed, fs, uploads>>
      \/ /\ action = "delete-src"
         /\ fs' = [fs EXCEPT !["A"][p] = None]
         /\ Visited(p, action, fs["A"][p] # None, None)
         /\ UNCHANGED <<asked, heard, wire, uploads>>
  BY DEF Visit, UploadsOnly
<1>3. basis \in Contents \cup {None}
  <2>1. fs["A"][p] # None => fs["A"][p].data \in Contents
    BY <1>0 DEF TransferTyped, Devices, Entry
  <2> QED BY <2>1
<1>4. action = ActionFor(p)
  OBVIOUS
<1> HIDE DEF action, src, basis
<1>5. ASSUME NEW step \in {"signature", "transfer"}, cur' = At(p, action, step),
             action \in {"copy-to-dst", "copy-to-src", "delete-dst"},
             UNCHANGED <<todo, newStored, blamed, fs>>
      PROVE  /\ Versions' /\ VersionsSurvive' /\ CompletedRunConverges' /\ Plans' /\ CalmStays
  <2>1. cur' # None
    BY <1>5, CursorAt DEF Actions
  <2>2. cur'.path = p /\ cur'.from = p /\ cur'.action = action
    BY <1>5 DEF At
  <2>3. Plans' /\ CalmStays
    BY <1>0, <1>1, <1>4, <1>5, <2>1, <2>2, VisitBegins
  <2>4. Grows
    BY <1>1, <1>5 DEF Grows
  <2>5. Versions' /\ VersionsSurvive'
    BY <1>0, <1>5, <2>4, NothingWritten
  <2> QED BY <1>0, <1>1, <2>3, <2>5 DEF CompletedRunConverges
<1>6. ASSUME NEW m, \A id \in CallIds : [m EXCEPT !.id = id] \in Message /\ [m EXCEPT !.id = id].id = id,
             Asks(m) \/ (heard' = Unheard /\ UNCHANGED <<asked, wire>>),
             UNCHANGED uploads, CalmStays
      PROVE  Flows'
  BY <1>0, <1>1, <1>6, AsksFlows DEF Flows
<1>7. CASE /\ action = "skip" /\ Visited(p, action, TRUE, None)
           /\ UNCHANGED <<fs, asked, heard, wire, uploads>>
  BY <1>1, <1>4, <1>7, SkipTwoWay
<1>8. CASE /\ action = "copy-to-dst" /\ cur' = At(p, action, "transfer") /\ SendsFull(p)
           /\ UNCHANGED <<todo, newStored, blamed, fs, asked, wire>>
  <2>1. /\ Versions' /\ VersionsSurvive' /\ CompletedRunConverges' /\ Plans' /\ CalmStays
    BY <1>5, <1>8
  <2>2. Excused(p) \/ walked["A"][p] = MetaOf(fs["A"][p])
    BY <1>0, <1>1, VisitKnown
  <2>3. \/ heard' = Unheard /\ uploads' = uploads
        \/ heard' = None /\ \E u : /\ u.caller = <<>> /\ uploads' = uploads \cup {u}
                                   /\ \A x \in {u} : Excused(x.path)' \/ Exact(x)'
    BY <1>1, <1>8, <2>2, SendsFullExact
  <2>4. heard' = None \/ ~heard'.ok
    BY <2>3 DEF Unheard
  <2>5. Flows'
    BY <1>0, <1>1, <1>8, <2>1, <2>3, <2>4, BeginsFlows DEF Flows
  <2> QED BY <2>1, <2>5 DEF TwoWay
<1>9. CASE /\ action = "copy-to-dst" /\ cur' = At(p, action, "signature")
           /\ Asks([op |-> "signature", id |-> 0, path |-> p])
           /\ UNCHANGED <<todo, newStored, blamed, fs, uploads>>
  <2>1. /\ Versions' /\ VersionsSurvive' /\ CompletedRunConverges' /\ Plans' /\ CalmStays
    BY <1>5, <1>9
  <2> DEFINE m == [op |-> "signature", id |-> 0, path |-> p]
  <2>2. \A id \in CallIds : [m EXCEPT !.id = id] \in Message /\ [m EXCEPT !.id = id].id = id
    BY <1>3, AskPaths
  <2>3. Asks(m)
    BY <1>9
  <2> HIDE DEF m
  <2>4. Flows'
    BY <1>6, <1>9, <2>1, <2>2, <2>3
  <2> QED BY <2>1, <2>4 DEF TwoWay
<1>10. CASE /\ action = "copy-to-src" /\ cur' = At(p, action, "transfer")
            /\ \/ heard' = Unheard /\ UNCHANGED <<asked, wire>>
               \/ Asks([op |-> "send", id |-> 0, path |-> p, basis |-> basis])
            /\ UNCHANGED <<todo, newStored, blamed, fs, uploads>>
  <2>1. /\ Versions' /\ VersionsSurvive' /\ CompletedRunConverges' /\ Plans' /\ CalmStays
    BY <1>5, <1>10
  <2> DEFINE m == [op |-> "send", id |-> 0, path |-> p, basis |-> basis]
  <2>2. \A id \in CallIds : [m EXCEPT !.id = id] \in Message /\ [m EXCEPT !.id = id].id = id
    BY <1>3, AskPaths
  <2>3. Asks(m) \/ (heard' = Unheard /\ UNCHANGED <<asked, wire>>)
    BY <1>10
  <2> HIDE DEF m
  <2>4. Flows'
    BY <1>6, <1>10, <2>1, <2>2, <2>3
  <2> QED BY <2>1, <2>4 DEF TwoWay
<1>11. CASE /\ action = "delete-dst" /\ cur' = At(p, action, "transfer")
            /\ Asks([op |-> "delete", id |-> 0, path |-> p])
            /\ UNCHANGED <<todo, newStored, blamed, fs, uploads>>
  <2>1. /\ Versions' /\ VersionsSurvive' /\ CompletedRunConverges' /\ Plans' /\ CalmStays
    BY <1>5, <1>11
  <2> DEFINE m == [op |-> "delete", id |-> 0, path |-> p]
  <2>2. \A id \in CallIds : [m EXCEPT !.id = id] \in Message /\ [m EXCEPT !.id = id].id = id
    BY <1>3, AskPaths
  <2>3. Asks(m)
    BY <1>11
  <2> HIDE DEF m
  <2>4. Flows'
    BY <1>6, <1>11, <2>1, <2>2, <2>3
  <2> QED BY <2>1, <2>4 DEF TwoWay
<1>12. CASE /\ action = "delete-src" /\ fs' = [fs EXCEPT !["A"][p] = None]
            /\ Visited(p, action, fs["A"][p] # None, None)
            /\ UNCHANGED <<asked, heard, wire, uploads>>
  BY <1>1, <1>4, <1>12, DeleteSrcTwoWay
<1> QED BY <1>2, <1>7, <1>8, <1>9, <1>10, <1>11, <1>12

\* The signature has come, and the upload begins.
LEMMA HearSignatureTwoWay ==
    ASSUME RemoteTypeOK, Core, Core', DeleteInv, TwoWay, Bidir, GoesOn, HearSignature, Observe
    PROVE  TwoWay'
<1> DEFINE p == cur.path
<1>0. /\ RunPlan /\ RunFits /\ CallersFit /\ WalksExact /\ RunTyped /\ "A" \in Devices /\ "B" \in Devices
      /\ Versions /\ Plans /\ Flows /\ VersionsSurvive /\ CompletedRunConverges
  BY RunParts DEF Devices, TwoWay
<1>1. /\ cur # None /\ cur.step = "signature" /\ heard # None
      /\ cur' = [cur EXCEPT !.step = "transfer"]
      /\ \/ SendsFull(p)
         \/ /\ fs["A"][p] # None /\ heard' = None
            /\ \E n \in FreshNumbers :
                  Begun(Uploading(n, "A", <<>>, p, "delta", walked["A"][p], fs["A"][p], heard.basis))
      /\ UNCHANGED <<phase, walked, todo, newStored, movedSums, fs, asked, wire, stored, blamed,
                     diverged, touched, job>>
  BY DEF HearSignature, Still, settings
<1>2. asked = 0 /\ NoUpload
  BY <1>0, <1>1, Waiting
<1>3. cur.action = "copy-to-dst" /\ cur \in Cursor /\ cur.path \in Paths
  BY <1>0, <1>1 DEF RunFits, RunTyped, Cursor
<1>4. /\ cur'.path = cur.path /\ cur'.from = cur.from /\ cur'.action = cur.action /\ cur' # None
  <2>1. cur' \in Cursor /\ cur'.path = cur.path /\ cur'.from = cur.from /\ cur'.action = cur.action
    BY <1>1, <1>3 DEF Cursor
  <2> QED BY <2>1, NotNone
<1>5. p \in Paths /\ p = cur.path
  BY <1>3
<1>6. Grows
  BY <1>1 DEF Grows
<1>7. Versions' /\ VersionsSurvive' /\ propagated \subseteq propagated' /\ \A q : Excused(q)' <=> Excused(q)
  <2>1. Versions' /\ VersionsSurvive' /\ propagated \subseteq propagated'
    BY <1>0, <1>1, <1>6, NothingWritten
  <2> QED BY <1>1, <2>1 DEF Excused
<1> HIDE DEF p
<1>8. Excused(p) \/ walked["A"][p] = MetaOf(fs["A"][p])
  <2>1. CopyTo("B") = "copy-to-dst" /\ Other("B") = "A"
    BY Two, <1>0 DEF CopyTo, Devices
  <2>2. cur # None /\ cur.action = CopyTo("B")
    BY <1>1, <1>3, <2>1
  <2>3. Excused(cur.path) \/ MetaOf(fs[Other("B")][cur.path]) = walked[Other("B")][cur.path]
    BY <1>0, <2>2 DEF Plans, CopyFits
  <2> QED BY <1>5, <2>1, <2>3
<1>9. \/ heard' = Unheard /\ uploads' = uploads
      \/ heard' = None /\ \E u : /\ u.caller = <<>> /\ uploads' = uploads \cup {u}
                                 /\ \A x \in {u} : Excused(x.path)' \/ Exact(x)'
  <2>1. CASE SendsFull(p)
    BY <1>1, <1>8, <2>1, SendsFullExact
  <2>2. CASE /\ fs["A"][p] # None /\ heard' = None
             /\ \E n \in FreshNumbers :
                   Begun(Uploading(n, "A", <<>>, p, "delta", walked["A"][p], fs["A"][p], heard.basis))
    <3>1. PICK n \in FreshNumbers :
             Begun(Uploading(n, "A", <<>>, p, "delta", walked["A"][p], fs["A"][p], heard.basis))
      BY <2>2
    <3>2. \E u : /\ u.caller = <<>> /\ uploads' = uploads \cup {u}
                 /\ \A x \in {u} : Excused(x.path)' \/ Exact(x)'
      BY <1>1, <1>8, <2>2, <3>1, UploadingExact
    <3> QED BY <2>2, <3>2
  <2> QED BY <1>1, <2>1, <2>2
<1>10. heard' = None \/ ~heard'.ok
  BY <1>9 DEF Unheard
<1>11. RecordsFaithful'
  BY <1>0, <1>1, <1>6, <1>7, RecordsKept DEF Plans
<1>12. MovesFaithful'
  <2>1. \A q \in Paths : movedSums'[q] # None =>
          /\ phase' \in {"srcmoves", "dstmoves", "visit"}
          /\ Excused(q)' \/ (/\ walked'["A"][q] # None /\ walked'["A"][q] = walked'["B"][q]
                             /\ movedSums'[q] = walked'["A"][q].mtimeMs)
    BY <1>0, <1>1, <1>7 DEF Plans, MovesFaithful
  <2>2. ~Moving'
    BY <1>3, <1>4 DEF Moving
  <2> QED BY <2>1, <2>2 DEF MovesFaithful
<1>13. PlanFits'
  BY <1>0, <1>1, <1>4 DEF Plans, PlanFits, ActionFor
<1>14. CopyFits'
  <2>1. ASSUME NEW d \in Devices, cur'.action = CopyTo(d), ~Excused(cur.path)
        PROVE  /\ MetaOf(fs[Other(d)][cur.path]) = walked[Other(d)][cur.path]
               /\ MetaOf(fs[d][cur.path]) = walked[d][cur.path] \/ Alike(cur.path)
    BY <1>0, <1>1, <1>4, <2>1 DEF Plans, CopyFits
  <2> QED BY <1>1, <1>4, <1>7, <2>1 DEF CopyFits, Excused, MetaOf, Alike
<1>15. Converging'
  BY <1>0, <1>1, <1>7 DEF Plans, Converging, Alike
<1>16. CalmStays
  <2>1. ASSUME NEW q \in Paths, Settled(q), ~Excused(q)'
        PROVE  Matches(newStored[q], q)' /\ ~Working(q)'
    <3>1. Matches(newStored[q], q)'
      BY <1>1, <2>1 DEF Settled, Matches, MetaOf
    <3> QED BY <1>1, <1>4, <2>1, <3>1 DEF Settled, Working
  <2> QED BY <1>1, <1>6, <2>1, CalmKept
<1>17. Flows'
  BY <1>0, <1>1, <1>2, <1>9, <1>10, <1>16, BeginsFlows DEF Flows
<1>18. CompletedRunConverges'
  BY <1>0, <1>1 DEF CompletedRunConverges
<1> QED BY <1>7, <1>11, <1>12, <1>13, <1>14, <1>15, <1>17, <1>18 DEF TwoWay, Plans

\* What ends a copy bears a checksum.
LEMMA HeardSum ==
    ASSUME NEW h \in Heard, h.answer \in {"upload", "send"}
    PROVE  "sum" \in DOMAIN h
<1>1. CASE h \in [answer : {"none"}, ok : {FALSE}]
  BY <1>1
<1>2. CASE h \in [answer : {"upload"}, ok : BOOLEAN, sum : Contents]
  BY <1>2
<1>3. CASE h \in TransferMessage \cup RemoteMessage /\ IsAnswer(h)
  <2>1. CASE h \in [answer : {"transfer"}, id : CallIds, ok : BOOLEAN, next : 0..2]
    BY <2>1
  <2>2. CASE h \in [answer : {"send"}, id : CallIds, ok : BOOLEAN, sum : Contents \cup {None}]
    BY <2>2
  <2>3. CASE h \in [answer : {"manifest"}, id : CallIds, ok : {TRUE}, listing : Listing]
    BY <2>3
  <2>4. CASE h \in [answer : {"signature"}, id : CallIds, ok : BOOLEAN, basis : Contents \cup {None}]
    BY <2>4
  <2>5. CASE h \in [answer : {"done"}, id : CallIds, ok : BOOLEAN]
    BY <2>5
  <2>6. /\ h \notin [op : {"start"}, id : CallIds, session : SessionIds,
                       kind : {"full", "delta"}, path : Paths, meta : Meta]
        /\ h \notin [op : {"chunk"}, session : SessionIds, write : Write]
        /\ h \notin [op : {"finish"}, id : CallIds, session : SessionIds, n : Numbers,
                     expect : Contents, size : Sizes]
        /\ h \notin [op : {"abort"}, id : CallIds, session : SessionIds]
    BY <1>3 DEF IsAnswer
  <2>7. /\ h \notin [op : {"manifest"}, id : CallIds]
        /\ h \notin [op : {"signature", "delete"}, id : CallIds, path : Paths]
        /\ h \notin [op : {"send"}, id : CallIds, path : Paths, basis : Contents \cup {None}]
        /\ h \notin [op : {"move"}, id : CallIds, from : Paths, to : Paths, meta : Meta]
    BY <1>3 DEF IsAnswer
  <2> QED BY <1>3, <2>1, <2>2, <2>3, <2>4, <2>5, <2>6, <2>7 DEF TransferMessage, RemoteMessage
<1> QED BY <1>1, <1>2, <1>3 DEF Heard

\* The run's upload, or delete, has ended.
LEMMA HearOutcomeTwoWay ==
    ASSUME RemoteTypeOK, Core, Core', DeleteInv, TwoWay, Bidir, GoesOn, HearOutcome, Observe
    PROVE  TwoWay'
<1> DEFINE sum == IF "sum" \in DOMAIN heard /\ heard.ok THEN heard.sum ELSE None
           p == cur.path
           a == cur.action
           ok == heard.ok
           r == RecordOf(p, a, ok, sum)
<1>0. /\ RunPlan /\ RunFits /\ CallersFit /\ RunTyped /\ TransferTyped
      /\ "A" \in Devices /\ "B" \in Devices
      /\ Versions /\ Plans /\ Flows
  BY RunParts DEF Devices, TwoWay
<1>1. /\ cur # None /\ cur.step = "transfer" /\ cur.action # "move" /\ heard # None /\ heard' = None
      /\ phase # "delete" => Visited(p, a, ok, sum)
      /\ UNCHANGED <<phase, walked, movedSums, fs, uploads, asked, wire, stored, touched, diverged, job>>
  BY DEF HearOutcome, UploadsOnly, Still, settings
<1>2. asked = 0 /\ NoUpload
  BY <1>0, <1>1, Waiting
<1>3. phase = "visit"
  BY <1>0, <1>1 DEF RunFits, RunTyped, RunPlan
<1>4. cur \in Cursor /\ p \in Paths /\ p \in todo /\ a \in {"copy-to-dst", "copy-to-src", "delete-dst"}
  BY <1>0, <1>1 DEF RunTyped, Cursor, RunPlan
<1>5. Visited(p, a, ok, sum) /\ newStored'[p] = r /\ blamed' = IF ok THEN blamed ELSE blamed \cup {p}
  <2>1. Visited(p, a, ok, sum)
    BY <1>1, <1>3
  <2> QED BY <1>0, <1>4, <2>1 DEF Visited, RunTyped, Records
<1>6. heard \in Heard /\ heard.answer \in {Wanted, "none"}
  BY <1>0, <1>1 DEF RunFits, TransferTyped
<1>7. ok \in BOOLEAN /\ (heard.answer = "none" => ~ok)
  BY <1>6, HeardTypes
<1>8. propagated \subseteq propagated'
  BY ObservedBoth
<1>9. p = cur.path /\ a = cur.action /\ ok = heard.ok
  OBVIOUS
<1> HIDE DEF p, a, ok
<1>10. ASSUME NEW q, q = p, ~Excused(q)' PROVE Alike(q)' /\ Faithful(newStored[q])'
  <2>1. ok /\ ~Excused(p)
    <3>1. q \notin touched \cup blamed'
      BY <1>1, <1>10 DEF Excused
    <3>2. ok
      BY <1>5, <1>7, <1>10, <3>1
    <3> QED BY <1>5, <1>10, <3>1, <3>2 DEF Excused
  <2>2. Outcome(heard)
    BY <1>0, <1>1, <1>9, <2>1 DEF Flows, OutcomesTrue
  <2>3. Alike(p)
    BY <1>1, <1>4, <1>9, <2>1, <2>2 DEF Outcome, Copied
  <2>4. Faithful(r)
    <3>1. CASE a \in {"copy-to-dst", "copy-to-src"}
      <4>1. /\ fs["A"][p] # None /\ heard.sum = fs["A"][p].data
        BY <1>1, <1>9, <2>1, <2>2, <3>1 DEF Outcome, Copied
      <4>2. Wanted \in {"upload", "send"}
        BY <1>1, <1>3, <1>9, <3>1 DEF Wanted
      <4>3. "sum" \in DOMAIN heard
        BY <1>6, <1>7, <2>1, <4>2, HeardSum
      <4>4. sum = fs["A"][p].data
        BY <1>9, <2>1, <4>1, <4>3
      <4>5. fs["A"][p].data # None
        <5>1. fs["A"][p] \in Entry
          BY <1>0, <1>4, <4>1 DEF TransferTyped
        <5>2. Genuine(fs["A"][p])
          BY <1>0, <1>4, <2>1 DEF Versions, Pure, Excused
        <5>3. fs["A"][p].data \in Nat
          BY <4>1, <5>1, <5>2, TransferAssumption DEF Genuine, Entry, Times
        <5> QED BY <5>3, RemoteNone
      <4>6. r.sum = fs["A"][p].data
        BY <4>4, <4>5 DEF RecordOf, Bidir
      <4>7. r.src = MetaOf(fs["A"][p]) /\ r.dst = MetaOf(fs["A"][p])
        <5>1. CASE a = "copy-to-dst"
          <6>1. a = CopyTo("B") /\ Other("B") = "A"
            BY <1>0, <5>1 DEF CopyTo, Other, Devices
          <6>2. MetaOf(fs[Other("B")][p]) = walked[Other("B")][p]
            BY <1>0, <1>1, <1>9, <2>1, <6>1 DEF Plans, CopyFits
          <6>3. r.src = walked["A"][p] /\ r.dst = walked["A"][p]
            BY <2>1, <5>1 DEF RecordOf, Bidir
          <6> QED BY <6>1, <6>2, <6>3
        <5>2. CASE a = "copy-to-src"
          <6>1. a = CopyTo("A") /\ Other("A") = "B"
            BY <1>0, <5>2 DEF CopyTo, Other, Devices
          <6>2. MetaOf(fs[Other("A")][p]) = walked[Other("A")][p]
            BY <1>0, <1>1, <1>9, <2>1, <6>1 DEF Plans, CopyFits
          <6>3. r.src = walked["B"][p] /\ r.dst = walked["B"][p]
            BY <2>1, <5>2 DEF RecordOf, Bidir
          <6> QED BY <2>3, <6>1, <6>2, <6>3 DEF Alike
        <5> QED BY <3>1, <5>1, <5>2
      <4> HIDE DEF r
      <4>8. r.dst = MetaOf(fs["B"][p])
        BY <2>3, <4>7 DEF Alike
      <4> QED BY <1>0, <1>4, <2>1, <2>3, <4>6, <4>7, <4>8, AlikeRecord DEF Versions
    <3>2. CASE a = "delete-dst"
      <4>1. ActionFor(p) = "delete-dst"
        BY <1>0, <1>1, <1>3, <1>9, <3>2 DEF Plans, PlanFits
      <4>2. Both(stored[p]) /\ walked["A"][p] = None /\ walked["B"][p] # None
        BY <1>4, <4>1, DeletesWhatWentAway
      <4>3. stored[p] # None /\ stored[p].dst = walked["B"][p]
        <5>1. resolveAction(walked["A"][p], walked["B"][p], stored[p]) = "delete-dst"
          BY <4>1 DEF ActionFor, newerWins, Bidir
        <5>2. ~fileChanged(walked["B"][p], stored[p], "dst")
          BY <4>2, <5>1 DEF resolveAction
        <5> QED BY <4>2, <5>2 DEF fileChanged, Both
      <4>4. Faithful(stored[p])
        BY <1>0, <1>4, <2>1, <4>3 DEF Plans, RecordsFaithful, Excused
      <4>5. r.src = None /\ r.dst = walked["B"][p]
        BY <2>1, <3>2, <4>2 DEF RecordOf, Bidir
      <4> HIDE DEF r
      <4> QED BY <4>2, <4>3, <4>4, <4>5 DEF Faithful, Both
    <3> QED BY <1>4, <1>9, <3>1, <3>2
  <2> HIDE DEF r
  <2>5. newStored'[q] = r
    BY <1>5, <1>10
  <2> QED BY <1>1, <1>8, <1>10, <2>3, <2>4, <2>5 DEF Alike, Faithful, Both
<1> HIDE DEF sum, r
<1>11. p \in Paths /\ p \in todo /\ cur # None
  BY <1>1, <1>4, <1>9
<1> QED
  <2>1. PICK q \in Paths : q = p
    BY <1>11
  <2>2. /\ q \in todo /\ cur.path = q /\ cur # None /\ phase = "visit" /\ asked = 0 /\ NoUpload /\ heard' = None
        /\ UNCHANGED <<phase, walked, stored, movedSums, touched, uploads, asked, wire, diverged, fs>>
        /\ Visited(q, a, ok, sum)
        /\ ~Excused(q)' => Alike(q)' /\ Faithful(newStored[q])'
    BY <1>1, <1>2, <1>3, <1>5, <1>9, <1>10, <1>11, <2>1
  <2> QED BY <2>2, VisitedTwoWay

(*** every step ***)

\* A one-way run writes over what it likes; nothing is asked of it here.
LEMMA OneWayKeeps ==
    ASSUME TwoWay, ~Bidir, Observe,
           \/ EngineSteps \/ TransferSteps \/ TimeOuts \/ LinkRecovers
           \/ UserSteps \/ Cancel \/ LinkBreaks \/ \E d \in Devices : AgentDies(d)
    PROVE  TwoWay'
<1>1. job' = job /\ diverged' \in {diverged, {}}
  <2>1. CASE StartRun
    BY <2>1 DEF StartRun
  <2>2. CASE HearListing
    BY <2>2 DEF HearListing, RunFails, Still, settings
  <2>3. CASE SrcMoves
    BY <2>3 DEF SrcMoves, RunFails, Still, settings
  <2>4. CASE HearMove
    BY <2>4 DEF HearMove, RunFails, Still, settings
  <2>5. CASE DstMoves
    BY <2>5 DEF DstMoves, RunFails, Still, settings
  <2>6. CASE \E p \in Paths : Visit(p)
    BY <2>6 DEF Visit, settings
  <2>7. CASE \E p \in Paths : DeleteOrphan(p)
    BY <2>7 DEF DeleteOrphan, Still, settings
  <2>8. CASE HearSignature \/ HearOutcome
    BY <2>8 DEF HearSignature, HearOutcome, Still, settings
  <2>9. CASE Abort \/ ToDeletes
    BY <2>9 DEF Abort, RunFails, ToDeletes, Still, settings
  <2>10. CASE FinishRun
    BY <2>10 DEF FinishRun, Still, settings, Bidir
  <2>11. CASE \E t \in Transports : RequestAnswered(t) \/ RequestHandled(t)
    BY <2>11 DEF RequestAnswered, RequestHandled, Still, settings
  <2>12. CASE TransferSteps
    BY <2>12 DEF TransferSteps, settings
  <2>13. CASE TimeOuts
    BY <2>13 DEF TimeOuts, TimeOut, Faulty, settings
  <2>14. CASE UserSteps
    <3>1. \E d, tree, ps : UserActs(d, tree, ps)
      BY <2>14 DEF UserSteps, UserWrites, UserDeletes, UserRenames
    <3> QED BY <3>1 DEF UserActs, EngineStays
  <2>15. CASE LinkRecovers \/ Cancel \/ LinkBreaks
    BY <2>15 DEF LinkRecovers, Cancel, LinkBreaks, Faulty, EngineStays, settings
  <2>16. CASE \E d \in Devices : AgentDies(d)
    BY <2>16 DEF AgentDies, Faulty, settings
  <2> QED BY <2>1, <2>2, <2>3, <2>4, <2>5, <2>6, <2>7, <2>8, <2>9, <2>10, <2>11, <2>12, <2>13,
             <2>14, <2>15, <2>16 DEF EngineSteps
<1>2. VersionsSurvive'
  BY SparesSurvive DEF TwoWay, Bidir
<1>3. CompletedRunConverges'
  BY <1>1 DEF TwoWay, CompletedRunConverges
<1>4. ~Bidir'
  BY <1>1 DEF Bidir
<1> QED BY <1>2, <1>3, <1>4 DEF TwoWay

\* Every step keeps the invariant of the two-way runs.
LEMMA TwoWaySteps ==
    ASSUME RemoteTypeOK, Core, Core', DeleteInv, Carrying, Carrying', GoesOn, TwoWay, Observe,
           \/ EngineSteps \/ TransferSteps \/ TimeOuts \/ LinkRecovers
           \/ UserSteps \/ Cancel \/ LinkBreaks \/ \E d \in Devices : AgentDies(d)
    PROVE  TwoWay'
<1>1. CASE ~Bidir
  BY <1>1, OneWayKeeps
<1>2. CASE Bidir
  <2>1. CASE \/ StartRun \/ HearListing \/ SrcMoves \/ HearMove \/ DstMoves
             \/ \E p \in Paths : Visit(p)
    BY <1>2, <2>1, StartRunTwoWay, HearListingTwoWay, SrcMovesTwoWay, HearMoveTwoWay, DstMovesTwoWay,
       VisitTwoWay
  <2>2. CASE HearSignature \/ HearOutcome \/ Abort \/ FinishRun
    BY <1>2, <2>2, HearSignatureTwoWay, HearOutcomeTwoWay, AbortTwoWay, FinishRunTwoWay
  <2>3. CASE ToDeletes \/ \E p \in Paths : DeleteOrphan(p)
    <3>1. RunPlan
      BY RunParts
    <3> QED BY <1>2, <2>3, <3>1 DEF ToDeletes, DeleteOrphan, RunPlan, Bidir
  <2>4. CASE \E t \in Transports : \/ wire["A"][t] # <<>> /\ RequestAnswered(t)
                                   \/ wire["B"][t] # <<>> /\ RequestHandled(t)
    BY <1>2, <2>4, RequestAnsweredTwoWay, RequestHandledTwoWay
  <2>5. CASE \E d \in Devices : AgentDies(d)
    BY <1>2, <2>5, SourceDiesTwoWay, OtherDiesTwoWay DEF Devices
  <2>6. CASE TransferSteps \/ TimeOuts \/ LinkRecovers \/ UserSteps \/ Cancel \/ LinkBreaks
    BY <1>2, <2>6, TransferStepsTwoWay, TimeOutsTwoWay, LinkTwoWay, UserStepsTwoWay
  <2> QED BY <2>1, <2>2, <2>3, <2>4, <2>5, <2>6 DEF EngineSteps
<1> QED BY <1>1, <1>2

\* At the start the devices hold one version, and every record is of it.
LEMMA TwoWayStarts == Init => TwoWay
<1> SUFFICES ASSUME Init PROVE TwoWay
  OBVIOUS
<1>1. PICK c \in Cases :
         LET m(p) == [size |-> c.shared[p], mtimeMs |-> 0]
         IN  /\ LinkInit(c.start)
             /\ fs = [d \in Devices |-> [p \in Paths |->
                         IF c.shared[p] = None THEN None
                         ELSE [data |-> 0, size |-> c.shared[p], mtimeMs |-> 0]]]
             /\ stored = [p \in Paths |-> IF c.shared[p] = None THEN None
                                          ELSE [src |-> m(p), dst |-> m(p), sum |-> 0]]
             /\ uploads = {} /\ sessions = {} /\ heard = None
             /\ phase = "idle" /\ cur = None
             /\ newStored = [p \in Paths |-> None] /\ movedSums = [p \in Paths |-> None]
             /\ propagated = {0} /\ lost = {} /\ diverged = {}
  BY DEF Init
<1>2. \A d \in Devices : InBox(wire, d) = {}
  <2>1. wire = [d \in Devices |-> [t \in Transports |-> <<>>]]
    BY <1>1 DEF LinkInit
  <2>2. wire \in Wires /\ \A d \in Devices, t \in Transports : Len(wire[d][t]) = 0
    BY <2>1 DEF Wires
  <2>3. \A d \in Devices : \A x : x \notin InBox(wire, d)
    BY <2>2, InBoxDef
  <2> QED BY <2>3
<1>3. "A" \in Devices /\ "B" \in Devices
  BY DEF Devices
<1>4. \A d \in Devices, p \in Paths : fs[d][p] = None \/ (fs[d][p].data = 0 /\ fs[d][p].mtimeMs = 0)
  BY <1>1
<1>5. Versions
  BY <1>1, <1>3, <1>4 DEF Versions, Pure, BothHad, Genuine
<1>6. RecordsFaithful
  <2>1. ASSUME NEW p \in Paths, stored[p] # None PROVE Faithful(stored[p])
    <3>1. /\ stored[p].src = [size |-> c.shared[p], mtimeMs |-> 0]
          /\ stored[p].dst = stored[p].src /\ stored[p].sum = 0
      BY <1>1, <2>1
    <3>2. stored[p].src.mtimeMs = 0
      BY <3>1
    <3> QED BY <1>1, <3>1, <3>2 DEF Faithful
  <2>2. \A p \in Paths : newStored[p] = None
    BY <1>1
  <2> QED BY <2>1, <2>2 DEF RecordsFaithful
<1>7. MovesFaithful /\ PlanFits /\ CopyFits /\ Converging
  BY <1>1 DEF MovesFaithful, Moving, PlanFits, CopyFits, Converging
<1>8. UploadExact /\ OutcomesTrue
  BY <1>1, <1>2, <1>3 DEF UploadExact, OutcomesTrue
<1>9. Stale
  BY <1>1, <1>2, <1>3 DEF Stale, MayPut
<1> QED BY <1>1, <1>5, <1>6, <1>7, <1>8, <1>9
        DEF TwoWay, Plans, Flows, VersionsSurvive, CompletedRunConverges

\* Nothing changes.
LEMMA TwoWayStutters ==
    ASSUME TwoWay, UNCHANGED vars
    PROVE  TwoWay'
<1>1. UNCHANGED <<fs, uploads, sessions, wire, asked, heard, job, stored, phase, walked, todo, cur, newStored,
                  movedSums, touched, blamed, propagated, lost, diverged>>
  BY DEF vars, linkVars, transferVars, settings, runVars, history
<1>2. VersionsSurvive' /\ CompletedRunConverges' /\ (Bidir' <=> Bidir)
  BY <1>1 DEF TwoWay, VersionsSurvive, CompletedRunConverges, Bidir
<1> SUFFICES ASSUME Bidir PROVE Versions' /\ Plans' /\ Flows'
  BY <1>2 DEF TwoWay
<1>3. Versions /\ Plans /\ Flows
  BY DEF TwoWay
<1>4. \A d : InBox(wire', d) = InBox(wire, d)
  BY <1>1
<1>5. /\ \A p : Excused(p)' <=> Excused(p)
      /\ \A p : Alike(p)' <=> Alike(p)
      /\ \A p : Calm(p)' <=> Calm(p)
      /\ \A u : Own(u)' <=> Own(u)
      /\ \A m : Mine(m)' <=> Mine(m)
      /\ \A m : Good(m)' <=> Good(m)
      /\ Moving' <=> Moving
  BY <1>1 DEF Excused, Alike, Calm, Settled, Matches, Working, MetaOf, Own, Mine, Good, Moving
<1>6. Versions'
  BY <1>1, <1>3 DEF Versions, Pure, BothHad, Genuine
<1>7. RecordsFaithful'
  BY <1>1, <1>3, <1>5 DEF Plans, RecordsFaithful, Faithful, Both
<1>8. MovesFaithful'
  BY <1>1, <1>3, <1>5 DEF Plans, MovesFaithful
<1>9. PlanFits'
  BY <1>1, <1>3 DEF Plans, PlanFits, ActionFor
<1>10. CopyFits'
  BY <1>1, <1>3, <1>5 DEF Plans, CopyFits, MetaOf
<1>11. Converging'
  BY <1>1, <1>3, <1>5 DEF Plans, Converging
<1>12. UploadExact'
  <2>1. \A u : Exact(u)' <=> Exact(u)
    BY <1>1, <1>5 DEF Exact, MetaOf
  <2> QED BY <1>1, <1>3, <1>5, <2>1 DEF Flows, UploadExact
<1>13. Stale'
  <2>1. \A d, id, p : Aims(d, id, p)' <=> Aims(d, id, p)
    BY <1>1 DEF Aims
  <2>2. \A n, p : MayPut(n, p)' <=> MayPut(n, p)
    BY <1>1, <2>1 DEF MayPut
  <2>3. \A n : Runs(n)' <=> Runs(n)
    BY <1>1, <1>5 DEF Runs
  <2>4. \A u \in uploads' : Own(u)' \/ Calm(u.path)'
    BY <1>1, <1>3, <1>5 DEF Flows, Stale
  <2>5. \A m \in InBox(wire', "B") : /\ Is(m, "send") => Mine(m)' \/ Calm(m.path)'
                                     /\ Is(m, "move") => Mine(m)' \/ Calm(m.to)'
    BY <1>3, <1>4, <1>5 DEF Flows, Stale
  <2>6. \A n \in Numbers, p \in Paths : MayPut(n, p)' => Runs(n)' \/ Calm(p)'
    BY <1>3, <1>5, <2>2, <2>3 DEF Flows, Stale
  <2> QED BY <2>4, <2>5, <2>6 DEF Stale
<1>14. OutcomesTrue'
  <2>1. \A m : Outcome(m)' <=> Outcome(m)
    BY <1>1, <1>5 DEF Outcome, Copied
  <2> QED BY <1>1, <1>3, <1>4, <1>5, <2>1 DEF Flows, OutcomesTrue
<1> QED BY <1>6, <1>7, <1>8, <1>9, <1>10, <1>11, <1>12, <1>13, <1>14 DEF Plans, Flows

\* The invariant of the two-way runs is inductive, with the others.
LEMMA TwoWayInductive == RemoteInv /\ DeleteInv /\ Carrying /\ TwoWay /\ [Next]_vars => TwoWay'
<1> SUFFICES ASSUME RemoteInv, DeleteInv, Carrying, TwoWay, [Next]_vars PROVE TwoWay'
  OBVIOUS
<1>1. RemoteTypeOK /\ Core
  BY InvParts
<1>2. CASE Next
  <2>1. Core'
    BY <1>1, <1>2, EveryStep DEF Next
  <2>2. GoesOn /\ Carrying'
    BY <1>1, <1>2, AllGoes, CarryingKept DEF Going, Carrying
  <2> QED BY <1>1, <1>2, <2>1, <2>2, TwoWaySteps DEF Next
<1> QED BY <1>2, TwoWayStutters

\* What a two-way run writes over had been on both devices, or lost a conflict by its
\* time, or the user had a hand in it, or an earlier run went wrong over the path: no only
\* copy of a version is lost (the plan of bidir.ts, the replays of remote.ts, and the
\* late, resumed and repeated writes of the transfer handlers).
THEOREM RemoteVersionsSurvive == Spec => []VersionsSurvive
<1>1. TwoWay => VersionsSurvive
  BY DEF TwoWay
<1> QED BY <1>1, RemoteInvariant, RemoteDeleteInvariant, RemoteCarrying, TwoWayStarts, TwoWayInductive,
           PTL DEF Spec

\* A two-way run that completes leaves the devices with the same file at every path that
\* the user left alone and that no step failed over, whatever was late, lost or repeated.
THEOREM RemoteRunsConverge == Spec => []CompletedRunConverges
<1>1. TwoWay => CompletedRunConverges
  BY DEF TwoWay
<1> QED BY <1>1, RemoteInvariant, RemoteDeleteInvariant, RemoteCarrying, TwoWayStarts, TwoWayInductive,
           PTL DEF Spec
=============================================================================
