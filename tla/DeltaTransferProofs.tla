------------------------- MODULE DeltaTransferProofs -------------------------
(***************************************************************************)
(* What is proved of transfers by delta, for all files, block sizes and    *)
(* bounds: their types, that the agent installs whole versions, and that   *)
(* the scan is exact at every turn.                                        *)
(*                                                                         *)
(* The last is induction over data.  The numbers at which a fact fails, if *)
(* there are any, have a least one (WFMin); the folds of the libraries are *)
(* read as the function their definition chooses.                          *)
(***************************************************************************)
EXTENDS DeltaTransfer, WellFoundedInduction, FiniteSetTheorems, SequenceTheorems, TLAPS

\* What a walk sees of a file is a size and a time (MetaOf).
LEMMA MetaType == ASSUME NEW f \in File PROVE MetaOf(f) \in Meta
BY DEF MetaOf, File, Meta

\* Reading a block leaves two sequences of bytes (io.ReadFull).
LEMMA BlockType ==
    ASSUME NEW s \in Seq(Bytes)
    PROVE  FirstBlock(s) \in Seq(Bytes) /\ Remaining(s) \in Seq(Bytes)
BY DeltaAssumption DEF FirstBlock, Remaining

\* A failed delta leaves the transfer without a result, or ends it.
LEMMA FailureForgets ==
    ASSUME DeltaFails
    PROVE  /\ phase' \in {"idle", "sign", "full"}
           /\ versions' = versions \/ (phase' = "idle" /\ versions' = {})
           /\ entry' = entry \/ phase' = "idle"
           /\ tries' \in {0, tries} \/ (tries < Retries /\ tries' = tries + 1)
BY DEF DeltaFails, TransferOver

\* The scan's variables keep their types when a block is found: what is left is read
\* in blocks (BuildDelta).
LEMMA CopyType ==
    ASSUME ScanTypeOK, NEW block, scan' = ScanCopy(scan, block)
    PROVE  ScanTypeOK'
BY BlockType, DeltaAssumption DEF ScanTypeOK, ScanCopy

\* They keep them at the last window.
LEMMA LastType == ASSUME ScanTypeOK, scan' = ScanLast(scan) PROVE ScanTypeOK'
BY DeltaAssumption DEF ScanTypeOK, ScanLast

\* And when the window moves by a byte, of which maxDataRun are never held back.
LEMMA RollType ==
    ASSUME ScanTypeOK, ~IsLast(scan), scan' = ScanRoll(scan)
    PROVE  ScanTypeOK'
<1>1. scan.window # <<>> /\ scan.rest # <<>>
  BY DeltaAssumption DEF ScanTypeOK, IsLast
<1>2. /\ Head(scan.window) \in Bytes /\ Tail(scan.window) \in Seq(Bytes)
      /\ Head(scan.rest) \in Bytes /\ Tail(scan.rest) \in Seq(Bytes)
  BY <1>1 DEF ScanTypeOK
<1> DEFINE pending == Append(scan.pending, Head(scan.window))
<1>3. pending \in Seq(Bytes) /\ Len(pending) \in Nat
  BY <1>2 DEF ScanTypeOK
<1>4. /\ DOMAIN scan' = DOMAIN scan
      /\ scan'.window = Append(Tail(scan.window), Head(scan.rest))
      /\ scan'.rest = Tail(scan.rest)
      /\ scan'.pending = IF Len(pending) >= maxDataRun THEN <<>> ELSE pending
      /\ scan'.done = scan.done
  BY DEF ScanTypeOK, ScanRoll
<1>5. {scan'.window, scan'.rest, scan'.pending} \subseteq Seq(Bytes)
  BY <1>2, <1>3, <1>4
<1>6. Len(scan'.pending) < maxDataRun
  BY <1>3, <1>4, DeltaAssumption
<1> QED BY <1>4, <1>5, <1>6 DEF ScanTypeOK

\* After a failure every variable of the transfer is of its type again.
LEMMA FailureType ==
    ASSUME DeltaTypeOK, DeltaFails
    PROVE  /\ phase' \in Phases \ {"store", "restore", "scan", "open", "hash", "apply", "install"}
           /\ phase' # "idle" /\ phase # "idle" => entry' \in [src : Meta, dst : Meta]
           /\ tries' \in 0..Retries
           /\ versions' \subseteq Files
BY TransferAssumption DEF DeltaFails, TransferOver, DeltaTypeOK, Phases

\* A transfer that is over has made no retry.
LEMMA OverType == ASSUME TransferOver PROVE tries' \in 0..Retries
BY TransferAssumption DEF TransferOver

\* An event that happened may happen once less.
LEMMA SpendType ==
    ASSUME budget \in [Events -> Nat], NEW e \in Events, Spend(e)
    PROVE  budget' \in [Events -> Nat]
BY DEF Spend

-----------------------------------------------------------------------------

\* Every step keeps the types.
LEMMA TypeStep == ASSUME DeltaTypeOK, [Next]_vars PROVE DeltaTypeOK'
<1>1. ASSUME StartTransfer PROVE DeltaTypeOK'
  BY <1>1, MetaType DEF StartTransfer, DeltaTypeOK, Phases, File
<1>2. ASSUME EnsureSignature PROVE DeltaTypeOK'
  <2>1. BuildSignature(dst.data) \in Signatures
    BY DEF DeltaTypeOK, File, Signatures
  <2>2. phase = "sign" => Key \in Meta /\ cache[Key] \in Signatures \cup {None, Torn}
    BY DEF DeltaTypeOK, Key
  <2>3. CASE phase = "sign" /\ cache[Key] # None
    BY <1>2, <2>2, <2>3 DEF EnsureSignature, Goes, outside, DeltaTypeOK, Phases
  <2>4. CASE phase = "sign" /\ cache[Key] = None
    BY <1>2, <2>1, <2>4 DEF EnsureSignature, Goes, outside, DeltaTypeOK, Phases
  <2>5. CASE phase = "resign" /\ cache[Key] # None
    BY <1>2, <2>5, OverType DEF EnsureSignature, TransferOver, outside, DeltaTypeOK, Phases
  <2>6. CASE phase = "resign" /\ cache[Key] = None
    BY <1>2, <2>1, <2>6 DEF EnsureSignature, Goes, outside, DeltaTypeOK, Phases
  <2> QED BY <1>2, <2>3, <2>4, <2>5, <2>6 DEF EnsureSignature
<1>3. ASSUME StoreSignature PROVE DeltaTypeOK'
  <2>1. cache' \in [Meta -> Signatures \cup {None, Torn}]
    BY <1>3 DEF StoreSignature, DeltaTypeOK
  <2>2. CASE phase = "store"
    BY <1>3, <2>1, <2>2 DEF StoreSignature, Goes, outside, DeltaTypeOK, Phases
  <2>3. CASE phase = "restore"
    BY <1>3, <2>1, <2>3, OverType DEF StoreSignature, TransferOver, outside, DeltaTypeOK, Phases
  <2> QED BY <1>3, <2>2, <2>3 DEF StoreSignature
<1>4. ASSUME OpenSource PROVE DeltaTypeOK'
  <2>1. CASE sig = Torn
    BY <1>4, <2>1, FailureType, FailureForgets DEF OpenSource, outside, DeltaTypeOK
  <2>2. CASE sig # Torn
    <3>1. src.data \in Seq(Bytes)
      BY TransferAssumption DEF DeltaTypeOK, File
    <3>2. scan' = ScanOf(src.data)
      BY <1>4, <2>2 DEF OpenSource
    <3>3. /\ DOMAIN scan' = {"window", "weak", "rest", "pending", "ops", "done"}
          /\ scan'.window = FirstBlock(src.data) /\ scan'.rest = Remaining(src.data)
          /\ scan'.pending = <<>> /\ scan'.done = (src.data = <<>>)
      BY <3>2 DEF ScanOf
    <3>4. scan'.done \in BOOLEAN
      BY <3>3, Zenon
    <3>5. {scan'.window, scan'.rest, scan'.pending} \subseteq Seq(Bytes)
      BY <3>1, <3>3, BlockType
    <3>6. Len(scan'.pending) < maxDataRun
      BY <3>3, DeltaAssumption
    <3>7. ScanTypeOK'
      BY <3>3, <3>4, <3>5, <3>6 DEF ScanTypeOK
    <3> QED BY <1>4, <2>2, <3>7 DEF OpenSource, Goes, outside, DeltaTypeOK, Phases
  <2> QED BY <2>1, <2>2
<1>5. ASSUME Scan PROVE DeltaTypeOK'
  <2>1. ScanTypeOK'
    BY <1>5, CopyType, LastType, RollType
       DEF Scan, BlockFound, LastWindow, NextWindow, Scanning, Scanned, DeltaTypeOK
  <2> QED BY <1>5, <2>1
          DEF Scan, BlockFound, LastWindow, NextWindow, Scanned, outside, DeltaTypeOK
<1>6. ASSUME CompareSizes PROVE DeltaTypeOK'
  <2>1. CASE DeltaFails
    BY <1>6, <2>1, FailureType DEF CompareSizes, outside, DeltaTypeOK
  <2>2. CASE Goes("hash") /\ UNCHANGED <<sig, scan, target, reading>>
    BY <1>6, <2>2 DEF CompareSizes, Goes, outside, ScanTypeOK, DeltaTypeOK, Phases
  <2> QED BY <1>6, <2>1, <2>2 DEF CompareSizes
<1>7. ASSUME HashSource PROVE DeltaTypeOK'
  BY <1>7 DEF HashSource, Goes, outside, ScanTypeOK, DeltaTypeOK, Phases, File
<1>8. ASSUME ApplyDelta PROVE DeltaTypeOK'
  <2>1. CASE DeltaFails
    BY <1>8, <2>1, FailureType DEF ApplyDelta, outside, DeltaTypeOK
  <2>2. CASE Goes("install") /\ UNCHANGED <<sig, scan, target, reading>>
    BY <1>8, <2>2 DEF ApplyDelta, Goes, outside, ScanTypeOK, DeltaTypeOK, Phases
  <2> QED BY <1>8, <2>1, <2>2 DEF ApplyDelta
<1>9. ASSUME Install PROVE DeltaTypeOK'
  <2>1. dst' \in File
    BY <1>9, TransferAssumption DEF Install, DeltaTypeOK, File, Times, Written
  <2> QED BY <1>9, <2>1 DEF Install, Goes, DeltaTypeOK, Phases
<1>10. ASSUME Stamp PROVE DeltaTypeOK'
  <2>1. dst' \in File
    BY <1>10 DEF Stamp, DeltaTypeOK, File, Meta
  <2> QED BY <1>10, <2>1 DEF Stamp, Goes, outside, DeltaTypeOK, Phases
<1>11. ASSUME DropSignature PROVE DeltaTypeOK'
  BY <1>11 DEF DropSignature, Goes, outside, DeltaTypeOK, Phases
<1>12. ASSUME CopyWhole PROVE DeltaTypeOK'
  <2>1. dst' \in File
    BY <1>12 DEF CopyWhole, DeltaTypeOK, File, Meta
  <2>2. own' \in BOOLEAN
    BY <1>12 DEF CopyWhole, DeltaTypeOK
  <2> QED BY <1>12, <2>1, <2>2, OverType DEF CopyWhole, TransferOver, DeltaTypeOK, Phases
<1>13. ASSUME EngineFails PROVE DeltaTypeOK'
  <2>1. budget' \in [Events -> Nat]
    BY <1>13, SpendType DEF EngineFails, DeltaTypeOK, Events
  <2> QED BY <1>13, <2>1, FailureType DEF EngineFails, DeltaTypeOK
<1>14. ASSUME Crash PROVE DeltaTypeOK'
  <2>1. cache' \in [Meta -> Signatures \cup {None, Torn}]
    BY <1>14 DEF Crash, DeltaTypeOK
  <2>2. budget' \in [Events -> Nat]
    BY <1>14, SpendType DEF Crash, DeltaTypeOK, Events
  <2> QED BY <1>14, <2>1, <2>2, OverType DEF Crash, TransferOver, DeltaTypeOK, Phases
<1>15. ASSUME UserEditsSource PROVE DeltaTypeOK'
  <2>1. PICK data \in Edits : /\ src' = Edited(data)
                              /\ versions' = IF phase = "idle" THEN {} ELSE versions \cup {data}
    BY <1>15 DEF UserEditsSource
  <2>2. src' \in File /\ clock' \in Times /\ versions' \subseteq Files
    BY <1>15, <2>1, TransferAssumption DEF UserEditsSource, Edited, DeltaTypeOK, File, Times
  <2>3. budget' \in [Events -> Nat]
    BY <1>15, SpendType DEF UserEditsSource, DeltaTypeOK, Events
  <2> QED BY <1>15, <2>2, <2>3 DEF UserEditsSource, ScanTypeOK, DeltaTypeOK
<1>16. ASSUME UserEditsTarget PROVE DeltaTypeOK'
  <2>1. dst' \in File /\ clock' \in Times
    BY <1>16, TransferAssumption DEF UserEditsTarget, Edited, DeltaTypeOK, File, Times
  <2>2. budget' \in [Events -> Nat]
    BY <1>16, SpendType DEF UserEditsTarget, DeltaTypeOK, Events
  <2> QED BY <1>16, <2>1, <2>2 DEF UserEditsTarget, attempt, ScanTypeOK, DeltaTypeOK
<1>17. ASSUME Restore PROVE DeltaTypeOK'
  <2>1. budget' \in [Events -> Nat]
    BY <1>17, SpendType DEF Restore, DeltaTypeOK, Events
  <2> QED BY <1>17, <2>1 DEF Restore, attempt, ScanTypeOK, DeltaTypeOK
<1>18. ASSUME UNCHANGED vars PROVE DeltaTypeOK'
  BY <1>18 DEF vars, attempt, outside, ScanTypeOK, DeltaTypeOK
<1> QED BY <1>1, <1>2, <1>3, <1>4, <1>5, <1>6, <1>7, <1>8, <1>9, <1>10, <1>11, <1>12,
           <1>13, <1>14, <1>15, <1>16, <1>17, <1>18 DEF Next, Agent

\* DeltaTypeOK holds of every behaviour.
THEOREM TypeCorrect == Spec => []DeltaTypeOK
<1>1. Init => DeltaTypeOK
  BY TransferAssumption DEF Init, Fresh, DeltaTypeOK, Phases, Times
<1> QED BY <1>1, TypeStep, PTL DEF Spec

-----------------------------------------------------------------------------

\* What the versions of the source mean for a transfer under way: its live content
\* is one, and so is what it is about to install.
VersionInv ==
    /\ phase # "idle" => src.data \in versions
    /\ phase \in {"apply", "install"} => target \in versions

\* Every step keeps the invariant: versions are forgotten only when the transfer
\* is over, and a target is only taken from the live source (HashSource).
LEMMA VersionStep == ASSUME DeltaTypeOK, VersionInv, [Next]_vars PROVE VersionInv'
<1>1. ASSUME StartTransfer PROVE VersionInv'
  BY <1>1 DEF StartTransfer, VersionInv
<1>2. ASSUME EnsureSignature \/ StoreSignature \/ DropSignature PROVE VersionInv'
  BY <1>2 DEF EnsureSignature, StoreSignature, DropSignature, Goes, TransferOver, outside,
     VersionInv
<1>3. ASSUME OpenSource \/ CompareSizes \/ ApplyDelta PROVE VersionInv'
  BY <1>3, FailureForgets DEF OpenSource, CompareSizes, ApplyDelta, Goes, outside, VersionInv
<1>4. ASSUME Scan PROVE VersionInv'
  BY <1>4 DEF Scan, BlockFound, LastWindow, NextWindow, Scanned, outside, VersionInv
<1>5. ASSUME HashSource PROVE VersionInv'
  BY <1>5 DEF HashSource, Goes, outside, VersionInv
<1>6. ASSUME Install \/ Stamp PROVE VersionInv'
  BY <1>6 DEF Install, Stamp, Goes, outside, VersionInv
<1>7. ASSUME CopyWhole \/ Crash PROVE VersionInv'
  BY <1>7 DEF CopyWhole, Crash, TransferOver, VersionInv
<1>8. ASSUME EngineFails PROVE VersionInv'
  BY <1>8, FailureForgets DEF EngineFails, VersionInv
<1>9. ASSUME UserEditsSource PROVE VersionInv'
  BY <1>9 DEF UserEditsSource, Edited, VersionInv
<1>10. ASSUME UserEditsTarget \/ Restore PROVE VersionInv'
  BY <1>10 DEF UserEditsTarget, Restore, attempt, VersionInv
<1>11. ASSUME UNCHANGED vars PROVE VersionInv'
  BY <1>11 DEF vars, attempt, outside, VersionInv
<1> QED BY <1>1, <1>2, <1>3, <1>4, <1>5, <1>6, <1>7, <1>8, <1>9, <1>10, <1>11 DEF Next, Agent

\* No step of the agent but Install and CopyWhole gives the target a content, and
\* both give it a version of the source.
LEMMA WholeStep ==
    ASSUME DeltaTypeOK, VersionInv, [Next]_vars
    PROVE  [dst' # dst /\ ~own' => dst'.data = dst.data \/ dst'.data \in versions]_vars
<1>1. CASE Install
  BY <1>1 DEF Install, VersionInv
<1>2. CASE CopyWhole
  BY <1>2 DEF CopyWhole, VersionInv
<1>3. CASE Stamp
  BY <1>3 DEF Stamp, DeltaTypeOK, File
<1>4. CASE UserEditsTarget \/ Restore
  BY <1>4 DEF UserEditsTarget, Restore
<1>5. CASE /\ ~Install /\ ~CopyWhole /\ ~Stamp /\ ~UserEditsTarget /\ ~Restore
  <2>1. dst' = dst
    BY <1>5 DEF Next, Agent, StartTransfer, EnsureSignature, StoreSignature, OpenSource,
        Scan, BlockFound, LastWindow, NextWindow, Scanned, CompareSizes, HashSource,
        ApplyDelta, DropSignature, EngineFails, Crash, UserEditsSource, vars
  <2> QED BY <2>1
<1> QED BY <1>1, <1>2, <1>3, <1>4, <1>5

\* Whatever signature a transfer worked from and whoever edited the two files, the
\* agent puts into the target only whole versions of the source.
THEOREM InstalledWhole == Spec => InstalledIsWhole
<1>1. Init => DeltaTypeOK /\ VersionInv
  BY TransferAssumption DEF Init, Fresh, DeltaTypeOK, Phases, Times, VersionInv
<1>2. DeltaTypeOK /\ VersionInv /\ [Next]_vars => DeltaTypeOK' /\ VersionInv'
  BY TypeStep, VersionStep
<1>3. DeltaTypeOK /\ VersionInv /\ [Next]_vars =>
         [dst' # dst /\ ~own' => dst'.data = dst.data \/ dst'.data \in versions]_vars
  BY WholeStep
<1> QED BY <1>1, <1>2, <1>3, PTL DEF Spec, InstalledIsWhole

-----------------------------------------------------------------------------

(******************************** induction ********************************)

Before == OpToRel(<, Nat)

\* The order of the numbers has no infinite descent.
LEMMA BeforeFounded == IsWellFoundedOn(Before, Nat)
BY NatLessThanWellFounded DEF Before

\* Every set of numbers has a least one.
LEMMA Least ==
    ASSUME NEW T, T \subseteq Nat, T # {}
    PROVE  \E n \in T : \A k \in T : n <= k
<1>1. \E x \in T : \A y \in T : ~ (<<y, x>> \in Before)
  BY ONLY T \subseteq Nat, T # {}, BeforeFounded, WFMin
<1>2. PICK x \in T : \A y \in T : ~ (<<y, x>> \in Before)
  BY <1>1
<1>3. ASSUME NEW k \in T PROVE x <= k
  <2>1. ~ (<<k, x>> \in Before) /\ k \in Nat /\ x \in Nat
    BY <1>2
  <2>2. ~ (k < x)
    BY <2>1 DEF Before, OpToRel
  <2> QED BY <2>1, <2>2
<1> QED BY <1>3

\* A set with 0 and the successors of its members has every number: the form in
\* which the proofs below use induction.
LEMMA AllNumbers ==
    ASSUME NEW T, T \subseteq Nat, 0 \in T, \A n \in Nat : n \in T => n + 1 \in T
    PROVE  \A n \in Nat : n \in T
<1>1. SUFFICES ASSUME Nat \ T # {} PROVE FALSE
  OBVIOUS
<1>2. PICK n \in Nat \ T : \A k \in Nat \ T : n <= k
  BY <1>1, Least
<1>3. n # 0 /\ n - 1 \in Nat /\ n - 1 \in T
  BY <1>2
<1> QED BY <1>3, <1>2

\* The least of a set of numbers is one of them.
LEMMA MinIn == ASSUME NEW T, T \subseteq Nat, T # {} PROVE Min(T) \in T
<1>1. \E n \in T : \A k \in T : n <= k
  BY Least
<1> QED BY <1>1 DEF Min

(************************ sequences put one after another ******************)

\* What FlattenSeq computes, from the first sequence to each of the others.
IsJoin(f, s) == f = [i \in 1..Len(s) |-> IF i = 1 THEN s[i] ELSE f[i - 1] \o s[i]]

\* There is such a function.
LEMMA JoinExists ==
    ASSUME NEW s, Len(s) \in Nat
    PROVE  \E f : IsJoin(f, s)
<1> DEFINE Upto(g, n) == g = [i \in 1..n |-> IF i = 1 THEN s[i] ELSE g[i - 1] \o s[i]]
           T == {n \in Nat : \E g : Upto(g, n)}
<1>1. 0 \in T
  <2>1. Upto([i \in 1..0 |-> 0], 0)
    OBVIOUS
  <2> QED BY <2>1
<1>2. ASSUME NEW n \in Nat, n \in T PROVE n + 1 \in T
  <2>1. PICK g : Upto(g, n)
    BY <1>2
  <2> DEFINE h == [i \in 1..n + 1 |-> IF i = n + 1 THEN (IF i = 1 THEN s[i] ELSE g[n] \o s[i]) ELSE g[i]]
  <2>2. ASSUME NEW i \in 1..n + 1 PROVE h[i] = IF i = 1 THEN s[i] ELSE h[i - 1] \o s[i]
    <3>1. CASE i = n + 1
      BY <3>1
    <3>2. CASE i # n + 1
      <4>1. i \in 1..n /\ h[i] = g[i] /\ (i # 1 => i - 1 \in 1..n /\ h[i - 1] = g[i - 1])
        BY <3>2
      <4>2. g[i] = IF i = 1 THEN s[i] ELSE g[i - 1] \o s[i]
        BY <4>1, <2>1
      <4> QED BY <4>1, <4>2
    <3> QED BY <3>1, <3>2
  <2>3. Upto(h, n + 1)
    BY <2>2
  <2> HIDE DEF h, Upto
  <2>4. \E k : Upto(k, n + 1)
    BY <2>3
  <2> QED BY <2>4
<1>3. \A n \in Nat : n \in T
  <2> HIDE DEF T
  <2>1. T \subseteq Nat
    BY DEF T
  <2> QED BY <1>1, <1>2, <2>1, AllNumbers
<1>4. PICK g : Upto(g, Len(s))
  BY <1>3
<1>5. IsJoin(g, s)
  BY <1>4 DEF IsJoin
<1> QED BY <1>5

\* Its values from the second on.
LEMMA JoinNext ==
    ASSUME NEW f, NEW s, Len(s) \in Nat, IsJoin(f, s), NEW n \in Nat, n + 2 <= Len(s)
    PROVE  f[n + 2] = f[n + 1] \o s[n + 2]
<1> DEFINE i == n + 2
<1>1. i \in 1..Len(s) /\ i # 1 /\ i - 1 = n + 1
  OBVIOUS
<1> HIDE DEF i
<1>2. f[i] = f[i - 1] \o s[i]
  BY <1>1 DEF IsJoin
<1> QED BY <1>1, <1>2 DEF i

\* A sequence with one element more.
LEMMA AppendIs ==
    ASSUME NEW S, NEW s \in Seq(S), NEW x \in S
    PROVE  /\ Append(s, x) \in Seq(S) /\ Append(s, x) # <<>>
           /\ Len(s) \in Nat /\ Len(Append(s, x)) = Len(s) + 1
           /\ Append(s, x)[Len(s) + 1] = x /\ \A i \in 1..Len(s) : Append(s, x)[i] = s[i]
OBVIOUS

\* FlattenSeq is the last value of such a function, each of whose values is a sequence.
LEMMA Flattens ==
    ASSUME NEW S, NEW s \in Seq(Seq(S)), s # <<>>
    PROVE  \E f : IsJoin(f, s) /\ FlattenSeq(s) = f[Len(s)] /\ \A i \in 1..Len(s) : f[i] \in Seq(S)
<1> DEFINE f == CHOOSE g : IsJoin(g, s)
<1>1. Len(s) \in Nat \ {0}
  OBVIOUS
<1>2. IsJoin(f, s)
  BY <1>1, JoinExists
<1>3. FlattenSeq(s) = f[Len(s)]
  BY <1>1 DEF FlattenSeq, IsJoin
<1> HIDE DEF f
<1> DEFINE T == {n \in Nat : n + 1 <= Len(s) => f[n + 1] \in Seq(S)}
<1>4. 0 \in T
  <2>1. f[1] = s[1] /\ s[1] \in Seq(S)
    BY <1>1, <1>2 DEF IsJoin
  <2> QED BY <2>1
<1>5. ASSUME NEW n \in Nat, n \in T PROVE n + 1 \in T
  <2>1. SUFFICES ASSUME n + 2 <= Len(s) PROVE f[n + 2] \in Seq(S)
    BY <1>1
  <2>2. f[n + 2] = f[n + 1] \o s[n + 2]
    BY <2>1, <1>1, <1>2, JoinNext
  <2>3. s[n + 2] \in Seq(S) /\ f[n + 1] \in Seq(S)
    BY <2>1, <1>1, <1>5
  <2> QED BY <2>2, <2>3
<1>6. \A n \in Nat : n \in T
  <2> HIDE DEF T
  <2>1. T \subseteq Nat
    BY DEF T
  <2> QED BY <1>4, <1>5, <2>1, AllNumbers
<1>7. ASSUME NEW i \in 1..Len(s) PROVE f[i] \in Seq(S)
  <2>1. i - 1 \in Nat /\ i - 1 \in T /\ (i - 1) + 1 = i
    BY <1>6
  <2> QED BY <2>1
<1> QED BY <1>2, <1>3, <1>7

\* Nothing flattened is nothing.
LEMMA FlattenNone == FlattenSeq(<<>>) = <<>>
BY DEF FlattenSeq

\* What is flattened is a sequence of the same elements.
LEMMA FlattenType ==
    ASSUME NEW S, NEW s \in Seq(Seq(S)) PROVE FlattenSeq(s) \in Seq(S)
<1>1. CASE s = <<>>
  <2>1. FlattenSeq(s) = <<>>
    BY <1>1, FlattenNone
  <2> QED BY <2>1
<1>2. CASE s # <<>>
  BY <1>2, Flattens
<1> QED BY <1>1, <1>2

\* One sequence more comes at the end.
LEMMA FlattenAppend ==
    ASSUME NEW S, NEW s \in Seq(Seq(S)), NEW x \in Seq(S)
    PROVE  FlattenSeq(Append(s, x)) = FlattenSeq(s) \o x
<1> DEFINE t == Append(s, x)
<1>1. /\ t \in Seq(Seq(S)) /\ t # <<>> /\ Len(s) \in Nat /\ Len(t) = Len(s) + 1
      /\ t[Len(s) + 1] = x /\ \A i \in 1..Len(s) : t[i] = s[i]
  <2>1. Seq(S) = Seq(S) /\ x \in Seq(S)
    OBVIOUS
  <2> QED BY <2>1, AppendIs
<1> HIDE DEF t
<1>2. PICK g : IsJoin(g, t) /\ FlattenSeq(t) = g[Len(t)]
  BY <1>1, Flattens
<1>3. CASE s = <<>>
  <2>1. g[1] = x
    BY <1>1, <1>2, <1>3 DEF IsJoin
  <2>2. Len(t) = 1 /\ FlattenSeq(s) = <<>>
    BY <1>1, <1>3, FlattenNone
  <2> QED BY <2>1, <2>2, <1>2 DEF t
<1>4. CASE s # <<>>
  <2>1. PICK f : IsJoin(f, s) /\ FlattenSeq(s) = f[Len(s)]
    BY <1>4, Flattens
  <2> DEFINE T == {n \in Nat : n + 1 <= Len(s) => g[n + 1] = f[n + 1]}
  <2>2. 0 \in T
    <3>1. 1 <= Len(s) => g[1] = t[1] /\ f[1] = s[1] /\ t[1] = s[1]
      BY <1>1, <1>2, <2>1 DEF IsJoin
    <3> QED BY <3>1
  <2>3. ASSUME NEW n \in Nat, n \in T PROVE n + 1 \in T
    <3>1. SUFFICES ASSUME n + 2 <= Len(s) PROVE g[n + 2] = f[n + 2]
      BY <1>1
    <3>2. g[n + 1] = f[n + 1] /\ t[n + 2] = s[n + 2]
      BY <3>1, <2>3, <1>1
    <3>5. Len(t) \in Nat /\ n + 2 <= Len(t) /\ IsJoin(g, t) /\ n \in Nat
      BY <3>1, <1>1, <1>2, <2>3
    <3>3. g[n + 2] = g[n + 1] \o t[n + 2]
      BY <3>5, JoinNext
    <3>4. f[n + 2] = f[n + 1] \o s[n + 2]
      BY <3>1, <1>1, <2>1, JoinNext
    <3> QED BY <3>2, <3>3, <3>4
  <2>4. \A n \in Nat : n \in T
    <3> HIDE DEF T
    <3>1. T \subseteq Nat
      BY DEF T
    <3> QED BY <2>2, <2>3, <3>1, AllNumbers
  <2>5. Len(s) - 1 \in Nat /\ (Len(s) - 1) + 1 = Len(s)
    BY <1>1, <1>4
  <2>6. g[Len(s)] = f[Len(s)]
    <3>1. Len(s) - 1 \in T
      BY <2>4, <2>5
    <3> QED BY <3>1, <2>5
  <2>7. g[Len(s) + 1] = g[Len(s)] \o x
    <3> DEFINE n == Len(s) - 1
    <3>1. n \in Nat /\ n + 2 = Len(s) + 1 /\ n + 1 = Len(s) /\ n + 2 <= Len(t)
      BY <2>5, <1>1
    <3> HIDE DEF n
    <3>3. Len(t) \in Nat /\ n + 2 <= Len(t) /\ IsJoin(g, t) /\ n \in Nat
      BY <3>1, <1>1, <1>2
    <3>2. g[n + 2] = g[n + 1] \o t[n + 2]
      BY <3>3, JoinNext
    <3> QED BY <3>1, <3>2, <1>1
  <2> QED BY <2>1, <2>6, <2>7, <1>1, <1>2 DEF t
<1> QED BY <1>3, <1>4

(*********************************** sums **********************************)

Some(s) == CHOOSE x \in s : TRUE

\* What MapThenSumSet computes, of the values h has on a set.
IsSum(it, h, S) ==
    it = [s \in SUBSET S |-> IF s = {} THEN 0 ELSE h[Some(s)] + it[s \ {Some(s)}]]

\* The element that is taken leaves a smaller finite set.
LEMMA SomeIn ==
    ASSUME NEW s, s # {}, IsFiniteSet(s), NEW x \in s
    PROVE  /\ Some(s) \in s /\ IsFiniteSet(s \ {x})
           /\ Cardinality(s) \in Nat /\ Cardinality(s \ {x}) \in Nat
           /\ Cardinality(s) = Cardinality(s \ {x}) + 1
<1>1. Some(s) \in s
  BY DEF Some
<1>2. /\ IsFiniteSet(s \ {x}) /\ Cardinality(s) \in Nat
      /\ Cardinality(s \ {x}) = Cardinality(s) - 1
  BY FS_RemoveElement, FS_CardinalityType
<1>3. Cardinality(s \ {x}) \in Nat
  BY <1>2, FS_CardinalityType
<1> QED BY <1>1, <1>2, <1>3

\* There is such a function on a finite set.
LEMMA SumExists ==
    ASSUME NEW S, IsFiniteSet(S), NEW h
    PROVE  \E it : IsSum(it, h, S)
<1> DEFINE Next1(g) == [s \in SUBSET S |-> IF s = {} THEN 0 ELSE h[Some(s)] + g[s \ {Some(s)}]]
           Good(g, n) == \A s \in SUBSET S : Cardinality(s) <= n => g[s] = Next1(g)[s]
           T == {n \in Nat : \E g : Good(g, n)}
<1>1. \A s \in SUBSET S : IsFiniteSet(s) /\ Cardinality(s) \in Nat
  BY FS_Subset, FS_CardinalityType
<1>2. 0 \in T
  <2> DEFINE g == [s \in SUBSET S |-> 0]
  <2>1. ASSUME NEW s \in SUBSET S, Cardinality(s) <= 0 PROVE g[s] = Next1(g)[s]
    <3>1. s = {}
      BY <2>1, <1>1, FS_EmptySet
    <3> QED BY <3>1
  <2>2. Good(g, 0)
    BY <2>1
  <2> HIDE DEF g, Good
  <2>3. \E k : Good(k, 0)
    BY <2>2
  <2> QED BY <2>3
<1>3. ASSUME NEW n \in Nat, n \in T PROVE n + 1 \in T
  <2>1. PICK g : Good(g, n)
    BY <1>3
  <2> DEFINE k == Next1(g)
  <2>2. ASSUME NEW s \in SUBSET S, Cardinality(s) <= n + 1 PROVE k[s] = Next1(k)[s]
    <3>1. CASE s = {}
      BY <3>1
    <3>2. CASE s # {}
      <4> DEFINE r == s \ {Some(s)}
      <4>0. Some(s) \in s
        BY <3>2 DEF Some
      <4>1. r \in SUBSET S /\ Cardinality(r) <= n
        <5>1. Cardinality(s) = Cardinality(r) + 1 /\ Cardinality(r) \in Nat
          BY <4>0, <3>2, <1>1, SomeIn
        <5> QED BY <5>1, <2>2, <1>1
      <4>2. g[r] = k[r]
        BY <4>1, <2>1
      <4>3. k[s] = h[Some(s)] + g[r]
        BY <3>2
      <4>4. Next1(k)[s] = h[Some(s)] + k[r]
        <5> HIDE DEF k
        <5> QED BY <3>2
      <4> QED BY <4>2, <4>3, <4>4
    <3> QED BY <3>1, <3>2
  <2>3. Good(k, n + 1)
    BY <2>2
  <2> HIDE DEF k, Good
  <2>4. \E j : Good(j, n + 1)
    BY <2>3
  <2> QED BY <2>4
<1>4. \A n \in Nat : n \in T
  <2> HIDE DEF T
  <2>1. T \subseteq Nat
    BY DEF T
  <2> QED BY <1>2, <1>3, <2>1, AllNumbers
<1>5. Cardinality(S) \in Nat
  BY <1>1
<1>6. PICK g : Good(g, Cardinality(S))
  BY <1>4, <1>5
<1> DEFINE it == Next1(g)
<1>7. ASSUME NEW s \in SUBSET S PROVE g[s] = it[s]
  <2>1. Cardinality(s) <= Cardinality(S)
    BY FS_Subset
  <2> QED BY <2>1, <1>6
<1>8. ASSUME NEW s \in SUBSET S PROVE it[s] = Next1(it)[s]
  <2>1. CASE s = {}
    BY <2>1
  <2>2. CASE s # {}
    <3>1. g[s \ {Some(s)}] = it[s \ {Some(s)}]
      BY <1>7
    <3>2. it[s] = h[Some(s)] + g[s \ {Some(s)}]
      BY <2>2
    <3>3. Next1(it)[s] = h[Some(s)] + it[s \ {Some(s)}]
      <4> HIDE DEF it
      <4> QED BY <2>2
    <3> QED BY <3>1, <3>2, <3>3
  <2> QED BY <2>1, <2>2
<1>9. IsSum(it, h, S)
  <2>1. DOMAIN it = SUBSET S /\ DOMAIN Next1(it) = SUBSET S
    OBVIOUS
  <2>2. it = Next1(it)
    <3>1. it = [s \in SUBSET S |-> it[s]]
      OBVIOUS
    <3> HIDE DEF it
    <3> QED BY <3>1, <1>8
  <2> HIDE DEF it
  <2> QED BY <2>2 DEF IsSum
<1> HIDE DEF it
<1> QED BY <1>9

\* A sum can be taken in any order: any element may come first, and only the values
\* of the elements matter.
LEMMA SumTakesOut ==
    ASSUME NEW S, IsFiniteSet(S), NEW h, \A x \in S : h[x] \in Int, NEW it, IsSum(it, h, S)
    PROVE  /\ it[{}] = 0
           /\ \A s \in SUBSET S : it[s] \in Int
           /\ \A s \in SUBSET S : \A x \in s : it[s] = h[x] + it[s \ {x}]
<1>1. \A s \in SUBSET S : IsFiniteSet(s) /\ Cardinality(s) \in Nat
  BY FS_Subset, FS_CardinalityType
<1>2. it[{}] = 0
  BY DEF IsSum
<1>3. \A s \in SUBSET S : s # {} => it[s] = h[Some(s)] + it[s \ {Some(s)}]
  BY DEF IsSum
<1> DEFINE Fine(s) == it[s] \in Int /\ \A x \in s : it[s] = h[x] + it[s \ {x}]
           T == {n \in Nat : \A s \in SUBSET S : Cardinality(s) <= n => Fine(s)}
<1>4. 0 \in T
  <2>1. ASSUME NEW s \in SUBSET S, Cardinality(s) <= 0 PROVE Fine(s)
    <3>1. s = {}
      <4>1. Cardinality(s) = 0 /\ IsFiniteSet(s)
        BY <2>1, <1>1
      <4> QED BY <4>1, FS_EmptySet
    <3> QED BY <3>1, <1>2
  <2> HIDE DEF Fine
  <2> QED BY <2>1
<1>5. ASSUME NEW n \in Nat, n \in T PROVE n + 1 \in T
  <2>1. ASSUME NEW s \in SUBSET S, Cardinality(s) <= n + 1, s # {} PROVE Fine(s)
    <3> DEFINE c == Some(s)
    <3>2. c \in s
      BY <2>1 DEF Some
    <3>3. ASSUME NEW y \in s PROVE s \ {y} \in SUBSET S /\ Cardinality(s \ {y}) <= n
      <4>1. Cardinality(s) = Cardinality(s \ {y}) + 1 /\ Cardinality(s \ {y}) \in Nat
        BY <2>1, <1>1, SomeIn
      <4> QED BY <4>1, <2>1, <1>1
    <3>4. it[s] = h[c] + it[s \ {c}]
      BY <2>1, <1>3
    <3> HIDE DEF c
    <3>5. it[s \ {c}] \in Int /\ h[c] \in Int
      BY <3>2, <3>3, <1>5
    <3>6. ASSUME NEW x \in s PROVE it[s] = h[x] + it[s \ {x}]
      <4>1. CASE x = c
        BY <3>4, <4>1
      <4>2. CASE x # c
        <5> DEFINE r == s \ {c, x}
        <5>1. it[s \ {c}] = h[x] + it[r]
          <6>1. x \in s \ {c} /\ (s \ {c}) \ {x} = r
            BY <4>2
          <6> QED BY <6>1, <3>2, <3>3, <1>5
        <5>2. it[s \ {x}] = h[c] + it[r]
          <6>1. c \in s \ {x} /\ (s \ {x}) \ {c} = r
            BY <4>2, <3>2
          <6> QED BY <6>1, <3>3, <1>5
        <5>3. it[r] \in Int
          <6>1. r \in SUBSET (s \ {c}) /\ r \in SUBSET S
            OBVIOUS
          <6>2. Cardinality(r) <= Cardinality(s \ {c}) /\ IsFiniteSet(s \ {c})
            BY <6>1, <1>1, FS_Subset
          <6>3. Cardinality(r) <= n
            BY <6>1, <6>2, <3>2, <3>3, <1>1
          <6> QED BY <6>1, <6>3, <1>5
        <5>4. h[x] \in Int
          OBVIOUS
        <5> HIDE DEF r
        <5> QED BY <3>4, <3>5, <5>1, <5>2, <5>3, <5>4
      <4> QED BY <4>1, <4>2
    <3>7. it[s] \in Int
      BY <3>4, <3>5
    <3> QED BY <3>6, <3>7
  <2>2. Fine({})
    BY <1>2
  <2> HIDE DEF Fine
  <2>3. \A s \in SUBSET S : Cardinality(s) <= n + 1 => Fine(s)
    BY <2>1, <2>2
  <2> QED BY <2>3
<1>6. \A n \in Nat : n \in T
  <2> HIDE DEF T
  <2>1. T \subseteq Nat
    BY DEF T
  <2> QED BY <1>4, <1>5, <2>1, AllNumbers
<1>7. ASSUME NEW s \in SUBSET S PROVE Fine(s)
  <2>1. Cardinality(s) \in T /\ Cardinality(s) <= Cardinality(s)
    BY <1>1, <1>6
  <2> HIDE DEF Fine
  <2> QED BY <2>1
<1> QED BY <1>2, <1>7

\* The sum of the values h has on S.
Total(h, S) == (CHOOSE it : IsSum(it, h, S))[S]

\* Sums that agree on a set, whatever larger sets they are made for.
LEMMA SumSame ==
    ASSUME NEW S, IsFiniteSet(S), NEW h, NEW it, IsSum(it, h, S),
           NEW R, IsFiniteSet(R), NEW g, NEW ju, IsSum(ju, g, R),
           NEW s, s \subseteq S, s \subseteq R, \A x \in s : h[x] = g[x]
    PROVE  it[s] = ju[s]
<1>1. \A r \in SUBSET s : /\ IsFiniteSet(r) /\ Cardinality(r) \in Nat
                          /\ r \in SUBSET S /\ r \in SUBSET R
  <2>1. IsFiniteSet(s)
    BY FS_Subset
  <2> QED BY <2>1, FS_Subset, FS_CardinalityType
<1> DEFINE T == {n \in Nat : \A r \in SUBSET s : Cardinality(r) <= n => it[r] = ju[r]}
<1>2. 0 \in T
  <2>1. ASSUME NEW r \in SUBSET s, Cardinality(r) <= 0 PROVE it[r] = ju[r]
    <3>1. r = {}
      <4>1. Cardinality(r) = 0 /\ IsFiniteSet(r)
        BY <2>1, <1>1
      <4> QED BY <4>1, FS_EmptySet
    <3> QED BY <3>1 DEF IsSum
  <2> QED BY <2>1
<1>3. ASSUME NEW n \in Nat, n \in T PROVE n + 1 \in T
  <2>1. ASSUME NEW r \in SUBSET s, Cardinality(r) <= n + 1 PROVE it[r] = ju[r]
    <3>1. CASE r = {}
      BY <3>1 DEF IsSum
    <3>2. CASE r # {}
      <4> DEFINE c == Some(r)
      <4>1. it[r] = h[c] + it[r \ {c}] /\ ju[r] = g[c] + ju[r \ {c}]
        BY <3>2, <1>1 DEF IsSum
      <4>2. c \in r
        BY <3>2 DEF Some
      <4> HIDE DEF c
      <4>3. Cardinality(r) = Cardinality(r \ {c}) + 1 /\ Cardinality(r \ {c}) \in Nat
        BY <4>2, <3>2, <1>1, SomeIn
      <4>4. Cardinality(r \ {c}) <= n /\ r \ {c} \in SUBSET s
        BY <4>3, <2>1, <1>1
      <4>5. it[r \ {c}] = ju[r \ {c}] /\ h[c] = g[c]
        BY <4>2, <4>4, <1>3
      <4> QED BY <4>1, <4>5
    <3> QED BY <3>1, <3>2
  <2> QED BY <2>1
<1>4. \A n \in Nat : n \in T
  <2> HIDE DEF T
  <2>1. T \subseteq Nat
    BY DEF T
  <2> QED BY <1>2, <1>3, <2>1, AllNumbers
<1>5. Cardinality(s) \in T /\ Cardinality(s) <= Cardinality(s) /\ s \in SUBSET s
  BY <1>1, <1>4
<1> QED BY <1>5

\* The function a total is taken from.
LEMMA TotalIs ==
    ASSUME NEW S, IsFiniteSet(S), NEW h
    PROVE  \E it : IsSum(it, h, S) /\ Total(h, S) = it[S]
<1> DEFINE it == CHOOSE i : IsSum(i, h, S)
<1>1. IsSum(it, h, S)
  BY SumExists
<1>2. Total(h, S) = it[S]
  BY DEF Total
<1> HIDE DEF it
<1> QED BY <1>1, <1>2

\* Totals of the same values are the same.
LEMMA TotalSame ==
    ASSUME NEW S, IsFiniteSet(S), NEW h, NEW g, \A x \in S : h[x] = g[x]
    PROVE  Total(h, S) = Total(g, S)
<1>1. PICK it : IsSum(it, h, S) /\ Total(h, S) = it[S]
  BY TotalIs
<1>2. PICK ju : IsSum(ju, g, S) /\ Total(g, S) = ju[S]
  BY TotalIs
<1>3. it[S] = ju[S]
  BY <1>1, <1>2, SumSame
<1> QED BY <1>1, <1>2, <1>3

\* A total up to n, and the next value.
LEMMA TotalNext ==
    ASSUME NEW n \in Nat, NEW h, \A i \in 1..n + 1 : h[i] \in Int
    PROVE  /\ Total(h, 1..n) \in Int
           /\ Total(h, 1..n + 1) = Total(h, 1..n) + h[n + 1]
<1>1. IsFiniteSet(1..n) /\ IsFiniteSet(1..n + 1) /\ n + 1 \in 1..n + 1
  BY FS_Interval
<1>2. (1..n + 1) \ {n + 1} = 1..n /\ 1..n \subseteq 1..n + 1
  OBVIOUS
<1>3. PICK it : IsSum(it, h, 1..n) /\ Total(h, 1..n) = it[1..n]
  BY <1>1, TotalIs
<1>4. PICK ju : IsSum(ju, h, 1..n + 1) /\ Total(h, 1..n + 1) = ju[1..n + 1]
  BY <1>1, TotalIs
<1>5. it[1..n] = ju[1..n]
  BY <1>1, <1>2, <1>3, <1>4, SumSame
<1>6. /\ \A s \in SUBSET (1..n + 1) : ju[s] \in Int
      /\ \A s \in SUBSET (1..n + 1) : \A x \in s : ju[s] = h[x] + ju[s \ {x}]
  <2> DEFINE S == 1..n + 1
  <2>1. IsFiniteSet(S) /\ (\A x \in S : h[x] \in Int) /\ IsSum(ju, h, S)
    BY <1>1, <1>4
  <2> HIDE DEF S
  <2>2. /\ \A s \in SUBSET S : ju[s] \in Int
        /\ \A s \in SUBSET S : \A x \in s : ju[s] = h[x] + ju[s \ {x}]
    BY <2>1, SumTakesOut
  <2> QED BY <2>2 DEF S
<1>7. ju[1..n + 1] = h[n + 1] + ju[1..n] /\ ju[1..n] \in Int
  BY <1>1, <1>2, <1>6
<1> QED BY <1>3, <1>4, <1>5, <1>7

\* The total of nothing.
LEMMA TotalNone == ASSUME NEW h PROVE Total(h, 1..0) = 0
<1>1. 1..0 = {} /\ IsFiniteSet(1..0)
  BY FS_EmptySet
<1>2. PICK it : IsSum(it, h, 1..0) /\ Total(h, 1..0) = it[1..0]
  BY <1>1, TotalIs
<1>3. it[{}] = 0
  BY <1>2 DEF IsSum
<1> QED BY <1>1, <1>2, <1>3

\* The total of the values after the first.
LEMMA TotalShift ==
    ASSUME NEW m \in Nat, NEW h, \A i \in 1..m + 1 : h[i] \in Int,
           NEW g, \A i \in 1..m : g[i] = h[i + 1]
    PROVE  /\ Total(g, 1..m) \in Int
           /\ Total(h, 1..m + 1) = h[1] + Total(g, 1..m)
<1> DEFINE T == {n \in Nat : n <= m => /\ Total(g, 1..n) \in Int
                                       /\ Total(h, 1..n + 1) = h[1] + Total(g, 1..n)}
<1>1. 0 \in T
  <2>1. \A i \in 1..0 + 1 : h[i] \in Int
    OBVIOUS
  <2>2. Total(h, 1..0 + 1) = Total(h, 1..0) + h[0 + 1]
    BY <2>1, TotalNext
  <2>3. Total(h, 1..0) = 0 /\ Total(g, 1..0) = 0 /\ h[1] \in Int
    BY TotalNone
  <2> QED BY <2>2, <2>3
<1>2. ASSUME NEW n \in Nat, n \in T PROVE n + 1 \in T
  <2>1. SUFFICES ASSUME n + 1 <= m
                 PROVE  /\ Total(g, 1..n + 1) \in Int
                        /\ Total(h, 1..(n + 1) + 1) = h[1] + Total(g, 1..n + 1)
    OBVIOUS
  <2>2. /\ \A i \in 1..n + 1 : g[i] \in Int
        /\ \A i \in 1..(n + 1) + 1 : h[i] \in Int
        /\ n + 1 \in Nat /\ g[n + 1] = h[(n + 1) + 1] /\ g[n + 1] \in Int /\ h[1] \in Int
    BY <2>1
  <2>3. Total(g, 1..n) \in Int /\ Total(g, 1..n + 1) = Total(g, 1..n) + g[n + 1]
    BY <2>2, TotalNext
  <2>4. Total(h, 1..(n + 1) + 1) = Total(h, 1..n + 1) + h[(n + 1) + 1]
    BY <2>2, TotalNext
  <2>5. Total(h, 1..n + 1) = h[1] + Total(g, 1..n)
    BY <2>1, <1>2
  <2> QED BY <2>2, <2>3, <2>4, <2>5
<1>3. \A n \in Nat : n \in T
  <2> HIDE DEF T
  <2>1. T \subseteq Nat
    BY DEF T
  <2> QED BY <1>1, <1>2, <2>1, AllNumbers
<1> QED BY <1>3

\* The total of sums is the sum of the totals.
LEMMA TotalAdd ==
    ASSUME NEW m \in Nat, NEW h, NEW g, \A i \in 1..m : h[i] \in Int /\ g[i] \in Int,
           NEW k, \A i \in 1..m : k[i] = h[i] + g[i]
    PROVE  /\ Total(h, 1..m) \in Int /\ Total(g, 1..m) \in Int
           /\ Total(k, 1..m) = Total(h, 1..m) + Total(g, 1..m)
<1> DEFINE T == {n \in Nat : n <= m => /\ Total(h, 1..n) \in Int /\ Total(g, 1..n) \in Int
                                       /\ Total(k, 1..n) = Total(h, 1..n) + Total(g, 1..n)}
<1>1. 0 \in T
  BY TotalNone
<1>2. ASSUME NEW n \in Nat, n \in T PROVE n + 1 \in T
  <2>1. SUFFICES ASSUME n + 1 <= m
                 PROVE  /\ Total(h, 1..n + 1) \in Int /\ Total(g, 1..n + 1) \in Int
                        /\ Total(k, 1..n + 1) = Total(h, 1..n + 1) + Total(g, 1..n + 1)
    OBVIOUS
  <2>2. /\ \A i \in 1..n + 1 : h[i] \in Int /\ g[i] \in Int /\ k[i] \in Int
        /\ k[n + 1] = h[n + 1] + g[n + 1] /\ h[n + 1] \in Int /\ g[n + 1] \in Int
    BY <2>1
  <2>3. Total(h, 1..n) \in Int /\ Total(h, 1..n + 1) = Total(h, 1..n) + h[n + 1]
    BY <2>2, TotalNext
  <2>4. Total(g, 1..n) \in Int /\ Total(g, 1..n + 1) = Total(g, 1..n) + g[n + 1]
    BY <2>2, TotalNext
  <2>5. Total(k, 1..n) \in Int /\ Total(k, 1..n + 1) = Total(k, 1..n) + k[n + 1]
    BY <2>2, TotalNext
  <2>6. Total(k, 1..n) = Total(h, 1..n) + Total(g, 1..n)
    BY <2>1, <1>2
  <2>7. Total(h, 1..n + 1) \in Int /\ Total(g, 1..n + 1) \in Int
    BY <2>2, <2>3, <2>4
  <2> DEFINE a == Total(h, 1..n)  b == Total(g, 1..n)
  <2>8. a \in Int /\ b \in Int /\ Total(k, 1..n + 1) = (a + b) + (h[n + 1] + g[n + 1])
    BY <2>2, <2>3, <2>4, <2>5, <2>6
  <2>9. Total(h, 1..n + 1) = a + h[n + 1] /\ Total(g, 1..n + 1) = b + g[n + 1]
    BY <2>3, <2>4
  <2> HIDE DEF a, b
  <2>10. h[n + 1] \in Int /\ g[n + 1] \in Int
    BY <2>2
  <2> QED BY <2>7, <2>8, <2>9, <2>10
<1>3. \A n \in Nat : n \in T
  <2> HIDE DEF T
  <2>1. T \subseteq Nat
    BY DEF T
  <2> QED BY <1>1, <1>2, <2>1, AllNumbers
<1> QED BY <1>3

(******************************** checksums ********************************)

\* Remainders leave out whole multiples.
LEMMA SameRemainder ==
    ASSUME NEW m \in Nat \ {0}, NEW x \in Int, NEW q \in Int
    PROVE  (x + q * m) % m = x % m
<1> DEFINE y == x + q * m  r == x % m  t == y % m
           d == (y \div m) - (x \div m) - q
<1>1. /\ r \in 0..(m - 1) /\ x \div m \in Int /\ x = m * (x \div m) + r
      /\ t \in 0..(m - 1) /\ y \div m \in Int /\ y = m * (y \div m) + t
  <2>1. y \in Int
    OBVIOUS
  <2> HIDE DEF y
  <2> QED BY <2>1
<1>2. d \in Int /\ r - t = d * m
  <2> DEFINE u == x \div m  v == y \div m
  <2>1. u \in Int /\ v \in Int /\ x = m * u + r /\ x + q * m = m * v + t /\ d = v - u - q
    BY <1>1
  <2> HIDE DEF u, v, d, r, t
  <2> QED BY <2>1, <1>1
<1> HIDE DEF r, t, d, y
<1>3. d * m < m /\ d * m > -m
  BY <1>1, <1>2
<1>4. d = 0
  BY <1>2, <1>3
<1>5. r = t
  BY <1>1, <1>2, <1>4
<1> QED BY <1>5 DEF r, t, y

\* A remainder may be taken before adding.
LEMMA RemainderFirst ==
    ASSUME NEW m \in Nat \ {0}, NEW x \in Int, NEW y \in Int
    PROVE  ((x % m) + y) % m = (x + y) % m
<1> DEFINE q == x \div m  r == x % m
<1>1. q \in Int /\ r \in Int /\ x = r + q * m
  OBVIOUS
<1> HIDE DEF q, r
<1>2. (r + y) + q * m = x + y
  BY <1>1
<1>3. ((r + y) + q * m) % m = (r + y) % m
  <2>1. r + y \in Int
    BY <1>1
  <2> QED BY <1>1, <2>1, SameRemainder
<1> QED BY <1>2, <1>3 DEF r

Weighted(block) == [i \in DOMAIN block |-> (Len(block) - i + 1) * block[i]]

\* The two halves of a weak checksum are totals.
LEMMA ChecksumIs ==
    ASSUME NEW block \in Seq(Bytes)
    PROVE  RollingChecksum(block) = [a |-> Total(block, 1..Len(block)) % CheckMod,
                                     b |-> Total(Weighted(block), 1..Len(block)) % CheckMod]
<1> DEFINE S == DOMAIN block
           Folds(i) == i = [s \in SUBSET S |-> IF s = {} THEN 0 ELSE
                     (Len(block) - (CHOOSE x \in s : TRUE) + 1) * block[CHOOSE x \in s : TRUE]
                     + i[s \ {CHOOSE x \in s : TRUE}]]
           it == CHOOSE i : Folds(i)
<1>1. S = 1..Len(block) /\ Len(block) \in Nat
  OBVIOUS
<1>2. IsFiniteSet(S)
  <2>1. IsFiniteSet(1..Len(block))
    BY <1>1, FS_Interval
  <2> QED BY <1>1, <2>1
<1>3. RollingChecksum(block).a = Total(block, S) % CheckMod
  BY DEF RollingChecksum, MapThenSumSet, MapThenFoldSet, Total, IsSum, Some
<1>4. RollingChecksum(block).b = it[S] % CheckMod
  BY DEF RollingChecksum, MapThenSumSet, MapThenFoldSet
<1>5. it[S] = Total(Weighted(block), S)
  <2>1. PICK ju : IsSum(ju, Weighted(block), S) /\ Total(Weighted(block), S) = ju[S]
    BY <1>2, TotalIs
  <2>2. ASSUME NEW f
        PROVE  Folds(f) <=> IsSum(f, Weighted(block), S)
    <3>1. ASSUME NEW s \in SUBSET S, s # {}
          PROVE  Weighted(block)[Some(s)] = (Len(block) - (CHOOSE x \in s : TRUE) + 1) * block[CHOOSE x \in s : TRUE]
      <4>1. Some(s) \in S
        BY <3>1 DEF Some
      <4> QED BY <4>1 DEF Some, Weighted
    <3>2. [s \in SUBSET S |-> IF s = {} THEN 0 ELSE
                     (Len(block) - (CHOOSE x \in s : TRUE) + 1) * block[CHOOSE x \in s : TRUE]
                     + f[s \ {CHOOSE x \in s : TRUE}]]
          = [s \in SUBSET S |-> IF s = {} THEN 0 ELSE Weighted(block)[Some(s)] + f[s \ {Some(s)}]]
      <4> DEFINE F(s) == IF s = {} THEN 0 ELSE
                     (Len(block) - (CHOOSE x \in s : TRUE) + 1) * block[CHOOSE x \in s : TRUE]
                     + f[s \ {CHOOSE x \in s : TRUE}]
                 G(s) == IF s = {} THEN 0 ELSE Weighted(block)[Some(s)] + f[s \ {Some(s)}]
      <4>1. ASSUME NEW s \in SUBSET S PROVE F(s) = G(s)
        BY <3>1 DEF Some
      <4> HIDE DEF F, G
      <4>2. [s \in SUBSET S |-> F(s)] = [s \in SUBSET S |-> G(s)]
        BY <4>1
      <4> QED BY <4>2 DEF F, G
    <3> QED BY <3>2 DEF IsSum
  <2>3. IsSum(it, Weighted(block), S)
    <3> HIDE DEF Folds
    <3>1. Folds(ju)
      BY <2>1, <2>2
    <3>2. Folds(it)
      BY <3>1
    <3> HIDE DEF it
    <3> QED BY <3>2, <2>2
  <2> HIDE DEF it
  <2>4. it[S] = ju[S]
    BY <2>1, <2>3, <1>2, SumSame
  <2> QED BY <2>1, <2>4
<1>6. RollingChecksum(block) = [a |-> RollingChecksum(block).a, b |-> RollingChecksum(block).b]
  BY DEF RollingChecksum
<1> HIDE DEF it
<1> QED BY <1>1, <1>3, <1>4, <1>5, <1>6

\* The checksum rolled by a byte is the checksum of the window moved by a byte
\* (RollChecksum): the sums gain the new byte and lose the old one once and
\* BlockSize times.
LEMMA RollIs ==
    ASSUME NEW w \in Seq(Bytes), Len(w) = BlockSize, NEW x \in Bytes
    PROVE  RollChecksum(RollingChecksum(w), Head(w), x) = RollingChecksum(Append(Tail(w), x))
<1> DEFINE v == Append(Tail(w), x)  m == BlockSize - 1  old == Head(w)
           H == Weighted(w)  K == Weighted(v)  G == [i \in 1..m |-> H[i + 1]]
<1>1. BlockSize \in Nat \ {0} /\ CheckMod \in Nat \ {0} /\ Bytes \subseteq Nat /\ m \in Nat /\ m + 1 = BlockSize
  BY DeltaAssumption
<1>2. /\ v \in Seq(Bytes) /\ Len(v) = BlockSize /\ v[m + 1] = x /\ old = w[1] /\ old \in Int /\ x \in Int
      /\ \A i \in 1..m : v[i] = w[i + 1]
      /\ \A i \in 1..m + 1 : w[i] \in Int /\ v[i] \in Int
  <2>1. w # <<>>
    BY <1>1
  <2>2. /\ Tail(w) \in Seq(Bytes) /\ Len(Tail(w)) = m /\ old = w[1] /\ old \in Bytes
        /\ \A i \in 1..m : Tail(w)[i] = w[i + 1]
    BY <2>1, <1>1
  <2>3. /\ v \in Seq(Bytes) /\ Len(v) = m + 1 /\ v[m + 1] = x
        /\ \A i \in 1..m : v[i] = Tail(w)[i]
    BY <2>2, <1>1
  <2>4. \A i \in 1..m + 1 : w[i] \in Bytes /\ v[i] \in Bytes
    BY <2>3, <1>1
  <2>5. \A i \in 1..m + 1 : w[i] \in Int /\ v[i] \in Int
    <3> HIDE DEF v, m, old
    <3>1. \A y \in Bytes : y \in Int
      BY <1>1
    <3> QED BY <2>4, <3>1
  <2>6. Len(v) = BlockSize /\ old \in Int /\ x \in Int /\ \A i \in 1..m : v[i] = w[i + 1]
    <3> HIDE DEF v, old
    <3> QED BY <2>2, <2>3, <1>1
  <2> HIDE DEF v, old
  <2> QED BY <2>2, <2>3, <2>5, <2>6
<1> HIDE DEF v, m, old
<1>3. /\ Total(v, 1..m) \in Int
      /\ Total(w, 1..m + 1) = w[1] + Total(v, 1..m)
      /\ Total(v, 1..m + 1) = Total(v, 1..m) + x
  <2>1. \A i \in 1..m + 1 : w[i] \in Int
    BY <1>2
  <2>2. Total(v, 1..m) \in Int /\ Total(w, 1..m + 1) = w[1] + Total(v, 1..m)
    BY <1>1, <1>2, <2>1, TotalShift
  <2>3. \A i \in 1..m + 1 : v[i] \in Int
    BY <1>2
  <2>4. Total(v, 1..m + 1) = Total(v, 1..m) + v[m + 1]
    BY <1>1, <2>3, TotalNext
  <2> QED BY <2>2, <2>4, <1>2
<1>4. /\ \A i \in 1..m + 1 : H[i] = (BlockSize - i + 1) * w[i] /\ K[i] = (BlockSize - i + 1) * v[i]
      /\ \A i \in 1..m + 1 : H[i] \in Int /\ K[i] \in Int
  <2>1. /\ DOMAIN w = 1..m + 1 /\ DOMAIN v = 1..m + 1
    BY <1>1, <1>2
  <2>2. \A i \in 1..m + 1 : H[i] = (BlockSize - i + 1) * w[i] /\ K[i] = (BlockSize - i + 1) * v[i]
    BY <2>1, <1>2 DEF Weighted
  <2>3. ASSUME NEW i \in 1..m + 1 PROVE H[i] \in Int /\ K[i] \in Int
    <3>1. BlockSize - i + 1 \in Int /\ w[i] \in Int /\ v[i] \in Int
      BY <1>1, <1>2
    <3> QED BY <3>1, <2>2
  <2> QED BY <2>2, <2>3
<1>5. \A i \in 1..m : G[i] \in Int /\ v[i] \in Int /\ G[i] = H[i + 1] /\ K[i] = G[i] + v[i]
  <2>1. ASSUME NEW i \in 1..m PROVE G[i] \in Int /\ v[i] \in Int /\ G[i] = H[i + 1] /\ K[i] = G[i] + v[i]
    <3>1. G[i] = H[i + 1] /\ i + 1 \in 1..m + 1 /\ i \in 1..m + 1 /\ i \in Int
      BY <1>1
    <3>2. /\ H[i + 1] = (BlockSize - (i + 1) + 1) * w[i + 1] /\ H[i + 1] \in Int
          /\ K[i] = (BlockSize - i + 1) * v[i] /\ v[i] = w[i + 1] /\ v[i] \in Int
      BY <3>1, <1>2, <1>4
    <3>3. (BlockSize - i + 1) * v[i] = (BlockSize - (i + 1) + 1) * v[i] + v[i]
      <4> DEFINE a == BlockSize - i  b == v[i]
      <4>1. a \in Int /\ b \in Int /\ BlockSize - (i + 1) + 1 = a
        BY <3>1, <3>2, <1>1
      <4> HIDE DEF a, b
      <4>2. (a + 1) * b = a * b + b
        BY <4>1
      <4> QED BY <4>1, <4>2 DEF a, b
    <3> QED BY <3>1, <3>2, <3>3
  <2> QED BY <2>1
<1>6. H[1] = BlockSize * old /\ K[m + 1] = x
  <2>1. 1 \in 1..m + 1 /\ m + 1 \in 1..m + 1 /\ BlockSize - 1 + 1 = BlockSize /\ BlockSize - (m + 1) + 1 = 1
    BY <1>1
  <2>2. H[1] = (BlockSize - 1 + 1) * w[1] /\ K[m + 1] = (BlockSize - (m + 1) + 1) * v[m + 1]
    BY <2>1, <1>4
  <2>3. 1 * x = x
    BY <1>2
  <2> QED BY <2>1, <2>2, <2>3, <1>2
<1> HIDE DEF H, K, G
<1>7. /\ Total(G, 1..m) \in Int
      /\ Total(H, 1..m + 1) = BlockSize * old + Total(G, 1..m)
  <2>1. (\A i \in 1..m + 1 : H[i] \in Int) /\ (\A i \in 1..m : G[i] = H[i + 1]) /\ m \in Nat
    BY <1>1, <1>4, <1>5
  <2>2. Total(G, 1..m) \in Int /\ Total(H, 1..m + 1) = H[1] + Total(G, 1..m)
    BY <2>1, TotalShift
  <2> QED BY <2>2, <1>6
<1>8. Total(K, 1..m + 1) = Total(G, 1..m) + Total(v, 1..m) + x
  <2>1. (\A i \in 1..m + 1 : K[i] \in Int) /\ m \in Nat
    BY <1>1, <1>4
  <2>2. Total(K, 1..m + 1) = Total(K, 1..m) + K[m + 1]
    BY <2>1, TotalNext
  <2>3. (\A i \in 1..m : G[i] \in Int /\ v[i] \in Int) /\ (\A i \in 1..m : K[i] = G[i] + v[i])
    BY <1>5
  <2>4. Total(K, 1..m) = Total(G, 1..m) + Total(v, 1..m)
    BY <2>1, <2>3, TotalAdd
  <2> QED BY <2>2, <2>4, <1>6
<1> DEFINE A == Total(w, 1..m + 1)  B == Total(H, 1..m + 1)
           A2 == Total(v, 1..m + 1)  B2 == Total(K, 1..m + 1)
<1>9. /\ A \in Int /\ B \in Int /\ A2 = A - old + x /\ B2 = B - BlockSize * old + A2
      /\ A2 \in Int /\ BlockSize * old \in Int
  <2> DEFINE p == Total(v, 1..m)  q == Total(G, 1..m)  z == BlockSize * old
  <2>1. /\ p \in Int /\ q \in Int /\ z \in Int
    BY <1>1, <1>2, <1>3, <1>7
  <2>2. A = old + p /\ A2 = p + x /\ B = z + q /\ B2 = q + p + x
    BY <1>2, <1>3, <1>7, <1>8
  <2> HIDE DEF p, q, z, A, B, A2, B2
  <2>3. A \in Int /\ B \in Int /\ A2 = A - old + x /\ B2 = B - z + A2 /\ A2 \in Int
    BY <2>1, <2>2, <1>2
  <2> QED BY <2>1, <2>3 DEF z
<1>10. /\ RollingChecksum(w) = [a |-> A % CheckMod, b |-> B % CheckMod]
       /\ RollingChecksum(v) = [a |-> A2 % CheckMod, b |-> B2 % CheckMod]
  BY <1>1, <1>2, ChecksumIs DEF H, K
<1> HIDE DEF A, B, A2, B2
<1>11. ((A % CheckMod) - old + x) % CheckMod = A2 % CheckMod
  <2>1. ((A % CheckMod) + (x - old)) % CheckMod = (A + (x - old)) % CheckMod
    <3>1. x - old \in Int
      BY <1>2
    <3> QED BY <3>1, <1>1, <1>9, RemainderFirst
  <2>2. (A % CheckMod) + (x - old) = (A % CheckMod) - old + x /\ A + (x - old) = A2
    <3> DEFINE r == A % CheckMod
    <3>1. r \in Int
      BY <1>1, <1>9
    <3> HIDE DEF r
    <3>2. r + (x - old) = r - old + x
      BY <3>1, <1>2
    <3>3. A + (x - old) = A2
      BY <1>2, <1>9
    <3> QED BY <3>2, <3>3 DEF r
  <2> QED BY <2>1, <2>2
<1>12. ((B % CheckMod) - BlockSize * old + (A2 % CheckMod)) % CheckMod = B2 % CheckMod
  <2> DEFINE z == BlockSize * old  r == A2 % CheckMod
  <2>1. z \in Int /\ r \in Int /\ B \in Int /\ A2 \in Int /\ B2 = B - z + A2 /\ r = A2 % CheckMod
    BY <1>1, <1>9
  <2> HIDE DEF z, r
  <2>2. ((B % CheckMod) + (r - z)) % CheckMod = (B + (r - z)) % CheckMod
    <3>1. r - z \in Int
      BY <2>1
    <3> QED BY <3>1, <1>1, <2>1, RemainderFirst
  <2>3. (r + (B - z)) % CheckMod = (A2 + (B - z)) % CheckMod
    <3>1. B - z \in Int
      BY <2>1
    <3> QED BY <3>1, <1>1, <2>1, RemainderFirst
  <2>4. /\ (B % CheckMod) + (r - z) = (B % CheckMod) - z + r
        /\ B + (r - z) = r + (B - z) /\ A2 + (B - z) = B2
    BY <1>1, <2>1
  <2>5. ((B % CheckMod) - z + r) % CheckMod = B2 % CheckMod
    BY <2>2, <2>3, <2>4
  <2> QED BY <2>5 DEF z, r
<1>13. RollChecksum(RollingChecksum(w), old, x)
        = [a |-> ((A % CheckMod) - old + x) % CheckMod,
           b |-> ((B % CheckMod) - BlockSize * old + (((A % CheckMod) - old + x) % CheckMod)) % CheckMod]
  BY <1>10 DEF RollChecksum
<1> QED BY <1>10, <1>11, <1>12, <1>13 DEF v, old

(******************************** signatures *******************************)

\* A part of a sequence.
LEMMA SliceIs ==
    ASSUME NEW S, NEW s \in Seq(S), NEW a \in Nat, NEW b \in Nat, a <= b, b <= Len(s)
    PROVE  /\ SubSeq(s, a + 1, b) \in Seq(S) /\ Len(SubSeq(s, a + 1, b)) = b - a
           /\ \A i \in 1..b - a : SubSeq(s, a + 1, b)[i] = s[a + i]
<1>1. a + 1 \in Int /\ b \in Int /\ Len(s) \in Nat
  OBVIOUS
<1>2. \A i \in (a + 1)..b : s[i] \in S
  OBVIOUS
<1>3. /\ SubSeq(s, a + 1, b) \in Seq(S)
      /\ Len(SubSeq(s, a + 1, b)) = IF a + 1 <= b THEN b - (a + 1) + 1 ELSE 0
      /\ \A i \in 1..b - (a + 1) + 1 : SubSeq(s, a + 1, b)[i] = s[(a + 1) + i - 1]
  BY <1>1, <1>2, SubSeqProperties
<1>4. Len(SubSeq(s, a + 1, b)) = b - a
  BY <1>3
<1>5. ASSUME NEW i \in 1..b - a PROVE SubSeq(s, a + 1, b)[i] = s[a + i]
  <2>1. i \in 1..b - (a + 1) + 1 /\ (a + 1) + i - 1 = a + i
    OBVIOUS
  <2> QED BY <2>1, <1>3
<1> QED BY <1>3, <1>4, <1>5

\* Where the first k blocks of a file end.
Cut(f, k) == IF k * BlockSize <= Len(f) THEN k * BlockSize ELSE Len(f)

Strongs(f) == [i \in DOMAIN BuildSignature(f) |-> BuildSignature(f)[i].strong]

\* The blocks of a signature: each begins within the file, and is the file from there
\* to the next, or to the end.
LEMMA BlocksIs ==
    ASSUME NEW f \in Seq(Bytes)
    PROVE  \E n \in Nat :
               /\ DOMAIN BuildSignature(f) = 1..n
               /\ Cut(f, 0) = 0 /\ Cut(f, n) = Len(f)
               /\ \A k \in 1..n :
                      /\ Cut(f, k - 1) = (k - 1) * BlockSize /\ Cut(f, k - 1) < Len(f)
                      /\ Cut(f, k) \in Nat /\ Cut(f, k - 1) < Cut(f, k) /\ Cut(f, k) <= Len(f)
                      /\ BuildSignature(f)[k].offset = Cut(f, k - 1)
                      /\ BuildSignature(f)[k].size = Cut(f, k) - Cut(f, k - 1)
                      /\ BuildSignature(f)[k].strong = SubSeq(f, Cut(f, k - 1) + 1, Cut(f, k))
                      /\ BuildSignature(f)[k].strong \in Seq(Bytes)
                      /\ Len(BuildSignature(f)[k].strong) = BuildSignature(f)[k].size
<1> DEFINE L == Len(f)  B == BlockSize  n == (L + B - 1) \div B
<1>1. L \in Nat /\ B \in Nat \ {0}
  BY DeltaAssumption
<1>2. n \in Nat /\ n * B >= L /\ (n = 0 \/ (n - 1) * B < L)
  <2> DEFINE r == (L + B - 1) % B
  <2>1. n \in Nat /\ r \in 0..(B - 1) /\ L + B - 1 = B * n + r
    <3> DEFINE y == L + B - 1
    <3>1. y \in Nat
      BY <1>1
    <3>2. y \div B \in Nat
      <4> HIDE DEF y
      <4> QED BY <3>1, <1>1
    <3>3. y % B \in 0..(B - 1) /\ y = B * (y \div B) + (y % B)
      <4> HIDE DEF y
      <4> QED BY <3>1, <1>1
    <3> QED BY <3>2, <3>3
  <2> HIDE DEF r, n, L, B
  <2>2. n * B >= L
    BY <2>1, <1>1
  <2>3. n # 0 => (n - 1) * B < L
    BY <2>1, <1>1
  <2> QED BY <2>1, <2>2, <2>3
<1>3. DOMAIN BuildSignature(f) = 1..n
  BY DEF BuildSignature
<1>4. ASSUME NEW k \in 1..n
      PROVE  /\ (k - 1) * B \in Nat /\ (k - 1) * B < L /\ k * B = (k - 1) * B + B
             /\ (k = n => k * B >= L)
  <2> HIDE DEF n, L, B
  <2>1. k \in Nat \ {0} /\ k <= n /\ n # 0
    BY <1>2
  <2>2. (k - 1) * B <= (n - 1) * B
    <3> DEFINE a == k - 1  b == n - 1
    <3>1. a \in Nat /\ b \in Nat /\ a <= b
      BY <2>1, <1>2
    <3> HIDE DEF a, b
    <3>2. a * B <= b * B
      BY <3>1, <1>1
    <3> QED BY <3>2 DEF a, b
  <2>3. (k - 1) * B \in Nat /\ (n - 1) * B \in Nat
    BY <2>1, <1>1, <1>2
  <2>4. k * B = (k - 1) * B + B
    BY <2>1, <1>1
  <2> QED BY <2>1, <2>2, <2>3, <2>4, <1>1, <1>2
<1>5. ASSUME NEW k \in 1..n
      PROVE  /\ Cut(f, k - 1) = (k - 1) * B /\ Cut(f, k - 1) < L
             /\ Cut(f, k) \in Nat /\ Cut(f, k - 1) < Cut(f, k) /\ Cut(f, k) <= L
             /\ Cut(f, k) = IF (k - 1) * B + B <= L THEN (k - 1) * B + B ELSE L
  <2> DEFINE a == (k - 1) * B  b == k * B
  <2>1. a \in Nat /\ a < L /\ b = a + B /\ L \in Nat /\ B \in Nat \ {0}
    BY <1>1, <1>4
  <2>2. Cut(f, k - 1) = IF a <= L THEN a ELSE L
    BY DEF Cut
  <2>3. Cut(f, k) = IF b <= L THEN b ELSE L
    BY DEF Cut
  <2> HIDE DEF a, b, L, B
  <2>4. /\ Cut(f, k - 1) = a /\ Cut(f, k - 1) < L
        /\ Cut(f, k) \in Nat /\ Cut(f, k - 1) < Cut(f, k) /\ Cut(f, k) <= L
        /\ Cut(f, k) = IF a + B <= L THEN a + B ELSE L
    BY <2>1, <2>2, <2>3
  <2> QED BY <2>4 DEF a
<1>6. ASSUME NEW k \in 1..n
      PROVE  /\ BuildSignature(f)[k].offset = Cut(f, k - 1)
             /\ BuildSignature(f)[k].size = Cut(f, k) - Cut(f, k - 1)
             /\ BuildSignature(f)[k].strong = SubSeq(f, Cut(f, k - 1) + 1, Cut(f, k))
             /\ BuildSignature(f)[k].strong \in Seq(Bytes)
             /\ Len(BuildSignature(f)[k].strong) = BuildSignature(f)[k].size
  <2> DEFINE a == Cut(f, k - 1)  b == Cut(f, k)  rest == SubSeq(f, a + 1, L)
             block == SubSeq(f, a + 1, b)
  <2>1. BuildSignature(f)[k] = BlockSignature(f, (k - 1) * B)
    BY <1>3 DEF BuildSignature
  <2>2. a = (k - 1) * B /\ a \in Nat /\ b \in Nat /\ a < L /\ a < b /\ b <= L
        /\ b = IF a + B <= L THEN a + B ELSE L
    BY <1>4, <1>5
  <2> HIDE DEF a, b, B
  <2>3. rest \in Seq(Bytes) /\ Len(rest) = L - a /\ \A i \in 1..L - a : rest[i] = f[a + i]
    <3>1. a \in Nat /\ L \in Nat /\ a <= L /\ L <= Len(f)
      BY <2>2, <1>1
    <3> HIDE DEF L
    <3> QED BY <3>1, SliceIs
  <2>4. block \in Seq(Bytes) /\ Len(block) = b - a /\ \A i \in 1..b - a : block[i] = f[a + i]
    <3>1. f \in Seq(Bytes) /\ a \in Nat /\ b \in Nat /\ a <= b /\ b <= Len(f)
      BY <2>2, <1>1
    <3>2. /\ SubSeq(f, a + 1, b) \in Seq(Bytes) /\ Len(SubSeq(f, a + 1, b)) = b - a
          /\ \A i \in 1..b - a : SubSeq(f, a + 1, b)[i] = f[a + i]
      <4> HIDE DEF block, rest, L
      <4> QED BY ONLY <3>1, SliceIs
    <3> QED BY <3>2
  <2>5. FirstBlock(rest) = block
    <3>1. CASE a + B <= L /\ L - a > B
      <4>1. FirstBlock(rest) = SubSeq(rest, 1, B)
        <5>1. ~(Len(rest) <= B)
          BY <3>1, <2>2, <2>3, <1>1
        <5> QED BY <5>1 DEF FirstBlock, B
      <4>2. /\ SubSeq(rest, 1, B) \in Seq(Bytes) /\ Len(SubSeq(rest, 1, B)) = B
            /\ \A i \in 1..B : SubSeq(rest, 1, B)[i] = rest[i]
        <5>1. 0 \in Nat /\ B \in Nat /\ 0 <= B /\ B <= Len(rest) /\ 0 + 1 = 1 /\ B - 0 = B
          BY <3>1, <2>2, <2>3, <1>1
        <5>2. /\ SubSeq(rest, 0 + 1, B) \in Seq(Bytes) /\ Len(SubSeq(rest, 0 + 1, B)) = B - 0
              /\ \A i \in 1..B - 0 : SubSeq(rest, 0 + 1, B)[i] = rest[0 + i]
          <6> HIDE DEF rest
          <6> QED BY <2>3, <5>1, SliceIs
        <5>3. \A i \in 1..B : i \in 1..B - 0 /\ 0 + i = i
          BY <5>1
        <5> HIDE DEF rest, B
        <5> QED BY <5>1, <5>2, <5>3
      <4>3. ASSUME NEW i \in 1..B PROVE SubSeq(rest, 1, B)[i] = block[i]
        <5>1. i \in 1..L - a /\ i \in 1..b - a
          BY <3>1, <2>2, <1>1
        <5> QED BY <5>1, <4>2, <2>3, <2>4
      <4>4. Len(block) = B
        BY <3>1, <2>2, <2>4, <1>1
      <4> HIDE DEF rest, block
      <4>5. SubSeq(rest, 1, B) = block
        BY <4>2, <4>3, <4>4, <2>4, SeqEqual
      <4> QED BY <4>1, <4>5
    <3>2. CASE L - a <= B
      <4>1. FirstBlock(rest) = rest
        BY <3>2, <2>3 DEF FirstBlock, B
      <4>2. b = L
        BY <3>2, <2>2, <1>1
      <4> QED BY <4>1, <4>2
    <3>3. a + B <= L \/ L - a <= B
      BY <2>2, <1>1
    <3>4. L - a > B \/ L - a <= B
      BY <2>2, <1>1
    <3>5. L - a > B => a + B <= L
      BY <2>2, <1>1
    <3> QED BY <3>1, <3>2, <3>4, <3>5
  <2>6. BlockSignature(f, a) = [offset |-> a, size |-> Len(block), weak |-> RollingChecksum(block), strong |-> block]
    BY <2>5 DEF BlockSignature
  <2> HIDE DEF block
  <2>7. /\ BuildSignature(f)[k].offset = a /\ BuildSignature(f)[k].size = Len(block)
        /\ BuildSignature(f)[k].strong = block
    BY <2>1, <2>2, <2>6 DEF B
  <2> QED BY <2>4, <2>7 DEF a, b, block
<1>7. Cut(f, 0) = 0
  <2>1. 0 * B = 0 /\ 0 <= L
    BY <1>1
  <2> QED BY <2>1 DEF Cut
<1>8. Cut(f, n) = L
  <2> DEFINE b == n * B
  <2>1. b \in Nat /\ b >= L
    BY <1>1, <1>2
  <2>2. Cut(f, n) = IF b <= L THEN b ELSE L
    BY DEF Cut
  <2> HIDE DEF b, L
  <2> QED BY <2>1, <2>2, <1>1
<1> HIDE DEF n
<1> QED BY <1>2, <1>3, <1>5, <1>6, <1>7, <1>8

\* The blocks of a signature, one after another, are the file.
LEMMA SignedIs ==
    ASSUME NEW f \in Seq(Bytes)
    PROVE  FlattenSeq(Strongs(f)) = f
<1>1. PICK n \in Nat :
               /\ DOMAIN BuildSignature(f) = 1..n
               /\ Cut(f, 0) = 0 /\ Cut(f, n) = Len(f)
               /\ \A k \in 1..n :
                      /\ Cut(f, k - 1) < Len(f)
                      /\ Cut(f, k) \in Nat /\ Cut(f, k - 1) < Cut(f, k) /\ Cut(f, k) <= Len(f)
                      /\ BuildSignature(f)[k].strong = SubSeq(f, Cut(f, k - 1) + 1, Cut(f, k))
                      /\ BuildSignature(f)[k].strong \in Seq(Bytes)
  BY BlocksIs
<1> DEFINE P(k) == [i \in 1..k |-> BuildSignature(f)[i].strong]
           T == {k \in Nat : k <= n => /\ P(k) \in Seq(Seq(Bytes)) /\ Cut(f, k) \in Nat /\ Cut(f, k) <= Len(f)
                                       /\ FlattenSeq(P(k)) = SubSeq(f, 1, Cut(f, k))}
<1>2. 0 \in T
  <2>1. P(0) = <<>> /\ SubSeq(f, 1, 0) = <<>>
    OBVIOUS
  <2>2. FlattenSeq(P(0)) = <<>> /\ Cut(f, 0) = 0
    BY <2>1, <1>1, FlattenNone
  <2>3. 0 \in Nat /\ 0 <= Len(f) /\ P(0) \in Seq(Seq(Bytes))
    BY <2>1
  <2> HIDE DEF P
  <2> QED BY <2>1, <2>2, <2>3
<1>3. ASSUME NEW k \in Nat, k \in T PROVE k + 1 \in T
  <2>1. SUFFICES ASSUME k + 1 <= n
                 PROVE  /\ P(k + 1) \in Seq(Seq(Bytes)) /\ Cut(f, k + 1) \in Nat /\ Cut(f, k + 1) <= Len(f)
                        /\ FlattenSeq(P(k + 1)) = SubSeq(f, 1, Cut(f, k + 1))
    OBVIOUS
  <2> DEFINE x == BuildSignature(f)[k + 1].strong  c == Cut(f, k)  e == Cut(f, k + 1)
  <2>2. /\ x = SubSeq(f, c + 1, e) /\ x \in Seq(Bytes) /\ e \in Nat /\ c < e /\ e <= Len(f)
    <3>1. k + 1 \in 1..n /\ (k + 1) - 1 = k
      BY <2>1
    <3> QED BY <3>1, <1>1
  <2>3. P(k) \in Seq(Seq(Bytes)) /\ c \in Nat /\ FlattenSeq(P(k)) = SubSeq(f, 1, c) /\ Len(P(k)) = k
    BY <2>1, <1>3
  <2>4. P(k + 1) = Append(P(k), x)
    OBVIOUS
  <2>5. P(k + 1) \in Seq(Seq(Bytes)) /\ FlattenSeq(P(k + 1)) = SubSeq(f, 1, c) \o x
    <3> HIDE DEF P, x
    <3>1. Append(P(k), x) \in Seq(Seq(Bytes))
      BY <2>2, <2>3
    <3>2. FlattenSeq(Append(P(k), x)) = FlattenSeq(P(k)) \o x
      BY <2>2, <2>3, FlattenAppend
    <3> QED BY <3>1, <3>2, <2>3, <2>4
  <2>6. SubSeq(f, 1, c) \o SubSeq(f, c + 1, e) = SubSeq(f, 1, e)
    <3> HIDE DEF c, e
    <3>1. 1 \in 1..Len(f) + 1 /\ c \in 1 - 1 .. Len(f) /\ e \in c..Len(f)
      BY <2>2, <2>3
    <3> QED BY <3>1, ConcatAdjacentSubSeq
  <2> QED BY <2>2, <2>5, <2>6
<1>4. \A k \in Nat : k \in T
  <2> HIDE DEF T
  <2>1. T \subseteq Nat
    BY DEF T
  <2> QED BY <1>2, <1>3, <2>1, AllNumbers
<1>5. FlattenSeq(P(n)) = SubSeq(f, 1, Len(f))
  <2>1. n \in T /\ n <= n
    BY <1>4
  <2> QED BY <2>1, <1>1
<1>6. Strongs(f) = P(n)
  BY <1>1 DEF Strongs
<1>7. SubSeq(f, 1, Len(f)) = f
  BY SubSeqFull
<1> QED BY <1>5, <1>6, <1>7

(********************************** the scan *******************************)

Op == [type : {"copy"}, offset : Nat, size : Nat] \cup [type : {"data"}, data : Seq(Bytes)]

Part(basis, op) == IF op.type = "data" THEN op.data
                   ELSE SubSeq(basis, op.offset + 1, op.offset + op.size)
FitsOne(basis, op) == op.type = "copy" => op.offset + op.size <= Len(basis)

\* An operation that lies within the basis is worth a sequence of bytes.
LEMMA PartType ==
    ASSUME NEW basis \in Seq(Bytes), NEW op \in Op, FitsOne(basis, op)
    PROVE  Part(basis, op) \in Seq(Bytes)
<1>1. CASE op.type = "data"
  BY <1>1 DEF Op, Part
<1>2. CASE op.type = "copy"
  <2> DEFINE a == op.offset  b == op.offset + op.size
  <2>1. a \in Nat /\ b \in Nat /\ a <= b /\ b <= Len(basis)
    BY <1>2 DEF Op, FitsOne
  <2>2. Part(basis, op) = SubSeq(basis, a + 1, b)
    BY <1>2 DEF Part
  <2> HIDE DEF a, b
  <2> QED BY <2>1, <2>2, SliceIs
<1> QED BY <1>1, <1>2 DEF Op

\* One operation more is patched in at the end.
LEMMA PatchedAppend ==
    ASSUME NEW basis \in Seq(Bytes), NEW ops \in Seq(Op), Fits(basis, ops),
           NEW op \in Op, FitsOne(basis, op)
    PROVE  /\ Append(ops, op) \in Seq(Op) /\ Fits(basis, Append(ops, op))
           /\ Patched(basis, ops) \in Seq(Bytes)
           /\ Patched(basis, Append(ops, op)) = Patched(basis, ops) \o Part(basis, op)
<1> DEFINE t == Append(ops, op)  P(s) == [i \in DOMAIN s |-> Part(basis, s[i])]
<1>1. /\ t \in Seq(Op) /\ Len(ops) \in Nat /\ Len(t) = Len(ops) + 1
      /\ t[Len(ops) + 1] = op /\ \A i \in 1..Len(ops) : t[i] = ops[i]
  BY AppendIs
<1> HIDE DEF t
<1>2. Fits(basis, t)
  <2>1. ASSUME NEW i \in DOMAIN t PROVE FitsOne(basis, t[i])
    <3>1. i \in 1..Len(ops) \/ i = Len(ops) + 1
      BY <1>1
    <3>2. \A k \in 1..Len(ops) : FitsOne(basis, ops[k])
      BY DEF Fits, FitsOne
    <3> QED BY <3>1, <3>2, <1>1
  <2> QED BY <2>1 DEF Fits, FitsOne
<1>3. \A i \in 1..Len(ops) : ops[i] \in Op /\ FitsOne(basis, ops[i]) /\ Part(basis, ops[i]) \in Seq(Bytes)
  <2>1. ASSUME NEW i \in 1..Len(ops) PROVE ops[i] \in Op /\ FitsOne(basis, ops[i])
    BY DEF Fits, FitsOne
  <2> QED BY <2>1, PartType
<1>4. /\ P(ops) \in Seq(Seq(Bytes)) /\ Len(P(ops)) = Len(ops)
      /\ \A i \in 1..Len(ops) : P(ops)[i] = Part(basis, ops[i])
  <2>1. DOMAIN ops = 1..Len(ops)
    OBVIOUS
  <2>2. P(ops) = [i \in 1..Len(ops) |-> Part(basis, ops[i])]
    BY <2>1
  <2> HIDE DEF P
  <2> QED BY <2>2, <1>3, <1>1
<1>5. Part(basis, op) \in Seq(Bytes)
  BY PartType
<1>6. P(t) = Append(P(ops), Part(basis, op))
  <2>1. DOMAIN t = 1..Len(ops) + 1
    BY <1>1
  <2>2. P(t) = [i \in 1..Len(ops) + 1 |-> Part(basis, t[i])]
    BY <2>1
  <2> DEFINE u == Append(P(ops), Part(basis, op))
  <2>3. /\ u \in Seq(Seq(Bytes)) /\ Len(u) = Len(ops) + 1
        /\ u[Len(ops) + 1] = Part(basis, op) /\ \A i \in 1..Len(ops) : u[i] = P(ops)[i]
    <3> HIDE DEF P
    <3>1. P(ops) \in Seq(Seq(Bytes)) /\ Part(basis, op) \in Seq(Bytes)
      BY <1>4, <1>5
    <3> QED BY <3>1, <1>4, AppendIs
  <2> HIDE DEF u
  <2>4. u = [i \in 1..Len(ops) + 1 |-> u[i]]
    BY <2>3, <1>1
  <2>5. ASSUME NEW i \in 1..Len(ops) + 1 PROVE u[i] = Part(basis, t[i])
    <3>1. i \in 1..Len(ops) \/ i = Len(ops) + 1
      BY <1>1
    <3> HIDE DEF P
    <3> QED BY <3>1, <2>3, <1>1, <1>4
  <2>6. u = [i \in 1..Len(ops) + 1 |-> Part(basis, t[i])]
    BY <2>4, <2>5
  <2> QED BY <2>2, <2>6 DEF u
<1>7. Patched(basis, ops) = FlattenSeq(P(ops)) /\ Patched(basis, t) = FlattenSeq(P(t))
  BY DEF Patched, Part
<1> HIDE DEF P
<1>8. FlattenSeq(P(ops)) \in Seq(Bytes)
  BY <1>4, FlattenType
<1>9. FlattenSeq(P(t)) = FlattenSeq(P(ops)) \o Part(basis, op)
  BY <1>4, <1>5, <1>6, FlattenAppend
<1> QED BY <1>1, <1>2, <1>7, <1>8, <1>9 DEF t

\* Literal data held back is patched in at the end when it is written.
LEMMA FlushedIs ==
    ASSUME NEW basis \in Seq(Bytes), NEW ops \in Seq(Op), Fits(basis, ops), NEW bytes \in Seq(Bytes)
    PROVE  /\ Flushed(ops, bytes) \in Seq(Op) /\ Fits(basis, Flushed(ops, bytes))
           /\ Patched(basis, ops) \in Seq(Bytes)
           /\ Patched(basis, Flushed(ops, bytes)) = Patched(basis, ops) \o bytes
<1>1. Data(bytes) \in Op /\ FitsOne(basis, Data(bytes)) /\ Part(basis, Data(bytes)) = bytes
  BY DEF Data, Op, FitsOne, Part
<1>2. /\ Append(ops, Data(bytes)) \in Seq(Op) /\ Fits(basis, Append(ops, Data(bytes)))
      /\ Patched(basis, ops) \in Seq(Bytes)
      /\ Patched(basis, Append(ops, Data(bytes))) = Patched(basis, ops) \o bytes
  BY <1>1, PatchedAppend
<1>3. CASE bytes = <<>>
  BY <1>2, <1>3 DEF Flushed
<1>4. CASE bytes # <<>>
  BY <1>2, <1>4 DEF Flushed
<1> QED BY <1>3, <1>4

\* What is read in a block and what is left make up what there was.
LEMMA BlockWhole ==
    ASSUME NEW s \in Seq(Bytes)
    PROVE  /\ FirstBlock(s) \in Seq(Bytes) /\ Remaining(s) \in Seq(Bytes)
           /\ Len(FirstBlock(s)) <= BlockSize
           /\ FirstBlock(s) \o Remaining(s) = s
<1>1. BlockSize \in Nat \ {0} /\ Len(s) \in Nat
  BY DeltaAssumption
<1>2. CASE Len(s) <= BlockSize
  BY <1>1, <1>2 DEF FirstBlock, Remaining
<1>3. CASE Len(s) > BlockSize
  <2> DEFINE b == BlockSize
  <2>1. FirstBlock(s) = SubSeq(s, 1, b) /\ Remaining(s) = SubSeq(s, b + 1, Len(s))
    BY <1>1, <1>3 DEF FirstBlock, Remaining
  <2>2. 1 \in 1..Len(s) + 1 /\ b \in 1 - 1 .. Len(s) /\ Len(s) \in b..Len(s) /\ b \in Nat
    BY <1>1, <1>3
  <2>3. SubSeq(s, 1, b) \o SubSeq(s, b + 1, Len(s)) = SubSeq(s, 1, Len(s))
    <3> HIDE DEF b
    <3> QED BY <2>2, ConcatAdjacentSubSeq
  <2>4. SubSeq(s, 1, Len(s)) = s
    BY SubSeqFull
  <2>5. SubSeq(s, 0 + 1, b) \in Seq(Bytes) /\ Len(SubSeq(s, 0 + 1, b)) = b - 0
    <3>1. 0 \in Nat /\ 0 <= b /\ b <= Len(s)
      BY <1>1, <1>3
    <3> HIDE DEF b
    <3> QED BY <3>1, <2>2, SliceIs
  <2>6. SubSeq(s, b + 1, Len(s)) \in Seq(Bytes)
    <3>1. b <= Len(s) /\ Len(s) <= Len(s)
      BY <1>1, <1>3
    <3> HIDE DEF b
    <3> QED BY <3>1, <1>1, <2>2, SliceIs
  <2>7. Len(FirstBlock(s)) <= BlockSize
    BY <2>1, <2>5, <1>1
  <2>8. FirstBlock(s) \in Seq(Bytes) /\ Remaining(s) \in Seq(Bytes)
    BY <2>1, <2>5, <2>6
  <2>9. FirstBlock(s) \o Remaining(s) = s
    BY <2>1, <2>3, <2>4
  <2> QED BY <2>7, <2>8, <2>9
<1> QED BY <1>1, <1>2, <1>3

\* Sequences of bytes are joined in any grouping.
LEMMA Joins ==
    ASSUME NEW a \in Seq(Bytes), NEW b \in Seq(Bytes), NEW c \in Seq(Bytes)
    PROVE  /\ a \o b \in Seq(Bytes) /\ a \o <<>> = a
           /\ (a \o b) \o c = a \o (b \o c)
<1>1. a \o b \in Seq(Bytes)
  BY ONLY a \in Seq(Bytes), b \in Seq(Bytes), ConcatProperties
<1>2. a \o <<>> = a
  BY ONLY a \in Seq(Bytes), ConcatEmptySeq
<1>3. (a \o b) \o c = a \o (b \o c)
  BY ONLY a \in Seq(Bytes), b \in Seq(Bytes), c \in Seq(Bytes), ConcatAssociative
<1> QED BY <1>1, <1>2, <1>3

\* In any grouping.
LEMMA Grouped == \A a, b, c \in Seq(Bytes) : (a \o b) \o c = a \o (b \o c)
BY Joins

\* Joining, under a name the provers take as it is.
Then(a, b) == a \o b

\* It may be grouped in any way.
LEMMA ThenGrouped ==
    /\ \A a, b \in Seq(Bytes) : Then(a, b) \in Seq(Bytes)
    /\ \A a, b, c \in Seq(Bytes) : Then(Then(a, b), c) = Then(a, Then(b, c))
BY Joins, Grouped DEF Then

\* A sequence is its first element, and the rest.
LEMMA FirstAndRest ==
    ASSUME NEW s \in Seq(Bytes), s # <<>>
    PROVE  /\ <<Head(s)>> \in Seq(Bytes) /\ Tail(s) \in Seq(Bytes) /\ Head(s) \in Bytes
           /\ s = <<Head(s)>> \o Tail(s)
<1>1. /\ <<Head(s)>> \in Seq(Bytes) /\ Tail(s) \in Seq(Bytes) /\ Head(s) \in Bytes
  OBVIOUS
<1>2. s = <<Head(s)>> \o Tail(s)
  OBVIOUS
<1> QED BY <1>1, <1>2

\* The window's first byte goes to what is held back, the source's into the window.
Moves(o, p, w, r) ==
    (o \o Append(p, Head(w))) \o (Append(Tail(w), Head(r)) \o Tail(r)) = (o \o p) \o (w \o r)

\* What is written, held back and to come stays the same.
LEMMA RollJoins ==
    ASSUME NEW o \in Seq(Bytes), NEW p \in Seq(Bytes), NEW w \in Seq(Bytes), NEW r \in Seq(Bytes),
           w # <<>>, r # <<>>
    PROVE  Moves(o, p, w, r)
<1> DEFINE h == <<Head(w)>>  t == Tail(w)  k == <<Head(r)>>  z == Tail(r)
<1>1. /\ h \in Seq(Bytes) /\ t \in Seq(Bytes) /\ w = Then(h, t)
      /\ k \in Seq(Bytes) /\ z \in Seq(Bytes) /\ r = Then(k, z)
  BY FirstAndRest DEF Then
<1>2. Append(p, Head(w)) = Then(p, h) /\ Append(t, Head(r)) = Then(t, k)
  <2>1. \A a \in Seq(Bytes), e \in Bytes : Append(a, e) = a \o <<e>>
    OBVIOUS
  <2>2. Head(w) \in Bytes /\ Head(r) \in Bytes /\ Tail(w) \in Seq(Bytes)
    BY FirstAndRest
  <2> QED BY <2>1, <2>2 DEF Then
<1> HIDE DEF h, t, k, z
<1>3. Then(Then(o, Then(p, h)), Then(Then(t, k), z)) = Then(Then(o, p), Then(Then(h, t), Then(k, z)))
  <2>1. Then(Then(t, k), z) = Then(t, Then(k, z)) /\ Then(k, z) \in Seq(Bytes)
    BY <1>1, ThenGrouped
  <2>2. Then(Then(h, t), Then(k, z)) = Then(h, Then(t, Then(k, z))) /\ Then(t, Then(k, z)) \in Seq(Bytes)
    BY <1>1, <2>1, ThenGrouped
  <2>3. Then(o, Then(p, h)) = Then(Then(o, p), h) /\ Then(o, p) \in Seq(Bytes)
    BY <1>1, ThenGrouped
  <2>4. Then(Then(Then(o, p), h), Then(t, Then(k, z))) = Then(Then(o, p), Then(h, Then(t, Then(k, z))))
    BY <1>1, <2>2, <2>3, ThenGrouped
  <2> QED BY <2>1, <2>2, <2>3, <2>4
<1>4. Then(Then(o, Append(p, Head(w))), Then(Append(t, Head(r)), z)) = Then(Then(o, p), Then(w, r))
  BY <1>1, <1>2, <1>3
<1> QED BY <1>4 DEF Then, t, z, Moves

\* What the scan has not written yet, nor holds back.
Unread(s) == IF s.done THEN <<>> ELSE s.window \o s.rest

\* What is written is worth the source's beginning, and the rest is still there.
Exact(basis, s, source) ==
    /\ s.ops \in Seq(Op) /\ Fits(basis, s.ops)
    /\ Len(s.window) <= BlockSize /\ (Len(s.window) < BlockSize => s.rest = <<>>)
    /\ Patched(basis, s.ops) \o s.pending \o Unread(s) = source
    /\ s.weak = RollingChecksum(s.window)

\* Nothing is written yet.
LEMMA PatchedNone == ASSUME NEW basis PROVE Patched(basis, <<>>) = <<>> /\ Fits(basis, <<>>)
<1>1. \A g : [i \in DOMAIN <<>> |-> g[i]] = <<>>
  OBVIOUS
<1>2. Patched(basis, <<>>) = FlattenSeq(<<>>)
  BY DEF Patched
<1> QED BY <1>2, FlattenNone DEF Fits

\* A short block is the last (io.ReadFull).
LEMMA ShortIsLast ==
    ASSUME NEW s \in Seq(Bytes), Len(FirstBlock(s)) < BlockSize
    PROVE  Remaining(s) = <<>>
<1>1. BlockSize \in Nat \ {0} /\ Len(s) \in Nat
  BY DeltaAssumption
<1>2. CASE Len(s) <= BlockSize
  BY <1>2 DEF Remaining
<1>3. CASE Len(s) > BlockSize
  <2>1. FirstBlock(s) = SubSeq(s, 0 + 1, BlockSize)
    BY <1>1, <1>3 DEF FirstBlock
  <2>2. Len(SubSeq(s, 0 + 1, BlockSize)) = BlockSize - 0
    <3>1. 0 \in Nat /\ 0 <= BlockSize /\ BlockSize <= Len(s) /\ BlockSize \in Nat
      BY <1>1, <1>3
    <3> QED BY <3>1, SliceIs
  <2> QED BY <2>1, <2>2, <1>1
<1> QED BY <1>1, <1>2, <1>3

\* The scan begins with the source (OpenSource).
LEMMA ScanBegins ==
    ASSUME NEW basis, NEW source \in Seq(Bytes)
    PROVE  Exact(basis, ScanOf(source), source)
<1> DEFINE s == ScanOf(source)
<1>1. /\ s.window = FirstBlock(source) /\ s.rest = Remaining(source) /\ s.pending = <<>> /\ s.ops = <<>>
      /\ s.done = (source = <<>>) /\ s.weak = RollingChecksum(s.window)
  BY DEF ScanOf
<1> HIDE DEF s
<1>2. Unread(s) = source
  BY <1>1, BlockWhole DEF Unread
<1>3. Patched(basis, s.ops) \o s.pending \o Unread(s) = source
  <2>1. <<>> \o <<>> \o source = source
    OBVIOUS
  <2> QED BY <2>1, <1>1, <1>2, PatchedNone
<1>4. /\ s.ops \in Seq(Op) /\ Fits(basis, s.ops) /\ Len(s.window) <= BlockSize
      /\ Len(s.window) < BlockSize => s.rest = <<>>
  <2>1. <<>> \in Seq(Op)
    OBVIOUS
  <2>2. Fits(basis, <<>>)
    BY PatchedNone
  <2>3. Len(FirstBlock(source)) <= BlockSize
    BY BlockWhole
  <2>4. Len(FirstBlock(source)) < BlockSize => Remaining(source) = <<>>
    BY ShortIsLast
  <2> QED BY ONLY <2>1, <2>2, <2>3, <2>4, <1>1
<1>5. Exact(basis, s, source)
  BY <1>1, <1>3, <1>4 DEF Exact
<1> QED BY <1>5 DEF s

\* A block of the basis is written as a copy, and the next one is read (BlockFound).
LEMMA CopyExact ==
    ASSUME NEW basis \in Seq(Bytes), ScanTypeOK, NEW source, Exact(basis, scan, source), ~scan.done,
           NEW block, Copy(block) \in Op, FitsOne(basis, Copy(block)),
           Part(basis, Copy(block)) = scan.window, scan' = ScanCopy(scan, block)
    PROVE  Exact(basis, scan', source)
<1> DEFINE p == scan.pending  w == scan.window  r == scan.rest  P == Patched(basis, scan.ops)
           ops == Flushed(scan.ops, p)
<1>1. p \in Seq(Bytes) /\ w \in Seq(Bytes) /\ r \in Seq(Bytes)
  BY DEF ScanTypeOK
<1>2. /\ ops \in Seq(Op) /\ Fits(basis, ops) /\ P \in Seq(Bytes) /\ Patched(basis, ops) = P \o p
  BY <1>1, FlushedIs DEF Exact
<1>3. /\ scan'.window = FirstBlock(r) /\ scan'.rest = Remaining(r) /\ scan'.pending = <<>>
      /\ scan'.ops = Append(ops, Copy(block)) /\ scan'.done = (r = <<>>)
      /\ scan'.weak = RollingChecksum(scan'.window)
  BY DEF ScanCopy
<1>4. (P \o p) \o (w \o r) = source
  BY DEF Exact, Unread
<1> HIDE DEF p, w, r, P, ops
<1>5. /\ scan'.ops \in Seq(Op) /\ Fits(basis, scan'.ops)
      /\ Patched(basis, scan'.ops) = (P \o p) \o w
  BY <1>2, <1>3, PatchedAppend DEF w
<1>6. Unread(scan') = r
  BY <1>1, <1>3, BlockWhole DEF Unread
<1>7. Patched(basis, scan'.ops) \o scan'.pending \o Unread(scan') = source
  <2> DEFINE X == P \o p
  <2>1. X \in Seq(Bytes)
    BY <1>1, <1>2, Joins
  <2> HIDE DEF X
  <2>2. X \o w \in Seq(Bytes) /\ (X \o w) \o r = X \o (w \o r)
    <3>1. \A u \in Seq(Bytes) : (X \o u) \o r = X \o (u \o r)
      BY <2>1, <1>1, Grouped
    <3> QED BY <3>1, <2>1, <1>1, Joins
  <2> DEFINE Y == X \o w
  <2>3. Y \in Seq(Bytes)
    BY <2>2
  <2> HIDE DEF Y
  <2>4. Y \o <<>> = Y
    BY <2>3, Joins
  <2>5. Patched(basis, scan'.ops) = Y /\ X \o (w \o r) = source
    BY <1>4, <1>5 DEF X, Y
  <2>6. Y \o r = source
    BY <2>2, <2>5 DEF Y
  <2> QED BY <2>4, <2>5, <2>6, <1>3, <1>6
<1>8. Len(scan'.window) <= BlockSize /\ (Len(scan'.window) < BlockSize => scan'.rest = <<>>)
  BY <1>1, <1>3, BlockWhole, ShortIsLast
<1> QED BY <1>3, <1>5, <1>7, <1>8 DEF Exact

\* The last window is written as it is, with what was held back (LastWindow).
LEMMA LastExact ==
    ASSUME NEW basis \in Seq(Bytes), ScanTypeOK, NEW source, Exact(basis, scan, source), ~scan.done,
           IsLast(scan), scan' = ScanLast(scan)
    PROVE  Exact(basis, scan', source)
<1> DEFINE p == scan.pending  w == scan.window  P == Patched(basis, scan.ops)
<1>1. p \in Seq(Bytes) /\ w \in Seq(Bytes) /\ p \o w \in Seq(Bytes)
  BY DEF ScanTypeOK
<1>2. /\ scan'.ops = Flushed(scan.ops, p \o w) /\ scan'.pending = <<>> /\ scan'.done = TRUE
      /\ scan'.window = scan.window /\ scan'.rest = scan.rest /\ scan'.weak = scan.weak
  BY DEF ScanLast, ScanTypeOK
<1>3. scan.rest = <<>>
  BY DEF Exact, IsLast
<1>4. /\ scan'.ops \in Seq(Op) /\ Fits(basis, scan'.ops) /\ P \in Seq(Bytes)
      /\ Patched(basis, scan'.ops) = P \o (p \o w)
  BY <1>1, <1>2, FlushedIs DEF Exact
<1>5. (P \o p) \o (w \o <<>>) = source
  BY <1>3 DEF Exact, Unread
<1> HIDE DEF p, w, P
<1>6. P \o (p \o w) = source
  <2>1. w \o <<>> = w /\ (P \o p) \o w = P \o (p \o w)
    <3>1. \A u \in Seq(Bytes) : (P \o u) \o w = P \o (u \o w)
      BY <1>1, <1>4, Grouped
    <3> QED BY <3>1, <1>1, Joins
  <2> QED BY <2>1, <1>5
<1>7. (source \o <<>>) \o <<>> = source
  <2>1. source \in Seq(Bytes)
    BY <1>1, <1>4, <1>6, Joins
  <2> QED BY <2>1, Joins
<1>8. Patched(basis, scan'.ops) \o scan'.pending \o Unread(scan') = source
  BY <1>2, <1>4, <1>6, <1>7 DEF Unread
<1> QED BY <1>2, <1>4, <1>8 DEF Exact

\* The window's first byte is held back, or written with the others held back, and
\* the window moves (NextWindow).
LEMMA RollExact ==
    ASSUME NEW basis \in Seq(Bytes), ScanTypeOK, NEW source, Exact(basis, scan, source), ~scan.done,
           ~IsLast(scan), scan' = ScanRoll(scan)
    PROVE  Exact(basis, scan', source)
<1> DEFINE p == scan.pending  w == scan.window  r == scan.rest  P == Patched(basis, scan.ops)
           q == Append(p, Head(w))  v == Append(Tail(w), Head(r))
<1>1. /\ p \in Seq(Bytes) /\ w \in Seq(Bytes) /\ r \in Seq(Bytes) /\ Len(w) = BlockSize
      /\ w # <<>> /\ r # <<>> /\ scan.ops \in Seq(Op) /\ Fits(basis, scan.ops)
      /\ scan.weak = RollingChecksum(w) /\ (P \o p) \o (w \o r) = source
  <2>1. p \in Seq(Bytes) /\ w \in Seq(Bytes) /\ r \in Seq(Bytes)
    BY DEF ScanTypeOK
  <2>2. Len(w) = BlockSize /\ r # <<>>
    BY <2>1, DeltaAssumption DEF Exact, IsLast
  <2>3. w # <<>>
    BY <2>2, DeltaAssumption
  <2>4. scan.ops \in Seq(Op) /\ Fits(basis, scan.ops) /\ scan.weak = RollingChecksum(w) /\ (P \o p) \o (w \o r) = source
    BY DEF Exact, Unread
  <2> QED BY <2>1, <2>2, <2>3, <2>4
<1>2. /\ scan'.window = v /\ scan'.rest = Tail(r) /\ scan'.done = FALSE
      /\ scan'.weak = RollChecksum(scan.weak, Head(w), Head(r))
      /\ \/ scan'.pending = q /\ scan'.ops = scan.ops
         \/ scan'.pending = <<>> /\ scan'.ops = Append(scan.ops, Data(q))
  BY DEF ScanRoll, ScanTypeOK
<1> HIDE DEF p, w, r, P
<1>3. /\ Head(w) \in Bytes /\ Head(r) \in Bytes /\ Tail(w) \in Seq(Bytes) /\ Tail(r) \in Seq(Bytes)
      /\ Len(Tail(w)) = BlockSize - 1
  BY <1>1
<1>4. q \in Seq(Bytes) /\ q # <<>> /\ v \in Seq(Bytes) /\ Len(v) = BlockSize
  <2>1. q \in Seq(Bytes) /\ q # <<>>
    BY <1>1, <1>3, AppendIs
  <2>2. v \in Seq(Bytes) /\ Len(v) = Len(Tail(w)) + 1
    BY <1>3, AppendIs
  <2> QED BY <2>1, <2>2, <1>3, DeltaAssumption
<1>5. scan'.weak = RollingChecksum(scan'.window)
  BY <1>1, <1>2, <1>3, RollIs
<1>6. ASSUME NEW o \in Seq(Bytes)
      PROVE  (o \o q) \o (v \o Tail(r)) = (o \o p) \o (w \o r)
  <2>1. p \in Seq(Bytes) /\ w \in Seq(Bytes) /\ r \in Seq(Bytes) /\ w # <<>> /\ r # <<>>
    BY <1>1
  <2>2. Moves(o, p, w, r)
    BY <2>1, RollJoins
  <2>3. q = Append(p, Head(w)) /\ v = Append(Tail(w), Head(r))
    OBVIOUS
  <2> HIDE DEF q, v
  <2> QED BY ONLY <2>2, <2>3 DEF Moves
<1>7. v \o Tail(r) \in Seq(Bytes) /\ w \o r \in Seq(Bytes)
  BY <1>1, <1>3, <1>4, Joins
<1> HIDE DEF q, v
<1>8. P \in Seq(Bytes)
  <2>1. <<>> \in Seq(Bytes)
    OBVIOUS
  <2> QED BY <2>1, <1>1, FlushedIs DEF P
<1>9. Unread(scan') = v \o Tail(r)
  BY <1>2 DEF Unread
<1>10. (P \o q) \o (v \o Tail(r)) = source
  BY <1>1, <1>6, <1>8
<1>11. CASE scan'.pending = q /\ scan'.ops = scan.ops
  <2>1. Patched(basis, scan'.ops) \o scan'.pending \o Unread(scan') = source
    BY <1>9, <1>10, <1>11 DEF P
  <2> QED BY <2>1, <1>1, <1>2, <1>4, <1>5, <1>11, DeltaAssumption DEF Exact
<1>12. CASE scan'.pending = <<>> /\ scan'.ops = Append(scan.ops, Data(q))
  <2>1. Append(scan.ops, Data(q)) = Flushed(scan.ops, q)
    BY <1>4 DEF Flushed
  <2>2. scan'.ops \in Seq(Op) /\ Fits(basis, scan'.ops) /\ Patched(basis, scan'.ops) = P \o q
    <3>1. scan.ops \in Seq(Op) /\ Fits(basis, scan.ops) /\ q \in Seq(Bytes)
      BY <1>1, <1>4
    <3>2. /\ Flushed(scan.ops, q) \in Seq(Op) /\ Fits(basis, Flushed(scan.ops, q))
          /\ Patched(basis, Flushed(scan.ops, q)) = Patched(basis, scan.ops) \o q
      BY <3>1, FlushedIs
    <3> QED BY <3>2, <2>1, <1>12 DEF P
  <2>3. (P \o q) \o <<>> = P \o q
    <3> DEFINE X == P \o q
    <3>1. X \in Seq(Bytes)
      BY <1>4, <1>8, Joins
    <3> HIDE DEF X
    <3>2. X \o <<>> = X
      BY <3>1, Joins
    <3> QED BY <3>2 DEF X
  <2>4. Patched(basis, scan'.ops) \o scan'.pending \o Unread(scan') = source
    BY <2>2, <2>3, <1>9, <1>10, <1>12
  <2> QED BY <2>2, <2>4, <1>2, <1>4, <1>5, DeltaAssumption DEF Exact
<1> QED BY <1>2, <1>11, <1>12

\* Every block of a file's signature is a part of the file, as a copy of it says (Matches).
LEMMA CopyIs ==
    ASSUME NEW f \in Seq(Bytes), NEW i \in DOMAIN BuildSignature(f)
    PROVE  LET block == BuildSignature(f)[i]
           IN  Copy(block) \in Op /\ FitsOne(f, Copy(block)) /\ Part(f, Copy(block)) = block.strong
<1> DEFINE block == BuildSignature(f)[i]  a == Cut(f, i - 1)  b == Cut(f, i)
<1>1. /\ a \in Nat /\ b \in Nat /\ a < b /\ b <= Len(f)
      /\ block.offset = a /\ block.size = b - a /\ block.strong = SubSeq(f, a + 1, b)
  <2>1. PICK n \in Nat :
               /\ DOMAIN BuildSignature(f) = 1..n
               /\ \A k \in 1..n :
                      /\ Cut(f, k - 1) = (k - 1) * BlockSize
                      /\ Cut(f, k) \in Nat /\ Cut(f, k - 1) < Cut(f, k) /\ Cut(f, k) <= Len(f)
                      /\ BuildSignature(f)[k].offset = Cut(f, k - 1)
                      /\ BuildSignature(f)[k].size = Cut(f, k) - Cut(f, k - 1)
                      /\ BuildSignature(f)[k].strong = SubSeq(f, Cut(f, k - 1) + 1, Cut(f, k))
    BY BlocksIs
  <2>2. i \in 1..n /\ i - 1 \in Nat
    BY <2>1
  <2>3. (i - 1) * BlockSize \in Nat
    BY <2>2, DeltaAssumption
  <2> QED BY <2>1, <2>2, <2>3
<1> HIDE DEF block, a, b
<1>2. a + (b - a) = b /\ b - a \in Nat
  BY <1>1
<1>3. /\ Copy(block).type = "copy" /\ Copy(block).offset = a /\ Copy(block).size = b - a
      /\ Copy(block) = [type |-> "copy", offset |-> a, size |-> b - a]
  BY <1>1 DEF Copy
<1>4. Copy(block) \in Op
  BY <1>1, <1>2, <1>3 DEF Op
<1>5. FitsOne(f, Copy(block)) /\ Part(f, Copy(block)) = block.strong
  BY <1>1, <1>2, <1>3 DEF FitsOne, Part
<1> QED BY <1>4, <1>5 DEF block

\* While a scan is at work, or its result in use, it is exact against the file whose
\* signature it reads; otherwise there is none.
WithScan == {"scan", "hash", "apply", "install"}
ScanInv ==
    /\ phase \in WithScan => \E f \in Files : sig = BuildSignature(f) /\ Exact(f, scan, reading)
    /\ phase \notin WithScan => scan = None

\* A turn of BuildDelta's loop keeps a scan exact.
LEMMA TurnKeepsExact ==
    ASSUME NEW f \in Files, sig = BuildSignature(f), ScanTypeOK, Exact(f, scan, reading), Scan
    PROVE  Exact(f, scan', reading)
<1>1. f \in Seq(Bytes) /\ ~scan.done
  BY TransferAssumption DEF Scan, BlockFound, LastWindow, NextWindow, Scanning
<1>2. CASE BlockFound
  <2>1. Found # {} /\ Found \subseteq DOMAIN sig /\ scan' = ScanCopy(scan, sig[Min(Found)])
    BY <1>2 DEF BlockFound, Scanned, Found, Matches
  <2>2. DOMAIN sig \subseteq Nat
    BY <1>1, BlocksIs
  <2>3. Min(Found) \in Found
    BY <2>1, <2>2, MinIn
  <2> DEFINE i == Min(Found)  block == sig[i]
  <2>4. i \in DOMAIN BuildSignature(f) /\ block.strong = scan.window
    BY <2>1, <2>3 DEF Found, Matches
  <2> HIDE DEF i
  <2>5. Copy(block) \in Op /\ FitsOne(f, Copy(block)) /\ Part(f, Copy(block)) = block.strong
    BY <1>1, <2>4, CopyIs
  <2>6. scan' = ScanCopy(scan, block)
    BY <2>1 DEF i
  <2> HIDE DEF block
  <2> QED BY <1>1, <2>4, <2>5, <2>6, CopyExact
<1>3. CASE LastWindow
  <2>1. IsLast(scan) /\ scan' = ScanLast(scan)
    BY <1>3 DEF LastWindow, Scanned
  <2> QED BY <2>1, <1>1, LastExact
<1>4. CASE NextWindow
  <2>1. ~IsLast(scan) /\ scan' = ScanRoll(scan)
    BY <1>4 DEF NextWindow, Scanned
  <2> QED BY <2>1, <1>1, RollExact
<1> QED BY <1>2, <1>3, <1>4 DEF Scan

\* Every step keeps the invariant: a scan is begun with a signature of the target's
\* content, turned, kept as it is, or forgotten.
LEMMA ScanStep == ASSUME DeltaTypeOK, ScanInv, [Next]_vars PROVE ScanInv'
<1>1. ASSUME scan' = None, phase' \notin WithScan PROVE ScanInv'
  BY <1>1 DEF ScanInv
<1>2. ASSUME scan' = scan, sig' = sig, reading' = reading, phase \in WithScan, phase' \in WithScan
      PROVE  ScanInv'
  <2>1. PICK f \in Files : sig = BuildSignature(f) /\ Exact(f, scan, reading)
    BY <1>2 DEF ScanInv
  <2>2. sig' = BuildSignature(f) /\ Exact(f, scan', reading')
    BY <2>1, <1>2
  <2> QED BY <2>2, <1>2 DEF ScanInv, WithScan
<1>3. ASSUME DeltaFails PROVE ScanInv'
  BY <1>1, <1>3 DEF DeltaFails, TransferOver, WithScan
<1>4. ASSUME TransferOver PROVE ScanInv'
  BY <1>1, <1>4 DEF TransferOver, WithScan
<1>5. ASSUME StartTransfer PROVE ScanInv'
  BY <1>1, <1>5 DEF StartTransfer, ScanInv, WithScan
<1>6. ASSUME EnsureSignature PROVE ScanInv'
  BY <1>1, <1>4, <1>6 DEF EnsureSignature, Goes, ScanInv, WithScan
<1>7. ASSUME StoreSignature PROVE ScanInv'
  BY <1>1, <1>4, <1>7 DEF StoreSignature, Goes, ScanInv, WithScan
<1>8. ASSUME OpenSource PROVE ScanInv'
  <2>1. CASE sig = Torn
    BY <1>3, <1>8, <2>1 DEF OpenSource
  <2>2. CASE sig # Torn
    <3>1. /\ scan' = ScanOf(src.data) /\ reading' = src.data /\ sig' = sig /\ phase' = "scan"
      BY <1>8, <2>2 DEF OpenSource, Goes
    <3>2. PICK f \in Files : sig = BuildSignature(f)
      BY <1>8, <2>2 DEF OpenSource, DeltaTypeOK, Signatures
    <3>3. src.data \in Seq(Bytes)
      BY TransferAssumption DEF DeltaTypeOK, File
    <3>4. Exact(f, ScanOf(src.data), src.data)
      BY <3>3, ScanBegins
    <3>5. sig' = BuildSignature(f) /\ Exact(f, scan', reading')
      BY <3>1, <3>2, <3>4
    <3> QED BY <3>1, <3>5 DEF ScanInv, WithScan
  <2> QED BY <2>1, <2>2
<1>9. ASSUME Scan PROVE ScanInv'
  <2>1. sig' = sig /\ reading' = reading /\ phase' = "scan" /\ phase = "scan"
    BY <1>9 DEF Scan, BlockFound, LastWindow, NextWindow, Scanning, Scanned
  <2>2. ScanTypeOK
    BY <2>1 DEF DeltaTypeOK
  <2>3. PICK f \in Files : sig = BuildSignature(f) /\ Exact(f, scan, reading)
    BY <2>1 DEF ScanInv, WithScan
  <2>4. Exact(f, scan', reading)
    BY <1>9, <2>2, <2>3, TurnKeepsExact
  <2>5. sig' = BuildSignature(f) /\ Exact(f, scan', reading')
    BY <2>1, <2>3, <2>4
  <2> QED BY <2>1, <2>5 DEF ScanInv, WithScan
<1>10. ASSUME CompareSizes \/ HashSource \/ ApplyDelta PROVE ScanInv'
  BY <1>2, <1>3, <1>10 DEF CompareSizes, HashSource, ApplyDelta, Goes, WithScan
<1>11. ASSUME Install PROVE ScanInv'
  BY <1>1, <1>11 DEF Install, Goes, WithScan
<1>12. ASSUME Stamp \/ DropSignature PROVE ScanInv'
  BY <1>1, <1>12 DEF Stamp, DropSignature, Goes, ScanInv, WithScan
<1>13. ASSUME CopyWhole \/ EngineFails \/ Crash PROVE ScanInv'
  BY <1>3, <1>4, <1>13 DEF CopyWhole, EngineFails, Crash
<1>14. ASSUME UserEditsSource \/ UserEditsTarget \/ Restore \/ UNCHANGED vars PROVE ScanInv'
  <2>1. scan' = scan /\ sig' = sig /\ reading' = reading /\ phase' = phase
    BY <1>14 DEF UserEditsSource, UserEditsTarget, Restore, attempt, vars
  <2>2. CASE phase \in WithScan
    BY <1>2, <2>1, <2>2
  <2>3. CASE phase \notin WithScan
    BY <1>1, <2>1, <2>3 DEF ScanInv
  <2> QED BY <2>2, <2>3
<1> QED BY <1>5, <1>6, <1>7, <1>8, <1>9, <1>10, <1>11, <1>12, <1>13, <1>14 DEF Next, Agent

\* What an exact scan says of the bytes (ScanIsExact).
LEMMA ExactIs == ASSUME DeltaTypeOK, ScanInv PROVE ScanIsExact
<1> SUFFICES ASSUME scan # None PROVE ScanIsExact
  BY DEF ScanIsExact
<1>1. PICK f \in Files : sig = BuildSignature(f) /\ Exact(f, scan, reading)
  BY DEF ScanInv
<1>2. SignedFile = f
  <2>1. SignedFile = FlattenSeq(Strongs(f))
    BY <1>1 DEF SignedFile, Strongs
  <2>2. f \in Seq(Bytes)
    BY TransferAssumption
  <2> QED BY <2>1, <2>2, SignedIs
<1>3. /\ Fits(f, scan.ops) /\ scan.weak = RollingChecksum(scan.window)
      /\ Patched(f, scan.ops) \o scan.pending \o Unread(scan) = reading
  BY <1>1 DEF Exact
<1> QED BY <1>2, <1>3 DEF ScanIsExact, Unread

\* At every turn of the loop, for all files, blocks and runs, what the scan has
\* written, holds back and has not read makes up the source against the file the
\* signature was made of, and the rolled checksum is the window's.
THEOREM ScanExact == Spec => []ScanIsExact
<1>1. Init => ScanInv
  BY DEF Init, Fresh, ScanInv, WithScan
<1>2. DeltaTypeOK /\ DeltaTypeOK' /\ ScanInv /\ [Next]_vars => ScanInv'
  BY ScanStep
<1>3. DeltaTypeOK /\ ScanInv => ScanIsExact
  BY ExactIs
<1> QED BY <1>1, <1>2, <1>3, TypeCorrect, PTL DEF Spec
=============================================================================
