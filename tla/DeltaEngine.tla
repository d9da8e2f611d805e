----------------------------- MODULE DeltaEngine -----------------------------
(***************************************************************************)
(* The delta engine (sync-engine-go): the signature of a file, the scan    *)
(* that turns another file into copies of its blocks and literal data, and *)
(* the patch.  A file is a sequence of bytes.  The strong hash of a block  *)
(* is taken to be injective: the block itself stands for it.               *)
(***************************************************************************)
EXTENDS Integers, Sequences, FiniteSetsExt, SequencesExt

CONSTANTS
    Bytes,
    BlockSize,   \* 64 KiB
    maxDataRun,  \* literal bytes held back before they are written
    CheckMod     \* 2^16, the width of either half of the weak checksum

ASSUME DeltaAssumption ==
    /\ Bytes \subseteq Nat
    /\ BlockSize \in Nat \ {0} /\ maxDataRun \in Nat \ {0} /\ CheckMod \in Nat \ {0}

(******************************** checksums ********************************)

RollingChecksum(block) ==
    LET Low(i)  == block[i]
        High(i) == (Len(block) - i + 1) * block[i]
    IN  [a |-> MapThenSumSet(Low, DOMAIN block) % CheckMod,
         b |-> MapThenSumSet(High, DOMAIN block) % CheckMod]

\* Mutant: the byte that leaves the window is taken out of b once.
RollChecksum_OnceFromB(weak, oldByte, newByte) ==
    LET a == (weak.a - oldByte + newByte) % CheckMod
    IN  [a |-> a, b |-> (weak.b - oldByte + a) % CheckMod]

\* The checksum of a window moved by a byte.  Unsigned arithmetic wraps at 2^32,
\* a multiple of CheckMod.
RollChecksum(weak, oldByte, newByte) ==
    LET a == (weak.a - oldByte + newByte) % CheckMod
    IN  [a |-> a, b |-> (weak.b - BlockSize * oldByte + a) % CheckMod]

(******************************** signature ********************************)

\* What io.ReadFull puts into a block-sized buffer, and what it leaves.
FirstBlock(bytes) ==
    IF Len(bytes) <= BlockSize THEN bytes ELSE SubSeq(bytes, 1, BlockSize)
Remaining(bytes) ==
    IF Len(bytes) <= BlockSize THEN <<>> ELSE SubSeq(bytes, BlockSize + 1, Len(bytes))

BlockSignature(file, offset) ==
    LET block == FirstBlock(SubSeq(file, offset + 1, Len(file)))
    IN  [offset |-> offset, size |-> Len(block),
         weak |-> RollingChecksum(block), strong |-> block]

BuildSignature(file) ==
    [i \in 1..(Len(file) + BlockSize - 1) \div BlockSize |->
        BlockSignature(file, (i - 1) * BlockSize)]

(********************************** delta **********************************)

Copy(block) == [type |-> "copy", offset |-> block.offset, size |-> block.size]
Data(bytes) == [type |-> "data", data |-> bytes]

\* Mutant: the weak checksum decides.
Matches_WeakOnly(sig, chunk, weak) == {i \in DOMAIN sig : sig[i].weak = weak}

\* matchBlock, of which the caller takes the first.
Matches(sig, chunk, weak) ==
    {i \in DOMAIN sig : /\ sig[i].weak = weak /\ sig[i].size = Len(chunk)
                        /\ sig[i].strong = chunk}

\* BuildDelta's variables: the window, its checksum, what was not read yet, the
\* literal bytes not written yet, and the operations written.
ScanOf(source) ==
    [window |-> FirstBlock(source), weak |-> RollingChecksum(FirstBlock(source)),
     rest |-> Remaining(source), pending |-> <<>>, ops |-> <<>>, done |-> source = <<>>]

Flushed(ops, pending) == IF pending = <<>> THEN ops ELSE Append(ops, Data(pending))

\* The window is a block of the basis: the next block is read.
ScanCopy(scan, block) ==
    [window |-> FirstBlock(scan.rest), weak |-> RollingChecksum(FirstBlock(scan.rest)),
     rest |-> Remaining(scan.rest), pending |-> <<>>,
     ops |-> Append(Flushed(scan.ops, scan.pending), Copy(block)), done |-> scan.rest = <<>>]

\* It is not, and it is the last: all of it is literal.
ScanLast(scan) ==
    [scan EXCEPT !.ops = Flushed(@, scan.pending \o scan.window), !.pending = <<>>, !.done = TRUE]

\* Mutant: a run is written when it is longer than maxDataRun.
ScanRoll_LateFlush(scan) ==
    LET pending == Append(scan.pending, Head(scan.window))
        full    == Len(pending) > maxDataRun
    IN  [scan EXCEPT
            !.window  = Append(Tail(scan.window), Head(scan.rest)),
            !.weak    = RollChecksum(@, Head(scan.window), Head(scan.rest)),
            !.rest    = Tail(@),
            !.pending = IF full THEN <<>> ELSE pending,
            !.ops     = IF full THEN Append(@, Data(pending)) ELSE @]

\* It is not: its oldest byte is literal and the window moves on by one.
ScanRoll(scan) ==
    LET pending == Append(scan.pending, Head(scan.window))
        full    == Len(pending) >= maxDataRun
    IN  [scan EXCEPT
            !.window  = Append(Tail(scan.window), Head(scan.rest)),
            !.weak    = RollChecksum(@, Head(scan.window), Head(scan.rest)),
            !.rest    = Tail(@),
            !.pending = IF full THEN <<>> ELSE pending,
            !.ops     = IF full THEN Append(@, Data(pending)) ELSE @]

IsLast(scan) == Len(scan.window) < BlockSize \/ scan.rest = <<>>

\* A line of JSON: short for a copy, longer than its bytes for data.
DeltaSize(ops) ==
    LET Line(i) == IF ops[i].type = "copy" THEN 1 ELSE Len(ops[i].data) + 1
    IN  MapThenSumSet(Line, DOMAIN ops)

(********************************** patch **********************************)

\* Every copy lies within the basis; otherwise io.CopyN fails.
Fits(basis, ops) ==
    \A i \in DOMAIN ops : ops[i].type = "copy" => ops[i].offset + ops[i].size <= Len(basis)

Patched(basis, ops) ==
    LET Part(op) == IF op.type = "data" THEN op.data
                    ELSE SubSeq(basis, op.offset + 1, op.offset + op.size)
    IN  FlattenSeq([i \in DOMAIN ops |-> Part(ops[i])])
=============================================================================
