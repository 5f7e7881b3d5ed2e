------------------------------- MODULE Codecs -------------------------------
(***************************************************************************)
(* The byte encodings of the mining messages' fields                       *)
(* (src/pkg/simplebuffer/Bitses/bitses.go, Block/block.go).                *)
(*                                                                         *)
(* A byte string is a sequence of 0..255.  Go's slice b[i:j] is           *)
(* SubSeq(b, i+1, j), and slicing past len(b) panics.  Big-endian words   *)
(* are built a byte at a time, so the int32 keys keep their sign and no   *)
(* value leaves TLC's integers.                                            *)
(*                                                                         *)
(* The machine below plays a sender and a receiver for each encoding: the *)
(* sender Puts a value and Encodes it, followed on the wire by whatever   *)
(* comes after it in the container, and the receiver Decodes it into a   *)
(* new value and Gets it back.  The Bitses a job carries are the         *)
(* difficulty targets the chain computes for the job's tip (Plan9).       *)
(***************************************************************************)
EXTENDS Integers, SequencesExt, Plan9

CONSTANTS
  Payloads, \* serialized blocks
  Tails     \* bytes that follow an encoding on the wire

(***************************************************************************)
(* binary.BigEndian on 4-byte words.                                       *)
(***************************************************************************)

\* PutUint32(uint32(x)) for an int32 or uint32 x: floor division keeps the
\* two's complement bytes of a negative x.
BE32(x) ==
  LET hi == (x \div 65536) % 65536
      lo == x % 65536
  IN <<hi \div 256, hi % 256, lo \div 256, lo % 256>>

\* Uint32 of 4 bytes whose value is below 2^31.
FromBE32(s) == ((s[1] * 256 + s[2]) * 256 + s[3]) * 256 + s[4]

\* int32(Uint32(s)): the top bit is the sign.
Int32FromBE(s) ==
  IF s[1] >= 128 THEN (((s[1] - 256) * 256 + s[2]) * 256 + s[3]) * 256 + s[4]
                 ELSE FromBE32(s)

(***************************************************************************)
(* Bitses: a count byte, then per algorithm version its key and bits.     *)
(***************************************************************************)

\* NewBitses: Length 0, an empty map.
NewBitses == [length |-> 0, byteses |-> <<>>]

\* Put: Length is byte(len(in)); every value becomes 4 big-endian bytes.
BitsesPut(in) ==
  [length |-> Cardinality(DOMAIN in) % 256,
   byteses |-> [k \in DOMAIN in |-> BE32(in[k])]]

\* Encode: the Length byte, then key and bits of each entry in the order
\* the map is ranged over.
BitsesEncode(b, order) ==
  <<b.length>> \o FlattenSeq([i \in 1..Len(order) |-> BE32(order[i]) \o b.byteses[order[i]]])

\* Mutant: the read bound counts one entry too many.
BitsesDecodeReadBound(b, by) ==
  IF Len(by) < 7 THEN [ok |-> TRUE, bitses |-> b, out |-> <<>>]
  ELSE
    LET nB == by[1]
        Entry(i) == Int32FromBE(SubSeq(by, 2 + i * 8, 5 + i * 8))
                      :> SubSeq(by, 6 + i * 8, 9 + i * 8)
        Merge(m, i) == Entry(i) @@ m
    IN [ok |-> TRUE,
        bitses |-> IF Len(by) >= (nB + 1) * 8
                     THEN [b EXCEPT !.byteses = FoldLeft(Merge, b.byteses, [i \in 1..nB |-> i - 1])]
                     ELSE b,
        out |-> <<>>]

\* Decode into b.  Below 7 bytes nothing is read.  Otherwise nB = by[0]
\* entries are read when len(by) >= nB*8, entry i from by[1+i*8 : 1+i*8+8],
\* a later entry replacing an earlier one with the same key; the rest is
\* what follows byte nB*8+1.  Decode leaves b.Length as it was.
BitsesDecode(b, by) ==
  IF Len(by) < 7 THEN [ok |-> TRUE, bitses |-> b, out |-> <<>>]
  ELSE
    LET nB == by[1]
        read == Len(by) >= nB * 8
        bL == nB * 8 + 1
        Entry(i) == Int32FromBE(SubSeq(by, 2 + i * 8, 5 + i * 8))
                      :> SubSeq(by, 6 + i * 8, 9 + i * 8)
        Merge(m, i) == Entry(i) @@ m
    IN IF read /\ nB > 0 /\ bL > Len(by)
         THEN [ok |-> FALSE, bitses |-> b, out |-> <<>>]
         ELSE [ok |-> TRUE,
               bitses |-> IF read
                            THEN [b EXCEPT !.byteses =
                                    FoldLeft(Merge, b.byteses, [i \in 1..nB |-> i - 1])]
                            ELSE b,
               out |-> IF Len(by) > bL THEN SubSeq(by, bL + 1, Len(by)) ELSE <<>>]

\* Get: each 4-byte value as a big-endian uint32.
BitsesGet(b) == [k \in DOMAIN b.byteses |-> FromBE32(b.byteses[k])]

(***************************************************************************)
(* Block: a 4-byte big-endian length, then the serialized block.          *)
(***************************************************************************)

\* New: Length 0, no bytes.
NewBlock == [length |-> 0, bytes |-> <<>>]

\* Put of a block that serializes to p: Bytes is p, Length its length.
BlockPut(p) == [length |-> Len(p), bytes |-> p]

\* Mutant: the length is written little-endian.
BlockEncodeLE(B) ==
  LET w == BE32(B.length) IN <<w[4], w[3], w[2], w[1]>> \o B.bytes

\* Encode: Length, then Bytes.
BlockEncode(B) == BE32(B.length) \o B.bytes

\* Decode into B: Length is read from 4 bytes; Bytes is taken only when
\* the buffer holds all of it; the rest is what follows.
BlockDecode(B, b) ==
  IF Len(b) < 4 THEN [block |-> B, out |-> <<>>]
  ELSE
    LET L == FromBE32(SubSeq(b, 1, 4)) IN
    IF Len(b) < 4 + L THEN [block |-> [B EXCEPT !.length = L], out |-> <<>>]
    ELSE [block |-> [length |-> L, bytes |-> SubSeq(b, 5, 4 + L)],
          out |-> IF Len(b) > 4 + L THEN SubSeq(b, 5 + L, Len(b)) ELSE <<>>]

(***************************************************************************)
(* A sender and a receiver of each encoding.                              *)
(***************************************************************************)

VARIABLES
  bitsFork,  \* the fork of the job's next height
  bitsWant,  \* history: CalcNextRequiredDifficultyPlan9 of each version
  bitsIn, bitsWire, bitsTail, bitsGot, bitsPhase,
  blockIn, blockWire, blockTail, blockGot, blockPhase

vars == <<bitsFork, bitsWant, bitsIn, bitsWire, bitsTail, bitsGot, bitsPhase,
          blockIn, blockWire, blockTail, blockGot, blockPhase>>

\* The versions of a fork.
Versions(f) == IF f = 0 THEN HalcyonVers ELSE AlgoVers

Init ==
  /\ bitsFork = 0 /\ bitsWant = <<>> /\ bitsIn = <<>>
  /\ blockIn \in Payloads
  /\ bitsWire = <<>> /\ blockWire = <<>>
  /\ bitsTail = <<>> /\ blockTail = <<>>
  /\ bitsGot = [ok |-> TRUE, map |-> <<>>] /\ blockGot = [bytes |-> <<>>, out |-> <<>>]
  /\ bitsPhase = "calc" /\ blockPhase = "put"

\* job.Get: the targets of the tip (computed, or the tip's cached Diffs,
\* which hold what an earlier computation returned).  Before the Plan 9
\* fork an error from the last version makes Get return an empty
\* container; after it the controller's map goes to Bitses.Put.
JobDiffs ==
  /\ bitsPhase = "calc"
  /\ \/ /\ bitsFork' = 0
        /\ \E order \in SetToSeqs(HalcyonVers),
              h \in [HalcyonVers -> [bits : Targets, err : BOOLEAN]] :
             LET r == HalcyonController(order, h) IN
             /\ bitsIn' = r.bits /\ bitsWant' = r.bits
             /\ bitsPhase' = IF r.err THEN "nojob" ELSE "put"
     \/ /\ bitsFork' = 1
        /\ \E hardFork \in BOOLEAN, order \in SetToSeqs(AlgoVers),
              r \in [AlgoVers -> Retargets] :
             /\ bitsIn' = Plan9Controller(hardFork, order, r)
             /\ bitsWant' = [v \in AlgoVers |-> Plan9Single(hardFork, r[v])]
             /\ bitsPhase' = "put"
  /\ UNCHANGED <<bitsWire, bitsTail, bitsGot, blockIn, blockWire, blockTail, blockGot, blockPhase>>

\* job.Get: Bitses.Put then Encode, in one of the map's iteration orders.
BitsesSend ==
  /\ bitsPhase = "put"
  /\ \E order \in SetToSeqs(DOMAIN bitsIn), t \in Tails :
       /\ bitsWire' = BitsesEncode(BitsesPut(bitsIn), order) \o t
       /\ bitsTail' = t
  /\ bitsPhase' = "sent"
  /\ UNCHANGED <<bitsFork, bitsWant, bitsIn, bitsGot, blockIn, blockWire, blockTail, blockGot, blockPhase>>

\* GetBitses: NewBitses().DecodeOne(...).Get(); ok is FALSE if it panicked.
BitsesReceive ==
  /\ bitsPhase = "sent"
  /\ LET r == BitsesDecode(NewBitses, bitsWire) IN
       bitsGot' = [ok |-> r.ok, map |-> BitsesGet(r.bitses)]
  /\ bitsPhase' = "got"
  /\ UNCHANGED <<bitsFork, bitsWant, bitsIn, bitsWire, bitsTail, blockIn, blockWire, blockTail, blockGot, blockPhase>>

\* GetSolContainer: Block.New().Put(b), encoded into the container.
BlockSend ==
  /\ blockPhase = "put"
  /\ \E t \in Tails :
       /\ blockWire' = BlockEncode(BlockPut(blockIn)) \o t
       /\ blockTail' = t
  /\ blockPhase' = "sent"
  /\ UNCHANGED <<bitsFork, bitsWant, bitsIn, bitsWire, bitsTail, bitsGot, bitsPhase, blockIn, blockGot>>

\* GetMsgBlock: Block.New().DecodeOne(...), keeping the rest Decode returns.
BlockReceive ==
  /\ blockPhase = "sent"
  /\ LET r == BlockDecode(NewBlock, blockWire) IN
       blockGot' = [bytes |-> r.block.bytes, out |-> r.out]
  /\ blockPhase' = "got"
  /\ UNCHANGED <<bitsFork, bitsWant, bitsIn, bitsWire, bitsTail, bitsGot, bitsPhase, blockIn, blockWire, blockTail>>

\* Both messages have been received, or Get sent no job.
Done == bitsPhase \in {"got", "nojob"} /\ blockPhase = "got" /\ UNCHANGED vars

Next == JobDiffs \/ BitsesSend \/ BitsesReceive \/ BlockSend \/ BlockReceive \/ Done

Spec == Init /\ [][Next]_vars

(***************************************************************************)
(* Properties.                                                             *)
(***************************************************************************)

\* A worker decoding a job's Bitses gets back exactly the versions and
\* targets the controller put in, whatever the map's iteration order when
\* encoding and whatever follows on the wire; and the decoder never
\* slices past the buffer it was given.
BitsesRoundTrip ==
  bitsPhase = "got" => bitsGot.ok /\ bitsGot.map = bitsIn

\* A controller decoding a solution gets back the serialized block the
\* worker put in, and Decode returns exactly the bytes that follow it.
BlockRoundTrip ==
  blockPhase = "got" => blockGot.bytes = blockIn /\ blockGot.out = blockTail

\* A job the controller sends carries, once the worker has decoded it, a
\* target for every algorithm version of its fork, whichever versions'
\* retargets returned early: the worker picks a version among the
\* Bitses' keys (GetAlgoVer divides by their number).
DiffsCoverFork ==
  bitsPhase = "got" => DOMAIN bitsGot.map = Versions(bitsFork)

\* The target the controller puts in a Plan 9 job for each version is the
\* one CalcNextRequiredDifficultyPlan9 computes for that version (the
\* controller's loop is marked to be merged with the single one).
TemplateTargetsMatchValidation ==
  bitsFork = 1 /\ bitsPhase # "calc" => bitsIn = bitsWant

=============================================================================
