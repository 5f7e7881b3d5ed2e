--------------------------------- MODULE Ipc ---------------------------------
(***************************************************************************)
(* The length-prefixed, hashed framing of src/pkg/ipc/ipc.go over one      *)
(* direction of a pipe: a writer Conn sends frames with Write and Close,  *)
(* a reader Conn takes them apart with Read into the caller's buffer p.   *)
(*                                                                         *)
(* A frame is the payload length as 4 little-endian bytes, the 8 bytes of *)
(* the payload's highwayhash-64 and the payload.  Read makes three reads  *)
(* of the pipe, for the length, the hash and the payload; each returns    *)
(* what the pipe holds up to what was asked, blocking while it is empty,  *)
(* as a read(2) of a pipe does.  A write of at most PipeBuf bytes becomes *)
(* readable at once; a longer one may become readable in two parts, cut  *)
(* anywhere (one cut already lets a read overtake the write at any byte). *)
(*                                                                         *)
(* The hash is the operator Hash: its 8 bytes as Sum(nil) returns them,   *)
(* which Read compares with Sum64 read little-endian.                     *)
(***************************************************************************)
EXTENDS Integers, SequencesExt

CONSTANTS
  Payloads,  \* the payloads callers Write
  Hash(_),   \* Sum(nil) of highwayhash-64 over a byte sequence: 8 bytes
  PipeBuf,   \* writes up to this size are atomic (PIPE_BUF, scaled down)
  BufLen,    \* len(p) of the caller's read buffer
  MaxWrites  \* bound on Write and Close calls

ASSUME PipeBuf >= 12 /\ BufLen >= 8

\* QuitCommand, the payload Close writes.
QuitCommand == <<255, 255, 255, 255>>

\* binary.LittleEndian.PutUint32 of a length below 2^16.
LE32(n) == <<n % 256, n \div 256, 0, 0>>

\* A length read from 4 bytes; any value of 2^24 or more is past every
\* buffer here and is kept as 2^24.
Huge == 16777216
U32(b) == IF b[4] > 0 THEN Huge ELSE b[1] + 256 * b[2] + 65536 * b[3]

\* Write: the frame for payload p.
Frame(p) == LE32(Len(p)) \o Hash(p) \o p

\* r(p[:k]) returned data: it lands at the front of p, the rest of p
\* keeps what it held.
Into(buf, data) == [i \in 1..Len(buf) |-> IF i <= Len(data) THEN data[i] ELSE buf[i]]

Min2(a, b) == IF a < b THEN a ELSE b

VARIABLES
  pipe,     \* bytes written and not yet read
  writing,  \* the rest of a write longer than PipeBuf still in progress
  sent,     \* history: the payloads of the frames written, in order
  rpc,      \* where Read is: "idle", "hash" or "body" (its next r call)
  buf,      \* the caller's buffer p
  bLen,     \* the length Read decoded
  mHash,    \* the hash Read decoded
  got,      \* history: what each Read returned
  short,    \* history: some r call returned less than it asked for
  panicked  \* Read sliced p past its length

ipcVars == <<pipe, writing, sent, rpc, buf, bLen, mHash, got, short, panicked>>

Init ==
  /\ pipe = <<>> /\ writing = <<>> /\ sent = <<>>
  /\ rpc = "idle" /\ buf = [i \in 1..BufLen |-> 0]
  /\ bLen = 0 /\ mHash = <<>>
  /\ got = <<>> /\ short = FALSE /\ panicked = FALSE

(***************************************************************************)
(* The writer.                                                             *)
(***************************************************************************)

\* The frame goes to the pipe: at once if it fits PipeBuf, else a first
\* part of it.
Put(f) ==
  IF Len(f) <= PipeBuf
    THEN pipe' = pipe \o f /\ writing' = <<>>
    ELSE \E k \in 1..Len(f) - 1 :
           pipe' = pipe \o SubSeq(f, 1, k) /\ writing' = SubSeq(f, k + 1, Len(f))

\* Mutant: the length is written big-endian.
WriteBE(p) ==
  /\ writing = <<>> /\ Len(sent) < MaxWrites
  /\ Put(<<0, 0, Len(p) \div 256, Len(p) % 256>> \o Hash(p) \o p)
  /\ sent' = Append(sent, p)
  /\ UNCHANGED <<rpc, buf, bLen, mHash, got, short, panicked>>

\* Write(p): hash p, reset the hash, write length, hash and p.
Write(p) ==
  /\ writing = <<>> /\ Len(sent) < MaxWrites
  /\ Put(Frame(p))
  /\ sent' = Append(sent, p)
  /\ UNCHANGED <<rpc, buf, bLen, mHash, got, short, panicked>>

\* Close: Write(QuitCommand).
Close == Write(QuitCommand)

\* The rest of a long write becomes readable.
WritePart ==
  /\ writing # <<>>
  /\ pipe' = pipe \o writing
  /\ writing' = <<>>
  /\ UNCHANGED <<sent, rpc, buf, bLen, mHash, got, short, panicked>>

(***************************************************************************)
(* The reader: one action per r call of Read, with what Read does with    *)
(* its result up to the next r call or the return.                        *)
(***************************************************************************)

\* A Read returns err with p[:n].
Return(err, n) ==
  /\ got' = Append(got, [err |-> err, data |-> SubSeq(buf', 1, n)])
  /\ rpc' = "idle"

\* r(p[:4]): a short read is logged and Read goes on with what p holds.
\* A length of ^uint32(0) is the quit message.
ReadLen ==
  /\ ~panicked /\ rpc = "idle" /\ pipe # <<>>
  /\ LET k == Min2(4, Len(pipe))
         b == Into(buf, SubSeq(pipe, 1, k))
     IN /\ buf' = b
        /\ pipe' = SubSeq(pipe, k + 1, Len(pipe))
        /\ short' = (short \/ k < 4)
        /\ IF SubSeq(b, 1, 4) = QuitCommand
             THEN Return("quit", 0) /\ UNCHANGED bLen
             ELSE bLen' = U32(b) /\ rpc' = "hash" /\ UNCHANGED got
  /\ UNCHANGED <<writing, sent, mHash, panicked>>

\* r(p[:8]) for the hash: a short read returns what it read, with no
\* error.
ReadHash ==
  /\ ~panicked /\ rpc = "hash" /\ pipe # <<>>
  /\ LET k == Min2(8, Len(pipe))
         b == Into(buf, SubSeq(pipe, 1, k))
     IN /\ buf' = b
        /\ pipe' = SubSeq(pipe, k + 1, Len(pipe))
        /\ short' = (short \/ k < 8)
        /\ IF k < 8 THEN Return("none", k) /\ UNCHANGED mHash
                    ELSE mHash' = SubSeq(b, 1, 8) /\ rpc' = "body" /\ UNCHANGED got
  /\ UNCHANGED <<writing, sent, bLen, panicked>>

\* p[:bLen] past len(p): the slice panics.
ReadBodyPanic ==
  /\ ~panicked /\ rpc = "body" /\ bLen > BufLen
  /\ panicked' = TRUE
  /\ UNCHANGED <<pipe, writing, sent, rpc, buf, bLen, mHash, got, short>>

\* r(p[:bLen]): an empty read returns at once, otherwise it waits for
\* data.  Fewer than bLen bytes is a short message; otherwise the hash of
\* p[:bLen] must be the one read.
ReadBody ==
  /\ ~panicked /\ rpc = "body" /\ bLen <= BufLen
  /\ bLen = 0 \/ pipe # <<>>
  /\ LET k == Min2(bLen, Len(pipe))
         b == Into(buf, SubSeq(pipe, 1, k))
     IN /\ buf' = b
        /\ pipe' = SubSeq(pipe, k + 1, Len(pipe))
        /\ short' = (short \/ k < bLen)
        /\ CASE k # bLen                          -> Return("short message", 0)
             [] Hash(SubSeq(b, 1, bLen)) # mHash  -> Return("corrupted message", 0)
             [] OTHER                             -> Return("none", bLen)
  /\ UNCHANGED <<writing, sent, bLen, mHash, panicked>>

\* Every write is done and the reader waits on an empty pipe, or panicked.
Drained ==
  /\ Len(sent) = MaxWrites /\ writing = <<>>
  /\ \/ panicked
     \/ pipe = <<>> /\ ~(rpc = "body" /\ bLen = 0)
  /\ UNCHANGED ipcVars

Next ==
  \/ \E p \in Payloads : Write(p)
  \/ Close \/ WritePart
  \/ ReadLen \/ ReadHash \/ ReadBody \/ ReadBodyPanic
  \/ Drained

Spec == Init /\ [][Next]_ipcVars

(***************************************************************************)
(* Properties.                                                             *)
(***************************************************************************)

\* As long as no r call of Read has returned less than it asked for, the
\* framing stays in step, whether a Read overtakes a long Write or a cut
\* falls between two r calls: no panic, and each Read of a frame Write
\* sent returns that payload, in order, with no error.  Nothing is said
\* of the Read of Close's frame: the doc comment makes it the quit signal,
\* but Read's quit test looks for a length of ^uint32(0), which Write
\* never produces (ipc.go:118).
InStepReadsReturnWrites ==
  ~short =>
    /\ ~panicked
    /\ Len(got) <= Len(sent)
    /\ \A i \in 1..Len(got) :
         sent[i] # QuitCommand => got[i] = [err |-> "none", data |-> sent[i]]

=============================================================================
