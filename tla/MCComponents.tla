----------------------------- MODULE MCComponents -----------------------------
(***************************************************************************)
(* Components checked side by side: the job's difficulty targets and the *)
(* solution's block through their simplebuffer encodings (Codecs), the   *)
(* frames of a Conn between controller and worker (Ipc), and the         *)
(* superseded multicast controller (OldController).  They do not share   *)
(* state, so a behaviour runs one of them while the others stay in their *)
(* initial states; part says which.                                      *)
(***************************************************************************)
EXTENDS Codecs

VARIABLES part, pipe, writing, sent, rpc, buf, bLen, mHash, got, short, panicked,
          phase, active, subscribed, open, oldBlocks, pauseVar, jobs, bcast,
          final, nstate, blocks, rbRun, sock, arrived, dgrams, known, bufs,
          decoded, superseded, lis, lisMsg, cancelled, sub, received

CONSTANTS solA, solB  \* two solutions the old controller's listener may receive

MCAlgoVers == {5, 6}
MCHalcyonVers == {2, 514}
MCTargets == {486604799, 453050367}
MCSecondPowLimitBits == 503382015
MCPayloads == SeqOf({0, 7, 255}, 3)
MCTails == SeqOf({0, 200}, 2)

\* Conn payloads, and a stand-in for highwayhash-64 that tells them apart
\* and is not a run of 255s.
MCIpcPayloads == {<<>>, <<1>>, <<1, 2>>}
MCHash(s) == <<101 + Len(s), (7 * FoldLeft(LAMBDA a, b : a + b, 1, s)) % 256, 0, 0, 0, 0, 0, 9>>

ipcVars == <<pipe, writing, sent, rpc, buf, bLen, mHash, got, short, panicked>>

IPC == INSTANCE Ipc WITH Payloads <- MCIpcPayloads, Hash <- MCHash,
                         PipeBuf <- 13, BufLen <- 8, MaxWrites <- 3,
                         pipe <- pipe, writing <- writing, sent <- sent, rpc <- rpc,
                         buf <- buf, bLen <- bLen, mHash <- mHash, got <- got,
                         short <- short, panicked <- panicked

oldVars == <<phase, active, subscribed, open, oldBlocks, pauseVar, jobs, bcast,
             final, nstate, blocks, rbRun, sock, arrived, dgrams, known, bufs,
             decoded, superseded, lis, lisMsg, cancelled, sub, received>>

\* Two solutions, solB malformed; three shards, all three needed as fec
\* needs 3 of its 9; four datagrams, enough for a duplicate before a
\* decode; one accepted block.
OLD == INSTANCE OldController WITH Sols <- {solA, solB}, Malformed <- {solB},
                                   Shards <- {1, 2, 3}, K <- 3,
                                   MaxDgrams <- 4, MaxBlocks <- 1,
                                   phase <- phase, active <- active,
                                   subscribed <- subscribed, open <- open,
                                   oldBlocks <- oldBlocks, pauseVar <- pauseVar,
                                   jobs <- jobs, bcast <- bcast, final <- final,
                                   nstate <- nstate, blocks <- blocks,
                                   rbRun <- rbRun, sock <- sock, arrived <- arrived,
                                   dgrams <- dgrams, known <- known, bufs <- bufs,
                                   decoded <- decoded, superseded <- superseded,
                                   lis <- lis, lisMsg <- lisMsg,
                                   cancelled <- cancelled, sub <- sub,
                                   received <- received

allVars == <<part, vars, ipcVars, oldVars>>

\* A step of the old controller, the other parts unchanged.
OldStep(A) == part = "old" /\ A /\ UNCHANGED <<part, vars, ipcVars>>

WireInit ==
  /\ part \in {"codecs", "ipc", "old"}
  /\ Init /\ IPC!Init /\ OLD!Init
  /\ part # "codecs" => blockIn = <<>>

WireNext ==
  \/ part = "codecs" /\ Next /\ UNCHANGED <<part, ipcVars, oldVars>>
  \/ part = "ipc" /\ IPC!Next /\ UNCHANGED <<part, vars, oldVars>>
  \/ OldStep(OLD!OldNext)

\* The old controller's listener and submitter goroutines are fairly
\* scheduled, as in OldSpec.
WireSpec ==
  /\ WireInit /\ [][WireNext]_allVars
  /\ WF_allVars(OldStep(OLD!ListenRead))
  /\ WF_allVars(OldStep(OLD!SubmitRecv))

\* Ipc: while no r call of Read returned less than it asked for, each Read
\* of a frame Write sent returns its payload, with no error and no panic.
InStepReadsReturnWrites == IPC!InStepReadsReturnWrites

\* OldController: no solution reaches submitChan twice (the listener sends
\* a block only when its shards first decode).
SubmittedAtMostOnce == OLD!SubmittedAtMostOnce

\* OldController: a well-formed solution whose K shards all arrived is
\* received by the submitter, unless the submitter has stopped or the
\* listener was cancelled.
SolutionReachesSubmitter == OLD!SolutionReachesSubmitter

=============================================================================
