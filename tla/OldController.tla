---------------------------- MODULE OldController ----------------------------
(***************************************************************************)
(* The superseded mining controller (src/pkg/controller/old/main.go and    *)
(* network.go), which //+build ignore keeps out of every normal build.   *)
(*                                                                         *)
(* Jobs: Run stores the Pause shards for rebroadcast, sends a first        *)
(* template, subscribes the chain notifier and starts the listener, the    *)
(* rebroadcaster and the submitter, then waits for the interrupt; its      *)
(* deferred function broadcasts the local pauseShards and then closes the *)
(* multicast connection.  A job's shards are its number from 1 on; the   *)
(* Pause shards, a nil shard list and "nothing sent" are below 1.         *)
(*                                                                         *)
(* Solutions: a worker's solution is sealed and cut into FEC shards, each  *)
(* sent as a datagram prefixed by the message nonce.  Datagrams may be     *)
(* lost, duplicated and reordered.  The listener's handler gathers the     *)
(* shards of a nonce and, from K shards on, tries to decode: the FEC      *)
(* library (not in the tree) needs K distinct shards, network.go:22-23.   *)
(* A decoded solution is sent on the unbuffered submitChan while the      *)
(* handler holds mx; the submitter returns if it cannot parse the block.  *)
(***************************************************************************)
EXTENDS Integers, SequencesExt

CONSTANTS
  Sols,       \* solution messages, by nonce
  Malformed,  \* those whose bytes do not parse as a block
  Shards,     \* the FEC shard indices of a message
  K,          \* shards needed to decode
  MaxDgrams,  \* bound on datagrams arriving
  MaxBlocks   \* bound on blocks the chain accepts

ASSUME Malformed \subseteq Sols /\ K \in 1..Cardinality(Shards)

VARIABLES
  phase,      \* Run: "start", "running", "sending" and "closing" (its deferred
              \* function's two loops) or "exited"
  active,     \* ctrl.active
  subscribed, \* the notifier is subscribed to the chain
  open,       \* the multicast connection is open
  oldBlocks,  \* the shards the rebroadcaster loads
  pauseVar,   \* Run's local pauseShards, which its deferred function sends
  jobs,       \* templates made so far
  bcast,      \* the last shards broadcast, or NoneSent
  final,      \* what the deferred function broadcast, or NoneSent
  nstate,     \* the notifier: "idle", or "send" after reading active
  blocks,     \* blocks accepted by the chain
  rbRun,      \* the rebroadcaster is running
  sock,       \* datagrams waiting in the listener's socket, <<nonce, shard>>
  arrived,    \* history: the shards of each nonce that reached the socket
  dgrams,     \* datagrams that reached the socket
  known,      \* the nonces ctrl.buffers has an entry for
  bufs,       \* each entry's Buffers, in the order appended
  decoded,    \* the entries marked Decoded
  superseded, \* the entries marked Superseded
  lis,        \* the listener: "none", "read", "send" (blocked) or "stopped"
  lisMsg,     \* the solution the listener is sending on submitChan
  cancelled,  \* the listener's context was cancelled
  sub,        \* the submitter: "none", "wait" or "exited"
  received    \* the solutions the submitter received, in order

oldVars == <<phase, active, subscribed, open, oldBlocks, pauseVar, jobs, bcast,
             final, nstate, blocks, rbRun, sock, arrived, dgrams, known, bufs,
             decoded, superseded, lis, lisMsg, cancelled, sub, received>>

jobVars == <<phase, active, subscribed, open, oldBlocks, pauseVar, jobs, bcast,
             final, nstate, blocks, rbRun>>
solVars == <<sock, arrived, dgrams, known, bufs, decoded, superseded, lis,
             lisMsg, cancelled, sub, received>>

PauseShards == -1
NilShards == 0
NoneSent == -2

Init ==
  /\ phase = "start" /\ active = FALSE /\ subscribed = FALSE /\ open = FALSE
  /\ oldBlocks = NilShards /\ pauseVar = NilShards /\ jobs = 0
  /\ bcast = NoneSent /\ final = NoneSent /\ nstate = "idle" /\ blocks = 0
  /\ rbRun = FALSE
  /\ sock = <<>> /\ arrived = [s \in Sols |-> {}] /\ dgrams = 0
  /\ known = {} /\ bufs = [s \in Sols |-> <<>>]
  /\ decoded = {} /\ superseded = {}
  /\ lis = "none" /\ lisMsg = "none" /\ cancelled = FALSE
  /\ sub = "none" /\ received = <<>>

(***************************************************************************)
(* Run.                                                                     *)
(***************************************************************************)

\* The deferred function's first loop: SendShards of the local pauseShards
\* (a nil list sends nothing).
DeferredSend ==
  /\ phase = "sending"
  /\ final' = pauseVar
  /\ bcast' = IF pauseVar = NilShards THEN bcast ELSE pauseVar
  /\ phase' = "closing"
  /\ UNCHANGED <<active, subscribed, open, oldBlocks, pauseVar, jobs, nstate, blocks,
                 rbRun, solVars>>

\* Its second loop: the multicast connection is closed and Run returns.
DeferredClose ==
  /\ phase = "closing"
  /\ open' = FALSE
  /\ phase' = "exited"
  /\ UNCHANGED <<active, subscribed, oldBlocks, pauseVar, jobs, bcast, final, nstate,
                 blocks, rbRun, solVars>>

\* Run up to the wait.  Without RPC or a p2p listener it returns before it
\* dials the multicast address.  Otherwise the connection is open and the
\* deferred function registered; a ListenUDP error returns there.  Then the
\* first template: sent; nil; Send failing before any shard (nonce or
\* fec.Encode error: nil shards stored); or failing on a write (the job's
\* shards stored).  Every failure leaves active false.  pauseShards is
\* overwritten with what sendNewBlockTemplate returned (line 127).  The
\* notifier is subscribed and the listener started; Listen returns an
\* error (after starting its goroutine) only if SetReadBuffer fails, and
\* Run then returns; otherwise it starts the rebroadcaster and submitter.
RunStart ==
  /\ phase = "start"
  /\ \/ /\ phase' = "exited"
        /\ UNCHANGED <<active, subscribed, open, oldBlocks, pauseVar, jobs, bcast,
                       final, rbRun, lis, sub>>
     \/ /\ oldBlocks' = PauseShards /\ pauseVar' = PauseShards
        /\ open' = TRUE /\ phase' = "sending"
        /\ UNCHANGED <<active, subscribed, jobs, bcast, final, rbRun, lis, sub>>
     \/ \E tpl \in {"ok", "none", "encodeerr", "writeerr"}, listenOk \in BOOLEAN :
          LET shards == IF tpl \in {"none", "encodeerr"} THEN NilShards ELSE 1
          IN /\ jobs' = IF tpl = "none" THEN 0 ELSE 1
             /\ oldBlocks' = IF tpl = "none" THEN PauseShards ELSE shards
             /\ pauseVar' = shards
             /\ active' = (tpl = "ok")
             /\ bcast' = IF tpl = "ok" THEN 1 ELSE bcast
             /\ open' = TRUE /\ subscribed' = TRUE /\ lis' = "read"
             /\ IF listenOk
                  THEN phase' = "running" /\ rbRun' = TRUE /\ sub' = "wait"
                  ELSE phase' = "sending" /\ UNCHANGED <<rbRun, sub>>
             /\ UNCHANGED final
  /\ UNCHANGED <<nstate, blocks, sock, arrived, dgrams, known, bufs, decoded,
                 superseded, lisMsg, cancelled, received>>

\* The interrupt handlers are done: active is stored false and Run returns
\* into its deferred function.  The rebroadcaster and the submitter wait on
\* a context whose cancel was overwritten by Listen's (line 140), so they
\* keep running.
RunExit ==
  /\ phase = "running"
  /\ phase' = "sending" /\ active' = FALSE
  /\ UNCHANGED <<subscribed, open, oldBlocks, pauseVar, jobs, bcast, final, nstate,
                 blocks, rbRun, solVars>>

(***************************************************************************)
(* The chain notifier and the rebroadcaster.                               *)
(***************************************************************************)

\* A block is accepted; the notifier reads active.
NotifyCheck ==
  /\ subscribed /\ nstate = "idle" /\ blocks < MaxBlocks
  /\ blocks' = blocks + 1
  /\ nstate' = IF active THEN "send" ELSE "idle"
  /\ UNCHANGED <<phase, active, subscribed, open, oldBlocks, pauseVar, jobs, bcast,
                 final, rbRun, solVars>>

\* Under subMx: a new template is sent and its shards stored for
\* rebroadcast; a write on a closed connection fails but the shards are
\* stored all the same.  A nil template does nothing; a nonce or
\* fec.Encode error stores nil shards.
NotifySend ==
  /\ nstate = "send"
  /\ \/ /\ jobs' = jobs + 1 /\ oldBlocks' = jobs + 1
        /\ bcast' = IF open THEN jobs + 1 ELSE bcast
     \/ UNCHANGED <<jobs, oldBlocks, bcast>>
     \/ oldBlocks' = NilShards /\ UNCHANGED <<jobs, bcast>>
  /\ nstate' = "idle"
  /\ UNCHANGED <<phase, active, subscribed, open, pauseVar, final, blocks, rbRun, solVars>>

\* A tick: the shards stored last are sent unless empty.
Rebroadcast ==
  /\ rbRun /\ open /\ oldBlocks # NilShards /\ bcast # oldBlocks
  /\ bcast' = oldBlocks
  /\ UNCHANGED <<phase, active, subscribed, open, oldBlocks, pauseVar, jobs, final,
                 nstate, blocks, rbRun, solVars>>

(***************************************************************************)
(* The solution listener and the submitter.                                *)
(***************************************************************************)

\* A datagram of shard i of solution s reaches the submit socket, which
\* exists from Run's ListenUDP on and is never closed.
Arrive(s, i) ==
  /\ lis # "none" /\ dgrams < MaxDgrams
  /\ sock' = Append(sock, <<s, i>>)
  /\ arrived' = [arrived EXCEPT ![s] = @ \cup {i}]
  /\ dgrams' = dgrams + 1
  /\ UNCHANGED <<jobVars, known, bufs, decoded, superseded, lis, lisMsg,
                 cancelled, sub, received>>

\* fec.Decode of the gathered shards: enough distinct ones.
Decodable(b) == Cardinality(ToSet(b)) >= K

\* The handler tries a decode from this many buffers on.
DecodeAt == 3

\* Mutant: a decode is tried only when the third buffer is appended.
TryDecodeAtK(b) == Len(b) = DecodeAt /\ Decodable(b)

\* From three buffers on, each new shard triggers a decode (a failed one
\* returns and waits for the next); Open of a decoded message with its
\* nonce succeeds.
TryDecode(b) == Len(b) >= DecodeAt /\ Decodable(b)

\* The Listen loop, after the handler: it stops if its context is done.
Loop == lis' = IF cancelled THEN "stopped" ELSE "read"

\* Mutant: a shard of a decoded entry is appended and decoded again.
HandleKnownNoGuard(s, i) ==
  LET b == Append(bufs[s], i) IN
  /\ bufs' = [bufs EXCEPT ![s] = b]
  /\ IF TryDecode(b)
       THEN decoded' = decoded \cup {s} /\ lis' = "send" /\ lisMsg' = s
       ELSE Loop /\ UNCHANGED <<decoded, lisMsg>>
  /\ UNCHANGED <<known, superseded>>

\* The handler for a nonce it has an entry for: while not Decoded the
\* shard is appended and a decode tried, and a decoded message is sent on
\* submitChan, blocking until the submitter takes it; once Decoded every
\* other entry is marked Superseded.
HandleKnown(s, i) ==
  IF s \notin decoded
    THEN LET b == Append(bufs[s], i) IN
         /\ bufs' = [bufs EXCEPT ![s] = b]
         /\ IF TryDecode(b)
              THEN decoded' = decoded \cup {s} /\ lis' = "send" /\ lisMsg' = s
              ELSE Loop /\ UNCHANGED <<decoded, lisMsg>>
         /\ UNCHANGED <<known, superseded>>
    ELSE /\ superseded' = superseded \cup (known \ {s})
         /\ Loop
         /\ UNCHANGED <<known, bufs, decoded, lisMsg>>

\* The handler for a new nonce: an entry holding this shard.
HandleNew(s, i) ==
  /\ known' = known \cup {s}
  /\ bufs' = [bufs EXCEPT ![s] = <<i>>]
  /\ Loop
  /\ UNCHANGED <<decoded, superseded, lisMsg>>

\* ReadFromUDP returns the next datagram and the handler runs under mx.
ListenRead ==
  /\ lis = "read" /\ sock # <<>>
  /\ LET s == Head(sock)[1]
         i == Head(sock)[2]
     IN IF s \in known THEN HandleKnown(s, i) ELSE HandleNew(s, i)
  /\ sock' = Tail(sock)
  /\ UNCHANGED <<jobVars, arrived, dgrams, cancelled, sub, received>>

\* The submitter takes the message; a block that does not parse makes it
\* return.  The handler returns and the loop goes on.
SubmitRecv ==
  /\ lis = "send" /\ sub = "wait"
  /\ received' = Append(received, lisMsg)
  /\ sub' = IF lisMsg \in Malformed THEN "exited" ELSE "wait"
  /\ Loop
  /\ UNCHANGED <<jobVars, sock, arrived, dgrams, known, bufs, decoded,
                 superseded, lisMsg, cancelled>>

\* Run's caller calls the cancel Run returned, which is Listen's.
Cancel ==
  /\ phase = "exited" /\ lis # "none" /\ ~cancelled
  /\ cancelled' = TRUE
  /\ UNCHANGED <<jobVars, sock, arrived, dgrams, known, bufs, decoded,
                 superseded, lis, lisMsg, sub, received>>

\* Run has returned; what is left may wait forever.
Quiet == phase = "exited" /\ UNCHANGED oldVars

OldNext ==
  \/ RunStart \/ RunExit \/ DeferredSend \/ DeferredClose \/ NotifyCheck \/ NotifySend \/ Rebroadcast
  \/ \E s \in Sols, i \in Shards : Arrive(s, i)
  \/ ListenRead \/ SubmitRecv \/ Cancel \/ Quiet

\* The listener and the submitter are goroutines that run whenever they
\* can; the network, the chain and the interrupt carry no fairness.
OldSpec ==
  Init /\ [][OldNext]_oldVars /\ WF_oldVars(ListenRead) /\ WF_oldVars(SubmitRecv)

(***************************************************************************)
(* Properties.                                                             *)
(***************************************************************************)

\* However its datagrams are lost, duplicated or reordered, a solution is
\* handed to the submitter at most once: the Decoded mark keeps late
\* shards from decoding it again (main.go:190-213).
SubmittedAtMostOnce ==
  \A s \in Sols : Cardinality({j \in DOMAIN received : received[j] = s}) +
                    (IF lis = "send" /\ lisMsg = s THEN 1 ELSE 0) <= 1

\* A well-formed solution of which K distinct shards reach the socket is
\* eventually received by the submitter, whatever duplicates came first,
\* unless the submitter is gone (never started, or returned on a
\* malformed block) or the listener was cancelled.
SolutionReachesSubmitter ==
  \A s \in Sols \ Malformed :
    Cardinality(arrived[s]) >= K ~>
      \/ \E j \in DOMAIN received : received[j] = s
      \/ sub # "wait" \/ lis = "stopped"

=============================================================================
