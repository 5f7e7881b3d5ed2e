---------------------------- MODULE MiningWorker ----------------------------
(***************************************************************************)
(* One kopach_worker child process (src/cmd/kopach/worker/implementation.go *)
(* and kopach_worker/main.go).                                             *)
(*                                                                         *)
(* The search loop is one goroutine with two states, pausing and running, *)
(* that selects on two unbuffered channels, startChan and stopChan, and on *)
(* the Quit channel; when running and no channel is ready it takes the    *)
(* default branch and hashes once.  The RPC methods run in goroutines of  *)
(* net/rpc, one per call, and talk to the loop only through the channels: *)
(* NewJob re-points the dispatch connection, sends on stopChan, loads the *)
(* job into the shared header and roller, and sends on startChan; Pause   *)
(* sends on stopChan; Stop sends on stopChan and closes Quit.  A send on  *)
(* an unbuffered channel completes only when the loop receives it.        *)
(*                                                                         *)
(* The callers are the goroutines of the supervisor that own an RPC       *)
(* client to this child (cmd/kopach/main.go): its main goroutine calls    *)
(* SendPass once, after which the listener calls NewJob and the watchdog  *)
(* calls Pause, each waiting for its reply before the next call.  Stop is *)
(* offered by the client and may be given to a caller in a model.        *)
(*                                                                         *)
(* Data is abstracted: a job is a model value, the difficulty of          *)
(* algorithm a in job j is the pair <<j, a>>, nonces and the extra nonce  *)
(* are left out, and whether a hash meets its target is a choice.          *)
(***************************************************************************)
EXTENDS Naturals, Sequences, FiniteSets

CONSTANTS
  Jobs,          \* the Job containers the supervisor may deliver
  JobAlgos,      \* JobAlgos[j]: the algorithm versions in j's Bitses map
  Callers,       \* goroutines of the supervisor holding an RPC client
  CallerOps,     \* CallerOps[c]: the methods caller c invokes
  PassCaller,    \* the caller that sends the pass first (kopach Main)
  RoundsPerAlgo, \* hashes per algorithm before the roller moves on (1)
  MaxCalls,      \* bound on the number of RPC calls in a behaviour
  None

ASSUME /\ \A j \in Jobs : JobAlgos[j] # {}
       /\ PassCaller \in Callers
       /\ RoundsPerAlgo \in Nat \ {0}
       /\ MaxCalls \in Nat

Algos == UNION {JobAlgos[j] : j \in Jobs}
Ops == {"SendPass", "NewJob", "Pause", "Stop"}

\* The roller counter C is only ever used as (C \div RoundsPerAlgo) % Len(Algos)
\* and C % Len(Algos), so C modulo this period is exact.
RollerPeriod == RoundsPerAlgo * (CHOOSE p \in 1..Cardinality(Algos) * 6 :
                                   \A k \in 1..Cardinality(Algos) : p % k = 0)

\* The orders in which ranging over a Go map with keys S may visit them.
Orders(S) == {f \in [1..Cardinality(S) -> S] : \A i, k \in DOMAIN f : i # k => f[i] # f[k]}

Header == [job : Jobs \cup {None}, version : Algos \cup {None},
           bits : (Jobs \X Algos) \cup {None}]
Solution == [job : Jobs, version : Algos, bits : (Jobs \X Algos) \cup {None},
             to : Jobs]

VARIABLES
  loop,        \* the search loop: at its "pausing" or "running" select,
               \* "hashing" (in the default branch) or "finished"
  quit,        \* w.Quit has been closed
  exited,      \* the process has exited (main returned, or a panic)
  panicked,    \* a goroutine panicked (close of a closed channel)
  call,        \* call[c]: caller c's RPC in progress (method, pc, job)
  dispatch,    \* the job whose controller w.dispatchConn sends to
  passSet,     \* w.dispatchConn has been created by SendPass
  bitses,      \* the job whose Bitses map is in w.bitses
  algos,       \* w.roller.Algos
  ctr,         \* w.roller.C modulo RollerPeriod
  header,      \* w.msgBlock's header: job (height, prev, txs), version, bits
  solutions,   \* the Solution messages sent, in order
  calls,       \* number of calls issued (bounded by MaxCalls)
  sigint,      \* the interrupt handler has run
  runs         \* history: number of times the loop has entered running

vars == <<loop, quit, exited, panicked, call, dispatch, passSet, bitses, algos,
          ctr, header, solutions, calls, sigint, runs>>
workState == <<dispatch, bitses, algos, ctr, header>>

CallPCs == {"idle", "dispatch", "stop", "load", "extra", "start", "close"}

TypeOK ==
  /\ loop \in {"pausing", "running", "hashing", "finished"}
  /\ quit \in BOOLEAN /\ exited \in BOOLEAN /\ panicked \in BOOLEAN
  /\ call \in [Callers -> [op : Ops \cup {None}, pc : CallPCs, job : Jobs \cup {None}]]
  /\ dispatch \in Jobs \cup {None}
  /\ passSet \in BOOLEAN
  /\ bitses \in Jobs \cup {None}
  /\ algos \in UNION {Orders(S) : S \in SUBSET Algos}
  /\ ctr \in 0..RollerPeriod - 1
  /\ header \in Header
  /\ solutions \in Seq(Solution)
  /\ calls \in 0..MaxCalls
  /\ sigint \in BOOLEAN
  /\ runs \in 0..MaxCalls

IdleCall == [op |-> None, pc |-> "idle", job |-> None]

Init ==
  /\ loop = "pausing"
  /\ quit = FALSE /\ exited = FALSE /\ panicked = FALSE
  /\ call = [c \in Callers |-> IdleCall]
  /\ dispatch = None
  /\ passSet = FALSE
  /\ bitses = None
  /\ algos = <<>>
  /\ ctr = 0                    \* rand.Intn(RoundsPerAlgo) with RoundsPerAlgo = 1
  /\ header = [job |-> None, version |-> None, bits |-> None]
  /\ solutions = <<>>
  /\ calls = 0
  /\ sigint = FALSE
  /\ runs = 0

\* GetAlgoVer: the algorithm for the current count; the count then advances.
AlgoAt(order, c) == order[((c \div RoundsPerAlgo) % Len(order)) + 1]
NextCtr(c) == (c + 1) % RollerPeriod

\* Some caller is blocked sending on stopChan / startChan.
StopReady == \E c \in Callers : call[c].pc = "stop"
StartReady == \E c \in Callers : call[c].pc = "start"

\* w.bitses[v]: the zero value when v is not a key of the loaded map.
BitsOf(j, v) == IF j # None /\ v \in JobAlgos[j] THEN <<j, v>> ELSE None

Live == ~exited

(***************************************************************************)
(* The callers.  Main sends the pass before it starts the listener and the *)
(* watchdog, so the other callers begin only once SendPass has returned.   *)
(***************************************************************************)

\* SendPass: create the dispatch connection and reply.
SendPass(c) ==
  /\ Live /\ c = PassCaller /\ ~passSet /\ calls < MaxCalls
  /\ call[c].pc = "idle" /\ "SendPass" \in CallerOps[c]
  /\ passSet' = TRUE
  /\ calls' = calls + 1
  /\ UNCHANGED <<loop, quit, exited, panicked, call, workState, solutions,
                 sigint, runs>>

\* A caller invokes NewJob(j), Pause or Stop and waits for the reply.
Issue(c, op, j) ==
  /\ Live /\ passSet /\ c # PassCaller /\ calls < MaxCalls
  /\ call[c].pc = "idle" /\ op \in CallerOps[c]
  /\ call' = [call EXCEPT ![c] = [op |-> op, job |-> j,
                                  pc |-> IF op = "NewJob" THEN "dispatch" ELSE "stop"]]
  /\ calls' = calls + 1
  /\ UNCHANGED <<loop, quit, exited, panicked, passSet, workState, solutions,
                 sigint, runs>>

(***************************************************************************)
(* The RPC method bodies, each step one stretch of code between two        *)
(* points where another goroutine can interfere.                          *)
(***************************************************************************)

\* Defect: NewJob goes on to load without halting the search first.
NewJobDispatchNoHalt(c) ==
  /\ Live /\ call[c].pc = "dispatch"
  /\ dispatch' = call[c].job
  /\ call' = [call EXCEPT ![c].pc = "load"]
  /\ UNCHANGED <<loop, quit, exited, panicked, passSet, bitses, algos, ctr,
                 header, solutions, calls, sigint, runs>>

\* Defect: the pausing state does not drain stopChan.
LoopStopRunningOnly(c) ==
  /\ Live /\ call[c].pc = "stop" /\ loop = "running"
  /\ loop' = "pausing"
  /\ call' = [call EXCEPT ![c].pc = CASE call[c].op = "NewJob" -> "load"
                                      [] call[c].op = "Stop"   -> "close"
                                      [] OTHER                 -> "idle"]
  /\ UNCHANGED <<quit, exited, panicked, passSet, workState, solutions, calls,
                 sigint, runs>>

\* NewJob: point the dispatch connection at the job's controller, before
\* halting the current search.
NewJobDispatch(c) ==
  /\ Live /\ call[c].pc = "dispatch"
  /\ dispatch' = call[c].job
  /\ call' = [call EXCEPT ![c].pc = "stop"]
  /\ UNCHANGED <<loop, quit, exited, panicked, passSet, bitses, algos, ctr,
                 header, solutions, calls, sigint, runs>>

\* The loop receives on stopChan, in either state; in the running state
\* this ends the search, in the pausing state it is drained.  The sender
\* then goes on: NewJob to load the job, Pause replies, Stop closes Quit.
LoopStop(c) ==
  /\ Live /\ call[c].pc = "stop" /\ loop \in {"pausing", "running"}
  /\ loop' = "pausing"
  /\ call' = [call EXCEPT ![c].pc = CASE call[c].op = "NewJob" -> "load"
                                      [] call[c].op = "Stop"   -> "close"
                                      [] OTHER                 -> "idle"]
  /\ UNCHANGED <<quit, exited, panicked, passSet, workState, solutions, calls,
                 sigint, runs>>

\* Defect: the roller's algorithm list is appended to, not reset.
NewJobLoadNoReset(c) ==
  LET j == call[c].job IN
  /\ Live /\ call[c].pc = "load"
  /\ \E order \in Orders(JobAlgos[j]) :
       LET v == AlgoAt(algos \o order, ctr) IN
       /\ algos' = algos \o order
       /\ header' = [job |-> j, version |-> v, bits |-> BitsOf(j, v)]
  /\ bitses' = j
  /\ ctr' = NextCtr(ctr)
  /\ call' = [call EXCEPT ![c].pc = "extra"]
  /\ UNCHANGED <<loop, quit, exited, panicked, passSet, dispatch, solutions,
                 calls, sigint, runs>>

\* Defect: the header's bits are not updated for the new job.
NewJobLoadKeepBits(c) ==
  LET j == call[c].job IN
  /\ Live /\ call[c].pc = "load"
  /\ \E order \in Orders(JobAlgos[j]) :
       LET v == AlgoAt(order, ctr) IN
       /\ algos' = order
       /\ header' = [job |-> j, version |-> v, bits |-> header.bits]
  /\ bitses' = j
  /\ ctr' = NextCtr(ctr)
  /\ call' = [call EXCEPT ![c].pc = "extra"]
  /\ UNCHANGED <<loop, quit, exited, panicked, passSet, dispatch, solutions,
                 calls, sigint, runs>>

\* NewJob: load the bitses, roll the algorithm list in map order, set the
\* header for the new block and take the first version from the roller.
NewJobLoad(c) ==
  LET j == call[c].job IN
  /\ Live /\ call[c].pc = "load"
  /\ \E order \in Orders(JobAlgos[j]) :
       LET v == AlgoAt(order, ctr) IN
       /\ algos' = order
       /\ header' = [job |-> j, version |-> v, bits |-> BitsOf(j, v)]
  /\ bitses' = j
  /\ ctr' = NextCtr(ctr)
  /\ call' = [call EXCEPT ![c].pc = "extra"]
  /\ UNCHANGED <<loop, quit, exited, panicked, passSet, dispatch, solutions,
                 calls, sigint, runs>>

\* NewJob: the extra nonce is drawn and the coinbase rewritten; on an error
\* the method returns without restarting the search.
NewJobExtraNonce(c) ==
  /\ Live /\ call[c].pc = "extra"
  /\ \E ok \in BOOLEAN :
       call' = [call EXCEPT ![c] = IF ok THEN [@ EXCEPT !.pc = "start"] ELSE IdleCall]
  /\ UNCHANGED <<loop, quit, exited, panicked, passSet, workState, solutions,
                 calls, sigint, runs>>

\* The loop receives on startChan: from pausing it starts the search, when
\* running it drains the signal.  NewJob then returns.
LoopStart(c) ==
  /\ Live /\ call[c].pc = "start" /\ loop \in {"pausing", "running"}
  /\ loop' = "running"
  /\ runs' = IF loop = "pausing" THEN runs + 1 ELSE runs
  /\ call' = [call EXCEPT ![c] = IdleCall]
  /\ UNCHANGED <<quit, exited, panicked, passSet, workState, solutions, calls,
                 sigint>>

\* Stop: the deferred close(w.Quit); a second close panics the process.
StopClose(c) ==
  /\ Live /\ call[c].pc = "close"
  /\ \/ ~quit /\ quit' = TRUE /\ UNCHANGED <<exited, panicked>>
     \/ quit /\ exited' = TRUE /\ panicked' = TRUE /\ UNCHANGED quit
  /\ call' = [call EXCEPT ![c] = IdleCall]
  /\ UNCHANGED <<loop, passSet, workState, solutions, calls, sigint, runs>>

(***************************************************************************)
(* The search loop.                                                        *)
(***************************************************************************)

\* The default branch is taken only when no channel case is ready.  The
\* hash that follows is long, and the channels are not looked at again
\* until it is done.
LoopDefault ==
  /\ Live /\ loop = "running" /\ ~quit /\ ~StopReady /\ ~StartReady
  /\ loop' = "hashing"
  /\ UNCHANGED <<quit, exited, panicked, call, passSet, workState, solutions,
                 calls, sigint, runs>>

SearchTurn == Live /\ loop = "hashing"

\* Defect: the loop keeps running after sending a solution.
HashSolveNoBreak ==
  /\ SearchTurn /\ header.job # None
  /\ solutions' = Append(solutions, [job |-> header.job, version |-> header.version,
                                     bits |-> header.bits, to |-> dispatch])
  /\ loop' = "running"
  /\ UNCHANGED <<quit, exited, panicked, call, passSet, workState, calls,
                 sigint, runs>>

\* The current header meets its target: send it as a Solution through the
\* dispatch connection and leave the running state.
HashSolve ==
  /\ SearchTurn /\ header.job # None
  /\ solutions' = Append(solutions, [job |-> header.job, version |-> header.version,
                                     bits |-> header.bits, to |-> dispatch])
  /\ loop' = "pausing"
  /\ UNCHANGED <<quit, exited, panicked, call, passSet, workState, calls,
                 sigint, runs>>

\* Defect: the difficulty is looked up before the version is advanced.
HashRollBitsFirst ==
  /\ SearchTurn
  /\ LET v == AlgoAt(algos, ctr) IN
       header' = [header EXCEPT !.version = v, !.bits = BitsOf(bitses, header.version)]
  /\ ctr' = NextCtr(ctr)
  /\ loop' = "running"
  /\ UNCHANGED <<quit, exited, panicked, call, passSet, dispatch, bitses,
                 algos, solutions, calls, sigint, runs>>

\* The hash misses: take the next version from the roller and its
\* difficulty from the bitses (the nonce advance is not modelled).
HashRoll ==
  /\ SearchTurn
  /\ LET v == AlgoAt(algos, ctr) IN
       header' = [header EXCEPT !.version = v, !.bits = BitsOf(bitses, v)]
  /\ ctr' = NextCtr(ctr)
  /\ loop' = "running"
  /\ UNCHANGED <<quit, exited, panicked, call, passSet, dispatch, bitses,
                 algos, solutions, calls, sigint, runs>>

\* The loop receives from the closed Quit channel and finishes.
LoopQuit ==
  /\ Live /\ quit /\ loop \in {"pausing", "running"}
  /\ loop' = "finished"
  /\ UNCHANGED <<quit, exited, panicked, call, passSet, workState, solutions,
                 calls, sigint, runs>>

(***************************************************************************)
(* The process: SIGINT runs the interrupt handler, which closes Quit; main *)
(* returns once Quit is closed and the process exits.                     *)
(***************************************************************************)

Interrupt ==
  /\ Live /\ ~sigint
  /\ sigint' = TRUE
  /\ \/ ~quit /\ quit' = TRUE /\ UNCHANGED <<exited, panicked>>
     \/ quit /\ exited' = TRUE /\ panicked' = TRUE /\ UNCHANGED quit
  /\ UNCHANGED <<loop, call, passSet, workState, solutions, calls, runs>>

Exit ==
  /\ Live /\ quit
  /\ exited' = TRUE
  /\ UNCHANGED <<loop, quit, panicked, call, passSet, workState, solutions,
                 calls, sigint, runs>>

\* The process has exited, or it is paused with every call answered and
\* the bound on calls reached: nothing more happens.
Quiescent ==
  /\ \/ exited
     \/ loop \in {"pausing", "finished"} /\ calls = MaxCalls /\ \A c \in Callers : call[c].pc = "idle"
  /\ UNCHANGED vars

CallerStep(c) ==
  \/ NewJobDispatch(c) \/ LoopStop(c) \/ NewJobLoad(c) \/ NewJobExtraNonce(c)
  \/ LoopStart(c) \/ StopClose(c)

Next ==
  \/ \E c \in Callers : SendPass(c) \/ CallerStep(c)
  \/ \E c \in Callers, op \in Ops \ {"SendPass"}, j \in Jobs : Issue(c, op, j)
  \/ LoopDefault \/ HashSolve \/ HashRoll \/ LoopQuit
  \/ Interrupt \/ Exit \/ Quiescent

(***************************************************************************)
(* Fairness.  Every goroutine that can step keeps stepping: the RPC method *)
(* bodies, the search loop and main.  The loop's select picks uniformly at *)
(* random among the ready cases.  A caller blocked on a send stays ready,  *)
(* the default branch is not taken while it waits, and every other case    *)
(* returns the loop to a select, so its rendezvous stays enabled until it  *)
(* is taken or the loop quits: weak fairness per caller suffices.          *)
(* Calls, the solution lottery and SIGINT are the environment's and carry *)
(* no fairness beyond the loop's own progress.                            *)
(***************************************************************************)
Fairness ==
  /\ \A c \in Callers : /\ WF_vars(NewJobDispatch(c) \/ NewJobLoad(c) \/ NewJobExtraNonce(c)
                                   \/ StopClose(c) \/ SendPass(c))
                        /\ WF_vars(LoopStop(c)) /\ WF_vars(LoopStart(c))
  /\ WF_vars(LoopDefault \/ HashSolve \/ HashRoll) /\ WF_vars(LoopQuit) /\ WF_vars(Exit)

Spec == Init /\ [][Next]_vars /\ Fairness

(***************************************************************************)
(* Properties.                                                             *)
(***************************************************************************)

\* Every Solution the loop sends carries the difficulty bits of its own
\* version in its own job: the roller's version and w.bitses lookup
\* (implementation.go, running branch and NewJob) are kept in step.
SolutionHeaderConsistent ==
  \A i \in 1..Len(solutions) :
    solutions[i].bits = <<solutions[i].job, solutions[i].version>>

\* The loop sends at most one Solution per start: after a solution it
\* leaves the running state and waits for the next NewJob.
OneSolutionPerStart == Len(solutions) <= runs

\* NewJob rewrites the header, the bitses and the roller only while the
\* search loop is not running over them (the stopChan handshake).
LoadExcludesSearch ==
  \A c \in Callers : call[c].pc \in {"load", "extra"} => loop \notin {"running", "hashing"}

\* Every RPC call (NewJob, Pause, Stop) eventually returns, unless the
\* process exits first: the loop drains stopChan and startChan in both
\* of its states.
CallsReturn ==
  \A c \in Callers : (call[c].pc # "idle") ~> (call[c].pc = "idle" \/ exited)

\* A Solution goes to the controller whose job it solves: the dispatch
\* connection is the one set from that job's addresses.
SolutionToItsController ==
  \A i \in 1..Len(solutions) : solutions[i].to = solutions[i].job

(***************************************************************************)
(* Refinement: the worker implements MiningProcess.  The search is the    *)
(* loop's state with the default branch counted as running, the header is *)
(* w.msgBlock's, and a sent solution is seen without its destination.    *)
(***************************************************************************)

Process == INSTANCE MiningProcess WITH
  search  <- IF loop = "hashing" THEN "running" ELSE loop,
  job     <- header.job,
  version <- header.version,
  bits    <- header.bits,
  sent    <- [i \in 1..Len(solutions) |->
                [job |-> solutions[i].job, version |-> solutions[i].version,
                 bits |-> solutions[i].bits]]

\* The worker's goroutines, channels and roller together behave as the
\* abstract process: NewJob rewrites the header only while the loop is out
\* of its running state, the running branch only rolls to a version of the
\* loaded job with its bits, and a solution is sent from the header and
\* ends the run.
ImplementsProcess == Process!Spec

=============================================================================
