----------------------------- MODULE Supervisor -----------------------------
(***************************************************************************)
(* The kopach worker supervisor (src/cmd/kopach/main.go).                  *)
(*                                                                         *)
(* One listener goroutine runs the handlers of the multicast transport one *)
(* message at a time: a Job from the controller it recognises as active   *)
(* ("firstSender") is fanned out to every child mining process with a     *)
(* blocking NewJob call, a Job from any other controller is dropped, and a *)
(* Pause is fanned out and then clears firstSender.  A watchdog goroutine *)
(* wakes on a one-second ticker, and when more than StaleWindow seconds   *)
(* have passed since the last accepted Job it clears firstSender and      *)
(* pauses every child.  Both goroutines share firstSender and lastSent    *)
(* under one mutex, but each takes the mutex for the decision and again    *)
(* for the update, so the other goroutine can run in between.             *)
(*                                                                         *)
(* The children are abstracted to what a completed RPC leaves behind:     *)
(* whether the search loop runs, and the controller address its solutions *)
(* are sent to.  The controllers are the environment: while alive they    *)
(* keep broadcasting Jobs; they may shut down, sending a final Pause, or  *)
(* crash.  The network reorders datagrams; a datagram   *)
(* that UDP loses is a send step that does not happen, so any number of   *)
(* seconds may pass between two deliveries from a live controller.        *)
(*                                                                         *)
(* Time is kept as the age of lastSent in whole ticks, saturated at       *)
(* StaleWindow + 1: only "age > StaleWindow" is ever tested, so the       *)
(* saturated age is exact for the code and time is unbounded.             *)
(***************************************************************************)
EXTENDS Naturals, FiniteSets

CONSTANTS
  Controllers,   \* the controllers' advertised submit addresses
  NumWorkers,    \* the number of child mining processes (GenThreads)
  StaleWindow,   \* seconds of silence before the watchdog fires (3)
  NoSender       \* the empty firstSender string

ASSUME NumWorkers \in Nat \ {0} /\ StaleWindow \in Nat /\ NoSender \notin Controllers

Workers == 1..NumWorkers
MaxAge == StaleWindow + 1
Msg == [kind : {"job", "pause"}, from : Controllers]
Idle == [pc |-> "recv", msg |-> [kind |-> "none", from |-> NoSender], i |-> 1]

VARIABLES
  firstSender,   \* w.firstSender
  age,           \* seconds since w.lastSent, saturated at MaxAge
  tick,          \* a tick waiting in the watchdog ticker's channel
  lis,           \* the listener goroutine: pc, message in hand, fan-out index
  wd,            \* the watchdog goroutine: pc and fan-out index
  run,           \* run[w]: the child's search loop is running
  mining,        \* mining[w]: the controller the child's solutions go to
  net,           \* datagrams in flight to the supervisor
  alive,         \* alive[c]: controller c is still broadcasting
  lastAccepted,  \* history: sender of the last accepted Job
  pausedSince    \* history: a Pause was handled since that Job

vars == <<firstSender, age, tick, lis, wd, run, mining, net, alive,
          lastAccepted, pausedSince>>
workerVars == <<run, mining>>
history == <<lastAccepted, pausedSince>>

LisPCs == {"recv", "check", "accept", "fanJob", "fanPause", "clear"}
WdPCs == {"idle", "clear", "pause"}

TypeOK ==
  /\ firstSender \in Controllers \cup {NoSender}
  /\ age \in 0..MaxAge
  /\ tick \in BOOLEAN
  /\ lis \in [pc : LisPCs, msg : Msg \cup {Idle.msg}, i : Workers]
  /\ wd \in [pc : WdPCs, i : Workers]
  /\ run \in [Workers -> BOOLEAN]
  /\ mining \in [Workers -> Controllers \cup {NoSender}]
  /\ net \subseteq Msg
  /\ alive \in [Controllers -> BOOLEAN]
  /\ lastAccepted \in Controllers \cup {NoSender}
  /\ pausedSince \in BOOLEAN

Init ==
  /\ firstSender = NoSender
  /\ age = 0                       \* lastSent = time.Now() at start-up
  /\ tick = FALSE
  /\ lis = Idle
  /\ wd = [pc |-> "idle", i |-> 1]
  /\ run = [w \in Workers |-> FALSE]
  /\ mining = [w \in Workers |-> NoSender]
  /\ net = {}
  /\ alive = [c \in Controllers |-> TRUE]
  /\ lastAccepted = NoSender
  /\ pausedSince = FALSE

-----------------------------------------------------------------------------
(* The child side of the two RPCs (worker/implementation.go), as seen     *)
(* once the call has returned.  NewJobKeepDispatch is a plausible defect *)
(* that a property must catch (see below).                                *)

\* NewJob re-points the dispatch connection only when it has none (the
\* condition left commented out in NewJob).
NewJobKeepDispatch(w, c) ==
  /\ mining' = [mining EXCEPT ![w] = IF @ = NoSender THEN c ELSE @]
  /\ run' = [run EXCEPT ![w] = TRUE]

\* NewJob points the dispatch connection at the Job's controller, halts the
\* search, loads the job and restarts the search.
WorkerNewJob(w, c) ==
  /\ mining' = [mining EXCEPT ![w] = c]
  /\ run' = [run EXCEPT ![w] = TRUE]

\* Pause halts the search.
WorkerPause(w) ==
  /\ run' = [run EXCEPT ![w] = FALSE]
  /\ UNCHANGED mining

-----------------------------------------------------------------------------
(* Plausible defects of the code below.  Each one replaces a definition   *)
(* of this module in a check that a property of the runs catches it.      *)

\* lastSent is stamped for every Job received, the ignored ones included.
JobCheckStampAll ==
  /\ lis.pc = "check"
  /\ LET otherSent == firstSender # lis.msg.from /\ firstSender # NoSender
     IN lis' = IF otherSent THEN Idle ELSE [lis EXCEPT !.pc = "accept"]
  /\ age' = 0
  /\ UNCHANGED <<firstSender, tick, wd, workerVars, net, alive, history>>

\* otherSent without its "firstSender != \"\"" conjunct.
JobCheckNoEmptyTest ==
  /\ lis.pc = "check"
  /\ LET otherSent == firstSender # lis.msg.from
     IN lis' = IF otherSent THEN Idle ELSE [lis EXCEPT !.pc = "accept"]
  /\ UNCHANGED <<firstSender, age, tick, wd, workerVars, net, alive, history>>

\* The watchdog's fan-out loop runs one index past the last child.
WatchdogPauseOffByOne ==
  /\ wd.pc = "pause"
  /\ WorkerPause(wd.i)
  /\ wd' = IF wd.i > NumWorkers THEN [pc |-> "idle", i |-> 1]
                                ELSE [wd EXCEPT !.i = @ + 1]
  /\ UNCHANGED <<firstSender, age, tick, lis, net, alive, history>>

-----------------------------------------------------------------------------
(* The controllers and the network (the environment).                     *)

\* The rebroadcaster sends the current Job every second.
Broadcast(c) ==
  /\ alive[c]
  /\ net' = net \cup {[kind |-> "job", from |-> c]}
  /\ UNCHANGED <<firstSender, age, tick, lis, wd, workerVars, alive, history>>

\* A controller that shuts down sends its Pause and stops broadcasting.  (The
\* Pause meant to follow a solution sends the never-filled c.pauseShards,
\* that is no datagram at all; see the Controller module.)
Shutdown(c) ==
  /\ alive[c]
  /\ net' = net \cup {[kind |-> "pause", from |-> c]}
  /\ alive' = [alive EXCEPT ![c] = FALSE]
  /\ UNCHANGED <<firstSender, age, tick, lis, wd, workerVars, history>>

\* A controller process that is killed sends nothing more.
Crash(c) ==
  /\ alive[c]
  /\ alive' = [alive EXCEPT ![c] = FALSE]
  /\ UNCHANGED <<firstSender, age, tick, lis, wd, workerVars, net, history>>

\* One second passes: lastSent ages and the ticker (one-slot channel) fires.
Tick ==
  /\ age' = IF age < MaxAge THEN age + 1 ELSE MaxAge
  /\ tick' = TRUE
  /\ UNCHANGED <<firstSender, lis, wd, workerVars, net, alive, history>>

-----------------------------------------------------------------------------
(* The listener goroutine: the handlers registered for "work" and "paus". *)

Receive(m) ==
  /\ lis.pc = "recv"
  /\ net' = net \ {m}
  /\ lis' = [pc |-> IF m.kind = "job" THEN "check" ELSE "fanPause", msg |-> m, i |-> 1]
  /\ UNCHANGED <<firstSender, age, tick, wd, workerVars, alive, history>>

\* otherSent is decided under the mutex, which is then released.
JobCheck ==
  /\ lis.pc = "check"
  /\ LET otherSent == firstSender # lis.msg.from /\ firstSender # NoSender
     IN lis' = IF otherSent THEN Idle ELSE [lis EXCEPT !.pc = "accept"]
  /\ UNCHANGED <<firstSender, age, tick, wd, workerVars, net, alive, history>>

\* The mutex is taken again to adopt the sender and stamp lastSent.
JobAccept ==
  /\ lis.pc = "accept"
  /\ firstSender' = lis.msg.from
  /\ age' = 0
  /\ lis' = [lis EXCEPT !.pc = "fanJob", !.i = 1]
  /\ lastAccepted' = lis.msg.from
  /\ pausedSince' = FALSE
  /\ UNCHANGED <<tick, wd, workerVars, net, alive>>

\* NewJob is called on each child in turn; each call blocks until it returns.
FanJob ==
  /\ lis.pc = "fanJob"
  /\ WorkerNewJob(lis.i, lis.msg.from)
  /\ lis' = IF lis.i = NumWorkers THEN Idle ELSE [lis EXCEPT !.i = @ + 1]
  /\ UNCHANGED <<firstSender, age, tick, wd, net, alive, history>>

\* The Pause handler pauses every child before it clears firstSender.
FanPause ==
  /\ lis.pc = "fanPause"
  /\ WorkerPause(lis.i)
  /\ lis' = IF lis.i = NumWorkers THEN [lis EXCEPT !.pc = "clear"]
                                  ELSE [lis EXCEPT !.i = @ + 1]
  /\ UNCHANGED <<firstSender, age, tick, wd, net, alive, history>>

PauseClear ==
  /\ lis.pc = "clear"
  /\ firstSender' = NoSender
  /\ lis' = Idle
  /\ pausedSince' = TRUE
  /\ UNCHANGED <<age, tick, wd, workerVars, net, alive, lastAccepted>>

-----------------------------------------------------------------------------
(* The watchdog goroutine.                                                *)

\* wasSending is decided under the mutex, which is then released.
WatchdogCheck ==
  /\ wd.pc = "idle"
  /\ tick
  /\ tick' = FALSE
  /\ LET wasSending == age > StaleWindow /\ firstSender # NoSender
     IN wd' = [wd EXCEPT !.pc = IF wasSending THEN "clear" ELSE "idle", !.i = 1]
  /\ UNCHANGED <<firstSender, age, lis, workerVars, net, alive, history>>

WatchdogClear ==
  /\ wd.pc = "clear"
  /\ firstSender' = NoSender
  /\ wd' = [wd EXCEPT !.pc = "pause"]
  /\ UNCHANGED <<age, tick, lis, workerVars, net, alive, history>>

WatchdogPause ==
  /\ wd.pc = "pause"
  /\ WorkerPause(wd.i)
  /\ wd' = IF wd.i = NumWorkers THEN [pc |-> "idle", i |-> 1]
                                ELSE [wd EXCEPT !.i = @ + 1]
  /\ UNCHANGED <<firstSender, age, tick, lis, net, alive, history>>

-----------------------------------------------------------------------------

Next ==
  \/ \E c \in Controllers : Broadcast(c) \/ Shutdown(c) \/ Crash(c)
  \/ \E m \in net : Receive(m)
  \/ Tick
  \/ JobCheck \/ JobAccept \/ FanJob \/ FanPause \/ PauseClear
  \/ WatchdogCheck \/ WatchdogClear \/ WatchdogPause

(***************************************************************************)
(* Fairness.  Go schedules every runnable goroutine, so the listener and  *)
(* the watchdog steps are weakly fair, and so is the passing of time.  A  *)
(* live controller rebroadcasts every second, and UDP loses each datagram *)
(* independently, so a controller that stays alive eventually gets a Job  *)
(* through: its Broadcast is weakly fair.  Crashes and shutdowns are the  *)
(* controllers' choice and carry no fairness.  The socket hands every    *)
(* queued datagram to the listener in turn, so a datagram in flight is    *)
(* received once the listener keeps coming back to its read: each         *)
(* Receive(m) is strongly fair.                                           *)
(***************************************************************************)
Fairness ==
  /\ WF_vars(Tick)
  /\ \A m \in Msg : SF_vars(m \in net /\ Receive(m))
  /\ WF_vars(JobCheck \/ JobAccept \/ FanJob \/ FanPause \/ PauseClear)
  /\ WF_vars(WatchdogCheck \/ WatchdogClear \/ WatchdogPause)
  /\ \A c \in Controllers : WF_vars(Broadcast(c))

Spec == Init /\ [][Next]_vars /\ Fairness

-----------------------------------------------------------------------------
(* Properties.                                                            *)

(* Once the listener has finished a fan-out, every child that is mining   *)
(* sends its solutions to the controller of the last Job the supervisor   *)
(* accepted: NewJob re-points each child's dispatch connection, and the    *)
(* watchdog and Pause fan-outs that interleave with it only ever stop a   *)
(* child.                                                                 *)
RunningWorkersFollowLastJob ==
  lis.pc = "recv" => \A w \in Workers : run[w] => mining[w] = lastAccepted

(* The watchdog retires a controller that has gone away: once the active  *)
(* controller is dead, firstSender eventually stops naming it, even while *)
(* other controllers keep broadcasting Jobs that the listener drops.      *)
FailoverEventually ==
  \A c \in Controllers : (firstSender = c /\ ~alive[c]) ~> (firstSender # c)

(* As long as some controller keeps broadcasting, the supervisor keeps    *)
(* coming back to a live active controller.                               *)
LiveControllerAdopted ==
  (\E c \in Controllers : []alive[c])
    => []<>(firstSender # NoSender /\ alive[firstSender])

(* The spec's single-writer rule: once controller A has been accepted, a  *)
(* Job of another controller B is accepted only after a Pause, or after   *)
(* more than StaleWindow seconds without an accepted Job from A.          *)
HandoverOnlyAfterSilence ==
  [][lastAccepted' # lastAccepted /\ lastAccepted # NoSender
       => pausedSince \/ age > StaleWindow]_vars

(* The watchdog fails safe: once no controller is left, every child is    *)
(* eventually paused for good and mines no orphaned work.                 *)
WorkersIdleWhenSilent ==
  (<>[](\A c \in Controllers : ~alive[c])) => <>[](\A w \in Workers : ~run[w])

=============================================================================
