---------------------------- MODULE ConnManager ----------------------------
(***************************************************************************)
(* The peer connection manager (src/pkg/peer/connmgr/connmanager.go).     *)
(*                                                                         *)
(* One goroutine, connHandler, owns the maps pending and conns and serves *)
(* the unbuffered channel cm.requests.  Every other step runs in a        *)
(* goroutine of its own:                                                   *)
(*  - NewConnReq, launched by Start and by handleFailedConn (directly or  *)
(*    by a time.AfterFunc), takes the next id, registers it as pending,   *)
(*    asks GetNewAddress for an address and goes on as Connect;           *)
(*  - Connect dials and reports handleFailed or handleConnected;          *)
(*  - a permanent request that failed or was disconnected is retried by a *)
(*    timer that calls Connect again with the same id;                    *)
(*  - callers of Connect (a fresh permanent request), Disconnect and      *)
(*    Remove, and Start and Stop.                                          *)
(* Every send on cm.requests is a select with <-cm.quit, so a sender      *)
(* gives up once Stop has closed quit.                                     *)
(*                                                                         *)
(* Time is not modelled: a timer is a goroutine that starts later, so the  *)
(* backoff (retryCount) and the failedAttempts delay, which choose only   *)
(* how long to wait, are left out.  Addresses and net.Conns are data.     *)
(***************************************************************************)
EXTENDS Naturals, FiniteSets

CONSTANTS
  TargetOutbound, \* Cfg.TargetOutbound after New's default
  MaxReqs,        \* bound on connReqCount, the ids handed out
  MaxPerm,        \* bound on callers' Connect of a permanent request
  MaxCalls        \* bound on callers' Disconnect and Remove

ASSUME TargetOutbound \in Nat \ {0} /\ MaxReqs \in Nat /\ MaxCalls \in Nat

Ids == 1..MaxReqs

\* ConnState.
States == {"ConnPending", "ConnFailing", "ConnCanceled", "ConnEstablished",
           "ConnDisconnected"}

\* Where the goroutine working for a request is:
\*   "register"  blocked sending registerPending,
\*   "await"     waiting for done,
\*   "getaddr"   NewConnReq about to call GetNewAddress,
\*   "dial"      Connect about to call Dial,
\*   "failed"    blocked sending handleFailed,
\*   "connected" blocked sending handleConnected,
\*   "retry"     a time.AfterFunc armed to call Connect,
\*   "none"      no goroutine.
DialerPCs == {"register", "await", "getaddr", "dial", "failed", "connected",
              "retry", "none"}

VARIABLES
  started,      \* cm.start has been taken by Start
  stopped,      \* cm.stop is set and cm.quit is closed
  handler,      \* connHandler: "off", "on" or "done"
  listener,     \* listenHandler: "off", "on" or "done"
  connReqCount, \* cm.connReqCount
  perm,         \* ids of permanent requests
  state,        \* state[id], ConnReq.state
  pending,      \* connHandler's pending map (its key set)
  conns,        \* connHandler's conns map (its key set)
  dialer,       \* dialer[id], the goroutine working for request id
  spawned,      \* NewConnReq goroutines not yet running
  calls,        \* Disconnect/Remove callers blocked sending handleDisconnected
  ncalls,       \* Disconnect/Remove calls made so far
  removed       \* history: ids for which a Remove was handled

vars == <<started, stopped, handler, listener, connReqCount, perm, state,
          pending, conns, dialer, spawned, calls, ncalls, removed>>

Call == [id : Ids, retry : BOOLEAN]

TypeOK ==
  /\ started \in BOOLEAN /\ stopped \in BOOLEAN
  /\ handler \in {"off", "on", "done"} /\ listener \in {"off", "on", "done"}
  /\ connReqCount \in 0..MaxReqs
  /\ perm \subseteq 1..connReqCount
  /\ state \in [Ids -> States]
  /\ pending \subseteq 1..connReqCount /\ conns \subseteq 1..connReqCount
  /\ dialer \in [Ids -> DialerPCs]
  /\ spawned \in Nat
  /\ calls \subseteq Call /\ ncalls \in 0..MaxCalls
  /\ removed \subseteq Ids

\* New: a ConnManager with empty maps; a new ConnReq's state is its zero
\* value, ConnPending.
Init ==
  /\ started = FALSE /\ stopped = FALSE
  /\ handler = "off" /\ listener = "off"
  /\ connReqCount = 0 /\ perm = {}
  /\ state = [i \in Ids |-> "ConnPending"]
  /\ pending = {} /\ conns = {}
  /\ dialer = [i \in Ids |-> "none"]
  /\ spawned = 0 /\ calls = {} /\ ncalls = 0 /\ removed = {}

(***************************************************************************)
(* The caller's API.                                                       *)
(***************************************************************************)

\* Mutant: the launch loop runs up to and including TargetOutbound.
StartOffByOne ==
  /\ ~started
  /\ started' = TRUE
  /\ handler' = "on" /\ listener' = "on"
  /\ spawned' = spawned + (IF connReqCount <= TargetOutbound
                           THEN TargetOutbound - connReqCount + 1 ELSE 0)
  /\ UNCHANGED <<stopped, connReqCount, perm, state, pending, conns, dialer,
                 calls, ncalls, removed>>

\* Start: only the first call does anything.  It runs connHandler and the
\* listener, and launches one NewConnReq for each id below TargetOutbound
\* that is not taken yet.
Start ==
  /\ ~started
  /\ started' = TRUE
  /\ handler' = "on" /\ listener' = "on"
  /\ spawned' = spawned + (IF connReqCount < TargetOutbound
                           THEN TargetOutbound - connReqCount ELSE 0)
  /\ UNCHANGED <<stopped, connReqCount, perm, state, pending, conns, dialer,
                 calls, ncalls, removed>>

\* Stop: only the first call sets cm.stop, closes the listeners and closes
\* cm.quit.
Stop ==
  /\ ~stopped
  /\ stopped' = TRUE
  /\ UNCHANGED <<started, handler, listener, connReqCount, perm, state, pending,
                 conns, dialer, spawned, calls, ncalls, removed>>

\* Mutant: the id is loaded instead of taken with AddUint64.
ConnectPermanentReuseId ==
  /\ ~stopped
  /\ connReqCount < MaxReqs /\ Cardinality(perm) < MaxPerm
  /\ perm' = perm \cup {connReqCount}
  /\ dialer' = [dialer EXCEPT ![connReqCount] = "register"]
  /\ UNCHANGED <<started, stopped, handler, listener, connReqCount, state,
                 pending, conns, spawned, calls, ncalls, removed>>

\* Connect(&ConnReq{Permanent: true, Addr: a}) by a caller: the request
\* has id 0, so Connect takes the next id and registers it first.
ConnectPermanent ==
  /\ ~stopped
  /\ connReqCount < MaxReqs /\ Cardinality(perm) < MaxPerm
  /\ connReqCount' = connReqCount + 1
  /\ perm' = perm \cup {connReqCount + 1}
  /\ dialer' = [dialer EXCEPT ![connReqCount + 1] = "register"]
  /\ UNCHANGED <<started, stopped, handler, listener, state, pending, conns,
                 spawned, calls, ncalls, removed>>

\* Disconnect(id) (retry) and Remove(id) (no retry) return at once after
\* Stop; otherwise they block sending handleDisconnected.
Issue(id, retry) ==
  /\ ~stopped /\ ncalls < MaxCalls
  /\ calls' = calls \cup {[id |-> id, retry |-> retry]}
  /\ ncalls' = ncalls + 1
  /\ UNCHANGED <<started, stopped, handler, listener, connReqCount, perm, state,
                 pending, conns, dialer, spawned, removed>>

\* A blocked Disconnect or Remove takes the <-cm.quit case.
CallQuit(c) ==
  /\ stopped /\ c \in calls
  /\ calls' = calls \ {c}
  /\ UNCHANGED <<started, stopped, handler, listener, connReqCount, perm, state,
                 pending, conns, dialer, spawned, ncalls, removed>>

(***************************************************************************)
(* The request goroutines.                                                 *)
(***************************************************************************)

\* NewConnReq starts: it returns if cm.stop is set; otherwise it takes the
\* next id and blocks sending registerPending.
NewConnReqStart ==
  /\ spawned > 0 /\ ~stopped /\ connReqCount < MaxReqs
  /\ spawned' = spawned - 1
  /\ connReqCount' = connReqCount + 1
  /\ dialer' = [dialer EXCEPT ![connReqCount + 1] = "register"]
  /\ UNCHANGED <<started, stopped, handler, listener, perm, state, pending,
                 conns, calls, ncalls, removed>>

NewConnReqStopped ==
  /\ spawned > 0 /\ stopped
  /\ spawned' = spawned - 1
  /\ UNCHANGED <<started, stopped, handler, listener, connReqCount, perm, state,
                 pending, conns, dialer, calls, ncalls, removed>>

\* done is closed: NewConnReq goes on to GetNewAddress, Connect to Dial.
AwaitDone(id) ==
  /\ dialer[id] = "await"
  /\ dialer' = [dialer EXCEPT ![id] = IF id \in perm THEN "dial" ELSE "getaddr"]
  /\ UNCHANGED <<started, stopped, handler, listener, connReqCount, perm, state,
                 pending, conns, spawned, calls, ncalls, removed>>

\* GetNewAddress fails (handleFailed) or gives the address Connect dials.
GetNewAddress(id) ==
  /\ dialer[id] = "getaddr"
  /\ \E ok \in BOOLEAN : dialer' = [dialer EXCEPT ![id] = IF ok THEN "dial" ELSE "failed"]
  /\ UNCHANGED <<started, stopped, handler, listener, connReqCount, perm, state,
                 pending, conns, spawned, calls, ncalls, removed>>

\* Dial fails or connects; Dial itself does not watch cm.quit.
Dial(id) ==
  /\ dialer[id] = "dial"
  /\ \E ok \in BOOLEAN :
       dialer' = [dialer EXCEPT ![id] = IF ok THEN "connected" ELSE "failed"]
  /\ UNCHANGED <<started, stopped, handler, listener, connReqCount, perm, state,
                 pending, conns, spawned, calls, ncalls, removed>>

\* The retry timer fires: Connect(c) returns if cm.stop is set; the id is
\* not 0, so it dials at once without registering again.
RetryFire(id) ==
  /\ dialer[id] = "retry"
  /\ dialer' = [dialer EXCEPT ![id] = IF stopped THEN "none" ELSE "dial"]
  /\ UNCHANGED <<started, stopped, handler, listener, connReqCount, perm, state,
                 pending, conns, spawned, calls, ncalls, removed>>

\* Mutant: the result is sent with a plain send, without the quit case.
DialerQuitRegisterOnly(id) ==
  /\ stopped /\ dialer[id] \in {"register", "await"}
  /\ dialer' = [dialer EXCEPT ![id] = "none"]
  /\ UNCHANGED <<started, stopped, handler, listener, connReqCount, perm, state,
                 pending, conns, spawned, calls, ncalls, removed>>

\* A goroutine blocked in a select with <-cm.quit takes that case.
DialerQuit(id) ==
  /\ stopped /\ dialer[id] \in {"register", "await", "failed", "connected"}
  /\ dialer' = [dialer EXCEPT ![id] = "none"]
  /\ UNCHANGED <<started, stopped, handler, listener, connReqCount, perm, state,
                 pending, conns, spawned, calls, ncalls, removed>>

\* listenHandler: once Stop has closed the listener, Accept fails and the
\* loop sees cm.stop.
ListenerExit ==
  /\ listener = "on" /\ stopped
  /\ listener' = "done"
  /\ UNCHANGED <<started, stopped, handler, connReqCount, perm, state, pending,
                 conns, dialer, spawned, calls, ncalls, removed>>
(***************************************************************************)
(* connHandler.  Each case of the type switch is one step: the send it    *)
(* receives completes in the same step.                                   *)
(***************************************************************************)

\* handleFailedConn(c), called by connHandler with dialer d for the rest.
\* It does nothing once cm.stop is set.  A permanent request is retried
\* by a timer; otherwise a new NewConnReq is launched, at once or after
\* RetryDuration once failedAttempts reaches maxFailedAttempts.
FailedConn(id, d) ==
  \/ /\ stopped
     /\ dialer' = d /\ UNCHANGED spawned
  \/ /\ ~stopped /\ id \in perm
     /\ dialer' = [d EXCEPT ![id] = "retry"] /\ UNCHANGED spawned
  \/ /\ ~stopped /\ id \notin perm
     /\ dialer' = d /\ spawned' = spawned + 1

\* registerPending: the request is pending and done is closed.
HandleRegister(id) ==
  /\ handler = "on" /\ dialer[id] = "register"
  /\ state' = [state EXCEPT ![id] = "ConnPending"]
  /\ pending' = pending \cup {id}
  /\ dialer' = [dialer EXCEPT ![id] = "await"]
  /\ UNCHANGED <<started, stopped, handler, listener, connReqCount, perm, conns,
                 spawned, calls, ncalls, removed>>

\* Mutant: the request is not deleted from pending.
HandleConnectedKeepPending(id) ==
  /\ handler = "on" /\ dialer[id] = "connected"
  /\ dialer' = [dialer EXCEPT ![id] = "none"]
  /\ IF id \in pending
       THEN /\ state' = [state EXCEPT ![id] = "ConnEstablished"]
            /\ conns' = conns \cup {id}
       ELSE UNCHANGED <<state, conns>>
  /\ UNCHANGED <<started, stopped, handler, listener, connReqCount, perm,
                 pending, spawned, calls, ncalls, removed>>

\* handleConnected: ignored (the conn closed) unless the request is still
\* pending; otherwise it moves from pending to conns.
HandleConnected(id) ==
  /\ handler = "on" /\ dialer[id] = "connected"
  /\ dialer' = [dialer EXCEPT ![id] = "none"]
  /\ IF id \in pending
       THEN /\ state' = [state EXCEPT ![id] = "ConnEstablished"]
            /\ conns' = conns \cup {id}
            /\ pending' = pending \ {id}
       ELSE UNCHANGED <<state, conns, pending>>
  /\ UNCHANGED <<started, stopped, handler, listener, connReqCount, perm,
                 spawned, calls, ncalls, removed>>

\* handleDisconnected of a connected id: it leaves conns; without retry
\* (Remove) it is ConnDisconnected; with retry (Disconnect) it is pending
\* again and handed to handleFailedConn if conns is below TargetOutbound
\* or it is permanent.  Of a pending id: it is canceled.  Otherwise the
\* id is unknown and ignored.
HandleDisconnected(c) ==
  LET id == c.id IN
  /\ handler = "on" /\ c \in calls
  /\ calls' = calls \ {c}
  /\ removed' = IF c.retry THEN removed ELSE removed \cup {id}
  /\ \/ /\ id \in conns
        /\ conns' = conns \ {id}
        /\ \/ /\ ~c.retry
              /\ state' = [state EXCEPT ![id] = "ConnDisconnected"]
              /\ UNCHANGED <<pending, dialer, spawned>>
           \/ /\ c.retry
              /\ Cardinality(conns') < TargetOutbound \/ id \in perm
              /\ state' = [state EXCEPT ![id] = "ConnPending"]
              /\ pending' = pending \cup {id}
              /\ FailedConn(id, dialer)
           \/ /\ c.retry
              /\ ~(Cardinality(conns') < TargetOutbound \/ id \in perm)
              /\ UNCHANGED <<state, pending, dialer, spawned>>
     \/ /\ id \notin conns /\ id \in pending
        /\ state' = [state EXCEPT ![id] = "ConnCanceled"]
        /\ pending' = pending \ {id}
        /\ UNCHANGED <<conns, dialer, spawned>>
     \/ /\ id \notin conns /\ id \notin pending
        /\ UNCHANGED <<state, pending, conns, dialer, spawned>>
  /\ UNCHANGED <<started, stopped, handler, listener, connReqCount, perm, ncalls>>

\* handleFailed: ignored unless the request is still pending; otherwise
\* ConnFailing and handleFailedConn.
HandleFailed(id) ==
  /\ handler = "on" /\ dialer[id] = "failed"
  /\ LET d == [dialer EXCEPT ![id] = "none"] IN
       IF id \in pending
         THEN /\ state' = [state EXCEPT ![id] = "ConnFailing"]
              /\ FailedConn(id, d)
         ELSE /\ dialer' = d
              /\ UNCHANGED <<state, spawned>>
  /\ UNCHANGED <<started, stopped, handler, listener, connReqCount, perm,
                 pending, conns, calls, ncalls, removed>>

\* The <-cm.quit case: break out.
HandlerExit ==
  /\ handler = "on" /\ stopped
  /\ handler' = "done"
  /\ UNCHANGED <<started, stopped, listener, connReqCount, perm, state, pending,
                 conns, dialer, spawned, calls, ncalls, removed>>

\* Stopped, and every goroutine has returned (Wait would return).
Drained ==
  /\ handler # "on" /\ listener # "on"
  /\ spawned = 0 /\ calls = {}
  /\ \A id \in Ids : dialer[id] = "none"

\* Once stopped and drained nothing more happens (before Stop, Stop is
\* always possible).
Quiescent == stopped /\ Drained /\ UNCHANGED vars

Next ==
  \/ Start \/ Stop \/ ConnectPermanent
  \/ \E id \in Ids, retry \in BOOLEAN : Issue(id, retry)
  \/ \E c \in calls : CallQuit(c) \/ HandleDisconnected(c)
  \/ NewConnReqStart \/ NewConnReqStopped
  \/ \E id \in Ids : \/ AwaitDone(id) \/ GetNewAddress(id) \/ Dial(id)
                     \/ RetryFire(id) \/ DialerQuit(id)
                     \/ HandleRegister(id) \/ HandleConnected(id) \/ HandleFailed(id)
  \/ ListenerExit \/ HandlerExit
  \/ Quiescent

(***************************************************************************)
(* Fairness.  Every goroutine that can step keeps stepping; connHandler's *)
(* select picks among ready senders at random, and a blocked sender stays *)
(* ready until it is served or quit is closed, so each rendezvous is      *)
(* weakly fair.  Calls from outside, Start, Stop and the outcomes of Dial *)
(* and GetNewAddress are the environment's.                               *)
(***************************************************************************)
Fairness ==
  /\ \A id \in Ids :
       /\ WF_vars(AwaitDone(id)) /\ WF_vars(GetNewAddress(id)) /\ WF_vars(Dial(id))
       /\ WF_vars(RetryFire(id)) /\ WF_vars(DialerQuit(id))
       /\ WF_vars(HandleRegister(id)) /\ WF_vars(HandleConnected(id))
       /\ WF_vars(HandleFailed(id))
  /\ \A c \in Call : WF_vars(CallQuit(c)) /\ WF_vars(HandleDisconnected(c))
  /\ WF_vars(NewConnReqStart) /\ WF_vars(NewConnReqStopped)
  /\ WF_vars(ListenerExit) /\ WF_vars(HandlerExit)

Spec == Init /\ [][Next]_vars /\ Fairness

(***************************************************************************)
(* Properties.                                                             *)
(***************************************************************************)

\* The automatic requests never hold more than TargetOutbound connections:
\* Start launches one per free id below the target, and every failure or
\* retried disconnection replaces its request by at most one.
OutboundWithinTarget ==
  Cardinality(conns \ perm) <= TargetOutbound

\* A permanent request that connHandler keeps as pending always has a
\* goroutine or a timer working on it, until Stop (handleFailedConn's
\* Permanent branch, connmanager.go:182-191).
PermanentRetried ==
  \A id \in pending \cap perm : stopped \/ dialer[id] # "none"

\* After Stop, every goroutine of the manager returns: connHandler, the
\* listener, the request goroutines, the timers and blocked callers.
ShutdownDrains == stopped ~> Drained

\* A permanent request is given up only when Remove is called for it
\* (Disconnect's comment: "If permanent, the connection will be retried").
PermanentNeverDropped ==
  \A id \in perm : state[id] \in {"ConnCanceled", "ConnDisconnected"} => id \in removed

=============================================================================
