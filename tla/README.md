# TLA+ models of the kopach mining system

This directory holds TLA+ models of the parallel mining system in this
repository. They are checked with TLC. Each module is written from the Go
source it names. `PROJECT.json` has the map from each definition to its source
lines, the runs, the mutants, the findings and the hazards.

## The system

Mining is split across three kinds of process. They talk over UDP multicast and
over RPC on stdio pipes.

* **Controller** (`src/pkg/controller/controller.go`, `job/job.go`). It runs
  inside the full node.
  * It builds a block template and sends it as a *Job* datagram: the height,
    the previous hash, the difficulty bits of every algorithm, and the
    transactions.
  * A ticker goroutine (`rebroadcaster`) resends the Job every second. It
    regenerates the template when the tip or the mempool changes.
  * The chain notifier regenerates the template when a block is accepted.
  * The solution handler checks each *Solution* received against the tip,
    passes it to `ProcessBlock`, and answers with a *Pause*.
  * On shutdown it sends a Pause.
* **Supervisor** (`src/cmd/kopach/main.go`). It spawns `GenThreads` worker
  processes and gives each one the pass.
  * The transport's listener goroutine runs the Job handler or the Pause
    handler for each datagram.
  * The Job handler follows the first controller heard from (`firstSender`),
    stamps `lastSent`, and calls `NewJob` on every worker in turn.
  * The Pause handler pauses every worker and clears `firstSender`.
  * A watchdog goroutine ticks every second. If the current controller has been
    silent for more than 3 s, it clears `firstSender` and pauses every worker.
  * `firstSender` and `lastSent` are shared under `w.mx`.
* **Worker** (`src/cmd/kopach/worker/implementation.go`, `kopach_worker/main.go`).
  * A search goroutine loops between a pausing `select` and a running `select`
    over `startChan`, `stopChan` and `Quit`. When nothing is ready it hashes in
    the `default` branch.
  * net/rpc runs each call (`NewJob`, `Pause`, `Stop`, `SendPass`) in its own
    goroutine. A call reaches the loop only by sending on the unbuffered
    channels.
  * A solution goes back to the controller as a UDP datagram on the dispatch
    connection.

The Job and Solution datagrams carry their fields in the simplebuffer codecs
(`src/pkg/simplebuffer/Bitses`, `Block`): the difficulty map of a Job, and the
block of a Solution. The difficulty map comes from the chain:
`job.Get` calls `CalcNextRequiredDifficultyPlan9Controller`
(`src/pkg/chain/forkplan9controller.go`), which gives every algorithm version
of the next block's fork its compact target. The per-version
`CalcNextRequiredDifficultyPlan9` (`forkplan9.go`) computes one version's
target the same way.

`src/pkg/ipc` frames messages over a pipe between a controller process and a
worker process: a 4-byte little-endian length, an 8-byte highwayhash of the
payload, then the payload. No package in `src` imports it.

`src/pkg/controller/old` is the controller's previous generation, excluded
from the build by `//+build ignore`. Its `Run` also multicasts Jobs and a
shutdown Pause, but workers answer with a solution split into FEC shards. A
listener goroutine (`Listen`, `old/network.go`) reads the shards under `mx`
and gathers them per nonce. It decodes the solution once enough have come in,
and hands the block to a submitter goroutine over the unbuffered `submitChan`.

Apart from the mining system, the repository has a **peer connection manager**
(`src/pkg/peer/connmgr/connmanager.go`). One goroutine, `connHandler`, owns the
pending and established connection requests. Request goroutines, retry timers
and callers talk to it over one unbuffered channel.

Other parts of the repository are listed in `PROJECT.json` with their status:
the build-ignored old controller, and the GUI and CLI glue.

## Modules

### `Supervisor.tla`: kopach/main.go

Constants:
* `Controllers`: model values.
* `NumWorkers`.
* `StaleWindow`: the 3 s threshold, counted in watchdog ticks.
* `NoSender`: the empty string.

Shared state:
* `firstSender`.
* `age`: the number of ticks since `lastSent`, saturated at `StaleWindow + 1`.
  Time is therefore unbounded while the state space stays finite.
* `tick`: the ticker's one-slot buffer.

The two goroutines are each a program counter over the stretches of code
between lock operations and RPC calls:
* `lis` has the actions `Receive`, `JobCheck`, `JobAccept`, `FanJob`,
  `FanPause` and `PauseClear`.
* `wd` has the actions `WatchdogCheck`, `WatchdogClear` and `WatchdogPause`.

These splits follow the source:
* `JobCheck` reads `otherSent` under one lock and `JobAccept` writes under a
  second lock. They are separate actions.
* The watchdog decides under one lock and clears under another. These are also
  separate actions.
* The fan-outs call one worker per step.

The environment:
* A worker child is reduced to whether it runs and which controller's job it
  holds (`WorkerNewJob`, `WorkerPause`).
* Controllers `Broadcast` Jobs while alive.
* A controller `Shutdown` sends a Pause and stops. It is the only Pause a
  controller sends: the solution path sends an empty Pause, as the
  `pauseShards` shadowing in controller.go:98 leaves `c.pauseShards` empty.
* A controller may also `Crash`.
* The network is a set of datagrams. It reorders them, and a lost datagram is a
  send that did not happen.
* `lastAccepted` and `pausedSince` are history variables for the properties.

### `MiningWorker.tla`: worker/implementation.go, kopach_worker/main.go

Shared state:
* `loop`: the search goroutine's state. It is at its `"pausing"` or
  `"running"` select, `"hashing"` in the default branch, or `"finished"`.
* `call[c]`: one RPC per caller goroutine of the supervisor, with its method,
  its job and its program counter.

The RPC actions are these, split at every blocking point:
* `NewJobDispatch` (SetSendConn).
* `LoopStop` (the stopChan rendezvous, in either loop state).
* `NewJobLoad` (bitses, the algorithm list in map order, the header, the first
  roller version).
* `NewJobExtraNonce` (success, or the early return).
* `LoopStart` (the startChan rendezvous).
* `StopClose`.
* `SendPass`.

The loop actions are these:
* `LoopDefault`: the select found no channel ready.
* `HashSolve`: send a Solution and `break running`.
* `HashRoll`: next roller version, and its bits.
* `LoopQuit`.

The process actions are `Interrupt` (the SIGINT handler closes Quit) and
`Exit` (main returns once Quit is closed).

How the data is abstracted:
* A job is a model value.
* The bits of version `a` in job `j` are the pair `<<j, a>>`.
* Whether a hash meets its target is a choice.
* The roller counter is kept modulo `RollerPeriod`. It is only ever used modulo
  the length of the algorithm list, so this is exact.

`Quiescent` is the stutter of an exited process, or of a paused worker once the
call bound is spent. Without it, TLC would report the end of the bounded
behaviour as a deadlock.

### `MiningProcess.tla`: what a worker promises

This is the abstract worker. A search is `"pausing"`, `"running"` or
`"finished"` over one header (job, version, bits), and `sent` holds the
solutions. Its actions:
* `Load(j)`: a job's header, with one of its versions and that version's
  bits. It is allowed only while the search is not running.
* `Start` and `Halt`.
* `Roll`: a running search moves to another version of its job.
* `Solve`: the header is sent, and the search pauses.
* `Finish`.

`MiningWorker` instantiates it as `Process` with this refinement mapping:
* `search` is `loop`, with `"hashing"` counted as running.
* `job`, `version` and `bits` are the fields of `header`.
* `sent` is `solutions` without their destination. The destination is wrong
  (see `SolutionToItsController`), so the abstract spec does not promise it.

Every other worker step is a stutter of the abstract spec: the RPC callers,
the dispatch connection, the roller counter, Stop's close and the exit.

### `Controller.tla`: controller.go, job/job.go

Constants:
* `MaxExt`, `MaxPool`, `MaxSols`: bounds on blocks from other peers, mempool
  updates and solutions received.
* `Now`: a fresh `time.Now()` stamp. It equals no mempool `LastUpdated` value.
* `PauseMsg` and `NoShards`: the shards of a Pause, and an empty shard list.

The chain is a number (`tip`), the mempool a version (`poolVer`), and time the
flag `minuteUp` ("a minute has passed since `lastGenerated`"). A job is the
pair of its template's previous block and the height `job.Get` read from the
tip. The goroutines are:
* `"rb"`, the rebroadcaster. `Run`'s first `sendNewBlockTemplate` is its
  prelude. Each tick it either regenerates (`RbRegenerate`, when `Stale`) or
  loads `oldBlocks`, resends it and stores it back (`RbResend`, `RbStore`).
  `oldBlocks` is an `atomic.Value` with no lock around the three steps.
* `"sh"`, the Solution handler run by the listener: `ShReceive`, the stale
  check (`ShStale`, `ShFresh`), caching and sending `c.pauseShards`
  (`ShPause`), `ProcessBlock` (`ShRejected`, `ShAccepted`) and `ShReply`.
* The template path shared by both: `GenTemplateOk`/`GenTemplateFail`,
  `GenJob` (job.Get, which reads the tip again for the height, then sends) and
  `GenCommit` (the writes of `prevHash`, `oldBlocks`, `lastGenerated` and
  `lastTxUpdate = time.Now()`).
* The sync manager: `ExtBlock` (another peer's block) and the notifier
  (`NotifyJob`, or `NotifySkip` before `Run` has started).
* The environment: `PoolUpdate`, `MinutePasses`, `Shutdown` (on
  `HandlersDone`, `Run` sends the final Pause and returns without cancelling
  its context) and `ProcessExit`.

`pauseShards` is the constant `NoShards`. `Run` assigns the Pause shards to a
local that shadows the field (controller.go:98), so the field stays empty.
`owePause` and `genPool` are history variables for the properties.

### `ConnManager.tla`: peer/connmgr/connmanager.go

Constants:
* `TargetOutbound`.
* `MaxReqs`: the ids `connReqCount` may hand out.
* `MaxPerm`: the callers' permanent `Connect`s.
* `MaxCalls`: the callers' `Disconnect`s and `Remove`s.

State:
* The handler's maps `pending` and `conns`, and `state[id]` (the `ConnState`).
* `perm`: the permanent requests.
* `dialer[id]`: where the goroutine or timer working for request `id` is. It is
  blocked registering, waiting on `done`, getting an address, dialing, blocked
  reporting a failure or a connection, a pending retry timer, or nothing.
* `spawned`: `NewConnReq` goroutines launched and not yet started.
* `calls`: callers blocked sending `Disconnect` or `Remove`.
* `started`, `stopped`, `handler` and `listener`.
* `removed`: a history variable of the ids passed to `Remove`.

Actions:
* For callers: `Start` (one `NewConnReq` per free slot below the target),
  `Stop`, `ConnectPermanent`, `Issue` (Disconnect or Remove), and `CallQuit`
  (the `<-cm.quit` case of a blocked call).
* For request goroutines: `NewConnReqStart` and `NewConnReqStopped`,
  `AwaitDone`, `GetNewAddress`, `Dial`, `RetryFire` (the timer calls
  `Connect` again) and `DialerQuit`.
* For `connHandler`: `HandleRegister`, `HandleConnected`, `HandleDisconnected`
  (both Disconnect and Remove), `HandleFailed`, and `HandlerExit`. Each
  handler case includes the `handleFailedConn` call it makes (`FailedConn`).
* `ListenerExit`.

Each send on `cm.requests` happens in the handler's action: the rendezvous is
atomic, and a blocked sender can instead take its quit case.

### `Codecs.tla`: simplebuffer/Bitses, simplebuffer/Block

These are operators over byte sequences:
* `BE32` and `Int32FromBE` are `binary.BigEndian` a byte at a time, keeping the
  sign of an `int32` key.
* `BitsesPut`, `BitsesEncode`, `BitsesDecode` and `BitsesGet` model the Bitses
  methods.
  * `BitsesEncode` takes the map's iteration order as an argument.
  * `BitsesDecode` returns `ok |-> FALSE` where the Go code would slice out of
    range and panic.
  * `Merge` uses `@@` so that a later entry with the same key wins.
* `BlockPut`, `BlockEncode` and `BlockDecode` model the Block methods.
  `BlockDecode` returns the rest of the buffer, as Decode does.

A small machine runs each codec end to end:
* `JobDiffs` is the first half of `job.Get` (job.go 69-85). It draws a fork
  and the inputs of its calculation, and stores the map the controller
  computes in `bitsIn`. For Plan 9 it also stores, in the history variable
  `bitsWant`, what `CalcNextRequiredDifficultyPlan9` gives each version. A
  Halcyon error ends in `"nojob"`: `Get` returns an empty container. The
  tip's `Diffs` cache holds what an earlier computation on the same tip
  returned, so a cache hit is one of the same choices.
* `BitsesSend` is the rest of `job.Get`: Put, then Encode in some map order,
  followed by a tail from the container.
* `BitsesReceive` is `GetBitses`: Decode into a new value, then Get.
* `BlockSend` is `GetSolContainer`, and `BlockReceive` is `GetMsgBlock`.

### `Plan9.tla`: chain/forkplan9controller.go, chain/forkplan9.go

These are operators, with no variables. The averages, the float adjustment
and the big-integer target of one version's retarget are data. What the code
does with them is decided by one of `Retargets`:
* `"nolast"`: `GetP9Since` finds no last block.
* `"nil"`: the float target is nil.
* `"limit"`: the target is at or above the first pow limit.
* `"below"`: the target is below the limit, with its compact bits.

The operators:
* `SecondPowLimits` is `secondPowLimitBits`, the prefill.
* `Plan9Single` is `CalcNextRequiredDifficultyPlan9`.
* `Retarget` is the controller's loop over the versions (RECURSIVE). It takes
  the map's iteration order as an argument and returns at `"nolast"` and
  `"nil"`, as lines 62 and 73 do.
* `Plan9Controller` is the controller after the Plan 9 fork: the prefill, the
  hard-fork return, then the loop.
* `HalcyonController` is fork 0's loop. Its error is that of the last version
  in map order.

### `Ipc.tla`: ipc/ipc.go

One direction of a pipe: a writer `Conn` and a reader `Conn`.
* The state is `pipe` (bytes written, not yet read) and `writing` (the rest of
  a write still in progress). The reader holds the buffer `buf`, the decoded
  `bLen` and `mHash`, and `rpc`, the place of its next `r` call. The
  histories are `sent`, `got` and `short` (some read returned less than
  asked).
* `Write(p)` puts `Frame(p)` in the pipe. A frame of at most `PipeBuf` bytes
  is readable at once. A longer one is readable in two parts, cut anywhere,
  and `WritePart` adds the rest. `Close` is `Write(QuitCommand)`.
* Each read returns `min(asked, available)` and blocks while the pipe is
  empty, as `read(2)` of a pipe does. An empty read returns at once.
* `ReadLen`, `ReadHash` and `ReadBody` are Read's three `r` calls, each with
  what Read does up to the next call or its return. `ReadBodyPanic` is the
  slice `p[:bLen]` past the buffer.
* `Hash` is a constant operator standing for highwayhash-64. `Sum(nil)` is
  taken to be `Sum64` in the byte order that `Read` decodes.

### `OldController.tla`: controller/old/main.go and old/network.go

The superseded multicast controller. Broadcasts are numbered: `jobs` counts
the templates sent, and `PauseShards`, `NilShards` and `NoneSent` are the
Pause shards, nil shards and nothing sent.
* **Run.** `RunStart` takes Run from its start to its wait, with every way
  out:
  * the two early returns, before the deferred function exists;
  * the `ListenUDP` error after it;
  * a first template that is sent, is nil, fails in `Send` before any
    shard (a nonce or `fec.Encode` error, which stores nil shards), or fails
    on a write (which stores the job's shards). Every failure leaves
    `active` false;
  * `Listen`'s error return, which still leaves the listener goroutine
    running.

  `pauseVar` is Run's local `pauseShards`, which line 127 overwrites with the
  template's shards. `RunExit` is the interrupt handlers finishing, with
  `active` stored false. Every return after the dial runs the deferred
  function in two steps. `DeferredSend` is its send loop (99-105), which
  broadcasts `pauseVar` and records it in `final`. `DeferredClose` is its
  close loop (106-112), which closes the connection (`open`).
* **Notifier and rebroadcaster.** `NotifyCheck` is a block accepted while
  subscribed, and the unlocked read of `active`. `NotifySend` sends a new
  template and stores it in `oldBlocks`. A nil template does nothing, and
  a nonce or encode error stores nil shards.
  `Rebroadcast` resends `oldBlocks` while the connection is open. `bcast` is
  the last broadcast that went out.
* **Solutions.** `Arrive(s, i)` is shard `i` of solution `s` reaching the
  socket, bounded by `MaxDgrams`: duplicates, reordering and (by never
  arriving) loss. `ListenRead` reads the next datagram and runs the handler:
  * `HandleNew` makes an entry (`known`, `bufs`) for a new nonce.
  * `HandleKnown` appends to an entry that is not yet `decoded`. From
    `DecodeAt` (3) buffers on, each shard triggers `TryDecode`.
  * A shard of a decoded entry marks every other entry `superseded`.
  * After a decode the listener blocks in `lis = "send"` until
    `SubmitRecv` takes the block.
  * The submitter returns on a solution in `Malformed`, so `sub` is
    `"exited"`.
* **Listen's loop.** `Loop` is the context check after the handler. `Cancel`
  is Run's caller calling the cancel Run returned, which is Listen's.

fec and the cipher are not in this tree. A decode succeeds exactly when `K`
distinct shards are buffered: fec puncturing "6 of the 9"
(`old/network.go:22-23`) means it needs 3.

### `MCComponents.tla`: independent components together

The Codecs machine, the Ipc framing and the old controller share no state.
`MCComponents` runs them side by side as one specification. `part` chooses
which of them a behaviour runs, and the others stay in their initial states.
The old controller is instantiated with two solutions (`solB` malformed),
shards {1, 2, 3} with `K = 3`, 4 datagrams and 1 accepted block.

## Runs

| run | cfg | bounds | checks | result |
|---|---|---|---|---|
| supervisor | MCSupervisor.cfg | 2 controllers, 2 workers, window 2 | TypeOK, RunningWorkersFollowLastJob, FailoverEventually, LiveControllerAdopted | pass |
| supervisor_handover | MCSupervisorHandover.cfg | 2 controllers, 1 worker, window 3 | HandoverOnlyAfterSilence | violation |
| supervisor_idle | MCSupervisorIdle.cfg | 2 controllers, 1 worker, window 1 | WorkersIdleWhenSilent | violation |
| worker | MCMiningWorker.cfg | 2 jobs (2 and 1 versions), callers main/lis/wd/ctl, 5 calls | TypeOK, SolutionHeaderConsistent, OneSolutionPerStart, LoadExcludesSearch, CallsReturn, ImplementsProcess | pass |
| worker_dispatch | MCMiningWorkerDispatch.cfg | callers main/lis/wd, 5 calls | SolutionToItsController | violation |
| controller | MCController.cfg | 1 other block, 1 mempool update, 2 solutions | TypeOK, JobTracksTip | pass |
| controller_revert | MCControllerRevert.cfg | as above | ResendKeepsNewerJob | violation |
| controller_pause | MCControllerPause.cfg | 1 solution | PauseAfterSolution | violation |
| connmgr | MCConnManager.cfg | target 2, 3 ids, 1 permanent Connect, 1 Disconnect/Remove | TypeOK, OutboundWithinTarget, PermanentRetried, ShutdownDrains | pass |
| connmgr_drop | MCConnManagerDrop.cfg | target 1, 2 ids, 1 permanent, 1 call | PermanentNeverDropped | violation |
| components | MCComponents.cfg | Plan 9 versions {5, 6}, Halcyon {2, 514}, 2 targets; blocks of up to 3 bytes, tails of up to 2 bytes; Conn: 3 writes of up to 2 bytes, PipeBuf 13, buffer 8; old controller: 2 solutions, 3 shards, 4 datagrams, 1 block | BitsesRoundTrip, BlockRoundTrip, DiffsCoverFork, InStepReadsReturnWrites, SubmittedAtMostOnce, SolutionReachesSubmitter | pass |
| plan9_targets | MCComponentsPlan9.cfg | as above | TemplateTargetsMatchValidation | violation |

What the runs show:

* **RunningWorkersFollowLastJob**: when the listener is idle, every running
  worker holds the job of the last controller accepted. It holds because the
  listener is a single goroutine and finishes each fan-out before it reads the
  next datagram.
* **FailoverEventually** and **LiveControllerAdopted**: the watchdog does
  eventually free the supervisor from a dead controller, and a controller that
  stays up is eventually followed.
* **HandoverOnlyAfterSilence is violated**. In the counterexample the watchdog
  decides the current controller is stale. Before it clears `firstSender`, the
  listener accepts a fresh Job from that controller, which resets `lastSent`.
  The watchdog then clears `firstSender` anyway, and the next Job of the other
  controller is adopted only moments after the first controller was heard.
  The cause is check-then-act across two critical sections (main.go:87-98).
* **WorkersIdleWhenSilent is violated**. The watchdog pauses the workers while
  the listener is still fanning out the last Job. The worker it paused first is
  then restarted with `firstSender` already empty, so the watchdog never fires
  again and that worker mines the dead controller's job forever.
* **SolutionHeaderConsistent**: a solution carries the difficulty bits of its
  own version.
* **OneSolutionPerStart**: at most one solution is sent per start.
* **LoadExcludesSearch**: NewJob writes the header only while the loop is not
  searching. This is the stopChan handshake: the data race it prevents would
  not be visible to a test.
* **CallsReturn**: every call eventually returns, or the process exits.
* **ImplementsProcess**: the worker refines `MiningProcess`. The channels,
  the RPC goroutines and the roller together keep three promises. The header
  changes job only outside a run. A roll stays within the job's versions and
  takes their bits. A solve sends the header and ends the run.
* **SolutionToItsController is violated**. `SetSendConn` runs before the
  search is halted. A hash of the old job already in progress therefore sends
  its solution to the new job's controller.
* **JobTracksTip**: while the controller runs, the job it caches for
  rebroadcast eventually settles on the tip. It holds in spite of the races
  below: the next tick's `prevHash` check regenerates.
* **ResendKeepsNewerJob is violated**. The rebroadcaster loads `oldBlocks`,
  sends it and stores it back (286-295). A job the notifier cached in between is
  overwritten by the older shards, and the older job is resent.
* **PauseAfterSolution is violated**. A solution that passes the stale check
  (149) owes a Pause ("send pause directly as block is probably a
  solution", 154-157). Because of the `pauseShards` shadowing (98), the
  handler caches and sends an empty shard list, and no Pause follows. With
  `pauseShards` set to the real Pause shards, the same run passes.

* **OutboundWithinTarget**: the automatic requests never hold more than
  `TargetOutbound` connections. This holds through failures, retries and
  disconnections racing each other.
* **PermanentRetried**: while `connHandler` keeps a permanent request pending,
  a goroutine or a timer is working on it, until Stop.
* **ShutdownDrains**: after Stop, every goroutine returns. That includes
  `connHandler`, the listener, request goroutines, timers and blocked callers,
  because every send has its quit case.
* **PermanentNeverDropped is violated**. `Disconnect` of a permanent request
  that is still pending (registered, not yet connected) takes the
  `pending` branch (connmanager.go:260). That branch marks it `ConnCanceled`
  and deletes it, and no retry follows. Disconnect's own comment says "If
  permanent, the connection will be retried".
* **BitsesRoundTrip** and **BlockRoundTrip**: for every map the controller can
  compute, every map order and every tail, decoding returns what was put in. Block's Decode also returns exactly the
  tail. Bitses' Decode drops a tail when the map is empty and the tail is
  shorter than 6 bytes (the `len(by) >= 7` test). No caller uses that rest, so
  the property compares only the map.
* **DiffsCoverFork**: every job a worker decodes has a target for every
  version of its fork, even when a version's retarget returns early. This is
  the prefill at forkplan9controller.go:41. Without it a job could reach the
  worker with an empty map, and `GetAlgoVer` would divide by zero
  (implementation.go:75).
* **InStepReadsReturnWrites**: while no read of a `Conn` is short, each Read
  of a frame `Write` sent returns that payload, with no error. That includes
  a Read that overtakes a long Write, and a cut between two of Read's reads.
  The property says nothing of the Read of `Close`'s frame (see below).
* **SubmittedAtMostOnce**: however the old controller's shards are
  duplicated or reordered, no solution reaches `submitChan` twice. A late
  shard of a decoded entry only marks the others superseded, because of the
  `Decoded` test (old/main.go:190).
* **SolutionReachesSubmitter**: once `K` distinct shards of a well-formed
  solution have arrived, the submitter eventually receives it. The exceptions
  are a submitter that has stopped and a cancelled listener. It holds with
  duplicates among the first three buffers, because each later shard tries
  the decode again (`>= 3` at line 195). A decode tried only at the third
  buffer would lose the solution for good.
* **TemplateTargetsMatchValidation is violated**. In two steps, the version
  first in map order has no last block, so the controller's loop returns
  (forkplan9controller.go:62). The other version keeps the second pow limit,
  where `CalcNextRequiredDifficultyPlan9` computes a retarget for it. Its
  doc comment calls that function the difficulty of the next block, and the
  TODO at line 57 says the loop is to be merged with it. Jobs therefore carry
  targets that depend on Go's random map order.

Further disagreements were found while modelling and are kept as hazards in
`PROJECT.json`, each with a note, but have no run of their own:
* A solution that passed the stale check (149) can reach `ProcessBlock` (162)
  after another peer's block moved the tip.
* `job.Get` reads the tip for the height (job.go:54), so a job's height can be
  newer than its previous block.
* After the final Pause, the rebroadcaster keeps sending Jobs, because `Run`
  returns without cancelling its context (131-135).
* `Stop` and the SIGINT handler both close `Quit`, and the second close panics.
* In ConnManager, a non-permanent request disconnected with retry while the
  target is met stays in `pending` for good (connmanager.go:289). Nothing
  will ever work on it.
* Bitses' Decode checks `len(by) >= nB*8`, but it reads `nB*8+1` bytes
  (bitses.go:29). A buffer of exactly `nB*8` bytes panics the worker.
  `Encode` never produces one, so only a corrupted or hostile Job datagram
  can.
* The rebroadcaster regenerates the template every minute with an unchanged
  mempool. `lastTxUpdate` is set to `time.Now()` (controller.go:223), and the
  test at 277 compares it with the mempool's `LastUpdated()`. The two always
  differ. The Controller module shows it; it costs a rebuilt template a
  minute, not a wrong job.
* Before the Plan 9 fork, a Halcyon error makes `job.Get` return an empty
  container (job.go:77), and `sendNewBlockTemplate` still broadcasts it as a
  Job. Only the last version's error in map order counts
  (forkplan9controller.go:34).
* The old controller's shutdown broadcast is not the Pause. Line 127
  reassigns Run's local `pauseShards` to the first template's shards, so
  the deferred function sends the first Job again. After a nil first
  template it sends nothing at all. TLC finds an invariant that the final
  broadcast is the Pause violated.
* The old controller can broadcast after its shutdown broadcast. The
  deferred function sends `pauseShards` (99-105) before it closes the
  connection (106-112). In between, the rebroadcaster can still resend:
  its context is never cancelled, because line 140 overwrites Run's
  `cancel` with Listen's. The notifier can also send, because it reads
  `active` without a lock. After `Listen`'s error return (141-143), `active`
  is never stored false at all. TLC finds an action property that nothing
  is broadcast after the deferred send violated: a first template sent,
  `Listen` failing, the deferred send, then a Job from the notifier before
  the close.
* In the old controller, once the submitter has returned on a block that
  does not parse (old/main.go:166), the next decoded solution blocks the
  listener on `submitChan` forever, holding `mx`. The same happens when
  `Listen` returned an error, because the submitter was never started. The
  submitter only logs a block; it never submits one (163-168).
* A failed first template or send leaves the old controller's `active` false
  for good (131), so it never sends another Job. `ctrl.buffers` is never
  pruned, and `Superseded` is never read (215-226).
* IPC, once a read is short: TLC finds all of the following.
  * A short read of the length is only logged (ipc.go:112), and the stream is
    out of step from then on.
  * A short read of the hash returns two hash bytes as a message with a nil
    error (123).
  * A length taken from the wrong bytes panics the slice `p[:bLen]` (129).
* IPC: `Close` sends `QuitCommand` framed as a payload, so Read's quit test on
  the length (118) never matches it.

Each property of a passing run has a mutant in `PROJECT.json`: a plausible bug
in a mapped definition that TLC shows the property catches.

### Bounds

* **Supervisor.**
  * Two controllers are the fewest for a handover to occur.
  * Two workers are the fewest for a fan-out to be interleaved with the
    watchdog's pause.
  * The passing run uses a window of 2 ticks: a stale decision and a fresh Job
    can fall in the same window, and liveness stays in time. The handover run
    uses the code's 3 s at a 1 s tick.
* **Worker.**
  * Two jobs, one with two versions, are needed to exercise the roller and the
    bits lookup.
  * Five calls allow SendPass, two NewJobs, a Pause and a Stop. That covers a
    job replacing a running job, and a Pause between two NewJobs.
* **Controller.** One block from another peer, one mempool update and two
  solutions give every race above: a block during a resend, a block between the
  stale check and `ProcessBlock`, and a solution after a solution.

* **ConnManager.** Three ids and a target of 2 are enough for:
  * Start to fill the target.
  * A permanent request to hold an id beside them.
  * A failure to spawn a replacement.

  One permanent Connect and one Disconnect or Remove allow a call to race a
  pending request, a retry timer and Stop. A second call takes the run from
  46 s to over ten minutes, and adds no new kind of step.
* **Codecs.** Both codecs are checked exhaustively over these inputs:
  * Two versions per fork exercise the map order, the stride of Decode, and
    an early return that leaves a later version at its default.
  * Version 514 uses two key bytes. The targets have all four bytes in use.
  * Tails of 0 to 2 bytes cover an exact buffer and a longer one.
  * Negative keys no longer occur, because every map comes from the
    controller. `Int32FromBE` keeps the sign all the same.
* **Old controller.** The code's own FEC figures, 3 shards needed, with
  three shard ids. Four datagrams allow a duplicate among the first three
  buffers followed by the decoding shard, or shards of both solutions. Two
  solutions, one malformed, let the submitter stop while a second
  solution is pending. One accepted block lets a Job race the shutdown.
* **IPC.** `PipeBuf` is scaled down to 13 bytes, one more than an empty
  frame, so frames with a one- or two-byte payload can be cut. One cut per
  write already lets each of the three reads end at any byte of a frame.
  Three writes let a cut frame be followed by whole ones. The 8-byte buffer
  holds every payload, so a panic needs a length read from the wrong bytes.

### Fairness

Where fairness comes from:

* **Weak fairness.** It is assumed on every goroutine step that can run: the
  listener, the watchdog, the RPC method bodies, the search loop, main, the
  controller's rebroadcaster and handler, and the ticker.
* **Worker rendezvous.** Each caller's rendezvous with the search loop is
  weakly fair. A caller blocked on a send stays ready, `default` is not taken
  while it waits, and every other case brings the loop back to a select. Its
  rendezvous therefore stays enabled until it is taken or the loop quits, and
  Go's uniformly random `select` serves it.
* **Strong fairness.**
  * Supervisor: each datagram in flight is received under strong fairness,
    because the socket delivers queued datagrams in turn.
  * Controller: template generation succeeds under strong fairness, because
    `NewBlockTemplate` fails only transiently. The notifier's job is built under
    strong fairness for the same reason.
* **Controllers in the supervisor model.** A live controller's Broadcast is
  weakly fair: its rebroadcaster runs every second.
* **Old controller.** The listener goroutine's read of a queued datagram and
  the submitter's receive are weakly fair: both are goroutines that run
  whenever they can. The network, the chain, the interrupt and the caller's
  cancel carry no fairness.
* **ConnManager.** Every goroutine step and every rendezvous with
  `connHandler` is weakly fair. A blocked sender stays ready until it is
  served or quit is closed, and `connHandler` returns to its select after each
  case.
* **No fairness.** Sends from the environment, crashes, RPC calls, SIGINT, the
  solution lottery, other peers' blocks and mempool updates carry no fairness.

## Not modelled, and why

* **The transport** (`pkg/transport` is not in this tree). Listen's own use of
  the `lastSent` and `firstSender` pointers is unknown. Datagram loss,
  duplication and reordering are modelled at the message level instead.
* **Hashing, merkle roots, nonces and the coinbase.** This is data. Only the
  control flow around it matters to the properties.
* **IPC process spawning** (`NewController`, `NewWorker` in `src/pkg/ipc`).
  These are `exec` of a child process, which is pure I/O. The hash is a
  constant operator, because highwayhash is not in this tree. A `Conn` shared
  by a reader and a writer goroutine (they share `c.Hash`) is not modelled,
  because no code does that.
* **The arithmetic of a Plan 9 retarget** (averages, floats, big integers).
  These are data. Each version's outcome is a choice that covers every branch
  the code takes on it.
* **The Uint16 codec, and block (de)serialization.** A block is the byte
  sequence `Put` would produce. The container framing belongs to the
  simplebuffer root package, which is not in this tree.
* **fec and the AEAD cipher of the old controller.** They are not in this
  tree. A decode is modelled as succeeding once `K` distinct shards are
  buffered, and Open as succeeding.
* **`controller/old/old` and `controller/old/broadcast`.** They are an
  earlier generation again: a channel-based controller and kopach client.
  Nothing in the tree imports them, and the package is build-ignored.
* **The GUI, application and CLI glue, wallet interfaces and test mocks.**
  These are sequential I/O glue. See the components in `PROJECT.json`.

## Plan

Done:
* `Supervisor.tla`, `MiningWorker.tla` with its abstraction
  `MiningProcess.tla`, and `Controller.tla`.
* `ConnManager.tla` and `Codecs.tla`.
* `Plan9.tla` feeding the job's difficulty map into `Codecs.tla`, and
  `Ipc.tla`.
* `OldController.tla`, checked together with Codecs and Ipc in
  `MCComponents.tla`.

Next, most important first:
1. **`MiningSystem.tla`**. It composes Controller, Supervisor and MiningWorker
   through the Job, Pause and Solution messages. It would check end to end
   that a found block is eventually submitted to a live controller.
2. **Larger instances** of ConnManager (two calls) under a longer time
   budget.
