----------------------------- MODULE Controller -----------------------------
(***************************************************************************)
(* The mining controller inside the node (src/pkg/controller/controller.go *)
(* and job/job.go).                                                        *)
(*                                                                         *)
(* Goroutines and their shared state:                                      *)
(*  - "rb", the rebroadcaster: every second it regenerates the template if *)
(*    the tip moved or the mempool changed a minute ago, otherwise it      *)
(*    loads the cached job shards (oldBlocks), resends them and stores     *)
(*    them back.  Run's own initial sendNewBlockTemplate is its prelude.   *)
(*  - "sh", the transport's listener running the Solution handler: check   *)
(*    the block's previous hash against the tip, cache and send            *)
(*    c.pauseShards, hand the block to ProcessBlock, regenerate on error.  *)
(*  - the sync manager, which processes every block (other peers' and      *)
(*    ours, for which the handler waits) and runs the chain notifier in    *)
(*    its own goroutine: on NTBlockAccepted it builds a job at the tip,   *)
(*    caches it and sends it.                                              *)
(* oldBlocks is an atomic.Value; prevHash, lastGenerated and lastTxUpdate *)
(* are plain fields written by whichever goroutine regenerates.            *)
(*                                                                         *)
(* Blocks are numbered; the tip is a number.  A job is the previous block *)
(* of its template and the tip job.Get read for the height.  Time is the  *)
(* boolean minuteUp ("a minute has passed since lastGenerated").           *)
(***************************************************************************)
EXTENDS Naturals, FiniteSets

CONSTANTS
  MaxExt,     \* bound on blocks from other peers
  MaxPool,    \* bound on mempool updates
  MaxSols,    \* bound on solutions received
  Now,        \* a fresh time.Now() stamp, equal to no LastUpdated value
  PauseMsg,   \* the shards of a Pause message
  NoShards,   \* an empty shard list
  None

ASSUME MaxExt \in Nat /\ MaxPool \in Nat /\ MaxSols \in Nat

MaxBlock == MaxExt + MaxSols
Blocks == 0..MaxBlock
Template == [prev : Blocks, pool : 0..MaxPool]
Job == [prev : Blocks, ht : Blocks]
\* What oldBlocks can hold: a job's shards, the Pause shards Run stores
\* first, or an empty shard list.
Cached == Job \cup {PauseMsg, NoShards}

\* c.pauseShards: the field is [][]byte{} and Run's CreateShards result is
\* assigned to a local of the same name (controller.go:90, 98).
pauseShards == NoShards

VARIABLES
  tip,          \* the best chain tip (BestSnapshot)
  nextBlock,    \* the number the next block gets
  exts,         \* number of blocks from other peers so far
  poolVer,      \* the mempool's LastUpdated
  minuteUp,     \* a minute has passed since lastGenerated
  active,       \* ctrl.active
  down,         \* Run has returned on interrupt.HandlersDone
  exited,       \* the process has exited
  started,      \* Run has made its first template and started the goroutines
  prevHash,     \* ctrl.prevHash: the previous block of the last template
  oldBlocks,    \* ctrl.oldBlocks: the cached shards the rebroadcaster resends
  lastTxUpdate, \* ctrl.lastTxUpdate
  pc,           \* pc[g] for g in {"rb", "sh"}
  tmpl,         \* tmpl[g]: the template g is turning into a job
  job,          \* job[g]: the job g has built and sent
  held,         \* the shards the rebroadcaster loaded and will store back
  sol,          \* the job of the solution the handler is processing
  sm,           \* the sync manager: "idle" or running the notifier
  sols,         \* number of solutions received
  sentJobs,     \* every job sent (workers solve these)
  lastSent,     \* the last datagram sent
  genPool,      \* history: poolVer when the cached template was made
  owePause      \* history: a fresh solution passed the check and no Pause was sent since

vars == <<tip, nextBlock, exts, poolVer, minuteUp, active, down, exited, started,
          prevHash,
          oldBlocks, lastTxUpdate, pc, tmpl, job, held, sol, sm, sols, sentJobs,
          lastSent, genPool, owePause>>
chain == <<tip, nextBlock, exts, poolVer>>
tplState == <<prevHash, oldBlocks, lastTxUpdate, minuteUp, genPool>>

Gs == {"rb", "sh"}
PCs == {"idle", "tmpl", "job", "commit", "store", "check", "pause", "process",
        "wait"}

TypeOK ==
  /\ tip \in Blocks /\ nextBlock \in 1..MaxBlock + 1 /\ exts \in 0..MaxExt
  /\ poolVer \in 0..MaxPool /\ genPool \in 0..MaxPool
  /\ minuteUp \in BOOLEAN /\ active \in BOOLEAN /\ down \in BOOLEAN /\ exited \in BOOLEAN
  /\ started \in BOOLEAN /\ owePause \in BOOLEAN
  /\ prevHash = None \/ prevHash \in Blocks
  /\ oldBlocks \in Cached
  /\ lastTxUpdate = Now \/ lastTxUpdate \in 0..MaxPool
  /\ pc \in [Gs -> PCs]
  /\ tmpl \in [Gs -> Template \cup {None}]
  /\ job \in [Gs -> Job \cup {None}]
  /\ held \in Cached \cup {None}
  /\ sol \in Job \cup {None}
  /\ sm \in {"idle", "notify"}
  /\ sols \in 0..MaxSols
  /\ sentJobs \subseteq Job
  /\ lastSent \in Job \cup {PauseMsg, None}

\* Run: the controller is active, the Pause shards are cached, and Run
\* calls sendNewBlockTemplate before it starts the listener, the notifier
\* and the rebroadcaster.
Init ==
  /\ tip = 0 /\ nextBlock = 1 /\ exts = 0 /\ poolVer = 0 /\ genPool = 0
  /\ minuteUp = FALSE /\ active = TRUE /\ down = FALSE /\ exited = FALSE /\ started = FALSE
  /\ prevHash = None
  /\ oldBlocks = PauseMsg
  /\ lastTxUpdate = Now
  /\ pc = [g \in Gs |-> IF g = "rb" THEN "tmpl" ELSE "idle"]
  /\ tmpl = [g \in Gs |-> None] /\ job = [g \in Gs |-> None]
  /\ held = None /\ sol = None /\ sm = "idle" /\ sols = 0
  /\ sentJobs = {} /\ lastSent = None /\ owePause = FALSE

\* SendShards: a job's or the Pause's shards go out; an empty shard list
\* sends nothing.
SendShards(d) ==
  IF d = NoShards
  THEN UNCHANGED <<sentJobs, lastSent, owePause>>
  ELSE /\ sentJobs' = IF d \in Job THEN sentJobs \cup {d} ELSE sentJobs
       /\ lastSent' = d
       /\ owePause' = (owePause /\ d # PauseMsg)

(***************************************************************************)
(* sendNewBlockTemplate, run by the rebroadcaster (and by Run before it)   *)
(* and by the Solution handler after ProcessBlock fails.                   *)
(***************************************************************************)

\* getNewBlockTemplate: the generator builds on the tip and the mempool.
GenTemplateOk(g) ==
  /\ pc[g] = "tmpl"
  /\ tmpl' = [tmpl EXCEPT ![g] = [prev |-> tip, pool |-> poolVer]]
  /\ pc' = [pc EXCEPT ![g] = "job"]
  /\ UNCHANGED <<chain, active, down, exited, started, tplState, job, held, sol, sm,
                 sols, sentJobs, lastSent, owePause>>

\* No template: "could not get template", and the cached job stays.
GenTemplateFail(g) ==
  /\ pc[g] = "tmpl"
  /\ pc' = [pc EXCEPT ![g] = "idle"]
  /\ started' = (started \/ g = "rb")
  /\ UNCHANGED <<chain, active, down, exited, tplState, tmpl, job, held, sol, sm,
                 sols, sentJobs, lastSent, owePause>>

\* job.Get reads the tip again for the height; the shards are sent.
GenJob(g) ==
  LET j == [prev |-> tmpl[g].prev, ht |-> tip] IN
  /\ pc[g] = "job"
  /\ job' = [job EXCEPT ![g] = j]
  /\ SendShards(j)
  /\ pc' = [pc EXCEPT ![g] = "commit"]
  /\ UNCHANGED <<chain, active, down, exited, started, tplState, tmpl, held, sol, sm,
                 sols>>

\* Defect: the new shards are sent but not cached.
GenCommitNoStore(g) ==
  /\ pc[g] = "commit"
  /\ prevHash' = tmpl[g].prev
  /\ minuteUp' = FALSE
  /\ lastTxUpdate' = Now
  /\ genPool' = tmpl[g].pool
  /\ pc' = [pc EXCEPT ![g] = "idle"]
  /\ started' = (started \/ g = "rb")
  /\ UNCHANGED <<chain, active, down, exited, oldBlocks, tmpl, job, held, sol, sm,
                 sols, sentJobs, lastSent, owePause>>

\* prevHash, oldBlocks, lastGenerated and lastTxUpdate (= time.Now()).
GenCommit(g) ==
  /\ pc[g] = "commit"
  /\ prevHash' = tmpl[g].prev
  /\ oldBlocks' = job[g]
  /\ minuteUp' = FALSE
  /\ lastTxUpdate' = Now
  /\ genPool' = tmpl[g].pool
  /\ pc' = [pc EXCEPT ![g] = "idle"]
  /\ started' = (started \/ g = "rb")
  /\ UNCHANGED <<chain, active, down, exited, tmpl, job, held, sol, sm, sols,
                 sentJobs, lastSent, owePause>>

(***************************************************************************)
(* The rebroadcaster's tick.                                               *)
(***************************************************************************)

\* The template is stale: the tip moved, or the mempool's LastUpdated
\* differs from lastTxUpdate and a minute has passed.
Stale == \/ prevHash # tip
         \/ lastTxUpdate # poolVer /\ minuteUp

RbRegenerate ==
  /\ pc["rb"] = "idle" /\ Stale
  /\ pc' = [pc EXCEPT !["rb"] = "tmpl"]
  /\ UNCHANGED <<chain, active, down, exited, started, tplState, tmpl, job, held,
                 sol, sm, sols, sentJobs, lastSent, owePause>>

\* Defect: the empty-template check is dropped.
RbResendNoEmptyCheck ==
  /\ pc["rb"] = "idle" /\ ~Stale
  /\ held' = oldBlocks
  /\ lastSent' = oldBlocks
  /\ pc' = [pc EXCEPT !["rb"] = "store"]
  /\ UNCHANGED <<chain, active, down, exited, started, tplState, tmpl, job, sol, sm,
                 sols, sentJobs, owePause>>

\* Load the cached shards and resend them; an empty cache is skipped
\* ("template is empty"), which changes nothing.
RbResend ==
  /\ pc["rb"] = "idle" /\ ~Stale /\ oldBlocks # NoShards
  /\ held' = oldBlocks
  /\ SendShards(oldBlocks)
  /\ pc' = [pc EXCEPT !["rb"] = "store"]
  /\ UNCHANGED <<chain, active, down, exited, started, tplState, tmpl, job, sol, sm,
                 sols>>

\* Store back what was loaded.
RbStore ==
  /\ pc["rb"] = "store"
  /\ oldBlocks' = held
  /\ held' = None
  /\ pc' = [pc EXCEPT !["rb"] = "idle"]
  /\ UNCHANGED <<chain, active, down, exited, started, prevHash, lastTxUpdate,
                 minuteUp, genPool, tmpl, job, sol, sm, sols, sentJobs,
                 lastSent, owePause>>

(***************************************************************************)
(* The Solution handler, on the transport's listener goroutine.            *)
(***************************************************************************)

\* A worker's Solution for a job this controller sent arrives.
ShReceive(j) ==
  /\ started /\ pc["sh"] = "idle" /\ sols < MaxSols
  /\ j \in sentJobs
  /\ sol' = j
  /\ sols' = sols + 1
  /\ pc' = [pc EXCEPT !["sh"] = "check"]
  /\ UNCHANGED <<chain, active, down, exited, started, tplState, tmpl, job, held, sm,
                 sentJobs, lastSent, owePause>>

\* The block's previous hash is not the best block: "stale", return.
ShStale ==
  /\ pc["sh"] = "check" /\ sol.prev # tip
  /\ sol' = None
  /\ pc' = [pc EXCEPT !["sh"] = "idle"]
  /\ UNCHANGED <<chain, active, down, exited, started, tplState, tmpl, job, held, sm,
                 sols, sentJobs, lastSent, owePause>>

\* The block's previous hash is the best block: it is probably a solution,
\* and a Pause is owed.
ShFresh ==
  /\ pc["sh"] = "check" /\ sol.prev = tip
  /\ pc' = [pc EXCEPT !["sh"] = "pause"]
  /\ owePause' = TRUE
  /\ UNCHANGED <<chain, active, down, exited, started, tplState, tmpl, job, held, sol,
                 sm, sols, sentJobs, lastSent>>

\* Cache c.pauseShards and send them.
ShPause ==
  /\ pc["sh"] = "pause"
  /\ oldBlocks' = pauseShards
  /\ SendShards(pauseShards)
  /\ pc' = [pc EXCEPT !["sh"] = "process"]
  /\ UNCHANGED <<chain, active, down, exited, started, prevHash, lastTxUpdate,
                 minuteUp, genPool, tmpl, job, held, sol, sm, sols>>

\* ProcessBlock rejects the block: its coinbase commits to the height job.Get
\* read, which is not one above its previous block.  The handler then calls
\* sendNewBlockTemplate.
ShRejected ==
  /\ pc["sh"] = "process" /\ sm = "idle" /\ sol.prev # sol.ht
  /\ sol' = None
  /\ pc' = [pc EXCEPT !["sh"] = "tmpl"]
  /\ UNCHANGED <<chain, active, down, exited, started, tplState, tmpl, job, held, sm,
                 sols, sentJobs, lastSent, owePause>>

\* ProcessBlock hands the block to the sync manager and waits.  The chain
\* accepts it: on the tip it becomes the new tip, otherwise it joins a side
\* chain; either way NTBlockAccepted runs the notifier.
ShAccepted ==
  /\ pc["sh"] = "process" /\ sm = "idle" /\ sol.prev = sol.ht
  /\ tip' = IF sol.prev = tip THEN nextBlock ELSE tip
  /\ nextBlock' = nextBlock + 1
  /\ sm' = "notify"
  /\ pc' = [pc EXCEPT !["sh"] = "wait"]
  /\ UNCHANGED <<exts, poolVer, active, down, exited, started, tplState, tmpl, job,
                 held, sol, sols, sentJobs, lastSent, owePause>>

\* ProcessBlock returns once the sync manager is done with the block.
ShReply ==
  /\ pc["sh"] = "wait" /\ sm = "idle"
  /\ sol' = None
  /\ pc' = [pc EXCEPT !["sh"] = "idle"]
  /\ UNCHANGED <<chain, active, down, exited, started, tplState, tmpl, job, held, sm,
                 sols, sentJobs, lastSent, owePause>>

(***************************************************************************)
(* The sync manager and the chain notifier (getNotifier).                  *)
(***************************************************************************)

\* A block from another peer extends the tip.
ExtBlock ==
  /\ sm = "idle" /\ exts < MaxExt
  /\ tip' = nextBlock
  /\ nextBlock' = nextBlock + 1
  /\ exts' = exts + 1
  /\ sm' = "notify"
  /\ UNCHANGED <<poolVer, active, down, exited, started, tplState, pc, tmpl, job,
                 held, sol, sols, sentJobs, lastSent, owePause>>

\* NTBlockAccepted while active: a template at the tip becomes a job that
\* is cached and sent.  The tip cannot move meanwhile: blocks are processed
\* on this goroutine.
NotifyJob ==
  LET j == [prev |-> tip, ht |-> tip] IN
  /\ sm = "notify" /\ active /\ started
  /\ oldBlocks' = j
  /\ SendShards(j)
  /\ sm' = "idle"
  /\ UNCHANGED <<chain, active, down, exited, started, prevHash, lastTxUpdate,
                 minuteUp, genPool, pc, tmpl, job, held, sol, sols>>

\* Inactive, not yet subscribed, or no template: nothing is done.
NotifySkip ==
  /\ sm = "notify"
  /\ sm' = "idle"
  /\ UNCHANGED <<chain, active, down, exited, started, tplState, pc, tmpl, job, held,
                 sol, sols, sentJobs, lastSent, owePause>>

(***************************************************************************)
(* The environment: the mempool, time and shutdown.                        *)
(***************************************************************************)

PoolUpdate ==
  /\ poolVer < MaxPool
  /\ poolVer' = poolVer + 1
  /\ UNCHANGED <<tip, nextBlock, exts, active, down, exited, started, tplState, pc,
                 tmpl, job, held, sol, sm, sols, sentJobs, lastSent, owePause>>

MinutePasses ==
  /\ ~minuteUp
  /\ minuteUp' = TRUE
  /\ UNCHANGED <<chain, active, down, exited, started, prevHash, oldBlocks,
                 lastTxUpdate, genPool, pc, tmpl, job, held, sol, sm, sols,
                 sentJobs, lastSent, owePause>>

\* interrupt.HandlersDone: Run clears active and returns, and its deferred
\* function sends the Pause shards it made at start.  The context is not
\* cancelled, so the rebroadcaster and the listener go on until the
\* process exits.
Shutdown ==
  /\ started /\ ~down
  /\ down' = TRUE
  /\ active' = FALSE
  /\ SendShards(PauseMsg)
  /\ UNCHANGED <<chain, exited, started, tplState, pc, tmpl, job, held, sol, sm,
                 sols>>

\* After the interrupt handlers are done the process exits.
ProcessExit ==
  /\ down /\ ~exited
  /\ exited' = TRUE
  /\ UNCHANGED <<chain, active, down, started, tplState, pc, tmpl, job, held,
                 sol, sm, sols, sentJobs, lastSent, owePause>>

\* The process has exited: nothing more happens.
Done == exited /\ UNCHANGED vars

GenStep(g) ==
  GenTemplateOk(g) \/ GenTemplateFail(g) \/ GenJob(g) \/ GenCommit(g)

Step ==
  \/ \E g \in Gs : GenStep(g)
  \/ RbRegenerate \/ RbResend \/ RbStore
  \/ \E j \in Job : ShReceive(j)
  \/ ShStale \/ ShFresh \/ ShPause \/ ShRejected \/ ShAccepted \/ ShReply
  \/ ExtBlock \/ NotifyJob \/ NotifySkip
  \/ PoolUpdate \/ MinutePasses \/ Shutdown \/ ProcessExit

Next == (~exited /\ Step) \/ Done

(***************************************************************************)
(* Fairness.  The rebroadcaster, the handler and the sync manager keep     *)
(* running; time keeps passing.  The template generator fails only now    *)
(* and then, so a goroutine that keeps asking eventually gets one (strong *)
(* fairness of the successful outcome); the same holds for the notifier.  *)
(* Blocks, solutions, mempool updates, shutdown and the exit that follows *)
(* it come from outside and carry no fairness.                            *)
(***************************************************************************)
Fairness ==
  /\ \A g \in Gs : /\ SF_vars(GenTemplateOk(g))
                   /\ WF_vars(GenJob(g) \/ GenCommit(g))
  /\ WF_vars(RbRegenerate \/ RbResend \/ RbStore)
  /\ WF_vars(ShStale \/ ShFresh \/ ShPause \/ ShRejected \/ ShAccepted \/ ShReply)
  /\ SF_vars(NotifyJob) /\ WF_vars(NotifySkip)
  /\ WF_vars(MinutePasses)

Spec == Init /\ [][Next]_vars /\ Fairness

(***************************************************************************)
(* Properties.                                                             *)
(***************************************************************************)

\* While the controller runs, the job it caches for rebroadcast eventually
\* settles on the current tip: the rebroadcaster's prevHash check, the
\* notifier and the handler's regeneration bring it back after every block,
\* solution and failed template.
JobTracksTip ==
  []~down => <>[](oldBlocks \in Job /\ oldBlocks.prev = tip)

\* Once a solution passes the stale check, a Pause is broadcast, so the
\* workers stop mining a job the solution has finished ("send pause
\* directly as block is probably a solution", controller.go:154-157).
PauseAfterSolution == owePause ~> ~owePause

\* The rebroadcaster's store writes back the shards that are still cached:
\* it never replaces a job cached meanwhile by the notifier or the
\* handler (controller.go:286-295).
ResendKeepsNewerJob ==
  [][pc["rb"] = "store" /\ pc'["rb"] = "idle" => oldBlocks = held]_vars

=============================================================================
