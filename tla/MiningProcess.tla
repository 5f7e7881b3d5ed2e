---------------------------- MODULE MiningProcess ----------------------------
(***************************************************************************)
(* What a kopach_worker process promises its supervisor, without the RPC  *)
(* goroutines, the channels and the roller: a search that is paused,      *)
(* running or finished over one header (job, algorithm version and its    *)
(* difficulty bits).  A job is loaded only while the search is not        *)
(* running; a running search moves between the job's versions, each with *)
(* that job's bits for it; and a solve sends the header as it is and     *)
(* pauses the search until it is started again.                          *)
(***************************************************************************)
EXTENDS Sequences

CONSTANTS Jobs, JobAlgos, None

VARIABLES
  search,  \* "pausing", "running" or "finished"
  job,     \* the job of the header, or None before the first one
  version, \* the header's algorithm version
  bits,    \* the header's difficulty: <<job, version>>
  sent     \* the solutions sent, as [job, version, bits] records

vars == <<search, job, version, bits, sent>>

Init ==
  /\ search = "pausing"
  /\ job = None /\ version = None /\ bits = None
  /\ sent = <<>>

\* A new job's header, with one of its versions and that version's bits.
Load(j) ==
  /\ search # "running"
  /\ \E v \in JobAlgos[j] : job' = j /\ version' = v /\ bits' = <<j, v>>
  /\ UNCHANGED <<search, sent>>

\* The search starts over a loaded header.
Start ==
  /\ search = "pausing" /\ job # None
  /\ search' = "running"
  /\ UNCHANGED <<job, version, bits, sent>>

\* The search is halted.
Halt ==
  /\ search = "running"
  /\ search' = "pausing"
  /\ UNCHANGED <<job, version, bits, sent>>

\* The running search moves to another version of its job.
Roll ==
  /\ search = "running"
  /\ \E v \in JobAlgos[job] : version' = v /\ bits' = <<job, v>>
  /\ UNCHANGED <<search, job, sent>>

\* The header solves: it is sent, and the search pauses.
Solve ==
  /\ search = "running"
  /\ sent' = Append(sent, [job |-> job, version |-> version, bits |-> bits])
  /\ search' = "pausing"
  /\ UNCHANGED <<job, version, bits>>

\* The search ends for good.
Finish ==
  /\ search # "finished"
  /\ search' = "finished"
  /\ UNCHANGED <<job, version, bits, sent>>

Next ==
  \/ \E j \in Jobs : Load(j)
  \/ Start \/ Halt \/ Roll \/ Solve \/ Finish

Spec == Init /\ [][Next]_vars

=============================================================================
