------------------------------- MODULE Plan9 -------------------------------
(***************************************************************************)
(* The difficulty targets a Job carries (src/pkg/chain/forkplan9*.go).    *)
(*                                                                         *)
(* CalcNextRequiredDifficultyPlan9Controller fills a map from algorithm   *)
(* version to compact target for all versions at once; the per-version  *)
(* CalcNextRequiredDifficultyPlan9 computes one.  The averages, the       *)
(* float adjustment and the big-integer target are data: for a version   *)
(* they come out as one of Retargets, that is GetP9Since finds no last   *)
(* block, the float target is nil, the target is at or above the first  *)
(* pow limit, or it is below it with the compact bits given.  Before the *)
(* Plan 9 fork the Halcyon calculation (not in this tree) gives each     *)
(* version its bits and an error.                                         *)
(***************************************************************************)
EXTENDS Integers, Sequences, TLC

CONSTANTS
  AlgoVers,           \* the versions of fork.List[1].AlgoVers
  HalcyonVers,        \* the versions of fork.List[0].Algos
  Targets,            \* compact targets a retarget can produce
  SecondPowLimitBits  \* fork.SecondPowLimitBits

\* How the retarget of one version comes out.
Retargets ==
  {[kind |-> k, bits |-> SecondPowLimitBits] : k \in {"nolast", "nil", "limit"}}
  \cup {[kind |-> "below", bits |-> t] : t \in Targets}

\* secondPowLimitBits: every version at the second pow limit.
SecondPowLimits(vers) == [v \in vers |-> SecondPowLimitBits]

\* CalcNextRequiredDifficultyPlan9 for one version: the second pow limit
\* at the hard fork height, without a last block, with a nil target or a
\* target at the first limit; otherwise the new target's compact bits.
Plan9Single(hardFork, r) ==
  IF ~hardFork /\ r.kind = "below" THEN r.bits ELSE SecondPowLimitBits

\* The loop over the versions in the order the map is ranged: no last
\* block or a nil target returns at once; a target below the first limit
\* is stored.
RECURSIVE Retarget(_, _, _)
Retarget(m, order, r) ==
  IF order = <<>> THEN m
  ELSE LET v == Head(order) IN
       CASE r[v].kind \in {"nolast", "nil"} -> m
         [] r[v].kind = "limit"            -> Retarget(m, Tail(order), r)
         [] OTHER                          -> Retarget((v :> r[v].bits) @@ m, Tail(order), r)

\* Mutant: the map is not first filled with the second pow limit.
Plan9ControllerNoDefaults(hardFork, order, r) ==
  IF hardFork THEN [v \in {} |-> 0] ELSE Retarget([v \in {} |-> 0], order, r)

\* CalcNextRequiredDifficultyPlan9Controller after the Plan 9 fork: every
\* version starts at the second pow limit, which stays at the hard fork
\* height; otherwise the loop runs.
Plan9Controller(hardFork, order, r) ==
  IF hardFork THEN SecondPowLimits(AlgoVers)
  ELSE Retarget(SecondPowLimits(AlgoVers), order, r)

\* Before the fork: each version's Halcyon bits; err is what the last
\* version in map order returned, earlier errors being overwritten.
HalcyonController(order, h) ==
  [bits |-> [v \in HalcyonVers |-> h[v].bits], err |-> h[order[Len(order)]].err]

=============================================================================
