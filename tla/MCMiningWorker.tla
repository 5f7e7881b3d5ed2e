--------------------------- MODULE MCMiningWorker ---------------------------
(* Instantiates MiningWorker: two jobs, one with two algorithm versions and *)
(* one with a single version, and the three callers of kopach/main.go plus *)
(* one that calls Stop.                                                     *)
EXTENDS MiningWorker, TLC

CONSTANTS j1, j2, a1, a2, main, lis, wd, ctl

MCJobs == {j1, j2}
MCJobAlgos == (j1 :> {a1, a2}) @@ (j2 :> {a2})
MCCallers == {main, lis, wd}
MCCallersStop == {main, lis, wd, ctl}
MCCallerOps == (main :> {"SendPass"}) @@ (lis :> {"NewJob"}) @@ (wd :> {"Pause"})
                 @@ (ctl :> {"Stop"})
=============================================================================
