\* The supervisor: two controllers (the fewest for a handover), two children
\* (the fewest for a fan-out to interleave with the watchdog) and a staleness
\* window of two ticks, so a stale decision and a fresh Job can fall in the
\* same window.  No symmetry, as the run also checks liveness.
CONSTANTS
  c1 = c1
  c2 = c2
  Controllers <- MCControllers
  NumWorkers = 2
  StaleWindow = 2
  NoSender = NoSender

SPECIFICATION Spec

PROPERTY FailoverEventually
PROPERTY LiveControllerAdopted
INVARIANT TypeOK
INVARIANT RunningWorkersFollowLastJob
