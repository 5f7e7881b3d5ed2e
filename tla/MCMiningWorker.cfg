\* The worker: two jobs (one with two versions), callers for SendPass, NewJob,
\* Pause and Stop, five calls in all; safety and the return of every call.
CONSTANTS
  j1 = j1  j2 = j2  a1 = a1  a2 = a2
  main = main  lis = lis  wd = wd  ctl = ctl
  None = None
  Jobs <- MCJobs
  JobAlgos <- MCJobAlgos
  Callers <- MCCallersStop
  CallerOps <- MCCallerOps
  PassCaller = main
  RoundsPerAlgo = 1
  MaxCalls = 5
SPECIFICATION Spec
INVARIANT TypeOK
INVARIANT SolutionHeaderConsistent
INVARIANT OneSolutionPerStart
INVARIANT LoadExcludesSearch
PROPERTY CallsReturn
PROPERTY ImplementsProcess
