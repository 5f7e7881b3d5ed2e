CONSTANTS
  j1 = j1  j2 = j2  a1 = a1  a2 = a2
  main = main  lis = lis  wd = wd  ctl = ctl
  None = None
  Jobs <- MCJobs
  JobAlgos <- MCJobAlgos
  Callers <- MCCallers
  CallerOps <- MCCallerOps
  PassCaller = main
  RoundsPerAlgo = 1
  MaxCalls = 5
SPECIFICATION Spec
INVARIANT SolutionToItsController
