SPECIFICATION Spec
CONSTANTS
  r1 = r1
  r2 = r2
  k1 = k1
  k2 = k2
  Runs <- TwoRuns
  Keys <- OneSession
  KeyOf <- OneSessionKeyOf
  LaneCapacity = 2
  Limit = 1
  MaxToolIterations = 2
  PageLimit = 2
  MaxFaults = 0
  MaxCrashes = 0
  Cancellable <- OneRun
INVARIANTS
  TailIsStaleOnlyIfMoved
CHECK_DEADLOCK FALSE
