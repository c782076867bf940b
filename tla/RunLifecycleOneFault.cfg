SPECIFICATION Spec
CONSTANTS
  r1 = r1
  r2 = r2
  k1 = k1
  k2 = k2
  Runs <- OneRun
  Keys <- OneSession
  KeyOf <- OneRunKeyOf
  LaneCapacity = 2
  Limit = 1
  MaxToolIterations = 2
  PageLimit = 20
  MaxFaults = 1
  MaxCrashes = 0
  Cancellable <- OneRun
INVARIANTS
  OneFaultIsSurvived
CHECK_DEADLOCK FALSE
