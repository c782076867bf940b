SPECIFICATION Spec
CONSTANTS
  r1 = r1
  r2 = r2
  k1 = k1
  k2 = k2
  Runs <- TwoRuns
  Keys <- OneSession
  KeyOf <- OneSessionKeyOf
  LaneCapacity = 2
  Limit = 2
  MaxToolIterations = 2
  PageLimit = 20
  MaxFaults = 1
  MaxCrashes = 0
  Cancellable <- OneRun
INVARIANTS
  TranscriptIsSerial
  TailIsStaleOnlyIfMoved
  CancellableWhileUndecided
  CancelFindsItsLane
PROPERTIES
  ExecutorEnds
CHECK_DEADLOCK FALSE
