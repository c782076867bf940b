SPECIFICATION LaneSpec
CONSTANTS
  w1 = w1
  w2 = w2
  w3 = w3
  w4 = w4
  w5 = w5
  k1 = k1
  k2 = k2
  Works <- TwoKeysWorks
  Keys <- TwoKeys
  KeyOf <- TwoKeysKeyOf
  LaneCapacity = 3
INVARIANTS
  OneDrainPerLane
  LaneBounded
  ReservedMatchesHolders
  MappedExactlyWhileUsed
PROPERTIES
  QueuedWorkRuns
  ServesInOrder
CHECK_DEADLOCK FALSE
