SPECIFICATION CapacitySpec
CONSTANTS
  c1 = c1
  c2 = c2
  c3 = c3
  c4 = c4
  c5 = c5
  Clients <- ClientsMC
  Limit = 2
INVARIANTS
  PermitsMatchHolders
  NoIdlePermitWhileWaiting
PROPERTIES
  WaitersAreServed
CHECK_DEADLOCK FALSE
