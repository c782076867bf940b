SPECIFICATION LedgerSpec
CONSTANTS
  c1 = c1
  c2 = c2
  c3 = c3
  a1 = a1
  a2 = a2
  Calls <- CallsMC
  Agents <- AgentsMC
  AgentOf <- AgentOfMC
  Policies <- PoliciesMC
  Estimates <- EstimatesMC
  Usages <- UsagesMC
  InPrice = 3
  OutPrice = 4
  Unit = 2
  PriceFrom = 1
  LastDay = 2
  DaysPerMonth = 3
  MaxFaults = 1
  MaxCrashes = 1
INVARIANTS
  UnresolvedCallHasRecord
CHECK_DEADLOCK FALSE
