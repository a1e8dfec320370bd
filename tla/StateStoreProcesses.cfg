SPECIFICATION FairSpec
CONSTANTS
  w1 = w1
  w2 = w2
  w3 = w3
  p1 = p1
  p2 = p2
  Writers <- ThreeWriters
  Processes <- TwoProcesses
  ProcessOf <- TwoAndOne
  MaxUpdates = 1
  Disturbances = {"damage", "upgrade", "remove"}
INVARIANTS
  RevisionCountsUpdates
  RefusedIsNotStored
  OnlyOverlapLoses
PROPERTIES
  UnreadableIsKept
  EveryUpdateReturns
CHECK_DEADLOCK FALSE
