SPECIFICATION HostSpec
CONSTANTS
  w1 = w1
  w2 = w2
  w3 = w3
  p1 = p1
  p2 = p2
  Writers <- TwoWriters
  Processes <- OneProcess
  ProcessOf <- Together
  MaxUpdates = 3
  Disturbances = {}
  c1 = c1
  c2 = c2
  Commands <- TwoCommands
  MaxRuns = 2
  MaxChanges = 1
  MaxOthers = 1
  Stamps = {20}
  Connectors = {k1, k2}
  Secrets = {s1, s2}
  Legacy = k1
  MaxWrites = 2
  Unusable = Unusable
  webhook = webhook
  Destinations <- OneDestination
  Wants <- WantsFailures
  Histories <- OneFailure
  Operations <- TwoOperations
  MaxAttempts = 2
  MaxReplays = 1
  Definitions = {d1, d2, d3}
  Disabled = {d3}
  MaxEdits = 2
  None = None
INVARIANTS
  PresentIsProven
  NewerIsKept
  OnlyOverlapDrops
  OncePerTransition
  InstalledIsTrue
PROPERTY UpdateIsAtomic
SYMMETRY Symmetry
CHECK_DEADLOCK FALSE
