SPECIFICATION FairSpec
CONSTANTS
  r1 = r1
  r2 = r2
  s1 = s1
  s2 = s2
  n1 = n1
  None = None
  Runs <- TwoRuns
  Scopes <- OneScope
  Names <- OneName
  ScopeOf <- SameScope
  NameOf <- SameName
  MaxTime = 1
  TicksPerSecond = 2
  Foreign = {}
  Replaceable = {"empty"}
  StoreMayFail = FALSE
  Kills = {r1}
  Interrupts = {r2}
INVARIANTS
  SuccessIsPublished
  OneRunPerScope
PROPERTY EveryRunEnds
CHECK_DEADLOCK FALSE
