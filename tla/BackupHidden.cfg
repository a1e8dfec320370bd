SPECIFICATION Spec
CONSTANTS
  r1 = r1
  r2 = r2
  s1 = s1
  s2 = s2
  n1 = n1
  None = None
  Runs <- TwoRuns
  Scopes <- OneScope
  Names <- OneName
  ScopeOf <- SameScope
  NameOf <- SameName
  MaxTime = 1
  TicksPerSecond = 1
  Foreign = {}
  Replaceable = {"empty"}
  StoreMayFail = FALSE
  Kills = {}
  Interrupts = {}
PROPERTY FailureIsNotHidden
CHECK_DEADLOCK FALSE
