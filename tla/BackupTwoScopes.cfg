SPECIFICATION Spec
CONSTANTS
  r1 = r1
  r2 = r2
  s1 = s1
  s2 = s2
  n1 = n1
  None = None
  Runs <- TwoRuns
  Scopes <- TwoScopes
  Names <- OneName
  ScopeOf <- OwnScope
  NameOf <- SameName
  MaxTime = 0
  TicksPerSecond = 1
  Foreign = {"tree", "file"}
  Replaceable = {"empty", "file"}
  StoreMayFail = TRUE
  Kills = {r1}
  Interrupts = {r2}
INVARIANTS
  ToldIsTrue
  HistoryIsTrue
  EvidenceIsWhereRecorded
PROPERTY NothingIsReplaced
CHECK_DEADLOCK FALSE
