SPECIFICATION Spec

CONSTANTS
  ws = ws
  db = db
  ds1 = ds1
  ds2 = ds2
  p1 = p1
  p2 = p2
  p3 = p3
  b1 = b1
  b2 = b2
  b3 = b3
  title = title
  stage = stage
  None = None
  Workspace = ws
  Objects <- MCObjects
  Properties <- MCProperties
  KindOf <- MCKindOf
  Children <- MCChildren
  DatabaseOf <- MCDatabaseOf
  PropertiesOf <- MCTitlesOf
  PageSize = 1
  MaxQuery = 2
  MaxAttempts = 2
  MaxRequests = 13
  MaxFaults = 0
  EndlessLists = FALSE

INVARIANT
  HonestIndexIsValid

CHECK_DEADLOCK FALSE
