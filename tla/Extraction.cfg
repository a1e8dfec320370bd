SPECIFICATION ExtractSpec

CONSTANTS
  ws = ws
  db = db
  ds1 = ds1
  ds2 = ds2
  p1 = p1
  p2 = p2
  p3 = p3
  b1 = b1
  b2 = b2
  b3 = b3
  title = title
  stage = stage
  None = None
  Workspace = ws
  Objects <- MCObjects
  Properties <- MCProperties
  KindOf <- MCKindOf
  Children <- MCChildren
  DatabaseOf <- MCDatabaseOf
  PropertiesOf <- MCPropertiesOf
  ClickUpWorkspace = "w"
  ClickUpKindOf <- KindInClickUp
  ClickUpEndsOf <- EndsInClickUp
  ClickUpOrder <- OrderInClickUp
  ClickUpSource <- SourceInClickUp
  ClickUpListedIn <- ListedInClickUp
  ClickUpArchived = {"l1"}
  ClickUpFieldsOf <- FieldsInClickUp
  ClickUpMaxPages = 3
  PageSize = 1
  MaxQuery = 2
  MaxAttempts = 2
  MaxRequests = 13
  MaxFaults = 2
  EndlessLists = TRUE

INVARIANTS
  LoadableIsWhole
  LedgerMissesAtMostLast
  RetriedIsRetried
  TargetIsLoadable
  ClickUpIsWhole
  ClickUpLedgerIsComplete
  ClickUpRetriedIsRetried
PROPERTY
  EveryExtractionEnds

CHECK_DEADLOCK FALSE
