CONSTANTS
  None = None
  Reads = TRUE
  Inputs <- MCInputs
  Order <- MCOrder
  Bytes <- BytesAt
  MaxAttempts = 2
  MaxFaults = 1
  MaxDamage = 1
  Spares <- MCSpares
  MaxSwaps = 2
SPECIFICATION Spec
INVARIANTS
  VerifiedIsTheSource
  FaithfulIsVerified
  TargetIsWhole
  ReportIsHonest
  ViewIsOfOneArchive
PROPERTY NothingIsReplaced
CHECK_DEADLOCK FALSE
