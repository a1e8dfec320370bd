SPECIFICATION FairSpec
CONSTANTS
  p1 = p1
  p2 = p2
  p3 = p3
  Nobody = Nobody
  Processes <- ThreeProcesses
  MaxAcquires = 2
INVARIANTS
  MutualExclusion
  NoteNamesHolder
  NamedWasOwner
PROPERTIES
  IsScopeLock
  AcquireAnswers
CHECK_DEADLOCK FALSE
