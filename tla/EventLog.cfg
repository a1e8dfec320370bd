SPECIFICATION Spec
CONSTANTS
  p1 = p1
  p2 = p2
  p3 = p3
  Processes <- ThreeProcesses
  MaxEmits = 2
  MaxLines = 2
INVARIANTS
  DiskUsageHasCeiling
  NewestIsIntact
  DamageIsLocal
CHECK_DEADLOCK FALSE
