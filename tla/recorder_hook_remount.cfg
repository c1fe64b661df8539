SPECIFICATION Spec
CONSTANTS
  MaxRecorders = 1
  MaxScans = 2
  MaxInstances = 2
  MaxDiscards = 1
INVARIANTS
  RecoveredIsNotLive
CHECK_DEADLOCK FALSE
