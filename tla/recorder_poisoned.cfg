SPECIFICATION Spec
CONSTANTS
  HasStore = TRUE
  AutosaveMs = 1
  StoreMayFail = TRUE
  ListenerMayThrow = TRUE
  Sensors = {}
  WakeLockSupported = FALSE
  MaxGeneration = 2
  Times = {1}
  MaxSampleAge = 1
  MaxPoints = 2
  MaxLaps = 0
  MaxSamples = 0
  MaxSessions = 1
INVARIANTS
  PendingHasWriter
CHECK_DEADLOCK FALSE
