SPECIFICATION Spec
CONSTANTS
  HasStore = FALSE
  AutosaveMs = 1
  StoreMayFail = FALSE
  ListenerMayThrow = FALSE
  Sensors = {"hr"}
  WakeLockSupported = TRUE
  MaxGeneration = 3
  Times = {1, 2}
  MaxSampleAge = 1
  MaxPoints = 2
  MaxLaps = 0
  MaxSamples = 2
  MaxSessions = 1
INVARIANTS
  NothingCrossesAPause
  NothingHeldWhenIdle
PROPERTIES
  SensorNotStolen
CHECK_DEADLOCK FALSE
