SPECIFICATION FairSpec
CONSTANTS
  HasStore = TRUE
  AutosaveMs = 1
  StoreMayFail = TRUE
  ListenerMayThrow = TRUE
  Sensors = {}
  WakeLockSupported = FALSE
  MaxGeneration = 2
  Times = {1, 2}
  MaxSampleAge = 1
  MaxPoints = 2
  MaxLaps = 1
  MaxSamples = 0
  MaxSessions = 2
INVARIANTS
  OneWriteInFlight
  Recoverable
  StoppedMeansStored
PROPERTIES
  DurableTripSpec
  StopSettles
  PausePersisted
CHECK_DEADLOCK FALSE
