SPECIFICATION LoopSpec
CONSTANTS
  MaxRecordings = 1
  MaxDrawings = 0
  MaxEvents = 1
  MaxOpenings = 1
  MaxHandlers = 2
INVARIANT
  RecordingHasAnExit
