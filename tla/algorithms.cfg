SPECIFICATION Spec
CONSTANTS
  HysteresisM = 2
  Altitudes = {0, 1, 2, 3, 4}
  MaxTravel = 9
  Count = 5
  FarthestM = 2
  Distances = {0, 2}
  ToleranceM = 1
  MaxStarts = 3
  MaxStops = 4
  MaxTime = 2
  MaxRandom = 2
  Tracks <- ReplayTracks
  MaxTouches = 3
  Absent = Absent
  Unset = Unset
  NotFinite = NotFinite
  Untimed = Untimed
  Rejected = Rejected
  Null = Null
  Malformed = Malformed
  Fields = {"heart", "accuracy"}
  NoValue = NoValue
  Empty = Empty
  Omitted = Omitted
  MaxRecordings = 1
  MaxDrawings = 1
  MaxEvents = 1
  MaxOpenings = 1
  MaxHandlers = 2
  MaxRegions = 2
  MaxStartups = 2
INVARIANTS
  ElevationHonest
  SimplifyWithin
  SampleOfThisSession
  IdsSort
  FramesWhilePlaying
  TrackIsToldTrue
  TrackIsMadeRight
  NothingIsLostOnTheWay
  LoopKeepsEvents
  PanelsTellTheTruth
PROPERTIES
  ClocksGoOn
CHECK_DEADLOCK FALSE
