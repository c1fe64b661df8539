SPECIFICATION MapSpec
CONSTANTS
  HistoryLimit = 1
  MaxBreaks = 2
  v1 = v1
  v2 = v2
  v3 = v3
  VertexNames <- MCVertexNames
  Seeds <- MCSeeds
  NoGesture = NoGesture
  MaxSessions = 2
  MaxFingers = 2
  SourceIds = {dem1, dem2}
  Elevation = {dem1, dem2}
  Drawings = {drawing}
  Listeners = {mapTap}
  NoTerrain = NoTerrain
  Nothing = Nothing
  MaxControllers = 3
  Stacks <- MCStacks
  BaseStyles <- MCBaseStyles
  Reserved <- MCReserved
  NoTerrainAsked = NoTerrainAsked
  Tracks <- MCTracks
  EventLists <- MCEventLists
  Presentations <- MCPresentations
  Spots = {"p", "q"}
  MaxDraftPoints = 2
  Absent = Absent
  Suppressed = Suppressed
  Thrown = Thrown
  Nowhere = Nowhere
  MaxVertices = 3
  MaxPlace = 2
SYMMETRY VertexSymmetry
INVARIANTS
  PromotionNeedsOnlyTimes
  PanGivenBack
  CanvasFollowsProps
  MapHoldsWhatWasAsked
PROPERTIES
  SpansKept
  PressedVertexNeverAdds
  FocusKept
CHECK_DEADLOCK FALSE
