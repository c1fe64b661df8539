SPECIFICATION CanvasSpec
CONSTANTS
  SourceIds = {dem}
  Elevation = {dem}
  Drawings = {drawing}
  Listeners = {mapTap}
  NoTerrain = NoTerrain
  Nothing = Nothing
  MaxControllers = 2
INVARIANTS
  DrawEndsWithItsProps
CHECK_DEADLOCK FALSE
