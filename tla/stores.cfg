SPECIFICATION StoresSpec
CONSTANTS
  TrackIds = {t1, t2}
  EventIds = {e1, e2}
  BlobKeys = {b1}
  NoOwner = NoOwner
  Clients = {c1, c2}
  MaxCalls = 4
  Sources = {base, overlay}
  MaxDownloads = 2
  MaxSwaps = 1
  MaxRemovals = 1
SYMMETRY SourceSymmetry
INVARIANTS
  SummariesAgree
  RegionsAreWhole
  FreshWhenQuiet
PROPERTIES
  CascadeExact
  MemorySpec
  RegionsChangeInOrder
CHECK_DEADLOCK FALSE
