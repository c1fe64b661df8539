SPECIFICATION LogSpec
CONSTANTS
  TrackIds = {t1, t2}
  EventIds = {e1, e2}
  BlobKeys = {b1}
  NoOwner = NoOwner
  Clients = {c1, c2}
  MaxCalls = 4
PROPERTIES
  UpdateNeverInserts
CHECK_DEADLOCK FALSE
