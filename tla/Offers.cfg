SPECIFICATION FairSpec
CONSTANTS
  Peer = {p}
  Id = {i, j}
  Conn = {c, d}
  Limit = 1
  MaxTtl = 2
  Asked = {0, 9}
  History = 1
  MaxTime = 2
  MaxSends = 1
  MaxRosters = 1
INVARIANTS
  WithinLimit
  PlaceHeld
  IdsDistinct
PROPERTIES
  Remembered
  BuriedWhenOver
  PlaceFrees
CHECK_DEADLOCK FALSE
