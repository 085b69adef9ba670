SPECIFICATION FairSpec
CONSTANTS
  Node = {1, 2}
  Conn = {1, 2}
  NoConn = NoConn
  MaxChanges = 2
  MaxFaults = 0
  MaxRequests = 0
PROPERTY
  MeshConnects
CHECK_DEADLOCK FALSE
