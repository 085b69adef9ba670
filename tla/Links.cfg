SPECIFICATION FairSpec
CONSTANTS
  Node = {1, 2}
  Conn = {1, 2}
  NoConn = NoConn
  MaxChanges = 1
  MaxFaults = 1
  MaxRequests = 1
INVARIANTS
  EntryServed
  RefreshApplies
PROPERTY
  MeshConnects
CHECK_DEADLOCK FALSE
