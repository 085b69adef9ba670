SPECIFICATION Spec
CONSTANTS
  Node = {1, 2}
  Conn = {1, 2, 3}
  NoConn = NoConn
  MaxChanges = 1
  MaxFaults = 0
  MaxRequests = 1
INVARIANT
  RemovedIsCut
CHECK_DEADLOCK FALSE
