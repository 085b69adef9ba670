SPECIFICATION FairSpec
CONSTANTS
  FirstRetry = 1
  MaxRetry = 6
  Bits = 3
  MaxCount = 7
  MaxFaults = 2
INVARIANTS
  HandedBack
  StatusHonest
PROPERTIES
  BackOff
  StopCleansUp
  RegistersAtLast
CHECK_DEADLOCK FALSE
