SPECIFICATION FairSpec
CONSTANTS
  User = {alice, bob}
  NoOne = NoOne
  Torn = Torn
  Absent = Absent
  Short = Short
  Platform = {"unix", "windows"}
  MaxRelease = 2
  MaxCommands = 2
  MaxFaults = 1
  StartLimit = 1
INVARIANTS
  TypeOK
  KeyPrivate
  DoneOnce
  OperatorNamed
  OperatorHolds
  OperatorKept
  RestartRenews
  UpdatedRuns
PROPERTIES
  IdentityKept
  ComesBack
  CommandsReturn
CHECK_DEADLOCK FALSE
