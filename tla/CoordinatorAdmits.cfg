SPECIFICATION EstablishedSpec
CONSTANTS
  Node <- MCNode
  NoNode = NoNode
  Name <- MCName
  NoName = NoName
  Spelling <- MCSpelling
  Typed <- MCTyped
  Label <- MCLabel
  Hex <- MCHex
  Fallback <- MCFallback
  MaxSuffix = 1
  Numbered <- MCNumbered
  LastResort <- MCLastResort
  Token = {t1}
  NoNet = NoNet
  JoinAttempts = 2
  MaxCommands = 3
PROPERTY
  CoordinatorAdmits
CHECK_DEADLOCK FALSE
