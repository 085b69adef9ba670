SPECIFICATION Spec
CONSTANTS
  Node <- MCNode
  NoNode = NoNode
  Name <- MCName
  NoName = NoName
  Spelling <- MCName
  Typed = {}
  Label <- MCLabel
  Hex <- MCHex
  Fallback <- MCFallback
  MaxSuffix = 0
  Numbered <- MCNumbered
  LastResort <- MCLastResort
  Token = {t1}
  NoNet = NoNet
  Self = 1
  AskedTtl = {0, 9}
  MaxTtl = 2
  MaxTime = 1
  MaxNets = 2
  MaxTasks = 2
  SaveOk = {TRUE, FALSE}
  Torn = Torn
INVARIANTS
  OneAdmission
  AdmittedInWindow
  AckedSurvives
CHECK_DEADLOCK FALSE
