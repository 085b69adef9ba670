SPECIFICATION ResolverSpec
CONSTANTS
  Node <- MCNode
  NoNode = NoNode
  Name <- MCName
  NoName = NoName
  Spelling <- MCSpelling
  Typed <- MCTyped
  Label <- MCLabel
  Hex <- MCHex
  Fallback <- MCFallback
  MaxSuffix = 1
  Numbered <- MCNumbered
  LastResort <- MCLastResort
  Token = {t1}
  NoNet = NoNet
  Self = 1
  Title <- MCTitle
  NoTitle = NoTitle
  NetworkLabel <- MCNetworkLabel
  Rosters <- HonestRosters
  Flat = Flat
  Outside = Outside
  Query <- MCQuery
  Malformed = Malformed
  Mesh <- MCMesh
  Loopback = "loopback"
  BindAttempts = 2
  MaxChanges = 3
  MaxQueries = 1
INVARIANTS
  AnswerHeld
  DenialHonest
CHECK_DEADLOCK FALSE
