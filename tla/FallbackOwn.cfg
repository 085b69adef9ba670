SPECIFICATION ResolverSpec
CONSTANTS
  Node <- MCNode
  NoNode = NoNode
  Name <- MCName
  NoName = NoName
  Spelling <- MCSpelling
  Typed <- MCTyped
  Label <- MCLabel
  Hex <- MCHex
  Fallback <- MCFallback
  MaxSuffix = 1
  Numbered <- MCNumbered
  LastResort <- MCLastResort
  Token = {t1}
  NoNet = NoNet
  Self = 1
  Title <- MCTitle
  NoTitle = NoTitle
  NetworkLabel <- MCNetworkLabel
  Rosters <- AnyRosters
  Flat = Flat
  Outside = Outside
  Query <- MCQuery
  Malformed = Malformed
  Mesh <- MCMesh
  Loopback = "loopback"
  BindAttempts = 2
  MaxChanges = 1
  MaxQueries = 1
INVARIANT
  FallbackOwn
CHECK_DEADLOCK FALSE
