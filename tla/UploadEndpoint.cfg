SPECIFICATION EndpointSpec
CHECK_DEADLOCK FALSE
CONSTANTS
  Ids = {h1}
  Tokens = {t1, t2}
  Puts = {r1, r2}
  MaxActive = 1
  MaxPrepared = 1
  TTL = 1
  PreparedTTL = 1
  EndpointTTLs = {1}
  MaxTime = 2
SYMMETRY Symmetry
INVARIANTS
  NoTruncatedResult
  ReferencesInSync
