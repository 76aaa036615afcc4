SPECIFICATION FairEndpointSpec
CHECK_DEADLOCK FALSE
CONSTANTS
  Ids = {h1, h2}
  Tokens = {t1}
  Puts = {r1, r2}
  MaxActive = 1
  MaxPrepared = 1
  TTL = 1
  PreparedTTL = 1
  EndpointTTLs = {1}
  MaxTime = 0
INVARIANT
  NoSiblingUploads
PROPERTIES
  EveryUploadEnds
  EveryReaderReleased
  EveryPutIsAnswered
