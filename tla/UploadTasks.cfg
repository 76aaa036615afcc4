SPECIFICATION Spec
CONSTANTS
  Ids = {h1, h2}
  MaxActive = 1
  MaxPrepared = 1
  TTL = 1
  PreparedTTL = 1
  EndpointTTLs = {0, 2}
  MaxTime = 4
SYMMETRY HandleSymmetry
INVARIANTS
  TypeOK
  AdmissionCaps
  TombstonesInSync
  ReaderReleasedOnce
  ResultRetained
PROPERTIES
  OutcomeIsFinal
  StatusMovesForward
