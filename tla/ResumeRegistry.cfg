SPECIFICATION Spec
SYMMETRY Symmetry
CONSTANTS
  Handles = {h1, h2, h3}
  Starters = {s1, s2, s3}
  Resumers = {r1, r2}
  MaxEntries = 2
  MaxLen = 2
  TTL = 1
  StoreTTL = 1
  MaxTime = 2
INVARIANTS
  TypeOK
  RegistryBounded
  SweptHandlesRetired
PROPERTIES
  NewerFlowsWin
  DoneFlowNotResumed
