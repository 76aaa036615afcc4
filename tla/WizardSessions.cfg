SPECIFICATION Spec
CHECK_DEADLOCK FALSE
CONSTANTS
  Ids = {i1, i2, i3}
  Calls = {c1, c2}
  Steps = 2
  MaxSessions = 2
  TTL = 1
  MaxTime = 3
INVARIANTS
  TypeOK
  StepIsCurrent
PROPERTIES
  RefusedOnlyWhenFull
