SPECIFICATION Spec
CHECK_DEADLOCK FALSE
CONSTANTS
  Tokens = {t1, t2}
  Gets = {r1, r2, r3}
  Sizes = {0, 1, 3}
  Cap = 2
  TTL = 1
  MaxTime = 2
INVARIANTS
  TypeOK
  ServedOnce
  ResourceReleased
  HonestAnswer
