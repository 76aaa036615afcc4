SPECIFICATION Spec
CHECK_DEADLOCK FALSE
CONSTANTS
  Tokens = {t1}
  Gets = {r1, r2}
  Sizes = {1}
  Cap = 2
  TTL = 1
  MaxTime = 0
INVARIANT
  HeldWhileServing
