SPECIFICATION Spec
CONSTANTS
  Tokens = {t1}
  Requests = {r1, r2}
  TTL = 1
  MaxSpentTombstones = 1
  MaxTime = 0
INVARIANT
  SecretShownOnce
