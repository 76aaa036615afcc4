SPECIFICATION Spec
CONSTANTS
  Handles = {h1}
  Starters = {s1, s2}
  Resumers = {r1}
  MaxEntries = 1
  MaxLen = 2
  TTL = 0
  StoreTTL = 1
  MaxTime = 1
PROPERTIES
  RefreshedFlowIsResumable
