SPECIFICATION FairSpec
CHECK_DEADLOCK FALSE
CONSTANTS
  MaxLen = 9
  Caps <- MCCaps
  DefaultCap = 4
  Buffers = {1, 2, 5}
  FileSizes = {0, 1, 2, 3}
  MaxEntries = 3
INVARIANTS
  CompleteIsWhole
  VerdictIsRight
  NothingLeaks
PROPERTY
  HungReadsEnd
