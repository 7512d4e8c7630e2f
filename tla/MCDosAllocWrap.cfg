CONSTANTS
  Word = 64
  FirstSeg = 5
  TopSeg = 30
  Limit = 32
  PspSize = 2
  ImageSizes = {3, 8, 100}
  Requests = {5, 63}
  MaxBlocks = 4
SPECIFICATION AllocSpec
CHECK_DEADLOCK FALSE
INVARIANTS BlocksBelowLimit
