CONSTANTS
  Word = 32
  FirstSeg = 3
  TopSeg = 16
  Limit = 18
  PspSize = 2
  ImageSizes = {3, 30}
  Requests = {0, 1, 2, 5}
  MaxBlocks = 4
SPECIFICATION AllocSpec
CHECK_DEADLOCK FALSE
INVARIANTS AllocTypeOK BlocksDisjoint BlocksBelowLimit EndCoversBlocks
