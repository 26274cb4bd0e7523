SPECIFICATION CallsSpec
CONSTANTS
  PageUnits = 4
  Frames = 3
  MergeThreshold = 3
  MallocSizes = {0, 12, 32}
  ReallocSizes = {24}
  Client = {c1, c2}
  NoCall = NoCall
SYMMETRY Symmetry
CHECK_DEADLOCK FALSE
INVARIANTS TypeOK NoOverlap ListAscends NothingLost
PROPERTIES MergeIsComplete RefinesAllocator
