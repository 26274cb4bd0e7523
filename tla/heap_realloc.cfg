SPECIFICATION ZeroSpec
CONSTANTS
  PageUnits = 4
  Frames = 3
  MergeThreshold = 3
  MallocSizes = {8, 24}
  ReallocSizes = {0}
  Client = {c1}
  NoCall = NoCall
CHECK_DEADLOCK FALSE
INVARIANT FreedBlockIsOrdered
