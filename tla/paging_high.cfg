SPECIFICATION Spec
CONSTANTS
  Physical = {0, 1, 2, 3, 4, 5, 6, 7, 8, 9, 10, 11, 12, 13}
  TagLists <- HighMemory
  TableCounts = {3, 4}
  KernelPages = 1
  Entries = 4
  KernelOffset = 48
  HeapStart = 52
  FrameBuffer = 60
  BackBuffer = 62
  IntPages = 8
  MaxMove = 3
CHECK_DEADLOCK FALSE
INVARIANT KernelIsLocked
