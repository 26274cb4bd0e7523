SPECIFICATION Spec
CONSTANTS
  Client = {w1, w2, w3}
  MaxWindows = 2
  Rows = 2
  MaxDraws = 1
  nullptr = nullptr
CHECK_DEADLOCK FALSE
INVARIANTS TypeOK EveryWindowCounts
PROPERTY UpdatesAreShown
