SPECIFICATION Spec
CONSTANTS
  MaxTasks = 4
  Stack = {s1, s2, s3, s4, s5}
  Boot = Boot
  IdleStack = IdleStack
  Nowhere = Nowhere
  Delays = {1, 2}
  TickMod = 4
  StopCalls = FALSE
SYMMETRY Symmetry
CHECK_DEADLOCK FALSE
INVARIANTS NoLostStart NowhereOnlyByIdle
PROPERTY RoundRobinSpec
