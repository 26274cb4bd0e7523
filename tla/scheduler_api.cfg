SPECIFICATION Spec
CONSTANTS
  MaxTasks = 3
  Stack = {s1, s2, s3}
  Boot = Boot
  IdleStack = IdleStack
  Nowhere = Nowhere
  Delays = {0, 1}
  TickMod = 3
  StopCalls = TRUE
SYMMETRY Symmetry
CHECK_DEADLOCK FALSE
INVARIANTS TypeOK RunningIsCurrent CpuRunsCurrent FrameInOwnStack NoSharedStack StartsExclusive WaitOnOwnSlot HangsOnlyOnHeapLock
 
