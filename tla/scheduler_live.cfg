SPECIFICATION FairSpec
CONSTANTS
  MaxTasks = 3
  Stack = {s1, s2, s3}
  Boot = Boot
  IdleStack = IdleStack
  Nowhere = Nowhere
  Delays = {2}
  TickMod = 4
  StopCalls = FALSE
CHECK_DEADLOCK FALSE
PROPERTIES ReadyRuns WaitEnds LocksReleased
