SPECIFICATION Spec
CONSTANTS
  MaxTasks = 3
  Stack = {s1, s2, s3}
  Boot = Boot
  IdleStack = IdleStack
  Nowhere = Nowhere
  Delays = {1}
  TickMod = 3
  StopCalls = TRUE
CHECK_DEADLOCK FALSE
PROPERTY OnlyStoppingTasksStop
