SPECIFICATION Spec
CONSTANTS
  a = a
  b = b
  Objs <- MCObj
  NoObj = NoObj
  Pids = {1}
  ExitCodes = {0, 1}
  InitHandlers = {"app"}
  IdleWait = FALSE
  Interrupts = TRUE
  SetuidPrograms = FALSE
INVARIANT ThrownStartRunsNothing
CHECK_DEADLOCK FALSE
