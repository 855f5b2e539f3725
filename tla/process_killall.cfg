SPECIFICATION Spec
CONSTANTS
  a = a
  b = b
  Objs <- MCObjs
  NoObj = NoObj
  Pids = {1, 2}
  ExitCodes = {0, 1}
  InitHandlers = {"default"}
  IdleWait = FALSE
  Interrupts = TRUE
  SetuidPrograms = FALSE
PROPERTY KillallOnlyManaged
CHECK_DEADLOCK FALSE
