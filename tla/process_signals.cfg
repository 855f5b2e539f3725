SPECIFICATION FairSpec
CONSTANTS
  a = a
  b = b
  Objs <- MCObjs
  NoObj = NoObj
  Pids = {1}
  ExitCodes = {0, 1}
  InitHandlers = {"default", "ignored", "app", "killer"}
  IdleWait = FALSE
  Interrupts = TRUE
  SetuidPrograms = TRUE
PROPERTY CallsReturn
CHECK_DEADLOCK FALSE
