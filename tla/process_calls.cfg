SPECIFICATION Spec
CONSTANTS
  a = a
  b = b
  Objs <- MCObjs
  NoObj = NoObj
  Pids = {1, 2}
  ExitCodes = {0, 1}
  InitHandlers = {"default"}
  IdleWait = FALSE
  Interrupts = FALSE
  SetuidPrograms = FALSE
INVARIANTS
  TypeOK RunningOwnsChild EveryChildHeld NoChildOutlivesObject
PROPERTIES
  ReapsOwnChild SignalsOnlyOwnChild ImplementsChildHandle
SYMMETRY SameObjects
