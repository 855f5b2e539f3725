SPECIFICATION Spec
CHECK_DEADLOCK FALSE
CONSTANTS
  Buffers = {b1, b2, b3}
  Autos = {a1, a2}
  Sizes <- MCSizes
  Threads = {t1, t2}
  NoThread = nobody
  Objects = {o1, o2}
  Chunks = 2
  MaxQuestions = 2
  Byte = 2
  Widths = {1, 2, 4, 8}
  Nothing = nothing
  Callers = {t1, t2}
  Sockets <- MCSockets
  Strings <- MCStrings
  Backlog = 1
  Nowhere = nowhere
  Stale = stale
  Libraries = {l1, l2}
  MaxLoads = 2
  MaxKept = 1
  NoLibrary = none
  Bits <- MCBits
  MaxFlags = 2
INVARIANTS BuffersOwned ObjectsInOnePlace SocketsOwned PluginsUsable PackageAnswered ValuesKept
PROPERTIES CallsReturn
