SPECIFICATION Spec
CONSTANTS
  fa = fa
  StdFile = StdFile
  Pipe = Pipe
  NoFile = NoFile
  Objs = {p}
  Fds = {1, 2, 3, 4, 5}
  Files <- MCFiles
INVARIANTS
  TypeOK GuardsOwn NothingLost
PROPERTIES
  KeepsProgramFiles ChildWritesWhereWanted FailureReported
VIEW MCView
CHECK_DEADLOCK FALSE
