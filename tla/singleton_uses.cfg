SPECIFICATION FairSpec
CONSTANTS
  x = x
  y = y
  NoThread = NoThread
  Threads <- MCThreads
  Types <- MCTypes
  Programs <- MCPrograms
  MaxUses = 2
INVARIANTS Defined RefCountsUses Lifetimes
PROPERTY CallsReturn
CHECK_DEADLOCK FALSE
