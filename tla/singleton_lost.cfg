SPECIFICATION Spec
CONSTANTS
  x = x
  y = y
  NoThread = NoThread
  Threads <- OneThread
  Types <- MCTypes
  Programs <- OpenersOnly
  MaxUses = 1
INVARIANT ClientsHaveInstance
