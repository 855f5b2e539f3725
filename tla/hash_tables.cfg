SPECIFICATION Spec
CONSTANTS
  Tables = {t1, t2}
  Keys <- TwoKeys
  Hash <- TwoHash
  Nodes = {1, 2, 3, 4}
  End = End
  Garbage = Garbage
  AvgBucketCount = 2
  ClearFirst = FALSE
INVARIANT WellFormed
PROPERTIES
  FindExact RangeErased ImplementsKeyBag
SYMMETRY SameTables
CHECK_DEADLOCK FALSE
