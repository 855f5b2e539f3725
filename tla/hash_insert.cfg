SPECIFICATION Spec
CONSTANTS
  Tables = {1}
  Keys <- TwoKeys
  Hash <- TwoHash
  Nodes = {1, 2, 3, 4, 5}
  End = End
  Garbage = Garbage
  AvgBucketCount = 2
  ClearFirst = TRUE
INVARIANT InsertReturnsElement
