SPECIFICATION FairSpec
CONSTANTS
  VertexCount = 3
  EdgeCount = 3
  Graphs <- AllGraphs
INVARIANTS VisitSound EdgesClassified SpanningForest ViewsAgree
PROPERTY CallsReturn
