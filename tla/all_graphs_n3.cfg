CONSTANTS
  N = 3
  Width = 8
  Graphs <- AllGraphs
  SingleSource = FALSE
  StartSource = 0
  NumOfSources = 0

SPECIFICATION Spec

INVARIANT TypeOK
INVARIANT DistIsBFS
INVARIANT DPLeafAssert

CHECK_DEADLOCK FALSE
