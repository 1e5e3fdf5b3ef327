CONSTANTS
  N = 3
  Width = 8
  Graphs <- AllGraphs
  SingleSource = FALSE
  StartSource = 1
  NumOfSources = 2

SPECIFICATION Spec

INVARIANT SourcesCovered

CHECK_DEADLOCK FALSE
