CONSTANTS
  N = 6
  Width = 8
  Graphs <- LateSuccessor
  SingleSource = TRUE
  StartSource = 0
  NumOfSources = 0

SPECIFICATION Spec

INVARIANT DependencyCorrect

CHECK_DEADLOCK FALSE
