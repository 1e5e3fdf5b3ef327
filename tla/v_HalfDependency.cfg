CONSTANTS
  N = 5
  Width = 8
  Graphs <- HalfDependency
  SingleSource = TRUE
  StartSource = 0
  NumOfSources = 0

SPECIFICATION Spec

INVARIANT DependencyCorrect

CHECK_DEADLOCK FALSE
