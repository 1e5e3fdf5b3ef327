CONSTANTS
  N = 4
  Width = 8
  Graphs <- DiamondJoins
  SingleSource = FALSE
  StartSource = 0
  NumOfSources = 0

SPECIFICATION Spec

INVARIANT SigmaCorrect

CHECK_DEADLOCK FALSE
