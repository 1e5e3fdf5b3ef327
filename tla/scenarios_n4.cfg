CONSTANTS
  N = 4
  Width = 8
  Graphs <- Scenarios
  SingleSource = FALSE
  StartSource = 0
  NumOfSources = 0

SPECIFICATION FairSpec

PROPERTY Termination

CHECK_DEADLOCK FALSE
