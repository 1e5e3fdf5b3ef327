CONSTANTS
  N = 3
  Width = 8
  Graphs <- Scenarios3
  SingleSource = FALSE
  StartSource = 0
  NumOfSources = 4

SPECIFICATION FairSpec

PROPERTY Termination

CHECK_DEADLOCK FALSE
