CONSTANTS
  Node <- SNode
  Values <- SValues
  Threads = {t1}
  Top = 100

SPECIFICATION Spec

INVARIANT ReportCorrect

CHECK_DEADLOCK FALSE
