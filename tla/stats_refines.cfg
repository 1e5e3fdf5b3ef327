CONSTANTS
  n1 = n1
  n2 = n2
  n3 = n3
  Names <- SNames
  NullName = n3
  Threads = {t1}
  Addr <- SAddr
  MaxOps = 5

SPECIFICATION Spec

PROPERTY ImplementsLoopStatistics

CHECK_DEADLOCK FALSE
