CONSTANTS
  MaxConns = 1
  MaxProgress = 0
  QueueCap = 1

SPECIFICATION FairSpec

PROPERTY StartReturns

CHECK_DEADLOCK FALSE
