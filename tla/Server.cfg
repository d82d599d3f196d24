CONSTANTS
  MaxConns = 2
  MaxProgress = 1
  QueueCap = 1

SPECIFICATION FairSpec

INVARIANTS
  TypeOK
  AtMostOneEscapes

PROPERTIES
  ViewOnlyAdvances
  ResultIsShown
  HandlersEnd
  StartReturnsOrBlocks

CHECK_DEADLOCK FALSE
