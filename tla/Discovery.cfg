CONSTANTS
  x = x
  y = y
  i = i
  j = j
  Sender <- MCSender
  Id <- MCId
  Offset <- MCOffset
  Skew = 1
  MaxTime = 2
  MaxRuns = 2
  MaxJoins = 2

SPECIFICATION FairSpec

INVARIANTS
  TypeOK
  HeardIsTried
  LateListenerHearsNothing

PROPERTY OfferIsTaken

CHECK_DEADLOCK FALSE
