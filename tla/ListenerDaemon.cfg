CONSTANTS
  c1 = c1
  c2 = c2
  i1 = i1
  Caller <- MCCaller
  Id <- MCId
  Time <- MCTime
  RecentCap = 2
  MaxRuns = 2

SPECIFICATION FairSpec

INVARIANTS
  TypeOK
  NoRepeatedDownload
  LoneRunIsReachable
  RecentAgreesWithRuns

PROPERTIES
  CancelledRunWindsUp
  IsComponent
