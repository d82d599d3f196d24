CONSTANTS
  c1 = c1
  c2 = c2
  i1 = i1
  Caller <- MCOneCaller
  Id <- MCId
  Time <- MCTime
  RecentCap = 2
  MaxRuns = 3

SPECIFICATION Spec

INVARIANT DisabledListenerIsStopped
