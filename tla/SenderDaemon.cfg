CONSTANTS
  c1 = c1
  c2 = c2
  a1 = a1
  Caller <- MCCaller
  Addr <- MCAddr
  MaxRuns = 2

SPECIFICATION FairSpec

INVARIANTS
  TypeOK
  NeverShowsDeadSender
  ErrorIsOwn
  LiveRunIsReachable
  NoSilentEnd

PROPERTIES
  BroadcastFailureEndsRun
  IsComponent
