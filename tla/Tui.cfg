CONSTANTS
  f1 = f1
  f2 = f2
  k1 = k1
  s1 = s1
  s2 = s2
  NoConn = NoConn
  Component <- MCComponent
  Path <- MCOnePath
  Found <- MCNoPath
  Conn <- MCConn
  Slot <- MCSlot
  MaxKeys = 3
  MaxFailures = 1
  MaxEvents = 1

SPECIFICATION FairSpec

INVARIANTS
  TypeOK
  PollChains
  SelectionKept
  UnsentIsDirty
  NoBlankSettings

PROPERTY ViewConverges
