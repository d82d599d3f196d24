CONSTANTS
  p1 = p1
  p2 = p2
  d1 = d1
  Absent = Absent
  File <- MCFile
  Dir <- MCDir
  List <- MCList
  Content <- MCContent
  MaxEdits = 1
  MaxSessions = 2

SPECIFICATION FairSpec

INVARIANTS
  TypeOK
  InStep

PROPERTIES
  IsDelivery
  SessionEnds

CHECK_DEADLOCK FALSE
