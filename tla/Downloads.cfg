CONSTANTS
  old = old
  new = new
  Listener <- MCListener
  Content <- MCContent
  MaxSessions = 4

SPECIFICATION Spec

INVARIANTS
  TypeOK
  TornOnlyBySharing
  NothingIsLost

CHECK_DEADLOCK FALSE
