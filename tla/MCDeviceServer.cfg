CONSTANTS
  c1 = c1
  Session = {c1, c2}
  Addr = {a1}
  Stamp = {c1, c2}
  NoSession = NoSession
  NoId = NoId
  Reading <- OwnReading
SPECIFICATION OneSilentSpec
INVARIANTS
  TypeOK
  ClientsAreHandled
  HandlerLeavesNothing
  StoppedServesNobody
PROPERTIES
  UsesManager
  LateCleanupSparesSuccessor
  ClosedConnectionsAreCleanedUp
  StopEndsHandlers
