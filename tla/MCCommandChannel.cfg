CONSTANTS
  r1 = r1
  r2 = r2
  d1 = d1
  g1 = g1
  h1 = h1
  Request = {r1, r2}
  Device = {d1, d2}
  Host = {h1}
  HostOf <- SameHost
  Register = {g1, g2}
  Six = {d1}
  Replies <- MCReplies
  QueueCap = 1
  ProtocolDigits = 2
  InverterNoDigits = 2
  ShortTimeout = FALSE
  NoRequest = NoRequest
SPECIFICATION FixedSpec
INVARIANTS
  TypeOK
  CommandIsInOnePlace
  AnswersAreFresh
  AnswersFit
PROPERTIES
  SingleRequestsEnd
  QueuedCommandsAreSent
