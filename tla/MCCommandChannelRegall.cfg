CONSTANTS
  r1 = r1
  r2 = r2
  d1 = d1
  g1 = g1
  h1 = h1
  Request = {r1, r2}
  Device = {d1, d2}
  Host = {h1}
  HostOf <- SameHost
  Register = {g1}
  Six = {}
  Replies <- MCReplies
  QueueCap = 2
  ProtocolDigits = 2
  InverterNoDigits = 2
  ShortTimeout = FALSE
  NoRequest = NoRequest
SYMMETRY Symmetry
SPECIFICATION Spec
INVARIANTS
  HandlersDoNotPanic
