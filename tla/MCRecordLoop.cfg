CONSTANTS
  c1 = c1
  c2 = c2
  h1 = h1
  h2 = h2
  l1 = l1
  v1 = v1
  Datalogger = {l1, l2}
  Inverter = {v1}
  Host = {h1, h2}
  Search = {s1}
  None = None
  Conn = {c1, c2}
  LoggerOf <- OneLogger
  HostOf <- Moving
  Sends = {"04", "05", "16"}
  InverterOf <- OneInverter
  MaxWire = 2
SPECIFICATION MovingSpec
INVARIANTS
  TypeOK
  KnownInvertersAreFound
PROPERTIES
  RecordsAreAnswered
  AddressCatchesUp
