CONSTANTS
  Conn = {c1, c2}
  Inverter = {v1, v2}
  Interval = 2
  Grace = 1
  Threshold = 1
SPECIFICATION OutFairSpec
INVARIANTS
  OutTypeOK
  LimitedPerConnection
PROPERTIES
  UpdatesGoOn
  StartupDataIsDropped
  PublishingGoesOn
