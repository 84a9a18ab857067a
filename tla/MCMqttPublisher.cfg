CONSTANTS
  Worker = {w1}
  Inverter = {v1}
  Sensor = {f1}
  Periodic = TRUE
  MaxUps = 2
  MaxRestarts = 1
  None = None
CHECK_DEADLOCK FALSE
SPECIFICATION FairSpec
INVARIANTS
  TypeOK
  UpIsNoticed
  FlaggedIsSubscribed
PROPERTIES
  SensorsBecomeKnown
