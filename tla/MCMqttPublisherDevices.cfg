CONSTANTS
  Worker = {w1, w2}
  Inverter = {v1, v2}
  Sensor = {f1}
  Periodic = TRUE
  MaxUps = 2
  MaxRestarts = 1
  None = None
CHECK_DEADLOCK FALSE
SYMMETRY Symmetry
SPECIFICATION Spec
INVARIANTS
  AnnouncedUnderOwnId
