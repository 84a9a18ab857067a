CONSTANTS
  LoggerId <- SampleId
  Serial <- SampleSerial
  Inputs <- AllInputs
SPECIFICATION Spec
CHECK_DEADLOCK FALSE
INVARIANTS
  CommandsAreAddressed
