SPECIFICATION Spec
CONSTANTS
  NULL = NULL
  Worker = worker
  Script = {script}
  Threshold = 2
  MaxRejections = 3
  MaxReauths = 2
  MaxFaults = 0
INVARIANTS
  HoldSurvives
CHECK_DEADLOCK FALSE
