SPECIFICATION FairSpec
CONSTANTS
  NULL = NULL
  Worker = worker
  Script = {script}
  Threshold = 2
  MaxRejections = 3
  MaxReauths = 2
  MaxFaults = 1
INVARIANTS
  OTypeOK
  ThresholdPauses
  HealthyMeansResumed
PROPERTIES
  AutoPauseEnds
CHECK_DEADLOCK FALSE
