SPECIFICATION ScenarioSpec
CONSTANTS
  NULL = NULL
  Category = {health}
  Sender = {syncTask, s1}
  Puller = {p1, p2}
  SyncTask = syncTask
  AlarmCategory = health
  DedupThreshold = 1
  MaxAttempts = 2
  PullLimit = 2
  MaxEvents = 3
  MaxNoise = 1
  MaxFaults = 1
  MaxRetries = 2
  MaxCalls = 1
  MaxTokens = 2
  MaxHookErrors = 1
  MaxSyncs = 2
INVARIANTS
  NoiseBound
  OneDeliverer
  AckedWasPrinted
  RepeatsOnlyLostAnswers
PROPERTIES
  UrgentHeard
  SyncFailureHeard
  NoStaleTokenFailure
CHECK_DEADLOCK FALSE
