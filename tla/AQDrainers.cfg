SPECIFICATION DrainersSpec
CONSTANTS
  a1 = a1  a2 = a2  a3 = a3  e1 = e1  e2 = e2  d1 = d1  d2 = d2
  NULL = NULL
  Action = {a1, a2}
  Email = {e1}
  Folder = {inbox, triage}
  Drainer = {d1, d2}
  Minter = {m1}
  Types = {"mark_read", "unsubscribe"}
  BatchSize = 2
  DailySendCap = 1
  CoolingOff = 1
  GrantWait = 1
  ReplayWindow = 1
  ConfirmTTL = 2
  GrantWindows = {1}
  MaxGrantWindow = 2
  MaxGrantEmails = 0
  DayLength = 2
  MaxNow = 0
  MaxMarker = 0
  MaxGrants = 1
  MaxConfirmations = 1
  MaxReplays = 1
  MaxFaults = 1
  MayPause = TRUE
SYMMETRY Symmetry
INVARIANTS
  ClaimOwnership
  AtMostOneDispatch
  PauseStopsBatch
CHECK_DEADLOCK FALSE
