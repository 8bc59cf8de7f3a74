SPECIFICATION Spec
CONSTANTS
  a1 = a1  a2 = a2  a3 = a3  e1 = e1  e2 = e2  d1 = d1  d2 = d2
  NULL = NULL
  Action = {a1}
  Email = {e1, e2}
  Folder = {inbox}
  Drainer = {d1}
  Minter = {m1, m2}
  Types = {"unsubscribe", "delete"}
  BatchSize = 2
  DailySendCap = 1
  CoolingOff = 1
  GrantWait = 1
  ReplayWindow = 1
  ConfirmTTL = 2
  GrantWindows = {1}
  MaxGrantWindow = 2
  MaxGrantEmails = 1
  DayLength = 2
  MaxNow = 2
  MaxMarker = 1
  MaxGrants = 2
  MaxConfirmations = 1
  MaxReplays = 0
  MaxFaults = 1
  MayPause = FALSE
SYMMETRY Symmetry
INVARIANTS
  AppliedUnderGrant
  FailureAnnounced
  GrantsBackedByConfirmations
CHECK_DEADLOCK FALSE
