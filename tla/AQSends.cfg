SPECIFICATION FairSpec
CONSTANTS
  a1 = a1  a2 = a2  a3 = a3  e1 = e1  e2 = e2  d1 = d1  d2 = d2
  NULL = NULL
  Action = {a1, a2}
  Email = {}
  Folder = {inbox}
  Drainer = {d1}
  Minter = {m1}
  Types = {"send_new_email"}
  BatchSize = 2
  DailySendCap = 1
  CoolingOff = 1
  GrantWait = 1
  ReplayWindow = 1
  ConfirmTTL = 2
  GrantWindows = {2}
  MaxGrantWindow = 2
  MaxGrantEmails = 1
  DayLength = 2
  MaxNow = 2
  MaxMarker = 0
  MaxGrants = 1
  MaxConfirmations = 1
  MaxReplays = 1
  MaxFaults = 1
  MayPause = TRUE
INVARIANTS
  TypeOK
  SendsCoolOff
  SendCapWithSlack
PROPERTIES
  ClosedIsFinal
  ClaimResolves
  PendingDrains
  ImplementsLifecycle
CHECK_DEADLOCK FALSE
