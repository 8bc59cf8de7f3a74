SPECIFICATION RSpec
CONSTANTS
  a1 = a1  a2 = a2  a3 = a3  e1 = e1  d1 = d1  u1 = u1  u2 = u2
  NULL = NULL
  Action = {a1, a2, a3}
  Email = {e1}
  Folder = {inbox, triage}
  Drainer = {d1}
  Minter = {}
  Types = {"mark_read", "move_to_triage_folder"}
  BatchSize = 2
  DailySendCap = 1
  CoolingOff = 1
  GrantWait = 1
  ReplayWindow = 1
  ConfirmTTL = 1
  GrantWindows = {1}
  MaxGrantWindow = 1
  MaxGrantEmails = 1
  DayLength = 2
  MaxNow = 0
  MaxMarker = 0
  MaxGrants = 0
  MaxConfirmations = 0
  MaxReplays = 1
  MaxFaults = 1
  MayPause = FALSE
  Undoer = {u1, u2}
  RevertWindow = 1
  Synced = inbox
SYMMETRY Symmetry
INVARIANTS
  OneInversePerAction
  InverseOfApplied
  RevertedHasInverse
CHECK_DEADLOCK FALSE
