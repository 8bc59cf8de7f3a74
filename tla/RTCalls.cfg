SPECIFICATION ScenarioSpec
CONSTANTS
  NULL = NULL
  Tuned = {"hermes_aux", "intent_parsing_chat"}
  Wanted = {"haiku", "opus"}
  Setter = {v1, v2}
  MaxEdits = 3
  Email = {1, 2}
  MaxYes = 1
  MaxLabels = 2
  Caller = {a, b}
  Slots = 1
  Cap = 2
  MaxOrders = 1
  MaxFaults = 1
INVARIANTS
  SpendAccounted
  NothingLeaks
  CrossingDegrades
  SensitiveUnderYes
  EvidenceSpentOnce
  EditsReachRouter
PROPERTIES
  RefusalKeepsOneShot
CHECK_DEADLOCK FALSE
