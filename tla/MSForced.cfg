SPECIFICATION ScenarioSpec
CONSTANTS
    Msg = {1, 2}
    Syncer = {worker, cli}
    Worker = worker
    Operator = cli
    NULL = NULL
    PageSize = 1
    MaxRetries = 1
    MaxChanges = 3
    MaxExpiries = 1
    MaxRounds = 1
    MaxFaults = 1
    Task = {"coarse_class", "fine_class", "summary_short", "embedding"}
    PaidTask = {"summary_short"}
    Stuck = {2}
    ForceConfidential <- ConfidentialBodies
    ForceSensitive <- SensitiveBodies
    BatchSize = 2
    MaxVersion = 2
    MaxJobs = 2
INVARIANTS
    ForcedStaysConfidential
CHECK_DEADLOCK FALSE
