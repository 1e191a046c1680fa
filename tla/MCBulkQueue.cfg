SPECIFICATION BFairSpec
CONSTANTS
    w1 = w1  j1 = j1  j2 = j2  r1 = r1  a1 = a1  h1 = h1
    Workers = {w1}
    Jobs = {j1}
    NoJob = NoJob
    Actions = {a1}
    Hashes = {h1}
    RunOf <- SameRun
    ActionOf <- SameAction
    HashOf <- SameHash
    StateOf <- OwnState
    LaneOf <- SourceLane
    Priority <- SamePriority
    Batches = {{j1}}
    OwnRun = r1
    LaneSet = {"source_check"}
    HeavyLaneAllowsQuarantine = TRUE
    ContinueOnTimeout = TRUE
    ImportSlow = FALSE
    MaxAttempts = 2
    ActionTimeoutThreshold = 1
    ProbationMinAttempts = 1
    MaxJobs <- Unlimited
    LeasesExpire = TRUE
    MaxReclaims = 1
    MaxStarts = 1
    MaxDeaths = 1
    MaxCancels = 1
    MaxBulkRuns = 2
INVARIANTS NoStrandedBulkRow BulkAttemptBudget
PROPERTIES BulkComplete BulkEnds
CHECK_DEADLOCK FALSE
