SPECIFICATION Spec
CONSTANTS
    w1 = w1  w2 = w2
    j1 = j1  j2 = j2  j3 = j3
    r1 = r1  a1 = a1  h1 = h1  s1 = s1  s2 = s2
    Workers <- TwoWorkers
    Jobs = {j1, j2}
    NoJob = NoJob
    Actions = {a1}
    Hashes = {h1}
    RunOf <- RaceRun
    ActionOf <- RaceAction
    HashOf <- RaceHash
    StateOf <- RaceState
    LaneOf <- RaceLane
    Priority <- RacePriority
    Batches = {{j1, j2}}
    OwnRun = r1
    LaneSet = {"source_check", "heavy"}
    HeavyLaneAllowsQuarantine = TRUE
    ContinueOnTimeout = TRUE
    ImportSlow = FALSE
    MaxAttempts = 1
    ActionTimeoutThreshold = 1
    ProbationMinAttempts = 1
    MaxJobs <- Unlimited
    LeasesExpire = TRUE
    MaxReclaims = 1
    MaxStarts = 1
    MaxDeaths = 1
    MaxCancels = 1
SYMMETRY WorkerSymmetry
INVARIANTS TypeOK NoStrandedRow AttemptBudget RunComplete
PROPERTIES CancelStopsUnheldJobs
CHECK_DEADLOCK FALSE
