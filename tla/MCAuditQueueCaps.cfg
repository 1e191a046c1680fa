SPECIFICATION FairSpec
CONSTANTS
    w1 = w1  w2 = w2
    j1 = j1  j2 = j2  j3 = j3
    r1 = r1  a1 = a1  h1 = h1  s1 = s1  s2 = s2
    Workers <- TwoWorkers
    Jobs = {j1, j2, j3}
    NoJob = NoJob
    Actions = {a1}
    Hashes = {h1}
    RunOf <- RaceRun
    ActionOf <- RaceAction
    HashOf <- RaceHash
    StateOf <- RaceState
    LaneOf <- CapsLane
    Priority <- CapsPriority
    Batches = {{j1, j2, j3}}
    OwnRun = r1
    LaneSet = {"source_check"}
    HeavyLaneAllowsQuarantine = TRUE
    ContinueOnTimeout = FALSE
    ImportSlow = FALSE
    MaxAttempts = 2
    ActionTimeoutThreshold = 1
    ProbationMinAttempts = 1
    MaxJobs = 2
    LeasesExpire = FALSE
    MaxReclaims = 4
    MaxStarts = 2
    MaxDeaths = 1
    MaxCancels = 0
INVARIANTS CapsHold
PROPERTIES VerdictIsFinal RunEnds
CHECK_DEADLOCK FALSE
