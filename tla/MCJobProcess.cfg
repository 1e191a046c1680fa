SPECIFICATION FairSpec
CONSTANTS
    Sizes = {1, 2, 3}
    Capacity = 2
    JobTimeout = 2
    ExecutorLimits = {1, 2, 3}
INVARIANTS SuccessIsRead KilledMeansLateOrLarge
PROPERTIES CallReturns
CHECK_DEADLOCK FALSE
