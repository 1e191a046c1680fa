SPECIFICATION FairSpec
CONSTANTS
    a = a
    b = b
    c = c
    Obs = {a, b, c}
    Closed = Closed
    None = None
    Index <- Colliding
    NTasks = 1
    NActions = 2
    MaxOpenStates = 1
    MaxDuplicates = 1
INVARIANTS TypeOK LedgersAgree RegisteredMeansClean LateLineNeverMistaken
PROPERTIES VerdictMatchesCause RunEndsAndWorkerIsGone
CHECK_DEADLOCK FALSE
