SPECIFICATION Spec
CONSTANTS
    a = a
    b = b
    c = c
    Obs = {a, b}
    Closed = Closed
    None = None
    Index <- Faithful
    NTasks = 1
    NActions = 1
    MaxOpenStates = 2
    MaxDuplicates = 1
INVARIANTS TargetsTrackedByAcquire
CHECK_DEADLOCK FALSE
