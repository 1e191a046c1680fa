SPECIFICATION Spec
CONSTANTS
    Plan <- ThreePairs
    FlushEvery = 2
    None = None
    Noise = Noise
    MaxNoise = 1
    MaxFailures = 2
    MaxStarts = 2
INVARIANTS VerdictIsOwn ReturnsComplete
CHECK_DEADLOCK FALSE
