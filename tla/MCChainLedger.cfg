SPECIFICATION Spec
CONSTANTS
    w1 = w1
    w2 = w2
    Writers <- TwoWriters
    Inos <- TwoInos
    Reader = Reader
    None = None
    MaxRecords = 3
    MaxBytes = 4
    MaxEventLine = 2
    MaxClosureLine = 1
    MaxFaults = 1
    MaxReads = 1
SYMMETRY Symmetry
INVARIANTS AttestationIsTrue WriterPromise
CHECK_DEADLOCK FALSE
