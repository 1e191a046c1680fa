SPECIFICATION Spec
CONSTANTS
    Chunk = 4
    Scripts <- EveryScript
    Budget = 2
INVARIANTS TypeOK LabelsAreEarned FalseFailureIsExplained AttemptsBounded
CHECK_DEADLOCK FALSE
