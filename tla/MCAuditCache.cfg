SPECIFICATION Spec
CONSTANTS
    r1 = r1  r2 = r2  t1 = t1  w1 = w1  w2 = w2
    manifest = manifest  artifact = artifact
    Runs = {r1, r2}
    Tasks = {t1}
    Files = {artifact, manifest}
    Versions = {0, 1}
    ReadOnly = {r2}
    Workers = {w1, w2}
    Home <- HomeOfTwo
    BuildsApart = FALSE
    MaxInvocations = 2
    MaxChanges = 1
    MaxFaults = 1
INVARIANTS FalseEntryHasCause UnreadableNeverHits
PROPERTIES AuditsUndisturbed
SYMMETRY FileSymmetry
CHECK_DEADLOCK FALSE
