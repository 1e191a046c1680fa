SPECIFICATION FairSpec
CONSTANTS
    t1 = t1  t2 = t2
    n1 = n1  n2 = n2
    empty = empty  short = short
    Payloads = {empty, short}
    NoPayload = NoPayload
    MaxGeneration = 2
    Threads <- TwoThreads
    Nonces <- TwoNonces
    Size <- PayloadSize
    IoChunk = 2
    NoMarker = NoMarker  NoCall = NoCall  Absent = Absent
INVARIANTS
    TypeOK SnapshotValid ActionCoherent DiskAgrees NeverRefusesItself
PROPERTIES NothingRewritten ImplementsContract PublishWindowCloses
