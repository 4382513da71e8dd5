SPECIFICATION Spec
CONSTANTS
    Backends = {b1, b2}
    NoBackend = NoBackend
    Sources = {b1, b2}
    Readers = {b2}
    Fixed = {b2}
    Publishers = {b1}
    Pruners = {b1}
    MaxXid = 3
    MaxLog = 3
    MaxHeads = 2
    BatchSize = 1
INVARIANTS
    TypeOK
    NoGap
    NothingInvisible
    PublishedComplete
    PrunedRowsCovered
PROPERTIES
    NoReplayTwice
    
