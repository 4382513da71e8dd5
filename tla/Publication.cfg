SPECIFICATION Spec
CONSTANTS
    Backends = {b1, b2, r}
    NoBackend = NoBackend
    Publishers = {b1, b2}
    Collectors = {b1}
    Resetters = {b2}
    Fixed = {r}
    MaxXid = 3
    MaxAttempts = 3
    RetentionFloor = 1
INVARIANTS
    TypeOK
    VisibleHeadsLoadable
    CandidateUnreserved
    NoLostPublication
PROPERTIES
    ResetKeepsFiles
