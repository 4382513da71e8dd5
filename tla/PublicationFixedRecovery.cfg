SPECIFICATION Spec
CONSTANTS
    Backends = {b1, b2}
    NoBackend = NoBackend
    Publishers = {b1, b2}
    Collectors = {}
    Resetters = {}
    Fixed = {b1}
    MaxXid = 2
    MaxAttempts = 2
    RetentionFloor = 1
INVARIANTS
    CurrentLoadable
