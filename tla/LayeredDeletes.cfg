SPECIFICATION Spec
CONSTANTS
    NodeCount = 2
    Targets = {0, 1}
    Keys = {k1}
    Weights = {}
    MaxEntries = 3
    MaxBatch = 2
    Thresholds = {0}
INVARIANTS NoPhantomEdge
