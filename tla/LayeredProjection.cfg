SPECIFICATION Spec
CONSTANTS
    NodeCount = 2
    Targets = {1}
    Keys = {k1, k2}
    Weights = {0}
    MaxEntries = 3
    MaxBatch = 3
    Thresholds = {0, 1}
INVARIANTS TypeOK NoLostEdge LayersOrdered
PROPERTIES CompactionKeepsView IngestStaysExact
