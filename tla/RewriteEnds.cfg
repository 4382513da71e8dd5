SPECIFICATION FairSpec
CONSTANTS
    NodeCount = 2
    Targets = {0, 1}
    Keys = {k1}
    Weights = {}
    MaxEntries = 2
    MaxBatch = 1
    Thresholds = {1}
PROPERTIES RewriteEnds
