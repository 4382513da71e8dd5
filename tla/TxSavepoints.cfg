CONSTANTS
    EmptyDelta = d0
    Deltas = {d0, d1, d2}
    MaxDepth = 4
    MaxRevision = 1
SPECIFICATION TxSpec
INVARIANT TxTypeOK
PROPERTY ImplementsStack
PROPERTY RevisionMovesWithDelta
