CONSTANTS
    Keys = {k1, k2}
    Rows = {r1, r2}
    NoId = 0
    Bidirectional = TRUE
    MaxNodes = 3
    MaxEdges = 4
    MaxIds = 2
    MaxDepth = 2
    MaxRevision = 0
    EmptyDelta <- NewDelta
SPECIFICATION Spec
SYMMETRY Symmetry
INVARIANT TypeOK
INVARIANT OverlayMatchesSource
