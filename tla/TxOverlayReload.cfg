CONSTANTS
    Keys = {k1, k2}
    Rows = {r1}
    NoId = 0
    Bidirectional = FALSE
    MaxNodes = 1
    MaxEdges = 1
    MaxIds = 1
    MaxDepth = 0
    MaxRevision = 0
    EmptyDelta <- NewDelta
SPECIFICATION ReloadSpec
INVARIANT OwnNodesReadBack
