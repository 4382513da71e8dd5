SPECIFICATION Spec
CONSTANTS
    NodeCount = 4
    Infinity = 1000
    Universe <- Relationships
    Requests <- SearchRequests
    Hideable <- HideableItems
INVARIANTS
    TypeOK
    SearchMatchesEager
    SearchIsExact
    OnlyVisibleExpanded
PROPERTIES
    SearchTerminates
