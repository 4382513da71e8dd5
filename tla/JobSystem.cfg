SPECIFICATION Spec
CONSTANTS
    MaxWorkers = 2
    MaxCalls = 2
    Builds = {b1, b2}
    MaxPolls = 2
    Jobs = {1, 2}
    Sessions = {1, 2}
    DueWorkers = {w1}
    Intervals = {1, 2}
    DefaultInterval = 1
    MaxRetries = 1
    MaxTime = 1
    NoRow = NoRow
    Dropped = Dropped
    Null = Null
INVARIANTS
    TypeOK
    JobRowMatchesPublication
    PolicyMirrorsJob
    OneRunPerDueDate
    SlotsConserved
PROPERTIES
    RunsKeepSettings
    VisibleJobSettles
    EverythingEnds
CHECK_DEADLOCK FALSE
