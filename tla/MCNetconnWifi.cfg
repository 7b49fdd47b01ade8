CONSTANTS
    Ssids = {home}
    Empty = Empty
    TableSize = 2
    MaxFaults = 1
    MaxCalls = 1
    MaxWorks = 2
    MaxEvents = 1
SPECIFICATION FairSpec
INVARIANTS
    Consistent
    AttemptWatched
    QuitIsFinal
PROPERTIES
    Reconnects
CHECK_DEADLOCK FALSE
