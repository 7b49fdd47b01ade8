CONSTANTS
    Clients = {app}
    WorkThread = worker
    w1 = w1
    w2 = w2
    process = process
    client = client
    Works = {w1, w2}
    Cb <- CbDef
    Data <- DataDef
    None = NULL
    Capacity = 2
    MaxStarts = 3
    MaxCycles = 1
SPECIFICATION FairSpec
INVARIANTS
    WorksConsistent
    SilentAfterCancel
PROPERTIES
    EveryStartSettles
CHECK_DEADLOCK FALSE
