CONSTANTS
    j1 = j1
    j2 = j2
    j3 = j3
    j4 = j4
    c1 = c1
    c2 = c2
    d1 = d1
    Producers = {p1, p2}
    Worker = w
    Jobs = {j1, j2, j3, j4}
    Cbs = {c1, c2}
    Datas = {d1}
    NULL = NULL
    CbOf <- MCCbOf
    DataOf <- MCDataOf
    QueueLen = 3
SPECIFICATION FairSpec
INVARIANTS
    Consistent
    JobConservation
    SafeTeardown
PROPERTIES
    EveryJobServed
    ImplementsJobService
CHECK_DEADLOCK FALSE
