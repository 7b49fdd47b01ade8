CONSTANTS
    Thrds = {t1, t2, t3}
    Owner = main
    NoThrd = NULL
SPECIFICATION FairSpec
INVARIANTS
    RecordsConsistent
PROPERTIES
    LifeCycle
    DeletedIsReclaimed
CHECK_DEADLOCK FALSE
