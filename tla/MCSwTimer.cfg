CONSTANTS
    Clients = {c1}
    TimerThread = tt
    Timers = {t1, t2}
    NULL = NULL
    Forever = Forever
    Times = {0, 1}
    MaxTime = 2
SPECIFICATION Spec
INVARIANTS
    Consistent
    NoOversleep
PROPERTIES
    ImplementsTimerService
SYMMETRY Symmetry
CHECK_DEADLOCK FALSE
