CONSTANTS
    wired = wired
    cellular = cellular
    wifi = wifi
    Conns = {wired, cellular, wifi}
    Order <- MCOrder
    FirstPri <- MCFirstPri
    Pris = {0, 3}
    App = app
    NULL = NULL
    MaxFlips = 2
    MaxPri = 1
SPECIFICATION Spec
INVARIANTS
    Consistent
    SettledUnlessOverlapped
    SubscribersCurrent
CHECK_DEADLOCK FALSE
