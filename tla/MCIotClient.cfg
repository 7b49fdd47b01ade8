CONSTANTS
    Apps = {a}
    Calls = {"start", "reconnect"}
    MaxFaults = 3
SPECIFICATION FairSpec
PROPERTIES
    EventuallyServing
CHECK_DEADLOCK FALSE
