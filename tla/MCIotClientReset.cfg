CONSTANTS
    Apps = {a}
    Calls = {"start", "reset"}
    MaxFaults = 1
SPECIFICATION Spec
PROPERTY ResetKept
CHECK_DEADLOCK FALSE
