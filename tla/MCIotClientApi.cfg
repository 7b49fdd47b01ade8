CONSTANTS
    Apps = {a, b}
    Calls = {"start", "stop", "reset", "reconnect", "unbind"}
    MaxFaults = 2
SPECIFICATION Spec
SYMMETRY Symmetry
INVARIANTS
    Consistent
    
    PointersSound
PROPERTIES
    ImplementsDeviceLife
CHECK_DEADLOCK FALSE
