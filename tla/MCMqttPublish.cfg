CONSTANTS
    Others = {app}
    Loop = loop
    MaxReqs = 2
    MaxBreaks = 1
SPECIFICATION FairSpec
INVARIANTS
    HandlesConsistent
    OnlyOnce
    OkMeansAcked
    TimeoutMeansUnacked
PROPERTIES
    EveryReportSettles
CHECK_DEADLOCK FALSE
