CONSTANTS
    Others = {timer}
    Loop = loop
    MaxReqs = 3
    MaxSessions = 2
SPECIFICATION FairSpec
INVARIANTS
    Consistent
    CallbackOnce
    AnswerMatches
PROPERTIES
    EveryRequestSettles
CHECK_DEADLOCK FALSE
