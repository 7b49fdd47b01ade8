CONSTANTS
    s1 = s1
    s2 = s2
    s3 = s3
    ev = ev
    Threads = {a, b, c}
    Names = {ev}
    Subs = {s1, s2, s3}
    NameOf <- MCNameOf
    TypeOf <- MCTypeOf
    MaxCalls = 5
SPECIFICATION FairSpec
INVARIANTS
    Consistent
    OneTimeOnce
    CallsTakeEffect
PROPERTIES
    DispatchStable
    CallsReturn
CHECK_DEADLOCK FALSE
