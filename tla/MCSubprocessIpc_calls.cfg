SPECIFICATION FairSpec
CONSTANTS
    start = start
    r1 = r1
    r2 = r2
    s1 = s1
    s2 = s2
    Start <- start
    Request <- Requests
    Stops <- StopCalls
    Handled <- InHandlers
    Env <- Everything
INVARIANTS
    TypeOK
    StopLeavesNone
    KilledForJunk
PROPERTIES
    Exclusive
    CallsEnd
CHECK_DEADLOCK FALSE
