SPECIFICATION FairSpec
CONSTANTS
    c1 = c1
    c2 = c2
    w1 = w1
    w2 = w2
    Caller = {c1, c2}
    Worker = {w1, w2}
    MaxSessions = 2
INVARIANTS
    TypeOK
    OneDriver
    CancelReachesSession
    ClockAndErrorCurrent
PROPERTIES
    NoTransitionRefused
    ComesToRest
    ImplementsLifecycle
CHECK_DEADLOCK FALSE
