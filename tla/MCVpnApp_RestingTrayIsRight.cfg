SPECIFICATION AppSpec
CONSTANTS
    c1 = c1
    c2 = c2
    w1 = w1
    Caller = {c1, c2}
    Worker = {w1}
    MaxSessions = 2
    MaxPending = 3
INVARIANT RestingTrayIsRight
CHECK_DEADLOCK FALSE
