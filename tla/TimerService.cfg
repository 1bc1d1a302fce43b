SPECIFICATION FairSpec
CONSTANTS
    Timers = {e1, e2, e3}
    MaxDelay = 3
    MaxDiff = 2
    W = 8
INVARIANTS
    NeverEarly
    OnTime
    DeadlineOrder
PROPERTIES
    HeartbeatReturns
CHECK_DEADLOCK FALSE
