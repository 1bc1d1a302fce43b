SPECIFICATION FairSpec
CONSTANTS
    Talker = c1
    Conns = {c1, c2}
    MaxConn = 1
    Timed = TRUE
    MaxMsgs <- OneFromTalker
    MaxSends <- TwoToTalker
INVARIANTS
    Capacity
    NoMessageStuck
PROPERTIES
    ImplementsConnEvents
    RefusedOnlyIfFull
    IdleGoes
CHECK_DEADLOCK FALSE
