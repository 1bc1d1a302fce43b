SPECIFICATION Spec
CONSTANTS
    Talker = c1
    Conns = {c1}
    Needs <- TableNeeds
    Tasks = {}
INVARIANT NoSessionOnClosed
CHECK_DEADLOCK FALSE
