SPECIFICATION FairSpec
CONSTANTS
    Talker = c1
    Conns = {c1, c2}
    Needs <- TableNeeds
    Tasks = {t1, t2}
INVARIANT ServedInOrder
PROPERTIES
    OneSession
    ClosedGoes
    MessageServed
    TaskRuns
CHECK_DEADLOCK FALSE
