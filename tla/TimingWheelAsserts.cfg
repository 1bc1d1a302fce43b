SPECIFICATION Spec
CONSTANTS
    e1 = e1
    e2 = e2
    e3 = e3
    Entries <- TwoEntries
    Durations <- MCDurations
    N = 2
    Width = 8
    MaxTick = 4
    Asserts = TRUE
SYMMETRY Symmetry
INVARIANT RemovalSucceeds
CHECK_DEADLOCK FALSE
