SPECIFICATION Spec
CONSTANTS
    e1 = e1
    e2 = e2
    e3 = e3
    Entries <- TwoEntries
    Durations <- MCDurations
    N = 2
    Width = 8
    MaxTick = 4
    Asserts = FALSE
SYMMETRY Symmetry
INVARIANTS
    Consistent
    OnTime
    RecoversInOneRevolution
    NeverEarly
    ArmOrder
PROPERTIES FateIsFinal
CHECK_DEADLOCK FALSE
