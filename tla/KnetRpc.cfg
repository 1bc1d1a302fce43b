SPECIFICATION Spec
CONSTANTS
    Services = {"a", "b"}
    Callers = {"a"}
    Kinds = {"timed"}
    KeyOf <- MCKeyOf
    MaxCalls = 2
    MaxAnswers = 1
    MaxRestarts = 1
    MaxLost = 0
    MaxDup = 1
INVARIANTS
    NoTimerStranded
    
    
PROPERTIES OnlyPromisedCallbacks
CHECK_DEADLOCK FALSE
