SPECIFICATION FairSpec
CONSTANTS
    Services = {"a", "b"}
    Callers = {"a", "b"}
    Kinds = {"timed", "plain", "none", "route"}
    KeyOf <- MCKeyOf
    MaxCalls = 2
    MaxAnswers = 1
    MaxRestarts = 0
    MaxLost = 1
    MaxDup = 0
 
PROPERTIES
    KeepsPromise
    EveryCallAnswered
CHECK_DEADLOCK FALSE
