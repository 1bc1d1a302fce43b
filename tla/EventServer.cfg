SPECIFICATION FairSpec
CONSTANTS
    Fds = {3}
    ReadMax = 2
    PipeSize = 2
    SeqMax = 3
    MaxConns = 2
    MaxResponses = 3
    MaxShuts = 1
    MaxStarts = 2
INVARIANT
    NoTaskStranded
PROPERTIES
    ImplementsReplies
    ClosedGoes
CHECK_DEADLOCK FALSE
