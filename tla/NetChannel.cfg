SPECIFICATION FairSpec
CONSTANTS
    Modes = {"sync", "async", "waitfor"}
    Timed = {"server"}
    Asserts = TRUE
    MaxSend <- ClientSends
INVARIANTS
    StreamIntact
    ClosedOnce
    OneBatchAfterClose
PROPERTIES
    ReportedConnectOpens
    CloseReachesPeer
    SentArrives
CHECK_DEADLOCK FALSE
