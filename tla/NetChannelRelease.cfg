SPECIFICATION Spec
CONSTANTS
    Modes = {"sync"}
    Timed = {"server"}
    Asserts = FALSE
    MaxSend <- ClientSends
INVARIANT DecodeConsumes
CHECK_DEADLOCK FALSE
