----------------------------- MODULE ConnEvents -----------------------------
(***************************************************************************)
(* What a World is told of its connections by the network: a connection is *)
(* accepted, sends messages, and is closed at most once.  The message of a *)
(* read that had completed by then may still follow.  A connection that    *)
(* the server itself shuts down is closed without a word.                  *)
(***************************************************************************)
CONSTANT Conns

VARIABLE phase  \* "none", "open", "closed", "over" of each connection

Init == phase = [c \in Conns |-> "none"]

Accepted(c) ==
    /\ phase[c] = "none"
    /\ phase' = [phase EXCEPT ![c] = "open"]

Received(c) ==
    \/ phase[c] = "open" /\ UNCHANGED phase
    \/ phase[c] = "closed" /\ phase' = [phase EXCEPT ![c] = "over"]

Closed(c) ==
    /\ phase[c] = "open"
    /\ phase' = [phase EXCEPT ![c] = "closed"]

Next == \E c \in Conns : Accepted(c) \/ Received(c) \/ Closed(c)

Spec == Init /\ [][Next]_phase
============================================================================
