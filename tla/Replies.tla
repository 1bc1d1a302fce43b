------------------------------ MODULE Replies ------------------------------
(***************************************************************************)
(* What an EventServer promises about the responses given to sendResponse: *)
(* no tasks, no events, no session ids.                                    *)
(*                                                                         *)
(* A connection's client gets the responses meant for it, in the order in  *)
(* which they were given, and no other.  While its session is open none is *)
(* passed over.  Once the session is closing no more are taken on, but     *)
(* those taken are delivered before the session goes, unless the           *)
(* connection fails.                                                       *)
(***************************************************************************)
EXTENDS Integers, Sequences

CONSTANTS Conns, Responses

VARIABLES
    state,   \* "none", "open", "closing", "gone" of each connection
    failed,  \* the connections that have failed
    given,   \* the responses given to the server for each connection
    taken,   \* those it has taken on
    got      \* those that are on their way to the client

vars == <<state, failed, given, taken, got>>

Init ==
    /\ state = [c \in Conns |-> "none"]
    /\ failed = {}
    /\ given = [c \in Conns |-> << >>]
    /\ taken = [c \in Conns |-> << >>]
    /\ got = [c \in Conns |-> << >>]

Open(c) ==
    /\ state[c] = "none"
    /\ state' = [state EXCEPT ![c] = "open"]
    /\ UNCHANGED <<failed, given, taken, got>>

Give(c, r) ==
    /\ state[c] # "none"
    /\ given' = [given EXCEPT ![c] = Append(@, r)]
    /\ UNCHANGED <<state, failed, taken, got>>

Fail(c) ==
    /\ failed' = failed \cup {c}
    /\ UNCHANGED <<state, given, taken, got>>

Becomes(s) ==
    CASE s = "open" -> {"open", "closing", "gone"}
      [] s = "closing" -> {"closing", "gone"}
      [] OTHER -> {}

\* One response may be taken on, some of those taken delivered, and the
\* session may start to close or go.
Serve(c) ==
    \E next \in {<< >>} \cup
                (IF state[c] = "open" /\ Len(taken[c]) < Len(given[c])
                 THEN {<<given[c][Len(taken[c]) + 1]>>} ELSE {}) :
    \E n \in Len(got[c]) .. Len(taken[c] \o next) :
    \E s \in Becomes(state[c]) :
        /\ taken' = [taken EXCEPT ![c] = @ \o next]
        /\ got' = [got EXCEPT ![c] = SubSeq(taken[c] \o next, 1, n)]
        /\ state' = [state EXCEPT ![c] = s]
        /\ s = "gone" => c \in failed \/ n = Len(taken[c] \o next)
        /\ UNCHANGED <<failed, given>>

Next ==
    \E c \in Conns :
        \/ Open(c) \/ Fail(c) \/ Serve(c)
        \/ \E r \in Responses : Give(c, r)

Spec == Init /\ [][Next]_vars
============================================================================
