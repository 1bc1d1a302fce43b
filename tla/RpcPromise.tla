---------------------------- MODULE RpcPromise ----------------------------
(***************************************************************************)
(* What UniformNetwork::RPC promises the service that makes a call, with   *)
(* no queue, thread, key or timer in it.                                   *)
(*                                                                         *)
(* A call is answered at most once.  If a timeout was asked for, it is     *)
(* reported at most once and only while there is no answer; the answer may *)
(* still come after it.  A service that dies takes the calls it has made   *)
(* with it: their callbacks never run again.                               *)
(***************************************************************************)
CONSTANTS Calls

VARIABLES
    outcome,  \* what the callbacks of each call have told
    timed,    \* the calls made with a timeout callback
    dead      \* the calls whose caller has died

vars == <<outcome, timed, dead>>

Outcomes == {"unmade", "pending", "answered", "timedOut", "late"}
Open     == {"pending", "timedOut"}

TypeOK ==
    /\ outcome \in [Calls -> Outcomes]
    /\ timed \in SUBSET Calls
    /\ dead \in SUBSET Calls

Init ==
    /\ outcome = [c \in Calls |-> "unmade"]
    /\ timed = {}
    /\ dead = {}

Make(c) ==
    /\ outcome[c] = "unmade"
    /\ outcome' = [outcome EXCEPT ![c] = "pending"]
    /\ timed' \in {timed, timed \cup {c}}
    /\ UNCHANGED dead

Answer(c) ==
    /\ c \notin dead
    /\ outcome[c] \in Open
    /\ outcome' = [outcome EXCEPT ![c] =
                        IF @ = "pending" THEN "answered" ELSE "late"]
    /\ UNCHANGED <<timed, dead>>

TimeOut(c) ==
    /\ c \in timed \ dead
    /\ outcome[c] = "pending"
    /\ outcome' = [outcome EXCEPT ![c] = "timedOut"]
    /\ UNCHANGED <<timed, dead>>

Die(cs) ==
    /\ \A c \in cs : outcome[c] # "unmade"
    /\ dead' = dead \cup cs
    /\ UNCHANGED <<outcome, timed>>

Next ==
    \/ \E c \in Calls : Make(c) \/ Answer(c) \/ TimeOut(c)
    \/ \E cs \in SUBSET Calls : Die(cs)

\* A caller that waits with a timeout does not wait forever.
Resolve(c) == (Answer(c) \/ TimeOut(c)) /\ outcome[c] = "pending"

Spec == Init /\ [][Next]_vars /\ \A c \in Calls : WF_vars(c \in timed /\ Resolve(c))
============================================================================
