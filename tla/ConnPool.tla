----------------------------- MODULE ConnPool -----------------------------
(***************************************************************************)
(* What a connection pool promises its threads: a connection belongs to    *)
(* one thread or is idle, never both nor to two threads, and the one that  *)
(* has been idle longest is handed out next.  How many there are, and when *)
(* a new one is made instead, is left open.                                *)
(***************************************************************************)
CONSTANTS Threads, Conns, None

VARIABLES
    idle,    \* the idle connections
    longer,  \* <<c, d>>: of two idle connections, c has been idle longer than d
    user     \* the connection each thread has

vars == <<idle, longer, user>>

Known == idle \cup {user[t] : t \in Threads}

Init ==
    /\ idle = {}
    /\ longer = {}
    /\ user = [t \in Threads |-> None]

\* c becomes idle: every other one has been so longer.
Rest(c) ==
    /\ idle' = idle \cup {c}
    /\ longer' = longer \cup (idle \X {c})

Stock(c) ==
    /\ c \notin Known
    /\ Rest(c)
    /\ UNCHANGED user

Take(t, c) ==
    /\ user[t] = None
    /\ c \in idle
    /\ \A d \in idle : <<d, c>> \notin longer
    /\ user' = [user EXCEPT ![t] = c]
    /\ idle' = idle \ {c}
    /\ longer' = longer \cap (idle' \X idle')

Grow(t, c) ==
    /\ user[t] = None
    /\ c \notin Known
    /\ user' = [user EXCEPT ![t] = c]
    /\ UNCHANGED <<idle, longer>>

Give(t) ==
    /\ user[t] # None
    /\ Rest(user[t])
    /\ user' = [user EXCEPT ![t] = None]

Next ==
    \/ \E c \in Conns : Stock(c)
    \/ \E t \in Threads, c \in Conns : Take(t, c) \/ Grow(t, c)
    \/ \E t \in Threads : Give(t)

Spec == Init /\ [][Next]_vars
============================================================================
