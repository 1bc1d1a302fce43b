----------------------------- MODULE GameWorld -----------------------------
(***************************************************************************)
(* The World of the game and login servers (world/World.cpp): the thread   *)
(* of the network leaves what happens to its connections in four           *)
(* containers, and the world's thread takes them over in heartbeat.        *)
(*                                                                         *)
(* Each of heartbeat's functions swaps its own container out under the     *)
(* mutex, so between any two of them the network may add to all.  What a   *)
(* function does with its copy concerns the sessions only, which no other  *)
(* thread sees: a function is one step.  dispatchMsg takes one more for    *)
(* each message, and processTask one for each task, since a task calls the *)
(* world back and takes the mutex again.                                   *)
(***************************************************************************)
EXTENDS Integers, Sequences, FiniteSets

CONSTANTS
    Conns,
    Needs,     \* the session state that message n of connection c asks for
    Tasks      \* the functions given to postTask; bound: m_task holds each once

ASSUME WorldAssumption ==
    Needs \in [Conns -> Seq({"UNLOGIN", "LOGIN", "IGNORE"})]

VARIABLES
    phase,       \* what the network has told of each connection: ConnEvents
    newConn,     \* m_new_conn
    worldMsgs,   \* m_world_msgs
    closedConn,  \* m_closed_conn
    tasks,       \* m_task
    session,     \* state of each connection's session in m_sessions
    inbox,       \* WorldSession::m_world_msgs
    allTask,     \* what processTask has taken from m_task
    batch,       \* what dispatchMsg has taken from m_world_msgs
    running,     \* m_is_running
    stage,       \* the function of heartbeat that is next
    todo,        \* the sessions that heartbeat has yet to come to
    told,        \* history: the connections the network reported as closed
    sent,        \* history: messages networkReceviedMsg has put, by connection
    served       \* history: messages whose handlers have run, in order

network == <<phase, told, sent>>
queues  == <<newConn, worldMsgs, closedConn, tasks>>
world   == <<session, inbox, allTask, batch, stage, todo, served>>
vars    == <<network, queues, world, running>>

Net == INSTANCE ConnEvents

Registered(c) == session[c] \in {"UNLOGIN", "CLOSED"}

Init ==
    /\ Net!Init
    /\ newConn = {} /\ worldMsgs = << >> /\ closedConn = {} /\ tasks = << >>
    /\ session = [c \in Conns |-> "none"]
    /\ inbox = [c \in Conns |-> << >>] /\ allTask = << >> /\ batch = << >>
    /\ running = FALSE /\ stage = "init" /\ todo = {}
    /\ told = {}
    /\ sent = [c \in Conns |-> 0]
    /\ served = [c \in Conns |-> << >>]

----------------------------------------------------------------------------
(* The network's thread *)

NetworkAccept(c) ==
    /\ Net!Accepted(c)
    /\ newConn' = newConn \cup {c}
    /\ UNCHANGED <<told, sent, worldMsgs, closedConn, tasks, world, running>>

NetworkReceviedMsg(c) ==
    /\ Net!Received(c)
    /\ sent[c] + 1 \in DOMAIN Needs[c]
    /\ sent' = [sent EXCEPT ![c] = @ + 1]
    /\ worldMsgs' = Append(worldMsgs, <<c, sent'[c]>>)
    /\ UNCHANGED <<told, newConn, closedConn, tasks, world, running>>

\* networkClosed and networkTimeout, or no call at all when the server shuts
\* the connection down (NetworkService::shutdownHdl).
NetworkClosed(c) ==
    /\ Net!Closed(c)
    /\ \/ /\ closedConn' = closedConn \cup {c}
          /\ told' = told \cup {c}
       \/ UNCHANGED <<closedConn, told>>
    /\ UNCHANGED <<sent, newConn, worldMsgs, tasks, world, running>>

\* postTask, called by any thread.
Queued(t) == \E i \in DOMAIN tasks : tasks[i] = t
PostTask(t) ==
    /\ ~ Queued(t)
    /\ tasks' = Append(tasks, t)

PostFromOutside(t) ==
    /\ PostTask(t)
    /\ UNCHANGED <<network, newConn, worldMsgs, closedConn, world, running>>

Stop ==
    /\ running' = FALSE
    /\ UNCHANGED <<network, queues, world>>

----------------------------------------------------------------------------
(* The world's thread *)

Start ==
    /\ stage = "init"
    /\ running' = TRUE
    /\ stage' = "new"
    /\ UNCHANGED <<network, queues, session, inbox, allTask, batch, todo, served>>

\* Mutant: the container is copied, not swapped out.
ProcessNewConn_Copies ==
    /\ stage = "new" /\ running
    /\ session' = [c \in Conns |-> IF c \in newConn /\ ~ Registered(c) THEN "UNLOGIN"
                                   ELSE session[c]]
    /\ stage' = "closed"
    /\ UNCHANGED <<network, queues, inbox, allTask, batch, todo, served, running>>
ProcessNewConn ==
    /\ stage = "new" /\ running
    /\ session' = [c \in Conns |-> IF c \in newConn /\ ~ Registered(c) THEN "UNLOGIN"
                                   ELSE session[c]]
    /\ newConn' = {}
    /\ stage' = "closed"
    /\ UNCHANGED <<network, worldMsgs, closedConn, tasks, inbox, allTask, batch, todo, served, running>>

\* Mutant: what has come in the meantime is cleared as well, unseen.
ProcessClosedConn_Forgets ==
    /\ stage = "closed"
    /\ session' = session
    /\ closedConn' = {}
    /\ stage' = "task"
    /\ UNCHANGED <<network, newConn, worldMsgs, tasks, inbox, allTask, batch, todo, served, running>>
ProcessClosedConn ==
    /\ stage = "closed"
    /\ session' = [c \in Conns |-> IF c \in closedConn /\ Registered(c) THEN "CLOSED"
                                   ELSE session[c]]
    /\ closedConn' = {}
    /\ stage' = "task"
    /\ UNCHANGED <<network, newConn, worldMsgs, tasks, inbox, allTask, batch, todo, served, running>>

ProcessTask ==
    /\ stage = "task"
    /\ allTask' = tasks
    /\ tasks' = << >>
    /\ stage' = IF tasks = << >> THEN "dispatch" ELSE "run"
    /\ UNCHANGED <<network, newConn, worldMsgs, closedConn, session, inbox, batch, todo, served, running>>

\* The first task that is left: it may post one, itself included, and may have
\* a session of the world shut down.
\* Mutant: m_task is cleared after the tasks have run, not before.
RunTask_Clears ==
    /\ stage = "run"
    /\ allTask # << >>
    /\ allTask' = Tail(allTask)
    /\ tasks' = IF allTask' = << >> THEN << >> ELSE tasks
    /\ stage' = IF allTask' = << >> THEN "dispatch" ELSE "run"
    /\ UNCHANGED <<network, newConn, worldMsgs, closedConn, session, inbox, batch, todo, served, running>>
RunTask ==
    /\ stage = "run"
    /\ allTask # << >>
    /\ allTask' = Tail(allTask)
    /\ UNCHANGED tasks \/ \E t \in Tasks : PostTask(t)
    /\ stage' = IF allTask' = << >> THEN "dispatch" ELSE "run"
    /\ \/ UNCHANGED closedConn
       \/ \E c \in Conns : Registered(c) /\ closedConn' = closedConn \cup {c}
    /\ UNCHANGED <<network, newConn, worldMsgs, session, inbox, batch, todo, served, running>>

\* WorldMsgFilter: whether a message may go to the session.
\* Mutant: a message that any state may send is not let through.
Passes_IgnoreDropped(m) ==
    /\ Registered(m[1])
    /\ Needs[m[1]][m[2]] = session[m[1]]
Passes(m) ==
    /\ Registered(m[1])
    /\ Needs[m[1]][m[2]] \in {"IGNORE", session[m[1]]}

DispatchMsg ==
    /\ stage = "dispatch"
    /\ batch' = worldMsgs
    /\ worldMsgs' = << >>
    /\ stage' = "post"
    /\ UNCHANGED <<network, newConn, closedConn, tasks, session, inbox, allTask, todo, served, running>>

\* WorldSession::postMsg
\* Mutant: the message goes to the front of the session's queue.
Posted_First(queue, n) == <<n>> \o queue
Posted(queue, n) == Append(queue, n)

DispatchNext ==
    /\ stage = "post"
    /\ batch # << >>
    /\ LET m == Head(batch) IN
       inbox' = IF Passes(m) THEN [inbox EXCEPT ![m[1]] = Posted(@, m[2])] ELSE inbox
    /\ batch' = Tail(batch)
    /\ UNCHANGED <<network, queues, session, allTask, stage, todo, served, running>>

DispatchEnds ==
    /\ stage = "post"
    /\ batch = << >>
    /\ stage' = "sessions"
    /\ todo' = {c \in Conns : Registered(c)}
    /\ UNCHANGED <<network, queues, session, inbox, allTask, batch, served, running>>

\* WorldSession::heartbeat of an open session: the handlers run, until one of
\* them closes the session; any may ask the world to shut it down.
Handled(c, n) ==
    IF session[c] = "CLOSED" THEN n = 0 ELSE n \in 0 .. Len(inbox[c])

HeartbeatSession(c) ==
    /\ stage = "sessions"
    /\ c \in todo
    /\ \E n \in 0 .. Len(inbox[c]), closes \in BOOLEAN :
          /\ Handled(c, n)
          /\ n < Len(inbox[c]) => closes \/ session[c] = "CLOSED"
          /\ closes => n > 0
          /\ served' = [served EXCEPT ![c] = @ \o SubSeq(inbox[c], 1, n)]
          /\ inbox' = [inbox EXCEPT ![c] = << >>]
          /\ session' = [session EXCEPT ![c] =
                            IF closes \/ session[c] = "CLOSED" THEN "erased" ELSE @]
          /\ closedConn' \in IF n > 0 THEN {closedConn, closedConn \cup {c}} ELSE {closedConn}
    /\ todo' = todo \ {c}
    /\ UNCHANGED <<network, newConn, worldMsgs, tasks, allTask, batch, stage, running>>

HeartbeatEnds ==
    /\ stage = "sessions"
    /\ todo = {}
    /\ stage' = "new"
    /\ UNCHANGED <<network, queues, session, inbox, allTask, batch, todo, served, running>>

Run ==
    \/ ProcessNewConn
    \/ ProcessClosedConn
    \/ ProcessTask \/ RunTask
    \/ DispatchMsg \/ DispatchNext \/ DispatchEnds
    \/ \E c \in Conns : HeartbeatSession(c)
    \/ HeartbeatEnds

Next ==
    \/ \E c \in Conns : NetworkAccept(c) \/ NetworkReceviedMsg(c) \/ NetworkClosed(c)
    \/ \E t \in Tasks : PostFromOutside(t)
    \/ Stop
    \/ Start
    \/ Run

Spec == Init /\ [][Next]_vars

\* Only the world's thread must go on.
FairSpec == Spec /\ WF_vars(Start) /\ WF_vars(Run)

----------------------------------------------------------------------------
(* Properties *)

Message == Conns \X Nat

TypeOK ==
    /\ phase \in [Conns -> {"none", "open", "closed", "over"}]
    /\ newConn \subseteq Conns /\ closedConn \subseteq Conns /\ told \subseteq Conns
    /\ worldMsgs \in Seq(Message) /\ batch \in Seq(Message)
    /\ tasks \in Seq(Tasks) /\ allTask \in Seq(Tasks)
    /\ session \in [Conns -> {"none", "UNLOGIN", "CLOSED", "erased"}]
    /\ inbox \in [Conns -> Seq(Nat)] /\ served \in [Conns -> Seq(Nat)]
    /\ sent \in [Conns -> Nat]
    /\ running \in BOOLEAN
    /\ stage \in {"init", "new", "closed", "task", "run", "dispatch", "post", "sessions"}
    /\ todo \subseteq Conns

Increasing(s) == \A i, j \in DOMAIN s : i < j => s[i] < s[j]

\* A session's handlers run in the order of its messages and once for each,
\* whatever dispatchMsg filters out and wherever heartbeat is when they come.
ServedInOrder == \A c \in Conns : Increasing(served[c])

\* m_new_conn gives a connection one session: after heartbeat has erased it
\* none is made again.
OneSession ==
    [][\A c \in Conns : session[c] = "erased" => session'[c] = "erased"]_vars

\* A connection that is reported closed, or that a handler asked the world to
\* shut down, loses its session, if it has one by then and the world goes on.
ClosedGoes ==
    \A c \in Conns : (c \in closedConn /\ Registered(c)) ~> (~ Registered(c) \/ ~ running)

\* A message that the filter lets through is served, unless its session is
\* closed or the world is stopped first.
MessageServed ==
    \A c \in Conns : \A n \in DOMAIN Needs[c] :
        (/\ \E i \in DOMAIN worldMsgs : worldMsgs[i] = <<c, n>>
         /\ session[c] = "UNLOGIN"
         /\ Needs[c][n] \in {"IGNORE", "UNLOGIN"})
            ~> (\/ \E i \in DOMAIN served[c] : served[c][i] = n
                \/ session[c] # "UNLOGIN"
                \/ ~ running)

\* A task that is posted runs unless the world is stopped first, though it be
\* posted by another task, or by itself, while processTask works through the
\* ones it has taken.
TaskRuns ==
    \A t \in Tasks :
        Queued(t) ~> (\/ stage = "run" /\ allTask # << >> /\ Head(allTask) = t
                      \/ ~ running)

\* World.h:62 says of m_closed_conn that it holds the closed connections that
\* are not handled yet: one that was reported and is no longer there has been
\* handled, so that no session is open on it.
NoSessionOnClosed ==
    \A c \in told : c \notin closedConn => session[c] # "UNLOGIN"
============================================================================
