---------------------------- MODULE EventServer ----------------------------
(***************************************************************************)
(* The libevent server of src/eventserver.                                 *)
(*                                                                         *)
(* One thread runs the event loop and owns the sessions.  Any thread may   *)
(* call sendResponse, shutdownSession and shutdown; the first two put a    *)
(* task into m_event_tasks and a byte into the pipe that wakes the loop.   *)
(* Tasks name a session by its file descriptor and a number, since the     *)
(* system gives a closed descriptor to the next connection.                *)
(*                                                                         *)
(* Assumed of the application: start is called again only after it has     *)
(* returned.  A response is written whole or not at all.                   *)
(***************************************************************************)
EXTENDS Integers, Sequences, FiniteSets

CONSTANTS
    Fds,           \* the descriptors the system has for connections
    ReadMax,       \* the bytes onReadPipe takes at once, 1024
    PipeSize,      \* the bytes the pipe holds
    SeqMax,        \* INT32_MAX
    MaxConns,      \* bound: connections
    MaxResponses,  \* bound: calls of sendResponse
    MaxShuts,      \* bound: calls of shutdownSession by the application
    MaxStarts      \* bound: calls of start

Conns == 1 .. MaxConns
Responses == 1 .. MaxResponses

\* The numbers of sessions do not come round while the program is observed.
ASSUME EventAssumption ==
    /\ Fds # {}
    /\ \A n \in {ReadMax, PipeSize, SeqMax} : n \in Nat \ {0}
    /\ \A n \in {MaxConns, MaxResponses, MaxShuts, MaxStarts} : n \in Nat
    /\ MaxConns <= SeqMax

VARIABLES
    listening,  \* m_listen_fd: "none", "ok", or "bad" if listen failed late
    running,    \* m_is_running
    loop,       \* event_base_dispatch: "off", "poll", or in executeTask
    exiting,    \* event_base_loopexit has been called
    tasks,      \* m_event_tasks
    bytes,      \* the bytes in the pipe the loop reads
    made,       \* the sessions made so far, which m_seq_id counts
    live,       \* m_sessions: their connections
    sess,       \* each session's fields
    failed      \* the connections whose writes may fail

\* History: the tasks that were there when the loop started, the responses
\* given for each connection and written to it, and the calls made so far.
VARIABLES old, given, got, sent, shuts, starts

loopVars == <<listening, running, exiting, starts>>
vars == <<listening, running, loop, exiting, tasks, bytes, made, live, sess,
          failed, old, given, got, sent, shuts, starts>>

----------------------------------------------------------------------------
\* A session: its descriptor, m_shutdown, m_wait_writen, whether m_read_ev
\* is pending, and m_send_buffer.
NewSession(f) ==
    [fd |-> f, shutdown |-> FALSE, wait |-> FALSE, reading |-> TRUE, out |-> << >>]

Init ==
    /\ listening = "none"
    /\ running = FALSE
    /\ loop = "off"
    /\ exiting = FALSE
    /\ tasks = << >>
    /\ bytes = 0
    /\ made = 0
    /\ live = {}
    /\ sess = [c \in Conns |-> NewSession(CHOOSE f \in Fds : TRUE)]
    /\ failed = {}
    /\ old = 0
    /\ given = [c \in Conns |-> << >>]
    /\ got = [c \in Conns |-> << >>]
    /\ sent = 0
    /\ shuts = 0
    /\ starts = 0

\* EventSessionID of connection c, whose session is the c-th createSession made.
SeqId(c) == ((c - 1) % SeqMax) + 1
Sid(c) == <<sess[c].fd, SeqId(c)>>

\* Mutant: the descriptor alone names the session.
FindSession_ByFd(sid) == {c \in live : sess[c].fd = sid[1]}
FindSession(sid) == {c \in live : Sid(c) = sid}

ShutdownTask(c) == [kind |-> "shutdown", sid |-> Sid(c), resp |-> 0]
SendTask(c, r)  == [kind |-> "send", sid |-> Sid(c), resp |-> r]

Least(m, n) == IF m <= n THEN m ELSE n

\* A byte for each new task.  Nobody reads it unless the loop runs; none goes
\* into a full pipe.
Signal(n) == bytes' = IF loop = "off" THEN bytes ELSE Least(bytes + n, PipeSize)
SubmitTask(queue, new) == tasks' = queue \o new /\ Signal(Len(new))

----------------------------------------------------------------------------
(* Any thread. *)

\* After a late failure m_listen_fd keeps the number of the closed socket.
Listen ==
    /\ ~ running
    /\ listening = "none"
    /\ listening' \in {"ok", "bad"}
    /\ UNCHANGED <<running, loop, exiting, tasks, bytes, made, live, sess,
                   failed, old, given, got, sent, shuts, starts>>

\* The loop gets a new pipe: what was sent to the former one is not read.
Start ==
    /\ starts < MaxStarts
    /\ ~ running
    /\ loop = "off"
    /\ running' = TRUE
    /\ starts' = starts + 1
    /\ loop' = IF listening = "none" THEN "off" ELSE "poll"
    /\ old' = Len(tasks)
    /\ UNCHANGED <<listening, exiting, tasks, bytes, made, live, sess, failed,
                   given, got, sent, shuts>>

Shutdown ==
    /\ running
    /\ running' = FALSE
    /\ exiting' = TRUE
    /\ Signal(1)
    /\ UNCHANGED <<listening, loop, tasks, made, live, sess, failed, old,
                   given, got, sent, shuts, starts>>

SendResponse(c) ==
    /\ sent < MaxResponses
    /\ sent' = sent + 1
    /\ given' = [given EXCEPT ![c] = Append(@, sent + 1)]
    /\ SubmitTask(tasks, <<SendTask(c, sent + 1)>>)
    /\ UNCHANGED <<loopVars, loop, made, live, sess, failed, old, got, shuts>>

ShutdownSession(c) ==
    /\ shuts < MaxShuts
    /\ shuts' = shuts + 1
    /\ SubmitTask(tasks, <<ShutdownTask(c)>>)
    /\ UNCHANGED <<loopVars, loop, made, live, sess, failed, old, given, got, sent>>

\* The client resets the connection: writes fail from some moment on.
Fail(c) ==
    /\ c \in live
    /\ failed' = failed \cup {c}
    /\ UNCHANGED <<loopVars, loop, tasks, bytes, made, live, sess, old, given,
                   got, sent, shuts>>

----------------------------------------------------------------------------
(* The event loop's callbacks. *)

\* m_max_clients is not looked at.
OnAccept ==
    /\ loop = "poll"
    /\ listening = "ok"
    /\ made < MaxConns
    /\ \E f \in Fds \ {sess[c].fd : c \in live} :
        sess' = [sess EXCEPT ![made + 1] = NewSession(f)]
    /\ made' = made + 1
    /\ live' = live \cup {made + 1}
    /\ UNCHANGED <<loopVars, loop, tasks, bytes, failed, old, given, got, sent, shuts>>

\* A message, whose handler may answer, re-arms m_read_ev.  The end of the
\* input, an error, a message that cannot be decoded and a timeout do not.
OnRead(c) ==
    /\ loop = "poll"
    /\ c \in live
    /\ sess[c].reading
    /\ \/ ~ sess[c].shutdown /\ SendResponse(c)
       \/ /\ sess' = [sess EXCEPT ![c].reading = FALSE, ![c].shutdown = TRUE]
          /\ SubmitTask(tasks, IF sess[c].shutdown THEN << >> ELSE <<ShutdownTask(c)>>)
          /\ UNCHANGED <<loopVars, loop, made, live, failed, old, given, got, sent, shuts>>

\* onWrite once it has written n responses: the others wait for the client,
\* or stay for ever because of an error, which shuts the session down.
Written(s, n, error) ==
    LET rest == SubSeq(s.out, n + 1, Len(s.out)) IN
    [s EXCEPT !.out = rest,
              !.wait = rest # << >> /\ ~ error,
              !.shutdown = @ \/ error]

\* The task of EventSession::shutdown, and the one at the end of onWrite.
\* Mutant: onWrite does not look whether the session was waiting to close.
TasksOfWrite_NoRelease(c, s, t) ==
    IF t.shutdown /\ ~ s.shutdown THEN <<ShutdownTask(c)>> ELSE << >>
TasksOfWrite(c, s, t) ==
    (IF t.shutdown /\ ~ s.shutdown THEN <<ShutdownTask(c)>> ELSE << >>) \o
    (IF t.shutdown /\ ~ t.wait THEN <<ShutdownTask(c)>> ELSE << >>)

\* onWrite of a session that is s by then, while the queue is as given.
Write(c, s, queue, n, error) ==
    /\ error => c \in failed /\ n < Len(s.out)
    /\ LET t == Written(s, n, error) IN
       /\ sess' = [sess EXCEPT ![c] = t]
       /\ SubmitTask(queue, TasksOfWrite(c, s, t))
    /\ got' = [got EXCEPT ![c] = @ \o SubSeq(s.out, 1, n)]
    /\ UNCHANGED <<loopVars, made, live, failed, given, sent, shuts>>

\* The write event: the client has made room, or writing fails.
OnWrite(c) ==
    /\ loop = "poll"
    /\ c \in live
    /\ sess[c].wait
    /\ \E n \in 0 .. Len(sess[c].out), error \in BOOLEAN :
        /\ n > 0 \/ error
        /\ Write(c, sess[c], tasks, n, error)
    /\ UNCHANGED <<loop, old>>

OnReadPipe ==
    /\ loop = "poll"
    /\ bytes > 0
    /\ bytes' = bytes - Least(bytes, ReadMax)
    /\ loop' = "tasks"
    /\ UNCHANGED <<loopVars, tasks, made, live, sess, failed, old, given, got, sent, shuts>>

\* EventSendTask::run.  asyncWrite does nothing while a write event is pending.
RunSend(c, r, queue) ==
    LET s == [sess[c] EXCEPT !.out = Append(@, r)] IN
    IF s.wait
    THEN /\ sess' = [sess EXCEPT ![c] = s]
         /\ SubmitTask(queue, << >>)
         /\ UNCHANGED <<loopVars, made, live, failed, given, got, sent, shuts>>
    ELSE \E n \in 0 .. Len(s.out), error \in BOOLEAN : Write(c, s, queue, n, error)

\* EventSession::release: a session that waits to write stays for now.
\* Mutant: it goes all the same.
Released_AtOnce(c) == live \ {c}
Released(c) == IF sess[c].wait THEN live ELSE live \ {c}

\* EventShutdownSessionTask::run
RunShutdown(c, queue) ==
    /\ sess' = [sess EXCEPT ![c].shutdown = TRUE]
    /\ live' = Released(c)
    /\ SubmitTask(queue, << >>)
    /\ UNCHANGED <<loopVars, made, failed, given, got, sent, shuts>>

\* A task of a session that is gone, or a response to a closed one.
RunNothing(queue) ==
    /\ SubmitTask(queue, << >>)
    /\ UNCHANGED <<loopVars, made, live, sess, failed, given, got, sent, shuts>>

RunTask(task, queue) ==
    LET found == FindSession(task.sid)
        deaf  == task.kind = "send" /\ \A c \in found : sess[c].shutdown
    IN  IF found = {} \/ deaf THEN RunNothing(queue)
        ELSE \E c \in found : IF task.kind = "send" THEN RunSend(c, task.resp, queue)
                              ELSE RunShutdown(c, queue)

\* One round of executeTask's loop, which ends with the queue empty.
\* Mutant: a task for every wake-up.
AfterTask_One == "poll"
AfterTask == "tasks"

ExecuteTask ==
    /\ loop = "tasks"
    /\ IF tasks = << >>
       THEN /\ loop' = "poll"
            /\ UNCHANGED <<loopVars, tasks, bytes, made, live, sess, failed,
                           old, given, got, sent, shuts>>
       ELSE /\ loop' = AfterTask
            /\ old' = IF old = 0 THEN 0 ELSE old - 1
            /\ RunTask(Head(tasks), Tail(tasks))

\* service returns.
LoopExit ==
    /\ loop = "poll"
    /\ exiting
    /\ loop' = "off"
    /\ exiting' = FALSE
    /\ bytes' = 0
    /\ UNCHANGED <<listening, running, tasks, made, live, sess, failed, old,
                   given, got, sent, shuts, starts>>

Next ==
    \/ Listen \/ Start \/ Shutdown
    \/ OnAccept \/ OnReadPipe \/ ExecuteTask \/ LoopExit
    \/ \E c \in 1 .. made :
        SendResponse(c) \/ ShutdownSession(c) \/ Fail(c) \/ OnRead(c) \/ OnWrite(c)

Spec == Init /\ [][Next]_vars

\* libevent runs the callbacks of what is ready.  A client reads what it is
\* sent or its connection fails: the write event has no timeout.
Fairness ==
    /\ WF_vars(OnReadPipe)
    /\ WF_vars(ExecuteTask)
    /\ \A c \in Conns : WF_vars(OnWrite(c))

FairSpec == Spec /\ Fairness

----------------------------------------------------------------------------
Session == [fd : Fds, shutdown : BOOLEAN, wait : BOOLEAN, reading : BOOLEAN,
            out : Seq(Responses)]
Task == [kind : {"send"}, sid : Fds \X Nat, resp : Responses] \cup
        [kind : {"shutdown"}, sid : Fds \X Nat, resp : {0}]

TypeOK ==
    /\ listening \in {"none", "ok", "bad"}
    /\ loop \in {"off", "poll", "tasks"}
    /\ running \in BOOLEAN /\ exiting \in BOOLEAN
    /\ tasks \in Seq(Task)
    /\ bytes \in 0 .. PipeSize
    /\ made \in 0 .. MaxConns
    /\ live \subseteq 1 .. made
    /\ sess \in [Conns -> Session]
    /\ failed \subseteq Conns
    /\ old \in Nat
    /\ given \in [Conns -> Seq(Responses)]
    /\ got \in [Conns -> Seq(Responses)]
    /\ sent \in 0 .. MaxResponses
    /\ shuts \in 0 .. MaxShuts
    /\ starts \in 0 .. MaxStarts

\* A task submitted since the loop started does not wait in the queue while
\* the loop sleeps: each wake-up either empties the queue or leaves a byte.
\* Those submitted before it started (to no pipe, or the former one) may wait.
NoTaskStranded == loop = "poll" /\ Len(tasks) > old => bytes > 0

\* A session that is closed while the loop runs is deleted, its last responses
\* written or not, unless the loop stops first or the queue it started with
\* has not been looked at.
ClosedGoes ==
    \A c \in Conns :
        (c \in live /\ sess[c].shutdown /\ loop # "off" /\ old = 0)
            ~> (c \notin live \/ loop = "off")

R == INSTANCE Replies WITH
    state <- [c \in Conns |->
                IF c > made THEN "none"
                ELSE IF c \notin live THEN "gone"
                ELSE IF sess[c].shutdown THEN "closing" ELSE "open"],
    taken <- [c \in Conns |-> got[c] \o sess[c].out]

\* Descriptors are reused, sessions close while tasks and writes of theirs are
\* pending, and yet every client gets its own responses, in order and without
\* a gap, and all that were taken on before its session goes.
ImplementsReplies == R!Spec
============================================================================
