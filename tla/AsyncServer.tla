---------------------------- MODULE AsyncServer ----------------------------
(***************************************************************************)
(* The network of the game and login servers: AsyncServer and RWHandler of *)
(* src/network/v1 with the servers' ServerHandler and NetworkService.      *)
(*                                                                         *)
(* One thread runs the io_service: a handler of boost::asio is a step, and *)
(* what the kernel does to a socket or a timer, which only makes a handler *)
(* ready, is another.  So a timer may have expired when the read that it   *)
(* guards completes, and a read may have completed when a write fails.     *)
(* Other threads only post to the io_service, or stop it.                  *)
(***************************************************************************)
EXTENDS Integers, Sequences, FiniteSets

CONSTANTS
    Conns,     \* the connections that clients make
    MaxConn,   \* m_max_connection; 0 is no limit
    Timed,     \* m_timeout_seconds > 0
    MaxMsgs,   \* bound: messages each client sends
    MaxSends   \* bound: messages sent to each client

ASSUME ServerAssumption ==
    /\ IsFiniteSet(Conns)
    /\ MaxConn \in Nat
    /\ MaxMsgs \in [Conns -> Nat] /\ MaxSends \in [Conns -> Nat]
    /\ Timed \in BOOLEAN

VARIABLES
    handlers,   \* m_handlers
    hd,         \* the RWHandler of each connection
    accepting,  \* an async_accept is outstanding
    running,    \* the io_service has not been stopped
    refused,    \* history: the connections refused
    log,        \* history: what the world was told of each connection, in
                \* order; "silent" is a close that it is not told of
    sends       \* the messages sendMsg was given, for their bound

vars == <<handlers, hd, accepting, running, refused, log, sends>>

Silent == 0     \* the handler posted by shutdown(); a message is its handler

Told(c, event) == log' = [log EXCEPT ![c] = Append(@, event)]
Received(c) ==
    Cardinality({i \in DOMAIN log[c] : log[c][i] = "message"})

\* setTimeoutTimer for the read that starts.
\* Mutant: the timer is set for the head only.
ReadBody_Untimed(d) == [d EXCEPT !.read = "body", !.ready = "no"]
ReadBody(d) == [d EXCEPT !.read = "body", !.ready = "no", !.timer = Timed]
ReadHead(d) == [d EXCEPT !.read = "head", !.ready = "no", !.timer = Timed]

NewHandler ==
    ReadHead([isClosed |-> FALSE, read |-> "none", ready |-> "no",
              timer |-> FALSE, expired |-> FALSE, posted |-> << >>,
              wbuf |-> << >>, write |-> "idle"])

Init ==
    /\ handlers = {} /\ accepting = TRUE /\ running = TRUE /\ refused = {}
    /\ hd = [c \in Conns |-> [NewHandler EXCEPT !.read = "none", !.timer = FALSE]]
    /\ log = [c \in Conns |-> << >>]
    /\ sends = [c \in Conns |-> 0]

----------------------------------------------------------------------------
(* AsyncServer *)

OpenConns == {c \in Conns : log[c] # << >> /\ ~ hd[c].isClosed}

\* createHandler's limit.  Mutant: one connection too many.
Full_Late == MaxConn # 0 /\ Cardinality(handlers) > MaxConn
Full == MaxConn # 0 /\ Cardinality(handlers) >= MaxConn

\* The handler of async_accept without an error.
Accept(c) ==
    /\ running /\ accepting
    /\ log[c] = << >> /\ c \notin refused
    /\ \/ /\ Full
          /\ refused' = refused \cup {c}
          /\ UNCHANGED <<handlers, hd, log>>
       \/ /\ ~ Full
          /\ handlers' = handlers \cup {c}
          /\ hd' = [hd EXCEPT ![c] = NewHandler]
          /\ Told(c, "accept")
          /\ UNCHANGED refused
    /\ UNCHANGED <<accepting, running, sends>>

\* handleAcceptError: no connection is accepted any more.
AcceptError ==
    /\ running /\ accepting
    /\ accepting' = FALSE
    /\ UNCHANGED <<handlers, hd, running, refused, log, sends>>

\* NetworkService::stop, on another thread.
Stop ==
    /\ running
    /\ running' = FALSE
    /\ accepting' = FALSE
    /\ UNCHANGED <<handlers, hd, refused, log, sends>>

\* Mutant: the slot is kept.
StopHandler_Keeps(c) == handlers
StopHandler(c) == handlers \ {c}

----------------------------------------------------------------------------
(* RWHandler: what a handler does, on the connection's d. *)

Continue(c, d) == hd' = [hd EXCEPT ![c] = d] /\ UNCHANGED <<handlers, log>>

\* Mutant: the exchange of m_is_closed is not looked at.
OnClosed_Again(c, d, type) ==
    /\ hd' = [hd EXCEPT ![c] = [d EXCEPT !.isClosed = TRUE]]
    /\ handlers' = StopHandler(c)
    /\ Told(c, type)
OnClosed(c, d, type) ==
    IF d.isClosed THEN Continue(c, d)
    ELSE /\ hd' = [hd EXCEPT ![c] = [d EXCEPT !.isClosed = TRUE]]
         /\ handlers' = StopHandler(c)
         /\ Told(c, type)

\* The kernel: data, or the peer or the socket has been closed.
ReadCompletes(c) ==
    /\ running
    /\ hd[c].read # "none" /\ hd[c].ready = "no"
    /\ \E r \in {"data", "error"} :
          /\ r = "data" => ~ hd[c].isClosed /\ Received(c) < MaxMsgs[c]
          /\ hd' = [hd EXCEPT ![c].ready = r]
    /\ UNCHANGED <<handlers, accepting, running, refused, log, sends>>

\* The handlers of readHead and readBody: the timer is cancelled first, which
\* does nothing to one that has expired.  The length in a head may be bad.
ReadHandler(c) ==
    LET d == [hd[c] EXCEPT !.timer = FALSE, !.read = "none", !.ready = "no"] IN
    /\ running
    /\ \/ /\ hd[c].ready = "error"
          /\ OnClosed(c, d, "closed")
       \/ /\ hd[c].ready = "data" /\ hd[c].read = "head"
          /\ Continue(c, ReadBody(d)) \/ OnClosed(c, d, "closed")
       \/ /\ hd[c].ready = "data" /\ hd[c].read = "body"
          /\ Told(c, "message")
          /\ hd' = [hd EXCEPT ![c] = ReadHead(d)]
          /\ UNCHANGED handlers
    /\ UNCHANGED <<accepting, running, refused, sends>>

TimerExpires(c) ==
    /\ running
    /\ hd[c].timer
    /\ hd' = [hd EXCEPT ![c].timer = FALSE, ![c].expired = TRUE]
    /\ UNCHANGED <<handlers, accepting, running, refused, log, sends>>

TimeoutHandler(c) ==
    /\ running
    /\ hd[c].expired
    /\ OnClosed(c, [hd[c] EXCEPT !.expired = FALSE], "timeout")
    /\ UNCHANGED <<accepting, running, refused, sends>>

\* A ConnectionHdl can be locked while m_handlers or a handler of boost::asio
\* keeps the RWHandler.
Alive(c) ==
    \/ c \in handlers
    \/ hd[c].read # "none" \/ hd[c].timer \/ hd[c].expired
    \/ hd[c].posted # << >> \/ hd[c].write # "idle"

\* NetworkService::sendMessage and RWHandler::sendMsg, on any thread.
SendMsg(c) ==
    /\ Alive(c)
    /\ sends[c] < MaxSends[c]
    /\ sends' = [sends EXCEPT ![c] = @ + 1]
    /\ hd' = [hd EXCEPT ![c].posted = Append(@, sends'[c])]
    /\ UNCHANGED <<handlers, accepting, running, refused, log>>

\* NetworkService::shutdownHdl and RWHandler::shutdown; one posted at a time.
Shutdown(c) ==
    /\ Alive(c) /\ ~ hd[c].isClosed
    /\ \A i \in DOMAIN hd[c].posted : hd[c].posted[i] # Silent
    /\ hd' = [hd EXCEPT ![c].posted = Append(@, Silent)]
    /\ UNCHANGED <<handlers, accepting, running, refused, log, sends>>

\* sendMsg's handler: a write is started unless one is outstanding.
\* Mutant: the queue is looked at when the message is in it.
Queued_TestedLate(d, m) == [d EXCEPT !.wbuf = Append(@, m)]
Queued(d, m) ==
    [d EXCEPT !.wbuf = Append(@, m),
              !.write = IF d.wbuf = << >> THEN "busy" ELSE @]

RunPosted(c) ==
    /\ running
    /\ hd[c].posted # << >>
    /\ LET m == Head(hd[c].posted)
           d == [hd[c] EXCEPT !.posted = Tail(@)]
       IN  IF m = Silent THEN OnClosed(c, d, "silent")
           ELSE Continue(c, Queued(d, m))
    /\ UNCHANGED <<accepting, running, refused, sends>>

\* The kernel: all is written, or the write fails.
WriteCompletes(c) ==
    /\ running
    /\ hd[c].write = "busy"
    /\ \E w \in {"done", "failed"} :
          /\ w = "done" => ~ hd[c].isClosed
          /\ hd' = [hd EXCEPT ![c].write = w]
    /\ UNCHANGED <<handlers, accepting, running, refused, log, sends>>

WriteHandler(c) ==
    /\ running
    /\ \/ /\ hd[c].write = "failed"
          /\ OnClosed(c, [hd[c] EXCEPT !.write = "idle"], "closed")
       \/ /\ hd[c].write = "done"
          /\ Continue(c, [hd[c] EXCEPT
                 !.wbuf = Tail(@),
                 !.write = IF Len(hd[c].wbuf) > 1 THEN "busy" ELSE "idle"])
    /\ UNCHANGED <<accepting, running, refused, sends>>

Next ==
    \/ AcceptError
    \/ Stop
    \/ \E c \in Conns :
         \/ Accept(c)
         \/ ReadCompletes(c) \/ ReadHandler(c)
         \/ TimerExpires(c) \/ TimeoutHandler(c)
         \/ SendMsg(c) \/ Shutdown(c) \/ RunPosted(c)
         \/ WriteCompletes(c) \/ WriteHandler(c)

Spec == Init /\ [][Next]_vars

\* The io_service's thread runs what is ready, and timers expire.  No peer
\* must send, read or close, and no other thread must call anything.
Fairness ==
    \A c \in Conns :
        WF_vars(ReadHandler(c)) /\ WF_vars(TimerExpires(c)) /\ WF_vars(TimeoutHandler(c))

FairSpec == Spec /\ Fairness

----------------------------------------------------------------------------
(* Properties *)

\* A buffer that is being written holds a message.
RWHandler ==
    {d \in [isClosed : BOOLEAN, read : {"none", "head", "body"},
            ready : {"no", "data", "error"}, timer : BOOLEAN, expired : BOOLEAN,
            posted : Seq(Nat), wbuf : Seq(Nat),
            write : {"idle", "busy", "done", "failed"}] :
        d.write # "idle" => d.wbuf # << >>}

TypeOK ==
    /\ handlers \in SUBSET Conns
    /\ hd \in [Conns -> RWHandler]
    /\ accepting \in BOOLEAN /\ running \in BOOLEAN
    /\ refused \in SUBSET Conns
    /\ log \in [Conns -> Seq({"accept", "message", "closed", "timeout", "silent"})]
    /\ sends \in [Conns -> Nat]

\* The world is told of a connection as ConnEvents says: one accept, messages,
\* at most one close, whichever of the read, the write, the timer and
\* shutdown comes first, and at most one message after it.
Closes(c) == {i \in DOMAIN log[c] : log[c][i] \in {"closed", "timeout", "silent"}}
phaseOf(c) ==
    CASE log[c] = << >> -> "none"
      [] log[c] # << >> /\ Closes(c) = {} -> "open"
      [] Closes(c) = {Len(log[c])} -> "closed"
      [] Closes(c) = {Len(log[c]) - 1} -> "over"
      [] OTHER -> "told too much"
Events == INSTANCE ConnEvents WITH phase <- [c \in Conns |-> phaseOf(c)]
ImplementsConnEvents == Events!Spec

\* createHandler keeps the connections that are open within the limit.
Capacity == MaxConn # 0 => Cardinality(OpenConns) <= MaxConn

\* A connection is refused only if as many as allowed are open: every close
\* gives its place in m_handlers back, and at once.
RefusedOnlyIfFull ==
    [][refused' # refused => Cardinality(OpenConns) >= MaxConn]_vars

\* With a timeout no connection stays for ever when its client falls silent,
\* between two messages or within one.
IdleGoes ==
    \A c \in Conns : (c \in handlers) ~> (~ Timed \/ c \notin handlers \/ ~ running)

\* No message waits for a write that nobody will start: between sendMsg's
\* handler and doWrite's one of them always finds that it is its turn.
NoMessageStuck ==
    \A c \in Conns :
        hd[c].wbuf # << >> => hd[c].write # "idle" \/ hd[c].isClosed
============================================================================
