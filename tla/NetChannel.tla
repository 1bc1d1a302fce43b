---------------------------- MODULE NetChannel ----------------------------
(***************************************************************************)
(* One TCP connection of zysoft/src/network, with a Channel at both ends.  *)
(*                                                                         *)
(* The client's application connects through a TcpConnector, in one of     *)
(* three ways; the server's accept thread hands the socket to a Channel of *)
(* its own.  From then on each Channel belongs to the io thread of its     *)
(* socket: the thread runs, one at a time, the handlers posted by SendMsg  *)
(* and Shutdown and those of completed reads, writes and timers.  A        *)
(* completion and its handler are two steps, so a handler may be queued    *)
(* already when another one closes the socket or cancels the timer.        *)
(*                                                                         *)
(* A message is two pieces on the wire, its head and its body, so that     *)
(* reads and writes may be partial.                                        *)
(***************************************************************************)
EXTENDS Integers, Sequences, SequencesExt

CONSTANTS
    Modes,      \* the connecting functions used: "sync", "async", "waitfor"
    Timed,      \* the ends whose ChannelOption has timeouts
    Asserts,    \* TRUE iff the build keeps assert(), i.e. NDEBUG is not set
    MaxSend     \* bound: messages an end sends after each way to connect

Ends == {"client", "server"}
peer(e) == IF e = "client" THEN "server" ELSE "client"

ASSUME ChannelAssumption ==
    /\ Modes \subseteq {"sync", "async", "waitfor"}
    /\ Timed \subseteq Ends
    /\ Asserts \in BOOLEAN
    /\ MaxSend \in [Modes -> [Ends -> Nat]]

VARIABLES
    ch,        \* the Channel of each end
    pipe,      \* the pieces each end has written and the other not yet read
    sent,      \* history: messages SendMsg took over, in order
    got,       \* history: messages handed to OnReceivedMessage, in order
    conn       \* the connection being set up

vars == <<ch, pipe, sent, got, conn>>

----------------------------------------------------------------------------
(* Channel, as operators on its state. *)

Shutdown_ == 0  \* the handler posted by Shutdown(); a message is its handler
Moved == 0      \* a message that has been moved from
Garbage == 0    \* a message decoded from pieces of two

NewChannel ==
    [opened |-> FALSE, socket |-> "null", posted |-> << >>,
     wbuf |-> << >>, wop |-> "idle", wn |-> 0,
     rop |-> "idle", fixed |-> << >>, rbuf |-> << >>,
     timers |-> {}, expired |-> {},
     closes |-> << >>, batchesAfter |-> 0, stopping |-> FALSE, looping |-> FALSE]

CreateTimer(e, c, t) == IF e \in Timed THEN [c EXCEPT !.timers = @ \cup {t}] ELSE c
TimerCancel(c, t) == [c EXCEPT !.timers = @ \ {t}]

\* Mutants: m_opened is not tested; the socket is left open.
DoClosed_Always(c, type) ==
    [c EXCEPT !.opened = FALSE, !.socket = "closed", !.closes = Append(@, type)]
DoClosed_KeepsSocket(c, type) ==
    IF ~ c.opened THEN c
    ELSE [c EXCEPT !.opened = FALSE, !.closes = Append(@, type)]
DoClosed(c, type) ==
    IF ~ c.opened THEN c
    ELSE [c EXCEPT !.opened = FALSE, !.socket = "closed", !.closes = Append(@, type)]

DoRead(e, c)  == CreateTimer(e, [c EXCEPT !.rop = "busy"], "read")
DoWrite(e, c) == CreateTimer(e, [c EXCEPT !.wop = "busy", !.wn = 0], "write")

ChannelInit(e, c) == DoRead(e, [c EXCEPT !.opened = TRUE, !.socket = "open"])

\* The handler SendMsg posts.
\* Mutants: every message starts a write; the first one starts none.
Queue_AlwaysWrites(e, c, m) == DoWrite(e, [c EXCEPT !.wbuf = Append(@, m)])
Queue_NeverWrites(e, c, m) ==
    LET d == [c EXCEPT !.wbuf = Append(@, m)] IN
    IF Len(d.wbuf) = 2 /\ c.wop = "idle" THEN DoWrite(e, d) ELSE d
Queue(e, c, m) ==
    LET d == [c EXCEPT !.wbuf = Append(@, m)] IN
    IF c.wbuf = << >> THEN DoWrite(e, d) ELSE d

\* DefaultMessageDecoder::Decode: every whole message at the front of the
\* buffer; a head followed by a body that is not its own is garbage.
Whole(b) == Len(b) \div 2
Decoded(b) ==
    [i \in 1 .. Whole(b) |->
        IF b[2 * i - 1][1] = b[2 * i][1] THEN b[2 * i][1] ELSE Garbage]
\* Mutant: the body of the last message stays in the buffer.
Undecoded_KeepsBody(b) ==
    IF Whole(b) = 0 THEN b ELSE SubSeq(b, 2 * Whole(b), Len(b))
Undecoded(b) == SubSeq(b, 2 * Whole(b) + 1, Len(b))

\* TryDecode: the decoder removes a message from the buffer inside an assert,
\* so without assertions its loop never ends.
TryDecode(c) ==
    IF Whole(c.rbuf) > 0 /\ ~ Asserts
    THEN [c EXCEPT !.looping = TRUE]
    ELSE [c EXCEPT
            !.rbuf = Undecoded(@),
            !.batchesAfter = IF Whole(c.rbuf) > 0 /\ ~ c.opened THEN @ + 1 ELSE @]

----------------------------------------------------------------------------
Init ==
    /\ ch = [e \in Ends |-> NewChannel]
    /\ pipe = [e \in Ends |-> << >>]
    /\ sent = [e \in Ends |-> << >>]
    /\ got = [e \in Ends |-> << >>]
    /\ conn = [mode |-> "none", net |-> "idle", caller |-> "idle",
               handler |-> "none", result |-> "none", promise |-> "unset",
               shut |-> FALSE, reset |-> FALSE,
               accept |-> "pending", listening |-> TRUE]

\* Nothing will come from e any more, or nothing will reach it.
Ended(e) == ch[e].socket = "closed" \/ conn.reset \/ conn.shut

(* TcpConnector, on the application's thread and the client's io thread. *)

Connect(mode) ==
    /\ conn.caller = "idle"
    /\ conn' = [conn EXCEPT
            !.mode = mode,
            !.net = "syn",
            !.caller = CASE mode = "sync" -> "blocked"
                         [] mode = "async" -> "returned"
                         [] mode = "waitfor" -> "waiting",
            !.handler = IF mode = "sync" THEN "none" ELSE "pending"]
    /\ UNCHANGED <<ch, pipe, sent, got>>

\* The kernels: the listening socket takes the connection, or it fails.
Handshake ==
    /\ conn.net = "syn"
    /\ \E n \in (IF conn.listening THEN {"established"} ELSE {}) \cup {"refused"} :
          conn' = [conn EXCEPT !.net = n]
    /\ UNCHANGED <<ch, pipe, sent, got>>

Report == IF conn.net = "established" THEN "ok" ELSE "failed"

\* The channel is opened, in the step that reports the connection except in
\* SyncConnectWaitFor.  Mutant: it is not.
InitClient_NotYet == UNCHANGED ch
InitClient ==
    ch' = IF conn.net = "established"
          THEN [ch EXCEPT !["client"] = ChannelInit("client", @)]
          ELSE ch

SyncConnect ==
    /\ conn.caller = "blocked"
    /\ conn.net \in {"established", "refused"}
    /\ InitClient
    /\ conn' = [conn EXCEPT !.caller = "returned", !.result = Report]
    /\ UNCHANGED <<pipe, sent, got>>

AsyncConnect ==
    /\ conn.mode = "async"
    /\ conn.handler = "pending"
    /\ conn.net \in {"established", "refused"}
    /\ InitClient
    /\ conn' = [conn EXCEPT !.handler = "done", !.result = Report]
    /\ UNCHANGED <<pipe, sent, got>>

\* SyncConnectWaitFor's handler: the promise, and then the channel.
WaitForHandler ==
    /\ conn.mode = "waitfor"
    /\ conn.net \in {"established", "refused"}
    /\ \/ /\ conn.handler = "pending"
          /\ conn' = [conn EXCEPT
                !.promise = Report,
                !.handler = IF conn.net = "established" THEN "init" ELSE "done"]
          /\ UNCHANGED ch
       \/ /\ conn.handler = "init"
          /\ conn' = [conn EXCEPT !.handler = "done"]
          /\ InitClient
    /\ UNCHANGED <<pipe, sent, got>>

\* Its caller: the promise is kept in time, or not; in the second case the
\* socket is shut down, which does nothing while it is not connected.
WaitForCaller ==
    /\ \/ /\ conn.caller = "waiting"
          /\ conn.promise # "unset"
          /\ conn' = [conn EXCEPT !.caller = "returned", !.result = conn.promise]
       \/ /\ conn.caller = "waiting"
          /\ conn.promise = "unset"
          /\ conn' = [conn EXCEPT !.caller = "expired"]
       \/ /\ conn.caller = "expired"
          /\ conn' = [conn EXCEPT !.caller = "returned", !.result = "failed",
                                  !.shut = (conn.net = "established")]
    /\ UNCHANGED <<ch, pipe, sent, got>>

(* TcpServer, on its accept thread. *)

DoAccept ==
    /\ conn.accept = "pending"
    /\ conn.net = "established"
    /\ conn' = [conn EXCEPT !.accept = "opened"]
    /\ ch' = [ch EXCEPT !["server"] = ChannelInit("server", @)]
    /\ UNCHANGED <<pipe, sent, got>>

OnAccept ==
    /\ conn.accept = "opened"
    /\ conn' = [conn EXCEPT !.accept = "accepted"]
    /\ UNCHANGED <<ch, pipe, sent, got>>

\* The pending accept is cancelled, unless it has completed already; a
\* connection that the kernel had accepted is reset with the acceptor.
StopAccept ==
    /\ conn.listening
    /\ \E a \in (IF conn.accept = "pending" THEN {"cancelled"} ELSE {conn.accept})
                \cup (IF conn.net = "established" THEN {conn.accept} ELSE {}) :
          conn' = [conn EXCEPT
                !.listening = FALSE,
                !.accept = a,
                !.reset = (conn.net = "established" /\ a = "cancelled")]
    /\ UNCHANGED <<ch, pipe, sent, got>>

----------------------------------------------------------------------------
(* The application of each end, on any thread. *)

\* A client sends once it is told that it is connected, a server once it has
\* been given the channel by a callback.
MaySend(e) ==
    IF e = "client" THEN conn.result = "ok"
    ELSE conn.accept = "accepted" \/ got[e] # << >>

\* Without a socket SendMsg returns and the message is dropped: nothing happens.
SendMsg(e) ==
    /\ MaySend(e)
    /\ Len(sent[e]) < MaxSend[conn.mode][e]
    /\ ch[e].socket # "null"
    /\ LET m == Len(sent[e]) + 1 IN
       /\ ch' = [ch EXCEPT ![e].posted = Append(@, m)]
       /\ sent' = [sent EXCEPT ![e] = Append(@, m)]
    /\ UNCHANGED <<pipe, got, conn>>

Shutdown(e) ==
    /\ MaySend(e)
    /\ ch[e].socket # "null"
    /\ ~ ch[e].stopping
    /\ ch' = [ch EXCEPT ![e].posted = Append(@, Shutdown_), ![e].stopping = TRUE]
    /\ UNCHANGED <<pipe, sent, got, conn>>

----------------------------------------------------------------------------
(* The io thread of each end: completions, and then their handlers. *)

Run(e, c) == /\ ~ ch[e].looping
             /\ ch' = [ch EXCEPT ![e] = c]

RunPosted(e) ==
    /\ ch[e].posted # << >>
    /\ LET h == Head(ch[e].posted)
           c == [ch[e] EXCEPT !.posted = Tail(@)]
       IN  Run(e, IF h = Shutdown_ THEN DoClosed(c, "Active") ELSE Queue(e, c, h))
    /\ UNCHANGED <<pipe, sent, got, conn>>

\* async_read_some: some of what has arrived, or an error: the socket is
\* closed, or the other end is gone and what it wrote is read or lost.
ReadCompletes(e) ==
    /\ ch[e].rop = "busy"
    /\ \/ /\ ch[e].socket = "open"
          /\ \E n \in 1 .. Len(pipe[peer(e)]) :
                /\ ch' = [ch EXCEPT ![e].rop = "data",
                                    ![e].fixed = SubSeq(pipe[peer(e)], 1, n)]
                /\ pipe' = [pipe EXCEPT ![peer(e)] = SubSeq(@, n + 1, Len(@))]
       \/ /\ ch[e].socket = "closed" \/ Ended(peer(e))
          /\ ch' = [ch EXCEPT ![e].rop = "failed"]
          /\ UNCHANGED pipe
    /\ UNCHANGED <<sent, got, conn>>

ReadHandler(e) ==
    LET c == TimerCancel([ch[e] EXCEPT !.rop = "idle"], "read")
        d == [c EXCEPT !.rbuf = @ \o c.fixed, !.fixed = << >>]
    IN  /\ \/ /\ ch[e].rop = "failed"
              /\ Run(e, DoClosed(c, "Read"))
              /\ UNCHANGED got
           \/ /\ ch[e].rop = "data"
              /\ Run(e, LET t == TryDecode(d) IN IF t.looping THEN t ELSE DoRead(e, t))
              /\ got' = [got EXCEPT ![e] = IF Asserts THEN @ \o Decoded(d.rbuf) ELSE @]
        /\ UNCHANGED <<pipe, sent, conn>>

\* async_write of the first message of the buffer, piece by piece.
WriteProgress(e) ==
    /\ ch[e].wop = "busy"
    /\ \/ /\ ch[e].socket = "open"
          /\ pipe' = [pipe EXCEPT ![e] = Append(@, <<Head(ch[e].wbuf), ch[e].wn + 1>>)]
          /\ ch' = [ch EXCEPT ![e].wn = @ + 1,
                              ![e].wop = IF ch[e].wn = 1 THEN "done" ELSE "busy"]
       \/ /\ ch[e].socket = "closed" \/ Ended(peer(e))
          /\ ch' = [ch EXCEPT ![e].wop = "failed"]
          /\ UNCHANGED pipe
    /\ UNCHANGED <<sent, got, conn>>

\* After an error the message, moved from by now, stays in the buffer.
WriteHandler(e) ==
    LET c == TimerCancel([ch[e] EXCEPT !.wop = "idle"], "write")
        d == [c EXCEPT !.wbuf = Tail(@)]
    IN  /\ \/ /\ ch[e].wop = "failed"
              /\ Run(e, DoClosed([c EXCEPT !.wbuf[1] = Moved], "Write"))
           \/ /\ ch[e].wop = "done"
              /\ Run(e, IF d.wbuf = << >> THEN d ELSE DoWrite(e, d))
        /\ UNCHANGED <<pipe, sent, got, conn>>

TimerExpires(e, t) ==
    /\ t \in ch[e].timers
    /\ ch' = [ch EXCEPT ![e].timers = @ \ {t}, ![e].expired = @ \cup {t}]
    /\ UNCHANGED <<pipe, sent, got, conn>>

TimerHandler(e, t) ==
    /\ t \in ch[e].expired
    /\ Run(e, DoClosed([ch[e] EXCEPT !.expired = @ \ {t}],
                       IF t = "read" THEN "ReadTimeout" ELSE "WriteTimeout"))
    /\ UNCHANGED <<pipe, sent, got, conn>>

Setup == Handshake \/ SyncConnect \/ AsyncConnect \/ WaitForHandler \/ WaitForCaller
Accepting == DoAccept \/ OnAccept
Handlers(e) ==
    \/ RunPosted(e) \/ ReadHandler(e) \/ WriteHandler(e)
    \/ \E t \in {"read", "write"} : TimerHandler(e, t)

Next ==
    \/ \E mode \in Modes : Connect(mode)
    \/ Setup
    \/ Accepting
    \/ StopAccept
    \/ \E e \in Ends :
         \/ SendMsg(e)
         \/ Shutdown(e)
         \/ ReadCompletes(e)
         \/ WriteProgress(e)
         \/ \E t \in {"read", "write"} : TimerExpires(e, t)
         \/ Handlers(e)

Spec == Init /\ [][Next]_vars

\* The kernels and the io threads do their work; an io thread takes handlers
\* in the order they became ready, so none of the four kinds starves another.
Fairness ==
    /\ WF_vars(Setup)
    /\ WF_vars(Accepting)
    /\ \A e \in Ends :
        /\ WF_vars(ReadCompletes(e))
        /\ WF_vars(WriteProgress(e))
        /\ WF_vars(RunPosted(e))
        /\ WF_vars(ReadHandler(e))
        /\ WF_vars(WriteHandler(e))
        /\ \A t \in {"read", "write"} : WF_vars(TimerHandler(e, t))

FairSpec == Spec /\ Fairness

----------------------------------------------------------------------------
Piece == (Nat \ {0}) \X {1, 2}

Channel ==
    [opened : BOOLEAN, socket : {"null", "open", "closed"}, posted : Seq(Nat),
     wbuf : Seq(Nat), wop : {"idle", "busy", "done", "failed"}, wn : 0 .. 2,
     rop : {"idle", "busy", "data", "failed"}, fixed : Seq(Piece), rbuf : Seq(Piece),
     timers : SUBSET {"read", "write"}, expired : SUBSET {"read", "write"},
     closes : Seq({"Active", "Read", "Write", "ReadTimeout", "WriteTimeout"}),
     batchesAfter : Nat, stopping : BOOLEAN, looping : BOOLEAN]

Connection ==
    [mode : Modes \cup {"none"}, net : {"idle", "syn", "established", "refused"},
     caller : {"idle", "blocked", "waiting", "expired", "returned"},
     handler : {"none", "pending", "init", "done"},
     result : {"none", "ok", "failed"}, promise : {"unset", "ok", "failed"},
     shut : BOOLEAN, reset : BOOLEAN,
     accept : {"pending", "opened", "accepted", "cancelled"}, listening : BOOLEAN]

TypeOK ==
    /\ ch \in [Ends -> Channel]
    /\ pipe \in [Ends -> Seq(Piece)]
    /\ sent \in [Ends -> Seq(Nat)]
    /\ got \in [Ends -> Seq(Nat)]
    /\ conn \in Connection

\* Messages arrive whole, once and in the order of the SendMsg calls, however
\* reads and writes are cut up, and never after a gap, however the connection
\* ends: what OnReceivedMessage has been given is a prefix of what was sent.
StreamIntact == \A e \in Ends : IsPrefix(got[peer(e)], sent[e])

\* OnClosed is called once, however many of Shutdown, the two timers, the read
\* and the write end the connection together, and the channel is then closed.
ClosedOnce ==
    \A e \in Ends :
        /\ Len(ch[e].closes) <= 1
        /\ ch[e].closes # << >> => ~ ch[e].opened

\* A read that had completed when the channel was closed is still delivered,
\* after OnClosed; nothing is delivered after that one.
OneBatchAfterClose == \A e \in Ends : ch[e].batchesAfter <= 1

\* DecodeOnce's assertion that a decoded message is consumed.
DecodeConsumes == \A e \in Ends : ~ ch[e].looping

\* An end does not stay open alone: when the other one is closed, by any of
\* the five ways, the pending read finds out.
CloseReachesPeer ==
    \A e \in Ends : (ch[e].closes # << >>) ~> [](~ ch[peer(e)].opened)

\* SendMsg drops the messages of a client that is told of its connection before
\* the channel has its socket, as SyncConnectWaitFor does.  It does not drop them
\* for ever: every connect that is reported, with a time limit or without, gives
\* the channel its socket, for good.
ReportedConnectOpens ==
    (conn.result = "ok") ~> [](ch["client"].socket # "null")

\* While both ends stay open a message arrives.
SentArrives ==
    \A e \in Ends : \A n \in UNION {1 .. MaxSend[mode][e] : mode \in Modes} :
        (Len(sent[e]) >= n) ~>
            \/ Len(got[peer(e)]) >= n
            \/ \E x \in Ends : ch[x].closes # << >>

============================================================================
