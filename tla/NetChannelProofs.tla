-------------------------- MODULE NetChannelProofs --------------------------
(* Theorems about NetChannel, for any ways to connect, timeouts, build and   *)
(* numbers of messages.                                                      *)
EXTENDS NetChannel, TLAPS

----------------------------------------------------------------------------
(* The invariant *)

\* A Channel is closed once and for all: its socket is open as long as
\* m_opened is set, OnClosed was called if it no longer is, and only a read that
\* had completed by then is handled later.
ClosingOK(c) ==
    /\ c.opened <=> c.socket = "open"
    /\ c.socket # "closed" => c.closes = << >>
    /\ Len(c.closes) <= 1
    /\ c.fixed # << >> => c.rop = "data"
    /\ c.rop # "idle" => c.socket # "null"
    /\ c.batchesAfter > 0 => c.socket = "closed" /\ c.rop # "data"
    /\ c.batchesAfter <= 1

\* A client that was told of its connection has its socket, or its io thread is
\* about to open the channel: between SyncConnectWaitFor's promise and Init.
OpenOrOpening ==
    conn.result = "ok" =>
        \/ ch["client"].socket # "null"
        \/ conn.handler = "init" /\ conn.net = "established"

\* A Channel is opened once, and a promise is kept by the handler that opens it.
OpeningOK ==
    /\ conn.caller \in {"idle", "blocked"} =>
          conn.handler = "none" /\ ch["client"].socket = "null"
    /\ conn.handler \in {"pending", "init"} => ch["client"].socket = "null"
    /\ conn.handler = "init" => conn.net = "established"
    /\ conn.promise = "ok" => ch["client"].socket # "null" \/ conn.handler = "init"
    /\ OpenOrOpening
    /\ conn.accept \in {"pending", "cancelled"} <=> ch["server"].socket = "null"
    /\ conn.caller = "idle" => conn.net = "idle" /\ conn.result = "none"
    /\ conn.net = "idle" => conn.accept \in {"pending", "cancelled"}
    /\ \A e \in Ends : got[e] # << >> => ch[e].socket # "null"

\* Where a piece stands in the stream of its end.
Place(p) == 2 * (p[1] - 1) + p[2]

\* A buffer holds the pieces that follow the first n of the stream.
Follows(b, n) == \A i \in 1 .. Len(b) : Place(b[i]) = n + i

\* How many pieces the end x has been given and decoded, and how many of its
\* peer's pieces were written altogether.
Taken(x) == 2 * Len(got[x])
Written(x) == Taken(x) + Len(ch[x].rbuf) + Len(ch[x].fixed) + Len(pipe[peer(x)])

\* No piece is lost, repeated or overtaken between pipe and OnReceivedMessage.
ReceivingOK(x) ==
    /\ \A i \in 1 .. Len(got[x]) : got[x][i] = i
    /\ Follows(ch[x].rbuf, Taken(x))
    /\ Follows(ch[x].fixed, Taken(x) + Len(ch[x].rbuf))
    /\ Follows(pipe[peer(x)], Taken(x) + Len(ch[x].rbuf) + Len(ch[x].fixed))

\* The handlers posted and not yet run are those of the messages after the q-th,
\* in order, with the one of Shutdown among them at place z.
PostedOK(p, q, z, n) ==
    /\ \A i \in 1 .. Len(p) :
          p[i] = IF i < z THEN q + i ELSE IF i = z THEN Shutdown_ ELSE q + i - 1
    /\ n = IF z <= Len(p) THEN q + Len(p) - 1 ELSE q + Len(p)

\* m_writebuf holds the last of the first q messages, its head being written
\* unless a write has failed: then nothing will be written any more.
WritingOK(c, q, w) ==
    \/ /\ c.wop = "idle" /\ c.wbuf # << >>
       /\ w <= 2 * q
    \/ /\ Len(c.wbuf) <= q
       /\ \A i \in 1 .. Len(c.wbuf) : c.wbuf[i] = q - Len(c.wbuf) + i
       /\ c.wop = "idle" <=> c.wbuf = << >>
       /\ c.wop \in {"busy", "failed"} => c.wn < 2
       /\ c.wop = "done" => c.wn = 2
       /\ w = 2 * (q - Len(c.wbuf)) + (IF c.wop = "idle" THEN 0 ELSE c.wn)

SendingOK(e) ==
    /\ \A i \in 1 .. Len(sent[e]) : sent[e][i] = i
    /\ \E q \in Nat, z \in Nat \ {0} :
          /\ PostedOK(ch[e].posted, q, z, Len(sent[e]))
          /\ z = Len(ch[e].posted) + 1 \/ (ch[e].stopping /\ z <= Len(ch[e].posted) + 1)
          /\ WritingOK(ch[e], q, Written(peer(e)))

IInv ==
    /\ TypeOK
    /\ \A e \in Ends : ClosingOK(ch[e])
    /\ OpeningOK
   
    /\ \A e \in Ends : ReceivingOK(e)
    /\ \A e \in Ends : SendingOK(e)

----------------------------------------------------------------------------
(* What the operators on a Channel do, field by field *)

CloseTypes == {"Active", "Read", "Write", "ReadTimeout", "WriteTimeout"}

\* The fields a message passes through, those of the end of a channel, and
\* the rest.
SameWriting(c, d) ==
    /\ d.posted = c.posted /\ d.wbuf = c.wbuf /\ d.wop = c.wop /\ d.wn = c.wn
    /\ d.stopping = c.stopping
SameReading(c, d) == d.rop = c.rop /\ d.fixed = c.fixed /\ d.rbuf = c.rbuf
SameClosing(c, d) ==
    /\ d.opened = c.opened /\ d.socket = c.socket /\ d.closes = c.closes
    /\ d.batchesAfter = c.batchesAfter


\* A channel that goes on as it was, or has just been closed.
MaybeClosed(c, d) ==
    \/ SameClosing(c, d)
    \/ /\ c.opened /\ ~ d.opened
       /\ d.socket = "closed"
       /\ Len(d.closes) = Len(c.closes) + 1
       /\ d.batchesAfter = c.batchesAfter

LEMMA NatsAreSeq ==
  ASSUME NEW n \in Nat, NEW f \in [1 .. n -> Nat]
  PROVE  f \in Seq(Nat)
  OBVIOUS

LEMMA PeerIs ==
  ASSUME NEW e \in Ends
  PROVE  peer(e) \in Ends /\ peer(e) # e /\ peer(peer(e)) = e /\ \A x \in Ends : x = e \/ x = peer(e)
  BY DEF Ends, peer

LEMMA DoClosedIs ==
  ASSUME NEW c \in Channel, NEW type \in CloseTypes
  PROVE  LET d == DoClosed(c, type) IN
         /\ d \in Channel
         /\ SameWriting(c, d) /\ SameReading(c, d) /\ MaybeClosed(c, d)
  <1>1. CASE ~ c.opened
    BY <1>1 DEF DoClosed, SameWriting, SameReading, MaybeClosed, SameClosing
  <1>2. CASE c.opened
    <2>1. Append(c.closes, type) \in Seq(CloseTypes) /\ Len(Append(c.closes, type)) = Len(c.closes) + 1
      BY DEF Channel, CloseTypes
    <2>2. DoClosed(c, type) = [c EXCEPT !.opened = FALSE, !.socket = "closed",
                                        !.closes = Append(c.closes, type)]
      BY <1>2 DEF DoClosed
    <2> QED BY <1>2, <2>1, <2>2 DEF Channel, CloseTypes, SameWriting, SameReading, MaybeClosed
  <1> QED BY <1>1, <1>2

LEMMA TimerIs ==
  ASSUME NEW c \in Channel, NEW e \in Ends, NEW t \in {"read", "write"}
  PROVE  LET d == CreateTimer(e, c, t)
             x == TimerCancel(c, t) IN
         /\ d \in Channel /\ SameWriting(c, d) /\ SameReading(c, d) /\ SameClosing(c, d)
         /\ d.looping = c.looping
         /\ x \in Channel /\ SameWriting(c, x) /\ SameReading(c, x) /\ SameClosing(c, x)
         /\ x.looping = c.looping
  <1>1. c.timers \cup {t} \in SUBSET {"read", "write"} /\ c.timers \ {t} \in SUBSET {"read", "write"}
    BY DEF Channel
  <1>2. ASSUME NEW T \in SUBSET {"read", "write"}
        PROVE  LET d == [c EXCEPT !.timers = T] IN
               /\ d \in Channel /\ SameWriting(c, d) /\ SameReading(c, d) /\ SameClosing(c, d)
               /\ d.looping = c.looping
    BY DEF Channel, SameWriting, SameReading, SameClosing
  <1>3. /\ CreateTimer(e, c, t) = c \/ CreateTimer(e, c, t) = [c EXCEPT !.timers = c.timers \cup {t}]
        /\ TimerCancel(c, t) = [c EXCEPT !.timers = c.timers \ {t}]
    BY DEF CreateTimer, TimerCancel
  <1>4. SameWriting(c, c) /\ SameReading(c, c) /\ SameClosing(c, c)
    BY DEF SameWriting, SameReading, SameClosing
  <1> DEFINE d == CreateTimer(e, c, t)
             x == TimerCancel(c, t)
  <1>5. /\ d \in Channel /\ SameWriting(c, d) /\ SameReading(c, d) /\ SameClosing(c, d)
        /\ d.looping = c.looping
    <2>1. CASE d = c
      BY <1>4, <2>1
    <2>2. CASE d = [c EXCEPT !.timers = c.timers \cup {t}]
      <3> HIDE DEF d
      <3> QED BY <1>1, <1>2, <2>2
    <2> QED BY <1>3, <2>1, <2>2
  <1>6. /\ x \in Channel /\ SameWriting(c, x) /\ SameReading(c, x) /\ SameClosing(c, x)
        /\ x.looping = c.looping
    <2>1. x = [c EXCEPT !.timers = c.timers \ {t}]
      BY <1>3
    <2> HIDE DEF x
    <2> QED BY <1>1, <1>2, <2>1
  <1> QED BY <1>5, <1>6

LEMMA DoReadIs ==
  ASSUME NEW c \in Channel, NEW e \in Ends
  PROVE  LET d == DoRead(e, c) IN
         /\ d \in Channel
         /\ SameWriting(c, d) /\ SameClosing(c, d)
         /\ d.rop = "busy" /\ d.fixed = c.fixed /\ d.rbuf = c.rbuf
         /\ d.looping = c.looping
  BY DEF DoRead, CreateTimer, Channel, SameWriting, SameClosing

LEMMA DoWriteIs ==
  ASSUME NEW c \in Channel, NEW e \in Ends
  PROVE  LET d == DoWrite(e, c) IN
         /\ d \in Channel
         /\ SameReading(c, d) /\ SameClosing(c, d)
         /\ d.posted = c.posted /\ d.wbuf = c.wbuf /\ d.wop = "busy" /\ d.wn = 0
         /\ d.stopping = c.stopping /\ d.looping = c.looping
  <1> DEFINE b == [c EXCEPT !.wop = "busy", !.wn = 0]
  <1>1. /\ b \in Channel /\ SameReading(c, b) /\ SameClosing(c, b)
        /\ b.posted = c.posted /\ b.wbuf = c.wbuf /\ b.wop = "busy" /\ b.wn = 0
        /\ b.stopping = c.stopping /\ b.looping = c.looping
    <2>1. 0 \in 0 .. 2 /\ "busy" \in {"idle", "busy", "done", "failed"}
      OBVIOUS
    <2>2. b \in Channel
      BY <2>1 DEF Channel
    <2>3. SameReading(c, b) /\ SameClosing(c, b)
      BY DEF Channel, SameReading, SameClosing
    <2>4. /\ b.posted = c.posted /\ b.wbuf = c.wbuf /\ b.wop = "busy" /\ b.wn = 0
          /\ b.stopping = c.stopping /\ b.looping = c.looping
      BY DEF Channel
    <2> QED BY <2>2, <2>3, <2>4
  <1>2. DoWrite(e, c) = CreateTimer(e, b, "write")
    BY DEF DoWrite
  <1> HIDE DEF b
  <1> QED BY <1>1, <1>2, TimerIs DEF SameWriting, SameReading, SameClosing

LEMMA ChannelInitIs ==
  ASSUME NEW c \in Channel, NEW e \in Ends
  PROVE  LET d == ChannelInit(e, c) IN
         /\ d \in Channel
         /\ SameWriting(c, d) /\ d.opened /\ d.socket = "open"
         /\ d.closes = c.closes /\ d.batchesAfter = c.batchesAfter
         /\ d.rop = "busy" /\ d.fixed = c.fixed /\ d.rbuf = c.rbuf
  <1> DEFINE b == [c EXCEPT !.opened = TRUE, !.socket = "open"]
  <1>1. /\ b \in Channel /\ SameWriting(c, b) /\ SameReading(c, b)
        /\ b.opened /\ b.socket = "open" /\ b.closes = c.closes
        /\ b.batchesAfter = c.batchesAfter
    BY DEF Channel, SameWriting, SameReading
  <1>2. ChannelInit(e, c) = DoRead(e, b)
    BY DEF ChannelInit
  <1> HIDE DEF b
  <1> QED BY <1>1, <1>2, DoReadIs DEF SameWriting, SameReading, SameClosing

LEMMA QueueIs ==
  ASSUME NEW c \in Channel, NEW e \in Ends, NEW m \in Nat
  PROVE  LET d == Queue(e, c, m) IN
         /\ d \in Channel
         /\ SameReading(c, d) /\ SameClosing(c, d)
         /\ d.posted = c.posted /\ d.stopping = c.stopping
         /\ d.wbuf = Append(c.wbuf, m)
         /\ d.wop = IF c.wbuf = << >> THEN "busy" ELSE c.wop
         /\ d.wn = IF c.wbuf = << >> THEN 0 ELSE c.wn
  <1> DEFINE b == [c EXCEPT !.wbuf = Append(c.wbuf, m)]
  <1>1. Append(c.wbuf, m) \in Seq(Nat)
    BY DEF Channel
  <1>2. /\ b \in Channel /\ SameReading(c, b) /\ SameClosing(c, b)
        /\ b.posted = c.posted /\ b.stopping = c.stopping
        /\ b.wbuf = Append(c.wbuf, m) /\ b.wop = c.wop /\ b.wn = c.wn
    BY <1>1 DEF Channel, SameReading, SameClosing
  <1>3. Queue(e, c, m) = IF c.wbuf = << >> THEN DoWrite(e, b) ELSE b
    BY DEF Queue
  <1> HIDE DEF b
  <1> QED BY <1>2, <1>3, DoWriteIs DEF SameReading, SameClosing

LEMMA WholeIs ==
  ASSUME NEW b \in Seq(Piece)
  PROVE  Whole(b) \in Nat /\ 2 * Whole(b) <= Len(b) /\ Len(b) < 2 * Whole(b) + 2
  BY DEF Whole

LEMMA SubSeqIs ==
  ASSUME NEW b \in Seq(Piece), NEW n \in 0 .. Len(b)
  PROVE  LET t == SubSeq(b, n + 1, Len(b)) IN
         /\ t \in Seq(Piece) /\ Len(t) = Len(b) - n
         /\ \A i \in 1 .. Len(t) : t[i] = b[n + i]
  OBVIOUS

LEMMA FrontIs ==
  ASSUME NEW b \in Seq(Piece), NEW n \in 1 .. Len(b)
  PROVE  LET t == SubSeq(b, 1, n) IN
         /\ t \in Seq(Piece) /\ Len(t) = n
         /\ \A i \in 1 .. n : t[i] = b[i]
  OBVIOUS

LEMMA ConcatIs ==
  ASSUME NEW a \in Seq(Piece), NEW b \in Seq(Piece)
  PROVE  /\ a \o b \in Seq(Piece) /\ Len(a \o b) = Len(a) + Len(b)
         /\ \A i \in 1 .. Len(a) : (a \o b)[i] = a[i]
         /\ \A i \in 1 .. Len(b) : (a \o b)[Len(a) + i] = b[i]
         /\ \A i \in (Len(a) + 1) .. (Len(a) + Len(b)) : (a \o b)[i] = b[i - Len(a)]
  OBVIOUS

LEMMA UndecodedIs ==
  ASSUME NEW b \in Seq(Piece)
  PROVE  LET t == Undecoded(b) IN
         /\ t \in Seq(Piece) /\ Len(t) = Len(b) - 2 * Whole(b)
         /\ \A i \in 1 .. Len(t) : t[i] = b[2 * Whole(b) + i]
  <1> DEFINE n == 2 * Whole(b)
  <1>1. n \in 0 .. Len(b)
    BY WholeIs
  <1>2. Undecoded(b) = SubSeq(b, n + 1, Len(b))
    BY DEF Undecoded
  <1> HIDE DEF n
  <1>3. LET t == SubSeq(b, n + 1, Len(b)) IN
         /\ t \in Seq(Piece) /\ Len(t) = Len(b) - n
         /\ \A i \in 1 .. Len(t) : t[i] = b[n + i]
    BY <1>1, SubSeqIs
  <1> QED BY <1>2, <1>3 DEF n

LEMMA TryDecodeIs ==
  ASSUME NEW c \in Channel
  PROVE  LET d == TryDecode(c)
             stuck == Whole(c.rbuf) > 0 /\ ~ Asserts IN
         /\ d \in Channel /\ SameWriting(c, d)
         /\ d.opened = c.opened /\ d.socket = c.socket /\ d.closes = c.closes
         /\ d.rop = c.rop /\ d.fixed = c.fixed
         /\ d.rbuf = IF stuck THEN c.rbuf ELSE Undecoded(c.rbuf)
         /\ d.looping = IF stuck THEN TRUE ELSE c.looping
         /\ d.batchesAfter = IF Whole(c.rbuf) > 0 /\ Asserts /\ ~ c.opened
                             THEN c.batchesAfter + 1 ELSE c.batchesAfter
  <1>0. Asserts \in BOOLEAN
    BY ChannelAssumption
  <1>1. c.rbuf \in Seq(Piece) /\ c.batchesAfter \in Nat
    BY DEF Channel
  <1>2. Undecoded(c.rbuf) \in Seq(Piece) /\ Whole(c.rbuf) \in Nat
    BY <1>1, UndecodedIs, WholeIs
  <1>3. CASE Whole(c.rbuf) > 0 /\ ~ Asserts
    <2>1. TryDecode(c) = [c EXCEPT !.looping = TRUE]
      BY <1>3 DEF TryDecode
    <2> QED BY <1>3, <2>1 DEF Channel, SameWriting
  <1>4. CASE ~ (Whole(c.rbuf) > 0 /\ ~ Asserts)
    <2> DEFINE n == IF Whole(c.rbuf) > 0 /\ ~ c.opened THEN c.batchesAfter + 1 ELSE c.batchesAfter
               u == Undecoded(c.rbuf)
    <2>1. n \in Nat
      BY <1>1
    <2>2. TryDecode(c) = [c EXCEPT !.rbuf = u, !.batchesAfter = n]
      BY <1>4 DEF TryDecode
    <2>3. n = IF Whole(c.rbuf) > 0 /\ Asserts /\ ~ c.opened THEN c.batchesAfter + 1 ELSE c.batchesAfter
      BY <1>0, <1>4
    <2>4. u \in Seq(Piece)
      BY <1>2
    <2> HIDE DEF n, u
    <2>5. LET d == TryDecode(c) IN
          /\ d \in Channel /\ SameWriting(c, d)
          /\ d.opened = c.opened /\ d.socket = c.socket /\ d.closes = c.closes
          /\ d.rop = c.rop /\ d.fixed = c.fixed /\ d.rbuf = u /\ d.looping = c.looping
          /\ d.batchesAfter = n
      BY <2>1, <2>2, <2>4 DEF Channel, SameWriting
    <2> QED BY <1>4, <2>3, <2>5 DEF u
  <1> QED BY <1>3, <1>4

----------------------------------------------------------------------------
(* What the handlers do *)

LEMMA RunPostedIs ==
  ASSUME TypeOK, NEW e \in Ends, RunPosted(e)
  PROVE  \E d \in Channel :
         LET c == ch[e]
             h == Head(c.posted) IN
         /\ ch' = [ch EXCEPT ![e] = d]
         /\ c.posted # << >> /\ h \in Nat
         /\ d.posted = Tail(c.posted) /\ d.stopping = c.stopping
         /\ SameReading(c, d) /\ MaybeClosed(c, d)
         /\ h = Shutdown_ => d.wbuf = c.wbuf /\ d.wop = c.wop /\ d.wn = c.wn
         /\ h # Shutdown_ => /\ d.wbuf = Append(c.wbuf, h)
                             /\ d.wop = IF c.wbuf = << >> THEN "busy" ELSE c.wop
                             /\ d.wn = IF c.wbuf = << >> THEN 0 ELSE c.wn
  <1> DEFINE h == Head(ch[e].posted)
             b == [ch[e] EXCEPT !.posted = Tail(@)]
             d == IF h = Shutdown_ THEN DoClosed(b, "Active") ELSE Queue(e, b, h)
  <1>1. ch[e] \in Channel /\ ch[e].posted # << >> /\ ch[e].posted \in Seq(Nat)
    BY DEF TypeOK, RunPosted, Channel
  <1>2. h \in Nat /\ Tail(ch[e].posted) \in Seq(Nat)
    BY <1>1
  <1>3. /\ b \in Channel /\ b.posted = Tail(ch[e].posted) /\ b.stopping = ch[e].stopping
        /\ SameReading(ch[e], b) /\ SameClosing(ch[e], b)
        /\ b.wbuf = ch[e].wbuf /\ b.wop = ch[e].wop /\ b.wn = ch[e].wn
    BY <1>1, <1>2 DEF Channel, SameReading, SameClosing
  <1>4. ch' = [ch EXCEPT ![e] = d]
    BY DEF RunPosted, Run
  <1> HIDE DEF b
  <1>5. CASE h = Shutdown_
    <2>1. "Active" \in CloseTypes
      BY DEF CloseTypes
    <2>2. /\ d \in Channel /\ SameWriting(b, d) /\ SameReading(b, d) /\ MaybeClosed(b, d)
      BY <1>3, <1>5, <2>1, DoClosedIs
    <2> HIDE DEF d, h
    <2>3. SameReading(ch[e], d) /\ MaybeClosed(ch[e], d)
      BY <1>3, <2>2 DEF SameReading, SameClosing, MaybeClosed
    <2>4. /\ d.posted = Tail(ch[e].posted) /\ d.stopping = ch[e].stopping
          /\ d.wbuf = ch[e].wbuf /\ d.wop = ch[e].wop /\ d.wn = ch[e].wn
      BY <1>3, <2>2 DEF SameWriting
    <2> QED BY <1>1, <1>2, <1>4, <1>5, <2>2, <2>3, <2>4 DEF h
  <1>6. CASE h # Shutdown_
    <2>1. /\ d \in Channel /\ SameReading(b, d) /\ SameClosing(b, d)
          /\ d.posted = b.posted /\ d.stopping = b.stopping
          /\ d.wbuf = Append(b.wbuf, h)
          /\ d.wop = IF b.wbuf = << >> THEN "busy" ELSE b.wop
          /\ d.wn = IF b.wbuf = << >> THEN 0 ELSE b.wn
      BY <1>2, <1>3, <1>6, QueueIs
    <2> HIDE DEF d, h
    <2>2. SameReading(ch[e], d) /\ MaybeClosed(ch[e], d)
      BY <1>3, <2>1 DEF SameReading, SameClosing, MaybeClosed
    <2> QED BY <1>1, <1>2, <1>3, <1>4, <1>6, <2>1, <2>2 DEF h
  <1> QED BY <1>5, <1>6

LEMMA ReadCompletesIs ==
  ASSUME TypeOK, NEW e \in Ends, ReadCompletes(e)
  PROVE  \E d \in Channel :
         LET c == ch[e] IN
         /\ ch' = [ch EXCEPT ![e] = d]
         /\ c.rop = "busy"
         /\ SameWriting(c, d) /\ SameClosing(c, d) /\ d.rbuf = c.rbuf
         /\ \/ d.rop = "failed" /\ d.fixed = c.fixed /\ UNCHANGED pipe
            \/ /\ c.socket = "open" /\ d.rop = "data"
               /\ \E n \in 1 .. Len(pipe[peer(e)]) :
                     /\ d.fixed = SubSeq(pipe[peer(e)], 1, n)
                     /\ pipe' = [pipe EXCEPT ![peer(e)] =
                                   SubSeq(pipe[peer(e)], n + 1, Len(pipe[peer(e)]))]
  <1>1. ch[e] \in Channel /\ ch[e].rop = "busy" /\ pipe[peer(e)] \in Seq(Piece)
    BY PeerIs DEF TypeOK, ReadCompletes
  <1>2. CASE ch' = [ch EXCEPT ![e].rop = "failed"] /\ UNCHANGED pipe
    <2> DEFINE d == [ch[e] EXCEPT !.rop = "failed"]
    <2>1. ch' = [ch EXCEPT ![e] = d]
      BY <1>2
    <2>2. /\ d \in Channel /\ SameWriting(ch[e], d) /\ SameClosing(ch[e], d)
          /\ d.rbuf = ch[e].rbuf /\ d.fixed = ch[e].fixed /\ d.rop = "failed"
      BY <1>1 DEF Channel, SameWriting, SameClosing
    <2> HIDE DEF d
    <2> QED BY <1>1, <1>2, <2>1, <2>2
  <1>3. ASSUME ch[e].socket = "open", NEW n \in 1 .. Len(pipe[peer(e)]),
               ch' = [ch EXCEPT ![e].rop = "data", ![e].fixed = SubSeq(pipe[peer(e)], 1, n)],
               pipe' = [pipe EXCEPT ![peer(e)] = SubSeq(@, n + 1, Len(@))]
        PROVE  \E d \in Channel :
                 LET c == ch[e] IN
                 /\ ch' = [ch EXCEPT ![e] = d]
                 /\ c.rop = "busy"
                 /\ SameWriting(c, d) /\ SameClosing(c, d) /\ d.rbuf = c.rbuf
                 /\ c.socket = "open" /\ d.rop = "data"
                 /\ d.fixed = SubSeq(pipe[peer(e)], 1, n)
                 /\ pipe' = [pipe EXCEPT ![peer(e)] =
                               SubSeq(pipe[peer(e)], n + 1, Len(pipe[peer(e)]))]
    <2> DEFINE f == SubSeq(pipe[peer(e)], 1, n)
               d == [ch[e] EXCEPT !.rop = "data", !.fixed = f]
    <2>1. f \in Seq(Piece)
      BY <1>1, FrontIs
    <2>2. ch' = [ch EXCEPT ![e] = d]
      BY <1>3 DEF TypeOK
    <2> HIDE DEF f
    <2>3. /\ d \in Channel /\ SameWriting(ch[e], d) /\ SameClosing(ch[e], d)
          /\ d.rbuf = ch[e].rbuf /\ d.fixed = f /\ d.rop = "data"
      BY <1>1, <2>1 DEF Channel, SameWriting, SameClosing
    <2>4. pipe' = [pipe EXCEPT ![peer(e)] = SubSeq(pipe[peer(e)], n + 1, Len(pipe[peer(e)]))]
      BY <1>3
    <2> HIDE DEF d
    <2> QED BY <1>1, <1>3, <2>2, <2>3, <2>4 DEF f
  <1> QED BY <1>2, <1>3 DEF ReadCompletes

\* What the handler of a read does with the pieces it has got.
Decodable(c) == c.rbuf \o c.fixed
Stuck(c) == Whole(Decodable(c)) > 0 /\ ~ Asserts

LEMMA ReadHandlerIs ==
  ASSUME TypeOK, NEW e \in Ends, ReadHandler(e)
  PROVE  \E d \in Channel :
         LET c == ch[e] IN
         /\ ch' = [ch EXCEPT ![e] = d]
         /\ SameWriting(c, d)
         /\ \/ /\ c.rop = "failed" /\ d.rop = "idle" /\ d.fixed = c.fixed /\ d.rbuf = c.rbuf
               /\ MaybeClosed(c, d) /\ UNCHANGED got
            \/ /\ c.rop = "data" /\ d.rop \in {"idle", "busy"} /\ d.fixed = << >>
               /\ d.rbuf = IF Stuck(c) THEN Decodable(c) ELSE Undecoded(Decodable(c))
               /\ d.opened = c.opened /\ d.socket = c.socket /\ d.closes = c.closes
               /\ \/ d.batchesAfter = c.batchesAfter
                  \/ ~ c.opened /\ d.batchesAfter = c.batchesAfter + 1
               /\ got' = [got EXCEPT ![e] = IF Asserts THEN @ \o Decoded(Decodable(c)) ELSE @]
  <1> DEFINE c == ch[e]
             a == [c EXCEPT !.rop = "idle"]
             b == TimerCancel(a, "read")
  <1>1. c \in Channel
    BY DEF TypeOK
  <1>2. /\ a \in Channel /\ SameWriting(c, a) /\ SameClosing(c, a) /\ a.looping = c.looping
        /\ a.rop = "idle" /\ a.fixed = c.fixed /\ a.rbuf = c.rbuf
    BY <1>1 DEF Channel, SameWriting, SameClosing
  <1>3. /\ b \in Channel /\ SameWriting(c, b) /\ SameClosing(c, b) /\ b.looping = c.looping
        /\ b.rop = "idle" /\ b.fixed = c.fixed /\ b.rbuf = c.rbuf
    <2> HIDE DEF a
    <2>1. /\ b \in Channel /\ SameWriting(a, b) /\ SameReading(a, b) /\ SameClosing(a, b)
          /\ b.looping = a.looping
      BY <1>2, TimerIs
    <2> HIDE DEF b, c
    <2> QED BY <1>2, <2>1 DEF SameWriting, SameReading, SameClosing
  <1> DEFINE x == [b EXCEPT !.rbuf = @ \o b.fixed, !.fixed = << >>]
             t == TryDecode(x)
             d1 == DoClosed(b, "Read")
             d2 == IF t.looping THEN t ELSE DoRead(e, t)
  <1>4. \/ c.rop = "failed" /\ ch' = [ch EXCEPT ![e] = d1] /\ UNCHANGED got
        \/ /\ c.rop = "data" /\ ch' = [ch EXCEPT ![e] = d2] /\ ~ c.looping
           /\ got' = [got EXCEPT ![e] = IF Asserts THEN @ \o Decoded(x.rbuf) ELSE @]
    BY DEF ReadHandler, Run
  <1> HIDE DEF a, b
  <1>5. CASE c.rop = "failed" /\ ch' = [ch EXCEPT ![e] = d1] /\ UNCHANGED got
    <2>1. "Read" \in CloseTypes
      BY DEF CloseTypes
    <2>2. d1 \in Channel /\ SameWriting(b, d1) /\ SameReading(b, d1) /\ MaybeClosed(b, d1)
      BY <1>3, <2>1, DoClosedIs
    <2> HIDE DEF d1, c
    <2>3. SameWriting(c, d1) /\ MaybeClosed(c, d1)
      BY <1>3, <2>2 DEF SameWriting, SameClosing, MaybeClosed
    <2>4. d1.rop = "idle" /\ d1.fixed = c.fixed /\ d1.rbuf = c.rbuf
      BY <1>3, <2>2 DEF SameReading
    <2> QED BY <1>5, <2>2, <2>3, <2>4 DEF c
  <1>6. CASE /\ c.rop = "data" /\ ch' = [ch EXCEPT ![e] = d2] /\ ~ c.looping
             /\ got' = [got EXCEPT ![e] = IF Asserts THEN @ \o Decoded(x.rbuf) ELSE @]
    <2>1. Decodable(c) \in Seq(Piece)
      BY <1>1, ConcatIs DEF Decodable, Channel
    <2> HIDE DEF c
    <2>2. b.rbuf \o b.fixed = Decodable(c)
      BY <1>3 DEF Decodable
    <2>3. /\ x \in Channel /\ SameWriting(b, x) /\ SameClosing(b, x) /\ x.looping = b.looping
          /\ x.rop = b.rop /\ x.fixed = << >> /\ x.rbuf = Decodable(c)
      <3> DEFINE w == Decodable(c)
      <3>1. x = [b EXCEPT !.rbuf = w, !.fixed = << >>]
        BY <1>3, <2>2 DEF Channel
      <3>2. w \in Seq(Piece) /\ << >> \in Seq(Piece)
        BY <2>1
      <3> HIDE DEF x, w
      <3>3. x \in Channel
        BY <1>3, <3>1, <3>2 DEF Channel
      <3>4. /\ x.looping = b.looping /\ x.rop = b.rop /\ x.fixed = << >> /\ x.rbuf = w
        BY <1>3, <3>1 DEF Channel
      <3>5. SameWriting(b, x) /\ SameClosing(b, x)
        BY <1>3, <3>1 DEF Channel, SameWriting, SameClosing
      <3> QED BY <3>3, <3>4, <3>5 DEF w
    <2> HIDE DEF x
    <2>4. /\ t \in Channel /\ SameWriting(x, t)
          /\ t.opened = x.opened /\ t.socket = x.socket /\ t.closes = x.closes
          /\ t.rop = x.rop /\ t.fixed = x.fixed
          /\ t.rbuf = IF Stuck(c) THEN x.rbuf ELSE Undecoded(x.rbuf)
          /\ t.batchesAfter = IF Whole(x.rbuf) > 0 /\ Asserts /\ ~ x.opened
                              THEN x.batchesAfter + 1 ELSE x.batchesAfter
      BY <2>3, TryDecodeIs DEF Stuck
    <2> HIDE DEF t
    <2>5. /\ d2 \in Channel /\ SameWriting(t, d2) /\ SameClosing(t, d2)
          /\ d2.rop \in {t.rop, "busy"} /\ d2.fixed = t.fixed /\ d2.rbuf = t.rbuf
      <3>1. /\ DoRead(e, t) \in Channel /\ SameWriting(t, DoRead(e, t)) /\ SameClosing(t, DoRead(e, t))
            /\ DoRead(e, t).rop = "busy" /\ DoRead(e, t).fixed = t.fixed /\ DoRead(e, t).rbuf = t.rbuf
        BY <2>4, DoReadIs
      <3>2. SameWriting(t, t) /\ SameClosing(t, t)
        BY DEF SameWriting, SameClosing
      <3> QED BY <2>4, <3>1, <3>2
    <2> HIDE DEF d2
    <2>6. SameWriting(c, d2)
      BY <1>3, <2>3, <2>4, <2>5 DEF SameWriting
    <2>7. /\ d2.opened = c.opened /\ d2.socket = c.socket /\ d2.closes = c.closes
          /\ d2.batchesAfter = t.batchesAfter
          /\ x.batchesAfter = c.batchesAfter /\ x.opened = c.opened
      BY <1>3, <2>3, <2>4, <2>5 DEF SameClosing
    <2>8. d2.batchesAfter = c.batchesAfter \/ (~ c.opened /\ d2.batchesAfter = c.batchesAfter + 1)
      BY <2>4, <2>7
    <2>9. d2.rop \in {"idle", "busy"} /\ d2.fixed = << >>
      BY <1>3, <2>3, <2>4, <2>5
    <2>10. d2.rbuf = IF Stuck(c) THEN Decodable(c) ELSE Undecoded(Decodable(c))
      BY <2>3, <2>4, <2>5
    <2> QED BY <1>6, <2>3, <2>5, <2>6, <2>7, <2>8, <2>9, <2>10 DEF c
  <1> QED BY <1>4, <1>5, <1>6

LEMMA WriteProgressIs ==
  ASSUME TypeOK, NEW e \in Ends, WriteProgress(e),
         ch[e].wn < 2
  PROVE  \E d \in Channel :
         LET c == ch[e] IN
         /\ ch' = [ch EXCEPT ![e] = d]
         /\ c.wop = "busy"
         /\ SameReading(c, d) /\ SameClosing(c, d)
         /\ d.posted = c.posted /\ d.stopping = c.stopping /\ d.wbuf = c.wbuf
         /\ \/ d.wop = "failed" /\ d.wn = c.wn /\ UNCHANGED pipe
            \/ /\ d.wn = c.wn + 1
               /\ d.wop = IF c.wn = 1 THEN "done" ELSE "busy"
               /\ pipe' = [pipe EXCEPT ![e] = Append(@, <<Head(c.wbuf), c.wn + 1>>)]
  <1> DEFINE c == ch[e]
             d1 == [c EXCEPT !.wop = "failed"]
             d2 == [c EXCEPT !.wn = c.wn + 1, !.wop = IF c.wn = 1 THEN "done" ELSE "busy"]
  <1>1. c \in Channel /\ c.wop = "busy"
    BY DEF TypeOK, WriteProgress
  <1>2. /\ d1 \in Channel /\ SameReading(c, d1) /\ SameClosing(c, d1)
        /\ d1.posted = c.posted /\ d1.stopping = c.stopping /\ d1.wbuf = c.wbuf
        /\ d1.wop = "failed" /\ d1.wn = c.wn
    BY <1>1 DEF Channel, SameReading, SameClosing
  <1>3. /\ d2 \in Channel /\ SameReading(c, d2) /\ SameClosing(c, d2)
        /\ d2.posted = c.posted /\ d2.stopping = c.stopping /\ d2.wbuf = c.wbuf
        /\ d2.wn = c.wn + 1 /\ d2.wop = IF c.wn = 1 THEN "done" ELSE "busy"
    <2> DEFINE n == c.wn + 1
               o == IF c.wn = 1 THEN "done" ELSE "busy"
    <2>1. n \in 0 .. 2 /\ o \in {"idle", "busy", "done", "failed"}
      BY <1>1 DEF Channel
    <2> HIDE DEF n, o, c
    <2>2. LET d == [c EXCEPT !.wn = n, !.wop = o] IN
          /\ d \in Channel /\ SameReading(c, d) /\ SameClosing(c, d)
          /\ d.posted = c.posted /\ d.stopping = c.stopping /\ d.wbuf = c.wbuf
          /\ d.wn = n /\ d.wop = o
      <3>1. [c EXCEPT !.wn = n, !.wop = o] \in Channel
        BY <1>1, <2>1 DEF Channel
      <3> QED BY <1>1, <3>1 DEF Channel, SameReading, SameClosing
    <2> QED BY <2>2 DEF n, o
  <1>4. \/ ch' = [ch EXCEPT ![e] = d1] /\ UNCHANGED pipe
        \/ /\ ch' = [ch EXCEPT ![e] = d2]
           /\ pipe' = [pipe EXCEPT ![e] = Append(@, <<Head(c.wbuf), c.wn + 1>>)]
    <2>1. CASE ch' = [ch EXCEPT ![e].wop = "failed"] /\ UNCHANGED pipe
      BY <2>1
    <2>2. CASE /\ ch' = [ch EXCEPT ![e].wn = @ + 1,
                                   ![e].wop = IF ch[e].wn = 1 THEN "done" ELSE "busy"]
               /\ pipe' = [pipe EXCEPT ![e] = Append(@, <<Head(ch[e].wbuf), ch[e].wn + 1>>)]
      BY <2>2 DEF TypeOK
    <2> QED BY <2>1, <2>2 DEF WriteProgress
  <1> HIDE DEF d1, d2
  <1> QED BY <1>1, <1>2, <1>3, <1>4

LEMMA WriteHandlerIs ==
  ASSUME TypeOK, NEW e \in Ends, WriteHandler(e), ch[e].wbuf # << >>
  PROVE  \E d \in Channel :
         LET c == ch[e] IN
         /\ ch' = [ch EXCEPT ![e] = d]
         /\ SameReading(c, d) /\ MaybeClosed(c, d)
         /\ d.posted = c.posted /\ d.stopping = c.stopping
         /\ \/ /\ c.wop = "failed" /\ d.wop = "idle" /\ d.wbuf # << >>
            \/ /\ c.wop = "done" /\ d.wbuf = Tail(c.wbuf)
               /\ \/ Tail(c.wbuf) = << >> /\ d.wop = "idle"
                  \/ Tail(c.wbuf) # << >> /\ d.wop = "busy" /\ d.wn = 0
  <1> DEFINE c == ch[e]
             a == [c EXCEPT !.wop = "idle"]
             b == TimerCancel(a, "write")
  <1>1. c \in Channel /\ c.wbuf \in Seq(Nat) /\ c.wbuf # << >>
    BY DEF TypeOK, Channel
  <1>2. /\ a \in Channel /\ SameReading(c, a) /\ SameClosing(c, a)
        /\ a.wop = "idle" /\ a.wbuf = c.wbuf /\ a.posted = c.posted /\ a.stopping = c.stopping
    BY <1>1 DEF Channel, SameReading, SameClosing
  <1>3. /\ b \in Channel /\ SameReading(c, b) /\ SameClosing(c, b)
        /\ b.wop = "idle" /\ b.wbuf = c.wbuf /\ b.posted = c.posted /\ b.stopping = c.stopping
    <2> HIDE DEF a
    <2>1. /\ b \in Channel /\ SameWriting(a, b) /\ SameReading(a, b) /\ SameClosing(a, b)
      BY <1>2, TimerIs
    <2> HIDE DEF b, c
    <2> QED BY <1>2, <2>1 DEF SameWriting, SameReading, SameClosing
  <1> DEFINE x == [b EXCEPT !.wbuf[1] = Moved]
             y == [b EXCEPT !.wbuf = Tail(@)]
             d1 == DoClosed(x, "Write")
             d2 == IF y.wbuf = << >> THEN y ELSE DoWrite(e, y)
  <1>4. \/ c.wop = "failed" /\ ch' = [ch EXCEPT ![e] = d1]
        \/ c.wop = "done" /\ ch' = [ch EXCEPT ![e] = d2]
    BY DEF WriteHandler, Run
  <1> HIDE DEF a, b
  <1>5. CASE c.wop = "failed" /\ ch' = [ch EXCEPT ![e] = d1]
    <2>1. [c.wbuf EXCEPT ![1] = Moved] \in Seq(Nat) /\ [c.wbuf EXCEPT ![1] = Moved] # << >>
      <3>1. Moved \in Nat
        BY DEF Moved
      <3>2. Len(c.wbuf) \in Nat /\ Len(c.wbuf) >= 1
        BY <1>1
      <3> HIDE DEF c
      <3>3. [c.wbuf EXCEPT ![1] = Moved] \in [1 .. Len(c.wbuf) -> Nat]
        BY <1>1, <3>1, <3>2
      <3>4. [c.wbuf EXCEPT ![1] = Moved] \in Seq(Nat)
        BY <3>2, <3>3, NatsAreSeq
      <3>5. 1 \in DOMAIN [c.wbuf EXCEPT ![1] = Moved]
        BY <3>2, <3>3
      <3> QED BY <3>4, <3>5
    <2> DEFINE m == [c.wbuf EXCEPT ![1] = Moved]
    <2>2. x = [b EXCEPT !.wbuf = m]
      BY <1>3
    <2> HIDE DEF c, m
    <2>3. /\ x \in Channel /\ SameReading(b, x) /\ SameClosing(b, x) /\ x.wbuf = m
          /\ x.wop = b.wop /\ x.posted = b.posted /\ x.stopping = b.stopping
      <3> HIDE DEF x
      <3>1. m \in Seq(Nat)
        BY <2>1 DEF m
      <3> QED BY <1>3, <2>2, <3>1 DEF Channel, SameReading, SameClosing
    <2>4. "Write" \in CloseTypes
      BY DEF CloseTypes
    <2> HIDE DEF x
    <2>5. d1 \in Channel /\ SameWriting(x, d1) /\ SameReading(x, d1) /\ MaybeClosed(x, d1)
      BY <2>3, <2>4, DoClosedIs
    <2> HIDE DEF d1
    <2>6. SameReading(c, d1) /\ MaybeClosed(c, d1)
      BY <1>3, <2>3, <2>5 DEF SameReading, SameClosing, MaybeClosed
    <2>7. /\ d1.posted = c.posted /\ d1.stopping = c.stopping /\ d1.wop = "idle"
          /\ d1.wbuf = m /\ m # << >>
      BY <1>3, <2>1, <2>3, <2>5 DEF SameWriting, m
    <2> QED BY <1>5, <2>5, <2>6, <2>7 DEF c
  <1>6. CASE c.wop = "done" /\ ch' = [ch EXCEPT ![e] = d2]
    <2> DEFINE m == Tail(c.wbuf)
    <2>1. m \in Seq(Nat)
      BY <1>1
    <2>2. y = [b EXCEPT !.wbuf = m]
      BY <1>3
    <2> HIDE DEF c, m
    <2>3. /\ y \in Channel /\ SameReading(b, y) /\ SameClosing(b, y) /\ y.wbuf = m
          /\ y.wop = b.wop /\ y.posted = b.posted /\ y.stopping = b.stopping
      <3> HIDE DEF y
      <3> QED BY <1>3, <2>1, <2>2 DEF Channel, SameReading, SameClosing
    <2> HIDE DEF y
    <2>4. /\ d2 \in Channel /\ SameReading(y, d2) /\ SameClosing(y, d2)
          /\ d2.posted = y.posted /\ d2.wbuf = y.wbuf /\ d2.stopping = y.stopping
          /\ \/ m = << >> /\ d2.wop = y.wop
             \/ m # << >> /\ d2.wop = "busy" /\ d2.wn = 0
      <3>1. CASE m = << >>
        BY <2>3, <3>1 DEF SameReading, SameClosing
      <3>2. CASE m # << >>
        BY <2>3, <3>2, DoWriteIs
      <3> QED BY <3>1, <3>2
    <2> HIDE DEF d2
    <2>5. SameReading(c, d2) /\ MaybeClosed(c, d2)
      BY <1>3, <2>3, <2>4 DEF SameReading, SameClosing, MaybeClosed
    <2> QED BY <1>3, <1>6, <2>3, <2>4, <2>5 DEF c, m
  <1> QED BY <1>4, <1>5, <1>6

----------------------------------------------------------------------------
(* The handlers posted and the write buffer, as sequences *)

LEMMA AppendIs ==
  ASSUME NEW p \in Seq(Nat), NEW m \in Nat
  PROVE  /\ Append(p, m) \in Seq(Nat)
         /\ Len(p) \in Nat /\ Len(Append(p, m)) = Len(p) + 1
         /\ Append(p, m)[Len(p) + 1] = m
         /\ \A i \in 1 .. Len(p) : Append(p, m)[i] = p[i]
         /\ Append(p, m) # << >>
  <1>1. Append(p, m) # << >>
    OBVIOUS
  <1> QED BY <1>1

LEMMA TailIs ==
  ASSUME NEW p \in Seq(Nat), p # << >>
  PROVE  /\ Tail(p) \in Seq(Nat)
         /\ Len(p) \in Nat /\ Len(p) >= 1 /\ Len(Tail(p)) = Len(p) - 1
         /\ Head(p) = p[1] /\ Head(p) \in Nat
         /\ \A i \in 1 .. Len(Tail(p)) : Tail(p)[i] = p[i + 1]
         /\ Tail(p) = << >> <=> Len(p) = 1
  <1>1. Len(p) \in Nat /\ Len(p) >= 1 /\ Head(p) = p[1] /\ Head(p) \in Nat
    OBVIOUS
  <1>2. Tail(p) \in Seq(Nat) /\ Len(Tail(p)) = Len(p) - 1
    OBVIOUS
  <1>3. \A i \in 1 .. Len(Tail(p)) : Tail(p)[i] = p[i + 1]
    OBVIOUS
  <1>4. Tail(p) = << >> <=> Len(Tail(p)) = 0
    <2>1. \A t \in Seq(Nat) : t = << >> <=> Len(t) = 0
      OBVIOUS
    <2> QED BY <1>2, <2>1
  <1> QED BY <1>1, <1>2, <1>3, <1>4

\* SendMsg and Shutdown post a handler behind the others.
LEMMA PostedMessage ==
  ASSUME NEW p \in Seq(Nat), NEW q \in Nat, NEW z \in Nat \ {0}, NEW n \in Nat,
         PostedOK(p, q, z, n)
  PROVE  /\ z = Len(p) + 1 => PostedOK(Append(p, n + 1), q, z + 1, n + 1)
         /\ z <= Len(p) => PostedOK(Append(p, n + 1), q, z, n + 1)
  <1>1. CASE z = Len(p) + 1
    BY <1>1, AppendIs DEF PostedOK
  <1>2. CASE z <= Len(p)
    <2>1. /\ Len(p) \in Nat /\ Len(Append(p, n + 1)) = Len(p) + 1
          /\ Append(p, n + 1)[Len(p) + 1] = n + 1
      BY AppendIs
    <2>2. n = q + Len(p) - 1
      BY <1>2 DEF PostedOK
    <2>3. ASSUME NEW i \in 1 .. Len(p)
          PROVE  Append(p, n + 1)[i] = IF i < z THEN q + i ELSE IF i = z THEN Shutdown_ ELSE q + i - 1
      BY AppendIs DEF PostedOK
    <2>4. ASSUME NEW i \in 1 .. Len(Append(p, n + 1)), ~ i \in 1 .. Len(p)
          PROVE  Append(p, n + 1)[i] = IF i < z THEN q + i ELSE IF i = z THEN Shutdown_ ELSE q + i - 1
      <3>1. i = Len(p) + 1 /\ ~ i <= z
        BY <1>2, <2>1, <2>4
      <3> QED BY <2>1, <2>2, <3>1
    <2>5. n + 1 = IF z <= Len(Append(p, n + 1)) THEN q + Len(Append(p, n + 1)) - 1
                                                ELSE q + Len(Append(p, n + 1))
      BY <1>2, <2>1, <2>2
    <2> QED BY <1>2, <2>1, <2>3, <2>4, <2>5 DEF PostedOK
  <1> QED BY <1>1, <1>2

LEMMA PostedShutdown ==
  ASSUME NEW p \in Seq(Nat), NEW q \in Nat, NEW z \in Nat \ {0}, NEW n \in Nat,
         PostedOK(p, q, z, n), z = Len(p) + 1
  PROVE  PostedOK(Append(p, Shutdown_), q, z, n)
  BY AppendIs DEF PostedOK, Shutdown_

\* The io thread takes the first one.
LEMMA PostedIsShutdown ==
  ASSUME NEW p \in Seq(Nat), NEW q \in Nat, NEW n \in Nat, p # << >>, PostedOK(p, q, 1, n)
  PROVE  Head(p) = Shutdown_ /\ PostedOK(Tail(p), q, Len(Tail(p)) + 1, n)
  BY TailIs DEF PostedOK, Shutdown_

LEMMA PostedIsMessage ==
  ASSUME NEW p \in Seq(Nat), NEW q \in Nat, NEW z \in Nat, NEW n \in Nat, z > 1,
         p # << >>, PostedOK(p, q, z, n)
  PROVE  /\ Head(p) = q + 1 /\ Head(p) # Shutdown_
         /\ PostedOK(Tail(p), q + 1, z - 1, n)
  BY TailIs DEF PostedOK, Shutdown_

\* Messages numbered up to q.
UpTo(b, q) == Len(b) <= q /\ \A i \in 1 .. Len(b) : b[i] = q - Len(b) + i

LEMMA UpToIs ==
  ASSUME NEW b \in Seq(Nat), NEW q \in Nat, UpTo(b, q)
  PROVE  /\ UpTo(Append(b, q + 1), q + 1)
         /\ b # << >> => UpTo(Tail(b), q) /\ Len(b) \in 1 .. q /\ Head(b) = q - Len(b) + 1
  <1>1. UpTo(Append(b, q + 1), q + 1)
    BY AppendIs DEF UpTo
  <1>2. ASSUME b # << >> PROVE UpTo(Tail(b), q)
    BY <1>2, TailIs DEF UpTo
  <1>3. ASSUME b # << >> PROVE Len(b) \in 1 .. q /\ Head(b) = q - Len(b) + 1
    BY <1>3, TailIs DEF UpTo
  <1> QED BY <1>1, <1>2, <1>3

LEMMA WritingTyped ==
  ASSUME NEW c \in Channel, NEW q \in Nat, NEW w \in Nat, WritingOK(c, q, w), c.wop # "idle"
  PROVE  /\ c.wbuf \in Seq(Nat) /\ c.wbuf # << >> /\ UpTo(c.wbuf, q)
         /\ Len(c.wbuf) \in 1 .. q /\ Head(c.wbuf) = q - Len(c.wbuf) + 1
         /\ c.wn \in 0 .. 2
         /\ IF c.wop = "done" THEN c.wn = 2 ELSE c.wn < 2
         /\ w = 2 * (q - Len(c.wbuf)) + c.wn
  <1>1. c.wbuf \in Seq(Nat) /\ c.wn \in 0 .. 2 /\ c.wop \in {"busy", "done", "failed"}
    BY DEF Channel
  <1>2. c.wbuf # << >> /\ UpTo(c.wbuf, q)
    BY DEF WritingOK, UpTo
  <1>3. /\ IF c.wop = "done" THEN c.wn = 2 ELSE c.wn < 2
        /\ w = 2 * (q - Len(c.wbuf)) + c.wn
    BY <1>1 DEF WritingOK
  <1>4. Len(c.wbuf) \in 1 .. q /\ Head(c.wbuf) = q - Len(c.wbuf) + 1
    BY <1>1, <1>2, UpToIs
  <1> QED BY <1>1, <1>2, <1>3, <1>4

LEMMA WritingWill ==
  ASSUME NEW d \in Channel, NEW q \in Nat, NEW w \in Nat, UpTo(d.wbuf, q), d.wop = "idle" <=> d.wbuf = << >>,
         d.wop \in {"busy", "failed"} => d.wn < 2, d.wop = "done" => d.wn = 2,
         d.wop = "idle" => w = 2 * (q - Len(d.wbuf)) + 0,
         d.wop # "idle" => w = 2 * (q - Len(d.wbuf)) + d.wn
  PROVE  WritingOK(d, q, w)
  BY DEF WritingOK, UpTo

\* The handler of a message puts it into m_writebuf.
LEMMA WritingQueue ==
  ASSUME NEW c \in Channel, NEW d \in Channel, NEW q \in Nat, NEW w \in Nat, NEW n \in Nat,
         WritingOK(c, q, w)
  PROVE  /\ n = q + 1 /\ d.wbuf = Append(c.wbuf, n)
         /\ d.wop = IF c.wbuf = << >> THEN "busy" ELSE c.wop
         /\ d.wn = IF c.wbuf = << >> THEN 0 ELSE c.wn
         => WritingOK(d, n, w)
  <1>0. SUFFICES ASSUME n = q + 1, d.wbuf = Append(c.wbuf, n),
                        d.wop = IF c.wbuf = << >> THEN "busy" ELSE c.wop,
                        d.wn = IF c.wbuf = << >> THEN 0 ELSE c.wn
                 PROVE  WritingOK(d, n, w)
    OBVIOUS
  <1>1. c.wbuf \in Seq(Nat) /\ c.wn \in 0 .. 2
    BY DEF Channel
  <1>2. d.wbuf # << >> /\ Len(d.wbuf) = Len(c.wbuf) + 1 /\ Len(c.wbuf) \in Nat /\ Len(d.wbuf) \in Nat
    BY <1>0, <1>1, AppendIs
  <1>3. n - Len(d.wbuf) = q - Len(c.wbuf)
    <2>1. n = q + 1
      BY <1>0
    <2> QED BY <1>2, <2>1
  <1>4. CASE c.wop = "idle" /\ c.wbuf # << >>
    <2>1. w <= 2 * q
      BY <1>4 DEF WritingOK
    <2>2. w <= 2 * n
      BY <1>0, <2>1
    <2> QED BY <1>0, <1>2, <1>4, <2>2 DEF WritingOK
  <1>5. CASE c.wop # "idle"
    <2>1. /\ UpTo(c.wbuf, q) /\ c.wbuf # << >>
          /\ IF c.wop = "done" THEN c.wn = 2 ELSE c.wn < 2
          /\ w = 2 * (q - Len(c.wbuf)) + c.wn
      BY <1>1, <1>5, WritingTyped
    <2>2. UpTo(d.wbuf, n)
      BY <1>0, <1>1, <2>1, UpToIs
    <2>3. w = 2 * (n - Len(d.wbuf)) + c.wn
      BY <1>3, <2>1, Zenon
    <2>4. d.wop = c.wop /\ d.wn = c.wn
      BY <1>0, <2>1
    <2>5. /\ d.wop \in {"busy", "failed"} => d.wn < 2
          /\ d.wop = "done" => d.wn = 2
      BY <2>1, <2>4
    <2>6. d.wop # "idle" /\ w = 2 * (n - Len(d.wbuf)) + d.wn
      BY <1>5, <2>3, <2>4
    <2>7. d.wop = "idle" <=> d.wbuf = << >>
      BY <1>2, <1>5, <2>4
    <2> QED BY <2>2, <2>5, <2>6, <2>7, WritingWill
  <1>6. CASE c.wop = "idle" /\ c.wbuf = << >>
    <2>1. UpTo(c.wbuf, q) /\ w = 2 * (q - Len(c.wbuf))
      BY <1>1, <1>6 DEF WritingOK, UpTo
    <2>2. UpTo(d.wbuf, n)
      BY <1>0, <1>1, <2>1, UpToIs
    <2>3. d.wop = "busy" /\ d.wn = 0
      BY <1>0, <1>6
    <2>4. w = 2 * (n - Len(d.wbuf)) + 0
      <3>1. w = 2 * (q - Len(c.wbuf)) + 0
        BY <1>2, <2>1
      <3> QED BY <1>3, <3>1, Zenon
    <2>5. d.wop # "idle" /\ w = 2 * (n - Len(d.wbuf)) + d.wn
      BY <2>3, <2>4
    <2>6. /\ d.wop \in {"busy", "failed"} => d.wn < 2
          /\ d.wop = "done" => d.wn = 2
          /\ d.wop = "idle" <=> d.wbuf = << >>
      BY <1>2, <2>3
    <2> QED BY <2>2, <2>5, <2>6, WritingWill
  <1> QED BY <1>4, <1>5, <1>6

\* A piece of the first message is written, or the write fails.
LEMMA WritingPiece ==
  ASSUME NEW c \in Channel, NEW d \in Channel, NEW q \in Nat, NEW w \in Nat, WritingOK(c, q, w),
         c.wop = "busy", d.wbuf = c.wbuf
  PROVE  /\ d.wop = "failed" /\ d.wn = c.wn => WritingOK(d, q, w)
         /\ d.wop = (IF c.wn = 1 THEN "done" ELSE "busy") /\ d.wn = c.wn + 1
            => WritingOK(d, q, w + 1)
         /\ <<Head(c.wbuf), c.wn + 1>> \in Piece
         /\ Place(<<Head(c.wbuf), c.wn + 1>>) = w + 1
  <1>1. /\ c.wbuf # << >> /\ UpTo(c.wbuf, q)
        /\ Len(c.wbuf) \in 1 .. q /\ Head(c.wbuf) = q - Len(c.wbuf) + 1
        /\ c.wn \in 0 .. 1
        /\ w = 2 * (q - Len(c.wbuf)) + c.wn
    <2>1. c.wop # "done" /\ c.wop # "idle"
      OBVIOUS
    <2>2. c.wn \in 0 .. 2 /\ c.wn < 2
      BY <2>1, WritingTyped
    <2>3. c.wn \in 0 .. 1
      BY <2>2
    <2> QED BY <2>1, <2>3, WritingTyped
  <1>2. ASSUME d.wop = "failed", d.wn = c.wn PROVE WritingOK(d, q, w)
    BY <1>1, <1>2 DEF WritingOK, UpTo
  <1>3. ASSUME d.wop = (IF c.wn = 1 THEN "done" ELSE "busy"), d.wn = c.wn + 1
        PROVE  WritingOK(d, q, w + 1)
    <2>1. /\ d.wop \in {"busy", "done"}
          /\ IF d.wop = "done" THEN d.wn = 2 ELSE d.wn < 2
      BY <1>1, <1>3
    <2>2. w + 1 = 2 * (q - Len(c.wbuf)) + d.wn
      BY <1>1, <1>3
    <2> QED BY <1>1, <2>1, <2>2 DEF WritingOK, UpTo
  <1> DEFINE h == Head(c.wbuf)
             k == c.wn + 1
             L == Len(c.wbuf)
  <1>4. h \in Nat \ {0} /\ k \in {1, 2} /\ 2 * (h - 1) + k = w + 1
    <2>1. L \in 1 .. q /\ h = q - L + 1 /\ c.wn \in 0 .. 1 /\ w = 2 * (q - L) + c.wn
      BY <1>1
    <2> HIDE DEF h, L
    <2> QED BY <2>1
  <1> HIDE DEF h, k
  <1>5. <<h, k>> \in Piece /\ Place(<<h, k>>) = w + 1
    BY <1>4 DEF Piece, Place
  <1> QED BY <1>2, <1>3, <1>5 DEF h, k

\* The handler of a write: the next message is written, or none any more.
LEMMA WritingDone ==
  ASSUME NEW c \in Channel, NEW d \in Channel, NEW q \in Nat, NEW w \in Nat, WritingOK(c, q, w),
         \/ /\ c.wop = "failed" /\ d.wop = "idle" /\ d.wbuf # << >>
         \/ /\ c.wop = "done" /\ d.wbuf = Tail(c.wbuf)
            /\ \/ Tail(c.wbuf) = << >> /\ d.wop = "idle"
               \/ Tail(c.wbuf) # << >> /\ d.wop = "busy" /\ d.wn = 0
  PROVE  WritingOK(d, q, w)
  <1>1. /\ c.wbuf \in Seq(Nat) /\ c.wbuf # << >> /\ UpTo(c.wbuf, q)
        /\ Len(c.wbuf) \in 1 .. q
        /\ c.wn \in 0 .. 2
        /\ IF c.wop = "done" THEN c.wn = 2 ELSE c.wn < 2
        /\ w = 2 * (q - Len(c.wbuf)) + c.wn
    BY WritingTyped
  <1>2. CASE c.wop = "failed" /\ d.wop = "idle" /\ d.wbuf # << >>
    <2>1. w <= 2 * q
      BY <1>1, <1>2
    <2> QED BY <1>2, <2>1 DEF WritingOK
  <1>3. CASE /\ c.wop = "done" /\ d.wbuf = Tail(c.wbuf)
             /\ \/ Tail(c.wbuf) = << >> /\ d.wop = "idle"
                \/ Tail(c.wbuf) # << >> /\ d.wop = "busy" /\ d.wn = 0
    <2>1. /\ UpTo(d.wbuf, q) /\ Len(d.wbuf) = Len(c.wbuf) - 1
      BY <1>1, <1>3, UpToIs, TailIs
    <2>2. w = 2 * (q - Len(d.wbuf)) + (IF d.wop = "idle" THEN 0 ELSE d.wn)
      <3> DEFINE L == Len(c.wbuf)
                 M == Len(d.wbuf)
      <3>1. L \in 1 .. q /\ M = L - 1 /\ w = 2 * (q - L) + 2
        BY <1>1, <1>3, <2>1
      <3> HIDE DEF L, M
      <3>2. w = 2 * (q - M) + 0
        BY <3>1
      <3>3. (IF d.wop = "idle" THEN 0 ELSE d.wn) = 0
        BY <1>3
      <3> QED BY <3>2, <3>3 DEF M
    <2>3. (d.wop = "idle" <=> d.wbuf = << >>) /\ d.wop # "done" /\ d.wop # "failed"
      BY <1>3
    <2>4. d.wop = "busy" => d.wn < 2
      BY <1>3
    <2> QED BY <2>1, <2>2, <2>3, <2>4 DEF WritingOK, UpTo
  <1> QED BY <1>2, <1>3

----------------------------------------------------------------------------
(* Pieces in the order of the stream *)

LEMMA FollowsFront ==
  ASSUME NEW b \in Seq(Piece), NEW m \in Nat, Follows(b, m), NEW n \in 1 .. Len(b)
  PROVE  /\ Follows(SubSeq(b, 1, n), m)
         /\ Follows(SubSeq(b, n + 1, Len(b)), m + n)
  <1>1. Follows(SubSeq(b, 1, n), m)
    BY FrontIs DEF Follows
  <1> DEFINE t == SubSeq(b, n + 1, Len(b))
  <1>2. Len(t) = Len(b) - n /\ \A i \in 1 .. Len(t) : t[i] = b[n + i]
    BY SubSeqIs
  <1> HIDE DEF t
  <1>3. ASSUME NEW i \in 1 .. Len(t) PROVE Place(t[i]) = (m + n) + i
    <2>1. n + i \in 1 .. Len(b)
      BY <1>2
    <2>2. Place(b[n + i]) = m + (n + i)
      BY <2>1 DEF Follows
    <2> QED BY <1>2, <2>1, <2>2
  <1>4. Follows(t, m + n)
    BY <1>3 DEF Follows
  <1> QED BY <1>1, <1>4 DEF t

LEMMA FollowsConcat ==
  ASSUME NEW a \in Seq(Piece), NEW b \in Seq(Piece), NEW m \in Nat,
         Follows(a, m), Follows(b, m + Len(a))
  PROVE  Follows(a \o b, m)
  <1> DEFINE t == a \o b
  <1>1. /\ Len(t) = Len(a) + Len(b) /\ Len(a) \in Nat /\ Len(b) \in Nat
        /\ \A i \in 1 .. Len(a) : t[i] = a[i]
        /\ \A i \in (Len(a) + 1) .. (Len(a) + Len(b)) : t[i] = b[i - Len(a)]
    BY ConcatIs
  <1> HIDE DEF t
  <1>2. ASSUME NEW i \in 1 .. Len(t) PROVE Place(t[i]) = m + i
    <2>1. CASE i \in 1 .. Len(a)
      BY <1>1, <2>1 DEF Follows
    <2>2. CASE ~ i \in 1 .. Len(a)
      <3>1. i \in (Len(a) + 1) .. (Len(a) + Len(b)) /\ i - Len(a) \in 1 .. Len(b)
        BY <1>1, <2>2
      <3>2. Place(b[i - Len(a)]) = (m + Len(a)) + (i - Len(a))
        BY <3>1 DEF Follows
      <3> QED BY <1>1, <3>1, <3>2
    <2> QED BY <2>1, <2>2
  <1> QED BY <1>2 DEF Follows, t

LEMMA FollowsAppend ==
  ASSUME NEW b \in Seq(Piece), NEW m \in Nat, NEW p \in Piece,
         Follows(b, m), Place(p) = m + Len(b) + 1
  PROVE  Append(b, p) \in Seq(Piece) /\ Len(Append(b, p)) = Len(b) + 1 /\ Follows(Append(b, p), m)
  <1> DEFINE t == Append(b, p)
  <1>1. /\ t \in Seq(Piece) /\ Len(t) = Len(b) + 1 /\ Len(b) \in Nat
        /\ t[Len(b) + 1] = p
    OBVIOUS
  <1>2. \A i \in 1 .. Len(b) : t[i] = b[i]
    OBVIOUS
  <1> HIDE DEF t
  <1>3. ASSUME NEW i \in 1 .. Len(t) PROVE Place(t[i]) = m + i
    <2>1. CASE i \in 1 .. Len(b)
      BY <1>2, <2>1 DEF Follows
    <2>2. CASE ~ i \in 1 .. Len(b)
      <3>1. i = Len(b) + 1
        BY <1>1, <2>2
      <3> QED BY <1>1, <3>1
    <2> QED BY <2>1, <2>2
  <1> QED BY <1>1, <1>3 DEF Follows, t

\* Where a piece stands says which one it is.
LEMMA PieceAt ==
  ASSUME NEW p \in Piece, NEW k \in Nat
  PROVE  /\ Place(p) = 2 * k + 1 => p[1] = k + 1
         /\ Place(p) = 2 * k + 2 => p[1] = k + 1
  <1>1. p[1] \in Nat /\ p[2] \in {1, 2}
    BY DEF Piece
  <1>2. \A x \in Nat, y \in {1, 2} :
           /\ 2 * (x - 1) + y = 2 * k + 1 => x = k + 1
           /\ 2 * (x - 1) + y = 2 * k + 2 => x = k + 1
    OBVIOUS
  <1> QED BY <1>1, <1>2 DEF Place

\* The decoder finds the messages that follow the g-th.
LEMMA DecodedIs ==
  ASSUME NEW b \in Seq(Piece), NEW g \in Nat, Follows(b, 2 * g)
  PROVE  /\ Decoded(b) \in Seq(Nat) /\ Len(Decoded(b)) = Whole(b)
         /\ \A i \in 1 .. Whole(b) : Decoded(b)[i] = g + i
  <1>1. Whole(b) \in Nat /\ 2 * Whole(b) <= Len(b)
    BY WholeIs
  <1>2. ASSUME NEW i \in 1 .. Whole(b)
        PROVE  b[2 * i - 1][1] = g + i /\ b[2 * i][1] = g + i
    <2>1. 2 * i - 1 \in 1 .. Len(b) /\ 2 * i \in 1 .. Len(b)
      BY <1>1
    <2>2. Place(b[2 * i - 1]) = 2 * g + (2 * i - 1) /\ Place(b[2 * i]) = 2 * g + 2 * i
      BY <2>1 DEF Follows
    <2>3. b[2 * i - 1] \in Piece /\ b[2 * i] \in Piece
      BY <2>1
    <2> DEFINE k == g + i - 1
    <2>4. k \in Nat /\ 2 * g + (2 * i - 1) = 2 * k + 1 /\ 2 * g + 2 * i = 2 * k + 2 /\ k + 1 = g + i
      OBVIOUS
    <2> HIDE DEF k
    <2> QED BY <2>2, <2>3, <2>4, PieceAt
  <1>3. Decoded(b) = [i \in 1 .. Whole(b) |-> g + i]
    BY <1>2 DEF Decoded
  <1>4. [i \in 1 .. Whole(b) |-> g + i] \in [1 .. Whole(b) -> Nat]
    BY <1>1
  <1> DEFINE f == [i \in 1 .. Whole(b) |-> g + i]
  <1>5. f \in Seq(Nat)
    <2> HIDE DEF f
    <2> QED BY <1>1, <1>4, NatsAreSeq DEF f
  <1>6. Len(f) = Whole(b) /\ \A i \in 1 .. Whole(b) : f[i] = g + i
    BY <1>1, <1>5
  <1> QED BY <1>3, <1>5, <1>6

----------------------------------------------------------------------------
(* The stream, from state to state *)

\* The parts of the invariant in the next state.
LEMMA SendingWill ==
  ASSUME NEW e \in Ends, NEW q \in Nat, NEW z \in Nat \ {0},
         \A i \in 1 .. Len(sent'[e]) : sent'[e][i] = i,
         PostedOK(ch'[e].posted, q, z, Len(sent'[e])),
         z = Len(ch'[e].posted) + 1 \/ (ch'[e].stopping /\ z <= Len(ch'[e].posted) + 1),
         WritingOK(ch'[e], q, Written(peer(e))')
  PROVE  SendingOK(e)'
  BY DEF SendingOK

LEMMA SendingSame ==
  ASSUME NEW e \in Ends, sent'[e] = sent[e], SameWriting(ch[e], ch'[e]),
         Written(peer(e))' = Written(peer(e)), SendingOK(e)
  PROVE  SendingOK(e)'
  <1>1. \A i \in 1 .. Len(sent[e]) : sent[e][i] = i
    BY DEF SendingOK
  <1>2. PICK q \in Nat, z \in Nat \ {0} :
          /\ PostedOK(ch[e].posted, q, z, Len(sent[e]))
          /\ z = Len(ch[e].posted) + 1 \/ (ch[e].stopping /\ z <= Len(ch[e].posted) + 1)
          /\ WritingOK(ch[e], q, Written(peer(e)))
    BY DEF SendingOK
  <1>3. WritingOK(ch'[e], q, Written(peer(e)))
    BY <1>2 DEF WritingOK, SameWriting
  <1> QED BY <1>1, <1>2, <1>3, SendingWill DEF SameWriting

LEMMA ReceivingSame ==
  ASSUME NEW e \in Ends, got'[e] = got[e], ch'[e].rbuf = ch[e].rbuf, ch'[e].fixed = ch[e].fixed,
         pipe'[peer(e)] = pipe[peer(e)]
  PROVE  /\ Taken(e)' = Taken(e) /\ Written(e)' = Written(e)
         /\ ReceivingOK(e) => ReceivingOK(e)'
  <1>1. Taken(e)' = Taken(e)
    BY DEF Taken
  <1>2. Written(e)' = Written(e)
    BY <1>1 DEF Written, Taken
  <1>3. ASSUME ReceivingOK(e) PROVE ReceivingOK(e)'
    BY <1>1, <1>3 DEF ReceivingOK, Follows, Taken, Place
  <1> QED BY <1>1, <1>2, <1>3

LEMMA ReceivingWill ==
  ASSUME NEW e \in Ends,
         \A i \in 1 .. Len(got'[e]) : got'[e][i] = i,
         Follows(ch'[e].rbuf, Taken(e)'),
         Follows(ch'[e].fixed, Taken(e)' + Len(ch'[e].rbuf)),
         Follows(pipe'[peer(e)], Taken(e)' + Len(ch'[e].rbuf) + Len(ch'[e].fixed))
  PROVE  ReceivingOK(e)'
  BY DEF ReceivingOK, Follows, Taken, Place

\* The stream of both ends.
StreamOK == \A x \in Ends : ReceivingOK(x) /\ SendingOK(x)

\* A step that changes neither the stream nor the write buffer.
LEMMA StreamSame ==
  ASSUME StreamOK, UNCHANGED <<pipe, sent, got>>,
         \A x \in Ends : /\ SameWriting(ch[x], ch'[x])
                         /\ ch'[x].rbuf = ch[x].rbuf /\ ch'[x].fixed = ch[x].fixed
  PROVE  StreamOK'
  <1> SUFFICES ASSUME NEW x \in Ends PROVE ReceivingOK(x)' /\ SendingOK(x)'
    BY DEF StreamOK
  <1>1. ReceivingOK(x) /\ SendingOK(x)
    BY DEF StreamOK
  <1>2. Written(peer(x))' = Written(peer(x))
    BY PeerIs, ReceivingSame
  <1> QED BY <1>1, <1>2, ReceivingSame, SendingSame

\* What the parts of the stream are.
LEMMA WrittenIs ==
  ASSUME TypeOK, NEW x \in Ends
  PROVE  /\ Taken(x) \in Nat /\ Written(x) \in Nat
         /\ ch[x] \in Channel
         /\ ch[x].posted \in Seq(Nat) /\ ch[x].rbuf \in Seq(Piece) /\ ch[x].fixed \in Seq(Piece)
         /\ pipe[peer(x)] \in Seq(Piece) /\ sent[x] \in Seq(Nat) /\ got[x] \in Seq(Nat)
  <1>1. /\ ch[x] \in Channel
        /\ pipe[peer(x)] \in Seq(Piece) /\ sent[x] \in Seq(Nat) /\ got[x] \in Seq(Nat)
    BY PeerIs DEF TypeOK
  <1>2. ch[x].posted \in Seq(Nat) /\ ch[x].rbuf \in Seq(Piece) /\ ch[x].fixed \in Seq(Piece)
    BY <1>1 DEF Channel
  <1>3. /\ Len(got[x]) \in Nat /\ Len(ch[x].rbuf) \in Nat /\ Len(ch[x].fixed) \in Nat
        /\ Len(pipe[peer(x)]) \in Nat
    BY <1>1, <1>2
  <1>4. Taken(x) \in Nat
    BY <1>3 DEF Taken
  <1>5. Written(x) \in Nat
    <2>1. \A t, a, b, n \in Nat : t + a + b + n \in Nat
      OBVIOUS
    <2> QED BY <1>3, <1>4, <2>1 DEF Written
  <1> QED BY <1>1, <1>2, <1>4, <1>5

LEMMA OtherSame ==
  ASSUME TypeOK, NEW e \in Ends, NEW d \in Channel, ch' = [ch EXCEPT ![e] = d]
  PROVE  /\ ch'[e] = d /\ ch'[peer(e)] = ch[peer(e)]
         /\ ch' \in [Ends -> Channel]
         /\ \A x \in Ends : x # e => ch'[x] = ch[x]
  BY PeerIs DEF TypeOK

\* A step of one end's writing, before anything is written.
LEMMA PostedStream ==
  ASSUME TypeOK, StreamOK, NEW e \in Ends, NEW d \in Channel, ch' = [ch EXCEPT ![e] = d],
         SameReading(ch[e], d), UNCHANGED <<pipe, got>>, \A x \in Ends : x # e => sent'[x] = sent[x],
         Written(peer(e))' = Written(peer(e)) => SendingOK(e)'
  PROVE  StreamOK'
  <1> SUFFICES ASSUME NEW x \in Ends PROVE ReceivingOK(x)' /\ SendingOK(x)'
    BY DEF StreamOK
  <1>1. ReceivingOK(x) /\ SendingOK(x)
    BY DEF StreamOK
  <1>2. ASSUME NEW y \in Ends
        PROVE  /\ got'[y] = got[y] /\ ch'[y].rbuf = ch[y].rbuf /\ ch'[y].fixed = ch[y].fixed
               /\ pipe'[peer(y)] = pipe[peer(y)]
    BY OtherSame, PeerIs DEF SameReading
  <1>3. Written(peer(x))' = Written(peer(x))
    BY <1>2, PeerIs, ReceivingSame
  <1>4. ReceivingOK(x)'
    BY <1>1, <1>2, ReceivingSame
  <1>5. CASE x = e
    BY <1>3, <1>4, <1>5
  <1>6. CASE x # e
    <2>1. sent'[x] = sent[x] /\ SameWriting(ch[x], ch'[x])
      BY <1>6, OtherSame DEF SameWriting
    <2> QED BY <1>1, <1>3, <1>4, <2>1, SendingSame
  <1> QED BY <1>5, <1>6

----------------------------------------------------------------------------
(* The stream, action by action *)

\* What SendingOK says, with its witnesses named.
Sending(e, q, z) ==
    /\ PostedOK(ch[e].posted, q, z, Len(sent[e]))
    /\ z = Len(ch[e].posted) + 1 \/ (ch[e].stopping /\ z <= Len(ch[e].posted) + 1)
    /\ WritingOK(ch[e], q, Written(peer(e)))

LEMMA SendingIs ==
  ASSUME StreamOK, NEW e \in Ends
  PROVE  /\ \A i \in 1 .. Len(sent[e]) : sent[e][i] = i
         /\ \E q \in Nat, z \in Nat \ {0} : Sending(e, q, z)
  BY DEF StreamOK, SendingOK, Sending

LEMMA SendMsgStream ==
  ASSUME TypeOK, StreamOK, NEW e \in Ends, SendMsg(e)
  PROVE  /\ StreamOK'
         /\ \E d \in Channel : /\ ch' = [ch EXCEPT ![e] = d]
                               /\ SameReading(ch[e], d) /\ SameClosing(ch[e], d)
         /\ sent' \in [Ends -> Seq(Nat)] /\ UNCHANGED <<pipe, got, conn>>
  <1> DEFINE n == Len(sent[e])
             p == Append(ch[e].posted, n + 1)
             d == [ch[e] EXCEPT !.posted = p]
  <1>1. /\ ch[e] \in Channel /\ ch[e].posted \in Seq(Nat) /\ sent[e] \in Seq(Nat)
        /\ n \in Nat
    BY WrittenIs
  <1>2. /\ ch' = [ch EXCEPT ![e] = d]
        /\ sent' = [sent EXCEPT ![e] = Append(sent[e], n + 1)]
        /\ UNCHANGED <<pipe, got, conn>>
    BY DEF SendMsg
  <1>3. p \in Seq(Nat) /\ Len(p) = Len(ch[e].posted) + 1
    BY <1>1, AppendIs
  <1>4. /\ d \in Channel /\ SameReading(ch[e], d) /\ SameClosing(ch[e], d)
        /\ d.posted = p /\ d.wbuf = ch[e].wbuf /\ d.wop = ch[e].wop /\ d.wn = ch[e].wn
        /\ d.stopping = ch[e].stopping
    <2> HIDE DEF p
    <2> QED BY <1>1, <1>3 DEF Channel, SameReading, SameClosing
  <1> HIDE DEF d
  <1>5. /\ sent' \in [Ends -> Seq(Nat)] /\ sent'[e] = Append(sent[e], n + 1)
        /\ \A x \in Ends : x # e => sent'[x] = sent[x]
    BY <1>1, <1>2 DEF TypeOK
  <1>6. ASSUME Written(peer(e))' = Written(peer(e)) PROVE SendingOK(e)'
    <2>1. PICK q \in Nat, z \in Nat \ {0} : Sending(e, q, z)
      BY SendingIs
    <2>2. ch'[e] = d
      BY <1>2, <1>4, OtherSame
    <2>3. WritingOK(ch'[e], q, Written(peer(e))')
      BY <1>4, <1>6, <2>1, <2>2 DEF Sending, WritingOK
    <2>4. Len(sent'[e]) = n + 1 /\ \A i \in 1 .. Len(sent'[e]) : sent'[e][i] = i
      <3>1. \A i \in 1 .. n : sent[e][i] = i
        BY SendingIs
      <3>2. /\ Len(sent'[e]) = n + 1 /\ sent'[e][n + 1] = n + 1
            /\ \A i \in 1 .. n : sent'[e][i] = sent[e][i]
        BY <1>1, <1>5, AppendIs
      <3>3. n \in Nat
        BY <1>1
      <3> HIDE DEF n
      <3>4. ASSUME NEW i \in 1 .. (n + 1) PROVE sent'[e][i] = i
        <4>1. CASE i = n + 1
          BY <3>2, <4>1
        <4>2. CASE i # n + 1
          <5>1. i \in 1 .. n
            BY <3>3, <4>2
          <5> QED BY <3>1, <3>2, <5>1
        <4> QED BY <4>1, <4>2
      <3> QED BY <3>2, <3>4
    <2>5. CASE z = Len(ch[e].posted) + 1
      <3>1. PostedOK(p, q, z + 1, n + 1)
        BY <1>1, <2>1, <2>5, PostedMessage DEF Sending
      <3>2. z + 1 \in Nat \ {0} /\ z + 1 = Len(p) + 1
        BY <1>3, <2>5
      <3> QED BY <1>4, <2>2, <2>3, <2>4, <3>1, <3>2, SendingWill
    <2>6. CASE z # Len(ch[e].posted) + 1
      <3>1. ch[e].stopping /\ z <= Len(ch[e].posted)
        <4>1. ch[e].stopping /\ z <= Len(ch[e].posted) + 1
          BY <2>1, <2>6 DEF Sending
        <4>2. Len(ch[e].posted) \in Nat
          BY <1>1
        <4> QED BY <2>6, <4>1, <4>2
      <3>2. PostedOK(p, q, z, n + 1)
        BY <1>1, <2>1, <3>1, PostedMessage DEF Sending
      <3>3. z <= Len(p) + 1
        BY <1>1, <1>3, <3>1
      <3> QED BY <1>4, <2>2, <2>3, <2>4, <3>1, <3>2, <3>3, SendingWill
    <2> QED BY <2>5, <2>6
  <1>7. StreamOK'
    BY <1>2, <1>4, <1>5, <1>6, PostedStream
  <1> QED BY <1>2, <1>4, <1>5, <1>7

LEMMA ShutdownStream ==
  ASSUME TypeOK, StreamOK, NEW e \in Ends, Shutdown(e)
  PROVE  /\ StreamOK'
         /\ \E d \in Channel : /\ ch' = [ch EXCEPT ![e] = d]
                               /\ SameReading(ch[e], d) /\ SameClosing(ch[e], d)
         /\ UNCHANGED <<pipe, sent, got, conn>>
  <1> DEFINE p == Append(ch[e].posted, Shutdown_)
             d == [ch[e] EXCEPT !.posted = p, !.stopping = TRUE]
  <1>1. /\ ch[e] \in Channel /\ ch[e].posted \in Seq(Nat) /\ Shutdown_ \in Nat
        /\ sent[e] \in Seq(Nat)
    BY WrittenIs DEF Shutdown_
  <1>2. /\ ch' = [ch EXCEPT ![e] = d] /\ ~ ch[e].stopping
        /\ UNCHANGED <<pipe, sent, got, conn>>
    BY DEF Shutdown, TypeOK
  <1>3. p \in Seq(Nat) /\ Len(p) = Len(ch[e].posted) + 1
    BY <1>1, AppendIs
  <1>4. /\ d \in Channel /\ SameReading(ch[e], d) /\ SameClosing(ch[e], d)
        /\ d.posted = p /\ d.wbuf = ch[e].wbuf /\ d.wop = ch[e].wop /\ d.wn = ch[e].wn
        /\ d.stopping
    <2> HIDE DEF p
    <2> QED BY <1>1, <1>3 DEF Channel, SameReading, SameClosing
  <1> HIDE DEF d
  <1>5. ASSUME Written(peer(e))' = Written(peer(e)) PROVE SendingOK(e)'
    <2>1. PICK q \in Nat, z \in Nat \ {0} : Sending(e, q, z)
      BY SendingIs
    <2>2. ch'[e] = d
      BY <1>2, <1>4, OtherSame
    <2>3. WritingOK(ch'[e], q, Written(peer(e))')
      BY <1>4, <1>5, <2>1, <2>2 DEF Sending, WritingOK
    <2>4. sent'[e] = sent[e] /\ \A i \in 1 .. Len(sent'[e]) : sent'[e][i] = i
      BY <1>2, SendingIs
    <2>5. z = Len(ch[e].posted) + 1
      BY <1>2, <2>1 DEF Sending
    <2>6. PostedOK(p, q, z, Len(sent[e]))
      <3>1. Len(sent[e]) \in Nat
        BY <1>1
      <3> QED BY <1>1, <2>1, <2>5, <3>1, PostedShutdown DEF Sending
    <2>7. z <= Len(p) + 1
      BY <1>1, <1>3, <2>5
    <2> QED BY <1>4, <2>2, <2>3, <2>4, <2>6, <2>7, SendingWill
  <1>6. StreamOK'
    BY <1>2, <1>4, <1>5, PostedStream
  <1> QED BY <1>2, <1>4, <1>6

LEMMA RunPostedStream ==
  ASSUME TypeOK, StreamOK, NEW e \in Ends, RunPosted(e)
  PROVE  /\ StreamOK'
         /\ \E d \in Channel : /\ ch' = [ch EXCEPT ![e] = d]
                               /\ SameReading(ch[e], d) /\ MaybeClosed(ch[e], d)
         /\ UNCHANGED <<pipe, sent, got, conn>>
  <1> DEFINE c == ch[e]
  <1>1. PICK d \in Channel :
          /\ ch' = [ch EXCEPT ![e] = d]
          /\ c.posted # << >> /\ Head(c.posted) \in Nat
          /\ d.posted = Tail(c.posted) /\ d.stopping = c.stopping
          /\ SameReading(c, d) /\ MaybeClosed(c, d)
          /\ Head(c.posted) = Shutdown_ => d.wbuf = c.wbuf /\ d.wop = c.wop /\ d.wn = c.wn
          /\ Head(c.posted) # Shutdown_ => /\ d.wbuf = Append(c.wbuf, Head(c.posted))
                                           /\ d.wop = IF c.wbuf = << >> THEN "busy" ELSE c.wop
                                           /\ d.wn = IF c.wbuf = << >> THEN 0 ELSE c.wn
    BY RunPostedIs
  <1>2. UNCHANGED <<pipe, sent, got, conn>>
    BY DEF RunPosted
  <1>3. /\ c \in Channel /\ c.posted \in Seq(Nat) /\ sent[e] \in Seq(Nat) /\ Len(sent[e]) \in Nat
        /\ Written(peer(e)) \in Nat
    BY WrittenIs, PeerIs
  <1>4. ch'[e] = d
    BY <1>1, OtherSame
  <1> HIDE DEF c
  <1>5. ASSUME Written(peer(e))' = Written(peer(e)) PROVE SendingOK(e)'
    <2>1. PICK q \in Nat, z \in Nat \ {0} :
            /\ PostedOK(c.posted, q, z, Len(sent[e]))
            /\ z = Len(c.posted) + 1 \/ (c.stopping /\ z <= Len(c.posted) + 1)
            /\ WritingOK(c, q, Written(peer(e)))
      BY SendingIs DEF Sending, c
    <2>2. sent'[e] = sent[e] /\ \A i \in 1 .. Len(sent'[e]) : sent'[e][i] = i
      BY <1>2, SendingIs
    <2>3. Len(Tail(c.posted)) \in Nat /\ Len(c.posted) = Len(Tail(c.posted)) + 1
      BY <1>1, <1>3, TailIs
    <2>4. CASE z = 1
      <3>1. Head(c.posted) = Shutdown_ /\ PostedOK(d.posted, q, Len(d.posted) + 1, Len(sent[e]))
        BY <1>1, <1>3, <2>1, <2>4, PostedIsShutdown
      <3>2. WritingOK(d, q, Written(peer(e)))
        BY <1>1, <2>1, <3>1 DEF WritingOK
      <3>3. Len(d.posted) + 1 \in Nat \ {0}
        BY <1>1, <2>3
      <3> QED BY <1>4, <1>5, <2>2, <3>1, <3>2, <3>3, SendingWill
    <2>5. CASE z > 1
      <3>1. /\ Head(c.posted) = q + 1 /\ Head(c.posted) # Shutdown_
            /\ PostedOK(d.posted, q + 1, z - 1, Len(sent[e]))
        BY <1>1, <1>3, <2>1, <2>5, PostedIsMessage
      <3>2. WritingOK(d, Head(c.posted), Written(peer(e)))
        BY <1>1, <1>3, <2>1, <3>1, WritingQueue
      <3>3. q + 1 \in Nat /\ z - 1 \in Nat \ {0}
        BY <2>5
      <3>4. z - 1 = Len(d.posted) + 1 \/ (d.stopping /\ z - 1 <= Len(d.posted) + 1)
        BY <1>1, <2>1, <2>3
      <3> QED BY <1>4, <1>5, <2>2, <3>1, <3>2, <3>3, <3>4, SendingWill
    <2> QED BY <2>4, <2>5
  <1>6. StreamOK'
    BY <1>1, <1>2, <1>5, PostedStream DEF c
  <1> QED BY <1>1, <1>2, <1>6 DEF c

\* A step of one end's reading: what its peer has sent and written is the same.
LEMMA ReadStream ==
  ASSUME TypeOK, StreamOK, NEW e \in Ends, NEW d \in Channel, ch' = [ch EXCEPT ![e] = d],
         SameWriting(ch[e], d), UNCHANGED sent,
         pipe'[e] = pipe[e], got'[peer(e)] = got[peer(e)],
         Written(e)' = Written(e), ReceivingOK(e)'
  PROVE  StreamOK'
  <1> DEFINE o == peer(e)
  <1>1. o \in Ends /\ o # e /\ peer(o) = e /\ \A x \in Ends : x = e \/ x = o
    BY PeerIs
  <1>2. ch'[e] = d /\ ch'[o] = ch[o]
    BY OtherSame
  <1>3. /\ ReceivingOK(e) /\ SendingOK(e) /\ ReceivingOK(o) /\ SendingOK(o)
    BY <1>1 DEF StreamOK
  <1>4. ReceivingOK(o)' /\ Written(o)' = Written(o)
    BY <1>1, <1>2, <1>3, ReceivingSame
  <1>5. SendingOK(e)'
    BY <1>2, <1>3, <1>4, SendingSame
  <1>6. SendingOK(o)'
    <2>1. SameWriting(ch[o], ch'[o])
      BY <1>2 DEF SameWriting
    <2> QED BY <1>1, <1>3, <2>1, SendingSame
  <1> QED BY <1>1, <1>4, <1>5, <1>6 DEF StreamOK

LEMMA ReadCompletesStream ==
  ASSUME TypeOK, StreamOK, NEW e \in Ends, ReadCompletes(e), ClosingOK(ch[e])
  PROVE  /\ StreamOK'
         /\ pipe' \in [Ends -> Seq(Piece)]
         /\ UNCHANGED <<sent, got, conn>>
  <1> DEFINE c == ch[e]
             b == pipe[peer(e)]
  <1>1. PICK d \in Channel :
          /\ ch' = [ch EXCEPT ![e] = d]
          /\ c.rop = "busy"
          /\ SameWriting(c, d) /\ SameClosing(c, d) /\ d.rbuf = c.rbuf
          /\ \/ d.rop = "failed" /\ d.fixed = c.fixed /\ UNCHANGED pipe
             \/ /\ c.socket = "open" /\ d.rop = "data"
                /\ \E n \in 1 .. Len(b) :
                      /\ d.fixed = SubSeq(b, 1, n)
                      /\ pipe' = [pipe EXCEPT ![peer(e)] = SubSeq(b, n + 1, Len(b))]
    BY ReadCompletesIs
  <1>2. UNCHANGED <<sent, got, conn>>
    BY DEF ReadCompletes
  <1>3. /\ ch'[e] = d /\ ch'[peer(e)] = ch[peer(e)]
    BY <1>1, OtherSame
  <1>4. /\ ReceivingOK(e) /\ b \in Seq(Piece) /\ Taken(e) \in Nat
        /\ c.rbuf \in Seq(Piece) /\ Len(c.rbuf) \in Nat /\ Len(b) \in Nat
    BY WrittenIs DEF StreamOK
  <1>5. Len(c.fixed) = 0 /\ c.fixed = << >>
    BY <1>1 DEF ClosingOK
  <1>6. CASE d.rop = "failed" /\ d.fixed = c.fixed /\ UNCHANGED pipe
    <2>1. ASSUME NEW x \in Ends
          PROVE  /\ SameWriting(ch[x], ch'[x])
                 /\ ch'[x].rbuf = ch[x].rbuf /\ ch'[x].fixed = ch[x].fixed
      <3>1. CASE x = e
        BY <1>1, <1>3, <1>6, <3>1
      <3>2. CASE x # e
        BY <1>1, <3>2, OtherSame DEF SameWriting
      <3> QED BY <3>1, <3>2
    <2>2. StreamOK'
      BY <1>2, <1>6, <2>1, StreamSame
    <2> QED BY <1>2, <1>6, <2>2 DEF TypeOK
  <1>7. ASSUME NEW n \in 1 .. Len(b), d.fixed = SubSeq(b, 1, n),
               pipe' = [pipe EXCEPT ![peer(e)] = SubSeq(b, n + 1, Len(b))]
        PROVE  StreamOK' /\ pipe' \in [Ends -> Seq(Piece)]
    <2> DEFINE r == SubSeq(b, n + 1, Len(b))
               f == SubSeq(b, 1, n)
               m == Taken(e) + Len(c.rbuf)
    <2>1. /\ r \in Seq(Piece) /\ Len(r) = Len(b) - n
          /\ Len(f) = n
      BY <1>4, <1>7, SubSeqIs, FrontIs
    <2>2. /\ pipe' \in [Ends -> Seq(Piece)] /\ pipe'[peer(e)] = r /\ pipe'[e] = pipe[e]
      <3>1. pipe \in [Ends -> Seq(Piece)] /\ pipe' = [pipe EXCEPT ![peer(e)] = r]
        BY <1>7 DEF TypeOK
      <3> HIDE DEF r
      <3> QED BY <2>1, <3>1, PeerIs
    <2>3. m \in Nat /\ Follows(b, m)
      <3>1. Follows(b, m + Len(c.fixed))
        BY <1>4 DEF ReceivingOK
      <3>2. m + Len(c.fixed) = m
        BY <1>4, <1>5
      <3> QED BY <1>4, <3>1, <3>2
    <2>4. Follows(f, m) /\ Follows(r, m + n)
      BY <1>4, <1>7, <2>3, FollowsFront
    <2>5. Taken(e)' = Taken(e)
      BY <1>2 DEF Taken
    <2>6. Written(e)' = Written(e)
      <3>1. Written(e) = Taken(e) + Len(c.rbuf) + 0 + Len(b)
        BY <1>5 DEF Written
      <3>2. Written(e)' = Taken(e) + Len(c.rbuf) + n + (Len(b) - n)
        BY <1>1, <1>3, <1>7, <2>1, <2>2, <2>5 DEF Written
      <3>3. \A t, x, y \in Nat : \A k \in 1 .. y : t + x + 0 + y = t + x + k + (y - k)
        OBVIOUS
      <3> QED BY <1>4, <3>1, <3>2, <3>3
    <2>7. ReceivingOK(e)'
      <3>1. \A i \in 1 .. Len(got'[e]) : got'[e][i] = i
        BY <1>2, <1>4 DEF ReceivingOK
      <3>2. Follows(ch'[e].rbuf, Taken(e)')
        BY <1>1, <1>3, <1>4, <2>5 DEF ReceivingOK
      <3>3. Follows(ch'[e].fixed, Taken(e)' + Len(ch'[e].rbuf))
        BY <1>1, <1>3, <1>7, <2>4, <2>5
      <3>4. Follows(pipe'[peer(e)], Taken(e)' + Len(ch'[e].rbuf) + Len(ch'[e].fixed))
        BY <1>1, <1>3, <1>7, <2>1, <2>2, <2>4, <2>5
      <3> QED BY <3>1, <3>2, <3>3, <3>4, ReceivingWill
    <2> HIDE DEF r, f, m, c, b
    <2>8. StreamOK'
      BY <1>1, <1>2, <2>2, <2>6, <2>7, ReadStream DEF c
    <2> QED BY <2>2, <2>8
  <1> QED BY <1>1, <1>2, <1>6, <1>7

LEMMA NumbersConcat ==
  ASSUME NEW a \in Seq(Nat), NEW b \in Seq(Nat)
  PROVE  /\ a \o b \in Seq(Nat) /\ Len(a \o b) = Len(a) + Len(b)
         /\ \A i \in 1 .. Len(a) : (a \o b)[i] = a[i]
         /\ \A i \in (Len(a) + 1) .. (Len(a) + Len(b)) : (a \o b)[i] = b[i - Len(a)]
  OBVIOUS

LEMMA BufferIs ==
  ASSUME NEW r \in Seq(Piece), NEW f \in Seq(Piece), NEW p, NEW t \in Nat,
         Follows(r, t), Follows(f, t + Len(r)), Follows(p, t + Len(r) + Len(f))
  PROVE  /\ r \o f \in Seq(Piece) /\ Len(r \o f) \in Nat
         /\ Follows(r \o f, t) /\ Follows(p, t + Len(r \o f))
         /\ t + Len(r) + Len(f) = t + Len(r \o f)
  <1>1. t + Len(r) + Len(f) = t + Len(r \o f) /\ r \o f \in Seq(Piece)
    BY ConcatIs
  <1>2. Follows(r \o f, t)
    BY FollowsConcat
  <1>3. Follows(p, t + Len(r \o f))
    BY <1>1
  <1> QED BY <1>1, <1>2, <1>3

LEMMA NoneDecoded ==
  ASSUME NEW b \in Seq(Piece), Whole(b) = 0
  PROVE  /\ Len(Undecoded(b)) = Len(b)
         /\ \A i \in 1 .. Len(b) : Undecoded(b)[i] = b[i]
         /\ \A t \in Nat : t + 2 * Whole(b) = t
  <1>1. Undecoded(b) = SubSeq(b, 1, Len(b))
    BY DEF Undecoded
  <1>2. SubSeq(b, 1, Len(b)) = b
    OBVIOUS
  <1> QED BY <1>1, <1>2

LEMMA ReadHandlerStream ==
  ASSUME TypeOK, StreamOK, NEW e \in Ends, ReadHandler(e)
  PROVE  /\ StreamOK'
         /\ got' \in [Ends -> Seq(Nat)]
         /\ \A x \in Ends : got'[x] # << >> => got[x] # << >> \/ ch[x].rop # "idle"
         /\ UNCHANGED <<pipe, sent, conn>>
  <1> DEFINE c == ch[e]
             b == Decodable(c)
  <1>1. PICK d \in Channel :
         /\ ch' = [ch EXCEPT ![e] = d]
         /\ SameWriting(c, d)
         /\ \/ /\ c.rop = "failed" /\ d.rop = "idle" /\ d.fixed = c.fixed /\ d.rbuf = c.rbuf
               /\ UNCHANGED got
            \/ /\ c.rop = "data" /\ d.fixed = << >>
               /\ d.rbuf = IF Stuck(c) THEN b ELSE Undecoded(b)
               /\ got' = [got EXCEPT ![e] = IF Asserts THEN @ \o Decoded(b) ELSE @]
    BY ReadHandlerIs
  <1>2. UNCHANGED <<pipe, sent, conn>>
    BY DEF ReadHandler
  <1>3. /\ ch'[e] = d /\ ch'[peer(e)] = ch[peer(e)]
    BY <1>1, OtherSame
  <1>4. /\ ReceivingOK(e) /\ Taken(e) \in Nat /\ got[e] \in Seq(Nat) /\ Len(got[e]) \in Nat
        /\ c.rbuf \in Seq(Piece) /\ Len(c.rbuf) \in Nat
        /\ c.fixed \in Seq(Piece) /\ Len(c.fixed) \in Nat
        /\ pipe[peer(e)] \in Seq(Piece) /\ Len(pipe[peer(e)]) \in Nat
    BY WrittenIs DEF StreamOK
  <1>5. CASE c.rop = "failed" /\ d.fixed = c.fixed /\ d.rbuf = c.rbuf /\ UNCHANGED got
    <2>1. ASSUME NEW x \in Ends
          PROVE  /\ SameWriting(ch[x], ch'[x])
                 /\ ch'[x].rbuf = ch[x].rbuf /\ ch'[x].fixed = ch[x].fixed
      <3>1. CASE x = e
        BY <1>1, <1>3, <1>5, <3>1
      <3>2. CASE x # e
        BY <1>1, <3>2, OtherSame DEF SameWriting
      <3> QED BY <3>1, <3>2
    <2>2. StreamOK'
      BY <1>2, <1>5, <2>1, StreamSame
    <2> QED BY <1>2, <1>5, <2>2 DEF TypeOK
  <1>6. CASE /\ c.rop = "data" /\ d.fixed = << >>
             /\ d.rbuf = IF Stuck(c) THEN b ELSE Undecoded(b)
             /\ got' = [got EXCEPT ![e] = IF Asserts THEN @ \o Decoded(b) ELSE @]
    <2>1. /\ b \in Seq(Piece) /\ Len(b) \in Nat
          /\ Follows(b, Taken(e)) /\ Follows(pipe[peer(e)], Taken(e) + Len(b))
          /\ Taken(e) + Len(c.rbuf) + Len(c.fixed) = Taken(e) + Len(b)
      <3>1. /\ Follows(c.rbuf, Taken(e)) /\ Follows(c.fixed, Taken(e) + Len(c.rbuf))
            /\ Follows(pipe[peer(e)], Taken(e) + Len(c.rbuf) + Len(c.fixed))
        BY <1>4 DEF ReceivingOK
      <3>2. b = c.rbuf \o c.fixed
        BY DEF Decodable
      <3>3. c.rbuf \in Seq(Piece) /\ c.fixed \in Seq(Piece) /\ Taken(e) \in Nat
        BY <1>4
      <3> HIDE DEF b, c
      <3>4. /\ c.rbuf \o c.fixed \in Seq(Piece) /\ Len(c.rbuf \o c.fixed) \in Nat
            /\ Follows(c.rbuf \o c.fixed, Taken(e))
            /\ Follows(pipe[peer(e)], Taken(e) + Len(c.rbuf \o c.fixed))
            /\ Taken(e) + Len(c.rbuf) + Len(c.fixed) = Taken(e) + Len(c.rbuf \o c.fixed)
        BY <3>1, <3>3, BufferIs
      <3> QED BY <3>2, <3>4, Zenon
    <2>2. Follows(b, Taken(e))
      BY <2>1
    <2>3. Follows(pipe[peer(e)], Taken(e) + Len(b))
      BY <2>1
    <2>4. Written(e) = Taken(e) + Len(b) + Len(pipe[peer(e)])
      BY <2>1 DEF Written
    <2>5. Whole(b) \in Nat /\ 2 * Whole(b) <= Len(b)
      BY <2>1, WholeIs
    <2>6. /\ Decoded(b) \in Seq(Nat) /\ Len(Decoded(b)) = Whole(b)
          /\ \A i \in 1 .. Whole(b) : Decoded(b)[i] = Len(got[e]) + i
      BY <1>4, <2>1, <2>2, DecodedIs DEF Taken
    <2>7. /\ Undecoded(b) \in Seq(Piece) /\ Len(Undecoded(b)) = Len(b) - 2 * Whole(b)
          /\ \A i \in 1 .. Len(Undecoded(b)) : Undecoded(b)[i] = b[2 * Whole(b) + i]
      BY <2>1, UndecodedIs
    \* k messages are taken from the buffer
    <2>8. \E k \in Nat :
            /\ got' \in [Ends -> Seq(Nat)] /\ got'[peer(e)] = got[peer(e)]
            /\ Len(got'[e]) = Len(got[e]) + k
            /\ \A i \in 1 .. Len(got'[e]) : got'[e][i] = i
            /\ Len(d.rbuf) = Len(b) - 2 * k
            /\ Follows(d.rbuf, Taken(e) + 2 * k)
      <3>0. \A i \in 1 .. Len(got[e]) : got[e][i] = i
        BY <1>4 DEF ReceivingOK
      <3>1. CASE ~ Asserts
        <4>1. UNCHANGED got
          BY <1>6, <3>1 DEF TypeOK
        <4>2. d.rbuf = b
          <5>1. CASE Stuck(c)
            BY <1>6, <5>1
          <5>2. CASE ~ Stuck(c)
            <6>1. Whole(b) = 0
              BY <2>5, <3>1, <5>2 DEF Stuck
            <6>2. Len(Undecoded(b)) = Len(b) /\ \A i \in 1 .. Len(b) : Undecoded(b)[i] = b[i]
              BY <2>1, <2>7, <6>1, NoneDecoded
            <6>3. Undecoded(b) = b
              <7> DEFINE u == Undecoded(b)
                         v == b
              <7> HIDE DEF u, v
              <7>1. \A x, y \in Seq(Piece) :
                       Len(x) = Len(y) /\ (\A i \in 1 .. Len(y) : x[i] = y[i]) => x = y
                OBVIOUS
              <7> QED BY <2>1, <2>7, <6>2, <7>1
            <6> QED BY <1>6, <5>2, <6>3
          <5> QED BY <5>1, <5>2
        <4>3. /\ Len(got'[e]) = Len(got[e]) + 0 /\ Len(d.rbuf) = Len(b) - 2 * 0
              /\ Taken(e) + 2 * 0 = Taken(e)
          <5>1. \A n \in Nat : n = n + 0 /\ n = n - 2 * 0 /\ n + 2 * 0 = n
            OBVIOUS
          <5> HIDE DEF b, c
          <5> QED BY <1>4, <2>1, <4>1, <4>2, <5>1
        <4>4. got' \in [Ends -> Seq(Nat)] /\ got'[peer(e)] = got[peer(e)]
          BY <4>1 DEF TypeOK
        <4>5. \A i \in 1 .. Len(got'[e]) : got'[e][i] = i
          BY <3>0, <4>1
        <4>6. 0 \in Nat
          OBVIOUS
        <4> QED BY <2>2, <4>2, <4>3, <4>4, <4>5, <4>6
      <3>2. CASE Asserts
        <4> DEFINE g == got[e] \o Decoded(b)
                   k == Whole(b)
        <4>1. ~ Stuck(c) /\ d.rbuf = Undecoded(b) /\ got' = [got EXCEPT ![e] = g]
          BY <1>6, <3>2 DEF Stuck
        <4>2. /\ g \in Seq(Nat) /\ Len(g) = Len(got[e]) + k
              /\ \A i \in 1 .. Len(got[e]) : g[i] = got[e][i]
              /\ \A i \in (Len(got[e]) + 1) .. (Len(got[e]) + k) : g[i] = Decoded(b)[i - Len(got[e])]
          <5> DEFINE x == Decoded(b)
          <5>1. x \in Seq(Nat) /\ Len(x) = k
            BY <2>6
          <5> HIDE DEF x, k, c
          <5>2. got[e] \in Seq(Nat)
            BY <1>4
          <5> QED BY <5>1, <5>2, NumbersConcat DEF x
        <4>3. ASSUME NEW i \in 1 .. Len(g) PROVE g[i] = i
          <5> DEFINE n == Len(got[e])
          <5>1. n \in Nat /\ k \in Nat /\ i \in 1 .. (n + k)
            BY <1>4, <2>5, <4>2
          <5>2. CASE i \in 1 .. n
            BY <3>0, <4>2, <5>2
          <5>3. CASE ~ i \in 1 .. n
            <6>1. i \in (n + 1) .. (n + k) /\ i - n \in 1 .. k /\ n + (i - n) = i
              <7> HIDE DEF n, k
              <7> QED BY <5>1, <5>3
            <6> QED BY <2>6, <4>2, <6>1
          <5> QED BY <5>2, <5>3
        <4>4. /\ got' \in [Ends -> Seq(Nat)] /\ got'[e] = g /\ got'[peer(e)] = got[peer(e)]
          <5>1. got \in [Ends -> Seq(Nat)]
            BY DEF TypeOK
          <5> HIDE DEF g
          <5> QED BY <4>1, <4>2, <5>1, PeerIs
        <4>5. Follows(d.rbuf, Taken(e) + 2 * k)
          <5>1. CASE k = 0
            <6>1. /\ Len(Undecoded(b)) = Len(b) /\ Taken(e) + 2 * k = Taken(e)
                  /\ \A i \in 1 .. Len(b) : Undecoded(b)[i] = b[i]
              BY <1>4, <2>1, <2>7, <5>1, NoneDecoded
            <6> QED BY <2>2, <4>1, <6>1 DEF Follows
          <5>2. CASE k # 0
            <6>1. 2 * k \in 1 .. Len(b)
              <7> HIDE DEF b, c, k
              <7>1. k \in Nat /\ 2 * k <= Len(b)
                BY <2>5 DEF k
              <7>2. Len(b) \in Nat
                BY <2>1
              <7> HIDE DEF g
              <7> QED BY <5>2, <7>1, <7>2
            <6>2. Undecoded(b) = SubSeq(b, 2 * k + 1, Len(b))
              BY DEF Undecoded
            <6> HIDE DEF k
            <6> QED BY <1>4, <2>1, <2>2, <4>1, <6>1, <6>2, FollowsFront
          <5> QED BY <5>1, <5>2
        <4> HIDE DEF g
        <4>6. k \in Nat
          BY <2>5
        <4>7. Len(d.rbuf) = Len(b) - 2 * k
          BY <2>7, <4>1
        <4> HIDE DEF k
        <4> QED BY <4>2, <4>3, <4>4, <4>5, <4>6, <4>7
      <3> QED BY <3>1, <3>2
    <2> HIDE DEF b, c
    <2>9. PICK k \in Nat :
            /\ got' \in [Ends -> Seq(Nat)] /\ got'[peer(e)] = got[peer(e)]
            /\ Len(got'[e]) = Len(got[e]) + k
            /\ \A i \in 1 .. Len(got'[e]) : got'[e][i] = i
            /\ Len(d.rbuf) = Len(b) - 2 * k
            /\ Follows(d.rbuf, Taken(e) + 2 * k)
      BY <2>8
    <2>10. Taken(e)' = Taken(e) + 2 * k
      <3>1. \A n \in Nat : 2 * (n + k) = 2 * n + 2 * k
        OBVIOUS
      <3> QED BY <1>4, <2>9, <3>1 DEF Taken
    <2>11. Len(ch'[e].fixed) = 0 /\ ch'[e].rbuf = d.rbuf
      BY <1>3, <1>6
    <2>12. /\ Taken(e)' + Len(d.rbuf) = Taken(e) + Len(b)
           /\ Taken(e)' + Len(d.rbuf) + 0 = Taken(e) + Len(b)
      <3>1. \A t, l \in Nat : (t + 2 * k) + (l - 2 * k) = t + l /\ (t + 2 * k) + (l - 2 * k) + 0 = t + l
        OBVIOUS
      <3>2. Len(d.rbuf) = Len(b) - 2 * k /\ Taken(e)' = Taken(e) + 2 * k
        BY <2>9, <2>10
      <3>3. Taken(e) \in Nat /\ Len(b) \in Nat
        BY <1>4, <2>1
      <3> QED BY <3>1, <3>2, <3>3, Zenon
    <2>13. Written(e)' = Written(e)
      BY <1>2, <2>4, <2>11, <2>12 DEF Written
    <2>14. ReceivingOK(e)'
      <3>1. Follows(ch'[e].rbuf, Taken(e)')
        BY <2>9, <2>10, <2>11
      <3>2. Follows(ch'[e].fixed, Taken(e)' + Len(ch'[e].rbuf))
        BY <2>11 DEF Follows
      <3>3. Follows(pipe'[peer(e)], Taken(e)' + Len(ch'[e].rbuf) + Len(ch'[e].fixed))
        BY <1>2, <2>3, <2>11, <2>12
      <3> QED BY <2>9, <3>1, <3>2, <3>3, ReceivingWill
    <2>15. StreamOK'
      BY <1>1, <1>2, <2>9, <2>13, <2>14, ReadStream DEF c
    <2>16. \A x \in Ends : got'[x] # << >> => got[x] # << >> \/ ch[x].rop # "idle"
      BY <1>6, <2>9, PeerIs DEF c
    <2> QED BY <1>2, <2>9, <2>15, <2>16
  <1> QED BY <1>1, <1>5, <1>6

LEMMA WriteTyped ==
  ASSUME TypeOK, StreamOK, NEW e \in Ends, ch[e].wop # "idle"
  PROVE  ch[e].wbuf # << >> /\ (ch[e].wop = "busy" => ch[e].wn < 2)
  <1>1. PICK q \in Nat, z \in Nat \ {0} : Sending(e, q, z)
    BY SendingIs
  <1>2. ch[e] \in Channel /\ Written(peer(e)) \in Nat /\ WritingOK(ch[e], q, Written(peer(e)))
    BY <1>1, WrittenIs, PeerIs DEF Sending
  <1>3. /\ ch[e].wbuf # << >>
        /\ IF ch[e].wop = "done" THEN ch[e].wn = 2 ELSE ch[e].wn < 2
    BY <1>2, WritingTyped
  <1> QED BY <1>3

LEMMA WriteHandlerStream ==
  ASSUME TypeOK, StreamOK, NEW e \in Ends, WriteHandler(e)
  PROVE  /\ StreamOK'
         /\ \E d \in Channel : /\ ch' = [ch EXCEPT ![e] = d]
                               /\ SameReading(ch[e], d) /\ MaybeClosed(ch[e], d)
         /\ UNCHANGED <<pipe, sent, got, conn>>
  <1> DEFINE c == ch[e]
  <1>1. PICK d \in Channel :
         /\ ch' = [ch EXCEPT ![e] = d]
         /\ SameReading(c, d) /\ MaybeClosed(c, d)
         /\ d.posted = c.posted /\ d.stopping = c.stopping
         /\ \/ /\ c.wop = "failed" /\ d.wop = "idle" /\ d.wbuf # << >>
            \/ /\ c.wop = "done" /\ d.wbuf = Tail(c.wbuf)
               /\ \/ Tail(c.wbuf) = << >> /\ d.wop = "idle"
                  \/ Tail(c.wbuf) # << >> /\ d.wop = "busy" /\ d.wn = 0
    <2>1. ch[e].wop # "idle"
      BY DEF WriteHandler
    <2> QED BY <2>1, WriteTyped, WriteHandlerIs
  <1>2. UNCHANGED <<pipe, sent, got, conn>>
    BY DEF WriteHandler
  <1>3. c \in Channel /\ Written(peer(e)) \in Nat
    BY WrittenIs, PeerIs
  <1>4. ch'[e] = d
    BY <1>1, OtherSame
  <1> HIDE DEF c
  <1>5. ASSUME Written(peer(e))' = Written(peer(e)) PROVE SendingOK(e)'
    <2>1. PICK q \in Nat, z \in Nat \ {0} :
            /\ PostedOK(c.posted, q, z, Len(sent[e]))
            /\ z = Len(c.posted) + 1 \/ (c.stopping /\ z <= Len(c.posted) + 1)
            /\ WritingOK(c, q, Written(peer(e)))
      BY SendingIs DEF Sending, c
    <2>2. sent'[e] = sent[e] /\ \A i \in 1 .. Len(sent'[e]) : sent'[e][i] = i
      BY <1>2, SendingIs
    <2>3. WritingOK(d, q, Written(peer(e)))
      BY <1>1, <1>3, <2>1, WritingDone
    <2> QED BY <1>1, <1>4, <1>5, <2>1, <2>2, <2>3, SendingWill
  <1>6. StreamOK'
    BY <1>1, <1>2, <1>5, PostedStream DEF c
  <1> QED BY <1>1, <1>2, <1>6 DEF c

LEMMA WriteProgressStream ==
  ASSUME TypeOK, StreamOK, NEW e \in Ends, WriteProgress(e)
  PROVE  /\ StreamOK'
         /\ \E d \in Channel : /\ ch' = [ch EXCEPT ![e] = d]
                               /\ SameReading(ch[e], d) /\ SameClosing(ch[e], d)
         /\ pipe' \in [Ends -> Seq(Piece)] /\ UNCHANGED <<sent, got, conn>>
  <1> DEFINE c == ch[e]
             o == peer(e)
             p == <<Head(c.wbuf), c.wn + 1>>
  <1>1. PICK d \in Channel :
         /\ ch' = [ch EXCEPT ![e] = d]
         /\ c.wop = "busy"
         /\ SameReading(c, d) /\ SameClosing(c, d)
         /\ d.posted = c.posted /\ d.stopping = c.stopping /\ d.wbuf = c.wbuf
         /\ \/ d.wop = "failed" /\ d.wn = c.wn /\ UNCHANGED pipe
            \/ /\ d.wn = c.wn + 1
               /\ d.wop = IF c.wn = 1 THEN "done" ELSE "busy"
               /\ pipe' = [pipe EXCEPT ![e] = Append(@, p)]
    <2>1. ch[e].wop = "busy"
      BY DEF WriteProgress
    <2> QED BY <2>1, WriteTyped, WriteProgressIs
  <1>2. UNCHANGED <<sent, got, conn>>
    BY DEF WriteProgress
  <1>3. c \in Channel /\ Written(o) \in Nat /\ o \in Ends /\ o # e /\ peer(o) = e /\ \A x \in Ends : x = e \/ x = o
    BY WrittenIs, PeerIs
  <1>4. ch'[e] = d /\ ch'[o] = ch[o]
    BY <1>1, OtherSame
  <1>5. PICK q \in Nat, z \in Nat \ {0} :
          /\ PostedOK(c.posted, q, z, Len(sent[e]))
          /\ z = Len(c.posted) + 1 \/ (c.stopping /\ z <= Len(c.posted) + 1)
          /\ WritingOK(c, q, Written(o))
    BY SendingIs DEF Sending
  <1>6. sent'[e] = sent[e] /\ \A i \in 1 .. Len(sent'[e]) : sent'[e][i] = i
    BY <1>2, SendingIs
  <1>7. CASE d.wop = "failed" /\ d.wn = c.wn /\ UNCHANGED pipe
    <2>1. WritingOK(d, q, Written(o))
      <3> HIDE DEF c, o
      <3> QED BY <1>1, <1>3, <1>5, <1>7, WritingPiece
    <2>2. ASSUME Written(peer(e))' = Written(peer(e)) PROVE SendingOK(e)'
      BY <1>1, <1>4, <1>5, <1>6, <2>1, <2>2, SendingWill
    <2>3. StreamOK'
      BY <1>1, <1>2, <1>7, <2>2, PostedStream
    <2>4. pipe' \in [Ends -> Seq(Piece)]
      BY <1>7 DEF TypeOK
    <2> QED BY <1>1, <1>2, <2>3, <2>4
  <1>8. CASE /\ d.wn = c.wn + 1
             /\ d.wop = IF c.wn = 1 THEN "done" ELSE "busy"
             /\ pipe' = [pipe EXCEPT ![e] = Append(@, p)]
    <2>1. /\ WritingOK(d, q, Written(o) + 1)
          /\ p \in Piece /\ Place(p) = Written(o) + 1
      <3> HIDE DEF c, o
      <3> QED BY <1>1, <1>3, <1>5, <1>8, WritingPiece
    <2> HIDE DEF p
    <2>2. pipe \in [Ends -> Seq(Piece)] /\ pipe[e] \in Seq(Piece) /\ Len(pipe[e]) \in Nat
      BY DEF TypeOK
    <2>3. /\ pipe' \in [Ends -> Seq(Piece)] /\ pipe'[e] = Append(pipe[e], p) /\ pipe'[o] = pipe[o]
      <3>1. Append(pipe[e], p) \in Seq(Piece)
        BY <2>1, <2>2
      <3>2. pipe' = [pipe EXCEPT ![e] = Append(pipe[e], p)]
        BY <1>8
      <3> QED BY <1>3, <2>2, <3>1, <3>2
    <2>4. ReceivingOK(o) /\ ReceivingOK(e) /\ SendingOK(o)
      BY <1>3 DEF StreamOK
    <2> DEFINE m == Taken(o) + Len(ch[o].rbuf) + Len(ch[o].fixed)
    <2>5. m \in Nat /\ Written(o) = m + Len(pipe[e]) /\ Follows(pipe[e], m)
      <3>1. m \in Nat
        <4>1. Taken(o) \in Nat /\ ch[o].rbuf \in Seq(Piece) /\ ch[o].fixed \in Seq(Piece)
          BY <1>3, WrittenIs
        <4>2. \A r, f \in Seq(Piece), t \in Nat : t + Len(r) + Len(f) \in Nat
          OBVIOUS
        <4> QED BY <4>1, <4>2
      <3>2. Written(o) = m + Len(pipe[e])
        BY <1>3 DEF Written
      <3>3. Follows(pipe[e], m)
        BY <1>3, <2>4 DEF ReceivingOK
      <3> QED BY <3>1, <3>2, <3>3
    <2>6. /\ Taken(o)' = Taken(o)
          /\ Taken(o)' + Len(ch'[o].rbuf) + Len(ch'[o].fixed) = m
      <3>1. Taken(o)' = Taken(o)
        BY <1>2 DEF Taken
      <3> QED BY <1>4, <3>1
    <2>7. Written(o)' = m + Len(pipe'[e])
      BY <1>3, <2>6 DEF Written
    <2>8. /\ Len(pipe'[e]) = Len(pipe[e]) + 1
          /\ Follows(pipe'[e], m)
      <3> HIDE DEF m, o
      <3> QED BY <2>1, <2>2, <2>3, <2>5, FollowsAppend
    <2>9. Written(o)' = Written(o) + 1
      <3> HIDE DEF m, o
      <3> DEFINE n == Len(pipe[e])
      <3>1. Written(o)' = m + (n + 1) /\ Written(o) = m + n /\ n \in Nat
        BY <2>2, <2>5, <2>7, <2>8
      <3> HIDE DEF n
      <3> QED BY <2>5, <3>1
    <2>10. ReceivingOK(o)'
      <3>1. \A i \in 1 .. Len(got'[o]) : got'[o][i] = i
        BY <1>2, <2>4 DEF ReceivingOK
      <3>2. Follows(ch'[o].rbuf, Taken(o)')
        BY <1>4, <2>4, <2>6 DEF ReceivingOK
      <3>3. Follows(ch'[o].fixed, Taken(o)' + Len(ch'[o].rbuf))
        BY <1>4, <2>4, <2>6 DEF ReceivingOK
      <3>4. Follows(pipe'[peer(o)], Taken(o)' + Len(ch'[o].rbuf) + Len(ch'[o].fixed))
        BY <1>3, <2>6, <2>8
      <3> HIDE DEF o
      <3> QED BY <1>3, <3>1, <3>2, <3>3, <3>4, ReceivingWill
    <2>11. SendingOK(e)'
      <3>1. WritingOK(ch'[e], q, Written(peer(e))')
        BY <1>4, <2>1, <2>9
      <3>2. ch'[e].posted = c.posted /\ ch'[e].stopping = c.stopping
        BY <1>1, <1>4
      <3> HIDE DEF c, o
      <3> QED BY <1>5, <1>6, <3>1, <3>2, SendingWill
    <2>12. ReceivingOK(e)' /\ Written(e)' = Written(e)
      BY <1>1, <1>2, <1>4, <2>3, <2>4, ReceivingSame DEF SameReading
    <2>13. SendingOK(o)'
      <3>1. SameWriting(ch[o], ch'[o]) /\ sent'[o] = sent[o]
        BY <1>2, <1>4 DEF SameWriting
      <3> QED BY <1>3, <2>4, <2>12, <3>1, SendingSame
    <2>14. StreamOK'
      BY <1>3, <2>10, <2>11, <2>12, <2>13 DEF StreamOK
    <2> QED BY <1>1, <1>2, <2>3, <2>14
  <1> QED BY <1>1, <1>7, <1>8

LEMMA TimerExpiresStream ==
  ASSUME TypeOK, StreamOK, NEW e \in Ends, NEW t \in {"read", "write"},
         TimerExpires(e, t) \/ TimerHandler(e, t)
  PROVE  /\ StreamOK'
         /\ \E d \in Channel : /\ ch' = [ch EXCEPT ![e] = d]
                               /\ SameReading(ch[e], d) /\ MaybeClosed(ch[e], d)
         /\ UNCHANGED <<pipe, sent, got, conn>>
  <1> DEFINE c == ch[e]
             a == [c EXCEPT !.timers = c.timers \ {t}, !.expired = c.expired \cup {t}]
             b == [c EXCEPT !.expired = c.expired \ {t}]
             type == IF t = "read" THEN "ReadTimeout" ELSE "WriteTimeout"
             f == DoClosed(b, type)
  <1>1. c \in Channel
    BY DEF TypeOK
  <1>2. UNCHANGED <<pipe, sent, got, conn>>
    BY DEF TimerExpires, TimerHandler
  <1>3. ch' = [ch EXCEPT ![e] = a] \/ ch' = [ch EXCEPT ![e] = f]
    BY DEF TimerExpires, TimerHandler, Run, TypeOK
  <1>4. a \in Channel /\ SameWriting(c, a) /\ SameReading(c, a) /\ SameClosing(c, a)
    BY <1>1 DEF Channel, SameWriting, SameReading, SameClosing
  <1>5. b \in Channel /\ SameWriting(c, b) /\ SameReading(c, b) /\ SameClosing(c, b)
    BY <1>1 DEF Channel, SameWriting, SameReading, SameClosing
  <1>6. type \in CloseTypes
    BY DEF CloseTypes
  <1> HIDE DEF a, b, type
  <1>7. f \in Channel /\ SameWriting(b, f) /\ SameReading(b, f) /\ MaybeClosed(b, f)
    BY <1>5, <1>6, DoClosedIs
  <1> HIDE DEF f, c
  <1>8. SameWriting(c, f) /\ SameReading(c, f) /\ MaybeClosed(c, f)
    BY <1>5, <1>7 DEF SameWriting, SameReading, SameClosing, MaybeClosed
  <1>9. \E d \in Channel : /\ ch' = [ch EXCEPT ![e] = d] /\ SameWriting(c, d)
                           /\ SameReading(c, d) /\ MaybeClosed(c, d)
    BY <1>3, <1>4, <1>7, <1>8 DEF MaybeClosed
  <1>10. PICK d \in Channel : /\ ch' = [ch EXCEPT ![e] = d] /\ SameWriting(c, d)
                              /\ SameReading(c, d) /\ MaybeClosed(c, d)
    BY <1>9
  <1>11. ASSUME NEW x \in Ends
         PROVE  /\ SameWriting(ch[x], ch'[x])
                /\ ch'[x].rbuf = ch[x].rbuf /\ ch'[x].fixed = ch[x].fixed
    <2>1. CASE x = e
      BY <1>10, <2>1, OtherSame DEF SameReading, c
    <2>2. CASE x # e
      BY <1>10, <2>2, OtherSame DEF SameWriting
    <2> QED BY <2>1, <2>2
  <1>12. StreamOK'
    BY <1>2, <1>11, StreamSame
  <1> QED BY <1>2, <1>10, <1>12 DEF c

----------------------------------------------------------------------------
(* The end of a channel *)

LEMMA ClosingKeeps ==
  ASSUME NEW c \in Channel, NEW d \in Channel, ClosingOK(c), MaybeClosed(c, d),
         d.fixed # << >> => d.rop = "data",
         d.rop # "idle" => c.socket # "null",
         d.rop = "data" => c.rop = "data"
  PROVE  ClosingOK(d) /\ (d.socket = "null" <=> c.socket = "null")
  <1>0. /\ c.opened \in BOOLEAN /\ d.opened \in BOOLEAN
        /\ c.batchesAfter \in Nat /\ d.batchesAfter \in Nat
    BY DEF Channel
  <1>1. CASE SameClosing(c, d)
    BY <1>0, <1>1 DEF ClosingOK, SameClosing
  <1>2. CASE /\ c.opened /\ ~ d.opened
             /\ d.socket = "closed"
             /\ Len(d.closes) = Len(c.closes) + 1
             /\ d.batchesAfter = c.batchesAfter
    <2>1. c.socket = "open" /\ Len(c.closes) = 0 /\ c.batchesAfter = 0
      BY <1>0, <1>2 DEF ClosingOK
    <2>2. Len(d.closes) = 1 /\ d.batchesAfter = 0
      BY <1>2, <2>1
    <2> QED BY <1>2, <2>1, <2>2 DEF ClosingOK
  <1> QED BY <1>1, <1>2 DEF MaybeClosed

LEMMA ClosingSame ==
  ASSUME NEW c \in Channel, NEW d \in Channel, ClosingOK(c), MaybeClosed(c, d), SameReading(c, d)
  PROVE  ClosingOK(d) /\ (d.socket = "null" <=> c.socket = "null")
  <1>1. /\ d.fixed # << >> => d.rop = "data"
        /\ d.rop # "idle" => c.socket # "null"
        /\ d.rop = "data" => c.rop = "data"
    BY DEF ClosingOK, SameReading
  <1> QED BY <1>1, ClosingKeeps

LEMMA ClosingOpens ==
  ASSUME NEW c \in Channel, NEW e \in Ends, ClosingOK(c), c.socket = "null"
  PROVE  ClosingOK(ChannelInit(e, c)) /\ ChannelInit(e, c).socket = "open"
  <1> DEFINE d == ChannelInit(e, c)
  <1>1. /\ d \in Channel
        /\ SameWriting(c, d) /\ d.opened /\ d.socket = "open"
        /\ d.closes = c.closes /\ d.batchesAfter = c.batchesAfter
        /\ d.rop = "busy" /\ d.fixed = c.fixed /\ d.rbuf = c.rbuf
    BY ChannelInitIs
  <1>2. c.closes = << >> /\ c.batchesAfter = 0 /\ c.fixed = << >>
    BY DEF ClosingOK, Channel
  <1> HIDE DEF d
  <1>3. Len(d.closes) <= 1 /\ ~ (d.batchesAfter > 0) /\ d.batchesAfter <= 1
    BY <1>1, <1>2
  <1>4. ClosingOK(d)
    BY <1>1, <1>2, <1>3 DEF ClosingOK
  <1> QED BY <1>1, <1>4 DEF d

----------------------------------------------------------------------------
(* A step of an end *)

\* What a step of the end e leaves as the invariant wants it.
StepOK(e) ==
    /\ \E d \in Channel :
          /\ ch' = [ch EXCEPT ![e] = d]
          /\ ClosingOK(d)
          /\ d.socket = "null" <=> ch[e].socket = "null"
    /\ pipe' \in [Ends -> Seq(Piece)]
    /\ sent' \in [Ends -> Seq(Nat)]
    /\ got' \in [Ends -> Seq(Nat)]
    /\ \A x \in Ends : got'[x] # << >> => got[x] # << >> \/ ch[x].socket # "null"
    /\ UNCHANGED conn
    /\ StreamOK'

LEMMA QuietStep ==
  ASSUME TypeOK, NEW e \in Ends, ClosingOK(ch[e]), StreamOK',
         \E d \in Channel : /\ ch' = [ch EXCEPT ![e] = d]
                            /\ SameReading(ch[e], d) /\ MaybeClosed(ch[e], d),
         pipe' \in [Ends -> Seq(Piece)], sent' \in [Ends -> Seq(Nat)], UNCHANGED <<got, conn>>
  PROVE  StepOK(e)
  <1>1. PICK d \in Channel : /\ ch' = [ch EXCEPT ![e] = d]
                             /\ SameReading(ch[e], d) /\ MaybeClosed(ch[e], d)
    OBVIOUS
  <1>2. ch[e] \in Channel /\ got' \in [Ends -> Seq(Nat)]
    BY DEF TypeOK
  <1>3. ClosingOK(d) /\ (d.socket = "null" <=> ch[e].socket = "null")
    BY <1>1, <1>2, ClosingSame
  <1> QED BY <1>1, <1>2, <1>3 DEF StepOK

LEMMA EndStep ==
  ASSUME TypeOK, StreamOK, NEW e \in Ends, \A x \in Ends : ClosingOK(ch[x]),
         \/ SendMsg(e)
         \/ Shutdown(e) \/ ReadCompletes(e) \/ WriteProgress(e)
         \/ \E t \in {"read", "write"} : TimerExpires(e, t)
         \/ Handlers(e)
  PROVE  StepOK(e)
  <1>1. pipe \in [Ends -> Seq(Piece)] /\ sent \in [Ends -> Seq(Nat)] /\ got \in [Ends -> Seq(Nat)]
    BY DEF TypeOK
  <1>2. ch[e] \in Channel /\ ClosingOK(ch[e])
    BY DEF TypeOK
  <1>3. CASE SendMsg(e)
    BY <1>1, <1>2, <1>3, SendMsgStream, QuietStep DEF MaybeClosed
  <1>4. CASE Shutdown(e)
    BY <1>1, <1>2, <1>4, ShutdownStream, QuietStep DEF MaybeClosed
  <1>5. CASE WriteProgress(e)
    BY <1>1, <1>2, <1>5, WriteProgressStream, QuietStep DEF MaybeClosed
  <1>6. CASE RunPosted(e)
    BY <1>1, <1>2, <1>6, RunPostedStream, QuietStep
  <1>7. CASE WriteHandler(e)
    BY <1>1, <1>2, <1>7, WriteHandlerStream, QuietStep
  <1>8. CASE \E t \in {"read", "write"} : TimerExpires(e, t) \/ TimerHandler(e, t)
    BY <1>1, <1>2, <1>8, TimerExpiresStream, QuietStep
  <1>9. CASE ReadCompletes(e)
    <2>1. PICK d \in Channel :
            /\ ch' = [ch EXCEPT ![e] = d]
            /\ ch[e].rop = "busy" /\ SameClosing(ch[e], d)
            /\ \/ d.rop = "failed" /\ d.fixed = ch[e].fixed
               \/ ch[e].socket = "open" /\ d.rop = "data"
      BY <1>9, ReadCompletesIs
    <2>2. StreamOK' /\ pipe' \in [Ends -> Seq(Piece)] /\ UNCHANGED <<sent, got, conn>>
      BY <1>2, <1>9, ReadCompletesStream
    <2> DEFINE c == ch[e]
    <2>3. /\ c \in Channel /\ ClosingOK(c) /\ c.rop = "busy" /\ SameClosing(c, d)
          /\ \/ d.rop = "failed" /\ d.fixed = c.fixed
             \/ c.socket = "open" /\ d.rop = "data"
      BY <1>2, <2>1
    <2> HIDE DEF c
    <2>4. ClosingOK(d) /\ (d.socket = "null" <=> c.socket = "null")
      <3>1. c.socket # "null" /\ c.fixed = << >> /\ c.opened \in BOOLEAN /\ c.batchesAfter \in Nat
        BY <2>3 DEF ClosingOK, Channel
      <3>2. CASE d.rop = "failed" /\ d.fixed = c.fixed
        BY <2>3, <3>1, <3>2 DEF ClosingOK, SameClosing
      <3>3. CASE c.socket = "open" /\ d.rop = "data"
        BY <2>3, <3>1, <3>3 DEF ClosingOK, SameClosing
      <3> QED BY <2>3, <3>2, <3>3
    <2> QED BY <1>1, <2>1, <2>2, <2>4 DEF StepOK, c
  <1>10. CASE ReadHandler(e)
    <2>1. PICK d \in Channel :
            /\ ch' = [ch EXCEPT ![e] = d]
            /\ \/ /\ ch[e].rop = "failed" /\ d.rop = "idle" /\ d.fixed = ch[e].fixed
                  /\ MaybeClosed(ch[e], d)
               \/ /\ ch[e].rop = "data" /\ d.rop \in {"idle", "busy"} /\ d.fixed = << >>
                  /\ d.opened = ch[e].opened /\ d.socket = ch[e].socket /\ d.closes = ch[e].closes
                  /\ \/ d.batchesAfter = ch[e].batchesAfter
                     \/ ~ ch[e].opened /\ d.batchesAfter = ch[e].batchesAfter + 1
      BY <1>10, ReadHandlerIs
    <2>2. /\ StreamOK' /\ got' \in [Ends -> Seq(Nat)] /\ UNCHANGED <<pipe, sent, conn>>
          /\ \A x \in Ends : got'[x] # << >> => got[x] # << >> \/ ch[x].rop # "idle"
      BY <1>10, ReadHandlerStream
    <2>3. \A x \in Ends : ch[x].rop # "idle" => ch[x].socket # "null"
      BY DEF ClosingOK
    <2> DEFINE c == ch[e]
    <2>4. c \in Channel /\ ClosingOK(c)
      BY <1>2
    <2>5. \/ /\ c.rop = "failed" /\ d.rop = "idle" /\ d.fixed = c.fixed /\ MaybeClosed(c, d)
          \/ /\ c.rop = "data" /\ d.rop \in {"idle", "busy"} /\ d.fixed = << >>
             /\ d.opened = c.opened /\ d.socket = c.socket /\ d.closes = c.closes
             /\ \/ d.batchesAfter = c.batchesAfter
                \/ ~ c.opened /\ d.batchesAfter = c.batchesAfter + 1
      BY <2>1
    <2> HIDE DEF c
    <2>6. ClosingOK(d) /\ (d.socket = "null" <=> c.socket = "null")
      <3>1. CASE c.rop = "failed" /\ d.rop = "idle" /\ d.fixed = c.fixed /\ MaybeClosed(c, d)
        <4>1. d.fixed = << >>
          BY <2>4, <3>1 DEF ClosingOK
        <4>2. /\ d.fixed # << >> => d.rop = "data"
              /\ d.rop # "idle" => c.socket # "null"
              /\ d.rop = "data" => c.rop = "data"
          BY <3>1, <4>1
        <4> QED BY <2>4, <3>1, <4>2, ClosingKeeps
      <3>2. CASE /\ c.rop = "data" /\ d.rop \in {"idle", "busy"} /\ d.fixed = << >>
                 /\ d.opened = c.opened /\ d.socket = c.socket /\ d.closes = c.closes
                 /\ \/ d.batchesAfter = c.batchesAfter
                    \/ ~ c.opened /\ d.batchesAfter = c.batchesAfter + 1
        <4>1. /\ c.opened \in BOOLEAN /\ c.socket \in {"null", "open", "closed"}
              /\ c.batchesAfter = 0 /\ c.socket # "null"
          BY <2>4, <3>2 DEF ClosingOK, Channel
        <4>2. d.batchesAfter = 0 \/ (d.batchesAfter = 1 /\ c.socket = "closed")
          BY <2>4, <3>2, <4>1 DEF ClosingOK
        <4> QED BY <2>4, <3>2, <4>1, <4>2 DEF ClosingOK
      <3> QED BY <2>5, <3>1, <3>2
    <2> QED BY <1>1, <2>1, <2>2, <2>3, <2>6 DEF StepOK, c
  <1> QED BY <1>3, <1>4, <1>5, <1>6, <1>7, <1>8, <1>9, <1>10 DEF Handlers

----------------------------------------------------------------------------
(* A step of the connection *)

\* What a step of the connection leaves as the invariant wants it.
ConnOK ==
    /\ ch' \in [Ends -> Channel]
    /\ \A x \in Ends : ClosingOK(ch'[x])
    /\ UNCHANGED <<pipe, sent, got>>
    /\ conn' \in Connection
    /\ OpeningOK'
    /\ StreamOK'

LEMMA Unopened ==
  ASSUME TypeOK, StreamOK, \A x \in Ends : ClosingOK(ch[x]), UNCHANGED <<ch, pipe, sent, got>>
  PROVE  ch' \in [Ends -> Channel] /\ (\A x \in Ends : ClosingOK(ch'[x])) /\ StreamOK'
  <1>1. \A x \in Ends : /\ SameWriting(ch[x], ch'[x])
                        /\ ch'[x].rbuf = ch[x].rbuf /\ ch'[x].fixed = ch[x].fixed
    BY DEF SameWriting
  <1>2. StreamOK'
    BY <1>1, StreamSame
  <1> QED BY <1>2 DEF TypeOK

LEMMA Opens ==
  ASSUME TypeOK, StreamOK, \A x \in Ends : ClosingOK(ch[x]), UNCHANGED <<pipe, sent, got>>,
         NEW e \in Ends, ch[e].socket = "null",
         ch' = [ch EXCEPT ![e] = ChannelInit(e, ch[e])]
  PROVE  /\ ch' \in [Ends -> Channel] /\ (\A x \in Ends : ClosingOK(ch'[x])) /\ StreamOK'
         /\ ch'[e].socket = "open"
         /\ \A x \in Ends : x # e => ch'[x] = ch[x]
  <1> DEFINE d == ChannelInit(e, ch[e])
  <1>1. ch[e] \in Channel
    BY DEF TypeOK
  <1>2. /\ d \in Channel /\ SameWriting(ch[e], d)
        /\ d.fixed = ch[e].fixed /\ d.rbuf = ch[e].rbuf
        /\ ClosingOK(d) /\ d.socket = "open"
    BY <1>1, ChannelInitIs, ClosingOpens
  <1> HIDE DEF d
  <1>3. ch' = [ch EXCEPT ![e] = d]
    BY DEF d
  <1>4. /\ ch'[e] = d /\ ch' \in [Ends -> Channel]
        /\ \A x \in Ends : x # e => ch'[x] = ch[x]
    BY <1>2, <1>3, OtherSame
  <1>5. \A x \in Ends : ClosingOK(ch'[x])
    BY <1>2, <1>4
  <1>6. ASSUME NEW x \in Ends
        PROVE  /\ SameWriting(ch[x], ch'[x])
               /\ ch'[x].rbuf = ch[x].rbuf /\ ch'[x].fixed = ch[x].fixed
    <2>1. CASE x = e
      BY <1>2, <1>4, <2>1
    <2>2. CASE x # e
      BY <1>4, <2>2 DEF SameWriting
    <2> QED BY <2>1, <2>2
  <1>7. StreamOK'
    BY <1>6, StreamSame
  <1> QED BY <1>2, <1>4, <1>5, <1>7

LEMMA Typed ==
  ASSUME TypeOK
  PROVE  /\ conn \in Connection
         /\ conn.mode \in Modes \cup {"none"} /\ conn.net \in {"idle", "syn", "established", "refused"}
         /\ conn.caller \in {"idle", "blocked", "waiting", "expired", "returned"}
         /\ conn.handler \in {"none", "pending", "init", "done"}
         /\ conn.result \in {"none", "ok", "failed"} /\ conn.promise \in {"unset", "ok", "failed"}
         /\ conn.accept \in {"pending", "opened", "accepted", "cancelled"}
  BY DEF TypeOK, Connection

LEMMA ConnectStep ==
  ASSUME TypeOK, StreamOK, OpeningOK, \A x \in Ends : ClosingOK(ch[x]),
         NEW mode \in Modes, Connect(mode)
  PROVE  ConnOK
  <1>1. /\ UNCHANGED <<ch, pipe, sent, got>> /\ conn.caller = "idle"
        /\ mode \in {"sync", "async", "waitfor"}
    BY ChannelAssumption DEF Connect
  <1>2. /\ conn'.mode = mode /\ conn'.net = "syn"
        /\ conn'.caller = (IF mode = "sync" THEN "blocked" ELSE IF mode = "async" THEN "returned" ELSE "waiting")
        /\ conn'.handler = (IF mode = "sync" THEN "none" ELSE "pending")
        /\ conn'.result = conn.result /\ conn'.accept = conn.accept /\ conn'.promise = conn.promise
        /\ conn' \in Connection
    BY <1>1, Typed DEF Connect, Connection
  <1>3. OpeningOK'
    BY <1>1, <1>2, Typed DEF OpeningOK, OpenOrOpening
  <1> QED BY <1>1, <1>2, <1>3, Unopened DEF ConnOK

LEMMA HandshakeStep ==
  ASSUME TypeOK, StreamOK, OpeningOK, \A x \in Ends : ClosingOK(ch[x]), Handshake
  PROVE  ConnOK
  <1>1. UNCHANGED <<ch, pipe, sent, got>> /\ conn.net = "syn"
    BY DEF Handshake
  <1>2. /\ conn'.mode = conn.mode /\ conn'.net \in {"established", "refused"}
        /\ conn'.caller = conn.caller /\ conn'.handler = conn.handler
        /\ conn'.result = conn.result /\ conn'.accept = conn.accept /\ conn'.promise = conn.promise
        /\ conn' \in Connection
    BY <1>1, Typed DEF Handshake, Connection
  <1>3. OpeningOK'
    BY <1>1, <1>2, Typed DEF OpeningOK, OpenOrOpening
  <1> QED BY <1>1, <1>2, <1>3, Unopened DEF ConnOK

LEMMA InitClientIs ==
  ASSUME TypeOK, StreamOK, \A x \in Ends : ClosingOK(ch[x]), UNCHANGED <<pipe, sent, got>>,
         ch["client"].socket = "null", InitClient
  PROVE  /\ ch' \in [Ends -> Channel] /\ (\A x \in Ends : ClosingOK(ch'[x])) /\ StreamOK'
         /\ conn.net = "established" => ch'["client"].socket = "open"
         /\ conn.net # "established" => ch' = ch
         /\ ch'["server"] = ch["server"]
  <1>1. "client" \in Ends /\ "server" \in Ends /\ "client" # "server"
    BY DEF Ends
  <1>2. CASE conn.net = "established"
    <2>1. ch' = [ch EXCEPT !["client"] = ChannelInit("client", ch["client"])]
      BY <1>2 DEF InitClient
    <2> QED BY <1>1, <1>2, <2>1, Opens
  <1>3. CASE conn.net # "established"
    BY <1>3, Unopened DEF InitClient
  <1> QED BY <1>2, <1>3

LEMMA SyncConnectStep ==
  ASSUME TypeOK, StreamOK, OpeningOK, \A x \in Ends : ClosingOK(ch[x]),
         SyncConnect
  PROVE  ConnOK
  <1>1. /\ UNCHANGED <<pipe, sent, got>> /\ conn.caller = "blocked" /\ InitClient
        /\ conn.handler = "none" /\ ch["client"].socket = "null"
        /\ conn.net \in {"established", "refused"}
    BY DEF SyncConnect, OpeningOK
  <1>2. /\ ch' \in [Ends -> Channel] /\ (\A x \in Ends : ClosingOK(ch'[x])) /\ StreamOK'
        /\ conn.net = "established" => ch'["client"].socket = "open"
        /\ conn.net # "established" => ch' = ch
        /\ ch'["server"] = ch["server"]
    BY <1>1, InitClientIs
  <1>3. /\ conn'.mode = conn.mode /\ conn'.net = conn.net
        /\ conn'.caller = "returned" /\ conn'.handler = conn.handler
        /\ conn'.result = Report /\ conn'.accept = conn.accept /\ conn'.promise = conn.promise
        /\ conn' \in Connection
    BY <1>1, Typed DEF SyncConnect, Connection, Report
  <1>4. OpeningOK'
    BY <1>1, <1>2, <1>3, Typed DEF OpeningOK, OpenOrOpening, Report, Ends
  <1> QED BY <1>1, <1>2, <1>3, <1>4 DEF ConnOK

LEMMA AsyncConnectStep ==
  ASSUME TypeOK, StreamOK, OpeningOK, \A x \in Ends : ClosingOK(ch[x]),
         AsyncConnect
  PROVE  ConnOK
  <1>1. /\ UNCHANGED <<pipe, sent, got>> /\ InitClient
        /\ conn.handler = "pending" /\ ch["client"].socket = "null"
        /\ conn.net \in {"established", "refused"}
        /\ ~ conn.caller \in {"idle", "blocked"}
    BY DEF AsyncConnect, OpeningOK
  <1>2. /\ ch' \in [Ends -> Channel] /\ (\A x \in Ends : ClosingOK(ch'[x])) /\ StreamOK'
        /\ conn.net = "established" => ch'["client"].socket = "open"
        /\ conn.net # "established" => ch' = ch
        /\ ch'["server"] = ch["server"]
    BY <1>1, InitClientIs
  <1>3. /\ conn'.mode = conn.mode /\ conn'.net = conn.net
        /\ conn'.caller = conn.caller /\ conn'.handler = "done"
        /\ conn'.result = Report /\ conn'.accept = conn.accept /\ conn'.promise = conn.promise
        /\ conn' \in Connection
    BY <1>1, Typed DEF AsyncConnect, Connection, Report
  <1>4. OpeningOK'
    BY <1>1, <1>2, <1>3, Typed DEF OpeningOK, OpenOrOpening, Report, Ends
  <1> QED BY <1>1, <1>2, <1>3, <1>4 DEF ConnOK

LEMMA WaitForHandlerStep ==
  ASSUME TypeOK, StreamOK, OpeningOK, \A x \in Ends : ClosingOK(ch[x]),
         WaitForHandler
  PROVE  ConnOK
  <1>1. /\ UNCHANGED <<pipe, sent, got>>
        /\ conn.handler \in {"pending", "init"} /\ ch["client"].socket = "null"
        /\ conn.net \in {"established", "refused"} /\ conn.mode = "waitfor"
        /\ ~ conn.caller \in {"idle", "blocked"}
    BY DEF WaitForHandler, OpeningOK
  <1>2. CASE /\ conn' = [conn EXCEPT
                !.promise = Report,
                !.handler = IF conn.net = "established" THEN "init" ELSE "done"]
             /\ UNCHANGED ch
    <2>1. /\ conn'.mode = conn.mode /\ conn'.net = conn.net
          /\ conn'.caller = conn.caller
          /\ conn'.handler = (IF conn.net = "established" THEN "init" ELSE "done")
          /\ conn'.promise = (IF conn.net = "established" THEN "ok" ELSE "failed")
          /\ conn'.result = conn.result /\ conn'.accept = conn.accept
          /\ conn' \in Connection
      BY <1>1, <1>2, Typed DEF Connection, Report
    <2>2. OpeningOK'
      BY <1>1, <1>2, <2>1, Typed DEF OpeningOK, OpenOrOpening
    <2> QED BY <1>1, <1>2, <2>1, <2>2, Unopened DEF ConnOK
  <1>3. CASE conn' = [conn EXCEPT !.handler = "done"] /\ InitClient
    <2>1. /\ ch' \in [Ends -> Channel] /\ (\A x \in Ends : ClosingOK(ch'[x])) /\ StreamOK'
          /\ conn.net = "established" => ch'["client"].socket = "open"
          /\ conn.net # "established" => ch' = ch
          /\ ch'["server"] = ch["server"]
      BY <1>1, <1>3, InitClientIs
    <2>2. /\ conn'.mode = conn.mode /\ conn'.net = conn.net
          /\ conn'.caller = conn.caller /\ conn'.handler = "done"
          /\ conn'.result = conn.result /\ conn'.accept = conn.accept /\ conn'.promise = conn.promise
          /\ conn' \in Connection
      BY <1>1, <1>3, Typed DEF Connection
    <2>3. OpeningOK'
      BY <1>1, <2>1, <2>2, Typed DEF OpeningOK, OpenOrOpening, Ends
    <2> QED BY <1>1, <2>1, <2>2, <2>3 DEF ConnOK
  <1> QED BY <1>2, <1>3 DEF WaitForHandler

LEMMA WaitForCallerStep ==
  ASSUME TypeOK, StreamOK, OpeningOK, \A x \in Ends : ClosingOK(ch[x]),
         WaitForCaller
  PROVE  ConnOK
  <1>1. /\ UNCHANGED <<ch, pipe, sent, got>>
        /\ conn.caller \in {"waiting", "expired"}
    BY DEF WaitForCaller
  <1>2. /\ conn'.mode = conn.mode /\ conn'.net = conn.net
        /\ conn'.caller \in {"expired", "returned"} /\ conn'.handler = conn.handler
        /\ conn'.result \in {conn.result, conn.promise, "failed"}
        /\ conn'.accept = conn.accept /\ conn'.promise = conn.promise
        /\ conn' \in Connection
    BY <1>1, Typed DEF WaitForCaller, Connection
  <1>3. OpeningOK'
    BY <1>1, <1>2, Typed DEF OpeningOK, OpenOrOpening
  <1> QED BY <1>1, <1>2, <1>3, Unopened DEF ConnOK

LEMMA AcceptingStep ==
  ASSUME TypeOK, StreamOK, OpeningOK, \A x \in Ends : ClosingOK(ch[x]),
         Accepting
  PROVE  ConnOK
  <1>1. CASE DoAccept
    <2>1. /\ UNCHANGED <<pipe, sent, got>> /\ conn.accept = "pending"
          /\ ch["server"].socket = "null" /\ conn.net = "established"
          /\ ch' = [ch EXCEPT !["server"] = ChannelInit("server", ch["server"])]
      BY <1>1 DEF DoAccept, OpeningOK
    <2>2. "client" \in Ends /\ "server" \in Ends /\ "client" # "server"
      BY DEF Ends
    <2>3. /\ ch' \in [Ends -> Channel] /\ (\A x \in Ends : ClosingOK(ch'[x])) /\ StreamOK'
          /\ ch'["server"].socket = "open" /\ ch'["client"] = ch["client"]
      BY <2>1, <2>2, Opens
    <2>4. /\ conn'.mode = conn.mode /\ conn'.net = conn.net
          /\ conn'.caller = conn.caller /\ conn'.handler = conn.handler
          /\ conn'.result = conn.result /\ conn'.accept = "opened" /\ conn'.promise = conn.promise
          /\ conn' \in Connection
      BY <1>1, Typed DEF DoAccept, Connection
    <2>5. OpeningOK'
      BY <2>1, <2>2, <2>3, <2>4, Typed DEF OpeningOK, OpenOrOpening, Ends
    <2> QED BY <2>1, <2>3, <2>4, <2>5 DEF ConnOK
  <1>2. CASE OnAccept
    <2>1. UNCHANGED <<ch, pipe, sent, got>> /\ conn.accept = "opened"
      BY <1>2 DEF OnAccept
    <2>2. /\ conn'.mode = conn.mode /\ conn'.net = conn.net
          /\ conn'.caller = conn.caller /\ conn'.handler = conn.handler
          /\ conn'.result = conn.result /\ conn'.accept = "accepted" /\ conn'.promise = conn.promise
          /\ conn' \in Connection
      BY <1>2, Typed DEF OnAccept, Connection
    <2>3. OpeningOK'
      BY <2>1, <2>2, Typed DEF OpeningOK, OpenOrOpening
    <2> QED BY <2>1, <2>2, <2>3, Unopened DEF ConnOK
  <1> QED BY <1>1, <1>2 DEF Accepting

LEMMA StopAcceptStep ==
  ASSUME TypeOK, StreamOK, OpeningOK, \A x \in Ends : ClosingOK(ch[x]),
         StopAccept
  PROVE  ConnOK
  <1>1. UNCHANGED <<ch, pipe, sent, got>>
    BY DEF StopAccept
  <1>2. /\ conn'.mode = conn.mode /\ conn'.net = conn.net
        /\ conn'.caller = conn.caller /\ conn'.handler = conn.handler
        /\ conn'.result = conn.result /\ conn'.promise = conn.promise
        /\ conn'.accept = conn.accept \/ (conn.accept = "pending" /\ conn'.accept = "cancelled")
        /\ conn' \in Connection
    <2>1. PICK a \in {conn.accept} \cup {"cancelled"} :
             /\ a = conn.accept \/ (conn.accept = "pending" /\ a = "cancelled")
             /\ conn' = [conn EXCEPT
                  !.listening = FALSE,
                  !.accept = a,
                  !.reset = (conn.net = "established" /\ a = "cancelled")]
      BY DEF StopAccept
    <2>2. a \in {"pending", "opened", "accepted", "cancelled"}
      BY <2>1, Typed
    <2>3. \/ conn' = [conn EXCEPT !.listening = FALSE, !.accept = a, !.reset = TRUE]
          \/ conn' = [conn EXCEPT !.listening = FALSE, !.accept = a, !.reset = FALSE]
      BY <2>1
    <2>4. /\ conn' \in Connection
          /\ conn'.mode = conn.mode /\ conn'.net = conn.net
          /\ conn'.caller = conn.caller /\ conn'.handler = conn.handler
          /\ conn'.result = conn.result /\ conn'.promise = conn.promise
          /\ conn'.accept = a
      <3>1. conn \in Connection
        BY Typed
      <3>2. CASE conn' = [conn EXCEPT !.listening = FALSE, !.accept = a, !.reset = TRUE]
        BY <2>2, <3>1, <3>2 DEF Connection
      <3>3. CASE conn' = [conn EXCEPT !.listening = FALSE, !.accept = a, !.reset = FALSE]
        BY <2>2, <3>1, <3>3 DEF Connection
      <3> QED BY <2>3, <3>2, <3>3
    <2> QED BY <2>1, <2>4
  <1>3. OpeningOK'
    BY <1>1, <1>2, Typed DEF OpeningOK, OpenOrOpening
  <1> QED BY <1>1, <1>2, <1>3, Unopened DEF ConnOK

----------------------------------------------------------------------------
(* The theorems *)

LEMMA WritingAtMost ==
  ASSUME NEW c \in Channel, NEW q \in Nat, NEW w \in Nat, WritingOK(c, q, w)
  PROVE  w <= 2 * q
  <1>1. CASE c.wop = "idle"
    <2>1. \A L \in Nat : L <= q => 2 * (q - L) + 0 <= 2 * q
      OBVIOUS
    <2>2. Len(c.wbuf) \in Nat
      BY DEF Channel
    <2> QED BY <1>1, <2>1, <2>2 DEF WritingOK
  <1>2. CASE c.wop # "idle"
    <2> DEFINE L == Len(c.wbuf)
               n == c.wn
    <2>1. L \in 1 .. q /\ n \in 0 .. 2 /\ w = 2 * (q - L) + n
      BY <1>2, WritingTyped
    <2> HIDE DEF L, n
    <2> QED BY <2>1
  <1> QED BY <1>1, <1>2

LEMMA InvariantIs ==
  /\ IInv <=> /\ TypeOK /\ (\A x \in Ends : ClosingOK(ch[x])) /\ OpeningOK
              /\ StreamOK
  /\ IInv' <=> /\ TypeOK' /\ (\A x \in Ends : ClosingOK(ch'[x])) /\ OpeningOK'
               /\ StreamOK'
  <1>1. IInv <=> /\ TypeOK /\ (\A x \in Ends : ClosingOK(ch[x])) /\ OpeningOK
                 /\ StreamOK
    BY DEF IInv, StreamOK
  <1>2. IInv' <=> /\ TypeOK' /\ (\A x \in Ends : ClosingOK(ch[x])') /\ OpeningOK'
                  /\ StreamOK'
    BY DEF IInv, StreamOK
  <1>3. (\A x \in Ends : ClosingOK(ch[x])') <=> (\A x \in Ends : ClosingOK(ch'[x]))
    BY DEF ClosingOK
  <1> QED BY <1>1, <1>2, <1>3

LEMMA ConnKeeps ==
  ASSUME IInv, ConnOK
  PROVE  IInv'
  <1>1. TypeOK /\ UNCHANGED <<pipe, sent, got>> /\ ch' \in [Ends -> Channel] /\ conn' \in Connection
    BY InvariantIs DEF ConnOK
  <1>2. TypeOK'
    BY <1>1 DEF TypeOK
  <1> QED BY <1>2, InvariantIs DEF ConnOK

LEMMA StepKeeps ==
  ASSUME IInv, NEW e \in Ends, StepOK(e)
  PROVE  IInv'
  <1>1. /\ TypeOK /\ (\A x \in Ends : ClosingOK(ch[x])) /\ OpeningOK
    BY InvariantIs
  <1>2. PICK d \in Channel :
          /\ ch' = [ch EXCEPT ![e] = d]
          /\ ClosingOK(d)
          /\ d.socket = "null" <=> ch[e].socket = "null"
    BY DEF StepOK
  <1>3. /\ pipe' \in [Ends -> Seq(Piece)] /\ sent' \in [Ends -> Seq(Nat)] /\ got' \in [Ends -> Seq(Nat)]
        /\ \A x \in Ends : got'[x] # << >> => got[x] # << >> \/ ch[x].socket # "null"
        /\ UNCHANGED conn /\ StreamOK'
    BY DEF StepOK
  <1>4. /\ ch' \in [Ends -> Channel] /\ ch'[e] = d
        /\ \A x \in Ends : x # e => ch'[x] = ch[x]
    BY <1>1, <1>2, OtherSame
  <1>5. TypeOK'
    BY <1>1, <1>3, <1>4 DEF TypeOK
  <1>6. \A x \in Ends : ClosingOK(ch'[x]) /\ (ch'[x].socket = "null" <=> ch[x].socket = "null")
    BY <1>1, <1>2, <1>4
  <1>7. OpeningOK'
    <2>1. "client" \in Ends /\ "server" \in Ends
      BY DEF Ends
    <2> QED BY <1>1, <1>3, <1>6, <2>1 DEF OpeningOK, OpenOrOpening
  <1> QED BY <1>3, <1>5, <1>6, <1>7, InvariantIs

LEMMA Initially == Init => IInv
  <1> SUFFICES ASSUME Init PROVE IInv
    OBVIOUS
  <1>1. NewChannel \in Channel /\ ClosingOK(NewChannel)
    BY DEF NewChannel, Channel, ClosingOK
  <1>2. conn \in Connection
    BY DEF Init, Connection
  <1>3. ch \in [Ends -> Channel] /\ \A x \in Ends : ch[x] = NewChannel
    BY <1>1 DEF Init
  <1>4. TypeOK
    BY <1>2, <1>3 DEF Init, TypeOK
  <1>5. OpeningOK
    BY <1>3 DEF Init, OpeningOK, OpenOrOpening, NewChannel, Ends
  <1>6. ASSUME NEW x \in Ends PROVE ReceivingOK(x) /\ SendingOK(x)
    <2>1. /\ got[x] = << >> /\ sent[x] = << >> /\ pipe[peer(x)] = << >>
          /\ ch[x].rbuf = << >> /\ ch[x].fixed = << >> /\ ch[x].posted = << >>
          /\ ch[x].wbuf = << >> /\ ch[x].wop = "idle"
      BY <1>3, PeerIs DEF Init, NewChannel
    <2>2. ReceivingOK(x)
      BY <2>1 DEF ReceivingOK, Follows
    <2>3. Written(peer(x)) = 0
      <3>1. /\ got[peer(x)] = << >> /\ ch[peer(x)].rbuf = << >> /\ ch[peer(x)].fixed = << >>
            /\ pipe[peer(peer(x))] = << >>
        BY <1>3, PeerIs DEF Init, NewChannel
      <3> QED BY <3>1 DEF Written, Taken
    <2>4. PostedOK(ch[x].posted, 0, 1, Len(sent[x])) /\ 1 = Len(ch[x].posted) + 1
      BY <2>1 DEF PostedOK
    <2>5. WritingOK(ch[x], 0, Written(peer(x)))
      BY <2>1, <2>3 DEF WritingOK
    <2>6. \A i \in 1 .. Len(sent[x]) : sent[x][i] = i
      BY <2>1
    <2>7. 0 \in Nat /\ 1 \in Nat \ {0}
      OBVIOUS
    <2>8. SendingOK(x)
      BY <2>4, <2>5, <2>6, <2>7 DEF SendingOK
    <2> QED BY <2>2, <2>8
  <1>7. \A x \in Ends : ClosingOK(ch[x])
    BY <1>1, <1>3
  <1>8. StreamOK
    BY <1>6 DEF StreamOK
  <1> QED BY <1>4, <1>5, <1>7, <1>8, InvariantIs

LEMMA Inductive == IInv /\ [Next]_vars => IInv'
  <1> SUFFICES ASSUME IInv, [Next]_vars PROVE IInv'
    OBVIOUS
  <1>1. /\ TypeOK /\ (\A x \in Ends : ClosingOK(ch[x])) /\ OpeningOK /\ StreamOK
    BY InvariantIs
  <1>2. CASE UNCHANGED vars
    <2>1. UNCHANGED <<ch, pipe, sent, got, conn>>
      BY <1>2 DEF vars
    <2>2. OpeningOK' /\ TypeOK'
      BY <1>1, <2>1 DEF OpeningOK, OpenOrOpening, TypeOK
    <2> QED BY <1>1, <2>1, <2>2, Unopened, InvariantIs
  <1>3. ASSUME NEW mode \in Modes, Connect(mode) PROVE IInv'
    BY <1>1, <1>3, ConnectStep, ConnKeeps
  <1>4. CASE Setup
    BY <1>1, <1>4, HandshakeStep, SyncConnectStep, AsyncConnectStep, WaitForHandlerStep,
       WaitForCallerStep, ConnKeeps DEF Setup
  <1>5. CASE Accepting
    BY <1>1, <1>5, AcceptingStep, ConnKeeps
  <1>6. CASE StopAccept
    BY <1>1, <1>6, StopAcceptStep, ConnKeeps
  <1>7. ASSUME NEW e \in Ends,
               \/ SendMsg(e) \/ Shutdown(e) \/ ReadCompletes(e) \/ WriteProgress(e)
               \/ \E t \in {"read", "write"} : TimerExpires(e, t)
               \/ Handlers(e)
        PROVE  IInv'
    <2>1. StepOK(e)
      BY <1>1, <1>7, EndStep
    <2> QED BY <2>1, StepKeeps
  <1> QED BY <1>2, <1>3, <1>4, <1>5, <1>6, <1>7 DEF Next

LEMMA Invariant == Spec => []IInv
  BY Initially, Inductive, PTL DEF Spec

\* The variables of the two Channels, of the stream and of the connection are
\* always what TypeOK says.
THEOREM TypeCorrect == Spec => []TypeOK
  <1>1. IInv => TypeOK
    BY DEF IInv
  <1> QED BY <1>1, Invariant, PTL

\* However many of Shutdown, the two timers, the read and the write end a
\* connection together, DoClosed calls OnClosed once.
THEOREM ClosedOnceCorrect == Spec => []ClosedOnce
  <1>1. IInv => ClosedOnce
    <2> SUFFICES ASSUME IInv, NEW e \in Ends
                 PROVE  Len(ch[e].closes) <= 1 /\ (ch[e].closes # << >> => ~ ch[e].opened)
      BY DEF ClosedOnce
    <2>1. ClosingOK(ch[e])
      BY DEF IInv
    <2> QED BY <2>1 DEF ClosingOK
  <1> QED BY <1>1, Invariant, PTL

\* After OnClosed, OnReceivedMessage is called for one completed read at most.
THEOREM OneBatchAfterCloseCorrect == Spec => []OneBatchAfterClose
  <1>1. IInv => OneBatchAfterClose
    BY DEF IInv, ClosingOK, OneBatchAfterClose
  <1> QED BY <1>1, Invariant, PTL

\* SyncConnect and AsyncConnect open the channel before they report the
\* connection, and SyncConnectWaitFor's caller is told of it only by a handler
\* that goes on to Init: a message can be dropped in that window only.
THEOREM OpenOrOpeningCorrect == Spec => []OpenOrOpening
  <1>1. IInv => OpenOrOpening
    BY DEF IInv, OpeningOK
  <1> QED BY <1>1, Invariant, PTL

\* What OnReceivedMessage has been given is a prefix of what SendMsg was given,
\* however many messages there are and however the pieces are cut.
THEOREM StreamIntactCorrect == Spec => []StreamIntact
  <1>1. IInv => StreamIntact
    <2> SUFFICES ASSUME IInv, NEW e \in Ends PROVE IsPrefix(got[peer(e)], sent[e])
      BY DEF StreamIntact
    <2> DEFINE g == got[peer(e)]
               s == sent[e]
    <2>1. TypeOK /\ StreamOK /\ peer(e) \in Ends
      BY InvariantIs, PeerIs
    <2>2. /\ g \in Seq(Nat) /\ s \in Seq(Nat) /\ ch[e].posted \in Seq(Nat) /\ ch[e] \in Channel
          /\ Written(peer(e)) \in Nat
      BY <2>1, WrittenIs
    <2>3. \A i \in 1 .. Len(g) : g[i] = i
      BY <2>1 DEF StreamOK, ReceivingOK
    <2>4. \A i \in 1 .. Len(s) : s[i] = i
      BY <2>1, SendingIs
    <2>5. Len(g) <= Len(s)
      <3>1. PICK q \in Nat, z \in Nat \ {0} : Sending(e, q, z)
        BY <2>1, SendingIs
      <3>2. q <= Len(s)
        <4> DEFINE p == ch[e].posted
        <4>1. p \in Seq(Nat) /\ PostedOK(p, q, z, Len(s))
          BY <2>2, <3>1 DEF Sending
        <4> HIDE DEF p, s
        <4>2. Len(p) \in Nat /\ Len(s) = IF z <= Len(p) THEN q + Len(p) - 1 ELSE q + Len(p)
          BY <4>1 DEF PostedOK
        <4> QED BY <4>2
      <3>3. Written(peer(e)) <= 2 * q
        <4>1. WritingOK(ch[e], q, Written(peer(e)))
          BY <3>1 DEF Sending
        <4> QED BY <2>2, <4>1, WritingAtMost
      <3>4. 2 * Len(g) <= Written(peer(e))
        <4>1. /\ ch[peer(e)].rbuf \in Seq(Piece) /\ ch[peer(e)].fixed \in Seq(Piece)
              /\ pipe[peer(peer(e))] \in Seq(Piece)
          BY <2>1, WrittenIs
        <4>2. \A t, a, b, c \in Nat : t <= t + a + b + c
          OBVIOUS
        <4>3. /\ Len(ch[peer(e)].rbuf) \in Nat /\ Len(ch[peer(e)].fixed) \in Nat
              /\ Len(pipe[peer(peer(e))]) \in Nat /\ 2 * Len(g) \in Nat
          BY <2>2, <4>1
        <4> QED BY <4>2, <4>3 DEF Written, Taken
      <3>5. Len(g) \in Nat /\ Len(s) \in Nat
        BY <2>2
      <3> HIDE DEF g, s
      <3> QED BY <2>2, <3>2, <3>3, <3>4, <3>5
    <2> HIDE DEF g, s
    <2>6. g = SubSeq(s, 1, Len(g))
      <3>1. /\ SubSeq(s, 1, Len(g)) \in Seq(Nat) /\ Len(SubSeq(s, 1, Len(g))) = Len(g)
            /\ \A i \in 1 .. Len(g) : SubSeq(s, 1, Len(g))[i] = s[i]
        BY <2>2, <2>5
      <3>2. \A x, y \in Seq(Nat) :
               Len(x) = Len(y) /\ (\A i \in 1 .. Len(y) : x[i] = y[i]) => x = y
        OBVIOUS
      <3> QED BY <2>2, <2>3, <2>4, <2>5, <3>1, <3>2
    <2> QED BY <2>5, <2>6 DEF IsPrefix, g, s
  <1> QED BY <1>1, Invariant, PTL

============================================================================
