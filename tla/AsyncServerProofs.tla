------------------------- MODULE AsyncServerProofs -------------------------
(* Theorems about AsyncServer, for any connections, limit and timeouts.      *)
EXTENDS AsyncServer, FiniteSetTheorems, TLAPS

----------------------------------------------------------------------------
(* The invariant *)

\* m_handlers holds the connections that are open, and no others.
HandlersOpen == handlers = OpenConns

\* Only an accepted connection reads.
ReadAccepted == \A c \in Conns : hd[c].read # "none" => log[c] # << >>

\* createHandler keeps m_handlers within the limit.
HandlersBounded == MaxConn # 0 => Cardinality(handlers) <= MaxConn

IInv ==
    /\ TypeOK
    /\ HandlersOpen
    /\ ReadAccepted
    /\ HandlersBounded
    /\ NoMessageStuck

----------------------------------------------------------------------------
(* The changes the actions are made of *)

\* What the proof needs of the RWHandler that a handler leaves behind.
Good(c, d) ==
    /\ d \in RWHandler
    /\ d.isClosed = hd[c].isClosed
    /\ d.read # "none" => log[c] # << >>

Writing(d) == d.wbuf # << >> => d.write # "idle" \/ d.isClosed

OthersTyped ==
    /\ accepting' \in BOOLEAN /\ running' \in BOOLEAN
    /\ refused' \in SUBSET Conns
    /\ sends' \in [Conns -> Nat]

LEMMA EmptyIffLenZero ==
  ASSUME NEW s \in Seq(Nat)
  PROVE  s = << >> <=> Len(s) = 0
  OBVIOUS

LEMMA TailFacts ==
  ASSUME NEW s \in Seq(Nat), s # << >>
  PROVE  Tail(s) \in Seq(Nat) /\ (Tail(s) # << >> <=> Len(s) > 1)
  <1> DEFINE t == Tail(s)
             n == Len(s)
  <1>1. t \in Seq(Nat) /\ Len(t) = n - 1 /\ n \in Nat
    OBVIOUS
  <1>2. n # 0
    BY EmptyIffLenZero
  <1> HIDE DEF t, n
  <1>3. t = << >> <=> Len(t) = 0
    BY <1>1, EmptyIffLenZero
  <1>4. t # << >> <=> n > 1
    BY <1>1, <1>2, <1>3
  <1> QED BY <1>1, <1>4 DEF t, n

LEMMA NewHandlerType ==
  /\ NewHandler \in RWHandler
  /\ ~ NewHandler.isClosed /\ NewHandler.wbuf = << >>
  /\ [NewHandler EXCEPT !.read = "none", !.timer = FALSE] \in RWHandler
  <1> DEFINE b == [isClosed |-> FALSE, read |-> "none", ready |-> "no",
                   timer |-> FALSE, expired |-> FALSE, posted |-> << >>,
                   wbuf |-> << >>, write |-> "idle"]
  <1>1. b \in RWHandler /\ ~ b.isClosed /\ b.wbuf = << >>
    BY DEF RWHandler
  <1>2. NewHandler = [b EXCEPT !.read = "head", !.ready = "no", !.timer = Timed]
    BY DEF NewHandler, ReadHead
  <1> HIDE DEF b
  <1>3. NewHandler \in RWHandler /\ ~ NewHandler.isClosed /\ NewHandler.wbuf = << >>
    BY <1>1, <1>2, ServerAssumption DEF RWHandler
  <1> QED BY <1>3 DEF RWHandler

LEMMA InitIInv == Init => IInv
  <1> SUFFICES ASSUME Init PROVE IInv
    OBVIOUS
  <1> USE ServerAssumption
  <1>1. /\ NewHandler.isClosed = FALSE /\ NewHandler.wbuf = << >>
        /\ [NewHandler EXCEPT !.read = "none", !.timer = FALSE] \in RWHandler
    BY NewHandlerType
  <1>5. TypeOK
    BY <1>1 DEF Init, TypeOK
  <1>2. HandlersOpen
    BY DEF Init, HandlersOpen, OpenConns
  <1>3. ReadAccepted /\ NoMessageStuck
    BY DEF Init, ReadAccepted, NoMessageStuck, NewHandler, ReadHead
  <1>4. HandlersBounded
    <2>1. handlers = {} /\ Cardinality({}) = 0
      BY FS_EmptySet DEF Init
    <2> QED BY <2>1 DEF HandlersBounded
  <1> QED BY <1>2, <1>3, <1>4, <1>5 DEF IInv

LEMMA ContinueStep ==
  ASSUME IInv, NEW c \in Conns, NEW d, Good(c, d), Writing(d),
         Continue(c, d), OthersTyped
  PROVE  IInv'
  <1>1. /\ hd' = [hd EXCEPT ![c] = d] /\ hd \in [Conns -> RWHandler]
        /\ handlers' = handlers /\ log' = log
    BY DEF Continue, IInv, TypeOK
  <1>2. TypeOK'
    BY <1>1 DEF IInv, TypeOK, OthersTyped, Good
  <1>3. HandlersOpen'
    BY <1>1 DEF IInv, HandlersOpen, OpenConns, Good
  <1>4. ReadAccepted' /\ NoMessageStuck'
    BY <1>1 DEF IInv, ReadAccepted, NoMessageStuck, Good, Writing
  <1>5. HandlersBounded'
    BY <1>1 DEF IInv, HandlersBounded
  <1> QED BY <1>2, <1>3, <1>4, <1>5 DEF IInv

\* Whoever closes takes the connection out of m_handlers, once.
LEMMA OnClosedStep ==
  ASSUME IInv, NEW c \in Conns, NEW d, Good(c, d),
         NEW type \in {"closed", "timeout", "silent"},
         OnClosed(c, d, type), OthersTyped
  PROVE  IInv'
  <1>1. CASE d.isClosed
    BY <1>1, ContinueStep DEF OnClosed, Writing
  <1>2. CASE ~ d.isClosed
    <2> DEFINE e == [d EXCEPT !.isClosed = TRUE]
    <2>1. e \in RWHandler /\ e.isClosed
      BY DEF Good, RWHandler
    <2>2. e.read = d.read
      BY DEF Good, RWHandler
    <2>3. hd' = [hd EXCEPT ![c] = e] /\ handlers' = handlers \ {c}
      BY <1>2 DEF OnClosed, StopHandler
    <2>4. log' = [log EXCEPT ![c] = Append(@, type)]
      BY <1>2 DEF OnClosed, Told
    <2> HIDE DEF e
    <2>5. /\ hd \in [Conns -> RWHandler] /\ handlers \in SUBSET Conns
          /\ log \in [Conns -> Seq({"accept", "message", "closed", "timeout", "silent"})]
      BY DEF IInv, TypeOK
    <2>6. /\ log' \in [Conns -> Seq({"accept", "message", "closed", "timeout", "silent"})]
          /\ log'[c] # << >>
      BY <2>4, <2>5
    <2>7. TypeOK'
      BY <2>1, <2>3, <2>5, <2>6 DEF TypeOK, OthersTyped
    <2>8. HandlersOpen'
      <3>1. \A k \in Conns : k # c => hd'[k] = hd[k] /\ log'[k] = log[k]
        BY <2>3, <2>4, <2>5
      <3>2. hd'[c].isClosed
        BY <2>1, <2>3, <2>5
      <3> QED BY <2>3, <3>1, <3>2 DEF IInv, HandlersOpen, OpenConns
    <2>9. ReadAccepted'
      BY <2>3, <2>4, <2>5, <2>6 DEF IInv, ReadAccepted
    <2>10. NoMessageStuck'
      BY <2>1, <2>3, <2>5 DEF IInv, NoMessageStuck
    <2>11. HandlersBounded'
      <3>1. IsFiniteSet(handlers)
        BY <2>5, ServerAssumption, FS_Subset
      <3>2. /\ Cardinality(handlers') \in Nat /\ Cardinality(handlers) \in Nat
            /\ Cardinality(handlers') <= Cardinality(handlers)
        BY <2>3, <3>1, FS_Subset, FS_CardinalityType
      <3> QED BY <3>2, ServerAssumption DEF IInv, HandlersBounded
    <2> QED BY <2>7, <2>8, <2>9, <2>10, <2>11 DEF IInv
  <1> QED BY <1>1, <1>2

----------------------------------------------------------------------------
(* The actions keep the invariant *)

LEMMA AcceptStep ==
  ASSUME IInv, NEW c \in Conns, Accept(c)
  PROVE  IInv'
  <1>1. /\ hd \in [Conns -> RWHandler] /\ handlers \in SUBSET Conns
        /\ log \in [Conns -> Seq({"accept", "message", "closed", "timeout", "silent"})]
        /\ refused \in SUBSET Conns
    BY DEF IInv, TypeOK
  <1>2. log[c] = << >> /\ UNCHANGED <<accepting, running, sends>>
    BY DEF Accept
  <1>3. CASE Full /\ refused' = refused \cup {c} /\ UNCHANGED <<handlers, hd, log>>
    BY <1>1, <1>2, <1>3 DEF IInv, TypeOK, HandlersOpen, OpenConns, ReadAccepted,
       HandlersBounded, NoMessageStuck
  <1>4. CASE /\ ~ Full
             /\ handlers' = handlers \cup {c} /\ hd' = [hd EXCEPT ![c] = NewHandler]
             /\ Told(c, "accept") /\ UNCHANGED refused
    <2>1. /\ NewHandler \in RWHandler /\ ~ NewHandler.isClosed
          /\ NewHandler.wbuf = << >>
      BY NewHandlerType
    <2>2. /\ log' = [log EXCEPT ![c] = Append(@, "accept")]
          /\ log' \in [Conns -> Seq({"accept", "message", "closed", "timeout", "silent"})]
          /\ log'[c] # << >>
      BY <1>1, <1>4 DEF Told
    <2>3. TypeOK'
      BY <1>1, <1>2, <1>4, <2>1, <2>2 DEF IInv, TypeOK
    <2>4. \A k \in Conns : k # c => hd'[k] = hd[k] /\ log'[k] = log[k]
      BY <1>1, <1>4, <2>2
    <2>5. hd'[c] = NewHandler
      BY <1>1, <1>4
    <2>6. HandlersOpen'
      BY <1>4, <2>1, <2>2, <2>4, <2>5 DEF IInv, HandlersOpen, OpenConns
    <2>7. ReadAccepted'
      BY <2>2, <2>4 DEF IInv, ReadAccepted
    <2>8. NoMessageStuck'
      BY <2>1, <2>4, <2>5 DEF IInv, NoMessageStuck
    <2>9. HandlersBounded'
      <3>1. c \notin handlers
        BY <1>2 DEF IInv, HandlersOpen, OpenConns
      <3>2. IsFiniteSet(handlers) /\ Cardinality(handlers) \in Nat
        BY <1>1, ServerAssumption, FS_Subset, FS_CardinalityType
      <3>3. Cardinality(handlers') = Cardinality(handlers) + 1
        BY <1>4, <3>1, <3>2, FS_AddElement
      <3> QED BY <1>4, <3>2, <3>3, ServerAssumption DEF HandlersBounded, Full
    <2> QED BY <2>3, <2>6, <2>7, <2>8, <2>9 DEF IInv
  <1> QED BY <1>3, <1>4 DEF Accept

LEMMA HandlerGood ==
  ASSUME IInv, NEW c \in Conns
  PROVE  Good(c, hd[c]) /\ Writing(hd[c])
  BY DEF IInv, TypeOK, ReadAccepted, NoMessageStuck, Good, Writing

\* Steps that only replace the handler's state, as the kernel's do.
LEMMA ReadCompletesStep ==
  ASSUME IInv, NEW c \in Conns, ReadCompletes(c)
  PROVE  IInv'
  <1>1. PICK r \in {"data", "error"} : hd' = [hd EXCEPT ![c].ready = r]
    BY DEF ReadCompletes
  <1> DEFINE d == [hd[c] EXCEPT !.ready = r]
  <1>2. Good(c, d) /\ Writing(d)
    BY HandlerGood DEF RWHandler, Good, Writing
  <1>3. OthersTyped /\ Continue(c, d)
    BY <1>1 DEF ReadCompletes, IInv, TypeOK, OthersTyped, Continue
  <1> QED BY <1>2, <1>3, ContinueStep

LEMMA TimerExpiresStep ==
  ASSUME IInv, NEW c \in Conns, TimerExpires(c)
  PROVE  IInv'
  <1> DEFINE d == [hd[c] EXCEPT !.timer = FALSE, !.expired = TRUE]
  <1>1. Good(c, d) /\ Writing(d)
    BY HandlerGood DEF RWHandler, Good, Writing
  <1>2. OthersTyped /\ Continue(c, d)
    BY DEF TimerExpires, IInv, TypeOK, OthersTyped, Continue
  <1> QED BY <1>1, <1>2, ContinueStep

LEMMA PostedGood ==
  ASSUME IInv, NEW c \in Conns, NEW m \in Nat
  PROVE  LET d == [hd[c] EXCEPT !.posted = Append(@, m)]
         IN  Good(c, d) /\ Writing(d)
  <1>1. hd[c] \in RWHandler
    BY HandlerGood DEF Good
  <1>2. Append(hd[c].posted, m) \in Seq(Nat)
    BY <1>1 DEF RWHandler
  <1> QED BY <1>1, <1>2, HandlerGood DEF RWHandler, Good, Writing

LEMMA SendMsgStep ==
  ASSUME IInv, NEW c \in Conns, SendMsg(c)
  PROVE  IInv'
  <1> DEFINE m == sends[c] + 1
             d == [hd[c] EXCEPT !.posted = Append(@, m)]
  <1>1. m \in Nat /\ sends' \in [Conns -> Nat] /\ sends'[c] = m
    BY DEF SendMsg, IInv, TypeOK
  <1>2. Good(c, d) /\ Writing(d)
    BY <1>1, PostedGood
  <1>3. OthersTyped
    BY <1>1 DEF SendMsg, IInv, TypeOK, OthersTyped
  <1>4. Continue(c, d)
    BY <1>1 DEF SendMsg, Continue
  <1> QED BY <1>2, <1>3, <1>4, ContinueStep

LEMMA ShutdownStep ==
  ASSUME IInv, NEW c \in Conns, Shutdown(c)
  PROVE  IInv'
  <1> DEFINE d == [hd[c] EXCEPT !.posted = Append(@, Silent)]
  <1>1. Good(c, d) /\ Writing(d)
    BY PostedGood DEF Silent
  <1>2. OthersTyped /\ Continue(c, d)
    BY DEF Shutdown, IInv, TypeOK, OthersTyped, Continue
  <1> QED BY <1>1, <1>2, ContinueStep

LEMMA WriteCompletesStep ==
  ASSUME IInv, NEW c \in Conns, WriteCompletes(c)
  PROVE  IInv'
  <1>1. PICK w \in {"done", "failed"} : hd' = [hd EXCEPT ![c].write = w]
    BY DEF WriteCompletes
  <1> DEFINE d == [hd[c] EXCEPT !.write = w]
  <1>2. hd[c] \in RWHandler /\ hd[c].wbuf # << >>
    BY HandlerGood DEF WriteCompletes, RWHandler, Good
  <1>3. Good(c, d) /\ Writing(d)
    BY <1>2, HandlerGood DEF RWHandler, Good, Writing
  <1>4. OthersTyped /\ Continue(c, d)
    BY <1>1 DEF WriteCompletes, IInv, TypeOK, OthersTyped, Continue
  <1> QED BY <1>3, <1>4, ContinueStep

LEMMA TimeoutHandlerStep ==
  ASSUME IInv, NEW c \in Conns, TimeoutHandler(c)
  PROVE  IInv'
  <1> DEFINE d == [hd[c] EXCEPT !.expired = FALSE]
  <1>1. Good(c, d)
    BY HandlerGood DEF RWHandler, Good
  <1>2. OthersTyped /\ OnClosed(c, d, "timeout")
    BY DEF TimeoutHandler, IInv, TypeOK, OthersTyped
  <1> QED BY <1>1, <1>2, OnClosedStep

LEMMA ReadHandlerStep ==
  ASSUME IInv, NEW c \in Conns, ReadHandler(c)
  PROVE  IInv'
  <1> DEFINE d == [hd[c] EXCEPT !.timer = FALSE, !.read = "none", !.ready = "no"]
  <1>1. OthersTyped
    BY DEF ReadHandler, IInv, TypeOK, OthersTyped
  <1>2. Good(c, hd[c]) /\ Writing(hd[c])
    BY HandlerGood
  <1>3. Good(c, d)
    BY <1>2 DEF RWHandler, Good
  <1>4. CASE OnClosed(c, d, "closed")
    BY <1>1, <1>3, <1>4, OnClosedStep
  <1>5. CASE hd[c].ready = "data" /\ hd[c].read = "head" /\ Continue(c, ReadBody(d))
    <2>1. ReadBody(d) = [hd[c] EXCEPT !.timer = Timed, !.read = "body", !.ready = "no"]
      BY <1>2 DEF ReadBody, RWHandler, Good
    <2>2. Good(c, ReadBody(d)) /\ Writing(ReadBody(d))
      BY <1>2, <1>5, <2>1, ServerAssumption DEF RWHandler, Good, Writing
    <2> QED BY <1>1, <1>5, <2>2, ContinueStep
  <1>6. CASE /\ hd[c].ready = "data" /\ hd[c].read = "body"
             /\ Told(c, "message") /\ hd' = [hd EXCEPT ![c] = ReadHead(d)]
             /\ UNCHANGED handlers
    <2>1. ReadHead(d) = [hd[c] EXCEPT !.timer = Timed, !.read = "head", !.ready = "no"]
      BY <1>2 DEF ReadHead, RWHandler, Good
    <2>2. Good(c, ReadHead(d)) /\ Writing(ReadHead(d))
      BY <1>2, <1>6, <2>1, ServerAssumption DEF RWHandler, Good, Writing
    <2> DEFINE e == ReadHead(d)
    <2>3. /\ hd \in [Conns -> RWHandler] /\ handlers \in SUBSET Conns
          /\ log \in [Conns -> Seq({"accept", "message", "closed", "timeout", "silent"})]
          /\ log[c] # << >>
      BY <1>6 DEF IInv, TypeOK, ReadAccepted
    <2>4. log' = [log EXCEPT ![c] = Append(@, "message")] /\ hd' = [hd EXCEPT ![c] = e]
      BY <1>6 DEF Told
    <2> HIDE DEF d, e
    <2>5. /\ log' \in [Conns -> Seq({"accept", "message", "closed", "timeout", "silent"})]
          /\ log'[c] # << >>
          /\ \A k \in Conns : k # c => hd'[k] = hd[k] /\ log'[k] = log[k]
          /\ hd'[c] = e
      BY <2>3, <2>4
    <2>6. Good(c, e) /\ Writing(e)
      BY <2>2 DEF e
    <2>7. TypeOK'
      BY <1>1, <1>6, <2>3, <2>4, <2>5, <2>6 DEF TypeOK, OthersTyped, Good
    <2>8. HandlersOpen'
      BY <1>6, <2>3, <2>5, <2>6 DEF IInv, HandlersOpen, OpenConns, Good
    <2>9. ReadAccepted'
      BY <2>5 DEF IInv, ReadAccepted
    <2>10. NoMessageStuck'
      BY <2>5, <2>6 DEF IInv, NoMessageStuck, Writing
    <2>11. HandlersBounded'
      BY <1>6 DEF IInv, HandlersBounded
    <2> QED BY <2>7, <2>8, <2>9, <2>10, <2>11 DEF IInv
  <1> QED BY <1>4, <1>5, <1>6 DEF ReadHandler

LEMMA RunPostedStep ==
  ASSUME IInv, NEW c \in Conns, RunPosted(c)
  PROVE  IInv'
  <1> DEFINE m == Head(hd[c].posted)
             d == [hd[c] EXCEPT !.posted = Tail(@)]
  <1>1. OthersTyped
    BY DEF RunPosted, IInv, TypeOK, OthersTyped
  <1>2. hd[c] \in RWHandler
    BY HandlerGood DEF Good
  <1>3. m \in Nat /\ Tail(hd[c].posted) \in Seq(Nat)
    BY <1>2 DEF RunPosted, RWHandler
  <1>4. Good(c, d) /\ Writing(d)
    BY <1>2, <1>3, HandlerGood DEF RWHandler, Good, Writing
  <1>5. CASE OnClosed(c, d, "silent")
    BY <1>1, <1>4, <1>5, OnClosedStep
  <1>6. CASE Continue(c, Queued(d, m))
    <2> HIDE DEF d, m
    <2>1. d \in RWHandler
      BY <1>4 DEF Good
    <2>2. Append(d.wbuf, m) \in Seq(Nat) /\ Append(d.wbuf, m) # << >>
      <3>1. d.wbuf \in Seq(Nat)
        BY <2>1 DEF RWHandler
      <3> QED BY <1>3, <3>1
    <2>3. /\ Queued(d, m) \in RWHandler
          /\ Queued(d, m).isClosed = d.isClosed /\ Queued(d, m).read = d.read
      BY <2>1, <2>2 DEF Queued, RWHandler
    <2>4. Queued(d, m).write # "idle" \/ d.isClosed
      BY <1>4, <2>1 DEF Queued, RWHandler, Writing
    <2>5. Good(c, Queued(d, m)) /\ Writing(Queued(d, m))
      BY <1>4, <2>3, <2>4 DEF Good, Writing
    <2> QED BY <1>1, <1>6, <2>5, ContinueStep
  <1> QED BY <1>5, <1>6 DEF RunPosted

LEMMA WriteHandlerStep ==
  ASSUME IInv, NEW c \in Conns, WriteHandler(c)
  PROVE  IInv'
  <1>1. OthersTyped
    BY DEF WriteHandler, IInv, TypeOK, OthersTyped
  <1>2. hd[c] \in RWHandler
    BY HandlerGood DEF Good
  <1>3. CASE OnClosed(c, [hd[c] EXCEPT !.write = "idle"], "closed")
    <2>1. Good(c, [hd[c] EXCEPT !.write = "idle"])
      BY <1>2, HandlerGood DEF RWHandler, Good
    <2> QED BY <1>1, <1>3, <2>1, OnClosedStep
  <1> DEFINE w == IF Len(hd[c].wbuf) > 1 THEN "busy" ELSE "idle"
             d == [hd[c] EXCEPT !.wbuf = Tail(@), !.write = w]
  <1>4. CASE hd[c].write = "done" /\ Continue(c, d)
    <2>1. hd[c].wbuf \in Seq(Nat) /\ hd[c].wbuf # << >>
      BY <1>2, <1>4 DEF RWHandler
    <2>2. Tail(hd[c].wbuf) \in Seq(Nat) /\ (Tail(hd[c].wbuf) # << >> <=> Len(hd[c].wbuf) > 1)
      BY <2>1, TailFacts
    <2>3. /\ w \in {"idle", "busy"}
          /\ w # "idle" <=> Tail(hd[c].wbuf) # << >>
      BY <2>2
    <2> HIDE DEF w
    <2>4. Good(c, d) /\ Writing(d)
      BY <1>2, <2>2, <2>3, HandlerGood DEF RWHandler, Good, Writing
    <2> QED BY <1>1, <1>4, <2>4, ContinueStep
  <1> QED BY <1>3, <1>4 DEF WriteHandler

LEMMA AcceptErrorStopStep ==
  ASSUME IInv, AcceptError \/ Stop
  PROVE  IInv'
  <1>1. /\ UNCHANGED <<handlers, hd, refused, log, sends>>
        /\ accepting' \in BOOLEAN /\ running' \in BOOLEAN
    BY DEF AcceptError, Stop, IInv, TypeOK
  <1> QED BY <1>1 DEF IInv, TypeOK, HandlersOpen, OpenConns, ReadAccepted,
          HandlersBounded, NoMessageStuck

LEMMA NextIInv ==
  ASSUME IInv, [Next]_vars
  PROVE  IInv'
  <1>1. CASE UNCHANGED vars
    BY <1>1 DEF vars, IInv, TypeOK, HandlersOpen, OpenConns, ReadAccepted,
       HandlersBounded, NoMessageStuck
  <1>2. CASE AcceptError \/ Stop
    BY <1>2, AcceptErrorStopStep
  <1>3. ASSUME NEW c \in Conns, Accept(c) PROVE IInv'
    BY <1>3, AcceptStep
  <1>4. ASSUME NEW c \in Conns, ReadCompletes(c) \/ ReadHandler(c) PROVE IInv'
    BY <1>4, ReadCompletesStep, ReadHandlerStep
  <1>5. ASSUME NEW c \in Conns, TimerExpires(c) \/ TimeoutHandler(c) PROVE IInv'
    BY <1>5, TimerExpiresStep, TimeoutHandlerStep
  <1>6. ASSUME NEW c \in Conns, SendMsg(c) \/ Shutdown(c) \/ RunPosted(c) PROVE IInv'
    BY <1>6, SendMsgStep, ShutdownStep, RunPostedStep
  <1>7. ASSUME NEW c \in Conns, WriteCompletes(c) \/ WriteHandler(c) PROVE IInv'
    BY <1>7, WriteCompletesStep, WriteHandlerStep
  <1> QED BY <1>1, <1>2, <1>3, <1>4, <1>5, <1>6, <1>7 DEF Next

LEMMA InvariantHolds == Spec => []IInv
  <1>1. IInv /\ [Next]_vars => IInv'
    BY NextIInv
  <1> QED BY <1>1, InitIInv, PTL DEF Spec

----------------------------------------------------------------------------
(* The theorems *)

\* The state keeps its type; above all a buffer that a write is outstanding
\* for holds what is written, so doWrite's handler never pops an empty one.
THEOREM TypeCorrect == Spec => []TypeOK
  <1>1. IInv => TypeOK
    BY DEF IInv
  <1> QED BY <1>1, InvariantHolds, PTL

\* The connections that are open never exceed m_max_connection.
THEOREM CapacityCorrect == Spec => []Capacity
  <1>1. IInv => Capacity
    BY DEF IInv, HandlersOpen, HandlersBounded, Capacity
  <1> QED BY <1>1, InvariantHolds, PTL

\* No message waits in an open connection's buffer without a write.
THEOREM NoMessageStuckCorrect == Spec => []NoMessageStuck
  <1>1. IInv => NoMessageStuck
    BY DEF IInv
  <1> QED BY <1>1, InvariantHolds, PTL

\* createHandler refuses a connection only if as many as allowed are open:
\* no close, by whichever handler, keeps its place in m_handlers.
THEOREM RefusedOnlyIfFullCorrect == Spec => RefusedOnlyIfFull
  <1> DEFINE A == refused' # refused => Cardinality(OpenConns) >= MaxConn
  <1>1. ASSUME IInv, [Next]_vars PROVE [A]_vars
    <2>1. SUFFICES ASSUME refused' # refused PROVE Cardinality(OpenConns) >= MaxConn
      OBVIOUS
    <2>2. \E c \in Conns : Accept(c)
      BY <1>1, <2>1 DEF Next, vars, AcceptError, Stop, ReadCompletes, ReadHandler,
         TimerExpires, TimeoutHandler, SendMsg, Shutdown, RunPosted, WriteCompletes,
         WriteHandler
    <2>3. Full
      BY <2>1, <2>2 DEF Accept
    <2> QED BY <1>1, <2>3 DEF Full, IInv, HandlersOpen
  <1>2. (IInv /\ [Next]_vars) => [A]_vars
    BY <1>1
  <1> QED BY <1>2, InvariantHolds, PTL DEF Spec, RefusedOnlyIfFull

(***************************************************************************)
(* AsyncServer implements ConnEvents.                                      *)
(***************************************************************************)
----------------------------------------------------------------------------
(* The invariant *)

Ends == {"closed", "timeout", "silent"}
EndsOf(s) == {i \in DOMAIN s : s[i] \in Ends}

PhaseOf(s) ==
    CASE s = << >> -> "none"
      [] s # << >> /\ EndsOf(s) = {} -> "open"
      [] EndsOf(s) = {Len(s)} -> "closed"
      [] EndsOf(s) = {Len(s) - 1} -> "over"
      [] OTHER -> "told too much"

\* Nothing is done for a connection that has not been accepted.
UntouchedBefore ==
    \A c \in Conns : log[c] = << >> =>
        /\ ~ hd[c].isClosed /\ hd[c].read = "none" /\ hd[c].ready = "no"
        /\ ~ hd[c].timer /\ ~ hd[c].expired
        /\ hd[c].posted = << >> /\ hd[c].write = "idle"

\* m_is_closed and what the world was told agree.
ToldIsClosed ==
    \A c \in Conns :
        /\ log[c] # << >> /\ ~ hd[c].isClosed => PhaseOf(log[c]) = "open"
        /\ hd[c].isClosed => PhaseOf(log[c]) \in {"closed", "over"}

LastMessage(d) == d.read = "body" /\ d.ready = "data"

\* A message that was read before the close is still to come only if none
\* came since.
OneMessageAfter ==
    \A c \in Conns :
        hd[c].isClosed /\ LastMessage(hd[c]) => PhaseOf(log[c]) = "closed"

EInv == UntouchedBefore /\ ToldIsClosed /\ OneMessageAfter

----------------------------------------------------------------------------
(* What one more event does to a phase *)

Event == {"accept", "message", "closed", "timeout", "silent"}

LEMMA EndsOfAppend ==
  ASSUME NEW s \in Seq(Event), NEW e \in Event
  PROVE  EndsOf(Append(s, e)) = IF e \in Ends THEN EndsOf(s) \cup {Len(s) + 1}
                                ELSE EndsOf(s)
  <1> DEFINE t == Append(s, e)
             n == Len(s)
  <1>1. /\ n \in Nat /\ DOMAIN s = 1 .. n /\ DOMAIN t = 1 .. n + 1
        /\ \A i \in 1 .. n : t[i] = s[i]
        /\ t[n + 1] = e
    OBVIOUS
  <1> HIDE DEF t, n
  <1>2. EndsOf(t) = IF e \in Ends THEN EndsOf(s) \cup {n + 1} ELSE EndsOf(s)
    BY <1>1 DEF EndsOf
  <1> QED BY <1>2 DEF t, n

\* The cases of PhaseOf exclude one another.
LEMMA PhaseIff ==
  ASSUME NEW s \in Seq(Event)
  PROVE  /\ s = << >> => PhaseOf(s) = "none"
         /\ PhaseOf(s) = "open" <=> s # << >> /\ EndsOf(s) = {}
         /\ PhaseOf(s) = "closed" <=> s # << >> /\ EndsOf(s) = {Len(s)}
         /\ s # << >> /\ EndsOf(s) = {Len(s) - 1} => PhaseOf(s) = "over"
  <1> DEFINE n == Len(s)
             E == EndsOf(s)
  <1>1. n \in Nat /\ (s = << >> => DOMAIN s = {})
    OBVIOUS
  <1>2. s = << >> => E = {}
    BY <1>1 DEF EndsOf
  <1>3. {n} # {n - 1} /\ {n} # {} /\ {n - 1} # {}
    BY <1>1
  <1>4. PhaseOf(s) = CASE s = << >> -> "none"
                       [] s # << >> /\ E = {} -> "open"
                       [] E = {n} -> "closed"
                       [] E = {n - 1} -> "over"
                       [] OTHER -> "told too much"
    BY DEF PhaseOf
  <1> HIDE DEF n, E
  <1>5. CASE s = << >>
    BY <1>2, <1>3, <1>4, <1>5 DEF n, E
  <1>6. CASE s # << >> /\ E = {}
    BY <1>3, <1>4, <1>6 DEF n, E
  <1>7. CASE s # << >> /\ E = {n}
    BY <1>3, <1>4, <1>7 DEF n, E
  <1>8. CASE s # << >> /\ E = {n - 1}
    BY <1>3, <1>4, <1>8 DEF n, E
  <1>9. CASE s # << >> /\ E # {} /\ E # {n} /\ E # {n - 1}
    BY <1>3, <1>4, <1>9 DEF n, E
  <1> QED BY <1>5, <1>6, <1>7, <1>8, <1>9

LEMMA PhaseSteps ==
  ASSUME NEW s \in Seq(Event), NEW e \in Event
  PROVE  LET p == PhaseOf(s)
             q == PhaseOf(Append(s, e))
         IN  /\ s = << >> /\ e = "accept" => q = "open"
             /\ p = "open" /\ e = "message" => q = "open"
             /\ p = "closed" /\ e = "message" => q = "over"
             /\ p = "open" /\ e \in Ends => q = "closed"
  <1> DEFINE t == Append(s, e)
  <1>1. t \in Seq(Event) /\ Len(t) = Len(s) + 1 /\ t # << >> /\ Len(s) \in Nat
    OBVIOUS
  <1>2. EndsOf(t) = IF e \in Ends THEN EndsOf(s) \cup {Len(s) + 1} ELSE EndsOf(s)
    BY EndsOfAppend
  <1>3. "accept" \notin Ends /\ "message" \notin Ends
    BY DEF Ends
  <1>4. s = << >> => EndsOf(s) = {}
    BY DEF EndsOf
  <1> HIDE DEF t
  <1>5. s = << >> /\ e = "accept" => PhaseOf(t) = "open"
    BY <1>1, <1>2, <1>3, <1>4, PhaseIff
  <1>6. PhaseOf(s) = "open" /\ e = "message" => PhaseOf(t) = "open"
    BY <1>1, <1>2, <1>3, PhaseIff
  <1>7. PhaseOf(s) = "closed" /\ e = "message" => PhaseOf(t) = "over"
    <2>1. Len(t) - 1 = Len(s)
      BY <1>1
    <2> QED BY <1>1, <1>2, <1>3, <2>1, PhaseIff
  <1>8. PhaseOf(s) = "open" /\ e \in Ends => PhaseOf(t) = "closed"
    <2>1. SUFFICES ASSUME PhaseOf(s) = "open", e \in Ends PROVE PhaseOf(t) = "closed"
      OBVIOUS
    <2>2. EndsOf(t) = {Len(t)}
      BY <1>1, <1>2, <2>1, PhaseIff
    <2> QED BY <1>1, <2>2, PhaseIff
  <1> QED BY <1>5, <1>6, <1>7, <1>8 DEF t

LEMMA PhaseIs == \A c : phaseOf(c) = PhaseOf(log[c])
  BY DEF phaseOf, PhaseOf, Closes, EndsOf, Ends

----------------------------------------------------------------------------
(* The changes the actions are made of, and what the world sees of them *)

Phases == [c \in Conns |-> phaseOf(c)]

LEMMA HandlerTyped ==
  ASSUME IInv
  PROVE  hd \in [Conns -> RWHandler] /\ log \in [Conns -> Seq(Event)]
  BY DEF IInv, TypeOK, Event

LEMMA SilentStep ==
  ASSUME IInv, EInv, NEW c \in Conns, NEW d, Continue(c, d),
         log[c] # << >>, d.isClosed = hd[c].isClosed,
         d.isClosed /\ LastMessage(d) => LastMessage(hd[c])
  PROVE  EInv' /\ Phases' = Phases
  <1>1. /\ hd' = [hd EXCEPT ![c] = d] /\ log' = log /\ hd \in [Conns -> RWHandler]
    BY HandlerTyped DEF Continue
  <1>2. /\ hd'[c] = d
        /\ \A k \in Conns : k # c => hd'[k] = hd[k]
    BY <1>1
  <1>3. UntouchedBefore' /\ ToldIsClosed'
    BY <1>1, <1>2 DEF EInv, UntouchedBefore, ToldIsClosed
  <1>4. OneMessageAfter'
    BY <1>1, <1>2 DEF EInv, OneMessageAfter, LastMessage
  <1>5. Phases' = Phases
    BY <1>1 DEF Phases, phaseOf, Closes
  <1> QED BY <1>3, <1>4, <1>5 DEF EInv

LEMMA ToldStep ==
  ASSUME IInv, EInv, NEW c \in Conns, NEW d, NEW e \in Event, NEW q,
         Told(c, e), hd' = [hd EXCEPT ![c] = d],
         q = PhaseOf(Append(log[c], e)),
         IF d.isClosed THEN q \in {"closed", "over"} ELSE q = "open",
         d.isClosed /\ LastMessage(d) => q = "closed"
  PROVE  EInv' /\ Phases' = [Phases EXCEPT ![c] = q]
  <1>1. /\ hd \in [Conns -> RWHandler] /\ log \in [Conns -> Seq(Event)]
        /\ log' = [log EXCEPT ![c] = Append(@, e)]
    BY HandlerTyped DEF Told
  <1>2. /\ hd'[c] = d /\ log'[c] = Append(log[c], e) /\ log'[c] # << >>
        /\ \A k \in Conns : k # c => hd'[k] = hd[k] /\ log'[k] = log[k]
    BY <1>1
  <1>3. UntouchedBefore'
    BY <1>2 DEF EInv, UntouchedBefore
  <1>4. ToldIsClosed'
    BY <1>2 DEF EInv, ToldIsClosed
  <1>5. OneMessageAfter'
    BY <1>2 DEF EInv, OneMessageAfter, LastMessage
  <1>6. Phases' = [Phases EXCEPT ![c] = q]
    <2>1. Phases = [k \in Conns |-> PhaseOf(log[k])]
      BY PhaseIs DEF Phases
    <2>2. Phases' = [k \in Conns |-> PhaseOf(log'[k])]
      BY <2>1, PhaseIs DEF Phases, phaseOf, PhaseOf, Closes, EndsOf, Ends
    <2> QED BY <1>2, <2>1, <2>2
  <1> QED BY <1>3, <1>4, <1>5, <1>6 DEF EInv

LEMMA ClosedStep ==
  ASSUME IInv, EInv, NEW c \in Conns, NEW d, NEW type \in Ends,
         Good(c, d), OnClosed(c, d, type), log[c] # << >>,
         LastMessage(d) => LastMessage(hd[c])
  PROVE  EInv' /\ (Phases' = Phases \/ Events!Closed(c))
  <1>1. CASE d.isClosed
    BY <1>1, SilentStep DEF OnClosed, Good
  <1>2. CASE ~ d.isClosed
    <2> DEFINE b == [d EXCEPT !.isClosed = TRUE]
               q == PhaseOf(Append(log[c], type))
    <2>1. b.isClosed
      BY DEF Good, RWHandler
    <2>2. PhaseOf(log[c]) = "open"
      BY <1>2 DEF EInv, ToldIsClosed, Good
    <2>3. type \in Event /\ log[c] \in Seq(Event)
      BY HandlerTyped DEF Ends, Event
    <2>4. q = "closed"
      BY <2>2, <2>3, PhaseSteps
    <2>5. Told(c, type) /\ hd' = [hd EXCEPT ![c] = b]
      BY <1>2 DEF OnClosed
    <2> HIDE DEF b, q
    <2>6. EInv' /\ Phases' = [Phases EXCEPT ![c] = "closed"]
      BY <2>1, <2>3, <2>4, <2>5, ToldStep DEF q
    <2>7. Phases[c] = "open"
      BY <2>2, PhaseIs DEF Phases
    <2> QED BY <2>6, <2>7 DEF Events!Closed, Phases
  <1> QED BY <1>1, <1>2

----------------------------------------------------------------------------
(* The actions *)

EventStep == Phases' = Phases \/ Events!Next

LEMMA AcceptEvents ==
  ASSUME IInv, EInv, NEW c \in Conns, Accept(c)
  PROVE  EInv' /\ EventStep
  <1>1. log[c] = << >> /\ log \in [Conns -> Seq(Event)]
    BY HandlerTyped DEF Accept
  <1>2. CASE UNCHANGED <<handlers, hd, log>>
    BY <1>2 DEF EInv, UntouchedBefore, ToldIsClosed, OneMessageAfter, EventStep,
       Phases, phaseOf, Closes
  <1>3. CASE hd' = [hd EXCEPT ![c] = NewHandler] /\ Told(c, "accept")
    <2> DEFINE q == PhaseOf(Append(log[c], "accept"))
    <2>1. "accept" \in Event /\ q = "open"
      BY <1>1, PhaseSteps DEF Event
    <2>2. ~ NewHandler.isClosed
      BY NewHandlerType
    <2> HIDE DEF q
    <2>3. EInv' /\ Phases' = [Phases EXCEPT ![c] = "open"]
      BY <1>3, <2>1, <2>2, ToldStep DEF q
    <2>4. Phases[c] = "none"
      BY <1>1, PhaseIff, PhaseIs DEF Phases
    <2>5. Events!Accepted(c)
      BY <2>3, <2>4 DEF Events!Accepted, Phases
    <2> QED BY <2>3, <2>5 DEF EventStep, Events!Next
  <1> QED BY <1>2, <1>3 DEF Accept

LEMMA ReadHandlerEvents ==
  ASSUME IInv, EInv, NEW c \in Conns, ReadHandler(c)
  PROVE  EInv' /\ EventStep
  <1> DEFINE d == [hd[c] EXCEPT !.timer = FALSE, !.read = "none", !.ready = "no"]
  <1>1. Good(c, hd[c]) /\ log \in [Conns -> Seq(Event)]
    BY HandlerGood, HandlerTyped
  <1>2. Good(c, d) /\ ~ LastMessage(d)
    BY <1>1 DEF RWHandler, Good, LastMessage
  <1>3. CASE log[c] # << >> /\ OnClosed(c, d, "closed")
    <2>1. EInv' /\ (Phases' = Phases \/ Events!Closed(c))
      BY <1>2, <1>3, ClosedStep DEF Ends
    <2> QED BY <2>1 DEF EventStep, Events!Next
  <1>4. CASE log[c] # << >> /\ Continue(c, ReadBody(d))
    <2> DEFINE b == ReadBody(d)
    <2>1. b.isClosed = hd[c].isClosed /\ ~ LastMessage(b)
      BY <1>1 DEF ReadBody, RWHandler, Good, LastMessage
    <2> HIDE DEF b
    <2>2. EInv' /\ Phases' = Phases
      BY <1>4, <2>1, SilentStep DEF b
    <2> QED BY <2>2 DEF EventStep
  <1>5. CASE /\ log[c] # << >> /\ LastMessage(hd[c])
             /\ Told(c, "message") /\ hd' = [hd EXCEPT ![c] = ReadHead(d)]
    <2> DEFINE b == ReadHead(d)
               q == PhaseOf(Append(log[c], "message"))
    <2>1. b.isClosed = hd[c].isClosed /\ ~ LastMessage(b)
      BY <1>1 DEF ReadHead, RWHandler, Good, LastMessage
    <2>2. /\ hd[c].isClosed => PhaseOf(log[c]) = "closed"
          /\ ~ hd[c].isClosed => PhaseOf(log[c]) = "open"
      BY <1>5 DEF EInv, ToldIsClosed, OneMessageAfter
    <2>3. "message" \in Event
      BY DEF Event
    <2>4. /\ PhaseOf(log[c]) = "closed" => q = "over"
          /\ PhaseOf(log[c]) = "open" => q = "open"
      BY <1>1, <2>3, PhaseSteps
    <2>5. IF b.isClosed THEN q \in {"closed", "over"} ELSE q = "open"
      BY <2>1, <2>2, <2>4
    <2>6. hd' = [hd EXCEPT ![c] = b] /\ Told(c, "message")
      BY <1>5
    <2> HIDE DEF d, b, q
    <2>7. EInv' /\ Phases' = [Phases EXCEPT ![c] = q]
      <3>1. q = PhaseOf(Append(log[c], "message"))
        BY DEF q
      <3> QED BY <2>1, <2>3, <2>5, <2>6, <3>1, ToldStep
    <2>8. Phases[c] = PhaseOf(log[c])
      BY PhaseIs DEF Phases
    <2>9. Events!Received(c)
      <3>1. CASE PhaseOf(log[c]) = "open"
        <4>1. Phases' = Phases
          BY <2>4, <2>7, <2>8, <3>1 DEF q, Phases
        <4> QED BY <2>8, <3>1, <4>1 DEF Events!Received, Phases
      <3>2. CASE PhaseOf(log[c]) = "closed"
        BY <2>4, <2>7, <2>8, <3>2 DEF q, Events!Received, Phases
      <3> QED BY <2>2, <3>1, <3>2
    <2> QED BY <2>7, <2>9 DEF EventStep, Events!Next
  <1>6. log[c] # << >>
    BY DEF ReadHandler, EInv, UntouchedBefore
  <1> QED BY <1>3, <1>4, <1>5, <1>6 DEF ReadHandler, LastMessage

LEMMA TimeoutHandlerEvents ==
  ASSUME IInv, EInv, NEW c \in Conns, TimeoutHandler(c)
  PROVE  EInv' /\ EventStep
  <1> DEFINE d == [hd[c] EXCEPT !.expired = FALSE]
  <1>1. OnClosed(c, d, "timeout") /\ log[c] # << >>
    BY DEF TimeoutHandler, EInv, UntouchedBefore
  <1>2. Good(c, d) /\ (LastMessage(d) => LastMessage(hd[c]))
    BY HandlerGood DEF RWHandler, Good, LastMessage
  <1> HIDE DEF d
  <1>3. EInv' /\ (Phases' = Phases \/ Events!Closed(c))
    BY <1>1, <1>2, ClosedStep DEF Ends
  <1> QED BY <1>3 DEF EventStep, Events!Next

LEMMA RunPostedEvents ==
  ASSUME IInv, EInv, NEW c \in Conns, RunPosted(c)
  PROVE  EInv' /\ EventStep
  <1> DEFINE m == Head(hd[c].posted)
             d == [hd[c] EXCEPT !.posted = Tail(@)]
  <1>1. log[c] # << >>
    BY DEF RunPosted, EInv, UntouchedBefore
  <1>2. hd[c] \in RWHandler /\ Good(c, hd[c])
    BY HandlerGood DEF Good
  <1>3. Tail(hd[c].posted) \in Seq(Nat)
    BY <1>2 DEF RunPosted, RWHandler
  <1>4. Good(c, d) /\ (LastMessage(d) => LastMessage(hd[c]))
    BY <1>2, <1>3 DEF RWHandler, Good, LastMessage
  <1>5. CASE OnClosed(c, d, "silent")
    <2> HIDE DEF d
    <2>1. EInv' /\ (Phases' = Phases \/ Events!Closed(c))
      BY <1>1, <1>4, <1>5, ClosedStep DEF Ends
    <2> QED BY <2>1 DEF EventStep, Events!Next
  <1>6. CASE Continue(c, Queued(d, m))
    <2> DEFINE b == Queued(d, m)
    <2> HIDE DEF d, m
    <2>1. b.isClosed = hd[c].isClosed /\ (LastMessage(b) => LastMessage(d))
      BY <1>4 DEF Queued, RWHandler, Good, LastMessage
    <2> HIDE DEF b
    <2>2. EInv' /\ Phases' = Phases
      BY <1>1, <1>4, <1>6, <2>1, SilentStep DEF b
    <2> QED BY <2>2 DEF EventStep
  <1> QED BY <1>5, <1>6 DEF RunPosted

LEMMA WriteHandlerEvents ==
  ASSUME IInv, EInv, NEW c \in Conns, WriteHandler(c)
  PROVE  EInv' /\ EventStep
  <1>1. Good(c, hd[c])
    BY HandlerGood
  <1>2. log[c] # << >>
    BY DEF WriteHandler, EInv, UntouchedBefore
  <1> DEFINE d == [hd[c] EXCEPT !.write = "idle"]
  <1>3. CASE OnClosed(c, d, "closed")
    <2>1. Good(c, d) /\ (LastMessage(d) => LastMessage(hd[c]))
      BY <1>1 DEF RWHandler, Good, LastMessage
    <2> HIDE DEF d
    <2>2. EInv' /\ (Phases' = Phases \/ Events!Closed(c))
      BY <1>2, <1>3, <2>1, ClosedStep DEF Ends
    <2> QED BY <2>2 DEF EventStep, Events!Next
  <1> DEFINE w == IF Len(hd[c].wbuf) > 1 THEN "busy" ELSE "idle"
             b == [hd[c] EXCEPT !.wbuf = Tail(@), !.write = w]
  <1>4. CASE Continue(c, b)
    <2>1. b.isClosed = hd[c].isClosed /\ (LastMessage(b) => LastMessage(hd[c]))
      BY <1>1 DEF RWHandler, Good, LastMessage
    <2> HIDE DEF b
    <2>2. EInv' /\ Phases' = Phases
      BY <1>2, <1>4, <2>1, SilentStep
    <2> QED BY <2>2 DEF EventStep
  <1> QED BY <1>3, <1>4 DEF WriteHandler

\* The kernel completes a read with data only before the socket is closed.
LEMMA KernelEvents ==
  ASSUME IInv, EInv, NEW c \in Conns,
         ReadCompletes(c) \/ TimerExpires(c) \/ WriteCompletes(c)
  PROVE  EInv' /\ EventStep
  <1>1. hd[c] \in RWHandler
    BY HandlerGood DEF Good
  <1>2. log[c] # << >>
    BY DEF ReadCompletes, TimerExpires, WriteCompletes, EInv, UntouchedBefore
  <1>3. \E d : /\ Continue(c, d) /\ d.isClosed = hd[c].isClosed
               /\ d.isClosed /\ LastMessage(d) => LastMessage(hd[c])
    <2>1. CASE ReadCompletes(c)
      <3>1. PICK r \in {"data", "error"} :
                 hd' = [hd EXCEPT ![c].ready = r] /\ (r = "data" => ~ hd[c].isClosed)
        BY <2>1 DEF ReadCompletes
      <3> DEFINE d == [hd[c] EXCEPT !.ready = r]
      <3>2. Continue(c, d)
        BY <2>1, <3>1 DEF ReadCompletes, Continue
      <3>3. d.isClosed = hd[c].isClosed /\ (d.isClosed /\ LastMessage(d) => LastMessage(hd[c]))
        BY <1>1, <3>1 DEF RWHandler, LastMessage
      <3> QED BY <3>2, <3>3
    <2>2. CASE TimerExpires(c)
      <3> DEFINE d == [hd[c] EXCEPT !.timer = FALSE, !.expired = TRUE]
      <3>1. Continue(c, d)
        BY <2>2 DEF TimerExpires, Continue
      <3>2. d.isClosed = hd[c].isClosed /\ (LastMessage(d) => LastMessage(hd[c]))
        BY <1>1 DEF RWHandler, LastMessage
      <3> QED BY <3>1, <3>2
    <2>3. CASE WriteCompletes(c)
      <3>1. PICK w \in {"done", "failed"} : hd' = [hd EXCEPT ![c].write = w]
        BY <2>3 DEF WriteCompletes
      <3> DEFINE d == [hd[c] EXCEPT !.write = w]
      <3>2. Continue(c, d)
        BY <2>3, <3>1 DEF WriteCompletes, Continue
      <3>3. d.isClosed = hd[c].isClosed /\ (LastMessage(d) => LastMessage(hd[c]))
        BY <1>1 DEF RWHandler, LastMessage
      <3> QED BY <3>2, <3>3
    <2> QED BY <2>1, <2>2, <2>3
  <1> QED BY <1>2, <1>3, SilentStep DEF EventStep

\* A ConnectionHdl of a connection that was never accepted cannot be locked.
LEMMA PostEvents ==
  ASSUME IInv, EInv, NEW c \in Conns, SendMsg(c) \/ Shutdown(c)
  PROVE  EInv' /\ EventStep
  <1>1. hd[c] \in RWHandler
    BY HandlerGood DEF Good
  <1>2. log[c] # << >>
    BY DEF SendMsg, Shutdown, Alive, EInv, UntouchedBefore, IInv, HandlersOpen, OpenConns
  <1>3. PICK p : Continue(c, [hd[c] EXCEPT !.posted = p])
    BY DEF SendMsg, Shutdown, Continue
  <1> DEFINE d == [hd[c] EXCEPT !.posted = p]
  <1>4. d.isClosed = hd[c].isClosed /\ (LastMessage(d) => LastMessage(hd[c]))
    BY <1>1 DEF RWHandler, LastMessage
  <1> HIDE DEF d
  <1>5. EInv' /\ Phases' = Phases
    BY <1>2, <1>3, <1>4, SilentStep DEF d
  <1> QED BY <1>5 DEF EventStep

LEMMA NextEvents ==
  ASSUME IInv, EInv, [Next]_vars
  PROVE  EInv' /\ EventStep
  <1>1. CASE UNCHANGED <<hd, log>>
    BY <1>1 DEF EInv, UntouchedBefore, ToldIsClosed, OneMessageAfter, EventStep,
       Phases, phaseOf, Closes
  <1>2. UNCHANGED vars \/ AcceptError \/ Stop => UNCHANGED <<hd, log>>
    BY DEF vars, AcceptError, Stop
  <1>3. ASSUME NEW c \in Conns, Accept(c) \/ ReadHandler(c) \/ TimeoutHandler(c)
        PROVE  EInv' /\ EventStep
    BY <1>3, AcceptEvents, ReadHandlerEvents, TimeoutHandlerEvents
  <1>4. ASSUME NEW c \in Conns, RunPosted(c) \/ WriteHandler(c)
        PROVE  EInv' /\ EventStep
    BY <1>4, RunPostedEvents, WriteHandlerEvents
  <1>5. ASSUME NEW c \in Conns, ReadCompletes(c) \/ TimerExpires(c) \/ WriteCompletes(c)
        PROVE  EInv' /\ EventStep
    BY <1>5, KernelEvents
  <1>6. ASSUME NEW c \in Conns, SendMsg(c) \/ Shutdown(c)
        PROVE  EInv' /\ EventStep
    BY <1>6, PostEvents
  <1> QED BY <1>1, <1>2, <1>3, <1>4, <1>5, <1>6 DEF Next

LEMMA InitEvents == Init => EInv /\ Events!Init
  <1> SUFFICES ASSUME Init PROVE EInv /\ Events!Init
    OBVIOUS
  <1>1. \A c \in Conns : log[c] = << >> /\ ~ hd[c].isClosed
    BY DEF Init, NewHandler, ReadHead
  <1>2. UntouchedBefore
    BY DEF Init, NewHandler, ReadHead, UntouchedBefore
  <1>3. ToldIsClosed /\ OneMessageAfter
    BY <1>1 DEF ToldIsClosed, OneMessageAfter
  <1>4. \A c \in Conns : phaseOf(c) = "none"
    <2>1. << >> \in Seq(Event)
      OBVIOUS
    <2>2. PhaseOf(<< >>) = "none"
      BY <2>1, PhaseIff
    <2> QED BY <1>1, <2>2, PhaseIs
  <1>5. Events!Init
    BY <1>4 DEF Events!Init
  <1> QED BY <1>2, <1>3, <1>5 DEF EInv

----------------------------------------------------------------------------
(* The theorem *)

\* The world is told of each connection what ConnEvents allows: an accept,
\* messages, one close at most, whichever handlers race for it, and at most
\* one message after it.
THEOREM ConnEventsImplemented == Spec => ImplementsConnEvents
  <1>1. IInv /\ EInv /\ [Next]_vars => EInv' /\ [Events!Next]_Phases
    BY NextEvents DEF EventStep
  <1>2. Init => EInv /\ Events!Init
    BY InitEvents
  <1> QED BY <1>1, <1>2, InvariantHolds, PTL
          DEF Spec, ImplementsConnEvents, Events!Spec, Phases
============================================================================
