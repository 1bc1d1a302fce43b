------------------------- MODULE EventServerProofs -------------------------
(* Theorems about EventServer, for any descriptors, pipe and bounds.         *)
EXTENDS EventServer, TLAPS

----------------------------------------------------------------------------
(* Session ids *)

\* Below SeqMax the numbers of sessions do not come round.
LEMMA SeqIdIs ==
  ASSUME NEW c \in Conns
  PROVE  SeqId(c) = c
  <1>1. c \in Int /\ 0 <= c - 1 /\ c - 1 < SeqMax /\ SeqMax \in Nat \ {0} /\ MaxConns \in Nat
    BY EventAssumption DEF Conns
  <1>2. (c - 1) % SeqMax = c - 1
    BY <1>1
  <1> QED BY <1>1, <1>2 DEF SeqId

LEMMA SidIs ==
  ASSUME sess \in [Conns -> Session], NEW c \in Conns
  PROVE  Sid(c) = <<sess[c].fd, c>> /\ Sid(c) \in Fds \X Nat
  BY SeqIdIs, EventAssumption DEF Sid, Session, Conns

----------------------------------------------------------------------------
(* The queue and its pipe *)

LEMMA LeastIs ==
  ASSUME NEW m \in Nat, NEW n \in Nat
  PROVE  /\ Least(m, n) \in 0 .. m /\ Least(m, n) \in 0 .. n
         /\ m <= n => Least(m, n) = m
         /\ m > 0 /\ n > 0 => Least(m, n) > 0
  BY DEF Least

LEMMA Concat ==
  ASSUME NEW S, NEW a \in Seq(S), NEW b \in Seq(S)
  PROVE  a \o b \in Seq(S) /\ Len(a \o b) = Len(a) + Len(b)
  OBVIOUS

\* submitTask with new tasks, after executeTask may have taken one.
LEMMA Submitted ==
  ASSUME NEW queue \in Seq(Task), NEW new \in Seq(Task), bytes \in 0 .. PipeSize,
         SubmitTask(queue, new)
  PROVE  /\ tasks' \in Seq(Task)
         /\ Len(tasks') = Len(queue) + Len(new)
         /\ bytes' \in 0 .. PipeSize
         /\ loop # "off" /\ (bytes > 0 \/ Len(new) > 0) => bytes' > 0
  <1>1. PipeSize \in Nat \ {0} /\ bytes \in Nat /\ Len(new) \in Nat
    BY EventAssumption
  <1>2. tasks' \in Seq(Task) /\ Len(tasks') = Len(queue) + Len(new)
    BY Concat DEF SubmitTask
  <1> DEFINE k == bytes + Len(new)
  <1>3. k \in Nat /\ (bytes > 0 \/ Len(new) > 0 => k > 0)
    BY <1>1
  <1>5. loop # "off" => bytes' = Least(k, PipeSize)
    BY DEF SubmitTask, Signal
  <1> HIDE DEF k
  <1>4. Least(k, PipeSize) \in 0 .. PipeSize /\ (k > 0 => Least(k, PipeSize) > 0)
    BY <1>1, <1>3 DEF Least
  <1> QED BY <1>2, <1>3, <1>4, <1>5 DEF SubmitTask, Signal

LEMMA NewTasks ==
  ASSUME sess \in [Conns -> Session], NEW c \in Conns
  PROVE  /\ ShutdownTask(c) \in Task
         /\ \A r \in Responses : SendTask(c, r) \in Task
  BY SidIs DEF ShutdownTask, SendTask, Task

LEMMA TasksOfWriteType ==
  ASSUME sess \in [Conns -> Session], NEW c \in Conns,
         NEW s \in Session, NEW t \in Session
  PROVE  TasksOfWrite(c, s, t) \in Seq(Task)
  <1>1. <<ShutdownTask(c)>> \in Seq(Task) /\ << >> \in Seq(Task)
    BY NewTasks
  <1> DEFINE a == IF t.shutdown /\ ~ s.shutdown THEN <<ShutdownTask(c)>> ELSE << >>
             b == IF t.shutdown /\ ~ t.wait THEN <<ShutdownTask(c)>> ELSE << >>
  <1>2. a \in Seq(Task) /\ b \in Seq(Task)
    BY <1>1
  <1> HIDE DEF a, b
  <1>3. a \o b \in Seq(Task)
    BY <1>2, Concat
  <1> QED BY <1>3 DEF TasksOfWrite, a, b

----------------------------------------------------------------------------
(* Writing *)

LEMMA SameSeq ==
  ASSUME NEW S, NEW a \in Seq(S), NEW b \in Seq(S), Len(a) = Len(b),
         \A i \in 1 .. Len(b) : a[i] = b[i]
  PROVE  a = b
  OBVIOUS

\* What has been written and what remains are what there was.
LEMMA Split ==
  ASSUME NEW S, NEW s \in Seq(S), NEW n \in 0 .. Len(s)
  PROVE  /\ SubSeq(s, 1, n) \in Seq(S) /\ SubSeq(s, n + 1, Len(s)) \in Seq(S)
         /\ Len(SubSeq(s, 1, n)) = n
         /\ SubSeq(s, 1, n) \o SubSeq(s, n + 1, Len(s)) = s
  <1>1. /\ SubSeq(s, 1, n) \in Seq(S) /\ Len(SubSeq(s, 1, n)) = n
        /\ \A i \in 1 .. n : SubSeq(s, 1, n)[i] = s[i]
    OBVIOUS
  <1>2. /\ SubSeq(s, n + 1, Len(s)) \in Seq(S)
        /\ Len(SubSeq(s, n + 1, Len(s))) = Len(s) - n
        /\ \A i \in 1 .. Len(s) - n : SubSeq(s, n + 1, Len(s))[i] = s[n + i]
    OBVIOUS
  <1> DEFINE a == SubSeq(s, 1, n)
             b == SubSeq(s, n + 1, Len(s))
  <1> HIDE DEF a, b
  <1>3. a \in Seq(S) /\ b \in Seq(S) /\ Len(a) = n /\ Len(b) = Len(s) - n
    BY <1>1, <1>2 DEF a, b
  <1>7. Len(s) \in Nat /\ n \in Nat
    OBVIOUS
  <1>4. \A i \in 1 .. Len(s) : (a \o b)[i] = s[i]
    <2> SUFFICES ASSUME NEW i \in 1 .. Len(s) PROVE (a \o b)[i] = s[i]
      OBVIOUS
    <2>2. (a \o b)[i] = IF i <= n THEN a[i] ELSE b[i - n]
      BY <1>3
    <2>3. CASE i <= n
      BY <2>2, <2>3, <1>1 DEF a
    <2>4. CASE ~ (i <= n)
      <3>1. i - n \in 1 .. Len(s) - n
        BY <2>4, <1>7
      <3>2. b[i - n] = s[n + (i - n)]
        BY <3>1, <1>2 DEF b
      <3> QED BY <2>2, <2>4, <3>2
    <2> QED BY <2>3, <2>4
  <1>5. a \o b \in Seq(S) /\ Len(a \o b) = Len(s)
    BY <1>3, Concat
  <1>6. a \o b = s
    BY <1>4, <1>5, SameSeq
  <1> QED BY <1>1, <1>2, <1>6 DEF a, b

LEMMA WrittenType ==
  ASSUME NEW s \in Session, NEW n \in 0 .. Len(s.out), NEW error \in BOOLEAN
  PROVE  /\ Written(s, n, error) \in Session
         /\ SubSeq(s.out, 1, n) \in Seq(Responses)
  <1>1. s.out \in Seq(Responses)
    BY DEF Session
  <1> DEFINE rest == SubSeq(s.out, n + 1, Len(s.out))
  <1>2. rest \in Seq(Responses) /\ SubSeq(s.out, 1, n) \in Seq(Responses)
    BY <1>1, Split
  <1>3. Written(s, n, error) = [s EXCEPT !.out = rest, !.wait = rest # << >> /\ ~ error,
                                        !.shutdown = s.shutdown \/ error]
    BY DEF Written
  <1> HIDE DEF rest
  <1>4. Written(s, n, error) \in Session
    BY <1>2, <1>3 DEF Session
  <1> QED BY <1>2, <1>4

----------------------------------------------------------------------------
(* The invariant *)

IInv == TypeOK /\ NoTaskStranded

LEMMA InitIInv == Init => IInv
  <1> SUFFICES ASSUME Init PROVE IInv
    OBVIOUS
  <1>1. (CHOOSE f \in Fds : TRUE) \in Fds
    BY EventAssumption
  <1>2. NewSession(CHOOSE f \in Fds : TRUE) \in Session
    BY <1>1 DEF NewSession, Session
  <1>4. /\ PipeSize \in Nat /\ MaxConns \in Nat /\ MaxResponses \in Nat
        /\ MaxShuts \in Nat /\ MaxStarts \in Nat
    BY EventAssumption
  <1>5. << >> \in Seq(Task) /\ << >> \in Seq(Responses)
    OBVIOUS
  <1>6. sess \in [Conns -> Session]
    BY <1>2 DEF Init
  <1>7. given \in [Conns -> Seq(Responses)] /\ got \in [Conns -> Seq(Responses)]
    BY <1>5 DEF Init
  <1>8. tasks \in Seq(Task) /\ bytes \in 0 .. PipeSize /\ made \in 0 .. MaxConns
    BY <1>4, <1>5 DEF Init
  <1>9. sent \in 0 .. MaxResponses /\ shuts \in 0 .. MaxShuts /\ starts \in 0 .. MaxStarts
    BY <1>4 DEF Init
  <1>3. TypeOK
    BY <1>6, <1>7, <1>8, <1>9 DEF Init, TypeOK
  <1> QED BY <1>3 DEF Init, IInv, NoTaskStranded

LEMMA MadeConn ==
  ASSUME TypeOK, NEW c \in 1 .. made
  PROVE  c \in Conns /\ sess[c] \in Session
  <1>1. MaxConns \in Nat /\ made \in 0 .. MaxConns /\ sess \in [Conns -> Session]
    BY EventAssumption DEF TypeOK
  <1> QED BY <1>1 DEF Conns

\* The queue after a step that may have put new tasks into it: none of them
\* is left behind by a loop that goes to sleep.
LEMMA KeepsIInv ==
  ASSUME IInv, NEW new \in Seq(Task), SubmitTask(tasks, new),
         loop' = loop, old' = old
  PROVE  /\ tasks' \in Seq(Task) /\ bytes' \in 0 .. PipeSize
         /\ NoTaskStranded'
  <1>1. /\ tasks' \in Seq(Task) /\ bytes' \in 0 .. PipeSize
        /\ Len(tasks') = Len(tasks) + Len(new)
        /\ loop # "off" /\ (bytes > 0 \/ Len(new) > 0) => bytes' > 0
    BY Submitted DEF IInv, TypeOK
  <1>2. Len(tasks) \in Nat /\ Len(new) \in Nat /\ old \in Nat
    BY DEF IInv, TypeOK
  <1>3. ASSUME loop = "poll", Len(tasks') > old
        PROVE  bytes' > 0
    <2>1. Len(new) > 0 \/ Len(tasks) > old
      BY <1>1, <1>2, <1>3
    <2>2. Len(tasks) > old => bytes > 0
      BY <1>3 DEF IInv, NoTaskStranded
    <2> QED BY <1>1, <1>3, <2>1, <2>2
  <1> QED BY <1>1, <1>3 DEF NoTaskStranded

LEMMA SendResponseStep ==
  ASSUME IInv, NEW c \in 1 .. made, SendResponse(c)
  PROVE  IInv'
  <1>1. /\ c \in Conns /\ sent + 1 \in Responses /\ sent + 1 \in Nat
        /\ sent' \in 0 .. MaxResponses
    BY EventAssumption DEF IInv, TypeOK, SendResponse, Conns, Responses
  <1>2. <<SendTask(c, sent + 1)>> \in Seq(Task)
    BY <1>1, NewTasks DEF IInv, TypeOK
  <1>3. SubmitTask(tasks, <<SendTask(c, sent + 1)>>) /\ loop' = loop /\ old' = old
    BY DEF SendResponse
  <1>4. tasks' \in Seq(Task) /\ bytes' \in 0 .. PipeSize /\ NoTaskStranded'
    BY <1>2, <1>3, KeepsIInv
  <1>5. given' \in [Conns -> Seq(Responses)]
    BY <1>1 DEF IInv, TypeOK, SendResponse
  <1>6. TypeOK'
    BY <1>1, <1>4, <1>5 DEF IInv, TypeOK, SendResponse, loopVars
  <1> QED BY <1>4, <1>6 DEF IInv

LEMMA OnReadStep ==
  ASSUME IInv, NEW c \in 1 .. made, OnRead(c)
  PROVE  IInv'
  <1>1. CASE ~ sess[c].shutdown /\ SendResponse(c)
    BY <1>1, SendResponseStep
  <1>2. CASE ~ (~ sess[c].shutdown /\ SendResponse(c))
    <2> DEFINE new == IF sess[c].shutdown THEN << >> ELSE <<ShutdownTask(c)>>
    <2>1. c \in Conns /\ sess \in [Conns -> Session]
      BY MadeConn DEF IInv, TypeOK
    <2>2. new \in Seq(Task)
      BY <2>1, NewTasks
    <2>3. /\ sess' = [sess EXCEPT ![c].reading = FALSE, ![c].shutdown = TRUE]
          /\ SubmitTask(tasks, new)
          /\ UNCHANGED <<loopVars, loop, made, live, failed, old, given, got, sent, shuts>>
      BY <1>2 DEF OnRead
    <2>4. tasks' \in Seq(Task) /\ bytes' \in 0 .. PipeSize /\ NoTaskStranded'
      BY <2>2, <2>3, KeepsIInv
    <2>5. sess' \in [Conns -> Session]
      BY <2>1, <2>3 DEF Session
    <2>6. TypeOK'
      BY <2>3, <2>4, <2>5 DEF IInv, TypeOK, loopVars
    <2> QED BY <2>4, <2>6 DEF IInv
  <1> QED BY <1>1, <1>2

\* What Write does, whatever it is part of.
LEMMA WriteStep ==
  ASSUME TypeOK, NEW c \in Conns, NEW s \in Session, NEW queue \in Seq(Task),
         NEW n \in 0 .. Len(s.out), NEW error \in BOOLEAN,
         Write(c, s, queue, n, error)
  PROVE  /\ TasksOfWrite(c, s, Written(s, n, error)) \in Seq(Task)
         /\ sess' \in [Conns -> Session]
         /\ got' \in [Conns -> Seq(Responses)]
         /\ tasks' \in Seq(Task) /\ bytes' \in 0 .. PipeSize
  <1>1. Written(s, n, error) \in Session /\ SubSeq(s.out, 1, n) \in Seq(Responses)
    BY WrittenType
  <1>2. TasksOfWrite(c, s, Written(s, n, error)) \in Seq(Task)
    BY <1>1, TasksOfWriteType DEF TypeOK
  <1>3. tasks' \in Seq(Task) /\ bytes' \in 0 .. PipeSize
    BY <1>2, Submitted DEF Write, TypeOK
  <1>4. sess' \in [Conns -> Session]
    BY <1>1 DEF Write, TypeOK
  <1>5. got' \in [Conns -> Seq(Responses)]
    <2>1. got[c] \o SubSeq(s.out, 1, n) \in Seq(Responses)
      BY <1>1, Concat DEF TypeOK
    <2> QED BY <2>1 DEF Write, TypeOK
  <1> QED BY <1>2, <1>3, <1>4, <1>5

LEMMA OnWriteStep ==
  ASSUME IInv, NEW c \in 1 .. made, OnWrite(c)
  PROVE  IInv'
  <1>1. c \in Conns /\ sess[c] \in Session /\ TypeOK /\ tasks \in Seq(Task)
    BY MadeConn DEF IInv, TypeOK
  <1>2. PICK n \in 0 .. Len(sess[c].out), error \in BOOLEAN :
            Write(c, sess[c], tasks, n, error)
    BY DEF OnWrite
  <1>3. loop' = loop /\ old' = old
    BY DEF OnWrite
  <1> DEFINE new == TasksOfWrite(c, sess[c], Written(sess[c], n, error))
  <1>4. /\ new \in Seq(Task) /\ sess' \in [Conns -> Session]
        /\ got' \in [Conns -> Seq(Responses)]
    BY <1>1, <1>2, WriteStep
  <1>5. /\ SubmitTask(tasks, new)
        /\ UNCHANGED <<loopVars, made, live, failed, given, sent, shuts>>
    BY <1>2 DEF Write
  <1> HIDE DEF new
  <1>6. tasks' \in Seq(Task) /\ bytes' \in 0 .. PipeSize /\ NoTaskStranded'
    BY <1>3, <1>4, <1>5, KeepsIInv
  <1>7. TypeOK'
    BY <1>1, <1>3, <1>4, <1>5, <1>6 DEF TypeOK, loopVars
  <1> QED BY <1>6, <1>7 DEF IInv

\* A task that executeTask has taken from the queue.
LEMMA RunTaskType ==
  ASSUME TypeOK, NEW task \in Task, NEW queue \in Seq(Task),
         RunTask(task, queue)
  PROVE  /\ UNCHANGED <<loopVars, made, failed, given, sent, shuts>>
         /\ tasks' \in Seq(Task) /\ bytes' \in 0 .. PipeSize
         /\ live' \subseteq live
         /\ sess' \in [Conns -> Session] /\ got' \in [Conns -> Seq(Responses)]
  <1>1. ASSUME SubmitTask(queue, << >>)
        PROVE  tasks' \in Seq(Task) /\ bytes' \in 0 .. PipeSize
    <2>1. << >> \in Seq(Task) /\ bytes \in 0 .. PipeSize
      BY DEF TypeOK
    <2> QED BY <1>1, <2>1, Submitted
  <1>2. CASE RunNothing(queue)
    BY <1>1, <1>2 DEF RunNothing, TypeOK
  <1>3. ASSUME NEW c \in FindSession(task.sid), task.kind = "send",
               RunSend(c, task.resp, queue)
        PROVE  /\ UNCHANGED <<loopVars, made, live, failed, given, sent, shuts>>
               /\ tasks' \in Seq(Task) /\ bytes' \in 0 .. PipeSize
               /\ sess' \in [Conns -> Session] /\ got' \in [Conns -> Seq(Responses)]
    <2>1. c \in Conns /\ sess[c] \in Session
      BY MadeConn DEF TypeOK, FindSession
    <2> DEFINE s == [sess[c] EXCEPT !.out = Append(@, task.resp)]
    <2>2. s \in Session
      <3>1. task.resp \in Responses
        BY <1>3 DEF Task
      <3>2. Append(sess[c].out, task.resp) \in Seq(Responses)
        BY <2>1, <3>1 DEF Session
      <3> QED BY <2>1, <3>2 DEF Session
    <2>3. CASE s.wait
      BY <1>1, <1>3, <2>1, <2>2, <2>3 DEF RunSend, TypeOK
    <2>4. CASE ~ s.wait
      <3>1. PICK n \in 0 .. Len(s.out), error \in BOOLEAN : Write(c, s, queue, n, error)
        BY <1>3, <2>4 DEF RunSend
      <3> HIDE DEF s
      <3>2. /\ sess' \in [Conns -> Session] /\ got' \in [Conns -> Seq(Responses)]
            /\ tasks' \in Seq(Task) /\ bytes' \in 0 .. PipeSize
        BY <2>1, <2>2, <3>1, WriteStep
      <3> QED BY <3>1, <3>2 DEF Write
    <2> QED BY <2>3, <2>4
  <1>4. ASSUME NEW c \in FindSession(task.sid), RunShutdown(c, queue)
        PROVE  /\ UNCHANGED <<loopVars, made, failed, given, sent, shuts>>
               /\ tasks' \in Seq(Task) /\ bytes' \in 0 .. PipeSize
               /\ live' \subseteq live
               /\ sess' \in [Conns -> Session] /\ got' \in [Conns -> Seq(Responses)]
    <2>1. c \in Conns /\ sess[c] \in Session
      BY MadeConn DEF TypeOK, FindSession
    <2>2. sess' \in [Conns -> Session]
      BY <1>4, <2>1 DEF RunShutdown, TypeOK, Session
    <2> QED BY <1>1, <1>4, <2>2 DEF RunShutdown, Released, TypeOK
  <1>5. \/ RunNothing(queue)
        \/ \E c \in FindSession(task.sid) :
              \/ task.kind = "send" /\ RunSend(c, task.resp, queue)
              \/ RunShutdown(c, queue)
    BY DEF RunTask
  <1> QED BY <1>2, <1>3, <1>4, <1>5

LEMMA ExecuteTaskStep ==
  ASSUME IInv, ExecuteTask
  PROVE  IInv'
  <1>1. CASE tasks = << >>
    <2>1. Len(tasks') = 0 /\ old' \in Nat
      BY <1>1 DEF ExecuteTask, IInv, TypeOK
    <2>2. NoTaskStranded'
      BY <2>1 DEF NoTaskStranded
    <2>3. TypeOK'
      BY <1>1 DEF ExecuteTask, IInv, TypeOK, loopVars
    <2> QED BY <2>2, <2>3 DEF IInv
  <1>2. CASE tasks # << >>
    <2>1. /\ Head(tasks) \in Task /\ Tail(tasks) \in Seq(Task) /\ TypeOK
          /\ loop' = "tasks" /\ old' = (IF old = 0 THEN 0 ELSE old - 1)
          /\ RunTask(Head(tasks), Tail(tasks))
      BY <1>2 DEF ExecuteTask, AfterTask, IInv, TypeOK
    <2>2. /\ UNCHANGED <<loopVars, made, failed, given, sent, shuts>>
          /\ tasks' \in Seq(Task) /\ bytes' \in 0 .. PipeSize
          /\ live' \subseteq live
          /\ sess' \in [Conns -> Session] /\ got' \in [Conns -> Seq(Responses)]
      BY <2>1, RunTaskType
    <2>3. old' \in Nat
      BY <2>1 DEF TypeOK
    <2>4. TypeOK'
      BY <2>1, <2>2, <2>3 DEF TypeOK, loopVars
    <2> QED BY <2>1, <2>4 DEF IInv, NoTaskStranded
  <1> QED BY <1>1, <1>2

LEMMA InvStep == IInv /\ [Next]_vars => IInv'
  <1> SUFFICES ASSUME IInv, [Next]_vars PROVE IInv'
    OBVIOUS
  <1>1. CASE Listen
    BY <1>1 DEF Listen, IInv, TypeOK, NoTaskStranded
  <1>2. CASE Start
    <2>1. Len(tasks) \in Nat /\ starts + 1 \in 0 .. MaxStarts /\ starts' = starts + 1
      BY <1>2, EventAssumption DEF Start, IInv, TypeOK
    <2>2. NoTaskStranded'
      BY <1>2, <2>1 DEF Start, NoTaskStranded
    <2>3. TypeOK'
      BY <1>2, <2>1 DEF Start, IInv, TypeOK
    <2> QED BY <2>2, <2>3 DEF IInv
  <1>3. CASE Shutdown
    <2>1. bytes \in Nat /\ PipeSize \in Nat \ {0} /\ bytes + 1 \in Nat /\ bytes + 1 > 0
      BY EventAssumption DEF IInv, TypeOK
    <2>2. Least(bytes + 1, PipeSize) \in 1 .. PipeSize
      BY <2>1 DEF Least
    <2>3. bytes' \in 0 .. PipeSize /\ (loop # "off" => bytes' > 0)
      BY <1>3, <2>1, <2>2 DEF Shutdown, Signal, IInv, TypeOK
    <2>4. TypeOK'
      BY <1>3, <2>3 DEF Shutdown, IInv, TypeOK
    <2>5. NoTaskStranded'
      BY <1>3, <2>3 DEF Shutdown, NoTaskStranded
    <2> QED BY <2>4, <2>5 DEF IInv
  <1>4. CASE OnAccept
    <2>1. made + 1 \in Conns /\ made' = made + 1 /\ made' \in 0 .. MaxConns
      BY <1>4, EventAssumption DEF OnAccept, IInv, TypeOK, Conns
    <2>2. sess' \in [Conns -> Session]
      <3>1. PICK f \in Fds : sess' = [sess EXCEPT ![made + 1] = NewSession(f)]
        BY <1>4 DEF OnAccept
      <3>2. NewSession(f) \in Session
        BY DEF NewSession, Session
      <3> QED BY <3>1, <3>2 DEF IInv, TypeOK
    <2>3. live' \subseteq 1 .. made'
      BY <1>4, <2>1 DEF OnAccept, IInv, TypeOK, Conns
    <2>4. TypeOK'
      BY <1>4, <2>1, <2>2, <2>3 DEF OnAccept, IInv, TypeOK, loopVars
    <2>5. NoTaskStranded'
      BY <1>4 DEF OnAccept, IInv, NoTaskStranded
    <2> QED BY <2>4, <2>5 DEF IInv
  <1>5. CASE OnReadPipe
    <2>1. bytes \in Nat /\ ReadMax \in Nat
      BY EventAssumption DEF IInv, TypeOK
    <2>2. bytes' \in 0 .. PipeSize
      BY <1>5, <2>1, EventAssumption DEF OnReadPipe, Least, IInv, TypeOK
    <2>3. TypeOK' /\ NoTaskStranded'
      BY <1>5, <2>2 DEF OnReadPipe, IInv, TypeOK, NoTaskStranded, loopVars
    <2> QED BY <2>3 DEF IInv
  <1>6. CASE ExecuteTask
    BY <1>6, ExecuteTaskStep
  <1>7. CASE LoopExit
    <2>1. 0 \in 0 .. PipeSize
      BY EventAssumption
    <2> QED BY <1>7, <2>1 DEF LoopExit, IInv, TypeOK, NoTaskStranded
  <1>8. ASSUME NEW c \in 1 .. made, ShutdownSession(c) PROVE IInv'
    <2>1. c \in Conns /\ sess \in [Conns -> Session]
      BY MadeConn DEF IInv, TypeOK
    <2>2. <<ShutdownTask(c)>> \in Seq(Task)
      BY <2>1, NewTasks
    <2>3. SubmitTask(tasks, <<ShutdownTask(c)>>) /\ loop' = loop /\ old' = old
      BY <1>8 DEF ShutdownSession
    <2>4. tasks' \in Seq(Task) /\ bytes' \in 0 .. PipeSize /\ NoTaskStranded'
      BY <2>2, <2>3, KeepsIInv
    <2>5. shuts' \in 0 .. MaxShuts
      BY <1>8, EventAssumption DEF ShutdownSession, IInv, TypeOK
    <2>6. TypeOK'
      BY <1>8, <2>4, <2>5 DEF ShutdownSession, IInv, TypeOK, loopVars
    <2> QED BY <2>4, <2>6 DEF IInv
  <1>9. ASSUME NEW c \in 1 .. made, Fail(c) PROVE IInv'
    <2>1. c \in Conns
      BY MadeConn DEF IInv
    <2> QED BY <1>9, <2>1 DEF Fail, IInv, TypeOK, NoTaskStranded, loopVars
  <1>10. ASSUME NEW c \in 1 .. made, SendResponse(c) \/ OnRead(c) \/ OnWrite(c)
         PROVE  IInv'
    BY <1>10, SendResponseStep, OnReadStep, OnWriteStep
  <1>11. CASE UNCHANGED vars
    BY <1>11 DEF vars, IInv, TypeOK, NoTaskStranded
  <1> QED BY <1>1, <1>2, <1>3, <1>4, <1>5, <1>6, <1>7, <1>8, <1>9, <1>10, <1>11
          DEF Next

----------------------------------------------------------------------------
(* Theorems *)

THEOREM Invariance == Spec => []IInv
  BY InitIInv, InvStep, PTL DEF Spec

\* The types of the server's state, for any descriptors, pipe and bounds.
THEOREM TypeCorrect == Spec => []TypeOK
  <1>1. IInv => TypeOK
    BY DEF IInv
  <1> QED BY <1>1, Invariance, PTL

\* executeTask and submitTask: whatever order threads append, signal and run
\* tasks in, and however few bytes a read takes or the pipe holds, no task
\* submitted to a running loop is left in the queue of a loop that sleeps.
THEOREM NoTaskStrandedCorrect == Spec => []NoTaskStranded
  <1>1. IInv => NoTaskStranded
    BY DEF IInv
  <1> QED BY <1>1, Invariance, PTL

(***************************************************************************)
(* EventServer implements Replies.                                         *)
(***************************************************************************)
----------------------------------------------------------------------------
(* Queues *)

Elems(q) == {q[i] : i \in DOMAIN q}

LEMMA ElemsTail ==
  ASSUME NEW q \in Seq(Task), q # << >>
  PROVE  /\ Head(q) \in Task /\ Tail(q) \in Seq(Task) /\ Head(q) = q[1]
         /\ Len(Tail(q)) = Len(q) - 1 /\ Len(q) \in Nat \ {0}
         /\ \A i \in 1 .. Len(q) - 1 : Tail(q)[i] = q[i + 1]
         /\ Elems(q) = {Head(q)} \cup Elems(Tail(q))
  <1> DEFINE t == Tail(q)
             n == Len(q)
  <1>1. /\ Head(q) \in Task /\ t \in Seq(Task) /\ Head(q) = q[1]
        /\ Len(t) = n - 1 /\ n \in Nat \ {0} /\ DOMAIN q = 1 .. n /\ DOMAIN t = 1 .. n - 1
        /\ \A i \in 1 .. n - 1 : t[i] = q[i + 1]
    OBVIOUS
  <1> HIDE DEF t, n
  <1>2. ASSUME NEW x \in Elems(q) PROVE x \in {Head(q)} \cup Elems(t)
    <2>1. PICK i \in 1 .. n : x = q[i]
      BY <1>1, <1>2 DEF Elems
    <2>2. CASE i = 1
      BY <1>1, <2>1, <2>2
    <2>3. CASE i # 1
      <3>1. i - 1 \in 1 .. n - 1 /\ x = t[i - 1]
        BY <1>1, <2>1, <2>3
      <3> QED BY <1>1, <3>1 DEF Elems
    <2> QED BY <2>2, <2>3
  <1>3. ASSUME NEW x \in {Head(q)} \cup Elems(t) PROVE x \in Elems(q)
    <2>1. CASE x = Head(q)
      BY <1>1, <2>1 DEF Elems
    <2>2. CASE x \in Elems(t)
      <3>1. PICK i \in 1 .. n - 1 : x = t[i]
        BY <1>1, <2>2 DEF Elems
      <3>2. i + 1 \in 1 .. n /\ x = q[i + 1]
        BY <1>1, <3>1
      <3> QED BY <1>1, <3>2 DEF Elems
    <2> QED BY <1>3, <2>1, <2>2
  <1> QED BY <1>1, <1>2, <1>3 DEF t, n

LEMMA ElemsConcat ==
  ASSUME NEW q \in Seq(Task), NEW new \in Seq(Task)
  PROVE  /\ q \o new \in Seq(Task) /\ Len(q \o new) = Len(q) + Len(new)
         /\ Len(q) \in Nat /\ Len(new) \in Nat
         /\ \A i \in 1 .. Len(q) : (q \o new)[i] = q[i]
         /\ \A i \in 1 .. Len(new) : (q \o new)[Len(q) + i] = new[i]
         /\ Elems(q \o new) = Elems(q) \cup Elems(new)
  <1> DEFINE t == q \o new
             m == Len(q)
             n == Len(new)
  <1>1. /\ t \in Seq(Task) /\ Len(t) = m + n /\ m \in Nat /\ n \in Nat
        /\ DOMAIN q = 1 .. m /\ DOMAIN new = 1 .. n /\ DOMAIN t = 1 .. m + n
        /\ \A i \in 1 .. m : t[i] = q[i]
    OBVIOUS
  <1>2. \A i \in 1 .. n : t[m + i] = new[i]
    OBVIOUS
  <1> HIDE DEF t, m, n
  <1>3. ASSUME NEW x \in Elems(t) PROVE x \in Elems(q) \cup Elems(new)
    <2>1. PICK i \in 1 .. m + n : x = t[i]
      BY <1>1, <1>3 DEF Elems
    <2>2. CASE i <= m
      BY <1>1, <2>1, <2>2 DEF Elems
    <2>3. CASE ~ (i <= m)
      <3>1. i - m \in 1 .. n /\ i = m + (i - m)
        BY <1>1, <2>1, <2>3
      <3>2. x = new[i - m]
        BY <1>2, <2>1, <3>1
      <3> QED BY <1>1, <3>1, <3>2 DEF Elems
    <2> QED BY <2>2, <2>3
  <1>4. ASSUME NEW x \in Elems(q) \cup Elems(new) PROVE x \in Elems(t)
    <2>1. CASE x \in Elems(q)
      <3>1. PICK i \in 1 .. m : x = q[i]
        BY <1>1, <2>1 DEF Elems
      <3>2. i \in 1 .. m + n /\ x = t[i]
        BY <1>1, <3>1
      <3> QED BY <1>1, <3>2 DEF Elems
    <2>2. CASE x \in Elems(new)
      <3>1. PICK i \in 1 .. n : x = new[i]
        BY <1>1, <2>2 DEF Elems
      <3>2. m + i \in 1 .. m + n /\ x = t[m + i]
        BY <1>1, <1>2, <3>1
      <3> QED BY <1>1, <3>2 DEF Elems
    <2> QED BY <1>4, <2>1, <2>2
  <1> QED BY <1>1, <1>2, <1>3, <1>4 DEF t, m, n

\* The responses in a queue are in the order in which they were given.
SortedSends(q) ==
    \A i, j \in DOMAIN q :
        i < j /\ q[i].kind = "send" /\ q[j].kind = "send" => q[i].resp < q[j].resp

LEMMA SortedTail ==
  ASSUME NEW q \in Seq(Task), q # << >>, SortedSends(q)
  PROVE  /\ SortedSends(Tail(q))
         /\ Head(q).kind = "send" =>
              \A t \in Elems(Tail(q)) : t.kind = "send" => Head(q).resp < t.resp
  <1> DEFINE b == Tail(q)
             n == Len(q)
  <1>1. /\ n \in Nat \ {0} /\ DOMAIN q = 1 .. n /\ DOMAIN b = 1 .. n - 1
        /\ Head(q) = q[1] /\ \A i \in 1 .. n - 1 : b[i] = q[i + 1]
    BY ElemsTail
  <1> HIDE DEF b, n
  <1>2. SortedSends(b)
    <2> SUFFICES ASSUME NEW i \in 1 .. n - 1, NEW j \in 1 .. n - 1, i < j,
                        b[i].kind = "send", b[j].kind = "send"
                 PROVE  b[i].resp < b[j].resp
      BY <1>1 DEF SortedSends
    <2>1. i + 1 \in 1 .. n /\ j + 1 \in 1 .. n /\ i + 1 < j + 1
      BY <1>1
    <2> QED BY <1>1, <2>1 DEF SortedSends
  <1>3. ASSUME NEW t \in Elems(b), t.kind = "send", Head(q).kind = "send"
        PROVE  Head(q).resp < t.resp
    <2>1. PICK i \in 1 .. n - 1 : t = b[i]
      BY <1>1 DEF Elems
    <2>2. i + 1 \in 1 .. n /\ 1 \in 1 .. n /\ 1 < i + 1 /\ t = q[i + 1]
      BY <1>1, <2>1
    <2> QED BY <1>1, <1>3, <2>2 DEF SortedSends
  <1> QED BY <1>2, <1>3 DEF b

LEMMA SortedConcat ==
  ASSUME NEW q \in Seq(Task), NEW new \in Seq(Task), SortedSends(q), SortedSends(new),
         \A s \in Elems(q), t \in Elems(new) :
            s.kind = "send" /\ t.kind = "send" => s.resp < t.resp
  PROVE  SortedSends(q \o new)
  <1> DEFINE b == q \o new
             m == Len(q)
             n == Len(new)
  <1>1. /\ m \in Nat /\ n \in Nat /\ DOMAIN b = 1 .. m + n
        /\ DOMAIN q = 1 .. m /\ DOMAIN new = 1 .. n
        /\ \A i \in 1 .. m : b[i] = q[i]
        /\ \A i \in 1 .. n : b[m + i] = new[i]
    BY ElemsConcat
  <1> HIDE DEF b, m, n
  <1> SUFFICES ASSUME NEW i \in 1 .. m + n, NEW j \in 1 .. m + n, i < j,
                      b[i].kind = "send", b[j].kind = "send"
               PROVE  b[i].resp < b[j].resp
    BY <1>1 DEF SortedSends, b
  <1>2. CASE j <= m
    <2>1. i \in 1 .. m /\ j \in 1 .. m
      BY <1>1, <1>2
    <2> QED BY <1>1, <2>1 DEF SortedSends
  <1>3. CASE ~ (j <= m)
    <2>1. j - m \in 1 .. n /\ j = m + (j - m)
      BY <1>1, <1>3
    <2>2. b[j] = new[j - m]
      BY <1>1, <2>1
    <2>3. CASE i <= m
      <3>1. i \in 1 .. m /\ b[i] = q[i]
        BY <1>1, <2>3
      <3>2. b[i] \in Elems(q) /\ b[j] \in Elems(new)
        BY <1>1, <2>1, <2>2, <3>1 DEF Elems
      <3> QED BY <3>2
    <2>4. CASE ~ (i <= m)
      <3>1. i - m \in 1 .. n /\ i = m + (i - m) /\ i - m < j - m
        BY <1>1, <2>1, <2>4
      <3>2. b[i] = new[i - m]
        BY <1>1, <3>1
      <3>3. \A k, l \in 1 .. n : k < l /\ new[k].kind = "send" /\ new[l].kind = "send"
                => new[k].resp < new[l].resp
        BY <1>1 DEF SortedSends
      <3>4. new[i - m].kind = "send" /\ new[j - m].kind = "send"
        BY <2>2, <3>2
      <3> QED BY <2>1, <2>2, <3>1, <3>2, <3>3, <3>4
    <2> QED BY <2>3, <2>4
  <1> QED BY <1>2, <1>3

----------------------------------------------------------------------------
(* What a session has taken on *)

LEMMA ConcatElems ==
  ASSUME NEW a \in Seq(Responses), NEW b \in Seq(Responses)
  PROVE  /\ a \o b \in Seq(Responses) /\ Len(a \o b) = Len(a) + Len(b)
         /\ \A i \in 1 .. Len(a) + Len(b) :
              (a \o b)[i] = IF i <= Len(a) THEN a[i] ELSE b[i - Len(a)]
  OBVIOUS

LEMMA Assoc ==
  ASSUME NEW a \in Seq(Responses), NEW b \in Seq(Responses), NEW c \in Seq(Responses)
  PROVE  (a \o b) \o c = a \o (b \o c)
  <1> DEFINE l == (a \o b) \o c
             r == a \o (b \o c)
             ab == a \o b
             bc == b \o c
  <1>1. /\ ab \in Seq(Responses) /\ Len(ab) = Len(a) + Len(b)
        /\ bc \in Seq(Responses) /\ Len(bc) = Len(b) + Len(c)
        /\ Len(a) \in Nat /\ Len(b) \in Nat /\ Len(c) \in Nat
    BY ConcatElems
  <1>2. /\ \A i \in 1 .. Len(a) + Len(b) :
              ab[i] = IF i <= Len(a) THEN a[i] ELSE b[i - Len(a)]
        /\ \A i \in 1 .. Len(b) + Len(c) :
              bc[i] = IF i <= Len(b) THEN b[i] ELSE c[i - Len(b)]
    BY ConcatElems
  <1> HIDE DEF ab, bc
  <1>3. /\ ab \o c \in Seq(Responses) /\ Len(ab \o c) = Len(ab) + Len(c)
        /\ \A i \in 1 .. Len(ab) + Len(c) :
              (ab \o c)[i] = IF i <= Len(ab) THEN ab[i] ELSE c[i - Len(ab)]
    BY <1>1, ConcatElems
  <1>4. /\ a \o bc \in Seq(Responses) /\ Len(a \o bc) = Len(a) + Len(bc)
        /\ \A i \in 1 .. Len(a) + Len(bc) :
              (a \o bc)[i] = IF i <= Len(a) THEN a[i] ELSE bc[i - Len(a)]
    BY <1>1, ConcatElems
  <1>5. l = ab \o c /\ r = a \o bc
    BY DEF ab, bc
  <1> DEFINE x == Len(a)
             y == Len(b)
             z == Len(c)
  <1>6. /\ l \in Seq(Responses) /\ r \in Seq(Responses) /\ Len(l) = x + y + z /\ Len(r) = x + y + z
        /\ x \in Nat /\ y \in Nat /\ z \in Nat
    BY <1>1, <1>3, <1>4, <1>5
  <1>7. /\ \A i \in 1 .. x + y + z :
              l[i] = IF i <= x + y THEN ab[i] ELSE c[i - (x + y)]
        /\ \A i \in 1 .. x + y + z : r[i] = IF i <= x THEN a[i] ELSE bc[i - x]
        /\ \A i \in 1 .. x + y : ab[i] = IF i <= x THEN a[i] ELSE b[i - x]
        /\ \A i \in 1 .. y + z : bc[i] = IF i <= y THEN b[i] ELSE c[i - y]
    BY <1>1, <1>2, <1>3, <1>4, <1>5
  <1> HIDE DEF l, r, x, y, z
  <1>8. \A i \in 1 .. x + y + z : l[i] = r[i]
    <2> SUFFICES ASSUME NEW i \in 1 .. x + y + z PROVE l[i] = r[i]
      OBVIOUS
    <2>1. CASE i <= x
      BY <1>6, <1>7, <2>1
    <2>2. CASE ~ (i <= x) /\ i <= x + y
      <3>1. i \in 1 .. x + y /\ i - x \in 1 .. y + z /\ i - x <= y
        BY <1>6, <2>2
      <3> QED BY <1>7, <2>2, <3>1
    <2>3. CASE ~ (i <= x + y)
      <3>1. /\ i - x \in 1 .. y + z /\ ~ (i - x <= y) /\ ~ (i <= x)
            /\ i - x - y = i - (x + y)
        BY <1>6, <2>3
      <3> QED BY <1>7, <2>3, <3>1
    <2> QED BY <2>1, <2>2, <2>3
  <1>9. l = r
    BY <1>6, <1>8, SameSeq
  <1> QED BY <1>9 DEF l, r

LEMMA AppendIs ==
  ASSUME NEW a \in Seq(Responses), NEW r \in Responses
  PROVE  Append(a, r) = a \o <<r>> /\ <<r>> \in Seq(Responses) /\ a \o << >> = a /\ << >> \in Seq(Responses)
  OBVIOUS

\* What is written is what comes next of what the session has taken on.
LEMMA Moves ==
  ASSUME NEW a \in Seq(Responses), NEW b \in Seq(Responses), NEW n \in 0 .. Len(b)
  PROVE  /\ (a \o SubSeq(b, 1, n)) \o SubSeq(b, n + 1, Len(b)) = a \o b
         /\ SubSeq(a \o b, 1, Len(a) + n) = a \o SubSeq(b, 1, n)
  <1> DEFINE h == SubSeq(b, 1, n)
             t == SubSeq(b, n + 1, Len(b))
             ab == a \o b
  <1>1. h \in Seq(Responses) /\ t \in Seq(Responses) /\ Len(h) = n /\ h \o t = b
    BY Split
  <1>2. \A i \in 1 .. n : h[i] = b[i]
    OBVIOUS
  <1>3. Len(a) \in Nat /\ Len(b) \in Nat /\ n \in Nat /\ n <= Len(b)
    OBVIOUS
  <1>4. /\ ab \in Seq(Responses) /\ Len(ab) = Len(a) + Len(b)
        /\ \A i \in 1 .. Len(a) + Len(b) :
              ab[i] = IF i <= Len(a) THEN a[i] ELSE b[i - Len(a)]
    BY ConcatElems
  <1> HIDE DEF h, t, ab
  <1>5. (a \o h) \o t = ab
    <2>1. (a \o h) \o t = a \o (h \o t)
      BY <1>1, Assoc
    <2> QED BY <1>1, <2>1 DEF ab
  <1>6. /\ a \o h \in Seq(Responses) /\ Len(a \o h) = Len(a) + n
        /\ \A i \in 1 .. Len(a) + n :
              (a \o h)[i] = IF i <= Len(a) THEN a[i] ELSE h[i - Len(a)]
    BY <1>1, ConcatElems
  <1> DEFINE u == SubSeq(ab, 1, Len(a) + n)
             v == a \o h
  <1>7. /\ u \in Seq(Responses) /\ Len(u) = Len(a) + n
        /\ \A i \in 1 .. Len(a) + n : u[i] = ab[i]
    <2>1. Len(a) + n \in 0 .. Len(ab)
      BY <1>3, <1>4
    <2> HIDE DEF u
    <2> DEFINE k == Len(a) + n
    <2> HIDE DEF k
    <2>2. SubSeq(ab, 1, k) \in Seq(Responses) /\ Len(SubSeq(ab, 1, k)) = k
      BY <1>4, <2>1, Split DEF k
    <2>3. \A i \in 1 .. k : SubSeq(ab, 1, k)[i] = ab[i]
      BY <1>4, <2>1 DEF k
    <2> QED BY <2>2, <2>3 DEF u, k
  <1> HIDE DEF u, v
  <1>8. \A i \in 1 .. Len(a) + n : u[i] = v[i]
    <2> SUFFICES ASSUME NEW i \in 1 .. Len(a) + n PROVE u[i] = v[i]
      OBVIOUS
    <2>1. u[i] = (IF i <= Len(a) THEN a[i] ELSE b[i - Len(a)])
      BY <1>3, <1>4, <1>7
    <2>2. v[i] = (IF i <= Len(a) THEN a[i] ELSE h[i - Len(a)])
      BY <1>6 DEF v
    <2>3. ~ (i <= Len(a)) => i - Len(a) \in 1 .. n
      BY <1>3
    <2> QED BY <1>2, <2>1, <2>2, <2>3
  <1>9. u = v
    <2>1. v \in Seq(Responses) /\ Len(v) = Len(u) /\ Len(v) = Len(a) + n
      BY <1>6, <1>7 DEF v
    <2> QED BY <1>7, <1>8, <2>1, SameSeq
  <1> QED BY <1>5, <1>9 DEF u, v, h, t, ab

----------------------------------------------------------------------------
(* The responses that wait in the queue *)

Increasing(g, n) ==
    \A k \in 1 .. Len(g) : g[k] <= n /\ \A l \in 1 .. k - 1 : g[l] < g[k]

SendTo(t, i) == t.kind = "send" /\ t.sid = i

\* The queue q holds a task for session i for each response of g after the
\* first p, and for no other.
Pending(q, i, g, p) ==
    /\ p \in 0 .. Len(g)
    /\ \A k \in p + 1 .. Len(g) : \E t \in Elems(q) : SendTo(t, i) /\ t.resp = g[k]
    /\ \A t \in Elems(q) : SendTo(t, i) => \E k \in p + 1 .. Len(g) : t.resp = g[k]

LEMMA PendingPush ==
  ASSUME NEW q \in Seq(Task), NEW new \in Seq(Task), NEW i, NEW g, NEW p,
         Pending(q, i, g, p), \A t \in Elems(new) : ~ SendTo(t, i)
  PROVE  Pending(q \o new, i, g, p)
  <1>1. Elems(q \o new) = Elems(q) \cup Elems(new)
    BY ElemsConcat
  <1> QED BY <1>1 DEF Pending

LEMMA PendingGive ==
  ASSUME NEW q \in Seq(Task), NEW t \in Task, NEW i, NEW g \in Seq(Responses), NEW p,
         Pending(q, i, g, p), SendTo(t, i)
  PROVE  Pending(q \o <<t>>, i, Append(g, t.resp), p)
  <1> DEFINE h == Append(g, t.resp)
             n == Len(g)
  <1>1. /\ n \in Nat /\ Len(h) = n + 1 /\ h[n + 1] = t.resp
        /\ \A k \in 1 .. n : h[k] = g[k]
    OBVIOUS
  <1>2. Elems(q \o <<t>>) = Elems(q) \cup {t}
    <2>1. <<t>> \in Seq(Task) /\ Elems(<<t>>) = {t}
      BY DEF Elems
    <2> QED BY <2>1, ElemsConcat
  <1>3. /\ p \in 0 .. n
        /\ \A k \in p + 1 .. n : \E u \in Elems(q) : SendTo(u, i) /\ u.resp = g[k]
        /\ \A u \in Elems(q) : SendTo(u, i) => \E k \in p + 1 .. n : u.resp = g[k]
    BY DEF Pending
  <1> HIDE DEF h, n
  <1>4. \A k \in p + 1 .. n + 1 : k = n + 1 \/ (k \in p + 1 .. n /\ k \in 1 .. n)
    BY <1>1, <1>3
  <1>5. \A k \in p + 1 .. n : k \in p + 1 .. n + 1 /\ k \in 1 .. n
    BY <1>1, <1>3
  <1>6. n + 1 \in p + 1 .. n + 1 /\ p \in 0 .. n + 1
    BY <1>1, <1>3
  <1>7. ASSUME NEW k \in p + 1 .. n + 1
        PROVE  \E u \in Elems(q) \cup {t} : SendTo(u, i) /\ u.resp = h[k]
    BY <1>1, <1>3, <1>4
  <1>8. ASSUME NEW u \in Elems(q) \cup {t}, SendTo(u, i)
        PROVE  \E k \in p + 1 .. n + 1 : u.resp = h[k]
    <2>1. CASE u = t
      BY <1>1, <1>6, <2>1
    <2>2. CASE u \in Elems(q)
      BY <1>1, <1>3, <1>5, <1>8, <2>2
    <2> QED BY <2>1, <2>2
  <1> QED BY <1>1, <1>2, <1>6, <1>7, <1>8 DEF Pending, h

LEMMA PendingDrop ==
  ASSUME NEW q \in Seq(Task), q # << >>, NEW i, NEW g, NEW p,
         Pending(q, i, g, p), ~ SendTo(Head(q), i)
  PROVE  Pending(Tail(q), i, g, p)
  <1>1. Elems(q) = {Head(q)} \cup Elems(Tail(q))
    BY ElemsTail
  <1> QED BY <1>1 DEF Pending

\* The first task for a session is for the response it has to take on next.
LEMMA PendingTake ==
  ASSUME NEW q \in Seq(Task), q # << >>, NEW i, NEW g \in Seq(Responses), NEW p, NEW m,
         Pending(q, i, g, p), SendTo(Head(q), i), Increasing(g, m), SortedSends(q)
  PROVE  /\ p < Len(g) /\ Head(q).resp = g[p + 1]
         /\ Pending(Tail(q), i, g, p + 1)
  <1> DEFINE r == Head(q).resp
             n == Len(g)
  <1>1. /\ Elems(q) = {Head(q)} \cup Elems(Tail(q))
        /\ \A t \in Elems(Tail(q)) : t.kind = "send" => r < t.resp
    BY ElemsTail, SortedTail DEF SendTo
  <1>2. /\ n \in Nat /\ p \in 0 .. n /\ p \in Int
        /\ \A k \in p + 1 .. n : \E t \in Elems(q) : SendTo(t, i) /\ t.resp = g[k]
        /\ \A t \in Elems(q) : SendTo(t, i) => \E k \in p + 1 .. n : t.resp = g[k]
    BY DEF Pending
  <1>3. \A k \in 1 .. n : g[k] \in Int
    <2>1. \A k \in 1 .. n : g[k] \in Responses
      OBVIOUS
    <2>2. Responses \subseteq Int
      BY DEF Responses
    <2> QED BY <2>1, <2>2
  <1>4. \A k \in p + 1 .. n : k \in 1 .. n
    BY <1>2
  <1> HIDE DEF r, n
  <1>5. PICK k \in p + 1 .. n : r = g[k]
    BY <1>1, <1>2 DEF r
  <1>6. p + 1 \in p + 1 .. n /\ p + 1 \in 1 .. n /\ p < n
    BY <1>2, <1>5
  <1>7. k = p + 1
    <2> SUFFICES ASSUME k # p + 1 PROVE FALSE
      OBVIOUS
    <2>1. g[p + 1] < g[k]
      <3>1. p + 1 \in 1 .. k - 1 /\ k \in 1 .. n
        BY <1>2, <1>4
      <3> QED BY <3>1 DEF Increasing, n
    <2>2. PICK t \in Elems(q) : SendTo(t, i) /\ t.resp = g[p + 1]
      BY <1>2, <1>6
    <2>3. CASE t = Head(q)
      BY <1>3, <1>4, <1>5, <1>6, <2>1, <2>2, <2>3 DEF r
    <2>4. CASE t \in Elems(Tail(q))
      <3>1. r < g[p + 1]
        BY <1>1, <2>2, <2>4 DEF SendTo
      <3>2. g[k] \in Int /\ g[p + 1] \in Int
        BY <1>3, <1>4, <1>6
      <3> QED BY <1>5, <2>1, <3>1, <3>2
    <2> QED BY <1>1, <2>2, <2>3, <2>4
  <1>8. r = g[p + 1] /\ r \in Int
    BY <1>3, <1>5, <1>6, <1>7
  <1>9. \A l \in (p + 1) + 1 .. n : l \in p + 1 .. n /\ g[l] \in Int /\ r < g[l]
    <2> SUFFICES ASSUME NEW l \in (p + 1) + 1 .. n
                 PROVE  l \in p + 1 .. n /\ g[l] \in Int /\ r < g[l]
      OBVIOUS
    <2>1. l \in p + 1 .. n /\ l \in 1 .. n /\ p + 1 \in 1 .. l - 1
      BY <1>2
    <2>2. g[p + 1] < g[l]
      BY <2>1 DEF Increasing, n
    <2> QED BY <1>3, <1>8, <2>1, <2>2
  <1>10. ASSUME NEW l \in (p + 1) + 1 .. n
         PROVE  \E t \in Elems(Tail(q)) : SendTo(t, i) /\ t.resp = g[l]
    <2>1. PICK t \in Elems(q) : SendTo(t, i) /\ t.resp = g[l]
      BY <1>2, <1>9
    <2>2. t # Head(q)
      BY <1>8, <1>9, <2>1 DEF r
    <2> QED BY <1>1, <2>1, <2>2
  <1>11. ASSUME NEW t \in Elems(Tail(q)), SendTo(t, i)
         PROVE  \E l \in (p + 1) + 1 .. n : t.resp = g[l]
    <2>1. PICK l \in p + 1 .. n : t.resp = g[l]
      BY <1>1, <1>2, <1>11
    <2>2. r < t.resp
      BY <1>1, <1>11 DEF SendTo
    <2>3. l # p + 1
      BY <1>8, <2>1, <2>2
    <2>4. l \in (p + 1) + 1 .. n
      BY <1>2, <2>3
    <2> QED BY <2>1, <2>4
  <1>12. p + 1 \in 0 .. n
    BY <1>2, <1>6
  <1>13. Pending(Tail(q), i, g, p + 1)
    BY <1>10, <1>11, <1>12 DEF Pending, n
  <1> QED BY <1>6, <1>8, <1>13 DEF r, n

----------------------------------------------------------------------------
(* The invariant *)

\* The queue holds the responses of all sessions in the order given, and
\* tasks for sessions that have been made.
QueueInOrder ==
    /\ SortedSends(tasks)
    /\ \A t \in Elems(tasks) :
        /\ t.sid[2] <= made
        /\ t.kind = "send" => t.resp <= sent

GivenInOrder == \A c \in Conns : Increasing(given[c], sent)

FreshUntilMade ==
    \A c \in Conns :
        c > made => given[c] = << >> /\ got[c] = << >> /\ sess[c].out = << >>

\* What an open session has not taken on yet is in the queue.
TaskForEach ==
    \A c \in live :
        ~ sess[c].shutdown =>
            Pending(tasks, Sid(c), given[c], Len(got[c]) + Len(sess[c].out))

\* A session that has something to write waits, or its connection has failed.
Flushed ==
    \A c \in live : ~ sess[c].wait => sess[c].out = << >> \/ c \in failed

Delivery ==
    QueueInOrder /\ GivenInOrder /\ FreshUntilMade /\ TaskForEach /\ Flushed

LEMMA InitDelivery == Init => Delivery
  <1> SUFFICES ASSUME Init PROVE Delivery
    OBVIOUS
  <1>1. tasks = << >> /\ Elems(tasks) = {} /\ DOMAIN tasks = {} /\ live = {}
    BY DEF Init, Elems
  <1>2. \A c \in Conns : given[c] = << >> /\ got[c] = << >> /\ sess[c].out = << >>
    BY DEF Init, NewSession
  <1>3. \A c \in Conns : 1 .. Len(given[c]) = {}
    BY <1>2
  <1> QED BY <1>1, <1>2, <1>3 DEF Delivery, QueueInOrder, SortedSends, GivenInOrder,
             Increasing, FreshUntilMade, TaskForEach, Flushed

IsShutdown(new) == \A t \in Elems(new) : t.kind = "shutdown" /\ t.sid[2] <= made

\* A step that gives no response and makes no session: it may take the first
\* task from the queue, put shutdown tasks into it and change sessions.
LEMMA DeliveryKept ==
  ASSUME TypeOK, TypeOK', Delivery,
         NEW queue \in Seq(Task), NEW new \in Seq(Task), IsShutdown(new),
         tasks' = queue \o new, SortedSends(queue), Elems(queue) \subseteq Elems(tasks),
         live' \subseteq live, UNCHANGED <<made, given, sent>>, failed \subseteq failed',
         \A d \in live' :
            /\ sess'[d].fd = sess[d].fd
            /\ ~ sess'[d].shutdown =>
                  Pending(queue, Sid(d), given[d], Len(got'[d]) + Len(sess'[d].out))
            /\ ~ sess'[d].wait => sess'[d].out = << >> \/ d \in failed',
         \A d \in Conns : d > made => got'[d] = got[d] /\ sess'[d] = sess[d]
  PROVE  Delivery'
  <1>1. Elems(tasks') = Elems(queue) \cup Elems(new)
    BY ElemsConcat
  <1>2. \A t \in Elems(new) : t.kind # "send"
    BY DEF IsShutdown
  <1>3. SortedSends(tasks')
    <2>1. SortedSends(new)
      BY <1>2 DEF SortedSends, Elems
    <2> QED BY <1>2, <2>1, SortedConcat
  <1>4. \A t \in Elems(tasks') : t.sid[2] <= made' /\ (t.kind = "send" => t.resp <= sent')
    BY <1>1, <1>2 DEF IsShutdown, Delivery, QueueInOrder
  <1>5. QueueInOrder'
    BY <1>3, <1>4 DEF QueueInOrder
  <1>6. GivenInOrder' /\ FreshUntilMade'
    BY DEF Delivery, GivenInOrder, FreshUntilMade
  <1>7. TaskForEach'
    <2> SUFFICES ASSUME NEW c \in live', ~ sess'[c].shutdown
                 PROVE  Pending(tasks', Sid(c)', given'[c], Len(got'[c]) + Len(sess'[c].out))
      BY DEF TaskForEach
    <2>1. c \in Conns /\ sess'[c].fd = sess[c].fd
      BY MadeConn DEF TypeOK
    <2>2. Sid(c)' = Sid(c)
      BY <2>1 DEF Sid
    <2>3. Pending(queue, Sid(c), given[c], Len(got'[c]) + Len(sess'[c].out))
      OBVIOUS
    <2>4. \A t \in Elems(new) : ~ SendTo(t, Sid(c))
      BY <1>2 DEF SendTo
    <2>5. Pending(queue \o new, Sid(c), given[c], Len(got'[c]) + Len(sess'[c].out))
      BY <2>3, <2>4, PendingPush
    <2> QED BY <2>2, <2>5
  <1>8. Flushed'
    BY DEF Flushed
  <1> QED BY <1>5, <1>6, <1>7, <1>8 DEF Delivery

----------------------------------------------------------------------------
(* The mapping *)

AbsState == [c \in Conns |-> IF c > made THEN "none"
                             ELSE IF c \notin live THEN "gone"
                             ELSE IF sess[c].shutdown THEN "closing" ELSE "open"]
AbsTaken == [c \in Conns |-> got[c] \o sess[c].out]

AbsVars == <<AbsState, failed, given, AbsTaken, got>>
AbsStep == UNCHANGED AbsVars \/ R!Next

LEMMA InitMapped == Init => R!Init
  <1> SUFFICES ASSUME Init PROVE R!Init
    OBVIOUS
  <1>1. MaxConns \in Nat /\ made = 0
    BY EventAssumption DEF Init
  <1>2. \A c \in Conns : c > made
    BY <1>1 DEF Conns
  <1>3. \A c \in Conns : got[c] \o sess[c].out = << >>
    BY DEF Init, NewSession
  <1> QED BY <1>2, <1>3 DEF Init, R!Init

\* The step of one session, at both levels.
LEMMA SessionMapped ==
  ASSUME TypeOK, NEW c \in live, NEW b \in Session, NEW w \in Seq(Responses),
         made' = made, sess' = [sess EXCEPT ![c] = b], got' = [got EXCEPT ![c] = w],
         live' = live \/ live' = live \ {c}
  PROVE  /\ AbsTaken' = [AbsTaken EXCEPT ![c] = w \o b.out]
         /\ AbsState' = [AbsState EXCEPT ![c] = IF c \notin live' THEN "gone"
                                 ELSE IF b.shutdown THEN "closing" ELSE "open"]
         /\ AbsTaken[c] = got[c] \o sess[c].out
         /\ AbsState[c] = IF sess[c].shutdown THEN "closing" ELSE "open"
  <1>1. c \in Conns /\ ~ (c > made) /\ made \in Nat
    BY MadeConn, EventAssumption DEF TypeOK
  <1>2. sess \in [Conns -> Session] /\ got \in [Conns -> Seq(Responses)]
    BY DEF TypeOK
  <1>3. AbsTaken' = [AbsTaken EXCEPT ![c] = w \o b.out]
    BY <1>1, <1>2 DEF AbsTaken
  <1>4. AbsState' = [AbsState EXCEPT ![c] = IF c \notin live' THEN "gone"
                              ELSE IF b.shutdown THEN "closing" ELSE "open"]
    BY <1>1, <1>2 DEF AbsState
  <1> QED BY <1>1, <1>3, <1>4 DEF AbsTaken, AbsState

LEMMA Serves ==
  ASSUME NEW c \in Conns, NEW next, NEW n, NEW s,
         \/ next = << >>
         \/ /\ AbsState[c] = "open" /\ Len(AbsTaken[c]) < Len(given[c])
            /\ next = <<given[c][Len(AbsTaken[c]) + 1]>>,
         n \in Len(got[c]) .. Len(AbsTaken[c] \o next),
         s \in R!Becomes(AbsState[c]),
         AbsTaken' = [AbsTaken EXCEPT ![c] = AbsTaken[c] \o next],
         got' = [got EXCEPT ![c] = SubSeq(AbsTaken[c] \o next, 1, n)],
         AbsState' = [AbsState EXCEPT ![c] = s],
         s = "gone" => c \in failed \/ n = Len(AbsTaken[c] \o next),
         UNCHANGED <<failed, given>>
  PROVE  AbsStep
  <1>1. R!Serve(c)
    BY DEF R!Serve, R!Becomes, AbsState, AbsTaken
  <1> QED BY <1>1 DEF AbsStep, R!Next

----------------------------------------------------------------------------
(* Kinds of steps *)

\* What is left of the queue when a step has taken the task it takes, if any.
Rest(queue) ==
    queue \in Seq(Task) /\ SortedSends(queue) /\ Elems(queue) \subseteq Elems(tasks)

\* The open sessions of D find in it what they have not taken on.
Serving(queue, D) ==
    \A d \in D :
        ~ sess[d].shutdown =>
            Pending(queue, Sid(d), given[d], Len(got[d]) + Len(sess[d].out))

LEMMA WholeQueue ==
  ASSUME TypeOK, Delivery
  PROVE  Rest(tasks) /\ Serving(tasks, live)
  BY DEF TypeOK, Delivery, QueueInOrder, TaskForEach, Rest, Serving

LEMMA ShutdownTasks ==
  ASSUME TypeOK, NEW c \in 1 .. made
  PROVE  /\ <<ShutdownTask(c)>> \in Seq(Task) /\ IsShutdown(<<ShutdownTask(c)>>)
         /\ << >> \in Seq(Task) /\ IsShutdown(<< >>)
         /\ <<ShutdownTask(c)>> \o <<ShutdownTask(c)>> \in Seq(Task)
         /\ IsShutdown(<<ShutdownTask(c)>> \o <<ShutdownTask(c)>>)
  <1>1. c \in Conns /\ sess \in [Conns -> Session]
    BY MadeConn DEF TypeOK
  <1>2. ShutdownTask(c) \in Task /\ Sid(c)[2] = c /\ c <= made
    BY <1>1, NewTasks, SidIs DEF TypeOK
  <1> DEFINE t == ShutdownTask(c)
  <1>3. t \in Task /\ t.kind = "shutdown" /\ t.sid[2] <= made
    BY <1>2 DEF ShutdownTask
  <1> HIDE DEF t
  <1>4. /\ <<t>> \in Seq(Task) /\ << >> \in Seq(Task)
        /\ Elems(<<t>>) = {t} /\ Elems(<< >>) = {}
    BY <1>3 DEF Elems
  <1>5. <<t>> \o <<t>> \in Seq(Task) /\ Elems(<<t>> \o <<t>>) = {t}
    BY <1>4, ElemsConcat
  <1> QED BY <1>3, <1>4, <1>5 DEF IsShutdown, t

LEMMA Quiet ==
  ASSUME TypeOK, TypeOK', Delivery,
         NEW queue, NEW new \in Seq(Task), IsShutdown(new), tasks' = queue \o new,
         Rest(queue), Serving(queue, live),
         UNCHANGED <<made, live, sess, given, got, sent>>, failed \subseteq failed'
  PROVE  Delivery' /\ AbsState' = AbsState /\ AbsTaken' = AbsTaken
  <1>1. /\ queue \in Seq(Task) /\ SortedSends(queue) /\ Elems(queue) \subseteq Elems(tasks)
        /\ UNCHANGED <<made, given, sent>> /\ live' \subseteq live
    BY DEF Rest
  <1>2. \A d \in live' :
            /\ sess'[d].fd = sess[d].fd
            /\ ~ sess'[d].shutdown =>
                  Pending(queue, Sid(d), given[d], Len(got'[d]) + Len(sess'[d].out))
            /\ ~ sess'[d].wait => sess'[d].out = << >> \/ d \in failed'
    BY DEF Serving, Delivery, Flushed
  <1>3. \A d \in Conns : d > made => got'[d] = got[d] /\ sess'[d] = sess[d]
    OBVIOUS
  <1>4. Delivery'
    BY <1>1, <1>2, <1>3, DeliveryKept
  <1> QED BY <1>4 DEF AbsState, AbsTaken

\* One session changes, or goes.
LEMMA Worked ==
  ASSUME TypeOK, TypeOK', Delivery,
         NEW c \in live, NEW b \in Session, NEW w \in Seq(Responses),
         NEW queue, NEW new \in Seq(Task), IsShutdown(new), tasks' = queue \o new,
         Rest(queue), Serving(queue, live \ {c}),
         sess' = [sess EXCEPT ![c] = b], b.fd = sess[c].fd,
         got' = [got EXCEPT ![c] = w], live' = live \/ live' = live \ {c},
         c \in live' /\ ~ b.shutdown =>
            Pending(queue, Sid(c), given[c], Len(w) + Len(b.out)),
         c \in live' /\ ~ b.wait => b.out = << >> \/ c \in failed,
         UNCHANGED <<made, given, sent, failed>>
  PROVE  Delivery'
  <1>1. /\ queue \in Seq(Task) /\ SortedSends(queue) /\ Elems(queue) \subseteq Elems(tasks)
        /\ UNCHANGED <<made, given, sent>> /\ live' \subseteq live
        /\ failed \subseteq failed'
    BY DEF Rest
  <1>2. /\ c \in Conns /\ ~ (c > made) /\ live \subseteq Conns
        /\ sess \in [Conns -> Session] /\ got \in [Conns -> Seq(Responses)]
    <2>1. /\ live \subseteq 1 .. made /\ made \in 0 .. MaxConns /\ MaxConns \in Nat
          /\ sess \in [Conns -> Session] /\ got \in [Conns -> Seq(Responses)]
      BY EventAssumption DEF TypeOK
    <2> QED BY <2>1 DEF Conns
  <1>3. ASSUME NEW d \in live'
        PROVE  /\ sess'[d].fd = sess[d].fd
               /\ ~ sess'[d].shutdown =>
                     Pending(queue, Sid(d), given[d], Len(got'[d]) + Len(sess'[d].out))
               /\ ~ sess'[d].wait => sess'[d].out = << >> \/ d \in failed'
    <2>1. CASE d = c
      BY <1>2, <1>3, <2>1
    <2>2. CASE d # c
      <3>1. d \in live \ {c} /\ sess'[d] = sess[d] /\ got'[d] = got[d]
        BY <1>1, <1>2, <1>3, <2>2
      <3> QED BY <3>1 DEF Serving, Delivery, Flushed
    <2> QED BY <2>1, <2>2
  <1>4. \A d \in Conns : d > made => got'[d] = got[d] /\ sess'[d] = sess[d]
    BY <1>2
  <1> QED BY <1>1, <1>3, <1>4, DeliveryKept

NextTaken(c, next) ==
    \/ next = << >>
    \/ /\ ~ sess[c].shutdown /\ Len(got[c]) + Len(sess[c].out) < Len(given[c])
       /\ next = <<given[c][Len(got[c]) + Len(sess[c].out) + 1]>>

\* onWrite of a session that may have taken on a response before.
LEMMA WriteMapped ==
  ASSUME TypeOK, TypeOK', Delivery, NEW c \in live,
         NEW queue, Rest(queue), Serving(queue, live \ {c}),
         NEW s \in Session, s.fd = sess[c].fd, s.shutdown = sess[c].shutdown,
         NEW next \in Seq(Responses), NextTaken(c, next), s.out = sess[c].out \o next,
         ~ s.shutdown => Pending(queue, Sid(c), given[c], Len(got[c]) + Len(s.out)),
         NEW n \in 0 .. Len(s.out), NEW error \in BOOLEAN,
         Write(c, s, queue, n, error)
  PROVE  Delivery' /\ AbsStep
  <1> DEFINE rest == SubSeq(s.out, n + 1, Len(s.out))
             head == SubSeq(s.out, 1, n)
             w == got[c] \o head
             t == Written(s, n, error)
             new == TasksOfWrite(c, s, t)
  <1>1. /\ c \in Conns /\ c \in 1 .. made /\ sess[c] \in Session
        /\ s.out \in Seq(Responses) /\ got[c] \in Seq(Responses)
        /\ sess[c].out \in Seq(Responses)
    BY MadeConn DEF TypeOK, Session
  <1>2. t \in Session /\ head \in Seq(Responses) /\ rest \in Seq(Responses)
    BY <1>1, WrittenType, Split
  <1>3. /\ t.fd = s.fd /\ t.out = rest /\ t.shutdown = (s.shutdown \/ error)
        /\ t.wait = (rest # << >> /\ ~ error)
    BY DEF Written, Session
  <1>4. new \in Seq(Task) /\ IsShutdown(new)
    <2>1. /\ <<ShutdownTask(c)>> \in Seq(Task) /\ IsShutdown(<<ShutdownTask(c)>>)
          /\ << >> \in Seq(Task) /\ IsShutdown(<< >>)
          /\ <<ShutdownTask(c)>> \o <<ShutdownTask(c)>> \in Seq(Task)
          /\ IsShutdown(<<ShutdownTask(c)>> \o <<ShutdownTask(c)>>)
      BY <1>1, ShutdownTasks
    <2> HIDE DEF t
    <2> DEFINE one == <<ShutdownTask(c)>>
    <2>2. new = << >> \o << >> \/ new = << >> \o one \/ new = one \o << >> \/ new = one \o one
      BY DEF TasksOfWrite
    <2>3. << >> \o << >> = << >> /\ << >> \o one = one /\ one \o << >> = one
      OBVIOUS
    <2> HIDE DEF new, one
    <2>4. new = << >> \/ new = one \/ new = one \o one
      BY <2>2, <2>3
    <2> QED BY <2>1, <2>4 DEF one
  <1>5. /\ error => c \in failed
        /\ sess' = [sess EXCEPT ![c] = t] /\ tasks' = queue \o new
        /\ got' = [got EXCEPT ![c] = w]
        /\ UNCHANGED <<made, live, failed, given, sent>>
    BY DEF Write, SubmitTask
  <1>6. /\ w \in Seq(Responses) /\ Len(w) = Len(got[c]) + n
        /\ w \o rest = got[c] \o s.out
        /\ SubSeq(got[c] \o s.out, 1, Len(got[c]) + n) = w
        /\ Len(w) + Len(rest) = Len(got[c]) + Len(s.out)
        /\ Len(got[c] \o s.out) = Len(got[c]) + Len(s.out)
    <2>1. Len(head) = n /\ head \o rest = s.out
      BY <1>1, Split
    <2> HIDE DEF head, rest
    <2>2. w \in Seq(Responses) /\ Len(w) = Len(got[c]) + Len(head)
      BY <1>1, <1>2, ConcatElems
    <2>3. Len(s.out) = Len(head) + Len(rest)
      BY <1>2, <2>1, ConcatElems
    <2>4. Len(got[c] \o s.out) = Len(got[c]) + Len(s.out)
      BY <1>1, ConcatElems
    <2>5. /\ w \o rest = got[c] \o s.out
          /\ SubSeq(got[c] \o s.out, 1, Len(got[c]) + n) = w
      BY <1>1, Moves DEF head, rest
    <2>6. Len(got[c]) \in Nat /\ n \in Nat /\ Len(rest) \in Nat
      BY <1>1, <1>2
    <2> HIDE DEF w
    <2>7. Len(w) = Len(got[c]) + n
      BY <2>1, <2>2
    <2>8. Len(s.out) = n + Len(rest)
      BY <2>1, <2>3
    <2>9. Len(w) + Len(rest) = Len(got[c]) + Len(s.out)
      <3> DEFINE x == Len(got[c])
                 z == Len(rest)
      <3>1. x \in Nat /\ z \in Nat /\ n \in Nat
        BY <2>6
      <3>2. Len(w) = x + n /\ Len(s.out) = n + z
        BY <2>7, <2>8
      <3> HIDE DEF x, z
      <3>3. (x + n) + z = x + (n + z)
        BY <3>1
      <3> QED BY <3>2, <3>3 DEF x, z
    <2> QED BY <2>2, <2>4, <2>5, <2>7, <2>9
  <1> HIDE DEF rest, head, w, t, new
  <1>7. Delivery'
    <2>1. ~ t.shutdown => Pending(queue, Sid(c), given[c], Len(w) + Len(t.out))
      BY <1>3, <1>6
    <2>2. ~ t.wait => t.out = << >> \/ c \in failed
      BY <1>3, <1>5
    <2>3. t.fd = sess[c].fd
      BY <1>3
    <2> QED BY <1>2, <1>4, <1>5, <1>6, <2>1, <2>2, <2>3, Worked
  <1>8. AbsStep
    <2> DEFINE a == IF t.shutdown THEN "closing" ELSE "open"
    <2>1. /\ AbsTaken' = [AbsTaken EXCEPT ![c] = w \o t.out]
          /\ AbsState' = [AbsState EXCEPT ![c] = IF c \notin live' THEN "gone"
                                  ELSE IF t.shutdown THEN "closing" ELSE "open"]
          /\ AbsTaken[c] = got[c] \o sess[c].out
          /\ AbsState[c] = IF sess[c].shutdown THEN "closing" ELSE "open"
      <3>1. made' = made /\ (live' = live \/ live' = live \ {c})
        BY <1>5
      <3>2. sess' = [sess EXCEPT ![c] = t] /\ got' = [got EXCEPT ![c] = w]
        BY <1>5
      <3>3. t \in Session /\ w \in Seq(Responses)
        BY <1>2, <1>6
      <3> QED BY <3>1, <3>2, <3>3, SessionMapped
    <2>2. AbsTaken[c] \o next = got[c] \o s.out
      <3>1. (got[c] \o sess[c].out) \o next = got[c] \o (sess[c].out \o next)
        BY <1>1, Assoc
      <3> QED BY <2>1, <3>1
    <2>3. AbsState' = [AbsState EXCEPT ![c] = a]
      BY <1>5, <2>1
    <2>4. AbsTaken' = [AbsTaken EXCEPT ![c] = AbsTaken[c] \o next]
      BY <1>3, <1>6, <2>1, <2>2
    <2>5. got' = [got EXCEPT ![c] = SubSeq(AbsTaken[c] \o next, 1, Len(got[c]) + n)]
      BY <1>5, <1>6, <2>2
    <2>6. Len(got[c]) + n \in Len(got[c]) .. Len(AbsTaken[c] \o next)
      <3>1. Len(got[c]) \in Nat /\ n \in Nat /\ Len(s.out) \in Nat /\ n <= Len(s.out)
        BY <1>1
      <3>2. Len(AbsTaken[c] \o next) = Len(got[c]) + Len(s.out)
        BY <1>6, <2>2
      <3> DEFINE x == Len(got[c])
                 y == Len(s.out)
      <3>3. x \in Nat /\ y \in Nat /\ n \in Nat /\ n <= y
        BY <3>1
      <3> HIDE DEF x, y
      <3>4. x + n \in x .. x + y
        BY <3>3
      <3> QED BY <3>2, <3>4 DEF x, y
    <2>7. Len(AbsTaken[c]) = Len(got[c]) + Len(sess[c].out)
      BY <1>1, <2>1, ConcatElems
    <2>8. \/ next = << >>
          \/ /\ AbsState[c] = "open" /\ Len(AbsTaken[c]) < Len(given[c])
             /\ next = <<given[c][Len(AbsTaken[c]) + 1]>>
      BY <2>1, <2>7 DEF NextTaken
    <2>9. a \in R!Becomes(AbsState[c]) /\ a # "gone"
      BY <1>3, <2>1 DEF R!Becomes
    <2> HIDE DEF a
    <2> QED BY <1>1, <1>5, <2>3, <2>4, <2>5, <2>6, <2>8, <2>9, Serves
  <1> QED BY <1>7, <1>8

\* A session changes, or goes, and nothing is written.
LEMMA Changed ==
  ASSUME TypeOK, TypeOK', Delivery, NEW c \in live,
         NEW queue, NEW new \in Seq(Task), IsShutdown(new), tasks' = queue \o new,
         Rest(queue), Serving(queue, live \ {c}),
         NEW b \in Session, b.fd = sess[c].fd, sess[c].shutdown => b.shutdown,
         NEW next \in Seq(Responses), NextTaken(c, next), b.out = sess[c].out \o next,
         sess' = [sess EXCEPT ![c] = b], live' = live \/ live' = live \ {c},
         ~ b.shutdown => Pending(queue, Sid(c), given[c], Len(got[c]) + Len(b.out)),
         ~ b.wait => b.out = << >> \/ c \in failed,
         c \notin live' => ~ b.wait,
         UNCHANGED <<made, given, sent, failed, got>>
  PROVE  Delivery' /\ AbsStep
  <1>1. /\ c \in Conns /\ sess[c].out \in Seq(Responses) /\ got[c] \in Seq(Responses)
        /\ b.out \in Seq(Responses) /\ got \in [Conns -> Seq(Responses)]
    BY MadeConn DEF TypeOK, Session
  <1> DEFINE w == got[c]
             a == IF c \notin live' THEN "gone" ELSE IF b.shutdown THEN "closing" ELSE "open"
  <1>2. w \in Seq(Responses) /\ got' = [got EXCEPT ![c] = w]
    BY <1>1
  <1>3. made' = made /\ sess' = [sess EXCEPT ![c] = b]
    OBVIOUS
  <1> HIDE DEF w, a
  <1>4. Delivery'
    <2>1. c \in live' /\ ~ b.shutdown => Pending(queue, Sid(c), given[c], Len(w) + Len(b.out))
      BY DEF w
    <2> QED BY <1>2, <2>1, Worked
  <1>5. /\ AbsTaken' = [AbsTaken EXCEPT ![c] = w \o b.out]
        /\ AbsState' = [AbsState EXCEPT ![c] = a]
        /\ AbsTaken[c] = got[c] \o sess[c].out
        /\ AbsState[c] = IF sess[c].shutdown THEN "closing" ELSE "open"
    BY <1>2, <1>3, SessionMapped DEF a
  <1>6. AbsTaken[c] \o next = w \o b.out
    <2> DEFINE x == sess[c].out
    <2>2. w \in Seq(Responses) /\ x \in Seq(Responses) /\ next \in Seq(Responses)
      BY <1>1, <1>2
    <2> HIDE DEF x
    <2>3. (w \o x) \o next = w \o (x \o next)
      BY <2>2, Assoc
    <2>1. (got[c] \o sess[c].out) \o next = got[c] \o (sess[c].out \o next)
      BY <2>3 DEF w, x
    <2> QED BY <1>5, <2>1 DEF w
  <1>7. w = SubSeq(w \o b.out, 1, Len(w))
    <2>1. 0 \in 0 .. Len(b.out) /\ Len(w) + 0 = Len(w) /\ SubSeq(b.out, 1, 0) = << >>
      BY <1>1, <1>2
    <2>2. SubSeq(w \o b.out, 1, Len(w) + 0) = w \o SubSeq(b.out, 1, 0)
      BY <1>1, <1>2, <2>1, Moves
    <2>3. w \o << >> = w
      BY <1>2
    <2> QED BY <2>1, <2>2, <2>3
  <1>8. got' = [got EXCEPT ![c] = SubSeq(AbsTaken[c] \o next, 1, Len(w))]
    BY <1>2, <1>6, <1>7
  <1>9. Len(AbsTaken[c] \o next) = Len(w) + Len(b.out)
    BY <1>1, <1>2, <1>6, ConcatElems
  <1>10. Len(w) \in Len(got[c]) .. Len(AbsTaken[c] \o next)
    <2>1. Len(w) \in Nat /\ Len(b.out) \in Nat /\ Len(got[c]) = Len(w)
      BY <1>1, <1>2 DEF w
    <2> QED BY <1>9, <2>1
  <1>11. \/ next = << >>
         \/ /\ AbsState[c] = "open" /\ Len(AbsTaken[c]) < Len(given[c])
            /\ next = <<given[c][Len(AbsTaken[c]) + 1]>>
    <2>1. Len(AbsTaken[c]) = Len(got[c]) + Len(sess[c].out)
      BY <1>1, <1>5, ConcatElems
    <2> QED BY <1>5, <2>1 DEF NextTaken
  <1>12. a \in R!Becomes(AbsState[c])
    BY <1>5 DEF R!Becomes, a
  <1>13. a = "gone" => c \in failed \/ Len(w) = Len(AbsTaken[c] \o next)
    <2>1. a = "gone" => b.out = << >> \/ c \in failed
      BY DEF a
    <2>2. b.out = << >> => Len(w) = Len(AbsTaken[c] \o next)
      BY <1>2, <1>9
    <2> QED BY <2>1, <2>2
  <1>14. AbsTaken' = [AbsTaken EXCEPT ![c] = AbsTaken[c] \o next]
    BY <1>5, <1>6
  <1>15. AbsStep
    BY <1>1, <1>5, <1>8, <1>10, <1>11, <1>12, <1>13, <1>14, Serves
  <1> QED BY <1>4, <1>15

----------------------------------------------------------------------------
(* The actions *)

LEMMA GiveMapped ==
  ASSUME TypeOK, TypeOK', Delivery, NEW c \in 1 .. made, SendResponse(c)
  PROVE  Delivery' /\ AbsStep
  <1> DEFINE r == sent + 1
             t == SendTask(c, r)
  <1>1. /\ c \in Conns /\ r \in Responses /\ r \in Nat /\ sent \in Nat /\ c \in Int /\ made \in Int
        /\ sess \in [Conns -> Session] /\ given \in [Conns -> Seq(Responses)]
    <2>1. c \in Conns /\ Conns \subseteq Int
      BY MadeConn DEF Conns
    <2>2. sent \in 0 .. MaxResponses /\ sent < MaxResponses /\ MaxResponses \in Nat
      BY EventAssumption DEF TypeOK, SendResponse
    <2>3. r \in Responses /\ r \in Nat /\ sent \in Nat
      BY <2>2 DEF Responses
    <2>4. made \in Int /\ sess \in [Conns -> Session] /\ given \in [Conns -> Seq(Responses)]
      BY DEF TypeOK
    <2>5. c \in Int
      BY <2>1
    <2> HIDE DEF r
    <2> QED BY <2>1, <2>3, <2>4, <2>5
  <1>2. /\ t \in Task /\ t.kind = "send" /\ t.sid = Sid(c) /\ t.resp = r
        /\ <<t>> \in Seq(Task) /\ Elems(<<t>>) = {t}
    BY <1>1, NewTasks DEF SendTask, Elems
  <1>3. /\ sent' = r /\ given' = [given EXCEPT ![c] = Append(@, r)]
        /\ tasks' = tasks \o <<t>> /\ tasks \in Seq(Task)
        /\ UNCHANGED <<made, live, sess, failed, got>>
    BY DEF SendResponse, SubmitTask, TypeOK
  <1>4. \A d \in Conns : Sid(d) = <<sess[d].fd, d>>
    BY <1>1, SidIs
  <1> HIDE DEF r, t
  <1>5. QueueInOrder'
    <2>1. Elems(tasks') = Elems(tasks) \cup {t}
      BY <1>2, <1>3, ElemsConcat
    <2>2. \A u \in Elems(tasks) : /\ u.sid[2] <= made
                                  /\ u.kind = "send" => u.resp <= sent /\ u.resp \in Int
      <3>1. \A u \in Elems(tasks) : u \in Task
        BY <1>3 DEF Elems
      <3>2. \A u \in Elems(tasks) : u.resp \in Int
        BY <3>1 DEF Task, Responses
      <3> QED BY <3>2 DEF Delivery, QueueInOrder
    <2>3. SortedSends(tasks')
      <3>1. SortedSends(<<t>>) /\ SortedSends(tasks)
        BY DEF SortedSends, Delivery, QueueInOrder
      <3>2. \A u \in Elems(tasks) : u.kind = "send" => u.resp < r
        BY <1>1, <2>2 DEF r
      <3> QED BY <1>2, <1>3, <3>1, <3>2, SortedConcat
    <2>4. t.sid[2] <= made
      BY <1>1, <1>2, <1>4
    <2>5. \A u \in Elems(tasks) : u.kind = "send" => u.resp <= r
      BY <1>1, <2>2 DEF r
    <2>6. r <= r
      BY <1>1
    <2> QED BY <1>2, <1>3, <2>1, <2>2, <2>3, <2>4, <2>5, <2>6 DEF QueueInOrder
  <1>6. GivenInOrder'
    <2> SUFFICES ASSUME NEW d \in Conns PROVE Increasing(given'[d], r)
      BY <1>3 DEF GivenInOrder
    <2>1. given[d] \in Seq(Responses) /\ Increasing(given[d], sent)
      BY <1>1 DEF Delivery, GivenInOrder
    <2>2. \A k \in 1 .. Len(given[d]) : given[d][k] \in Int /\ given[d][k] < r
      <3>1. \A k \in 1 .. Len(given[d]) : given[d][k] \in Responses /\ given[d][k] <= sent
        BY <2>1 DEF Increasing
      <3> QED BY <1>1, <3>1 DEF r, Responses
    <2>3. CASE d # c
      BY <1>1, <1>3, <2>1, <2>2, <2>3 DEF Increasing
    <2>4. CASE d = c
      <3> DEFINE g == given[c]
                 n == Len(g)
                 h == Append(g, r)
      <3>1. /\ n \in Nat /\ Len(h) = n + 1 /\ h[n + 1] = r
            /\ \A k \in 1 .. n : h[k] = g[k]
        BY <1>1, <2>1, <2>4
      <3>2. given'[c] = h
        BY <1>1, <1>3
      <3>3. /\ \A k \in 1 .. n : g[k] \in Int /\ g[k] < r
            /\ \A k \in 1 .. n : \A l \in 1 .. k - 1 : g[l] < g[k]
        BY <2>1, <2>2, <2>4 DEF Increasing
      <3> HIDE DEF g, n, h
      <3>4. ASSUME NEW k \in 1 .. n + 1 PROVE h[k] <= r /\ \A l \in 1 .. k - 1 : h[l] < h[k]
        <4>1. \A l \in 1 .. k - 1 : l \in 1 .. n
          BY <3>1
        <4>2. CASE k = n + 1
          BY <1>1, <3>1, <3>3, <4>1, <4>2
        <4>3. CASE k # n + 1
          <5>1. k \in 1 .. n
            BY <3>1, <4>3
          <5> QED BY <1>1, <3>1, <3>3, <4>1, <5>1
        <4> QED BY <4>2, <4>3
      <3> QED BY <2>4, <3>1, <3>2, <3>4 DEF Increasing
    <2> QED BY <2>3, <2>4
  <1>7. FreshUntilMade'
    <2>1. ~ (c > made)
      BY <1>1
    <2> QED BY <1>1, <1>3, <2>1 DEF Delivery, FreshUntilMade
  <1>8. TaskForEach'
    <2> SUFFICES ASSUME NEW d \in live, ~ sess[d].shutdown
                 PROVE  Pending(tasks \o <<t>>, Sid(d), given'[d], Len(got[d]) + Len(sess[d].out))
      BY <1>3 DEF TaskForEach, Sid
    <2>1. d \in Conns /\ Pending(tasks, Sid(d), given[d], Len(got[d]) + Len(sess[d].out))
      BY MadeConn DEF TypeOK, Delivery, TaskForEach
    <2>2. CASE d = c
      <3>1. SendTo(t, Sid(d)) /\ given[d] \in Seq(Responses)
        BY <1>1, <1>2, <2>2 DEF SendTo
      <3>2. Pending(tasks \o <<t>>, Sid(d), Append(given[d], t.resp),
                    Len(got[d]) + Len(sess[d].out))
        BY <1>2, <1>3, <2>1, <3>1, PendingGive
      <3>3. given'[d] = Append(given[d], t.resp)
        BY <1>1, <1>2, <1>3, <2>2
      <3> QED BY <3>2, <3>3
    <2>3. CASE d # c
      <3>1. Sid(d) # Sid(c)
        BY <1>1, <1>4, <2>1, <2>3
      <3>2. \A u \in Elems(<<t>>) : ~ SendTo(u, Sid(d))
        BY <1>2, <3>1 DEF SendTo
      <3>3. given'[d] = given[d]
        BY <1>1, <1>3, <2>3
      <3>4. Pending(tasks \o <<t>>, Sid(d), given[d], Len(got[d]) + Len(sess[d].out))
        BY <1>2, <1>3, <2>1, <3>2, PendingPush
      <3> QED BY <3>3, <3>4
    <2> QED BY <2>2, <2>3
  <1>9. Flushed'
    BY <1>3 DEF Delivery, Flushed
  <1>10. R!Give(c, r)
    <2>1. ~ (c > made) /\ AbsState[c] # "none"
      BY <1>1 DEF AbsState
    <2>2. AbsState' = AbsState /\ AbsTaken' = AbsTaken
      BY <1>3 DEF AbsState, AbsTaken
    <2> QED BY <1>3, <2>1, <2>2 DEF R!Give, AbsState, AbsTaken
  <1>11. AbsStep
    BY <1>1, <1>10 DEF AbsStep, R!Next
  <1> QED BY <1>5, <1>6, <1>7, <1>8, <1>9, <1>11 DEF Delivery

\* The descriptor of a closed session may be that of the new one: its number
\* is not in any task.
LEMMA OpenMapped ==
  ASSUME TypeOK, TypeOK', Delivery, OnAccept
  PROVE  Delivery' /\ AbsStep
  <1>0. PICK c \in Int : c = made + 1
    BY EventAssumption DEF TypeOK
  <1>1. /\ c \in Conns /\ c \in Int /\ made \in Int /\ made < c
        /\ live \subseteq 1 .. made /\ sess \in [Conns -> Session]
    <2>1. made \in 0 .. MaxConns /\ made < MaxConns /\ MaxConns \in Nat
      BY EventAssumption DEF TypeOK, OnAccept
    <2>2. c \in Conns /\ c \in Int /\ made \in Int /\ made < c
      BY <1>0, <2>1 DEF Conns
    <2> QED BY <2>2 DEF TypeOK
  <1>2. PICK f \in Fds : sess' = [sess EXCEPT ![c] = NewSession(f)]
    BY <1>0 DEF OnAccept
  <1>3. /\ made' = c /\ live' = live \cup {c}
        /\ UNCHANGED <<tasks, failed, given, got, sent>>
    BY <1>0 DEF OnAccept
  <1>4. given[c] = << >> /\ got[c] = << >> /\ sess[c].out = << >>
    BY <1>1 DEF Delivery, FreshUntilMade
  <1>5. \A d \in Conns : d # c => sess'[d] = sess[d]
    BY <1>1, <1>2
  <1>6. /\ sess'[c].out = << >> /\ ~ sess'[c].shutdown /\ sess' \in [Conns -> Session]
        /\ Sid(c)'[2] = SeqId(c)
    BY <1>1, <1>2 DEF NewSession, TypeOK, Sid
  <1>7. QueueInOrder'
    <2>1. \A t \in Elems(tasks) : t.sid[2] \in Nat /\ t.sid[2] <= made
                                  /\ (t.kind = "send" => t.resp <= sent)
      <3>1. \A t \in Elems(tasks) : t \in Task
        BY DEF Elems, TypeOK
      <3> QED BY <3>1 DEF Delivery, QueueInOrder, Task
    <2>2. \A t \in Elems(tasks) : t.sid[2] <= c
      BY <1>1, <2>1
    <2> QED BY <1>3, <2>1, <2>2 DEF Delivery, QueueInOrder
  <1>8. GivenInOrder'
    BY <1>3 DEF Delivery, GivenInOrder
  <1>9. FreshUntilMade'
    <2>1. \A d \in Conns : d > c => d # c /\ d > made
      BY <1>1 DEF Conns
    <2> QED BY <1>3, <1>5, <2>1 DEF Delivery, FreshUntilMade
  <1>10. TaskForEach'
    <2> SUFFICES ASSUME NEW d \in live', ~ sess'[d].shutdown
                 PROVE  Pending(tasks, Sid(d)', given[d], Len(got[d]) + Len(sess'[d].out))
      BY <1>3 DEF TaskForEach
    <2>1. CASE d = c
      <3>1. \A t \in Elems(tasks) : t.sid # Sid(c)'
        BY <1>1, <1>6, SeqIdIs DEF Delivery, QueueInOrder
      <3>2. Len(given[d]) = 0 /\ Len(got[d]) = 0 /\ Len(sess'[d].out) = 0
        BY <1>4, <1>6, <2>1
      <3>3. 0 + 1 .. 0 = {} /\ 0 \in 0 .. 0 /\ 0 + 0 = 0
        OBVIOUS
      <3>4. Pending(tasks, Sid(c)', given[d], 0)
        BY <3>1, <3>2, <3>3 DEF Pending, SendTo
      <3> QED BY <2>1, <3>2, <3>3, <3>4
    <2>2. CASE d # c
      <3>1. d \in live /\ d \in Conns /\ sess'[d] = sess[d]
        BY <1>3, <1>5, <2>2, MadeConn DEF TypeOK
      <3>2. Sid(d)' = Sid(d)
        BY <3>1 DEF Sid
      <3> QED BY <3>1, <3>2 DEF Delivery, TaskForEach
    <2> QED BY <2>1, <2>2
  <1>11. Flushed'
    <2> SUFFICES ASSUME NEW d \in live', ~ sess'[d].wait
                 PROVE  sess'[d].out = << >> \/ d \in failed
      BY <1>3 DEF Flushed
    <2>1. d # c => d \in live /\ sess'[d] = sess[d]
      BY <1>3, <1>5, MadeConn DEF TypeOK
    <2> QED BY <1>6, <2>1 DEF Delivery, Flushed
  <1>12. R!Open(c)
    <2>1. AbsState[c] = "none"
      BY <1>1 DEF AbsState
    <2>2. \A d \in Conns : d # c => (d > made' <=> d > made) /\ (d \in live' <=> d \in live)
      BY <1>0, <1>1, <1>3 DEF Conns
    <2>3. ~ (c > made') /\ c \in live'
      BY <1>1, <1>3
    <2>4. AbsState' = [AbsState EXCEPT ![c] = "open"]
      BY <1>1, <1>5, <1>6, <2>2, <2>3 DEF AbsState
    <2>5. AbsTaken' = AbsTaken
      <3>1. \A d \in Conns : sess'[d].out = sess[d].out
        BY <1>4, <1>5, <1>6
      <3> QED BY <1>3, <3>1 DEF AbsTaken
    <2> QED BY <1>3, <2>1, <2>4, <2>5 DEF R!Open, AbsState, AbsTaken
  <1>13. AbsStep
    BY <1>1, <1>12 DEF AbsStep, R!Next
  <1> QED BY <1>7, <1>8, <1>9, <1>10, <1>11, <1>13 DEF Delivery

LEMMA ReadMapped ==
  ASSUME TypeOK, TypeOK', Delivery, NEW c \in 1 .. made, OnRead(c)
  PROVE  Delivery' /\ AbsStep
  <1>1. CASE ~ sess[c].shutdown /\ SendResponse(c)
    BY <1>1, GiveMapped
  <1>2. CASE ~ (~ sess[c].shutdown /\ SendResponse(c))
    <2> DEFINE b == [sess[c] EXCEPT !.reading = FALSE, !.shutdown = TRUE]
               new == IF sess[c].shutdown THEN << >> ELSE <<ShutdownTask(c)>>
    <2>1. /\ c \in live /\ sess' = [sess EXCEPT ![c].reading = FALSE, ![c].shutdown = TRUE]
          /\ tasks' = tasks \o new
          /\ UNCHANGED <<made, live, failed, given, got, sent>>
      BY <1>2 DEF OnRead, SubmitTask
    <2>2. c \in Conns /\ sess[c] \in Session /\ sess \in [Conns -> Session]
      BY MadeConn DEF TypeOK
    <2>3. /\ sess' = [sess EXCEPT ![c] = b] /\ b \in Session /\ b.fd = sess[c].fd
          /\ b.shutdown /\ b.out = sess[c].out /\ b.wait = sess[c].wait
      BY <2>1, <2>2 DEF Session
    <2>4. new \in Seq(Task) /\ IsShutdown(new)
      BY ShutdownTasks
    <2> HIDE DEF b, new
    <2>5. /\ << >> \in Seq(Responses) /\ NextTaken(c, << >>)
          /\ b.out = sess[c].out \o << >>
      BY <2>2, <2>3 DEF NextTaken, Session
    <2>6. ~ b.wait => b.out = << >> \/ c \in failed
      BY <2>1, <2>3 DEF Delivery, Flushed
    <2>7. Rest(tasks) /\ Serving(tasks, live \ {c})
      BY WholeQueue DEF Serving
    <2> QED BY <2>1, <2>3, <2>4, <2>5, <2>6, <2>7, Changed
  <1> QED BY <1>1, <1>2

LEMMA OnWriteMapped ==
  ASSUME TypeOK, TypeOK', Delivery, NEW c \in 1 .. made, OnWrite(c)
  PROVE  Delivery' /\ AbsStep
  <1>1. c \in live /\ sess[c] \in Session
    BY MadeConn DEF OnWrite
  <1>2. PICK n \in 0 .. Len(sess[c].out), error \in BOOLEAN :
            Write(c, sess[c], tasks, n, error)
    BY DEF OnWrite
  <1>3. Rest(tasks) /\ Serving(tasks, live) /\ Serving(tasks, live \ {c})
    BY WholeQueue DEF Serving
  <1>4. << >> \in Seq(Responses) /\ NextTaken(c, << >>) /\ sess[c].out = sess[c].out \o << >>
    BY <1>1 DEF NextTaken, Session
  <1>5. ~ sess[c].shutdown =>
            Pending(tasks, Sid(c), given[c], Len(got[c]) + Len(sess[c].out))
    BY <1>1, <1>3 DEF Serving
  <1> QED BY <1>1, <1>2, <1>3, <1>4, <1>5, WriteMapped

\* A step that changes no session.
LEMMA QuietMapped ==
  ASSUME TypeOK, TypeOK', Delivery, NEW new \in Seq(Task), IsShutdown(new),
         tasks' = tasks \o new, UNCHANGED <<made, live, sess, failed, given, got, sent>>
  PROVE  Delivery' /\ AbsStep
  <1>1. Delivery' /\ AbsState' = AbsState /\ AbsTaken' = AbsTaken
    BY WholeQueue, Quiet
  <1> QED BY <1>1 DEF AbsStep, AbsVars

LEMMA NothingNew ==
  ASSUME NEW q \in Seq(Task)
  PROVE  q \o << >> = q /\ << >> \in Seq(Task) /\ IsShutdown(<< >>)
  BY DEF IsShutdown, Elems

\* FindSession finds one session at most.
LEMMA FoundIs ==
  ASSUME TypeOK, NEW c \in live, NEW d \in live, Sid(c) = Sid(d)
  PROVE  c = d
  <1>1. c \in Conns /\ d \in Conns /\ sess \in [Conns -> Session]
    BY MadeConn DEF TypeOK
  <1>2. Sid(c)[2] = c /\ Sid(d)[2] = d
    BY <1>1, SidIs
  <1> QED BY <1>2

\* The task that executeTask takes is missed by no session it is not for.
LEMMA Taken ==
  ASSUME TypeOK, Delivery, tasks # << >>, NEW D \in SUBSET live,
         \A d \in D : ~ sess[d].shutdown => ~ SendTo(Head(tasks), Sid(d))
  PROVE  Rest(Tail(tasks)) /\ Serving(Tail(tasks), D)
  <1>1. tasks \in Seq(Task) /\ SortedSends(tasks)
    BY DEF TypeOK, Delivery, QueueInOrder
  <1>2. Rest(Tail(tasks))
    BY <1>1, ElemsTail, SortedTail DEF Rest
  <1>3. ASSUME NEW d \in D, ~ sess[d].shutdown
        PROVE  Pending(Tail(tasks), Sid(d), given[d], Len(got[d]) + Len(sess[d].out))
    <2>1. Pending(tasks, Sid(d), given[d], Len(got[d]) + Len(sess[d].out))
      BY <1>3 DEF Delivery, TaskForEach
    <2> QED BY <1>1, <1>3, <2>1, PendingDrop
  <1> QED BY <1>2, <1>3 DEF Serving

LEMMA SendTaskMapped ==
  ASSUME TypeOK, TypeOK', Delivery, tasks # << >>, NEW c \in live,
         Head(tasks).kind = "send", Sid(c) = Head(tasks).sid, ~ sess[c].shutdown,
         RunSend(c, Head(tasks).resp, Tail(tasks))
  PROVE  Delivery' /\ AbsStep
  <1> DEFINE r == Head(tasks).resp
             queue == Tail(tasks)
             s == [sess[c] EXCEPT !.out = Append(sess[c].out, r)]
             p == Len(got[c]) + Len(sess[c].out)
             g == given[c]
  <1>1. /\ c \in Conns /\ sess[c] \in Session /\ sess[c].out \in Seq(Responses)
        /\ got[c] \in Seq(Responses) /\ g \in Seq(Responses)
        /\ sess \in [Conns -> Session]
    BY MadeConn DEF TypeOK, Session
  <1>2. tasks \in Seq(Task) /\ SortedSends(tasks) /\ queue \in Seq(Task) /\ Head(tasks) \in Task
    BY ElemsTail DEF TypeOK, Delivery, QueueInOrder
  <1>3. r \in Responses
    BY <1>2 DEF Task
  <1>4. /\ s \in Session /\ s.fd = sess[c].fd /\ s.shutdown = sess[c].shutdown
        /\ s.wait = sess[c].wait /\ s.out = sess[c].out \o <<r>>
        /\ <<r>> \in Seq(Responses) /\ Len(s.out) = Len(sess[c].out) + 1
    <2> DEFINE o == Append(sess[c].out, r)
    <2>1. /\ o \in Seq(Responses) /\ Len(o) = Len(sess[c].out) + 1
          /\ o = sess[c].out \o <<r>> /\ <<r>> \in Seq(Responses)
      BY <1>1, <1>3, AppendIs
    <2> HIDE DEF o, r
    <2>2. /\ [sess[c] EXCEPT !.out = o] \in Session
          /\ [sess[c] EXCEPT !.out = o].fd = sess[c].fd
          /\ [sess[c] EXCEPT !.out = o].shutdown = sess[c].shutdown
          /\ [sess[c] EXCEPT !.out = o].wait = sess[c].wait
          /\ [sess[c] EXCEPT !.out = o].out = o
      BY <1>1, <2>1 DEF Session
    <2> QED BY <2>1, <2>2 DEF o
  <1>5. p < Len(g) /\ r = g[p + 1] /\ Pending(queue, Sid(c), g, p + 1)
    <2>1. Pending(tasks, Sid(c), g, p) /\ Increasing(g, sent)
      BY <1>1 DEF Delivery, TaskForEach, GivenInOrder
    <2>2. SendTo(Head(tasks), Sid(c))
      BY DEF SendTo
    <2> HIDE DEF p, g
    <2> QED BY <1>1, <1>2, <2>1, <2>2, PendingTake
  <1>6. Rest(queue) /\ Serving(queue, live \ {c})
    <2>1. \A d \in live \ {c} : ~ SendTo(Head(tasks), Sid(d))
      BY FoundIs DEF SendTo
    <2> QED BY <2>1, Taken
  <1>7. NextTaken(c, <<r>>)
    BY <1>5 DEF NextTaken
  <1>8. Len(got[c]) + Len(s.out) = p + 1
    <2>1. Len(got[c]) \in Nat /\ Len(sess[c].out) \in Nat
      BY <1>1
    <2> DEFINE x == Len(got[c])
               y == Len(sess[c].out)
    <2>2. x \in Nat /\ y \in Nat /\ Len(s.out) = y + 1 /\ p = x + y
      BY <1>4, <2>1
    <2> HIDE DEF x, y, s, p
    <2>3. x + (y + 1) = (x + y) + 1
      BY <2>2
    <2>4. Len(got[c]) = x
      BY DEF x
    <2> QED BY <2>2, <2>3, <2>4
  <1>11. Pending(queue, Sid(c), given[c], Len(got[c]) + Len(s.out))
    BY <1>5, <1>8
  <1>12. IF s.wait
         THEN /\ sess' = [sess EXCEPT ![c] = s]
              /\ SubmitTask(queue, << >>)
              /\ UNCHANGED <<loopVars, made, live, failed, given, got, sent, shuts>>
         ELSE \E n \in 0 .. Len(s.out), error \in BOOLEAN : Write(c, s, queue, n, error)
    BY DEF RunSend
  <1> HIDE DEF r, queue, s, p, g
  <1>9. CASE s.wait
    <2>1. /\ sess' = [sess EXCEPT ![c] = s] /\ tasks' = queue \o << >>
          /\ UNCHANGED <<made, given, sent, failed, got>> /\ live' = live
      BY <1>9, <1>12 DEF SubmitTask
    <2>2. << >> \in Seq(Task) /\ IsShutdown(<< >>)
      BY <1>2, NothingNew
    <2> QED BY <1>4, <1>6, <1>7, <1>9, <1>11, <2>1, <2>2, Changed
  <1>10. CASE ~ s.wait
    <2>1. PICK n \in 0 .. Len(s.out), error \in BOOLEAN : Write(c, s, queue, n, error)
      BY <1>10, <1>12
    <2> QED BY <1>4, <1>6, <1>7, <1>11, <2>1, WriteMapped
  <1> QED BY <1>9, <1>10

LEMMA ShutdownTaskMapped ==
  ASSUME TypeOK, TypeOK', Delivery, tasks # << >>, NEW c \in live,
         Head(tasks).kind # "send", RunShutdown(c, Tail(tasks))
  PROVE  Delivery' /\ AbsStep
  <1> DEFINE b == [sess[c] EXCEPT !.shutdown = TRUE]
             queue == Tail(tasks)
  <1>1. /\ c \in Conns /\ sess[c] \in Session /\ sess[c].out \in Seq(Responses)
        /\ sess \in [Conns -> Session]
    BY MadeConn DEF TypeOK, Session
  <1>2. Rest(queue) /\ Serving(queue, live \ {c})
    BY Taken DEF SendTo
  <1>3. /\ b \in Session /\ b.fd = sess[c].fd /\ b.shutdown
        /\ b.wait = sess[c].wait /\ b.out = sess[c].out
    BY <1>1 DEF Session
  <1>4. /\ sess' = [sess EXCEPT ![c] = b] /\ tasks' = queue \o << >>
        /\ live' = (IF sess[c].wait THEN live ELSE live \ {c})
        /\ UNCHANGED <<made, given, sent, failed, got>>
    BY <1>1 DEF RunShutdown, Released, SubmitTask
  <1>5. << >> \in Seq(Task) /\ IsShutdown(<< >>)
    BY NothingNew DEF TypeOK
  <1> HIDE DEF b, queue
  <1>6. /\ << >> \in Seq(Responses) /\ NextTaken(c, << >>)
        /\ b.out = sess[c].out \o << >>
    BY <1>1, <1>3 DEF NextTaken
  <1>7. /\ ~ b.wait => b.out = << >> \/ c \in failed
        /\ c \notin live' => ~ b.wait
        /\ live' = live \/ live' = live \ {c}
    BY <1>3, <1>4 DEF Delivery, Flushed
  <1> QED BY <1>2, <1>3, <1>4, <1>5, <1>6, <1>7, Changed

LEMMA ExecuteTaskMapped ==
  ASSUME TypeOK, TypeOK', Delivery, ExecuteTask
  PROVE  Delivery' /\ AbsStep
  <1>1. CASE tasks = << >>
    <2>1. tasks \o << >> = tasks /\ << >> \in Seq(Task) /\ IsShutdown(<< >>)
      BY NothingNew DEF TypeOK
    <2>2. UNCHANGED <<tasks, made, live, sess, failed, given, got, sent>>
      BY <1>1 DEF ExecuteTask
    <2> QED BY <2>1, <2>2, QuietMapped
  <1>2. CASE tasks # << >>
    <2> DEFINE h == Head(tasks)
               found == FindSession(h.sid)
               deaf == h.kind = "send" /\ \A c \in found : sess[c].shutdown
    <2>1. RunTask(h, Tail(tasks))
      BY <1>2 DEF ExecuteTask
    <2>2. CASE found = {} \/ deaf
      <3>1. RunNothing(Tail(tasks))
        BY <2>1, <2>2 DEF RunTask
      <3>2. /\ tasks' = Tail(tasks) \o << >>
            /\ UNCHANGED <<made, live, sess, failed, given, got, sent>>
        BY <3>1 DEF RunNothing, SubmitTask
      <3>3. \A d \in live : ~ sess[d].shutdown => ~ SendTo(h, Sid(d))
        BY <2>2 DEF SendTo, FindSession
      <3>4. Rest(Tail(tasks)) /\ Serving(Tail(tasks), live)
        BY <1>2, <3>3, Taken
      <3>5. << >> \in Seq(Task) /\ IsShutdown(<< >>)
        BY NothingNew DEF TypeOK
      <3>6. Delivery' /\ AbsState' = AbsState /\ AbsTaken' = AbsTaken
        BY <3>2, <3>4, <3>5, Quiet
      <3> QED BY <3>2, <3>6 DEF AbsStep, AbsVars
    <2>3. CASE ~ (found = {} \/ deaf)
      <3>1. PICK c \in found : IF h.kind = "send" THEN RunSend(c, h.resp, Tail(tasks))
                               ELSE RunShutdown(c, Tail(tasks))
        BY <2>1, <2>3 DEF RunTask
      <3>2. c \in live /\ Sid(c) = h.sid
        BY DEF FindSession
      <3>3. CASE h.kind = "send"
        <4>1. PICK d \in found : ~ sess[d].shutdown
          BY <2>3, <3>3
        <4>2. d = c
          BY <3>2, FoundIs DEF FindSession
        <4> QED BY <1>2, <3>1, <3>2, <3>3, <4>1, <4>2, SendTaskMapped
      <3>4. CASE h.kind # "send"
        BY <1>2, <3>1, <3>2, <3>4, ShutdownTaskMapped
      <3> QED BY <3>3, <3>4
    <2> QED BY <2>2, <2>3
  <1> QED BY <1>1, <1>2

LEMMA NextMapped ==
  ASSUME TypeOK, TypeOK', Delivery, [Next]_vars
  PROVE  Delivery' /\ AbsStep
  <1>1. CASE Listen \/ Start \/ Shutdown \/ OnReadPipe \/ LoopExit \/ UNCHANGED vars
    <2>1. UNCHANGED <<tasks, made, live, sess, failed, given, got, sent>>
      BY <1>1 DEF Listen, Start, Shutdown, OnReadPipe, LoopExit, vars
    <2>2. tasks \o << >> = tasks /\ << >> \in Seq(Task) /\ IsShutdown(<< >>)
      BY NothingNew DEF TypeOK
    <2> QED BY <2>1, <2>2, QuietMapped
  <1>2. CASE OnAccept
    BY <1>2, OpenMapped
  <1>3. CASE ExecuteTask
    BY <1>3, ExecuteTaskMapped
  <1>4. ASSUME NEW c \in 1 .. made, SendResponse(c) \/ OnRead(c) \/ OnWrite(c)
        PROVE  Delivery' /\ AbsStep
    BY <1>4, GiveMapped, ReadMapped, OnWriteMapped
  <1>5. ASSUME NEW c \in 1 .. made, ShutdownSession(c)
        PROVE  Delivery' /\ AbsStep
    <2>1. /\ tasks' = tasks \o <<ShutdownTask(c)>>
          /\ UNCHANGED <<made, live, sess, failed, given, got, sent>>
      BY <1>5 DEF ShutdownSession, SubmitTask
    <2>2. <<ShutdownTask(c)>> \in Seq(Task) /\ IsShutdown(<<ShutdownTask(c)>>)
      BY ShutdownTasks
    <2> QED BY <2>1, <2>2, QuietMapped
  <1>6. ASSUME NEW c \in 1 .. made, Fail(c)
        PROVE  Delivery' /\ AbsStep
    <2>1. /\ failed' = failed \cup {c}
          /\ UNCHANGED <<tasks, made, live, sess, given, got, sent>>
      BY <1>6 DEF Fail
    <2>2. tasks \o << >> = tasks /\ << >> \in Seq(Task) /\ IsShutdown(<< >>)
      BY NothingNew DEF TypeOK
    <2>3. Rest(tasks) /\ Serving(tasks, live) /\ failed \subseteq failed'
      BY <2>1, WholeQueue
    <2>4. Delivery' /\ AbsState' = AbsState /\ AbsTaken' = AbsTaken
      BY <2>1, <2>2, <2>3, Quiet
    <2>5. R!Fail(c) /\ c \in Conns
      BY <2>1, <2>4, MadeConn DEF R!Fail, AbsState, AbsTaken
    <2> QED BY <2>4, <2>5 DEF AbsStep, R!Next
  <1> QED BY <1>1, <1>2, <1>3, <1>4, <1>5, <1>6 DEF Next

----------------------------------------------------------------------------
(* The theorem *)

\* onAccept, sendResponse, executeTask, onWrite and the release of a session:
\* whatever descriptors are reused, sessions closed and writes left pending,
\* the server does for its clients what Replies says.
THEOREM RepliesImplemented == Spec => ImplementsReplies
  <1>1. TypeOK /\ TypeOK' /\ Delivery /\ [Next]_vars => Delivery' /\ [R!Next]_AbsVars
    BY NextMapped DEF AbsStep
  <1>2. Init => Delivery /\ R!Init
    BY InitDelivery, InitMapped
  <1>3. AbsVars = R!vars
    BY DEF AbsVars, AbsState, AbsTaken, R!vars
  <1> QED BY <1>1, <1>2, <1>3, TypeCorrect, PTL
          DEF Spec, ImplementsReplies, R!Spec, R!vars, AbsVars, AbsState, AbsTaken
============================================================================
