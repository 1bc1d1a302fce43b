---------------------------- MODULE KnetRpcProofs ----------------------------
(* Theorems about KnetRpc, for any services, keys that tell them apart, and  *)
(* bounds.                                                                   *)
EXTENDS KnetRpc, TLAPS

----------------------------------------------------------------------------
(* The invariant *)

\* The calls of one life of a service are numbered without a repetition and
\* with nothing above m_key_sequence_id; RouteMessage's number is 0.
CallsNumbered ==
    /\ \A c \in MadeCalls :
        /\ calls[c].life <= life[calls[c].from]
        /\ Alive(c) => calls[c].num <= seq[calls[c].from]
        /\ calls[c].to # calls[c].from
    /\ \A c, d \in MadeCalls :
        /\ calls[c].from = calls[d].from
        /\ calls[c].life = calls[d].life
        /\ calls[c].num = calls[d].num
        /\ calls[c].num # 0
        => c = d
    /\ \A s \in Services : seq[s] <= Len(calls)

\* A message is about a call that was made, and travels to the service that
\* was called or to the one that made the call.
MessagesTo(s) == {m \in Message : m.call \in MadeCalls /\ ToSID(m) = s}
Addressed ==
    \A s \in Services :
        /\ topic[s] \in Seq(MessagesTo(s))
        /\ recvd[s] \in Seq(MessagesTo(s))
        /\ msgs[s] \in Seq(MessagesTo(s))
        /\ outbox[s] \in Seq({m \in Message : m.call \in MadeCalls})
        /\ held[s] \subseteq MadeCalls

\* A slot, or a timer, is of a call that this life of the service has made;
\* a slot's call has not been answered, and a timer's neither that nor timed out.
SlotsOwn ==
    \A s \in Services :
        /\ slots[s] \cup timers[s] \subseteq MadeCalls
        /\ \A c \in slots[s] \cup timers[s] :
            /\ calls[c].from = s
            /\ calls[c].life = life[s]
            /\ calls[c].num # 0
        /\ \A c \in slots[s] : cbs[c] \in {<< >>, <<"timeout">>}
        /\ \A c \in timers[s] : cbs[c] = << >> /\ calls[c].kind = "timed"

\* What callbacks a call has run, and none before it is made.
CallbacksRun ==
    \A c \in Calls :
        /\ cbs[c] \in {<< >>, <<"success">>, <<"timeout">>, <<"timeout", "success">>}
        /\ c \notin MadeCalls => cbs[c] = << >> /\ given[c] = NoMessage
        /\ given[c] # NoMessage => given[c].call \in MadeCalls

\* TimerManager::Tick has emptied its queue before ProcessMsg starts.
QueueSwapped == \A s \in Services : phase[s] = "msgs" => hdls[s] = << >>

\* Every position of the topic that was read is handled, still queued, or
\* gone with a restart; each restart reads at most one position again, and
\* none if nothing was committed.
ReadOnce ==
    \A s \in Services :
        /\ handled[s] + Len(msgs[s]) + Len(recvd[s]) <= read[s] + life[s]
        /\ read[s] <= Len(topic[s])
        /\ committed[s] <= read[s]
        /\ committed[s] # 0 => read[s] <= committed[s] + 1
        /\ committed[s] # 0 /\ ~ inHand[s] => read[s] <= committed[s]

IInv ==
    /\ TypeOK
    /\ CallsNumbered
    /\ Addressed
    /\ SlotsOwn
    /\ CallbacksRun
    /\ QueueSwapped
    /\ ReadOnce
    /\ NoTimerStranded
    /\ OwnAnswer

----------------------------------------------------------------------------
(* What the operators do *)

\* A new call takes the next place in `calls` and leaves the others alone.
LEMMA NewCallIs ==
  ASSUME TypeOK, NEW s \in Callers, NEW to \in Services,
         NEW n \in 0 .. MaxCalls, NEW kind \in Kinds, NewCall(s, to, n, kind)
  PROVE  /\ Len(calls) + 1 \in Calls
         /\ Len(calls) + 1 \notin MadeCalls
         /\ MadeCalls \subseteq Calls
         /\ MadeCalls' = MadeCalls \cup {Len(calls) + 1}
         /\ Len(calls') = Len(calls) + 1
         /\ calls'[Len(calls) + 1] = [from |-> s, to |-> to, num |-> n,
                                      kind |-> kind, life |-> life[s]]
         /\ \A c \in MadeCalls : calls'[c] = calls[c]
         /\ calls' \in Seq(Call)
         /\ outbox' = [outbox EXCEPT ![s] =
                         Append(@, [call |-> Len(calls) + 1, body |-> "request"])]
         /\ outbox' \in [Services -> Seq(Message)]
         /\ to # s
  <1> DEFINE r == [from |-> s, to |-> to, num |-> n, kind |-> kind, life |-> life[s]]
  <1>1. calls \in Seq(Call) /\ Len(calls) < MaxCalls /\ Len(calls) \in Nat /\ s \in Services
    BY KnetAssumption DEF TypeOK, NewCall
  <1>2. r \in Call
    BY <1>1, KnetAssumption DEF TypeOK, Call
  <1>3. calls' = Append(calls, r)
    BY DEF NewCall
  <1>4. outbox' = [outbox EXCEPT ![s] =
                         Append(@, [call |-> Len(calls) + 1, body |-> "request"])] /\ to # s
    BY DEF NewCall, SendTo
  <1>5. Len(calls) + 1 \in Calls
    BY <1>1, KnetAssumption DEF Calls
  <1>6. outbox' \in [Services -> Seq(Message)]
    <2>1. [call |-> Len(calls) + 1, body |-> "request"] \in Message
      BY <1>5 DEF Message
    <2>2. outbox \in [Services -> Seq(Message)]
      BY DEF TypeOK
    <2> QED BY <1>1, <1>4, <2>1, <2>2
  <1>7. DOMAIN calls = 1 .. Len(calls) /\ DOMAIN calls' = 1 .. Len(calls) + 1
        /\ Len(calls') = Len(calls) + 1 /\ calls' \in Seq(Call)
    BY <1>1, <1>2, <1>3
  <1>8. calls'[Len(calls) + 1] = r /\ \A c \in 1 .. Len(calls) : calls'[c] = calls[c]
    BY <1>1, <1>2, <1>3
  <1>9. MadeCalls = 1 .. Len(calls) /\ MadeCalls' = 1 .. Len(calls) + 1
    BY <1>7 DEF MadeCalls
  <1>10. /\ Len(calls) + 1 \notin MadeCalls /\ MadeCalls \subseteq Calls
         /\ MadeCalls' = MadeCalls \cup {Len(calls) + 1}
    BY <1>1, <1>5, <1>9, KnetAssumption DEF Calls
  <1> HIDE DEF r
  <1>11. /\ calls'[Len(calls) + 1] = r /\ \A c \in MadeCalls : calls'[c] = calls[c]
    BY <1>8, <1>9
  <1> USE DEF r
  <1> QED BY <1>4, <1>5, <1>6, <1>7, <1>10, <1>11

\* The numbers of a service stay within those of its calls.
LEMMA NextKeyIs ==
  ASSUME IInv, NEW s \in Callers, NEW to, NEW kind, NewCall(s, to, NextKey(s), kind)
  PROVE  s \in Services /\ NextKey(s) = seq[s] + 1 /\ NextKey(s) \in 0 .. MaxCalls /\ NextKey(s) # 0
  <1>1. seq \in [Services -> 0 .. MaxCalls] /\ s \in Services /\ calls \in Seq(Call)
    BY KnetAssumption DEF IInv, TypeOK
  <1>2. seq[s] <= Len(calls) /\ Len(calls) < MaxCalls /\ Len(calls) \in Nat
    BY <1>1 DEF IInv, CallsNumbered, NewCall
  <1> QED BY <1>1, <1>2, KnetAssumption DEF NextKey

\* The calls of a service's slots are in Calls.
LEMMA MatchingIs ==
  ASSUME TypeOK, NEW s \in Services, NEW k, NEW c \in Matching(s, k)
  PROVE  c \in slots[s] /\ c \in Calls /\ Key(c) = k
  BY DEF Matching, TypeOK

----------------------------------------------------------------------------
(* TypeOK *)

LEMMA TypeAsyncRPC ==
  ASSUME IInv, NEW s \in Callers, NEW to \in Services, NEW kind \in Kinds,
         AsyncRPC(s, to, kind)
  PROVE  TypeOK'
  <1>1. s \in Services /\ NextKey(s) \in 0 .. MaxCalls /\ TypeOK
    <2>1. NewCall(s, to, NextKey(s), kind)
      BY DEF AsyncRPC
    <2> QED BY <2>1, NextKeyIs DEF IInv
  <1>2. NewCall(s, to, NextKey(s), kind)
    BY DEF AsyncRPC
  <1>3. /\ Len(calls) + 1 \in Calls /\ Len(calls') = Len(calls) + 1
        /\ calls' \in Seq(Call)
        /\ outbox' \in [Services -> Seq(Message)]
    BY <1>1, <1>2, NewCallIs
  <1>4. Len(calls') <= MaxCalls
    <2>1. Len(calls) < MaxCalls /\ Len(calls) \in Nat
      BY <1>1, <1>2 DEF NewCall, TypeOK
    <2> QED BY <1>3, <2>1, KnetAssumption
  <1>5. slots' \in [Services -> SUBSET Calls] /\ timers' \in [Services -> SUBSET Calls]
        /\ armed' \in [Services -> SUBSET Calls]
    <2>1. /\ slots \in [Services -> SUBSET Calls] /\ timers \in [Services -> SUBSET Calls]
          /\ armed \in [Services -> SUBSET Calls]
      BY <1>1 DEF TypeOK
    <2>2. s \in Services /\ Len(calls) + 1 \in Calls
      BY <1>1, <1>3
    <2>3. slots' \in [Services -> SUBSET Calls]
      <3>1. slots' = slots \/ slots' = [slots EXCEPT ![s] = @ \cup {Len(calls) + 1}]
        BY DEF AsyncRPC, AppendRPCContext
      <3> QED BY <2>1, <2>2, <3>1
    <2>4. timers' \in [Services -> SUBSET Calls]
      <3>1. timers' = timers \/ timers' = [timers EXCEPT ![s] = @ \cup {Len(calls) + 1}]
        BY DEF AsyncRPC, AppendRPCContext
      <3> QED BY <2>1, <2>2, <3>1
    <2>5. armed' \in [Services -> SUBSET Calls]
      <3>1. armed' = armed \/ armed' = [armed EXCEPT ![s] = @ \cup {Len(calls) + 1}]
        BY DEF AsyncRPC, AppendRPCContext
      <3> QED BY <2>1, <2>2, <3>1
    <2> QED BY <2>3, <2>4, <2>5
  <1>6. seq' \in [Services -> 0 .. MaxCalls]
    BY <1>1 DEF AsyncRPC, TypeOK
  <1> QED BY <1>1, <1>3, <1>4, <1>5, <1>6
          DEF AsyncRPC, TypeOK, mainVars, brokerVars, outcomeVars

LEMMA TypeRoute ==
  ASSUME IInv, NEW s \in Callers, NEW to \in Services, RouteMessage(s, to)
  PROVE  TypeOK'
  <1>1. 0 \in 0 .. MaxCalls /\ TypeOK /\ "route" \in Kinds
    BY KnetAssumption DEF IInv, RouteMessage
  <1>2. NewCall(s, to, 0, "route")
    BY DEF RouteMessage
  <1>3. /\ Len(calls') = Len(calls) + 1
        /\ calls' \in Seq(Call)
        /\ outbox' \in [Services -> Seq(Message)]
    BY <1>1, <1>2, NewCallIs
  <1>4. Len(calls') <= MaxCalls
    <2>1. Len(calls) < MaxCalls /\ Len(calls) \in Nat
      BY <1>1, <1>2 DEF NewCall, TypeOK
    <2> QED BY <1>3, <2>1, KnetAssumption
  <1> QED BY <1>1, <1>3, <1>4
          DEF RouteMessage, TypeOK, mainVars, brokerVars, outcomeVars, timerVars

LEMMA TypeReceived ==
  ASSUME IInv, NEW s \in Services, RpcReceviedMsg(s)
  PROVE  TypeOK'
  <1> DEFINE m == Head(msgs[s])
  <1>1. TypeOK /\ m \in Message
    <2>1. TypeOK /\ msgs[s] \in Seq(Message) /\ msgs[s] # << >>
      BY DEF IInv, TypeOK, RpcReceviedMsg
    <2> QED BY <2>1
  <1>2. msgs' = [msgs EXCEPT ![s] = Tail(@)] /\ msgs[s] # << >>
    BY DEF RpcReceviedMsg
  <1>3. msgs' \in [Services -> Seq(Message)]
    BY <1>1, <1>2 DEF TypeOK
  <1>4. CASE NormalReceviedMsg(s, m)
    <2>1. held' \in [Services -> SUBSET Calls] /\ handled' \in [Services -> Nat]
      <3>1. held \in [Services -> SUBSET Calls] /\ handled \in [Services -> Nat] /\ m.call \in Calls
        BY <1>1 DEF TypeOK, Message
      <3> QED BY <1>4, <3>1 DEF NormalReceviedMsg
    <2> QED BY <1>1, <1>3, <1>4, <2>1 DEF RpcReceviedMsg, NormalReceviedMsg, TypeOK, brokerVars
  <1>5. ASSUME NEW c \in Matching(s, Key(m.call)), Answered(s, c, m)
        PROVE  TypeOK'
    <2>1. c \in Calls
      BY <1>1, <1>5, MatchingIs
    <2>2. cbs' \in [Calls -> Seq({"success", "timeout"})]
      BY <1>1, <1>5, <2>1 DEF Answered, TypeOK
    <2>3. given' \in [Calls -> Message \cup {NoMessage}]
      BY <1>1, <1>5, <2>1 DEF Answered, TypeOK
    <2>4. slots' \in [Services -> SUBSET Calls] /\ timers' \in [Services -> SUBSET Calls]
          /\ armed' \in [Services -> SUBSET Calls]
      <3>1. /\ slots \in [Services -> SUBSET Calls] /\ timers \in [Services -> SUBSET Calls]
            /\ armed \in [Services -> SUBSET Calls]
        BY <1>1 DEF TypeOK
      <3> QED BY <1>5, <3>1 DEF Answered, CancelTimer
    <2> QED BY <1>1, <1>3, <1>5, <2>2, <2>3, <2>4 DEF RpcReceviedMsg, Answered, TypeOK, brokerVars
  <1> QED BY <1>4, <1>5 DEF RpcReceviedMsg

\* The answered and the routed messages have an addressee.
LEMMA TypeSend ==
  ASSUME IInv, NEW s \in Services, StartSendThread(s)
  PROVE  TypeOK'
  <1> DEFINE m == Head(outbox[s])
  <1>1. TypeOK /\ m \in Message /\ m.call \in MadeCalls /\ outbox[s] \in Seq(Message)
    <2>1. TypeOK /\ outbox[s] \in Seq(Message) /\ outbox[s] # << >>
          /\ outbox[s] \in Seq({x \in Message : x.call \in MadeCalls})
      BY DEF IInv, TypeOK, Addressed, StartSendThread
    <2>2. m \in {x \in Message : x.call \in MadeCalls}
      BY <2>1
    <2> QED BY <2>1, <2>2
  <1>2. ToSID(m) \in Services
    <2>1. calls[m.call] \in Call
      <3>1. calls \in Seq(Call)
        BY <1>1 DEF TypeOK
      <3>2. DOMAIN calls = 1 .. Len(calls)
        BY <3>1
      <3>3. m.call \in 1 .. Len(calls)
        BY <1>1, <3>2 DEF MadeCalls
      <3> HIDE DEF m
      <3> QED BY <3>1, <3>3
    <2> QED BY <2>1, KnetAssumption DEF ToSID, Call
  <1>3. outbox' \in [Services -> Seq(Message)]
    BY <1>1 DEF StartSendThread, TypeOK
  <1>4. topic' \in [Services -> Seq(Message)] /\ lost' \in 0 .. MaxLost /\ dups' \in 0 .. MaxDup
    <2> DEFINE to == ToSID(m)
    <2>0. topic \in [Services -> Seq(Message)] /\ lost \in 0 .. MaxLost /\ dups \in 0 .. MaxDup
      BY <1>1 DEF TypeOK
    <2>1. CASE topic' = [topic EXCEPT ![to] = Append(@, m)] /\ UNCHANGED <<lost, dups>>
      BY <1>1, <1>2, <2>0, <2>1
    <2>2. CASE lost < MaxLost /\ lost' = lost + 1 /\ UNCHANGED <<topic, dups>>
      BY <2>0, <2>2, KnetAssumption
    <2>3. CASE /\ dups < MaxDup /\ dups' = dups + 1 /\ UNCHANGED lost
               /\ topic' = [topic EXCEPT ![to] = @ \o <<m, m>>]
      <3>1. <<m, m>> \in Seq(Message)
        BY <1>1
      <3> QED BY <1>2, <2>0, <2>3, <3>1, KnetAssumption
    <2> QED BY <2>1, <2>2, <2>3 DEF StartSendThread
  <1> QED BY <1>1, <1>3, <1>4 DEF StartSendThread, TypeOK, timerVars, mainVars, outcomeVars

LEMMA TypeStep == IInv /\ [Next]_vars => TypeOK'
  <1> SUFFICES ASSUME IInv, [Next]_vars PROVE TypeOK'
    OBVIOUS
  <1>0. TypeOK
    BY DEF IInv
  <1>1. ASSUME NEW s \in Services, NEW c \in Calls, RPCResponse(s, c) PROVE TypeOK'
    <2>1. answers' \in [Calls -> 0 .. MaxAnswers] /\ outbox' \in [Services -> Seq(Message)]
      <3>1. answers \in [Calls -> 0 .. MaxAnswers] /\ outbox \in [Services -> Seq(Message)]
            /\ [call |-> c, body |-> "answer"] \in Message
        BY <1>0 DEF TypeOK, Message
      <3> QED BY <1>1, <3>1, KnetAssumption DEF RPCResponse, SendTo
    <2> QED BY <1>0, <1>1, <2>1
            DEF RPCResponse, TypeOK, timerVars, mainVars, brokerVars, outcomeVars
  <1>2. ASSUME NEW s \in Services, NEW c \in Calls, CB_Event(s, c) PROVE TypeOK'
    <2>1. armed' \in [Services -> SUBSET Calls] /\ due' \in [Services -> Seq(Calls)]
      BY <1>0, <1>2 DEF CB_Event, TypeOK
    <2> QED BY <1>0, <1>2, <2>1 DEF CB_Event, TypeOK, mainVars, brokerVars, outcomeVars
  <1>3. ASSUME NEW s \in Services, TimerSwap(s) PROVE TypeOK'
    <2>1. /\ hdls' \in [Services -> Seq(Calls)] /\ due' \in [Services -> Seq(Calls)]
          /\ phase' \in [Services -> {"timers", "msgs"}]
      BY <1>0, <1>3 DEF TimerSwap, Swapped, TypeOK
    <2> QED BY <1>0, <1>3, <2>1 DEF TimerSwap, TypeOK, brokerVars, outcomeVars
  <1>4. ASSUME NEW s \in Services, TimerStep(s) PROVE TypeOK'
    <2>1. /\ cbs' \in [Calls -> Seq({"success", "timeout"})]
          /\ timers' \in [Services -> SUBSET Calls]
          /\ hdls' \in [Services -> Seq(Calls)]
      <3>1. /\ cbs \in [Calls -> Seq({"success", "timeout"})]
            /\ timers \in [Services -> SUBSET Calls]
            /\ hdls \in [Services -> Seq(Calls)]
        BY <1>0 DEF TypeOK
      <3>2. Head(hdls[s]) \in Calls /\ hdls[s] # << >>
        BY <1>4, <3>1 DEF TimerStep
      <3>3. hdls' = [hdls EXCEPT ![s] = Tail(@)]
        BY <1>4 DEF TimerStep
      <3>4. \/ /\ cbs' = [cbs EXCEPT ![Head(hdls[s])] = Append(@, "timeout")]
               /\ timers' = [timers EXCEPT ![s] = @ \ {Head(hdls[s])}]
            \/ UNCHANGED <<cbs, timers>>
        BY <1>4 DEF TimerStep
      <3>5. hdls' \in [Services -> Seq(Calls)]
        BY <3>1, <3>2, <3>3
      <3>6. timers' \in [Services -> SUBSET Calls]
        BY <3>1, <3>4
      <3>7. cbs' \in [Calls -> Seq({"success", "timeout"})]
        <4>1. cbs[Head(hdls[s])] \in Seq({"success", "timeout"})
          BY <3>1, <3>2
        <4>2. Append(cbs[Head(hdls[s])], "timeout") \in Seq({"success", "timeout"})
          BY <4>1
        <4> QED BY <3>1, <3>4, <4>2
      <3> QED BY <3>5, <3>6, <3>7
    <2> QED BY <1>0, <1>4, <2>1 DEF TimerStep, TypeOK, mainVars, brokerVars
  <1>5. ASSUME NEW s \in Services, RpcSwap(s) PROVE TypeOK'
    <2>1. /\ msgs' \in [Services -> Seq(Message)] /\ recvd' \in [Services -> Seq(Message)]
          /\ phase' \in [Services -> {"timers", "msgs"}]
      BY <1>0, <1>5 DEF RpcSwap, TypeOK
    <2> QED BY <1>0, <1>5, <2>1 DEF RpcSwap, TypeOK, timerVars, brokerVars, outcomeVars
  <1>6. ASSUME NEW s \in Services, Consume(s) PROVE TypeOK'
    <2>1. /\ read' \in [Services -> Nat] /\ recvd' \in [Services -> Seq(Message)]
          /\ inHand' \in [Services -> BOOLEAN]
      <3>1. /\ read \in [Services -> Nat] /\ recvd \in [Services -> Seq(Message)]
            /\ inHand \in [Services -> BOOLEAN] /\ topic \in [Services -> Seq(Message)]
        BY <1>0 DEF TypeOK
      <3>2. /\ read' = [read EXCEPT ![s] = @ + 1] /\ inHand' = [inHand EXCEPT ![s] = TRUE]
            /\ recvd' = [recvd EXCEPT ![s] = Append(@, topic[s][read[s] + 1])]
            /\ read[s] < Len(topic[s])
        BY <1>6 DEF Consume
      <3>3. topic[s][read[s] + 1] \in Message
        BY <3>1, <3>2
      <3>4. recvd' \in [Services -> Seq(Message)]
        BY <3>1, <3>2, <3>3
      <3>5. inHand' \in [Services -> BOOLEAN]
        BY <3>1, <3>2
      <3>6. read' \in [Services -> Nat]
        BY <3>1, <3>2
      <3> QED BY <3>4, <3>5, <3>6
    <2> QED BY <1>0, <1>6, <2>1 DEF Consume, TypeOK, timerVars, mainVars, outcomeVars
  <1>7. ASSUME NEW s \in Services, CommitSync(s) PROVE TypeOK'
    <2>1. committed' \in [Services -> Nat] /\ inHand' \in [Services -> BOOLEAN]
      BY <1>0, <1>7 DEF CommitSync, TypeOK
    <2> QED BY <1>0, <1>7, <2>1 DEF CommitSync, TypeOK, timerVars, mainVars, outcomeVars
  <1>8. ASSUME NEW s \in Services, Restart(s) PROVE TypeOK'
    <2>1. /\ seq' \in [Services -> 0 .. MaxCalls] /\ life' \in [Services -> 0 .. MaxRestarts]
          /\ read' \in [Services -> Nat] /\ phase' \in [Services -> {"timers", "msgs"}]
          /\ inHand' \in [Services -> BOOLEAN]
      <3>1. /\ seq \in [Services -> 0 .. MaxCalls] /\ life \in [Services -> 0 .. MaxRestarts]
            /\ read \in [Services -> Nat] /\ committed \in [Services -> Nat]
            /\ phase \in [Services -> {"timers", "msgs"}] /\ inHand \in [Services -> BOOLEAN]
            /\ topic \in [Services -> Seq(Message)]
        BY <1>0 DEF TypeOK
      <3>2. StartPosition(s) \in Nat
        BY <3>1 DEF StartPosition
      <3> QED BY <1>8, <3>1, <3>2, KnetAssumption DEF Restart
    <2>2. /\ slots' \in [Services -> SUBSET Calls] /\ timers' \in [Services -> SUBSET Calls]
          /\ armed' \in [Services -> SUBSET Calls] /\ held' \in [Services -> SUBSET Calls]
      BY <1>0, <1>8 DEF Restart, StartSlots, TypeOK
    <2>3. /\ due' \in [Services -> Seq(Calls)] /\ hdls' \in [Services -> Seq(Calls)]
          /\ recvd' \in [Services -> Seq(Message)] /\ msgs' \in [Services -> Seq(Message)]
          /\ outbox' \in [Services -> Seq(Message)]
      BY <1>0, <1>8 DEF Restart, TypeOK
    <2> QED BY <1>0, <1>8, <2>1, <2>2, <2>3 DEF Restart, TypeOK, outcomeVars
  <1>9. CASE UNCHANGED vars
    BY <1>0, <1>9 DEF vars, TypeOK
  <1> QED BY <1>1, <1>2, <1>3, <1>4, <1>5, <1>6, <1>7, <1>8, <1>9, KnetAssumption,
             TypeAsyncRPC, TypeRoute, TypeReceived, TypeSend DEF Next, Tick

----------------------------------------------------------------------------
(* CallsNumbered *)

\* The fields of a call.
LEMMA CallIs ==
  ASSUME TypeOK, NEW c \in MadeCalls
  PROVE  /\ c \in Calls
         /\ calls[c] \in Call
         /\ calls[c].from \in Services
         /\ calls[c].to \in Services
         /\ calls[c].num \in 0 .. MaxCalls
         /\ calls[c].life \in Nat
         /\ calls[c].kind \in Kinds
  <1>1. calls \in Seq(Call) /\ Len(calls) <= MaxCalls
    BY DEF TypeOK
  <1>2. DOMAIN calls = 1 .. Len(calls) /\ Len(calls) \in Nat
    BY <1>1
  <1>3. c \in 1 .. Len(calls)
    BY <1>2 DEF MadeCalls
  <1>4. calls[c] \in Call
    BY <1>1, <1>3
  <1>5. c \in Calls
    BY <1>1, <1>2, <1>3, KnetAssumption DEF Calls
  <1>6. MaxRestarts \in Nat /\ Callers \subseteq Services
    BY KnetAssumption
  <1> QED BY <1>4, <1>5, <1>6 DEF Call

\* Only a new call and a restart touch the calls and the numbering.
LEMMA CallsStable ==
  ASSUME [Next]_vars
  PROVE  \/ \E s \in Callers, to \in Services, kind \in Kinds : AsyncRPC(s, to, kind)
         \/ \E s \in Callers, to \in Services : RouteMessage(s, to)
         \/ \E s \in Services : Restart(s)
         \/ UNCHANGED <<calls, life, seq>>
  <1>1. ASSUME NEW s \in Services, NEW c \in Calls, RPCResponse(s, c) \/ CB_Event(s, c)
        PROVE  UNCHANGED <<calls, life, seq>>
    BY <1>1 DEF RPCResponse, CB_Event
  <1>2. ASSUME NEW s \in Services, Tick(s)
        PROVE  UNCHANGED <<calls, life, seq>>
    BY <1>2 DEF Tick, TimerSwap, TimerStep, RpcSwap, RpcReceviedMsg
  <1>3. ASSUME NEW s \in Services, StartSendThread(s) \/ Consume(s) \/ CommitSync(s)
        PROVE  UNCHANGED <<calls, life, seq>>
    BY <1>3 DEF StartSendThread, Consume, CommitSync
  <1>4. CASE UNCHANGED vars
    BY <1>4 DEF vars
  <1> QED BY <1>1, <1>2, <1>3, <1>4 DEF Next

\* A new call with the next number, or with the number 0, keeps the numbering.
LEMMA NumberedNewCall ==
  ASSUME TypeOK, CallsNumbered, NEW s \in Callers, NEW to \in Services,
         NEW n \in 0 .. MaxCalls, NEW kind \in Kinds, NewCall(s, to, n, kind),
         UNCHANGED life,
         \/ n = seq[s] + 1 /\ seq' = [seq EXCEPT ![s] = n]
         \/ n = 0 /\ UNCHANGED seq
  PROVE  CallsNumbered'
  <1> DEFINE k == Len(calls) + 1
  <1>1. /\ k \notin MadeCalls /\ k \in Nat /\ Len(calls) \in Nat
        /\ MadeCalls' = MadeCalls \cup {k}
        /\ Len(calls') = k
        /\ calls'[k] = [from |-> s, to |-> to, num |-> n, kind |-> kind, life |-> life[s]]
        /\ \A c \in MadeCalls : calls'[c] = calls[c]
        /\ to # s
    <2>1. Len(calls) \in Nat
      BY DEF TypeOK
    <2> QED BY <2>1, NewCallIs
  <1>2. /\ s \in Services /\ seq \in [Services -> 0 .. MaxCalls] /\ MaxCalls \in Nat
        /\ life \in [Services -> 0 .. MaxRestarts] /\ MaxRestarts \in Nat
    BY KnetAssumption DEF TypeOK
  <1>3. \A t \in Services : seq'[t] >= seq[t] /\ seq'[t] \in Nat /\ seq'[s] >= n
    BY <1>2
  <1> HIDE DEF k
  <1>4. ASSUME NEW c \in MadeCalls'
        PROVE  /\ calls'[c].life <= life'[calls'[c].from]
               /\ Alive(c)' => calls'[c].num <= seq'[calls'[c].from]
               /\ calls'[c].to # calls'[c].from
    <2>1. CASE c = k
      BY <1>1, <1>2, <1>3, <2>1
    <2>2. CASE c \in MadeCalls
      <3>1. /\ calls[c].from \in Services /\ calls[c].num \in Nat /\ calls'[c] = calls[c]
        BY <1>1, <1>2, <2>2, CallIs
      <3>2. /\ calls[c].life <= life[calls[c].from]
            /\ Alive(c) => calls[c].num <= seq[calls[c].from]
            /\ calls[c].to # calls[c].from
        BY <2>2 DEF CallsNumbered
      <3>3. Alive(c)' => Alive(c)
        BY <3>1 DEF Alive
      <3>4. seq[calls[c].from] \in Nat
        BY <1>2, <3>1
      <3> QED BY <1>3, <3>1, <3>2, <3>3, <3>4
    <2> QED BY <1>1, <2>1, <2>2
  <1>5. ASSUME NEW d \in MadeCalls, calls[d].from = s, calls[d].life = life[s],
               calls[d].num = n, n # 0
        PROVE  FALSE
    <2>1. calls[d].num <= seq[s]
      BY <1>5 DEF CallsNumbered, Alive
    <2> QED BY <1>2, <1>5, <2>1
  <1>6. ASSUME NEW c \in MadeCalls', NEW d \in MadeCalls',
               calls'[c].from = calls'[d].from, calls'[c].life = calls'[d].life,
               calls'[c].num = calls'[d].num, calls'[c].num # 0
        PROVE  c = d
    <2>1. CASE c = k /\ d = k
      BY <2>1
    <2>2. CASE c = k /\ d \in MadeCalls
      BY <1>1, <1>5, <1>6, <2>2
    <2>3. CASE d = k /\ c \in MadeCalls
      BY <1>1, <1>5, <1>6, <2>3
    <2>4. CASE c \in MadeCalls /\ d \in MadeCalls
      BY <1>1, <1>6, <2>4 DEF CallsNumbered
    <2> QED BY <1>1, <2>1, <2>2, <2>3, <2>4
  <1>7. \A t \in Services : seq'[t] <= Len(calls')
    <2> TAKE t \in Services
    <2>1. seq[t] <= Len(calls) /\ seq[t] \in Nat /\ seq[s] <= Len(calls) /\ seq[s] \in Nat
      BY <1>2 DEF CallsNumbered
    <2>2. seq'[t] <= seq[t] \/ seq'[t] = seq[s] + 1
      BY <1>2
    <2> QED BY <1>1, <1>3, <2>1, <2>2 DEF k
  <1> QED BY <1>4, <1>6, <1>7 DEF CallsNumbered

LEMMA NumberedStep == IInv /\ [Next]_vars => CallsNumbered'
  <1> SUFFICES ASSUME IInv, [Next]_vars PROVE CallsNumbered'
    OBVIOUS
  <1>0. TypeOK /\ CallsNumbered
    BY DEF IInv
  <1>1. ASSUME NEW s \in Callers, NEW to \in Services, NEW kind \in Kinds, AsyncRPC(s, to, kind)
        PROVE  CallsNumbered'
    <2>1. NewCall(s, to, NextKey(s), kind) /\ seq' = [seq EXCEPT ![s] = NextKey(s)]
          /\ UNCHANGED life
      BY <1>1 DEF AsyncRPC
    <2>2. NextKey(s) = seq[s] + 1 /\ NextKey(s) \in 0 .. MaxCalls
      BY <2>1, NextKeyIs
    <2> QED BY <1>0, <2>1, <2>2, NumberedNewCall
  <1>2. ASSUME NEW s \in Callers, NEW to \in Services, RouteMessage(s, to)
        PROVE  CallsNumbered'
    <2>1. NewCall(s, to, 0, "route") /\ UNCHANGED <<seq, life>> /\ "route" \in Kinds
          /\ 0 \in 0 .. MaxCalls
      BY <1>2, KnetAssumption DEF RouteMessage
    <2> QED BY <1>0, <2>1, NumberedNewCall
  <1>3. ASSUME NEW s \in Services, Restart(s)
        PROVE  CallsNumbered'
    <2>1. /\ UNCHANGED calls /\ life' = [life EXCEPT ![s] = @ + 1] /\ seq' = [seq EXCEPT ![s] = 0]
          /\ life \in [Services -> 0 .. MaxRestarts] /\ seq \in [Services -> 0 .. MaxCalls]
          /\ Len(calls) \in Nat
      BY <1>0, <1>3 DEF Restart, TypeOK
    <2>2. UNCHANGED MadeCalls
      BY <2>1 DEF MadeCalls
    <2>3. ASSUME NEW c \in MadeCalls
          PROVE  /\ calls[c].life <= life'[calls[c].from]
                 /\ Alive(c)' => calls[c].num <= seq'[calls[c].from]
      <3>1. /\ calls[c].life <= life[calls[c].from]
            /\ Alive(c) => calls[c].num <= seq[calls[c].from]
        BY <1>0 DEF CallsNumbered
      <3>2. calls[c].from \in Services /\ calls[c].life \in Nat
        BY <1>0, CallIs
      <3>3. CASE calls[c].from = s
        <4>1. life'[s] = life[s] + 1 /\ life[s] \in Nat
          BY <2>1
        <4>2. ~ Alive(c)'
          BY <2>1, <3>1, <3>2, <3>3, <4>1 DEF Alive
        <4> QED BY <3>1, <3>2, <3>3, <4>1, <4>2
      <3>4. CASE calls[c].from # s
        <4>1. life'[calls[c].from] = life[calls[c].from] /\ seq'[calls[c].from] = seq[calls[c].from]
          BY <2>1, <3>2, <3>4
        <4> QED BY <2>1, <3>1, <4>1 DEF Alive
      <3> QED BY <3>3, <3>4
    <2>4. \A t \in Services : seq'[t] <= Len(calls)
      BY <1>0, <2>1 DEF CallsNumbered
    <2> QED BY <1>0, <2>1, <2>2, <2>3, <2>4 DEF CallsNumbered
  <1>4. CASE UNCHANGED <<calls, life, seq>>
    BY <1>0, <1>4 DEF CallsNumbered, MadeCalls, Alive
  <1> QED BY <1>1, <1>2, <1>3, <1>4, CallsStable

----------------------------------------------------------------------------
(* Addressed *)

Known == {m \in Message : m.call \in MadeCalls}

\* No step forgets a call, or changes what was recorded of it.
CallsKept ==
    /\ MadeCalls \subseteq MadeCalls'
    /\ \A c \in MadeCalls : calls'[c] = calls[c]

LEMMA CallsKeptStep == IInv /\ [Next]_vars => CallsKept
  <1> SUFFICES ASSUME IInv, [Next]_vars PROVE CallsKept
    OBVIOUS
  <1>0. TypeOK
    BY DEF IInv
  <1>1. ASSUME NEW s \in Callers, NEW to \in Services, NEW kind \in Kinds, AsyncRPC(s, to, kind)
        PROVE  CallsKept
    <2>1. NewCall(s, to, NextKey(s), kind) /\ NextKey(s) \in 0 .. MaxCalls
      BY <1>1, NextKeyIs DEF AsyncRPC
    <2> QED BY <1>0, <2>1, NewCallIs DEF CallsKept
  <1>2. ASSUME NEW s \in Callers, NEW to \in Services, RouteMessage(s, to)
        PROVE  CallsKept
    <2>1. NewCall(s, to, 0, "route") /\ "route" \in Kinds /\ 0 \in 0 .. MaxCalls
      BY <1>2, KnetAssumption DEF RouteMessage
    <2> QED BY <1>0, <2>1, NewCallIs DEF CallsKept
  <1>3. ASSUME NEW s \in Services, Restart(s)
        PROVE  CallsKept
    BY <1>3 DEF Restart, CallsKept, MadeCalls
  <1>4. CASE UNCHANGED <<calls, life, seq>>
    BY <1>4 DEF CallsKept, MadeCalls
  <1> QED BY <1>1, <1>2, <1>3, <1>4, CallsStable

\* So a message keeps its addressee.
LEMMA StaysAddressed ==
  ASSUME CallsKept, NEW s \in Services
  PROVE  MessagesTo(s) \subseteq MessagesTo(s)' /\ Known \subseteq Known'
  BY DEF CallsKept, MessagesTo, Known, ToSID

LEMMA SeqOfMore ==
  ASSUME NEW A, NEW B, A \subseteq B, NEW q \in Seq(A)
  PROVE  q \in Seq(B)
  OBVIOUS

LEMMA SeqOfAppend ==
  ASSUME NEW A, NEW q \in Seq(A), NEW x \in A
  PROVE  Append(q, x) \in Seq(A) /\ q \o <<x, x>> \in Seq(A)
  OBVIOUS

\* What is in a service's topic and its queues stays addressed to it.
LEMMA AddressedKept ==
  ASSUME Addressed, CallsKept, NEW s \in Services
  PROVE  /\ topic[s] \in Seq(MessagesTo(s)')
         /\ recvd[s] \in Seq(MessagesTo(s)')
         /\ msgs[s] \in Seq(MessagesTo(s)')
         /\ outbox[s] \in Seq(Known')
         /\ held[s] \subseteq MadeCalls'
  <1>1. /\ topic[s] \in Seq(MessagesTo(s)) /\ recvd[s] \in Seq(MessagesTo(s))
        /\ msgs[s] \in Seq(MessagesTo(s)) /\ outbox[s] \in Seq(Known)
        /\ held[s] \subseteq MadeCalls
    BY DEF Addressed, Known
  <1>2. MessagesTo(s) \subseteq MessagesTo(s)' /\ Known \subseteq Known'
    BY StaysAddressed
  <1>3. held[s] \subseteq MadeCalls'
    BY <1>1 DEF CallsKept
  <1> QED BY <1>1, <1>2, <1>3, SeqOfMore

LEMMA AddressedStep == IInv /\ [Next]_vars => Addressed'
  <1> SUFFICES ASSUME IInv, [Next]_vars, NEW t \in Services
               PROVE  (/\ topic[t] \in Seq(MessagesTo(t))
                       /\ recvd[t] \in Seq(MessagesTo(t))
                       /\ msgs[t] \in Seq(MessagesTo(t))
                       /\ outbox[t] \in Seq(Known)
                       /\ held[t] \subseteq MadeCalls)'
    BY DEF Addressed, Known
  <1> DEFINE Goal == (/\ topic[t] \in Seq(MessagesTo(t))
                       /\ recvd[t] \in Seq(MessagesTo(t))
                       /\ msgs[t] \in Seq(MessagesTo(t))
                       /\ outbox[t] \in Seq(Known)
                       /\ held[t] \subseteq MadeCalls)'
  <1>0. TypeOK /\ Addressed /\ CallsKept
    BY CallsKeptStep DEF IInv
  <1>k. /\ topic[t] \in Seq(MessagesTo(t)')
        /\ recvd[t] \in Seq(MessagesTo(t)')
        /\ msgs[t] \in Seq(MessagesTo(t)')
        /\ outbox[t] \in Seq(Known')
        /\ held[t] \subseteq MadeCalls'
    BY <1>0, AddressedKept
  <1>a. ASSUME NEW s \in Services, NEW m \in Known', outbox' = [outbox EXCEPT ![s] = Append(@, m)],
               UNCHANGED <<topic, recvd, msgs, held>>
        PROVE  Goal
    <2>1. outbox'[t] = outbox[t] \/ outbox'[t] = Append(outbox[t], m)
      BY <1>0, <1>a DEF TypeOK
    <2> QED BY <1>k, <1>a, <2>1
  <1>1. ASSUME NEW s \in Callers, NEW to \in Services, NEW kind \in Kinds, AsyncRPC(s, to, kind)
        PROVE  Goal
    <2>1. NewCall(s, to, NextKey(s), kind) /\ NextKey(s) \in 0 .. MaxCalls
      BY <1>1, NextKeyIs DEF AsyncRPC
    <2>2. [call |-> Len(calls) + 1, body |-> "request"] \in Known'
      <3>1. Len(calls) + 1 \in MadeCalls' /\ Len(calls) + 1 \in Calls
        BY <1>0, <2>1, NewCallIs
      <3> QED BY <3>1 DEF Known, Message, Calls
    <2>3. outbox' = [outbox EXCEPT ![s] = Append(@, [call |-> Len(calls) + 1, body |-> "request"])]
      BY <2>1 DEF NewCall, SendTo
    <2>4. UNCHANGED <<topic, recvd, msgs, held>> /\ s \in Services
      BY <1>1, KnetAssumption DEF AsyncRPC, mainVars, brokerVars
    <2> QED BY <1>a, <2>2, <2>3, <2>4
  <1>2. ASSUME NEW s \in Callers, NEW to \in Services, RouteMessage(s, to)
        PROVE  Goal
    <2>1. NewCall(s, to, 0, "route") /\ "route" \in Kinds /\ 0 \in 0 .. MaxCalls
      BY <1>2, KnetAssumption DEF RouteMessage
    <2>2. [call |-> Len(calls) + 1, body |-> "request"] \in Known'
      <3>1. Len(calls) + 1 \in MadeCalls' /\ Len(calls) + 1 \in Calls
        BY <1>0, <2>1, NewCallIs
      <3> QED BY <3>1 DEF Known, Message, Calls
    <2>3. outbox' = [outbox EXCEPT ![s] = Append(@, [call |-> Len(calls) + 1, body |-> "request"])]
      BY <2>1 DEF NewCall, SendTo
    <2>4. UNCHANGED <<topic, recvd, msgs, held>> /\ s \in Services
      BY <1>2, KnetAssumption DEF RouteMessage, mainVars, brokerVars
    <2> QED BY <1>a, <2>2, <2>3, <2>4
  <1>3. ASSUME NEW s \in Services, NEW c \in Calls, RPCResponse(s, c)
        PROVE  Goal
    <2>1. [call |-> c, body |-> "answer"] \in Known'
      <3>1. c \in MadeCalls'
        BY <1>0, <1>3 DEF RPCResponse, Addressed, CallsKept
      <3> QED BY <3>1 DEF Known, Message, Calls
    <2>2. outbox' = [outbox EXCEPT ![s] = Append(@, [call |-> c, body |-> "answer"])]
          /\ UNCHANGED <<topic, recvd, msgs, held>>
      BY <1>3 DEF RPCResponse, SendTo, mainVars, brokerVars
    <2> QED BY <1>a, <2>1, <2>2
  <1>4. ASSUME NEW s \in Services, RpcSwap(s)
        PROVE  Goal
    <2>1. /\ msgs' = [msgs EXCEPT ![s] = recvd[s]] /\ recvd' = [recvd EXCEPT ![s] = << >>]
          /\ UNCHANGED <<topic, outbox, held>>
      BY <1>4 DEF RpcSwap, brokerVars
    <2>2. (msgs'[t] = msgs[t] \/ msgs'[t] = recvd[t]) /\ (recvd'[t] = recvd[t] \/ recvd'[t] = << >>)
      BY <1>0, <2>1 DEF TypeOK
    <2> QED BY <1>k, <2>1, <2>2
  <1>5. ASSUME NEW s \in Services, RpcReceviedMsg(s)
        PROVE  Goal
    <2>1. /\ msgs' = [msgs EXCEPT ![s] = Tail(@)] /\ msgs[s] # << >>
          /\ UNCHANGED <<topic, outbox, recvd>>
      BY <1>5 DEF RpcReceviedMsg, brokerVars
    <2>2. msgs'[t] = msgs[t] \/ (t = s /\ msgs'[t] = Tail(msgs[t]))
      BY <1>0, <2>1 DEF TypeOK
    <2>3. msgs'[t] \in Seq(MessagesTo(t)')
      BY <1>k, <2>1, <2>2
    <2>4. held' = held \/ held' = [held EXCEPT ![s] = @ \cup {Head(msgs[s]).call}]
      BY <1>5 DEF RpcReceviedMsg, NormalReceviedMsg, Answered
    <2>5. Head(msgs[s]).call \in MadeCalls'
      <3>1. msgs[s] \in Seq(MessagesTo(s)) /\ msgs[s] # << >>
        BY <1>0, <2>1 DEF Addressed
      <3>2. Head(msgs[s]) \in MessagesTo(s)
        BY <3>1
      <3> QED BY <1>0, <3>2 DEF MessagesTo, CallsKept
    <2>6. held'[t] \subseteq MadeCalls'
      <3>1. held \in [Services -> SUBSET Calls]
        BY <1>0 DEF TypeOK
      <3> QED BY <1>k, <2>4, <2>5, <3>1
    <2> QED BY <1>k, <2>1, <2>3, <2>6
  <1>6. ASSUME NEW s \in Services, StartSendThread(s)
        PROVE  Goal
    <2> DEFINE m == Head(outbox[s])
    <2>1. /\ outbox' = [outbox EXCEPT ![s] = Tail(@)] /\ outbox[s] # << >>
          /\ UNCHANGED <<recvd, msgs, held>>
          /\ \/ topic' = topic
             \/ topic' = [topic EXCEPT ![ToSID(m)] = Append(@, m)]
             \/ topic' = [topic EXCEPT ![ToSID(m)] = @ \o <<m, m>>]
      BY <1>6 DEF StartSendThread, mainVars
    <2>2. outbox'[t] = outbox[t] \/ (t = s /\ outbox'[t] = Tail(outbox[t]))
      BY <1>0, <2>1 DEF TypeOK
    <2>3. outbox'[t] \in Seq(Known')
      BY <1>k, <2>1, <2>2
    <2>4. m \in Known
      <3>1. outbox[s] \in Seq(Known)
        BY <1>0 DEF Addressed, Known
      <3> QED BY <2>1, <3>1
    <2>5. ToSID(m) = t => m \in MessagesTo(t)'
      <3>1. ToSID(m) = t => m \in MessagesTo(t)
        BY <2>4 DEF MessagesTo, Known
      <3> HIDE DEF m
      <3> QED BY <1>0, <3>1, StaysAddressed
    <2> HIDE DEF m
    <2>6. \/ topic'[t] = topic[t]
          \/ ToSID(m) = t /\ topic'[t] = Append(topic[t], m)
          \/ ToSID(m) = t /\ topic'[t] = topic[t] \o <<m, m>>
      BY <1>0, <2>1 DEF TypeOK
    <2>7. topic'[t] \in Seq(MessagesTo(t)')
      <3>1. CASE ToSID(m) = t
        <4>1. m \in MessagesTo(t)' /\ topic[t] \in Seq(MessagesTo(t)')
          BY <1>k, <2>5, <3>1
        <4>2. Append(topic[t], m) \in Seq(MessagesTo(t)') /\ topic[t] \o <<m, m>> \in Seq(MessagesTo(t)')
          BY <4>1, SeqOfAppend
        <4> QED BY <2>6, <4>1, <4>2
      <3>2. CASE ToSID(m) # t
        BY <1>k, <2>6, <3>2
      <3> QED BY <3>1, <3>2
    <2> QED BY <1>k, <2>1, <2>3, <2>7
  <1>7. ASSUME NEW s \in Services, Consume(s)
        PROVE  Goal
    <2>1. /\ read[s] < Len(topic[s]) /\ recvd' = [recvd EXCEPT ![s] = Append(@, topic[s][read[s] + 1])]
          /\ UNCHANGED <<topic, msgs, outbox, held>>
      BY <1>7 DEF Consume, mainVars
    <2>2. recvd'[t] = recvd[t] \/ (t = s /\ recvd'[t] = Append(recvd[t], topic[t][read[t] + 1]))
      BY <1>0, <2>1 DEF TypeOK
    <2>3. t = s => topic[t][read[t] + 1] \in MessagesTo(t)'
      <3>1. read[t] \in Nat
        BY <1>0 DEF TypeOK
      <3> QED BY <1>k, <2>1, <3>1
    <2>4. recvd'[t] \in Seq(MessagesTo(t)')
      <3>1. CASE recvd'[t] = recvd[t]
        BY <1>k, <3>1
      <3>2. CASE t = s /\ recvd'[t] = Append(recvd[t], topic[t][read[t] + 1])
        <4>1. topic[t][read[t] + 1] \in MessagesTo(t)' /\ recvd[t] \in Seq(MessagesTo(t)')
          BY <1>k, <2>3, <3>2
        <4>2. Append(recvd[t], topic[t][read[t] + 1]) \in Seq(MessagesTo(t)')
          BY <4>1, SeqOfAppend
        <4> QED BY <3>2, <4>2
      <3> QED BY <2>2, <3>1, <3>2
    <2> QED BY <1>k, <2>1, <2>4
  <1>8. ASSUME NEW s \in Services, Restart(s)
        PROVE  Goal
    <2>1. /\ recvd' = [recvd EXCEPT ![s] = << >>] /\ msgs' = [msgs EXCEPT ![s] = << >>]
          /\ outbox' = [outbox EXCEPT ![s] = << >>] /\ held' = [held EXCEPT ![s] = {}]
          /\ UNCHANGED topic
      BY <1>8 DEF Restart
    <2>2. /\ recvd'[t] = recvd[t] \/ recvd'[t] = << >>
          /\ msgs'[t] = msgs[t] \/ msgs'[t] = << >>
          /\ outbox'[t] = outbox[t] \/ outbox'[t] = << >>
          /\ held'[t] = held[t] \/ held'[t] = {}
      BY <1>0, <2>1 DEF TypeOK
    <2> QED BY <1>k, <2>1, <2>2
  <1>9. CASE UNCHANGED <<topic, recvd, msgs, outbox, held>>
    BY <1>k, <1>9
  <1>10. ASSUME NEW s \in Services,
                TimerSwap(s) \/ TimerStep(s) \/ CommitSync(s) \/ \E c \in Calls : CB_Event(s, c)
         PROVE  Goal
    BY <1>9, <1>10 DEF TimerSwap, TimerStep, CommitSync, CB_Event, mainVars, brokerVars
  <1>11. CASE UNCHANGED vars
    BY <1>9, <1>11 DEF vars
  <1> QED BY <1>1, <1>2, <1>3, <1>4, <1>5, <1>6, <1>7, <1>8, <1>10, <1>11 DEF Next, Tick

----------------------------------------------------------------------------
(* SlotsOwn, CallbacksRun *)

\* What a call of a slot or of a timer is known to be.
LEMMA SlotIs ==
  ASSUME TypeOK, SlotsOwn, NEW s \in Services, NEW c \in slots[s] \cup timers[s]
  PROVE  /\ c \in MadeCalls /\ c \in Calls
         /\ calls[c].from = s
         /\ calls[c].life = life[s]
         /\ calls[c].num \in Nat \ {0}
         /\ c \in slots[s] => cbs[c] \in {<< >>, <<"timeout">>}
         /\ c \in timers[s] => cbs[c] = << >> /\ calls[c].kind = "timed"
  <1>1. c \in MadeCalls
    BY DEF SlotsOwn
  <1>2. c \in Calls /\ calls[c].num \in Nat
    BY <1>1, CallIs, KnetAssumption
  <1> QED BY <1>1, <1>2 DEF SlotsOwn

\* What the step that makes a call does to slots and timers: the new call may
\* be in those of its maker.
LEMMA AsyncRPCIs ==
  ASSUME IInv, NEW s \in Callers, NEW to \in Services, NEW kind \in Kinds,
         AsyncRPC(s, to, kind)
  PROVE  LET k == Len(calls) + 1 IN
         /\ s \in Services
         /\ k \notin MadeCalls /\ k \in Calls
         /\ MadeCalls' = MadeCalls \cup {k}
         /\ calls'[k] = [from |-> s, to |-> to, num |-> seq[s] + 1, kind |-> kind,
                         life |-> life[s]]
         /\ seq[s] + 1 # 0
         /\ \A c \in MadeCalls : calls'[c] = calls[c]
         /\ slots' = slots \/ slots' = [slots EXCEPT ![s] = @ \cup {k}]
         /\ \/ UNCHANGED <<timers, armed>>
            \/ /\ kind = "timed"
               /\ timers' = [timers EXCEPT ![s] = @ \cup {k}]
               /\ armed' = [armed EXCEPT ![s] = @ \cup {k}]
         /\ UNCHANGED <<life, cbs, given, due, hdls>>
  <1>0. TypeOK
    BY DEF IInv
  <1>1. NewCall(s, to, NextKey(s), kind)
    BY DEF AsyncRPC
  <1>2. s \in Services /\ NextKey(s) = seq[s] + 1
    BY <1>1, NextKeyIs
  <1>3. NextKey(s) \in 0 .. MaxCalls /\ NextKey(s) # 0
    BY <1>1, NextKeyIs
  <1>4. NewCall(s, to, NextKey(s), kind) /\ UNCHANGED <<life, cbs, given, due, hdls>>
        /\ AppendRPCContext(s, Len(calls) + 1, KeyOf(s, NextKey(s)), kind)
    BY DEF AsyncRPC, outcomeVars
  <1>5. /\ slots' = slots \/ slots' = [slots EXCEPT ![s] = @ \cup {Len(calls) + 1}]
        /\ \/ UNCHANGED <<timers, armed>>
           \/ /\ kind = "timed"
              /\ timers' = [timers EXCEPT ![s] = @ \cup {Len(calls) + 1}]
              /\ armed' = [armed EXCEPT ![s] = @ \cup {Len(calls) + 1}]
    BY <1>4 DEF AppendRPCContext
  <1>6. LET k == Len(calls) + 1 IN
         /\ k \notin MadeCalls /\ k \in Calls
         /\ MadeCalls' = MadeCalls \cup {k}
         /\ calls'[k] = [from |-> s, to |-> to, num |-> NextKey(s), kind |-> kind,
                         life |-> life[s]]
         /\ \A c \in MadeCalls : calls'[c] = calls[c]
    BY <1>0, <1>3, <1>4, NewCallIs
  <1> QED BY <1>2, <1>3, <1>4, <1>5, <1>6

LEMMA RouteIs ==
  ASSUME IInv, NEW s \in Callers, NEW to \in Services, RouteMessage(s, to)
  PROVE  LET k == Len(calls) + 1 IN
         /\ s \in Services
         /\ k \notin MadeCalls /\ k \in Calls
         /\ MadeCalls' = MadeCalls \cup {k}
         /\ calls'[k] = [from |-> s, to |-> to, num |-> 0, kind |-> "route",
                         life |-> life[s]]
         /\ \A c \in MadeCalls : calls'[c] = calls[c]
         /\ UNCHANGED <<slots, timers, armed, life, cbs, given, due, hdls>>
  <1>1. TypeOK /\ s \in Services /\ 0 \in 0 .. MaxCalls /\ "route" \in Kinds
        /\ NewCall(s, to, 0, "route")
    BY KnetAssumption DEF IInv, RouteMessage
  <1>2. UNCHANGED <<slots, timers, armed, life, cbs, given, due, hdls>>
    BY DEF RouteMessage, timerVars, outcomeVars
  <1> QED BY <1>1, <1>2, NewCallIs

\* SlotsOwn, service by service.
Own(s) ==
    /\ slots[s] \cup timers[s] \subseteq MadeCalls
    /\ \A c \in slots[s] \cup timers[s] :
        /\ calls[c].from = s
        /\ calls[c].life = life[s]
        /\ calls[c].num # 0
    /\ \A c \in slots[s] : cbs[c] \in {<< >>, <<"timeout">>}
    /\ \A c \in timers[s] : cbs[c] = << >> /\ calls[c].kind = "timed"

LEMMA SlotsStep == IInv /\ [Next]_vars => SlotsOwn'
  <1> SUFFICES ASSUME IInv, [Next]_vars, NEW t \in Services PROVE Own(t)'
    BY DEF SlotsOwn, Own
  <1>0. /\ TypeOK /\ SlotsOwn /\ CallbacksRun
        /\ slots \in [Services -> SUBSET Calls] /\ timers \in [Services -> SUBSET Calls]
        /\ cbs \in [Calls -> Seq({"success", "timeout"})]
    BY DEF IInv, TypeOK
  <1>k. Own(t)
    BY <1>0 DEF SlotsOwn, Own
  <1>1. ASSUME NEW s \in Callers, NEW to \in Services, NEW kind \in Kinds, AsyncRPC(s, to, kind)
        PROVE  Own(t)'
    <2> DEFINE k == Len(calls) + 1
    <2>1. /\ s \in Services
          /\ k \notin MadeCalls /\ k \in Calls
          /\ MadeCalls' = MadeCalls \cup {k}
          /\ calls'[k] = [from |-> s, to |-> to, num |-> seq[s] + 1, kind |-> kind,
                          life |-> life[s]]
          /\ seq[s] + 1 # 0
          /\ \A c \in MadeCalls : calls'[c] = calls[c]
          /\ slots' = slots \/ slots' = [slots EXCEPT ![s] = @ \cup {k}]
          /\ \/ timers' = timers
             \/ kind = "timed" /\ timers' = [timers EXCEPT ![s] = @ \cup {k}]
          /\ UNCHANGED <<life, cbs>>
      BY <1>1, AsyncRPCIs
    <2>2. cbs[k] = << >>
      BY <1>0, <2>1 DEF CallbacksRun
    <2> HIDE DEF k
    <2>3. slots'[t] = slots[t] \/ (t = s /\ slots'[t] = slots[t] \cup {k})
      BY <1>0, <2>1
    <2>4. timers'[t] = timers[t] \/ (t = s /\ kind = "timed" /\ timers'[t] = timers[t] \cup {k})
      BY <1>0, <2>1
    <2>5. ASSUME NEW c \in slots'[t] \cup timers'[t]
          PROVE  /\ c \in MadeCalls' /\ calls'[c].from = t /\ calls'[c].life = life'[t]
                 /\ calls'[c].num # 0
      <3>1. CASE c = k
        <4>1. k \notin slots[t] /\ k \notin timers[t]
          BY <1>k, <2>1 DEF Own
        <4>2. t = s
          BY <2>3, <2>4, <2>5, <3>1, <4>1
        <4> QED BY <2>1, <3>1, <4>2
      <3>2. CASE c # k
        <4>1. c \in slots[t] \cup timers[t]
          BY <2>3, <2>4, <2>5, <3>2
        <4> QED BY <1>k, <2>1, <4>1 DEF Own
      <3> QED BY <3>1, <3>2
    <2>6. \A c \in slots'[t] : cbs'[c] \in {<< >>, <<"timeout">>}
      BY <1>k, <2>1, <2>2, <2>3 DEF Own
    <2>7. ASSUME NEW c \in timers'[t]
          PROVE  cbs'[c] = << >> /\ calls'[c].kind = "timed"
      <3>1. CASE c \in timers[t]
        BY <1>k, <2>1, <3>1 DEF Own
      <3>2. CASE c \notin timers[t]
        BY <2>1, <2>2, <2>4, <2>7, <3>2
      <3> QED BY <3>1, <3>2
    <2> QED BY <2>5, <2>6, <2>7 DEF Own
  <1>2. ASSUME NEW s \in Callers, NEW to \in Services, RouteMessage(s, to)
        PROVE  Own(t)'
    <2>1. /\ MadeCalls \subseteq MadeCalls'
          /\ \A c \in MadeCalls : calls'[c] = calls[c]
          /\ UNCHANGED <<slots, timers, life, cbs>>
      BY <1>2, RouteIs
    <2> QED BY <1>k, <2>1 DEF Own
  <1>3. ASSUME NEW s \in Services, TimerStep(s)
        PROVE  Own(t)'
    <2> DEFINE h == Head(hdls[s])
    <2>1. /\ UNCHANGED <<slots, calls, life>>
          /\ \/ UNCHANGED <<cbs, timers>>
             \/ /\ h \in timers[s]
                /\ cbs' = [cbs EXCEPT ![h] = Append(@, "timeout")]
                /\ timers' = [timers EXCEPT ![s] = @ \ {h}]
      BY <1>3 DEF TimerStep
    <2> HIDE DEF h
    <2>2. CASE UNCHANGED <<cbs, timers>>
      BY <1>k, <2>1, <2>2 DEF Own, MadeCalls
    <2>3. CASE /\ h \in timers[s]
               /\ cbs' = [cbs EXCEPT ![h] = Append(@, "timeout")]
               /\ timers' = [timers EXCEPT ![s] = @ \ {h}]
      <3>1. h \in Calls /\ calls[h].from = s /\ cbs[h] = << >>
        BY <1>0, <2>3, SlotIs
      <3>2. cbs'[h] = <<"timeout">> /\ \A c \in Calls : c # h => cbs'[c] = cbs[c]
        BY <1>0, <2>3, <3>1
      <3>3. timers'[t] \subseteq timers[t] /\ h \notin timers'[t]
        BY <1>0, <1>k, <2>3, <3>1 DEF Own
      <3>4. slots[t] \subseteq Calls /\ timers[t] \subseteq Calls
        BY <1>0
      <3>5. \A c \in slots'[t] : cbs'[c] \in {<< >>, <<"timeout">>}
        BY <1>k, <2>1, <3>2, <3>4 DEF Own
      <3>6. \A c \in timers'[t] : cbs'[c] = << >> /\ calls'[c].kind = "timed"
        BY <1>k, <2>1, <3>2, <3>3, <3>4 DEF Own
      <3> QED BY <1>k, <2>1, <3>3, <3>5, <3>6 DEF Own, MadeCalls
    <2> QED BY <2>1, <2>2, <2>3
  <1>4. ASSUME NEW s \in Services, RpcReceviedMsg(s)
        PROVE  Own(t)'
    <2> DEFINE m == Head(msgs[s])
    <2>1. CASE NormalReceviedMsg(s, m)
      BY <1>k, <1>4, <2>1 DEF RpcReceviedMsg, NormalReceviedMsg, Own, MadeCalls
    <2>2. ASSUME NEW c \in Matching(s, Key(m.call)), Answered(s, c, m)
          PROVE  Own(t)'
      <3>1. c \in slots[s] /\ c \in Calls
        BY <1>0, <2>2, MatchingIs
      <3>2. calls[c].from = s
        BY <1>0, <3>1, SlotIs
      <3>3. /\ cbs' = [cbs EXCEPT ![c] = Append(@, "success")]
            /\ timers' = [timers EXCEPT ![s] = @ \ {c}]
            /\ slots' = [slots EXCEPT ![s] = @ \ {c}]
            /\ UNCHANGED <<calls, life>>
        BY <1>4, <2>2 DEF RpcReceviedMsg, Answered, CancelTimer
      <3>4. /\ slots'[t] \subseteq slots[t] /\ timers'[t] \subseteq timers[t]
            /\ c \notin slots'[t] /\ c \notin timers'[t]
        BY <1>0, <1>k, <3>2, <3>3 DEF Own
      <3>5. \A d \in slots'[t] \cup timers'[t] : cbs'[d] = cbs[d]
        BY <1>0, <3>1, <3>3, <3>4
      <3> QED BY <1>k, <3>3, <3>4, <3>5 DEF Own, MadeCalls
    <2> QED BY <1>4, <2>1, <2>2 DEF RpcReceviedMsg
  <1>5. ASSUME NEW s \in Services, Restart(s)
        PROVE  Own(t)'
    <2>1. /\ slots' = [slots EXCEPT ![s] = {}] /\ timers' = [timers EXCEPT ![s] = {}]
          /\ life' = [life EXCEPT ![s] = @ + 1] /\ UNCHANGED <<calls, cbs>>
          /\ life \in [Services -> 0 .. MaxRestarts]
      BY <1>0, <1>5 DEF Restart, StartSlots, outcomeVars, TypeOK
    <2>2. CASE t = s
      BY <1>0, <2>1, <2>2 DEF Own
    <2>3. CASE t # s
      <3>1. slots'[t] = slots[t] /\ timers'[t] = timers[t] /\ life'[t] = life[t]
        BY <1>0, <2>1, <2>3
      <3> QED BY <1>k, <2>1, <3>1 DEF Own, MadeCalls
    <2> QED BY <2>2, <2>3
  <1>6. CASE UNCHANGED <<slots, timers, calls, life, cbs>>
    BY <1>k, <1>6 DEF Own, MadeCalls
  <1>7. ASSUME NEW s \in Services, NEW c \in Calls, RPCResponse(s, c) \/ CB_Event(s, c)
        PROVE  Own(t)'
    BY <1>6, <1>7 DEF RPCResponse, CB_Event, timerVars, outcomeVars
  <1>8. ASSUME NEW s \in Services,
               TimerSwap(s) \/ RpcSwap(s) \/ StartSendThread(s) \/ Consume(s) \/ CommitSync(s)
        PROVE  Own(t)'
    BY <1>6, <1>8 DEF TimerSwap, RpcSwap, StartSendThread, Consume, CommitSync, timerVars, outcomeVars
  <1>9. CASE UNCHANGED vars
    BY <1>6, <1>9 DEF vars
  <1> QED BY <1>1, <1>2, <1>3, <1>4, <1>5, <1>7, <1>8, <1>9 DEF Next, Tick

\* What a step does to the callbacks: nothing, one timeout of a live timer, or
\* one success of a call with a slot, given a message with the call's key.
LEMMA CallbackSteps ==
  ASSUME IInv, [Next]_vars
  PROVE  \/ UNCHANGED <<cbs, given>>
         \/ /\ UNCHANGED <<calls, life, given>>
            /\ \E s \in Services : \E c \in timers[s] :
                  cbs' = [cbs EXCEPT ![c] = Append(@, "timeout")]
         \/ /\ UNCHANGED <<calls, life>>
            /\ \E s \in Services : \E c \in slots[s], m \in MessagesTo(s) :
                  /\ Key(c) = Key(m.call)
                  /\ cbs' = [cbs EXCEPT ![c] = Append(@, "success")]
                  /\ given' = [given EXCEPT ![c] = m]
  <1> DEFINE Goal ==
         \/ UNCHANGED <<cbs, given>>
         \/ /\ UNCHANGED <<calls, life, given>>
            /\ \E s \in Services : \E c \in timers[s] :
                  cbs' = [cbs EXCEPT ![c] = Append(@, "timeout")]
         \/ /\ UNCHANGED <<calls, life>>
            /\ \E s \in Services : \E c \in slots[s], m \in MessagesTo(s) :
                  /\ Key(c) = Key(m.call)
                  /\ cbs' = [cbs EXCEPT ![c] = Append(@, "success")]
                  /\ given' = [given EXCEPT ![c] = m]
  <1>0. TypeOK /\ Addressed
    BY DEF IInv
  <1>1. ASSUME NEW s \in Services, TimerStep(s) PROVE Goal
    BY <1>1 DEF TimerStep
  <1>2. ASSUME NEW s \in Services, RpcReceviedMsg(s) PROVE Goal
    <2> DEFINE m == Head(msgs[s])
    <2>1. m \in MessagesTo(s)
      <3>1. msgs[s] \in Seq(MessagesTo(s)) /\ msgs[s] # << >>
        BY <1>0, <1>2 DEF Addressed, RpcReceviedMsg
      <3> QED BY <3>1
    <2>2. CASE NormalReceviedMsg(s, m)
      BY <2>2 DEF NormalReceviedMsg
    <2>3. ASSUME NEW c \in Matching(s, Key(m.call)), Answered(s, c, m) PROVE Goal
      <3>1. c \in slots[s] /\ Key(c) = Key(m.call)
        BY <1>0, <2>3, MatchingIs
      <3>2. /\ cbs' = [cbs EXCEPT ![c] = Append(@, "success")]
            /\ given' = [given EXCEPT ![c] = m]
            /\ UNCHANGED <<calls, life>>
        BY <1>2, <2>3 DEF Answered, RpcReceviedMsg
      <3> HIDE DEF m
      <3> QED BY <2>1, <3>1, <3>2
    <2> QED BY <1>2, <2>2, <2>3 DEF RpcReceviedMsg
  <1>3. ASSUME NEW s \in Callers, NEW to \in Services, NEW kind \in Kinds,
               AsyncRPC(s, to, kind) \/ RouteMessage(s, to)
        PROVE  Goal
    BY <1>3 DEF AsyncRPC, RouteMessage, outcomeVars
  <1>4. ASSUME NEW s \in Services, NEW c \in Calls, RPCResponse(s, c) \/ CB_Event(s, c)
        PROVE  Goal
    BY <1>4 DEF RPCResponse, CB_Event, outcomeVars
  <1>5. ASSUME NEW s \in Services,
               \/ TimerSwap(s) \/ RpcSwap(s) \/ StartSendThread(s) \/ Consume(s)
               \/ CommitSync(s) \/ Restart(s)
        PROVE  Goal
    BY <1>5 DEF TimerSwap, RpcSwap, StartSendThread, Consume, CommitSync, Restart, outcomeVars
  <1>6. CASE UNCHANGED vars
    BY <1>6 DEF vars
  <1>7. ASSUME NEW s \in Callers, NEW to \in Services, RouteMessage(s, to)
        PROVE  Goal
    BY <1>7 DEF RouteMessage, outcomeVars
  <1> QED BY <1>1, <1>2, <1>3, <1>4, <1>5, <1>6, <1>7 DEF Next, Tick

LEMMA TimeoutThenSuccess == Append(<<"timeout">>, "success") = <<"timeout", "success">>
  <1> DEFINE q == <<"timeout">>
             r == <<"timeout", "success">>
  <1>1. q \in Seq({"success", "timeout"}) /\ Len(q) = 1 /\ q[1] = "timeout"
    OBVIOUS
  <1>2. r \in Seq({"success", "timeout"}) /\ Len(r) = 2 /\ r[1] = "timeout" /\ r[2] = "success"
    OBVIOUS
  <1> HIDE DEF q, r
  <1>3. /\ Append(q, "success") \in Seq({"success", "timeout"})
        /\ Len(Append(q, "success")) = 2
        /\ Append(q, "success")[1] = "timeout"
        /\ Append(q, "success")[2] = "success"
    <2>1. ASSUME NEW p \in Seq({"success", "timeout"}), NEW x \in {"success", "timeout"}
          PROVE  /\ Append(p, x) \in Seq({"success", "timeout"})
                 /\ Len(Append(p, x)) = Len(p) + 1
                 /\ \A i \in 1 .. Len(p) : Append(p, x)[i] = p[i]
                 /\ Append(p, x)[Len(p) + 1] = x
      OBVIOUS
    <2>2. "success" \in {"success", "timeout"}
      OBVIOUS
    <2>3. /\ Append(q, "success") \in Seq({"success", "timeout"})
          /\ Len(Append(q, "success")) = Len(q) + 1
          /\ \A i \in 1 .. Len(q) : Append(q, "success")[i] = q[i]
          /\ Append(q, "success")[Len(q) + 1] = "success"
      BY <1>1, <2>1, <2>2
    <2> QED BY <1>1, <2>3
  <1> DEFINE a == Append(q, "success")
  <1> HIDE DEF a
  <1>4. a \in Seq({"success", "timeout"}) /\ Len(a) = 2 /\ a[1] = r[1] /\ a[2] = r[2]
    BY <1>2, <1>3 DEF a
  <1>5. \A i \in 1 .. 2 : a[i] = r[i]
    BY <1>4
  <1>6. a = r
    BY <1>2, <1>4, <1>5
  <1> QED BY <1>6 DEF a, q, r

LEMMA CallbacksStep == IInv /\ [Next]_vars => CallbacksRun'
  <1> SUFFICES ASSUME IInv, [Next]_vars, NEW d \in Calls
               PROVE  (/\ cbs[d] \in {<< >>, <<"success">>, <<"timeout">>, <<"timeout", "success">>}
                       /\ d \notin MadeCalls => cbs[d] = << >> /\ given[d] = NoMessage
                       /\ given[d] # NoMessage => given[d].call \in MadeCalls)'
    BY DEF CallbacksRun
  <1>0. /\ TypeOK /\ SlotsOwn /\ CallsKept
        /\ cbs \in [Calls -> Seq({"success", "timeout"})]
        /\ given \in [Calls -> Message \cup {NoMessage}]
    BY CallsKeptStep DEF IInv, TypeOK
  <1>1. /\ cbs[d] \in {<< >>, <<"success">>, <<"timeout">>, <<"timeout", "success">>}
        /\ d \notin MadeCalls' => cbs[d] = << >> /\ given[d] = NoMessage
        /\ given[d] # NoMessage => given[d].call \in MadeCalls'
    BY <1>0 DEF IInv, CallbacksRun, CallsKept
  <1>2. CASE UNCHANGED <<cbs, given>>
    BY <1>1, <1>2
  <1>3. ASSUME NEW s \in Services, NEW c \in timers[s], UNCHANGED <<calls, given>>,
               cbs' = [cbs EXCEPT ![c] = Append(@, "timeout")]
        PROVE  (/\ cbs[d] \in {<< >>, <<"success">>, <<"timeout">>, <<"timeout", "success">>}
                /\ d \notin MadeCalls => cbs[d] = << >> /\ given[d] = NoMessage
                /\ given[d] # NoMessage => given[d].call \in MadeCalls)'
    <2>1. cbs[c] = << >> /\ c \in MadeCalls /\ c \in Calls
      BY <1>0, SlotIs
    <2>2. cbs'[d] = cbs[d] \/ (d = c /\ cbs'[d] = <<"timeout">>)
      BY <1>0, <1>3, <2>1
    <2> QED BY <1>0, <1>1, <1>3, <2>1, <2>2 DEF CallsKept
  <1>4. ASSUME NEW s \in Services, NEW c \in slots[s], NEW m \in MessagesTo(s), UNCHANGED calls,
               cbs' = [cbs EXCEPT ![c] = Append(@, "success")],
               given' = [given EXCEPT ![c] = m]
        PROVE  (/\ cbs[d] \in {<< >>, <<"success">>, <<"timeout">>, <<"timeout", "success">>}
                /\ d \notin MadeCalls => cbs[d] = << >> /\ given[d] = NoMessage
                /\ given[d] # NoMessage => given[d].call \in MadeCalls)'
    <2>1. cbs[c] \in {<< >>, <<"timeout">>} /\ c \in MadeCalls /\ c \in Calls
      BY <1>0, SlotIs
    <2>2. \/ d # c /\ cbs'[d] = cbs[d] /\ given'[d] = given[d]
          \/ d = c /\ cbs'[d] = Append(cbs[c], "success") /\ given'[d] = m
      BY <1>0, <1>4, <2>1
    <2>3. Append(cbs[c], "success") \in {<<"success">>, <<"timeout", "success">>}
      <3>1. Append(<< >>, "success") = <<"success">>
        OBVIOUS
      <3>2. Append(<<"timeout">>, "success") = <<"timeout", "success">>
        BY TimeoutThenSuccess
      <3> QED BY <2>1, <3>1, <3>2
    <2>4. m.call \in MadeCalls'
      BY <1>0 DEF MessagesTo, CallsKept
    <2> QED BY <1>0, <1>1, <2>1, <2>2, <2>3, <2>4 DEF CallsKept
  <1> QED BY <1>2, <1>3, <1>4, CallbackSteps

----------------------------------------------------------------------------
(* QueueSwapped, NoTimerStranded *)

LEMMA TimersStep == IInv /\ [Next]_vars => QueueSwapped' /\ NoTimerStranded'
  <1> SUFFICES ASSUME IInv, [Next]_vars, NEW t \in Services
               PROVE  (/\ phase[t] = "msgs" => hdls[t] = << >>
                       /\ timers[t] \subseteq armed[t] \cup InQueue(due[t]) \cup InQueue(hdls[t]))'
    BY DEF QueueSwapped, NoTimerStranded
  <1> DEFINE Goal == (/\ phase[t] = "msgs" => hdls[t] = << >>
                      /\ timers[t] \subseteq armed[t] \cup InQueue(due[t]) \cup InQueue(hdls[t]))'
  <1>0. /\ TypeOK
        /\ timers \in [Services -> SUBSET Calls] /\ armed \in [Services -> SUBSET Calls]
        /\ due \in [Services -> Seq(Calls)] /\ hdls \in [Services -> Seq(Calls)]
        /\ phase \in [Services -> {"timers", "msgs"}]
    BY DEF IInv, TypeOK
  <1>k. /\ phase[t] = "msgs" => hdls[t] = << >>
        /\ timers[t] \subseteq armed[t] \cup InQueue(due[t]) \cup InQueue(hdls[t])
    BY DEF IInv, QueueSwapped, NoTimerStranded
  <1>1. ASSUME NEW s \in Callers, NEW to \in Services, NEW kind \in Kinds, AsyncRPC(s, to, kind)
        PROVE  Goal
    <2>1. /\ UNCHANGED <<due, hdls, phase>> /\ s \in Services
          /\ \/ UNCHANGED <<timers, armed>>
             \/ /\ timers' = [timers EXCEPT ![s] = @ \cup {Len(calls) + 1}]
                /\ armed' = [armed EXCEPT ![s] = @ \cup {Len(calls) + 1}]
      BY <1>1, AsyncRPCIs DEF AsyncRPC, mainVars
    <2> QED BY <1>0, <1>k, <2>1
  <1>2. ASSUME NEW s \in Services, NEW c \in Calls, CB_Event(s, c)
        PROVE  Goal
    <2>1. /\ UNCHANGED <<timers, hdls, phase>>
          /\ armed' = [armed EXCEPT ![s] = @ \ {c}] /\ due' = [due EXCEPT ![s] = Append(@, c)]
      BY <1>2 DEF CB_Event, mainVars
    <2>2. CASE t = s
      <3>1. due[s] \in Seq(Calls) /\ due'[s] = Append(due[s], c) /\ armed'[s] = armed[s] \ {c}
        BY <1>0, <2>1
      <3>2. InQueue(Append(due[s], c)) = InQueue(due[s]) \cup {c}
        BY <3>1 DEF InQueue
      <3> QED BY <1>k, <2>1, <2>2, <3>1, <3>2
    <2>3. CASE t # s
      BY <1>0, <1>k, <2>1, <2>3
    <2> QED BY <2>2, <2>3
  <1>3. ASSUME NEW s \in Services, TimerSwap(s)
        PROVE  Goal
    <2>1. /\ UNCHANGED <<timers, armed>> /\ phase[s] = "msgs"
          /\ hdls' = [hdls EXCEPT ![s] = due[s]] /\ due' = [due EXCEPT ![s] = << >>]
          /\ phase' = [phase EXCEPT ![s] = "timers"]
      BY <1>3 DEF TimerSwap, Swapped
    <2>2. CASE t = s
      <3>1. hdls'[s] = due[s] /\ phase'[s] = "timers" /\ hdls[s] = << >>
        BY <1>0, <1>k, <2>1, <2>2
      <3>2. InQueue(<< >>) = {}
        BY DEF InQueue
      <3> QED BY <1>k, <2>1, <2>2, <3>1, <3>2
    <2>3. CASE t # s
      BY <1>0, <1>k, <2>1, <2>3
    <2> QED BY <2>2, <2>3
  <1>4. ASSUME NEW s \in Services, TimerStep(s)
        PROVE  Goal
    <2>1. /\ UNCHANGED <<armed, due, phase>> /\ hdls[s] # << >> /\ phase[s] = "timers"
          /\ hdls' = [hdls EXCEPT ![s] = Tail(@)]
          /\ \/ timers' = [timers EXCEPT ![s] = @ \ {Head(hdls[s])}]
             \/ timers' = timers /\ Head(hdls[s]) \notin timers[s]
      BY <1>4 DEF TimerStep, mainVars
    <2>2. CASE t = s
      <3>1. hdls[s] \in Seq(Calls) /\ hdls'[s] = Tail(hdls[s])
        BY <1>0, <2>1
      <3>2. InQueue(hdls[s]) \subseteq InQueue(Tail(hdls[s])) \cup {Head(hdls[s])}
        <4> SUFFICES ASSUME NEW i \in 1 .. Len(hdls[s]), i # 1
                     PROVE  hdls[s][i] \in InQueue(Tail(hdls[s]))
          BY <2>1, <3>1 DEF InQueue
        <4>1. i - 1 \in 1 .. Len(Tail(hdls[s])) /\ Tail(hdls[s])[i - 1] = hdls[s][i]
          BY <2>1, <3>1
        <4> QED BY <3>1, <4>1 DEF InQueue
      <3>3. timers'[s] = timers[s] \ {Head(hdls[s])}
        BY <1>0, <2>1
      <3> QED BY <1>k, <2>1, <2>2, <3>1, <3>2, <3>3
    <2>3. CASE t # s
      <3>1. hdls'[t] = hdls[t] /\ timers'[t] = timers[t]
        BY <1>0, <2>1, <2>3
      <3> QED BY <1>k, <2>1, <3>1
    <2> QED BY <2>2, <2>3
  <1>5. ASSUME NEW s \in Services, RpcSwap(s)
        PROVE  Goal
    <2>1. UNCHANGED <<timers, armed, due, hdls>> /\ hdls[s] = << >>
          /\ phase' = [phase EXCEPT ![s] = "msgs"]
      BY <1>5 DEF RpcSwap, timerVars
    <2> QED BY <1>0, <1>k, <2>1
  <1>6. ASSUME NEW s \in Services, RpcReceviedMsg(s)
        PROVE  Goal
    <2>1. UNCHANGED <<due, hdls, phase>>
      BY <1>6 DEF RpcReceviedMsg
    <2>2. CASE UNCHANGED <<timers, armed>>
      BY <1>k, <2>1, <2>2
    <2>3. ASSUME NEW c, CancelTimer(s, c)
          PROVE  Goal
      <3>1. timers' = [timers EXCEPT ![s] = @ \ {c}]
            /\ (armed' = armed \/ armed' = [armed EXCEPT ![s] = @ \ {c}])
        BY <2>3 DEF CancelTimer
      <3> QED BY <1>0, <1>k, <2>1, <3>1
    <2> QED BY <1>6, <2>2, <2>3 DEF RpcReceviedMsg, NormalReceviedMsg, Answered
  <1>7. ASSUME NEW s \in Services, Restart(s)
        PROVE  Goal
    <2>1. /\ timers' = [timers EXCEPT ![s] = {}] /\ armed' = [armed EXCEPT ![s] = {}]
          /\ due' = [due EXCEPT ![s] = << >>] /\ hdls' = [hdls EXCEPT ![s] = << >>]
          /\ phase' = [phase EXCEPT ![s] = "msgs"]
      BY <1>7 DEF Restart
    <2>2. CASE t = s
      BY <1>0, <2>1, <2>2
    <2>3. CASE t # s
      BY <1>0, <1>k, <2>1, <2>3
    <2> QED BY <2>2, <2>3
  <1>8. CASE UNCHANGED <<timers, armed, due, hdls, phase>>
    BY <1>k, <1>8
  <1>9. ASSUME NEW s \in Callers, NEW to \in Services, RouteMessage(s, to)
        PROVE  Goal
    BY <1>8, <1>9 DEF RouteMessage, timerVars, mainVars
  <1>10. ASSUME NEW s \in Services,
                \/ StartSendThread(s) \/ Consume(s) \/ CommitSync(s)
                \/ \E c \in Calls : RPCResponse(s, c)
         PROVE  Goal
    BY <1>8, <1>10 DEF StartSendThread, Consume, CommitSync, RPCResponse, timerVars, mainVars
  <1>11. CASE UNCHANGED vars
    BY <1>8, <1>11 DEF vars
  <1> QED BY <1>1, <1>2, <1>3, <1>4, <1>5, <1>6, <1>7, <1>9, <1>10, <1>11 DEF Next, Tick

----------------------------------------------------------------------------
(* ReadOnce *)

\* ReadOnce, service by service.
Once(s) ==
    /\ handled[s] + Len(msgs[s]) + Len(recvd[s]) <= read[s] + life[s]
    /\ read[s] <= Len(topic[s])
    /\ committed[s] <= read[s]
    /\ committed[s] # 0 => read[s] <= committed[s] + 1
    /\ committed[s] # 0 /\ ~ inHand[s] => read[s] <= committed[s]

LEMMA OnceStep == IInv /\ [Next]_vars => ReadOnce'
  <1> SUFFICES ASSUME IInv, [Next]_vars, NEW t \in Services PROVE Once(t)'
    BY DEF ReadOnce, Once
  <1>0. /\ TypeOK
        /\ handled \in [Services -> Nat] /\ read \in [Services -> Nat]
        /\ committed \in [Services -> Nat] /\ life \in [Services -> 0 .. MaxRestarts]
        /\ msgs \in [Services -> Seq(Message)] /\ recvd \in [Services -> Seq(Message)]
        /\ topic \in [Services -> Seq(Message)] /\ MaxRestarts \in Nat
        /\ inHand \in [Services -> BOOLEAN]
    BY KnetAssumption DEF IInv, TypeOK
  <1>n. /\ handled[t] \in Nat /\ read[t] \in Nat /\ committed[t] \in Nat /\ life[t] \in Nat
        /\ Len(msgs[t]) \in Nat /\ Len(recvd[t]) \in Nat /\ Len(topic[t]) \in Nat
    BY <1>0
  <1>k. Once(t)
    BY DEF IInv, ReadOnce, Once
  <1>1. ASSUME NEW s \in Services, RpcSwap(s)
        PROVE  Once(t)'
    <2>1. /\ msgs' = [msgs EXCEPT ![s] = recvd[s]] /\ recvd' = [recvd EXCEPT ![s] = << >>]
          /\ UNCHANGED <<handled, read, inHand, life, topic, committed>>
      BY <1>1 DEF RpcSwap, brokerVars, outcomeVars
    <2>2. Len(<< >>) = 0
      OBVIOUS
    <2>3. \/ msgs'[t] = msgs[t] /\ recvd'[t] = recvd[t]
          \/ msgs'[t] = recvd[t] /\ recvd'[t] = << >>
      BY <1>0, <2>1
    <2> QED BY <1>n, <1>k, <2>1, <2>2, <2>3 DEF Once
  <1>2. ASSUME NEW s \in Services, RpcReceviedMsg(s)
        PROVE  Once(t)'
    <2>1. /\ msgs' = [msgs EXCEPT ![s] = Tail(@)] /\ msgs[s] # << >>
          /\ UNCHANGED <<recvd, read, inHand, life, topic, committed>>
          /\ handled' = handled \/ handled' = [handled EXCEPT ![s] = @ + 1]
      BY <1>2 DEF RpcReceviedMsg, NormalReceviedMsg, Answered, brokerVars
    <2>2. CASE t = s
      <3>1. Len(msgs'[t]) = Len(msgs[t]) - 1 /\ Len(msgs[t]) > 0
        BY <1>0, <2>1, <2>2
      <3>2. handled'[t] = handled[t] \/ handled'[t] = handled[t] + 1
        BY <1>0, <2>1, <2>2
      <3> QED BY <1>n, <1>k, <2>1, <3>1, <3>2 DEF Once
    <2>3. CASE t # s
      <3>1. msgs'[t] = msgs[t] /\ handled'[t] = handled[t]
        BY <1>0, <2>1, <2>3
      <3> QED BY <1>k, <2>1, <3>1 DEF Once
    <2> QED BY <2>2, <2>3
  <1>3. ASSUME NEW s \in Services, StartSendThread(s)
        PROVE  Once(t)'
    <2>1. UNCHANGED <<handled, msgs, recvd, read, inHand, life, committed>>
      BY <1>3 DEF StartSendThread, mainVars, outcomeVars
    <2>2. Len(topic'[t]) \in Nat /\ Len(topic'[t]) >= Len(topic[t])
      <3> DEFINE m == Head(outbox[s])
      <3>1. \/ topic' = topic
            \/ topic' = [topic EXCEPT ![ToSID(m)] = Append(@, m)]
            \/ topic' = [topic EXCEPT ![ToSID(m)] = @ \o <<m, m>>]
        BY <1>3 DEF StartSendThread
      <3> HIDE DEF m
      <3>2. topic'[t] = topic[t] \/ topic'[t] = Append(topic[t], m) \/ topic'[t] = topic[t] \o <<m, m>>
        BY <1>0, <3>1
      <3>3. topic[t] \in Seq(Message)
        BY <1>0
      <3>4. Len(Append(topic[t], m)) = Len(topic[t]) + 1 /\ Len(topic[t] \o <<m, m>>) = Len(topic[t]) + 2
        BY <3>3
      <3> QED BY <1>n, <3>2, <3>4
    <2> QED BY <1>n, <1>k, <2>1, <2>2 DEF Once
  <1>4. ASSUME NEW s \in Services, Consume(s)
        PROVE  Once(t)'
    <2>1. /\ ~ inHand[s] /\ read[s] < Len(topic[s])
          /\ inHand' = [inHand EXCEPT ![s] = TRUE]
          /\ read' = [read EXCEPT ![s] = @ + 1]
          /\ recvd' = [recvd EXCEPT ![s] = Append(@, topic[s][read[s] + 1])]
          /\ UNCHANGED <<handled, msgs, life, topic, committed>>
      BY <1>4 DEF Consume, mainVars, outcomeVars
    <2>2. CASE t = s
      <3>1. read'[t] = read[t] + 1 /\ Len(recvd'[t]) = Len(recvd[t]) + 1
        BY <1>0, <2>1, <2>2
      <3>2. ~ inHand[t] /\ read[t] < Len(topic[t]) /\ inHand'[t] = TRUE
        BY <1>0, <2>1, <2>2
      <3>3. /\ handled'[t] = handled[t] /\ msgs'[t] = msgs[t] /\ life'[t] = life[t]
            /\ topic'[t] = topic[t] /\ committed'[t] = committed[t]
        BY <2>1
      <3>4. /\ handled[t] + Len(msgs[t]) + Len(recvd[t]) <= read[t] + life[t]
            /\ committed[t] <= read[t]
            /\ committed[t] # 0 => read[t] <= committed[t]
        BY <1>n, <1>k, <3>2 DEF Once
      <3>5. handled'[t] + Len(msgs'[t]) + Len(recvd'[t]) <= read'[t] + life'[t]
        <4>1. \A h, m, r, p, l \in Nat : h + m + r <= p + l => h + m + (r + 1) <= (p + 1) + l
          OBVIOUS
        <4>2. handled[t] + Len(msgs[t]) + (Len(recvd[t]) + 1) <= (read[t] + 1) + life[t]
          BY <1>n, <3>4, <4>1
        <4> QED BY <3>1, <3>3, <4>2
      <3>6. /\ read'[t] <= Len(topic'[t]) /\ committed'[t] <= read'[t]
            /\ committed'[t] # 0 => read'[t] <= committed'[t] + 1
        BY <1>n, <3>1, <3>2, <3>3, <3>4
      <3> QED BY <3>2, <3>5, <3>6 DEF Once
    <2>3. CASE t # s
      <3>1. read'[t] = read[t] /\ recvd'[t] = recvd[t] /\ inHand'[t] = inHand[t]
        BY <1>0, <2>1, <2>3
      <3> QED BY <1>k, <2>1, <3>1 DEF Once
    <2> QED BY <2>2, <2>3
  <1>5. ASSUME NEW s \in Services, CommitSync(s)
        PROVE  Once(t)'
    <2>1. /\ committed' = [committed EXCEPT ![s] = read[s]]
          /\ inHand' = [inHand EXCEPT ![s] = FALSE]
          /\ UNCHANGED <<handled, msgs, recvd, life, topic, read>>
      BY <1>5 DEF CommitSync, mainVars, outcomeVars
    <2>2. \/ committed'[t] = committed[t] /\ inHand'[t] = inHand[t]
          \/ committed'[t] = read[t] /\ inHand'[t] = FALSE
      BY <1>0, <2>1
    <2>3. CASE committed'[t] = committed[t] /\ inHand'[t] = inHand[t]
      BY <1>k, <2>1, <2>3 DEF Once
    <2>4. CASE committed'[t] = read[t] /\ inHand'[t] = FALSE
      BY <1>n, <1>k, <2>1, <2>4 DEF Once
    <2> QED BY <2>2, <2>3, <2>4
  <1>6. ASSUME NEW s \in Services, Restart(s)
        PROVE  Once(t)'
    <2>1. /\ read' = [read EXCEPT ![s] = StartPosition(s)] /\ life' = [life EXCEPT ![s] = @ + 1]
          /\ msgs' = [msgs EXCEPT ![s] = << >>] /\ recvd' = [recvd EXCEPT ![s] = << >>]
          /\ inHand' = [inHand EXCEPT ![s] = FALSE]
          /\ UNCHANGED <<handled, topic, committed>>
      BY <1>6 DEF Restart, outcomeVars
    <2>2. CASE t = s
      <3>1. /\ read'[t] = StartPosition(t) /\ life'[t] = life[t] + 1 /\ inHand'[t] = FALSE
            /\ msgs'[t] = << >> /\ recvd'[t] = << >>
        BY <1>0, <2>1, <2>2
      <3>2. Len(<< >>) = 0
        OBVIOUS
      <3>3. Len(msgs'[t]) = 0 /\ Len(recvd'[t]) = 0
        BY <3>1, <3>2
      <3>4. handled'[t] = handled[t] /\ topic'[t] = topic[t] /\ committed'[t] = committed[t]
        BY <2>1
      <3>5. /\ handled[t] + Len(msgs[t]) + Len(recvd[t]) <= read[t] + life[t]
            /\ read[t] <= Len(topic[t]) /\ committed[t] <= read[t]
            /\ committed[t] # 0 => read[t] <= committed[t] + 1
        BY <1>n, <1>k DEF Once
      <3>6. /\ StartPosition(t) \in Nat /\ StartPosition(t) <= Len(topic[t])
            /\ read[t] <= StartPosition(t) + 1 /\ committed[t] <= StartPosition(t)
            /\ committed[t] # 0 => StartPosition(t) = committed[t]
        BY <1>n, <3>5 DEF StartPosition
      <3>7. handled'[t] + Len(msgs'[t]) + Len(recvd'[t]) <= read'[t] + life'[t]
        <4>1. \A h, m, r, p, q, l \in Nat :
                h + m + r <= p + l /\ p <= q + 1 => h + 0 + 0 <= q + (l + 1)
          OBVIOUS
        <4>2. handled[t] + 0 + 0 <= StartPosition(t) + (life[t] + 1)
          BY <1>n, <3>5, <3>6, <4>1
        <4> QED BY <3>1, <3>3, <3>4, <4>2
      <3>8. /\ read'[t] <= Len(topic'[t]) /\ committed'[t] <= read'[t]
            /\ committed'[t] # 0 => read'[t] <= committed'[t]
        BY <1>n, <3>1, <3>4, <3>6
      <3>9. committed'[t] # 0 => read'[t] <= committed'[t] + 1
        BY <1>n, <3>1, <3>4, <3>6, <3>8
      <3> QED BY <3>7, <3>8, <3>9 DEF Once
    <2>3. CASE t # s
      <3>1. /\ read'[t] = read[t] /\ life'[t] = life[t] /\ inHand'[t] = inHand[t]
            /\ msgs'[t] = msgs[t] /\ recvd'[t] = recvd[t]
        BY <1>0, <2>1, <2>3
      <3> QED BY <1>k, <2>1, <3>1 DEF Once
    <2> QED BY <2>2, <2>3
  <1>7. CASE UNCHANGED <<handled, msgs, recvd, read, inHand, life, topic, committed>>
    BY <1>k, <1>7 DEF Once
  <1>8. ASSUME NEW s \in Callers, NEW to \in Services, RouteMessage(s, to) \/ \E kind \in Kinds : AsyncRPC(s, to, kind)
        PROVE  Once(t)'
    BY <1>7, <1>8 DEF RouteMessage, AsyncRPC, timerVars, mainVars, brokerVars, outcomeVars
  <1>9. ASSUME NEW s \in Services,
               \/ TimerSwap(s) \/ TimerStep(s)
               \/ \E c \in Calls : RPCResponse(s, c) \/ CB_Event(s, c)
        PROVE  Once(t)'
    BY <1>7, <1>9 DEF TimerSwap, TimerStep, RPCResponse, CB_Event, mainVars, brokerVars, outcomeVars
  <1>10. CASE UNCHANGED vars
    BY <1>7, <1>10 DEF vars
  <1> QED BY <1>1, <1>2, <1>3, <1>4, <1>5, <1>6, <1>8, <1>9, <1>10 DEF Next, Tick

----------------------------------------------------------------------------
(* OwnAnswer *)

\* OwnAnswer, call by call.
Own_Answer(c) ==
    given[c] # NoMessage =>
        /\ given[c].body = "answer"
        /\ \/ given[c].call = c
           \/ LET old == calls[given[c].call] IN
              /\ old.from = calls[c].from
              /\ old.num = calls[c].num
              /\ old.life < calls[c].life

\* A message with the key of one of the service's slots is an answer, to the
\* slot's call or to one of an earlier life.
LEMMA KeyFindsOwn ==
  ASSUME IInv, NEW s \in Services, NEW c \in slots[s], NEW m \in MessagesTo(s),
         Key(c) = Key(m.call)
  PROVE  /\ m.body = "answer"
         /\ \/ m.call = c
            \/ LET old == calls[m.call] IN
               /\ old.from = calls[c].from
               /\ old.num = calls[c].num
               /\ old.life < calls[c].life
  <1>0. TypeOK /\ SlotsOwn /\ CallsNumbered
    BY DEF IInv
  <1>1. /\ c \in MadeCalls /\ calls[c].from = s /\ calls[c].life = life[s]
        /\ calls[c].num \in Nat \ {0}
    BY <1>0, SlotIs
  <1>2. m \in Message /\ m.call \in MadeCalls /\ ToSID(m) = s
    BY DEF MessagesTo
  <1>3. calls[m.call].from = s /\ calls[m.call].num = calls[c].num
    <2>1. /\ calls[c].from \in Services /\ calls[c].num \in 0 .. MaxCalls
          /\ calls[m.call].from \in Services /\ calls[m.call].num \in 0 .. MaxCalls
      BY <1>0, <1>1, <1>2, CallIs
    <2>2. KeyOf(calls[c].from, calls[c].num) = KeyOf(calls[m.call].from, calls[m.call].num)
      BY DEF Key
    <2> QED BY <1>1, <2>1, <2>2, KeyAssumption
  <1>4. m.body = "answer"
    <2>1. m.body \in {"request", "answer"}
      BY <1>2 DEF Message
    <2>2. calls[m.call].to # calls[m.call].from
      BY <1>0, <1>2 DEF CallsNumbered
    <2> QED BY <1>2, <1>3, <2>1, <2>2 DEF ToSID
  <1>5. CASE calls[m.call].life = calls[c].life
    <2>1. \A x, y \in MadeCalls :
              /\ calls[x].from = calls[y].from
              /\ calls[x].life = calls[y].life
              /\ calls[x].num = calls[y].num
              /\ calls[x].num # 0
              => x = y
      BY <1>0 DEF CallsNumbered
    <2>2. calls[m.call].from = calls[c].from /\ calls[c].num # 0
      BY <1>1, <1>3
    <2>3. m.call = c
      BY <1>1, <1>2, <1>3, <1>5, <2>1, <2>2
    <2> QED BY <1>4, <2>3
  <1>6. CASE calls[m.call].life # calls[c].life
    <2>1. calls[m.call].life <= life[s] /\ calls[m.call].life \in Nat
      BY <1>0, <1>2, <1>3, CallIs DEF CallsNumbered
    <2>2. life[s] \in Nat
      BY <1>0, <1>1, CallIs
    <2> QED BY <1>1, <1>3, <1>4, <1>6, <2>1, <2>2
  <1> QED BY <1>4, <1>5, <1>6

LEMMA OwnAnswerStep == IInv /\ [Next]_vars => OwnAnswer'
  <1> SUFFICES ASSUME IInv, [Next]_vars, NEW d \in MadeCalls' PROVE Own_Answer(d)'
    BY DEF OwnAnswer, Own_Answer
  <1>0. /\ TypeOK /\ SlotsOwn /\ CallsKept /\ CallbacksRun
        /\ given \in [Calls -> Message \cup {NoMessage}]
    BY CallsKeptStep DEF IInv, TypeOK
  <1>1. d \in Calls
    <2>1. TypeOK'
      BY TypeStep
    <2>2. calls' \in Seq(Call) /\ Len(calls') <= MaxCalls
      BY <2>1 DEF TypeOK
    <2>3. DOMAIN calls' = 1 .. Len(calls') /\ Len(calls') \in Nat
      BY <2>2
    <2> QED BY <2>2, <2>3, KnetAssumption DEF MadeCalls, Calls
  <1>2. ASSUME given'[d] = given[d]
        PROVE  Own_Answer(d)'
    <2>1. CASE given[d] # NoMessage
      <3>1. d \in MadeCalls /\ given[d].call \in MadeCalls
        BY <1>0, <1>1, <2>1 DEF CallbacksRun
      <3>2. Own_Answer(d)
        BY <3>1 DEF IInv, OwnAnswer, Own_Answer
      <3>3. calls'[d] = calls[d] /\ calls'[given[d].call] = calls[given[d].call]
        BY <1>0, <3>1 DEF CallsKept
      <3> QED BY <1>2, <2>1, <3>2, <3>3 DEF Own_Answer
    <2>2. CASE given[d] = NoMessage
      BY <1>2, <2>2 DEF Own_Answer, NoMessage
    <2> QED BY <2>1, <2>2
  <1>3. ASSUME NEW s \in Services, NEW c \in slots[s], NEW m \in MessagesTo(s), UNCHANGED calls,
               Key(c) = Key(m.call), given' = [given EXCEPT ![c] = m]
        PROVE  Own_Answer(d)'
    <2>1. c \in Calls
      BY <1>0, SlotIs
    <2>2. given'[d] = given[d] \/ (d = c /\ given'[d] = m)
      BY <1>0, <1>1, <1>3, <2>1
    <2>3. CASE d = c /\ given'[d] = m
      BY <1>3, <2>3, KeyFindsOwn DEF Own_Answer
    <2> QED BY <1>2, <2>2, <2>3
  <1> QED BY <1>2, <1>3, CallbackSteps

----------------------------------------------------------------------------
(* The safety theorems *)

LEMMA TypeInit == Init => TypeOK
  <1> SUFFICES ASSUME Init PROVE TypeOK
    OBVIOUS
  <1>1. /\ seq \in [Services -> 0 .. MaxCalls] /\ life \in [Services -> 0 .. MaxRestarts]
        /\ read \in [Services -> Nat] /\ committed \in [Services -> Nat]
        /\ handled \in [Services -> Nat] /\ answers \in [Calls -> 0 .. MaxAnswers]
        /\ lost \in 0 .. MaxLost /\ dups \in 0 .. MaxDup
        /\ inHand \in [Services -> BOOLEAN]
    BY KnetAssumption DEF Init
  <1>2. /\ slots \in [Services -> SUBSET Calls] /\ timers \in [Services -> SUBSET Calls]
        /\ armed \in [Services -> SUBSET Calls] /\ held \in [Services -> SUBSET Calls]
        /\ phase \in [Services -> {"timers", "msgs"}]
    BY DEF Init
  <1>3. /\ due \in [Services -> Seq(Calls)] /\ hdls \in [Services -> Seq(Calls)]
        /\ recvd \in [Services -> Seq(Message)] /\ msgs \in [Services -> Seq(Message)]
        /\ outbox \in [Services -> Seq(Message)] /\ topic \in [Services -> Seq(Message)]
    BY DEF Init
  <1>4. /\ cbs \in [Calls -> Seq({"success", "timeout"})]
        /\ given \in [Calls -> Message \cup {NoMessage}]
    BY DEF Init
  <1>5. calls \in Seq(Call) /\ Len(calls) <= MaxCalls
    <2>1. calls = << >>
      BY DEF Init
    <2> QED BY <2>1, KnetAssumption
  <1> QED BY <1>1, <1>2, <1>3, <1>4, <1>5 DEF TypeOK

LEMMA InvInit == Init => IInv
  <1> SUFFICES ASSUME Init PROVE IInv
    OBVIOUS
  <1>1. calls = << >> /\ MadeCalls = {}
    BY DEF Init, MadeCalls
  <1>2. CallsNumbered
    <2>1. Len(calls) = 0 /\ \A s \in Services : seq[s] = 0
      BY <1>1 DEF Init
    <2> QED BY <1>1, <2>1 DEF CallsNumbered
  <1>3. Addressed
    BY <1>1 DEF Init, Addressed
  <1>4. SlotsOwn /\ CallbacksRun
    BY <1>1 DEF Init, SlotsOwn, CallbacksRun, NoMessage
  <1>5. QueueSwapped /\ NoTimerStranded
    BY DEF Init, QueueSwapped, NoTimerStranded
  <1>6. ReadOnce
    BY DEF Init, ReadOnce
  <1>7. OwnAnswer
    BY <1>1 DEF OwnAnswer
  <1> QED BY <1>2, <1>3, <1>4, <1>5, <1>6, <1>7, TypeInit DEF IInv

LEMMA InvNext == IInv /\ [Next]_vars => IInv'
  BY TypeStep, NumberedStep, AddressedStep, SlotsStep, CallbacksStep, TimersStep, OnceStep,
     OwnAnswerStep DEF IInv

LEMMA Invariance == Spec => []IInv
  BY InvInit, InvNext, PTL DEF Spec

\* The calls, the queues between the four threads and the callbacks keep
\* their types, and no number, position or count leaves its bound.
THEOREM TypeCorrect == Spec => []TypeOK
  <1>1. IInv => TypeOK
    BY DEF IInv
  <1> QED BY <1>1, Invariance, PTL

\* No hand-over between asio's handlers, CB_Event and TimerManager::Tick loses
\* the timer of a call.
THEOREM NoTimerStrandedCorrect == Spec => []NoTimerStranded
  <1>1. IInv => NoTimerStranded
    BY DEF IInv
  <1> QED BY <1>1, Invariance, PTL

\* RpcReceviedMsg gives a success callback the answer to its own call, or to
\* one that bore the same key in an earlier life of the service.
THEOREM OwnAnswerCorrect == Spec => []OwnAnswer
  <1>1. IInv => OwnAnswer
    BY DEF IInv
  <1> QED BY <1>1, Invariance, PTL

\* Consumer::ThreadRun commits after every message: a restart repeats one at
\* most.
THEOREM RedeliveryBoundedCorrect == Spec => []RedeliveryBounded
  <1>1. IInv => RedeliveryBounded
    <2> SUFFICES ASSUME IInv, NEW s \in Services
                 PROVE  handled[s] <= Len(topic[s]) + life[s]
      BY DEF RedeliveryBounded
    <2>1. /\ handled[s] \in Nat /\ Len(msgs[s]) \in Nat /\ Len(recvd[s]) \in Nat
          /\ read[s] \in Nat /\ life[s] \in Nat /\ Len(topic[s]) \in Nat
      <3>1. /\ handled \in [Services -> Nat] /\ read \in [Services -> Nat]
            /\ life \in [Services -> 0 .. MaxRestarts]
            /\ msgs \in [Services -> Seq(Message)] /\ recvd \in [Services -> Seq(Message)]
            /\ topic \in [Services -> Seq(Message)] /\ MaxRestarts \in Nat
        BY KnetAssumption DEF IInv, TypeOK
      <3> QED BY <3>1
    <2>2. /\ handled[s] + Len(msgs[s]) + Len(recvd[s]) <= read[s] + life[s]
          /\ read[s] <= Len(topic[s])
      BY DEF IInv, ReadOnce
    <2>3. \A h, m, r, p, l, n \in Nat : h + m + r <= p + l /\ p <= n => h <= n + l
      OBVIOUS
    <2> QED BY <2>1, <2>2, <2>3
  <1> QED BY <1>1, Invariance, PTL

----------------------------------------------------------------------------
(* OnlyPromisedCallbacks *)

outcomes == [c \in Calls |-> outcomeOf(c)]
timedCalls == {c \in MadeCalls : calls[c].kind = "timed"}
deadCalls == {c \in MadeCalls : ~ Alive(c)}

\* What the callbacks that ran say of a call.
LEMMA OutcomeIs ==
  ASSUME NEW c
  PROVE  /\ c \notin MadeCalls => outcomeOf(c) = "unmade"
         /\ c \in MadeCalls =>
               /\ cbs[c] = << >> => outcomeOf(c) = "pending"
               /\ cbs[c] = <<"success">> => outcomeOf(c) = "answered"
               /\ cbs[c] = <<"timeout">> => outcomeOf(c) = "timedOut"
               /\ cbs[c] = <<"timeout", "success">> => outcomeOf(c) = "late"
  <1>1. /\ << >> # <<"success">> /\ << >> # <<"timeout">> /\ << >> # <<"timeout", "success">>
        /\ <<"success">> # <<"timeout">> /\ <<"success">> # <<"timeout", "success">>
        /\ <<"timeout">> # <<"timeout", "success">>
    OBVIOUS
  <1> QED BY <1>1 DEF outcomeOf

\* The same in the next state.
LEMMA OutcomeWillBe ==
  ASSUME NEW c, c \in MadeCalls'
  PROVE  /\ cbs'[c] = <<"success">> => outcomeOf(c)' = "answered"
         /\ cbs'[c] = <<"timeout">> => outcomeOf(c)' = "timedOut"
         /\ cbs'[c] = <<"timeout", "success">> => outcomeOf(c)' = "late"
  <1>1. /\ << >> # <<"success">> /\ << >> # <<"timeout">> /\ << >> # <<"timeout", "success">>
        /\ <<"success">> # <<"timeout">> /\ <<"success">> # <<"timeout", "success">>
        /\ <<"timeout">> # <<"timeout", "success">>
    OBVIOUS
  <1> QED BY <1>1 DEF outcomeOf

\* A new call becomes pending, and the others stay what they are.
LEMMA MakeStep ==
  ASSUME IInv, NEW k \in Calls, k \notin MadeCalls, NEW r,
         MadeCalls' = MadeCalls \cup {k}, calls'[k] = r,
         r.life = life[r.from],
         \A c \in MadeCalls : calls'[c] = calls[c],
         UNCHANGED <<life, cbs>>
  PROVE  /\ outcomes[k] = "unmade"
         /\ outcomes' = [outcomes EXCEPT ![k] = "pending"]
         /\ timedCalls' \in {timedCalls, timedCalls \cup {k}}
         /\ UNCHANGED deadCalls
  <1>1. cbs[k] = << >>
    BY DEF IInv, CallbacksRun
  <1>2. outcomeOf(k) = "unmade"
    BY OutcomeIs
  <1>3. outcomeOf(k)' = "pending"
    BY <1>1 DEF outcomeOf
  <1>4. ASSUME NEW c \in Calls, c # k
        PROVE  outcomeOf(c)' = outcomeOf(c)
    BY <1>4 DEF outcomeOf
  <1>5. outcomes' = [outcomes EXCEPT ![k] = "pending"]
    BY <1>3, <1>4 DEF outcomes
  <1>6. timedCalls' \in {timedCalls, timedCalls \cup {k}}
    <2>1. \A c \in MadeCalls : c # k
      OBVIOUS
    <2>2. CASE r.kind = "timed"
      BY <2>1, <2>2 DEF timedCalls
    <2>3. CASE r.kind # "timed"
      BY <2>1, <2>3 DEF timedCalls
    <2> QED BY <2>2, <2>3
  <1>7. UNCHANGED deadCalls
    <2>1. Alive(k)' /\ \A c \in MadeCalls : Alive(c)' <=> Alive(c)
      BY DEF Alive
    <2> QED BY <2>1 DEF deadCalls
  <1> QED BY <1>2, <1>5, <1>6, <1>7 DEF outcomes

LEMMA PromiseStep ==
  ASSUME IInv, [Next]_vars
  PROVE  [Promise!Next]_(Promise!vars)
  <1> DEFINE Out(c) == outcomeOf(c)
  <1>0. TypeOK /\ SlotsOwn /\ CallsNumbered /\ cbs \in [Calls -> Seq({"success", "timeout"})]
    BY DEF IInv, TypeOK
  <1>a. ASSUME NEW k \in Calls, outcomes[k] = "unmade",
               outcomes' = [outcomes EXCEPT ![k] = "pending"],
               timedCalls' \in {timedCalls, timedCalls \cup {k}}, UNCHANGED deadCalls
        PROVE  [Promise!Next]_(Promise!vars)
    BY <1>a DEF Promise!Next, Promise!Make, outcomes, timedCalls, deadCalls
  <1>1. ASSUME NEW s \in Callers, NEW to \in Services, NEW kind \in Kinds, AsyncRPC(s, to, kind)
        PROVE  [Promise!Next]_(Promise!vars)
    <2> DEFINE k == Len(calls) + 1
               r == [from |-> s, to |-> to, num |-> seq[s] + 1, kind |-> kind, life |-> life[s]]
    <2>1. /\ k \notin MadeCalls /\ k \in Calls /\ MadeCalls' = MadeCalls \cup {k}
          /\ calls'[k] = r /\ \A c \in MadeCalls : calls'[c] = calls[c]
          /\ UNCHANGED <<life, cbs>>
      BY <1>1, AsyncRPCIs
    <2>2. r.life = life[r.from]
      OBVIOUS
    <2> HIDE DEF k, r
    <2> QED BY <1>a, <2>1, <2>2, MakeStep
  <1>2. ASSUME NEW s \in Callers, NEW to \in Services, RouteMessage(s, to)
        PROVE  [Promise!Next]_(Promise!vars)
    <2> DEFINE k == Len(calls) + 1
               r == [from |-> s, to |-> to, num |-> 0, kind |-> "route", life |-> life[s]]
    <2>1. /\ k \notin MadeCalls /\ k \in Calls /\ MadeCalls' = MadeCalls \cup {k}
          /\ calls'[k] = r /\ \A c \in MadeCalls : calls'[c] = calls[c]
          /\ UNCHANGED <<life, cbs>>
      BY <1>2, RouteIs
    <2>2. r.life = life[r.from]
      OBVIOUS
    <2> HIDE DEF k, r
    <2> QED BY <1>a, <2>1, <2>2, MakeStep
  <1>3. ASSUME NEW s \in Services, Restart(s)
        PROVE  [Promise!Next]_(Promise!vars)
    <2> DEFINE cs == {c \in MadeCalls : calls[c].from = s}
    <2>1. /\ UNCHANGED <<calls, cbs>> /\ life' = [life EXCEPT ![s] = @ + 1]
          /\ life \in [Services -> 0 .. MaxRestarts]
      BY <1>0, <1>3 DEF Restart, outcomeVars, TypeOK
    <2>2. UNCHANGED <<MadeCalls, outcomes, timedCalls>>
      BY <2>1 DEF MadeCalls, outcomes, outcomeOf, timedCalls
    <2>3. ASSUME NEW c \in cs
          PROVE  ~ Alive(c)' /\ outcomeOf(c) # "unmade" /\ c \in Calls
      <3>1. c \in MadeCalls /\ calls[c].from = s /\ c \in Calls
        BY <1>0, CallIs
      <3>2. calls[c].life <= life[s] /\ calls[c].life \in Nat
        BY <1>0, <3>1, CallIs DEF CallsNumbered
      <3>3. life'[s] = life[s] + 1 /\ life[s] \in Nat
        BY <2>1
      <3>4. ~ Alive(c)'
        BY <2>1, <3>1, <3>2, <3>3 DEF Alive
      <3>5. outcomeOf(c) # "unmade"
        BY <3>1 DEF outcomeOf
      <3> QED BY <3>1, <3>4, <3>5
    <2>4. ASSUME NEW c \in MadeCalls, c \notin cs
          PROVE  Alive(c)' <=> Alive(c)
      <3>1. calls[c].from # s /\ calls[c].from \in Services
        BY <1>0, <2>4, CallIs
      <3> QED BY <2>1, <3>1 DEF Alive
    <2>5. cs \in SUBSET Calls /\ cs \subseteq MadeCalls
      BY <2>3
    <2> HIDE DEF cs
    <2>6. deadCalls' = deadCalls \cup cs
      BY <2>2, <2>3, <2>4, <2>5 DEF deadCalls
    <2>7. \A c \in cs : outcomes[c] # "unmade"
      BY <2>3, <2>5 DEF outcomes
    <2> QED BY <2>2, <2>5, <2>6, <2>7
            DEF Promise!Next, Promise!Die, outcomes, timedCalls, deadCalls
  <1>4. ASSUME UNCHANGED <<calls, life>>, UNCHANGED cbs
        PROVE  [Promise!Next]_(Promise!vars)
    <2>1. \A c : outcomeOf(c)' = outcomeOf(c)
      BY <1>4 DEF outcomeOf, MadeCalls
    <2>2. UNCHANGED outcomes /\ UNCHANGED timedCalls /\ UNCHANGED deadCalls
      BY <1>4, <2>1 DEF outcomes, timedCalls, deadCalls, Alive, MadeCalls
    <2> QED BY <2>2 DEF Promise!vars, outcomes, timedCalls, deadCalls
  <1>5. ASSUME UNCHANGED <<calls, life>>, NEW d \in MadeCalls, d \in Calls, NEW x,
               cbs' = [cbs EXCEPT ![d] = x]
        PROVE  /\ \A c \in Calls : c # d => outcomeOf(c)' = outcomeOf(c)
               /\ cbs'[d] = x /\ d \in MadeCalls'
               /\ UNCHANGED timedCalls /\ UNCHANGED deadCalls
    <2>1. \A c \in Calls : c # d => cbs'[c] = cbs[c]
      BY <1>0, <1>5
    <2>2. MadeCalls' = MadeCalls /\ \A c : Alive(c)' <=> Alive(c)
      BY <1>5 DEF MadeCalls, Alive
    <2>3. \A c \in Calls : c # d => outcomeOf(c)' = outcomeOf(c)
      BY <2>1, <2>2 DEF outcomeOf
    <2> QED BY <1>0, <1>5, <2>2, <2>3 DEF timedCalls, deadCalls
  <1>6. ASSUME UNCHANGED <<calls, life>>, NEW s \in Services, NEW c \in timers[s],
               cbs' = [cbs EXCEPT ![c] = Append(@, "timeout")]
        PROVE  [Promise!Next]_(Promise!vars)
    <2>1. c \in MadeCalls /\ c \in Calls /\ Alive(c) /\ cbs[c] = << >> /\ calls[c].kind = "timed"
      BY <1>0, SlotIs DEF Alive
    <2>2. cbs' = [cbs EXCEPT ![c] = <<"timeout">>]
      BY <1>6, <2>1
    <2>3. outcomeOf(c) = "pending"
      BY <2>1, OutcomeIs
    <2>4. /\ \A x \in Calls : x # c => outcomeOf(x)' = outcomeOf(x)
          /\ cbs'[c] = <<"timeout">> /\ c \in MadeCalls'
          /\ UNCHANGED timedCalls /\ UNCHANGED deadCalls
      BY <1>5, <1>6, <2>1, <2>2
    <2>5. outcomeOf(c)' = "timedOut"
      BY <2>4, OutcomeWillBe
    <2>6. outcomes' = [outcomes EXCEPT ![c] = "timedOut"] /\ outcomes[c] = "pending"
      BY <2>1, <2>3, <2>4, <2>5 DEF outcomes
    <2>7. c \in timedCalls \ deadCalls
      BY <2>1 DEF timedCalls, deadCalls
    <2> QED BY <2>1, <2>4, <2>6, <2>7
            DEF Promise!Next, Promise!TimeOut, outcomes, timedCalls, deadCalls
  <1>7. ASSUME UNCHANGED <<calls, life>>, NEW s \in Services, NEW c \in slots[s],
               cbs' = [cbs EXCEPT ![c] = Append(@, "success")]
        PROVE  [Promise!Next]_(Promise!vars)
    <2>1. c \in MadeCalls /\ c \in Calls /\ Alive(c) /\ cbs[c] \in {<< >>, <<"timeout">>}
      BY <1>0, SlotIs DEF Alive
    <2>2. /\ \A x \in Calls : x # c => outcomeOf(x)' = outcomeOf(x)
          /\ cbs'[c] = Append(cbs[c], "success") /\ c \in MadeCalls'
          /\ UNCHANGED timedCalls /\ UNCHANGED deadCalls
      BY <1>5, <1>7, <2>1
    <2>3. \/ outcomes[c] = "pending" /\ outcomes' = [outcomes EXCEPT ![c] = "answered"]
          \/ outcomes[c] = "timedOut" /\ outcomes' = [outcomes EXCEPT ![c] = "late"]
      <3>1. CASE cbs[c] = << >>
        <4>1. cbs'[c] = <<"success">>
          BY <2>2, <3>1
        <4>2. outcomeOf(c) = "pending" /\ outcomeOf(c)' = "answered"
          BY <2>1, <2>2, <3>1, <4>1, OutcomeIs, OutcomeWillBe
        <4> QED BY <2>1, <2>2, <4>2 DEF outcomes
      <3>2. CASE cbs[c] = <<"timeout">>
        <4>1. cbs'[c] = <<"timeout", "success">>
          BY <2>2, <3>2, TimeoutThenSuccess
        <4>2. outcomeOf(c) = "timedOut"
          BY <2>1, <3>2, OutcomeIs
        <4>3. outcomeOf(c)' = "late"
          BY <2>2, <4>1, OutcomeWillBe
        <4> QED BY <2>1, <2>2, <4>2, <4>3 DEF outcomes
      <3> QED BY <2>1, <3>1, <3>2
    <2>4. /\ outcomes[c] \in {"pending", "timedOut"}
          /\ outcomes' = [outcomes EXCEPT ![c] = IF @ = "pending" THEN "answered" ELSE "late"]
      BY <2>1, <2>3 DEF outcomes
    <2>5. c \notin deadCalls
      BY <2>1 DEF deadCalls
    <2> QED BY <2>1, <2>2, <2>4, <2>5
            DEF Promise!Next, Promise!Answer, Promise!Open, outcomes, timedCalls, deadCalls
  <1>8. CASE UNCHANGED <<calls, life, seq>>
    BY <1>4, <1>6, <1>7, <1>8, CallbackSteps
  <1> QED BY <1>1, <1>2, <1>3, <1>8, CallsStable

\* Every step of the services, whatever the broker loses or repeats, is one
\* that RpcPromise allows: RPCManager and TimerManager together never run a
\* callback that was not promised, nor one of a call whose caller has died.
THEOREM PromiseImplemented == Spec => OnlyPromisedCallbacks
  <1>1. Init => Promise!Init
    <2> SUFFICES ASSUME Init PROVE Promise!Init
      OBVIOUS
    <2>1. MadeCalls = {}
      BY DEF Init, MadeCalls
    <2>2. \A c : outcomeOf(c) = "unmade"
      BY <2>1 DEF outcomeOf
    <2> QED BY <2>1, <2>2 DEF Promise!Init
  <1>2. IInv /\ [Next]_vars => [Promise!Next]_(Promise!vars)
    BY PromiseStep
  <1> QED BY <1>1, <1>2, Invariance, PTL DEF Spec, OnlyPromisedCallbacks
============================================================================
