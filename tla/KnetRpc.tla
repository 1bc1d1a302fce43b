------------------------------ MODULE KnetRpc ------------------------------
(***************************************************************************)
(* Remote calls between services over Kafka (src/knet).                    *)
(*                                                                         *)
(* Every service owns one topic.  Four threads share a service's state:    *)
(*   - the main thread makes calls, answers requests and runs              *)
(*     UniformNetwork::Tick, i.e. TimerManager::Tick, RPCManager::Tick;    *)
(*   - the event thread runs the asio handlers of the timers;              *)
(*   - the send thread moves messages from the outbox to the broker;       *)
(*   - the consumer thread takes messages off the service's topic, hands   *)
(*     them to RPCManager::CB_ReceviedMsg and commits.                     *)
(* A callback of the main thread may itself make calls: the actions of the *)
(* application are enabled between any two steps of Tick.                  *)
(*                                                                         *)
(* Requests and answers are told apart by their key only: the answer to a  *)
(* call carries the key of the request, and a message whose key is in      *)
(* m_slots is taken for the answer.                                        *)
(***************************************************************************)
EXTENDS Integers, Sequences, FiniteSets

CONSTANTS
    Services,
    Callers,       \* the services whose application makes calls
    Kinds,         \* "timed", "plain": a context with, without a timeout;
                   \* "none": a null context; "route": RouteMessage
    KeyOf(_, _),   \* service id + to_string(number)
    MaxCalls,      \* bound: calls and routed messages, over all services
    MaxAnswers,    \* bound: answers the application sends to one request
    MaxRestarts,   \* bound: restarts, over all services
    MaxLost,       \* bound: messages the producer or the broker loses
    MaxDup         \* bound: messages the broker stores twice

Calls == 1 .. MaxCalls

ASSUME KnetAssumption ==
    /\ Callers \subseteq Services
    /\ Kinds \subseteq {"timed", "plain", "none", "route"}
    /\ \A n \in {MaxCalls, MaxAnswers, MaxRestarts, MaxLost, MaxDup} : n \in Nat

\* Ids whose concatenations with numbers collide ("a1" + "1", "a" + "11")
\* make one service's request look like the answer to another's call.
ASSUME KeyAssumption ==
    \A s, t \in Services : \A m, n \in 0 .. MaxCalls :
        KeyOf(s, m) = KeyOf(t, n) => s = t /\ m = n

VARIABLES
    seq,        \* m_key_sequence_id
    slots,      \* m_slots: the calls that wait for an answer
    timers,     \* TimerManager::m_timers: the call each live timer is for
    armed,      \* the asio waits of the event thread
    due,        \* m_timeout_timers
    hdls,       \* TimerManager::Tick: the queue it swapped out
    recvd,      \* m_received_msgs
    msgs,       \* ProcessMsg: the queue it swapped out
    phase,      \* the loop the main thread is in
    held,       \* the ReceivedMsgCtx the application keeps
    outbox,     \* Producer::m_queue
    topic,      \* what the broker has stored, per service
    read,       \* the consumer's position in the topic
    inHand,     \* ThreadRun has a message that it has not committed yet
    committed   \* the position the broker keeps for the group; 0: none

\* History: the calls made, the times each service started anew, the
\* callbacks each call has run, the message its success callback was given,
\* the requests each service has handed to its handler, the answers to each
\* call, and the messages lost and duplicated so far.
VARIABLES calls, life, cbs, given, handled, answers, lost, dups

timerVars   == <<timers, armed, due, hdls>>
mainVars    == <<msgs, phase, held>>
brokerVars  == <<topic, read, inHand, committed, lost, dups>>
outcomeVars == <<cbs, given, handled>>
vars == <<seq, slots, timers, armed, due, hdls, recvd, msgs, phase, held,
          outbox, topic, read, inHand, committed, calls, life, cbs, given, handled,
          answers, lost, dups>>

----------------------------------------------------------------------------
Message == [call : Calls, body : {"request", "answer"}]
NoMessage == [call |-> 0, body |-> "none"]

Key(c) == KeyOf(calls[c].from, calls[c].num)

\* Message::m_to_sid of a request and of its answer.
ToSID(m) == IF m.body = "request" THEN calls[m.call].to ELSE calls[m.call].from

\* m_slots.find(msg->GetKey())
Matching(s, k) == {c \in slots[s] : Key(c) = k}

Init ==
    /\ seq = [s \in Services |-> 0]
    /\ slots = [s \in Services |-> {}]
    /\ timers = [s \in Services |-> {}]
    /\ armed = [s \in Services |-> {}]
    /\ due = [s \in Services |-> << >>]
    /\ hdls = [s \in Services |-> << >>]
    /\ recvd = [s \in Services |-> << >>]
    /\ msgs = [s \in Services |-> << >>]
    /\ phase = [s \in Services |-> "msgs"]
    /\ held = [s \in Services |-> {}]
    /\ outbox = [s \in Services |-> << >>]
    /\ topic = [s \in Services |-> << >>]
    /\ read = [s \in Services |-> 0]
    /\ inHand = [s \in Services |-> FALSE]
    /\ committed = [s \in Services |-> 0]
    /\ calls = << >>
    /\ life = [s \in Services |-> 0]
    /\ cbs = [c \in Calls |-> << >>]
    /\ given = [c \in Calls |-> NoMessage]
    /\ handled = [s \in Services |-> 0]
    /\ answers = [c \in Calls |-> 0]
    /\ lost = 0
    /\ dups = 0

----------------------------------------------------------------------------
(* The application, on the main thread. *)

\* Producer::SendTo
SendTo(s, m) == outbox' = [outbox EXCEPT ![s] = Append(@, m)]

\* Mutant: the number does not grow from call to call.
NextKey_Stuck(s) == 1
NextKey(s) == seq[s] + 1

NewCall(s, to, n, kind) ==
    /\ Len(calls) < MaxCalls
    /\ to # s
    /\ calls' = Append(calls, [from |-> s, to |-> to, num |-> n,
                               kind |-> kind, life |-> life[s]])
    /\ SendTo(s, [call |-> Len(calls) + 1, body |-> "request"])

\* The slot is not inserted over one that has the same key; the timer is
\* started in any case.
AppendRPCContext(s, c, k, kind) ==
    /\ slots' = IF kind \in {"timed", "plain"} /\ Matching(s, k) = {}
                THEN [slots EXCEPT ![s] = @ \cup {c}]
                ELSE slots
    /\ IF kind = "timed"
       THEN /\ timers' = [timers EXCEPT ![s] = @ \cup {c}]
            /\ armed' = [armed EXCEPT ![s] = @ \cup {c}]
       ELSE UNCHANGED <<timers, armed>>

AsyncRPC(s, to, kind) ==
    /\ kind # "route"
    /\ NewCall(s, to, NextKey(s), kind)
    /\ seq' = [seq EXCEPT ![s] = NextKey(s)]
    /\ AppendRPCContext(s, Len(calls) + 1, KeyOf(s, NextKey(s)), kind)
    /\ UNCHANGED <<due, hdls, recvd, mainVars, brokerVars, life, outcomeVars, answers>>

RouteMessage(s, to) ==
    /\ "route" \in Kinds
    /\ NewCall(s, to, 0, "route")
    /\ UNCHANGED <<seq, slots, timerVars, recvd, mainVars, brokerVars, life,
                   outcomeVars, answers>>

\* ReceivedMsgCtx::SendResponse; nothing stops a second answer.
RPCResponse(s, c) ==
    /\ c \in held[s]
    /\ answers[c] < MaxAnswers
    /\ answers' = [answers EXCEPT ![c] = @ + 1]
    /\ SendTo(s, [call |-> c, body |-> "answer"])
    /\ UNCHANGED <<seq, slots, timerVars, recvd, mainVars, brokerVars, calls,
                   life, outcomeVars>>

----------------------------------------------------------------------------
(* UniformNetwork::Tick, on the main thread. *)

\* TimerManager::Tick: take the queue of expired timers.
\* Mutant: the queue is copied after the lock is released and loses a timer.
Swapped_LosesOne(q) == IF Len(q) > 1 THEN Tail(q) ELSE q
Swapped(q) == q

TimerSwap(s) ==
    /\ phase[s] = "msgs"
    /\ msgs[s] = << >>
    /\ hdls' = [hdls EXCEPT ![s] = Swapped(due[s])]
    /\ due' = [due EXCEPT ![s] = << >>]
    /\ phase' = [phase EXCEPT ![s] = "timers"]
    /\ UNCHANGED <<seq, slots, timers, armed, recvd, msgs, held, outbox,
                   brokerVars, calls, life, outcomeVars, answers>>

\* One round of its loop: a weak_ptr that can be locked is a live timer.
\* The slot of the call stays where it is.
\* Mutant: the slot goes with the timer.
TimerStep_ErasesSlot(s) ==
    /\ phase[s] = "timers"
    /\ hdls[s] # << >>
    /\ LET c == Head(hdls[s]) IN
       IF c \in timers[s]
       THEN /\ cbs' = [cbs EXCEPT ![c] = Append(@, "timeout")]
            /\ timers' = [timers EXCEPT ![s] = @ \ {c}]
            /\ slots' = [slots EXCEPT ![s] = @ \ {c}]
       ELSE UNCHANGED <<cbs, timers, slots>>
    /\ hdls' = [hdls EXCEPT ![s] = Tail(@)]
    /\ UNCHANGED <<seq, armed, due, recvd, mainVars, outbox, brokerVars,
                   calls, life, given, handled, answers>>
TimerStep(s) ==
    /\ phase[s] = "timers"
    /\ hdls[s] # << >>
    /\ LET c == Head(hdls[s]) IN
       IF c \in timers[s]
       THEN /\ cbs' = [cbs EXCEPT ![c] = Append(@, "timeout")]
            /\ timers' = [timers EXCEPT ![s] = @ \ {c}]
       ELSE UNCHANGED <<cbs, timers>>
    /\ hdls' = [hdls EXCEPT ![s] = Tail(@)]
    /\ UNCHANGED <<seq, slots, armed, due, recvd, mainVars, outbox, brokerVars,
                   calls, life, given, handled, answers>>

\* RPCManager::ProcessMsg: take the queue of received messages.
RpcSwap(s) ==
    /\ phase[s] = "timers"
    /\ hdls[s] = << >>
    /\ msgs' = [msgs EXCEPT ![s] = recvd[s]]
    /\ recvd' = [recvd EXCEPT ![s] = << >>]
    /\ phase' = [phase EXCEPT ![s] = "msgs"]
    /\ UNCHANGED <<seq, slots, timerVars, held, outbox, brokerVars, calls, life,
                   outcomeVars, answers>>

\* TimerManager::CancelTimer.  The asio wait may have completed already, its
\* handler then runs all the same.
CancelTimer(s, c) ==
    /\ armed' \in {armed, [armed EXCEPT ![s] = @ \ {c}]}
    /\ timers' = [timers EXCEPT ![s] = @ \ {c}]

\* RpcReceviedMsg, a key that is in m_slots: callback, timer, slot.
\* Mutant: the slot is never erased.
Answered_KeepsSlot(s, c, m) ==
    /\ cbs' = [cbs EXCEPT ![c] = Append(@, "success")]
    /\ given' = [given EXCEPT ![c] = m]
    /\ CancelTimer(s, c)
    /\ UNCHANGED <<slots, held, handled>>
Answered(s, c, m) ==
    /\ cbs' = [cbs EXCEPT ![c] = Append(@, "success")]
    /\ given' = [given EXCEPT ![c] = m]
    /\ CancelTimer(s, c)
    /\ slots' = [slots EXCEPT ![s] = @ \ {c}]
    /\ UNCHANGED <<held, handled>>

\* NormalReceviedMsg: requests have a handler, answers have none.
NormalReceviedMsg(s, m) ==
    /\ IF m.body = "request"
       THEN /\ held' = [held EXCEPT ![s] = @ \cup {m.call}]
            /\ handled' = [handled EXCEPT ![s] = @ + 1]
       ELSE UNCHANGED <<held, handled>>
    /\ UNCHANGED <<slots, timers, armed, cbs, given>>

RpcReceviedMsg(s) ==
    /\ phase[s] = "msgs"
    /\ msgs[s] # << >>
    /\ LET m == Head(msgs[s])
           found == Matching(s, Key(m.call))
       IN  IF found = {} THEN NormalReceviedMsg(s, m)
           ELSE \E c \in found : Answered(s, c, m)
    /\ msgs' = [msgs EXCEPT ![s] = Tail(@)]
    /\ UNCHANGED <<seq, due, hdls, recvd, phase, outbox, brokerVars, calls,
                   life, answers>>

----------------------------------------------------------------------------
(* The other threads of a service, and the broker. *)

\* EventManager's asio handler, then TimerManager::CB_Event.
CB_Event(s, c) ==
    /\ c \in armed[s]
    /\ armed' = [armed EXCEPT ![s] = @ \ {c}]
    /\ due' = [due EXCEPT ![s] = Append(@, c)]
    /\ UNCHANGED <<seq, slots, timers, hdls, recvd, mainVars, outbox,
                   brokerVars, calls, life, outcomeVars, answers>>

\* Producer::StartSendThread.  produce() may fail, and librdkafka may store a
\* message twice when it retries.
StartSendThread(s) ==
    /\ outbox[s] # << >>
    /\ outbox' = [outbox EXCEPT ![s] = Tail(@)]
    /\ LET m == Head(outbox[s])
           to == ToSID(m)
       IN  \/ /\ topic' = [topic EXCEPT ![to] = Append(@, m)]
              /\ UNCHANGED <<lost, dups>>
           \/ /\ lost < MaxLost
              /\ lost' = lost + 1
              /\ UNCHANGED <<topic, dups>>
           \/ /\ dups < MaxDup
              /\ dups' = dups + 1
              /\ topic' = [topic EXCEPT ![to] = @ \o <<m, m>>]
              /\ UNCHANGED lost
    /\ UNCHANGED <<seq, slots, timerVars, recvd, mainVars, read, inHand, committed,
                   calls, life, outcomeVars, answers>>

\* Consumer::ThreadRun: consume and CB_ReceviedMsg, then commitSync.
Consume(s) ==
    /\ ~ inHand[s]
    /\ read[s] < Len(topic[s])
    /\ inHand' = [inHand EXCEPT ![s] = TRUE]
    /\ read' = [read EXCEPT ![s] = @ + 1]
    /\ recvd' = [recvd EXCEPT ![s] = Append(@, topic[s][read[s] + 1])]
    /\ UNCHANGED <<seq, slots, timerVars, mainVars, outbox, topic, committed,
                   lost, dups, calls, life, outcomeVars, answers>>

CommitSync(s) ==
    /\ inHand[s]
    /\ inHand' = [inHand EXCEPT ![s] = FALSE]
    /\ committed' = [committed EXCEPT ![s] = read[s]]
    /\ UNCHANGED <<seq, slots, timerVars, recvd, mainVars, outbox, topic, read,
                   lost, dups, calls, life, outcomeVars, answers>>

\* Init assigns the partition without a position: the consumer goes on where
\* the group has committed, and at the end of the topic if it never has
\* (auto.offset.reset is left at its default).
\* Mutant: it starts at the beginning of the topic.
StartPosition_Earliest(s) == 0
StartPosition(s) == IF committed[s] = 0 THEN Len(topic[s]) ELSE committed[s]

\* The slots of a new RPCManager.  Mutant: they outlive the service.
StartSlots_Kept(s) == slots[s]
StartSlots(s) == {}

\* The process dies and starts again: everything but the broker's state is
\* gone, the sequence number included.
Restart(s) ==
    /\ \A t \in Services : t # s => life[t] + life[s] < MaxRestarts
    /\ life[s] < MaxRestarts
    /\ life' = [life EXCEPT ![s] = @ + 1]
    /\ seq' = [seq EXCEPT ![s] = 0]
    /\ slots' = [slots EXCEPT ![s] = StartSlots(s)]
    /\ timers' = [timers EXCEPT ![s] = {}]
    /\ armed' = [armed EXCEPT ![s] = {}]
    /\ due' = [due EXCEPT ![s] = << >>]
    /\ hdls' = [hdls EXCEPT ![s] = << >>]
    /\ recvd' = [recvd EXCEPT ![s] = << >>]
    /\ msgs' = [msgs EXCEPT ![s] = << >>]
    /\ phase' = [phase EXCEPT ![s] = "msgs"]
    /\ held' = [held EXCEPT ![s] = {}]
    /\ outbox' = [outbox EXCEPT ![s] = << >>]
    /\ read' = [read EXCEPT ![s] = StartPosition(s)]
    /\ inHand' = [inHand EXCEPT ![s] = FALSE]
    /\ UNCHANGED <<topic, committed, lost, dups, calls, outcomeVars, answers>>

Tick(s) == TimerSwap(s) \/ TimerStep(s) \/ RpcSwap(s) \/ RpcReceviedMsg(s)

Next ==
    \/ \E s \in Callers, to \in Services :
         \/ \E kind \in Kinds : AsyncRPC(s, to, kind)
         \/ RouteMessage(s, to)
    \/ \E s \in Services :
         \/ \E c \in Calls : RPCResponse(s, c) \/ CB_Event(s, c)
         \/ Tick(s)
         \/ StartSendThread(s)
         \/ Consume(s)
         \/ CommitSync(s)
         \/ Restart(s)

Spec == Init /\ [][Next]_vars

\* The main loop of the tests calls Tick for ever and fun100 answers every
\* request; the other threads run as long as the process; timers expire.
Fairness ==
    \A s \in Services :
        /\ WF_vars(Tick(s))
        /\ WF_vars(StartSendThread(s))
        /\ WF_vars(Consume(s) \/ CommitSync(s))
        /\ \A c \in Calls : WF_vars(CB_Event(s, c)) /\ WF_vars(RPCResponse(s, c))

FairSpec == Spec /\ Fairness

----------------------------------------------------------------------------
MadeCalls == DOMAIN calls
Alive(c) == calls[c].life = life[calls[c].from]
InQueue(q) == {q[i] : i \in DOMAIN q}

Call == [from : Callers, to : Services, num : 0 .. MaxCalls,
         kind : Kinds, life : 0 .. MaxRestarts]

TypeOK ==
    /\ seq \in [Services -> 0 .. MaxCalls]
    /\ slots \in [Services -> SUBSET Calls]
    /\ timers \in [Services -> SUBSET Calls]
    /\ armed \in [Services -> SUBSET Calls]
    /\ held \in [Services -> SUBSET Calls]
    /\ due \in [Services -> Seq(Calls)]
    /\ hdls \in [Services -> Seq(Calls)]
    /\ recvd \in [Services -> Seq(Message)]
    /\ msgs \in [Services -> Seq(Message)]
    /\ outbox \in [Services -> Seq(Message)]
    /\ topic \in [Services -> Seq(Message)]
    /\ phase \in [Services -> {"timers", "msgs"}]
    /\ read \in [Services -> Nat]
    /\ inHand \in [Services -> BOOLEAN]
    /\ committed \in [Services -> Nat]
    /\ calls \in Seq(Call)
    /\ Len(calls) <= MaxCalls
    /\ life \in [Services -> 0 .. MaxRestarts]
    /\ cbs \in [Calls -> Seq({"success", "timeout"})]
    /\ given \in [Calls -> Message \cup {NoMessage}]
    /\ handled \in [Services -> Nat]
    /\ answers \in [Calls -> 0 .. MaxAnswers]
    /\ lost \in 0 .. MaxLost
    /\ dups \in 0 .. MaxDup

\* A live timer is waited for by asio, or on its way to Tick in one of the
\* two queues: no hand-over between the threads strands a timeout.
NoTimerStranded ==
    \A s \in Services :
        timers[s] \subseteq armed[s] \cup InQueue(due[s]) \cup InQueue(hdls[s])

\* A success callback is given an answer, and the answer to its own call;
\* or, as the sequence number starts again with the process, the answer to a
\* call of the same number that an earlier life of the service made.
OwnAnswer ==
    \A c \in MadeCalls :
        given[c] # NoMessage =>
            /\ given[c].body = "answer"
            /\ \/ given[c].call = c
               \/ LET old == calls[given[c].call] IN
                  /\ old.from = calls[c].from
                  /\ old.num = calls[c].num
                  /\ old.life < calls[c].life

\* The commit follows the hand-over, so a restart repeats at most the one
\* message in between: a service handles no more requests than its topic holds
\* and one more for each restart.
RedeliveryBounded ==
    \A s \in Services : handled[s] <= Len(topic[s]) + life[s]

\* What each call has seen, in the terms of RpcPromise: its callbacks, though
\* the service that made it may have died.
outcomeOf(c) ==
    CASE c \notin MadeCalls -> "unmade"
      [] OTHER ->
           CASE cbs[c] = << >> -> "pending"
             [] cbs[c] = <<"success">> -> "answered"
             [] cbs[c] = <<"timeout">> -> "timedOut"
             [] cbs[c] = <<"timeout", "success">> -> "late"
             [] OTHER -> "broken promise"

Promise == INSTANCE RpcPromise WITH
    outcome <- [c \in Calls |-> outcomeOf(c)],
    timed <- {c \in MadeCalls : calls[c].kind = "timed"},
    dead <- {c \in MadeCalls : ~ Alive(c)}

\* RPCManager runs at most one success and one timeout callback per call, no
\* timeout after the answer, and no callback of a call that an earlier life of
\* the service made, whatever is lost, repeated or late: every step is one that
\* RpcPromise allows, and none of those runs a callback of a dead call.
OnlyPromisedCallbacks == Promise!Init /\ [][Promise!Next]_(Promise!vars)

\* The same, and under Fairness a call made with a timeout is settled, because
\* its timer outlives everything but the answer.
KeepsPromise == Promise!Spec

\* If nothing is lost and nobody dies, every call with a context is answered,
\* a timed call included: RpcReceviedMsg still finds the slot of a call that
\* timed out.
EveryCallAnswered ==
    \A c \in Calls :
        (c \in MadeCalls /\ calls[c].kind \in {"timed", "plain"})
            ~> \/ given[c] # NoMessage
               \/ lost > 0
               \/ \E s \in Services : life[s] > 0
============================================================================
