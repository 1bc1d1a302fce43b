---------------------------- MODULE TimerService ----------------------------
(***************************************************************************)
(* TimerService of the game and login servers (world/TimerService.cpp): a  *)
(* list of timers in order of the time they have left, relative to         *)
(* m_time_passed, the time that has gone by without the list having been   *)
(* brought up to date.                                                     *)
(*                                                                         *)
(* A timer's function runs in the middle of the loop over the list and may *)
(* itself add timers: addTimer then brings the list up to date under the   *)
(* loop's feet.  The loop is therefore modelled step by step.              *)
(***************************************************************************)
EXTENDS Integers, Sequences, FiniteSets, SequencesExt

CONSTANTS
    Timers,    \* the timers that are ever added
    MaxDelay,  \* bound: the longest delay asked of addTimer
    MaxDiff,   \* bound: the longest time between two heartbeats
    W          \* TimerTick wraps at W (2^32)

\* The delays and the heartbeat's period are far from the width of TimerTick.
ASSUME TimerAssumption ==
    /\ MaxDelay \in Nat
    /\ MaxDiff \in Nat \ {0}
    /\ W \in Nat
    /\ MaxDelay + MaxDiff < W

VARIABLES
    list,     \* m_timers: the timers, in order
    time,     \* m_time of each
    passed,   \* m_time_passed
    at,       \* the loop's place in the list, 0 outside the loop
    calling,  \* whether the function of the timer at that place is running
    delay,    \* history: the delay each timer was added with
    age       \* history: the time heartbeat has been told of since

vars == <<list, time, passed, at, calling, delay, age>>

Pending == {list[i] : i \in DOMAIN list}

Idle == at = 0

----------------------------------------------------------------------------
\* timerRotation(false): take the time that has passed off every timer.
UpToDate(f) == IF f \notin Pending THEN time[f]
               ELSE IF time[f] <= passed THEN 0 ELSE time[f] - passed

\* std::lower_bound: before the timers that have as much time left.
\* Mutants: after them; at the end of the list.
Place_Upper(times, tk) ==
    CHOOSE p \in 1 .. Len(list) + 1 :
        /\ \A i \in 1 .. p - 1 : times[list[i]] <= tk
        /\ \A i \in p .. Len(list) : times[list[i]] > tk
Place_Last(times, tk) == Len(list) + 1
Place(times, tk) ==
    CHOOSE p \in 1 .. Len(list) + 1 :
        /\ \A i \in 1 .. p - 1 : times[list[i]] < tk
        /\ \A i \in p .. Len(list) : times[list[i]] >= tk

Init ==
    /\ list = << >>
    /\ time = [e \in Timers |-> 0]
    /\ passed = 0
    /\ at = 0
    /\ calling = FALSE
    /\ delay = [e \in Timers |-> 0]
    /\ age = [e \in Timers |-> 0]

\* addTimer, called between heartbeats or by a timer's function.
\* Mutant: the list is not brought up to date.
AddTimer_Stale(e, tk) ==
    /\ Idle \/ calling
    /\ e \notin Pending
    /\ LET p == Place(time, tk)
       IN  /\ list' = InsertAt(list, p, e)
           /\ at' = IF p <= at THEN at + 1 ELSE at
           /\ time' = [time EXCEPT ![e] = tk]
    /\ delay' = [delay EXCEPT ![e] = tk]
    /\ age' = [age EXCEPT ![e] = 0]
    /\ UNCHANGED <<calling, passed>>
AddTimer(e, tk) ==
    /\ Idle \/ calling
    /\ e \notin Pending
    /\ LET times == [f \in Timers |-> UpToDate(f)]
           p == Place(times, tk)
       IN  /\ list' = InsertAt(list, p, e)
           /\ at' = IF p <= at THEN at + 1 ELSE at
           /\ time' = [times EXCEPT ![e] = tk]
    /\ passed' = 0
    /\ delay' = [delay EXCEPT ![e] = tk]
    /\ age' = [age EXCEPT ![e] = 0]
    /\ UNCHANGED calling

\* heartbeat, up to the loop of timerRotation.
Heartbeat(diff) ==
    /\ Idle
    /\ list # << >>
    /\ LET now == (passed + diff) % W
           due == time[Head(list)] <= now
       IN  /\ passed' = now
           /\ at' = IF due /\ now # 0 THEN 1 ELSE 0
    /\ age' = [f \in Timers |-> IF f \in Pending THEN age[f] + diff ELSE age[f]]
    /\ UNCHANGED <<list, time, calling, delay>>

\* One turn of the loop: the timer is due and its function is called, or the
\* time that has passed is taken off.
Visit ==
    /\ at \in DOMAIN list
    /\ ~ calling
    /\ LET e == list[at] IN
       \/ /\ time[e] <= passed
          /\ time' = [time EXCEPT ![e] = 0]
          /\ calling' = TRUE
          /\ UNCHANGED at
       \/ /\ time[e] > passed
          /\ time' = [time EXCEPT ![e] = time[e] - passed]
          /\ at' = at + 1
          /\ UNCHANGED calling
    /\ UNCHANGED <<list, passed, delay, age>>

\* The function returns and its timer is erased.
\* Mutant: the one after it is skipped.
Return_Skips ==
    /\ calling
    /\ list' = RemoveAt(list, at)
    /\ calling' = FALSE
    /\ at' = at + 1
    /\ UNCHANGED <<time, passed, delay, age>>
Return ==
    /\ calling
    /\ list' = RemoveAt(list, at)
    /\ calling' = FALSE
    /\ UNCHANGED <<time, passed, at, delay, age>>

\* The end of the loop, and of heartbeat.
Done ==
    /\ at = Len(list) + 1
    /\ at' = 0
    /\ passed' = 0
    /\ UNCHANGED <<list, time, calling, delay, age>>

Next ==
    \/ \E e \in Timers, tk \in 0 .. MaxDelay : AddTimer(e, tk)
    \/ \E diff \in 0 .. MaxDiff : Heartbeat(diff)
    \/ Visit
    \/ Return
    \/ Done

Spec == Init /\ [][Next]_vars

\* The world's loop calls heartbeat with the time it has slept, and a timer's
\* function returns.
Fairness ==
    /\ WF_vars(\E diff \in 1 .. MaxDiff : Heartbeat(diff))
    /\ WF_vars(Visit)
    /\ WF_vars(Return)
    /\ WF_vars(Done)

FairSpec == Spec /\ Fairness

----------------------------------------------------------------------------
TypeOK ==
    /\ list \in Seq(Timers)
    /\ \A i, j \in DOMAIN list : list[i] = list[j] => i = j
    /\ time \in [Timers -> 0 .. MaxDelay]
    /\ passed \in 0 .. MaxDelay + MaxDiff
    /\ at \in 0 .. Len(list) + 1
    /\ calling \in BOOLEAN
    /\ calling => at \in DOMAIN list
    /\ delay \in [Timers -> 0 .. MaxDelay]
    /\ age \in [Timers -> Nat]

\* No timer's function is called before its delay has gone by, whatever was
\* added, and when: in mid-loop m_time_passed and the times change meaning.
NeverEarly == calling => age[list[at]] >= delay[list[at]]

\* After a heartbeat no timer is left whose delay has gone by, the one added
\* with no delay since the last heartbeat excepted.
OnTime ==
    Idle => \A e \in Pending : age[e] < delay[e] \/ age[e] = 0

\* Functions are called in the order of their deadlines: none is called while
\* a timer with an earlier one waits.
DeadlineOrder ==
    calling =>
        \A f \in Pending :
            delay[list[at]] - age[list[at]] <= delay[f] - age[f]

\* What std::lower_bound demands whenever addTimer can be called.
Sorted ==
    \A i, j \in DOMAIN list : i < j => time[list[i]] <= time[list[j]]

\* heartbeat returns, even if a function adds a timer that is due at once.
HeartbeatReturns == at # 0 ~> at = 0
============================================================================
