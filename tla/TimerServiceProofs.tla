------------------------- MODULE TimerServiceProofs -------------------------
(* Theorems about TimerService, for any timers, delays and heartbeats.       *)
EXTENDS TimerService, WellFoundedInduction, TLAPS

----------------------------------------------------------------------------
(* Lemmas about the list *)

LEMMA LeastNatural ==
  ASSUME NEW S \in SUBSET Nat, S # {}
  PROVE  \E m \in S : \A k \in S : m <= k
  <1> DEFINE R == OpToRel(<, Nat)
  <1>1. IsWellFoundedOn(R, Nat)
    BY NatLessThanWellFounded
  <1>2. \A x, y \in Nat : x < y => <<x, y>> \in R
    BY DEF OpToRel
  <1> HIDE DEF R
  <1>3. PICK m \in S : \A k \in S : ~ (<<k, m>> \in R)
    BY <1>1, WFMin
  <1>4. ASSUME NEW k \in S PROVE m <= k
    <2>1. ~ (k < m)
      BY <1>2, <1>3
    <2> QED BY <2>1
  <1> QED BY <1>4

\* std::lower_bound finds a place in a sorted list.
LEMMA PlaceFacts ==
  ASSUME list \in Seq(Timers), NEW times \in [Timers -> Nat], NEW tk \in Nat,
         \A i, j \in DOMAIN list : i < j => times[list[i]] <= times[list[j]]
  PROVE  /\ Place(times, tk) \in 1 .. Len(list) + 1
         /\ \A i \in 1 .. Place(times, tk) - 1 : times[list[i]] < tk
         /\ \A i \in Place(times, tk) .. Len(list) : times[list[i]] >= tk
  <1> DEFINE S == {i \in 1 .. Len(list) + 1 : i <= Len(list) => times[list[i]] >= tk}
  <1>1. /\ Len(list) \in Nat /\ DOMAIN list = 1 .. Len(list)
        /\ \A i \in 1 .. Len(list) : times[list[i]] \in Nat
    OBVIOUS
  <1>2. S \in SUBSET Nat /\ Len(list) + 1 \in S
    BY <1>1
  <1>3. PICK m \in S : \A k \in S : m <= k
    BY <1>2, LeastNatural
  <1>4. /\ m \in 1 .. Len(list) + 1
        /\ \A i \in 1 .. m - 1 : times[list[i]] < tk
    BY <1>1, <1>3
  <1>5. \A i \in m .. Len(list) : times[list[i]] >= tk
    BY <1>1, <1>3
  <1> QED BY <1>4, <1>5 DEF Place

LEMMA ConcatFacts ==
  ASSUME NEW a \in Seq(Timers), NEW b \in Seq(Timers)
  PROVE  /\ a \o b \in Seq(Timers)
         /\ Len(a \o b) = Len(a) + Len(b)
         /\ \A i \in 1 .. Len(a) : (a \o b)[i] = a[i]
         /\ \A i \in Len(a) + 1 .. Len(a) + Len(b) : (a \o b)[i] = b[i - Len(a)]
  OBVIOUS

\* Inserting shifts what comes after.
LEMMA InsertFacts ==
  ASSUME NEW s \in Seq(Timers), NEW p \in 1 .. Len(s) + 1, NEW e \in Timers
  PROVE  /\ InsertAt(s, p, e) \in Seq(Timers)
         /\ Len(InsertAt(s, p, e)) = Len(s) + 1
         /\ InsertAt(s, p, e)[p] = e
         /\ \A i \in 1 .. p - 1 : InsertAt(s, p, e)[i] = s[i]
         /\ \A i \in p + 1 .. Len(s) + 1 : InsertAt(s, p, e)[i] = s[i - 1]
  <1> DEFINE a == SubSeq(s, 1, p - 1)
             b == SubSeq(s, p, Len(s))
  <1>1. /\ a \in Seq(Timers) /\ Len(a) = p - 1
        /\ \A i \in 1 .. p - 1 : a[i] = s[i]
    OBVIOUS
  <1>2. /\ b \in Seq(Timers) /\ Len(b) = Len(s) - p + 1
        /\ \A i \in 1 .. Len(s) - p + 1 : b[i] = s[p + i - 1]
    OBVIOUS
  <1>3. InsertAt(s, p, e) = (a \o <<e>>) \o b
    BY DEF InsertAt
  <1> HIDE DEF a, b
  <1> DEFINE c == a \o <<e>>
  <1>4. /\ c \in Seq(Timers) /\ Len(c) = p
        /\ \A i \in 1 .. p - 1 : c[i] = s[i]
        /\ c[p] = e
    BY <1>1
  <1> HIDE DEF c
  <1>5. InsertAt(s, p, e) = c \o b
    BY <1>3 DEF c
  <1>6. /\ c \o b \in Seq(Timers)
        /\ Len(c \o b) = Len(s) + 1
        /\ \A i \in 1 .. p : (c \o b)[i] = c[i]
        /\ \A i \in p + 1 .. Len(s) + 1 : (c \o b)[i] = b[i - p]
    <2>1. /\ c \o b \in Seq(Timers)
          /\ Len(c \o b) = Len(c) + Len(b)
          /\ \A i \in 1 .. Len(c) : (c \o b)[i] = c[i]
          /\ \A i \in Len(c) + 1 .. Len(c) + Len(b) : (c \o b)[i] = b[i - Len(c)]
      BY <1>2, <1>4, ConcatFacts
    <2>2. Len(c) = p /\ Len(b) = Len(s) - p + 1
      BY <1>2, <1>4
    <2>3. p + (Len(s) - p + 1) = Len(s) + 1
      OBVIOUS
    <2> QED BY <2>1, <2>2, <2>3
  <1>7. \A i \in p + 1 .. Len(s) + 1 : (c \o b)[i] = s[i - 1]
    <2> SUFFICES ASSUME NEW i \in p + 1 .. Len(s) + 1 PROVE (c \o b)[i] = s[i - 1]
      OBVIOUS
    <2>1. (c \o b)[i] = b[i - p]
      BY <1>6
    <2>2. Len(s) \in Nat
      OBVIOUS
    <2>3. i - p \in 1 .. Len(s) - p + 1 /\ p + (i - p) - 1 = i - 1
      BY <2>2
    <2>4. b[i - p] = s[p + (i - p) - 1]
      BY <1>2, <2>3
    <2> QED BY <2>1, <2>3, <2>4
  <1> QED BY <1>4, <1>5, <1>6, <1>7

LEMMA RemoveFacts ==
  ASSUME NEW s \in Seq(Timers), NEW p \in 1 .. Len(s)
  PROVE  /\ RemoveAt(s, p) \in Seq(Timers)
         /\ Len(RemoveAt(s, p)) = Len(s) - 1
         /\ \A i \in 1 .. p - 1 : RemoveAt(s, p)[i] = s[i]
         /\ \A i \in p .. Len(s) - 1 : RemoveAt(s, p)[i] = s[i + 1]
  <1> DEFINE a == SubSeq(s, 1, p - 1)
             b == SubSeq(s, p + 1, Len(s))
  <1>1. /\ a \in Seq(Timers) /\ Len(a) = p - 1
        /\ \A i \in 1 .. p - 1 : a[i] = s[i]
    OBVIOUS
  <1>2. /\ b \in Seq(Timers) /\ Len(b) = Len(s) - p
        /\ \A i \in 1 .. Len(s) - p : b[i] = s[p + i]
    OBVIOUS
  <1>3. RemoveAt(s, p) = a \o b
    BY DEF RemoveAt
  <1> HIDE DEF a, b
  <1>4. /\ a \o b \in Seq(Timers)
        /\ Len(a \o b) = Len(s) - 1
        /\ \A i \in 1 .. p - 1 : (a \o b)[i] = a[i]
        /\ \A i \in p .. Len(s) - 1 : (a \o b)[i] = b[i - p + 1]
    <2>1. Len(a) = p - 1 /\ Len(b) = Len(s) - p
      BY <1>1, <1>2
    <2>2. \A i \in p .. Len(s) - 1 : (a \o b)[i] = b[i - (p - 1)]
      BY <1>1, <1>2, <2>1, ConcatFacts
    <2>3. /\ a \o b \in Seq(Timers)
          /\ Len(a \o b) = Len(s) - 1
          /\ \A i \in 1 .. p - 1 : (a \o b)[i] = a[i]
      <3>1. a \o b \in Seq(Timers)
        BY <1>1, <1>2, ConcatFacts
      <3>2. Len(a \o b) = (p - 1) + (Len(s) - p)
        BY <1>1, <1>2, <2>1, ConcatFacts
      <3>3. \A i \in 1 .. p - 1 : (a \o b)[i] = a[i]
        BY <1>1, <1>2, <2>1, ConcatFacts
      <3>4. (p - 1) + (Len(s) - p) = Len(s) - 1
        OBVIOUS
      <3> QED BY <3>1, <3>2, <3>3, <3>4
    <2>4. \A i \in p .. Len(s) - 1 : i - (p - 1) = i - p + 1
      OBVIOUS
    <2> QED BY <2>2, <2>3, <2>4
  <1>5. \A i \in p .. Len(s) - 1 : (a \o b)[i] = s[i + 1]
    BY <1>2, <1>4
  <1> QED BY <1>1, <1>3, <1>4, <1>5

----------------------------------------------------------------------------
(* The inductive invariant.  What a timer has left to wait can be read off
   m_time in three ways: relative to m_time_passed while the loop has not
   reached it, exactly once it has, and as zero when addTimer brought the list
   up to date in mid-loop and the timer was overdue. *)

Left(f) == delay[f] - age[f]

IdleTimes ==
    Idle => \A f \in Pending : time[f] = Left(f) + passed

\* What the loop has not reached yet.
AheadTimes ==
    at # 0 => \A i \in DOMAIN list : i >= at /\ (calling => i > at) =>
        \/ time[list[i]] = Left(list[i]) + passed
        \/ time[list[i]] = 0 /\ passed = 0 /\ Left(list[i]) <= 0

\* What the loop has left behind: timers it has brought up to date, and those
\* added in the meantime that are due at once.
BehindTimes ==
    at # 0 => \A i \in 1 .. at - 1 :
        /\ time[list[i]] = Left(list[i])
        /\ time[list[i]] > 0 \/ age[list[i]] = 0

\* Once the loop has passed a timer that is not due, no due one follows.
NoDueAfter ==
    at # 0 => \A i \in 1 .. at - 1 : time[list[i]] > 0 =>
        /\ ~ calling
        /\ \A j \in at .. Len(list) : time[list[i]] + passed <= time[list[j]]

CallingDue ==
    calling => time[list[at]] = 0 /\ Left(list[at]) <= 0

AheadInOrder ==
    at # 0 => \A i, j \in DOMAIN list : at <= i /\ i < j => Left(list[i]) <= Left(list[j])

IInv ==
    /\ TypeOK
    /\ Sorted
    /\ IdleTimes
    /\ OnTime
    /\ AheadTimes
    /\ BehindTimes
    /\ NoDueAfter
    /\ CallingDue
    /\ AheadInOrder

LEMMA InitIInv == Init => IInv
  <1> SUFFICES ASSUME Init PROVE IInv
    OBVIOUS
  <1>1. list = << >> /\ at = 0 /\ calling = FALSE /\ Pending = {} /\ DOMAIN list = {}
    BY DEF Init, Pending
  <1>2. TypeOK
    <2>1. /\ 0 \in 0 .. MaxDelay /\ passed \in 0 .. MaxDelay + MaxDiff
          /\ list \in Seq(Timers) /\ at \in 0 .. Len(list) + 1
      BY <1>1, TimerAssumption DEF Init
    <2>2. /\ time \in [Timers -> 0 .. MaxDelay]
          /\ delay \in [Timers -> 0 .. MaxDelay]
          /\ age \in [Timers -> Nat]
      BY <2>1 DEF Init
    <2> QED BY <1>1, <2>1, <2>2 DEF TypeOK
  <1> QED
    BY <1>1, <1>2 DEF IInv, Sorted, IdleTimes, OnTime, AheadTimes, BehindTimes,
       NoDueAfter, CallingDue, AheadInOrder

\* Facts about the list that every step uses.
LEMMA ListFacts ==
  ASSUME TypeOK
  PROVE  /\ Len(list) \in Nat
         /\ DOMAIN list = 1 .. Len(list)
         /\ \A i \in 1 .. Len(list) : list[i] \in Timers /\ list[i] \in Pending
         /\ \A f \in Pending : f \in Timers /\ \E i \in 1 .. Len(list) : list[i] = f
         /\ \A f \in Timers : time[f] \in Nat /\ time[f] <= MaxDelay
         /\ \A f \in Timers : delay[f] \in Nat /\ delay[f] <= MaxDelay
         /\ \A f \in Timers : age[f] \in Nat /\ Left(f) \in Int
         /\ passed \in Nat /\ at \in Nat
         /\ \A i, j \in 1 .. Len(list) : list[i] = list[j] => i = j
  <1>1. /\ Len(list) \in Nat
        /\ DOMAIN list = 1 .. Len(list)
        /\ \A i \in 1 .. Len(list) : list[i] \in Timers
    BY DEF TypeOK
  <1>2. /\ \A i \in 1 .. Len(list) : list[i] \in Pending
        /\ \A f \in Pending : f \in Timers /\ \E i \in 1 .. Len(list) : list[i] = f
    BY <1>1 DEF Pending
  <1>3. /\ \A f \in Timers : time[f] \in Nat /\ time[f] <= MaxDelay
        /\ \A f \in Timers : delay[f] \in Nat /\ delay[f] <= MaxDelay
        /\ \A f \in Timers : age[f] \in Nat
        /\ passed \in Nat /\ at \in Nat
    BY <1>1, TimerAssumption DEF TypeOK
  <1>4. \A f \in Timers : Left(f) \in Int
    BY <1>3 DEF Left
  <1>5. \A i, j \in 1 .. Len(list) : list[i] = list[j] => i = j
    BY <1>1 DEF TypeOK
  <1> QED BY <1>1, <1>2, <1>3, <1>4, <1>5

\* Between heartbeats less has passed than the first timer has left.
LEMMA IdlePassed ==
  ASSUME IInv, Idle, list # << >>
  PROVE  passed <= time[Head(list)] /\ passed <= MaxDelay
  <1>1. TypeOK
    BY DEF IInv
  <1>2. 1 \in DOMAIN list /\ Head(list) = list[1]
    BY <1>1, ListFacts
  <1>3. list[1] \in Pending /\ list[1] \in Timers
    BY <1>1, <1>2, ListFacts
  <1>4. /\ time[list[1]] = delay[list[1]] - age[list[1]] + passed
        /\ age[list[1]] < delay[list[1]] \/ age[list[1]] = 0
    BY <1>3 DEF IInv, IdleTimes, OnTime, Left
  <1>5. /\ time[list[1]] \in Nat /\ time[list[1]] <= MaxDelay
        /\ delay[list[1]] \in Nat /\ age[list[1]] \in Nat /\ passed \in Nat
    BY <1>1, <1>3, ListFacts
  <1>6. passed <= time[list[1]]
    BY <1>4, <1>5
  <1> QED BY <1>2, <1>5, <1>6, TimerAssumption

LEMMA HeartbeatIInv ==
  ASSUME IInv, NEW diff \in 0 .. MaxDiff, Heartbeat(diff)
  PROVE  IInv'
  <1> DEFINE now == (passed + diff) % W
  <1>0. TypeOK /\ Idle /\ list # << >> /\ ~ calling
    BY DEF Heartbeat, IInv, TypeOK, Idle
  <1> USE <1>0
  <1>1. now = passed + diff
    <2>1. passed \in Nat /\ diff \in Nat /\ passed + diff < W
      BY IdlePassed, TimerAssumption DEF TypeOK
    <2> QED BY <2>1, TimerAssumption
  <1>2. passed' = now
    BY DEF Heartbeat
  <1>3. UNCHANGED <<list, time, calling, delay>>
    BY DEF Heartbeat
  <1>4. Pending' = Pending
    BY <1>3 DEF Pending
  <1>5. \A f \in Pending : age'[f] = age[f] + diff /\ Left(f)' = Left(f) - diff
    BY ListFacts, <1>3 DEF Heartbeat, Left
  <1>6. age' \in [Timers -> Nat]
    BY DEF Heartbeat, TypeOK
  <1>7. passed' \in 0 .. MaxDelay + MaxDiff
    <2>1. passed \in Nat /\ passed <= MaxDelay
      BY IdlePassed DEF TypeOK
    <2> QED BY <1>1, <1>2, <2>1, TimerAssumption
  <1>8. at' = 1 \/ at' = 0
    BY DEF Heartbeat
  <1>9. TypeOK'
    <2>1. at' \in 0 .. Len(list) + 1
      BY <1>8, ListFacts
    <2> QED BY <1>3, <1>6, <1>7, <2>1 DEF TypeOK
  <1>10. Sorted'
    BY <1>3 DEF IInv, Sorted
  <1>11. \A f \in Pending : time'[f] = Left(f)' + passed'
    <2>1. \A f \in Pending : time[f] = Left(f) + passed
      BY DEF IInv, IdleTimes
    <2> QED BY <1>1, <1>2, <1>3, <1>5, <2>1, ListFacts
  <1>12. IdleTimes'
    BY <1>4, <1>11 DEF IdleTimes
  <1>13. OnTime'
    <2> SUFFICES ASSUME at' = 0, NEW f \in Pending
                 PROVE  age'[f] < delay'[f] \/ age'[f] = 0
      BY <1>4 DEF OnTime, Idle
    <2>1. now = 0 \/ now < time[Head(list)]
      <3>1. Head(list) = list[1] /\ list[1] \in Timers
        BY ListFacts
      <3>2. time[Head(list)] \in Nat /\ now \in Nat
        BY <1>1, <3>1, ListFacts
      <3> QED BY <1>1, <3>2 DEF Heartbeat
    <2>2. CASE now = 0
      <3>1. diff = 0
        BY <1>1, <2>2, ListFacts
      <3>2. age'[f] = age[f]
        BY <1>5, <3>1, ListFacts
      <3>3. age[f] < delay[f] \/ age[f] = 0
        BY DEF IInv, OnTime
      <3> QED BY <1>3, <3>2, <3>3
    <2>3. CASE now < time[Head(list)]
      <3>1. PICK i \in 1 .. Len(list) : list[i] = f
        BY ListFacts
      <3>2. Head(list) = list[1] /\ time[list[1]] <= time[list[i]]
        <4>1. Head(list) = list[1] /\ 1 \in DOMAIN list /\ i \in DOMAIN list
          BY <3>1, ListFacts
        <4>2. 1 < i => time[list[1]] <= time[list[i]]
          BY <4>1 DEF IInv, Sorted
        <4>3. time[list[1]] \in Nat
          BY <4>1, ListFacts
        <4> QED BY <3>1, <4>1, <4>2, <4>3
      <3>3. time[f] = delay[f] - age'[f] + now
        BY <1>2, <1>3, <1>11 DEF Left
      <3>4. /\ time[f] \in Nat /\ delay[f] \in Nat /\ age'[f] \in Nat /\ now \in Nat
            /\ time[list[1]] \in Nat
        BY <1>1, <1>6, <3>1, ListFacts
      <3>5. now < time[f]
        BY <2>3, <3>1, <3>2, <3>4
      <3> QED BY <1>3, <3>3, <3>4, <3>5
    <2> QED BY <2>1, <2>2, <2>3
  <1>14. AheadTimes'
    BY <1>3, <1>11, ListFacts DEF AheadTimes
  <1>15. BehindTimes' /\ NoDueAfter' /\ CallingDue'
    BY <1>3, <1>8 DEF BehindTimes, NoDueAfter, CallingDue
  <1>16. AheadInOrder'
    <2> SUFFICES ASSUME NEW i \in DOMAIN list, NEW j \in DOMAIN list, i < j
                 PROVE  Left(list[i])' <= Left(list[j])'
      BY <1>3 DEF AheadInOrder, Left
    <2>1. time[list[i]] <= time[list[j]]
      BY DEF IInv, Sorted
    <2>2. list[i] \in Pending /\ list[j] \in Pending
      BY ListFacts
    <2>3. /\ time[list[i]] = Left(list[i])' + passed'
          /\ time[list[j]] = Left(list[j])' + passed'
      BY <1>3, <1>11, <2>2
    <2>4. /\ Left(list[i])' \in Int /\ Left(list[j])' \in Int /\ passed' \in Nat
      <3>1. \A f \in Pending : delay[f] \in Int /\ age'[f] \in Int
        BY <1>6, ListFacts
      <3>2. Left(list[i])' \in Int /\ Left(list[j])' \in Int
        BY <1>3, <2>2, <3>1 DEF Left
      <3>3. passed' \in Nat
        BY <1>7, TimerAssumption
      <3> QED BY <3>2, <3>3
    <2> QED BY <2>1, <2>3, <2>4
  <1> QED
    BY <1>9, <1>10, <1>12, <1>13, <1>14, <1>15, <1>16 DEF IInv

LEMMA VisitIInv ==
  ASSUME IInv, Visit
  PROVE  IInv'
  <1> DEFINE e == list[at]
  <1>0. TypeOK /\ Sorted /\ at \in 1 .. Len(list) /\ at # 0 /\ calling = FALSE
    <2>1. TypeOK /\ Sorted /\ at \in DOMAIN list
      BY DEF Visit, IInv
    <2>2. at \in 1 .. Len(list) /\ at # 0
      BY <2>1, ListFacts
    <2>3. calling = FALSE
      BY <2>1 DEF Visit, TypeOK
    <2> QED BY <2>1, <2>2, <2>3
  <1>1. UNCHANGED <<list, passed, delay, age>>
    BY DEF Visit
  <1>2. e \in Timers /\ time[e] \in Nat /\ passed \in Nat
    BY <1>0, ListFacts
  <1>3. \A i \in 1 .. Len(list) : i # at => list[i] # e
    BY <1>0, ListFacts
  <1>4. \/ time[e] = Left(e) + passed
        \/ time[e] = 0 /\ passed = 0 /\ Left(e) <= 0
    BY <1>0, ListFacts DEF IInv, AheadTimes
  <1>5. \A i \in 1 .. at - 1 : time[list[i]] > 0 =>
            \A j \in at .. Len(list) : time[list[i]] + passed <= time[list[j]]
    BY <1>0 DEF IInv, NoDueAfter
  <1>6. \A i \in 1 .. at - 1 : time[list[i]] \in Nat
    BY <1>0, ListFacts
  <1>7. \A f \in Timers : Left(f)' = Left(f) /\ Left(f) \in Int
    BY <1>0, <1>1, ListFacts DEF Left
  <1> HIDE DEF e
  <1>8. CASE time[e] <= passed
    <2>1. time' = [time EXCEPT ![e] = 0] /\ calling' = TRUE /\ at' = at
      BY <1>2, <1>8 DEF Visit, e
    <2>2. time'[e] = 0 /\ \A i \in 1 .. Len(list) : i # at => time'[list[i]] = time[list[i]]
      BY <1>0, <1>2, <1>3, <2>1, ListFacts DEF TypeOK
    <2>3. TypeOK'
      <3>1. time' \in [Timers -> 0 .. MaxDelay]
        <4>1. 0 \in 0 .. MaxDelay
          BY TimerAssumption
        <4> QED BY <1>0, <2>1, <4>1 DEF TypeOK
      <3>2. at' \in DOMAIN list' /\ at' \in 0 .. Len(list') + 1
        BY <1>0, <1>1, <2>1, ListFacts
      <3> QED BY <1>0, <1>1, <2>1, <3>1, <3>2 DEF TypeOK
    <2>4. \A i \in 1 .. at - 1 : time[list[i]] = 0
      <3> SUFFICES ASSUME NEW i \in 1 .. at - 1, time[list[i]] > 0 PROVE FALSE
        BY <1>6
      <3>1. time[list[i]] + passed <= time[list[at]]
        BY <1>0, <1>5
      <3>2. time[list[i]] \in Nat
        BY <1>6
      <3> QED BY <1>2, <1>8, <3>1, <3>2 DEF e
    <2>5. Sorted'
      <3> SUFFICES ASSUME NEW i \in 1 .. Len(list), NEW j \in 1 .. Len(list), i < j
                   PROVE  time'[list[i]] <= time'[list[j]]
        BY <1>0, <1>1, ListFacts DEF Sorted
      <3>1. time[list[i]] \in Nat /\ time[list[j]] \in Nat
        BY <1>0, ListFacts
      <3>2. CASE i # at /\ j # at
        BY <1>0, <2>2, <3>2, ListFacts DEF Sorted
      <3>3. CASE i = at
        BY <2>2, <3>1, <3>3 DEF e
      <3>4. CASE j = at
        BY <2>2, <2>4, <3>4 DEF e
      <3> QED BY <3>2, <3>3, <3>4
    <2>6. IdleTimes' /\ OnTime'
      BY <1>0, <2>1 DEF IdleTimes, OnTime, Idle
    <2>7. AheadTimes'
      <3> SUFFICES ASSUME NEW i \in 1 .. Len(list), i > at
                   PROVE  \/ time'[list[i]] = Left(list[i]) + passed
                          \/ time'[list[i]] = 0 /\ passed = 0 /\ Left(list[i]) <= 0
        BY <1>0, <1>1, <1>7, <2>1, ListFacts DEF AheadTimes, Left
      <3>1. time'[list[i]] = time[list[i]]
        BY <2>2
      <3> QED BY <1>0, <3>1, ListFacts DEF IInv, AheadTimes
    <2>8. BehindTimes'
      <3>1. \A i \in 1 .. at - 1 : /\ time[list[i]] = Left(list[i])
                                   /\ time[list[i]] > 0 \/ age[list[i]] = 0
        BY <1>0 DEF IInv, BehindTimes
      <3>2. \A i \in 1 .. at - 1 : time'[list[i]] = time[list[i]]
        BY <1>0, <2>2
      <3> QED BY <1>1, <2>1, <3>1, <3>2 DEF BehindTimes, Left
    <2>9. NoDueAfter'
      <3>1. \A i \in 1 .. at - 1 : time'[list[i]] = 0
        BY <1>0, <2>2, <2>4
      <3> QED BY <1>1, <2>1, <3>1 DEF NoDueAfter
    <2>10. CallingDue'
      <3>1. Left(e) <= 0
        BY <1>2, <1>4, <1>7, <1>8
      <3> QED BY <1>1, <2>1, <2>2, <3>1 DEF CallingDue, Left, e
    <2>11. AheadInOrder'
      BY <1>1, <2>1 DEF IInv, AheadInOrder, Left
    <2> QED BY <2>3, <2>5, <2>6, <2>7, <2>8, <2>9, <2>10, <2>11 DEF IInv
  <1>9. CASE time[e] > passed
    <2>1. time' = [time EXCEPT ![e] = time[e] - passed] /\ calling' = FALSE /\ at' = at + 1
      BY <1>0, <1>2, <1>9 DEF Visit, e
    <2>2. /\ time'[e] = time[e] - passed
          /\ \A i \in 1 .. Len(list) : i # at => time'[list[i]] = time[list[i]]
      BY <1>0, <1>2, <1>3, <2>1, ListFacts DEF TypeOK
    <2>3. TypeOK'
      <3>1. time[e] - passed \in 0 .. MaxDelay
        BY <1>0, <1>2, <1>9, ListFacts, TimerAssumption
      <3>2. time' \in [Timers -> 0 .. MaxDelay]
        BY <1>0, <2>1, <3>1 DEF TypeOK
      <3>3. at' \in 0 .. Len(list) + 1
        BY <1>0, <2>1, ListFacts
      <3> QED BY <1>0, <1>1, <2>1, <3>2, <3>3 DEF TypeOK
    <2>4. \A j \in at + 1 .. Len(list) : time[e] <= time[list[j]]
      <3> SUFFICES ASSUME NEW j \in at + 1 .. Len(list) PROVE time[list[at]] <= time[list[j]]
        BY DEF e
      <3>1. at \in DOMAIN list /\ j \in DOMAIN list /\ at < j
        BY <1>0, ListFacts
      <3> QED BY <1>0, <3>1 DEF Sorted
    <2>5. \A i \in 1 .. at - 1 : time[list[i]] <= time[e] - passed
      <3> SUFFICES ASSUME NEW i \in 1 .. at - 1 PROVE time[list[i]] <= time[e] - passed
        OBVIOUS
      <3>1. time[list[i]] > 0 => time[list[i]] + passed <= time[e]
        BY <1>0, <1>5 DEF e
      <3>2. time[list[i]] \in Nat
        BY <1>6
      <3> QED BY <1>2, <1>9, <3>1, <3>2
    <2>6. Sorted'
      <3> SUFFICES ASSUME NEW i \in 1 .. Len(list), NEW j \in 1 .. Len(list), i < j
                   PROVE  time'[list[i]] <= time'[list[j]]
        BY <1>0, <1>1, ListFacts DEF Sorted
      <3>1. time[list[i]] \in Nat /\ time[list[j]] \in Nat
        BY <1>0, ListFacts
      <3>2. CASE i # at /\ j # at
        BY <1>0, <2>2, <3>2, ListFacts DEF Sorted
      <3>3. CASE i = at
        <4>1. time[e] <= time[list[j]]
          BY <2>4, <3>3
        <4> QED BY <1>2, <2>2, <3>1, <3>3, <4>1 DEF e
      <3>4. CASE j = at
        BY <2>2, <2>5, <3>4 DEF e
      <3> QED BY <3>2, <3>3, <3>4
    <2>7. IdleTimes' /\ OnTime' /\ CallingDue'
      BY <1>0, <2>1 DEF IdleTimes, OnTime, Idle, CallingDue
    <2>8. AheadTimes'
      <3> SUFFICES ASSUME NEW i \in 1 .. Len(list), i >= at + 1
                   PROVE  \/ time'[list[i]] = Left(list[i]) + passed
                          \/ time'[list[i]] = 0 /\ passed = 0 /\ Left(list[i]) <= 0
        BY <1>0, <1>1, <1>7, <2>1, ListFacts DEF AheadTimes, Left
      <3>1. time'[list[i]] = time[list[i]] /\ i >= at
        BY <1>0, <2>2
      <3> QED BY <1>0, <3>1, ListFacts DEF IInv, AheadTimes
    <2>9. time'[e] = Left(e) /\ time'[e] > 0
      BY <1>2, <1>4, <1>7, <1>9, <2>2
    <2>10. BehindTimes'
      <3>1. \A i \in 1 .. at - 1 : /\ time[list[i]] = Left(list[i])
                                   /\ time[list[i]] > 0 \/ age[list[i]] = 0
        BY <1>0 DEF IInv, BehindTimes
      <3>2. \A i \in 1 .. at - 1 : time'[list[i]] = time[list[i]]
        BY <1>0, <2>2
      <3>3. \A i \in 1 .. at : i \in 1 .. at - 1 \/ i = at
        BY <1>0
      <3>4. \A i \in 1 .. at : /\ time'[list[i]] = Left(list[i])
                               /\ time'[list[i]] > 0 \/ age[list[i]] = 0
        BY <2>9, <3>1, <3>2, <3>3 DEF e
      <3>5. at' - 1 = at
        BY <1>0, <2>1
      <3> QED BY <1>1, <3>4, <3>5 DEF BehindTimes, Left
    <2>11. NoDueAfter'
      <3> SUFFICES ASSUME NEW i \in 1 .. at, time'[list[i]] > 0,
                          NEW j \in at + 1 .. Len(list)
                   PROVE  time'[list[i]] + passed <= time'[list[j]]
        <4>1. at' - 1 = at
          BY <1>0, <2>1
        <4> QED BY <1>1, <2>1, <4>1 DEF NoDueAfter
      <3>1. time'[list[j]] = time[list[j]] /\ time[list[j]] \in Nat
        BY <1>0, <2>2, ListFacts
      <3>2. CASE i = at
        BY <1>2, <2>2, <2>4, <3>1, <3>2 DEF e
      <3>3. CASE i < at
        <4>1. time'[list[i]] = time[list[i]]
          BY <1>0, <2>2, <3>3
        <4> QED BY <1>0, <1>5, <3>1, <3>3, <4>1
      <3> QED BY <1>0, <3>2, <3>3
    <2>12. AheadInOrder'
      <3>1. \A i, j \in DOMAIN list : at <= i /\ i < j => Left(list[i]) <= Left(list[j])
        BY <1>0 DEF IInv, AheadInOrder
      <3>2. \A i \in DOMAIN list : at' <= i => at <= i
        BY <1>0, <2>1, ListFacts
      <3> QED BY <1>1, <3>1, <3>2 DEF AheadInOrder, Left
    <2> QED BY <2>3, <2>6, <2>7, <2>8, <2>10, <2>11, <2>12 DEF IInv
  <1> QED BY <1>2, <1>8, <1>9

LEMMA ReturnIInv ==
  ASSUME IInv, Return
  PROVE  IInv'
  <1> DEFINE Old(i) == IF i < at THEN i ELSE i + 1
  <1>0. TypeOK /\ Sorted /\ calling /\ at \in 1 .. Len(list) /\ at # 0
    <2>1. TypeOK /\ Sorted /\ at \in DOMAIN list /\ calling
      BY DEF IInv, TypeOK, Return
    <2> QED BY <2>1, ListFacts
  <1>1. UNCHANGED <<time, passed, at, delay, age>> /\ calling' = FALSE
    BY DEF Return
  <1>2. /\ list' \in Seq(Timers)
        /\ Len(list') = Len(list) - 1
        /\ \A i \in 1 .. at - 1 : list'[i] = list[i]
        /\ \A i \in at .. Len(list) - 1 : list'[i] = list[i + 1]
    <2>1. list' = RemoveAt(list, at) /\ list \in Seq(Timers)
      BY <1>0 DEF Return, TypeOK
    <2> QED BY <1>0, <2>1, RemoveFacts
  <1>3. /\ DOMAIN list' = 1 .. Len(list) - 1
        /\ \A i \in 1 .. Len(list) - 1 :
              Old(i) \in 1 .. Len(list) /\ Old(i) # at /\ list'[i] = list[Old(i)]
        /\ \A i, j \in 1 .. Len(list) - 1 : i < j => Old(i) < Old(j)
        /\ \A i \in 1 .. Len(list) - 1 : i >= at => Old(i) > at
        /\ \A i \in 1 .. at - 1 : i \in 1 .. Len(list) - 1 /\ Old(i) = i
    <2>1. Len(list) \in Nat
      BY <1>0, ListFacts
    <2> QED BY <1>0, <1>2, <2>1
  <1> HIDE DEF Old
  <1>4. TypeOK'
    <2>1. \A i, j \in DOMAIN list' : list'[i] = list'[j] => i = j
      <3> SUFFICES ASSUME NEW i \in DOMAIN list', NEW j \in DOMAIN list', i < j
                   PROVE  list'[i] # list'[j]
        BY <1>3
      <3>1. Old(i) < Old(j) /\ Old(i) \in 1 .. Len(list) /\ Old(j) \in 1 .. Len(list)
        BY <1>3
      <3> QED BY <1>0, <1>3, <3>1, ListFacts
    <2>2. at' \in 0 .. Len(list') + 1
      BY <1>0, <1>1, <1>2, ListFacts
    <2> QED BY <1>0, <1>1, <1>2, <2>1, <2>2 DEF TypeOK
  <1>5. Sorted'
    <2> SUFFICES ASSUME NEW i \in DOMAIN list', NEW j \in DOMAIN list', i < j
                 PROVE  time[list'[i]] <= time[list'[j]]
      BY <1>1 DEF Sorted
    <2>1. Old(i) < Old(j) /\ Old(i) \in DOMAIN list /\ Old(j) \in DOMAIN list
      BY <1>0, <1>3, ListFacts
    <2> QED BY <1>0, <1>3, <2>1 DEF Sorted
  <1>6. IdleTimes' /\ OnTime' /\ CallingDue'
    BY <1>0, <1>1 DEF IdleTimes, OnTime, Idle, CallingDue
  <1>7. AheadTimes'
    <2> SUFFICES ASSUME NEW i \in DOMAIN list', i >= at
                 PROVE  \/ time[list'[i]] = Left(list'[i]) + passed
                        \/ time[list'[i]] = 0 /\ passed = 0 /\ Left(list'[i]) <= 0
      BY <1>1 DEF AheadTimes, Left
    <2>1. Old(i) \in DOMAIN list /\ Old(i) > at /\ Old(i) >= at /\ list'[i] = list[Old(i)]
      BY <1>0, <1>3, ListFacts
    <2> QED BY <1>0, <2>1 DEF IInv, AheadTimes
  <1>8. BehindTimes'
    <2>1. \A i \in 1 .. at - 1 : /\ time[list[i]] = Left(list[i])
                                 /\ time[list[i]] > 0 \/ age[list[i]] = 0
      BY <1>0 DEF IInv, BehindTimes
    <2> QED BY <1>1, <1>2, <2>1 DEF BehindTimes, Left
  <1>9. NoDueAfter'
    <2>1. \A i \in 1 .. at - 1 : ~ (time[list[i]] > 0)
      BY <1>0 DEF IInv, NoDueAfter
    <2> QED BY <1>1, <1>2, <2>1 DEF NoDueAfter
  <1>10. AheadInOrder'
    <2> SUFFICES ASSUME NEW i \in DOMAIN list', NEW j \in DOMAIN list', at <= i, i < j
                 PROVE  Left(list'[i]) <= Left(list'[j])
      BY <1>1 DEF AheadInOrder, Left
    <2>1. /\ Old(i) < Old(j) /\ Old(i) \in DOMAIN list /\ Old(j) \in DOMAIN list
          /\ at <= Old(i)
      BY <1>0, <1>3, ListFacts
    <2> QED BY <1>0, <1>3, <2>1 DEF IInv, AheadInOrder
  <1> QED BY <1>4, <1>5, <1>6, <1>7, <1>8, <1>9, <1>10 DEF IInv

LEMMA DoneIInv ==
  ASSUME IInv, Done
  PROVE  IInv'
  <1>0. TypeOK /\ at = Len(list) + 1 /\ at # 0 /\ calling = FALSE
    <2>1. TypeOK /\ at = Len(list) + 1
      BY DEF IInv, Done
    <2>2. at \notin DOMAIN list /\ at # 0
      BY <2>1, ListFacts
    <2> QED BY <2>1, <2>2 DEF TypeOK
  <1>1. UNCHANGED <<list, time, calling, delay, age>> /\ at' = 0 /\ passed' = 0
    BY DEF Done
  <1>2. \A f \in Pending : /\ time[f] = Left(f)
                           /\ time[f] > 0 \/ age[f] = 0
    <2> SUFFICES ASSUME NEW f \in Pending
                 PROVE  time[f] = Left(f) /\ (time[f] > 0 \/ age[f] = 0)
      OBVIOUS
    <2>1. PICK i \in 1 .. Len(list) : list[i] = f
      BY <1>0, ListFacts
    <2>2. i \in 1 .. at - 1
      BY <1>0, <2>1, ListFacts
    <2> QED BY <1>0, <2>1, <2>2 DEF IInv, BehindTimes
  <1>3. TypeOK'
    <2>1. 0 \in 0 .. MaxDelay + MaxDiff /\ 0 \in 0 .. Len(list) + 1
      BY <1>0, ListFacts, TimerAssumption
    <2> QED BY <1>0, <1>1, <2>1 DEF TypeOK
  <1>4. Pending' = Pending
    BY <1>1 DEF Pending
  <1>5. IdleTimes'
    <2> SUFFICES ASSUME NEW f \in Pending PROVE time[f] = Left(f) + 0
      BY <1>1, <1>4 DEF IdleTimes, Left
    <2> QED BY <1>0, <1>2, ListFacts
  <1>6. OnTime'
    <2> SUFFICES ASSUME NEW f \in Pending PROVE age[f] < delay[f] \/ age[f] = 0
      BY <1>1, <1>4 DEF OnTime
    <2>1. age[f] \in Nat /\ delay[f] \in Nat
      BY <1>0, ListFacts
    <2> QED BY <1>2, <2>1 DEF Left
  <1>7. Sorted'
    BY <1>1 DEF IInv, Sorted
  <1>8. AheadTimes' /\ BehindTimes' /\ NoDueAfter' /\ CallingDue' /\ AheadInOrder'
    BY <1>0, <1>1 DEF AheadTimes, BehindTimes, NoDueAfter, CallingDue, AheadInOrder
  <1> QED BY <1>3, <1>5, <1>6, <1>7, <1>8 DEF IInv

\* What bringing the list up to date leaves of the times.
LEMMA UpToDateFacts ==
  ASSUME IInv
  PROVE  /\ \A f \in Timers : UpToDate(f) \in 0 .. MaxDelay
         /\ \A f \in Pending : UpToDate(f) = IF time[f] <= passed THEN 0 ELSE time[f] - passed
         /\ \A i, j \in DOMAIN list : i < j => UpToDate(list[i]) <= UpToDate(list[j])
         /\ Idle => \A f \in Pending : UpToDate(f) = Left(f)
  <1>0. TypeOK
    BY DEF IInv
  <1>1. \A f \in Pending : UpToDate(f) = IF time[f] <= passed THEN 0 ELSE time[f] - passed
    BY DEF UpToDate
  <1>2. \A f \in Timers : UpToDate(f) \in 0 .. MaxDelay
    BY <1>0, ListFacts, TimerAssumption DEF UpToDate
  <1>3. ASSUME NEW i \in DOMAIN list, NEW j \in DOMAIN list, i < j
        PROVE  UpToDate(list[i]) <= UpToDate(list[j])
    <2>1. time[list[i]] <= time[list[j]]
      BY <1>3 DEF IInv, Sorted
    <2>2. /\ time[list[i]] \in Nat /\ time[list[j]] \in Nat /\ passed \in Nat
          /\ list[i] \in Pending /\ list[j] \in Pending
      BY <1>0, ListFacts
    <2> QED BY <1>1, <2>1, <2>2
  <1>4. ASSUME Idle, NEW f \in Pending PROVE UpToDate(f) = Left(f)
    <2>1. time[f] = Left(f) + passed /\ (age[f] < delay[f] \/ age[f] = 0)
      BY <1>4 DEF IInv, IdleTimes, OnTime
    <2>2. time[f] \in Nat /\ age[f] \in Nat /\ delay[f] \in Nat /\ passed \in Nat
      BY <1>0, ListFacts
    <2> QED BY <1>1, <2>1, <2>2 DEF Left
  <1> QED BY <1>1, <1>2, <1>3, <1>4

LEMMA AddTimerIInv ==
  ASSUME IInv, NEW e \in Timers, NEW tk \in 0 .. MaxDelay, AddTimer(e, tk)
  PROVE  IInv'
  <1> DEFINE times == [f \in Timers |-> UpToDate(f)]
             p == Place(times, tk)
             Old(i) == IF i < p THEN i ELSE i - 1
             LeftNow(f) == delay'[f] - age'[f]
  <1>0. TypeOK /\ e \notin Pending /\ (at = 0 \/ calling = TRUE) /\ tk \in Nat
    <2>1. TypeOK /\ e \notin Pending /\ (at = 0 \/ calling)
      BY DEF AddTimer, IInv, Idle
    <2> QED BY <2>1, TimerAssumption DEF TypeOK
  <1>1. /\ list' = InsertAt(list, p, e)
        /\ at' = IF p <= at THEN at + 1 ELSE at
        /\ time' = [times EXCEPT ![e] = tk]
        /\ passed' = 0 /\ calling' = calling
        /\ delay' = [delay EXCEPT ![e] = tk]
        /\ age' = [age EXCEPT ![e] = 0]
    BY DEF AddTimer
  <1>2. times \in [Timers -> 0 .. MaxDelay] /\ times \in [Timers -> Nat]
    <2>1. times \in [Timers -> 0 .. MaxDelay]
      BY UpToDateFacts
    <2> QED BY <2>1, TimerAssumption
  <1>3. \A f \in Timers : times[f] = UpToDate(f) /\ times[f] \in Nat
    BY <1>2
  <1> HIDE DEF times
  <1>4. \A i, j \in DOMAIN list : i < j => times[list[i]] <= times[list[j]]
    BY <1>0, <1>3, UpToDateFacts, ListFacts
  <1>5. /\ p \in 1 .. Len(list) + 1
        /\ \A i \in 1 .. p - 1 : times[list[i]] < tk
        /\ \A i \in p .. Len(list) : times[list[i]] >= tk
    <2>1. list \in Seq(Timers)
      BY <1>0 DEF TypeOK
    <2> QED BY <1>0, <1>2, <1>4, <2>1, PlaceFacts
  <1> HIDE DEF p
  <1>6. /\ list' \in Seq(Timers)
        /\ Len(list') = Len(list) + 1
        /\ list'[p] = e
        /\ \A i \in 1 .. p - 1 : list'[i] = list[i]
        /\ \A i \in p + 1 .. Len(list) + 1 : list'[i] = list[i - 1]
    <2>1. list \in Seq(Timers)
      BY <1>0 DEF TypeOK
    <2> QED BY <1>1, <1>5, <2>1, InsertFacts
  <1>7. /\ DOMAIN list' = 1 .. Len(list) + 1
        /\ p \in 1 .. Len(list) + 1
        /\ \A i \in 1 .. Len(list) + 1 : i # p =>
              Old(i) \in 1 .. Len(list) /\ list'[i] = list[Old(i)]
        /\ \A i, j \in 1 .. Len(list) + 1 : i < j /\ i # p /\ j # p => Old(i) < Old(j)
        /\ \A i \in 1 .. p - 1 : Old(i) = i
        /\ \A i \in p + 1 .. Len(list) + 1 : Old(i) = i - 1
    <2>1. Len(list) \in Nat
      BY <1>0, ListFacts
    <2> QED BY <1>5, <1>6, <2>1
  <1> HIDE DEF Old
  <1>8. \A i \in 1 .. Len(list) : list[i] # e /\ list[i] \in Timers /\ list[i] \in Pending
    BY <1>0, ListFacts
  <1>9. /\ time'[e] = tk /\ LeftNow(e) = tk /\ age'[e] = 0 /\ delay'[e] = tk
        /\ \A f \in Timers : f # e =>
              /\ time'[f] = times[f]
              /\ age'[f] = age[f] /\ delay'[f] = delay[f]
              /\ LeftNow(f) = Left(f) /\ Left(f) \in Int
    <2>1. /\ time'[e] = tk
          /\ \A f \in Timers : f # e => time'[f] = times[f]
      BY <1>1, <1>2
    <2>2. /\ age'[e] = 0
          /\ \A f \in Timers : f # e => age'[f] = age[f]
      BY <1>0, <1>1 DEF TypeOK
    <2>3. /\ delay'[e] = tk
          /\ \A f \in Timers : f # e => delay'[f] = delay[f]
      BY <1>0, <1>1 DEF TypeOK
    <2>4. LeftNow(e) = tk
      BY <1>0, <2>2, <2>3 DEF Left
    <2>5. \A f \in Timers : f # e => LeftNow(f) = Left(f) /\ Left(f) \in Int
      BY <1>0, <2>2, <2>3, ListFacts DEF Left
    <2> QED BY <2>1, <2>2, <2>3, <2>4, <2>5
  <1>10. /\ at \in 0 .. Len(list) + 1
         /\ at' \in 0 .. Len(list) + 2
         /\ at = 0 => at' = 0
         /\ calling = TRUE => at \in 1 .. Len(list) /\ at' \in 1 .. Len(list) + 1 /\ at' # p
         /\ calling = TRUE => Old(at') = at
    <2>1. at \in 0 .. Len(list) + 1 /\ (calling = TRUE => at \in 1 .. Len(list)) /\ Len(list) \in Nat
      BY <1>0, ListFacts DEF TypeOK
    <2>2. at = 0 => at' = 0
      BY <1>1, <1>5
    <2>3. at' \in 0 .. Len(list) + 2
      BY <1>1, <2>1
    <2>4. calling = TRUE => /\ at' \in 1 .. Len(list) + 1
                            /\ (p <= at /\ at' = at + 1) \/ (p > at /\ at' = at)
      BY <1>1, <1>5, <2>1
    <2>5. calling = TRUE => at' # p /\ Old(at') = at
      BY <1>5, <2>1, <2>4 DEF Old
    <2> QED BY <2>1, <2>2, <2>3, <2>4, <2>5
  <1>11. TypeOK'
    <2>1. \A i, j \in DOMAIN list' : list'[i] = list'[j] => i = j
      <3> SUFFICES ASSUME NEW i \in DOMAIN list', NEW j \in DOMAIN list', i < j
                   PROVE  list'[i] # list'[j]
        BY <1>7
      <3>1. CASE i = p \/ j = p
        BY <1>6, <1>7, <1>8, <3>1
      <3>2. CASE i # p /\ j # p
        <4>1. Old(i) < Old(j) /\ Old(i) \in 1 .. Len(list) /\ Old(j) \in 1 .. Len(list)
          BY <1>7, <3>2
        <4> QED BY <1>0, <1>7, <3>2, <4>1, ListFacts
      <3> QED BY <3>1, <3>2
    <2>2. time' \in [Timers -> 0 .. MaxDelay]
      BY <1>1, <1>2
    <2>3. delay' \in [Timers -> 0 .. MaxDelay] /\ age' \in [Timers -> Nat]
      BY <1>0, <1>1 DEF TypeOK
    <2>4. passed' \in 0 .. MaxDelay + MaxDiff
      BY <1>1, TimerAssumption
    <2>5. at' \in 0 .. Len(list') + 1
      <3>1. Len(list') + 1 = Len(list) + 2
        <4>1. Len(list) \in Nat
          BY <1>0, ListFacts
        <4> QED BY <1>6, <4>1
      <3> QED BY <1>10, <3>1
    <2>6. calling' \in BOOLEAN /\ (calling' => at' \in DOMAIN list')
      BY <1>0, <1>1, <1>7, <1>10 DEF TypeOK
    <2> QED BY <1>6, <2>1, <2>2, <2>3, <2>4, <2>5, <2>6 DEF TypeOK
  <1>12. Sorted'
    <2> SUFFICES ASSUME NEW i \in DOMAIN list', NEW j \in DOMAIN list', i < j
                 PROVE  time'[list'[i]] <= time'[list'[j]]
      BY DEF Sorted
    <2>1. CASE i = p
      <3>1. Old(j) = j - 1 /\ Old(j) \in p .. Len(list) /\ list'[j] = list[Old(j)]
        BY <1>7, <2>1
      <3>2. time'[list'[j]] = times[list[Old(j)]]
        BY <1>8, <1>9, <3>1, <1>5
      <3> QED BY <1>5, <1>6, <1>9, <2>1, <3>1, <3>2
    <2>2. CASE j = p
      <3>1. i \in 1 .. p - 1 /\ list'[i] = list[i] /\ i \in 1 .. Len(list)
        BY <1>6, <1>7, <2>2
      <3>2. time'[list'[i]] = times[list[i]] /\ times[list[i]] \in Nat
        BY <1>3, <1>8, <1>9, <3>1
      <3> QED BY <1>0, <1>5, <1>6, <1>9, <2>2, <3>1, <3>2
    <2>3. CASE i # p /\ j # p
      <3>1. /\ Old(i) < Old(j) /\ Old(i) \in DOMAIN list /\ Old(j) \in DOMAIN list
            /\ list'[i] = list[Old(i)] /\ list'[j] = list[Old(j)]
        BY <1>0, <1>7, <2>3, ListFacts
      <3>2. time'[list'[i]] = times[list[Old(i)]] /\ time'[list'[j]] = times[list[Old(j)]]
        BY <1>0, <1>8, <1>9, <3>1, ListFacts
      <3> QED BY <1>4, <3>1, <3>2
    <2> QED BY <2>1, <2>2, <2>3
  <1>13. \A f \in Pending' : f = e \/ (f \in Pending /\ f \in Timers /\ f # e)
    <2> SUFFICES ASSUME NEW i \in DOMAIN list'
                 PROVE  list'[i] = e \/ (list'[i] \in Pending /\ list'[i] \in Timers /\ list'[i] # e)
      BY DEF Pending
    <2>1. CASE i = p
      BY <1>6, <2>1
    <2>2. CASE i # p
      <3>1. Old(i) \in 1 .. Len(list) /\ list'[i] = list[Old(i)]
        BY <1>7, <2>2
      <3> QED BY <1>8, <3>1
    <2> QED BY <2>1, <2>2
  <1>14. CASE at = 0
    <2>1. at' = 0 /\ Idle
      BY <1>10, <1>14 DEF Idle
    <2>2. calling = FALSE /\ calling' = FALSE
      <3>1. 0 \notin DOMAIN list
        BY <1>0, ListFacts
      <3> QED BY <1>0, <1>1, <1>14, <3>1 DEF TypeOK
    <2>3. IdleTimes'
      <3> SUFFICES ASSUME NEW f \in Pending' PROVE time'[f] = LeftNow(f) + 0
        BY <1>1 DEF IdleTimes, Left
      <3>1. CASE f = e
        BY <1>0, <1>9, <3>1
      <3>2. CASE f \in Pending /\ f \in Timers /\ f # e
        <4>1. times[f] = Left(f)
          BY <1>3, <2>1, <3>2, UpToDateFacts
        <4> QED BY <1>9, <3>2, <4>1
      <3> QED BY <1>13, <3>1, <3>2
    <2>4. OnTime'
      <3> SUFFICES ASSUME NEW f \in Pending' PROVE age'[f] < delay'[f] \/ age'[f] = 0
        BY DEF OnTime
      <3>1. CASE f = e
        BY <1>9, <3>1
      <3>2. CASE f \in Pending /\ f \in Timers /\ f # e
        BY <1>9, <2>1, <3>2 DEF IInv, OnTime
      <3> QED BY <1>13, <3>1, <3>2
    <2>5. AheadTimes' /\ BehindTimes' /\ NoDueAfter' /\ CallingDue' /\ AheadInOrder'
      BY <2>1, <2>2 DEF AheadTimes, BehindTimes, NoDueAfter, CallingDue, AheadInOrder
    <2> QED BY <1>11, <1>12, <2>3, <2>4, <2>5 DEF IInv
  <1>15. CASE calling = TRUE
    <2>1. /\ at \in 1 .. Len(list) /\ at # 0 /\ at' # 0 /\ at' # p
          /\ at' \in 1 .. Len(list) + 1 /\ Old(at') = at /\ calling' = TRUE
          /\ (p <= at /\ at' = at + 1) \/ (p > at /\ at' = at)
      BY <1>1, <1>5, <1>10, <1>15
    <2>2. \A i \in 1 .. at : time[list[i]] = 0 /\ times[list[i]] = 0
      <3>1. time[list[at]] = 0
        BY <1>15 DEF IInv, CallingDue
      <3>2. \A i \in 1 .. at - 1 : ~ (time[list[i]] > 0)
        BY <1>15, <2>1 DEF IInv, NoDueAfter
      <3>3. \A i \in 1 .. at : i \in 1 .. Len(list) /\ (i = at \/ i \in 1 .. at - 1)
        BY <2>1
      <3>4. \A i \in 1 .. at : time[list[i]] = 0
        <4>1. \A i \in 1 .. at : time[list[i]] \in Nat
          BY <1>0, <3>3, ListFacts
        <4> QED BY <3>1, <3>2, <3>3, <4>1
      <3>5. passed \in Nat
        BY <1>0, ListFacts
      <3>6. \A i \in 1 .. at : times[list[i]] = 0
        BY <1>3, <1>8, <3>3, <3>4, <3>5, UpToDateFacts
      <3> QED BY <3>4, <3>6
    <2>3. IF p <= at THEN tk = 0 ELSE tk > 0
      BY <1>0, <1>5, <2>1, <2>2
    \* The loop's place stays on the same timer, and everything on its side.
    <2>4. \A i \in 1 .. Len(list) + 1 : i # p =>
              /\ (i > at' <=> Old(i) > at) /\ (i >= at' <=> Old(i) >= at)
      BY <1>5, <1>7, <2>1 DEF Old
    <2>5. p > at' <=> p > at
      BY <1>5, <2>1
    <2>6. \A i \in at + 1 .. Len(list) :
              \/ times[list[i]] = Left(list[i])
              \/ times[list[i]] = 0 /\ Left(list[i]) <= 0
      <3> SUFFICES ASSUME NEW i \in at + 1 .. Len(list)
                   PROVE  \/ times[list[i]] = Left(list[i])
                          \/ times[list[i]] = 0 /\ Left(list[i]) <= 0
        OBVIOUS
      <3>1. i \in 1 .. Len(list) /\ i >= at /\ i > at
        BY <2>1
      <3>2. \/ time[list[i]] = Left(list[i]) + passed
            \/ time[list[i]] = 0 /\ passed = 0 /\ Left(list[i]) <= 0
        BY <1>0, <2>1, <3>1, ListFacts DEF IInv, AheadTimes
      <3>3. times[list[i]] = IF time[list[i]] <= passed THEN 0 ELSE time[list[i]] - passed
        BY <1>3, <1>8, <3>1, UpToDateFacts
      <3>4. time[list[i]] \in Nat /\ passed \in Nat /\ Left(list[i]) \in Int
        BY <1>0, <1>8, <3>1, ListFacts
      <3> QED BY <3>2, <3>3, <3>4
    <2>7. \A i \in 1 .. Len(list) + 1 : i # p =>
              /\ list'[i] = list[Old(i)] /\ Old(i) \in 1 .. Len(list)
              /\ time'[list'[i]] = times[list[Old(i)]]
              /\ age'[list'[i]] = age[list[Old(i)]]
              /\ LeftNow(list'[i]) = Left(list[Old(i)])
      <3> SUFFICES ASSUME NEW i \in 1 .. Len(list) + 1, i # p
                   PROVE  /\ list'[i] = list[Old(i)] /\ Old(i) \in 1 .. Len(list)
                          /\ time'[list'[i]] = times[list[Old(i)]]
                          /\ age'[list'[i]] = age[list[Old(i)]]
                          /\ LeftNow(list'[i]) = Left(list[Old(i)])
        OBVIOUS
      <3>1. list'[i] = list[Old(i)] /\ Old(i) \in 1 .. Len(list)
        BY <1>7
      <3>2. list[Old(i)] # e /\ list[Old(i)] \in Timers
        BY <1>8, <3>1
      <3>3. /\ time'[list'[i]] = times[list[Old(i)]]
            /\ age'[list'[i]] = age[list[Old(i)]]
            /\ delay'[list'[i]] = delay[list[Old(i)]]
        BY <1>9, <3>1, <3>2
      <3> QED BY <3>1, <3>3 DEF Left
    <2>8. IdleTimes' /\ OnTime'
      BY <2>1 DEF IdleTimes, OnTime, Idle
    <2>9. AheadTimes'
      <3> SUFFICES ASSUME NEW i \in 1 .. Len(list) + 1, i > at'
                   PROVE  \/ time'[list'[i]] = LeftNow(list'[i]) + 0
                          \/ time'[list'[i]] = 0 /\ LeftNow(list'[i]) <= 0
        BY <1>1, <1>7, <2>1 DEF AheadTimes, Left
      <3>1. CASE i = p
        <4>1. time'[list'[i]] = tk /\ LeftNow(list'[i]) = tk
          BY <1>6, <1>9, <3>1 DEF Left
        <4> QED BY <1>0, <4>1
      <3>2. CASE i # p
        <4>1. Old(i) \in at + 1 .. Len(list) /\ Left(list[Old(i)]) \in Int
          BY <1>0, <1>8, <2>1, <2>4, <2>7, <3>2, ListFacts
        <4> QED BY <2>6, <2>7, <3>2, <4>1
      <3> QED BY <3>1, <3>2
    <2>behind. \A i \in 1 .. at' - 1 : i \in 1 .. Len(list) + 1 /\ i < at'
      <3>1. PICK n \in 1 .. Len(list) + 1 : n = at'
        BY <2>1
      <3>2. Len(list) \in Nat
        BY <1>0, ListFacts
      <3>3. \A i \in 1 .. n - 1 : i \in 1 .. Len(list) + 1 /\ i < n
        BY <3>2
      <3> QED BY <3>1, <3>3
    <2>10. \A i \in 1 .. at' - 1 : time'[list'[i]] = 0
      <3> SUFFICES ASSUME NEW i \in 1 .. Len(list) + 1, i < at' PROVE time'[list'[i]] = 0
        BY <2>behind
      <3>1. i \in 1 .. Len(list) + 1 /\ i < at'
        OBVIOUS
      <3>2. CASE i = p
        BY <1>6, <1>9, <2>1, <2>3, <3>1, <3>2
      <3>3. CASE i # p
        <4>1. Old(i) \in 1 .. at
          BY <2>1, <2>4, <2>7, <3>1, <3>3
        <4> QED BY <2>2, <2>7, <3>1, <3>3, <4>1
      <3> QED BY <3>2, <3>3
    <2>11. BehindTimes'
      <3> SUFFICES ASSUME NEW i \in 1 .. Len(list) + 1, i < at'
                   PROVE  LeftNow(list'[i]) = 0 /\ age'[list'[i]] = 0
        BY <2>10, <2>behind DEF BehindTimes, Left
      <3>1. i \in 1 .. Len(list) + 1 /\ i < at'
        OBVIOUS
      <3>2. CASE i = p
        <4>1. tk = 0
          BY <2>1, <2>3, <3>1, <3>2
        <4> QED BY <1>6, <1>9, <3>2, <4>1 DEF Left
      <3>3. CASE i # p
        <4>1. Old(i) \in 1 .. at - 1
          BY <2>1, <2>4, <2>7, <3>1, <3>3
        <4>2. Old(i) \in 1 .. at
          BY <2>1, <4>1
        <4>3. time[list[Old(i)]] = 0
          BY <2>2, <4>2
        <4>4. Left(list[Old(i)]) = 0 /\ age[list[Old(i)]] = 0
          BY <2>1, <4>1, <4>3 DEF IInv, BehindTimes
        <4> QED BY <2>7, <3>1, <3>3, <4>4
      <3> QED BY <3>2, <3>3
    <2>12. NoDueAfter'
      BY <2>10 DEF NoDueAfter
    <2>13. CallingDue'
      <3>1. list'[at'] = list[at] /\ time'[list'[at']] = times[list[at]]
            /\ LeftNow(list'[at']) = Left(list[at])
        BY <2>1, <2>7
      <3>2. times[list[at]] = 0
        BY <2>1, <2>2
      <3>3. Left(list[at]) <= 0
        BY <1>15 DEF IInv, CallingDue
      <3> QED BY <3>1, <3>2, <3>3 DEF CallingDue, Left
    <2>14. AheadInOrder'
      <3> SUFFICES ASSUME NEW i \in 1 .. Len(list) + 1, NEW j \in 1 .. Len(list) + 1,
                          at' <= i, i < j
                   PROVE  LeftNow(list'[i]) <= LeftNow(list'[j])
        BY <1>7 DEF AheadInOrder, Left
      <3>1. CASE i = p
        <4>1. p > at /\ tk > 0
          BY <2>1, <2>3, <2>5, <3>1
        <4>2. Old(j) \in p .. Len(list) /\ Old(j) \in at + 1 .. Len(list)
          BY <1>5, <1>7, <2>1, <3>1, <4>1
        <4>3. times[list[Old(j)]] >= tk
          BY <1>5, <4>2
        <4>4. Left(list[Old(j)]) >= tk
          BY <1>0, <2>6, <4>1, <4>2, <4>3
        <4>5. LeftNow(list'[i]) = tk
          BY <1>6, <1>9, <3>1 DEF Left
        <4> QED BY <2>7, <3>1, <4>4, <4>5
      <3>2. CASE j = p
        <4>1. Old(i) = i /\ i \in 1 .. p - 1 /\ i # p /\ at <= i
          BY <1>7, <2>1, <2>4, <3>2
        <4>2. p > at /\ tk > 0
          BY <1>5, <2>1, <2>3, <3>2, <4>1
        <4>3. times[list[i]] < tk
          BY <1>5, <4>1
        <4>4. Left(list[i]) <= tk
          <5>1. CASE i = at
            <6>1. Left(list[at]) <= 0 /\ Left(list[at]) \in Int
              BY <1>0, <1>8, <1>15, <2>1, ListFacts DEF IInv, CallingDue
            <6> QED BY <1>0, <4>2, <5>1, <6>1
          <5>2. CASE i # at
            <6>1. i \in at + 1 .. Len(list) /\ Left(list[i]) \in Int
              BY <1>0, <1>5, <1>8, <2>1, <4>1, <5>2, ListFacts
            <6> QED BY <1>0, <2>6, <4>3, <4>2, <6>1
          <5> QED BY <5>1, <5>2
        <4>5. LeftNow(list'[j]) = tk
          BY <1>6, <1>9, <3>2 DEF Left
        <4> QED BY <2>7, <4>1, <4>4, <4>5
      <3>3. CASE i # p /\ j # p
        <4>1. /\ Old(i) \in DOMAIN list /\ Old(j) \in DOMAIN list
              /\ at <= Old(i) /\ Old(i) < Old(j)
          BY <1>0, <1>7, <2>1, <2>4, <2>7, <3>3, ListFacts
        <4>2. Left(list[Old(i)]) <= Left(list[Old(j)])
          BY <2>1, <4>1 DEF IInv, AheadInOrder
        <4> QED BY <2>7, <3>3, <4>2
      <3> QED BY <3>1, <3>2, <3>3
    <2> QED BY <1>11, <1>12, <2>8, <2>9, <2>11, <2>12, <2>13, <2>14 DEF IInv
  <1> QED BY <1>0, <1>14, <1>15

LEMMA NextIInv ==
  ASSUME IInv, [Next]_vars
  PROVE  IInv'
  <1>1. CASE \E e \in Timers, tk \in 0 .. MaxDelay : AddTimer(e, tk)
    BY <1>1, AddTimerIInv
  <1>2. CASE \E diff \in 0 .. MaxDiff : Heartbeat(diff)
    BY <1>2, HeartbeatIInv
  <1>3. CASE Visit
    BY <1>3, VisitIInv
  <1>4. CASE Return
    BY <1>4, ReturnIInv
  <1>5. CASE Done
    BY <1>5, DoneIInv
  <1>6. CASE UNCHANGED vars
    BY <1>6 DEF vars, IInv, TypeOK, Sorted, IdleTimes, OnTime, AheadTimes, BehindTimes,
       NoDueAfter, CallingDue, AheadInOrder, Idle, Pending, Left
  <1> QED BY <1>1, <1>2, <1>3, <1>4, <1>5, <1>6 DEF Next

LEMMA Inductive == Spec => []IInv
  <1>1. Init => IInv
    BY InitIInv
  <1>2. IInv /\ [Next]_vars => IInv'
    BY NextIInv
  <1> QED BY <1>1, <1>2, PTL DEF Spec

----------------------------------------------------------------------------
(* The theorems *)

\* The list never holds a timer twice, and the loop's place never leaves it,
\* whatever the timers' functions add.
THEOREM TypeCorrect == Spec => []TypeOK
  <1>1. IInv => TypeOK
    BY DEF IInv
  <1> QED BY <1>1, Inductive, PTL

\* addTimer always finds the list in order, in mid-loop too.
THEOREM SortedCorrect == Spec => []Sorted
  <1>1. IInv => Sorted
    BY DEF IInv
  <1> QED BY <1>1, Inductive, PTL

\* heartbeat leaves no timer whose delay has gone by.
THEOREM OnTimeCorrect == Spec => []OnTime
  <1>1. IInv => OnTime
    BY DEF IInv
  <1> QED BY <1>1, Inductive, PTL

\* No timer's function is called before its delay has gone by.
THEOREM NeverEarlyCorrect == Spec => []NeverEarly
  <1>1. IInv => NeverEarly
    <2> SUFFICES ASSUME IInv, calling PROVE age[list[at]] >= delay[list[at]]
      BY DEF NeverEarly
    <2>1. TypeOK /\ at \in 1 .. Len(list)
      BY ListFacts DEF IInv, TypeOK
    <2>2. list[at] \in Timers
      BY <2>1, ListFacts
    <2>3. age[list[at]] \in Nat /\ delay[list[at]] \in Nat
      BY <2>1, <2>2, ListFacts
    <2>4. delay[list[at]] - age[list[at]] <= 0
      BY DEF IInv, CallingDue, Left
    <2> QED BY <2>3, <2>4
  <1> QED BY <1>1, Inductive, PTL

\* A timer's function is called before those of the timers due after it.
THEOREM DeadlineOrderCorrect == Spec => []DeadlineOrder
  <1>1. IInv => DeadlineOrder
    <2> SUFFICES ASSUME IInv, calling, NEW f \in Pending
                 PROVE  Left(list[at]) <= Left(f)
      BY DEF DeadlineOrder, Left
    <2>1. TypeOK /\ at \in 1 .. Len(list) /\ at # 0
      <3>1. TypeOK /\ at \in DOMAIN list
        BY DEF IInv, TypeOK
      <3> QED BY <3>1, ListFacts
    <2>2. PICK i \in 1 .. Len(list) : list[i] = f
      BY <2>1, ListFacts
    <2>3. Left(list[at]) <= 0 /\ Left(list[at]) \in Int
      BY <2>1, ListFacts DEF IInv, CallingDue
    <2>4. CASE i < at
      <3>1. i \in 1 .. at - 1
        BY <2>1, <2>4
      <3>2. time[f] = Left(f) /\ time[f] \in Nat
        BY <2>1, <2>2, <3>1, ListFacts DEF IInv, BehindTimes
      <3> QED BY <2>3, <3>2
    <2>5. CASE i = at
      BY <2>2, <2>3, <2>5
    <2>6. CASE at < i
      <3>1. at \in DOMAIN list /\ i \in DOMAIN list /\ at <= at
        BY <2>1, <2>2, ListFacts
      <3> QED BY <2>1, <2>2, <2>6, <3>1 DEF IInv, AheadInOrder
    <2> QED BY <2>1, <2>4, <2>5, <2>6
  <1> QED BY <1>1, Inductive, PTL
=============================================================================
