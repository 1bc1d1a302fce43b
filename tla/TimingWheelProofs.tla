------------------------- MODULE TimingWheelProofs -------------------------
(* Theorems about TimingWheel, for any number of slots, entries and ticks. *)
EXTENDS TimingWheel, FiniteSetTheorems, TLAPS

----------------------------------------------------------------------------
(* Lemmas about the operators *)

\* get_slot() and add() index wheel_ within its bounds.
LEMMA SlotOfType == \A k \in Ticks : SlotOf(k) \in Slots
  BY WheelAssumption DEF Ticks, Slots, SlotOf

\* The wrapped sum of two ticks is a tick.
LEMMA SumType == \A a, b \in Ticks : Sum(a, b) \in Ticks
  BY WheelAssumption DEF Ticks, Sum

WheelType == [Slots -> [Ticks -> Seq(Entries)]]

\* Inserting changes one equal range only, at its end.
LEMMA InsertedFacts ==
  ASSUME NEW w \in WheelType, NEW key \in Ticks, NEW e \in Entries
  PROVE  /\ Inserted(w, key, e) \in WheelType
         /\ Inserted(w, key, e)[SlotOf(key)][key] =
                Append(w[SlotOf(key)][key], e)
         /\ \A i \in Slots, k \in Ticks :
                (i # SlotOf(key) \/ k # key) =>
                    Inserted(w, key, e)[i][k] = w[i][k]
  BY SlotOfType DEF Inserted, WheelType

\* Removing e from an equal range that holds it once leaves the others in
\* their order.
LEMMA WithoutFacts ==
  ASSUME NEW s \in Seq(Entries), NEW e \in RangeOf(s),
         \A p, q \in DOMAIN s : s[p] = s[q] => p = q
  PROVE  /\ Without(s, e) \in Seq(Entries)
         /\ \A p \in DOMAIN Without(s, e) :
                Without(s, e)[p] \in RangeOf(s) \ {e}
         /\ RangeOf(s) \ {e} \subseteq RangeOf(Without(s, e))
         /\ \A p, q \in DOMAIN Without(s, e) : p < q =>
                \E p2, q2 \in DOMAIN s :
                    /\ p2 < q2
                    /\ s[p2] = Without(s, e)[p]
                    /\ s[q2] = Without(s, e)[q]
         /\ \A p, q \in DOMAIN Without(s, e) :
                Without(s, e)[p] = Without(s, e)[q] => p = q
  <1> DEFINE x == PositionOf(s, e)
             r == Without(s, e)
  <1>1. x \in 1 .. Len(s) /\ s[x] = e
    BY DEF RangeOf, PositionOf
  <1>2. /\ Len(s) - 1 \in Nat
        /\ r = [i \in 1 .. Len(s) - 1 |-> IF i < x THEN s[i] ELSE s[i + 1]]
    BY <1>1 DEF Without
  <1> HIDE DEF x, r
  <1>3. r \in Seq(Entries) /\ DOMAIN r = 1 .. Len(s) - 1
    BY <1>1, <1>2
  <1>4. ASSUME NEW p \in DOMAIN r
        PROVE  \E i \in DOMAIN s \ {x} : r[p] = s[i] /\ i = IF p < x THEN p ELSE p + 1
    BY <1>1, <1>2, <1>3
  <1>5. \A p \in DOMAIN r : r[p] \in RangeOf(s) \ {e}
    BY <1>1, <1>4 DEF RangeOf
  <1>6. ASSUME NEW y \in RangeOf(s) \ {e}
        PROVE  y \in RangeOf(r)
    <2>1. PICK i \in 1 .. Len(s) : s[i] = y
      BY DEF RangeOf
    <2>2. CASE i < x
      <3>1. i \in DOMAIN r /\ r[i] = s[i]
        BY <1>1, <1>2, <1>3, <2>2
      <3> QED BY <3>1, <2>1 DEF RangeOf
    <2>3. CASE i > x
      <3>1. i - 1 \in DOMAIN r /\ r[i - 1] = s[i]
        BY <1>1, <1>2, <1>3, <2>3
      <3> QED BY <3>1, <2>1 DEF RangeOf
    <2> QED BY <1>1, <2>1, <2>2, <2>3
  <1>7. ASSUME NEW p \in DOMAIN r, NEW q \in DOMAIN r, p < q
        PROVE  \E p2, q2 \in DOMAIN s : p2 < q2 /\ s[p2] = r[p] /\ s[q2] = r[q]
    BY <1>1, <1>3, <1>4, <1>7
  <1>8. ASSUME NEW p \in DOMAIN r, NEW q \in DOMAIN r, r[p] = r[q]
        PROVE  p = q
    BY <1>1, <1>3, <1>4, <1>8
  <1> QED BY <1>3, <1>5, <1>6, <1>7, <1>8 DEF r

\* Appending an entry keeps what was there and adds the entry at the end.
LEMMA AppendFacts ==
  ASSUME NEW s \in Seq(Entries), NEW e \in Entries
  PROVE  /\ Append(s, e) \in Seq(Entries)
         /\ RangeOf(s) \subseteq RangeOf(Append(s, e))
         /\ e \in RangeOf(Append(s, e))
         /\ DOMAIN s = 1 .. Len(s)
         /\ DOMAIN Append(s, e) = 1 .. Len(s) + 1
         /\ \A p \in 1 .. Len(s) : Append(s, e)[p] = s[p]
         /\ Append(s, e)[Len(s) + 1] = e
  <1>1. /\ Append(s, e) \in Seq(Entries)
        /\ Len(Append(s, e)) = Len(s) + 1
        /\ DOMAIN s = 1 .. Len(s)
        /\ DOMAIN Append(s, e) = 1 .. Len(s) + 1
        /\ \A p \in 1 .. Len(s) : Append(s, e)[p] = s[p]
        /\ Append(s, e)[Len(s) + 1] = e
    OBVIOUS
  <1>2. RangeOf(s) \subseteq RangeOf(Append(s, e))
    BY <1>1 DEF RangeOf
  <1>3. e \in RangeOf(Append(s, e))
    BY <1>1 DEF RangeOf
  <1> QED BY <1>1, <1>2, <1>3

----------------------------------------------------------------------------
(* The inductive invariant.  Consistent alone is inductive but says nothing
   about time; RunIsClean and NeverEarly need to know that the key under which
   an entry is stored is the one its last arming computed, and that no entry
   is armed in the future. *)

ArmedForTick ==
    \A e \in all \ immediate :
        /\ tick[e] = Sum(duration[e], start[e])
        /\ start[e] <= current_tick

IInv ==
    /\ TypeOK
    /\ Consistent
    /\ ArmedForTick
    /\ RunIsClean
    /\ NeverEarly
    /\ ArmOrder

\* The bounds of the model are ticks.
LEMMA Bounds ==
    /\ Width \in Nat /\ MaxTick \in Nat /\ MaxTick < Width
    /\ 0 \in Ticks /\ 0 .. MaxTick \subseteq Ticks
    /\ Ticks \subseteq Nat
    /\ Durations \subseteq Ticks
    /\ 0 \in 0 .. MaxTick
  BY WheelAssumption DEF Ticks

LEMMA EmptyWheelType == [i \in Slots |-> EmptySlot] \in WheelType
  BY DEF WheelType, EmptySlot

\* Removing anything from an equal range leaves a sequence of entries.
LEMMA WithoutType ==
  ASSUME NEW s \in Seq(Entries), NEW e
  PROVE  Without(s, e) \in Seq(Entries)
  <1> DEFINE x == PositionOf(s, e)
             f(i) == IF i < x THEN s[i] ELSE s[i + 1]
  <1>1. PICK n \in Nat : /\ 1 .. n = 1 .. Len(s) - 1
                         /\ \A i \in 1 .. n : i \in 1 .. Len(s) /\ i + 1 \in 1 .. Len(s)
    <2>1. CASE Len(s) = 0
      BY <2>1, 0 \in Nat, 1 .. 0 = 1 .. Len(s) - 1
    <2>2. CASE Len(s) # 0
      BY <2>2, Len(s) - 1 \in Nat
    <2> QED BY <2>1, <2>2
  <1>2. \A i \in 1 .. n : f(i) \in Entries
    BY <1>1
  <1>3. Without(s, e) = [i \in 1 .. n |-> f(i)]
    BY <1>1 DEF Without
  <1> HIDE DEF f
  <1> QED BY <1>2, <1>3

LEMMA ErasedType ==
  ASSUME NEW w \in WheelType, tick \in [Entries -> Ticks], NEW e \in Entries
  PROVE  Erased(w, e) \in WheelType
  BY SlotOfType, WithoutType DEF Erased, WheelType

\* The variables have their types initially.
LEMMA TypeInit == Init => TypeOK
  <1> SUFFICES ASSUME Init PROVE TypeOK
    OBVIOUS
  <1>1. wheel \in WheelType
    BY EmptyWheelType DEF Init
  <1> QED BY <1>1, Bounds DEF Init, TypeOK, WheelType

\* Every operation keeps the types.
LEMMA TypeNext == TypeOK /\ [Next]_vars => TypeOK'
  <1> SUFFICES ASSUME TypeOK, [Next]_vars PROVE TypeOK'
    OBVIOUS
  <1> USE Bounds DEF TypeOK
  <1>10. wheel \in WheelType
    BY DEF WheelType
  <1>1. CASE Tick
    <2>1. current_tick + 1 \in 0 .. MaxTick
      BY <1>1 DEF Tick
    <2>2. since' \in 0 .. MaxTick
      BY <1>1, <2>1 DEF Tick
    <2> QED BY <1>1, <2>1, <2>2 DEF Tick, wheelVars
  <1>2. ASSUME NEW t \in 0 .. MaxTick, GetExpired(t) PROVE TypeOK'
    <2>1. wheel' \in WheelType
      <3> DEFINE i == SlotOf(current_tick)
                 rest == [k \in Ticks |->
                            IF BeforeBound(k, t) THEN << >> ELSE wheel[i][k]]
      <3>1. wheel' = [wheel EXCEPT ![i] = rest] /\ i \in Slots
        BY <1>2, SlotOfType DEF GetExpired
      <3>2. rest \in [Ticks -> Seq(Entries)]
        <4>1. wheel[i] \in [Ticks -> Seq(Entries)]
          BY <1>10, <3>1 DEF WheelType
        <4> HIDE DEF i
        <4> QED BY <4>1
      <3> HIDE DEF rest, i
      <3> QED BY <1>10, <3>1, <3>2 DEF WheelType
    <2>2. /\ fate' \in [Entries -> {"unborn", "armed", "fired", "dropped"}]
          /\ firedAt' \in [Entries -> 0 .. MaxTick]
      BY <1>2 DEF GetExpired
    <2> QED BY <1>2, <2>1, <2>2 DEF GetExpired, WheelType
  <1>3. ASSUME NEW e \in Entries, NEW d \in Durations, Add(e, d) PROVE TypeOK'
    <2>1. CASE d = 0
      <3>1. AddImmediate(e)
        BY <1>3, <2>1 DEF Add
      <3>2. /\ wheel' = wheel /\ immediate' \subseteq Entries
            /\ all' \subseteq Entries
        BY <3>1 DEF AddImmediate, NewEntry
      <3>3. /\ tick' \in [Entries -> Ticks] /\ duration' \in [Entries -> Ticks]
            /\ fate' \in [Entries -> {"unborn", "armed", "fired", "dropped"}]
            /\ start' \in [Entries -> 0 .. MaxTick]
        BY <3>1 DEF AddImmediate, NewEntry
      <3> QED BY <3>1, <3>2, <3>3 DEF AddImmediate, NewEntry
    <2>2. CASE d # 0
      <3>1. AddTimed(e, d)
        BY <1>3, <2>2 DEF Add
      <3>2. Sum(d, current_tick) \in Ticks
        BY SumType
      <3>3. wheel' \in WheelType
        BY <1>10, <3>1, <3>2, InsertedFacts DEF AddTimed
      <3> QED BY <3>1, <3>2, <3>3 DEF AddTimed, NewEntry, WheelType
    <2> QED BY <2>1, <2>2
  <1>4. ASSUME NEW e \in Entries, Cancel(e) PROVE TypeOK'
    <2>1. wheel' \in WheelType
      BY <1>4, <1>10, ErasedType DEF Cancel
    <2> QED BY <1>4, <2>1 DEF Cancel, WheelType
  <1>5. ASSUME NEW e \in Entries, CancelImmediate(e) PROVE TypeOK'
    BY <1>5 DEF CancelImmediate, wheelVars, history
  <1>6. ASSUME NEW e \in Entries, Reset(e) PROVE TypeOK'
    <2>1. Sum(duration[e], current_tick) \in Ticks
      BY SumType
    <2>2. wheel' \in WheelType
      <3>1. Erased(wheel, e) \in WheelType
        BY <1>10, ErasedType
      <3>2. Inserted(Erased(wheel, e), Sum(duration[e], current_tick), e)
                \in WheelType
        BY <2>1, <3>1, InsertedFacts
      <3> QED BY <1>6, <3>1, <3>2 DEF Reset
    <2> QED BY <1>6, <2>1, <2>2 DEF Reset, WheelType
  <1>7. CASE Clear
    <2>1. wheel' \in WheelType
      BY <1>7, EmptyWheelType DEF Clear
    <2> QED BY <1>7, <2>1 DEF Clear, WheelType
  <1>8. CASE UNCHANGED vars
    BY <1>8 DEF vars
  <1> QED BY <1>1, <1>2, <1>3, <1>4, <1>5, <1>6, <1>7, <1>8 DEF Next

\* The variables have their types in every reachable state.
THEOREM TypeCorrect == Spec => []TypeOK
  BY TypeInit, TypeNext, PTL DEF Spec

----------------------------------------------------------------------------
(* The steps that insert into and remove from the wheel, stated for the parts
   of Consistent that they disturb. *)

\* Where everything is stored: the content of the parts Located, StoredOnce and
\* Reachable, for a wheel w, ticks tk and the set S of stored entries.
Stores(w, tk, S) ==
    /\ \A i \in Slots, k \in Ticks : \A p \in DOMAIN w[i][k] :
          w[i][k][p] \in S /\ tk[w[i][k][p]] = k /\ SlotOf(k) = i
    /\ \A i \in Slots, k \in Ticks : \A p, q \in DOMAIN w[i][k] :
          w[i][k][p] = w[i][k][q] => p = q
    /\ \A e \in S : e \in RangeOf(w[SlotOf(tk[e])][tk[e]])

\* The stored entries of every equal range were armed in the order they stand.
Ordered(w, st) ==
    \A i \in Slots, k \in Ticks : \A p, q \in DOMAIN w[i][k] :
        p < q => st[w[i][k][p]] <= st[w[i][k][q]]

\* Inserting an entry that is not stored yet, under its own tick.
LEMMA InsertStores ==
  ASSUME NEW w \in WheelType, NEW tk \in [Entries -> Ticks],
         NEW S \in SUBSET Entries, NEW e \in Entries \ S, NEW key \in Ticks,
         Stores(w, tk, S)
  PROVE  Stores(Inserted(w, key, e), [tk EXCEPT ![e] = key], S \cup {e})
  <1> DEFINE W == Inserted(w, key, e)
             T == [tk EXCEPT ![e] = key]
             r == w[SlotOf(key)][key]
  <1>1. /\ W[SlotOf(key)][key] = Append(r, e)
        /\ \A i \in Slots, k \in Ticks :
              (i # SlotOf(key) \/ k # key) => W[i][k] = w[i][k]
    BY InsertedFacts
  <1>2. /\ r \in Seq(Entries)
        /\ RangeOf(r) \subseteq RangeOf(Append(r, e))
        /\ e \in RangeOf(Append(r, e))
        /\ DOMAIN r = 1 .. Len(r)
        /\ DOMAIN Append(r, e) = 1 .. Len(r) + 1
        /\ \A p \in 1 .. Len(r) : Append(r, e)[p] = r[p]
        /\ Append(r, e)[Len(r) + 1] = e
    BY SlotOfType, AppendFacts DEF WheelType
  <1>3. T[e] = key /\ \A x \in S : T[x] = tk[x] /\ x # e /\ x \in Entries
    OBVIOUS
  <1> HIDE DEF W, T
  <1>4. ASSUME NEW i \in Slots, NEW k \in Ticks, NEW p \in DOMAIN W[i][k]
        PROVE  W[i][k][p] \in S \cup {e} /\ T[W[i][k][p]] = k /\ SlotOf(k) = i
    <2>1. CASE i # SlotOf(key) \/ k # key
      BY <1>1, <1>3, <2>1 DEF Stores
    <2>2. CASE i = SlotOf(key) /\ k = key
      <3>1. p \in 1 .. Len(r) \/ p = Len(r) + 1
        BY <1>1, <1>2, <2>2
      <3>2. CASE p \in 1 .. Len(r)
        BY <1>1, <1>2, <1>3, <2>2, <3>2 DEF Stores
      <3>3. CASE p = Len(r) + 1
        BY <1>1, <1>2, <1>3, <2>2, <3>3
      <3> QED BY <3>1, <3>2, <3>3
    <2> QED BY <2>1, <2>2
  <1>5. ASSUME NEW i \in Slots, NEW k \in Ticks,
               NEW p \in DOMAIN W[i][k], NEW q \in DOMAIN W[i][k],
               W[i][k][p] = W[i][k][q]
        PROVE  p = q
    <2>1. CASE i # SlotOf(key) \/ k # key
      BY <1>1, <1>5, <2>1 DEF Stores
    <2>2. CASE i = SlotOf(key) /\ k = key
      <3>1. \A x \in 1 .. Len(r) : r[x] # e
        BY <1>2, <1>3, <2>2 DEF Stores
      <3>2. \A x, y \in 1 .. Len(r) : r[x] = r[y] => x = y
        BY <1>2, <2>2 DEF Stores
      <3>3. /\ p \in 1 .. Len(r) \/ p = Len(r) + 1
            /\ q \in 1 .. Len(r) \/ q = Len(r) + 1
        <4>1. DOMAIN W[i][k] = 1 .. Len(r) + 1
          BY <1>1, <1>2, <2>2, Zenon
        <4>2. Len(r) \in Nat
          BY <1>2
        <4> HIDE DEF r
        <4> QED BY <4>1, <4>2
      <3>4. Append(r, e)[p] = Append(r, e)[q]
        BY <1>1, <1>5, <2>2
      <3> HIDE DEF r
      <3> QED BY <1>2, <3>1, <3>2, <3>3, <3>4
    <2> QED BY <2>1, <2>2
  <1>6. ASSUME NEW x \in S \cup {e}
        PROVE  x \in RangeOf(W[SlotOf(T[x])][T[x]])
    <2>1. CASE x = e
      BY <1>1, <1>2, <1>3, <2>1
    <2>2. CASE x \in S
      <3>1. x \in RangeOf(w[SlotOf(tk[x])][tk[x]]) /\ T[x] = tk[x]
        BY <1>3, <2>2 DEF Stores
      <3>2. tk[x] \in Ticks /\ SlotOf(tk[x]) \in Slots
        BY <1>3, <2>2, SlotOfType
      <3> QED BY <1>1, <1>2, <3>1, <3>2
    <2> QED BY <2>1, <2>2
  <1> QED BY <1>4, <1>5, <1>6 DEF Stores, W, T

\* Inserting the entry that is armed last keeps the order of arming.
LEMMA InsertOrdered ==
  ASSUME NEW w \in WheelType, NEW tk \in [Entries -> Ticks],
         NEW S \in SUBSET Entries, NEW e \in Entries \ S, NEW key \in Ticks,
         Stores(w, tk, S), NEW st, NEW st2, NEW now \in Nat,
         Ordered(w, st),
         \A x \in S : st[x] <= now /\ st2[x] = st[x],
         st2[e] = now
  PROVE  Ordered(Inserted(w, key, e), st2)
  <1> DEFINE W == Inserted(w, key, e)
             r == w[SlotOf(key)][key]
  <1> SUFFICES ASSUME NEW i \in Slots, NEW k \in Ticks,
                      NEW p \in DOMAIN W[i][k], NEW q \in DOMAIN W[i][k], p < q
               PROVE  st2[W[i][k][p]] <= st2[W[i][k][q]]
    BY DEF Ordered
  <1>1. /\ W[SlotOf(key)][key] = Append(r, e)
        /\ (i # SlotOf(key) \/ k # key) => W[i][k] = w[i][k]
    BY InsertedFacts
  <1>2. r \in Seq(Entries)
    BY SlotOfType DEF WheelType
  <1> HIDE DEF W
  <1>3. CASE i # SlotOf(key) \/ k # key
    BY <1>1, <1>3 DEF Stores, Ordered
  <1>4. CASE i = SlotOf(key) /\ k = key
    <2>1. \A x \in DOMAIN r : r[x] \in S
      BY <1>4 DEF Stores
    <2>2. \A x, y \in DOMAIN r : x < y => st[r[x]] <= st[r[y]]
      BY <1>4 DEF Ordered
    <2>3. /\ DOMAIN r = 1 .. Len(r)
          /\ p \in 1 .. Len(r) + 1 /\ q \in 1 .. Len(r) + 1
          /\ \A x \in 1 .. Len(r) : Append(r, e)[x] = r[x]
          /\ Append(r, e)[Len(r) + 1] = e
      BY <1>1, <1>2, <1>4, AppendFacts
    <2>4. W[i][k] = Append(r, e)
      BY <1>1, <1>4
    <2> HIDE DEF r
    <2>5. CASE q \in 1 .. Len(r)
      <3>1. p \in 1 .. Len(r)
        BY <1>2, <2>3, <2>5
      <3> QED BY <2>1, <2>2, <2>3, <2>4, <2>5, <3>1
    <2>6. CASE q = Len(r) + 1
      <3>1. p \in 1 .. Len(r)
        BY <1>2, <2>3, <2>6
      <3> QED BY <2>1, <2>3, <2>4, <2>6, <3>1
    <2> QED BY <1>2, <2>3, <2>5, <2>6
  <1> QED BY <1>3, <1>4

\* Erasing a stored entry.
LEMMA EraseStores ==
  ASSUME NEW w \in WheelType, tick \in [Entries -> Ticks],
         NEW S \in SUBSET Entries, NEW e \in S,
         Stores(w, tick, S)
  PROVE  /\ Erased(w, e) \in WheelType
         /\ Stores(Erased(w, e), tick, S \ {e})
         /\ \A st : Ordered(w, st) => Ordered(Erased(w, e), st)
  <1> DEFINE W == Erased(w, e)
             key == tick[e]
             r == w[SlotOf(key)][key]
  <1>1. /\ key \in Ticks /\ SlotOf(key) \in Slots
        /\ r \in Seq(Entries) /\ e \in RangeOf(r)
        /\ \A p, q \in DOMAIN r : r[p] = r[q] => p = q
    BY SlotOfType DEF Stores, WheelType
  <1>2. /\ W[SlotOf(key)][key] = Without(r, e)
        /\ \A i \in Slots, k \in Ticks :
              (i # SlotOf(key) \/ k # key) => W[i][k] = w[i][k]
    BY <1>1 DEF Erased, WheelType
  <1>10. W \in WheelType
    BY ErasedType
  <1>3. /\ \A p \in DOMAIN Without(r, e) : Without(r, e)[p] \in RangeOf(r) \ {e}
        /\ RangeOf(r) \ {e} \subseteq RangeOf(Without(r, e))
        /\ \A p, q \in DOMAIN Without(r, e) : p < q =>
               \E p2, q2 \in DOMAIN r :
                  p2 < q2 /\ r[p2] = Without(r, e)[p] /\ r[q2] = Without(r, e)[q]
        /\ \A p, q \in DOMAIN Without(r, e) :
               Without(r, e)[p] = Without(r, e)[q] => p = q
    <2> HIDE DEF r, key
    <2> QED BY <1>1, WithoutFacts
  <1> HIDE DEF W, key
  <1>4. ASSUME NEW i \in Slots, NEW k \in Ticks, NEW p \in DOMAIN W[i][k]
        PROVE  W[i][k][p] \in S \ {e} /\ tick[W[i][k][p]] = k /\ SlotOf(k) = i
    <2>1. CASE i # SlotOf(key) \/ k # key
      BY <1>2, <2>1 DEF Stores, key
    <2>2. CASE i = SlotOf(key) /\ k = key
      <3>1. PICK x \in DOMAIN r : r[x] = W[i][k][p] /\ W[i][k][p] # e
        BY <1>2, <1>3, <2>2 DEF RangeOf
      <3> QED BY <2>2, <3>1 DEF Stores
    <2> QED BY <2>1, <2>2
  <1>5. ASSUME NEW i \in Slots, NEW k \in Ticks,
               NEW p \in DOMAIN W[i][k], NEW q \in DOMAIN W[i][k],
               W[i][k][p] = W[i][k][q]
        PROVE  p = q
    <2>1. CASE i # SlotOf(key) \/ k # key
      BY <1>2, <1>5, <2>1 DEF Stores
    <2>2. CASE i = SlotOf(key) /\ k = key
      BY <1>2, <1>3, <1>5, <2>2
    <2> QED BY <2>1, <2>2
  <1>6. ASSUME NEW x \in S \ {e}
        PROVE  x \in RangeOf(W[SlotOf(tick[x])][tick[x]])
    <2>1. x \in RangeOf(w[SlotOf(tick[x])][tick[x]])
      BY DEF Stores
    <2>2. tick[x] \in Ticks /\ SlotOf(tick[x]) \in Slots
      BY SlotOfType
    <2> QED BY <1>2, <1>3, <2>1, <2>2
  <1>7. ASSUME NEW st, Ordered(w, st), NEW i \in Slots, NEW k \in Ticks,
               NEW p \in DOMAIN W[i][k], NEW q \in DOMAIN W[i][k], p < q
        PROVE  st[W[i][k][p]] <= st[W[i][k][q]]
    <2>1. CASE i # SlotOf(key) \/ k # key
      BY <1>2, <1>7, <2>1 DEF Ordered
    <2>2. CASE i = SlotOf(key) /\ k = key
      <3>1. PICK p2, q2 \in DOMAIN r :
              p2 < q2 /\ r[p2] = W[i][k][p] /\ r[q2] = W[i][k][q]
        BY <1>2, <1>3, <1>7, <2>2
      <3>2. st[r[p2]] <= st[r[q2]]
        BY <1>1, <1>7, <2>2, <3>1 DEF Ordered
      <3> QED BY <3>1, <3>2
    <2> QED BY <2>1, <2>2
  <1> QED BY <1>10, <1>4, <1>5, <1>6, <1>7 DEF Stores, Ordered, W

----------------------------------------------------------------------------
(* The invariant holds initially and every operation keeps it. *)

LEMMA ConsistentIsStores ==
  Consistent <=>
    (status # "aborted" =>
        /\ all = {e \in Entries : fate[e] = "armed"}
        /\ immediate \subseteq {e \in all : duration[e] = 0}
        /\ Stores(wheel, tick, all \ immediate))
  BY DEF Consistent, Stores, Located, StoredOnce, Reachable, InSlot

LEMMA InvInit == Init => IInv
  <1> SUFFICES ASSUME Init PROVE IInv
    OBVIOUS
  <1>1. \A i \in Slots, k \in Ticks : wheel[i][k] = << >>
    BY DEF Init, EmptySlot
  <1>2. Consistent /\ ArmOrder
    BY <1>1 DEF Init, Consistent, Located, StoredOnce, Reachable, ArmOrder
  <1>3. ArmedForTick /\ RunIsClean /\ NeverEarly
    BY DEF Init, ArmedForTick, RunIsClean, NeverEarly
  <1> QED BY <1>2, <1>3, TypeInit DEF IInv

\* What the other lemmas use of a state in which the wheel operates.
LEMMA Running ==
  ASSUME IInv, status = "running"
  PROVE  /\ wheel \in WheelType
         /\ all = {e \in Entries : fate[e] = "armed"}
         /\ immediate \subseteq {e \in all : duration[e] = 0}
         /\ Stores(wheel, tick, all \ immediate)
         /\ Ordered(wheel, start)
         /\ \A e \in all \ immediate :
                /\ tick[e] = Sum(duration[e], start[e])
                /\ start[e] <= current_tick
  BY ConsistentIsStores DEF IInv, ArmOrder, Ordered, ArmedForTick, TypeOK, WheelType

LEMMA InvTick == IInv /\ Tick => IInv'
  <1> SUFFICES ASSUME IInv, Tick PROVE IInv'
    OBVIOUS
  <1>1. TypeOK'
    BY TypeNext DEF IInv, Next
  <1>2. Consistent' /\ ArmOrder' /\ NeverEarly'
    BY DEF IInv, Tick, wheelVars, Consistent, Located, StoredOnce, Reachable,
           InSlot, ArmOrder, NeverEarly
  <1>3. ArmedForTick'
    BY DEF IInv, TypeOK, Tick, wheelVars, ArmedForTick
  <1>4. DrainedRun' \subseteq DrainedRun
    BY DEF IInv, TypeOK, Tick, DrainedRun
  <1>5. RunIsClean'
    BY <1>4 DEF IInv, Tick, wheelVars, RunIsClean
  <1> QED BY <1>1, <1>2, <1>3, <1>5 DEF IInv

\* What one get_expired(t) hands out and what it leaves in the wheel.
LEMMA DueFacts ==
  ASSUME IInv, NEW t \in 0 .. MaxTick, GetExpired(t)
  PROVE  /\ Due(t) \subseteq all
         /\ \A e \in Due(t) \ immediate :
                tick[e] <= t /\ SlotOf(tick[e]) = SlotOf(current_tick)
         /\ \A e \in all \ immediate :
                tick[e] <= t /\ SlotOf(tick[e]) = SlotOf(current_tick) => e \in Due(t)
         /\ \A i \in Slots, k \in Ticks :
                wheel'[i][k] = IF i = SlotOf(current_tick) /\ k <= t
                                 THEN << >> ELSE wheel[i][k]
  <1> USE Bounds
  <1>1. status = "running"
    BY DEF GetExpired
  <1>2. /\ Stores(wheel, tick, all \ immediate) /\ wheel \in WheelType
        /\ immediate \subseteq all
    BY <1>1, Running
  <1>3. current_tick \in Ticks /\ SlotOf(current_tick) \in Slots
    BY SlotOfType DEF IInv, TypeOK
  <1>4. ASSUME NEW e \in Due(t), e \notin immediate
        PROVE  /\ e \in all /\ tick[e] <= t
               /\ SlotOf(tick[e]) = SlotOf(current_tick)
    <2>1. PICK k \in {x \in Ticks : x <= t} : e \in RangeOf(wheel[SlotOf(current_tick)][k])
      BY <1>4 DEF Due, BeforeBound
    <2>2. PICK p \in DOMAIN wheel[SlotOf(current_tick)][k] :
            wheel[SlotOf(current_tick)][k][p] = e
      BY <2>1 DEF RangeOf
    <2>3. e \in all \ immediate /\ tick[e] = k
      BY <1>2, <1>3, <2>1, <2>2 DEF Stores
    <2>4. SlotOf(k) = SlotOf(current_tick)
      BY <1>2, <1>3, <2>1, <2>2 DEF Stores
    <2> QED BY <2>1, <2>3, <2>4
  <1>5. ASSUME NEW e \in all \ immediate,
               tick[e] <= t, SlotOf(tick[e]) = SlotOf(current_tick)
        PROVE  e \in Due(t)
    <2>1. e \in RangeOf(wheel[SlotOf(current_tick)][tick[e]])
      BY <1>2, <1>5 DEF Stores
    <2>2. e \in Entries /\ tick[e] \in Ticks
      BY <1>5 DEF IInv, TypeOK
    <2>3. tick[e] \in Nat /\ t \in Nat
      BY <2>2
    <2>4. tick[e] \in 0 .. t
      BY <1>5, <2>3
    <2> QED BY <2>1, <2>2, <2>4 DEF Due, BeforeBound
  <1>6. \A i \in Slots, k \in Ticks :
            wheel'[i][k] = IF i = SlotOf(current_tick) /\ k <= t
                             THEN << >> ELSE wheel[i][k]
    BY <1>2, <1>3 DEF GetExpired, BeforeBound, WheelType
  <1> QED BY <1>2, <1>4, <1>5, <1>6

LEMMA InvGetExpired ==
  ASSUME IInv, NEW t \in 0 .. MaxTick, GetExpired(t)
  PROVE  IInv'
  <1> USE Bounds
  <1>0. TypeOK /\ TypeOK' /\ status = "running" /\ status' = "running"
    BY TypeNext DEF IInv, Next, GetExpired
  <1>1. /\ all = {e \in Entries : fate[e] = "armed"}
        /\ immediate \subseteq {e \in all : duration[e] = 0}
        /\ Stores(wheel, tick, all \ immediate)
        /\ Ordered(wheel, start)
    BY <1>0, Running
  <1>2. /\ Due(t) \subseteq all
        /\ \A e \in Due(t) \ immediate :
               tick[e] <= t /\ SlotOf(tick[e]) = SlotOf(current_tick)
        /\ \A e \in all \ immediate :
               tick[e] <= t /\ SlotOf(tick[e]) = SlotOf(current_tick) => e \in Due(t)
        /\ \A i \in Slots, k \in Ticks :
               wheel'[i][k] = IF i = SlotOf(current_tick) /\ k <= t
                                THEN << >> ELSE wheel[i][k]
    BY DueFacts
  <1>3. immediate' = {} /\ all' = all \ Due(t) /\ immediate \subseteq Due(t)
    BY DEF GetExpired, Due
  <1>4. Stores(wheel', tick', all' \ immediate')
    <2>1. ASSUME NEW i \in Slots, NEW k \in Ticks, NEW p \in DOMAIN wheel'[i][k]
          PROVE  /\ wheel'[i][k] = wheel[i][k] /\ p \in DOMAIN wheel[i][k]
                 /\ wheel[i][k][p] \in all \ Due(t)
                 /\ tick[wheel[i][k][p]] = k /\ SlotOf(k) = i
      <3>1. /\ ~(i = SlotOf(current_tick) /\ k <= t)
            /\ wheel'[i][k] = wheel[i][k] /\ p \in DOMAIN wheel[i][k]
        <4>1. wheel'[i][k] = IF i = SlotOf(current_tick) /\ k <= t
                               THEN << >> ELSE wheel[i][k]
          BY <1>2, Zenon
        <4>2. wheel'[i][k] # << >>
          BY DOMAIN << >> = {}
        <4> QED BY <4>1, <4>2, Zenon
      <3>2. /\ wheel[i][k][p] \in all \ immediate
            /\ tick[wheel[i][k][p]] = k /\ SlotOf(k) = i
        BY <1>1, <3>1 DEF Stores
      <3> QED BY <1>2, <3>1, <3>2
    <2>2. ASSUME NEW e \in all' \ immediate'
          PROVE  e \in RangeOf(wheel'[SlotOf(tick[e])][tick[e]])
      <3>1. /\ e \in all \ immediate /\ e \notin Due(t)
            /\ e \in RangeOf(wheel[SlotOf(tick[e])][tick[e]])
        BY <1>1, <1>3 DEF Stores
      <3>2. tick[e] \in Ticks /\ SlotOf(tick[e]) \in Slots /\ t \in Nat
        BY <1>0, <3>1, SlotOfType DEF TypeOK
      <3> QED BY <1>2, <3>1, <3>2
    <2>3. tick' = tick
      BY DEF GetExpired
    <2> QED BY <1>1, <1>3, <2>1, <2>2, <2>3 DEF Stores
  <1>5. Consistent'
    <2>1. all' = {e \in Entries : fate'[e] = "armed"}
      BY <1>0, <1>1, <1>3 DEF GetExpired, TypeOK
    <2> QED BY <1>3, <1>4, <2>1 DEF Consistent, Stores, Located, StoredOnce,
                                    Reachable, InSlot
  <1>6. ArmedForTick'
    BY <1>0, <1>3 DEF IInv, GetExpired, ArmedForTick
  <1>7. RunIsClean'
    <2> SUFFICES ASSUME NEW e \in all' \ immediate', NEW c \in DrainedRun',
                        c >= tick[e], c > start[e]
                 PROVE  SlotOf(c) # SlotOf(tick[e])
      BY DEF RunIsClean, GetExpired
    <2>1. e \in all \ immediate /\ e \notin Due(t) /\ tick[e] \in Nat
      BY <1>0, <1>3 DEF TypeOK
    <2>2. CASE c \in DrainedRun
      BY <1>0, <2>1, <2>2 DEF IInv, RunIsClean
    <2>3. CASE c \notin DrainedRun
      <3>1. c = current_tick /\ t >= current_tick
        BY <1>0, <2>3 DEF DrainedRun, GetExpired, TypeOK
      <3>2. tick[e] <= t
        BY <1>0, <2>1, <3>1 DEF TypeOK
      <3> QED BY <1>2, <2>1, <3>1, <3>2
    <2> QED BY <2>2, <2>3
  <1>8. NeverEarly'
    <2> SUFFICES ASSUME NEW e \in Entries, fate'[e] = "fired", duration[e] # 0,
                        start[e] + duration[e] < Width
                 PROVE  firedAt'[e] >= start[e] + duration[e]
      BY DEF NeverEarly, GetExpired
    <2>1. CASE e \in Due(t)
      <3>1. e \in all \ immediate /\ tick[e] <= t
        BY <1>1, <1>2, <2>1
      <3>2. start[e] \in Nat /\ duration[e] \in Nat
        BY <1>0 DEF TypeOK
      <3>3. tick[e] = Sum(duration[e], start[e])
        BY <3>1 DEF IInv, ArmedForTick
      <3>4. tick[e] = start[e] + duration[e]
        BY <3>2, <3>3 DEF Sum
      <3>5. firedAt'[e] = t
        BY <2>1 DEF GetExpired
      <3> QED BY <3>1, <3>4, <3>5
    <2>2. CASE e \notin Due(t)
      BY <2>2 DEF IInv, NeverEarly, GetExpired
    <2> QED BY <2>1, <2>2
  <1>9. ArmOrder'
    BY <1>1, <1>2 DEF ArmOrder, Ordered, GetExpired
  <1> QED BY <1>0, <1>5, <1>6, <1>7, <1>8, <1>9 DEF IInv

\* While armed now, an entry was not drained: the ticks of the run are past or
\* present.
LEMMA RunIsPast ==
  ASSUME TypeOK, NEW c \in DrainedRun
  PROVE  c \in Int /\ c <= current_tick
  BY Bounds DEF TypeOK, DrainedRun

LEMMA InvAdd ==
  ASSUME IInv, NEW e \in Entries, NEW d \in Durations, Add(e, d)
  PROVE  IInv'
  <1> USE Bounds
  <1>0. TypeOK /\ TypeOK' /\ status = "running" /\ fate[e] = "unborn"
    BY TypeNext DEF IInv, Next, Add, AddImmediate, AddTimed, NewEntry
  <1>1. /\ wheel \in WheelType
        /\ all = {x \in Entries : fate[x] = "armed"}
        /\ immediate \subseteq {x \in all : duration[x] = 0}
        /\ Stores(wheel, tick, all \ immediate)
        /\ Ordered(wheel, start)
        /\ \A x \in all \ immediate :
               tick[x] = Sum(duration[x], start[x]) /\ start[x] <= current_tick
    BY <1>0, Running
  <1>2. e \notin all /\ e \notin immediate
    BY <1>0, <1>1
  <1> DEFINE due == Sum(d, current_tick)
  <1>3. /\ due \in Ticks /\ Sum(0, current_tick) = current_tick
        /\ current_tick \in Nat
    <2>1. current_tick \in Nat /\ current_tick \in Ticks /\ current_tick < Width
      BY <1>0 DEF TypeOK
    <2>2. Sum(0, current_tick) = current_tick
      BY <2>1 DEF Sum
    <2> QED BY <2>1, <2>2, SumType
  <1>4. /\ all' = all \cup {e}
        /\ fate' = [fate EXCEPT ![e] = "armed"]
        /\ start' = [start EXCEPT ![e] = current_tick]
        /\ duration' = [duration EXCEPT ![e] = d]
        /\ tick' = [tick EXCEPT ![e] = due]
        /\ UNCHANGED <<current_tick, status, firedAt, since, drained>>
    BY <1>3 DEF Add, AddImmediate, AddTimed, NewEntry
  <1>5. /\ d = 0 => immediate' = immediate \cup {e} /\ wheel' = wheel
        /\ d # 0 => immediate' = immediate /\ wheel' = Inserted(wheel, due, e)
    BY DEF Add, AddImmediate, AddTimed
  <1> HIDE DEF due
  <1>6. /\ \A x \in Entries \ {e} : /\ tick'[x] = tick[x] /\ start'[x] = start[x]
                                   /\ fate'[x] = fate[x]
                                   /\ duration'[x] = duration[x]
        /\ tick'[e] = due /\ start'[e] = current_tick
        /\ fate'[e] = "armed" /\ duration'[e] = d
    BY <1>0, <1>4 DEF TypeOK
  <1>7. Stores(wheel', tick', all' \ immediate') /\ Ordered(wheel', start')
    <2>1. CASE d = 0
      <3>1. all' \ immediate' = all \ immediate /\ wheel' = wheel
        BY <1>2, <1>4, <1>5, <2>1
      <3>2. \A x \in all \ immediate : /\ tick'[x] = tick[x] /\ start'[x] = start[x]
                                       /\ tick[x] \in Ticks
        BY <1>0, <1>2, <1>6 DEF TypeOK
      <3> QED BY <1>1, <3>1, <3>2 DEF Stores, Ordered
    <2>2. CASE d # 0
      <3>1. all' \ immediate' = (all \ immediate) \cup {e}
        BY <1>2, <1>4, <1>5, <2>2
      <3>2. /\ tick \in [Entries -> Ticks]
            /\ all \ immediate \in SUBSET Entries
            /\ e \in Entries \ (all \ immediate)
        BY <1>0, <1>2 DEF TypeOK
      <3>6. Stores(Inserted(wheel, due, e), [tick EXCEPT ![e] = due],
                   (all \ immediate) \cup {e})
        BY <1>1, <1>3, <3>2, InsertStores
      <3>3. Stores(wheel', tick', all' \ immediate')
        BY <1>4, <1>5, <2>2, <3>1, <3>6, Zenon
      <3>4. \A x \in all \ immediate :
                start[x] <= current_tick /\ start'[x] = start[x]
        BY <1>1, <1>6, <3>2
      <3> DEFINE S == all \ immediate
      <3>5. /\ S \in SUBSET Entries /\ e \in Entries \ S
            /\ Stores(wheel, tick, S) /\ start'[e] = current_tick
            /\ \A x \in S : start[x] <= current_tick /\ start'[x] = start[x]
        BY <1>1, <1>6, <3>2, <3>4
      <3> HIDE DEF S
      <3>7. Ordered(Inserted(wheel, due, e), start')
        BY <1>1, <1>3, <3>2, <3>5, InsertOrdered
      <3> QED BY <1>5, <2>2, <3>3, <3>7
    <2> QED BY <2>1, <2>2
  <1>8. Consistent'
    <2>1. all' = {x \in Entries : fate'[x] = "armed"}
      BY <1>0, <1>1, <1>4, <1>6 DEF TypeOK
    <2>2. immediate' \subseteq {x \in all' : duration'[x] = 0}
      BY <1>0, <1>1, <1>2, <1>4, <1>5, <1>6 DEF TypeOK
    <2> QED BY <1>7, <2>1, <2>2 DEF Consistent, Stores, Located, StoredOnce,
                                    Reachable, InSlot
  <1>9. ArmedForTick'
    BY <1>0, <1>1, <1>3, <1>4, <1>5, <1>6 DEF ArmedForTick, TypeOK, due
  <1>10. RunIsClean'
    <2> SUFFICES ASSUME NEW x \in all' \ immediate', NEW c \in DrainedRun,
                        c >= tick'[x], c > start'[x]
                 PROVE  SlotOf(c) # SlotOf(tick'[x])
      BY <1>4 DEF RunIsClean, DrainedRun
    <2>1. CASE x = e
      BY <1>0, <1>3, <1>6, <2>1, RunIsPast
    <2>2. CASE x # e
      BY <1>0, <1>4, <1>5, <1>6, <2>2 DEF IInv, RunIsClean, TypeOK
    <2> QED BY <2>1, <2>2
  <1>11. NeverEarly'
    BY <1>4, <1>6 DEF IInv, NeverEarly
  <1>12. ArmOrder'
    BY <1>7 DEF ArmOrder, Ordered
  <1> QED BY <1>0, <1>8, <1>9, <1>10, <1>11, <1>12 DEF IInv

LEMMA InvCancel ==
  ASSUME IInv, NEW e \in Entries, Cancel(e)
  PROVE  IInv'
  <1> USE Bounds
  <1>0. /\ TypeOK /\ TypeOK' /\ status = "running" /\ e \in all
        /\ wheel' = Erased(wheel, e)
        /\ UNCHANGED <<immediate, current_tick, tick, duration, start, firedAt,
                       since, drained>>
        /\ \/ status' = "aborted" /\ UNCHANGED <<all, fate>>
           \/ /\ all' = all \ {e} /\ fate' = [fate EXCEPT ![e] = "dropped"]
              /\ status' = status
    BY TypeNext DEF IInv, Next, Cancel, Owned
  <1>1. /\ wheel \in WheelType
        /\ all = {x \in Entries : fate[x] = "armed"}
        /\ immediate \subseteq {x \in all : duration[x] = 0}
        /\ Stores(wheel, tick, all \ immediate)
        /\ Ordered(wheel, start)
    BY <1>0, Running
  <1>2. e \in all \ immediate
    <2>1. tick[e] \in Ticks /\ SlotOf(tick[e]) \in Slots
      BY <1>0, SlotOfType DEF TypeOK
    <2>2. e \in RangeOf(wheel[SlotOf(tick[e])][tick[e]])
      BY DEF Cancel, InSlot
    <2>3. \E i \in Slots, k \in Ticks : \E p \in DOMAIN wheel[i][k] :
              wheel[i][k][p] = e
      BY <2>1, <2>2 DEF RangeOf
    <2> QED BY <1>1, <2>3 DEF Stores
  <1>3. /\ tick \in [Entries -> Ticks] /\ all \ immediate \in SUBSET Entries
    BY <1>0 DEF TypeOK
  <1>4. /\ Stores(wheel', tick, (all \ immediate) \ {e})
        /\ Ordered(wheel', start)
    BY <1>0, <1>1, <1>2, <1>3, EraseStores
  <1>5. all' \subseteq all
    BY <1>0
  <1>6. Consistent'
    <2> SUFFICES ASSUME status' # "aborted" PROVE Consistent'
      BY DEF Consistent
    <2>1. all' = all \ {e} /\ fate' = [fate EXCEPT ![e] = "dropped"]
      BY <1>0
    <2>2. all' = {x \in Entries : fate'[x] = "armed"}
      BY <1>0, <1>1, <2>1 DEF TypeOK
    <2>3. immediate' \subseteq {x \in all' : duration'[x] = 0}
      BY <1>0, <1>1, <1>2, <2>1
    <2>4. all' \ immediate' = (all \ immediate) \ {e}
      BY <1>0, <2>1
    <2>5. Stores(wheel', tick', all' \ immediate')
      BY <1>0, <1>4, <2>4
    <2> QED BY <2>2, <2>3, <2>5 DEF Consistent, Stores, Located, StoredOnce,
                                    Reachable, InSlot
  <1>7. ArmedForTick' /\ RunIsClean'
    BY <1>0, <1>5 DEF IInv, ArmedForTick, RunIsClean, DrainedRun
  <1>8. NeverEarly'
    BY <1>0 DEF IInv, NeverEarly, TypeOK
  <1>9. ArmOrder'
    BY <1>0, <1>4 DEF ArmOrder, Ordered
  <1> QED BY <1>0, <1>6, <1>7, <1>8, <1>9 DEF IInv

LEMMA InvReset ==
  ASSUME IInv, NEW e \in Entries, Reset(e)
  PROVE  IInv'
  <1> USE Bounds
  <1> DEFINE due == Sum(duration[e], current_tick)
  <1>0. /\ TypeOK /\ TypeOK' /\ status = "running"
        /\ e \in all /\ duration[e] # 0
        /\ UNCHANGED <<immediate, all, current_tick, duration, fate, firedAt,
                       since, drained>>
        /\ \/ /\ status' = "aborted" /\ wheel' = Erased(wheel, e)
              /\ UNCHANGED <<tick, start>>
           \/ /\ wheel' = Inserted(Erased(wheel, e), due, e)
              /\ tick' = [tick EXCEPT ![e] = due]
              /\ start' = [start EXCEPT ![e] = current_tick]
              /\ status' = status
    BY TypeNext DEF IInv, Next, Reset, Owned
  <1>1. /\ wheel \in WheelType
        /\ all = {x \in Entries : fate[x] = "armed"}
        /\ immediate \subseteq {x \in all : duration[x] = 0}
        /\ Stores(wheel, tick, all \ immediate)
        /\ Ordered(wheel, start)
        /\ \A x \in all \ immediate :
               tick[x] = Sum(duration[x], start[x]) /\ start[x] <= current_tick
    BY <1>0, Running
  <1>2. /\ e \in all \ immediate /\ due \in Ticks /\ current_tick \in Nat
        /\ tick \in [Entries -> Ticks] /\ all \ immediate \in SUBSET Entries
    BY <1>0, <1>1, SumType DEF TypeOK
  <1> HIDE DEF due
  <1>3. /\ Erased(wheel, e) \in WheelType
        /\ Stores(Erased(wheel, e), tick, (all \ immediate) \ {e})
        /\ Ordered(Erased(wheel, e), start)
    BY <1>1, <1>2, EraseStores
  <1>4. CASE status' = "aborted"
    <2>1. UNCHANGED <<tick, start>> /\ wheel' = Erased(wheel, e)
      BY <1>0, <1>4
    <2>2. Consistent' /\ RunIsClean'
      BY <1>4 DEF Consistent, RunIsClean
    <2>3. ArmedForTick' /\ NeverEarly' /\ ArmOrder'
      BY <1>0, <1>3, <2>1 DEF IInv, ArmedForTick, NeverEarly, ArmOrder, Ordered
    <2> QED BY <1>0, <2>2, <2>3 DEF IInv
  <1>5. CASE status' # "aborted"
    <2>1. /\ wheel' = Inserted(Erased(wheel, e), due, e)
          /\ tick' = [tick EXCEPT ![e] = due]
          /\ start' = [start EXCEPT ![e] = current_tick]
          /\ status' = "running"
      BY <1>0, <1>5
    <2>2. /\ \A x \in Entries \ {e} : tick'[x] = tick[x] /\ start'[x] = start[x]
          /\ tick'[e] = due /\ start'[e] = current_tick
      BY <1>0, <2>1 DEF TypeOK
    <2>3. /\ e \in Entries \ ((all \ immediate) \ {e})
          /\ (all \ immediate) \ {e} \in SUBSET Entries
          /\ ((all \ immediate) \ {e}) \cup {e} = all' \ immediate'
      BY <1>0, <1>2
    <2>4. Stores(wheel', tick', all' \ immediate')
      <3>1. Stores(Inserted(Erased(wheel, e), due, e), [tick EXCEPT ![e] = due],
                   ((all \ immediate) \ {e}) \cup {e})
        BY <1>2, <1>3, <2>3, InsertStores
      <3> QED BY <2>1, <2>3, <3>1, Zenon
    <2>5. Ordered(wheel', start')
      <3>1. \A x \in (all \ immediate) \ {e} :
                start[x] <= current_tick /\ start'[x] = start[x]
        BY <1>1, <1>2, <2>2
      <3>2. start'[e] = current_tick
        BY <2>2
      <3> DEFINE W == Erased(wheel, e)
                 S == (all \ immediate) \ {e}
      <3>3. /\ W \in WheelType /\ S \in SUBSET Entries /\ e \in Entries \ S
            /\ Stores(W, tick, S) /\ Ordered(W, start)
            /\ \A x \in S : start[x] <= current_tick /\ start'[x] = start[x]
        BY <1>3, <2>3, <3>1
      <3> HIDE DEF W, S
      <3>4. Ordered(Inserted(W, due, e), start')
        BY <1>2, <3>2, <3>3, InsertOrdered
      <3> QED BY <2>1, <3>4 DEF W
    <2>6. Consistent'
      BY <1>0, <1>1, <2>4 DEF Consistent, Stores, Located, StoredOnce,
                              Reachable, InSlot
    <2>7. ArmedForTick'
      BY <1>0, <1>1, <1>2, <2>2 DEF ArmedForTick, due
    <2>8. RunIsClean'
      <3> SUFFICES ASSUME NEW x \in all \ immediate, NEW c \in DrainedRun,
                          c >= tick'[x], c > start'[x]
                   PROVE  SlotOf(c) # SlotOf(tick'[x])
        BY <1>0 DEF RunIsClean, DrainedRun
      <3>1. CASE x = e
        BY <1>0, <1>2, <2>2, <3>1, RunIsPast
      <3>2. CASE x # e
        BY <1>0, <1>2, <2>2, <3>2 DEF IInv, RunIsClean
      <3> QED BY <3>1, <3>2
    <2>9. NeverEarly'
      <3>1. fate[e] # "fired"
        BY <1>0, <1>1
      <3> QED BY <1>0, <2>2, <3>1 DEF IInv, NeverEarly
    <2>10. ArmOrder'
      BY <2>5 DEF ArmOrder, Ordered
    <2> QED BY <1>0, <2>6, <2>7, <2>8, <2>9, <2>10 DEF IInv
  <1> QED BY <1>4, <1>5

LEMMA InvClear == IInv /\ Clear => IInv'
  <1> SUFFICES ASSUME IInv, Clear PROVE IInv'
    OBVIOUS
  <1>0. TypeOK /\ TypeOK' /\ status = "running"
    BY TypeNext DEF IInv, Next, Clear
  <1>1. all = {x \in Entries : fate[x] = "armed"}
    BY <1>0, Running
  <1>2. \A i \in Slots, k \in Ticks : wheel'[i][k] = << >>
    BY DEF Clear, EmptySlot
  <1>3. Consistent'
    <2>1. {x \in Entries : fate'[x] = "armed"} = {}
      BY <1>0, <1>1 DEF Clear, TypeOK
    <2> QED BY <1>2, <2>1 DEF Clear, Consistent, Located, StoredOnce, Reachable
  <1>4. ArmedForTick' /\ RunIsClean'
    BY DEF Clear, ArmedForTick, RunIsClean
  <1>5. NeverEarly'
    BY <1>0, <1>1 DEF IInv, Clear, NeverEarly, TypeOK
  <1>6. ArmOrder'
    BY <1>2 DEF ArmOrder
  <1> QED BY <1>0, <1>3, <1>4, <1>5, <1>6 DEF IInv

LEMMA InvNext == IInv /\ [Next]_vars => IInv'
  <1> SUFFICES ASSUME IInv, [Next]_vars PROVE IInv'
    OBVIOUS
  <1>1. ASSUME NEW e \in Entries, CancelImmediate(e) PROVE IInv'
    <2>1. TypeOK'
      BY <1>1, TypeNext DEF IInv, Next
    <2> QED BY <1>1, <2>1
            DEF IInv, CancelImmediate, wheelVars, history, Consistent, Located,
                StoredOnce, Reachable, InSlot, ArmedForTick, RunIsClean,
                DrainedRun, NeverEarly, ArmOrder
  <1>2. CASE UNCHANGED vars
    <2>1. TypeOK'
      BY <1>2, TypeNext DEF IInv
    <2> QED BY <1>2, <2>1
            DEF IInv, vars, Consistent, Located, StoredOnce, Reachable, InSlot,
                ArmedForTick, RunIsClean, DrainedRun, NeverEarly, ArmOrder
  <1> QED BY <1>1, <1>2, InvTick, InvGetExpired, InvAdd, InvCancel, InvReset,
             InvClear DEF Next

LEMMA InvAlways == Spec => []IInv
  BY InvInit, InvNext, PTL DEF Spec

\* After any sequence of calls the slots, immediate_entries_ and all_entries_
\* describe the same entries, each stored once where get_slot() looks for it.
THEOREM WheelConsistent == Spec => []Consistent
  BY InvAlways, PTL DEF IInv

\* An owner that drains every tick gets every entry at the tick it is due.
THEOREM WheelOnTime == Spec => []OnTime
  <1>1. IInv => OnTime
    <2> SUFFICES ASSUME IInv, status # "aborted", NEW e \in all \ immediate,
                        tick[e] > start[e], tick[e] \in DrainedRun
                 PROVE  FALSE
      BY DEF OnTime
    <2>1. tick[e] \in Nat
      BY Bounds DEF IInv, TypeOK
    <2> QED BY <2>1 DEF IInv, RunIsClean
  <1> QED BY <1>1, InvAlways, PTL

\* Ticks that stand at the same place of a revolution share a slot.
LEMMA SlotOfRevolution ==
  ASSUME NEW q \in Int, NEW r \in Slots
  PROVE  (N * q + r) % N = r
  <1> DEFINE x == N * q + r
             y == x \div N
             m == x % N
  <1>1. N \in Nat /\ N > 0 /\ r \in Int /\ 0 <= r /\ r < N
    BY WheelAssumption DEF Slots
  <1>2. x \in Int /\ y \in Int /\ m \in Int /\ x = N * y + m /\ 0 <= m /\ m < N
    BY <1>1
  <1>3. x = N * q + r
    OBVIOUS
  <1> HIDE DEF x, y, m
  <1>4. CASE y > q
    <2>1. N * y >= N * q + N
      BY <1>1, <1>2, <1>4
    <2> QED BY <1>1, <1>2, <1>3, <2>1
  <1>5. CASE y < q
    <2>1. N * q >= N * y + N
      BY <1>1, <1>2, <1>5
    <2> QED BY <1>1, <1>2, <1>3, <2>1
  <1>6. CASE y = q
    <2>1. m = r
      BY <1>1, <1>2, <1>3, <1>6
    <2> QED BY <2>1 DEF m, x
  <1> QED BY <1>2, <1>4, <1>5, <1>6

\* N ticks in a row, one revolution, visit every slot.
LEMMA RevolutionVisits ==
  ASSUME NEW a \in Nat, NEW t \in Ticks
  PROVE  \E c \in a .. a + N - 1 : SlotOf(c) = SlotOf(t)
  <1> DEFINE r == t % N
             s == a % N
             q == a \div N
  <1>1. N \in Nat /\ N > 0 /\ t \in Nat
    BY WheelAssumption, Bounds
  <1>2. /\ r \in Slots /\ s \in Slots /\ q \in Int /\ a = N * q + s
        /\ r \in Nat /\ s \in Nat /\ r < N /\ s < N
    BY <1>1 DEF Slots
  <1>3. SlotOf(t) = r
    BY DEF SlotOf
  <1> HIDE DEF r, s, q
  <1>4. CASE r >= s
    <2>1. a + (r - s) \in a .. a + N - 1 /\ a + (r - s) = N * q + r
      BY <1>1, <1>2, <1>4
    <2>2. (N * q + r) % N = r
      BY <1>2, SlotOfRevolution
    <2> QED BY <1>3, <2>1, <2>2 DEF SlotOf
  <1>5. CASE r < s
    <2>1. N * (q + 1) = N * q + N /\ q + 1 \in Int /\ N * q \in Int
      BY <1>1, <1>2
    <2>2. /\ a + (N + r - s) \in a .. a + N - 1
          /\ a + (N + r - s) = N * (q + 1) + r
      BY <1>1, <1>2, <1>5, <2>1
    <2>3. (N * (q + 1) + r) % N = r
      BY <1>2, <2>1, SlotOfRevolution
    <2> QED BY <1>3, <2>2, <2>3 DEF SlotOf
  <1> QED BY <1>2, <1>4, <1>5

\* What a skipped tick left behind is handed out by one revolution of drained
\* ticks, since get_expired visits every slot once in it.
THEOREM WheelRecovers == Spec => []RecoversInOneRevolution
  <1>1. IInv => RecoversInOneRevolution
    <2> SUFFICES ASSUME IInv, status # "aborted", NEW e \in all \ immediate
                 PROVE  Cardinality({c \in DrainedRun :
                            c >= tick[e] /\ c > start[e]}) < N
      BY DEF RecoversInOneRevolution
    <2> DEFINE last == IF drained THEN current_tick ELSE current_tick - 1
               from == IF tick[e] > start[e] THEN tick[e] ELSE start[e] + 1
               a == IF from > since THEN from ELSE since
    <2>1. /\ tick[e] \in Ticks /\ tick[e] \in Nat /\ start[e] \in Nat
          /\ since \in Nat /\ current_tick \in Nat /\ N \in Nat /\ N > 0
      <3>1. /\ e \in Entries /\ tick \in [Entries -> Ticks]
            /\ start \in [Entries -> 0 .. MaxTick]
            /\ since \in 0 .. MaxTick /\ current_tick \in 0 .. MaxTick
        BY DEF IInv, TypeOK
      <3>2. tick[e] \in Ticks /\ start[e] \in 0 .. MaxTick
        BY <3>1
      <3>3. N \in Nat /\ N > 0
        BY WheelAssumption
      <3> QED BY <3>1, <3>2, <3>3, Bounds
    <2>2. /\ last \in Int /\ a \in Nat
          /\ DrainedRun = since .. last
          /\ {c \in DrainedRun : c >= tick[e] /\ c > start[e]} = a .. last
      BY <2>1 DEF DrainedRun
    <2>3. \A c \in a .. last : SlotOf(c) # SlotOf(tick[e])
      BY <2>2 DEF IInv, RunIsClean
    <2> HIDE DEF last, a
    <2>4. a + N - 1 > last
      <3> SUFFICES ASSUME a + N - 1 <= last PROVE FALSE
        BY <2>1, <2>2
      <3>1. PICK c \in a .. a + N - 1 : SlotOf(c) = SlotOf(tick[e])
        BY <2>1, <2>2, RevolutionVisits
      <3>2. c \in a .. last
        BY <2>1, <2>2
      <3> QED BY <2>3, <3>1, <3>2
    <2>5. Cardinality(a .. last) = IF a > last THEN 0 ELSE last - a + 1
      BY <2>2, FS_Interval
    <2>6. Cardinality(a .. last) < N
      BY <2>1, <2>2, <2>4, <2>5
    <2> QED BY <2>2, <2>6, Zenon
  <1> QED BY <1>1, InvAlways, PTL

\* No timed entry expires before the tick it was last armed for.
THEOREM WheelNeverEarly == Spec => []NeverEarly
  BY InvAlways, PTL DEF IInv

\* Entries with the same due tick stand, and expire, in the order they were
\* armed.
THEOREM WheelArmOrder == Spec => []ArmOrder
  BY InvAlways, PTL DEF IInv

\* An entry that expired or was dropped never expires again.
THEOREM WheelFateIsFinal == Spec => FateIsFinal
  <1>1. IInv /\ [Next]_vars =>
          [\A e \in Entries :
              fate[e] \in {"fired", "dropped"} =>
                  fate'[e] = fate[e] /\ firedAt'[e] = firedAt[e]]_vars
    <2> SUFFICES ASSUME IInv, Next, NEW e \in Entries,
                        fate[e] \in {"fired", "dropped"}
                 PROVE  fate'[e] = fate[e] /\ firedAt'[e] = firedAt[e]
      BY DEF vars
    <2>1. status = "running" => e \notin all
      BY Running
    <2>2. TypeOK
      BY DEF IInv
    <2>3. CASE Tick
      BY <2>3 DEF Tick
    <2>4. ASSUME NEW t \in 0 .. MaxTick, GetExpired(t)
          PROVE  fate'[e] = fate[e] /\ firedAt'[e] = firedAt[e]
      <3>1. e \notin Due(t)
        BY <2>1, <2>4, DueFacts DEF GetExpired
      <3> QED BY <2>4, <3>1 DEF GetExpired
    <2>5. ASSUME NEW x \in Entries, NEW d \in Durations, Add(x, d)
          PROVE  fate'[e] = fate[e] /\ firedAt'[e] = firedAt[e]
      BY <2>2, <2>5 DEF Add, AddImmediate, AddTimed, NewEntry, TypeOK
    <2>6. ASSUME NEW x \in Entries, Cancel(x)
          PROVE  fate'[e] = fate[e] /\ firedAt'[e] = firedAt[e]
      BY <2>1, <2>2, <2>6 DEF Cancel, Owned, TypeOK
    <2>7. ASSUME NEW x \in Entries, CancelImmediate(x) \/ Reset(x)
          PROVE  fate'[e] = fate[e] /\ firedAt'[e] = firedAt[e]
      BY <2>7 DEF CancelImmediate, Reset, history
    <2>8. CASE Clear
      BY <2>1, <2>8 DEF Clear
    <2> QED BY <2>3, <2>4, <2>5, <2>6, <2>7, <2>8 DEF Next
  <1> QED BY <1>1, InvAlways, PTL DEF Spec, FateIsFinal
============================================================================
