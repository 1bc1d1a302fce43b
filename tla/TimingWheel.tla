---------------------------- MODULE TimingWheel ----------------------------
(***************************************************************************)
(* zysoft::timing_wheel<T, N>  (src/zysoft/src/zysoft/timer/timing_wheel.h) *)
(*                                                                         *)
(* A hashed timing wheel: N slots, each a multimap from the tick at which  *)
(* an entry is due to the entry.  The owner calls tick() and get_expired() *)
(* periodically, and add, cancel, reset and clear whenever it likes; the   *)
(* class is not thread safe, so the operations are atomic.                 *)
(*                                                                         *)
(* A multimap is modelled as what it is: for every key the sequence of the *)
(* entries stored under it, in insertion order.  Iterating over a slot     *)
(* visits its keys in increasing order.                                    *)
(***************************************************************************)
EXTENDS Integers, FiniteSets, Sequences

CONSTANTS
    Entries,    \* the entries ever created by add()
    Durations,  \* the durations the owner passes to add()
    N,          \* template parameter N, the number of slots
    Width,      \* number of values of std::uint64_t
    MaxTick,    \* bound: the owner calls tick() up to this tick
    Asserts     \* TRUE iff the build keeps assert(), i.e. NDEBUG is not set

Ticks == 0 .. Width - 1
Slots == 0 .. N - 1

ASSUME WheelAssumption ==
    /\ N \in Nat \ {0}
    /\ Width \in Nat \ {0}
    /\ MaxTick \in Ticks
    /\ Durations \subseteq Ticks
    /\ Asserts \in BOOLEAN

VARIABLES
    wheel,        \* wheel_: slot -> multimap (tick -> sequence of entries)
    immediate,    \* immediate_entries_
    all,          \* all_entries_
    current_tick,
    tick,         \* entry::tick_
    duration,     \* entry::duration_
    status        \* "running", "aborted" by an assert or "undefined" behaviour

\* History of the calls, read by no guard: what became of each entry, when it
\* was last armed by add() or reset(), the argument of the get_expired() that
\* returned it, the first tick of the unbroken run of drained ticks that ends
\* now, and whether the current tick is drained already.
VARIABLES fate, start, firedAt, since, drained

wheelVars == <<wheel, immediate, all, tick>>
history   == <<fate, start, firedAt, since, drained>>
vars      == <<wheel, immediate, all, current_tick, tick, duration, status,
               fate, start, firedAt, since, drained>>

----------------------------------------------------------------------------
RangeOf(s) == {s[i] : i \in DOMAIN s}

\* Unsigned addition of two ticks, wrapping at the width of the type.
Sum(a, b) == IF a + b < Width THEN a + b ELSE a + b - Width

SlotOf(t) == t % N

EmptySlot == [k \in Ticks |-> << >>]

\* A weak_ptr to e can be locked while some container still owns e.
Owned(e) == e \in all

\* Mutant: the entry goes to the front of its equal range.
Inserted_Front(w, k, e) == [w EXCEPT ![SlotOf(k)][k] = <<e>> \o @]
\* entries_.insert({k, e}): behind the entries that have the same key.
Inserted(w, k, e) == [w EXCEPT ![SlotOf(k)][k] = Append(@, e)]

\* slot_remove_entry: look e up in the equal range of its tick, erase it.
PositionOf(s, e) == CHOOSE i \in DOMAIN s : s[i] = e
Without(s, e) ==
    LET p == PositionOf(s, e) IN
    [i \in 1 .. Len(s) - 1 |-> IF i < p THEN s[i] ELSE s[i + 1]]
\* Mutant: the entry is looked up but never erased.
Erased_Nothing(w, e) == w
Erased(w, e) == [w EXCEPT ![SlotOf(tick[e])][tick[e]] = Without(@, e)]
InSlot(e) == e \in RangeOf(wheel[SlotOf(tick[e])][tick[e]])

\* Its return value is null when erase() returned end(), that is, when e was
\* the last entry of its whole slot.
ReturnsNull(e) ==
    LET slot == wheel[SlotOf(tick[e])] IN
    /\ PositionOf(slot[tick[e]], e) = Len(slot[tick[e]])
    /\ \A k \in Ticks : k > tick[e] => slot[k] = << >>

\* The keys before entries_.upper_bound(t).  Mutants: lower_bound (the question
\* the code asks itself in a TODO), and the whole slot.
BeforeBound_Lower(k, t) == k < t
BeforeBound_WholeSlot(k, t) == TRUE
BeforeBound(k, t) == k <= t

\* What get_expired(t) hands out: every immediate entry, then the entries of
\* the slot of the current tick whose key is at most t.
Due(t) ==
    immediate \cup
    UNION {RangeOf(wheel[SlotOf(current_tick)][k]) :
                k \in {x \in Ticks : BeforeBound(x, t)}}

----------------------------------------------------------------------------
Init ==
    /\ wheel = [i \in Slots |-> EmptySlot]
    /\ immediate = {}
    /\ all = {}
    /\ current_tick = 0
    /\ tick = [e \in Entries |-> 0]
    /\ duration = [e \in Entries |-> 0]
    /\ status = "running"
    /\ fate = [e \in Entries |-> "unborn"]
    /\ start = [e \in Entries |-> 0]
    /\ firedAt = [e \in Entries |-> 0]
    /\ since = 0
    /\ drained = FALSE

Tick ==
    /\ status = "running"
    /\ current_tick < MaxTick
    /\ current_tick' = current_tick + 1
    /\ since' = IF drained THEN since ELSE current_tick + 1
    /\ drained' = FALSE
    /\ UNCHANGED <<wheelVars, duration, status, fate, start, firedAt>>

GetExpired(t) ==
    /\ status = "running"
    /\ immediate' = {}
    /\ wheel' = [wheel EXCEPT ![SlotOf(current_tick)] =
                    [k \in Ticks |-> IF BeforeBound(k, t) THEN << >> ELSE @[k]]]
    /\ all' = all \ Due(t)
    /\ fate' = [e \in Entries |-> IF e \in Due(t) THEN "fired" ELSE fate[e]]
    /\ firedAt' = [e \in Entries |-> IF e \in Due(t) THEN t ELSE firedAt[e]]
    /\ drained' = (drained \/ t >= current_tick)
    /\ UNCHANGED <<current_tick, tick, duration, status, start, since>>

\* The part of add() that both branches share.
NewEntry(e, d, due) ==
    /\ status = "running"
    /\ fate[e] = "unborn"
    /\ tick' = [tick EXCEPT ![e] = due]
    /\ duration' = [duration EXCEPT ![e] = d]
    /\ all' = all \cup {e}
    /\ fate' = [fate EXCEPT ![e] = "armed"]
    /\ start' = [start EXCEPT ![e] = current_tick]
    /\ UNCHANGED <<current_tick, status, firedAt, since, drained>>

AddImmediate(e) ==
    /\ NewEntry(e, 0, current_tick)
    /\ immediate' = immediate \cup {e}
    /\ UNCHANGED wheel

AddTimed(e, d) ==
    /\ d # 0
    /\ NewEntry(e, d, Sum(d, current_tick))
    /\ wheel' = Inserted(wheel, Sum(d, current_tick), e)
    /\ UNCHANGED immediate

Add(e, d) == IF d = 0 THEN AddImmediate(e) ELSE AddTimed(e, d)

\* cancel() of an entry that sits in a slot; a build with assertions stops at
\* assert(ret) when slot_remove_entry returned null.
Cancel(e) ==
    /\ status = "running"
    /\ Owned(e)
    /\ InSlot(e)
    /\ IF Asserts /\ ReturnsNull(e)
         THEN /\ wheel' = Erased(wheel, e)
              /\ status' = "aborted"
              /\ UNCHANGED <<all, fate>>
         ELSE /\ wheel' = Erased(wheel, e)
              /\ all' = all \ {e}
              /\ fate' = [fate EXCEPT ![e] = "dropped"]
              /\ UNCHANGED status
    /\ UNCHANGED <<immediate, current_tick, tick, duration, start, firedAt,
                   since, drained>>

\* cancel() of an immediate entry looks for it in the slot of its tick, does
\* not find it and erases end().
CancelImmediate(e) ==
    /\ status = "running"
    /\ Owned(e)
    /\ ~InSlot(e)
    /\ status' = "undefined"
    /\ UNCHANGED <<wheelVars, current_tick, duration, history>>

\* Mutant of Reset: the entry returns to the slot it was in, because the slot
\* is looked up before tick_ is updated.
Reset_StaleSlot(e) ==
    LET due == Sum(duration[e], current_tick) IN
    /\ status = "running"
    /\ Owned(e)
    /\ duration[e] # 0
    /\ tick[e] # due
    /\ wheel' = [Erased(wheel, e) EXCEPT ![SlotOf(tick[e])][due] = Append(@, e)]
    /\ tick' = [tick EXCEPT ![e] = due]
    /\ start' = [start EXCEPT ![e] = current_tick]
    /\ UNCHANGED <<immediate, all, current_tick, duration, status, fate,
                   firedAt, since, drained>>

\* reset(): nothing to do for a dead handle, an immediate entry or an entry
\* armed at this very tick.
Reset(e) ==
    LET due == Sum(duration[e], current_tick) IN
    /\ status = "running"
    /\ Owned(e)
    /\ duration[e] # 0
    /\ tick[e] # due
    /\ IF Asserts /\ ReturnsNull(e)
         THEN /\ wheel' = Erased(wheel, e)
              /\ status' = "aborted"
              /\ UNCHANGED <<tick, start>>
         ELSE /\ wheel' = Inserted(Erased(wheel, e), due, e)
              /\ tick' = [tick EXCEPT ![e] = due]
              /\ start' = [start EXCEPT ![e] = current_tick]
              /\ UNCHANGED status
    /\ UNCHANGED <<immediate, all, current_tick, duration, fate, firedAt,
                   since, drained>>

Clear ==
    /\ status = "running"
    /\ wheel' = [i \in Slots |-> EmptySlot]
    /\ immediate' = {}
    /\ all' = {}
    /\ current_tick' = 0
    /\ fate' = [e \in Entries |-> IF e \in all THEN "dropped" ELSE fate[e]]
    /\ since' = 0
    /\ drained' = FALSE
    /\ UNCHANGED <<tick, duration, status, start, firedAt>>

Next ==
    \/ Tick
    \/ \E t \in 0 .. MaxTick : GetExpired(t)
    \/ \E e \in Entries, d \in Durations : Add(e, d)
    \/ \E e \in Entries : Cancel(e)
    \/ \E e \in Entries : CancelImmediate(e)
    \/ \E e \in Entries : Reset(e)
    \/ Clear

Spec == Init /\ [][Next]_vars
----------------------------------------------------------------------------
(* Properties *)

\* Types of the variables.
TypeOK ==
    /\ wheel \in [Slots -> [Ticks -> Seq(Entries)]]
    /\ immediate \subseteq Entries
    /\ all \subseteq Entries
    /\ current_tick \in 0 .. MaxTick
    /\ tick \in [Entries -> Ticks]
    /\ duration \in [Entries -> Ticks]
    /\ status \in {"running", "aborted", "undefined"}
    /\ fate \in [Entries -> {"unborn", "armed", "fired", "dropped"}]
    /\ start \in [Entries -> 0 .. MaxTick]
    /\ firedAt \in [Entries -> 0 .. MaxTick]
    /\ since \in 0 .. MaxTick
    /\ drained \in BOOLEAN

\* The three containers agree: every entry that was added and has neither
\* expired nor been cancelled is owned, immediate or stored exactly once under
\* its tick in the slot of its tick, and nothing else is stored anywhere.
\* get_slot() and slot_remove_entry() rely on this to find an entry again
\* after any sequence of add, reset, cancel and get_expired.
Located ==
    \A i \in Slots, k \in Ticks : \A p \in DOMAIN wheel[i][k] :
        /\ wheel[i][k][p] \in all \ immediate
        /\ tick[wheel[i][k][p]] = k
        /\ SlotOf(k) = i
StoredOnce ==
    \A i \in Slots, k \in Ticks : \A p, q \in DOMAIN wheel[i][k] :
        wheel[i][k][p] = wheel[i][k][q] => p = q
Reachable == \A e \in all \ immediate : InSlot(e)
Consistent ==
    status # "aborted" =>
        /\ all = {e \in Entries : fate[e] = "armed"}
        /\ immediate \subseteq {e \in all : duration[e] = 0}
        /\ Located
        /\ StoredOnce
        /\ Reachable

\* The ticks of the current unbroken run of ticks on each of which the owner
\* called get_expired() (with the current tick or a later one).
DrainedRun == since .. (IF drained THEN current_tick ELSE current_tick - 1)

\* Slots are visited by the current tick only, so an entry that is still held
\* was not due at any tick of the run that is congruent to its own tick and
\* lies after it was armed.
RunIsClean ==
    status # "aborted" =>
        \A e \in all \ immediate : \A c \in DrainedRun :
            c >= tick[e] /\ c > start[e] => SlotOf(c) # SlotOf(tick[e])

\* While the owner drains every tick, an entry never outlives the tick it is
\* due at: at the end of a drained tick nothing due in the run is still held.
OnTime ==
    status # "aborted" =>
        \A e \in all \ immediate :
            tick[e] > start[e] => tick[e] \notin DrainedRun

\* A tick that was skipped leaves its entries behind (get_expired looks at one
\* slot only), but N drained ticks in a row, one revolution, clear whatever
\* was left behind by then.
RecoversInOneRevolution ==
    status # "aborted" =>
        \A e \in all \ immediate :
            Cardinality({c \in DrainedRun : c >= tick[e] /\ c > start[e]}) < N

\* No timed entry expires before the time it was last armed for: after any add
\* and resets, the get_expired(t) that returns it has t >= start + duration,
\* provided that sum does not wrap.  (Immediate entries ignore t.)
NeverEarly ==
    \A e \in Entries :
        fate[e] = "fired" /\ duration[e] # 0 /\ start[e] + duration[e] < Width =>
            firedAt[e] >= start[e] + duration[e]

\* Entries due at the same tick expire in the order they were armed: within an
\* equal range the multimap keeps insertion order through every reset.
ArmOrder ==
    \A i \in Slots, k \in Ticks : \A p, q \in DOMAIN wheel[i][k] :
        p < q => start[wheel[i][k][p]] <= start[wheel[i][k][q]]

\* An entry that expired, was cancelled or was cleared away never expires
\* (again): no stale copy of it stays behind in a slot.
FateIsFinal ==
    [][\A e \in Entries :
          fate[e] \in {"fired", "dropped"} =>
              fate'[e] = fate[e] /\ firedAt'[e] = firedAt[e]]_vars

\* cancel() and reset() assert that the entry they removed was found
\* (assert(ret), lines 134 and 154).
RemovalSucceeds == status # "aborted"
============================================================================
