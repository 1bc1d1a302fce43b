-------------------------- MODULE RedisPoolProofs --------------------------
(* Theorems about RedisPool, for any number of threads and connections.     *)
EXTENDS RedisPool, FiniteSetTheorems, TLAPS

----------------------------------------------------------------------------
(* Lemmas about the list of slots *)

\* Where the k-th slot was before the i-th one went to the end.
OldPlace(i, k) == IF k < i THEN k ELSE IF k < Len(pool) THEN k + 1 ELSE i

\* Sending a slot to the end permutes the list and changes that slot only.
LEMMA ReleasedFacts ==
  ASSUME pool \in Seq(Slot), NEW i \in DOMAIN pool
  PROVE  /\ Released(i) \in Seq(Slot)
         /\ DOMAIN Released(i) = DOMAIN pool
         /\ \A k \in DOMAIN pool :
                /\ OldPlace(i, k) \in DOMAIN pool
                /\ OldPlace(i, k) # i => Released(i)[k] = pool[OldPlace(i, k)]
                /\ OldPlace(i, k) = i =>
                      /\ Released(i)[k].conn = pool[i].conn
                      /\ Released(i)[k].using = FALSE
         /\ \A k, l \in DOMAIN pool : OldPlace(i, k) = OldPlace(i, l) => k = l
         /\ \A j \in DOMAIN pool : \E k \in DOMAIN pool : OldPlace(i, k) = j
  <1>1. /\ DOMAIN pool = 1 .. Len(pool)
        /\ Len(pool) \in Nat
        /\ \A k \in 1 .. Len(pool) : pool[k] \in Slot
    OBVIOUS
  <1>2. \A k \in DOMAIN pool : OldPlace(i, k) \in DOMAIN pool
    BY <1>1 DEF OldPlace
  <1>3. \A k \in DOMAIN pool :
            Released(i)[k] = IF OldPlace(i, k) # i THEN pool[OldPlace(i, k)]
                             ELSE [conn |-> pool[i].conn, using |-> FALSE]
    BY <1>1 DEF Released, OldPlace
  <1>4. \A k \in DOMAIN pool : Released(i)[k] \in Slot
    <2>1. [conn |-> pool[i].conn, using |-> FALSE] \in Slot
      BY <1>1 DEF Slot
    <2>2. ASSUME NEW k \in DOMAIN pool PROVE Released(i)[k] \in Slot
      <3>1. CASE OldPlace(i, k) # i
        BY <1>1, <1>2, <1>3, <3>1, Zenon
      <3>2. CASE OldPlace(i, k) = i
        BY <1>3, <2>1, <3>2, Zenon
      <3> QED BY <3>1, <3>2
    <2> QED BY <2>2
  <1>5. Released(i) = [k \in 1 .. Len(pool) |-> Released(i)[k]]
    BY <1>1 DEF Released
  <1>6. Released(i) \in Seq(Slot) /\ DOMAIN Released(i) = DOMAIN pool
    BY <1>1, <1>4, <1>5
  <1>7. \A k, l \in DOMAIN pool : OldPlace(i, k) = OldPlace(i, l) => k = l
    BY <1>1 DEF OldPlace
  <1>8. ASSUME NEW j \in DOMAIN pool
        PROVE  \E k \in DOMAIN pool : OldPlace(i, k) = j
    <2>1. CASE j < i
      BY <1>1, <2>1 DEF OldPlace
    <2>2. CASE j = i
      <3>1. Len(pool) \in DOMAIN pool /\ OldPlace(i, Len(pool)) = i
        BY <1>1 DEF OldPlace
      <3> QED BY <3>1, <2>2
    <2>3. CASE j > i
      <3>1. j - 1 \in DOMAIN pool /\ OldPlace(i, j - 1) = j
        BY <1>1, <2>3 DEF OldPlace
      <3> QED BY <3>1
    <2> QED BY <1>1, <2>1, <2>2, <2>3
  <1> QED BY <1>2, <1>3, <1>6, <1>7, <1>8

\* A new slot is the last one and leaves the others alone.
LEMMA AppendedFacts ==
  ASSUME pool \in Seq(Slot), NEW s \in Slot
  PROVE  /\ Append(pool, s) \in Seq(Slot)
         /\ DOMAIN pool = 1 .. Len(pool)
         /\ Len(pool) \in Nat
         /\ DOMAIN Append(pool, s) = 1 .. Len(pool) + 1
         /\ \A k \in DOMAIN pool : Append(pool, s)[k] = pool[k]
         /\ Append(pool, s)[Len(pool) + 1] = s
  OBVIOUS

----------------------------------------------------------------------------
(* The inductive invariant.  Exclusive says nothing of the connections that
   lie in the list or have only just been made; that a new one is nobody else's
   needs every connection known to the pool to be among those made. *)

DistinctSlots ==
    \A i, j \in DOMAIN pool : pool[i].conn = pool[j].conn => i = j

AllMade ==
    /\ \A i \in DOMAIN pool : pool[i].conn \in made
    /\ \A t \in Threads : conn[t] # None => conn[t] \in made

CreatedIsOutside ==
    \A t \in Threads : pc[t] = "created" =>
        \A i \in DOMAIN pool : pool[i].conn # conn[t]

HeldIsInUse ==
    \A t \in Threads : pc[t] = "holding" =>
        \E i \in DOMAIN pool : pool[i].conn = conn[t] /\ pool[i].using

IInv ==
    /\ TypeOK
    /\ DistinctSlots
    /\ AllMade
    /\ CreatedIsOutside
    /\ HeldIsInUse
    /\ Exclusive
    /\ NoSlotLost

LEMMA InitIInv == Init => IInv
  BY DEF Init, IInv, TypeOK, DistinctSlots, AllMade, CreatedIsOutside,
         HeldIsInUse, Exclusive, NoSlotLost, Slot

(* Each action preserves the invariant. *)

LEMMA InitPoolIInv == IInv /\ InitPool => IInv'
  <1> SUFFICES ASSUME IInv, InitPool PROVE IInv'
    OBVIOUS
  <1> USE DEF IInv
  <1>0. UNCHANGED <<pc, conn>>
    BY DEF InitPool
  <1>1. CASE UNCHANGED <<pool, made>>
    <2>1. stage' \in {"init", "ready", "failed"}
      BY DEF InitPool, TypeOK
    <2>2. TypeOK'
      BY <1>0, <1>1, <2>1 DEF TypeOK
    <2> QED
      BY <1>0, <1>1, <2>2 DEF DistinctSlots, AllMade, CreatedIsOutside,
         HeldIsInUse, Exclusive, NoSlotLost
  <1>2. CASE UNCHANGED stage /\ \E c \in Conns \ made :
                /\ pool' = Append(pool, [conn |-> c, using |-> FALSE])
                /\ made' = made \cup {c}
    <2>1. PICK c \in Conns \ made :
                /\ pool' = Append(pool, [conn |-> c, using |-> FALSE])
                /\ made' = made \cup {c}
      BY <1>2
    <2> DEFINE s == [conn |-> c, using |-> FALSE]
    <2>2. s \in Slot /\ s.conn = c /\ s.using = FALSE
      BY DEF Slot
    <2>3. pool' = Append(pool, s)
      BY <2>1
    <2> HIDE DEF s
    <2>4. /\ pool' \in Seq(Slot)
          /\ DOMAIN pool = 1 .. Len(pool)
          /\ Len(pool) \in Nat
          /\ DOMAIN pool' = 1 .. Len(pool) + 1
          /\ \A k \in DOMAIN pool : pool'[k] = pool[k]
          /\ pool'[Len(pool) + 1] = s
      BY <2>2, <2>3, AppendedFacts DEF TypeOK
    <2>5. TypeOK'
      BY <1>0, <1>2, <2>1, <2>4 DEF TypeOK
    <2>6. DistinctSlots'
      BY <2>1, <2>2, <2>4 DEF DistinctSlots, AllMade
    <2>7. AllMade'
      BY <1>0, <2>1, <2>2, <2>4 DEF AllMade
    <2>8. CreatedIsOutside'
      <3>1. \A t \in Threads : pc[t] = "created" => conn[t] # c
        BY <2>1, RedisAssumption DEF AllMade, TypeOK
      <3> QED BY <1>0, <2>2, <2>4, <3>1 DEF CreatedIsOutside
    <2>9. HeldIsInUse'
      BY <1>0, <2>4 DEF HeldIsInUse
    <2>10. Exclusive'
      BY <1>0 DEF Exclusive
    <2>11. NoSlotLost'
      BY <1>0, <2>2, <2>4 DEF NoSlotLost
    <2> QED BY <2>5, <2>6, <2>7, <2>8, <2>9, <2>10, <2>11
  <1> QED BY <1>1, <1>2 DEF InitPool

\* Taking the slot i.
LEMMA TakeFreeIInv ==
  ASSUME IInv, NEW t \in Threads, pc[t] = "idle", NEW i \in DOMAIN pool,
         Free(i), TakeFree(t, i), UNCHANGED <<stage, made>>
  PROVE  IInv'
  <1> USE DEF IInv
  <1>1. /\ DOMAIN pool = 1 .. Len(pool)
        /\ Len(pool) \in Nat
        /\ \A k \in DOMAIN pool : pool[k] \in Slot
    BY DEF TypeOK
  <1>2. /\ pool' \in Seq(Slot)
        /\ DOMAIN pool' = DOMAIN pool
        /\ \A k \in DOMAIN pool : pool'[k].conn = pool[k].conn
        /\ \A k \in DOMAIN pool \ {i} : pool'[k].using = pool[k].using
        /\ pool'[i].using = TRUE
    <2>1. pool' = [pool EXCEPT ![i] = [pool[i] EXCEPT !.using = TRUE]]
      BY DEF TakeFree
    <2>2. /\ [pool[i] EXCEPT !.using = TRUE] \in Slot
          /\ [pool[i] EXCEPT !.using = TRUE].conn = pool[i].conn
          /\ [pool[i] EXCEPT !.using = TRUE].using = TRUE
      BY <1>1 DEF Slot
    <2> QED BY <1>1, <2>1, <2>2 DEF TypeOK
  <1>3. pool[i].conn \in Conns /\ pool[i].conn # None /\ pool[i].using = FALSE
    BY <1>1, RedisAssumption DEF Slot, Free
  <1>4. /\ pc' = [pc EXCEPT ![t] = "holding"]
        /\ conn' = [conn EXCEPT ![t] = pool[i].conn]
    BY DEF TakeFree
  <1>5. \A u \in Threads : conn[u] # pool[i].conn
    <2>1. \A u \in Threads : pc[u] # "holding" \/ conn[u] # pool[i].conn
      BY <1>3 DEF HeldIsInUse, DistinctSlots
    <2>2. \A u \in Threads : pc[u] # "created" \/ conn[u] # pool[i].conn
      BY DEF CreatedIsOutside
    <2> QED BY <1>3, <2>1, <2>2 DEF TypeOK
  <1>6. TypeOK'
    BY <1>2, <1>3, <1>4 DEF TypeOK
  <1>7. DistinctSlots'
    BY <1>2 DEF DistinctSlots
  <1>8. AllMade'
    BY <1>2, <1>4 DEF AllMade, TypeOK
  <1>9. CreatedIsOutside'
    BY <1>2, <1>4 DEF CreatedIsOutside, TypeOK
  <1>10. HeldIsInUse'
    <2>1. ASSUME NEW u \in Threads, u # t, pc'[u] = "holding"
          PROVE  \E j \in DOMAIN pool' : pool'[j].conn = conn'[u] /\ pool'[j].using
      <3>1. pc[u] = "holding" /\ conn'[u] = conn[u]
        BY <1>4, <2>1 DEF TypeOK
      <3>2. PICK j \in DOMAIN pool : pool[j].conn = conn[u] /\ pool[j].using
        BY <3>1 DEF HeldIsInUse
      <3> QED BY <1>2, <3>1, <3>2
    <2>2. pool'[i].conn = conn'[t] /\ pool'[i].using
      BY <1>2, <1>4 DEF TypeOK
    <2> QED BY <1>2, <2>1, <2>2 DEF HeldIsInUse
  <1>11. Exclusive'
    BY <1>4, <1>5 DEF Exclusive, TypeOK
  <1>12. NoSlotLost'
    <2>1. ASSUME NEW j \in DOMAIN pool, j # i, pool'[j].using
          PROVE  \E u \in Threads : pc'[u] = "holding" /\ conn'[u] = pool'[j].conn
      <3>1. pool[j].using
        BY <1>2, <2>1
      <3>2. PICK u \in Threads : pc[u] = "holding" /\ conn[u] = pool[j].conn
        BY <3>1 DEF NoSlotLost
      <3> QED BY <1>2, <1>4, <3>2 DEF TypeOK
    <2>2. pc'[t] = "holding" /\ conn'[t] = pool'[i].conn
      BY <1>2, <1>4 DEF TypeOK
    <2> QED BY <1>2, <2>1, <2>2 DEF NoSlotLost
  <1> QED BY <1>6, <1>7, <1>8, <1>9, <1>10, <1>11, <1>12

LEMMA GetConnIInv ==
  ASSUME IInv, NEW t \in Threads, GetConn(t)
  PROVE  IInv'
  <1>1. CASE \E i \in DOMAIN pool : FirstFree(i) /\ TakeFree(t, i)
    BY <1>1, TakeFreeIInv DEF GetConn, FirstFree
  <1>2. CASE /\ pc' = [pc EXCEPT ![t] = "creating"]
             /\ UNCHANGED <<pool, conn>>
    <2>1. UNCHANGED <<stage, made>> /\ pc[t] = "idle"
      BY DEF GetConn
    <2>2. TypeOK'
      BY <1>2, <2>1 DEF IInv, TypeOK
    <2>3. \A u \in Threads : u # t => pc'[u] = pc[u]
      BY <1>2 DEF IInv, TypeOK
    <2>4. pc'[t] = "creating"
      BY <1>2 DEF IInv, TypeOK
    <2> QED
      BY <1>2, <2>1, <2>2, <2>3, <2>4 DEF IInv, DistinctSlots, AllMade,
         CreatedIsOutside, HeldIsInUse, Exclusive, NoSlotLost
  <1> QED BY <1>1, <1>2 DEF GetConn

LEMMA CreateIInv ==
  ASSUME IInv, NEW t \in Threads, Create(t)
  PROVE  IInv'
  <1> USE DEF IInv
  <1>0. UNCHANGED <<pool, stage>> /\ pc[t] = "creating" /\ conn[t] = None
    BY DEF Create, TypeOK
  <1>1. CASE \E c \in Conns \ made :
                /\ made' = made \cup {c}
                /\ conn' = [conn EXCEPT ![t] = c]
                /\ pc' = [pc EXCEPT ![t] = "created"]
    <2>1. PICK c \in Conns \ made :
                /\ made' = made \cup {c}
                /\ conn' = [conn EXCEPT ![t] = c]
                /\ pc' = [pc EXCEPT ![t] = "created"]
      BY <1>1
    <2>2. c # None /\ \A u \in Threads : conn[u] # c
      BY RedisAssumption DEF AllMade
    <2>3. TypeOK'
      BY <1>0, <2>1, <2>2 DEF TypeOK
    <2>4. /\ pc'[t] = "created" /\ conn'[t] = c
          /\ \A u \in Threads \ {t} : pc'[u] = pc[u] /\ conn'[u] = conn[u]
      BY <2>1 DEF TypeOK
    <2>5. DistinctSlots' /\ AllMade' /\ Exclusive'
      BY <1>0, <2>1, <2>2, <2>4 DEF DistinctSlots, AllMade, Exclusive
    <2>6. CreatedIsOutside'
      BY <1>0, <2>1, <2>4 DEF CreatedIsOutside, AllMade
    <2>7. HeldIsInUse'
      BY <1>0, <2>4 DEF HeldIsInUse
    <2>8. NoSlotLost'
      BY <1>0, <2>4 DEF NoSlotLost
    <2> QED BY <2>3, <2>5, <2>6, <2>7, <2>8
  <1>2. CASE pc' = [pc EXCEPT ![t] = "idle"] /\ UNCHANGED <<made, conn>>
    <2>1. TypeOK'
      BY <1>0, <1>2 DEF TypeOK
    <2>2. pc'[t] = "idle" /\ \A u \in Threads \ {t} : pc'[u] = pc[u]
      BY <1>2 DEF TypeOK
    <2> QED
      BY <1>0, <1>2, <2>1, <2>2 DEF DistinctSlots, AllMade,
         CreatedIsOutside, HeldIsInUse, Exclusive, NoSlotLost
  <1> QED BY <1>1, <1>2 DEF Create

LEMMA AppendSlotIInv ==
  ASSUME IInv, NEW t \in Threads, AppendSlot(t)
  PROVE  IInv'
  <1> USE DEF IInv
  <1>0. /\ UNCHANGED <<stage, conn, made>>
        /\ pc[t] = "created"
        /\ pc' = [pc EXCEPT ![t] = "holding"]
    BY DEF AppendSlot
  <1> DEFINE s == [conn |-> conn[t], using |-> TRUE]
  <1>1. conn[t] \in Conns /\ conn[t] # None
    BY <1>0 DEF TypeOK
  <1>2. s \in Slot /\ s.conn = conn[t] /\ s.using = TRUE
    BY <1>1 DEF Slot
  <1>3. pool' = Append(pool, s)
    BY DEF AppendSlot
  <1> HIDE DEF s
  <1>4. /\ pool' \in Seq(Slot)
        /\ DOMAIN pool = 1 .. Len(pool)
        /\ Len(pool) \in Nat
        /\ DOMAIN pool' = 1 .. Len(pool) + 1
        /\ \A k \in DOMAIN pool : pool'[k] = pool[k]
        /\ pool'[Len(pool) + 1] = s
    BY <1>2, <1>3, AppendedFacts DEF TypeOK
  <1>5. pc'[t] = "holding" /\ \A u \in Threads \ {t} : pc'[u] = pc[u]
    BY <1>0 DEF TypeOK
  <1>6. TypeOK'
    BY <1>0, <1>1, <1>4 DEF TypeOK
  <1>7. DistinctSlots'
    BY <1>0, <1>2, <1>4 DEF DistinctSlots, CreatedIsOutside
  <1>8. AllMade'
    BY <1>0, <1>1, <1>2, <1>4 DEF AllMade
  <1>9. CreatedIsOutside'
    BY <1>0, <1>1, <1>2, <1>4, <1>5 DEF CreatedIsOutside, Exclusive
  <1>10. HeldIsInUse'
    <2>1. Len(pool) + 1 \in DOMAIN pool'
      BY <1>4
    <2>2. ASSUME NEW u \in Threads \ {t}, pc'[u] = "holding"
          PROVE  \E j \in DOMAIN pool' : pool'[j].conn = conn'[u] /\ pool'[j].using
      <3>1. PICK j \in DOMAIN pool : pool[j].conn = conn[u] /\ pool[j].using
        BY <1>5, <2>2 DEF HeldIsInUse
      <3> QED BY <1>0, <1>4, <3>1
    <2> QED BY <1>0, <1>2, <1>4, <2>1, <2>2 DEF HeldIsInUse
  <1>11. Exclusive'
    BY <1>0 DEF Exclusive
  <1>12. NoSlotLost'
    <2>1. ASSUME NEW j \in DOMAIN pool, pool'[j].using
          PROVE  \E u \in Threads : pc'[u] = "holding" /\ conn'[u] = pool'[j].conn
      <3>1. PICK u \in Threads : pc[u] = "holding" /\ conn[u] = pool[j].conn
        BY <1>4, <2>1 DEF NoSlotLost
      <3> QED BY <1>0, <1>4, <1>5, <3>1
    <2> QED BY <1>0, <1>2, <1>4, <1>5, <2>1 DEF NoSlotLost
  <1> QED BY <1>6, <1>7, <1>8, <1>9, <1>10, <1>11, <1>12

LEMMA RleaseConnIInv ==
  ASSUME IInv, NEW t \in Threads, RleaseConn(t)
  PROVE  IInv'
  <1> USE DEF IInv
  <1> DEFINE i == SlotOf(conn[t])
  <1>0. /\ UNCHANGED <<stage, made>>
        /\ pc[t] = "holding"
        /\ pc' = [pc EXCEPT ![t] = "idle"]
        /\ conn' = [conn EXCEPT ![t] = None]
        /\ pool' = Released(i)
    BY DEF RleaseConn
  <1>1. i \in DOMAIN pool /\ pool[i].conn = conn[t]
    BY <1>0 DEF SlotOf, HeldIsInUse
  <1> HIDE DEF i
  <1> DEFINE Old(k) == OldPlace(i, k)
  <1>2. /\ pool' \in Seq(Slot)
        /\ DOMAIN pool' = DOMAIN pool
        /\ \A k \in DOMAIN pool :
              /\ Old(k) \in DOMAIN pool
              /\ Old(k) # i => pool'[k] = pool[Old(k)]
              /\ Old(k) = i => pool'[k].conn = pool[i].conn /\ pool'[k].using = FALSE
        /\ \A k, l \in DOMAIN pool : Old(k) = Old(l) => k = l
        /\ \A j \in DOMAIN pool : \E k \in DOMAIN pool : Old(k) = j
    <2>1. pool \in Seq(Slot)
      BY DEF TypeOK
    <2> QED BY <1>0, <1>1, <2>1, ReleasedFacts
  <1> HIDE DEF Old
  <1>3. \A k \in DOMAIN pool : pool'[k].conn = pool[Old(k)].conn
    BY <1>2
  <1>4. /\ pc'[t] = "idle" /\ conn'[t] = None
        /\ \A u \in Threads \ {t} : pc'[u] = pc[u] /\ conn'[u] = conn[u]
    BY <1>0 DEF TypeOK
  <1>5. TypeOK'
    BY <1>0, <1>2 DEF TypeOK
  <1>6. DistinctSlots'
    BY <1>2, <1>3 DEF DistinctSlots
  <1>7. AllMade'
    <2>1. \A k \in DOMAIN pool' : pool'[k].conn \in made
      BY <1>2, <1>3 DEF AllMade
    <2>2. \A u \in Threads : conn'[u] # None => conn'[u] \in made
      BY <1>4 DEF AllMade
    <2> QED BY <1>0, <2>1, <2>2 DEF AllMade
  <1>8. CreatedIsOutside'
    <2>1. ASSUME NEW u \in Threads, pc'[u] = "created", NEW k \in DOMAIN pool
          PROVE  pool'[k].conn # conn'[u]
      <3>1. pc[u] = "created" /\ conn'[u] = conn[u]
        BY <1>4, <2>1
      <3>2. Old(k) \in DOMAIN pool /\ pool[Old(k)].conn # conn[u]
        BY <1>2, <3>1 DEF CreatedIsOutside
      <3> QED BY <1>3, <3>1, <3>2
    <2> QED BY <1>2, <2>1 DEF CreatedIsOutside
  <1>9. HeldIsInUse'
    <2>1. ASSUME NEW u \in Threads, pc'[u] = "holding"
          PROVE  \E k \in DOMAIN pool' : pool'[k].conn = conn'[u] /\ pool'[k].using
      <3>1. u # t /\ pc[u] = "holding" /\ conn'[u] = conn[u]
        BY <1>4, <2>1
      <3>2. PICK j \in DOMAIN pool : pool[j].conn = conn[u] /\ pool[j].using
        BY <3>1 DEF HeldIsInUse
      <3>3. j # i
        BY <1>1, <3>1, <3>2, RedisAssumption DEF Exclusive, TypeOK
      <3>4. PICK k \in DOMAIN pool : Old(k) = j
        BY <1>2
      <3> QED BY <1>2, <3>1, <3>2, <3>3, <3>4
    <2> QED BY <2>1 DEF HeldIsInUse
  <1>10. Exclusive'
    BY <1>4 DEF Exclusive
  <1>11. NoSlotLost'
    <2>1. ASSUME NEW k \in DOMAIN pool, pool'[k].using
          PROVE  \E u \in Threads : pc'[u] = "holding" /\ conn'[u] = pool'[k].conn
      <3>1. Old(k) # i /\ pool'[k] = pool[Old(k)] /\ Old(k) \in DOMAIN pool
        BY <1>2, <2>1
      <3>2. PICK u \in Threads : pc[u] = "holding" /\ conn[u] = pool[Old(k)].conn
        BY <2>1, <3>1 DEF NoSlotLost
      <3>3. u # t
        BY <1>1, <3>1, <3>2 DEF DistinctSlots
      <3> QED BY <1>4, <3>1, <3>2, <3>3
    <2> QED BY <1>2, <2>1 DEF NoSlotLost
  <1> QED BY <1>5, <1>6, <1>7, <1>8, <1>9, <1>10, <1>11

LEMMA NextIInv == IInv /\ [Next]_vars => IInv'
  <1> SUFFICES ASSUME IInv, [Next]_vars PROVE IInv'
    OBVIOUS
  <1>1. CASE InitPool
    BY <1>1, InitPoolIInv
  <1>2. ASSUME NEW t \in Threads, GetConn(t) \/ Create(t) \/ AppendSlot(t) \/ RleaseConn(t)
        PROVE  IInv'
    BY <1>2, GetConnIInv, CreateIInv, AppendSlotIInv, RleaseConnIInv
  <1>3. CASE UNCHANGED vars
    BY <1>3 DEF vars, IInv, TypeOK, DistinctSlots, AllMade, CreatedIsOutside,
         HeldIsInUse, Exclusive, NoSlotLost
  <1> QED BY <1>1, <1>2, <1>3 DEF Next

LEMMA Inductive == Spec => []IInv
  <1> QED BY InitIInv, NextIInv, PTL DEF Spec

----------------------------------------------------------------------------
(* The theorems *)

\* The types, with the thread's place in getConn deciding whether it has a
\* connection.
THEOREM TypeCorrect == Spec => []TypeOK
  <1>1. IInv => TypeOK
    BY DEF IInv
  <1> QED BY <1>1, Inductive, PTL

\* getConn never gives one connection to two threads, although the connections
\* it makes are made outside the mutex.
THEOREM ExclusiveCorrect == Spec => []Exclusive
  <1>1. IInv => Exclusive
    BY DEF IInv
  <1> QED BY <1>1, Inductive, PTL

\* The assertions of rleaseConn never fail for a guard's connection.
THEOREM ReleaseAssertsCorrect == Spec => []ReleaseAsserts
  <1>1. IInv => ReleaseAsserts
    BY DEF IInv, HeldIsInUse, DistinctSlots, ReleaseAsserts
  <1> QED BY <1>1, Inductive, PTL

\* getConn and rleaseConn never leave a slot marked that nobody uses.
THEOREM NoSlotLostCorrect == Spec => []NoSlotLost
  <1>1. IInv => NoSlotLost
    BY DEF IInv
  <1> QED BY <1>1, Inductive, PTL

----------------------------------------------------------------------------
(* The bound on the number of connections.  Growing is exact only because a
   thread starts to grow the pool when every slot is another thread's: the
   slots then inject into the threads that hold a connection. *)

SizeInv ==
    /\ IInv
    /\ SizeBounded
    /\ stage = "init" => Growing = {} /\ Len(pool) <= PoolSize

Holding == {t \in Threads : pc[t] = "holding"}

\* A thread that finds every slot in use is one more than there are slots and
\* threads that grow the pool already.
LEMMA AllInUse ==
  ASSUME IInv, \A i \in DOMAIN pool : ~ Free(i), NEW t \in Threads, pc[t] = "idle"
  PROVE  Len(pool) + Cardinality(Growing) + 1 <= Cardinality(Threads)
  <1> DEFINE owner == [i \in 1 .. Len(pool) |->
                          CHOOSE u \in Threads : pc[u] = "holding" /\ conn[u] = pool[i].conn]
  <1>1. DOMAIN pool = 1 .. Len(pool) /\ Len(pool) \in Nat
    BY DEF IInv, TypeOK
  <1>2. \A i \in 1 .. Len(pool) : owner[i] \in Holding /\ conn[owner[i]] = pool[i].conn
    BY <1>1 DEF IInv, NoSlotLost, Holding, Free
  <1>3. owner \in [1 .. Len(pool) -> Holding]
    BY <1>2
  <1> HIDE DEF owner
  <1>4. IsInjective(owner)
    BY <1>1, <1>2, <1>3 DEF IInv, DistinctSlots, IsInjective
  <1>5. IsFiniteSet(Threads) /\ Holding \subseteq Threads /\ Growing \subseteq Threads
    BY RedisAssumption DEF Holding, Growing
  <1>6. /\ IsFiniteSet(Holding) /\ IsFiniteSet(Growing)
        /\ Cardinality(Holding) \in Nat /\ Cardinality(Growing) \in Nat
        /\ Cardinality(Threads) \in Nat
    BY <1>5, FS_Subset, FS_CardinalityType
  <1>7. Len(pool) <= Cardinality(Holding)
    <2>1. owner \in Injection(1 .. Len(pool), Holding)
      BY <1>3, <1>4 DEF Injection
    <2>2. Cardinality(1 .. Len(pool)) <= Cardinality(Holding)
      BY <1>6, <2>1, FS_Injection
    <2>3. Cardinality(1 .. Len(pool)) = Len(pool)
      BY <1>1, FS_Interval
    <2> QED BY <2>2, <2>3
  <1>8. Cardinality(Holding \cup Growing) = Cardinality(Holding) + Cardinality(Growing)
    <2>1. Holding \cap Growing = {}
      BY DEF Holding, Growing
    <2>2. /\ IsFiniteSet(Holding \cup Growing)
          /\ Cardinality(Holding \cup Growing) =
                Cardinality(Holding) + Cardinality(Growing) - Cardinality(Holding \cap Growing)
      BY <1>6, FS_Union
    <2>3. Cardinality(Holding \cap Growing) = 0
      BY <2>1, FS_EmptySet, Zenon
    <2> QED BY <1>6, <2>2, <2>3
  <1>9. Cardinality(Holding \cup Growing) + 1 <= Cardinality(Threads)
    <2>1. t \notin Holding \cup Growing
      BY DEF Holding, Growing
    <2>2. (Holding \cup Growing) \cup {t} \subseteq Threads
      BY <1>5
    <2>3. Cardinality((Holding \cup Growing) \cup {t}) <= Cardinality(Threads)
      BY <1>5, <2>2, FS_Subset
    <2>4. IsFiniteSet(Holding \cup Growing)
      BY <1>6, FS_Union
    <2>5. Cardinality((Holding \cup Growing) \cup {t}) = Cardinality(Holding \cup Growing) + 1
      BY <2>1, <2>4, FS_AddElement
    <2> QED BY <2>3, <2>5
  <1> QED BY <1>1, <1>6, <1>7, <1>8, <1>9

LEMMA SizeInvNext == SizeInv /\ [Next]_vars => SizeInv'
  <1> SUFFICES ASSUME SizeInv, [Next]_vars PROVE SizeInv'
    OBVIOUS
  <1>1. IInv /\ IInv'
    BY NextIInv DEF SizeInv
  <1>2. /\ IsFiniteSet(Growing) /\ Cardinality(Growing) \in Nat
        /\ Cardinality(Threads) \in Nat /\ Len(pool) \in Nat
    <2>1. Growing \subseteq Threads
      BY DEF Growing
    <2>2. IsFiniteSet(Growing)
      BY <2>1, RedisAssumption, FS_Subset
    <2> QED BY <1>1, <2>2, RedisAssumption, FS_CardinalityType DEF IInv, TypeOK
  <1>3. pc \in [Threads -> {"idle", "creating", "created", "holding"}]
    BY <1>1 DEF IInv, TypeOK
  <1>4. CASE InitPool
    <2>1. stage = "init" /\ pc' = pc
      BY <1>4 DEF InitPool
    <2>2. Growing = {} /\ Len(pool) <= PoolSize
      BY <2>1 DEF SizeInv
    <2>3. Growing' = {}
      BY <2>1, <2>2 DEF Growing
    <2>4. Len(pool') <= PoolSize
      <3>1. CASE UNCHANGED pool
        BY <2>2, <3>1
      <3>2. CASE Len(pool) < PoolSize /\ \E c \in Conns \ made :
                     pool' = Append(pool, [conn |-> c, using |-> FALSE])
        <4>1. PICK c \in Conns \ made : pool' = Append(pool, [conn |-> c, using |-> FALSE])
          BY <3>2
        <4>2. [conn |-> c, using |-> FALSE] \in Slot /\ pool \in Seq(Slot)
          BY <1>1 DEF Slot, IInv, TypeOK
        <4>3. Len(pool') = Len(pool) + 1
          BY <4>1, <4>2
        <4> QED BY <1>2, <3>2, <4>3, RedisAssumption
      <3> QED BY <1>4, <3>1, <3>2 DEF InitPool
    <2> QED BY <1>1, <2>3, <2>4 DEF SizeInv, SizeBounded
  <1>5. ASSUME NEW t \in Threads, GetConn(t)
        PROVE  SizeInv'
    <2>1. stage = "ready" /\ stage' = stage /\ pc[t] = "idle"
      BY <1>5 DEF GetConn
    <2>2. ASSUME NEW i \in DOMAIN pool, TakeFree(t, i)
          PROVE  SizeInv'
      <3>1. Growing' = Growing
        BY <1>3, <2>1, <2>2 DEF Growing, TakeFree
      <3>2. Len(pool') = Len(pool)
        BY <1>1, <2>2 DEF TakeFree, IInv, TypeOK
      <3> QED BY <1>1, <2>1, <3>1, <3>2 DEF SizeInv, SizeBounded
    <2>3. CASE /\ MustGrow
               /\ pc' = [pc EXCEPT ![t] = "creating"]
               /\ UNCHANGED <<pool, conn>>
      <3>1. t \notin Growing /\ Growing' = Growing \cup {t}
        BY <1>3, <2>1, <2>3 DEF Growing
      <3>2. Cardinality(Growing') = Cardinality(Growing) + 1
        BY <1>2, <3>1, FS_AddElement
      <3>3. Len(pool) + Cardinality(Growing) + 1 <= Cardinality(Threads)
        BY <1>1, <2>1, <2>3, AllInUse DEF MustGrow
      <3> QED BY <1>1, <1>2, <2>1, <2>3, <3>2, <3>3 DEF SizeInv, SizeBounded
    <2> QED BY <1>5, <2>2, <2>3 DEF GetConn
  <1>6. ASSUME NEW t \in Threads, Create(t)
        PROVE  SizeInv'
    <2>1. t \in Growing /\ pool' = pool /\ stage' = stage
      BY <1>6 DEF Create, Growing
    <2>2. Growing' = Growing \/ Growing' = Growing \ {t}
      BY <1>3, <1>6 DEF Create, Growing
    <2>3. Cardinality(Growing') <= Cardinality(Growing) /\ Cardinality(Growing') \in Nat
      <3>1. /\ IsFiniteSet(Growing \ {t})
            /\ Cardinality(Growing \ {t}) = Cardinality(Growing) - 1
        BY <1>2, <2>1, FS_RemoveElement
      <3>2. Cardinality(Growing \ {t}) \in Nat
        BY <3>1, FS_CardinalityType
      <3>3. CASE Growing' = Growing
        BY <1>2, <3>3
      <3>4. CASE Growing' = Growing \ {t}
        BY <1>2, <3>1, <3>2, <3>4
      <3> QED BY <2>2, <3>3, <3>4
    <2>4. Len(pool) + Cardinality(Growing) <= Cardinality(Threads) /\ stage # "init"
      BY <2>1 DEF SizeInv, SizeBounded
    <2> QED BY <1>1, <1>2, <2>1, <2>3, <2>4 DEF SizeInv, SizeBounded
  <1>7. ASSUME NEW t \in Threads, AppendSlot(t)
        PROVE  SizeInv'
    <2>1. t \in Growing /\ stage' = stage
      BY <1>7 DEF AppendSlot, Growing
    <2>2. Growing' = Growing \ {t}
      BY <1>3, <1>7 DEF AppendSlot, Growing
    <2>3. Cardinality(Growing') = Cardinality(Growing) - 1
      BY <1>2, <2>1, <2>2, FS_RemoveElement
    <2>4. Len(pool') = Len(pool) + 1
      <3>1. [conn |-> conn[t], using |-> TRUE] \in Slot /\ pool \in Seq(Slot)
        BY <1>1, <1>7 DEF IInv, TypeOK, AppendSlot, Slot
      <3> QED BY <1>7, <3>1 DEF AppendSlot
    <2>5. Len(pool) + Cardinality(Growing) <= Cardinality(Threads) /\ stage # "init"
      BY <2>1 DEF SizeInv, SizeBounded
    <2> QED BY <1>1, <1>2, <2>1, <2>3, <2>4, <2>5 DEF SizeInv, SizeBounded
  <1>8. ASSUME NEW t \in Threads, RleaseConn(t)
        PROVE  SizeInv'
    <2>1. Growing' = Growing
      BY <1>3, <1>8 DEF RleaseConn, Growing
    <2>2. Len(pool') = Len(pool) /\ stage' = stage
      <3>1. SlotOf(conn[t]) \in DOMAIN pool
        BY <1>1, <1>8 DEF RleaseConn, SlotOf, IInv, HeldIsInUse
      <3>2. DOMAIN pool' = DOMAIN pool /\ pool' \in Seq(Slot)
        BY <1>1, <1>8, <3>1, ReleasedFacts DEF RleaseConn, IInv, TypeOK
      <3> QED BY <1>1, <1>8, <3>2 DEF RleaseConn, IInv, TypeOK
    <2> QED BY <1>1, <2>1, <2>2 DEF SizeInv, SizeBounded
  <1>9. CASE UNCHANGED vars
    BY <1>1, <1>9 DEF vars, SizeInv, SizeBounded, Growing
  <1> QED BY <1>4, <1>5, <1>6, <1>7, <1>8, <1>9 DEF Next

\* However many threads find the pool full at once, it never has more
\* connections than its first size or the number of threads, whichever is
\* larger.  It may have more than m_pool_max_size.
THEOREM SizeBoundedCorrect == Spec => []SizeBounded
  <1>1. Init => SizeInv
    <2> SUFFICES ASSUME Init PROVE SizeInv
      OBVIOUS
    <2>1. Growing = {} /\ Len(pool) = 0
      BY DEF Init, Growing
    <2> QED BY <2>1, InitIInv, RedisAssumption DEF SizeInv, SizeBounded
  <1>2. SizeInv => SizeBounded
    BY DEF SizeInv
  <1> QED BY <1>1, <1>2, SizeInvNext, PTL DEF Spec
----------------------------------------------------------------------------
(* The refinement of ConnPool.  What a list of slots says about idleness. *)

IdleIn(p, c) == \E i \in DOMAIN p : ~ p[i].using /\ p[i].conn = c
Ahead(p, c, d) ==
    \E i, j \in DOMAIN p : i < j /\ p[i].conn = c /\ p[j].conn = d

\* The mapped variables in terms of these.
LEMMA IdleIs ==
    /\ \A c : c \in IdleConns <=> IdleIn(pool, c)
    /\ \A c : c \in IdleConns' <=> IdleIn(pool', c)
    /\ \A c, d : <<c, d>> \in IdleLonger <=>
           c \in IdleConns /\ d \in IdleConns /\ Ahead(pool, c, d)
    /\ \A c, d : <<c, d>> \in IdleLonger' <=>
           c \in IdleConns' /\ d \in IdleConns' /\ Ahead(pool', c, d)
    /\ IdleLonger \subseteq IdleConns \X IdleConns
    /\ IdleLonger' \subseteq IdleConns' \X IdleConns'
  <1>1. \A c : c \in IdleConns <=> IdleIn(pool, c)
    BY DEF IdleConns, IdleIn, Free
  <1>2. \A c : c \in IdleConns' <=> IdleIn(pool', c)
    BY DEF IdleConns, IdleIn, Free
  <1>3. \A c, d : <<c, d>> \in IdleLonger <=>
           c \in IdleConns /\ d \in IdleConns /\ Ahead(pool, c, d)
    BY DEF IdleLonger, Ahead
  <1>4. \A c, d : <<c, d>> \in IdleLonger' <=>
           c \in IdleConns' /\ d \in IdleConns' /\ Ahead(pool', c, d)
    BY DEF IdleLonger, Ahead
  <1>5. /\ IdleLonger \subseteq IdleConns \X IdleConns
        /\ IdleLonger' \subseteq IdleConns' \X IdleConns'
    BY DEF IdleLonger
  <1> QED BY <1>1, <1>2, <1>3, <1>4, <1>5

\* Relations are equal when they relate the same.
LEMMA SameRelation ==
  ASSUME NEW S, NEW R1 \in SUBSET (S \X S), NEW R2 \in SUBSET (S \X S),
         \A c, d \in S : <<c, d>> \in R1 <=> <<c, d>> \in R2
  PROVE  R1 = R2
  OBVIOUS

\* A connection that becomes the last idle one of the list.
LEMMA RestMapped ==
  ASSUME NEW c, c \notin IdleConns,
         \A x : IdleIn(pool', x) <=> IdleIn(pool, x) \/ x = c,
         \A x, y \in IdleConns : Ahead(pool', x, y) <=> Ahead(pool, x, y),
         \A x \in IdleConns : Ahead(pool', x, c),
         \A y \in IdleConns \cup {c} : ~ Ahead(pool', c, y)
  PROVE  Promise!Rest(c)
  <1>1. IdleConns' = IdleConns \cup {c}
    BY IdleIs
  <1>2. IdleLonger' = IdleLonger \cup (IdleConns \X {c})
    <2> DEFINE S == IdleConns \cup {c}
               R2 == IdleLonger \cup (IdleConns \X {c})
    <2>1. IdleLonger' \in SUBSET (S \X S) /\ R2 \in SUBSET (S \X S)
      BY <1>1, IdleIs
    <2>2. ASSUME NEW x \in S, NEW y \in S
          PROVE  <<x, y>> \in IdleLonger' <=> <<x, y>> \in R2
      <3>1. <<x, y>> \in IdleLonger' <=> Ahead(pool', x, y)
        BY <1>1, IdleIs
      <3>2. <<x, y>> \in R2 <=>
               \/ x \in IdleConns /\ y \in IdleConns /\ Ahead(pool, x, y)
               \/ x \in IdleConns /\ y = c
        BY IdleIs
      <3> QED BY <3>1, <3>2
    <2> HIDE DEF S, R2
    <2>3. IdleLonger' = R2
      BY <2>1, <2>2, SameRelation
    <2> QED BY <2>3 DEF R2
  <1> QED BY <1>1, <1>2 DEF Promise!Rest

\* Where a connection is in the list.
LEMMA Located ==
  ASSUME IInv
  PROVE  /\ DOMAIN pool = 1 .. Len(pool) /\ Len(pool) \in Nat
         /\ \A i \in DOMAIN pool : pool[i] \in Slot
         /\ \A i, j \in DOMAIN pool : pool[i].conn = pool[j].conn => i = j
         /\ \A i \in DOMAIN pool : pool[i].conn \in made /\ pool[i].conn \in Conns
         /\ UserOf \in [Threads -> Conns \cup {None}]
  <1>1. /\ DOMAIN pool = 1 .. Len(pool) /\ Len(pool) \in Nat
        /\ \A i \in DOMAIN pool : pool[i] \in Slot
    BY DEF IInv, TypeOK
  <1>2. UserOf \in [Threads -> Conns \cup {None}]
    BY DEF IInv, TypeOK, UserOf
  <1> QED BY <1>1, <1>2 DEF IInv, DistinctSlots, AllMade, Slot

\* A slot that init() or getConn appends.
LEMMA AppendedList ==
  ASSUME IInv, NEW s \in Slot, pool' = Append(pool, s),
         \A i \in DOMAIN pool : pool[i].conn # s.conn
  PROVE  /\ \A x : IdleIn(pool', x) <=>
                IdleIn(pool, x) \/ (x = s.conn /\ ~ s.using)
         /\ \A x, y \in IdleConns : Ahead(pool', x, y) <=> Ahead(pool, x, y)
         /\ \A x \in IdleConns : Ahead(pool', x, s.conn)
         /\ \A y \in IdleConns \cup {s.conn} : ~ Ahead(pool', s.conn, y)
         /\ s.conn \notin IdleConns
  <1> DEFINE n == Len(pool)
  <1>1. /\ pool \in Seq(Slot) /\ DOMAIN pool = 1 .. n /\ n \in Nat
        /\ DOMAIN pool' = 1 .. n + 1
        /\ \A k \in 1 .. n : pool'[k] = pool[k]
        /\ pool'[n + 1] = s
    BY AppendedFacts DEF IInv, TypeOK
  <1> HIDE DEF n
  <1>2. \A x \in IdleConns : \E i \in 1 .. n : pool[i].conn = x
    BY <1>1, IdleIs DEF IdleIn
  <1>3. \A x : IdleIn(pool', x) <=> IdleIn(pool, x) \/ (x = s.conn /\ ~ s.using)
    BY <1>1 DEF IdleIn
  <1>4. s.conn \notin IdleConns
    BY <1>1, <1>2
  <1>5. ASSUME NEW x \in IdleConns, NEW y \in IdleConns
        PROVE  Ahead(pool', x, y) <=> Ahead(pool, x, y)
    BY <1>1, <1>4 DEF Ahead
  <1>6. ASSUME NEW x \in IdleConns PROVE Ahead(pool', x, s.conn)
    BY <1>1, <1>2 DEF Ahead
  <1>7. ASSUME NEW y, Ahead(pool', s.conn, y) PROVE FALSE
    BY <1>1, <1>7 DEF Ahead
  <1> QED BY <1>3, <1>4, <1>5, <1>6, <1>7

LEMMA StockMapped ==
  ASSUME IInv, NEW c \in Conns \ made,
         pool' = Append(pool, [conn |-> c, using |-> FALSE]), UNCHANGED <<pc, conn>>
  PROVE  Promise!Stock(c)
  <1> DEFINE s == [conn |-> c, using |-> FALSE]
  <1>1. s \in Slot /\ s.conn = c /\ ~ s.using
    BY DEF Slot
  <1>2. \A i \in DOMAIN pool : pool[i].conn # s.conn
    BY <1>1, Located
  <1> HIDE DEF s
  <1>3. pool' = Append(pool, s)
    BY DEF s
  <1>4. Promise!Rest(c)
    BY <1>1, <1>2, <1>3, AppendedList, RestMapped
  <1>5. UserOf' = UserOf
    BY DEF UserOf
  <1>6. c \notin IdleConns
    BY <1>1, <1>2, <1>3, AppendedList
  <1>7. \A t \in Threads : UserOf[t] # c
    BY RedisAssumption DEF UserOf, IInv, AllMade
  <1> QED BY <1>4, <1>5, <1>6, <1>7 DEF Promise!Stock, Promise!Known

LEMMA GrowMapped ==
  ASSUME IInv, NEW t \in Threads, AppendSlot(t)
  PROVE  Promise!Grow(t, conn[t]) /\ conn[t] \in Conns
  <1> DEFINE s == [conn |-> conn[t], using |-> TRUE]
  <1>1. conn[t] \in Conns /\ conn[t] # None /\ pc[t] = "created"
    BY DEF IInv, TypeOK, AppendSlot
  <1>2. s \in Slot /\ s.conn = conn[t] /\ s.using
    BY <1>1 DEF Slot
  <1>3. \A i \in DOMAIN pool : pool[i].conn # s.conn
    BY <1>1, <1>2 DEF IInv, CreatedIsOutside
  <1> HIDE DEF s
  <1>4. pool' = Append(pool, s)
    BY DEF s, AppendSlot
  <1>5. IdleConns' = IdleConns /\ conn[t] \notin IdleConns
    BY <1>2, <1>3, <1>4, AppendedList, IdleIs
  <1>6. IdleLonger' = IdleLonger
    <2>1. \A x, y \in IdleConns : <<x, y>> \in IdleLonger' <=> <<x, y>> \in IdleLonger
      BY <1>2, <1>3, <1>4, <1>5, AppendedList, IdleIs
    <2> DEFINE S == IdleConns
    <2>2. IdleLonger' \in SUBSET (S \X S) /\ IdleLonger \in SUBSET (S \X S)
      BY <1>5, IdleIs
    <2> HIDE DEF S
    <2>3. \A x, y \in S : <<x, y>> \in IdleLonger' <=> <<x, y>> \in IdleLonger
      BY <2>1 DEF S
    <2> QED BY <2>2, <2>3, SameRelation
  <1>7. UserOf' = [UserOf EXCEPT ![t] = conn[t]] /\ UserOf[t] = None
    BY <1>1 DEF UserOf, AppendSlot, IInv, TypeOK
  <1>8. \A u \in Threads : UserOf[u] # conn[t]
    BY <1>1 DEF UserOf, IInv, Exclusive
  <1> QED BY <1>1, <1>5, <1>6, <1>7, <1>8 DEF Promise!Grow, Promise!Known

LEMMA TakeMapped ==
  ASSUME IInv, NEW t \in Threads, pc[t] = "idle", NEW i \in DOMAIN pool,
         FirstFree(i), TakeFree(t, i)
  PROVE  Promise!Take(t, pool[i].conn) /\ pool[i].conn \in Conns
  <1> DEFINE c == pool[i].conn
  <1>1. c \in Conns /\ c # None
    BY Located, RedisAssumption
  <1>2. /\ DOMAIN pool' = DOMAIN pool
        /\ \A k \in DOMAIN pool : pool'[k].conn = pool[k].conn
        /\ \A k \in DOMAIN pool \ {i} : pool'[k].using = pool[k].using
        /\ pool'[i].using
    BY Located DEF TakeFree, Slot
  <1>3. ~ pool[i].using /\ \A j \in DOMAIN pool : ~ pool[j].using => i <= j
    BY DEF FirstFree, Free
  <1>4. \A k \in DOMAIN pool : pool[k].conn = c => k = i
    BY Located
  <1> HIDE DEF c
  <1>5. c \in IdleConns
    BY <1>3, IdleIs DEF IdleIn, c
  <1>6. ASSUME NEW d \in IdleConns PROVE <<d, c>> \notin IdleLonger
    <2>1. PICK j \in DOMAIN pool : ~ pool[j].using /\ pool[j].conn = d
      BY IdleIs DEF IdleIn
    <2>2. ~ Ahead(pool, d, c)
      BY <1>3, <1>4, <2>1, Located DEF Ahead
    <2> QED BY <2>2, IdleIs
  <1>7. IdleConns' = IdleConns \ {c}
    <2>1. \A x : IdleIn(pool', x) <=> IdleIn(pool, x) /\ x # c
      BY <1>2, <1>4 DEF IdleIn, c
    <2> QED BY <2>1, IdleIs
  <1>8. IdleLonger' = IdleLonger \cap (IdleConns' \X IdleConns')
    <2> DEFINE S == IdleConns'
               R2 == IdleLonger \cap (S \X S)
    <2>1. \A x, y : Ahead(pool', x, y) <=> Ahead(pool, x, y)
      BY <1>2 DEF Ahead
    <2>2. \A x, y \in S : <<x, y>> \in IdleLonger' <=> <<x, y>> \in R2
      BY <1>7, <2>1, IdleIs
    <2>3. IdleLonger' \in SUBSET (S \X S) /\ R2 \in SUBSET (S \X S)
      BY IdleIs
    <2> HIDE DEF S, R2
    <2>4. IdleLonger' = R2
      BY <2>2, <2>3, SameRelation
    <2> QED BY <2>4 DEF R2, S
  <1>9. UserOf' = [UserOf EXCEPT ![t] = c] /\ UserOf[t] = None
    BY DEF UserOf, TakeFree, IInv, TypeOK, c
  <1>10. Promise!Take(t, c)
    BY <1>5, <1>6, <1>7, <1>8, <1>9 DEF Promise!Take
  <1> QED BY <1>1, <1>10 DEF c

\* The others keep their order when a slot goes to the end.
LEMMA OldPlaceOrder ==
  ASSUME Len(pool) \in Nat, DOMAIN pool = 1 .. Len(pool), NEW i \in DOMAIN pool
  PROVE  /\ \A k \in DOMAIN pool : OldPlace(i, k) = i <=> k = Len(pool)
         /\ \A k, l \in DOMAIN pool : OldPlace(i, k) # i /\ OldPlace(i, l) # i =>
                (k < l <=> OldPlace(i, k) < OldPlace(i, l))
  BY DEF OldPlace

LEMMA GiveMapped ==
  ASSUME IInv, NEW t \in Threads, RleaseConn(t)
  PROVE  Promise!Give(t)
  <1> DEFINE i == SlotOf(conn[t])
             c == conn[t]
  <1>1. pc[t] = "holding" /\ c # None /\ c \in Conns
    BY DEF RleaseConn, IInv, TypeOK
  <1>2. i \in DOMAIN pool /\ pool[i].conn = c
    BY <1>1 DEF IInv, HeldIsInUse, SlotOf
  <1>3. \A k \in DOMAIN pool : pool[k].conn = c => k = i
    BY <1>2, Located
  <1>4. pool[i].using
    BY <1>1, <1>3 DEF IInv, HeldIsInUse
  <1>5. pool' = Released(i)
    BY DEF RleaseConn
  <1> HIDE DEF i
  <1>6. /\ DOMAIN pool' = DOMAIN pool
        /\ \A k \in DOMAIN pool : OldPlace(i, k) \in DOMAIN pool
        /\ \A j \in DOMAIN pool : \E k \in DOMAIN pool : OldPlace(i, k) = j
        /\ \A k \in DOMAIN pool : pool'[k].conn = pool[OldPlace(i, k)].conn
        /\ \A k \in DOMAIN pool : OldPlace(i, k) # i =>
               pool'[k].using = pool[OldPlace(i, k)].using
        /\ \A k \in DOMAIN pool : OldPlace(i, k) = i => ~ pool'[k].using
    <2>1. pool \in Seq(Slot)
      BY DEF IInv, TypeOK
    <2>2. /\ DOMAIN Released(i) = DOMAIN pool
          /\ \A k \in DOMAIN pool :
                /\ OldPlace(i, k) \in DOMAIN pool
                /\ OldPlace(i, k) # i => Released(i)[k] = pool[OldPlace(i, k)]
                /\ OldPlace(i, k) = i =>
                      /\ Released(i)[k].conn = pool[i].conn
                      /\ Released(i)[k].using = FALSE
          /\ \A j \in DOMAIN pool : \E k \in DOMAIN pool : OldPlace(i, k) = j
      BY <1>2, <2>1, ReleasedFacts
    <2> QED BY <1>5, <2>2
  <1>7. /\ DOMAIN pool = 1 .. Len(pool) /\ Len(pool) \in Nat
        /\ \A k \in DOMAIN pool : OldPlace(i, k) = i <=> k = Len(pool)
        /\ \A k, l \in DOMAIN pool : OldPlace(i, k) # i /\ OldPlace(i, l) # i =>
               (k < l <=> OldPlace(i, k) < OldPlace(i, l))
    BY <1>2, Located, OldPlaceOrder
  <1>8. \A x : IdleIn(pool', x) <=> IdleIn(pool, x) \/ x = c
    <2>1. ASSUME NEW x, IdleIn(pool', x) PROVE IdleIn(pool, x) \/ x = c
      BY <1>2, <1>6, <2>1 DEF IdleIn
    <2>2. ASSUME NEW x, IdleIn(pool, x) PROVE IdleIn(pool', x)
      BY <1>4, <1>6, <2>2 DEF IdleIn
    <2>3. IdleIn(pool', c)
      BY <1>2, <1>6 DEF IdleIn
    <2> QED BY <2>1, <2>2, <2>3
  <1>9. ASSUME NEW x \in IdleConns
        PROVE  x # c /\ \E k \in DOMAIN pool : pool[k].conn = x /\ k # i
    BY <1>2, <1>3, <1>4, IdleIs DEF IdleIn
  <1>10. ASSUME NEW x \in IdleConns, NEW y \in IdleConns
         PROVE  Ahead(pool', x, y) <=> Ahead(pool, x, y)
    <2>1. ASSUME Ahead(pool', x, y) PROVE Ahead(pool, x, y)
      <3>1. PICK k, l \in DOMAIN pool : k < l /\ pool'[k].conn = x /\ pool'[l].conn = y
        BY <1>6, <2>1 DEF Ahead
      <3>2. OldPlace(i, k) # i /\ OldPlace(i, l) # i
        BY <1>2, <1>6, <1>9, <3>1
      <3>3. OldPlace(i, k) < OldPlace(i, l)
        BY <1>7, <3>1, <3>2
      <3> QED BY <1>6, <3>1, <3>3 DEF Ahead
    <2>2. ASSUME Ahead(pool, x, y) PROVE Ahead(pool', x, y)
      <3>1. PICK m, n \in DOMAIN pool : m < n /\ pool[m].conn = x /\ pool[n].conn = y
        BY <2>2 DEF Ahead
      <3>2. PICK k, l \in DOMAIN pool : OldPlace(i, k) = m /\ OldPlace(i, l) = n
        BY <1>6
      <3>3. m # i /\ n # i
        BY <1>2, <1>9, <3>1
      <3>4. k < l
        BY <1>7, <3>1, <3>2, <3>3
      <3> QED BY <1>6, <3>1, <3>2, <3>4 DEF Ahead
    <2> QED BY <2>1, <2>2
  <1>11. ASSUME NEW k \in DOMAIN pool PROVE pool'[k].conn = c <=> k = Len(pool)
    BY <1>2, <1>3, <1>6, <1>7
  <1>12. ASSUME NEW x \in IdleConns PROVE Ahead(pool', x, c)
    <2>1. PICK j \in DOMAIN pool : pool[j].conn = x /\ j # i
      BY <1>9
    <2>2. PICK k \in DOMAIN pool : OldPlace(i, k) = j
      BY <1>6
    <2>3. /\ k < Len(pool) /\ Len(pool) \in DOMAIN pool /\ pool'[k].conn = x
          /\ pool'[Len(pool)].conn = c
      <3>1. k < Len(pool) /\ Len(pool) \in DOMAIN pool
        BY <1>7, <2>1, <2>2
      <3>2. pool'[k].conn = x
        BY <1>6, <2>1, <2>2
      <3> QED BY <1>11, <3>1, <3>2
    <2> QED BY <1>6, <2>3 DEF Ahead
  <1>13. ASSUME NEW y, Ahead(pool', c, y) PROVE FALSE
    BY <1>6, <1>7, <1>11, <1>13 DEF Ahead
  <1>14. c \notin IdleConns
    BY <1>9
  <1> HIDE DEF c
  <1>15. Promise!Rest(c)
    BY <1>8, <1>10, <1>12, <1>13, <1>14, RestMapped
  <1>16. UserOf[t] = c /\ UserOf' = [UserOf EXCEPT ![t] = None]
    BY <1>1 DEF UserOf, RleaseConn, IInv, TypeOK, c
  <1> QED BY <1>1, <1>15, <1>16 DEF Promise!Give

\* Every step of the pool is one of ConnPool or leaves it where it was.
LEMMA NextMapped ==
  ASSUME IInv, [Next]_vars
  PROVE  \/ Promise!Next
         \/ UNCHANGED <<IdleConns, IdleLonger, UserOf>>
  <1>1. ASSUME pool' = pool, UserOf' = UserOf
        PROVE  UNCHANGED <<IdleConns, IdleLonger, UserOf>>
    BY <1>1 DEF IdleConns, IdleLonger, Free
  <1>2. CASE InitPool
    <2>1. CASE \E c \in Conns \ made : pool' = Append(pool, [conn |-> c, using |-> FALSE])
      BY <1>2, <2>1, StockMapped DEF InitPool, Promise!Next
    <2>2. CASE pool' = pool
      BY <1>1, <1>2, <2>2 DEF InitPool, UserOf
    <2> QED BY <1>2, <2>1, <2>2 DEF InitPool
  <1>3. ASSUME NEW t \in Threads, GetConn(t)
        PROVE  Promise!Next \/ UNCHANGED <<IdleConns, IdleLonger, UserOf>>
    <2>1. pc[t] = "idle"
      BY <1>3 DEF GetConn
    <2>2. CASE \E i \in DOMAIN pool : FirstFree(i) /\ TakeFree(t, i)
      BY <2>1, <2>2, TakeMapped DEF Promise!Next
    <2>3. CASE pc' = [pc EXCEPT ![t] = "creating"] /\ UNCHANGED <<pool, conn>>
      <3>1. UserOf' = UserOf
        BY <2>1, <2>3 DEF UserOf, IInv, TypeOK
      <3> QED BY <1>1, <2>3, <3>1
    <2> QED BY <1>3, <2>2, <2>3 DEF GetConn
  <1>4. ASSUME NEW t \in Threads, Create(t)
        PROVE  UNCHANGED <<IdleConns, IdleLonger, UserOf>>
    <2>1. UserOf' = UserOf
      BY <1>4 DEF UserOf, Create, IInv, TypeOK
    <2> QED BY <1>1, <1>4, <2>1 DEF Create
  <1>5. ASSUME NEW t \in Threads, AppendSlot(t) \/ RleaseConn(t)
        PROVE  Promise!Next
    BY <1>5, GrowMapped, GiveMapped DEF Promise!Next
  <1>6. CASE UNCHANGED vars
    BY <1>1, <1>6 DEF vars, UserOf
  <1> QED BY <1>2, <1>3, <1>4, <1>5, <1>6 DEF Next

\* getConn, between its two locks, and rleaseConn do what ConnPool says: they
\* hand out the connection idle longest, and a connection is idle or some one
\* thread's.
THEOREM PromiseKept == Spec => KeepsPromise
  <1>1. Init => Promise!Init
    BY DEF Init, Promise!Init, IdleConns, IdleLonger, UserOf
  <1>2. IInv /\ [Next]_vars => [Promise!Next]_<<IdleConns, IdleLonger, UserOf>>
    BY NextMapped
  <1> QED BY <1>1, <1>2, Inductive, PTL DEF Spec, KeepsPromise, Promise!Spec, Promise!vars
============================================================================
