----------------------------- MODULE RedisPool -----------------------------
(***************************************************************************)
(* rediscpp::ConnectionPool (src/rediscpp), used by many threads through   *)
(* ConnectionGuard.                                                        *)
(*                                                                         *)
(* getConn looks for an idle connection under the mutex.  If there is none *)
(* and the pool may grow it leaves the mutex, connects, and takes it again *)
(* to append the new slot: the size it tested may be out of date by then.  *)
(***************************************************************************)
EXTENDS Integers, Sequences, FiniteSets

CONSTANTS
    Threads,
    Conns,     \* bound: the connections that redisConnect ever makes
    None,      \* the null ConnectionPtr
    PoolSize,  \* m_pool_size
    MaxSize    \* m_pool_max_size

ASSUME RedisAssumption ==
    /\ None \notin Conns
    /\ IsFiniteSet(Threads)
    /\ PoolSize \in Nat
    /\ MaxSize \in Nat

VARIABLES
    pool,    \* m_pool: the slots
    stage,   \* of init(): "init", "ready", "failed"
    pc,      \* where each thread is: "idle", "creating", "created", "holding"
    conn,    \* the connection each thread has, or None
    made     \* the connections made so far

vars == <<pool, stage, pc, conn, made>>

Slot == [conn : Conns, using : BOOLEAN]

----------------------------------------------------------------------------
Free(i) == ~ pool[i].using

\* findEmptySlot: the first one of the list.
\* Mutant: the last one.
FirstFree_Last(i) == Free(i) /\ \A j \in DOMAIN pool : Free(j) => j <= i
FirstFree(i) == Free(i) /\ \A j \in DOMAIN pool : Free(j) => i <= j

SlotOf(c) == CHOOSE i \in DOMAIN pool : pool[i].conn = c

\* The slot goes to the end of the list, free.
\* Mutant: it stays where it is.
Released_InPlace(i) == [pool EXCEPT ![i].using = FALSE]
Released(i) ==
    [k \in DOMAIN pool |->
        IF k < i THEN pool[k]
        ELSE IF k < Len(pool) THEN pool[k + 1]
        ELSE [conn |-> pool[i].conn, using |-> FALSE]]

----------------------------------------------------------------------------
Init ==
    /\ pool = << >>
    /\ stage = "init"
    /\ pc = [t \in Threads |-> "idle"]
    /\ conn = [t \in Threads |-> None]
    /\ made = {}

\* init(): connect PoolSize times, and give up at the first failure.
InitPool ==
    /\ stage = "init"
    /\ \/ /\ Len(pool) < PoolSize
          /\ \E c \in Conns \ made :
                /\ pool' = Append(pool, [conn |-> c, using |-> FALSE])
                /\ made' = made \cup {c}
          /\ UNCHANGED stage
       \/ /\ Len(pool) < PoolSize
          /\ stage' = "failed"
          /\ UNCHANGED <<pool, made>>
       \/ /\ Len(pool) = PoolSize
          /\ stage' = "ready"
          /\ UNCHANGED <<pool, made>>
    /\ UNCHANGED <<pc, conn>>

\* The part of getConn under the first lock.
\* Mutant: the slot is not marked.
TakeFree_Unmarked(t, i) ==
    /\ conn' = [conn EXCEPT ![t] = pool[i].conn]
    /\ pc' = [pc EXCEPT ![t] = "holding"]
    /\ UNCHANGED pool
TakeFree(t, i) ==
    /\ conn' = [conn EXCEPT ![t] = pool[i].conn]
    /\ pc' = [pc EXCEPT ![t] = "holding"]
    /\ pool' = [pool EXCEPT ![i].using = TRUE]

MayGrow == Len(pool) < MaxSize

\* Mutant: a new connection is made although one is idle.
MustGrow_Always == MayGrow
MustGrow == MayGrow /\ \A i \in DOMAIN pool : ~ Free(i)

GetConn(t) ==
    /\ stage = "ready"
    /\ pc[t] = "idle"
    /\ \/ \E i \in DOMAIN pool : FirstFree(i) /\ TakeFree(t, i)
       \/ /\ MustGrow
          /\ pc' = [pc EXCEPT ![t] = "creating"]
          /\ UNCHANGED <<pool, conn>>
    /\ UNCHANGED <<stage, made>>

\* create(): redisConnect and keepAlive, either may fail.
Create(t) ==
    /\ pc[t] = "creating"
    /\ \/ \E c \in Conns \ made :
            /\ made' = made \cup {c}
            /\ conn' = [conn EXCEPT ![t] = c]
            /\ pc' = [pc EXCEPT ![t] = "created"]
       \/ /\ pc' = [pc EXCEPT ![t] = "idle"]
          /\ UNCHANGED <<made, conn>>
    /\ UNCHANGED <<pool, stage>>

\* The part of getConn under the second lock.
AppendSlot(t) ==
    /\ pc[t] = "created"
    /\ pool' = Append(pool, [conn |-> conn[t], using |-> TRUE])
    /\ pc' = [pc EXCEPT ![t] = "holding"]
    /\ UNCHANGED <<stage, conn, made>>

\* ~ConnectionGuard
RleaseConn(t) ==
    /\ pc[t] = "holding"
    /\ pool' = Released(SlotOf(conn[t]))
    /\ conn' = [conn EXCEPT ![t] = None]
    /\ pc' = [pc EXCEPT ![t] = "idle"]
    /\ UNCHANGED <<stage, made>>

Next ==
    \/ InitPool
    \/ \E t \in Threads : GetConn(t) \/ Create(t) \/ AppendSlot(t) \/ RleaseConn(t)

Spec == Init /\ [][Next]_vars

\* Some thread always asks again, and none keeps its guard for ever.
FairSpec ==
    /\ Spec
    /\ WF_vars(\E t \in Threads : GetConn(t))
    /\ \A t \in Threads : WF_vars(Create(t) \/ AppendSlot(t)) /\ WF_vars(RleaseConn(t))

----------------------------------------------------------------------------
TypeOK ==
    /\ pool \in Seq(Slot)
    /\ stage \in {"init", "ready", "failed"}
    /\ pc \in [Threads -> {"idle", "creating", "created", "holding"}]
    /\ conn \in [Threads -> Conns \cup {None}]
    /\ \A t \in Threads : conn[t] = None <=> pc[t] \in {"idle", "creating"}
    /\ made \in SUBSET Conns

\* No two threads have the same connection, whether it came from a slot or
\* was just made.
Exclusive ==
    \A t, u \in Threads : t # u /\ conn[t] # None => conn[t] # conn[u]

\* The assertions of rleaseConn hold whenever a guard is destroyed: its
\* connection is in the list, exactly once, and marked as in use.
ReleaseAsserts ==
    \A t \in Threads : pc[t] = "holding" =>
        \E i \in DOMAIN pool :
            /\ pool[i].conn = conn[t]
            /\ pool[i].using
            /\ \A j \in DOMAIN pool : pool[j].conn = conn[t] => j = i

\* A slot in use is some thread's: none is lost to the pool for good.
NoSlotLost ==
    \A i \in DOMAIN pool : pool[i].using =>
        \E t \in Threads : pc[t] = "holding" /\ conn[t] = pool[i].conn

\* The size is tested under another lock than the one under which the pool
\* grows, so it can pass m_pool_max_size; but a connection is made only when
\* every other one is some thread's, so with those being made there are never
\* more than threads.
Growing == {t \in Threads : pc[t] \in {"creating", "created"}}
SizeBounded ==
    \/ Len(pool) <= PoolSize /\ Growing = {}
    \/ Len(pool) + Cardinality(Growing) <= Cardinality(Threads)

\* getConn hands out the connection that has been idle longest, and the slots
\* and threads never disagree on whose a connection is: ConnPool's promise.
IdleConns == {pool[i].conn : i \in {k \in DOMAIN pool : Free(k)}}
IdleLonger ==
    {p \in IdleConns \X IdleConns :
        \E i, j \in DOMAIN pool : i < j /\ pool[i].conn = p[1] /\ pool[j].conn = p[2]}
UserOf == [t \in Threads |-> IF pc[t] = "holding" THEN conn[t] ELSE None]

Promise == INSTANCE ConnPool WITH
    idle <- IdleConns, longer <- IdleLonger, user <- UserOf
KeepsPromise == Promise!Spec

\* Every connection goes round: as the released one goes to the end of the
\* list, none stays idle for ever while threads keep asking.
NoConnStarves ==
    \A c \in Conns :
        (stage = "ready" /\ \E i \in DOMAIN pool : pool[i].conn = c)
            ~> \E t \in Threads : conn[t] = c
============================================================================
