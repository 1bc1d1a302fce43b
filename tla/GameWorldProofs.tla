-------------------------- MODULE GameWorldProofs --------------------------
(* Theorems about GameWorld, for any connections, messages and tasks, over  *)
(* whatever network ConnEvents describes.                                   *)
EXTENDS GameWorld, TLAPS

----------------------------------------------------------------------------
(* Sequences in increasing order *)

Elems(s) == {s[i] : i \in DOMAIN s}

LEMMA AppendIs ==
  ASSUME NEW S, NEW a \in Seq(S), NEW x \in S
  PROVE  /\ Append(a, x) \in Seq(S)
         /\ Elems(Append(a, x)) = Elems(a) \cup {x}
         /\ DOMAIN Append(a, x) = 1 .. Len(a) + 1 /\ DOMAIN a = 1 .. Len(a) /\ Len(a) \in Nat
         /\ Append(a, x)[Len(a) + 1] = x
         /\ \A i \in 1 .. Len(a) : Append(a, x)[i] = a[i]
  <1> DEFINE b == Append(a, x)
             n == Len(a)
  <1>1. /\ b \in Seq(S) /\ DOMAIN b = 1 .. n + 1 /\ DOMAIN a = 1 .. n /\ n \in Nat
        /\ b[n + 1] = x /\ \A i \in 1 .. n : b[i] = a[i]
    OBVIOUS
  <1> HIDE DEF b, n
  <1>2. \A i \in 1 .. n + 1 : i = n + 1 \/ i \in 1 .. n
    BY <1>1
  <1>3. n + 1 \in 1 .. n + 1 /\ \A i \in 1 .. n : i \in 1 .. n + 1
    BY <1>1
  <1>4. Elems(b) \subseteq Elems(a) \cup {x}
    BY <1>1, <1>2 DEF Elems
  <1>5. Elems(a) \cup {x} \subseteq Elems(b)
    BY <1>1, <1>3 DEF Elems
  <1> QED BY <1>1, <1>4, <1>5 DEF b, n

LEMMA TailIs ==
  ASSUME NEW S, NEW a \in Seq(S), a # << >>
  PROVE  /\ Head(a) \in S /\ Tail(a) \in Seq(S) /\ Head(a) = a[1]
         /\ Elems(a) = {Head(a)} \cup Elems(Tail(a))
         /\ DOMAIN a = 1 .. Len(a) /\ DOMAIN Tail(a) = 1 .. Len(a) - 1
         /\ Len(a) \in Nat \ {0}
         /\ \A i \in 1 .. Len(a) - 1 : Tail(a)[i] = a[i + 1]
  <1> DEFINE b == Tail(a)
             n == Len(a)
  <1>1. /\ Head(a) \in S /\ b \in Seq(S) /\ Head(a) = a[1]
        /\ DOMAIN a = 1 .. n /\ DOMAIN b = 1 .. n - 1 /\ n \in Nat \ {0}
        /\ \A i \in 1 .. n - 1 : b[i] = a[i + 1]
    OBVIOUS
  <1> HIDE DEF b, n
  <1>2. \A i \in 1 .. n : i = 1 \/ (i - 1 \in 1 .. n - 1 /\ (i - 1) + 1 = i)
    BY <1>1
  <1>3. 1 \in 1 .. n /\ \A i \in 1 .. n - 1 : i + 1 \in 1 .. n
    BY <1>1
  <1>4. ASSUME NEW y \in Elems(a) PROVE y \in {Head(a)} \cup Elems(b)
    <2>1. PICK i \in 1 .. n : y = a[i]
      BY <1>1, <1>4 DEF Elems
    <2>2. CASE i = 1
      BY <1>1, <2>1, <2>2
    <2>3. CASE i # 1
      <3>1. i - 1 \in 1 .. n - 1 /\ y = b[i - 1]
        BY <1>1, <1>2, <2>1, <2>3
      <3> QED BY <1>1, <3>1 DEF Elems
    <2> QED BY <2>2, <2>3
  <1>5. {Head(a)} \cup Elems(b) \subseteq Elems(a)
    BY <1>1, <1>3 DEF Elems
  <1> QED BY <1>1, <1>4, <1>5 DEF b, n

LEMMA IncreasingAppend ==
  ASSUME NEW a \in Seq(Nat), NEW x \in Nat, Increasing(a), \A y \in Elems(a) : y < x
  PROVE  Increasing(Append(a, x))
  <1> DEFINE b == Append(a, x)
             n == Len(a)
  <1>1. /\ DOMAIN b = 1 .. n + 1 /\ DOMAIN a = 1 .. n /\ n \in Nat
        /\ b[n + 1] = x /\ \A i \in 1 .. n : b[i] = a[i]
    BY AppendIs
  <1> HIDE DEF b, n
  <1> SUFFICES ASSUME NEW i \in 1 .. n + 1, NEW j \in 1 .. n + 1, i < j
               PROVE  b[i] < b[j]
    BY <1>1 DEF Increasing, b
  <1>2. i \in 1 .. n
    BY <1>1
  <1>3. CASE j = n + 1
    BY <1>1, <1>2, <1>3 DEF Elems
  <1>4. CASE j # n + 1
    <2>1. j \in 1 .. n
      BY <1>1, <1>4
    <2> QED BY <1>1, <1>2, <2>1 DEF Increasing
  <1> QED BY <1>3, <1>4

LEMMA IncreasingPrefix ==
  ASSUME NEW a \in Seq(Nat), NEW n \in 0 .. Len(a), Increasing(a)
  PROVE  /\ SubSeq(a, 1, n) \in Seq(Nat) /\ Increasing(SubSeq(a, 1, n))
         /\ Elems(SubSeq(a, 1, n)) \subseteq Elems(a)
         /\ n = 0 => SubSeq(a, 1, n) = << >>
  <1> DEFINE b == SubSeq(a, 1, n)
  <1>1. /\ b \in Seq(Nat) /\ DOMAIN b = 1 .. n /\ DOMAIN a = 1 .. Len(a)
        /\ \A i \in 1 .. n : b[i] = a[i] /\ i \in 1 .. Len(a)
        /\ n = 0 => b = << >>
    OBVIOUS
  <1> HIDE DEF b
  <1> QED BY <1>1 DEF Increasing, Elems, b

LEMMA IncreasingConcat ==
  ASSUME NEW a \in Seq(Nat), NEW b \in Seq(Nat), Increasing(a), Increasing(b),
         \A x \in Elems(a), y \in Elems(b) : x < y
  PROVE  /\ a \o b \in Seq(Nat) /\ Increasing(a \o b)
         /\ Elems(a \o b) \subseteq Elems(a) \cup Elems(b)
  <1> DEFINE c == a \o b
             m == Len(a)
             n == Len(b)
  <1>1. /\ c \in Seq(Nat) /\ DOMAIN c = 1 .. m + n /\ m \in Nat /\ n \in Nat
        /\ DOMAIN a = 1 .. m /\ DOMAIN b = 1 .. n
    OBVIOUS
  <1>2. \A i \in 1 .. m + n : c[i] = IF i <= m THEN a[i] ELSE b[i - m]
    OBVIOUS
  <1> HIDE DEF c, m, n
  <1>3. \A i \in 1 .. m + n : (i <= m => i \in 1 .. m) /\ (~ (i <= m) => i - m \in 1 .. n)
    BY <1>1
  <1>4. Elems(c) \subseteq Elems(a) \cup Elems(b)
    BY <1>1, <1>2, <1>3 DEF Elems
  <1>5. ASSUME NEW i \in 1 .. m + n, NEW j \in 1 .. m + n, i < j
        PROVE  c[i] < c[j]
    <2>1. CASE j <= m
      <3>1. i <= m /\ i \in 1 .. m /\ j \in 1 .. m
        BY <1>1, <1>5, <2>1
      <3> QED BY <1>1, <1>2, <1>5, <2>1, <3>1 DEF Increasing
    <2>2. CASE i <= m /\ ~ (j <= m)
      <3>1. a[i] \in Elems(a) /\ b[j - m] \in Elems(b)
        BY <1>1, <1>3, <2>2 DEF Elems
      <3> QED BY <1>2, <2>2, <3>1
    <2>3. CASE ~ (i <= m)
      <3>1. ~ (j <= m) /\ i - m \in 1 .. n /\ j - m \in 1 .. n /\ i - m < j - m
        BY <1>1, <1>3, <1>5, <2>3
      <3>2. \A k, l \in 1 .. n : k < l => b[k] < b[l]
        BY <1>1 DEF Increasing
      <3> QED BY <1>2, <2>3, <3>1, <3>2
    <2> QED BY <2>1, <2>2, <2>3
  <1>6. Increasing(c)
    BY <1>1, <1>5 DEF Increasing
  <1> QED BY <1>1, <1>4, <1>6 DEF c

----------------------------------------------------------------------------
(* Queues of messages *)

\* The messages of each connection are in the order in which it sent them.
InSendOrder(q) ==
    \A i, j \in DOMAIN q : i < j /\ q[i][1] = q[j][1] => q[i][2] < q[j][2]

LEMMA SendOrderAppend ==
  ASSUME NEW q \in Seq(Message), NEW m \in Message, InSendOrder(q),
         \A k \in Elems(q) : k[1] = m[1] => k[2] < m[2]
  PROVE  InSendOrder(Append(q, m))
  <1> DEFINE b == Append(q, m)
             n == Len(q)
  <1>1. /\ DOMAIN b = 1 .. n + 1 /\ DOMAIN q = 1 .. n /\ n \in Nat
        /\ b[n + 1] = m /\ \A i \in 1 .. n : b[i] = q[i]
    BY AppendIs
  <1> HIDE DEF b, n
  <1> SUFFICES ASSUME NEW i \in 1 .. n + 1, NEW j \in 1 .. n + 1, i < j, b[i][1] = b[j][1]
               PROVE  b[i][2] < b[j][2]
    BY <1>1 DEF InSendOrder, b
  <1>2. i \in 1 .. n
    BY <1>1
  <1>3. CASE j = n + 1
    BY <1>1, <1>2, <1>3 DEF Elems
  <1>4. CASE j # n + 1
    <2>1. j \in 1 .. n
      BY <1>1, <1>4
    <2> QED BY <1>1, <1>2, <2>1 DEF InSendOrder
  <1> QED BY <1>3, <1>4

LEMMA SendOrderTail ==
  ASSUME NEW q \in Seq(Message), q # << >>, InSendOrder(q)
  PROVE  /\ InSendOrder(Tail(q))
         /\ \A m \in Elems(Tail(q)) : m[1] = Head(q)[1] => Head(q)[2] < m[2]
  <1> DEFINE b == Tail(q)
             n == Len(q)
  <1>1. /\ n \in Nat \ {0} /\ DOMAIN q = 1 .. n /\ DOMAIN b = 1 .. n - 1
        /\ Head(q) = q[1] /\ \A i \in 1 .. n - 1 : b[i] = q[i + 1]
    BY TailIs
  <1> HIDE DEF b, n
  <1>2. ASSUME NEW i \in 1 .. n - 1, NEW j \in 1 .. n - 1, i < j, b[i][1] = b[j][1]
        PROVE  b[i][2] < b[j][2]
    <2>1. i + 1 \in 1 .. n /\ j + 1 \in 1 .. n /\ i + 1 < j + 1
      BY <1>1, <1>2
    <2>2. \A k, l \in 1 .. n : k < l /\ q[k][1] = q[l][1] => q[k][2] < q[l][2]
      BY <1>1 DEF InSendOrder
    <2>3. b[i] = q[i + 1] /\ b[j] = q[j + 1]
      BY <1>1
    <2> QED BY <1>2, <2>1, <2>2, <2>3
  <1>3. InSendOrder(b)
    BY <1>1, <1>2 DEF InSendOrder
  <1>4. ASSUME NEW m \in Elems(b), m[1] = Head(q)[1] PROVE Head(q)[2] < m[2]
    <2>1. PICK i \in 1 .. n - 1 : m = b[i]
      BY <1>1 DEF Elems
    <2>2. i + 1 \in 1 .. n /\ 1 \in 1 .. n /\ 1 < i + 1 /\ m = q[i + 1]
      BY <1>1, <2>1
    <2> QED BY <1>1, <1>4, <2>2 DEF InSendOrder
  <1> QED BY <1>3, <1>4 DEF b

----------------------------------------------------------------------------
(* The invariant *)

\* A connection whose session is still to be made has had none.
MadeOnce ==
    \A c \in Conns :
        /\ phase[c] = "none" => session[c] = "none" /\ c \notin newConn
        /\ c \in newConn => session[c] = "none"
        /\ stage = "sessions" /\ c \in todo => Registered(c)

\* From the served messages over the session's queue and dispatchMsg's to
\* m_world_msgs, the messages of a connection are in the order sent.
ChainInOrder ==
    /\ InSendOrder(worldMsgs) /\ InSendOrder(batch)
    /\ \A m \in Elems(batch), k \in Elems(worldMsgs) : m[1] = k[1] => m[2] < k[2]
    /\ \A m \in Elems(batch) \cup Elems(worldMsgs) : m[2] <= sent[m[1]]
    /\ \A c \in Conns :
        /\ Increasing(served[c]) /\ Increasing(inbox[c])
        /\ \A x \in Elems(served[c]), y \in Elems(inbox[c]) : x < y
        /\ \A x \in Elems(served[c]) \cup Elems(inbox[c]) :
              /\ x <= sent[c]
              /\ \A m \in Elems(batch) \cup Elems(worldMsgs) : m[1] = c => x < m[2]

IInv == TypeOK /\ MadeOnce /\ ChainInOrder

LEMMA InitIInv == Init => IInv
  <1> SUFFICES ASSUME Init PROVE IInv
    OBVIOUS
  <1>1. Elems(<< >>) = {} /\ InSendOrder(<< >>) /\ Increasing(<< >>)
    BY DEF Elems, InSendOrder, Increasing
  <1>2. TypeOK
    <2>1. << >> \in Seq(Nat) /\ << >> \in Seq(Message) /\ << >> \in Seq(Tasks)
      OBVIOUS
    <2>2. inbox \in [Conns -> Seq(Nat)] /\ served \in [Conns -> Seq(Nat)]
      BY <2>1 DEF Init
    <2>3. /\ worldMsgs \in Seq(Message) /\ batch \in Seq(Message)
          /\ tasks \in Seq(Tasks) /\ allTask \in Seq(Tasks)
      BY <2>1 DEF Init
    <2> QED BY <2>2, <2>3 DEF Init, Net!Init, TypeOK
  <1>3. MadeOnce
    BY DEF Init, Net!Init, MadeOnce
  <1>4. ChainInOrder
    BY <1>1 DEF Init, ChainInOrder
  <1> QED BY <1>2, <1>3, <1>4 DEF IInv

LEMMA ChainKept ==
  ASSUME ChainInOrder, UNCHANGED <<worldMsgs, batch, sent, served, inbox>>
  PROVE  ChainInOrder'
  BY DEF ChainInOrder

\* What the elements of the chain are.
LEMMA ChainTyped ==
  ASSUME TypeOK
  PROVE  /\ \A m \in Elems(batch) \cup Elems(worldMsgs) :
              m \in Message /\ m[1] \in Conns /\ m[2] \in Nat /\ sent[m[1]] \in Nat
         /\ \A c \in Conns : \A x \in Elems(served[c]) \cup Elems(inbox[c]) : x \in Nat
  <1>1. \A m \in Elems(batch) \cup Elems(worldMsgs) : m \in Message
    BY DEF Elems, TypeOK
  <1>2. \A c \in Conns : \A x \in Elems(served[c]) \cup Elems(inbox[c]) : x \in Nat
    BY DEF Elems, TypeOK
  <1> QED BY <1>1, <1>2 DEF Message, TypeOK

LEMMA ReceivedStep ==
  ASSUME IInv, NEW c \in Conns, NetworkReceviedMsg(c)
  PROVE  IInv'
  <1> DEFINE n == sent[c] + 1
             m == <<c, n>>
  <1>1. /\ sent' = [sent EXCEPT ![c] = n] /\ worldMsgs' = Append(worldMsgs, m)
        /\ UNCHANGED <<told, newConn, closedConn, tasks, world, running>>
        /\ \/ UNCHANGED phase
           \/ phase[c] = "closed" /\ phase' = [phase EXCEPT ![c] = "over"]
    BY DEF NetworkReceviedMsg, Net!Received, IInv, TypeOK
  <1>2. /\ n \in Nat /\ sent[c] < n /\ m \in Message /\ m[1] = c /\ m[2] = n
        /\ worldMsgs \in Seq(Message) /\ sent \in [Conns -> Nat]
    BY DEF IInv, TypeOK, Message
  <1> HIDE DEF n, m
  <1>3. worldMsgs' \in Seq(Message) /\ Elems(worldMsgs') = Elems(worldMsgs) \cup {m}
    BY <1>1, <1>2, AppendIs
  <1>4. TypeOK'
    BY <1>1, <1>2, <1>3 DEF IInv, TypeOK, world
  <1>5. MadeOnce'
    BY <1>1 DEF IInv, TypeOK, MadeOnce, Registered, world
  <1>6. /\ \A k \in Elems(batch) \cup Elems(worldMsgs) :
              k[1] \in Conns /\ k[2] \in Nat /\ sent[k[1]] \in Nat /\ k[2] <= sent[k[1]]
        /\ \A d \in Conns : \A x \in Elems(served[d]) \cup Elems(inbox[d]) :
              x \in Nat /\ x <= sent[d]
    BY ChainTyped DEF IInv, ChainInOrder
  <1>7. \A k \in Elems(batch) \cup Elems(worldMsgs) : k[1] = c => k[2] < n
    BY <1>2, <1>6
  <1>8. \A x \in Elems(served[c]) \cup Elems(inbox[c]) : x < n
    BY <1>2, <1>6
  <1>9. \A d \in Conns : sent'[d] \in Nat /\ sent[d] <= sent'[d]
    BY <1>1, <1>2
  <1>10. sent'[c] = n
    BY <1>1, <1>2
  <1>11. InSendOrder(worldMsgs')
    BY <1>1, <1>2, <1>7, SendOrderAppend DEF IInv, ChainInOrder
  <1>12. \A k \in Elems(batch), l \in Elems(worldMsgs') : k[1] = l[1] => k[2] < l[2]
    BY <1>2, <1>3, <1>7 DEF IInv, ChainInOrder
  <1>13. \A k \in Elems(batch) \cup Elems(worldMsgs') : k[2] <= sent'[k[1]]
    <2>1. \A k \in Elems(batch) \cup Elems(worldMsgs) : k[2] <= sent'[k[1]]
      BY <1>6, <1>9
    <2>2. m[2] <= sent'[m[1]]
      BY <1>2, <1>10
    <2> QED BY <1>3, <2>1, <2>2
  <1>14. \A d \in Conns : \A x \in Elems(served[d]) \cup Elems(inbox[d]) :
            /\ x <= sent'[d]
            /\ \A k \in Elems(batch) \cup Elems(worldMsgs') : k[1] = d => x < k[2]
    <2> SUFFICES ASSUME NEW d \in Conns, NEW x \in Elems(served[d]) \cup Elems(inbox[d])
                 PROVE  /\ x <= sent'[d]
                        /\ \A k \in Elems(batch) \cup Elems(worldMsgs') : k[1] = d => x < k[2]
      OBVIOUS
    <2>1. x <= sent'[d]
      <3>1. x \in Nat /\ x <= sent[d] /\ sent[d] \in Nat
        BY <1>2, <1>6
      <3> QED BY <1>9, <3>1
    <2>2. \A k \in Elems(batch) \cup Elems(worldMsgs) : k[1] = d => x < k[2]
      BY DEF IInv, ChainInOrder
    <2>3. m[1] = d => x < m[2]
      BY <1>2, <1>8
    <2> QED BY <1>3, <2>1, <2>2, <2>3
  <1>15. UNCHANGED <<batch, served, inbox>>
    BY <1>1 DEF world
  <1>16. ChainInOrder'
    BY <1>11, <1>12, <1>13, <1>14, <1>15 DEF IInv, ChainInOrder
  <1> QED BY <1>4, <1>5, <1>16 DEF IInv

LEMMA DispatchMsgStep ==
  ASSUME IInv, DispatchMsg
  PROVE  IInv'
  <1>1. /\ batch' = worldMsgs /\ worldMsgs' = << >> /\ stage' = "post"
        /\ UNCHANGED <<network, newConn, closedConn, tasks, session, inbox, allTask, todo, served, running>>
    BY DEF DispatchMsg
  <1>2. Elems(<< >>) = {} /\ InSendOrder(<< >>) /\ << >> \in Seq(Message)
    BY DEF Elems, InSendOrder
  <1>3. TypeOK'
    BY <1>1, <1>2 DEF IInv, TypeOK, network
  <1>4. MadeOnce'
    BY <1>1 DEF IInv, MadeOnce, network
  <1>5. ChainInOrder'
    BY <1>1, <1>2 DEF IInv, ChainInOrder, network
  <1> QED BY <1>3, <1>4, <1>5 DEF IInv

LEMMA DispatchNextStep ==
  ASSUME IInv, DispatchNext
  PROVE  IInv'
  <1> DEFINE m == Head(batch)
             c == m[1]
             n == m[2]
  <1>1. /\ batch # << >> /\ batch' = Tail(batch)
        /\ inbox' = (IF Passes(m) THEN [inbox EXCEPT ![c] = Append(@, n)] ELSE inbox)
        /\ UNCHANGED <<network, queues, session, allTask, stage, todo, served, running>>
    BY DEF DispatchNext, Posted
  <1>2. /\ batch \in Seq(Message) /\ inbox \in [Conns -> Seq(Nat)]
        /\ worldMsgs' = worldMsgs /\ sent' = sent /\ served' = served
    BY <1>1 DEF IInv, TypeOK, queues, network
  <1>3. /\ m \in Message /\ batch' \in Seq(Message)
        /\ Elems(batch) = {m} \cup Elems(batch')
    BY <1>1, <1>2, TailIs
  <1>4. c \in Conns /\ n \in Nat
    BY <1>3 DEF Message
  <1>5. /\ InSendOrder(batch')
        /\ \A k \in Elems(batch') : k[1] = c => n < k[2]
    BY <1>1, <1>2, SendOrderTail DEF IInv, ChainInOrder
  <1>6. /\ \A k \in Elems(worldMsgs) : k[1] = c => n < k[2]
        /\ n <= sent[c]
        /\ \A x \in Elems(served[c]) \cup Elems(inbox[c]) : x < n
    BY <1>3, <1>4 DEF IInv, ChainInOrder
  <1> HIDE DEF m, c, n
  <1>7. /\ Append(inbox[c], n) \in Seq(Nat) /\ Increasing(Append(inbox[c], n))
        /\ Elems(Append(inbox[c], n)) = Elems(inbox[c]) \cup {n}
    <2>1. inbox[c] \in Seq(Nat) /\ Increasing(inbox[c])
      BY <1>2, <1>4 DEF IInv, ChainInOrder
    <2> QED BY <1>4, <1>6, <2>1, AppendIs, IncreasingAppend
  <1>8. inbox' \in [Conns -> Seq(Nat)]
    BY <1>1, <1>2, <1>4, <1>7
  <1>9. ASSUME NEW d \in Conns
        PROVE  /\ Increasing(inbox'[d])
               /\ Elems(inbox'[d]) \subseteq Elems(inbox[d]) \cup {n}
               /\ d # c => inbox'[d] = inbox[d]
    <2>1. Increasing(inbox[d])
      BY DEF IInv, ChainInOrder
    <2>2. CASE d = c
      BY <1>1, <1>2, <1>7, <2>1, <2>2
    <2>3. CASE d # c
      BY <1>1, <1>2, <2>1, <2>3
    <2> QED BY <2>2, <2>3
  <1>10. \A d \in Conns :
            /\ Increasing(served[d])
            /\ \A x \in Elems(served[d]), y \in Elems(inbox'[d]) : x < y
            /\ \A x \in Elems(served[d]) \cup Elems(inbox'[d]) :
                  /\ x <= sent[d]
                  /\ \A k \in Elems(batch') \cup Elems(worldMsgs) : k[1] = d => x < k[2]
    <2> SUFFICES ASSUME NEW d \in Conns
                 PROVE  /\ Increasing(served[d])
                        /\ \A x \in Elems(served[d]), y \in Elems(inbox'[d]) : x < y
                        /\ \A x \in Elems(served[d]) \cup Elems(inbox'[d]) :
                              /\ x <= sent[d]
                              /\ \A k \in Elems(batch') \cup Elems(worldMsgs) :
                                    k[1] = d => x < k[2]
      OBVIOUS
    <2>1. /\ Increasing(served[d])
          /\ \A x \in Elems(served[d]), y \in Elems(inbox[d]) : x < y
          /\ \A x \in Elems(served[d]) \cup Elems(inbox[d]) :
                /\ x <= sent[d]
                /\ \A k \in Elems(batch) \cup Elems(worldMsgs) : k[1] = d => x < k[2]
      BY DEF IInv, ChainInOrder
    <2>2. CASE d # c
      BY <1>3, <1>9, <2>1, <2>2
    <2>3. CASE d = c
      BY <1>3, <1>5, <1>6, <1>9, <2>1, <2>3
    <2> QED BY <2>2, <2>3
  <1>11. ChainInOrder'
    <2>1. /\ InSendOrder(worldMsgs)
          /\ \A k \in Elems(batch'), l \in Elems(worldMsgs) : k[1] = l[1] => k[2] < l[2]
          /\ \A k \in Elems(batch') \cup Elems(worldMsgs) : k[2] <= sent[k[1]]
      BY <1>3 DEF IInv, ChainInOrder
    <2> QED BY <1>2, <1>5, <1>9, <1>10, <2>1 DEF ChainInOrder
  <1>12. TypeOK'
    BY <1>1, <1>3, <1>8 DEF IInv, TypeOK, network, queues
  <1>13. MadeOnce'
    BY <1>1 DEF IInv, MadeOnce, Registered, network, queues
  <1> QED BY <1>11, <1>12, <1>13 DEF IInv

\* What a session's handlers do, and what they leave alone.
LEMMA HeartbeatSessionStep ==
  ASSUME IInv, NEW c \in Conns, HeartbeatSession(c)
  PROVE  /\ IInv'
         /\ session' \in [Conns -> {"none", "UNLOGIN", "CLOSED", "erased"}]
         /\ \A d \in Conns : session[d] = "erased" => session'[d] = "erased"
  <1>1. PICK n \in 0 .. Len(inbox[c]), closes \in BOOLEAN :
          /\ served' = [served EXCEPT ![c] = @ \o SubSeq(inbox[c], 1, n)]
          /\ inbox' = [inbox EXCEPT ![c] = << >>]
          /\ session' = [session EXCEPT ![c] =
                            IF closes \/ session[c] = "CLOSED" THEN "erased" ELSE @]
          /\ closedConn' \in IF n > 0 THEN {closedConn, closedConn \cup {c}} ELSE {closedConn}
    BY DEF HeartbeatSession
  <1>2. /\ stage = "sessions" /\ c \in todo /\ todo' = todo \ {c}
        /\ UNCHANGED <<network, newConn, worldMsgs, tasks, allTask, batch, stage, running>>
    BY DEF HeartbeatSession
  <1> DEFINE h == SubSeq(inbox[c], 1, n)
             a == served[c] \o h
  <1>3. /\ served \in [Conns -> Seq(Nat)] /\ inbox \in [Conns -> Seq(Nat)]
        /\ session \in [Conns -> {"none", "UNLOGIN", "CLOSED", "erased"}]
        /\ served[c] \in Seq(Nat) /\ inbox[c] \in Seq(Nat)
    BY DEF IInv, TypeOK
  <1>4. /\ h \in Seq(Nat) /\ Increasing(h) /\ Elems(h) \subseteq Elems(inbox[c])
        /\ n = 0 => h = << >>
    BY <1>3, IncreasingPrefix DEF IInv, ChainInOrder
  <1>5. /\ a \in Seq(Nat) /\ Increasing(a)
        /\ Elems(a) \subseteq Elems(served[c]) \cup Elems(inbox[c])
    <2> HIDE DEF h
    <2>1. \A x \in Elems(served[c]), y \in Elems(h) : x < y
      BY <1>4 DEF IInv, ChainInOrder
    <2>2. Increasing(served[c])
      BY DEF IInv, ChainInOrder
    <2> QED BY <1>3, <1>4, <2>1, <2>2, IncreasingConcat
  <1>6. served' = [served EXCEPT ![c] = a]
    BY <1>1
  <1> HIDE DEF h, a
  <1>7. session' \in [Conns -> {"none", "UNLOGIN", "CLOSED", "erased"}]
    BY <1>1, <1>3
  <1>8. \A d \in Conns : session[d] = "erased" => session'[d] = "erased"
    BY <1>1, <1>3
  <1>9. TypeOK'
    <2>1. closedConn' \subseteq Conns
      BY <1>1 DEF IInv, TypeOK
    <2>2. served' \in [Conns -> Seq(Nat)] /\ inbox' \in [Conns -> Seq(Nat)]
      BY <1>1, <1>3, <1>5, <1>6
    <2> QED BY <1>2, <1>7, <2>1, <2>2 DEF IInv, TypeOK, network
  <1>10. MadeOnce'
    <2>1. Registered(c) /\ phase[c] # "none" /\ c \notin newConn
      BY <1>2 DEF IInv, MadeOnce, Registered
    <2>2. \A d \in Conns : d # c => session'[d] = session[d]
      BY <1>1, <1>3
    <2>3. \A d \in todo' : d # c /\ d \in todo
      BY <1>2
    <2> QED BY <1>2, <2>1, <2>2, <2>3 DEF IInv, MadeOnce, Registered, network
  <1>11. ChainInOrder'
    <2>1. ASSUME NEW d \in Conns
          PROVE  /\ Increasing(served'[d]) /\ Increasing(inbox'[d])
                 /\ \A x \in Elems(served'[d]), y \in Elems(inbox'[d]) : x < y
                 /\ Elems(served'[d]) \cup Elems(inbox'[d])
                        \subseteq Elems(served[d]) \cup Elems(inbox[d])
      <3>1. CASE d = c
        <4>1. Elems(<< >>) = {} /\ Increasing(<< >>)
          BY DEF Elems, Increasing
        <4> QED BY <1>1, <1>3, <1>5, <1>6, <3>1, <4>1
      <3>2. CASE d # c
        <4>1. served'[d] = served[d] /\ inbox'[d] = inbox[d]
          BY <1>1, <1>3, <3>2
        <4> QED BY <4>1 DEF IInv, ChainInOrder
      <3> QED BY <3>1, <3>2
    <2> QED BY <1>2, <2>1 DEF IInv, ChainInOrder, network
  <1> QED BY <1>7, <1>8, <1>9, <1>10, <1>11 DEF IInv

LEMMA PostedTyped ==
  ASSUME TypeOK, NEW t \in Tasks, PostTask(t)
  PROVE  tasks' \in Seq(Tasks)
  BY DEF PostTask, TypeOK

\* The steps that leave messages and sessions alone.
LEMMA OtherSteps ==
  ASSUME IInv,
         \/ \E c \in Conns : NetworkAccept(c) \/ NetworkClosed(c)
         \/ \E t \in Tasks : PostFromOutside(t)
         \/ Stop \/ Start \/ ProcessTask \/ RunTask \/ DispatchEnds \/ HeartbeatEnds
         \/ UNCHANGED vars
  PROVE  IInv' /\ session' = session
  <1>1. UNCHANGED <<worldMsgs, batch, sent, served, inbox, session>>
    BY DEF NetworkAccept, NetworkClosed, PostFromOutside, Stop, Start, ProcessTask, RunTask,
       DispatchEnds, HeartbeatEnds, vars, network, queues, world
  <1>2. ChainInOrder'
    BY <1>1, ChainKept DEF IInv
  <1>3. ASSUME NEW c \in Conns, NetworkAccept(c) PROVE TypeOK' /\ MadeOnce'
    <2>1. /\ phase[c] = "none" /\ phase' = [phase EXCEPT ![c] = "open"]
          /\ newConn' = newConn \cup {c}
          /\ UNCHANGED <<told, sent, worldMsgs, closedConn, tasks, world, running>>
      BY <1>3 DEF NetworkAccept, Net!Accepted
    <2>2. TypeOK'
      BY <2>1 DEF IInv, TypeOK, world
    <2>3. MadeOnce'
      BY <2>1 DEF IInv, TypeOK, MadeOnce, Registered, world
    <2> QED BY <2>2, <2>3
  <1>4. ASSUME NEW c \in Conns, NetworkClosed(c) PROVE TypeOK' /\ MadeOnce'
    <2>1. /\ phase[c] = "open" /\ phase' = [phase EXCEPT ![c] = "closed"]
          /\ closedConn' \subseteq closedConn \cup {c} /\ told' \subseteq told \cup {c}
          /\ UNCHANGED <<sent, newConn, worldMsgs, tasks, world, running>>
      BY <1>4 DEF NetworkClosed, Net!Closed
    <2>2. TypeOK'
      BY <2>1 DEF IInv, TypeOK, world
    <2>3. MadeOnce'
      BY <2>1 DEF IInv, TypeOK, MadeOnce, Registered, world
    <2> QED BY <2>2, <2>3
  <1>5. ASSUME NEW t \in Tasks, PostFromOutside(t) PROVE TypeOK' /\ MadeOnce'
    <2>1. tasks' \in Seq(Tasks)
      BY <1>5, PostedTyped DEF PostFromOutside, IInv
    <2> QED BY <1>5, <2>1 DEF PostFromOutside, IInv, TypeOK, MadeOnce, Registered, network, world
  <1>6. ASSUME ProcessTask PROVE TypeOK' /\ MadeOnce'
    <2>1. allTask' \in Seq(Tasks) /\ tasks' \in Seq(Tasks)
      BY <1>6 DEF ProcessTask, IInv, TypeOK
    <2>2. /\ stage' \in {"run", "dispatch"}
          /\ UNCHANGED <<network, newConn, worldMsgs, closedConn, session, inbox, batch,
                         todo, served, running>>
      BY <1>6 DEF ProcessTask
    <2> QED BY <2>1, <2>2 DEF IInv, TypeOK, MadeOnce, Registered, network
  <1>7. ASSUME RunTask PROVE TypeOK' /\ MadeOnce'
    <2>1. allTask' \in Seq(Tasks)
      BY <1>7, TailIs DEF RunTask, IInv, TypeOK
    <2>2. tasks' \in Seq(Tasks)
      BY <1>7, PostedTyped DEF RunTask, IInv, TypeOK
    <2>3. closedConn' \subseteq Conns
      BY <1>7 DEF RunTask, IInv, TypeOK
    <2>4. /\ stage' \in {"run", "dispatch"}
          /\ UNCHANGED <<network, newConn, worldMsgs, session, inbox, batch, todo, served,
                         running>>
      BY <1>7 DEF RunTask
    <2> QED BY <2>1, <2>2, <2>3, <2>4 DEF IInv, TypeOK, MadeOnce, Registered, network
  <1>8. ASSUME DispatchEnds PROVE TypeOK' /\ MadeOnce'
    BY <1>8 DEF DispatchEnds, IInv, TypeOK, MadeOnce, Registered, network, queues
  <1>9. ASSUME Start \/ HeartbeatEnds PROVE TypeOK' /\ MadeOnce'
    BY <1>9 DEF Start, HeartbeatEnds, IInv, TypeOK, MadeOnce, Registered, network, queues
  <1>10. ASSUME Stop \/ UNCHANGED vars PROVE TypeOK' /\ MadeOnce'
    BY <1>10 DEF Stop, vars, IInv, TypeOK, MadeOnce, Registered, network, queues, world
  <1>11. TypeOK' /\ MadeOnce'
    BY <1>3, <1>4, <1>5, <1>6, <1>7, <1>8, <1>9, <1>10
  <1> QED BY <1>1, <1>2, <1>11 DEF IInv

LEMMA ProcessNewConnStep ==
  ASSUME IInv, ProcessNewConn
  PROVE  /\ IInv'
         /\ \A c \in Conns : session[c] = "erased" => session'[c] = "erased"
  <1>1. /\ stage = "new" /\ stage' = "closed" /\ newConn' = {}
        /\ session' = [c \in Conns |-> IF c \in newConn /\ ~ Registered(c) THEN "UNLOGIN"
                                       ELSE session[c]]
        /\ UNCHANGED <<network, worldMsgs, closedConn, tasks, inbox, allTask, batch, todo,
                       served, running>>
    BY DEF ProcessNewConn
  <1>2. \A c \in Conns : session[c] = "erased" => session'[c] = "erased"
    BY <1>1 DEF IInv, MadeOnce
  <1>3. TypeOK'
    BY <1>1 DEF IInv, TypeOK, network
  <1>4. MadeOnce'
    BY <1>1 DEF IInv, MadeOnce, network
  <1>5. ChainInOrder'
    BY <1>1, ChainKept DEF IInv, network
  <1> QED BY <1>1, <1>2, <1>3, <1>4, <1>5 DEF IInv

LEMMA ProcessClosedConnStep ==
  ASSUME IInv, ProcessClosedConn
  PROVE  /\ IInv'
         /\ \A c \in Conns : session[c] = "erased" => session'[c] = "erased"
  <1>1. /\ stage = "closed" /\ stage' = "task" /\ closedConn' = {}
        /\ session' = [c \in Conns |-> IF c \in closedConn /\ Registered(c) THEN "CLOSED"
                                       ELSE session[c]]
        /\ UNCHANGED <<network, newConn, worldMsgs, tasks, inbox, allTask, batch, todo,
                       served, running>>
    BY DEF ProcessClosedConn
  <1>2. /\ \A c \in Conns : session[c] = "erased" => session'[c] = "erased"
        /\ \A c \in Conns : session[c] = "none" => session'[c] = "none"
    BY <1>1 DEF Registered
  <1>3. TypeOK'
    BY <1>1 DEF IInv, TypeOK, network
  <1>4. MadeOnce'
    BY <1>1, <1>2 DEF IInv, MadeOnce, network
  <1>5. ChainInOrder'
    BY <1>1, ChainKept DEF IInv, network
  <1> QED BY <1>1, <1>2, <1>3, <1>4, <1>5 DEF IInv

LEMMA InvStep ==
  ASSUME IInv, [Next]_vars
  PROVE  /\ IInv'
         /\ \A c \in Conns : session[c] = "erased" => session'[c] = "erased"
  <1>1. CASE \/ \E c \in Conns : NetworkAccept(c) \/ NetworkClosed(c)
             \/ \E t \in Tasks : PostFromOutside(t)
             \/ Stop \/ Start \/ ProcessTask \/ RunTask \/ DispatchEnds \/ HeartbeatEnds
             \/ UNCHANGED vars
    BY <1>1, OtherSteps
  <1>2. CASE ProcessNewConn
    BY <1>2, ProcessNewConnStep
  <1>3. CASE ProcessClosedConn
    BY <1>3, ProcessClosedConnStep
  <1>4. ASSUME NEW c \in Conns, NetworkReceviedMsg(c)
        PROVE  IInv' /\ session' = session
    BY <1>4, ReceivedStep DEF NetworkReceviedMsg, world
  <1>5. CASE DispatchMsg \/ DispatchNext
    BY <1>5, DispatchMsgStep, DispatchNextStep DEF DispatchMsg, DispatchNext
  <1>6. ASSUME NEW c \in Conns, HeartbeatSession(c)
        PROVE  /\ IInv'
               /\ \A d \in Conns : session[d] = "erased" => session'[d] = "erased"
    BY <1>6, HeartbeatSessionStep
  <1> QED BY <1>1, <1>2, <1>3, <1>4, <1>5, <1>6 DEF Next, Run

----------------------------------------------------------------------------
(* Theorems *)

THEOREM Invariance == Spec => []IInv
  <1>1. IInv /\ [Next]_vars => IInv'
    BY InvStep
  <1> QED BY <1>1, InitIInv, PTL DEF Spec

\* The types of the world's state, for any connections, messages and tasks.
THEOREM TypeCorrect == Spec => []TypeOK
  <1>1. IInv => TypeOK
    BY DEF IInv
  <1> QED BY <1>1, Invariance, PTL

\* dispatchMsg and WorldSession::heartbeat: the handlers of a session run in
\* the order of its messages and once for each, whatever is filtered out and
\* whenever the network's thread adds to m_world_msgs.
THEOREM ServedInOrderCorrect == Spec => []ServedInOrder
  <1>1. IInv => ServedInOrder
    BY DEF IInv, ChainInOrder, ServedInOrder
  <1> QED BY <1>1, Invariance, PTL

\* processNewConn makes each connection one session at most: none is made
\* after heartbeat has erased it.
THEOREM OneSessionCorrect == Spec => OneSession
  <1>1. IInv /\ [Next]_vars
          => [\A c \in Conns : session[c] = "erased" => session'[c] = "erased"]_vars
    BY InvStep
  <1> QED BY <1>1, Invariance, PTL DEF Spec, OneSession
============================================================================
