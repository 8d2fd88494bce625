--------------------------- MODULE OrderStoreProofs ---------------------------
(***************************************************************************)
(* Theorems about the order book under any callers (StoreSpec).            *)
(*                                                                         *)
(* The operations come down to three kinds of step: a Creation, a Rewrite  *)
(* of one entry that keeps its oid, cloid and owner, and a Receive.        *)
(***************************************************************************)
EXTENDS OrderStore, TLAPS

Creation(o) ==
    /\ o \in Order
    /\ o.oid = nextOid + 1
    /\ o.status = "open"
    /\ nextOid' = nextOid + 1
    /\ orders' = Put(orders, KeyOf(o), o)
    /\ issued' = Append(issued, KeyOf(o))
    /\ BroadcastOrderUpdate(o)

\* What a modify, a cancel and a fill leave of an order and what they set.
AmendsTo(o, p) == p.status = o.status
CancelsTo(o, p) == p.px = o.px /\ p.sz = o.sz /\ p.status = "canceled"
FillsTo(o, p) ==
    /\ p.sz >= 0
    /\ p.sz = 0 \/ p.sz <= o.sz
    /\ p.status = IF p.sz = 0 THEN "filled" ELSE "open"

Rewrite(k, o) ==
    /\ k \in DOMAIN orders
    /\ o \in Order
    /\ o.oid = orders[k].oid /\ o.cloid = orders[k].cloid /\ o.user = orders[k].user
    /\ AmendsTo(orders[k], o) \/ CancelsTo(orders[k], o) \/ FillsTo(orders[k], o)
    /\ Store(k, o)

\* The key of a cloid is a key: no prefix is left.
LEMMA CanonicalIsKey ==
    ASSUME NEW c \in Cloid PROVE canonicalizeCloidKey(c) \in Key
  BY DEF Cloid, Key, canonicalizeCloidKey

LEMMA KeyOfIsKey ==
    ASSUME NEW o \in Order PROVE KeyOf(o) \in Key
  BY CanonicalIsKey DEF Order, KeyOf

\* A fill leaves an order an order, closer to 0 and complete exactly at 0.
LEMMA FilledOrder ==
    ASSUME NEW o \in Order, NEW price \in Int, NEW size \in FillSize,
           NEW f, f = Filled(o, price, size)
    PROVE  /\ f \in Order
           /\ f.oid = o.oid /\ f.cloid = o.cloid /\ f.user = o.user
           /\ f.px = price
           /\ f.sz >= 0
           /\ f.sz = 0 \/ f.sz <= o.sz
           /\ f.status = IF f.sz = 0 THEN "filled" ELSE "open"
  <1> DEFINE left == o.sz - FillAmount(o.sz, size)
             status == IF left = 0 THEN "filled" ELSE "open"
  <1>1. o.sz \in Int
    BY DEF Order
  <1>2. left \in Int /\ left >= 0 /\ (left = 0 \/ left <= o.sz)
    BY <1>1 DEF FillAmount, FillSize
  <1>3. f = [o EXCEPT !.sz = left, !.px = price, !.status = status]
    BY DEF Filled
  <1>4. status \in Status
    BY DEF Status
  <1> HIDE DEF left
  <1>5. f = [oid |-> o.oid, cloid |-> o.cloid, px |-> price, sz |-> left,
             user |-> o.user, status |-> status]
    BY <1>3 DEF Order
  <1> QED
    BY <1>2, <1>4, <1>5 DEF Order

\* Every step of the book is a creation, a rewrite or a receive.
LEMMA StepKinds ==
    ASSUME StoreTypeOK, StoreNext
    PROVE  \/ \E o \in Order : Creation(o)
           \/ \E k \in DOMAIN orders, o \in Order : Rewrite(k, o)
           \/ Receive
  <1>1. ASSUME NEW c \in Cloid, NEW px \in Int, NEW sz \in Int, NEW user \in Address,
               CreateOrder(c, px, sz, user)
        PROVE  \E o \in Order : Creation(o)
    <2> DEFINE o == [oid |-> nextOid + 1, cloid |-> c, px |-> px, sz |-> sz,
                     user |-> user, status |-> "open"]
    <2>1. o \in Order
      BY DEF StoreTypeOK, Order, Status
    <2>2. Creation(o)
      BY <1>1, <2>1 DEF CreateOrder, Creation, KeyOf
    <2> QED
      BY <2>1, <2>2
  <1>2. ASSUME NEW k \in DOMAIN orders, NEW px \in Int, NEW sz \in Int,
               Store(k, Amended(orders[k], px, sz))
        PROVE  \E o \in Order : Rewrite(k, o)
    <2>1. orders[k] \in Order
      BY DEF StoreTypeOK
    <2>2. Amended(orders[k], px, sz) \in Order
      BY <2>1 DEF Amended, Order
    <2> QED
      BY <1>2, <2>1, <2>2 DEF Rewrite, AmendsTo, Amended, Order
  <1>3. ASSUME NEW k \in DOMAIN orders, Store(k, Canceled(orders[k]))
        PROVE  \E o \in Order : Rewrite(k, o)
    <2>1. orders[k] \in Order
      BY DEF StoreTypeOK
    <2>2. Canceled(orders[k]) \in Order
      BY <2>1 DEF Canceled, Order, Status
    <2> QED
      BY <1>3, <2>1, <2>2 DEF Rewrite, CancelsTo, Canceled, Order
  <1>4. ASSUME NEW k \in DOMAIN orders, NEW price \in Int, NEW size \in FillSize,
               Store(k, Filled(orders[k], price, size))
        PROVE  \E o \in Order : Rewrite(k, o)
    <2>1. orders[k] \in Order
      BY DEF StoreTypeOK
    <2>2. Filled(orders[k], price, size) \in Order
      BY <2>1, FilledOrder
    <2> QED
      BY <1>4, <2>1, <2>2, FilledOrder DEF Rewrite, FillsTo
  <1> QED
    BY <1>1, <1>2, <1>3, <1>4
    DEF StoreNext, ModifyOrder, ModifyOrderByOid, CancelOrder, CancelOrderByOid,
        FillOrder, Known, GetOrder, KeysOfOid

-----------------------------------------------------------------------------
(***************************************************************************)
(* Type correctness.                                                       *)
(***************************************************************************)

\* What an announcement does to the channel.
LEMMA BroadcastType ==
    ASSUME StoreTypeOK, NEW o \in Order, BroadcastOrderUpdate(o)
    PROVE  /\ orderUpdatesCh' \in Seq(Order)
           /\ Len(orderUpdatesCh') <= ChCap
           /\ lost' \subseteq Key
           /\ seen' = seen
  <1>1. KeyOf(o) \in Key
    BY KeyOfIsKey
  <1>2. CASE /\ Len(orderUpdatesCh) < ChCap
             /\ orderUpdatesCh' = Append(orderUpdatesCh, o)
             /\ lost' = lost \ {KeyOf(o)}
    BY <1>2, StoreAssumption DEF StoreTypeOK, BroadcastOrderUpdate
  <1>3. CASE /\ UNCHANGED orderUpdatesCh
             /\ lost' = lost \cup {KeyOf(o)}
    BY <1>1, <1>3 DEF StoreTypeOK, BroadcastOrderUpdate
  <1> QED
    BY <1>2, <1>3 DEF BroadcastOrderUpdate

LEMMA InitType == StoreInit => StoreTypeOK
  <1> SUFFICES ASSUME StoreInit PROVE StoreTypeOK
    OBVIOUS
  <1> QED
    BY StoreAssumption DEF StoreInit, StoreTypeOK, EmptyMap

LEMMA StepType == StoreTypeOK /\ [StoreNext]_storeVars => StoreTypeOK'
  <1> SUFFICES ASSUME StoreTypeOK, [StoreNext]_storeVars PROVE StoreTypeOK'
    OBVIOUS
  <1>1. ASSUME NEW o \in Order, Creation(o)
        PROVE  StoreTypeOK'
    <2>1. KeyOf(o) \in Key
      BY KeyOfIsKey
    <2>2. /\ DOMAIN orders' \subseteq Key
          /\ \A k \in DOMAIN orders' : orders'[k] \in Order
          /\ orders' = [k \in DOMAIN orders' |-> orders'[k]]
      BY <1>1, <2>1 DEF Creation, Put, StoreTypeOK
    <2>3. nextOid' \in Nat /\ issued' \in Seq(Key)
      BY <1>1, <2>1 DEF Creation, StoreTypeOK
    <2> QED
      BY <1>1, <2>2, <2>3, BroadcastType DEF Creation, StoreTypeOK
  <1>2. ASSUME NEW k \in DOMAIN orders, NEW o \in Order, Rewrite(k, o)
        PROVE  StoreTypeOK'
    <2>1. /\ DOMAIN orders' \subseteq Key
          /\ \A l \in DOMAIN orders' : orders'[l] \in Order
          /\ orders' = [l \in DOMAIN orders' |-> orders'[l]]
      BY <1>2 DEF Rewrite, Store, StoreTypeOK
    <2>2. UNCHANGED <<nextOid, issued>> /\ BroadcastOrderUpdate(o)
      BY <1>2 DEF Rewrite, Store
    <2> QED
      BY <2>1, <2>2, BroadcastType DEF StoreTypeOK
  <1>3. CASE Receive
    <2>1. Head(orderUpdatesCh) \in Order /\ Tail(orderUpdatesCh) \in Seq(Order)
          /\ Len(Tail(orderUpdatesCh)) <= ChCap
      BY <1>3, StoreAssumption DEF Receive, StoreTypeOK
    <2>2. KeyOf(Head(orderUpdatesCh)) \in Key
      BY <2>1, KeyOfIsKey
    <2>3. DOMAIN seen' \subseteq Key /\ \A k \in DOMAIN seen' : seen'[k] \in Order
      BY <1>3, <2>1, <2>2 DEF Receive, Put, StoreTypeOK
    <2> QED
      BY <1>3, <2>1, <2>3 DEF Receive, StoreTypeOK
  <1>4. CASE UNCHANGED storeVars
    BY <1>4 DEF storeVars, StoreTypeOK
  <1> QED
    BY <1>1, <1>2, <1>3, <1>4, StepKinds

\* The book, its oids, the history of oids and the update channel keep their
\* types, and the channel its capacity, whatever calls are made
\* (State and its operations).
THEOREM StoreTypeCorrect == StoreSpec => []StoreTypeOK
  BY InitType, StepType, PTL DEF StoreSpec

-----------------------------------------------------------------------------
(***************************************************************************)
(* Oids and keys.                                                          *)
(***************************************************************************)
LEMMA InitInv == StoreInit => StoreInv
  BY StoreAssumption
  DEF StoreInit, EmptyMap, StoreInv, OidsDense, KeysConsistent, NothingForgotten

LEMMA StepInv == StoreTypeOK /\ StoreInv /\ [StoreNext]_storeVars => StoreInv'
  <1> SUFFICES ASSUME StoreTypeOK, StoreInv, [StoreNext]_storeVars PROVE StoreInv'
    OBVIOUS
  <1> USE DEF StoreInv
  <1>1. ASSUME NEW o \in Order, Creation(o)
        PROVE  StoreInv'
    <2> DEFINE n == Len(issued)
    <2>1. /\ n \in Nat /\ nextOid = BaseOid + n /\ BaseOid \in Nat
          /\ KeyOf(o) \in Key
      BY KeyOfIsKey, StoreAssumption DEF StoreTypeOK, OidsDense
    <2>2. /\ Len(issued') = n + 1
          /\ issued'[n + 1] = KeyOf(o)
          /\ \A i \in 1..n : issued'[i] = issued[i]
      BY <1>1, <2>1 DEF Creation, StoreTypeOK
    <2>3. /\ DOMAIN orders' = DOMAIN orders \cup {KeyOf(o)}
          /\ orders'[KeyOf(o)] = o
          /\ \A k \in DOMAIN orders \ {KeyOf(o)} : orders'[k] = orders[k]
      BY <1>1 DEF Creation, Put
    <2>4. o.oid = BaseOid + n + 1 /\ nextOid' = BaseOid + n + 1
      BY <1>1, <2>1 DEF Creation
    <2> HIDE DEF n
    <2>5. OidsDense'
      BY <2>1, <2>2, <2>4 DEF OidsDense
    <2>6. KeysConsistent'
      <3> SUFFICES ASSUME NEW k \in DOMAIN orders'
                   PROVE  /\ KeyOf(orders'[k]) = k
                          /\ orders'[k].oid \in (BaseOid + 1)..nextOid'
                          /\ issued'[orders'[k].oid - BaseOid] = k
        BY DEF KeysConsistent
      <3>1. CASE k = KeyOf(o)
        BY <2>1, <2>2, <2>3, <2>4, <3>1
      <3>2. CASE k # KeyOf(o)
        <4>1. k \in DOMAIN orders /\ orders'[k] = orders[k] /\ orders[k] \in Order
          BY <2>3, <3>2 DEF StoreTypeOK
        <4>2. orders[k].oid \in Int
          BY <4>1 DEF Order
        <4>3. orders[k].oid - BaseOid \in 1..n
          BY <2>1, <4>1, <4>2 DEF KeysConsistent
        <4> QED
          BY <2>1, <2>2, <2>4, <4>1, <4>2, <4>3 DEF KeysConsistent
      <3> QED
        BY <3>1, <3>2
    <2>7. NothingForgotten'
      <3> SUFFICES ASSUME NEW i \in 1..(n + 1)
                   PROVE  /\ issued'[i] \in DOMAIN orders'
                          /\ orders'[issued'[i]].oid >= BaseOid + i
        BY <2>2 DEF NothingForgotten
      <3>1. CASE i = n + 1
        BY <2>1, <2>2, <2>3, <2>4, <3>1
      <3>2. CASE i \in 1..n
        <4>1. issued[i] \in DOMAIN orders /\ orders[issued[i]].oid >= BaseOid + i
          BY <3>2 DEF NothingForgotten, n
        <4> QED
          BY <2>1, <2>2, <2>3, <2>4, <3>2, <4>1
      <3> QED
        BY <2>1, <3>1, <3>2
    <2> QED
      BY <2>5, <2>6, <2>7
  <1>2. ASSUME NEW k \in DOMAIN orders, NEW o \in Order, Rewrite(k, o)
        PROVE  StoreInv'
    <2>1. /\ DOMAIN orders' = DOMAIN orders
          /\ orders'[k] = o
          /\ \A l \in DOMAIN orders \ {k} : orders'[l] = orders[l]
          /\ UNCHANGED <<nextOid, issued>>
      BY <1>2 DEF Rewrite, Store, StoreTypeOK
    <2>2. \A l \in DOMAIN orders :
            orders'[l].oid = orders[l].oid /\ KeyOf(orders'[l]) = KeyOf(orders[l])
      BY <1>2, <2>1 DEF Rewrite, KeyOf
    <2>3. OidsDense'
      BY <2>1 DEF OidsDense
    <2>4. KeysConsistent'
      BY <2>1, <2>2 DEF KeysConsistent
    <2>5. NothingForgotten'
      BY <2>1, <2>2 DEF NothingForgotten
    <2> QED
      BY <2>3, <2>4, <2>5
  <1>3. CASE UNCHANGED <<orders, nextOid, issued>>
    BY <1>3 DEF OidsDense, KeysConsistent, NothingForgotten
  <1> QED
    BY <1>1, <1>2, <1>3, StepKinds DEF Receive, storeVars

\* Oids are dense, every entry sits under its own key, and an oid once handed
\* out leaves the book only when a younger order of the same key takes its
\* place (CreateOrder and the Modify, Cancel and Fill operations).
THEOREM StoreSafe == StoreSpec => []StoreInv
  BY InitInv, StepInv, StoreTypeCorrect, InitType, StepType, PTL DEF StoreSpec

\* No two entries carry the same oid, so ModifyOrderByOid, CancelOrderByOid and
\* GetOrderByOid do not depend on the order in which Go scans the map.
THEOREM OidsUnique == StoreSpec => []OidUnique
  <1>1. StoreInv => OidUnique
    BY DEF StoreInv, KeysConsistent, OidUnique
  <1> QED
    BY <1>1, StoreSafe, PTL

-----------------------------------------------------------------------------
(***************************************************************************)
(* The feed.                                                               *)
(***************************************************************************)

\* The channel after an announcement: unchanged, or one longer.
LEMMA BroadcastQueue ==
    ASSUME StoreTypeOK, NEW o \in Order, BroadcastOrderUpdate(o)
    PROVE  \/ /\ Len(orderUpdatesCh') = Len(orderUpdatesCh) + 1
              /\ \A i \in 1..Len(orderUpdatesCh) : orderUpdatesCh'[i] = orderUpdatesCh[i]
              /\ orderUpdatesCh'[Len(orderUpdatesCh) + 1] = o
              /\ lost' = lost \ {KeyOf(o)}
           \/ /\ orderUpdatesCh' = orderUpdatesCh
              /\ lost' = lost \cup {KeyOf(o)}
  <1>1. orderUpdatesCh \in Seq(Order)
    BY DEF StoreTypeOK
  <1> QED
    BY <1>1 DEF BroadcastOrderUpdate

\* The channel after the broadcaster took its head.
LEMMA ReceiveQueue ==
    ASSUME StoreTypeOK, Receive
    PROVE  /\ Len(orderUpdatesCh) \in Nat \ {0}
           /\ Head(orderUpdatesCh) = orderUpdatesCh[1]
           /\ Len(orderUpdatesCh') = Len(orderUpdatesCh) - 1
           /\ \A i \in 1..Len(orderUpdatesCh') : orderUpdatesCh'[i] = orderUpdatesCh[i + 1]
  <1>1. orderUpdatesCh \in Seq(Order) /\ orderUpdatesCh # << >>
    BY DEF StoreTypeOK, Receive
  <1> QED
    BY <1>1 DEF Receive

\* After an operation that stored o under its key and announced it.
LEMMA AnnounceCaughtUp ==
    ASSUME StoreTypeOK, CaughtUp, NEW o \in Order, BroadcastOrderUpdate(o),
           DOMAIN orders' = DOMAIN orders \cup {KeyOf(o)},
           orders'[KeyOf(o)] = o,
           \A k \in DOMAIN orders \ {KeyOf(o)} : orders'[k] = orders[k]
    PROVE  CaughtUp'
  <1> SUFFICES ASSUME NEW k \in DOMAIN orders' \ lost'
               PROVE  (LatestQueued(k) \/ LatestSeen(k))'
    BY DEF CaughtUp
  <1> DEFINE n == Len(orderUpdatesCh)
  <1>1. n \in Nat /\ seen' = seen
    BY DEF StoreTypeOK, BroadcastOrderUpdate
  <1>2. CASE /\ Len(orderUpdatesCh') = n + 1
             /\ \A i \in 1..n : orderUpdatesCh'[i] = orderUpdatesCh[i]
             /\ orderUpdatesCh'[n + 1] = o
             /\ lost' = lost \ {KeyOf(o)}
    <2> HIDE DEF n
    <2>1. CASE k = KeyOf(o)
      BY <1>1, <1>2, <2>1 DEF LatestQueued
    <2>2. CASE k # KeyOf(o)
      <3>1. k \in DOMAIN orders \ lost /\ orders'[k] = orders[k]
        BY <1>2, <2>2
      <3>2. CASE LatestQueued(k)
        <4>1. PICK i \in 1..n : /\ orderUpdatesCh[i] = orders[k]
                                /\ \A j \in (i+1)..n : KeyOf(orderUpdatesCh[j]) # k
          BY <3>2 DEF LatestQueued, n
        <4>2. i \in 1..(n + 1) /\ orderUpdatesCh'[i] = orders'[k]
          BY <1>1, <1>2, <3>1, <4>1
        <4>3. \A j \in (i+1)..(n+1) : KeyOf(orderUpdatesCh'[j]) # k
          <5> SUFFICES ASSUME NEW j \in (i+1)..(n+1)
                       PROVE  KeyOf(orderUpdatesCh'[j]) # k
            OBVIOUS
          <5>1. CASE j = n + 1
            BY <1>2, <2>2, <5>1
          <5>2. CASE j # n + 1
            <6>1. j \in (i+1)..n /\ j \in 1..n
              BY <1>1, <5>2
            <6> QED
              BY <1>2, <4>1, <6>1
          <5> QED
            BY <5>1, <5>2
        <4> QED
          BY <1>2, <4>2, <4>3 DEF LatestQueued
      <3>3. CASE LatestSeen(k)
        <4>1. \A i \in 1..n : KeyOf(orderUpdatesCh[i]) # k
          BY <3>3 DEF LatestSeen, n
        <4>2. \A i \in 1..(n+1) : KeyOf(orderUpdatesCh'[i]) # k
          <5> SUFFICES ASSUME NEW i \in 1..(n+1)
                       PROVE  KeyOf(orderUpdatesCh'[i]) # k
            OBVIOUS
          <5>1. CASE i = n + 1
            BY <1>2, <2>2, <5>1
          <5>2. CASE i # n + 1
            <6>1. i \in 1..n
              BY <1>1, <5>2
            <6> QED
              BY <1>2, <4>1, <6>1
          <5> QED
            BY <5>1, <5>2
        <4> QED
          BY <1>1, <1>2, <3>1, <3>3, <4>2 DEF LatestSeen
      <3> QED
        BY <3>1, <3>2, <3>3 DEF CaughtUp
    <2> QED
      BY <2>1, <2>2
  <1>3. CASE orderUpdatesCh' = orderUpdatesCh /\ lost' = lost \cup {KeyOf(o)}
    <2>1. k # KeyOf(o) /\ k \in DOMAIN orders \ lost /\ orders'[k] = orders[k]
      BY <1>3
    <2>2. LatestQueued(k) \/ LatestSeen(k)
      BY <2>1 DEF CaughtUp
    <2> QED
      BY <1>1, <1>3, <2>1, <2>2 DEF LatestQueued, LatestSeen
  <1> QED
    BY <1>2, <1>3, BroadcastQueue

LEMMA StepCaughtUp ==
    StoreTypeOK /\ StoreInv /\ CaughtUp /\ [StoreNext]_storeVars => CaughtUp'
  <1> SUFFICES ASSUME StoreTypeOK, StoreInv, CaughtUp, [StoreNext]_storeVars
               PROVE  CaughtUp'
    OBVIOUS
  <1>1. ASSUME NEW o \in Order, Creation(o)
        PROVE  CaughtUp'
    <2>1. /\ DOMAIN orders' = DOMAIN orders \cup {KeyOf(o)}
          /\ orders'[KeyOf(o)] = o
          /\ \A k \in DOMAIN orders \ {KeyOf(o)} : orders'[k] = orders[k]
      BY <1>1 DEF Creation, Put
    <2> QED
      BY <1>1, <2>1, AnnounceCaughtUp DEF Creation
  <1>2. ASSUME NEW k \in DOMAIN orders, NEW o \in Order, Rewrite(k, o)
        PROVE  CaughtUp'
    <2>1. KeyOf(o) = k
      BY <1>2 DEF Rewrite, KeyOf, StoreInv, KeysConsistent
    <2>2. /\ DOMAIN orders' = DOMAIN orders
          /\ orders'[k] = o
          /\ \A l \in DOMAIN orders \ {k} : orders'[l] = orders[l]
          /\ BroadcastOrderUpdate(o)
      BY <1>2 DEF Rewrite, Store, StoreTypeOK
    <2>3. DOMAIN orders' = DOMAIN orders \cup {KeyOf(o)}
      BY <2>1, <2>2
    <2> QED
      BY <2>1, <2>2, <2>3, AnnounceCaughtUp
  <1>3. CASE Receive
    <2> SUFFICES ASSUME NEW k \in DOMAIN orders \ lost
                 PROVE  (LatestQueued(k) \/ LatestSeen(k))'
      BY <1>3 DEF CaughtUp, Receive
    <2> DEFINE n == Len(orderUpdatesCh)   u == orderUpdatesCh[1]
    <2>1. /\ n \in Nat \ {0} /\ Len(orderUpdatesCh') = n - 1
          /\ \A i \in 1..(n-1) : orderUpdatesCh'[i] = orderUpdatesCh[i + 1]
          /\ seen' = Put(seen, KeyOf(u), u)
          /\ UNCHANGED <<orders, lost>>
      BY <1>3, ReceiveQueue DEF Receive
    <2>2. CASE LatestQueued(k)
      <3>1. PICK i \in 1..n : /\ orderUpdatesCh[i] = orders[k]
                              /\ \A j \in (i+1)..n : KeyOf(orderUpdatesCh[j]) # k
        BY <2>2 DEF LatestQueued
      <3> HIDE DEF n, u
      <3>2. CASE i = 1
        <4>1. u = orders[k] /\ KeyOf(u) = k
          BY <3>1, <3>2 DEF StoreInv, KeysConsistent, u
        <4>2. k \in DOMAIN seen' /\ seen'[k] = orders[k]
          BY <2>1, <4>1 DEF Put
        <4>3. \A j \in 1..(n-1) : KeyOf(orderUpdatesCh'[j]) # k
          <5> SUFFICES ASSUME NEW j \in 1..(n-1)
                       PROVE  KeyOf(orderUpdatesCh'[j]) # k
            OBVIOUS
          <5>1. j + 1 \in (i+1)..n
            BY <2>1, <3>2
          <5> QED
            BY <2>1, <3>1, <5>1
        <4> QED
          BY <2>1, <4>2, <4>3 DEF LatestSeen
      <3>3. CASE i # 1
        <4>1. /\ i - 1 \in 1..(n-1) /\ (i - 1) + 1 = i
          BY <2>1, <3>3
        <4>2. orderUpdatesCh'[i - 1] = orders'[k]
          BY <2>1, <3>1, <4>1
        <4>3. \A j \in ((i-1)+1)..(n-1) : KeyOf(orderUpdatesCh'[j]) # k
          <5> SUFFICES ASSUME NEW j \in ((i-1)+1)..(n-1)
                       PROVE  KeyOf(orderUpdatesCh'[j]) # k
            OBVIOUS
          <5>1. j + 1 \in (i+1)..n /\ j \in 1..(n-1)
            BY <2>1, <4>1
          <5> QED
            BY <2>1, <3>1, <5>1
        <4> QED
          BY <2>1, <4>1, <4>2, <4>3 DEF LatestQueued
      <3> QED
        BY <3>2, <3>3
    <2>3. CASE LatestSeen(k)
      <3>1. /\ \A i \in 1..n : KeyOf(orderUpdatesCh[i]) # k
            /\ k \in DOMAIN seen /\ seen[k] = orders[k]
        BY <2>3 DEF LatestSeen
      <3> HIDE DEF n
      <3>2. KeyOf(u) # k
        BY <2>1, <3>1
      <3>3. k \in DOMAIN seen' /\ seen'[k] = orders'[k]
        BY <2>1, <3>1, <3>2 DEF Put
      <3>4. \A i \in 1..(n-1) : KeyOf(orderUpdatesCh'[i]) # k
        <4> SUFFICES ASSUME NEW i \in 1..(n-1)
                     PROVE  KeyOf(orderUpdatesCh'[i]) # k
          OBVIOUS
        <4>1. i + 1 \in 1..n
          BY <2>1
        <4> QED
          BY <2>1, <3>1, <4>1
      <3> QED
        BY <2>1, <3>3, <3>4 DEF LatestSeen
    <2> QED
      BY <2>2, <2>3 DEF CaughtUp
  <1>4. CASE UNCHANGED storeVars
    BY <1>4 DEF storeVars, CaughtUp, LatestQueued, LatestSeen
  <1> QED
    BY <1>1, <1>2, <1>3, <1>4, StepKinds

\* A subscriber that keeps the last update of each key holds the stored order
\* once the channel is drained, except for keys whose last update the full
\* channel dropped (BroadcastOrderUpdate under State.mu).
THEOREM FeedCatchesUp == StoreSpec => []CaughtUp
  <1>1. StoreInit => CaughtUp
    BY DEF StoreInit, EmptyMap, CaughtUp
  <1> QED
    BY <1>1, StepCaughtUp, StoreTypeCorrect, StoreSafe, PTL DEF StoreSpec

\* Every update on its way or taken is of a key the book holds, and not of a
\* younger order than the book's.
FeedKnown ==
    /\ \A i \in 1..Len(orderUpdatesCh) : KeyOf(orderUpdatesCh[i]) \in DOMAIN orders
    /\ \A k \in DOMAIN seen : k \in DOMAIN orders /\ seen[k].oid <= orders[k].oid
FeedInv == FeedInOidOrder /\ FeedKnown

\* After an operation announced o, whose oid is not below the stored one of
\* its key and is then the stored one.
LEMMA AnnounceInOrder ==
    ASSUME StoreTypeOK, FeedInOidOrder, NEW o \in Order, BroadcastOrderUpdate(o),
           DOMAIN orders' = DOMAIN orders \cup {KeyOf(o)},
           orders'[KeyOf(o)] = o,
           \A k \in DOMAIN orders \ {KeyOf(o)} : orders'[k] = orders[k],
           KeyOf(o) \in DOMAIN orders => orders[KeyOf(o)].oid <= o.oid,
           FeedKnown, nextOid' \in Nat, nextOid' >= nextOid, o.oid <= nextOid'
    PROVE  FeedInv'
  <1> USE DEF FeedKnown
  <1> DEFINE n == Len(orderUpdatesCh)
  <1>1. n \in Nat /\ seen' = seen /\ nextOid \in Nat
    BY DEF StoreTypeOK, BroadcastOrderUpdate
  <1>2. \A i \in 1..n : orderUpdatesCh[i] \in Order
    BY DEF StoreTypeOK
  <1>3. /\ \A i \in 1..n : orderUpdatesCh[i].oid \in Nat
        /\ \A k \in DOMAIN orders : orders[k].oid \in Nat
        /\ \A k \in DOMAIN seen : seen[k].oid \in Nat
        /\ o.oid \in Nat
    BY <1>2 DEF StoreTypeOK, Order
  <1>4. \A i \in 1..n :
          LET u == orderUpdatesCh[i]
          IN  /\ u.oid <= nextOid
              /\ \A j \in (i+1)..n :
                    KeyOf(orderUpdatesCh[j]) = KeyOf(u) => u.oid <= orderUpdatesCh[j].oid
              /\ u.oid <= orders[KeyOf(u)].oid
              /\ KeyOf(u) \in DOMAIN seen => seen[KeyOf(u)].oid <= u.oid
    BY DEF FeedInOidOrder
  <1>5. \A i \in 1..n :
          LET u == orderUpdatesCh[i]
          IN  u.oid <= nextOid' /\ u.oid <= orders'[KeyOf(u)].oid
    <2> HIDE DEF n
    <2> TAKE i \in 1..n
    <2>1. orderUpdatesCh[i].oid <= nextOid /\ KeyOf(orderUpdatesCh[i]) \in DOMAIN orders
          /\ orderUpdatesCh[i].oid <= orders[KeyOf(orderUpdatesCh[i])].oid
      BY <1>4 DEF n
    <2>2. CASE KeyOf(orderUpdatesCh[i]) = KeyOf(o)
      BY <1>1, <1>3, <2>1, <2>2
    <2>3. CASE KeyOf(orderUpdatesCh[i]) # KeyOf(o)
      BY <1>1, <1>3, <2>1, <2>3
    <2> QED
      BY <2>2, <2>3
  <1>6. ASSUME Len(orderUpdatesCh') = n + 1,
               \A i \in 1..n : orderUpdatesCh'[i] = orderUpdatesCh[i],
               orderUpdatesCh'[n + 1] = o
        PROVE  FeedInOidOrder'
    <2> HIDE DEF n
    <2> SUFFICES ASSUME NEW i \in 1..(n + 1)
                 PROVE  LET u == orderUpdatesCh'[i]
                        IN  /\ u.oid <= nextOid'
                            /\ \A j \in (i+1)..(n+1) :
                                 KeyOf(orderUpdatesCh'[j]) = KeyOf(u) => u.oid <= orderUpdatesCh'[j].oid
                            /\ u.oid <= orders'[KeyOf(u)].oid
                            /\ KeyOf(u) \in DOMAIN seen => seen[KeyOf(u)].oid <= u.oid
      BY <1>1, <1>6 DEF FeedInOidOrder
    <2>1. CASE i = n + 1
      <3>1. orderUpdatesCh'[i] = o /\ (i+1)..(n+1) = {}
        BY <1>1, <1>6, <2>1
      <3>2. KeyOf(o) \in DOMAIN seen => seen[KeyOf(o)].oid <= o.oid
        BY <1>3
      <3> QED
        BY <1>3, <3>1, <3>2
    <2>2. CASE i \in 1..n
      <3> DEFINE u == orderUpdatesCh[i]
      <3>1. orderUpdatesCh'[i] = u
        BY <1>6, <2>2
      <3>2. /\ u.oid <= nextOid' /\ u.oid <= orders'[KeyOf(u)].oid
            /\ KeyOf(u) \in DOMAIN seen => seen[KeyOf(u)].oid <= u.oid
        BY <1>4, <1>5, <2>2 DEF n
      <3>3. ASSUME NEW j \in (i+1)..(n+1), KeyOf(orderUpdatesCh'[j]) = KeyOf(u)
            PROVE  u.oid <= orderUpdatesCh'[j].oid
        <4>1. CASE j = n + 1
          BY <1>6, <3>2, <3>3, <4>1
        <4>2. CASE j # n + 1
          <5>1. j \in (i+1)..n /\ j \in 1..n
            BY <1>1, <2>2, <4>2
          <5> QED
            BY <1>4, <1>6, <2>2, <3>3, <5>1 DEF n
        <4> QED
          BY <4>1, <4>2
      <3> QED
        BY <3>1, <3>2, <3>3
    <2> QED
      BY <1>1, <2>1, <2>2
  <1>7. ASSUME orderUpdatesCh' = orderUpdatesCh
        PROVE  FeedInOidOrder'
    BY <1>1, <1>4, <1>5, <1>7 DEF FeedInOidOrder
  <1>8. \A i \in 1..Len(orderUpdatesCh') : KeyOf(orderUpdatesCh'[i]) \in DOMAIN orders'
    <2> HIDE DEF n
    <2> SUFFICES ASSUME NEW i \in 1..Len(orderUpdatesCh')
                 PROVE  KeyOf(orderUpdatesCh'[i]) \in DOMAIN orders'
      OBVIOUS
    <2>1. orderUpdatesCh'[i] = o \/ (i \in 1..n /\ orderUpdatesCh'[i] = orderUpdatesCh[i])
      BY <1>1, BroadcastQueue DEF n
    <2> QED
      BY <2>1 DEF n
  <1>9. \A k \in DOMAIN seen' : k \in DOMAIN orders' /\ seen'[k].oid <= orders'[k].oid
    <2> SUFFICES ASSUME NEW k \in DOMAIN seen
                 PROVE  k \in DOMAIN orders' /\ seen[k].oid <= orders'[k].oid
      BY <1>1
    <2>1. k \in DOMAIN orders /\ seen[k].oid <= orders[k].oid
      OBVIOUS
    <2>2. CASE k = KeyOf(o)
      BY <1>3, <2>1, <2>2
    <2>3. CASE k # KeyOf(o)
      BY <2>1, <2>3
    <2> QED
      BY <2>2, <2>3
  <1> QED
    BY <1>6, <1>7, <1>8, <1>9, BroadcastQueue DEF FeedInv

LEMMA StepFeedInv ==
    StoreTypeOK /\ StoreInv /\ FeedInv /\ [StoreNext]_storeVars => FeedInv'
  <1> SUFFICES ASSUME StoreTypeOK, StoreInv, FeedInOidOrder, FeedKnown,
                      [StoreNext]_storeVars
               PROVE  FeedInv'
    BY DEF FeedInv
  <1>1. ASSUME NEW o \in Order, Creation(o)
        PROVE  FeedInv'
    <2>1. /\ DOMAIN orders' = DOMAIN orders \cup {KeyOf(o)}
          /\ orders'[KeyOf(o)] = o
          /\ \A k \in DOMAIN orders \ {KeyOf(o)} : orders'[k] = orders[k]
      BY <1>1 DEF Creation, Put
    <2>2. nextOid \in Nat /\ nextOid' = nextOid + 1 /\ o.oid = nextOid + 1
      BY <1>1 DEF Creation, StoreTypeOK
    <2>3. \A k \in DOMAIN orders : orders[k].oid \in Nat /\ orders[k].oid <= nextOid
      BY <2>2 DEF StoreInv, KeysConsistent, StoreTypeOK, Order
    <2>4. KeyOf(o) \in DOMAIN orders => orders[KeyOf(o)].oid <= o.oid
      BY <2>2, <2>3
    <2>5. nextOid' \in Nat /\ nextOid' >= nextOid /\ o.oid <= nextOid'
      BY <2>2
    <2> QED
      BY <1>1, <2>1, <2>4, <2>5, AnnounceInOrder DEF Creation
  <1>2. ASSUME NEW k \in DOMAIN orders, NEW o \in Order, Rewrite(k, o)
        PROVE  FeedInv'
    <2>1. KeyOf(o) = k /\ o.oid = orders[k].oid
      BY <1>2 DEF Rewrite, KeyOf, StoreInv, KeysConsistent
    <2>2. /\ DOMAIN orders' = DOMAIN orders
          /\ orders'[k] = o
          /\ \A l \in DOMAIN orders \ {k} : orders'[l] = orders[l]
          /\ BroadcastOrderUpdate(o)
          /\ nextOid' = nextOid
      BY <1>2 DEF Rewrite, Store, StoreTypeOK
    <2>3. DOMAIN orders' = DOMAIN orders \cup {KeyOf(o)}
      BY <2>1, <2>2
    <2>4. /\ nextOid' \in Nat /\ nextOid' >= nextOid /\ o.oid <= nextOid'
          /\ orders[KeyOf(o)].oid <= o.oid
      BY <2>1, <2>2 DEF StoreInv, KeysConsistent, StoreTypeOK, Order
    <2> QED
      BY <2>1, <2>2, <2>3, <2>4, AnnounceInOrder
  <1>3. CASE Receive
    <2> DEFINE n == Len(orderUpdatesCh)   u == orderUpdatesCh[1]   q == orderUpdatesCh
    <2>1. /\ n \in Nat \ {0} /\ Len(orderUpdatesCh') = n - 1
          /\ \A i \in 1..(n-1) : orderUpdatesCh'[i] = q[i + 1]
          /\ seen' = Put(seen, KeyOf(u), u)
          /\ UNCHANGED <<orders, nextOid>>
      BY <1>3, ReceiveQueue DEF Receive
    <2>2. \A i \in 1..n :
            /\ q[i].oid <= nextOid
            /\ \A j \in (i+1)..n : KeyOf(q[j]) = KeyOf(q[i]) => q[i].oid <= q[j].oid
            /\ KeyOf(q[i]) \in DOMAIN orders
            /\ q[i].oid <= orders[KeyOf(q[i])].oid
            /\ KeyOf(q[i]) \in DOMAIN seen => seen[KeyOf(q[i])].oid <= q[i].oid
      BY DEF FeedInOidOrder, FeedKnown
    <2>3. /\ DOMAIN seen' = DOMAIN seen \cup {KeyOf(u)}
          /\ seen'[KeyOf(u)] = u
          /\ \A k \in DOMAIN seen \ {KeyOf(u)} : seen'[k] = seen[k]
      BY <2>1 DEF Put
    <2> HIDE DEF n, u
    <2>4. FeedInOidOrder'
      <3> SUFFICES ASSUME NEW i \in 1..(n - 1)
                   PROVE  LET v == orderUpdatesCh'[i]
                          IN  /\ v.oid <= nextOid
                              /\ \A j \in (i+1)..(n-1) :
                                    KeyOf(orderUpdatesCh'[j]) = KeyOf(v) => v.oid <= orderUpdatesCh'[j].oid
                              /\ v.oid <= orders[KeyOf(v)].oid
                              /\ KeyOf(v) \in DOMAIN seen' => seen'[KeyOf(v)].oid <= v.oid
        BY <2>1 DEF FeedInOidOrder
      <3>1. /\ i + 1 \in 1..n /\ i + 1 \in 2..n /\ 1 \in 1..n
            /\ orderUpdatesCh'[i] = q[i + 1]
        BY <2>1
      <3>2. q[i+1].oid <= nextOid /\ q[i+1].oid <= orders[KeyOf(q[i+1])].oid
        BY <2>2, <3>1
      <3>3. ASSUME NEW j \in (i+1)..(n-1), KeyOf(orderUpdatesCh'[j]) = KeyOf(q[i+1])
            PROVE  q[i+1].oid <= orderUpdatesCh'[j].oid
        <4>1. j \in 1..(n-1) /\ j + 1 \in ((i+1)+1)..n
          BY <2>1
        <4> QED
          BY <2>1, <2>2, <3>1, <3>3, <4>1
      <3>4. ASSUME KeyOf(q[i+1]) \in DOMAIN seen'
            PROVE  seen'[KeyOf(q[i+1])].oid <= q[i+1].oid
        <4>1. CASE KeyOf(q[i+1]) = KeyOf(u)
          <5>1. i + 1 \in (1+1)..n
            BY <3>1
          <5>2. u.oid <= q[i+1].oid
            BY <2>2, <3>1, <4>1, <5>1 DEF u
          <5> QED
            BY <2>3, <4>1, <5>2
        <4>2. CASE KeyOf(q[i+1]) # KeyOf(u)
          BY <2>2, <2>3, <3>1, <3>4, <4>2
        <4> QED
          BY <4>1, <4>2
      <3> QED
        BY <3>1, <3>2, <3>3, <3>4
    <2>5. \A i \in 1..(n-1) : KeyOf(orderUpdatesCh'[i]) \in DOMAIN orders
      <3> SUFFICES ASSUME NEW i \in 1..(n-1) PROVE KeyOf(q[i+1]) \in DOMAIN orders
        BY <2>1
      <3>1. i + 1 \in 1..n
        BY <2>1
      <3> QED
        BY <2>2, <3>1
    <2>6. \A k \in DOMAIN seen' : k \in DOMAIN orders /\ seen'[k].oid <= orders[k].oid
      <3>1. 1 \in 1..n
        BY <2>1
      <3>2. KeyOf(u) \in DOMAIN orders /\ u.oid <= orders[KeyOf(u)].oid
        BY <2>2, <3>1 DEF u
      <3> QED
        BY <2>3, <3>2 DEF FeedKnown
    <2> QED
      BY <2>1, <2>4, <2>5, <2>6 DEF FeedInv, FeedKnown
  <1>4. CASE UNCHANGED storeVars
    BY <1>4 DEF storeVars, FeedInv, FeedInOidOrder, FeedKnown
  <1> QED
    BY <1>1, <1>2, <1>3, <1>4, StepKinds

\* Updates of one key leave the book in the order of their oids: after a
\* subscriber heard of a younger order, no update of the displaced one follows
\* (the channel between State and broadcastOrderUpdates is first in first out,
\* and is filled under State.mu).
THEOREM FeedOrdered == StoreSpec => []FeedInOidOrder
  <1>1. StoreInit => FeedInv
    BY DEF StoreInit, EmptyMap, FeedInv, FeedInOidOrder, FeedKnown
  <1>2. FeedInv => FeedInOidOrder
    BY DEF FeedInv
  <1> QED
    BY <1>1, <1>2, StepFeedInv, StoreTypeCorrect, StoreSafe, PTL DEF StoreSpec

-----------------------------------------------------------------------------
(***************************************************************************)
(* The book implements the ledger.                                         *)
(***************************************************************************)
Line(i) == [key   |-> issued[i],
            order |-> IF orders[issued[i]].oid = BaseOid + i
                      THEN orders[issued[i]] ELSE Retired]

LEMMA LinesOfView ==
    ASSUME StoreTypeOK
    PROVE  /\ Len(issued) \in Nat
           /\ Len(LedgerView) = Len(issued)
           /\ \A i \in 1..Len(issued) : LedgerView[i] = Line(i)
  <1>1. Len(issued) \in Nat
    BY DEF StoreTypeOK
  <1> QED
    BY <1>1 DEF LedgerView, Line

LEMMA LinesOfViewPrimed ==
    ASSUME StoreTypeOK'
    PROVE  /\ Len(issued') \in Nat
           /\ Len(LedgerView') = Len(issued')
           /\ \A i \in 1..Len(issued') : LedgerView'[i] = Line(i)'
  <1>1. Len(issued') \in Nat
    BY DEF StoreTypeOK
  <1> QED
    BY <1>1 DEF LedgerView, Line

LEMMA CreationPlaces ==
    ASSUME StoreTypeOK, StoreTypeOK', StoreInv, NEW o \in Order, Creation(o)
    PROVE  Ledger!Place
  <1> DEFINE n == Len(issued)
  <1>1. /\ n \in Nat /\ nextOid = BaseOid + n /\ BaseOid \in Nat
        /\ Len(LedgerView) = n
        /\ \A i \in 1..n : LedgerView[i] = Line(i)
    BY LinesOfView, StoreAssumption DEF StoreInv, OidsDense
  <1>2. /\ Len(issued') = n + 1
        /\ issued'[n + 1] = KeyOf(o)
        /\ \A i \in 1..n : issued'[i] = issued[i]
    BY <1>1, KeyOfIsKey DEF Creation, StoreTypeOK
  <1>3. /\ Len(LedgerView') = n + 1
        /\ \A i \in 1..(n+1) : LedgerView'[i] = Line(i)'
    BY <1>2, LinesOfViewPrimed
  <1>4. /\ orders'[KeyOf(o)] = o
        /\ \A k \in DOMAIN orders \ {KeyOf(o)} : orders'[k] = orders[k]
    BY DEF Creation, Put
  <1>5. o.oid = BaseOid + 1 + n /\ o.status = "open"
    BY <1>1 DEF Creation
  <1> HIDE DEF n
  <1>6. LedgerView'[n + 1] = [key |-> KeyOf(o), order |-> o]
    <2>1. n + 1 \in 1..(n + 1) /\ o.oid = BaseOid + (n + 1)
      BY <1>1, <1>5
    <2> QED
      BY <1>2, <1>3, <1>4, <2>1 DEF Line
  <1>7. ASSUME NEW i \in 1..n
        PROVE  LedgerView'[i] = IF LedgerView[i].key = KeyOf(o)
                                THEN [LedgerView[i] EXCEPT !.order = Retired]
                                ELSE LedgerView[i]
    <2>1. i \in 1..(n+1) /\ LedgerView[i] = Line(i) /\ LedgerView'[i] = Line(i)'
      BY <1>1, <1>3
    <2>2. LedgerView[i].key = issued[i] /\ issued'[i] = issued[i]
      BY <1>2, <2>1 DEF Line
    <2>3. CASE issued[i] = KeyOf(o)
      <3>1. o.oid # BaseOid + i
        BY <1>1, <1>5
      <3>2. LedgerView'[i] = [key |-> issued[i], order |-> Retired]
        BY <1>4, <2>1, <2>2, <2>3, <3>1 DEF Line
      <3>3. [LedgerView[i] EXCEPT !.order = Retired] = [key |-> issued[i], order |-> Retired]
        BY <2>1 DEF Line
      <3> QED
        BY <2>2, <2>3, <3>2, <3>3
    <2>4. CASE issued[i] # KeyOf(o)
      <3>1. issued[i] \in DOMAIN orders
        BY DEF StoreInv, NothingForgotten, n
      <3>2. orders'[issued[i]] = orders[issued[i]]
        BY <1>4, <2>4, <3>1
      <3>3. LedgerView'[i] = LedgerView[i]
        BY <2>1, <2>2, <3>2 DEF Line
      <3> QED
        BY <2>2, <2>4, <3>3
    <2> QED
      BY <2>3, <2>4
  <1>8. o # Retired
    BY StoreAssumption
  <1> QED
    BY <1>1, <1>3, <1>5, <1>6, <1>7, <1>8 DEF Ledger!Place, Ledger!Lines

\* Records of orders, field by field.
LEMMA OrderFields ==
    ASSUME NEW o \in Order
    PROVE  o = [oid |-> o.oid, cloid |-> o.cloid, px |-> o.px, sz |-> o.sz,
                user |-> o.user, status |-> o.status]
  BY DEF Order

LEMMA RewriteOneLine ==
    ASSUME StoreTypeOK, StoreTypeOK', StoreInv, NEW k, NEW o, Rewrite(k, o)
    PROVE  \E i \in Ledger!Lines : Ledger!Amend(i) \/ Ledger!Cancel(i) \/ Ledger!Fill(i)
  <1> DEFINE n == Len(issued)   old == orders[k]   i == old.oid - BaseOid
  <1>1. /\ n \in Nat /\ nextOid = BaseOid + n /\ BaseOid \in Nat
        /\ Len(LedgerView) = n
        /\ \A j \in 1..n : LedgerView[j] = Line(j)
    BY LinesOfView, StoreAssumption DEF StoreInv, OidsDense
  <1>2. k \in DOMAIN orders /\ old \in Order /\ o \in Order
    BY DEF Rewrite, StoreTypeOK
  <1>3. old.oid \in Nat /\ i \in 1..n /\ issued[i] = k /\ old.oid = BaseOid + i
    BY <1>1, <1>2 DEF StoreInv, KeysConsistent, Order
  <1>4. /\ issued' = issued
        /\ orders'[k] = o
        /\ \A l \in DOMAIN orders \ {k} : orders'[l] = orders[l]
    BY <1>2 DEF Rewrite, Store, StoreTypeOK
  <1>5. Len(LedgerView') = n /\ \A j \in 1..n : LedgerView'[j] = Line(j)'
    BY <1>4, LinesOfViewPrimed
  <1>6. o.oid = old.oid /\ o.cloid = old.cloid /\ o.user = old.user
    BY DEF Rewrite
  <1>7. AmendsTo(old, o) \/ CancelsTo(old, o) \/ FillsTo(old, o)
    BY DEF Rewrite
  <1> HIDE DEF n, i, old
  <1>8. LedgerView[i] = [key |-> k, order |-> old] /\ LedgerView'[i] = [key |-> k, order |-> o]
    BY <1>1, <1>3, <1>4, <1>5, <1>6 DEF Line, old
  <1>9. ASSUME NEW j \in (1..n) \ {i}
        PROVE  LedgerView'[j] = LedgerView[j]
    <2>1. LedgerView[j] = Line(j) /\ LedgerView'[j] = Line(j)'
      BY <1>1, <1>5
    <2>2. CASE issued[j] = k
      <3>1. old.oid # BaseOid + j
        BY <1>1, <1>3
      <3> QED
        BY <1>4, <1>6, <2>1, <2>2, <3>1 DEF Line, old
    <2>3. CASE issued[j] # k
      <3>1. issued[j] \in DOMAIN orders
        BY DEF StoreInv, NothingForgotten, n
      <3> QED
        BY <1>4, <2>1, <2>3, <3>1 DEF Line
    <2> QED
      BY <2>2, <2>3
  <1>10. old # Retired /\ o # Retired
    BY <1>2, StoreAssumption DEF Order
  <1>11. Ledger!OnlyLine(i)
    BY <1>1, <1>5, <1>8, <1>9, <1>10 DEF Ledger!OnlyLine, Ledger!LiveLine, Ledger!Lines
  <1>12. LedgerView[i].order = old /\ LedgerView'[i].order = o /\ i \in Ledger!Lines
    BY <1>1, <1>3, <1>8 DEF Ledger!Lines
  <1>13. CASE AmendsTo(old, o)
    <2>1. /\ o = [old EXCEPT !.px = o.px, !.sz = o.sz, !.status = o.status]
          /\ o.status \in {old.status, "open"}
      BY <1>2, <1>6, <1>13, OrderFields DEF AmendsTo, Order
    <2>2. Ledger!Amend(i)
      BY <1>12, <1>11, <2>1, Zenon DEF Ledger!Amend
    <2> QED
      BY <1>12, <2>2, Zenon
  <1>14. CASE CancelsTo(old, o)
    <2>1. o = [old EXCEPT !.status = "canceled"]
      BY <1>2, <1>6, <1>14, OrderFields DEF CancelsTo, Order
    <2> QED
      BY <1>1, <1>3, <1>8, <1>11, <2>1 DEF Ledger!Cancel, Ledger!Lines
  <1>15. CASE FillsTo(old, o)
    <2> DEFINE status == IF o.sz = 0 THEN "filled" ELSE "open"
    <2>1. o.status = status /\ o.sz >= 0 /\ (o.sz <= old.sz \/ o.sz = 0)
      BY <1>15 DEF FillsTo
    <2> HIDE DEF status
    <2>2. o = [old EXCEPT !.px = o.px, !.sz = o.sz, !.status = status]
      BY <1>2, <1>6, <2>1, OrderFields DEF Order
    <2>3. Ledger!Fill(i)
      BY <1>12, <1>11, <2>1, <2>2, Zenon DEF Ledger!Fill, status
    <2> QED
      BY <1>12, <2>3, Zenon
  <1> QED
    BY <1>7, <1>13, <1>14, <1>15

\* The order map with its lock is an append-only ledger of orders: each
\* operation appends one line, which retires at most the line of the same key,
\* or changes one live line as a modify, a cancel or a fill may (State).
THEOREM StoreImplementsLedger == StoreSpec => LedgerRefined
  <1>1. StoreInit => Ledger!LedgerInit
    <2> SUFFICES ASSUME StoreInit PROVE LedgerView = << >>
      BY DEF Ledger!LedgerInit
    <2>1. issued = << >>
      BY DEF StoreInit
    <2> QED
      BY <2>1 DEF LedgerView
  <1>2. StoreTypeOK /\ StoreTypeOK' /\ StoreInv /\ [StoreNext]_storeVars
          => [Ledger!LedgerNext]_LedgerView
    <2> SUFFICES ASSUME StoreTypeOK, StoreTypeOK', StoreInv, [StoreNext]_storeVars
                 PROVE  [Ledger!LedgerNext]_LedgerView
      OBVIOUS
    <2>1. CASE \E o \in Order : Creation(o)
      BY <2>1, CreationPlaces DEF Ledger!LedgerNext
    <2>2. CASE \E k \in DOMAIN orders, o \in Order : Rewrite(k, o)
      BY <2>2, RewriteOneLine DEF Ledger!LedgerNext
    <2>3. CASE Receive \/ UNCHANGED storeVars
      BY <2>3 DEF Receive, storeVars, LedgerView
    <2> QED
      BY <2>1, <2>2, <2>3, StepKinds
  <1> QED
    BY <1>1, <1>2, StoreTypeCorrect, StoreSafe, PTL
    DEF StoreSpec, LedgerRefined, Ledger!LedgerSpec
=============================================================================
