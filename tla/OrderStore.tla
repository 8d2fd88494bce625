------------------------------ MODULE OrderStore ------------------------------
(***************************************************************************)
(* The in-memory order book of server/state.go, the fill helper of         *)
(* server/testserver.go and the bounded channel on which every mutation    *)
(* announces itself to the WebSocket broadcaster (server/websocket.go).    *)
(*                                                                         *)
(* Every operation holds State.mu from its first read to the channel send, *)
(* so each one is a single action.  Operations that the code reports as    *)
(* failed (unknown cloid or oid) change nothing: their guards are the      *)
(* negations a caller tests (Known, KnownOid).                             *)
(***************************************************************************)
EXTENDS CloidKeys, Sequences

CONSTANTS BaseOid,   \* nextOid of a new State
          ChCap,     \* capacity of orderUpdatesCh
          Remaining, \* "no fill size given" in FillOrder
          Retired    \* in the ledger view: the order of a displaced oid

Status == {"open", "canceled", "filled"}
Order == [oid : Nat, cloid : Cloid, px : Int, sz : Int, user : Address,
          status : Status]
FillSize == Int \cup {Remaining}

ASSUME StoreAssumption ==
    /\ BaseOid \in Nat
    /\ ChCap \in Nat \ {0}
    /\ Remaining \notin Int
    /\ Retired \notin Order

VARIABLES
    orders,          \* State.orders: key |-> order
    nextOid,         \* State.nextOid
    orderUpdatesCh,  \* the updates queued for the broadcaster, oldest first
    (* History, not in the code: *)
    issued,          \* issued[i] is the key under which oid BaseOid + i was created
    seen,            \* key |-> the last update of that key the broadcaster took
    lost             \* the keys whose most recent update was dropped

feed == <<orderUpdatesCh, seen, lost>>
storeVars == <<orders, nextOid, issued, orderUpdatesCh, seen, lost>>

KeyOf(o) == canonicalizeCloidKey(o.cloid)
EmptyMap == [k \in {} |-> k]
Put(f, k, v) == [x \in DOMAIN f \cup {k} |-> IF x = k THEN v ELSE f[x]]

-----------------------------------------------------------------------------
StoreInit ==
    /\ orders = EmptyMap
    /\ nextOid = BaseOid
    /\ orderUpdatesCh = << >>
    /\ issued = << >>
    /\ seen = EmptyMap
    /\ lost = {}

\* The lookups: a key is a map index, an oid is a scan of the map.
Known(c) == canonicalizeCloidKey(c) \in DOMAIN orders
KeysOfOid(oid) == {k \in DOMAIN orders : orders[k].oid = oid}
KnownOid(oid) == KeysOfOid(oid) # {}
GetOrder(c) == orders[canonicalizeCloidKey(c)]
GetOrderByOid(oid) == orders[CHOOSE k \in DOMAIN orders : orders[k].oid = oid]

(***************************************************************************)
(* Operators whose names start with "Bug" are plausible mistakes, used to  *)
(* see that a property notices them; no specification uses them.           *)
(***************************************************************************)
BugOverfull(o) ==    \* room for one more than the channel has
    /\ orderUpdatesCh' = IF Len(orderUpdatesCh) <= ChCap
                         THEN Append(orderUpdatesCh, o) ELSE orderUpdatesCh
    /\ UNCHANGED <<seen, lost>>
BugUnbuffered(o) ==    \* a plain send, which waits until the last one is taken
    /\ orderUpdatesCh = << >>
    /\ orderUpdatesCh' = Append(orderUpdatesCh, o)
    /\ lost' = lost \ {KeyOf(o)}
    /\ UNCHANGED seen
BugNewestFirst(o) ==    \* a stack in place of the channel
    /\ Len(orderUpdatesCh) < ChCap
    /\ orderUpdatesCh' = <<o>> \o orderUpdatesCh
    /\ UNCHANGED <<seen, lost>>

\* The send is a select with a default: it never waits, a full channel drops.
BroadcastOrderUpdate(o) ==
    /\ \/ /\ Len(orderUpdatesCh) < ChCap
          /\ orderUpdatesCh' = Append(orderUpdatesCh, o)
          /\ lost' = lost \ {KeyOf(o)}
       \/ /\ Len(orderUpdatesCh) >= ChCap
          /\ lost' = lost \cup {KeyOf(o)}
          /\ UNCHANGED orderUpdatesCh
    /\ UNCHANGED seen

BugAnnounceFirst(k, o) ==    \* announced before it is changed
    /\ orders' = [orders EXCEPT ![k] = o]
    /\ BroadcastOrderUpdate(orders[k])
    /\ UNCHANGED <<nextOid, issued>>

\* What is common to the operations on an existing order: the new value o of
\* the entry k is stored, then announced.
Store(k, o) ==
    /\ orders' = [orders EXCEPT ![k] = o]
    /\ BroadcastOrderUpdate(o)
    /\ UNCHANGED <<nextOid, issued>>

Amended(o, px, sz) == [o EXCEPT !.px = px, !.sz = sz]
Canceled(o) == [o EXCEPT !.status = "canceled"]

BugPostIncrement(c, px, sz, user) ==    \* the oid is the counter before it moves
    LET key == canonicalizeCloidKey(c)
        order == [oid |-> nextOid, cloid |-> c, px |-> px, sz |-> sz,
                  user |-> user, status |-> "open"]
    IN  /\ nextOid' = nextOid + 1
        /\ orders' = Put(orders, key, order)
        /\ issued' = Append(issued, key)
        /\ BroadcastOrderUpdate(order)
BugOidReused(c, px, sz, user) ==    \* an oid is used up by new keys only
    LET key == canonicalizeCloidKey(c)
        order == [oid |-> nextOid + 1, cloid |-> c, px |-> px, sz |-> sz,
                  user |-> user, status |-> "open"]
    IN  /\ nextOid' = IF Known(c) THEN nextOid ELSE nextOid + 1
        /\ orders' = Put(orders, key, order)
        /\ issued' = Append(issued, key)
        /\ BroadcastOrderUpdate(order)

\* CreateOrder does not look at what the map holds under the key: it
\* overwrites it.
CreateOrder(c, px, sz, user) ==
    LET key == canonicalizeCloidKey(c)
        order == [oid |-> nextOid + 1, cloid |-> c, px |-> px, sz |-> sz,
                  user |-> user, status |-> "open"]
    IN  /\ nextOid' = nextOid + 1
        /\ orders' = Put(orders, key, order)
        /\ issued' = Append(issued, key)
        /\ BroadcastOrderUpdate(order)

ModifyOrder(c, px, sz) ==
    /\ Known(c)
    /\ Store(canonicalizeCloidKey(c), Amended(GetOrder(c), px, sz))

ModifyOrderByOid(oid, px, sz) ==
    \E k \in KeysOfOid(oid) : Store(k, Amended(orders[k], px, sz))

CancelOrder(c) ==
    /\ Known(c)
    /\ Store(canonicalizeCloidKey(c), Canceled(GetOrder(c)))

CancelOrderByOid(oid) ==
    \E k \in KeysOfOid(oid) : Store(k, Canceled(orders[k]))

\* The clamping order of FillOrder: to 0 from below, then to the remaining
\* size from above (which wins when the remaining size is itself negative).
FillAmount(remaining, size) ==
    LET asked == IF size = Remaining THEN remaining ELSE size
        positive == IF asked < 0 THEN 0 ELSE asked
    IN  IF positive > remaining THEN remaining ELSE positive

BugAnyFill(o, price, size) ==    \* a partial fill completes the order
    [o EXCEPT !.sz = @ - FillAmount(@, size), !.px = price, !.status = "filled"]

Filled(o, price, size) ==
    LET left == o.sz - FillAmount(o.sz, size)
    IN  [o EXCEPT !.sz = left, !.px = price,
                  !.status = IF left = 0 THEN "filled" ELSE "open"]

FillOrder(c, price, size) ==
    /\ Known(c)
    /\ Store(canonicalizeCloidKey(c), Filled(GetOrder(c), price, size))

\* The broadcaster takes the oldest update.
Receive ==
    /\ orderUpdatesCh # << >>
    /\ seen' = Put(seen, KeyOf(Head(orderUpdatesCh)), Head(orderUpdatesCh))
    /\ orderUpdatesCh' = Tail(orderUpdatesCh)
    /\ UNCHANGED <<orders, nextOid, issued, lost>>

-----------------------------------------------------------------------------
(***************************************************************************)
(* The store under any callers whatever: what is proved of StoreSpec holds *)
(* of every program that reaches the map through these operations.         *)
(***************************************************************************)
StoreNext ==
    \/ \E c \in Cloid, px, sz \in Int :
          \/ \E user \in Address : CreateOrder(c, px, sz, user)
          \/ ModifyOrder(c, px, sz)
    \/ \E oid, px, sz \in Int : ModifyOrderByOid(oid, px, sz)
    \/ \E c \in Cloid : CancelOrder(c)
    \/ \E oid \in Int : CancelOrderByOid(oid)
    \/ \E c \in Cloid, price \in Int, size \in FillSize : FillOrder(c, price, size)
    \/ Receive

StoreSpec == StoreInit /\ [][StoreNext]_storeVars

-----------------------------------------------------------------------------
StoreTypeOK ==
    /\ DOMAIN orders \subseteq Key
    /\ \A k \in DOMAIN orders : orders[k] \in Order
    /\ orders = [k \in DOMAIN orders |-> orders[k]]
    /\ nextOid \in Nat
    /\ issued \in Seq(Key)
    /\ orderUpdatesCh \in Seq(Order)
    /\ Len(orderUpdatesCh) <= ChCap
    /\ DOMAIN seen \subseteq Key
    /\ \A k \in DOMAIN seen : seen[k] \in Order
    /\ lost \subseteq Key

\* Oids are dense: the i-th created order has oid BaseOid + i.
OidsDense == nextOid = BaseOid + Len(issued)

\* An entry sits under the key its own cloid normalises to, and under the key
\* its oid was created for.
KeysConsistent ==
    \A k \in DOMAIN orders :
        /\ KeyOf(orders[k]) = k
        /\ orders[k].oid \in (BaseOid + 1)..nextOid
        /\ issued[orders[k].oid - BaseOid] = k

\* An acknowledged order is displaced only by a younger one of the same key:
\* no oid that was handed out disappears in any other way.
NothingForgotten ==
    \A i \in 1..Len(issued) :
        /\ issued[i] \in DOMAIN orders
        /\ orders[issued[i]].oid >= BaseOid + i

StoreInv == OidsDense /\ KeysConsistent /\ NothingForgotten

\* An oid names one entry, so the scans that stop at the first match do not
\* depend on Go's random map order.
OidUnique ==
    \A k, l \in DOMAIN orders : orders[k].oid = orders[l].oid => k = l

\* A client that keeps the last update of each key has the stored order, or
\* will when the queue is drained, unless that key's last update was dropped.
LatestQueued(k) ==
    \E i \in 1..Len(orderUpdatesCh) :
        /\ orderUpdatesCh[i] = orders[k]
        /\ \A j \in (i+1)..Len(orderUpdatesCh) : KeyOf(orderUpdatesCh[j]) # k
LatestSeen(k) ==
    /\ \A i \in 1..Len(orderUpdatesCh) : KeyOf(orderUpdatesCh[i]) # k
    /\ k \in DOMAIN seen
    /\ seen[k] = orders[k]
CaughtUp ==
    \A k \in DOMAIN orders \ lost : LatestQueued(k) \/ LatestSeen(k)

\* The feed never steps back to a displaced order of the same key.
FeedInOidOrder ==
    \A i \in 1..Len(orderUpdatesCh) :
        LET u == orderUpdatesCh[i]
        IN  /\ u.oid <= nextOid
            /\ \A j \in (i+1)..Len(orderUpdatesCh) :
                  KeyOf(orderUpdatesCh[j]) = KeyOf(u) => u.oid <= orderUpdatesCh[j].oid
            /\ KeyOf(u) \in DOMAIN orders => u.oid <= orders[KeyOf(u)].oid
            /\ KeyOf(u) \in DOMAIN seen => seen[KeyOf(u)].oid <= u.oid

-----------------------------------------------------------------------------
\* The store as a ledger: one line per oid, holding its order as long as the
\* map still holds it.
LedgerView ==
    [i \in 1..Len(issued) |->
        [key   |-> issued[i],
         order |-> IF orders[issued[i]].oid = BaseOid + i
                   THEN orders[issued[i]] ELSE Retired]]

Ledger == INSTANCE OrderLedger WITH FirstOid <- BaseOid + 1, ledger <- LedgerView

\* The book is an append-only ledger: one order per step changes, and only as
\* its operation says (CreateOrder, the Modify, Cancel and Fill operations).
LedgerRefined == Ledger!LedgerSpec
=============================================================================
