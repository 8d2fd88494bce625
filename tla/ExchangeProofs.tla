---------------------------- MODULE ExchangeProofs ----------------------------
(***************************************************************************)
(* Theorems about the handlers.  Their steps are steps of the order book,  *)
(* so what OrderStoreProofs shows of the book under any callers holds of   *)
(* it under these; that needs the arguments of the calls to be of their    *)
(* types, which is the inductive invariant CallInv.                        *)
(***************************************************************************)
EXTENDS Exchange, OrderStoreProofs

\* The state of one goroutine: what it holds where it needs it.
CallOK(c) ==
    /\ c \in Call
    /\ c.pc # "idle" => c.req \in Requests
    /\ c.pc \in {"create", "echo"} => c.todo # << >>
    /\ c.pc = "create" => c.cloid \in Cloid
    /\ c.pc = "echo" => c.oid \in Int

CallInv == CallTypeOK /\ \A h \in Handlers : CallOK(call[h])

\* The entries and calls that clients and the driver can present.
LEMMA RequestFields ==
    ASSUME NEW r \in Requests
    PROVE  /\ r \in Request
           /\ r.user \in Address
           /\ r.oid \in Int \cup {NoOid}
           /\ r.cloid \in Cloid \cup {NoCloid}
           /\ r.items \in Seq(Item)
  BY ExchangeAssumption DEF Request

LEMMA CloidDigits == ASSUME NEW c \in Cloid PROVE c.n \in Int
  <1>1. c.n \in Nat
    BY DEF Cloid
  <1> QED
    BY <1>1

LEMMA EntryFields ==
    ASSUME CallInv, NEW h \in Handlers, call[h].todo # << >>
    PROVE  /\ Entry(h) \in Item
           /\ Entry(h).oid \in Int \cup {NoOid}
           /\ Entry(h).cloid \in Cloid \cup {NoCloid}
           /\ Entry(h).px \in Int /\ Entry(h).sz \in Int
           /\ Tail(call[h].todo) \in Seq(Item)
  <1>1. call[h].todo \in Seq(Item)
    BY DEF CallInv, CallOK, Call
  <1>2. Entry(h) \in Item /\ Tail(call[h].todo) \in Seq(Item)
    BY <1>1 DEF Entry
  <1> QED
    BY <1>2 DEF Item

-----------------------------------------------------------------------------
(***************************************************************************)
(* Every step of the handlers is a step of the book, or leaves it alone.   *)
(***************************************************************************)
LEMMA NextIsStoreStep == CallInv /\ [Next]_vars => [StoreNext]_storeVars
  <1> SUFFICES ASSUME CallInv, [Next]_vars PROVE [StoreNext]_storeVars
    OBVIOUS
  <1>1. ASSUME NEW h \in Handlers, ModifyByOid(h)
        PROVE  [StoreNext]_storeVars
    <2>1. CASE ModifyOrderByOid(Entry(h).oid, Entry(h).px, Entry(h).sz)
      <3>1. Entry(h).oid \in Int /\ Entry(h).px \in Int /\ Entry(h).sz \in Int
        BY <1>1, EntryFields DEF ModifyByOid, Working
      <3> QED
        BY <2>1, <3>1 DEF StoreNext
    <2> QED
      BY <1>1, <2>1 DEF ModifyByOid
  <1>2. ASSUME NEW h \in Handlers, ModifyByCloid(h)
        PROVE  [StoreNext]_storeVars
    <2>1. Entry(h).cloid \in Cloid /\ Entry(h).px \in Int /\ Entry(h).sz \in Int
      BY <1>2, EntryFields DEF ModifyByCloid, Working, Upserts
    <2> QED
      BY <1>2, <2>1 DEF ModifyByCloid, StoreNext
  <1>3. ASSUME NEW h \in Handlers, Create(h)
        PROVE  [StoreNext]_storeVars
    <2>1. /\ call[h].cloid \in Cloid /\ call[h].todo # << >>
          /\ call[h].req \in Requests
      BY <1>3 DEF Create, At, CallInv, CallOK
    <2>2. Entry(h).px \in Int /\ Entry(h).sz \in Int /\ Req(h).user \in Address
      BY <2>1, EntryFields, RequestFields DEF Req
    <2> QED
      BY <1>3, <2>1, <2>2 DEF Create, StoreNext
  <1>4. ASSUME NEW h \in Handlers, BatchModify(h)
        PROVE  [StoreNext]_storeVars
    <2> DEFINE it == Entry(h)
               px == BatchValue(it, it.px)   sz == BatchValue(it, it.sz)
    <2>1. /\ it.cloid # NoCloid => it.cloid \in Cloid
          /\ px \in Int /\ sz \in Int
      BY <1>4, EntryFields DEF BatchModify, Working, BatchValue
    <2>2. (it.cloid # NoCloid /\ ModifyOrder(it.cloid, px, sz)) \/ UNCHANGED storeVars
      BY <1>4 DEF BatchModify
    <2> HIDE DEF it, px, sz
    <2> QED
      BY <2>1, <2>2 DEF StoreNext
  <1>5. ASSUME NEW h \in Handlers, Cancel(h)
        PROVE  [StoreNext]_storeVars
    <2> DEFINE it == Entry(h)   oid == CancelOid(it)
    <2>1. /\ it.cloid # NoCloid => it.cloid \in Cloid
          /\ oid # NoOid => oid \in Int
      BY <1>5, EntryFields DEF Cancel, Working, CancelOid
    <2>2. \/ oid # NoOid /\ CancelOrderByOid(oid)
          \/ it.cloid # NoCloid /\ CancelOrder(it.cloid)
          \/ UNCHANGED storeVars
      BY <1>5 DEF Cancel
    <2> HIDE DEF it, oid
    <2> QED
      BY <2>1, <2>2 DEF StoreNext
  <1>6. CASE DriverFill
    <2>1. \A f \in Fills : f.cloid \in Cloid /\ f.px \in Int /\ f.size \in FillSize
      BY ExchangeAssumption DEF FillCall
    <2> QED
      BY <1>6, <2>1 DEF DriverFill, StoreNext
  <1>7. CASE Deliver
    BY <1>7 DEF Deliver, StoreNext
  <1>8. CASE UNCHANGED storeVars
    BY <1>8
  <1>9. ASSUME NEW h \in Handlers,
               \/ Begin(h) \/ Finish(h) \/ ResolveNumber(h) \/ ResolveCloid(h)
               \/ ResolveFails(h) \/ Echo(h) \/ NothingToModify(h)
        PROVE  UNCHANGED storeVars
    BY <1>9 DEF Begin, Finish, ResolveNumber, ResolveCloid, ResolveFails, ResolveTo,
                Echo, NothingToModify
  <1>10. CASE Quiet \/ UNCHANGED vars
    BY <1>8, <1>10 DEF Quiet, vars
  <1> QED
    BY <1>1, <1>2, <1>3, <1>4, <1>5, <1>6, <1>7, <1>8, <1>9, <1>10 DEF Next, Step

-----------------------------------------------------------------------------
(***************************************************************************)
(* Type correctness of the handlers.                                       *)
(***************************************************************************)

\* A step that gives one goroutine a good state keeps the invariant.
LEMMA CallUpdate ==
    ASSUME CallInv, NEW h \in Handlers, NEW c, CallOK(c),
           call' = [call EXCEPT ![h] = c],
           accepted' \in 0..MaxRequests, clock' \in 0..MaxClock, acked' \subseteq Int
    PROVE  CallInv'
  <1>1. call \in [Handlers -> Call] /\ c \in Call
    BY DEF CallInv, CallTypeOK, CallOK
  <1>2. call' \in [Handlers -> Call]
    BY <1>1
  <1>3. \A g \in Handlers : call'[g] = IF g = h THEN c ELSE call[g]
    BY <1>1
  <1>4. \A g \in Handlers : CallOK(call'[g])
    BY <1>3 DEF CallInv
  <1> QED
    BY <1>2, <1>4 DEF CallInv, CallTypeOK

\* The clock is within its bound.
LEMMA ClockStands == CallInv /\ clock' = clock => clock' \in clock..MaxClock
  BY ExchangeAssumption DEF CallInv, CallTypeOK

\* The two ways a busy goroutine moves on.
LEMMA MovesOn ==
    ASSUME CallInv, NEW h \in Handlers, call[h].pc # "idle", clock' \in clock..MaxClock,
           NEW pc \in {"item", "create", "echo"}, NEW todo \in Seq(Item),
           NEW c \in Cloid \cup {NoCloid}, NEW oid \in Int \cup {NoOid},
           NEW replies \in Seq(Reply),
           pc \in {"create", "echo"} => todo # << >>,
           pc = "create" => c \in Cloid, pc = "echo" => oid \in Int,
           Goes(h, pc, todo, c, oid, replies)
    PROVE  CallInv'
  <1> DEFINE n == [pc |-> pc, req |-> call[h].req, todo |-> todo,
                   cloid |-> c, oid |-> oid, replies |-> replies]
  <1>1. call[h].req \in Requests
    BY DEF CallInv, CallOK
  <1>2. CallOK(n)
    BY <1>1 DEF CallOK, Call
  <1>3. /\ call' = [call EXCEPT ![h] = n]
        /\ accepted' = accepted /\ acked' = acked
        /\ clock' \in 0..MaxClock
    BY DEF Goes, Req, CallInv, CallTypeOK
  <1> HIDE DEF n
  <1> QED
    BY <1>2, <1>3, CallUpdate DEF CallInv, CallTypeOK

LEMMA Answers ==
    ASSUME CallInv, NEW h \in Handlers, call[h].pc # "idle", clock' = clock,
           call[h].todo # << >>, NEW reply \in Reply, Answer(h, reply)
    PROVE  CallInv'
  <1>1. call[h].replies \in Seq(Reply) /\ call[h].todo \in Seq(Item)
    BY DEF CallInv, CallOK, Call
  <1>2. Append(call[h].replies, reply) \in Seq(Reply) /\ Tail(call[h].todo) \in Seq(Item)
    BY <1>1
  <1> QED
    BY <1>2, MovesOn, ClockStands DEF Answer, Past

LEMMA Skips ==
    ASSUME CallInv, NEW h \in Handlers, call[h].pc # "idle", clock' = clock,
           call[h].todo # << >>, Skip(h)
    PROVE  CallInv'
  <1>1. call[h].replies \in Seq(Reply) /\ call[h].todo \in Seq(Item)
    BY DEF CallInv, CallOK, Call
  <1>2. Tail(call[h].todo) \in Seq(Item)
    BY <1>1
  <1> QED
    BY <1>1, <1>2, MovesOn, ClockStands DEF Skip, Past

\* What the store answers with.
LEMMA StoredFields ==
    ASSUME StoreTypeOK
    PROVE  /\ \A c : Known(c) => GetOrder(c).oid \in Int
           /\ \A oid : KnownOid(oid) => GetOrderByOid(oid).cloid \in Cloid
           /\ nextOid \in Int
  BY DEF StoreTypeOK, Known, GetOrder, KnownOid, KeysOfOid, GetOrderByOid, Order

LEMMA RepliesAreReplies ==
    /\ Error \in Reply /\ Success \in Reply
    /\ \A oid \in Int, c \in Cloid \cup {NoCloid} : Resting(oid, c) \in Reply
  BY DEF Reply, Resting

LEMMA InitCall == Init => CallInv
  <1> SUFFICES ASSUME Init PROVE CallInv
    OBVIOUS
  <1>1. CallOK(IdleCall)
    BY DEF CallOK, IdleCall, Call
  <1> QED
    BY <1>1, ExchangeAssumption DEF Init, CallInv, CallTypeOK, CallOK

LEMMA StepCall == StoreTypeOK /\ CallInv /\ [Next]_vars => CallInv'
  <1> SUFFICES ASSUME StoreTypeOK, CallInv, [Next]_vars PROVE CallInv'
    OBVIOUS
  <1> USE ExchangeAssumption
  <1>1. ASSUME NEW h \in Handlers, Begin(h)
        PROVE  CallInv'
    <2>1. PICK r \in Requests :
            call' = [call EXCEPT ![h] =
                       [pc |-> IF r.type = "modify" THEN "resolve" ELSE "item",
                        req |-> r, todo |-> r.items,
                        cloid |-> NoCloid, oid |-> NoOid, replies |-> << >>]]
      BY <1>1 DEF Begin
    <2> DEFINE c == [pc |-> IF r.type = "modify" THEN "resolve" ELSE "item",
                     req |-> r, todo |-> r.items,
                     cloid |-> NoCloid, oid |-> NoOid, replies |-> << >>]
    <2>2. CallOK(c)
      BY RequestFields DEF CallOK, Call
    <2>3. /\ accepted' \in 0..MaxRequests /\ clock' \in 0..MaxClock
          /\ acked' \subseteq Int
      BY <1>1 DEF Begin, CallInv, CallTypeOK
    <2> HIDE DEF c
    <2> QED
      BY <2>1, <2>2, <2>3, CallUpdate DEF c
  <1>2. ASSUME NEW h \in Handlers, Finish(h)
        PROVE  CallInv'
    <2>1. call[h].replies \in Seq(Reply)
      BY DEF CallInv, CallOK, Call
    <2>2. \A i \in DOMAIN call[h].replies :
            call[h].replies[i].kind = "resting" => call[h].replies[i].oid \in Int
      BY <2>1 DEF Reply, Error, Success
    <2>3. acked' \subseteq Int
      BY <1>2, <2>2 DEF Finish, CallInv, CallTypeOK
    <2>4. CallOK(IdleCall)
      BY DEF CallOK, IdleCall, Call
    <2> QED
      BY <1>2, <2>3, <2>4, CallUpdate DEF Finish, CallInv, CallTypeOK
  <1>3. ASSUME NEW h \in Handlers, ResolveNumber(h) \/ ResolveCloid(h)
        PROVE  CallInv'
    <2>1. At(h, "resolve") /\ call[h].req \in Requests /\ call[h].pc # "idle"
      BY <1>3 DEF ResolveNumber, ResolveCloid, At, CallInv, CallOK
    <2>2. PICK oid \in Int : ResolveTo(h, oid)
      <3>1. /\ Req(h).oid # NoOid => Req(h).oid \in Int
            /\ Req(h).cloid # NoCloid => Req(h).cloid.n \in Int
        <4>1. Req(h).oid \in Int \cup {NoOid} /\ Req(h).cloid \in Cloid \cup {NoCloid}
          BY <2>1, RequestFields DEF Req
        <4> QED
          BY <4>1, CloidDigits
      <3>2. Known(Req(h).cloid) => GetOrder(Req(h).cloid).oid \in Int
        BY StoredFields
      <3>3. \/ Req(h).oid # NoOid /\ ResolveTo(h, Req(h).oid)
            \/ Req(h).cloid # NoCloid /\ ResolveTo(h, Req(h).cloid.n)
            \/ Known(Req(h).cloid) /\ ResolveTo(h, GetOrder(Req(h).cloid).oid)
        BY <1>3, Zenon DEF ResolveNumber, ResolveCloid
      <3> QED
        BY <3>1, <3>2, <3>3, Zenon
    <2>3. Entry(h) \in Item
      BY <2>2, EntryFields DEF ResolveTo
    <2>4. <<Inject(Entry(h), oid)>> \in Seq(Item)
      BY <2>3 DEF Inject, Item
    <2>5. << >> \in Seq(Reply)
      OBVIOUS
    <2>6. clock' = clock /\ Goes(h, "item", <<Inject(Entry(h), oid)>>, NoCloid, NoOid, << >>)
      BY <2>2 DEF ResolveTo
    <2> QED
      BY <2>1, <2>4, <2>5, <2>6, MovesOn, ClockStands
  <1>4. ASSUME NEW h \in Handlers, ResolveFails(h)
        PROVE  CallInv'
    <2>1. <<Error>> \in Seq(Reply) /\ << >> \in Seq(Item)
      BY RepliesAreReplies
    <2> QED
      BY <1>4, <2>1, MovesOn, ClockStands DEF ResolveFails, At
  <1>5. ASSUME NEW h \in Handlers, ModifyByOid(h)
        PROVE  CallInv'
    <2>1. /\ call[h].todo # << >> /\ call[h].pc # "idle" /\ clock' = clock
          /\ Entry(h).oid # NoOid
      BY <1>5 DEF ModifyByOid, Working, At
    <2>2. Entry(h).oid \in Int /\ call[h].todo \in Seq(Item) /\ call[h].replies \in Seq(Reply)
      BY <2>1, EntryFields DEF CallInv, CallOK, Call
    <2>3. CASE GoTo(h, "echo", NoCloid, Entry(h).oid)
      BY <2>1, <2>2, <2>3, MovesOn, ClockStands DEF GoTo
    <2>4. CASE Answer(h, Error)
      BY <2>1, <2>4, Answers, RepliesAreReplies
    <2> QED
      BY <1>5, <2>3, <2>4 DEF ModifyByOid
  <1>6. ASSUME NEW h \in Handlers, Echo(h)
        PROVE  CallInv'
    <2>1. /\ call[h].todo # << >> /\ call[h].pc # "idle" /\ clock' = clock
          /\ call[h].oid \in Int
      BY <1>6 DEF Echo, At, CallInv, CallOK
    <2> DEFINE r == Resting(call[h].oid, IF KnownOid(call[h].oid)
                                         THEN GetOrderByOid(call[h].oid).cloid
                                         ELSE NoCloid)
    <2>2. r \in Reply
      BY <2>1, RepliesAreReplies, StoredFields
    <2> QED
      BY <1>6, <2>1, <2>2, Answers DEF Echo
  <1>7. ASSUME NEW h \in Handlers, ModifyByCloid(h)
        PROVE  CallInv'
    <2>1. call[h].todo # << >> /\ call[h].pc # "idle" /\ clock' = clock
      BY <1>7 DEF ModifyByCloid, Working, At
    <2>2. Resting(GetOrder(Entry(h).cloid).oid, Entry(h).cloid) \in Reply
      BY <1>7, <2>1, EntryFields, RepliesAreReplies, StoredFields DEF ModifyByCloid
    <2> QED
      BY <1>7, <2>1, <2>2, Answers DEF ModifyByCloid
  <1>8. ASSUME NEW h \in Handlers, NothingToModify(h)
        PROVE  CallInv'
    <2>1. call[h].todo # << >> /\ call[h].pc # "idle"
      BY <1>8 DEF NothingToModify, Working, At
    <2>2. CASE Answer(h, Error) /\ clock' = clock
      BY <2>1, <2>2, Answers, RepliesAreReplies
    <2>3. ASSUME NEW c \in Cloid, GoTo(h, "create", c, NoOid), clock' \in clock..MaxClock
          PROVE  CallInv'
      <3>1. call[h].todo \in Seq(Item) /\ call[h].replies \in Seq(Reply)
        BY DEF CallInv, CallOK, Call
      <3> QED
        BY <2>1, <2>3, <3>1, MovesOn DEF GoTo
    <2>4. CASE GoTo(h, "create", Entry(h).cloid, NoOid) /\ clock' = clock /\ Upserts(Entry(h))
      BY <2>1, <2>3, <2>4, EntryFields, ClockStands DEF Upserts
    <2>5. CASE GoTo(h, "create", mockCloid(clock'), NoOid) /\ clock' \in clock..MaxClock
      <3>1. clock' \in Nat
        BY <2>5, ExchangeAssumption DEF CallInv, CallTypeOK
      <3>2. mockCloid(clock') \in Cloid
        BY <3>1 DEF mockCloid, Cloid
      <3> QED
        BY <2>3, <2>5, <3>2
    <2> QED
      BY <1>8, <2>2, <2>4, <2>5 DEF NothingToModify
  <1>9. ASSUME NEW h \in Handlers, Create(h)
        PROVE  CallInv'
    <2>1. /\ call[h].todo # << >> /\ call[h].pc # "idle" /\ clock' = clock
          /\ call[h].cloid \in Cloid
      BY <1>9 DEF Create, At, CallInv, CallOK
    <2>2. nextOid' \in Int
      BY <1>9 DEF Create, CreateOrder, StoreTypeOK
    <2>3. Resting(nextOid', call[h].cloid) \in Reply
      BY <2>1, <2>2, RepliesAreReplies
    <2> QED
      BY <1>9, <2>1, <2>3, Answers DEF Create
  <1>10. ASSUME NEW h \in Handlers, BatchModify(h)
         PROVE  CallInv'
    <2>1. call[h].todo # << >> /\ call[h].pc # "idle" /\ clock' = clock
      BY <1>10 DEF BatchModify, Working, At
    <2>2. Known(Entry(h).cloid) => Resting(GetOrder(Entry(h).cloid).oid, Entry(h).cloid) \in Reply
      BY <2>1, EntryFields, RepliesAreReplies, StoredFields
    <2>3. CASE Skip(h)
      BY <2>1, <2>3, Skips
    <2> QED
      BY <1>10, <2>1, <2>2, <2>3, Answers DEF BatchModify, ModifyOrder
  <1>11. ASSUME NEW h \in Handlers, Cancel(h)
         PROVE  CallInv'
    <2>1. call[h].todo # << >> /\ call[h].pc # "idle" /\ clock' = clock
      BY <1>11 DEF Cancel, Working, At
    <2>2. Answer(h, Success) \/ Answer(h, Error) \/ Skip(h)
      BY <1>11 DEF Cancel
    <2> QED
      BY <2>1, <2>2, Answers, Skips, RepliesAreReplies
  <1>12. CASE DriverFill \/ Deliver \/ Quiet \/ UNCHANGED vars
    BY <1>12 DEF DriverFill, Deliver, Quiet, vars, callVars, CallInv, CallTypeOK
  <1> QED
    BY <1>1, <1>2, <1>3, <1>4, <1>5, <1>6, <1>7, <1>8, <1>9, <1>10, <1>11, <1>12
    DEF Next, Step

-----------------------------------------------------------------------------
\* Both type invariants, which need each other: what the store answers is typed
\* because what the handlers pass it is.
LEMMA InvariantTypes == Init /\ [][Next]_vars => [](StoreTypeOK /\ CallInv)
  <1>1. Init => StoreTypeOK /\ CallInv
    BY InitType, InitCall DEF Init
  <1>2. (StoreTypeOK /\ CallInv) /\ [Next]_vars => (StoreTypeOK /\ CallInv)'
    BY NextIsStoreStep, StepType, StepCall
  <1> QED
    BY <1>1, <1>2, PTL

\* The handlers, the test driver and the broadcaster use the order book only
\* through its operations, with arguments of their types (handlers.go,
\* testserver.go FillOrder).
THEOREM ExchangeUsesStore == Spec => StoreSpec
  <1>1. Init => StoreInit
    BY DEF Init
  <1> QED
    BY <1>1, InvariantTypes, NextIsStoreStep, PTL DEF Spec, StoreSpec

\* Every request's goroutine, answer and argument has its type, for any number
\* of concurrent requests of any shape (handlers.go).
THEOREM ExchangeTypeCorrect == Spec => []TypeOK
  <1>1. StoreTypeOK /\ CallInv => TypeOK
    BY DEF TypeOK, CallInv
  <1> QED
    BY <1>1, InvariantTypes, PTL DEF Spec

\* Under concurrent requests oids stay dense and unique, entries sit under
\* their keys, and an oid disappears only when a younger order takes its key
\* (processOrder, handleModify, handleCancel, handleBatchModify).
THEOREM ExchangeSafe == Spec => [](StoreInv /\ OidUnique)
  BY ExchangeUsesStore, StoreSafe, OidsUnique, PTL

\* Under concurrent requests the update feed ends at the stored orders and
\* never falls back to a displaced one (BroadcastOrderUpdate).
THEOREM ExchangeFeed == Spec => [](CaughtUp /\ FeedInOidOrder)
  BY ExchangeUsesStore, FeedCatchesUp, FeedOrdered, PTL

\* The exchange implements the ledger of orders: whatever requests interleave,
\* each step places one order or changes one live one (handlers.go over
\* state.go).
THEOREM ExchangeImplementsLedger == Spec => LedgerRefined
  BY ExchangeUsesStore, StoreImplementsLedger, PTL
-----------------------------------------------------------------------------
(***************************************************************************)
(* What an answer names.  Between the lock of a handler and the next one   *)
(* other requests create, modify and cancel; what a handler has learnt     *)
(* stays true because an oid keeps the key it was issued for.  The parts   *)
(* of NameInv are operators of a goroutine's state c and of the oids       *)
(* issued (ids, up to last), so that they can be moved over a step.        *)
(***************************************************************************)
Names(r, ids, last) ==
    /\ r.oid \in (BaseOid + 1)..last
    /\ r.cloid # NoCloid => ids[r.oid - BaseOid] = canonicalizeCloidKey(r.cloid)
OfEntry(r, it, ids) == Upserts(it) => ids[r.oid - BaseOid] = canonicalizeCloidKey(it.cloid)

\* The statuses of an order request are those of its entries, in order.
Aligned(c, ids) ==
    /\ Len(c.replies) + Len(c.todo) = Len(c.req.items)
    /\ \A j \in 1..Len(c.todo) : c.todo[j] = c.req.items[Len(c.replies) + j]
    /\ \A i \in 1..Len(c.replies) :
          c.replies[i].kind = "resting" => OfEntry(c.replies[i], c.req.items[i], ids)
    /\ c.pc = "create" /\ Upserts(Head(c.todo)) => c.cloid = Head(c.todo).cloid

\* The oid that a modify request has injected is the one its reference names.
Targets(oid, r, ids, last) ==
    /\ oid # NoOid
    /\ IF RefersByCloid(r)
       THEN oid \in (BaseOid + 1)..last /\ ids[oid - BaseOid] = canonicalizeCloidKey(r.cloid)
       ELSE oid = IF r.oid # NoOid THEN r.oid ELSE r.cloid.n
Aimed(c, ids, last) ==
    /\ Len(c.todo) <= 1
    /\ c.todo # << >> /\ Head(c.todo).abbrev => Targets(Head(c.todo).oid, c.req, ids, last)

Holds(c, ids, last) ==
    /\ c.pc = "idle" => c.replies = << >>
    /\ c.pc = "resolve" => c.req.type = "modify"
    /\ c.pc \in {"create", "echo"} => c.req.type \in Orders
    /\ c.pc = "create" => Head(c.todo).oid = NoOid
    /\ c.pc = "echo" => Head(c.todo).oid # NoOid /\ c.oid \in (BaseOid + 1)..last
    /\ \A i \in 1..Len(c.replies) :
          c.replies[i].kind = "resting" => Names(c.replies[i], ids, last)
    /\ c.pc # "idle" /\ c.req.type = "order" => Aligned(c, ids)
    /\ c.pc \notin {"idle", "resolve"} /\ c.req.type = "modify" => Aimed(c, ids, last)

NameInv == \A h \in Handlers : Holds(call[h], issued, nextOid)

\* Oids are only ever added.
Grown ==
    /\ Len(issued) \in Nat /\ nextOid = BaseOid + Len(issued)
    /\ Len(issued') \in Nat /\ nextOid' = BaseOid + Len(issued')
    /\ nextOid <= nextOid'
    /\ \A i \in 1..Len(issued) : issued'[i] = issued[i]

LEMMA OidsGrow ==
    ASSUME StoreTypeOK, StoreInv, [StoreNext]_storeVars
    PROVE  Grown
  <1>0. StoreTypeOK' /\ StoreInv'
    BY StepType, StepInv
  <1>1. /\ Len(issued) \in Nat /\ nextOid = BaseOid + Len(issued) /\ BaseOid \in Nat
        /\ Len(issued') \in Nat /\ nextOid' = BaseOid + Len(issued') /\ issued \in Seq(Key)
    BY <1>0, StoreAssumption DEF StoreTypeOK, StoreInv, OidsDense
  <1>2. CASE \E o \in Order : Creation(o)
    <2>1. PICK o \in Order : issued' = Append(issued, KeyOf(o)) /\ nextOid' = nextOid + 1
      BY <1>2 DEF Creation
    <2>2. \A i \in 1..Len(issued) : issued'[i] = issued[i]
      BY <1>1, <2>1
    <2> QED
      BY <1>1, <2>1, <2>2 DEF Grown
  <1>3. CASE UNCHANGED <<issued, nextOid>>
    BY <1>1, <1>3 DEF Grown
  <1>4. (\E k \in DOMAIN orders, o \in Order : Rewrite(k, o)) \/ Receive \/ UNCHANGED storeVars
          => UNCHANGED <<issued, nextOid>>
    BY DEF Rewrite, Store, Receive, storeVars
  <1> QED
    BY <1>2, <1>3, <1>4, StepKinds

LEMMA NamesGrow ==
    ASSUME Grown
    PROVE  \A r : Names(r, issued, nextOid) =>
              /\ Names(r, issued', nextOid')
              /\ issued'[r.oid - BaseOid] = issued[r.oid - BaseOid]
  <1> SUFFICES ASSUME NEW r, Names(r, issued, nextOid)
               PROVE  /\ Names(r, issued', nextOid')
                      /\ issued'[r.oid - BaseOid] = issued[r.oid - BaseOid]
    OBVIOUS
  <1>1. r.oid \in (BaseOid + 1)..nextOid /\ r.oid - BaseOid \in 1..Len(issued) /\ BaseOid \in Nat
    BY StoreAssumption DEF Names, Grown
  <1>2. issued'[r.oid - BaseOid] = issued[r.oid - BaseOid]
    BY <1>1 DEF Grown
  <1>3. r.oid \in (BaseOid + 1)..nextOid'
    BY <1>1 DEF Grown
  <1> QED
    BY <1>2, <1>3 DEF Names

LEMMA HoldsGrow ==
    ASSUME Grown
    PROVE  \A c : Holds(c, issued, nextOid) => Holds(c, issued', nextOid')
  <1> SUFFICES ASSUME NEW c, Holds(c, issued, nextOid) PROVE Holds(c, issued', nextOid')
    OBVIOUS
  <1>0. /\ BaseOid \in Nat /\ \A oid \in (BaseOid + 1)..nextOid : oid \in (BaseOid + 1)..nextOid'
        /\ \A oid \in (BaseOid + 1)..nextOid : oid - BaseOid \in 1..Len(issued)
    BY StoreAssumption DEF Grown
  <1>1. \A i \in 1..Len(c.replies) : c.replies[i].kind = "resting" =>
            /\ Names(c.replies[i], issued', nextOid')
            /\ issued'[c.replies[i].oid - BaseOid] = issued[c.replies[i].oid - BaseOid]
    BY NamesGrow DEF Holds
  <1>2. Aligned(c, issued) /\ (c.pc # "idle" /\ c.req.type = "order") => Aligned(c, issued')
    BY <1>1 DEF Aligned, OfEntry
  <1>3. Aimed(c, issued, nextOid) => Aimed(c, issued', nextOid')
    BY <1>0 DEF Aimed, Targets, Grown
  <1> QED
    BY <1>0, <1>1, <1>2, <1>3 DEF Holds

LEMMA OneCallMoves ==
    ASSUME Grown, CallInv, NameInv, NEW h \in Handlers, NEW n,
           call' = [call EXCEPT ![h] = n], Holds(n, issued', nextOid')
    PROVE  NameInv'
  <1>1. \A g \in Handlers : call'[g] = IF g = h THEN n ELSE call[g]
    BY DEF CallInv, CallTypeOK
  <1>2. \A g \in Handlers : Holds(call'[g], issued', nextOid')
    BY <1>1, HoldsGrow DEF NameInv
  <1> QED
    BY <1>2 DEF NameInv

\* The entries that are left, and the statuses so far.
LEMMA CallSequences ==
    ASSUME CallInv, NEW h \in Handlers
    PROVE  /\ call[h].todo \in Seq(Item) /\ Len(call[h].todo) \in Nat
           /\ call[h].replies \in Seq(Reply) /\ Len(call[h].replies) \in Nat
           /\ call[h].todo # << >> =>
                 /\ Len(call[h].todo) > 0 /\ Entry(h) = call[h].todo[1]
                 /\ Tail(call[h].todo) \in Seq(Item)
                 /\ Len(Tail(call[h].todo)) = Len(call[h].todo) - 1
                 /\ \A j \in 1..Len(Tail(call[h].todo)) :
                       Tail(call[h].todo)[j] = call[h].todo[j + 1]
           /\ \A reply \in Reply :
                 /\ Len(Append(call[h].replies, reply)) = Len(call[h].replies) + 1
                 /\ Append(call[h].replies, reply)[Len(call[h].replies) + 1] = reply
                 /\ \A i \in 1..Len(call[h].replies) :
                       Append(call[h].replies, reply)[i] = call[h].replies[i]
  <1>1. call[h].todo \in Seq(Item) /\ call[h].replies \in Seq(Reply)
    BY DEF CallInv, CallOK, Call
  <1> QED
    BY <1>1 DEF Entry

\* A status for the next entry: it must name an oid issued by then, and that of
\* the entry's own cloid when the entry is an order that names one.
LEMMA AnswerNames ==
    ASSUME Grown, CallInv, NameInv, NEW h \in Handlers, NEW reply \in Reply,
           call[h].pc \in {"item", "create", "echo"}, call[h].todo # << >>,
           reply.kind = "resting" =>
              /\ Names(reply, issued', nextOid')
              /\ Req(h).type = "order" => OfEntry(reply, Entry(h), issued'),
           Answer(h, reply)
    PROVE  NameInv'
  <1> DEFINE c == call[h]
             n == [pc |-> "item", req |-> Req(h), todo |-> Tail(c.todo),
                   cloid |-> NoCloid, oid |-> NoOid, replies |-> Append(c.replies, reply)]
             m == Len(c.replies)
  <1>1. call' = [call EXCEPT ![h] = n]
    BY DEF Answer, Past, Goes
  <1>2. Holds(c, issued', nextOid')
    BY HoldsGrow DEF NameInv
  <1>3. /\ n.pc = "item" /\ n.req = c.req /\ m \in Nat /\ Len(c.todo) \in Nat
        /\ Len(n.replies) = m + 1 /\ n.replies[m + 1] = reply
        /\ \A i \in 1..m : n.replies[i] = c.replies[i]
        /\ Len(c.todo) > 0 /\ Entry(h) = c.todo[1]
        /\ Len(n.todo) = Len(c.todo) - 1
        /\ \A j \in 1..Len(n.todo) : n.todo[j] = c.todo[j + 1]
        /\ n.todo \in Seq(Item)
    BY CallSequences DEF Req
  <1>a. m = Len(c.replies)
    OBVIOUS
  <1> HIDE DEF n, m
  <1>b. \A i \in 1..(m + 1) : i = m + 1 \/ i \in 1..m
    BY <1>3
  <1>c. (m + 1) + Len(n.todo) = m + Len(c.todo)
    <2>1. \A k \in Nat : (m + 1) + (k - 1) = m + k
      BY <1>3
    <2> QED
      BY <1>3, <2>1
  <1>d. \A j \in 1..Len(n.todo) : j + 1 \in 1..Len(c.todo) /\ m + (j + 1) = (m + 1) + j
    BY <1>3
  <1>4. \A i \in 1..Len(n.replies) :
            n.replies[i].kind = "resting" => Names(n.replies[i], issued', nextOid')
    BY <1>2, <1>3, <1>a, <1>b DEF Holds
  <1>5. ASSUME c.req.type = "order" PROVE Aligned(n, issued')
    <2>1. Aligned(c, issued')
      BY <1>2, <1>5 DEF Holds
    <2>2. Len(n.replies) + Len(n.todo) = Len(n.req.items)
      BY <1>3, <1>a, <1>c, <2>1 DEF Aligned
    <2>3. \A j \in 1..Len(n.todo) : n.todo[j] = n.req.items[Len(n.replies) + j]
      BY <1>3, <1>a, <1>d, <2>1 DEF Aligned
    <2>4. Entry(h) = n.req.items[m + 1]
      BY <1>3, <1>a, <2>1 DEF Aligned
    <2>5. \A i \in 1..Len(n.replies) :
            n.replies[i].kind = "resting" => OfEntry(n.replies[i], n.req.items[i], issued')
      BY <1>3, <1>5, <1>a, <1>b, <2>1, <2>4 DEF Aligned, Req
    <2> QED
      BY <1>3, <2>2, <2>3, <2>5 DEF Aligned
  <1>6. ASSUME c.req.type = "modify" PROVE Aimed(n, issued', nextOid')
    <2>1. Len(c.todo) <= 1
      BY <1>2, <1>6 DEF Holds, Aimed
    <2>2. n.todo = << >>
      BY <1>3, <2>1
    <2> QED
      BY <2>2 DEF Aimed
  <1>7. Holds(n, issued', nextOid')
    BY <1>3, <1>4, <1>5, <1>6 DEF Holds
  <1> QED
    BY <1>1, <1>7, OneCallMoves

\* On to another point of the same entry.
LEMMA GoToNames ==
    ASSUME Grown, CallInv, NameInv, NEW h \in Handlers, NEW pc \in {"create", "echo"},
           NEW c, NEW oid, call[h].pc = "item", Req(h).type \in Orders, GoTo(h, pc, c, oid),
           pc = "create" => /\ Entry(h).oid = NoOid
                            /\ Upserts(Entry(h)) => c = Entry(h).cloid,
           pc = "echo" => Entry(h).oid # NoOid /\ oid \in (BaseOid + 1)..nextOid'
    PROVE  NameInv'
  <1> DEFINE n == [pc |-> pc, req |-> Req(h), todo |-> call[h].todo,
                   cloid |-> c, oid |-> oid, replies |-> call[h].replies]
  <1>1. call' = [call EXCEPT ![h] = n]
    BY DEF GoTo, Goes
  <1>2. Holds(call[h], issued', nextOid')
    BY HoldsGrow DEF NameInv
  <1>3. /\ n.pc = pc /\ n.req = call[h].req /\ n.todo = call[h].todo /\ n.cloid = c /\ n.oid = oid
        /\ n.replies = call[h].replies
        /\ Entry(h) = Head(call[h].todo) /\ Req(h) = call[h].req
    BY DEF Req, Entry
  <1> HIDE DEF n
  <1>4. Aligned(call[h], issued') => Aligned(n, issued')
    BY <1>3 DEF Aligned
  <1>5. Aimed(call[h], issued', nextOid') => Aimed(n, issued', nextOid')
    BY <1>3 DEF Aimed
  <1>6. Holds(n, issued', nextOid')
    BY <1>2, <1>3, <1>4, <1>5 DEF Holds
  <1> QED
    BY <1>1, <1>6, OneCallMoves

\* handleModify injects the oid its reference names.
LEMMA ResolveNames ==
    ASSUME Grown, CallInv, NameInv, NEW h \in Handlers, NEW oid \in Int,
           call[h].pc = "resolve", ResolveTo(h, oid), Targets(oid, Req(h), issued', nextOid')
    PROVE  NameInv'
  <1> DEFINE n == [pc |-> "item", req |-> Req(h), todo |-> <<Inject(Entry(h), oid)>>,
                   cloid |-> NoCloid, oid |-> NoOid, replies |-> << >>]
  <1>1. call' = [call EXCEPT ![h] = n]
    BY DEF ResolveTo, Goes
  <1>2. Req(h).type = "modify"
    BY DEF NameInv, Holds, Req
  <1>3. Entry(h) \in Item
    BY CallSequences DEF ResolveTo
  <1>4. Inject(Entry(h), oid).abbrev => Inject(Entry(h), oid).oid = oid
    BY <1>3 DEF Inject, Item
  <1>5. Aimed(n, issued', nextOid')
    BY <1>4 DEF Aimed
  <1>6. /\ n.pc = "item" /\ n.req = Req(h) /\ n.replies = << >>
    OBVIOUS
  <1> HIDE DEF n
  <1>7. Holds(n, issued', nextOid')
    BY <1>2, <1>5, <1>6 DEF Holds
  <1> QED
    BY <1>1, <1>7, OneCallMoves

\* What the book knows of the orders that a handler finds in it.
LEMMA StoredNames ==
    ASSUME StoreTypeOK, StoreInv
    PROVE  /\ \A k \in DOMAIN orders :
                 orders[k].oid \in (BaseOid + 1)..nextOid /\ issued[orders[k].oid - BaseOid] = k
           /\ \A c : Known(c) => Names(Resting(GetOrder(c).oid, c), issued, nextOid)
           /\ \A oid : KnownOid(oid) =>
                 /\ oid \in (BaseOid + 1)..nextOid
                 /\ issued[oid - BaseOid] = canonicalizeCloidKey(GetOrderByOid(oid).cloid)
  <1>1. \A k \in DOMAIN orders : /\ KeyOf(orders[k]) = k
                                 /\ orders[k].oid \in (BaseOid + 1)..nextOid
                                 /\ issued[orders[k].oid - BaseOid] = k
    BY DEF StoreInv, KeysConsistent
  <1>2. ASSUME NEW c, Known(c) PROVE Names(Resting(GetOrder(c).oid, c), issued, nextOid)
    BY <1>1, <1>2 DEF Known, GetOrder, Names, Resting
  <1>3. ASSUME NEW oid, KnownOid(oid)
        PROVE  /\ oid \in (BaseOid + 1)..nextOid
               /\ issued[oid - BaseOid] = canonicalizeCloidKey(GetOrderByOid(oid).cloid)
    <2> DEFINE k == CHOOSE k \in DOMAIN orders : orders[k].oid = oid
    <2>1. k \in DOMAIN orders /\ orders[k].oid = oid
      BY <1>3 DEF KnownOid, KeysOfOid
    <2>2. GetOrderByOid(oid) = orders[k]
      BY DEF GetOrderByOid
    <2> HIDE DEF k
    <2> QED
      BY <1>1, <2>1, <2>2 DEF KeyOf
  <1> QED
    BY <1>1, <1>2, <1>3

LEMMA CreateNames ==
    ASSUME StoreTypeOK, Grown, NEW c \in Cloid, NEW px \in Int, NEW sz \in Int,
           NEW user \in Address, CreateOrder(c, px, sz, user)
    PROVE  /\ Names(Resting(nextOid', c), issued', nextOid')
           /\ issued'[nextOid' - BaseOid] = canonicalizeCloidKey(c)
  <1>1. /\ issued \in Seq(Key) /\ canonicalizeCloidKey(c) \in Key /\ BaseOid \in Nat
        /\ issued' = Append(issued, canonicalizeCloidKey(c)) /\ nextOid' = nextOid + 1
    BY CanonicalIsKey, StoreAssumption DEF StoreTypeOK, CreateOrder
  <1>2. nextOid' - BaseOid = Len(issued) + 1 /\ nextOid' \in (BaseOid + 1)..nextOid'
    BY <1>1 DEF Grown
  <1>3. issued'[Len(issued) + 1] = canonicalizeCloidKey(c)
    BY <1>1
  <1> QED
    BY <1>2, <1>3 DEF Names, Resting

LEMMA InitNames == Init => NameInv
  BY DEF Init, NameInv, Holds, IdleCall

LEMMA StepNames ==
    StoreTypeOK /\ StoreInv /\ CallInv /\ NameInv /\ [Next]_vars => NameInv'
  <1> SUFFICES ASSUME StoreTypeOK, StoreInv, CallInv, NameInv, [Next]_vars PROVE NameInv'
    OBVIOUS
  <1> USE ExchangeAssumption
  <1>0. Grown
    BY NextIsStoreStep, OidsGrow
  \* What was true of a name before the step is still.
  <1>a. \A r : Names(r, issued, nextOid) =>
          Names(r, issued', nextOid') /\ issued'[r.oid - BaseOid] = issued[r.oid - BaseOid]
    BY <1>0, NamesGrow
  <1>b. /\ Error.kind # "resting" /\ Success.kind # "resting" /\ Error \in Reply /\ Success \in Reply
        /\ \A oid, c : /\ Resting(oid, c).kind = "resting"
                       /\ Resting(oid, c).oid = oid /\ Resting(oid, c).cloid = c
    BY DEF Error, Success, Resting, Reply
  <1>c. \A oid \in (BaseOid + 1)..nextOid : oid \in (BaseOid + 1)..nextOid' /\ oid \in Int
                                            /\ issued'[oid - BaseOid] = issued[oid - BaseOid]
    BY <1>0, StoreAssumption DEF Grown
  <1>1. ASSUME NEW h \in Handlers, Begin(h)
        PROVE  NameInv'
    <2>1. PICK r \in Requests :
            call' = [call EXCEPT ![h] =
                       [pc |-> IF r.type = "modify" THEN "resolve" ELSE "item",
                        req |-> r, todo |-> r.items,
                        cloid |-> NoCloid, oid |-> NoOid, replies |-> << >>]]
      BY <1>1 DEF Begin
    <2> DEFINE c == [pc |-> IF r.type = "modify" THEN "resolve" ELSE "item",
                     req |-> r, todo |-> r.items,
                     cloid |-> NoCloid, oid |-> NoOid, replies |-> << >>]
    <2>2. r.items \in Seq(Item) /\ Len(r.items) \in Nat
      BY RequestFields
    <2>3. Aligned(c, issued')
      BY <2>2 DEF Aligned
    <2>4. Holds(c, issued', nextOid')
      BY <2>3 DEF Holds
    <2> HIDE DEF c
    <2> QED
      BY <1>0, <2>1, <2>4, OneCallMoves DEF c
  <1>2. ASSUME NEW h \in Handlers, Finish(h)
        PROVE  NameInv'
    <2>1. Holds(IdleCall, issued', nextOid')
      BY DEF Holds, IdleCall
    <2> QED
      BY <1>0, <1>2, <2>1, OneCallMoves DEF Finish
  <1>3. ASSUME NEW h \in Handlers, ResolveNumber(h)
        PROVE  NameInv'
    <2>1. call[h].pc = "resolve" /\ Req(h) \in Requests
      BY <1>3 DEF ResolveNumber, At, Req, CallInv, CallOK
    <2>2. Req(h).oid \in Int \cup {NoOid} /\ Req(h).cloid \in Cloid \cup {NoCloid}
      BY <2>1, RequestFields
    <2>3. CASE Req(h).oid # NoOid /\ ResolveTo(h, Req(h).oid)
      <3>1. Targets(Req(h).oid, Req(h), issued', nextOid')
        BY <2>3 DEF Targets, RefersByCloid
      <3> QED
        BY <1>0, <2>1, <2>2, <2>3, <3>1, ResolveNames
    <2>4. CASE /\ Req(h).oid = NoOid /\ Req(h).cloid # NoCloid
               /\ LooksLikeOid(Req(h).cloid) /\ ResolveTo(h, Req(h).cloid.n)
      <3>1. Req(h).cloid.n \in Int
        BY <2>2, <2>4, CloidDigits
      <3>2. Targets(Req(h).cloid.n, Req(h), issued', nextOid')
        BY <2>4, <3>1 DEF Targets, RefersByCloid
      <3> QED
        BY <1>0, <2>1, <2>4, <3>1, <3>2, ResolveNames
    <2> QED
      BY <1>3, <2>3, <2>4 DEF ResolveNumber
  <1>4. ASSUME NEW h \in Handlers, ResolveCloid(h)
        PROVE  NameInv'
    <2> DEFINE oid == GetOrder(Req(h).cloid).oid
    <2>1. /\ call[h].pc = "resolve" /\ RefersByCloid(Req(h)) /\ Known(Req(h).cloid)
          /\ ResolveTo(h, oid)
      BY <1>4 DEF ResolveCloid, At
    <2>2. oid \in (BaseOid + 1)..nextOid /\ issued[oid - BaseOid] = canonicalizeCloidKey(Req(h).cloid)
      BY <2>1, StoredNames DEF GetOrder, Known
    <2>3. oid \in Int /\ Targets(oid, Req(h), issued', nextOid')
      BY <1>c, <2>1, <2>2 DEF Targets
    <2> HIDE DEF oid
    <2> QED
      BY <1>0, <2>1, <2>3, ResolveNames
  <1>5. ASSUME NEW h \in Handlers, ResolveFails(h)
        PROVE  NameInv'
    <2> DEFINE n == [pc |-> "item", req |-> Req(h), todo |-> << >>,
                     cloid |-> NoCloid, oid |-> NoOid, replies |-> <<Error>>]
    <2>1. call' = [call EXCEPT ![h] = n]
      BY <1>5 DEF ResolveFails, Goes
    <2>2. Req(h).type = "modify"
      BY <1>5 DEF ResolveFails, At, NameInv, Holds, Req
    <2>3. Aimed(n, issued', nextOid')
      BY DEF Aimed
    <2>4. Holds(n, issued', nextOid')
      BY <1>b, <2>2, <2>3 DEF Holds
    <2> HIDE DEF n
    <2> QED
      BY <1>0, <2>1, <2>4, OneCallMoves
  <1>6. ASSUME NEW h \in Handlers, ModifyByOid(h)
        PROVE  NameInv'
    <2>1. /\ call[h].pc = "item" /\ call[h].todo # << >> /\ Req(h).type \in Orders
          /\ Entry(h).oid # NoOid
      BY <1>6 DEF ModifyByOid, Working, At
    <2>2. CASE /\ ModifyOrderByOid(Entry(h).oid, Entry(h).px, Entry(h).sz)
               /\ GoTo(h, "echo", NoCloid, Entry(h).oid)
      <3>1. Entry(h).oid \in (BaseOid + 1)..nextOid
        BY <2>2, StoredNames DEF ModifyOrderByOid, KeysOfOid
      <3> QED
        BY <1>0, <1>c, <2>1, <2>2, <3>1, GoToNames
    <2>3. CASE Answer(h, Error)
      BY <1>0, <1>b, <2>1, <2>3, AnswerNames
    <2> QED
      BY <1>6, <2>2, <2>3 DEF ModifyByOid
  <1>7. ASSUME NEW h \in Handlers, Echo(h)
        PROVE  NameInv'
    <2> DEFINE oid == call[h].oid
               c == IF KnownOid(oid) THEN GetOrderByOid(oid).cloid ELSE NoCloid
    <2>1. /\ call[h].pc = "echo" /\ call[h].todo # << >> /\ Answer(h, Resting(oid, c))
      BY <1>7 DEF Echo, At, CallInv, CallOK
    <2>2. Entry(h).oid # NoOid /\ oid \in (BaseOid + 1)..nextOid
      BY <2>1 DEF NameInv, Holds, Entry
    <2>3. c # NoCloid => issued[oid - BaseOid] = canonicalizeCloidKey(c)
      BY StoredNames
    <2>4. c \in Cloid \cup {NoCloid}
      BY StoredFields
    <2> HIDE DEF oid, c
    <2>5. Names(Resting(oid, c), issued, nextOid)
      BY <1>b, <2>2, <2>3 DEF Names
    <2>6. Resting(oid, c) \in Reply
      BY <1>c, <2>2, <2>4, RepliesAreReplies
    <2>7. OfEntry(Resting(oid, c), Entry(h), issued')
      BY <2>2 DEF OfEntry, Upserts
    <2> QED
      BY <1>0, <1>a, <2>1, <2>5, <2>6, <2>7, AnswerNames
  <1>8. ASSUME NEW h \in Handlers, ModifyByCloid(h)
        PROVE  NameInv'
    <2> DEFINE c == Entry(h).cloid   r == Resting(GetOrder(c).oid, c)
    <2>1. /\ call[h].pc = "item" /\ call[h].todo # << >> /\ Known(c) /\ Answer(h, r)
      BY <1>8 DEF ModifyByCloid, Working, At
    <2>2. r \in Reply
      BY <2>1, EntryFields, RepliesAreReplies, StoredFields
    <2>3. Names(r, issued, nextOid) /\ issued[r.oid - BaseOid] = canonicalizeCloidKey(c)
      BY <1>b, <2>1, StoredNames DEF GetOrder, Known
    <2> HIDE DEF r
    <2>4. Names(r, issued', nextOid') /\ OfEntry(r, Entry(h), issued')
      BY <1>a, <2>3 DEF OfEntry
    <2> QED
      BY <1>0, <2>1, <2>2, <2>4, AnswerNames
  <1>9. ASSUME NEW h \in Handlers, NothingToModify(h)
        PROVE  NameInv'
    <2>1. /\ call[h].pc = "item" /\ call[h].todo # << >> /\ Req(h).type \in Orders
          /\ Entry(h).oid = NoOid
      BY <1>9 DEF NothingToModify, Working, At
    <2>2. CASE Answer(h, Error)
      BY <1>0, <1>b, <2>1, <2>2, AnswerNames
    <2>3. CASE Upserts(Entry(h)) /\ GoTo(h, "create", Entry(h).cloid, NoOid)
      BY <1>0, <2>1, <2>3, GoToNames
    <2>4. CASE ~Upserts(Entry(h)) /\ GoTo(h, "create", mockCloid(clock'), NoOid)
      BY <1>0, <2>1, <2>4, GoToNames
    <2> QED
      BY <1>9, <2>2, <2>3, <2>4 DEF NothingToModify
  <1>10. ASSUME NEW h \in Handlers, Create(h)
         PROVE  NameInv'
    <2> DEFINE r == Resting(nextOid', call[h].cloid)
    <2>1. /\ call[h].pc = "create" /\ call[h].todo # << >> /\ call[h].cloid \in Cloid
          /\ call[h].req \in Requests /\ Answer(h, r)
          /\ CreateOrder(call[h].cloid, Entry(h).px, Entry(h).sz, Req(h).user)
      BY <1>10 DEF Create, At, CallInv, CallOK
    <2>2. /\ Names(r, issued', nextOid')
          /\ issued'[nextOid' - BaseOid] = canonicalizeCloidKey(call[h].cloid)
      <3>1. Entry(h).px \in Int /\ Entry(h).sz \in Int /\ Req(h).user \in Address
        BY <2>1, EntryFields, RequestFields DEF Req
      <3> QED
        BY <1>0, <2>1, <3>1, CreateNames
    <2>3. r \in Reply
      <3>1. nextOid' \in Int
        BY <1>0, StoreAssumption DEF Grown
      <3> QED
        BY <2>1, <3>1, RepliesAreReplies
    <2>4. Req(h).type = "order" => OfEntry(r, Entry(h), issued')
      <3>1. Req(h).type = "order" /\ Upserts(Entry(h)) => call[h].cloid = Entry(h).cloid
        BY <2>1 DEF NameInv, Holds, Aligned, Req, Entry
      <3> QED
        BY <1>b, <2>2, <3>1 DEF OfEntry
    <2> HIDE DEF r
    <2> QED
      BY <1>0, <2>1, <2>2, <2>3, <2>4, AnswerNames
  <1>11. ASSUME NEW h \in Handlers, call[h].pc = "item", call[h].todo # << >>,
                Req(h).type \notin Orders, Skip(h)
         PROVE  NameInv'
    <2> DEFINE n == [pc |-> "item", req |-> Req(h), todo |-> Tail(call[h].todo),
                     cloid |-> NoCloid, oid |-> NoOid, replies |-> call[h].replies]
    <2>1. call' = [call EXCEPT ![h] = n]
      BY <1>11 DEF Skip, Past, Goes
    <2>2. Holds(call[h], issued', nextOid')
      BY <1>0, HoldsGrow DEF NameInv
    <2>3. Holds(n, issued', nextOid')
      BY <1>11, <2>2 DEF Holds, Orders
    <2> HIDE DEF n
    <2> QED
      BY <1>0, <2>1, <2>3, OneCallMoves
  <1>12. ASSUME NEW h \in Handlers, BatchModify(h)
         PROVE  NameInv'
    <2> DEFINE c == Entry(h).cloid   r == Resting(GetOrder(c).oid, c)
    <2>1. call[h].pc = "item" /\ call[h].todo # << >> /\ Req(h).type = "batchModify"
      BY <1>12 DEF BatchModify, Working, At
    <2>2. CASE Skip(h)
      BY <1>11, <2>1, <2>2 DEF Orders
    <2>3. CASE Known(c) /\ Answer(h, r)
      <3>1. r \in Reply
        BY <2>1, <2>3, EntryFields, RepliesAreReplies, StoredFields
      <3>2. Names(r, issued', nextOid')
        BY <1>a, <2>3, StoredNames
      <3> HIDE DEF r
      <3> QED
        BY <1>0, <2>1, <2>3, <3>1, <3>2, AnswerNames
    <2> QED
      BY <1>12, <2>2, <2>3 DEF BatchModify, ModifyOrder
  <1>13. ASSUME NEW h \in Handlers, Cancel(h)
         PROVE  NameInv'
    <2>1. call[h].pc = "item" /\ call[h].todo # << >> /\ Req(h).type = "cancel"
      BY <1>13 DEF Cancel, Working, At
    <2>2. Answer(h, Success) \/ Answer(h, Error) \/ Skip(h)
      BY <1>13 DEF Cancel
    <2> QED
      BY <1>0, <1>11, <1>b, <2>1, <2>2, AnswerNames DEF Orders
  <1>14. CASE UNCHANGED call
    BY <1>0, <1>14, HoldsGrow DEF NameInv
  <1> QED
    BY <1>1, <1>2, <1>3, <1>4, <1>5, <1>6, <1>7, <1>8, <1>9, <1>10, <1>12, <1>13, <1>14
    DEF Next, Step, DriverFill, Deliver, Quiet, vars, callVars

LEMMA InvariantNames ==
    Init /\ [][Next]_vars => [](StoreTypeOK /\ StoreInv /\ CallInv /\ NameInv)
  <1>1. Init => StoreInv
    BY InitInv DEF Init
  <1>2. StoreTypeOK /\ CallInv /\ StoreInv /\ [Next]_vars => StoreInv'
    BY NextIsStoreStep, StepInv
  <1> QED
    BY <1>1, <1>2, InvariantTypes, InitNames, StepNames, PTL

LEMMA NamesReplied == CallInv /\ NameInv => RepliesNameTheirOrders
  <1> SUFFICES ASSUME CallInv, NameInv, NEW h \in Handlers, NEW i \in DOMAIN call[h].replies,
                      call[h].replies[i].kind = "resting"
               PROVE  LET r == call[h].replies[i]
                      IN  /\ NamesIssued(r)
                          /\ (Req(h).type = "order" /\ Upserts(Req(h).items[i])) =>
                                issued[r.oid - BaseOid]
                                  = canonicalizeCloidKey(Req(h).items[i].cloid)
    BY DEF RepliesNameTheirOrders
  <1>1. i \in 1..Len(call[h].replies)
    BY CallSequences
  <1>2. Holds(call[h], issued, nextOid)
    BY DEF NameInv
  <1>3. Names(call[h].replies[i], issued, nextOid)
    BY <1>1, <1>2 DEF Holds
  <1>4. call[h].pc # "idle"
    BY <1>1, <1>2 DEF Holds
  <1>5. Req(h).type = "order" => OfEntry(call[h].replies[i], Req(h).items[i], issued)
    BY <1>1, <1>2, <1>4 DEF Holds, Aligned, Req
  <1> QED
    BY <1>3, <1>5 DEF Names, NamesIssued, OfEntry

\* A "resting" status names the order it is about, whatever the requests do that
\* run between the steps of this one: its oid has been handed out, the cloid it
\* echoes is a spelling of the key that oid was created under, and so is the
\* cloid of the entry it answers, when the entry names its order by one
\* (processOrder, handleBatchModify), for any requests and any number of them.
THEOREM StatusesNameOrders == Spec => []RepliesNameTheirOrders
  BY NamesReplied, InvariantNames, PTL DEF Spec

-----------------------------------------------------------------------------
(***************************************************************************)
(* What a modify changes.                                                  *)
(***************************************************************************)
HitsTarget ==
    \A h \in Handlers :
        (/\ call'[h] # call[h] /\ orders' # orders
         /\ Req(h) # NoRequest /\ Req(h).type = "modify" /\ Entry(h).abbrev) =>
           \E k \in Referenced(Req(h)) : orders' = [orders EXCEPT ![k] = orders'[k]]

\* Only the goroutine in a slot changes the state of that slot.
LEMMA OwnStep ==
    ASSUME CallInv, [Next]_vars, NEW h \in Handlers, call'[h] # call[h]
    PROVE  Begin(h) \/ Step(h)
  <1>1. ASSUME NEW g \in Handlers, Begin(g) \/ Step(g), g # h PROVE FALSE
    <2>1. PICK n : call' = [call EXCEPT ![g] = n]
      BY <1>1 DEF Begin, Step, ResolveNumber, ResolveCloid, ResolveFails, ResolveTo, ModifyByOid,
                  Echo, ModifyByCloid, NothingToModify, Create, BatchModify, Cancel, Finish,
                  GoTo, Answer, Skip, Past, Goes
    <2> QED
      BY <1>1, <2>1 DEF CallInv, CallTypeOK
  <1>2. ~(DriverFill \/ Deliver \/ Quiet \/ UNCHANGED vars)
    BY DEF DriverFill, Deliver, Quiet, vars, callVars
  <1> QED
    BY <1>1, <1>2 DEF Next

LEMMA StepHitsTarget ==
    StoreTypeOK /\ StoreInv /\ CallInv /\ NameInv /\ [Next]_vars => HitsTarget
  <1> SUFFICES ASSUME StoreTypeOK, StoreInv, CallInv, NameInv, [Next]_vars,
                      NEW h \in Handlers, call'[h] # call[h], orders' # orders,
                      Req(h).type = "modify", Entry(h).abbrev
               PROVE  \E k \in Referenced(Req(h)) : orders' = [orders EXCEPT ![k] = orders'[k]]
    BY DEF HitsTarget
  <1>1. ModifyByOid(h) \/ ModifyByCloid(h) \/ Create(h)
    <2>1. ~(BatchModify(h) \/ Cancel(h))
      BY DEF BatchModify, Cancel, Working
    <2>2. ~(Begin(h) \/ ResolveNumber(h) \/ ResolveCloid(h) \/ ResolveFails(h)
            \/ Echo(h) \/ NothingToModify(h) \/ Finish(h))
      BY DEF Begin, ResolveNumber, ResolveCloid, ResolveFails, ResolveTo, Echo, NothingToModify,
             Finish, storeVars
    <2> QED
      BY <2>1, <2>2, OwnStep DEF Step
  <1>2. call[h].pc \in {"item", "create"} /\ call[h].todo # << >> /\ Entry(h) = Head(call[h].todo)
    BY <1>1 DEF ModifyByOid, ModifyByCloid, Create, Working, At, CallInv, CallOK, Entry
  <1>3. Targets(Entry(h).oid, Req(h), issued, nextOid)
    BY <1>2 DEF NameInv, Holds, Aimed, Req
  \* The injected oid rules out the other two.
  <1>4. ModifyByOid(h)
    BY <1>1, <1>2, <1>3 DEF ModifyByCloid, Create, Upserts, At, NameInv, Holds, Targets
  <1>5. orders' # orders /\ ModifyOrderByOid(Entry(h).oid, Entry(h).px, Entry(h).sz)
    BY <1>4 DEF ModifyByOid, storeVars
  <1>6. PICK k \in KeysOfOid(Entry(h).oid) : \E o : orders' = [orders EXCEPT ![k] = o]
    BY <1>5 DEF ModifyOrderByOid, Store
  <1>7. k \in DOMAIN orders /\ orders[k].oid = Entry(h).oid /\ issued[Entry(h).oid - BaseOid] = k
    BY <1>6, StoredNames DEF KeysOfOid
  <1>8. k \in Referenced(Req(h))
    BY <1>3, <1>7 DEF Targets, Referenced
  <1>9. orders' = [orders EXCEPT ![k] = orders'[k]]
    BY <1>6, <1>7
  <1> QED
    BY <1>8, <1>9

\* A modify in the abbreviated format changes the order its reference named when
\* it was resolved, or none, however the book moves between that lock and the
\* next (handleModify, processOrder): an oid is never given to another order,
\* and a displaced one is not found.
THEOREM ModifiesHitTheirTarget == Spec => ModifyHitsTarget
  <1>1. Spec => [][HitsTarget]_vars
    BY InvariantNames, StepHitsTarget, PTL DEF Spec
  <1> QED
    BY <1>1 DEF HitsTarget, ModifyHitsTarget

-----------------------------------------------------------------------------
(***************************************************************************)
(* What a query of an order returns.                                       *)
(***************************************************************************)
\* Every spelling of a cloid is a cloid of the same key.
LEMMA SpellingsShareKey ==
    ASSUME NEW c \in Cloid, NEW d \in Spellings(c)
    PROVE  d \in Cloid /\ canonicalizeCloidKey(d) = canonicalizeCloidKey(c)
  <1>1. d \in Cloid /\ d.kind = c.kind /\ d.n = c.n
    BY DEF Spellings, Cloid
  <1>2. d = c \/ (c.prefix # "" /\ d.prefix # "")
    BY DEF Spellings
  <1>3. \A e \in Cloid : e.prefix # "" =>
          canonicalizeCloidKey(e) = [kind |-> e.kind, n |-> e.n, upper |-> FALSE, prefix |-> ""]
    BY DEF Cloid, canonicalizeCloidKey
  <1> QED
    BY <1>1, <1>2, <1>3

LEMMA AddressFields ==
    ASSUME NEW S, NEW a \in [wallet : S, mixed : BOOLEAN], NEW m \in BOOLEAN
    PROVE  /\ [a EXCEPT !.mixed = m] = [wallet |-> a.wallet, mixed |-> m]
           /\ [wallet |-> a.wallet, mixed |-> m] \in [wallet : S, mixed : BOOLEAN]
  OBVIOUS

\* Two spellings of addresses are the same to the server just when they are of
\* one wallet.
LEMMA SameWallet ==
    ASSUME NEW a \in Address, NEW b \in Address, NEW v \in AddressSpellings(b)
    PROVE  normalizeAddress(a) = normalizeAddress(v) <=> a.wallet = b.wallet
  <1>1. \A x \in Address : /\ normalizeAddress(x) = [wallet |-> x.wallet, mixed |-> FALSE]
                           /\ normalizeAddress(x) \in Address
    BY AddressFields DEF Address, normalizeAddress
  <1>2. v \in Address /\ v.wallet = b.wallet
    BY <1>1 DEF AddressSpellings
  <1>3. \A w, x : [wallet |-> w, mixed |-> FALSE] = [wallet |-> x, mixed |-> FALSE] <=> w = x
    OBVIOUS
  <1> QED
    BY <1>1, <1>2, <1>3

\* A query that looks up one order returns it to its owner and to nobody else.
LEMMA OneFound ==
    ASSUME NEW o \in Order, NEW q, Lookup(q) = {o}
    PROVE  /\ normalizeAddress(o.user) = normalizeAddress(q.user)
                 => handleOrderStatus(q) = [status |-> "order", order |-> o]
           /\ normalizeAddress(o.user) # normalizeAddress(q.user) => handleOrderStatus(q) = Unknown
  <1> DEFINE mine == {x \in Lookup(q) : normalizeAddress(x.user) = normalizeAddress(q.user)}
  <1>1. handleOrderStatus(q) = IF mine = {} THEN Unknown
                               ELSE [status |-> "order", order |-> CHOOSE x \in mine : TRUE]
    BY DEF handleOrderStatus
  <1>2. CASE normalizeAddress(o.user) = normalizeAddress(q.user)
    <2>1. mine = {o}
      BY <1>2
    <2> HIDE DEF mine
    <2>2. mine # {} /\ (CHOOSE x \in mine : TRUE) = o
      BY <2>1
    <2> QED
      BY <1>1, <1>2, <2>2
  <1>3. CASE normalizeAddress(o.user) # normalizeAddress(q.user)
    <2>1. mine = {}
      BY <1>3
    <2> HIDE DEF mine
    <2> QED
      BY <1>1, <1>3, <2>1
  <1> QED
    BY <1>2, <1>3

\* The two ways to ask for an order look it up.
LEMMA LookupByOid ==
    ASSUME StoreTypeOK, OidUnique, NEW k \in DOMAIN orders, NEW v
    PROVE  Lookup([user |-> v, oid |-> orders[k].oid, cloid |-> NoCloid]) = {orders[k]}
  <1> DEFINE oid == orders[k].oid   q == [user |-> v, oid |-> oid, cloid |-> NoCloid]
  <1>1. oid \in Nat /\ oid # NoOid
    BY ExchangeAssumption DEF StoreTypeOK, Order
  <1>2. UnmarshalJSON(q) = [value |-> oid, valid |-> TRUE, raw |-> NoCloid]
    BY <1>1 DEF UnmarshalJSON
  <1>3. KnownOid(oid)
    BY DEF KnownOid, KeysOfOid
  <1>4. GetOrderByOid(oid) = orders[k]
    <2>1. (CHOOSE l \in DOMAIN orders : orders[l].oid = oid) = k
      BY DEF OidUnique
    <2> QED
      BY <2>1 DEF GetOrderByOid
  <1> HIDE DEF oid
  <1>5. Lookup(q) = {GetOrderByOid(oid)}
    BY <1>2, <1>3 DEF Lookup
  <1> QED
    BY <1>4, <1>5 DEF oid

LEMMA LookupByCloid ==
    ASSUME StoreTypeOK, StoreInv, NEW k \in DOMAIN orders, NEW v,
           NEW c \in Spellings(orders[k].cloid)
    PROVE  Lookup([user |-> v, oid |-> NoOid, cloid |-> c]) = {orders[k]}
  <1> DEFINE q == [user |-> v, oid |-> NoOid, cloid |-> c]
  <1>1. orders[k].cloid \in Cloid /\ canonicalizeCloidKey(orders[k].cloid) = k
    BY DEF StoreTypeOK, Order, StoreInv, KeysConsistent, KeyOf
  <1>2. c \in Cloid /\ canonicalizeCloidKey(c) = k /\ c # NoCloid
    BY <1>1, SpellingsShareKey, ExchangeAssumption
  <1>3. UnmarshalJSON(q).raw = c
    BY <1>2 DEF UnmarshalJSON
  <1>4. Known(c) /\ GetOrder(c) = orders[k]
    BY <1>2 DEF Known, GetOrder
  <1> QED
    BY <1>2, <1>3, <1>4 DEF Lookup

\* A query among those for an order, with the address of b.
LEMMA QueryFinds ==
    ASSUME StoreTypeOK, StoreInv, OidUnique, NEW k \in DOMAIN orders,
           NEW b \in Address, NEW q \in Queries(b, orders[k])
    PROVE  /\ orders[k].user.wallet = b.wallet => handleOrderStatus(q) = Found(orders[k])
           /\ orders[k].user.wallet # b.wallet => handleOrderStatus(q) = Unknown
  <1>1. orders[k] \in Order /\ orders[k].user \in Address
    BY DEF StoreTypeOK, Order
  <1>2. PICK u \in AddressSpellings(b) :
          \/ q = [user |-> u, oid |-> orders[k].oid, cloid |-> NoCloid]
          \/ \E c \in Spellings(orders[k].cloid) : q = [user |-> u, oid |-> NoOid, cloid |-> c]
    BY DEF Queries
  <1>3. Lookup(q) = {orders[k]} /\ q.user = u
    BY <1>2, LookupByOid, LookupByCloid
  <1>4. normalizeAddress(orders[k].user) = normalizeAddress(u)
          <=> orders[k].user.wallet = b.wallet
    BY <1>1, <1>2, SameWallet
  <1> QED
    BY <1>1, <1>3, <1>4, OneFound DEF Found

LEMMA OwnersFind == StoreTypeOK /\ StoreInv /\ OidUnique => OwnerFindsOrder
  <1> SUFFICES ASSUME StoreTypeOK, StoreInv, OidUnique, NEW k \in DOMAIN orders
               PROVE  /\ \A q \in Queries(orders[k].user, orders[k]) :
                             handleOrderStatus(q) = Found(orders[k])
                      /\ \A w \in Wallets \ {orders[k].user.wallet} :
                            \A q \in Queries(Recovered(w), orders[k]) :
                                handleOrderStatus(q) = Unknown
    BY Zenon DEF OwnerFindsOrder
  <1>1. orders[k].user \in Address
    BY DEF StoreTypeOK, Order
  <1>2. \A w \in Wallets : Recovered(w) \in Address /\ Recovered(w).wallet = w
    BY DEF Address, Recovered
  <1> QED
    BY <1>1, <1>2, QueryFinds

\* Every signed order in the book is found by its owner, by its oid and by every
\* spelling of its cloid, with the address written in checksum case or not, and
\* by no other wallet; every unsigned one by queries without a user
\* (handleOrderStatus; README: query order by OID or CLOID).  So it is in every
\* state that requests and fills lead to.
THEOREM OwnersFindOrders == Spec => []OwnerFindsOrder
  BY OwnersFind, InvariantNames, ExchangeSafe, PTL DEF Spec
=============================================================================
