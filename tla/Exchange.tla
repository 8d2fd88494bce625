------------------------------- MODULE Exchange -------------------------------
(***************************************************************************)
(* POST /exchange and /info (server/handlers.go) over the order book.      *)
(*                                                                         *)
(* net/http runs every request in a goroutine of its own; h \in Handlers   *)
(* is a slot for one of them.  A handler takes State.mu once per store     *)
(* call and releases it between calls, so the store operations are atomic  *)
(* and whatever lies between two of them interleaves:                      *)
(*                                                                         *)
(*   resolve  handleModify works out the oid of its target                 *)
(*   item     the next entry of the request (processOrder, or the body of  *)
(*            the cancel and batchModify loops)                            *)
(*   create   processOrder found nothing to modify and is about to create  *)
(*   echo     processOrder modified an oid and is about to look up its     *)
(*            cloid for the answer                                         *)
(*                                                                         *)
(* A request is given decoded: its action type, the wallet recovered from  *)
(* its signature, the reference of a modify, and its entries.              *)
(***************************************************************************)
EXTENDS OrderStore

CONSTANTS
    Handlers,      \* slots for concurrent requests
    Requests,      \* the requests clients send
    Fills,         \* the FillOrder calls of the test driver
    NoOid,         \* an absent oid
    NoRequest,     \* an idle slot's request
    IocReference,  \* the price up to which an IOC order on BTC is rejected
    MaxRequests,   \* bound: requests accepted in a behaviour
    MaxClock       \* bound: readings of the nanosecond clock told apart

\* An entry of a request.  abbrev tells the two wire formats apart: "a", "o",
\* "c", "p", "s" against full field names.  ioc: time in force IOC, coin BTC.
Item == [abbrev : BOOLEAN, oid : Int \cup {NoOid}, cloid : Cloid \cup {NoCloid},
         px : Int, sz : Int, ioc : BOOLEAN]

\* list: the entries came in an array; otherwise the action is its own entry.
\* oid, cloid: the reference of a modify, a number or a string.
Request == [type : {"order", "modify", "batchModify", "cancel"}, list : BOOLEAN,
            user : Address, oid : Int \cup {NoOid},
            cloid : Cloid \cup {NoCloid}, items : Seq(Item)]

FillCall == [cloid : Cloid, px : Int, size : FillSize]

ASSUME ExchangeAssumption ==
    /\ Requests \subseteq Request
    /\ \A r \in Requests : r.type = "modify" => Len(r.items) <= 1
    /\ Fills \subseteq FillCall
    /\ NoOid \notin Int
    /\ NoCloid \notin Cloid
    /\ NoRequest \notin Request
    /\ IocReference \in Int /\ MaxRequests \in Nat /\ MaxClock \in Nat

VARIABLES
    call,      \* Handlers -> the state of the goroutine in the slot
    accepted,  \* requests accepted so far
    clock,     \* time.Now().UnixNano(), as coarse as the clock is
    acked      \* history: the oids answered "resting" in finished responses

callVars == <<call, accepted, acked>>
vars == <<storeVars, call, accepted, clock, acked>>

Resting(oid, c) == [kind |-> "resting", oid |-> oid, cloid |-> c]
Error == [kind |-> "error", oid |-> NoOid, cloid |-> NoCloid]
Success == [kind |-> "success", oid |-> NoOid, cloid |-> NoCloid]
Reply == [kind : {"resting"}, oid : Int, cloid : Cloid \cup {NoCloid}]
           \cup {Error, Success}

\* todo: the entries not yet processed; cloid, oid: what create and echo need.
Call == [pc : {"idle", "resolve", "item", "create", "echo"},
         req : Requests \cup {NoRequest}, todo : Seq(Item),
         cloid : Cloid \cup {NoCloid}, oid : Int \cup {NoOid},
         replies : Seq(Reply)]

IdleCall == [pc |-> "idle", req |-> NoRequest, todo |-> << >>,
             cloid |-> NoCloid, oid |-> NoOid, replies |-> << >>]

Init ==
    /\ StoreInit
    /\ call = [h \in Handlers |-> IdleCall]
    /\ accepted = 0
    /\ clock = 0
    /\ acked = {}

-----------------------------------------------------------------------------
At(h, pc) == call[h].pc = pc
Req(h) == call[h].req
Working(h, types) == At(h, "item") /\ call[h].todo # << >> /\ Req(h).type \in types
Entry(h) == Head(call[h].todo)

\* The handler moves on: to another point of the same entry, past the entry
\* with a status for it, or past the entry without one.
Goes(h, pc, todo, c, oid, replies) ==
    /\ call' = [call EXCEPT ![h] = [pc |-> pc, req |-> Req(h), todo |-> todo,
                                    cloid |-> c, oid |-> oid, replies |-> replies]]
    /\ UNCHANGED <<accepted, acked>>
GoTo(h, pc, c, oid) == Goes(h, pc, call[h].todo, c, oid, call[h].replies)
Past(h, replies) == Goes(h, "item", Tail(call[h].todo), NoCloid, NoOid, replies)
Answer(h, reply) == Past(h, Append(call[h].replies, reply))
Skip(h) == Past(h, call[h].replies)

\* HandleExchange: decode, recover the wallet, dispatch on the action type.
Begin(h) ==
    /\ At(h, "idle")
    /\ accepted < MaxRequests
    /\ \E r \in Requests :
          call' = [call EXCEPT ![h] =
                     [pc |-> IF r.type = "modify" THEN "resolve" ELSE "item",
                      req |-> r, todo |-> r.items,
                      cloid |-> NoCloid, oid |-> NoOid, replies |-> << >>]]
    /\ accepted' = accepted + 1
    /\ UNCHANGED <<storeVars, clock, acked>>

\* The response is written when the last entry is done.
Finish(h) ==
    /\ At(h, "item")
    /\ call[h].todo = << >>
    /\ acked' = acked \cup {call[h].replies[i].oid :
                   i \in {j \in DOMAIN call[h].replies : call[h].replies[j].kind = "resting"}}
    /\ call' = [call EXCEPT ![h] = IdleCall]
    /\ UNCHANGED <<storeVars, clock, accepted>>

-----------------------------------------------------------------------------
(***************************************************************************)
(* handleModify: the reference becomes an oid, which is injected into the  *)
(* order as field "o".  processOrder reads that field in the abbreviated   *)
(* format only.                                                            *)
(***************************************************************************)
Inject(it, oid) == IF it.abbrev THEN [it EXCEPT !.oid = oid] ELSE it

ResolveTo(h, oid) ==
    /\ call[h].todo # << >>
    /\ Goes(h, "item", <<Inject(Entry(h), oid)>>, NoCloid, NoOid, << >>)
    /\ UNCHANGED <<storeVars, clock>>

\* A number, or a "0x" string that parses as one.
ResolveNumber(h) ==
    /\ At(h, "resolve")
    /\ \/ /\ Req(h).oid # NoOid
          /\ ResolveTo(h, Req(h).oid)
       \/ /\ Req(h).oid = NoOid /\ Req(h).cloid # NoCloid
          /\ LooksLikeOid(Req(h).cloid)
          /\ ResolveTo(h, Req(h).cloid.n)

\* Any other "0x" string is a cloid: its order is looked up, the lock released.
RefersByCloid(r) ==
    /\ r.oid = NoOid /\ r.cloid # NoCloid
    /\ r.cloid.prefix = "0x" /\ ~LooksLikeOid(r.cloid)

ResolveCloid(h) ==
    /\ At(h, "resolve")
    /\ RefersByCloid(Req(h)) /\ Known(Req(h).cloid)
    /\ ResolveTo(h, GetOrder(Req(h).cloid).oid)

\* "Missing order object" or "Missing or invalid oid": no reference, a string
\* that is not prefixed, or a cloid that is not known.
InvalidRef(r) ==
    /\ r.oid = NoOid
    /\ (r.cloid # NoCloid /\ r.cloid.prefix = "0x")
          => (~LooksLikeOid(r.cloid) /\ ~Known(r.cloid))

ResolveFails(h) ==
    /\ At(h, "resolve")
    /\ call[h].todo = << >> \/ InvalidRef(Req(h))
    /\ Goes(h, "item", << >>, NoCloid, NoOid, <<Error>>)
    /\ UNCHANGED <<storeVars, clock>>

-----------------------------------------------------------------------------
(***************************************************************************)
(* processOrder, for the entries of order and modify requests.             *)
(***************************************************************************)
Orders == {"order", "modify"}

BugIndexed(h) ==    \* an index from oids to keys that outlives the order
    /\ Working(h, Orders)
    /\ LET i == Entry(h).oid - BaseOid
       IN  /\ Entry(h).oid # NoOid
           /\ \/ /\ i \in DOMAIN issued
                 /\ Store(issued[i], Amended(orders[issued[i]], Entry(h).px, Entry(h).sz))
                 /\ GoTo(h, "echo", NoCloid, Entry(h).oid)
              \/ /\ i \notin DOMAIN issued
                 /\ Answer(h, Error)
                 /\ UNCHANGED storeVars
    /\ UNCHANGED clock

ModifyByOid(h) ==
    /\ Working(h, Orders)
    /\ Entry(h).oid # NoOid
    /\ \/ /\ ModifyOrderByOid(Entry(h).oid, Entry(h).px, Entry(h).sz)
          /\ GoTo(h, "echo", NoCloid, Entry(h).oid)
       \/ /\ ~KnownOid(Entry(h).oid)
          /\ Answer(h, Error)
          /\ UNCHANGED storeVars
    /\ UNCHANGED clock

\* The cloid in the answer is read back under a lock of its own: by then the
\* order may be gone.
Echo(h) ==
    /\ At(h, "echo")
    /\ Answer(h, Resting(call[h].oid,
                   IF KnownOid(call[h].oid) THEN GetOrderByOid(call[h].oid).cloid
                                            ELSE NoCloid))
    /\ UNCHANGED <<storeVars, clock>>

Upserts(it) == it.oid = NoOid /\ it.cloid # NoCloid

ModifyByCloid(h) ==
    /\ Working(h, Orders)
    /\ Upserts(Entry(h)) /\ Known(Entry(h).cloid)
    /\ ModifyOrder(Entry(h).cloid, Entry(h).px, Entry(h).sz)
    /\ Answer(h, Resting(GetOrder(Entry(h).cloid).oid, Entry(h).cloid))
    /\ UNCHANGED clock

IocRejected(it) == it.ioc /\ it.px <= IocReference

\* Nothing to modify: the order is rejected, or will be created with its own
\* cloid or with one made of the time, which may be later by now or may not.
NothingToModify(h) ==
    /\ Working(h, Orders)
    /\ Entry(h).oid = NoOid
    /\ Upserts(Entry(h)) => ~Known(Entry(h).cloid)
    /\ \/ /\ IocRejected(Entry(h))
          /\ Answer(h, Error)
          /\ UNCHANGED clock
       \/ /\ ~IocRejected(Entry(h)) /\ Upserts(Entry(h))
          /\ GoTo(h, "create", Entry(h).cloid, NoOid)
          /\ UNCHANGED clock
       \/ /\ ~IocRejected(Entry(h)) /\ ~Upserts(Entry(h))
          /\ clock' \in clock..MaxClock
          /\ GoTo(h, "create", mockCloid(clock'), NoOid)
    /\ UNCHANGED storeVars

BugCounterRead(h) ==    \* the answer's oid is read off the counter too early
    /\ At(h, "create")
    /\ CreateOrder(call[h].cloid, Entry(h).px, Entry(h).sz, Req(h).user)
    /\ Answer(h, Resting(nextOid, call[h].cloid))
    /\ UNCHANGED clock

Create(h) ==
    /\ At(h, "create")
    /\ CreateOrder(call[h].cloid, Entry(h).px, Entry(h).sz, Req(h).user)
    /\ Answer(h, Resting(nextOid', call[h].cloid))
    /\ UNCHANGED clock

-----------------------------------------------------------------------------
\* handleBatchModify: by cloid only; sizes and prices count only as full-name
\* numbers, everything else reads as 0; an entry that names nothing known is
\* passed over without a status.
BatchValue(it, v) == IF it.abbrev THEN 0 ELSE v

BatchModify(h) ==
    /\ Working(h, {"batchModify"})
    /\ LET it == Entry(h)
       IN  \/ /\ it.cloid # NoCloid
              /\ ModifyOrder(it.cloid, BatchValue(it, it.px), BatchValue(it, it.sz))
              /\ Answer(h, Resting(GetOrder(it.cloid).oid, it.cloid))
           \/ /\ it.cloid = NoCloid \/ ~Known(it.cloid)
              /\ Skip(h)
              /\ UNCHANGED storeVars
    /\ UNCHANGED clock

\* handleCancel: by the number in "o" (never by a full-name oid), else by
\* cloid.  A miss is an error in a list and goes unmentioned outside one.
CancelOid(it) == IF it.abbrev THEN it.oid ELSE NoOid

Cancel(h) ==
    /\ Working(h, {"cancel"})
    /\ LET it == Entry(h)   oid == CancelOid(it)
           byOid == oid # NoOid
           byCloid == oid = NoOid /\ it.cloid # NoCloid
           miss == (byOid /\ ~KnownOid(oid)) \/ (byCloid /\ ~Known(it.cloid))
       IN  \/ byOid /\ CancelOrderByOid(oid) /\ Answer(h, Success)
           \/ byCloid /\ CancelOrder(it.cloid) /\ Answer(h, Success)
           \/ /\ miss /\ Req(h).list
              /\ Answer(h, Error) /\ UNCHANGED storeVars
           \/ /\ (miss /\ ~Req(h).list) \/ ~(byOid \/ byCloid)
              /\ Skip(h) /\ UNCHANGED storeVars
    /\ UNCHANGED clock

-----------------------------------------------------------------------------
\* The test driver fills orders directly, from goroutines of its own.
DriverFill ==
    /\ \E f \in Fills : FillOrder(f.cloid, f.px, f.size)
    /\ UNCHANGED <<callVars, clock>>

\* The WebSocket broadcaster takes an update off the channel.
Deliver == Receive /\ UNCHANGED <<callVars, clock>>

\* The bound is reached and every response is out.
Quiet ==
    /\ accepted = MaxRequests
    /\ \A h \in Handlers : At(h, "idle")
    /\ UNCHANGED vars

Step(h) ==
    \/ ResolveNumber(h) \/ ResolveCloid(h) \/ ResolveFails(h)
    \/ ModifyByOid(h) \/ Echo(h) \/ ModifyByCloid(h) \/ NothingToModify(h) \/ Create(h)
    \/ BatchModify(h) \/ Cancel(h)
    \/ Finish(h)

Next ==
    \/ \E h \in Handlers : Begin(h) \/ Step(h)
    \/ DriverFill \/ Deliver \/ Quiet

\* The runtime keeps running a goroutine that can run, and State.mu serves
\* its waiters in turn.  Nothing is assumed of the broadcaster, of clients or
\* of the test driver.
Fairness == \A h \in Handlers : WF_vars(Step(h))

Spec == Init /\ [][Next]_vars /\ Fairness

-----------------------------------------------------------------------------
(***************************************************************************)
(* handleOrderStatus: a query with a user and an "oid", which is a number  *)
(* (q.oid) or any string (q.cloid).  The store is read under one lock.     *)
(***************************************************************************)
Unknown == [status |-> "unknown_cloid"]

\* FlexibleOid: a string is kept, and parsed as hexadecimal if it can be (else
\* as decimal, which makes no difference: Lookup asks only whether it is kept).
UnmarshalJSON(q) ==
    IF q.oid # NoOid \/ q.cloid = NoCloid
    THEN [value |-> q.oid, valid |-> q.oid # NoOid, raw |-> NoCloid]
    ELSE LET parses == q.cloid.kind = "hex" /\ q.cloid.n <= MaxInt64
         IN  [value |-> IF parses THEN q.cloid.n ELSE 0, valid |-> parses, raw |-> q.cloid]

\* A string names an order by its cloid, whether it parses or not.
Lookup(q) ==
    LET f == UnmarshalJSON(q)
    IN  CASE f.raw = NoCloid /\ f.valid /\ KnownOid(f.value) -> {GetOrderByOid(f.value)}
          [] f.raw # NoCloid /\ Known(f.raw) -> {GetOrder(f.raw)}
          [] OTHER -> {}

BugCaseSensitive(q) ==    \* addresses compared as they are written
    LET mine == {o \in Lookup(q) : o.user = q.user}
    IN  IF mine = {} THEN Unknown
                     ELSE [status |-> "order", order |-> CHOOSE o \in mine : TRUE]

handleOrderStatus(q) ==
    LET mine == {o \in Lookup(q) : normalizeAddress(o.user) = normalizeAddress(q.user)}
    IN  IF mine = {} THEN Unknown
                     ELSE [status |-> "order", order |-> CHOOSE o \in mine : TRUE]
-----------------------------------------------------------------------------
(***************************************************************************)
(* Properties.                                                             *)
(***************************************************************************)
CallTypeOK ==
    /\ call \in [Handlers -> Call]
    /\ accepted \in 0..MaxRequests
    /\ clock \in 0..MaxClock
    /\ acked \subseteq Int

\* Type correctness of the handlers and of the book.
TypeOK == StoreTypeOK /\ CallTypeOK

\* A "resting" answer names the right order, whatever other requests did
\* between the steps of this one: its oid was handed out, the cloid it echoes
\* is a spelling of the key that oid was created under, and when the entry
\* named its order by cloid, it is that order.
NamesIssued(r) ==
    /\ r.oid \in (BaseOid + 1)..nextOid
    /\ r.cloid # NoCloid => issued[r.oid - BaseOid] = canonicalizeCloidKey(r.cloid)
RepliesNameTheirOrders ==
    \A h \in Handlers : \A i \in DOMAIN call[h].replies :
        LET r == call[h].replies[i]
        IN  r.kind = "resting" =>
              /\ NamesIssued(r)
              /\ (Req(h).type = "order" /\ Upserts(Req(h).items[i])) =>
                    issued[r.oid - BaseOid] = canonicalizeCloidKey(Req(h).items[i].cloid)

\* A modify request changes the order its reference names, or none, whatever
\* happens between the two locks: a number (or a cloid that reads as one) the
\* order of that oid, any other cloid an order of that key (handleModify, then
\* processOrder; full-name entries aside, whose oid is not read).
Referenced(r) ==
    {k \in DOMAIN orders :
        IF RefersByCloid(r) THEN k = canonicalizeCloidKey(r.cloid)
        ELSE orders[k].oid = IF r.oid # NoOid THEN r.oid ELSE r.cloid.n}
ModifyHitsTarget ==
    [][\A h \in Handlers :
          (/\ call'[h] # call[h] /\ orders' # orders
           /\ Req(h) # NoRequest /\ Req(h).type = "modify" /\ Entry(h).abbrev) =>
             \E k \in Referenced(Req(h)) : orders' = [orders EXCEPT ![k] = orders'[k]]]_vars

\* A signed order is found by its owner, by oid and by every spelling of its
\* cloid, with the wallet written with or without its checksum case (README:
\* query order by OID or CLOID), and no query of another wallet returns it.  An
\* unsigned order is found in the same ways by a query without a user.
Spellings(c) ==
    {d \in [kind : {c.kind}, n : {c.n}, upper : BOOLEAN, prefix : {"", "0x", "0X"}] :
        d = c \/ (c.prefix # "" /\ d.prefix # "")}
AddressSpellings(a) == {a, normalizeAddress(a)}
Queries(a, o) ==
    {[user |-> u, oid |-> o.oid, cloid |-> NoCloid] : u \in AddressSpellings(a)} \cup
    {[user |-> u, oid |-> NoOid, cloid |-> c] : u \in AddressSpellings(a), c \in Spellings(o.cloid)}
Found(o) == [status |-> "order", order |-> o]
OwnerFindsOrder ==
    \A k \in DOMAIN orders :
        LET o == orders[k]
            strangers == Wallets \ {o.user.wallet}
        IN  /\ \A q \in Queries(o.user, o) : handleOrderStatus(q) = Found(o)
            /\ o.user.wallet \in Wallets =>
                  \A w \in strangers : \A q \in Queries(Recovered(w), o) :
                      handleOrderStatus(q) = Unknown

\* Every request is answered, though the broadcaster may never run again and
\* the channel may stay full.
Answered == \A h \in Handlers : ~At(h, "idle") ~> At(h, "idle")

-----------------------------------------------------------------------------
(***************************************************************************)
(* What comments, tests and documents say and the code does not do.        *)
(***************************************************************************)
\* README's queries give an oid and no user, and are answered with the order.
QueriedByOid ==
    \A k \in DOMAIN orders :
        handleOrderStatus([user |-> Unsigned, oid |-> orders[k].oid, cloid |-> NoCloid])
            = Found(orders[k])

\* WEBSOCKET.md "Order modified -> status: open" and "filled: order completely
\* filled": an order that a request gives a new price or size is open then.
Acting(h) == call'[h] # call[h]
ModifiedIsOpen ==
    [][\A h \in Handlers : Acting(h) =>
          \A k \in DOMAIN orders :
              LET old == orders[k]   new == orders'[k]
              IN  (new.oid = old.oid /\ <<new.px, new.sz>> # <<old.px, old.sz>>)
                      => new.status = "open"]_vars

\* handleModify "Inject the oid into the order map so processOrder can handle
\* it": a modify request modifies, it never places an order.
ModifyPlacesNothing ==
    [][\A h \in Handlers :
          Acting(h) /\ Req(h) # NoRequest /\ Req(h).type = "modify" => nextOid' = nextOid]_vars

\* integration_test "Verify order was stored in mock server state": an order
\* that was answered "resting" can be queried by its oid.
AckedIsStored == \A oid \in acked : KnownOid(oid)
=============================================================================
