----------------------------- MODULE ServerProofs -----------------------------
(***************************************************************************)
(* What is proved of the handlers and of the book alone holds of them in   *)
(* the server: a step of the server is a step of theirs, or leaves them    *)
(* alone, whatever the WebSocket manager and its clients do.               *)
(***************************************************************************)
EXTENDS Server, ExchangeProofs

LEMMA ServerStepIsExchangeStep == [ServerNext]_serverVars => [Next]_vars
  <1> SUFFICES ASSUME [ServerNext]_serverVars PROVE [Next]_vars
    OBVIOUS
  <1>1. ASSUME NEW h \in Handlers, Handle(h) PROVE Next
    BY <1>1 DEF Handle, Next
  <1>2. CASE BeginRequest
    BY <1>2 DEF BeginRequest, Next
  <1>3. CASE Drive
    BY <1>3 DEF Drive, Next
  <1>4. CASE Broadcast
    BY <1>4 DEF Broadcast, Next
  <1>5. CASE Manage \/ Client
    BY <1>5 DEF Manage, Client
  <1>6. CASE Settled
    BY <1>6 DEF Settled, Next
  <1>7. CASE UNCHANGED serverVars
    BY <1>7 DEF serverVars
  <1> QED
    BY <1>1, <1>2, <1>3, <1>4, <1>5, <1>6, <1>7 DEF ServerNext

\* In the composed server the order book is used only through its operations,
\* with arguments of their types, by the handlers, the test driver and the
\* broadcaster together (NewHandler).
THEOREM ServerUsesStore == ServerSpec => StoreSpec
  <1>1. ServerInit => Init /\ StoreInit
    BY DEF ServerInit, Init
  <1>2. Init /\ [][Next]_vars => [][StoreNext]_storeVars
    BY InvariantTypes, NextIsStoreStep, PTL
  <1> QED
    BY <1>1, <1>2, ServerStepIsExchangeStep, PTL DEF ServerSpec, StoreSpec

LEMMA ServerInvariants ==
    ServerSpec => [](StoreTypeOK /\ StoreInv /\ CallInv /\ NameInv)
  <1>1. ServerInit => Init
    BY DEF ServerInit
  <1> QED
    BY <1>1, InvariantNames, ServerStepIsExchangeStep, PTL DEF ServerSpec

LEMMA StoreStaysTyped == ServerSpec => []StoreTypeOK
  BY ServerInvariants, PTL

\* With any number of WebSocket connections, subscribing and reading at any
\* speed, handlers keep their types, oids name one order each, and the feed
\* that clients are served from catches up with the book in oid order.
THEOREM ServerSafe ==
    ServerSpec => [](TypeOK /\ StoreInv /\ OidUnique /\ CaughtUp /\ FeedInOidOrder)
  <1>1. StoreTypeOK /\ CallInv => TypeOK
    BY DEF TypeOK, CallInv
  <1> QED
    BY <1>1, ServerInvariants, ServerUsesStore, StoreSafe, OidsUnique, FeedCatchesUp,
       FeedOrdered, PTL

\* And what clients of /exchange and /info are promised holds with WebSocket
\* clients there: a status names an order that its entry placed or aimed at, and
\* an order in the book is found by the queries of its owner, as it is.
THEOREM ServerAnswers == ServerSpec => [](RepliesNameTheirOrders /\ OwnerFindsOrder)
  BY ServerInvariants, ServerUsesStore, OidsUnique, NamesReplied, OwnersFind, PTL

\* And a modify in the abbreviated format changes the order its reference named,
\* or none.
THEOREM ServerModifies == ServerSpec => ModifyHitsTarget
  <1>1. ServerSpec => [][HitsTarget]_vars
    BY ServerInvariants, ServerStepIsExchangeStep, StepHitsTarget, PTL DEF ServerSpec
  <1> QED
    BY <1>1 DEF HitsTarget, ModifyHitsTarget

\* And every step of the server, seen through the book, is a step of the ledger
\* of orders or leaves it alone.
THEOREM ServerImplementsLedger == ServerSpec => LedgerRefined
  BY ServerUsesStore, StoreImplementsLedger, PTL

-----------------------------------------------------------------------------
(***************************************************************************)
(* What clients are shown.                                                 *)
(*                                                                         *)
(* The hub works here on orders rather than on numbered updates, so what   *)
(* is proved of it alone is proved of other messages.  The invariant says  *)
(* of every message on its way and of every message received that, if it   *)
(* is an order update, it carries an order with that order's own wallet,   *)
(* and its reader has been subscribed to it.                               *)
(***************************************************************************)
Followed == {normalizeAddress(Recovered(w)) : w \in Wallets} \cup {Unsigned}
HubUpdate == [id : Order \cup {NoId}, user : Address, coin : Coins \cup {Unsigned}]
HubMsg == [channel : {"orderUpdates", "l2Book", "bbo", "subscriptionResponse", "error"},
           id : Order \cup {NoId}, user : Address, coin : Coins \cup {Unsigned}]
Packet == [to : Conns, msg : HubMsg]
Busy == {"find", "write", "writing"}

\* The update carries an order, under its owner's address as the book has it.
OfOrder(u) == u.id \in Order /\ u.user = u.id.user

\* A client that was subscribed to these users may be shown the message.
MayRead(users, m) ==
    m.channel = "orderUpdates" =>
        /\ OfOrder(m)
        /\ m.user = Unsigned \/ normalizeAddress(m.user) \in users
        /\ users \ {Unsigned} # {}

ClientTypes ==
    /\ connections \subseteq Conns
    /\ wasUser \in [Conns -> SUBSET Followed]
    /\ orderUpdatesUser \in [Conns -> Followed]
    /\ todo \in [Hub!Broadcasters -> SUBSET Conns]
    /\ current \in [Hub!Broadcasters -> HubUpdate]
    /\ pc \in [Hub!Goroutines -> Hub!Places]
    /\ out \in [Hub!Goroutines -> Seq(Packet)]
    /\ inbox \in [Conns -> Seq(HubMsg)]

ClientInv ==
    /\ pc["orders"] # "receive" => OfOrder(current["orders"])
    /\ \A g \in Hub!Goroutines : /\ pc[g] \in Busy => out[g] # << >>
                                 /\ pc[g] = "receive" => out[g] = << >>
    /\ \A c \in Conns : orderUpdatesUser[c] \in wasUser[c] \cup {Unsigned}
    /\ \A g \in Hub!Goroutines : \A i \in 1..Len(out[g]) :
          MayRead(wasUser[out[g][i].to], out[g][i].msg)
    /\ \A c \in Conns : \A i \in 1..Len(inbox[c]) : MayRead(wasUser[c], inbox[c][i])

LEMMA HubMembers ==
    /\ Conns \subseteq Hub!Goroutines /\ Hub!Broadcasters \subseteq Hub!Goroutines
    /\ \A g \in Hub!Goroutines : g \in Conns \/ g \in Hub!Broadcasters
    /\ "orders" \in Hub!Broadcasters /\ "orders" \notin Conns
    /\ Hub!Broadcasters = {"orders", "market"}
  BY ServerAssumption DEF Hub!Goroutines, Hub!Broadcasters

\* Normalising an address changes only how it is written.
LEMMA NormalAddress ==
    ASSUME NEW a \in Address
    PROVE  normalizeAddress(a) = [wallet |-> a.wallet, mixed |-> FALSE]
           /\ normalizeAddress(a) \in Address /\ normalizeAddress(a).wallet = a.wallet
  <1>1. FALSE \in BOOLEAN
    OBVIOUS
  <1>2. /\ normalizeAddress(a) = [wallet |-> a.wallet, mixed |-> FALSE]
        /\ [wallet |-> a.wallet, mixed |-> FALSE] \in Address
    BY <1>1, AddressFields DEF Address, normalizeAddress
  <1> QED
    BY <1>2

\* Clients follow signers, by their normalised addresses, or nobody.
LEMMA FollowedWallets ==
    /\ Unsigned \in Address /\ Unsigned \in Followed /\ Followed \subseteq Address
    /\ \A u \in Followed : u = Unsigned \/ u.wallet # NoWallet
  <1>1. FALSE \in BOOLEAN /\ TRUE \in BOOLEAN
    OBVIOUS
  <1>2. \A w \in Wallets \cup {NoWallet}, m \in BOOLEAN :
          [wallet |-> w, mixed |-> m] \in Address
    BY DEF Address
  <1>3. Unsigned \in Address /\ \A w \in Wallets : Recovered(w) \in Address
    BY <1>1, <1>2, Zenon DEF Unsigned, Recovered
  <1>4. \A w \in Wallets : /\ normalizeAddress(Recovered(w)) \in Address
                           /\ normalizeAddress(Recovered(w)).wallet = w
    <2> TAKE w \in Wallets
    <2>1. Recovered(w).wallet = w
      BY DEF Recovered
    <2> QED
      BY <1>3, <2>1, NormalAddress
  <1> QED
    BY <1>3, <1>4, KeysAssumption DEF Followed

\* Whatever its spelling, an address stands for one that clients may follow.
LEMMA NormalIsFollowed ==
    ASSUME NEW a \in Address
    PROVE  normalizeAddress(a) \in Followed
  <1> DEFINE normal(w) == normalizeAddress(Recovered(w))
  <1>1. /\ normalizeAddress(a) = [wallet |-> a.wallet, mixed |-> FALSE]
        /\ a.wallet \in Wallets \cup {NoWallet}
    BY NormalAddress DEF Address
  <1>2. CASE a.wallet = NoWallet
    BY <1>1, <1>2 DEF Unsigned, Followed
  <1>3. CASE a.wallet \in Wallets
    <2>1. Recovered(a.wallet) \in Address /\ Recovered(a.wallet).wallet = a.wallet
      BY <1>3 DEF Recovered, Address
    <2>2. normal(a.wallet) = [wallet |-> a.wallet, mixed |-> FALSE]
      BY <2>1, NormalAddress
    <2> HIDE DEF normal
    <2>3. normal(a.wallet) \in {normal(w) : w \in Wallets}
      BY <1>3
    <2>4. {normal(w) : w \in Wallets} \subseteq Followed
      BY DEF Followed, normal
    <2> QED
      BY <1>1, <2>2, <2>3, <2>4
  <1> QED
    BY <1>1, <1>2, <1>3

\* An update, an answer, and what is made of them for a client.
LEMMA MessageTypes ==
    /\ \A u \in HubUpdate, ch \in {"orderUpdates", "l2Book", "bbo"} : Hub!Message(ch, u) \in HubMsg
    /\ \A ch \in {"l2Book", "bbo", "subscriptionResponse", "error"}, coin \in Coins :
          Hub!Reply(ch, coin) \in HubMsg
    /\ \A c \in Conns, m \in HubMsg : Hub!To(c, m) \in Packet
  BY FollowedWallets DEF HubUpdate, HubMsg, Packet, Hub!Message, Hub!Reply, Hub!To

\* What the broadcaster finds in the channel are orders with their owners'
\* addresses.
LEMMA QueuedUpdates ==
    ASSUME NEW o \in Order
    PROVE  update(o) \in HubUpdate /\ OfOrder(update(o))
  <1>1. o.user \in Address
    BY DEF Order
  <1> QED
    BY <1>1 DEF update, HubUpdate, OfOrder

\* A subscription that is kept keeps its rights.
LEMMA RightsGrow ==
    ASSUME NEW old, NEW users, old \subseteq users, NEW m, MayRead(old, m)
    PROVE  MayRead(users, m)
  BY DEF MayRead

-----------------------------------------------------------------------------
(***************************************************************************)
(* sendJSON.                                                               *)
(***************************************************************************)
\* A goroutine goes on, with a message where it needs one, and with none left
\* where it waits for the next update.
Moves(g) ==
    /\ pc[g] # "receive"
    /\ \E p \in Hub!Places :
          /\ pc' = [pc EXCEPT ![g] = p]
          /\ p \in Busy => out'[g] # << >>
          /\ p = "receive" => out'[g] = << >>

Sends(g) ==
    /\ Moves(g)
    /\ UNCHANGED <<connections, orderUpdatesUser, wasUser, todo, current>>
    /\ \/ out' = out
       \/ out[g] # << >> /\ out' = [out EXCEPT ![g] = Tail(@)]
    /\ \/ inbox' = inbox
       \/ /\ out[g] # << >>
          /\ inbox' = [inbox EXCEPT ![Head(out[g]).to] = Append(@, Head(out[g]).msg)]

LEMMA SendStepSends ==
    ASSUME ClientTypes, ClientInv, NEW g \in Hub!Goroutines, Hub!SendStep(g)
    PROVE  Sends(g)
  <1>0. pc \in [Hub!Goroutines -> Hub!Places] /\ out \in [Hub!Goroutines -> Seq(Packet)]
    BY DEF ClientTypes
  <1>1. {"find", "write", "writing", "run"} \subseteq Hub!Places
    BY DEF Hub!Places
  <1> USE <1>0, <1>1 DEF Hub!lockVars, Hub!subVars, Hub!clientVars, Hub!At, Hub!Go, Moves, Busy
  <1>2. CASE Hub!FindConn(g)
    BY <1>2 DEF Hub!FindConn, Hub!Found, Hub!Sending, Sends
  <1>3. CASE Hub!FindHeldBack(g)
    BY <1>3 DEF Hub!FindHeldBack, Hub!HeldBack, Hub!Sending, Sends
  <1>4. CASE Hub!FindAdmitted(g)
    BY <1>4 DEF Hub!FindAdmitted, Hub!Found, Hub!Admitted, Sends, ClientInv
  <1>5. CASE Hub!StartWrite(g)
    BY <1>5 DEF Hub!StartWrite, Sends, ClientInv
  <1>6. CASE Hub!EndWrite(g)
    BY <1>6 DEF Hub!EndWrite, Hub!Target, Sends, ClientInv
  <1> QED
    BY <1>2, <1>3, <1>4, <1>5, <1>6 DEF Hub!SendStep

LEMMA SendKeeps ==
    ASSUME ClientTypes, ClientInv, NEW g \in Hub!Goroutines, Sends(g)
    PROVE  ClientTypes' /\ ClientInv'
  <1>0. /\ out \in [Hub!Goroutines -> Seq(Packet)] /\ inbox \in [Conns -> Seq(HubMsg)]
        /\ pc \in [Hub!Goroutines -> Hub!Places]
        /\ "orders" \in Hub!Goroutines
    BY HubMembers DEF ClientTypes
  <1>1. UNCHANGED <<connections, orderUpdatesUser, wasUser, todo, current>>
    BY DEF Sends
  <1>2. out[g] # << >> => /\ Head(out[g]) \in Packet /\ Tail(out[g]) \in Seq(Packet)
                          /\ MayRead(wasUser[Head(out[g]).to], Head(out[g]).msg)
                          /\ Len(Tail(out[g])) = Len(out[g]) - 1
                          /\ \A i \in 1..Len(Tail(out[g])) :
                                i + 1 \in 1..Len(out[g]) /\ Tail(out[g])[i] = out[g][i + 1]
    BY <1>0 DEF ClientInv
  <1>3. ClientTypes'
    <2>1. pc' \in [Hub!Goroutines -> Hub!Places]
      BY <1>0 DEF Sends, Moves
    <2>2. out' \in [Hub!Goroutines -> Seq(Packet)]
      BY <1>0, <1>2 DEF Sends
    <2>3. inbox' \in [Conns -> Seq(HubMsg)]
      <3>1. ASSUME NEW c \in Conns, NEW m \in HubMsg, inbox' = [inbox EXCEPT ![c] = Append(@, m)]
            PROVE  inbox' \in [Conns -> Seq(HubMsg)]
        BY <1>0, <3>1
      <3>2. out[g] # << >> => Head(out[g]).to \in Conns /\ Head(out[g]).msg \in HubMsg
        BY <1>2 DEF Packet
      <3> QED
        BY <1>0, <3>1, <3>2 DEF Sends
    <2> QED
      BY <1>1, <2>1, <2>2, <2>3 DEF ClientTypes
  <1>4. pc'["orders"] # "receive" => OfOrder(current'["orders"])
    BY <1>0, <1>1 DEF Sends, Moves, ClientInv
  <1>5. ASSUME NEW h \in Hub!Goroutines
        PROVE  /\ pc'[h] \in Busy => out'[h] # << >>
               /\ pc'[h] = "receive" => out'[h] = << >>
    BY <1>0, <1>5 DEF Sends, Moves, ClientInv
  <1>6. ASSUME NEW h \in Hub!Goroutines, NEW i \in 1..Len(out'[h])
        PROVE  MayRead(wasUser'[out'[h][i].to], out'[h][i].msg)
    <2>1. CASE out'[h] = out[h]
      BY <1>1, <2>1 DEF ClientInv
    <2>2. CASE out'[h] # out[h]
      <3>1. h = g /\ out[g] # << >> /\ out'[g] = Tail(out[g])
        BY <1>0, <2>2 DEF Sends
      <3>2. i + 1 \in 1..Len(out[g]) /\ out'[h][i] = out[g][i + 1]
        BY <1>2, <3>1
      <3> QED
        BY <1>1, <3>2 DEF ClientInv
    <2> QED
      BY <2>1, <2>2
  <1>7. ASSUME NEW c \in Conns, NEW i \in 1..Len(inbox'[c])
        PROVE  MayRead(wasUser'[c], inbox'[c][i])
    <2>1. CASE i \in 1..Len(inbox[c]) /\ inbox'[c][i] = inbox[c][i]
      BY <1>1, <2>1 DEF ClientInv
    <2>2. CASE ~(i \in 1..Len(inbox[c]) /\ inbox'[c][i] = inbox[c][i])
      <3>1. /\ out[g] # << >>
            /\ inbox' = [inbox EXCEPT ![Head(out[g]).to] = Append(@, Head(out[g]).msg)]
        BY <2>2 DEF Sends
      <3>2. c = Head(out[g]).to /\ inbox'[c] = Append(inbox[c], Head(out[g]).msg)
        BY <1>0, <2>2, <3>1
      <3>3. inbox'[c][i] = Head(out[g]).msg
        BY <1>0, <2>2, <3>2
      <3> QED
        BY <1>1, <1>2, <3>1, <3>2, <3>3
    <2> QED
      BY <2>1, <2>2
  <1>8. \A c \in Conns : orderUpdatesUser'[c] \in wasUser'[c] \cup {Unsigned}
    BY <1>1 DEF ClientInv
  <1> QED
    BY <1>3, <1>4, <1>5, <1>6, <1>7, <1>8 DEF ClientInv

-----------------------------------------------------------------------------
(***************************************************************************)
(* The broadcasters and the read loops.                                    *)
(***************************************************************************)
\* Locks are taken and given back, connections come and go.
Shifts(g) ==
    /\ Moves(g)
    /\ connections' \subseteq Conns
    /\ UNCHANGED <<orderUpdatesUser, wasUser, current, out, inbox>>
    /\ UNCHANGED todo \/ \E b \in Hub!Broadcasters : todo' = [todo EXCEPT ![b] = connections]

LEMMA LoopShifts ==
    ASSUME ClientTypes, NEW b \in Hub!Broadcasters,
           Hub!LoopLock(b) \/ Hub!LoopAdmitted(b) \/ Hub!LoopUnlock(b)
    PROVE  Shifts(b)
  <1>1. {"run", "loop", "receive"} \subseteq Hub!Places
    BY DEF Hub!Places
  <1> USE <1>1 DEF Hub!At, Hub!Go, Hub!lockVars, Hub!subVars, Hub!clientVars, ClientTypes,
                   Moves, Busy, Shifts
  <1>2. CASE Hub!LoopLock(b)
    BY <1>2 DEF Hub!LoopLock, Hub!Passes, Hub!HeldBack
  <1>3. CASE Hub!LoopAdmitted(b)
    BY <1>3 DEF Hub!LoopAdmitted, Hub!Admitted
  <1>4. CASE Hub!LoopUnlock(b)
    BY <1>4 DEF Hub!LoopUnlock
  <1> QED
    BY <1>2, <1>3, <1>4

LEMMA ConnShifts ==
    ASSUME ClientTypes, NEW c \in Conns,
           (Hub!ConnStep(c) /\ ~Hub!SendStep(c)) \/ Hub!Connect(c)
    PROVE  Shifts(c)
  <1>1. {"join", "joining", "run", "leave", "leaving", "done"} \subseteq Hub!Places
    BY DEF Hub!Places
  <1> USE <1>1 DEF Hub!At, Hub!Go, Hub!lockVars, Hub!subVars, Hub!clientVars, ClientTypes,
                   Moves, Busy, Shifts
  <1>2. CASE Hub!LockConnections(c)
    BY <1>2 DEF Hub!LockConnections, Hub!Announce
  <1>3. CASE Hub!Register(c)
    BY <1>3 DEF Hub!Register
  <1>4. CASE Hub!Deregister(c)
    BY <1>4 DEF Hub!Deregister
  <1>5. CASE Hub!ReadError(c)
    BY <1>5 DEF Hub!ReadError, Hub!Idle
  <1>6. CASE Hub!Connect(c)
    BY <1>6 DEF Hub!Connect
  <1> QED
    BY <1>2, <1>3, <1>4, <1>5, <1>6 DEF Hub!ConnStep

LEMMA ShiftKeeps ==
    ASSUME ClientTypes, ClientInv, NEW g \in Hub!Goroutines, Shifts(g)
    PROVE  ClientTypes' /\ ClientInv'
  <1>0. pc \in [Hub!Goroutines -> Hub!Places] /\ "orders" \in Hub!Goroutines
    BY HubMembers DEF ClientTypes
  <1>1. /\ connections' \subseteq Conns
        /\ UNCHANGED <<orderUpdatesUser, wasUser, current, out, inbox>>
    BY DEF Shifts
  <1>2. ClientTypes'
    <2>1. pc' \in [Hub!Goroutines -> Hub!Places]
      BY <1>0 DEF Shifts, Moves
    <2>2. todo' \in [Hub!Broadcasters -> SUBSET Conns]
      BY DEF Shifts, ClientTypes
    <2> QED
      BY <1>1, <2>1, <2>2 DEF ClientTypes
  <1>3. pc'["orders"] # "receive" => OfOrder(current'["orders"])
    BY <1>0, <1>1 DEF Shifts, Moves, ClientInv
  <1>4. \A h \in Hub!Goroutines : /\ pc'[h] \in Busy => out'[h] # << >>
                                  /\ pc'[h] = "receive" => out'[h] = << >>
    BY <1>0, <1>1 DEF Shifts, Moves, ClientInv
  <1> QED
    BY <1>1, <1>2, <1>3, <1>4 DEF ClientInv

\* The broadcaster takes an order out of the channel; the market has none.
LEMMA ReceiveTakes ==
    ASSUME StoreTypeOK, NEW b \in Hub!Broadcasters, Hub!Receive(b)
    PROVE  /\ b = "orders" /\ orderUpdatesCh \in Seq(Order) /\ orderUpdatesCh # << >>
           /\ pc["orders"] = "receive" /\ pc' = [pc EXCEPT !["orders"] = "lock"]
           /\ current' = [current EXCEPT !["orders"] = update(orderUpdatesCh[1])]
           /\ UNCHANGED <<connections, orderUpdatesUser, wasUser, todo, out, inbox>>
  <1> DEFINE queue == [i \in 1..Len(orderUpdatesCh) |-> update(orderUpdatesCh[i])]
             ch == [orders |-> queue, market |-> << >>]
  <1>1. /\ pc[b] = "receive" /\ pc' = [pc EXCEPT ![b] = "lock"]
        /\ ch[b] # << >> /\ current' = [current EXCEPT ![b] = Head(ch[b])]
        /\ UNCHANGED <<connections, orderUpdatesUser, wasUser, todo, out, inbox>>
    BY DEF Hub!Receive, Hub!At, Hub!Go, Hub!subVars
  <1>2. b = "orders"
    <2>1. ch["market"] = << >>
      OBVIOUS
    <2> QED
      BY <1>1, <2>1, HubMembers
  <1>3. ch["orders"] = queue
    OBVIOUS
  <1>4. orderUpdatesCh \in Seq(Order)
    BY DEF StoreTypeOK
  <1>5. 1 \in 1..Len(orderUpdatesCh) /\ orderUpdatesCh # << >>
    BY <1>1, <1>2, <1>4
  <1>6. Head(queue) = update(orderUpdatesCh[1])
    BY <1>5
  <1> HIDE DEF queue, ch
  <1> QED
    BY <1>1, <1>2, <1>3, <1>4, <1>5, <1>6

LEMMA ReceiveKeeps ==
    ASSUME StoreTypeOK, ClientTypes, ClientInv, NEW b \in Hub!Broadcasters, Hub!Receive(b)
    PROVE  ClientTypes' /\ ClientInv'
  <1> DEFINE u == update(orderUpdatesCh[1])
  <1>1. /\ pc["orders"] = "receive" /\ pc' = [pc EXCEPT !["orders"] = "lock"]
        /\ current' = [current EXCEPT !["orders"] = u]
        /\ UNCHANGED <<connections, orderUpdatesUser, wasUser, todo, out, inbox>>
    BY ReceiveTakes
  <1>2. u \in HubUpdate /\ OfOrder(u)
    BY ReceiveTakes, QueuedUpdates
  <1> HIDE DEF u
  <1>3. /\ current' \in [Hub!Broadcasters -> HubUpdate] /\ OfOrder(current'["orders"])
        /\ pc' \in [Hub!Goroutines -> Hub!Places]
    BY <1>1, <1>2, HubMembers DEF ClientTypes, Hub!Places
  <1>4. ClientTypes'
    BY <1>1, <1>3 DEF ClientTypes
  <1>5. \A g \in Hub!Goroutines : /\ pc'[g] \in Busy => out'[g] # << >>
                                  /\ pc'[g] = "receive" => out'[g] = << >>
    BY <1>1 DEF ClientTypes, ClientInv, Busy
  <1> QED
    BY <1>1, <1>3, <1>4, <1>5 DEF ClientInv

\* Order updates are sent by the broadcaster of the order it works on.
Broadcasts(g, m) == m.channel = "orderUpdates" => g = "orders" /\ m.id = current["orders"].id

\* What a visit to a connection has the broadcaster send.
LEMMA VisitQueues ==
    ASSUME ClientTypes, ClientInv, NEW b \in Hub!Broadcasters, pc[b] = "run", NEW c \in Conns
    PROVE  /\ Hub!ForConn(b, c) \in Seq(Packet)
           /\ \A i \in 1..Len(Hub!ForConn(b, c)) :
                 LET p == Hub!ForConn(b, c)[i]
                 IN  p.to = c /\ MayRead(wasUser[c], p.msg) /\ Broadcasts(b, p.msg)
  <1> DEFINE u == current[b]
             wantsOrder == b = "orders" /\ Hub!shouldSend(c, u)
             wantsBook == b = "market" /\ u.coin \in l2BookCoins[c]
             wantsBBO == b = "market" /\ u.coin \in bboCoins[c] \ l2BookCoins[c]
             order == Hub!To(c, Hub!Message("orderUpdates", u))
             book == Hub!To(c, Hub!Message("l2Book", u))
             bbo == Hub!To(c, Hub!Message("bbo", u))
             Right(p) == p.to = c /\ MayRead(wasUser[c], p.msg) /\ Broadcasts(b, p.msg)
  <1>1. Hub!ForConn(b, c) = CASE wantsOrder -> <<order>> [] wantsBook -> <<book>>
                              [] wantsBBO -> <<bbo>> [] OTHER -> << >>
    BY DEF Hub!ForConn
  <1>2. order \in Packet /\ book \in Packet /\ bbo \in Packet
    BY MessageTypes DEF ClientTypes
  <1>3. Right(book) /\ Right(bbo)
    BY DEF Hub!To, Hub!Message, MayRead, Broadcasts
  <1>4. wantsOrder => Right(order)
    <2>0. u \in HubUpdate /\ u.user \in Address
      BY DEF ClientTypes, HubUpdate
    <2>1. wantsOrder => /\ OfOrder(u) /\ orderUpdatesUser[c] # Unsigned
                        /\ u.user = Unsigned \/ normalizeAddress(u.user) = orderUpdatesUser[c]
      BY <2>0 DEF Hub!shouldSend, ClientInv
    <2>2. orderUpdatesUser[c] \in wasUser[c] \cup {Unsigned}
      BY DEF ClientInv
    <2>3. order.to = c /\ order.msg.id = u.id /\ order.msg.user = u.user
      BY DEF Hub!To, Hub!Message
    <2> QED
      BY <2>1, <2>2, <2>3 DEF MayRead, OfOrder, Broadcasts
  <1> HIDE DEF wantsOrder, wantsBook, wantsBBO, order, book, bbo, Right
  <1>5. Hub!ForConn(b, c) = << >> \/ \E p \in Packet : Hub!ForConn(b, c) = <<p>> /\ Right(p)
    BY <1>1, <1>2, <1>3, <1>4
  <1> DEFINE sent == Hub!ForConn(b, c)
  <1> HIDE DEF sent
  <1>6. sent \in Seq(Packet) /\ \A i \in 1..Len(sent) : Right(sent[i])
    <2>1. sent = << >> \/ \E p \in Packet : sent = <<p>> /\ Right(p)
      BY <1>5 DEF sent
    <2>2. CASE sent = << >>
      BY <2>2
    <2>3. ASSUME NEW p \in Packet, sent = <<p>>, Right(p)
          PROVE  sent \in Seq(Packet) /\ \A i \in 1..Len(sent) : Right(sent[i])
      <3>1. sent \in Seq(Packet) /\ Len(sent) = 1 /\ sent[1] = p
        BY <2>3
      <3>2. \A i \in 1..Len(sent) : sent[i] = p
        BY <3>1
      <3> QED
        BY <2>3, <3>1, <3>2
    <2> QED
      BY <2>1, <2>2, <2>3
  <1> QED
    BY <1>6 DEF Right, sent

LEMMA VisitKeeps ==
    ASSUME ClientTypes, ClientInv, NEW b \in Hub!Broadcasters, Hub!Visit(b)
    PROVE  ClientTypes' /\ ClientInv'
  <1>1. PICK c \in todo[b] : /\ todo' = [todo EXCEPT ![b] = @ \ {c}]
                             /\ out' = [out EXCEPT ![b] = Hub!ForConn(b, c)]
    BY DEF Hub!Visit
  <1>2. /\ pc[b] = "run"
        /\ UNCHANGED <<connections, orderUpdatesUser, wasUser, pc, current, inbox>>
    BY DEF Hub!Visit, Hub!At, Hub!subVars
  <1>3. c \in Conns /\ b \in Hub!Goroutines
    BY HubMembers DEF ClientTypes
  <1> DEFINE new == Hub!ForConn(b, c)
  <1>4. /\ new \in Seq(Packet)
        /\ \A i \in 1..Len(new) : new[i].to = c /\ MayRead(wasUser[c], new[i].msg)
    BY <1>2, <1>3, VisitQueues
  <1>5. /\ out \in [Hub!Goroutines -> Seq(Packet)]
        /\ out' \in [Hub!Goroutines -> Seq(Packet)]
        /\ \A g \in Hub!Goroutines : out'[g] = IF g = b THEN new ELSE out[g]
    <2> HIDE DEF new
    <2> QED
      BY <1>1, <1>3, <1>4 DEF ClientTypes, new
  <1> HIDE DEF new
  <1>6. ClientTypes'
    <2>1. todo' \in [Hub!Broadcasters -> SUBSET Conns]
      BY <1>1 DEF ClientTypes
    <2> QED
      BY <1>2, <1>5, <2>1 DEF ClientTypes
  <1>7. \A g \in Hub!Goroutines : /\ pc'[g] \in Busy => out'[g] # << >>
                                  /\ pc'[g] = "receive" => out'[g] = << >>
    BY <1>2, <1>5 DEF ClientInv, Busy
  <1>8. ASSUME NEW g \in Hub!Goroutines, NEW i \in 1..Len(out'[g])
        PROVE  MayRead(wasUser'[out'[g][i].to], out'[g][i].msg)
    <2>1. CASE g = b
      <3>1. out'[g] = new /\ i \in 1..Len(new)
        BY <1>5, <2>1
      <3>2. new[i].to = c /\ MayRead(wasUser[c], new[i].msg)
        BY <1>4, <3>1
      <3>3. MayRead(wasUser'[new[i].to], new[i].msg)
        BY <1>2, <3>2
      <3> QED
        BY <3>1, <3>3
    <2>2. CASE g # b
      BY <1>2, <1>5, <2>2 DEF ClientInv
    <2> QED
      BY <2>1, <2>2
  <1> QED
    BY <1>2, <1>6, <1>7, <1>8 DEF ClientInv

\* A client's message is answered with messages that carry no order.
IsReply(p) == p \in Packet /\ p.msg.channel # "orderUpdates"
AllReplies(s) == s \in Seq(Packet) /\ \A i \in 1..Len(s) : IsReply(s[i])

LEMMA AskTypes ==
    ASSUME NEW m \in Asks
    PROVE  /\ m.method \in {"subscribe", "unsubscribe", "bad"}
           /\ m.type \in {"orderUpdates", "l2Book", "bbo"} /\ m.coin \in Coins
           /\ m.user \in Address /\ Hub!normalizedUser(m) \in Followed
  <1>1. /\ m.method \in {"subscribe", "unsubscribe", "bad"}
        /\ m.type \in {"orderUpdates", "l2Book", "bbo"} /\ m.coin \in Coins
        /\ m.user \in Address
    BY ServerAssumption, FollowedWallets DEF Hub!Ask
  <1>2. Hub!normalizedUser(m) = normalizeAddress(m.user)
    BY <1>1 DEF Hub!normalizedUser
  <1> QED
    BY <1>1, <1>2, NormalIsFollowed

LEMMA HandleAnswers ==
    ASSUME NEW c \in Conns, Hub!HandleMessage(c)
    PROVE  out' = out \/ \E s : AllReplies(s) /\ out' = [out EXCEPT ![c] = s]
  <1>1. PICK m \in Asks : Hub!Subscribe(c, m) \/ Hub!Unsubscribe(c, m) \/ Hub!Reject(c, m)
    BY DEF Hub!HandleMessage
  <1>2. /\ m.method \in {"subscribe", "unsubscribe", "bad"}
        /\ m.type \in {"orderUpdates", "l2Book", "bbo"} /\ m.coin \in Coins
    BY AskTypes
  <1>3. \A ch \in {"l2Book", "bbo", "subscriptionResponse", "error"} :
          IsReply(Hub!To(c, Hub!Reply(ch, m.coin)))
    <2>1. \A ch \in {"l2Book", "bbo", "subscriptionResponse", "error"} :
            Hub!To(c, Hub!Reply(ch, m.coin)).msg.channel # "orderUpdates"
      BY DEF Hub!To, Hub!Reply
    <2> QED
      BY <1>2, <2>1, MessageTypes DEF IsReply
  <1>4. \A p : IsReply(p) => AllReplies(<<p>>)
    BY DEF IsReply, AllReplies
  <1>5. \A p, q : IsReply(p) /\ IsReply(q) => AllReplies(<<p>> \o <<q>>) /\ AllReplies(<<p>> \o << >>)
    <2> TAKE p, q
    <2> HAVE IsReply(p) /\ IsReply(q)
    <2>1. <<p>> \in Seq(Packet) /\ <<q>> \in Seq(Packet) /\ << >> \in Seq(Packet)
      BY DEF IsReply
    <2> DEFINE two == <<p>> \o <<q>>   one == <<p>> \o << >>
    <2>2. two \in Seq(Packet) /\ one \in Seq(Packet)
      BY <2>1
    <2>3. (\A i \in 1..Len(two) : two[i] = p \/ two[i] = q) /\ \A i \in 1..Len(one) : one[i] = p
      OBVIOUS
    <2> HIDE DEF one, two
    <2>4. AllReplies(two) /\ AllReplies(one)
      BY <2>2, <2>3 DEF AllReplies
    <2> QED
      BY <2>4 DEF one, two
  <1>6. CASE Hub!Subscribe(c, m)
    <2> DEFINE ack == Hub!To(c, Hub!Reply("subscriptionResponse", m.coin))
               snapshot == Hub!To(c, Hub!Reply(m.type, m.coin))
               answers == <<ack>> \o (IF m.type = "orderUpdates" THEN << >> ELSE <<snapshot>>)
    <2>1. IsReply(ack) /\ (m.type # "orderUpdates" => IsReply(snapshot))
      BY <1>2, <1>3
    <2>2. out' = [out EXCEPT ![c] = answers]
      BY <1>6 DEF Hub!Subscribe, Hub!Snapshot
    <2> HIDE DEF ack, snapshot
    <2>3. AllReplies(answers)
      BY <1>5, <2>1
    <2> HIDE DEF answers
    <2> QED
      BY <2>2, <2>3
  <1>7. CASE Hub!Unsubscribe(c, m)
    BY <1>7 DEF Hub!Unsubscribe
  <1>8. CASE Hub!Reject(c, m)
    <2> DEFINE reply == Hub!To(c, Hub!Reply("error", m.coin))
    <2>1. IsReply(reply) /\ out' = [out EXCEPT ![c] = <<reply>>]
      BY <1>3, <1>8 DEF Hub!Reject
    <2> HIDE DEF reply
    <2> QED
      BY <1>4, <2>1
  <1> QED
    BY <1>1, <1>6, <1>7, <1>8

LEMMA HandleKeeps ==
    ASSUME ClientTypes, ClientInv, NEW c \in Conns, Hub!HandleMessage(c)
    PROVE  ClientTypes' /\ ClientInv'
  <1>0. /\ pc[c] = "run" /\ c \in Hub!Goroutines
        /\ UNCHANGED <<connections, pc, todo, current, inbox>>
        /\ out \in [Hub!Goroutines -> Seq(Packet)]
        /\ wasUser \in [Conns -> SUBSET Followed] /\ orderUpdatesUser \in [Conns -> Followed]
        /\ Unsigned \in Followed
    BY HubMembers, FollowedWallets DEF Hub!HandleMessage, Hub!Idle, Hub!At, ClientTypes
  <1>1. PICK m \in Asks : Hub!Subscribe(c, m) \/ Hub!Unsubscribe(c, m) \/ Hub!Reject(c, m)
    BY DEF Hub!HandleMessage
  <1> DEFINE user == Hub!normalizedUser(m)
  <1>2. user \in Followed
    BY AskTypes
  <1>3. out' = out \/ \E s : AllReplies(s) /\ out' = [out EXCEPT ![c] = s]
    BY HandleAnswers
  <1>4. \/ UNCHANGED <<orderUpdatesUser, wasUser>>
        \/ /\ orderUpdatesUser' = [orderUpdatesUser EXCEPT ![c] = user]
           /\ wasUser' = [wasUser EXCEPT ![c] = @ \cup {user}]
        \/ orderUpdatesUser' = [orderUpdatesUser EXCEPT ![c] = Unsigned] /\ wasUser' = wasUser
    BY <1>1 DEF Hub!Subscribe, Hub!Unsubscribe, Hub!Reject, Hub!subVars
  <1> HIDE DEF user
  <1>5. /\ wasUser' \in [Conns -> SUBSET Followed]
        /\ orderUpdatesUser' \in [Conns -> Followed]
        /\ \A d \in Conns : /\ wasUser[d] \subseteq wasUser'[d]
                            /\ orderUpdatesUser'[d] \in wasUser'[d] \cup {Unsigned}
    BY <1>0, <1>2, <1>4 DEF ClientInv
  <1>6. out' \in [Hub!Goroutines -> Seq(Packet)]
    BY <1>0, <1>3 DEF AllReplies
  <1>7. ClientTypes'
    BY <1>0, <1>5, <1>6 DEF ClientTypes
  <1>8. \A g \in Hub!Goroutines : /\ pc'[g] \in Busy => out'[g] # << >>
                                  /\ pc'[g] = "receive" => out'[g] = << >>
    BY <1>0, <1>3 DEF ClientInv, Busy
  <1>9. ASSUME NEW g \in Hub!Goroutines, NEW i \in 1..Len(out'[g])
        PROVE  MayRead(wasUser'[out'[g][i].to], out'[g][i].msg)
    <2>1. CASE out'[g] = out[g]
      <3>1. out[g][i] \in Packet /\ MayRead(wasUser[out[g][i].to], out[g][i].msg)
        BY <1>0, <2>1 DEF ClientInv
      <3>2. out[g][i].to \in Conns
        BY <3>1 DEF Packet
      <3> QED
        BY <1>5, <2>1, <3>1, <3>2, RightsGrow
    <2>2. CASE out'[g] # out[g]
      <3>1. AllReplies(out'[g])
        BY <1>0, <1>3, <2>2
      <3> QED
        BY <3>1 DEF AllReplies, IsReply, MayRead
    <2> QED
      BY <2>1, <2>2
  <1>10. ASSUME NEW d \in Conns, NEW i \in 1..Len(inbox'[d])
         PROVE  MayRead(wasUser'[d], inbox'[d][i])
    BY <1>0, <1>5, <1>10, RightsGrow DEF ClientInv
  <1>11. pc'["orders"] # "receive" => OfOrder(current'["orders"])
    BY <1>0 DEF ClientInv
  <1> QED
    BY <1>5, <1>7, <1>8, <1>9, <1>10, <1>11 DEF ClientInv

-----------------------------------------------------------------------------
LEMMA InitClients == ServerInit => ClientTypes /\ ClientInv
  <1> SUFFICES ASSUME Hub!Init PROVE ClientTypes /\ ClientInv
    BY DEF ServerInit
  <1>1. /\ connections = {} /\ \A g \in Hub!Goroutines : Len(out[g]) = 0 /\ out[g] = << >>
        /\ \A c \in Conns : Len(inbox[c]) = 0 /\ orderUpdatesUser[c] = Unsigned
    BY DEF Hub!Init
  <1>2. pc["orders"] = "receive" /\ \A g \in Hub!Goroutines : pc[g] \in {"off", "receive"}
    BY HubMembers DEF Hub!Init
  <1>3. Hub!NoUpdate \in HubUpdate
    BY FollowedWallets DEF Hub!NoUpdate, HubUpdate
  <1>4. ClientTypes
    BY <1>3, FollowedWallets DEF Hub!Init, ClientTypes, Hub!Places
  <1> QED
    BY <1>1, <1>2, <1>4 DEF ClientInv, Busy

\* A client that hangs up only changes what nobody here looks at.
feedVars == <<connections, orderUpdatesUser, wasUser, todo, current, pc, out, inbox>>
LEMMA HangUpKeeps == \A c \in Conns : Hub!HangUp(c) => UNCHANGED feedVars
  BY DEF Hub!HangUp, Hub!subVars, feedVars

LEMMA StepClients ==
    StoreTypeOK /\ ClientTypes /\ ClientInv /\ [ServerNext]_serverVars
        => ClientTypes' /\ ClientInv'
  <1> SUFFICES ASSUME StoreTypeOK, ClientTypes, ClientInv, [ServerNext]_serverVars
               PROVE  ClientTypes' /\ ClientInv'
    OBVIOUS
  <1>0. ASSUME UNCHANGED feedVars PROVE ClientTypes' /\ ClientInv'
    BY <1>0 DEF feedVars, ClientTypes, ClientInv
  <1>1. ASSUME UNCHANGED hubVars PROVE ClientTypes' /\ ClientInv'
    BY <1>0, <1>1 DEF hubVars, feedVars
  <1>2. ASSUME NEW h \in Handlers, Handle(h) PROVE UNCHANGED hubVars
    BY <1>2 DEF Handle
  <1>3. CASE BeginRequest
    BY <1>1, <1>3 DEF BeginRequest
  <1>4. CASE Drive
    BY <1>1, <1>4 DEF Drive
  <1>5. CASE Broadcast
    BY <1>5, HubMembers, ReceiveKeeps DEF Broadcast
  <1>6. ASSUME NEW b \in Hub!Broadcasters, Hub!BroadcasterStep(b)
        PROVE  ClientTypes' /\ ClientInv'
    BY <1>6, HubMembers, ReceiveKeeps, LoopShifts, ShiftKeeps, VisitKeeps, SendStepSends, SendKeeps
    DEF Hub!BroadcasterStep
  <1>7. ASSUME NEW c \in Conns, Hub!ConnStep(c)
        PROVE  ClientTypes' /\ ClientInv'
    BY <1>7, HubMembers, ConnShifts, ShiftKeeps, SendStepSends, SendKeeps
  <1>8. CASE Manage
    BY <1>6, <1>7, <1>8 DEF Manage, Hub!Step
  <1>9. CASE Client
    BY <1>0, <1>9, HubMembers, ConnShifts, ShiftKeeps, HandleKeeps, HangUpKeeps DEF Client
  <1>10. CASE Settled
    BY <1>1, <1>10 DEF Settled, Hub!Quiet, Hub!vars, Hub!subVars, Hub!lockVars, Hub!clientVars,
                       hubVars
  <1>11. CASE UNCHANGED serverVars
    BY <1>1, <1>11 DEF serverVars
  <1> QED
    BY <1>1, <1>2, <1>3, <1>4, <1>5, <1>8, <1>9, <1>10, <1>11 DEF ServerNext

\* However many handlers place, fill, modify and cancel orders, and however the
\* clients subscribe meanwhile: a signed order is shown only to clients that
\* have subscribed to the wallet whose signature placed it, and an unsigned one
\* to subscribers only (processOrder, BroadcastOrderUpdate,
\* broadcastOrderUpdates).
THEOREM OrdersStayPrivate == ServerSpec => []OwnOrdersOnly
  <1>1. ClientTypes /\ ClientInv => OwnOrdersOnly
    <2> SUFFICES ASSUME ClientTypes, ClientInv, NEW c \in Conns, NEW i \in 1..Len(inbox[c]),
                        inbox[c][i].channel = "orderUpdates"
                 PROVE  LET owner == inbox[c][i].id.user.wallet
                            subscribed == {u.wallet : u \in wasUser[c]} \ {NoWallet}
                        IN  owner \in subscribed \/ (owner = NoWallet /\ subscribed # {})
      BY DEF OwnOrdersOnly
    <2> DEFINE m == inbox[c][i]
    <2>1. /\ OfOrder(m) /\ wasUser[c] \ {Unsigned} # {}
          /\ m.user = Unsigned \/ normalizeAddress(m.user) \in wasUser[c]
      BY DEF ClientInv, MayRead
    <2>2. m.user = m.id.user /\ normalizeAddress(m.user).wallet = m.id.user.wallet
      <3>1. m.id.user \in Address
        BY <2>1 DEF OfOrder, Order
      <3> QED
        BY <2>1, <3>1, NormalAddress DEF OfOrder
    <2>3. wasUser[c] \subseteq Followed
      BY DEF ClientTypes
    <2>4. PICK u \in wasUser[c] : u.wallet # NoWallet
      BY <2>1, <2>3, FollowedWallets
    <2>5. CASE m.user = Unsigned
      BY <2>2, <2>4, <2>5 DEF Unsigned
    <2>6. CASE normalizeAddress(m.user) \in wasUser[c]
      <3>1. \/ normalizeAddress(m.user) = Unsigned
            \/ normalizeAddress(m.user).wallet # NoWallet
        BY <2>3, <2>6, FollowedWallets
      <3> QED
        BY <2>2, <2>4, <2>6, <3>1 DEF Unsigned
    <2> QED
      BY <2>1, <2>5, <2>6
  <1>2. ServerSpec => []StoreTypeOK
    BY StoreStaysTyped
  <1> QED
    BY <1>1, <1>2, InitClients, StepClients, PTL DEF ServerSpec

-----------------------------------------------------------------------------
(***************************************************************************)
(* The order in which clients are shown what happened.                     *)
(*                                                                         *)
(* Every update can be given a date, the state of the book it was taken    *)
(* from, so that dates do not decrease along the way: what a client has    *)
(* been shown is no later than the update the broadcaster works on, and    *)
(* that is no later than the updates in the channel.                       *)
(***************************************************************************)
Book == UNION {[K -> Order] : K \in SUBSET Key}

\* The queue can be dated from `last` on, what was received up to `last`.
QueuedSince(queue, books, last) ==
    \E when \in [1..Len(queue) -> 1..Len(books)] :
        \A i \in 1..Len(queue) :
            /\ Had(books, queue[i], when[i])
            /\ last <= when[i]
            /\ \A j \in 1..Len(queue) : i <= j => when[i] <= when[j]
ShownUntil(received, books, last) ==
    \E when \in [ShownAt(received) -> 1..Len(books)] :
        /\ Dates(received, books, when)
        /\ \A i \in ShownAt(received) : when[i] <= last

HistoryOK ==
    /\ history \in Seq(Book) /\ history # << >>
    /\ history[Len(history)] = orders

SentByBroadcaster ==
    \A g \in Hub!Goroutines : \A i \in 1..Len(out[g]) : Broadcasts(g, out[g][i].msg)

\* The update that the broadcaster works on has the date `last`.
Dated(last) ==
    /\ last \in 1..Len(history)
    /\ pc["orders"] # "receive" => Had(history, current["orders"].id, last)
    /\ QueuedSince(orderUpdatesCh, history, last)
    /\ \A c \in Conns : ShownUntil(inbox[c], history, last)
TraceInv == HistoryOK /\ SentByBroadcaster /\ \E last \in 1..Len(history) : Dated(last)

LEMMA AppendFacts ==
    ASSUME NEW S, NEW s \in Seq(S), NEW x
    PROVE  /\ Len(s) \in Nat /\ Len(Append(s, x)) = Len(s) + 1 /\ Append(s, x)[Len(s) + 1] = x
           /\ \A i \in 1..Len(s) : Append(s, x)[i] = s[i]
  <1>1. s \in Seq(S \cup {x}) /\ x \in S \cup {x}
    OBVIOUS
  <1> QED
    BY <1>1

\* Dates stay as the history goes on.
LEMMA LaterHad ==
    ASSUME NEW books \in Seq(Book), NEW b \in Book, NEW o, NEW n, Had(books, o, n)
    PROVE  Had(Append(books, b), o, n)
  BY DEF Had

LEMMA LaterQueued ==
    ASSUME NEW books \in Seq(Book), NEW b \in Book, NEW queue, NEW last,
           QueuedSince(queue, books, last)
    PROVE  QueuedSince(queue, Append(books, b), last)
  <1>1. PICK when \in [1..Len(queue) -> 1..Len(books)] :
          \A i \in 1..Len(queue) :
              /\ Had(books, queue[i], when[i]) /\ last <= when[i]
              /\ \A j \in 1..Len(queue) : i <= j => when[i] <= when[j]
    BY DEF QueuedSince
  <1>2. when \in [1..Len(queue) -> 1..Len(Append(books, b))]
    BY AppendFacts
  <1>3. \A i \in 1..Len(queue) : Had(Append(books, b), queue[i], when[i])
    BY <1>1, LaterHad
  <1> QED
    BY <1>1, <1>2, <1>3 DEF QueuedSince

LEMMA LaterShown ==
    ASSUME NEW books \in Seq(Book), NEW b \in Book, NEW received, NEW last,
           ShownUntil(received, books, last)
    PROVE  ShownUntil(received, Append(books, b), last)
  <1>1. PICK when \in [ShownAt(received) -> 1..Len(books)] :
          Dates(received, books, when) /\ \A i \in ShownAt(received) : when[i] <= last
    BY DEF ShownUntil
  <1>2. when \in [ShownAt(received) -> 1..Len(Append(books, b))]
    BY AppendFacts
  <1>3. Dates(received, Append(books, b), when)
    BY <1>1, LaterHad DEF Dates
  <1> QED
    BY <1>1, <1>2, <1>3 DEF ShownUntil

\* An update that is queued is dated now.
LEMMA QueueGrows ==
    ASSUME NEW books \in Seq(Book), books # << >>, NEW queue \in Seq(Order), NEW o,
           NEW last \in 1..Len(books),
           QueuedSince(queue, books, last), Had(books, o, Len(books))
    PROVE  QueuedSince(Append(queue, o), books, last)
  <1>1. PICK when \in [1..Len(queue) -> 1..Len(books)] :
          \A i \in 1..Len(queue) :
              /\ Had(books, queue[i], when[i]) /\ last <= when[i]
              /\ \A j \in 1..Len(queue) : i <= j => when[i] <= when[j]
    BY DEF QueuedSince
  <1> DEFINE n == Len(queue)
             longer == Append(queue, o)
             dates == [i \in 1..(n + 1) |-> IF i = n + 1 THEN Len(books) ELSE when[i]]
  <1>2. /\ n \in Nat /\ Len(longer) = n + 1 /\ longer[n + 1] = o
        /\ \A i \in 1..n : longer[i] = queue[i]
    BY AppendFacts
  <1> HIDE DEF n, longer
  <1>3. dates \in [1..Len(longer) -> 1..Len(books)]
    BY <1>1, <1>2 DEF n
  <1>4. \A i \in 1..Len(longer) :
          /\ Had(books, longer[i], dates[i]) /\ last <= dates[i]
          /\ \A j \in 1..Len(longer) : i <= j => dates[i] <= dates[j]
    <2> TAKE i \in 1..Len(longer)
    <2>1. dates[n + 1] = Len(books) /\ \A j \in 1..n : dates[j] = when[j] /\ when[j] <= Len(books)
      BY <1>1, <1>2 DEF n
    <2> HIDE DEF dates
    <2>2. CASE i = n + 1
      BY <1>2, <2>1, <2>2
    <2>3. CASE i # n + 1
      <3>1. i \in 1..n /\ i \in 1..Len(queue)
        BY <1>2, <2>3 DEF n
      <3>2. Had(books, longer[i], dates[i]) /\ last <= dates[i]
        BY <1>1, <1>2, <2>1, <3>1
      <3>3. \A j \in 1..Len(longer) : i <= j => dates[i] <= dates[j]
        BY <1>1, <1>2, <2>1, <3>1 DEF n
      <3> QED
        BY <3>2, <3>3
    <2> QED
      BY <2>2, <2>3
  <1> HIDE DEF dates
  <1>5. QueuedSince(longer, books, last)
    BY <1>3, <1>4 DEF QueuedSince
  <1> QED
    BY <1>5 DEF longer

\* The update taken next is dated with the first of the queue, and the others
\* are no earlier.
LEMMA QueueTaken ==
    ASSUME NEW books \in Seq(Book), NEW queue \in Seq(Order), queue # << >>,
           NEW last \in 1..Len(books), QueuedSince(queue, books, last)
    PROVE  \E date \in 1..Len(books) :
              /\ last <= date /\ Had(books, queue[1], date)
              /\ QueuedSince(queue, books, date) /\ QueuedSince(Tail(queue), books, date)
  <1>1. PICK when \in [1..Len(queue) -> 1..Len(books)] :
          \A i \in 1..Len(queue) :
              /\ Had(books, queue[i], when[i]) /\ last <= when[i]
              /\ \A j \in 1..Len(queue) : i <= j => when[i] <= when[j]
    BY DEF QueuedSince
  <1> DEFINE rest == Tail(queue)
             date == when[1]
             dates == [i \in 1..Len(rest) |-> when[i + 1]]
  <1>2. /\ Len(queue) \in Nat /\ 1 \in 1..Len(queue) /\ Len(rest) = Len(queue) - 1
        /\ \A i \in 1..Len(rest) : i + 1 \in 1..Len(queue) /\ rest[i] = queue[i + 1]
    OBVIOUS
  <1>3. /\ date \in 1..Len(books) /\ last <= date /\ Had(books, queue[1], date)
        /\ \A i \in 1..Len(queue) : date <= when[i]
    BY <1>1, <1>2
  <1> HIDE DEF rest, date
  <1>4. QueuedSince(queue, books, date)
    BY <1>1, <1>3 DEF QueuedSince
  <1>5. dates \in [1..Len(rest) -> 1..Len(books)]
    BY <1>1, <1>2
  <1>6. \A i \in 1..Len(rest) :
          /\ Had(books, rest[i], dates[i]) /\ date <= dates[i]
          /\ \A j \in 1..Len(rest) : i <= j => dates[i] <= dates[j]
    <2> TAKE i \in 1..Len(rest)
    <2>1. i + 1 \in 1..Len(queue) /\ rest[i] = queue[i + 1] /\ dates[i] = when[i + 1]
      BY <1>2
    <2>2. \A j \in 1..Len(rest) : i <= j => dates[i] <= dates[j]
      <3> TAKE j \in 1..Len(rest)
      <3>1. j + 1 \in 1..Len(queue) /\ dates[j] = when[j + 1] /\ (i <= j => i + 1 <= j + 1)
        BY <1>2
      <3> QED
        BY <1>1, <2>1, <3>1
    <2> QED
      BY <1>1, <1>3, <2>1, <2>2
  <1> HIDE DEF dates
  <1>7. QueuedSince(rest, books, date)
    BY <1>5, <1>6 DEF QueuedSince
  <1> QED
    BY <1>3, <1>4, <1>7 DEF rest

\* A client is shown the update that the broadcaster works on, or something that
\* is no order update.
LEMMA ShownGrows ==
    ASSUME NEW books \in Seq(Book), NEW received \in Seq(HubMsg), NEW m \in HubMsg,
           NEW last \in 1..Len(books), ShownUntil(received, books, last),
           m.channel = "orderUpdates" => Had(books, m.id, last)
    PROVE  ShownUntil(Append(received, m), books, last)
  <1>1. PICK when \in [ShownAt(received) -> 1..Len(books)] :
          Dates(received, books, when) /\ \A i \in ShownAt(received) : when[i] <= last
    BY DEF ShownUntil
  <1> DEFINE n == Len(received)
             longer == Append(received, m)
             dates == [i \in ShownAt(longer) |-> IF i = n + 1 THEN last ELSE when[i]]
  <1>2. /\ n \in Nat /\ Len(longer) = n + 1 /\ longer[n + 1] = m
        /\ \A i \in 1..n : longer[i] = received[i]
    BY AppendFacts
  <1> HIDE DEF longer
  <1>3. /\ \A i \in ShownAt(longer) : i \in 1..(n + 1) /\ longer[i].channel = "orderUpdates"
        /\ \A i \in ShownAt(longer) : i # n + 1 => i \in ShownAt(received)
        /\ n + 1 \in ShownAt(longer) => m.channel = "orderUpdates"
        /\ \A i \in ShownAt(received) : i \in 1..n
    BY <1>2 DEF ShownAt
  <1> HIDE DEF n
  <1>4. dates \in [ShownAt(longer) -> 1..Len(books)]
    BY <1>1, <1>3
  <1>5. /\ n + 1 \in ShownAt(longer) => dates[n + 1] = last
        /\ \A i \in ShownAt(longer) : i # n + 1 => dates[i] = when[i] /\ when[i] \in 1..Len(books)
    BY <1>1, <1>3
  <1> HIDE DEF dates
  <1>6. \A i \in ShownAt(longer) : Had(books, longer[i].id, dates[i]) /\ dates[i] <= last
    <2> TAKE i \in ShownAt(longer)
    <2>1. CASE i = n + 1
      BY <1>2, <1>3, <1>5, <2>1
    <2>2. CASE i # n + 1
      BY <1>1, <1>2, <1>3, <1>5, <2>2 DEF Dates
    <2> QED
      BY <2>1, <2>2
  <1>7. \A i, j \in ShownAt(longer) : i <= j => dates[i] <= dates[j]
    <2> TAKE i, j \in ShownAt(longer)
    <2>1. CASE j = n + 1
      BY <1>5, <1>6, <2>1
    <2>2. CASE j # n + 1 /\ i # n + 1
      BY <1>1, <1>3, <1>5, <2>2 DEF Dates
    <2>3. CASE j # n + 1 /\ i = n + 1
      BY <1>2, <1>3, <2>3
    <2> QED
      BY <2>1, <2>2, <2>3
  <1>8. ShownUntil(longer, books, last)
    BY <1>4, <1>6, <1>7 DEF ShownUntil, Dates
  <1> QED
    BY <1>8 DEF longer

LEMMA ShownLater ==
    ASSUME NEW books \in Seq(Book), NEW received, NEW last \in 1..Len(books),
           NEW date \in 1..Len(books), last <= date, ShownUntil(received, books, last)
    PROVE  ShownUntil(received, books, date)
  <1>1. PICK when \in [ShownAt(received) -> 1..Len(books)] :
          Dates(received, books, when) /\ \A i \in ShownAt(received) : when[i] <= last
    BY DEF ShownUntil
  <1>2. \A i \in ShownAt(received) : when[i] <= date
    BY <1>1
  <1> QED
    BY <1>1, <1>2 DEF ShownUntil

LEMMA QueuedEarlier ==
    ASSUME NEW books \in Seq(Book), NEW queue, NEW last \in 1..Len(books),
           NEW date \in 1..Len(books), last <= date, QueuedSince(queue, books, date)
    PROVE  QueuedSince(queue, books, last)
  <1>1. PICK when \in [1..Len(queue) -> 1..Len(books)] :
          \A i \in 1..Len(queue) :
              /\ Had(books, queue[i], when[i]) /\ date <= when[i]
              /\ \A j \in 1..Len(queue) : i <= j => when[i] <= when[j]
    BY DEF QueuedSince
  <1>2. \A i \in 1..Len(queue) : last <= when[i]
    BY <1>1
  <1> QED
    BY <1>1, <1>2 DEF QueuedSince

\* What an operation on the book does to the channel: nothing, or it takes the
\* first update out, or it puts in an order as the book now has it.
LEMMA FeedStep ==
    ASSUME StoreTypeOK, StoreInv, [StoreNext]_storeVars
    PROVE  \/ orderUpdatesCh' = orderUpdatesCh
           \/ orderUpdatesCh # << >> /\ orderUpdatesCh' = Tail(orderUpdatesCh)
           \/ \E o : /\ orderUpdatesCh' = Append(orderUpdatesCh, o)
                     /\ KeyOf(o) \in DOMAIN orders' /\ orders'[KeyOf(o)] = o
  <1>1. ASSUME NEW o \in Order, Creation(o)
        PROVE  KeyOf(o) \in DOMAIN orders' /\ orders'[KeyOf(o)] = o
    BY <1>1 DEF Creation, Put
  <1>2. ASSUME NEW k \in DOMAIN orders, NEW o \in Order, Rewrite(k, o)
        PROVE  KeyOf(o) \in DOMAIN orders' /\ orders'[KeyOf(o)] = o
    <2>1. KeyOf(o) = k
      BY <1>2 DEF Rewrite, KeyOf, StoreInv, KeysConsistent
    <2> QED
      BY <1>2, <2>1 DEF Rewrite, Store
  <1>3. ASSUME NEW o, BroadcastOrderUpdate(o)
        PROVE  orderUpdatesCh' = orderUpdatesCh \/ orderUpdatesCh' = Append(orderUpdatesCh, o)
    BY <1>3 DEF BroadcastOrderUpdate
  <1>4. CASE UNCHANGED storeVars
    BY <1>4 DEF storeVars
  <1>5. CASE Receive
    BY <1>5 DEF Receive
  <1> QED
    BY <1>1, <1>2, <1>3, <1>4, <1>5, StepKinds DEF Creation, Rewrite, Store

\* A step of a handler or of the test driver is recorded.
LEMMA BookTrace ==
    ASSUME StoreTypeOK, StoreTypeOK', StoreInv, TraceInv, [StoreNext]_storeVars, Recorded,
           UNCHANGED hubVars
    PROVE  TraceInv'
  <1>1. orders' \in Book
    <2>1. orders' \in [DOMAIN orders' -> Order] /\ DOMAIN orders' \subseteq Key
      BY DEF StoreTypeOK
    <2> QED
      BY <2>1 DEF Book
  <1>2. history \in Seq(Book) /\ history # << >> /\ history[Len(history)] = orders
    BY DEF TraceInv, HistoryOK
  <1>3. /\ history' \in Seq(Book) /\ history' # << >> /\ history'[Len(history')] = orders'
        /\ Len(history') \in Nat /\ Len(history) <= Len(history')
        /\ history' = history \/ \E b \in Book : history' = Append(history, b)
    <2>1. CASE orders' = orders
      BY <1>2, <2>1 DEF Recorded
    <2>2. CASE orders' # orders
      <3>1. history' = Append(history, orders')
        BY <2>2 DEF Recorded
      <3> QED
        BY <1>1, <1>2, <3>1
    <2> QED
      BY <2>1, <2>2
  <1>4. PICK last \in 1..Len(history) : Dated(last)
    BY DEF TraceInv
  <1>5. last \in 1..Len(history')
    BY <1>2, <1>3
  <1>6. /\ pc["orders"] # "receive" => Had(history', current["orders"].id, last)
        /\ QueuedSince(orderUpdatesCh, history', last)
        /\ \A c \in Conns : ShownUntil(inbox[c], history', last)
    <2>1. /\ pc["orders"] # "receive" => Had(history, current["orders"].id, last)
          /\ QueuedSince(orderUpdatesCh, history, last)
          /\ \A c \in Conns : ShownUntil(inbox[c], history, last)
      BY <1>4 DEF Dated
    <2>2. CASE history' = history
      BY <2>1, <2>2
    <2>3. ASSUME NEW b \in Book, history' = Append(history, b)
          PROVE  /\ pc["orders"] # "receive" => Had(history', current["orders"].id, last)
                 /\ QueuedSince(orderUpdatesCh, history', last)
                 /\ \A c \in Conns : ShownUntil(inbox[c], history', last)
      BY <1>2, <2>1, <2>3, LaterHad, LaterQueued, LaterShown
    <2> QED
      BY <1>3, <2>2, <2>3
  <1>7. orderUpdatesCh \in Seq(Order)
    BY DEF StoreTypeOK
  <1>8. QueuedSince(orderUpdatesCh', history', last)
    <2>1. CASE orderUpdatesCh' = orderUpdatesCh
      BY <1>6, <2>1
    <2>2. CASE orderUpdatesCh # << >> /\ orderUpdatesCh' = Tail(orderUpdatesCh)
      <3>1. PICK date \in 1..Len(history') :
               last <= date /\ QueuedSince(orderUpdatesCh', history', date)
        BY <1>3, <1>5, <1>6, <1>7, <2>2, QueueTaken
      <3> QED
        BY <1>3, <1>5, <3>1, QueuedEarlier
    <2>3. ASSUME NEW o, orderUpdatesCh' = Append(orderUpdatesCh, o),
                 KeyOf(o) \in DOMAIN orders', orders'[KeyOf(o)] = o
          PROVE  QueuedSince(orderUpdatesCh', history', last)
      <3>1. Had(history', o, Len(history'))
        BY <1>3, <1>5, <2>3 DEF Had
      <3> QED
        BY <1>3, <1>5, <1>6, <1>7, <2>3, <3>1, QueueGrows
    <2> QED
      BY <2>1, <2>2, <2>3, FeedStep
  <1>9. UNCHANGED <<pc, current, inbox, out>>
    BY DEF hubVars
  <1>10. Dated(last)'
    BY <1>5, <1>6, <1>8, <1>9 DEF Dated
  <1>11. SentByBroadcaster'
    BY <1>9 DEF TraceInv, SentByBroadcaster, Broadcasts
  <1> QED
    BY <1>3, <1>5, <1>10, <1>11 DEF TraceInv, HistoryOK

\* The broadcaster takes an update, dated with it.
LEMMA ReceiveTrace ==
    ASSUME StoreTypeOK, ClientTypes, ClientInv, TraceInv,
           NEW b \in Hub!Broadcasters, Hub!Receive(b), UNCHANGED <<orders, history>>,
           orderUpdatesCh' \in {orderUpdatesCh, Tail(orderUpdatesCh)}
    PROVE  TraceInv'
  <1>1. /\ orderUpdatesCh \in Seq(Order) /\ orderUpdatesCh # << >>
        /\ pc["orders"] = "receive"
        /\ current' = [current EXCEPT !["orders"] = update(orderUpdatesCh[1])]
        /\ UNCHANGED <<out, inbox>>
    BY ReceiveTakes
  <1>2. PICK last \in 1..Len(history) : Dated(last)
    BY DEF TraceInv
  <1>3. history \in Seq(Book)
    BY DEF TraceInv, HistoryOK
  <1>4. PICK date \in 1..Len(history) :
           /\ last <= date /\ Had(history, orderUpdatesCh[1], date)
           /\ QueuedSince(orderUpdatesCh, history, date)
           /\ QueuedSince(Tail(orderUpdatesCh), history, date)
    BY <1>1, <1>2, <1>3, QueueTaken DEF Dated
  <1>5. current'["orders"].id = orderUpdatesCh[1]
    <2>1. current'["orders"] = update(orderUpdatesCh[1])
      BY <1>1, HubMembers DEF ClientTypes
    <2> QED
      BY <2>1 DEF update
  <1>6. \A c \in Conns : ShownUntil(inbox'[c], history', date)
    BY <1>1, <1>2, <1>3, <1>4, ShownLater DEF Dated
  <1>7. QueuedSince(orderUpdatesCh', history', date)
    BY <1>4
  <1>8. Dated(date)'
    BY <1>4, <1>5, <1>6, <1>7 DEF Dated
  <1>9. SentByBroadcaster'
    <2>1. out["orders"] = << >> /\ Len(out["orders"]) = 0
      BY <1>1, HubMembers DEF ClientInv
    <2>2. \A g \in Hub!Goroutines : \A i \in 1..Len(out[g]) :
             out[g][i].msg.channel # "orderUpdates"
      BY <2>1 DEF TraceInv, SentByBroadcaster, Broadcasts
    <2> QED
      BY <1>1, <2>2 DEF SentByBroadcaster, Broadcasts
  <1> QED
    BY <1>8, <1>9 DEF TraceInv, HistoryOK

\* Nothing is published or taken, and clients are sent what the broadcaster
\* works on: the dates stay.
LEMMA SameDates ==
    ASSUME ClientTypes, TraceInv, UNCHANGED <<orders, history, orderUpdatesCh, current>>,
           pc'["orders"] # "receive" => pc["orders"] # "receive", SentByBroadcaster',
           \A c \in Conns :
              \/ inbox'[c] = inbox[c]
              \/ \E m \in HubMsg :
                    /\ inbox'[c] = Append(inbox[c], m)
                    /\ m.channel = "orderUpdates" =>
                          pc["orders"] # "receive" /\ m.id = current["orders"].id
    PROVE  TraceInv'
  <1>1. PICK last \in 1..Len(history) : Dated(last)
    BY DEF TraceInv
  <1>2. history \in Seq(Book)
    BY DEF TraceInv, HistoryOK
  <1>3. ASSUME NEW c \in Conns PROVE ShownUntil(inbox'[c], history, last)
    <2>1. ShownUntil(inbox[c], history, last)
      BY <1>1 DEF Dated
    <2>2. ASSUME NEW m \in HubMsg, inbox'[c] = Append(inbox[c], m),
                 m.channel = "orderUpdates" =>
                    pc["orders"] # "receive" /\ m.id = current["orders"].id
          PROVE  ShownUntil(inbox'[c], history, last)
      <3>1. m.channel = "orderUpdates" => Had(history, m.id, last)
        BY <1>1, <2>2 DEF Dated
      <3>2. inbox[c] \in Seq(HubMsg)
        BY DEF ClientTypes
      <3> QED
        BY <1>1, <1>2, <2>1, <2>2, <3>1, <3>2, ShownGrows
    <2> QED
      BY <2>1, <2>2
  <1>4. Dated(last)'
    BY <1>1, <1>3 DEF Dated
  <1> QED
    BY <1>1, <1>4 DEF TraceInv, HistoryOK

LEMMA SendTrace ==
    ASSUME ClientTypes, ClientInv, TraceInv, UNCHANGED <<orders, history, orderUpdatesCh>>,
           NEW g \in Hub!Goroutines, Sends(g)
    PROVE  TraceInv'
  <1>0. /\ out \in [Hub!Goroutines -> Seq(Packet)] /\ inbox \in [Conns -> Seq(HubMsg)]
        /\ pc \in [Hub!Goroutines -> Hub!Places] /\ "orders" \in Hub!Goroutines
    BY HubMembers DEF ClientTypes
  <1>1. current' = current /\ pc[g] # "receive"
        /\ (pc'["orders"] # "receive" => pc["orders"] # "receive")
    BY <1>0 DEF Sends, Moves
  <1>2. SentByBroadcaster'
    <2>1. \A h \in Hub!Goroutines : \A i \in 1..Len(out'[h]) :
             \E j \in 1..Len(out[h]) : out'[h][i] = out[h][j]
      <3> TAKE h \in Hub!Goroutines
      <3>1. CASE out'[h] = out[h]
        BY <3>1
      <3>2. CASE out'[h] # out[h]
        <4>1. out[h] # << >> /\ out'[h] = Tail(out[h])
          BY <1>0, <3>2 DEF Sends
        <4> SUFFICES ASSUME NEW i \in 1..Len(out'[h])
                     PROVE  \E j \in 1..Len(out[h]) : out'[h][i] = out[h][j]
          OBVIOUS
        <4>2. i + 1 \in 1..Len(out[h]) /\ out'[h][i] = out[h][i + 1]
          BY <1>0, <4>1
        <4> QED
          BY <4>2
      <3> QED
        BY <3>1, <3>2
    <2> QED
      BY <1>1, <2>1 DEF TraceInv, SentByBroadcaster, Broadcasts
  <1>3. ASSUME NEW c \in Conns, inbox'[c] # inbox[c]
        PROVE  \E m \in HubMsg :
                  /\ inbox'[c] = Append(inbox[c], m)
                  /\ m.channel = "orderUpdates" =>
                        pc["orders"] # "receive" /\ m.id = current["orders"].id
    <2>1. /\ out[g] # << >>
          /\ inbox' = [inbox EXCEPT ![Head(out[g]).to] = Append(@, Head(out[g]).msg)]
      BY <1>3 DEF Sends
    <2>2. Head(out[g]) \in Packet /\ 1 \in 1..Len(out[g]) /\ Head(out[g]) = out[g][1]
      BY <1>0, <2>1
    <2>3. Head(out[g]).msg \in HubMsg /\ Broadcasts(g, Head(out[g]).msg)
      BY <2>2 DEF Packet, TraceInv, SentByBroadcaster
    <2>4. inbox'[c] = Append(inbox[c], Head(out[g]).msg)
      BY <1>0, <1>3, <2>1
    <2> QED
      BY <1>1, <2>3, <2>4 DEF Broadcasts
  <1> QED
    BY <1>1, <1>2, <1>3, SameDates

LEMMA ShiftTrace ==
    ASSUME ClientTypes, ClientInv, TraceInv, UNCHANGED <<orders, history, orderUpdatesCh>>,
           NEW g \in Hub!Goroutines, Shifts(g)
    PROVE  TraceInv'
  <1>1. UNCHANGED <<current, out, inbox>>
        /\ (pc'["orders"] # "receive" => pc["orders"] # "receive")
    BY HubMembers DEF Shifts, Moves, ClientTypes
  <1>2. SentByBroadcaster'
    BY <1>1 DEF TraceInv, SentByBroadcaster, Broadcasts
  <1> QED
    BY <1>1, <1>2, SameDates

LEMMA VisitTrace ==
    ASSUME ClientTypes, ClientInv, TraceInv, UNCHANGED <<orders, history, orderUpdatesCh>>,
           NEW b \in Hub!Broadcasters, Hub!Visit(b)
    PROVE  TraceInv'
  <1>1. PICK c \in todo[b] : out' = [out EXCEPT ![b] = Hub!ForConn(b, c)]
    BY DEF Hub!Visit
  <1>2. c \in Conns /\ pc[b] = "run" /\ UNCHANGED <<pc, current, inbox>>
        /\ out \in [Hub!Goroutines -> Seq(Packet)] /\ b \in Hub!Goroutines
    BY HubMembers DEF ClientTypes, Hub!Visit, Hub!At
  <1> DEFINE new == Hub!ForConn(b, c)
  <1>3. \A i \in 1..Len(new) : Broadcasts(b, new[i].msg)
    BY <1>2, VisitQueues
  <1>4. \A g \in Hub!Goroutines : out'[g] = IF g = b THEN new ELSE out[g]
    BY <1>1, <1>2
  <1> HIDE DEF new
  <1>5. \A g \in Hub!Goroutines : \A i \in 1..Len(out'[g]) : Broadcasts(g, out'[g][i].msg)
    BY <1>3, <1>4 DEF TraceInv, SentByBroadcaster
  <1>6. SentByBroadcaster'
    BY <1>2, <1>5 DEF SentByBroadcaster, Broadcasts
  <1> QED
    BY <1>2, <1>6, SameDates

LEMMA HandleTrace ==
    ASSUME ClientTypes, ClientInv, TraceInv, UNCHANGED <<orders, history, orderUpdatesCh>>,
           NEW c \in Conns, Hub!HandleMessage(c)
    PROVE  TraceInv'
  <1>1. UNCHANGED <<pc, current, inbox>> /\ c \in Hub!Goroutines
        /\ out \in [Hub!Goroutines -> Seq(Packet)]
    BY HubMembers DEF Hub!HandleMessage, ClientTypes
  <1>2. \A g \in Hub!Goroutines : out'[g] = out[g] \/ AllReplies(out'[g])
    BY <1>1, HandleAnswers
  <1>3. \A g \in Hub!Goroutines : \A i \in 1..Len(out'[g]) : Broadcasts(g, out'[g][i].msg)
    BY <1>2 DEF TraceInv, SentByBroadcaster, AllReplies, IsReply, Broadcasts
  <1>4. SentByBroadcaster'
    BY <1>1, <1>3 DEF SentByBroadcaster, Broadcasts
  <1> QED
    BY <1>1, <1>4, SameDates

LEMMA InitTrace == ServerInit => TraceInv
  <1> SUFFICES ASSUME ServerInit PROVE TraceInv
    OBVIOUS
  <1>1. StoreInit /\ Hub!Init /\ history = <<orders>>
    BY DEF ServerInit, Init
  <1>2. orders \in Book
    <2>1. orders \in [{} -> Order] /\ {} \in SUBSET Key
      BY <1>1 DEF StoreInit, EmptyMap
    <2> QED
      BY <2>1 DEF Book
  <1>3. HistoryOK /\ Len(history) = 1
    BY <1>1, <1>2 DEF HistoryOK
  <1>4. /\ \A g \in Hub!Goroutines : out[g] = << >> /\ Len(out[g]) = 0
        /\ \A c \in Conns : inbox[c] = << >> /\ Len(inbox[c]) = 0
        /\ pc["orders"] = "receive"
        /\ orderUpdatesCh = << >> /\ Len(orderUpdatesCh) = 0
    BY <1>1, HubMembers DEF Hub!Init, StoreInit
  <1> DEFINE none == [i \in {} |-> 1]
  <1>5. QueuedSince(orderUpdatesCh, history, 1)
    <2>1. none \in [1..Len(orderUpdatesCh) -> 1..Len(history)]
      BY <1>4
    <2>2. 1..Len(orderUpdatesCh) = {}
      BY <1>4
    <2> HIDE DEF none
    <2> QED
      BY <2>1, <2>2 DEF QueuedSince
  <1>6. ASSUME NEW c \in Conns PROVE ShownUntil(inbox[c], history, 1)
    <2>1. ShownAt(inbox[c]) = {}
      BY <1>4 DEF ShownAt
    <2>2. none \in [ShownAt(inbox[c]) -> 1..Len(history)]
      BY <2>1
    <2> HIDE DEF none
    <2> QED
      BY <2>1, <2>2 DEF ShownUntil, Dates
  <1>7. Dated(1)
    BY <1>3, <1>4, <1>5, <1>6 DEF Dated
  <1>8. SentByBroadcaster
    BY <1>4 DEF SentByBroadcaster
  <1> QED
    BY <1>3, <1>7, <1>8 DEF TraceInv

LEMMA StepTrace ==
    StoreTypeOK /\ StoreInv /\ CallInv /\ ClientTypes /\ ClientInv /\ TraceInv
    /\ [ServerNext]_serverVars
        => TraceInv'
  <1> SUFFICES ASSUME StoreTypeOK, StoreInv, CallInv, ClientTypes, ClientInv, TraceInv,
                      [ServerNext]_serverVars
               PROVE  TraceInv'
    OBVIOUS
  <1>1. [StoreNext]_storeVars
    BY ServerStepIsExchangeStep, NextIsStoreStep
  <1>a. StoreTypeOK'
    BY <1>1, StepType
  <1>0. ASSUME UNCHANGED <<storeVars, feedVars, history>> PROVE TraceInv'
    BY <1>0 DEF storeVars, feedVars, TraceInv, HistoryOK, SentByBroadcaster, Broadcasts, Dated
  <1>2. ASSUME UNCHANGED <<storeVars, hubVars, history>> PROVE TraceInv'
    BY <1>0, <1>2 DEF hubVars, feedVars
  <1>3. ASSUME NEW h \in Handlers, Handle(h) PROVE TraceInv'
    BY <1>1, <1>a, <1>3, BookTrace DEF Handle
  <1>4. CASE BeginRequest
    BY <1>2, <1>4 DEF BeginRequest, Begin
  <1>5. CASE Drive
    BY <1>1, <1>a, <1>5, BookTrace DEF Drive
  <1>6. CASE Broadcast
    BY <1>6, HubMembers, ReceiveTrace DEF Broadcast, Deliver, Receive
  <1>7. ASSUME UNCHANGED <<vars, history>>
        PROVE  UNCHANGED <<orders, history, orderUpdatesCh>>
    BY <1>7 DEF vars, storeVars
  <1>8. ASSUME UNCHANGED <<vars, history>>, NEW b \in Hub!Broadcasters, Hub!BroadcasterStep(b)
        PROVE  TraceInv'
    BY <1>7, <1>8, HubMembers, ReceiveTrace, LoopShifts, ShiftTrace, VisitTrace,
       SendStepSends, SendTrace
    DEF Hub!BroadcasterStep
  <1>9. ASSUME UNCHANGED <<vars, history>>, NEW c \in Conns, Hub!ConnStep(c) PROVE TraceInv'
    BY <1>7, <1>9, HubMembers, ConnShifts, ShiftTrace, SendStepSends, SendTrace
  <1>10. CASE Manage
    BY <1>8, <1>9, <1>10 DEF Manage, Hub!Step
  <1>11. CASE Client
    <2>1. ASSUME NEW c \in Conns, Hub!HangUp(c) PROVE TraceInv'
      BY <1>0, <1>11, <2>1, HangUpKeeps DEF Client, vars
    <2> QED
      BY <1>7, <1>11, <2>1, HubMembers, ConnShifts, ShiftTrace, HandleTrace DEF Client
  <1>12. CASE Settled \/ UNCHANGED serverVars
    BY <1>2, <1>12
    DEF Settled, Quiet, vars, serverVars, hubVars, storeVars, Hub!Quiet, Hub!vars, Hub!subVars,
        Hub!lockVars, Hub!clientVars
  <1> QED
    BY <1>3, <1>4, <1>5, <1>6, <1>10, <1>11, <1>12 DEF ServerNext

\* What a client is shown of the book is what the book went through, in its
\* order, some of it left out, for any number of handlers, fills and clients
\* (BroadcastOrderUpdate, broadcastOrderUpdates).
THEOREM ClientsSeeHistory == ServerSpec => []ShownAsStored
  <1>1. TraceInv => ShownAsStored
    BY DEF TraceInv, Dated, ShownUntil, ShownAsStored
  <1> QED
    BY <1>1, ServerInvariants, InitClients, StepClients, InitTrace, StepTrace, PTL DEF ServerSpec

-----------------------------------------------------------------------------
(***************************************************************************)
(* What the manager promises.                                              *)
(*                                                                         *)
(* What WsHubProofs keeps from step to step, it keeps here as well: a step *)
(* of the server is a step of the manager, or leaves its state alone and   *)
(* puts orders of the book in its channel at most.                         *)
(***************************************************************************)
\* The same substitution as for Hub.
HubP == INSTANCE WsHubProofs WITH
    Spelled <- Address, normalized <- [a \in Address |-> normalizeAddress(a)],
    Users <- {normalizeAddress(Recovered(w)) : w \in Wallets}, NoUser <- Unsigned,
    Calm <- FALSE, OrderOwners <- {}, BookCoins <- {}, Ids <- Order, MaxUpdates <- 0, published <- 0,
    channel <- [orders |-> [i \in 1..Len(orderUpdatesCh) |-> update(orderUpdatesCh[i])],
                market |-> << >>]

\* Hub and HubP are two names of one thing.
LEMMA SameManager ==
    /\ Hub!Init => HubP!Init
    /\ Hub!Step => HubP!Step
    /\ Hub!Receive("orders") => HubP!Receive("orders")
    /\ \A c \in Conns : /\ Hub!HandleMessage(c) => HubP!HandleMessage(c)
                        /\ Hub!Connect(c) => HubP!Connect(c)
                        /\ Hub!HangUp(c) => HubP!HangUp(c)
  <1> USE DEF Hub!Broadcasters, HubP!Broadcasters, Hub!Goroutines, HubP!Goroutines,
              Hub!Ask, HubP!Ask, Hub!lockVars, HubP!lockVars, Hub!subVars, HubP!subVars,
              Hub!clientVars, HubP!clientVars, Hub!vars, HubP!vars, Hub!NoUpdate,
              HubP!NoUpdate, Hub!Message, HubP!Message, Hub!Reply, HubP!Reply, Hub!To,
              HubP!To, Hub!At, HubP!At, Hub!Go, HubP!Go, Hub!Passes, HubP!Passes,
              Hub!HeldBack, HubP!HeldBack, Hub!Admitted, HubP!Admitted, Hub!Announce,
              HubP!Announce, Hub!Alone, HubP!Alone, Hub!Unlock, HubP!Unlock, Hub!Target,
              HubP!Target, Hub!Sending, HubP!Sending, Hub!Found, HubP!Found, Hub!FindConn,
              HubP!FindConn, Hub!FindHeldBack, HubP!FindHeldBack, Hub!FindAdmitted,
              HubP!FindAdmitted, Hub!StartWrite, HubP!StartWrite, Hub!EndWrite,
              HubP!EndWrite, Hub!SendStep, HubP!SendStep, Hub!Receive, HubP!Receive,
              Hub!LoopLock, HubP!LoopLock, Hub!LoopAdmitted, HubP!LoopAdmitted,
              Hub!shouldSend, HubP!shouldSend, Hub!ForConn, HubP!ForConn, Hub!Visit,
              HubP!Visit, Hub!LoopUnlock, HubP!LoopUnlock, Hub!BroadcasterStep,
              HubP!BroadcasterStep, Hub!LockConnections, HubP!LockConnections,
              Hub!Register, HubP!Register, Hub!Deregister, HubP!Deregister, Hub!Assembled,
              HubP!Assembled, Hub!Idle, HubP!Idle, Hub!Snapshot, HubP!Snapshot,
              Hub!normalizedUser, HubP!normalizedUser,
              Hub!Subscribe, HubP!Subscribe, Hub!Unsubscribe, HubP!Unsubscribe,
              Hub!Reject, HubP!Reject, Hub!Answers, HubP!Answers, Hub!HandleMessage,
              HubP!HandleMessage, Hub!ReadError, HubP!ReadError, Hub!ConnStep,
              HubP!ConnStep, Hub!Connect, HubP!Connect, Hub!HangUp, HubP!HangUp, Hub!Step,
              HubP!Step
  <1>1. Hub!Init => HubP!Init
    BY DEF Hub!Init, HubP!Init
  <1>2. Hub!Step => HubP!Step
    OBVIOUS
  <1>3. Hub!Receive("orders") => HubP!Receive("orders")
    OBVIOUS
  <1>4. ASSUME NEW c \in Conns
        PROVE  /\ Hub!HandleMessage(c) => HubP!HandleMessage(c)
               /\ Hub!Connect(c) => HubP!Connect(c)
               /\ Hub!HangUp(c) => HubP!HangUp(c)
    OBVIOUS
  <1> QED
    BY <1>1, <1>2, <1>3, <1>4

LEMMA SamePromises ==
    /\ HubP!TypeOK => Hub!TypeOK
    /\ HubP!LoopSeesMap => Hub!LoopSeesMap
    /\ HubP!WalletIsolation => Hub!WalletIsolation
    /\ HubP!RepliesComplete => Hub!RepliesComplete
    /\ HubP!WorkGoesOn => Hub!WorkGoesOn
  <1> USE DEF Hub!Broadcasters, HubP!Broadcasters, Hub!Goroutines, HubP!Goroutines,
              Hub!At, HubP!At, Hub!Idle, HubP!Idle, Hub!Rank, HubP!Rank, Hub!Places,
              HubP!Places, Hub!Update, HubP!Update, Hub!Msg, HubP!Msg, Hub!Addressed,
              HubP!Addressed
  <1>1. HubP!TypeOK => Hub!TypeOK
    BY DEF Hub!TypeOK, HubP!TypeOK
  <1>2. HubP!LoopSeesMap => Hub!LoopSeesMap
    BY DEF Hub!LoopSeesMap, HubP!LoopSeesMap
  <1>3. HubP!WalletIsolation => Hub!WalletIsolation
    BY DEF Hub!WalletIsolation, HubP!WalletIsolation
  <1>4. HubP!RepliesComplete => Hub!RepliesComplete
    BY DEF Hub!RepliesComplete, HubP!RepliesComplete, Hub!Cardinality, HubP!Cardinality
  <1>5. HubP!WorkGoesOn => Hub!WorkGoesOn
    BY DEF Hub!WorkGoesOn, HubP!WorkGoesOn, Hub!AtRest, HubP!AtRest, Hub!CanGoOn, HubP!CanGoOn,
           Hub!Alone, HubP!Alone, Hub!Target, HubP!Target, Hub!NeverStuck, HubP!NeverStuck
  <1> QED
    BY <1>1, <1>2, <1>3, <1>4, <1>5

LEMMA ManagerAssumed == HubP!HubAssumption
  <1>1. Unsigned \notin {normalizeAddress(Recovered(w)) : w \in Wallets}
    BY KeysAssumption DEF Unsigned, normalizeAddress, Recovered
  <1> DEFINE normal == [a \in Address |-> normalizeAddress(a)]
  <1>2. /\ Address \cup {Unsigned} = Address
        /\ {normalizeAddress(Recovered(w)) : w \in Wallets} \cup {Unsigned} = Followed
    BY FollowedWallets DEF Followed
  <1>3. normal \in [Address -> Followed]
    BY NormalIsFollowed
  <1>4. normal[Unsigned] = Unsigned
    BY FollowedWallets, NormalAddress DEF Unsigned
  <1> HIDE DEF normal
  <1>5. /\ normal \in [Address \cup {Unsigned} ->
                       {normalizeAddress(Recovered(w)) : w \in Wallets} \cup {Unsigned}]
        /\ normal[Unsigned] = Unsigned
    BY <1>2, <1>3, <1>4
  <1> USE DEF normal
  <1> QED
    BY <1>1, <1>5, ServerAssumption, StoreAssumption
    DEF HubP!HubAssumption, Hub!Ask, HubP!Ask, Hub!Broadcasters, HubP!Broadcasters

\* What is in the channel are updates of the manager, and they fit.
Carried(queue) == [orders |-> [i \in 1..Len(queue) |-> update(queue[i])], market |-> << >>]
LEMMA CarriedUpdates ==
    ASSUME NEW queue \in Seq(Order), Len(queue) <= ChCap
    PROVE  /\ Carried(queue) \in [HubP!Broadcasters -> Seq(HubP!Update)]
           /\ \A b \in HubP!Broadcasters :
                 /\ Len(Carried(queue)[b]) <= ChCap
                 /\ \A i \in 1..Len(Carried(queue)[b]) : Carried(queue)[b][i].id # NoId
  <1> DEFINE taken == [i \in 1..Len(queue) |-> update(queue[i])]
  <1>1. ASSUME NEW o \in Order PROVE update(o) \in HubP!Update /\ update(o).id # NoId
    <2>1. o.user \in Address
      BY DEF Order
    <2> QED
      BY <2>1, ServerAssumption DEF update, HubP!Update
  <1>2. /\ Len(queue) \in Nat /\ \A i \in 1..Len(queue) : queue[i] \in Order
        /\ 0 <= ChCap
    BY StoreAssumption
  <1>3. taken \in Seq(HubP!Update) /\ Len(taken) = Len(queue)
    BY <1>1, <1>2
  <1>4. \A i \in 1..Len(taken) : taken[i].id # NoId
    BY <1>1, <1>2, <1>3
  <1> HIDE DEF taken
  <1>5. Carried(queue) = [orders |-> taken, market |-> << >>]
    BY DEF Carried, taken
  <1>6. << >> \in Seq(HubP!Update) /\ Len(<< >>) = 0
    OBVIOUS
  <1>7. Carried(queue) \in [HubP!Broadcasters -> Seq(HubP!Update)]
    <2> DEFINE Queues == Seq(HubP!Update)
    <2>1. taken \in Queues /\ << >> \in Queues
      BY <1>3, <1>6
    <2> HIDE DEF Queues
    <2>2. [orders |-> taken, market |-> << >>] \in [{"orders", "market"} -> Queues]
      BY <2>1
    <2> QED
      BY <1>5, <2>2 DEF Queues, HubP!Broadcasters
  <1>8. /\ Len(Carried(queue)["orders"]) <= ChCap
        /\ \A i \in 1..Len(Carried(queue)["orders"]) : Carried(queue)["orders"][i].id # NoId
    BY <1>3, <1>4, <1>5
  <1>9. /\ Len(Carried(queue)["market"]) <= ChCap
        /\ \A i \in 1..Len(Carried(queue)["market"]) : Carried(queue)["market"][i].id # NoId
    BY <1>2, <1>5, <1>6
  <1> QED
    BY <1>7, <1>8, <1>9 DEF HubP!Broadcasters

LEMMA InitManager == ServerInit => HubP!HubInv
  BY SameManager, ManagerAssumed, HubP!InitHub DEF ServerInit

LEMMA StepManager ==
    StoreTypeOK /\ StoreTypeOK' /\ HubP!HubInv /\ [ServerNext]_serverVars => HubP!HubInv'
  <1> SUFFICES ASSUME StoreTypeOK', HubP!HubInv, [ServerNext]_serverVars
               PROVE  HubP!HubInv'
    OBVIOUS
  <1>1. ASSUME UNCHANGED hubVars PROVE HubP!HubInv'
    <2>1. orderUpdatesCh' \in Seq(Order) /\ Len(orderUpdatesCh') <= ChCap
      BY DEF StoreTypeOK
    <2>2. /\ Carried(orderUpdatesCh') \in [HubP!Broadcasters -> Seq(HubP!Update)]
          /\ \A b \in HubP!Broadcasters :
                /\ Len(Carried(orderUpdatesCh')[b]) <= ChCap
                /\ \A i \in 1..Len(Carried(orderUpdatesCh')[b]) :
                      Carried(orderUpdatesCh')[b][i].id # NoId
      BY <2>1, CarriedUpdates
    <2> QED
      BY <1>1, <2>2, ManagerAssumed, HubP!Fed
      DEF Carried, hubVars, HubP!lockVars, HubP!subVars, HubP!clientVars
  <1>2. ASSUME HubP!Next PROVE HubP!HubInv'
    BY <1>2, ManagerAssumed, HubP!StepHub
  <1>3. ASSUME NEW h \in Handlers, Handle(h) PROVE HubP!HubInv'
    BY <1>1, <1>3 DEF Handle
  <1>4. CASE BeginRequest \/ Drive
    BY <1>1, <1>4 DEF BeginRequest, Drive
  <1>5. CASE Broadcast
    <2>1. HubP!Receive("orders")
      BY <1>5, SameManager DEF Broadcast
    <2> QED
      BY <1>2, <2>1 DEF HubP!Next, HubP!Step, HubP!BroadcasterStep, HubP!Broadcasters
  <1>6. CASE Manage
    BY <1>2, <1>6, SameManager DEF Manage, HubP!Next
  <1>7. CASE Client
    BY <1>2, <1>7, SameManager DEF Client, HubP!Next
  <1>8. CASE Settled
    BY <1>1, <1>8 DEF Settled, Hub!Quiet, Hub!vars, Hub!subVars, Hub!lockVars, Hub!clientVars,
                      hubVars
  <1>9. CASE UNCHANGED serverVars
    BY <1>1, <1>9 DEF serverVars
  <1> QED
    BY <1>3, <1>4, <1>5, <1>6, <1>7, <1>8, <1>9 DEF ServerNext

LEMMA ManagerInvariant == ServerSpec => []HubP!HubInv
  BY InitManager, StepManager, StoreStaysTyped, PTL DEF ServerSpec

\* What the WebSocket manager promises by itself it keeps where the handlers and
\* the test driver fill its channel, clients come and go as they like and the
\* updates are whole orders (NewHandler, BroadcastOrderUpdate): types, a map that
\* is not written under the loop, order updates for subscribers only, all answers
\* in their order, and nothing that stops it but a broadcaster that waits for the
\* read lock while it holds it.
THEOREM ManagerKeepsPromises ==
    ServerSpec => [](/\ Hub!TypeOK /\ Hub!LoopSeesMap /\ Hub!WalletIsolation
                     /\ Hub!RepliesComplete /\ Hub!WorkGoesOn)
  <1>1. HubP!HubInv => HubP!TypeOK
    BY DEF HubP!HubInv
  <1>2. HubP!HubInv => /\ Hub!TypeOK /\ Hub!LoopSeesMap /\ Hub!WalletIsolation
                       /\ Hub!RepliesComplete /\ Hub!WorkGoesOn
    BY <1>1, ManagerAssumed, SamePromises, HubP!HubPromises
  <1> QED
    BY <1>2, ManagerInvariant, PTL
=============================================================================
