-------------------------------- MODULE Server --------------------------------
(***************************************************************************)
(* The server that Run and NewTestServer put together (server/handlers.go  *)
(* NewHandler): the request handlers and the order book of Exchange, and   *)
(* the WebSocket manager of WsHub, joined by the channel into which every  *)
(* mutation of the book puts the order and from which the broadcaster      *)
(* takes it.                                                               *)
(*                                                                         *)
(* Each part is the specification it is on its own: a step of one leaves   *)
(* the variables of the other alone, but for the broadcaster's receive,    *)
(* which is a step of both.  The hub's channel of orders is a view of the  *)
(* book's, and the messages to the clients carry the orders of the book.   *)
(***************************************************************************)
EXTENDS Exchange

CONSTANTS Conns, NoConn, NoId, Coins, Asks, MaxAsks,    \* as in WsHub
          MaxFills    \* bound: fills by the test driver

VARIABLES
    connections, orderUpdatesUser, l2BookCoins, bboCoins, held, writer, waiting,
    inWrite, pc, todo, current, out, up, inbox, asked, wasUser, owed,
    fills,   \* fills so far
    history  \* history: every state the book went through, oldest first

hubVars == <<connections, orderUpdatesUser, l2BookCoins, bboCoins, held, writer, waiting,
             inWrite, pc, todo, current, out, up, inbox, asked, wasUser, owed>>
serverVars == <<vars, hubVars, fills, history>>

\* What BroadcastOrderUpdate queues: the order, with its user.
update(o) == [id |-> o, user |-> o.user, coin |-> Unsigned]

\* The orders of the book are the only updates, and are told apart as a whole.
Hub == INSTANCE WsHub WITH
    Spelled <- Address, normalized <- [a \in Address |-> normalizeAddress(a)],
    Users <- {normalizeAddress(Recovered(w)) : w \in Wallets}, NoUser <- Unsigned,
    Calm <- FALSE, OrderOwners <- {}, BookCoins <- {}, Ids <- Order, MaxUpdates <- 0, published <- 0,
    channel <- [orders |-> [i \in 1..Len(orderUpdatesCh) |-> update(orderUpdatesCh[i])],
                market |-> << >>]

ASSUME ServerAssumption ==
    /\ MaxFills \in Nat
    /\ Conns \cap Hub!Broadcasters = {}
    /\ NoConn \notin Conns /\ NoId \notin Order
    /\ MaxAsks \in Nat
    /\ Asks \subseteq Hub!Ask

ServerInit == Init /\ Hub!Init /\ fills = 0 /\ history = <<orders>>

Recorded == history' = IF orders' = orders THEN history ELSE Append(history, orders')

\* POST /exchange.
Handle(h) == Step(h) /\ Recorded /\ UNCHANGED <<hubVars, fills>>
BeginRequest == (\E h \in Handlers : Begin(h)) /\ UNCHANGED <<hubVars, fills, history>>

\* The tests' FillOrder.  The clock stands still, which it may: it only tells
\* generated cloids apart.
Drive ==
    /\ fills < MaxFills
    /\ DriverFill /\ Recorded
    /\ fills' = fills + 1
    /\ UNCHANGED hubVars

\* The broadcaster takes an update.
Broadcast == Deliver /\ Hub!Receive("orders") /\ UNCHANGED <<fills, history>>

\* GET /ws: the goroutines of the manager.
Manage == UNCHANGED <<vars, fills, history>> /\ Hub!Step
Client ==
    /\ UNCHANGED <<vars, fills, history>>
    /\ \E c \in Conns : Hub!Connect(c) \/ Hub!HandleMessage(c) \/ Hub!HangUp(c)

Settled == Quiet /\ UNCHANGED <<fills, history>> /\ Hub!Quiet

ServerNext ==
    \/ \E h \in Handlers : Handle(h)
    \/ BeginRequest \/ Drive \/ Broadcast \/ Manage \/ Client \/ Settled

\* As in the parts: a goroutine that can run does, in the end.
ServerFairness ==
    /\ \A h \in Handlers : WF_serverVars(Handle(h))
    /\ WF_serverVars(Broadcast \/ Manage)

ServerSpec == ServerInit /\ [][ServerNext]_serverVars /\ ServerFairness

-----------------------------------------------------------------------------
(***************************************************************************)
(* Properties.                                                             *)
(***************************************************************************)
\* The orders a client was shown, oldest first, and the last one of a key.
Shown(c) == SelectSeq(inbox[c], LAMBDA m : m.channel = "orderUpdates")
ShownOf(c, k) == SelectSeq(Shown(c), LAMBDA m : KeyOf(m.id) = k)
LastShown(c, k) == ShownOf(c, k)[Len(ShownOf(c, k))].id

\* A signed order is shown only to clients that have subscribed to the wallet
\* whose signature placed it, whatever its address looks like in the book, and
\* an unsigned one to subscribers only (processOrder, broadcastOrderUpdates).
OwnOrdersOnly ==
    \A c \in Conns : \A i \in 1..Len(inbox[c]) :
        inbox[c][i].channel = "orderUpdates" =>
            LET owner == inbox[c][i].id.user.wallet
                subscribed == {u.wallet : u \in wasUser[c]} \ {NoWallet}
            IN  owner \in subscribed \/ (owner = NoWallet /\ subscribed # {})

\* What a client is shown of the book is what the book went through, in its
\* order, some of it left out: never an order that was not, nor one as it was
\* before another that the client has seen (BroadcastOrderUpdate copies the order
\* while the book is locked; one broadcaster empties the channel).
Had(books, o, n) ==
    n \in 1..Len(books) /\ KeyOf(o) \in DOMAIN books[n] /\ books[n][KeyOf(o)] = o
ShownAt(received) == {i \in 1..Len(received) : received[i].channel = "orderUpdates"}
Dates(received, books, when) ==
    \A i \in ShownAt(received) :
        /\ Had(books, received[i].id, when[i])
        /\ \A j \in ShownAt(received) : i <= j => when[i] <= when[j]
ShownAsStored ==
    \A c \in Conns : \E when \in [ShownAt(inbox[c]) -> 1..Len(history)] :
        Dates(inbox[c], history, when)

\* Keys that requests name.
Named == {canonicalizeCloidKey(it.cloid) :
             it \in UNION {{r.items[i] : i \in {j \in 1..Len(r.items) :
                                                  r.items[j].cloid # NoCloid}} : r \in Requests}}

\* A client that is subscribed to the owner of an order, however it spells the
\* address, when the order's latest update is queued, and stays so, is in the end
\* shown the order as the book has it, unless a later update was dropped for lack
\* of room, the client hangs up, or a broadcaster waits for itself (NeverStuck).
Subscribed(c, k) ==
    LET wallet == orderUpdatesUser[c].wallet
    IN  wallet # NoWallet /\ orders[k].user.wallet \in {NoWallet, wallet}
Follows(c, k) == c \in up /\ k \in DOMAIN orders /\ Subscribed(c, k)
ClientsConverge ==
    \A c \in Conns, k \in Named :
        (Follows(c, k) /\ LatestQueued(k)) ~>
            (~Follows(c, k) \/ k \in lost \/ ~Hub!NeverStuck
               \/ (ShownOf(c, k) # << >> /\ LastShown(c, k) = orders[k]))
=============================================================================
