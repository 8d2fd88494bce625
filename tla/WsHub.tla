-------------------------------- MODULE WsHub --------------------------------
(***************************************************************************)
(* The WebSocket manager (server/websocket.go): two broadcaster goroutines,*)
(* one read loop per connection, the read-write mutex over the map of      *)
(* connections and the write mutex of each connection.                     *)
(*                                                                         *)
(* The read-write mutex is Go's: an announced writer holds back every      *)
(* reader that comes after it, waits for the readers that were there, and  *)
(* on Unlock lets the readers that waited in before the next writer.       *)
(* Critical sections with no other lock or write inside are single steps.  *)
(*                                                                         *)
(* A goroutine that is sending has the messages still to be sent in out[g],*)
(* and goes through sendJSON once for each: the lookup of the connection   *)
(* under the read lock, the write mutex, the write.                        *)
(***************************************************************************)
EXTENDS Integers, Sequences, FiniteSets

CONSTANTS
    Conns,       \* WebSocket connections, each one used once
    Spelled,     \* wallet addresses, as clients and orders write them
    Users,       \* wallet addresses, normalised
    NoUser,      \* the empty user: unsubscribed, or an unsigned order
    normalized,  \* normalizeAddress, the function from the former to the latter
    Coins,       \* coins with market data
    OrderOwners, \* owners of the orders whose updates are published
    BookCoins,   \* coins whose books are published
    Asks,        \* the messages clients send
    Ids,         \* what updates are told apart by: numbers, or the orders of a book
    NoId,        \* the id of what is no update
    NoConn,      \* nobody holds or wants the write side of the mutex
    ChCap,       \* capacity of each of the two channels
    MaxUpdates,  \* bound: updates published
    MaxAsks,     \* bound: messages read from all connections
    Calm         \* TRUE: all join before anything else, and none leaves

Broadcasters == {"orders", "market"}
Goroutines == Conns \cup Broadcasters

\* A client's message after parsing; "bad" ones are answered with an error.
Ask == [method : {"subscribe", "unsubscribe", "bad"},
        type : {"orderUpdates", "l2Book", "bbo"},
        user : Spelled \cup {NoUser}, coin : Coins]

ASSUME HubAssumption ==
    /\ NoUser \notin Users
    /\ normalized \in [Spelled \cup {NoUser} -> Users \cup {NoUser}]
    /\ normalized[NoUser] = NoUser
    /\ 1..MaxUpdates \subseteq Ids /\ NoId \notin Ids
    /\ NoConn \notin Conns
    /\ Conns \cap Broadcasters = {}
    /\ OrderOwners \subseteq Spelled \cup {NoUser} /\ BookCoins \subseteq Coins
    /\ Asks \subseteq Ask
    /\ ChCap \in Nat \ {0} /\ MaxUpdates \in Nat /\ MaxAsks \in Nat
    /\ Calm \in BOOLEAN

VARIABLES
    connections,      \* wsm.connections
    orderUpdatesUser, \* the subscriptions of each connection
    l2BookCoins,
    bboCoins,
    channel,          \* orderUpdatesCh and l2BookCh
    held,             \* wsm.mu: how many times each goroutine holds it to read
    writer,           \* wsm.mu: who has announced Lock, if anyone
    waiting,          \* wsm.mu: the goroutines held back in RLock
    inWrite,          \* the goroutines inside WriteJSON on each connection
    pc,               \* where each goroutine is
    todo,             \* connections the broadcaster's loop has not visited
    current,          \* the update the broadcaster works on
    out,              \* messages a goroutine still has to send
    (* The clients: *)
    up,               \* the clients still connected
    inbox,            \* what each of them received
    asked,            \* how many messages were read from them
    published,        \* how many updates were published
    (* History: *)
    wasUser,          \* the users a connection was ever subscribed to
    owed              \* the answers to all that was read from each client, in order

lockVars == <<held, writer, waiting>>
subVars == <<orderUpdatesUser, l2BookCoins, bboCoins, wasUser>>
clientVars == <<up, asked, published, owed>>
vars == <<connections, channel, lockVars, subVars, inWrite, pc, todo, current, out,
          clientVars, inbox>>

NoUpdate == [id |-> NoId, user |-> NoUser, coin |-> NoUser]
OrderUpdate(id, user) == [id |-> id, user |-> user, coin |-> NoUser]
BookUpdate(id, coin) == [id |-> id, user |-> NoUser, coin |-> coin]

\* A message to a client: an update, or a snapshot, an acknowledgement, an error.
Message(ch, u) == [channel |-> ch, id |-> u.id, user |-> u.user, coin |-> u.coin]
Reply(ch, coin) == [channel |-> ch, id |-> NoId, user |-> NoUser, coin |-> coin]
To(c, m) == [to |-> c, msg |-> m]

Init ==
    /\ connections = {}
    /\ orderUpdatesUser = [c \in Conns |-> NoUser]
    /\ l2BookCoins = [c \in Conns |-> {}]
    /\ bboCoins = [c \in Conns |-> {}]
    /\ channel = [b \in Broadcasters |-> << >>]
    /\ held = [g \in Goroutines |-> 0]
    /\ writer = NoConn
    /\ waiting = {}
    /\ inWrite = [c \in Conns |-> {}]
    /\ pc = [g \in Goroutines |-> IF g \in Conns THEN "off" ELSE "receive"]
    /\ todo = [b \in Broadcasters |-> {}]
    /\ current = [b \in Broadcasters |-> NoUpdate]
    /\ out = [g \in Goroutines |-> << >>]
    /\ up = {}
    /\ inbox = [c \in Conns |-> << >>]
    /\ asked = 0
    /\ published = 0
    /\ wasUser = [c \in Conns |-> {}]
    /\ owed = [c \in Conns |-> << >>]

At(g, where) == pc[g] = where
Go(g, where) == pc' = [pc EXCEPT ![g] = where]

-----------------------------------------------------------------------------
(***************************************************************************)
(* sync.RWMutex.                                                           *)
(***************************************************************************)
\* RLock by g: it passes, or is held back by the announced writer.
Passes(g, where) ==
    /\ writer = NoConn
    /\ held' = [held EXCEPT ![g] = @ + 1]
    /\ Go(g, where)
    /\ UNCHANGED <<writer, waiting>>
HeldBack(g, where) ==
    /\ writer # NoConn
    /\ waiting' = waiting \cup {g}
    /\ Go(g, where)
    /\ UNCHANGED <<held, writer>>
Admitted(g, where) == At(g, where) /\ g \notin waiting

\* Lock by c: announced when no other writer is, entered when the readers that
\* were there are gone.
Announce(c, where) ==
    /\ writer = NoConn
    /\ writer' = c
    /\ Go(c, where)
    /\ UNCHANGED <<held, waiting>>
Alone == \A g \in Goroutines : held[g] = 0
Unlock ==
    /\ writer' = NoConn
    /\ held' = [g \in Goroutines |-> IF g \in waiting THEN held[g] + 1 ELSE held[g]]
    /\ waiting' = {}

-----------------------------------------------------------------------------
(***************************************************************************)
(* sendJSON, for the first message of out[g].                              *)
(***************************************************************************)
Target(g) == Head(out[g]).to
Sending(g) == At(g, "run") /\ out[g] # << >>

\* With the read lock held: the connection is known, or the message dropped.
Found(g) ==
    \/ /\ Target(g) \in connections
       /\ Go(g, "write")
       /\ UNCHANGED out
    \/ /\ Target(g) \notin connections
       /\ Go(g, "run")
       /\ out' = [out EXCEPT ![g] = Tail(@)]

FindConn(g) ==
    /\ Sending(g)
    /\ writer = NoConn
    /\ Found(g)
    /\ UNCHANGED <<connections, channel, lockVars, subVars, inWrite, todo, current,
                   clientVars, inbox>>

FindHeldBack(g) ==
    /\ Sending(g)
    /\ HeldBack(g, "find")
    /\ UNCHANGED <<connections, channel, subVars, inWrite, todo, current, out,
                   clientVars, inbox>>

FindAdmitted(g) ==
    /\ Admitted(g, "find")
    /\ Found(g)
    /\ held' = [held EXCEPT ![g] = @ - 1]
    /\ UNCHANGED <<connections, channel, writer, waiting, subVars, inWrite, todo,
                   current, clientVars, inbox>>

\* Mutant: a message is dropped rather than wait for the write mutex.
BugSkipsBusy(g) ==
    /\ At(g, "write")
    /\ IF inWrite[Target(g)] = {}
       THEN /\ inWrite' = [inWrite EXCEPT ![Target(g)] = @ \cup {g}]
            /\ Go(g, "writing") /\ UNCHANGED out
       ELSE /\ out' = [out EXCEPT ![g] = Tail(@)]
            /\ Go(g, "run") /\ UNCHANGED inWrite
    /\ UNCHANGED <<connections, channel, lockVars, subVars, todo, current,
                   clientVars, inbox>>

StartWrite(g) ==
    /\ At(g, "write")
    /\ inWrite[Target(g)] = {}
    /\ inWrite' = [inWrite EXCEPT ![Target(g)] = @ \cup {g}]
    /\ Go(g, "writing")
    /\ UNCHANGED <<connections, channel, lockVars, subVars, todo, current, out,
                   clientVars, inbox>>

\* Mutant: an early return keeps the write mutex.
BugKeepsMutex(g) ==
    /\ At(g, "writing")
    /\ inbox' = [inbox EXCEPT ![Target(g)] = Append(@, Head(out[g]).msg)]
    /\ out' = [out EXCEPT ![g] = Tail(@)]
    /\ Go(g, "run")
    /\ UNCHANGED <<connections, channel, lockVars, subVars, inWrite, todo, current,
                   clientVars>>

\* WriteJSON returns: the client has the message, or is gone and an error is
\* logged.
EndWrite(g) ==
    /\ At(g, "writing")
    /\ LET c == Target(g)
       IN  /\ inWrite' = [inWrite EXCEPT ![c] = @ \ {g}]
           /\ inbox' = IF c \in up THEN [inbox EXCEPT ![c] = Append(@, Head(out[g]).msg)]
                                   ELSE inbox
    /\ out' = [out EXCEPT ![g] = Tail(@)]
    /\ Go(g, "run")
    /\ UNCHANGED <<connections, channel, lockVars, subVars, todo, current, clientVars>>

SendStep(g) ==
    FindConn(g) \/ FindHeldBack(g) \/ FindAdmitted(g) \/ StartWrite(g) \/ EndWrite(g)

-----------------------------------------------------------------------------
(***************************************************************************)
(* The broadcasters (broadcastOrderUpdates, broadcastL2Book).              *)
(***************************************************************************)
\* Mutant: the update stays in the channel.
BugPeeks(b) ==
    /\ At(b, "receive")
    /\ channel[b] # << >>
    /\ current' = [current EXCEPT ![b] = Head(channel[b])]
    /\ Go(b, "lock")
    /\ UNCHANGED <<connections, channel, lockVars, subVars, inWrite, todo, out,
                   clientVars, inbox>>

Receive(b) ==
    /\ At(b, "receive")
    /\ channel[b] # << >>
    /\ current' = [current EXCEPT ![b] = Head(channel[b])]
    /\ channel' = [channel EXCEPT ![b] = Tail(@)]
    /\ Go(b, "lock")
    /\ UNCHANGED <<connections, lockVars, subVars, inWrite, todo, out, clientVars, inbox>>

\* The read lock is taken for the whole loop over the connections.
LoopLock(b) ==
    /\ At(b, "lock")
    /\ \/ Passes(b, "run") /\ todo' = [todo EXCEPT ![b] = connections]
       \/ HeldBack(b, "loop") /\ UNCHANGED todo
    /\ UNCHANGED <<connections, channel, subVars, inWrite, current, out, clientVars, inbox>>

LoopAdmitted(b) ==
    /\ Admitted(b, "loop")
    /\ todo' = [todo EXCEPT ![b] = connections]
    /\ Go(b, "run")
    /\ UNCHANGED <<connections, channel, lockVars, subVars, inWrite, current, out,
                   clientVars, inbox>>

\* Mutant: every subscriber gets every order.
BugUnfiltered(c, u) == orderUpdatesUser[c] # NoUser

\* Who gets an order update: nobody without a subscription; everybody else if
\* the order is unsigned, its owner's subscribers otherwise.
shouldSend(c, u) ==
    /\ orderUpdatesUser[c] # NoUser
    /\ u.user = NoUser \/ normalized[u.user] = orderUpdatesUser[c]

\* A market update goes out in the format of one subscription, l2Book first.
ForConn(b, c) ==
    LET u == current[b]
    IN  CASE b = "orders" /\ shouldSend(c, u) -> <<To(c, Message("orderUpdates", u))>>
          [] b = "market" /\ u.coin \in l2BookCoins[c] -> <<To(c, Message("l2Book", u))>>
          [] b = "market" /\ u.coin \in bboCoins[c] \ l2BookCoins[c] ->
                <<To(c, Message("bbo", u))>>
          [] OTHER -> << >>

\* Mutant: a connection that does not want the update ends the loop.
BugBreaks(b) ==
    /\ At(b, "run") /\ out[b] = << >>
    /\ \E c \in todo[b] :
          /\ todo' = [todo EXCEPT ![b] = IF ForConn(b, c) = << >> THEN {} ELSE @ \ {c}]
          /\ out' = [out EXCEPT ![b] = ForConn(b, c)]
    /\ UNCHANGED <<connections, channel, lockVars, subVars, inWrite, pc, current,
                   clientVars, inbox>>

Visit(b) ==
    /\ At(b, "run") /\ out[b] = << >>
    /\ \E c \in todo[b] :
          /\ todo' = [todo EXCEPT ![b] = @ \ {c}]
          /\ out' = [out EXCEPT ![b] = ForConn(b, c)]
    /\ UNCHANGED <<connections, channel, lockVars, subVars, inWrite, pc, current,
                   clientVars, inbox>>

\* Mutant: the loop ends without RUnlock.
BugKeepsLock(b) ==
    /\ At(b, "run") /\ out[b] = << >> /\ todo[b] = {}
    /\ Go(b, "receive")
    /\ UNCHANGED <<connections, channel, lockVars, subVars, inWrite, todo, current, out,
                   clientVars, inbox>>

LoopUnlock(b) ==
    /\ At(b, "run") /\ out[b] = << >> /\ todo[b] = {}
    /\ held' = [held EXCEPT ![b] = @ - 1]
    /\ Go(b, "receive")
    /\ UNCHANGED <<connections, channel, writer, waiting, subVars, inWrite, todo, current,
                   out, clientVars, inbox>>

BroadcasterStep(b) ==
    Receive(b) \/ LoopLock(b) \/ LoopAdmitted(b) \/ Visit(b) \/ LoopUnlock(b) \/ SendStep(b)

-----------------------------------------------------------------------------
(***************************************************************************)
(* The read loop of a connection (HandleConnection, handleMessage).        *)
(***************************************************************************)
\* Lock, to enter the map and, at the end, to leave it.
LockConnections(c) ==
    /\ \/ At(c, "join") /\ Announce(c, "joining")
       \/ At(c, "leave") /\ Announce(c, "leaving")
    /\ UNCHANGED <<connections, channel, subVars, inWrite, todo, current, out,
                   clientVars, inbox>>

Register(c) ==
    /\ At(c, "joining") /\ Alone
    /\ connections' = connections \cup {c}
    /\ Unlock
    /\ Go(c, "run")
    /\ UNCHANGED <<channel, subVars, inWrite, todo, current, out, clientVars, inbox>>

\* Mutant: the connection leaves the map without waiting for the readers.
BugRacesReaders(c) ==
    /\ At(c, "leaving")
    /\ connections' = connections \ {c}
    /\ Unlock
    /\ Go(c, "done")
    /\ UNCHANGED <<channel, subVars, inWrite, todo, current, out, clientVars, inbox>>

Deregister(c) ==
    /\ At(c, "leaving") /\ Alone
    /\ connections' = connections \ {c}
    /\ Unlock
    /\ Go(c, "done")
    /\ UNCHANGED <<channel, subVars, inWrite, todo, current, out, clientVars, inbox>>

\* Bound: in a calm run clients say nothing before all of them are there.
Assembled == Calm => connections = Conns

Idle(c) == At(c, "run") /\ out[c] = << >>

\* sendInitialL2Book, sendInitialBBO: the built-in prices of the coin, whatever
\* was announced before.
Snapshot(type, coin) == Reply(type, coin)

\* Mutant: the address is kept as the client writes it.
BugKeepsCase(m) == m.user

normalizedUser(m) == normalized[m.user]

\* handleSubscribe: the subscription is entered, then acknowledged, then, for
\* market data, followed by a snapshot.
Subscribe(c, m) ==
    /\ m.method = "subscribe"
    /\ \/ /\ m.type = "orderUpdates"
          /\ orderUpdatesUser' = [orderUpdatesUser EXCEPT ![c] = normalizedUser(m)]
          /\ wasUser' = [wasUser EXCEPT ![c] = @ \cup {normalizedUser(m)}]
          /\ UNCHANGED <<l2BookCoins, bboCoins>>
       \/ /\ m.type = "l2Book"
          /\ l2BookCoins' = [l2BookCoins EXCEPT ![c] = @ \cup {m.coin}]
          /\ UNCHANGED <<orderUpdatesUser, wasUser, bboCoins>>
       \/ /\ m.type = "bbo"
          /\ bboCoins' = [bboCoins EXCEPT ![c] = @ \cup {m.coin}]
          /\ UNCHANGED <<orderUpdatesUser, wasUser, l2BookCoins>>
    /\ out' = [out EXCEPT ![c] =
                 <<To(c, Reply("subscriptionResponse", m.coin))>> \o
                 (IF m.type = "orderUpdates" THEN << >> ELSE <<To(c, Snapshot(m.type, m.coin))>>)]

\* handleUnsubscribe: silent, and l2Book and bbo go together.
Unsubscribe(c, m) ==
    /\ m.method = "unsubscribe"
    /\ \/ /\ m.type = "orderUpdates"
          /\ orderUpdatesUser' = [orderUpdatesUser EXCEPT ![c] = NoUser]
          /\ UNCHANGED <<l2BookCoins, bboCoins>>
       \/ /\ m.type \in {"l2Book", "bbo"}
          /\ l2BookCoins' = [l2BookCoins EXCEPT ![c] = @ \ {m.coin}]
          /\ bboCoins' = [bboCoins EXCEPT ![c] = @ \ {m.coin}]
          /\ UNCHANGED orderUpdatesUser
    /\ UNCHANGED <<wasUser, out>>

Reject(c, m) ==
    /\ m.method = "bad"
    /\ out' = [out EXCEPT ![c] = <<To(c, Reply("error", m.coin))>>]
    /\ UNCHANGED subVars

\* History: what the client is owed in return.
Answers(m) ==
    CASE m.method = "bad" -> <<Reply("error", m.coin)>>
      [] m.method = "unsubscribe" -> << >>
      [] m.method = "subscribe" ->
            <<Reply("subscriptionResponse", m.coin)>> \o
            (IF m.type = "orderUpdates" THEN << >> ELSE <<Reply(m.type, m.coin)>>)

HandleMessage(c) ==
    /\ Idle(c)
    /\ asked < MaxAsks /\ Assembled
    /\ \E m \in Asks :
          /\ Subscribe(c, m) \/ Unsubscribe(c, m) \/ Reject(c, m)
          /\ owed' = [owed EXCEPT ![c] = @ \o Answers(m)]
    /\ asked' = asked + 1
    /\ UNCHANGED <<connections, channel, lockVars, inWrite, pc, todo, current, up,
                   published, inbox>>

\* ReadMessage fails: the client has hung up.  What it sent before may still be
\* read first, so HandleMessage does not ask whether the client is there.
ReadError(c) ==
    /\ Idle(c) /\ c \notin up
    /\ Go(c, "leave")
    /\ UNCHANGED <<connections, channel, lockVars, subVars, inWrite, todo, current, out,
                   clientVars, inbox>>

ConnStep(c) ==
    \/ LockConnections(c) \/ Register(c) \/ Deregister(c) \/ ReadError(c) \/ SendStep(c)

-----------------------------------------------------------------------------
(***************************************************************************)
(* Clients, and the order book and test driver that publish updates.       *)
(***************************************************************************)
Connect(c) ==
    /\ At(c, "off")
    /\ up' = up \cup {c}
    /\ Go(c, "join")
    /\ UNCHANGED <<connections, channel, lockVars, subVars, inWrite, todo, current, out,
                   asked, published, owed, inbox>>

HangUp(c) ==
    /\ ~Calm
    /\ c \in up
    /\ up' = up \ {c}
    /\ UNCHANGED <<connections, channel, lockVars, subVars, inWrite, pc, todo, current,
                   out, asked, published, owed, inbox>>

\* Mutant: no limit on what waits in a channel.
BugOverfull(b, u) ==
    /\ published < MaxUpdates
    /\ Assembled
    /\ published' = published + 1
    /\ channel' = [channel EXCEPT ![b] = Append(@, u)]
    /\ UNCHANGED <<connections, lockVars, subVars, inWrite, pc, todo, current, out,
                   up, asked, owed, inbox>>

\* BroadcastOrderUpdate, BroadcastL2Book: queued, or dropped if there is no room.
Publish(b, u) ==
    /\ published < MaxUpdates
    /\ Assembled
    /\ published' = published + 1
    /\ channel' = IF Len(channel[b]) < ChCap
                  THEN [channel EXCEPT ![b] = Append(@, u)] ELSE channel
    /\ UNCHANGED <<connections, lockVars, subVars, inWrite, pc, todo, current, out,
                   up, asked, owed, inbox>>

BroadcastOrderUpdate ==
    \E user \in OrderOwners : Publish("orders", OrderUpdate(published + 1, user))
BroadcastL2Book(coin) == Publish("market", BookUpdate(published + 1, coin))

\* SetBBO, TriggerBBOUpdate: the prices are announced and not kept.
SetBBO == \E coin \in BookCoins : BroadcastL2Book(coin)

\* Clients have said all they will and the broadcasters have nothing to do.
Quiet ==
    /\ published = MaxUpdates /\ asked = MaxAsks
    /\ \A b \in Broadcasters : At(b, "receive") /\ channel[b] = << >>
    /\ \A c \in Conns : At(c, "done") \/ (Idle(c) /\ c \in up)
    /\ UNCHANGED vars

Step ==
    \/ \E b \in Broadcasters : BroadcasterStep(b)
    \/ \E c \in Conns : ConnStep(c)

Next ==
    \/ Step
    \/ \E c \in Conns : HandleMessage(c) \/ Connect(c) \/ HangUp(c)
    \/ BroadcastOrderUpdate \/ SetBBO
    \/ Quiet

\* As long as a goroutine can run, one does, and a write to a client ends: it
\* reads what it is sent, or its end of the connection is gone.  Clients need
\* not connect or ask for anything, nor need anything be published.
Fairness == WF_vars(Step)

Spec == Init /\ [][Next]_vars /\ Fairness

-----------------------------------------------------------------------------
(***************************************************************************)
(* Properties.                                                             *)
(***************************************************************************)
Update == [id : Ids \cup {NoId}, user : Spelled \cup {NoUser}, coin : Coins \cup {NoUser}]
Msg == [channel : {"orderUpdates", "l2Book", "bbo", "subscriptionResponse", "error"},
        id : Ids \cup {NoId}, user : Spelled \cup {NoUser}, coin : Coins \cup {NoUser}]
Addressed == [to : Conns, msg : Msg]
Places == {"off", "join", "joining", "run", "find", "write", "writing", "leave", "leaving",
           "done", "receive", "lock", "loop"}

\* Types, the capacity of the channels, and a lock that nobody releases twice.
TypeOK ==
    /\ connections \subseteq Conns /\ up \subseteq Conns
    /\ orderUpdatesUser \in [Conns -> Users \cup {NoUser}]
    /\ l2BookCoins \in [Conns -> SUBSET Coins] /\ bboCoins \in [Conns -> SUBSET Coins]
    /\ wasUser \in [Conns -> SUBSET (Users \cup {NoUser})]
    /\ channel \in [Broadcasters -> Seq(Update)]
    /\ \A b \in Broadcasters : Len(channel[b]) <= ChCap
    /\ held \in [Goroutines -> 0..2]
    /\ writer \in Conns \cup {NoConn} /\ waiting \subseteq Goroutines
    /\ inWrite \in [Conns -> SUBSET Goroutines]
    /\ pc \in [Goroutines -> Places]
    /\ todo \in [Broadcasters -> SUBSET Conns]
    /\ current \in [Broadcasters -> Update]
    /\ out \in [Goroutines -> Seq(Addressed)]
    /\ inbox \in [Conns -> Seq(Msg)]
    /\ owed \in [Conns -> Seq(Msg)]
    /\ asked \in 0..MaxAsks /\ published \in 0..MaxUpdates

\* A client receives order updates of wallets it subscribed to, and unsigned
\* ones if it subscribed at all (broadcastOrderUpdates), though its
\* subscription may change between the broadcaster's test and the write.
WalletIsolation ==
    \A c \in Conns : \A i \in 1..Len(inbox[c]) :
        inbox[c][i].channel = "orderUpdates" =>
            /\ inbox[c][i].user = NoUser \/ normalized[inbox[c][i].user] \in wasUser[c]
            /\ wasUser[c] \ {NoUser} # {}

\* On each connection updates of a kind arrive in the order of publication and
\* at most once, snapshots and acknowledgements between them or not.
Kind(m) == IF m.channel = "orderUpdates" THEN "orders" ELSE "market"
InOrder ==
    \A c \in Conns : \A i, j \in 1..Len(inbox[c]) :
        (i < j /\ NoId \notin {inbox[c][i].id, inbox[c][j].id}
               /\ Kind(inbox[c][i]) = Kind(inbox[c][j])) => inbox[c][i].id < inbox[c][j].id

\* A client gets the answers to what it said, all of them and in its order,
\* whatever the broadcasters write between them: a message to a connection that
\* is being written to waits (sendJSON, handleMessage).  Among what is no update
\* the n-th message is the n-th it is owed.
Rank(box, i) == Cardinality({j \in 1..i : box[j].id = NoId})
RepliesComplete ==
    \A c \in Conns :
        LET box == inbox[c]
        IN  /\ \A i \in 1..Len(box) :
                  box[i].id = NoId => /\ Rank(box, i) \in 1..Len(owed[c])
                                      /\ box[i] = owed[c][Rank(box, i)]
            /\ Idle(c) /\ c \in up => Rank(box, Len(box)) = Len(owed[c])

\* The map of connections is not written while a broadcaster ranges over it,
\* which Go's runtime aborts on: what is left of the loop is still in the map.
LoopSeesMap ==
    \A b \in Broadcasters : held[b] > 0 /\ At(b, "run") => todo[b] \subseteq connections

\* A queued update reaches every connection that is subscribed to it and stays
\* so, whatever the others do with their subscriptions, as long as nobody joins
\* or leaves (broadcastOrderUpdates, broadcastL2Book).
Queued(b, u) == \E i \in 1..Len(channel[b]) : channel[b][i] = u
Got(c, u, ch) == \E i \in 1..Len(inbox[c]) : inbox[c][i] = Message(ch, u)
OrdersDelivered ==
    \A c \in Conns, id \in 1..MaxUpdates, s \in Users, u \in OrderOwners :
        LET update == OrderUpdate(id, u)
        IN  ((u = NoUser \/ normalized[u] = s) /\ Queued("orders", update) /\ orderUpdatesUser[c] = s)
              ~> (Got(c, update, "orderUpdates") \/ orderUpdatesUser[c] # s)

\* And so does a queued market update, in one of its two formats.
MarketDelivered ==
    \A c \in Conns, id \in 1..MaxUpdates, coin \in BookCoins :
        LET new == BookUpdate(id, coin)
            Wants == coin \in l2BookCoins[c] \cup bboCoins[c]
        IN  (Queued("market", new) /\ Wants)
              ~> (Got(c, new, "l2Book") \/ Got(c, new, "bbo") \/ ~Wants)

\* WEBSOCKET.md "Initial snapshot sent immediately after subscription": no
\* price update reaches a client before its snapshot, which would take it back
\* to the built-in prices.
SnapshotFirst ==
    \A c \in Conns : \A i \in 1..Len(inbox[c]) :
        (inbox[c][i].channel \in {"l2Book", "bbo"} /\ inbox[c][i].id # NoId) =>
            \E j \in 1..(i - 1) :
                inbox[c][j].id = NoId /\ inbox[c][j].channel = inbox[c][i].channel

\* WEBSOCKET.md "All WebSocket operations are thread-safe; concurrent
\* subscriptions and broadcasts are supported": a broadcaster does not wait for
\* the read lock while it holds it, which a pending Lock turns into a deadlock.
NeverStuck == \A b \in Broadcasters : ~(held[b] > 0 /\ b \in waiting)

\* That is the only way the manager stops: as long as a goroutine has something
\* under way, a message to send, a lock to take, an update to take off a channel,
\* a client that has hung up to let go, some goroutine can go on, whoever holds
\* the read lock, has announced Lock or is inside a write.
AtRest(g) ==
    \/ g \in Broadcasters /\ At(g, "receive") /\ channel[g] = << >>
    \/ g \in Conns /\ (pc[g] \in {"off", "done"} \/ (Idle(g) /\ g \in up))
CanGoOn(g) ==
    \/ At(g, "receive") /\ channel[g] # << >>
    \/ At(g, "lock") \/ At(g, "writing")
    \/ At(g, "run") /\ ~AtRest(g)
    \/ pc[g] \in {"find", "loop"} /\ g \notin waiting
    \/ At(g, "write") /\ inWrite[Target(g)] = {}
    \/ pc[g] \in {"join", "leave"} /\ writer = NoConn
    \/ pc[g] \in {"joining", "leaving"} /\ Alone
WorkGoesOn ==
    (\A g \in Goroutines : AtRest(g)) \/ (\E g \in Goroutines : CanGoOn(g)) \/ ~NeverStuck
=============================================================================
