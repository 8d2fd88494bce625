# Hyperliquid mock server: specifications

TLA+ specifications of the mock exchange in `src/` (Go): an HTTP server that
imitates Hyperliquid's `/exchange` and `/info` endpoints and its WebSocket feed
for tests of trading clients. Orders live in memory; nothing is persisted.

## The system

| part | state | operations | used by |
|---|---|---|---|
| Order store, `server/state.go` | `orders` (map from normalised cloid to order), `nextOid`, one mutex | create, modify and cancel by cloid or oid, two lookups | handlers, test driver |
| Fill helper, `server/testserver.go` `FillOrder` | none of its own: it takes the store's mutex | a full or partial fill | test driver |
| Exchange handlers, `server/handlers.go` | none between requests | order, modify, batchModify, cancel | one goroutine per HTTP request |
| Order status, `server/handlers.go`, `FlexibleOid` in `server/types.go` | none | a query by oid or cloid, for one user | one goroutine per request |
| WebSocket manager, `server/websocket.go` | `connections`, the subscriptions of each, two channels, a read-write mutex over the map, a read-write and a write mutex per connection | join, leave, subscribe, unsubscribe, broadcast orders and market data | one read loop per connection, two broadcasters |
| Request capture, `server/testserver.go` `RequestCapture` | the captured requests, `skipMeta`, `metaLeft` | wrap a request, list, count, clear | every HTTP request, test driver |
| Signature recovery, `server/signature_recovery.go` | none | the wallet behind a signature, or an error | exchange handlers |
| Market metadata, `server/*_meta_data.go` | fixtures decoded once, a `sync.Once` for each market | four read-only answers, and the coin of an order's index | `/info`, exchange handlers |
| Server, `server/server.go`, `NewHandler` | the parts above | runs them side by side | `main`, `NewTestServer` |

How they interact. A handler calls the store once or several times, and the
store's mutex is released between two calls. Each change of an order is
announced, with the mutex held, by a non-blocking send on a channel of 100
updates; when it is full the update is dropped. A broadcaster goroutine takes
updates off the channel and writes them to the subscribed connections, with the
read lock of the map held for the whole loop. `FillOrder` goes into the map
directly. Market data takes the same way through a channel of its own. In a
test server the request capture sits before every handler; the test driver
reads and clears its log while requests run. The signature of a request is
recovered from its re-encoded action, before the action is looked at once more
to choose a handler.

What is hard here: requests that race between a lookup and the store call that
relies on it; the order of announcements; a full channel; connections that come,
go or change their subscription while a broadcaster is in its loop; two
levels of locks that are taken more than once; flags of the request capture that
are read and written without its lock; and two readings of one action that have
to agree. What each part has to
guarantee is the list of properties below. `PROJECT.json` lists every hazard at
its line with the properties that watch it.

## The modules

| module | what it is |
|---|---|
| `CloidKeys` | the spellings of cloids and addresses, and their two normalisations |
| `OrderStore` | the store, `FillOrder` and the order channel; each operation one action |
| `OrderLedger` | what the store promises: an append-only ledger, one line per oid |
| `Exchange` | the handlers over `OrderStore`, each step between two lock regions an action |
| `WsHub` | the WebSocket manager with its goroutines and locks |
| `Server` | `Exchange` and `WsHub` together, joined by the order channel |
| `RequestCapture` | the test server's request log, and the metadata handlers behind it |
| `CaptureLog` | what the log promises: an append-only log, emptied at once |
| `Fixtures` | the metadata files that are decoded once by whoever comes first |
| `Wire` | a request's bytes, its signature and the kind of its action |
| `MCExchange`, `MCWsHub`, `MCServer`, `MCWire` | constants of the runs |
| `OrderStoreProofs`, `ExchangeProofs`, `WsHubProofs`, `ServerProofs`, `RequestCaptureProofs`, `WireBytes`, `WireProofs` | theorems and proofs |
| `DataInduction` | induction over numbers and the prefixes of a sequence, for `WireBytes` |

`Exchange` extends `OrderStore`, which extends `CloidKeys` and instantiates
`OrderLedger` with the refinement mapping `LedgerView`. `Server` extends
`Exchange` and instantiates `WsHub`, whose channel of orders is a view of the
book's. `RequestCapture` extends `Fixtures` and instantiates `CaptureLog`.
Operators whose names
start with `Bug` are plausible mistakes: put in place of the definition they
follow, each one breaks a property. No specification uses them.

### From the code to the model

*Store.* `CreateOrder`, `ModifyOrder`, `ModifyOrderByOid`, `CancelOrder`,
`CancelOrderByOid`, `FillOrder` and `BroadcastOrderUpdate` keep their names. The
mutex is held from the first read to the channel send, so each is one action.
The scan by oid starts anywhere (Go's map order): `ModifyOrderByOid` and
`CancelOrderByOid` take any match, and `OidUnique` says that there is one at
most. `GetOrder` and `GetOrderByOid` are state functions. Prices and sizes are
integers; a fill of the remaining size is the value `Remaining`. `issued`,
`seen` and `lost` are history: which key each oid was created for, the last
update of each key that the broadcaster took, and the keys whose last update
was dropped.

*Cloids.* A cloid keeps what the code can tell apart: its digits, their case,
its prefix. `canonicalizeCloidKey` lowers the case of prefixed ones only.
`LooksLikeOid` is `strconv.ParseInt(_, 16, 64)` succeeding. Generated cloids
(`mock-<nanoseconds>`) are numbered by `clock`, which is read where the code reads
it and may show the same time twice (`NothingToModify`).

*Handlers.* A slot of `Handlers` runs one request at a time; `call[h].pc` is the
place between two lock regions: `resolve` (`handleModify` before the lookup of
its cloid), `item` (before an entry), `create` (`processOrder` after the failed
modify and before `CreateOrder`), `echo` (`processOrder` between
`ModifyOrderByOid` and `GetOrderByOid`). Every early return is a disjunct or an
action: an unknown oid, an invalid reference, a missing order object, the IOC
rejection, entries that are passed over without a status. Requests come decoded,
with the recovered wallet. An entry's `abbrev` separates the wire formats,
because they behave differently: `handleModify` injects the oid in a field that
only the abbreviated format reads; `handleCancel` reads oids only there;
`handleBatchModify` reads prices and sizes only in the full one. A query's
reference is decoded by `UnmarshalJSON` as `FlexibleOid` does: a string is kept
beside the number that it may parse as, and wins.

*WebSocket manager.* Addresses come as clients and orders write them (`Spelled`);
`normalized` is `normalizeAddress`, a constant function, and `normalizedUser` and
`shouldSend` apply it where the code does. `sync.RWMutex` is modelled as Go implements it: a waiting
writer holds back every later reader, and leaves when the earlier ones are gone;
on `Unlock` the readers that were held back enter before the next writer.
`held`, `writer` and `waiting` are its state. Regions of a lock with nothing to
wait for inside are single steps: that is so for the mutex of a connection's
subscriptions, and for the lookup in `sendJSON` when no writer waits. `sendJSON`
is the lookup (`FindConn`, or `FindHeldBack` then `FindAdmitted`), `StartWrite`
under the write mutex, `EndWrite`. A broadcaster is `Receive`, `LoopLock`, one
`Visit` per connection in any order with the sends it causes, `LoopUnlock`. A
connection is `Connect`, `LockConnections`, `Register`, then messages
(`HandleMessage`) until `ReadError`, then `LockConnections`, `Deregister`. A
client may go away at any time (`HangUp`), with messages of its own unread. With
`Calm` all clients join before anything else and none leaves: that is the setting
of `hub_calm`, where delivery can be expected, and of no theorem.
A market update is its coin and number; a snapshot has no number (`NoId`),
because it shows the built-in prices whatever was announced before. `owed` is
history: the answers to all that was read from a client, in order (`Answers`).

*Server.* A step of `Server` is a step of the handlers or the test driver
(`Handle`, `BeginRequest`, `Drive`), of the manager (`Manage`, `Client`), or the
broadcaster's receive, which is `Deliver` of the book and `Receive` of the hub
in one (`Broadcast`). The hub's channel is not a variable there but computed
from `orderUpdatesCh`: `update` is the `WsOrder` that `BroadcastOrderUpdate`
builds, with the owner's address as the book has it. Hence
the hub's `Ids`, by which updates are told apart, are the orders themselves, where
the runs of `WsHub` have numbers, and `normalized` is the `normalizeAddress` of
`CloidKeys`. Clients subscribe under any spelling of an address, join when they like
and may hang up.
`history` records every state that the book went through.

*Request capture.* A slot of `Handlers` takes a request through `Wrap`. What
`Wrap` does without `rc.mu` is cut at each access of shared memory: the test
of `skipMeta` (`Decide`), the load, the store and the test of `metaLeft`
(`LoadLeft`, `StoreLeft`, `CheckLeft`; the test may use the value stored or load
it again), the write of `skipMeta` (`Unskip`). `AppendRequest`, `Clear`,
`GetRequests` and `Count` hold the lock. `Clear` empties the log and then writes the
two flags in any order, because nothing orders them for a reader without the
lock. `skipped`, `disturbed`, `asked` and `answers` are history. The handler behind
the middleware matters only for the fixture it needs: `Load` passes through
`sync.Once` (`Runs`, `DecodesMeta`, `DecodesCtxs`), and `Handle` waits for it
(`ReturnsFromDo`).

*Wire.* Requests are drawn from `Received`, each with what its client signed.
`RecoverWallet` is `recoverWalletFromSignature` with all it calls; `Dispatch` is
the choice of a handler. Bytes are numbers below `Byte` and hexadecimal digits
numbers below `Digit`; both are constants, 256 and 16 in the code. A msgpack
action is a sequence of strings, in the short or the long form, and integers,
whose bytes may be anything. The hash is injective: it is its own preimage. The curve
is external: it returns the signer for the hash that was signed and somebody
else for any other. An action's fields are absent, null or there, and its
`type` may be spelt in another case, which `encoding/json` accepts and a map does
not.

## The runs

| run | bounds | properties |
|---|---|---|
| `exchange` | 2 slots, 3 requests out of 11, fills of 1 kind, 2 wallets, channel of 2, 2 clock values | `TypeOK`, `CaughtUp`, `FeedInOidOrder`, `StoreInv`, `OidUnique`, `RepliesNameTheirOrders`, `OwnerFindsOrder`, `LedgerRefined`, `ModifyHitsTarget` |
| `hub_calm` | 2 connections that stay, 2 updates of either kind, 2 messages from clients, channels of 1 | `OrdersDelivered`, `MarketDelivered` |
| `hub_churn` | 2 connections that come and go, 2 wallets, 2 order updates, 2 messages from clients, channels of 1 | `TypeOK`, `WalletIsolation`, `InOrder`, `RepliesComplete`, `LoopSeesMap`, `WorkGoesOn` |
| `server` | 2 slots, 2 requests out of 2 (of two wallets, over one cloid in two spellings), 1 fill, 1 connection that comes and goes, 1 message, channel of 2 | `OwnOrdersOnly`, `ShownAsStored`, `ClientsConverge`, `Answered` |
| `capture` | 2 slots, 4 requests of 5 kinds, 1 clear | `TypeOK`, `SkipsTwo`, `FixturesComplete`, `LogRefined`, `Served` |
| `wire` | bytes 0..3, scalars of 2 bytes, addresses of 1, numbers of 2; one part of a request varies at a time | `ConversionExact`, `RecoversSigner`, `SignedIsExecuted` |

`exchange` treats the slots as alike and `hub_churn` the connections (TLC's
symmetry); neither checks liveness. Deadlock is checked everywhere but in `server`,
`hub_churn`, `hub_deadlock` and `stale_snapshot`, where connections join and leave
and the manager does stop (`hub_deadlock` is about how), and in `wire`, where a
request ends.

What the properties say:

- `StoreInv`: oids are dense; an entry is under the key of its cloid, which is
  the key its oid was created for; an oid that was handed out is displaced only
  by a younger order of its key. `OidUnique` follows.
- `LedgerRefined`: the book implements `OrderLedger`: one line changes per
  step, only as its operation may change it, and a retired line stays retired.
- `CaughtUp`, `FeedInOidOrder`: a client that keeps the last update of each key
  ends up with the stored order, unless that key's last update was dropped; it
  never goes back to a displaced order.
- `RepliesNameTheirOrders`: a resting answer carries an oid that was handed out
  and a cloid of the key it was handed out for, whatever happened between the
  steps of the handler.
- `OwnerFindsOrder`: an order is found, as the book has it, by its owner under every
  spelling of its cloid and of the owner's address, and a signed one by no query of
  another wallet. It says nothing of queries without a user for signed orders, nor of
  queries with one for unsigned orders, which documents expect to be answered: see
  the disagreements.
- `ModifyHitsTarget`: a modify changes the order its reference names, or none,
  though the reference is resolved under one lock and used under another. It is
  about the abbreviated format; `modify_creates` is about the other.
- `Answered`: every request ends, though the broadcaster may be stuck for good and
  the channel full.
- `LoopSeesMap`: the map is not written while a broadcaster ranges over it.
- `NeverStuck`: no broadcaster waits for the read lock that it holds itself, to be
  let in after a writer that waits for it. `hub_deadlock` refutes it.
- `WorkGoesOn`: that is the only way the manager stops. As long as a goroutine has
  work (`AtRest` says which have none), some goroutine can take its next step
  (`CanGoOn`), through two levels of locks: the read-write mutex over the map and the
  write mutex of each connection.
- `WalletIsolation`, `InOrder`: a client is sent orders of wallets that it
  subscribed to and unsigned ones; updates come in order and at most once.
- `RepliesComplete`: a client gets every answer to what it said, in its order,
  whatever the broadcasters write in between.
- `OrdersDelivered`, `MarketDelivered`: a queued update reaches whoever is
  subscribed to it and stays so, as long as nobody joins or leaves.
- `OwnOrdersOnly`: from the signature of a request to the client's inbox, an
  order is shown to those who subscribed to its signer, and an unsigned one to
  subscribers.
- `ShownAsStored`: every order that a client is shown can be given a date, a state
  of the book in which it was stored so, and the dates do not decrease. Comparing
  with a list of the values that changed would not do: a second cancel announces
  an order that it leaves as it was, after others have changed.
- `ClientsConverge`: a client that stays, subscribed to an order's owner under any
  spelling of the address, is in the end shown the order as the book has it, unless
  its last update was dropped or the manager is stuck (`NeverStuck`).
- `LogRefined`: the log implements `CaptureLog`: a request is settled once
  between its arrival and its answer, in the log or, for metadata requests,
  perhaps out of it, and clearing is one step, though its flags are raced over.
- `SkipsTwo`: after a clear that nothing overlaps, metadata requests that come one at
  a time are left out twice, and logged from then on or once another `/info`
  request has come. Two that overlap may cost a decrement, so that a third is left out: the
  property excludes them (`disturbed`) and `LogRefined` allows it.
- `FixturesComplete`, `Served`: no request is answered from the fallback while
  another decodes the recorded files, and none waits for ever.
- `ConversionExact`: `convertStr16ToStr8` rewrites the headers of short strings
  and nothing else, unless other bytes look like such a header (`Disguised`),
  which it cannot tell.
- `RecoversSigner`: a wallet is the signer's exactly when request and signed
  request mean the same, however their numbers are spelt.
- `SignedIsExecuted`: the action's kind that was hashed is the one carried out.
  Two cases are excluded (`Plain`): a field that is null is absent for one reading
  and present for the other, and so is a `Type` with a capital.

Why the bounds are enough. Two slots are what it takes to interleave; of three
requests the first places the order, and the third displaces it between two steps of
the second, which names it by oid or cloid. The requests
collide on purpose: one cloid in two spellings and from two wallets, a cloid
whose digits are the first oid, references to oids that do not exist yet, a
displaced oid. A channel of two places is full, empty or both within
three announcements. Two connections are needed for one to be served while the
other disturbs the loop; two updates for an order between them. In `capture`
four requests are one more than the two that are left out and one that overlaps
them. In `wire` bytes of two bits hold both header codes, a length that fits and
one that does not; three tokens let a header begin in one and end in another; a
scalar of two bytes can be short, odd, exact or too long. In `server` one client
is enough, because clients act on each other only through the locks, which
`hub_churn` is about, and so are two orders of two wallets: three announcements
with the fill overflow the channel; unsigned orders go out in `hub_churn`. With more of
anything the behaviours repeat; what the theorems below state holds for any number.

### Disagreements

Each run of this list checks one statement of the repository, which TLC refutes.

| run | statement | what the code does |
|---|---|---|
| `hub_deadlock` | WEBSOCKET.md:310 all operations are thread-safe, concurrent subscriptions and broadcasts are supported | `sendJSON` takes the read lock its broadcaster holds; with a join or leave in between, both wait for ever |
| `acked` | integration_test.go:196, README.md:78 an acknowledged order is stored and can be queried by its oid | of two concurrent orders of one cloid both are acknowledged and one is gone |
| `modify_creates` | handlers.go:352 the oid is injected so that processOrder can handle it | with full field names it is not read, and a new order is placed |
| `queried` | README.md:211 an order is queried by its oid, without a user | the empty user is not the order's: a signed order is unknown |
| `modify_reopens` | WEBSOCKET.md:66 a modified order is open, :60 a filled one completely filled | price and size change and the status stays: a filled order has a size again |
| `stale_snapshot` | WEBSOCKET.md:304 the initial snapshot is sent immediately after the subscription | an update may come between the two, and the snapshot then takes the client back to the built-in prices |

Two more show in the modules and have no run of their own. The actions that modify
and cancel do not compare the wallet (`CancelOrder`, `ModifyOrder`, `BatchModify`), and
equal cloids of two wallets share one entry, where README.md:119 has different wallets
"operate independently without interference": two requests in sequence show it. An
order without a wallet is unknown to a query that names one (`handleOrderStatus`), where
handlers.go:73 has it "accessible to all queries".

### Fairness

`Exchange`: weak fairness of each handler's steps. Go's scheduler runs every
goroutine that can run, and `sync.RWMutex` does not starve a waiter. Nothing is
assumed of clients, of the test driver or of the broadcaster. `Answered` is
checked in `server`, where the manager can stop for good: the book does not wait for
its feed even then.

`WsHub`: weak fairness of all goroutine steps together: as long as one of them
can run, one does. This is less than the scheduler guarantees and enough here,
because the bounds on messages and updates leave finitely many steps. It
includes that a write to a client ends. Clients need not join, speak or leave,
and nothing need be published.

`Server`: weak fairness of each handler, and of the broadcaster and the manager
together, as in the parts. Nothing is assumed of clients, requests or fills.

`RequestCapture`: weak fairness of each handler's steps and of the second half
of a `Clear` that has begun. Clients need not send anything, nor the driver clear.

## What is proved

Every invariant and action property of the passing runs is proved, for any
values of the constants that satisfy the assumptions:
`OrderStoreProofs` is about `StoreSpec`, the store under any callers, with all
integers for oids, prices and sizes, all cloids and addresses, any channel
capacity above 0; `ExchangeProofs` about `Exchange!Spec` with any set of
requests, fills, wallets and slots; `WsHubProofs` about `WsHub!Spec` with any
connections, wallets, messages and updates; `ServerProofs` about `ServerSpec`,
which has all of these; `RequestCaptureProofs` and `WireProofs` about the `Spec`
of their modules, with requests of any length in `WireProofs`, for which `WireBytes`
has the lemmas.

The assumptions are the named ones of the modules: values that stand for "absent"
differ from the values they are absent among, connections and broadcasters are
different things, requests and messages have the declared shape, the bounds are
naturals. `ReceivedAssumption` says of `Wire`'s requests what their types and their
client see to: a nonce and an expiry that are not negative fit into eight bytes
(they are `int64`), the length of a string is written in one byte or two, hexadecimal
strings consist of digits; what was signed has a nonce that is not negative, an
address for a vault, an r and an s that fit (they are below the order of the curve)
and a v of 0 or 1; and no action's bytes begin with all of another's, since msgpack
maps and arrays start with the number of their elements. TLC evaluates the assumptions
on every run. Fairness is used in none of the proofs.

| theorem | states |
|---|---|
| `StoreTypeCorrect` | `StoreTypeOK` |
| `StoreSafe`, `OidsUnique` | `StoreInv`, `OidUnique` |
| `FeedCatchesUp`, `FeedOrdered` | `CaughtUp`, `FeedInOidOrder` |
| `StoreImplementsLedger` | `LedgerRefined` |
| `ExchangeUsesStore` | every behaviour of `Exchange` is one of `StoreSpec` |
| `ExchangeTypeCorrect` | `TypeOK` of `Exchange` |
| `ExchangeSafe`, `ExchangeFeed`, `ExchangeImplementsLedger` | the store's theorems for `Exchange` |
| `StatusesNameOrders` | `RepliesNameTheirOrders` |
| `OwnersFindOrders` | `OwnerFindsOrder` |
| `ModifiesHitTheirTarget` | `ModifyHitsTarget` |
| `HubTypeCorrect` | `TypeOK` of `WsHub` |
| `MapIsNotWrittenInLoop` | `LoopSeesMap` |
| `OnlyDeadlock` | `WorkGoesOn` |
| `WalletsIsolated` | `WalletIsolation` |
| `UpdatesInOrder` | `InOrder` |
| `AnswersComplete` | `RepliesComplete` |
| `ServerUsesStore` | every behaviour of `ServerSpec` is one of `StoreSpec` |
| `ServerSafe`, `ServerImplementsLedger` | types, `StoreInv`, `OidUnique`, `CaughtUp`, `FeedInOidOrder` and `LedgerRefined` for the composed server |
| `ServerAnswers`, `ServerModifies` | `RepliesNameTheirOrders`, `OwnerFindsOrder`, `ModifyHitsTarget` for the composed server |
| `OrdersStayPrivate` | `OwnOrdersOnly` |
| `ClientsSeeHistory` | `ShownAsStored` |
| `ManagerKeepsPromises` | types, `LoopSeesMap`, `WalletIsolation`, `RepliesComplete`, `WorkGoesOn` for the manager in the composed server |
| `CaptureTypeCorrect` | `TypeOK` of `RequestCapture` |
| `AnsweredFromFixtures` | `FixturesComplete` |
| `LogIsRefined` | `LogRefined` |
| `TwoAreSkipped` | `SkipsTwo` |
| `ConvertedAsParsed`, `ConvertedExactly` | the conversion is a parser's, for any tokens; `ConversionExact` |
| `SamePreimage`, `SignerRecovered` | requests that say different things are not hashed alike; `RecoversSigner` |
| `ExecutedAsSigned` | `SignedIsExecuted` |

Few of these are inductive as they stand. What each one rests on (TLC checked the
larger inductive invariants on the runs' instances before they were proved):

*Store.* `StepKinds` reduces the steps of the store to three: an entry
is placed, one stored entry is rewritten (keeping its oid, cloid and owner) and
announced, or the broadcaster takes an update. `StoreTypeOK` is inductive by
itself. `StoreInv` is inductive with it: a placed order gets the next oid and
the next place in `issued`, and rewriting keeps oid and cloid. `OidUnique` is
not inductive and follows from `StoreInv`: `issued` maps an oid back to one key.
`CaughtUp` is kept because the announced value is the stored value and goes to
the end of the queue, or its key goes to `lost`. `FeedInOidOrder` needs
`FeedInv`: every key in the feed or seen by the client has an entry, or the comparison
with the stored oid would say nothing. For the refinement, placing an order
appends a line and retires that of the displaced oid, rewriting changes one line
because `issued` gives each entry one live line, and taking an update changes none.

*Handlers.* `NextIsStoreStep` shows that every step is a step of the store
or leaves it alone; hence `ExchangeUsesStore`, and the store's theorems carry
over. `TypeOK` needs `CallInv`: besides the types, what each `pc` implies about
the rest of a call (a slot that is creating has an entry and a cloid, an idle
one has nothing). `RepliesNameTheirOrders` and `ModifyHitsTarget` need `NameInv`:
the answers given and the entries left line up with the entries of the request
(`Aligned`); an answer, and an oid that is about to be echoed, was handed out for
the key of its cloid; what a modify injected into its entry is an oid of the key
its cloid names, or the very oid it was sent (`Aimed`). Others' steps keep it
because `issued` only grows (`Grown`): an order may be displaced between
the lookup and the use, but its oid never goes to another key.
`OwnerFindsOrder` is no new invariant: it follows from `StoreInv`, `OidUnique`
and what the two normalisations do to a spelling.

*WebSocket manager.* `LockInv` says that how often a goroutine holds the read
lock follows from its place: once in the loop of a broadcaster, and once more
where it was held back and let in again. A writer that finds nobody holding
the lock (`Alone`) therefore finds no broadcaster in its loop, so that the rest
of a loop stays in the map (`LoopInv`, `LoopSeesMap`). `WriteInv`: the
goroutines in `inWrite[c]` are those that write to `c`, and there is one at
most. `WalletInv` extends `WalletIsolation` to messages on their way: what is sent
was for a wallet in `wasUser`, which never shrinks. `InOrder` needs the path
of an update as a whole (`OrderInv`): what is in a channel is younger than what the
broadcaster works on and grows along the channel, a broadcaster has at most one
message on its way, to a connection it has left in its loop no more, and
what a client has is no younger than the broadcaster's update, and older
while that update is still due to it (`Due`). `RepliesComplete` needs `ReplyInv`:
while a client is there, what it is owed is the answers it has and then what
its read loop still has to send (`Rest`). This holds because the loop takes no
message before the last is answered, its connection is in the map all the
while, and what a broadcaster sends is never taken for an answer (`Numbered`).
`OnlyDeadlock` needs `TurnInv`: goroutines are held back only while a writer is
announced, and the announced writer is the one connection that is joining or leaving. The
proof (`NotHeldUp`) asks who is waited for. Somebody inside a write ends it. Otherwise
the write mutexes are free, so whoever wants one goes on. Whoever holds the read lock
is a broadcaster in its loop or has just been let into its lookup, and goes on
unless it is a broadcaster that is held back in the next lookup, which is what
`NeverStuck` excludes. If nobody holds it, an announced writer goes on, and without one
nobody is held back.

*Server.* `ServerStepIsExchangeStep` shows that each of its steps is one
of `Exchange` or leaves its variables alone. The invariants of `Exchange` are
about `[Next]_vars`, so they carry over. `WsHub!Spec` is not what the manager does
here: its channel is the book's, and its updates are orders without numbers.
What carries over is the invariant (`HubInv`): what `WsHubProofs` needs for all but
`InOrder`, which is about numbers. A step of the server is a step of the manager, or
leaves it alone and changes its channel at most (`StepManager`); `Fed` shows that
whoever changes the channel keeps `HubInv`, if it then holds updates, and no more of
them than fit, which `StoreTypeOK` says of the book's (`CarriedUpdates`).
Nothing is assumed of the handlers in between. `HubP` instantiates the proofs as
`Hub` does the module, and `SameManager` and `SamePromises` show that the two are one.
`OwnOrdersOnly` says more than `WalletIsolation`, about orders and their signers, and
has a proof of its own (`ClientInv`), with one more link: the user of an update is
the order's own (`update`), and lower-casing it, as a subscription is, leaves the wallet
what it was (`NormalAddress`, `NormalIsFollowed`). `ShownAsStored` is a statement about three queues at once. `TraceInv`
dates them together: the channel, the broadcaster's update and each inbox can be
dated with non-decreasing states of the book, the inboxes no later than the update at
hand and the channel no earlier. Announcing appends the last state,
receiving moves the date of the update at hand, and writing copies it.

*Request capture.* The Once is in `OnceInv`: one request decodes a file, and only
while it is marked as running, so that nobody waits for what is done. For
`LogRefined` it takes `RouteInv` (which kinds of request are at which
place): each place is one of the phases of `CaptureLog`, and a request is
settled by the append, or where it is passed over: what is never captured at once,
a metadata request when its decrement is done. `SkipsTwo` needs `SkipInv`: in an undisturbed
stretch there is one metadata request at most, `metaLeft` and `skipped` add up to two
but for the moment between the load and the store, and the flags that a `Clear` has
written are as it left them.

*Wire.* `ReadInv` follows a request from the signature to the handler; the rest
is about data. For `ExecutedAsSigned`, the two readings of one action are compared,
and the proof is a case distinction on which fields it has: that is where the null
fields and the miscased `type` had to be excluded.

The other two theorems need induction over the bytes of a request. The library's
induction theorems take an operator, which the provers cannot instantiate, so a claim
is proved as a set of numbers that holds 0 and, with every number, the next
(`NaturalInduction`, from the least element of what is left, `LeastNatural`). `Value`,
`BigEndian` and the conversion are recursive functions, that is, a choice among the
functions that satisfy an equation: `ReadsExist`, `RestExists` and `ConvertsExist` show that
there is one (`PrefixRecursion`), and everything else follows from the equation.

`ConvertedAsParsed` goes through the tokens from the first to the last: what the
conversion yields is the short form of those before, and then what it yields from the
next on. A token that is
to be shortened is one header and is skipped with its payload (`TokenConverted`). Any other is
copied byte by byte (`Copied`), which is where `Disguised` comes in: it says precisely that
the conversion finds no header in it.

`SignerRecovered` compares byte strings with what they say. A digit more or less in front
does not change a number (`LeadingZeros`), two hexadecimal digits are a byte (`PairsOfDigits`),
and the bytes of a number are the only ones of their length that are read as it
(`BigEndianOfValue`): a decoded component is the bytes of the number that is spelt, of
whatever spelling (`AcceptedComponent`). Conversely, equal wholes have equal parts
(`JoinsAgree`), from the front: the action says where it ends, the nonce has its length, the
vault has a tag that says how long it is, and what is left is the expiry
(`SamePreimage`). Without `SelfDelimiting` an action's last bytes could pass for a nonce.

Only model-checked:

- `Answered`, `OrdersDelivered`, `MarketDelivered`, `ClientsConverge`, `Served`:
  liveness under fairness, which is out of the prover's reach.
- The disagreements listed with the runs: counterexamples need no proof.

## Not modelled

- The rounding of prices and sizes to eight digits (`"%.8g"` in `processOrder`,
  all digits in `FillOrder`), NaN and infinities; sides,
  coins (except that IOC orders are on BTC), timestamps; the wording of
  errors; logging; a batchModify entry without an order object, which is passed
  over like an unknown cloid.
- Price levels (`getMockBBO` and the prices given to `SetBBO`): a market
  update is its coin and number, a snapshot the built-in prices of its coin.
- The codecs of `types.go` but `FlexibleOid`, the fallback metadata in
  `handlers.go` and the recorded files: JSON in one shape becomes the same data in
  another, without state or a choice.
- A recorded file that does not decode: the files are compiled in, so whether
  they do is settled before the program runs. The fallback is what a request
  would get that does not wait.
- Keccak, the curve and msgpack (external), and the decoding of an action into
  its typed form beyond its kind.
- Options, listeners, response recording and the accessors that decode what the
  log holds: no state of their own.
- Server shutdown: the broadcasters never end in the code, and
  connections are closed by the clients or the process. Nothing is persisted, so
  there is no restart to recover from.

## Plan

Done: all modules above with their runs, and the proofs of all that the runs check
but liveness. Left: price levels in `WsHub`, should a document ever say what a late
subscriber or a client of both formats gets.
