---------------------------- MODULE RequestCapture ----------------------------
(***************************************************************************)
(* The request log of the test server (server/testserver.go): the          *)
(* middleware that every request passes, the Clear of the test driver, and *)
(* the metadata handlers behind the middleware.                            *)
(*                                                                         *)
(* After Clear the two metadata requests that a new client sends are left  *)
(* out of the log.  Clear and the append hold rc.mu; Wrap reads and writes *)
(* skipMeta and metaLeft without it, so each of those accesses is a step   *)
(* of its own, and Clear's two writes come in any order (a data race).     *)
(***************************************************************************)
EXTENDS Fixtures, Sequences

CONSTANTS Handlers,     \* slots for concurrent requests
          Kinds,        \* the kinds of requests clients send
          MaxRequests,  \* bound: requests
          MaxClears     \* bound: calls of Clear

MetaKinds == {"meta", "spotMeta"}
InfoKinds == {"orderStatus", "metaAndAssetCtxs", "spotMetaAndAssetCtxs"}
\* "upgrade" asks for a WebSocket; the body of "unreadable" does not arrive.
Uncaptured == {"upgrade", "unreadable"}
NeedsFixture(k) == k \notin Uncaptured \cup {"orderStatus"}

ASSUME CaptureAssumption ==
    /\ Kinds \subseteq MetaKinds \cup InfoKinds \cup Uncaptured \cup {"exchange"}
    /\ MaxRequests \in Nat /\ MaxClears \in Nat

VARIABLES
    requests,   \* rc.requests
    skipMeta,
    metaLeft,
    serving,    \* Handlers -> where the request is, its kind, the loaded metaLeft
    clearing,   \* the flags Clear, which holds rc.mu, has still to write
    arrived,    \* requests so far
    clears,     \* calls of Clear so far
    (* History: *)
    skipped,    \* metadata requests left out since Clear
    disturbed,  \* since Clear began, metadata requests overlapped, or Clear
                \* itself overlapped requests
    asked,      \* since Clear began, another /info request arrived
    answers     \* what fixture requests were answered from

flagVars == <<skipMeta, metaLeft>>
logVars == <<requests, flagVars, clearing, clears>>
history == <<skipped, disturbed, asked, answers>>
vars == <<fixtureVars, logVars, serving, arrived, history>>

Places == {"idle", "decide", "decrement", "store", "check", "unskip", "append", "handle",
           "decode", "decode2"}
Idle == [pc |-> "idle", kind |-> "upgrade", left |-> 0]

Init ==
    /\ FixturesInit
    /\ requests = << >>
    /\ skipMeta = FALSE /\ metaLeft = 0
    /\ serving = [h \in Handlers |-> Idle]
    /\ clearing = {}
    /\ arrived = 0 /\ clears = 0
    /\ skipped = 0 /\ disturbed = FALSE /\ asked = FALSE /\ answers = {}

At(h, pc) == serving[h].pc = pc
Kind(h) == serving[h].kind
Go(h, pc) == serving' = [serving EXCEPT ![h].pc = pc]
Local == UNCHANGED <<fixtureVars, logVars, arrived, history>>
InFlight(kinds) == {h \in Handlers : ~At(h, "idle") /\ Kind(h) \in kinds}

-----------------------------------------------------------------------------
(***************************************************************************)
(* Wrap.                                                                   *)
(***************************************************************************)
Arrive(h) ==
    /\ At(h, "idle") /\ arrived < MaxRequests
    /\ \E k \in Kinds :
          /\ serving' = [serving EXCEPT ![h] =
                                        [pc |-> "decide", kind |-> k, left |-> 0]]
          /\ disturbed' = (disturbed \/ clearing # {}
                            \/ (k \in MetaKinds /\ InFlight(MetaKinds) # {}))
          /\ asked' = (asked \/ k \in InfoKinds)
    /\ arrived' = arrived + 1
    /\ UNCHANGED <<fixtureVars, logVars, skipped, answers>>

\* Mutant: the first two /info requests are left out, whatever they ask for.
BugSkipsAnyInfo(h) ==
    /\ At(h, "decide")
    /\ Go(h, CASE Kind(h) \in Uncaptured -> "handle"
               [] skipMeta /\ Kind(h) \in MetaKinds \cup InfoKinds -> "decrement"
               [] OTHER -> "append")
    /\ Local

\* A WebSocket upgrade passes by, an unreadable body is answered at once.
\* Otherwise skipMeta is read; /exchange requests do not look at it.
Decide(h) ==
    /\ At(h, "decide")
    /\ Go(h, CASE Kind(h) \in Uncaptured -> "handle"
               [] skipMeta /\ Kind(h) \in MetaKinds -> "decrement"
               [] skipMeta /\ Kind(h) \in InfoKinds -> "unskip"
               [] OTHER -> "append")
    /\ Local

\* rc.metaLeft-- is a load and a store.
LoadLeft(h) ==
    /\ At(h, "decrement")
    /\ serving' = [serving EXCEPT ![h].pc = "store", ![h].left = metaLeft - 1]
    /\ skipped' = skipped + 1
    /\ UNCHANGED <<fixtureVars, logVars, arrived, disturbed, asked, answers>>

StoreLeft(h) ==
    /\ At(h, "store")
    /\ metaLeft' = serving[h].left
    /\ Go(h, "check")
    /\ UNCHANGED <<fixtureVars, requests, skipMeta, clearing, clears, arrived, history>>

\* Mutant: one request too many is left out.
BugOffByOne(h) ==
    /\ At(h, "check")
    /\ Go(h, IF metaLeft < 0 THEN "unskip" ELSE "handle")
    /\ Local

\* metaLeft <= 0, tested on the value stored or on one loaded again.
CheckLeft(h) ==
    /\ At(h, "check")
    /\ \E left \in {serving[h].left, metaLeft} :
          serving' = [serving EXCEPT ![h].pc = IF left <= 0 THEN "unskip" ELSE "handle",
                                     ![h].left = 0]
    /\ Local

Unskip(h) ==
    /\ At(h, "unskip")
    /\ skipMeta' = FALSE
    /\ Go(h, IF Kind(h) \in MetaKinds THEN "handle" ELSE "append")
    /\ UNCHANGED <<fixtureVars, requests, metaLeft, clearing, clears, arrived, history>>

\* Mutant: the request may be appended once more.
BugLogsAgain(h) ==
    /\ At(h, "append") /\ clearing = {}
    /\ requests' = Append(requests, Kind(h))
    /\ \E pc \in {"append", "handle"} : Go(h, pc)
    /\ UNCHANGED <<fixtureVars, flagVars, clearing, clears, arrived, history>>

AppendRequest(h) ==
    /\ At(h, "append") /\ clearing = {}
    /\ requests' = Append(requests, Kind(h))
    /\ Go(h, "handle")
    /\ UNCHANGED <<fixtureVars, flagVars, clearing, clears, arrived, history>>

-----------------------------------------------------------------------------
(***************************************************************************)
(* The handlers behind the middleware: ensurePerpFixtures and              *)
(* ensureSpotFixtures, then the answer.                                    *)
(***************************************************************************)
Fixture(h) == MarketOf(Kind(h))

Load(h) ==
    /\ \/ At(h, "handle") /\ NeedsFixture(Kind(h)) /\ Runs(Fixture(h)) /\ Go(h, "decode")
       \/ At(h, "decode") /\ DecodesMeta(Fixture(h)) /\ Go(h, "decode2")
       \/ At(h, "decode2") /\ DecodesCtxs(Fixture(h)) /\ Go(h, "handle")
    /\ UNCHANGED <<logVars, arrived, history>>

Handle(h) ==
    /\ At(h, "handle")
    /\ IF NeedsFixture(Kind(h))
       THEN ReturnsFromDo(Fixture(h)) /\ answers' = answers \cup {Source(Kind(h))}
       ELSE UNCHANGED answers
    /\ serving' = [serving EXCEPT ![h] = Idle]
    /\ UNCHANGED <<fixtureVars, logVars, arrived, skipped, disturbed, asked>>

HandlerStep(h) ==
    \/ Decide(h) \/ LoadLeft(h) \/ StoreLeft(h) \/ CheckLeft(h) \/ Unskip(h)
    \/ AppendRequest(h) \/ Load(h) \/ Handle(h)

-----------------------------------------------------------------------------
(***************************************************************************)
(* Clear, GetRequests and Count, called by the test driver.                *)
(***************************************************************************)
Clear ==
    /\ clearing = {} /\ clears < MaxClears
    /\ requests' = << >>
    /\ clearing' = {"skipMeta", "metaLeft"}
    /\ clears' = clears + 1
    /\ skipped' = 0 /\ asked' = FALSE
    /\ disturbed' = (InFlight(Kinds) # {})
    /\ UNCHANGED <<fixtureVars, flagVars, serving, arrived, answers>>

\* The lock is released with the last write.
WriteFlag ==
    /\ \E flag \in clearing :
          /\ clearing' = clearing \ {flag}
          /\ IF flag = "skipMeta" THEN skipMeta' = TRUE /\ UNCHANGED metaLeft
                                  ELSE metaLeft' = 2 /\ UNCHANGED skipMeta
    /\ UNCHANGED <<fixtureVars, requests, serving, clears, arrived, history>>

\* Both hold rc.mu to read: they wait for a Clear and see the log cut at once.
\* The driver may look as often as it likes, and change nothing.
GetRequests == requests
Count == Len(requests)
Look == clearing = {} /\ UNCHANGED vars

Next ==
    \/ \E h \in Handlers : Arrive(h) \/ HandlerStep(h)
    \/ Clear \/ WriteFlag \/ Look

\* A goroutine that can run does, and the driver finishes a Clear it began.
Fairness == WF_vars(WriteFlag) /\ \A h \in Handlers : WF_vars(HandlerStep(h))

Spec == Init /\ [][Next]_vars /\ Fairness

-----------------------------------------------------------------------------
TypeOK ==
    /\ FixturesTypeOK
    /\ requests \in Seq(Kinds) /\ Count <= arrived
    /\ skipMeta \in BOOLEAN /\ metaLeft \in Int
    /\ serving \in [Handlers -> [pc : Places, kind : Kinds \cup {Idle.kind}, left : Int]]
    /\ clearing \subseteq {"skipMeta", "metaLeft"}
    /\ arrived \in 0..MaxRequests /\ clears \in 0..MaxClears
    /\ skipped \in Nat /\ disturbed \in BOOLEAN /\ asked \in BOOLEAN
    /\ answers \subseteq {"recorded", "fallback"}

\* However the unguarded flags are raced over, the log is one a test can rely
\* on: each request in it once, before its answer, only metadata requests
\* missing, and emptied at once (RequestCapture "collects all requests").
Undecided == {"decide", "decrement", "store", "check", "unskip", "append"}
Phase == [h \in Handlers |->
            [kind |-> Kind(h),
             at |-> CASE At(h, "idle") -> "idle"
                      [] serving[h].pc \in Undecided -> "open"
                      [] OTHER -> "settled"]]
Log == INSTANCE CaptureLog WITH
          Slots <- Handlers, Optional <- MetaKinds, Never <- Uncaptured,
          log <- GetRequests, phase <- Phase
LogRefined == Log!LogSpec

\* After a Clear that nothing overlaps, metadata requests that come one at a
\* time are left out twice, whatever else runs beside them, and from then on,
\* or once another /info request has come, they are logged (Clear, Wrap).
SkipsTwo ==
    (~disturbed /\ clears > 0) =>
        /\ skipped <= 2
        /\ (\E i \in 1..Count : requests[i] \in MetaKinds) => skipped = 2 \/ asked

\* No request is answered from the fallback metadata while the recorded files
\* are being decoded by another (perpFixturesOnce, spotFixturesOnce).
FixturesComplete == answers \subseteq {"recorded"}

\* Every request is answered: the log's mutex and the Once let it pass.
Served == \A h \in Handlers : ~At(h, "idle") ~> At(h, "idle")
=============================================================================
