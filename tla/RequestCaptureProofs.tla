------------------------- MODULE RequestCaptureProofs -------------------------
(***************************************************************************)
(* Theorems about the request log of the test server and the market        *)
(* metadata behind it.                                                     *)
(***************************************************************************)
EXTENDS RequestCapture, TLAPS, FiniteSetTheorems

Slot == [pc : Places, kind : Kinds \cup {Idle.kind}, left : Int]

\* TypeOK but for the length of the log.
Typed ==
    /\ FixturesTypeOK
    /\ requests \in Seq(Kinds)
    /\ skipMeta \in BOOLEAN /\ metaLeft \in Int
    /\ serving \in [Handlers -> Slot]
    /\ clearing \subseteq {"skipMeta", "metaLeft"}
    /\ arrived \in 0..MaxRequests /\ clears \in 0..MaxClears
    /\ skipped \in Nat /\ disturbed \in BOOLEAN /\ asked \in BOOLEAN
    /\ answers \subseteq {"recorded", "fallback"}

\* What kind of request gets where: only metadata requests are counted, and what
\* is never captured goes straight to its handler.
RouteInv ==
    \A h \in Handlers :
        /\ ~At(h, "idle") => Kind(h) \in Kinds
        /\ serving[h].pc \in {"decrement", "store", "check"} => Kind(h) \in MetaKinds
        /\ serving[h].pc \in {"unskip", "append"} => Kind(h) \notin Uncaptured
        /\ At(h, "unskip") => Kind(h) \in MetaKinds \cup InfoKinds

\* Every request in the log, and every request that may still get there, arrived.
Open == {h \in Handlers : serving[h].pc \in Undecided}
CountInv == IsFiniteSet(Open) /\ Len(requests) + Cardinality(Open) <= arrived

\* The recorded files of a market are decoded by one request, and are all there
\* when its sync.Once is done.
Decodes(h, m) == serving[h].pc \in {"decode", "decode2"} /\ Fixture(h) = m
OnceInv ==
    \A m \in Markets :
        /\ once[m] = "done" => found[m] = Files
        /\ \A h \in Handlers : Decodes(h, m) => once[m] = "running"
        /\ \A g, h \in Handlers : Decodes(g, m) /\ Decodes(h, m) => g = h

\* The two metadata requests left out after a Clear that nothing overlaps.  While
\* Clear writes its flags nothing else happens; then metaLeft counts down what is
\* left to skip, a little behind the one metadata request that is in flight.
IsMeta(h) == ~At(h, "idle") /\ Kind(h) \in MetaKinds
OneMeta == \A g, h \in Handlers : IsMeta(g) /\ IsMeta(h) => g = h
MetaLogged == \E i \in 1..Count : requests[i] \in MetaKinds
ClearingInv ==
    clearing # {} =>
        /\ \A h \in Handlers : At(h, "idle")
        /\ requests = << >> /\ skipped = 0
        /\ "skipMeta" \notin clearing => skipMeta
        /\ "metaLeft" \notin clearing => metaLeft = 2
LeftInv ==
    clearing = {} =>
        /\ skipped <= 2
        /\ (\A h \in Handlers : ~At(h, "store")) => metaLeft = 2 - skipped
        /\ \A h \in Handlers :
              /\ At(h, "store") => metaLeft = 3 - skipped
              /\ At(h, "store") \/ At(h, "check") => serving[h].left = 2 - skipped
              /\ At(h, "decrement") => skipped <= 1
              /\ At(h, "unskip") /\ IsMeta(h) => skipped = 2
        /\ skipMeta => \/ skipped <= 1
                       \/ \E h \in Handlers :
                             IsMeta(h) /\ serving[h].pc \in {"store", "check", "unskip"}
        /\ ~skipMeta => skipped = 2 \/ asked
AskedInv ==
    /\ \A h \in Handlers : ~At(h, "idle") /\ Kind(h) \in InfoKinds => asked
    /\ \A h \in Handlers : IsMeta(h) /\ At(h, "append") => skipped = 2 \/ asked
    /\ MetaLogged => skipped = 2 \/ asked
SkipInv == ~disturbed /\ clears > 0 => OneMeta /\ ClearingInv /\ LeftInv /\ AskedInv

-----------------------------------------------------------------------------
(***************************************************************************)
(* Types.                                                                  *)
(***************************************************************************)
\* A request gets to a place, with what it has loaded of metaLeft; the others
\* stay where they are.
Moved(h, p, l) ==
    /\ serving' \in [Handlers -> Slot]
    /\ serving'[h] = [pc |-> p, kind |-> Kind(h), left |-> l]
    /\ \A g \in Handlers \ {h} : serving'[g] = serving[g]

LEMMA GoMoves ==
    ASSUME Typed, NEW h \in Handlers, NEW p \in Places, Go(h, p)
    PROVE  Moved(h, p, serving[h].left)
  <1>1. serving \in [Handlers -> Slot] /\ serving[h] \in Slot
    BY DEF Typed
  <1>2. [serving[h] EXCEPT !.pc = p] = [pc |-> p, kind |-> Kind(h), left |-> serving[h].left]
    BY <1>1 DEF Slot, Kind
  <1>3. serving' = [serving EXCEPT ![h] = [serving[h] EXCEPT !.pc = p]]
    BY <1>1 DEF Go
  <1>4. serving' \in [Handlers -> Slot]
    BY <1>1, <1>3 DEF Slot
  <1> QED
    BY <1>1, <1>2, <1>3, <1>4 DEF Moved

LEMMA LoadMoves ==
    ASSUME Typed, NEW h \in Handlers, NEW p \in Places, NEW l \in Int,
           serving' = [serving EXCEPT ![h].pc = p, ![h].left = l]
    PROVE  Moved(h, p, l)
  <1>1. serving \in [Handlers -> Slot] /\ serving[h] \in Slot
    BY DEF Typed
  <1>2. serving'[h] = [pc |-> p, kind |-> Kind(h), left |-> l]
    BY <1>1 DEF Slot, Kind
  <1>3. \A g \in Handlers \ {h} : serving'[g] = serving[g]
    BY <1>1
  <1>4. serving' \in [Handlers -> Slot]
    BY <1>1 DEF Slot
  <1> QED
    BY <1>2, <1>3, <1>4 DEF Moved

LEMMA DecideMoves ==
    ASSUME Typed, NEW h \in Handlers, Decide(h)
    PROVE  \E p \in {"handle", "decrement", "unskip", "append"} :
              /\ Moved(h, p, serving[h].left)
              /\ p = "handle" => Kind(h) \in Uncaptured
              /\ p = "decrement" => skipMeta /\ Kind(h) \in MetaKinds
              /\ p = "unskip" => Kind(h) \in InfoKinds
              /\ p = "append" => Kind(h) \notin Uncaptured /\ (Kind(h) \in MetaKinds => ~skipMeta)
  <1> DEFINE un == Kind(h) \in Uncaptured
             me == skipMeta /\ Kind(h) \in MetaKinds
             in == skipMeta /\ Kind(h) \in InfoKinds
             where == CASE un -> "handle" [] me -> "decrement" [] in -> "unskip"
                        [] OTHER -> "append"
  <1>1. Go(h, where)
    BY DEF Decide
  <1>2. Kind(h) \in MetaKinds \cup InfoKinds => ~un
    BY DEF Uncaptured, MetaKinds, InfoKinds
  <1>3. \/ where = "handle" /\ un
        \/ where = "decrement" /\ me
        \/ where = "unskip" /\ in
        \/ where = "append" /\ ~un /\ ~me
    <2> HIDE DEF un, me, in
    <2> QED
      BY <1>2
  <1>4. where \in Places
    BY <1>3 DEF Places
  <1> HIDE DEF where
  <1>5. Moved(h, where, serving[h].left)
    BY <1>1, <1>4, GoMoves
  <1> QED
    BY <1>3, <1>5

LEMMA LoadLeftMoves ==
    ASSUME Typed, NEW h \in Handlers, LoadLeft(h)
    PROVE  Moved(h, "store", metaLeft - 1)
  <1>1. metaLeft - 1 \in Int /\ "store" \in Places
    BY DEF Typed, Places
  <1>2. serving' = [serving EXCEPT ![h].pc = "store", ![h].left = metaLeft - 1]
    BY DEF LoadLeft
  <1> QED
    BY <1>1, <1>2, LoadMoves

LEMMA CheckLeftMoves ==
    ASSUME Typed, NEW h \in Handlers, CheckLeft(h)
    PROVE  \E left \in {serving[h].left, metaLeft} :
              Moved(h, IF left <= 0 THEN "unskip" ELSE "handle", 0)
  <1>1. PICK left \in {serving[h].left, metaLeft} :
          serving' = [serving EXCEPT ![h].pc = IF left <= 0 THEN "unskip" ELSE "handle",
                                     ![h].left = 0]
    BY DEF CheckLeft
  <1> DEFINE p == IF left <= 0 THEN "unskip" ELSE "handle"
  <1>2. serving' = [serving EXCEPT ![h].pc = p, ![h].left = 0]
    BY <1>1
  <1>3. p \in Places
    BY DEF Places
  <1> HIDE DEF p
  <1>4. \A l \in Int : serving' = [serving EXCEPT ![h].pc = p, ![h].left = l] => Moved(h, p, l)
    BY <1>3, LoadMoves
  <1>5. 0 \in Int
    OBVIOUS
  <1>6. Moved(h, p, 0)
    BY <1>2, <1>4, <1>5, Zenon
  <1> QED
    BY <1>6 DEF p

LEMMA SetMoves ==
    ASSUME Typed, NEW h \in Handlers, NEW to \in Slot, serving' = [serving EXCEPT ![h] = to]
    PROVE  /\ serving' \in [Handlers -> Slot] /\ serving'[h] = to
           /\ \A g \in Handlers \ {h} : serving'[g] = serving[g]
  BY DEF Typed

\* Where a request may get to from where it is; what else its steps change is
\* added where it matters.
LEMMA Routes ==
    ASSUME Typed, RouteInv, NEW h \in Handlers, HandlerStep(h), ~Handle(h)
    PROVE  \E p \in Places \ {"idle", "decide"}, l \in Int :
              /\ Moved(h, p, l)
              /\ ~At(h, "idle")
              /\ p \in {"decrement", "store", "check"} => Kind(h) \in MetaKinds
              /\ p = "unskip" => Kind(h) \in MetaKinds \cup InfoKinds
              /\ p = "append" => Kind(h) \notin Uncaptured
  <1> DEFINE Goal == \E p \in Places \ {"idle", "decide"}, l \in Int :
              /\ Moved(h, p, l)
              /\ ~At(h, "idle")
              /\ p \in {"decrement", "store", "check"} => Kind(h) \in MetaKinds
              /\ p = "unskip" => Kind(h) \in MetaKinds \cup InfoKinds
              /\ p = "append" => Kind(h) \notin Uncaptured
  <1>0. serving[h].left \in Int /\ metaLeft \in Int /\ metaLeft - 1 \in Int /\ 0 \in Int
    BY DEF Typed, Slot
  <1>1. CASE Decide(h)
    <2>1. PICK p \in {"handle", "decrement", "unskip", "append"} :
              /\ Moved(h, p, serving[h].left)
              /\ p = "decrement" => skipMeta /\ Kind(h) \in MetaKinds
              /\ p = "unskip" => Kind(h) \in InfoKinds
              /\ p = "append" => Kind(h) \notin Uncaptured
      BY <1>1, DecideMoves
    <2>2. p \in Places \ {"idle", "decide"} /\ ~At(h, "idle")
      BY <1>1 DEF Places, Decide, At
    <2> QED
      BY <1>0, <2>1, <2>2
  <1>2. CASE LoadLeft(h)
    <2>1. Moved(h, "store", metaLeft - 1) /\ ~At(h, "idle") /\ Kind(h) \in MetaKinds
      BY <1>2, LoadLeftMoves DEF LoadLeft, At, RouteInv
    <2> QED
      BY <1>0, <2>1 DEF Places
  <1>3. CASE StoreLeft(h)
    <2>1. Moved(h, "check", serving[h].left) /\ ~At(h, "idle") /\ Kind(h) \in MetaKinds
      BY <1>3, GoMoves DEF StoreLeft, At, RouteInv, Places
    <2> QED
      BY <1>0, <2>1 DEF Places
  <1>4. CASE CheckLeft(h)
    <2>1. PICK p \in {"unskip", "handle"} : Moved(h, p, 0)
      BY <1>4, CheckLeftMoves
    <2>2. ~At(h, "idle") /\ Kind(h) \in MetaKinds
      BY <1>4 DEF CheckLeft, At, RouteInv
    <2> QED
      BY <1>0, <2>1, <2>2 DEF Places
  <1>5. CASE Unskip(h)
    <2>1. PICK p \in {"append", "handle"} : Moved(h, p, serving[h].left)
      BY <1>5, GoMoves DEF Unskip, Places
    <2>2. ~At(h, "idle") /\ Kind(h) \notin Uncaptured
      BY <1>5 DEF Unskip, At, RouteInv
    <2> QED
      BY <1>0, <2>1, <2>2 DEF Places
  <1>6. CASE AppendRequest(h)
    <2>1. Moved(h, "handle", serving[h].left) /\ ~At(h, "idle")
      BY <1>6, GoMoves DEF AppendRequest, At, Places
    <2> QED
      BY <1>0, <2>1 DEF Places
  <1>7. CASE Load(h)
    <2>1. PICK p \in {"decode", "decode2", "handle"} : Moved(h, p, serving[h].left)
      BY <1>7, GoMoves DEF Load, Places
    <2>2. ~At(h, "idle")
      BY <1>7 DEF Load, At
    <2> QED
      BY <1>0, <2>1, <2>2 DEF Places
  <1> QED
    BY <1>1, <1>2, <1>3, <1>4, <1>5, <1>6, <1>7 DEF HandlerStep

LEMMA Arrives ==
    ASSUME Typed, NEW h \in Handlers, Arrive(h)
    PROVE  /\ serving' \in [Handlers -> Slot]
           /\ \A g \in Handlers \ {h} : serving'[g] = serving[g]
           /\ serving'[h].pc = "decide" /\ serving'[h].left = 0 /\ Kind(h)' \in Kinds
           /\ asked' = (asked \/ Kind(h)' \in InfoKinds)
           /\ disturbed' = (disturbed \/ clearing # {}
                            \/ (Kind(h)' \in MetaKinds /\ InFlight(MetaKinds) # {}))
  <1>1. PICK k \in Kinds :
          /\ serving' = [serving EXCEPT ![h] = [pc |-> "decide", kind |-> k, left |-> 0]]
          /\ disturbed' = (disturbed \/ clearing # {}
                            \/ (k \in MetaKinds /\ InFlight(MetaKinds) # {}))
          /\ asked' = (asked \/ k \in InfoKinds)
    BY DEF Arrive
  <1> DEFINE to == [pc |-> "decide", kind |-> k, left |-> 0]
  <1>2. to \in Slot
    BY DEF Slot, Places
  <1>3. /\ serving' \in [Handlers -> Slot] /\ serving'[h] = to
        /\ \A g \in Handlers \ {h} : serving'[g] = serving[g]
    BY <1>1, <1>2, SetMoves
  <1> QED
    BY <1>1, <1>3 DEF Kind

LEMMA Leaves ==
    ASSUME Typed, NEW h \in Handlers, Handle(h)
    PROVE  /\ serving' \in [Handlers -> Slot] /\ serving'[h] = Idle
           /\ \A g \in Handlers \ {h} : serving'[g] = serving[g]
  <1>1. Idle \in Slot
    BY DEF Idle, Slot, Places
  <1> QED
    BY <1>1, SetMoves DEF Handle

LEMMA InitCapture == Init => Typed /\ RouteInv /\ CountInv /\ OnceInv
  <1> SUFFICES ASSUME Init PROVE Typed /\ RouteInv /\ CountInv /\ OnceInv
    OBVIOUS
  <1>1. Idle \in Slot
    BY DEF Idle, Slot, Places
  <1>2. \A h \in Handlers : serving[h].pc = "idle"
    BY DEF Init, Idle
  <1>a. skipMeta \in BOOLEAN /\ disturbed \in BOOLEAN /\ asked \in BOOLEAN
    BY DEF Init
  <1>b. /\ serving \in [Handlers -> Slot] /\ requests \in Seq(Kinds) /\ FixturesTypeOK
    BY <1>1 DEF Init, FixturesInit, FixturesTypeOK
  <1>3. Typed
    BY <1>a, <1>b, CaptureAssumption DEF Init, Typed
  <1>4. RouteInv /\ OnceInv
    BY <1>2 DEF RouteInv, OnceInv, Decodes, At, Init, FixturesInit, Markets
  <1>5. Open = {}
    BY <1>2 DEF Open, Undecided
  <1>6. CountInv
    BY <1>5, FS_EmptySet DEF CountInv, Init
  <1> QED
    BY <1>3, <1>4, <1>6

LEMMA StepTyped == Typed /\ RouteInv /\ [Next]_vars => Typed'
  <1> SUFFICES ASSUME Typed, RouteInv, [Next]_vars PROVE Typed'
    OBVIOUS
  <1> USE CaptureAssumption DEF logVars, flagVars, fixtureVars, history, Local
  <1>1. ASSUME NEW h \in Handlers, HandlerStep(h), ~Handle(h) PROVE serving' \in [Handlers -> Slot]
    BY <1>1, Routes DEF Moved
  <1>2. ASSUME NEW h \in Handlers, Arrive(h) PROVE Typed'
    <2>1. PICK k \in Kinds :
            /\ disturbed' = (disturbed \/ clearing # {}
                              \/ (k \in MetaKinds /\ InFlight(MetaKinds) # {}))
            /\ asked' = (asked \/ k \in InfoKinds)
      BY <1>2 DEF Arrive
    <2>2. disturbed' \in BOOLEAN /\ asked' \in BOOLEAN
      BY <2>1, Zenon
    <2>3. arrived' \in 0..MaxRequests
      BY <1>2 DEF Arrive, Typed
    <2>4. serving' \in [Handlers -> Slot]
      BY <1>2, Arrives
    <2> QED
      BY <1>2, <2>2, <2>3, <2>4 DEF Arrive, Typed, FixturesTypeOK
  <1>3. ASSUME NEW h \in Handlers, Decide(h) \/ CheckLeft(h) PROVE Typed'
    <2>1. serving' \in [Handlers -> Slot]
      BY <1>1, <1>3 DEF HandlerStep, Decide, CheckLeft, Handle, At
    <2>2. UNCHANGED <<fixtureVars, logVars, arrived, history>>
      BY <1>3 DEF Decide, CheckLeft
    <2> QED
      BY <2>1, <2>2 DEF Typed, FixturesTypeOK
  <1>4. ASSUME NEW h \in Handlers, LoadLeft(h) PROVE Typed'
    <2>1. serving' \in [Handlers -> Slot]
      BY <1>4, LoadLeftMoves DEF Moved
    <2>2. skipped' \in Nat
      BY <1>4 DEF LoadLeft, Typed
    <2> QED
      BY <1>4, <2>1, <2>2 DEF LoadLeft, Typed, FixturesTypeOK
  <1>5. ASSUME NEW h \in Handlers, StoreLeft(h) PROVE Typed'
    <2>1. serving[h].left \in Int
      BY DEF Typed, Slot
    <2> QED
      BY <1>1, <1>5, <2>1 DEF HandlerStep, StoreLeft, Handle, At, Typed, FixturesTypeOK
  <1>6. ASSUME NEW h \in Handlers, Unskip(h) PROVE Typed'
    BY <1>1, <1>6 DEF HandlerStep, Unskip, Handle, At, Typed, FixturesTypeOK
  <1>7. ASSUME NEW h \in Handlers, AppendRequest(h) PROVE Typed'
    <2>1. Kind(h) \in Kinds
      BY <1>7 DEF AppendRequest, At, RouteInv
    <2> QED
      BY <1>1, <1>7, <2>1 DEF HandlerStep, AppendRequest, Handle, At, Typed, FixturesTypeOK
  <1>8. ASSUME NEW h \in Handlers, Load(h) PROVE Typed'
    <2>1. Fixture(h) \in Markets
      BY DEF Fixture, MarketOf, Markets
    <2>2. FixturesTypeOK'
      BY <1>8, <2>1 DEF Load, Runs, DecodesMeta, DecodesCtxs, Typed, FixturesTypeOK, Files
    <2>3. ~Handle(h) \/ serving' \in [Handlers -> Slot]
      BY Leaves
    <2> QED
      BY <1>1, <1>8, <2>2, <2>3 DEF HandlerStep, Load, Typed
  <1>9. ASSUME NEW h \in Handlers, Handle(h) PROVE Typed'
    <2>1. Source(Kind(h)) \in {"recorded", "fallback"}
      BY DEF Source
    <2> QED
      BY <1>9, <2>1, Leaves DEF Handle, Typed, FixturesTypeOK
  <1>10. CASE Clear
    <2>1. disturbed' \in BOOLEAN /\ asked' \in BOOLEAN
      BY <1>10 DEF Clear
    <2>2. requests' \in Seq(Kinds) /\ clears' \in 0..MaxClears /\ clearing' = {"skipMeta", "metaLeft"}
      BY <1>10 DEF Clear, Typed
    <2> QED
      BY <1>10, <2>1, <2>2 DEF Clear, Typed, FixturesTypeOK
  <1>11. CASE WriteFlag
    <2>1. skipMeta' \in BOOLEAN
      BY <1>11 DEF WriteFlag, Typed
    <2>2. metaLeft' \in Int /\ clearing' \subseteq clearing
      BY <1>11 DEF WriteFlag, Typed
    <2> QED
      BY <1>11, <2>1, <2>2 DEF WriteFlag, Typed, FixturesTypeOK
  <1>12. CASE UNCHANGED vars
    BY <1>12 DEF vars, Typed, FixturesTypeOK
  <1> QED
    BY <1>2, <1>3, <1>4, <1>5, <1>6, <1>7, <1>8, <1>9, <1>10, <1>11, <1>12
    DEF Next, HandlerStep, Look

LEMMA StepRoute == Typed /\ RouteInv /\ [Next]_vars => RouteInv'
  <1> SUFFICES ASSUME Typed, RouteInv, [Next]_vars PROVE RouteInv'
    OBVIOUS
  <1>1. ASSUME NEW h \in Handlers, HandlerStep(h), ~Handle(h) PROVE RouteInv'
    <2>1. PICK p \in Places \ {"idle", "decide"}, l \in Int :
              /\ Moved(h, p, l)
              /\ ~At(h, "idle")
              /\ p \in {"decrement", "store", "check"} => Kind(h) \in MetaKinds
              /\ p = "unskip" => Kind(h) \in MetaKinds \cup InfoKinds
              /\ p = "append" => Kind(h) \notin Uncaptured
      BY <1>1, Routes
    <2>2. serving'[h].pc = p /\ serving'[h].kind = Kind(h) /\ Kind(h) \in Kinds
      BY <2>1 DEF Moved, RouteInv
    <2>3. Kind(h) \in MetaKinds \cup InfoKinds => Kind(h) \notin Uncaptured
      BY DEF MetaKinds, InfoKinds, Uncaptured
    <2> QED
      BY <2>1, <2>2, <2>3 DEF Moved, RouteInv, At, Kind
  <1>2. ASSUME NEW h \in Handlers, Arrive(h) PROVE RouteInv'
    BY <1>2, Arrives DEF RouteInv, At, Kind
  <1>3. ASSUME NEW h \in Handlers, Handle(h) PROVE RouteInv'
    BY <1>3, Leaves DEF RouteInv, At, Kind, Idle
  <1>4. CASE UNCHANGED serving
    BY <1>4 DEF RouteInv, At, Kind
  <1> QED
    BY <1>1, <1>2, <1>3, <1>4 DEF Next, Clear, WriteFlag, Look, vars

LEMMA StepCount == Typed /\ RouteInv /\ CountInv /\ [Next]_vars => CountInv'
  <1> SUFFICES ASSUME Typed, RouteInv, CountInv, [Next]_vars PROVE CountInv'
    OBVIOUS
  <1>0. /\ IsFiniteSet(Open) /\ Cardinality(Open) \in Nat /\ Len(requests) \in Nat
        /\ arrived \in Nat /\ Len(requests) + Cardinality(Open) <= arrived
        /\ requests \in Seq(Kinds)
    BY FS_CardinalityType, CaptureAssumption DEF CountInv, Typed
  <1> USE DEF logVars, Local
  \* The open requests are those there were, and one more or one less.
  <1>a. ASSUME NEW h \in Handlers, \A g \in Handlers \ {h} : serving'[g] = serving[g],
               serving'[h].pc \in Undecided
        PROVE  Open' = Open \cup {h}
    BY <1>a DEF Open
  <1>b. ASSUME NEW h \in Handlers, \A g \in Handlers \ {h} : serving'[g] = serving[g],
               serving'[h].pc \notin Undecided
        PROVE  Open' = Open \ {h}
    BY <1>b DEF Open
  <1>c. ASSUME NEW h, Open' = Open \ {h}, Len(requests') <= Len(requests), arrived' = arrived,
               Len(requests') \in Nat
        PROVE  CountInv'
    <2>1. IsFiniteSet(Open') /\ Cardinality(Open') <= Cardinality(Open) /\ Cardinality(Open') \in Nat
      BY <1>0, <1>c, FS_Subset, FS_CardinalityType
    <2> QED
      BY <1>0, <1>c, <2>1 DEF CountInv
  <1>d. ASSUME NEW h \in Open, Open' = Open \cup {h}, Len(requests') <= Len(requests), arrived' = arrived,
               Len(requests') \in Nat
        PROVE  CountInv'
    <2>1. Open' = Open
      BY <1>d
    <2>2. IsFiniteSet(Open') /\ Cardinality(Open') = Cardinality(Open)
      BY <1>0, <2>1, Zenon
    <2> QED
      BY <1>0, <1>d, <2>2 DEF CountInv
  <1>1. ASSUME NEW h \in Handlers, Arrive(h) PROVE CountInv'
    <2>1. Open' = Open \cup {h} /\ h \notin Open
      BY <1>a, <1>1, Arrives DEF Arrive, At, Open, Undecided
    <2>2. IsFiniteSet(Open') /\ Cardinality(Open') = Cardinality(Open) + 1
      BY <1>0, <2>1, FS_AddElement
    <2>3. Len(requests') = Len(requests) /\ arrived' = arrived + 1
      BY <1>1 DEF Arrive
    <2>4. Len(requests') + Cardinality(Open') <= arrived'
      BY <1>0, <2>2, <2>3
    <2> QED
      BY <2>2, <2>4 DEF CountInv
  <1>2. ASSUME NEW h \in Handlers, AppendRequest(h) PROVE CountInv'
    <2>1. h \in Open /\ Moved(h, "handle", serving[h].left)
      BY <1>2, GoMoves DEF AppendRequest, At, Open, Undecided, Places
    <2>2. Open' = Open \ {h}
      BY <1>b, <2>1 DEF Moved, Undecided
    <2>3. IsFiniteSet(Open') /\ Cardinality(Open') = Cardinality(Open) - 1
      BY <1>0, <2>1, <2>2, FS_RemoveElement
    <2>4. Len(requests') = Len(requests) + 1 /\ arrived' = arrived
      BY <1>0, <1>2 DEF AppendRequest
    <2> QED
      BY <1>0, <2>3, <2>4 DEF CountInv
  <1>3. ASSUME NEW h \in Handlers, HandlerStep(h), ~AppendRequest(h) PROVE CountInv'
    <2>a. requests' = requests /\ arrived' = arrived
      BY <1>3
      DEF HandlerStep, Decide, LoadLeft, StoreLeft, CheckLeft, Unskip, Load, Handle
    <2>b. Len(requests') = Len(requests)
      BY <2>a
    <2>1. Len(requests') <= Len(requests) /\ Len(requests') \in Nat /\ arrived' = arrived
      BY <1>0, <2>a, <2>b
    <2>2. CASE Handle(h)
      <3>1. Open' = Open \ {h}
        BY <1>b, <2>2, Leaves DEF Idle, Undecided
      <3> QED
        BY <1>c, <2>1, <3>1
    <2>3. CASE ~Handle(h)
      <3>1. PICK p \in Places \ {"idle", "decide"}, l \in Int : Moved(h, p, l)
        BY <1>3, <2>3, Routes
      <3>2. CASE p \notin Undecided
        <4>1. Open' = Open \ {h}
          BY <1>b, <3>1, <3>2 DEF Moved
        <4> QED
          BY <1>c, <2>1, <4>1
      <3>3. CASE p \in Undecided
        <4>1. Open' = Open \cup {h}
          BY <1>a, <3>1, <3>3 DEF Moved
        <4>2. ~Load(h)
          <5>1. ASSUME Load(h) PROVE FALSE
            <6>1. PICK q \in {"decode", "decode2", "handle"} : Moved(h, q, serving[h].left)
              BY <5>1, GoMoves DEF Load, Places
            <6> QED
              BY <3>1, <3>3, <6>1 DEF Moved, Undecided
          <5> QED
            BY <5>1
        <4>3. h \in Open
          BY <1>3, <2>3, <4>2
          DEF HandlerStep, Decide, LoadLeft, StoreLeft, CheckLeft, Unskip, At, Open, Undecided
        <4> QED
          BY <1>d, <2>1, <4>1, <4>3
      <3> QED
        BY <3>2, <3>3
    <2> QED
      BY <2>2, <2>3
  <1>4. CASE Clear
    <2>1. Open' = Open /\ Len(requests') = 0 /\ arrived' = arrived
      BY <1>4 DEF Clear, Open
    <2> QED
      BY <1>0, <2>1 DEF CountInv
  <1>5. CASE WriteFlag \/ UNCHANGED vars
    <2>1. Open' = Open /\ requests' = requests /\ arrived' = arrived
      BY <1>5 DEF WriteFlag, vars, Open
    <2> QED
      BY <1>0, <2>1 DEF CountInv
  <1> QED
    BY <1>1, <1>2, <1>3, <1>4, <1>5 DEF Next, Look

\* The log holds requests of the kinds that are sent, and never more of them than
\* have arrived, with any number of requests and of calls of Clear (Wrap).  With
\* it, the types.
THEOREM CaptureTypeCorrect == Spec => []TypeOK
  <1>1. Typed /\ CountInv => TypeOK
    <2> SUFFICES ASSUME Typed, CountInv PROVE TypeOK
      OBVIOUS
    <2>1. Count <= arrived
      BY FS_CardinalityType, CaptureAssumption DEF Typed, CountInv, Count
    <2> QED
      BY <2>1 DEF Typed, TypeOK, Slot
  <1> QED
    BY <1>1, InitCapture, StepTyped, StepRoute, StepCount, PTL DEF Spec

-----------------------------------------------------------------------------
(***************************************************************************)
(* The market metadata.                                                    *)
(***************************************************************************)
LEMMA StepOnce == Typed /\ RouteInv /\ OnceInv /\ [Next]_vars => OnceInv'
  <1> SUFFICES ASSUME Typed, RouteInv, OnceInv, [Next]_vars PROVE OnceInv'
    OBVIOUS
  <1>0. /\ once \in [Markets -> {"new", "running", "done"}]
        /\ found \in [Markets -> SUBSET Files]
        /\ \A h \in Handlers : Fixture(h) \in Markets
    BY DEF Typed, FixturesTypeOK, Fixture, MarketOf, Markets
  <1> USE DEF fixtureVars, logVars, flagVars
  \* A step that decodes nothing.
  <1>a. ASSUME NEW h \in Handlers, \A g \in Handlers \ {h} : serving'[g] = serving[g],
               serving'[h].pc \notin {"decode", "decode2"}, UNCHANGED fixtureVars
        PROVE  OnceInv'
    BY <1>a DEF OnceInv, Decodes, Fixture, Kind
  <1>b. ASSUME UNCHANGED <<serving, fixtureVars>> PROVE OnceInv'
    BY <1>b DEF OnceInv, Decodes, Fixture, Kind
  <1>1. ASSUME NEW h \in Handlers, Load(h) PROVE OnceInv'
    <2> DEFINE m == Fixture(h)
    <2>0. m \in Markets
      BY <1>0
    <2>1. CASE At(h, "handle") /\ Runs(m) /\ Go(h, "decode")
      <3>1. Moved(h, "decode", serving[h].left) /\ once[m] = "new"
            /\ once' = [once EXCEPT ![m] = "running"] /\ found' = found
        BY <2>1, GoMoves DEF Runs, Places
      <3>2. \A g \in Handlers : ~Decodes(g, m)
        BY <2>0, <3>1 DEF OnceInv
      <3>3. \A g \in Handlers, n \in Markets :
              Decodes(g, n)' <=> IF g = h THEN n = m ELSE Decodes(g, n)
        BY <3>1 DEF Moved, Decodes, Fixture, Kind
      <3> HIDE DEF m
      <3> QED
        BY <1>0, <2>0, <3>1, <3>2, <3>3 DEF OnceInv
    <2>2. CASE At(h, "decode") /\ DecodesMeta(m) /\ Go(h, "decode2")
      <3>1. Moved(h, "decode2", serving[h].left) /\ once' = once
            /\ found' = [found EXCEPT ![m] = @ \cup {"meta"}]
        BY <2>2, GoMoves DEF DecodesMeta, Places
      <3>2. \A g \in Handlers, n \in Markets : Decodes(g, n)' <=> Decodes(g, n)
        BY <2>2, <3>1 DEF Moved, Decodes, Fixture, Kind, At
      <3>3. once[m] = "running"
        BY <2>0, <2>2 DEF OnceInv, Decodes, At
      <3> HIDE DEF m
      <3> QED
        BY <1>0, <2>0, <3>1, <3>2, <3>3 DEF OnceInv
    <2>3. CASE At(h, "decode2") /\ DecodesCtxs(m) /\ Go(h, "handle")
      <3>1. Moved(h, "handle", serving[h].left) /\ once' = [once EXCEPT ![m] = "done"]
            /\ found' = [found EXCEPT ![m] = Files]
        BY <2>3, GoMoves DEF DecodesCtxs, Places
      <3>2. \A g \in Handlers, n \in Markets : Decodes(g, n)' <=> Decodes(g, n) /\ g # h
        BY <2>3, <3>1 DEF Moved, Decodes, Fixture, Kind, At
      <3>3. Decodes(h, m)
        BY <2>3 DEF Decodes, At
      <3> HIDE DEF m
      <3> QED
        BY <1>0, <2>0, <3>1, <3>2, <3>3 DEF OnceInv
    <2> QED
      BY <1>1, <2>1, <2>2, <2>3 DEF Load
  <1>2. ASSUME NEW h \in Handlers, Arrive(h) PROVE OnceInv'
    BY <1>a, <1>2, Arrives DEF Arrive
  <1>3. ASSUME NEW h \in Handlers, Handle(h) PROVE OnceInv'
    BY <1>a, <1>3, Leaves DEF Handle, Idle
  <1>4. ASSUME NEW h \in Handlers, HandlerStep(h), ~Load(h), ~Handle(h) PROVE OnceInv'
    <2>1. UNCHANGED fixtureVars
      BY <1>4 DEF HandlerStep, Decide, LoadLeft, StoreLeft, CheckLeft, Unskip, AppendRequest, Local
    <2>2. PICK p, l : Moved(h, p, l) /\ p \notin {"decode", "decode2"}
      <3>1. CASE Decide(h)
        BY <3>1, DecideMoves
      <3>2. CASE LoadLeft(h)
        BY <3>2, LoadLeftMoves
      <3>3. CASE StoreLeft(h) \/ Unskip(h) \/ AppendRequest(h)
        BY <3>3, GoMoves DEF StoreLeft, Unskip, AppendRequest, Places
      <3>4. CASE CheckLeft(h)
        BY <3>4, CheckLeftMoves
      <3> QED
        BY <1>4, <3>1, <3>2, <3>3, <3>4 DEF HandlerStep
    <2> QED
      BY <1>a, <2>1, <2>2 DEF Moved
  <1>5. CASE Clear \/ WriteFlag \/ UNCHANGED vars
    BY <1>b, <1>5 DEF Clear, WriteFlag, vars
  <1> QED
    BY <1>1, <1>2, <1>3, <1>4, <1>5 DEF Next, Look

LEMMA Capture == Spec => [](Typed /\ RouteInv /\ CountInv /\ OnceInv)
  BY InitCapture, StepTyped, StepRoute, StepCount, StepOnce, PTL DEF Spec

\* No request is answered from the fallback metadata, whichever of the requests
\* in flight decodes the recorded files (perpFixturesOnce, spotFixturesOnce).
THEOREM AnsweredFromFixtures == Spec => []FixturesComplete
  <1>1. Init => FixturesComplete
    BY DEF Init, FixturesComplete
  <1>2. Typed /\ OnceInv /\ FixturesComplete /\ [Next]_vars => FixturesComplete'
    <2> SUFFICES ASSUME Typed, OnceInv, FixturesComplete, [Next]_vars PROVE FixturesComplete'
      OBVIOUS
    <2>1. ASSUME NEW h \in Handlers, Handle(h) PROVE FixturesComplete'
      <3>1. CASE NeedsFixture(Kind(h))
        <4>1. MarketOf(Kind(h)) \in Markets /\ once[MarketOf(Kind(h))] = "done"
          BY <2>1, <3>1 DEF Handle, ReturnsFromDo, Fixture, MarketOf, Markets
        <4>2. Source(Kind(h)) = "recorded"
          BY <4>1 DEF OnceInv, Source, FileOf, Files
        <4>3. answers' = answers \cup {Source(Kind(h))}
          BY <2>1, <3>1 DEF Handle
        <4> QED
          BY <4>2, <4>3 DEF FixturesComplete
      <3>2. CASE ~NeedsFixture(Kind(h))
        BY <2>1, <3>2 DEF Handle, FixturesComplete
      <3> QED
        BY <3>1, <3>2
    <2>2. ASSUME NEW h \in Handlers, Arrive(h) \/ (HandlerStep(h) /\ ~Handle(h))
          PROVE  answers' = answers
      BY <2>2 DEF Arrive, HandlerStep, Decide, LoadLeft, StoreLeft, CheckLeft, Unskip,
                  AppendRequest, Load, Local, history
    <2>3. CASE Clear \/ WriteFlag \/ UNCHANGED vars
      BY <2>3 DEF Clear, WriteFlag, vars, history, FixturesComplete
    <2> QED
      BY <2>1, <2>2, <2>3 DEF Next, Look, FixturesComplete
  <1> QED
    BY <1>1, <1>2, Capture, PTL DEF Spec

-----------------------------------------------------------------------------
(***************************************************************************)
(* The log a test reads back.                                              *)
(***************************************************************************)
Stage(p) == CASE p = "idle" -> "idle" [] p \in Undecided -> "open" [] OTHER -> "settled"

LEMMA Stages ==
    /\ Stage("idle") = "idle"
    /\ \A p \in Undecided : Stage(p) = "open"
    /\ \A p \in Places \ (Undecided \cup {"idle"}) : Stage(p) = "settled"
  BY DEF Stage, Undecided, Places

LEMMA PhaseValue ==
    ASSUME NEW h \in Handlers
    PROVE  /\ Phase[h] = [kind |-> serving[h].kind, at |-> Stage(serving[h].pc)]
           /\ Phase'[h] = [kind |-> serving'[h].kind, at |-> Stage(serving'[h].pc)]
           /\ Phase[h].kind = serving[h].kind /\ Phase[h].at = Stage(serving[h].pc)
           /\ Phase'[h].kind = serving'[h].kind /\ Phase'[h].at = Stage(serving'[h].pc)
  BY DEF Phase, Stage, At, Kind

LEMMA PhaseSame ==
    ASSUME \A h \in Handlers : /\ serving'[h].kind = serving[h].kind
                               /\ Stage(serving'[h].pc) = Stage(serving[h].pc)
    PROVE  Phase' = Phase
  <1>1. \A h \in Handlers : Phase'[h] = Phase[h]
    BY PhaseValue
  <1>2. Phase' = [h \in Handlers |-> Phase'[h]] /\ Phase = [h \in Handlers |-> Phase[h]]
    BY DEF Phase
  <1> QED
    BY <1>1, <1>2

LEMMA StageMoves ==
    ASSUME NEW h \in Handlers, \A g \in Handlers \ {h} : serving'[g] = serving[g]
    PROVE  Log!Moves(h, Stage(serving[h].pc), Stage(serving'[h].pc))
  <1>1. \A g \in Handlers \ {h} : Phase'[g] = Phase[g]
    BY PhaseValue
  <1>2. Phase[h].at = Stage(serving[h].pc) /\ Phase'[h].at = Stage(serving'[h].pc)
    BY PhaseValue
  <1> QED
    BY <1>1, <1>2 DEF Log!Moves

LEMMA PhaseMoves ==
    ASSUME Typed, NEW h \in Handlers, NEW p \in Places, NEW l, Moved(h, p, l)
    PROVE  /\ Log!Keeps(h)
           /\ Log!Moves(h, Stage(serving[h].pc), Stage(p))
           /\ Stage(serving[h].pc) = Stage(p) => Phase' = Phase
  <1>0. /\ serving'[h].pc = p /\ serving'[h].kind = serving[h].kind
        /\ \A g \in Handlers \ {h} : serving'[g] = serving[g]
    BY DEF Moved, Kind
  <1>1. Log!Moves(h, Stage(serving[h].pc), Stage(p))
    BY <1>0, StageMoves
  <1>2. Phase'[h].kind = Phase[h].kind
    BY <1>0, PhaseValue
  <1>3. Stage(serving[h].pc) = Stage(p) => Phase' = Phase
    BY <1>0, PhaseSame
  <1> QED
    BY <1>1, <1>2, <1>3 DEF Log!Keeps

\* The request log keeps what CaptureLog promises, however the unguarded flags
\* are raced over and however many requests are in flight: each request is
\* settled once, between its arrival and its answer, only metadata requests (and
\* what is never captured) are left out, and Clear empties the log in one step
\* (RequestCapture, Wrap, Clear).
THEOREM LogIsRefined == Spec => LogRefined
  <1>1. Init => Log!LogInit
    <2> SUFFICES ASSUME Init PROVE Log!LogInit
      OBVIOUS
    <2>1. \A h \in Handlers : Phase[h].at = "idle"
      BY PhaseValue, Stages DEF Init, Idle
    <2> QED
      BY <2>1 DEF Init, Log!LogInit, GetRequests
  <1>2. Typed /\ RouteInv /\ [Next]_vars => [Log!LogNext]_<<GetRequests, Phase>>
    <2> SUFFICES ASSUME Typed, RouteInv, [Next]_vars
                 PROVE  Log!LogNext \/ UNCHANGED <<GetRequests, Phase>>
      OBVIOUS
    <2> DEFINE Goal == Log!LogNext \/ UNCHANGED <<GetRequests, Phase>>
    <2>0. /\ \A p \in {"decide", "decrement", "store", "check", "unskip", "append"} : Stage(p) = "open"
          /\ \A p \in {"handle", "decode", "decode2"} : Stage(p) = "settled"
          /\ \A h \in Handlers : Phase[h].kind = Kind(h)
      BY Stages, PhaseValue DEF Undecided, Places, Kind
    <2>a. ASSUME NEW h \in Handlers, requests' = requests,
                 Log!Moves(h, "open", "settled"), Log!Keeps(h),
                 Kind(h) \in MetaKinds \cup Uncaptured
          PROVE  Goal
      BY <2>0, <2>a DEF Log!LogNext, Log!LeavesOut, GetRequests
    <2>b. ASSUME requests' = requests, Phase' = Phase PROVE Goal
      BY <2>b DEF GetRequests
    <2> HIDE DEF Goal
    <2>1. ASSUME NEW h \in Handlers, Arrive(h) PROVE Goal
      <3>1. /\ \A g \in Handlers \ {h} : serving'[g] = serving[g]
            /\ serving'[h].pc = "decide" /\ serving[h].pc = "idle"
        BY <2>1, Arrives DEF Arrive, At
      <3>2. Log!Moves(h, "idle", "open")
        BY <2>0, <3>1, StageMoves, Stages
      <3>3. GetRequests' = GetRequests
        BY <2>1 DEF Arrive, logVars, GetRequests
      <3> QED
        BY <3>2, <3>3 DEF Log!LogNext, Log!Arrives, Goal
    <2>2. ASSUME NEW h \in Handlers, Decide(h) PROVE Goal
      <3>1. PICK p \in {"handle", "decrement", "unskip", "append"} :
              Moved(h, p, serving[h].left) /\ (p = "handle" => Kind(h) \in Uncaptured)
        BY <2>2, DecideMoves
      <3>2. serving[h].pc = "decide" /\ requests' = requests
        BY <2>2 DEF Decide, At, Local, logVars
      <3>3. p \in Places
        BY DEF Places
      <3>4. CASE p = "handle"
        BY <2>0, <2>a, <3>1, <3>2, <3>3, <3>4, PhaseMoves
      <3>5. CASE p # "handle"
        BY <2>0, <2>b, <3>1, <3>2, <3>3, <3>5, PhaseMoves
      <3> QED
        BY <3>4, <3>5
    <2>3. ASSUME NEW h \in Handlers, LoadLeft(h) PROVE Goal
      <3>1. /\ Moved(h, "store", metaLeft - 1) /\ serving[h].pc = "decrement"
            /\ requests' = requests /\ "store" \in Places
        BY <2>3, LoadLeftMoves DEF LoadLeft, At, logVars, Places
      <3> QED
        BY <2>0, <2>b, <3>1, PhaseMoves
    <2>4. ASSUME NEW h \in Handlers, StoreLeft(h) PROVE Goal
      <3>1. /\ Moved(h, "check", serving[h].left) /\ serving[h].pc = "store"
            /\ requests' = requests /\ "check" \in Places
        BY <2>4, GoMoves DEF StoreLeft, At, Places
      <3> QED
        BY <2>0, <2>b, <3>1, PhaseMoves
    <2>5. ASSUME NEW h \in Handlers, CheckLeft(h) PROVE Goal
      <3>1. PICK p \in {"unskip", "handle"} : Moved(h, p, 0)
        BY <2>5, CheckLeftMoves
      <3>2. /\ serving[h].pc = "check" /\ requests' = requests /\ p \in Places
            /\ Kind(h) \in MetaKinds
        BY <2>5 DEF CheckLeft, At, Local, logVars, Places, RouteInv
      <3>3. CASE p = "handle"
        BY <2>0, <2>a, <3>1, <3>2, <3>3, PhaseMoves
      <3>4. CASE p = "unskip"
        BY <2>0, <2>b, <3>1, <3>2, <3>4, PhaseMoves
      <3> QED
        BY <3>3, <3>4
    <2>6. ASSUME NEW h \in Handlers, Unskip(h) PROVE Goal
      <3>1. serving[h].pc = "unskip" /\ requests' = requests
        BY <2>6 DEF Unskip, At
      <3>2. CASE Kind(h) \in MetaKinds
        <4>1. Moved(h, "handle", serving[h].left) /\ "handle" \in Places
          BY <2>6, <3>2, GoMoves DEF Unskip, Places
        <4> QED
          BY <2>0, <2>a, <3>1, <3>2, <4>1, PhaseMoves
      <3>3. CASE Kind(h) \notin MetaKinds
        <4>1. Moved(h, "append", serving[h].left) /\ "append" \in Places
          BY <2>6, <3>3, GoMoves DEF Unskip, Places
        <4> QED
          BY <2>0, <2>b, <3>1, <4>1, PhaseMoves
      <3> QED
        BY <3>2, <3>3
    <2>7. ASSUME NEW h \in Handlers, AppendRequest(h) PROVE Goal
      <3>1. /\ Moved(h, "handle", serving[h].left) /\ "handle" \in Places
            /\ serving[h].pc = "append" /\ Kind(h) \notin Uncaptured
        BY <2>7, GoMoves DEF AppendRequest, At, Places, RouteInv
      <3>2. Log!Moves(h, "open", "settled") /\ Log!Keeps(h)
        BY <2>0, <3>1, PhaseMoves
      <3>3. GetRequests' = Append(GetRequests, Phase[h].kind)
        BY <2>0, <2>7 DEF AppendRequest, GetRequests
      <3> QED
        BY <2>0, <3>1, <3>2, <3>3 DEF Log!LogNext, Log!Logs, Goal
    <2>8. ASSUME NEW h \in Handlers, Load(h) PROVE Goal
      <3>1. PICK p \in {"decode", "decode2", "handle"} : Moved(h, p, serving[h].left)
        BY <2>8, GoMoves DEF Load, Places
      <3>2. /\ serving[h].pc \in {"handle", "decode", "decode2"} /\ requests' = requests
            /\ p \in Places
        BY <2>8 DEF Load, At, logVars, Places
      <3> QED
        BY <2>0, <2>b, <3>1, <3>2, PhaseMoves
    <2>9. ASSUME NEW h \in Handlers, Handle(h) PROVE Goal
      <3>1. /\ serving'[h] = Idle /\ serving[h].pc = "handle"
            /\ \A g \in Handlers \ {h} : serving'[g] = serving[g]
        BY <2>9, Leaves DEF Handle, At
      <3>2. Log!Moves(h, "settled", "idle")
        BY <2>0, <3>1, StageMoves, Stages DEF Idle
      <3>3. GetRequests' = GetRequests
        BY <2>9 DEF Handle, logVars, GetRequests
      <3> QED
        BY <3>2, <3>3 DEF Log!LogNext, Log!Answers, Goal
    <2>10. CASE Clear
      <3>1. Phase' = Phase
        BY <2>10, PhaseSame DEF Clear, Kind
      <3> QED
        BY <2>10, <3>1 DEF Clear, Log!LogNext, Log!Clears, GetRequests, Goal
    <2>11. CASE WriteFlag \/ UNCHANGED vars
      <3>1. Phase' = Phase /\ requests' = requests
        BY <2>11, PhaseSame DEF WriteFlag, vars, logVars, Kind
      <3> QED
        BY <2>b, <3>1 DEF Goal
    <2> QED
      BY <2>1, <2>2, <2>3, <2>4, <2>5, <2>6, <2>7, <2>8, <2>9, <2>10, <2>11
      DEF Next, HandlerStep, Look, Goal
  <1> QED
    BY <1>1, <1>2, Capture, PTL DEF Spec, LogRefined, Log!LogSpec

-----------------------------------------------------------------------------
(***************************************************************************)
(* What Clear leaves to be skipped.                                        *)
(***************************************************************************)
LEMMA LoggedMeta ==
    ASSUME Typed, NEW h \in Handlers, Kind(h) \in Kinds, requests' = Append(requests, Kind(h))
    PROVE  MetaLogged' => MetaLogged \/ Kind(h) \in MetaKinds
  <1>1. requests \in Seq(Kinds) /\ Len(requests) \in Nat
    BY DEF Typed
  <1>2. Len(requests') = Len(requests) + 1 /\ requests'[Len(requests) + 1] = Kind(h)
    BY <1>1
  <1>3. \A i \in 1..Len(requests) : requests'[i] = requests[i]
    BY <1>1
  <1> QED
    BY <1>1, <1>2, <1>3 DEF MetaLogged, Count

LEMMA ClearSkips ==
    ASSUME Typed, RouteInv, Clear
    PROVE  SkipInv'
  <1> SUFFICES ASSUME ~disturbed' PROVE OneMeta' /\ ClearingInv' /\ LeftInv' /\ AskedInv'
    BY DEF SkipInv
  <1>1. \A h \in Handlers : serving'[h].pc = "idle"
    BY DEF Clear, InFlight, RouteInv, At
  <1>2. requests' = << >> /\ skipped' = 0 /\ clearing' = {"skipMeta", "metaLeft"}
    BY DEF Clear
  <1>3. ~MetaLogged'
    BY <1>2 DEF MetaLogged, Count
  <1> QED
    BY <1>1, <1>2, <1>3 DEF OneMeta, ClearingInv, LeftInv, AskedInv, IsMeta, At

LEMMA WriteFlagSkips ==
    ASSUME Typed, SkipInv, WriteFlag
    PROVE  SkipInv'
  <1> SUFFICES ASSUME ~disturbed', clears' > 0
               PROVE  OneMeta' /\ ClearingInv' /\ LeftInv' /\ AskedInv'
    BY DEF SkipInv
  <1>1. PICK flag \in clearing :
          /\ clearing' = clearing \ {flag}
          /\ IF flag = "skipMeta" THEN skipMeta' = TRUE /\ UNCHANGED metaLeft
                                  ELSE metaLeft' = 2 /\ UNCHANGED skipMeta
    BY DEF WriteFlag
  <1>2. UNCHANGED <<requests, serving, clears, skipped, disturbed, asked>>
    BY DEF WriteFlag, history
  <1>3. ClearingInv /\ AskedInv /\ clearing # {}
    BY <1>1, <1>2 DEF SkipInv
  <1>4. \A h \in Handlers : serving'[h].pc = "idle"
    BY <1>2, <1>3 DEF ClearingInv, At
  <1>5. requests' = << >> /\ skipped' = 0
    BY <1>2, <1>3 DEF ClearingInv
  <1>6. ~MetaLogged'
    BY <1>5 DEF MetaLogged, Count
  <1>7. clearing \subseteq {"skipMeta", "metaLeft"}
    BY DEF Typed
  <1>8. /\ "skipMeta" \notin clearing' => skipMeta'
        /\ "metaLeft" \notin clearing' => metaLeft' = 2
    BY <1>1, <1>3, <1>7 DEF ClearingInv
  <1> QED
    BY <1>4, <1>5, <1>6, <1>8 DEF OneMeta, ClearingInv, LeftInv, AskedInv, IsMeta, At

LEMMA ArriveSkips ==
    ASSUME Typed, SkipInv, NEW h \in Handlers, Arrive(h)
    PROVE  SkipInv'
  <1> SUFFICES ASSUME ~disturbed', clears' > 0
               PROVE  OneMeta' /\ ClearingInv' /\ LeftInv' /\ AskedInv'
    BY DEF SkipInv
  <1>1. /\ \A g \in Handlers \ {h} : serving'[g] = serving[g]
        /\ serving'[h].pc = "decide" /\ serving[h].pc = "idle"
        /\ asked' = (asked \/ Kind(h)' \in InfoKinds)
        /\ disturbed' = (disturbed \/ clearing # {}
                            \/ (Kind(h)' \in MetaKinds /\ InFlight(MetaKinds) # {}))
    BY Arrives DEF Arrive, At
  <1>2. UNCHANGED <<requests, skipMeta, metaLeft, clearing, clears, skipped>>
    BY DEF Arrive, logVars, flagVars
  <1>3. ~disturbed /\ clearing = {}
    BY <1>1
  <1>4. Kind(h)' \in MetaKinds => \A g \in Handlers : ~IsMeta(g)
    BY <1>1 DEF InFlight, IsMeta
  <1>5. OneMeta /\ LeftInv /\ AskedInv
    BY <1>2, <1>3 DEF SkipInv
  <1>6. MetaLogged' = MetaLogged
    BY <1>2 DEF MetaLogged, Count
  <1>7. asked => asked'
    BY <1>1
  <1>8. OneMeta'
    BY <1>1, <1>4, <1>5 DEF OneMeta, IsMeta, At, Kind
  <1>9. LeftInv'
    BY <1>1, <1>2, <1>5, <1>7 DEF LeftInv, IsMeta, At, Kind
  <1>10. AskedInv'
    BY <1>1, <1>2, <1>5, <1>6, <1>7 DEF AskedInv, IsMeta, At, Kind
  <1> QED
    BY <1>2, <1>3, <1>8, <1>9, <1>10 DEF ClearingInv

LEMMA HandlerSkips ==
    ASSUME Typed, RouteInv, SkipInv, NEW h \in Handlers, HandlerStep(h)
    PROVE  SkipInv'
  <1> SUFFICES ASSUME ~disturbed', clears' > 0
               PROVE  OneMeta' /\ ClearingInv' /\ LeftInv' /\ AskedInv'
    BY DEF SkipInv
  <1> USE DEF Local, logVars, flagVars, history
  <1>1. UNCHANGED <<clearing, clears, disturbed, asked>>
    BY DEF HandlerStep, Decide, LoadLeft, StoreLeft, CheckLeft, Unskip, AppendRequest, Load, Handle
  <1>2. serving[h].pc # "idle"
    BY DEF HandlerStep, Decide, LoadLeft, StoreLeft, CheckLeft, Unskip, AppendRequest, Load, Handle,
           At
  <1>3. OneMeta /\ LeftInv /\ AskedInv /\ clearing = {}
    BY <1>1, <1>2 DEF SkipInv, ClearingInv, At
  <1>4. ClearingInv'
    BY <1>1, <1>3 DEF ClearingInv
  <1>5. /\ metaLeft \in Int /\ skipped \in Nat /\ serving[h].left \in Int
        /\ MetaKinds \cap InfoKinds = {}
    BY DEF Typed, Slot, MetaKinds, InfoKinds
  \* Only a metadata request is counted, and no other is in flight beside it.
  <1>6. \A g \in Handlers : /\ serving[g].pc \in {"decrement", "store", "check"} => IsMeta(g)
                            /\ IsMeta(h) /\ IsMeta(g) => g = h
    BY <1>3 DEF RouteInv, OneMeta, IsMeta, At
  <1>7. requests' = requests => MetaLogged' = MetaLogged
    BY DEF MetaLogged, Count
  <1>8. ASSUME NEW p \in Places, NEW l, Moved(h, p, l) PROVE OneMeta'
    BY <1>2, <1>3, <1>8 DEF OneMeta, Moved, IsMeta, At, Kind
  <1>9. ASSUME NEW p \in Places, NEW l, Moved(h, p, l), p # "append", requests' = requests,
               skipped = 2 => skipped' = 2
        PROVE  AskedInv'
    BY <1>1, <1>2, <1>3, <1>7, <1>9 DEF AskedInv, Moved, IsMeta, At, Kind
  \* A step that counts nothing.
  <1>10. ASSUME NEW p \in {"decide", "append", "handle", "decode", "decode2"}, NEW l, Moved(h, p, l),
                UNCHANGED <<skipMeta, metaLeft, skipped>>,
                serving[h].pc \notin {"store", "check", "unskip"}
         PROVE  LeftInv'
    BY <1>1, <1>2, <1>3, <1>10 DEF LeftInv, Moved, IsMeta, At, Kind
  <1>11. CASE Decide(h)
    <2>1. PICK p \in {"handle", "decrement", "unskip", "append"} :
              /\ Moved(h, p, serving[h].left)
              /\ p = "decrement" => skipMeta /\ Kind(h) \in MetaKinds
              /\ p = "unskip" => Kind(h) \in InfoKinds
              /\ p = "append" => (Kind(h) \in MetaKinds => ~skipMeta)
      BY <1>11, DecideMoves
    <2>2. serving[h].pc = "decide" /\ UNCHANGED <<skipMeta, metaLeft, skipped, requests>>
      BY <1>11 DEF Decide, At
    <2>3. p \in Places
      BY DEF Places
    <2>4. LeftInv'
      <3>1. CASE p = "decrement"
        <4>1. skipped <= 1 /\ \A g \in Handlers : serving[g].pc \notin {"store", "check"}
          BY <1>2, <1>3, <1>6, <2>1, <2>2, <3>1 DEF LeftInv, IsMeta, At
        <4> QED
          BY <1>1, <1>2, <1>3, <2>1, <2>2, <3>1, <4>1 DEF LeftInv, Moved, IsMeta, At, Kind
      <3>2. CASE p = "unskip"
        BY <1>1, <1>2, <1>3, <1>5, <2>1, <2>2, <3>2 DEF LeftInv, Moved, IsMeta, At, Kind
      <3> QED
        BY <1>10, <2>1, <2>2, <3>1, <3>2
    <2>5. AskedInv'
      <3>1. CASE p = "append"
        <4>1. Kind(h) \in MetaKinds => skipped = 2 \/ asked
          BY <1>3, <2>1, <3>1 DEF LeftInv
        <4> QED
          BY <1>1, <1>2, <1>3, <1>7, <2>1, <2>2, <3>1, <4>1 DEF AskedInv, Moved, IsMeta, At, Kind
      <3> QED
        BY <1>9, <2>1, <2>2, <2>3, <3>1
    <2> QED
      BY <1>4, <1>8, <2>1, <2>3, <2>4, <2>5
  <1>12. CASE LoadLeft(h)
    <2>1. Moved(h, "store", metaLeft - 1) /\ "store" \in Places
      BY <1>12, LoadLeftMoves DEF Places
    <2>2. /\ serving[h].pc = "decrement" /\ UNCHANGED <<skipMeta, metaLeft, requests>>
          /\ skipped' = skipped + 1
      BY <1>12 DEF LoadLeft, At
    <2>3. /\ skipped <= 1 /\ metaLeft = 2 - skipped
          /\ \A g \in Handlers \ {h} : ~IsMeta(g) /\ serving[g].pc \notin {"decrement", "store", "check"}
      BY <1>3, <1>6, <2>2 DEF LeftInv, At
    <2>4. LeftInv'
      <3>1. serving'[h].left = 2 - skipped' /\ metaLeft' = 3 - skipped' /\ skipped' <= 2
        BY <1>5, <2>1, <2>2, <2>3 DEF Moved
      <3>2. IsMeta(h)' /\ serving'[h].pc = "store"
        BY <1>6, <2>1, <2>2 DEF Moved, IsMeta, At, Kind
      <3> QED
        BY <1>1, <1>3, <1>5, <2>1, <2>2, <2>3, <3>1, <3>2 DEF LeftInv, Moved, IsMeta, At, Kind
    <2>5. AskedInv'
      <3>1. skipped # 2
        BY <2>3
      <3> QED
        BY <1>9, <2>1, <2>2, <3>1
    <2> QED
      BY <1>4, <1>8, <2>1, <2>4, <2>5
  <1>13. CASE StoreLeft(h)
    <2>1. Moved(h, "check", serving[h].left) /\ "check" \in Places
      BY <1>13, GoMoves DEF StoreLeft, Places
    <2>2. /\ serving[h].pc = "store" /\ UNCHANGED <<skipMeta, skipped, requests>>
          /\ metaLeft' = serving[h].left
      BY <1>13 DEF StoreLeft, At
    <2>3. /\ metaLeft' = 2 - skipped
          /\ \A g \in Handlers \ {h} : ~IsMeta(g) /\ serving[g].pc \notin {"decrement", "store", "check"}
      BY <1>3, <1>6, <2>2 DEF LeftInv, At
    <2>4. LeftInv'
      <3>1. IsMeta(h)' /\ serving'[h].pc = "check" /\ serving'[h].left = 2 - skipped
        BY <1>6, <2>1, <2>2, <2>3 DEF Moved, IsMeta, At, Kind
      <3> QED
        BY <1>1, <1>3, <1>5, <2>1, <2>2, <2>3, <3>1 DEF LeftInv, Moved, IsMeta, At, Kind
    <2> QED
      BY <1>4, <1>8, <1>9, <2>1, <2>2, <2>4
  <1>14. CASE CheckLeft(h)
    <2>1. PICK left \in {serving[h].left, metaLeft} :
              Moved(h, IF left <= 0 THEN "unskip" ELSE "handle", 0)
      BY <1>14, CheckLeftMoves
    <2>2. serving[h].pc = "check" /\ UNCHANGED <<skipMeta, metaLeft, skipped, requests>>
      BY <1>14 DEF CheckLeft, At
    <2>3. /\ serving[h].left = 2 - skipped /\ metaLeft = 2 - skipped /\ skipped <= 2
          /\ \A g \in Handlers \ {h} : ~IsMeta(g) /\ serving[g].pc \notin {"decrement", "store", "check"}
      BY <1>3, <1>6, <2>2 DEF LeftInv, At
    <2>4. PICK p \in {"unskip", "handle"} : Moved(h, p, 0) /\ (p = "unskip" <=> skipped = 2)
      BY <1>5, <2>1, <2>3
    <2>5. p \in Places
      BY DEF Places
    <2>6. LeftInv'
      <3>1. IsMeta(h)' /\ serving'[h].pc = p
        BY <1>6, <2>2, <2>4 DEF Moved, IsMeta, At, Kind
      <3> QED
        BY <1>1, <1>3, <1>5, <2>2, <2>3, <2>4, <3>1 DEF LeftInv, Moved, IsMeta, At, Kind
    <2> QED
      BY <1>4, <1>8, <1>9, <2>2, <2>4, <2>5, <2>6
  <1>15. CASE Unskip(h)
    <2>1. /\ serving[h].pc = "unskip" /\ UNCHANGED <<metaLeft, skipped, requests>>
          /\ ~skipMeta' = TRUE
      BY <1>15 DEF Unskip, At
    <2>2. PICK p \in {"append", "handle"} :
            Moved(h, p, serving[h].left) /\ (p = "handle" <=> Kind(h) \in MetaKinds)
      BY <1>15, GoMoves DEF Unskip, Places
    <2>3. p \in Places
      BY DEF Places
    <2>4. Kind(h) \in MetaKinds => skipped = 2
      BY <1>3, <2>1 DEF LeftInv, IsMeta, At
    <2>5. Kind(h) \notin MetaKinds => asked
      BY <1>2, <1>3, <2>1 DEF AskedInv, RouteInv, At
    <2>6. LeftInv'
      BY <1>1, <1>3, <2>1, <2>2, <2>4, <2>5 DEF LeftInv, Moved, IsMeta, At, Kind
    <2>7. AskedInv'
      BY <1>1, <1>2, <1>3, <1>7, <2>1, <2>2 DEF AskedInv, Moved, IsMeta, At, Kind
    <2> QED
      BY <1>4, <1>8, <2>2, <2>3, <2>6, <2>7
  <1>16. CASE AppendRequest(h)
    <2>1. Moved(h, "handle", serving[h].left) /\ "handle" \in Places
      BY <1>16, GoMoves DEF AppendRequest, Places
    <2>2. /\ serving[h].pc = "append" /\ UNCHANGED <<skipMeta, metaLeft, skipped>>
          /\ requests' = Append(requests, Kind(h)) /\ Kind(h) \in Kinds
      BY <1>16 DEF AppendRequest, At, RouteInv
    <2>3. MetaLogged' => MetaLogged \/ IsMeta(h)
      BY <1>2, <2>2, LoggedMeta DEF IsMeta, At
    <2>4. LeftInv'
      BY <1>10, <2>1, <2>2
    <2>5. AskedInv'
      BY <1>1, <1>2, <1>3, <2>1, <2>2, <2>3 DEF AskedInv, Moved, IsMeta, At, Kind
    <2> QED
      BY <1>4, <1>8, <2>1, <2>4, <2>5
  <1>17. CASE Load(h)
    <2>1. PICK p \in {"decode", "decode2", "handle"} : Moved(h, p, serving[h].left)
      BY <1>17, GoMoves DEF Load, Places
    <2>2. /\ serving[h].pc \in {"handle", "decode", "decode2"}
          /\ UNCHANGED <<skipMeta, metaLeft, skipped, requests>>
      BY <1>17 DEF Load, At
    <2>3. p \in Places
      BY DEF Places
    <2> QED
      BY <1>4, <1>8, <1>9, <1>10, <2>1, <2>2, <2>3
  <1>18. CASE Handle(h)
    <2>1. /\ serving[h].pc = "handle" /\ UNCHANGED <<skipMeta, metaLeft, skipped, requests>>
          /\ serving'[h].pc = "idle" /\ \A g \in Handlers \ {h} : serving'[g] = serving[g]
      BY <1>18, Leaves DEF Handle, At, Idle
    <2>2. OneMeta' /\ AskedInv'
      BY <1>1, <1>3, <1>7, <2>1 DEF OneMeta, AskedInv, IsMeta, At, Kind
    <2>3. LeftInv'
      BY <1>1, <1>3, <2>1 DEF LeftInv, IsMeta, At, Kind
    <2> QED
      BY <1>4, <2>2, <2>3
  <1> QED
    BY <1>11, <1>12, <1>13, <1>14, <1>15, <1>16, <1>17, <1>18 DEF HandlerStep

\* After a Clear that nothing overlaps, at most two metadata requests that come
\* one at a time are left out of the log, whatever else runs beside them, and one
\* that is in the log came after two were left out or after another /info request
\* (Clear, Wrap): for any number of handlers, requests and calls of Clear.
THEOREM TwoAreSkipped == Spec => []SkipsTwo
  <1>1. Init => SkipInv
    BY DEF Init, SkipInv
  <1>2. Typed /\ RouteInv /\ SkipInv /\ [Next]_vars => SkipInv'
    <2>1. ASSUME Typed, SkipInv, UNCHANGED vars PROVE SkipInv'
      BY <2>1 DEF vars, logVars, flagVars, history, SkipInv, OneMeta, ClearingInv, LeftInv, AskedInv,
                  MetaLogged, Count, IsMeta, At, Kind
    <2> QED
      BY <2>1, ClearSkips, WriteFlagSkips, ArriveSkips, HandlerSkips DEF Next, Look
  <1>3. SkipInv => SkipsTwo
    <2> SUFFICES ASSUME SkipInv, ~disturbed, clears > 0
                 PROVE  skipped <= 2 /\ (MetaLogged => skipped = 2 \/ asked)
      BY DEF SkipsTwo, MetaLogged
    <2> QED
      BY DEF SkipInv, ClearingInv, LeftInv, AskedInv
  <1> QED
    BY <1>1, <1>2, <1>3, Capture, PTL DEF Spec
=============================================================================
