----------------------------- MODULE WsHubProofs -----------------------------
(***************************************************************************)
(* Theorems about the WebSocket manager: types, the read-write mutex over  *)
(* the map of connections, when the manager can stop, and what its clients *)
(* are sent.                                                               *)
(***************************************************************************)
EXTENDS WsHub, TLAPS, FiniteSetTheorems, SequenceTheorems

\* How often a goroutine holds the read lock follows from where it is: once in
\* its loop, and once more where it was held back and has been admitted.
InLoop(g) == g \in Broadcasters /\ pc[g] \in {"run", "find", "write", "writing"}
IsAdmitted(g) == pc[g] \in {"find", "loop"} /\ g \notin waiting
Holds(g) == (IF InLoop(g) THEN 1 ELSE 0) + (IF IsAdmitted(g) THEN 1 ELSE 0)
LockInv ==
    /\ \A g \in Goroutines : held[g] = Holds(g)
    /\ \A g \in waiting : pc[g] \in {"find", "loop"}

\* Connections and broadcasters run different code, and a goroutine in sendJSON
\* has a message to send.
PlaceInv ==
    /\ \A b \in Broadcasters : pc[b] \notin {"off", "join", "joining", "leave", "leaving", "done"}
    /\ \A c \in Conns : pc[c] \notin {"receive", "lock", "loop"}
    /\ \A g \in Goroutines : pc[g] \in {"find", "write", "writing"} => out[g] # << >>

-----------------------------------------------------------------------------
(***************************************************************************)
(* Types.                                                                  *)
(***************************************************************************)
LEMMA FirstMessage ==
    ASSUME TypeOK, NEW g \in Goroutines, out[g] # << >>
    PROVE  /\ Target(g) \in Conns
           /\ Head(out[g]).msg \in Msg
           /\ Tail(out[g]) \in Seq(Addressed)
  <1>1. out[g] \in Seq(Addressed)
    BY DEF TypeOK
  <1>2. Head(out[g]) \in Addressed /\ Tail(out[g]) \in Seq(Addressed)
    BY <1>1
  <1> QED
    BY <1>2 DEF Addressed, Target

LEMMA FoundTypes ==
    ASSUME TypeOK, NEW g \in Goroutines, out[g] # << >>, Found(g)
    PROVE  out' \in [Goroutines -> Seq(Addressed)] /\ pc' \in [Goroutines -> Places]
  <1>1. /\ Tail(out[g]) \in Seq(Addressed) /\ out \in [Goroutines -> Seq(Addressed)]
        /\ pc \in [Goroutines -> Places]
    BY FirstMessage DEF TypeOK
  <1>2. CASE Target(g) \in connections
    BY <1>1, <1>2 DEF Found, Go, Places
  <1>3. CASE Target(g) \notin connections
    <2>1. out' = [out EXCEPT ![g] = Tail(out[g])] /\ pc' = [pc EXCEPT ![g] = "run"]
      BY <1>3 DEF Found, Go
    <2>2. out' \in [Goroutines -> Seq(Addressed)]
      BY <1>1, <2>1
    <2>3. pc' \in [Goroutines -> Places]
      BY <1>1, <2>1 DEF Places
    <2> QED
      BY <2>2, <2>3
  <1> QED
    BY <1>2, <1>3

\* A broadcaster sends a connection one message about its update, or none.
LEMMA ForConnKinds ==
    ASSUME NEW b, NEW c
    PROVE  ForConn(b, c) \in {<< >>} \cup
             {<<To(c, Message(ch, current[b]))>> : ch \in {"orderUpdates", "l2Book", "bbo"}}
  <1> DEFINE u == current[b]
             wantsOrder == b = "orders" /\ shouldSend(c, u)
             wantsBook == b = "market" /\ u.coin \in l2BookCoins[c]
             wantsBBO == b = "market" /\ u.coin \in bboCoins[c] \ l2BookCoins[c]
  <1>1. ForConn(b, c) = CASE wantsOrder -> <<To(c, Message("orderUpdates", u))>>
                          [] wantsBook -> <<To(c, Message("l2Book", u))>>
                          [] wantsBBO -> <<To(c, Message("bbo", u))>>
                          [] OTHER -> << >>
    BY DEF ForConn
  <1> HIDE DEF wantsOrder, wantsBook, wantsBBO, u
  <1>2. ForConn(b, c) \in {<< >>, <<To(c, Message("orderUpdates", u))>>,
                           <<To(c, Message("l2Book", u))>>, <<To(c, Message("bbo", u))>>}
    BY <1>1
  <1> QED
    BY <1>2 DEF u

LEMMA ConcatFacts ==
    ASSUME NEW x, NEW y
    PROVE  /\ \A S : x \in S => <<x>> \o << >> \in Seq(S)
           /\ \A S : x \in S /\ y \in S => <<x>> \o <<y>> \in Seq(S)
           /\ Len(<<x>> \o << >>) = 1 /\ (<<x>> \o << >>)[1] = x
           /\ /\ Len(<<x>> \o <<y>>) = 2
              /\ (<<x>> \o <<y>>)[1] = x /\ (<<x>> \o <<y>>)[2] = y
  <1>1. <<x>> \in Seq({x, y}) /\ << >> \in Seq({x, y}) /\ <<y>> \in Seq({x, y})
    OBVIOUS
  <1>2. ASSUME NEW S, x \in S PROVE <<x>> \o << >> \in Seq(S)
    <2>1. <<x>> \in Seq(S) /\ << >> \in Seq(S)
      BY <1>2
    <2> QED
      BY <2>1
  <1>3. ASSUME NEW S, x \in S, y \in S PROVE <<x>> \o <<y>> \in Seq(S)
    <2>1. <<x>> \in Seq(S) /\ <<y>> \in Seq(S)
      BY <1>3
    <2> QED
      BY <2>1
  <1>4. Len(<<x>> \o << >>) = 1 /\ (<<x>> \o << >>)[1] = x
    BY <1>1, ConcatProperties
  <1>5. /\ Len(<<x>> \o <<y>>) = 2
        /\ (<<x>> \o <<y>>)[1] = x /\ (<<x>> \o <<y>>)[2] = y
    BY <1>1, ConcatProperties
  <1> QED
    BY <1>2, <1>3, <1>4, <1>5

\* What a message is answered with, and that the read loop sends just that.
Carries(c, new, replies) ==
    /\ Len(new) = Len(replies)
    /\ \A i \in 1..Len(new) : new[i] = To(c, replies[i])
LEMMA AnswersFollow ==
    ASSUME NEW m \in Ask
    PROVE  /\ Answers(m) \in Seq(Msg)
           /\ \A c \in Conns :
                 Subscribe(c, m) \/ Reject(c, m) =>
                    \E new : out' = [out EXCEPT ![c] = new] /\ Carries(c, new, Answers(m))
           /\ m.method = "unsubscribe" => Answers(m) = << >>
  <1> DEFINE ack == Reply("subscriptionResponse", m.coin)
             snapshot == Reply(m.type, m.coin)
             refusal == Reply("error", m.coin)
  <1>1. /\ m.method \in {"subscribe", "unsubscribe", "bad"} /\ m.coin \in Coins
        /\ m.type \in {"orderUpdates", "l2Book", "bbo"}
    BY DEF Ask
  <1>2. ack \in Msg /\ refusal \in Msg /\ (m.type # "orderUpdates" => snapshot \in Msg)
    BY <1>1 DEF Reply, Msg
  <1>3. CASE m.method = "bad"
    <2>1. Answers(m) = <<refusal>>
      BY <1>3 DEF Answers
    <2>2. \A c \in Conns : Reject(c, m) => out' = [out EXCEPT ![c] = <<To(c, refusal)>>]
      BY DEF Reject
    <2>3. \A c \in Conns : ~Subscribe(c, m)
      BY <1>3 DEF Subscribe
    <2> HIDE DEF refusal
    <2>4. Answers(m) \in Seq(Msg) /\ Len(Answers(m)) = 1 /\ Answers(m)[1] = refusal
      BY <1>2, <2>1
    <2>5. ASSUME NEW c \in Conns, Subscribe(c, m) \/ Reject(c, m)
          PROVE  \E new : out' = [out EXCEPT ![c] = new] /\ Carries(c, new, Answers(m))
      <3> DEFINE one == <<To(c, refusal)>>
      <3>1. out' = [out EXCEPT ![c] = one] /\ Len(one) = 1 /\ one[1] = To(c, refusal)
        BY <2>2, <2>3, <2>5
      <3> HIDE DEF one
      <3>2. Carries(c, one, Answers(m))
        BY <2>4, <3>1 DEF Carries
      <3> QED
        BY <3>1, <3>2
    <2> QED
      BY <1>3, <2>4, <2>5
  <1>4. CASE m.method = "unsubscribe"
    BY <1>4 DEF Answers, Subscribe, Reject
  <1>5. CASE m.method = "subscribe"
    <2>1. Answers(m) = <<ack>> \o (IF m.type = "orderUpdates" THEN << >> ELSE <<snapshot>>)
      BY <1>5 DEF Answers
    <2>2. \A c \in Conns : Subscribe(c, m) =>
            out' = [out EXCEPT ![c] = <<To(c, ack)>> \o
                      (IF m.type = "orderUpdates" THEN << >> ELSE <<To(c, snapshot)>>)]
      BY DEF Subscribe, Snapshot
    <2>3. \A c \in Conns : ~Reject(c, m)
      BY <1>5 DEF Reject
    <2> HIDE DEF ack, snapshot
    <2>4. CASE m.type = "orderUpdates"
      <3>1. Answers(m) \in Seq(Msg) /\ Len(Answers(m)) = 1 /\ Answers(m)[1] = ack
        BY <1>2, <2>1, <2>4, ConcatFacts
      <3>2. ASSUME NEW c \in Conns, Subscribe(c, m) \/ Reject(c, m)
            PROVE  \E new : out' = [out EXCEPT ![c] = new] /\ Carries(c, new, Answers(m))
        <4> DEFINE one == <<To(c, ack)>> \o << >>
        <4>1. out' = [out EXCEPT ![c] = one]
          BY <2>2, <2>3, <2>4, <3>2
        <4>2. Len(one) = 1 /\ one[1] = To(c, ack)
          BY ConcatFacts
        <4> HIDE DEF one
        <4>3. Carries(c, one, Answers(m))
          BY <3>1, <4>2 DEF Carries
        <4> QED
          BY <4>1, <4>3
      <3> QED
        BY <1>5, <3>1, <3>2
    <2>5. CASE m.type # "orderUpdates"
      <3>1. /\ Answers(m) \in Seq(Msg) /\ Len(Answers(m)) = 2
            /\ Answers(m)[1] = ack /\ Answers(m)[2] = snapshot
        BY <1>2, <2>1, <2>5, ConcatFacts
      <3>2. ASSUME NEW c \in Conns, Subscribe(c, m) \/ Reject(c, m)
            PROVE  \E new : out' = [out EXCEPT ![c] = new] /\ Carries(c, new, Answers(m))
        <4> DEFINE two == <<To(c, ack)>> \o <<To(c, snapshot)>>
        <4>1. out' = [out EXCEPT ![c] = two]
          BY <2>2, <2>3, <2>5, <3>2
        <4>2. Len(two) = 2 /\ two[1] = To(c, ack) /\ two[2] = To(c, snapshot)
          BY ConcatFacts
        <4> HIDE DEF two
        <4>3. Carries(c, two, Answers(m))
          BY <3>1, <4>2 DEF Carries
        <4> QED
          BY <4>1, <4>3
      <3> QED
        BY <1>5, <3>1, <3>2
    <2> QED
      BY <2>4, <2>5
  <1> QED
    BY <1>1, <1>3, <1>4, <1>5

LEMMA InitTypes == Init => TypeOK /\ LockInv /\ PlaceInv
  <1> SUFFICES ASSUME Init PROVE TypeOK /\ LockInv /\ PlaceInv
    OBVIOUS
  <1> USE HubAssumption
  <1>1. /\ << >> \in Seq(Update) /\ << >> \in Seq(Msg)
        /\ << >> \in Seq(Addressed)
    OBVIOUS
  <1>2. NoUpdate \in Update
    BY DEF NoUpdate, Update
  <1>3. TypeOK
    BY <1>1, <1>2 DEF Init, TypeOK, Goroutines, Places, Broadcasters
  <1>4. LockInv /\ PlaceInv
    BY DEF Init, LockInv, PlaceInv, Holds, InLoop, IsAdmitted, Goroutines, Broadcasters
  <1> QED
    BY <1>3, <1>4

LEMMA StepTypes == TypeOK /\ LockInv /\ PlaceInv /\ [Next]_vars => TypeOK'
  <1> SUFFICES ASSUME TypeOK, LockInv, PlaceInv, [Next]_vars PROVE TypeOK'
    OBVIOUS
  <1> USE HubAssumption DEF At, Go, lockVars, subVars, clientVars
  <1>1. ASSUME NEW g \in Goroutines, FindConn(g) PROVE TypeOK'
    <2>2. out' \in [Goroutines -> Seq(Addressed)] /\ pc' \in [Goroutines -> Places]
      BY <1>1, FoundTypes DEF FindConn, Sending
    <2> QED
      BY <1>1, <2>2 DEF FindConn, TypeOK
  <1>2. ASSUME NEW g \in Goroutines, FindHeldBack(g) PROVE TypeOK'
    BY <1>2 DEF FindHeldBack, HeldBack, TypeOK, Places
  <1>3. ASSUME NEW g \in Goroutines, FindAdmitted(g) PROVE TypeOK'
    <2>1. held[g] - 1 \in 0..2
      BY <1>3 DEF FindAdmitted, Admitted, LockInv, Holds, IsAdmitted
    <2>3. out' \in [Goroutines -> Seq(Addressed)] /\ pc' \in [Goroutines -> Places]
      BY <1>3, FoundTypes DEF FindAdmitted, Admitted, PlaceInv
    <2> QED
      BY <1>3, <2>1, <2>3 DEF FindAdmitted, TypeOK
  <1>4. ASSUME NEW g \in Goroutines, StartWrite(g) PROVE TypeOK'
    BY <1>4 DEF StartWrite, TypeOK, Places
  <1>5. ASSUME NEW g \in Goroutines, EndWrite(g) PROVE TypeOK'
    <2>1. /\ Target(g) \in Conns /\ Head(out[g]).msg \in Msg
          /\ Tail(out[g]) \in Seq(Addressed)
      BY <1>5, FirstMessage DEF EndWrite, PlaceInv
    <2>2. inbox' \in [Conns -> Seq(Msg)]
      BY <1>5, <2>1 DEF EndWrite, TypeOK
    <2> QED
      BY <1>5, <2>1, <2>2 DEF EndWrite, TypeOK, Places
  <1>6. ASSUME NEW b \in Broadcasters, Receive(b) PROVE TypeOK'
    <2>1. Head(channel[b]) \in Update /\ Tail(channel[b]) \in Seq(Update)
            /\ Len(Tail(channel[b])) <= ChCap
      BY <1>6 DEF Receive, TypeOK
    <2> QED
      BY <1>6, <2>1 DEF Receive, TypeOK, Places
  <1>7. ASSUME NEW b \in Broadcasters, LoopLock(b) PROVE TypeOK'
    <2>1. held[b] + 1 \in 0..2
      BY <1>7 DEF LoopLock, LockInv, Holds, IsAdmitted, InLoop, Goroutines
    <2>2. held' \in [Goroutines -> 0..2] /\ writer' = writer /\ waiting' \subseteq Goroutines
      <3>1. CASE Passes(b, "run")
        BY <2>1, <3>1 DEF Passes, TypeOK
      <3>2. CASE HeldBack(b, "loop")
        BY <3>2 DEF HeldBack, TypeOK, Goroutines
      <3> QED
        BY <1>7, <3>1, <3>2 DEF LoopLock
    <2>3. pc' \in [Goroutines -> Places] /\ todo' \in [Broadcasters -> SUBSET Conns]
      BY <1>7 DEF LoopLock, Passes, HeldBack, TypeOK, Places, Goroutines
    <2> QED
      BY <1>7, <2>1, <2>2, <2>3 DEF LoopLock, TypeOK
  <1>8. ASSUME NEW b \in Broadcasters, LoopAdmitted(b) PROVE TypeOK'
    BY <1>8 DEF LoopAdmitted, Admitted, TypeOK, Places
  <1>9. ASSUME NEW b \in Broadcasters, Visit(b) PROVE TypeOK'
    <2>1. ASSUME NEW c \in Conns PROVE ForConn(b, c) \in Seq(Addressed)
      <3>1. current[b] \in Update
        BY DEF TypeOK
      <3>2. \A ch \in {"orderUpdates", "l2Book", "bbo"} : Message(ch, current[b]) \in Msg
        BY <3>1 DEF Message, Update, Msg
      <3>3. \A ch \in {"orderUpdates", "l2Book", "bbo"} :
              <<To(c, Message(ch, current[b]))>> \in Seq(Addressed)
        BY <3>2 DEF To, Addressed
      <3>4. ForConn(b, c) \in {<< >>} \cup
              {<<To(c, Message(ch, current[b]))>> : ch \in {"orderUpdates", "l2Book", "bbo"}}
        BY ForConnKinds
      <3>5. << >> \in Seq(Addressed)
        OBVIOUS
      <3> QED
        BY ONLY <3>3, <3>4, <3>5
    <2>2. PICK c \in todo[b] : /\ todo' = [todo EXCEPT ![b] = @ \ {c}]
                               /\ out' = [out EXCEPT ![b] = ForConn(b, c)]
      BY <1>9 DEF Visit
    <2>3. ForConn(b, c) \in Seq(Addressed)
      BY <2>1, <2>2 DEF TypeOK
    <2>4. out' \in [Goroutines -> Seq(Addressed)] /\ todo' \in [Broadcasters -> SUBSET Conns]
      BY <2>2, <2>3 DEF TypeOK
    <2> QED
      BY <1>9, <2>4 DEF Visit, TypeOK
  <1>10. ASSUME NEW b \in Broadcasters, LoopUnlock(b) PROVE TypeOK'
    <2>1. held[b] - 1 \in 0..2
      BY <1>10 DEF LoopUnlock, LockInv, Holds, InLoop, Goroutines, IsAdmitted
    <2> QED
      BY <1>10, <2>1 DEF LoopUnlock, TypeOK, Places
  <1>11. ASSUME NEW c \in Conns, LockConnections(c) PROVE TypeOK'
    BY <1>11 DEF LockConnections, Announce, TypeOK, Places
  <1>12. ASSUME NEW c \in Conns, Register(c) \/ Deregister(c) PROVE TypeOK'
    <2>1. held' \in [Goroutines -> 0..2] /\ writer' = NoConn /\ waiting' = {}
      BY <1>12 DEF Register, Deregister, Alone, Unlock, TypeOK
    <2>2. connections' \subseteq Conns /\ pc' \in [Goroutines -> Places]
      BY <1>12 DEF Register, Deregister, TypeOK, Places
    <2> QED
      BY <1>12, <2>1, <2>2 DEF Register, Deregister, TypeOK
  <1>13. ASSUME NEW c \in Conns, ReadError(c) PROVE TypeOK'
    BY <1>13 DEF ReadError, TypeOK, Places
  <1>14. ASSUME NEW c \in Conns, HandleMessage(c) PROVE TypeOK'
    <2>1. PICK m \in Asks : /\ Subscribe(c, m) \/ Unsubscribe(c, m) \/ Reject(c, m)
                            /\ owed' = [owed EXCEPT ![c] = @ \o Answers(m)]
      BY <1>14 DEF HandleMessage
    <2>2. /\ m \in Ask /\ m.coin \in Coins
          /\ normalizedUser(m) \in Users \cup {NoUser}
      BY DEF Ask, normalizedUser
    <2>3. /\ orderUpdatesUser' \in [Conns -> Users \cup {NoUser}]
          /\ l2BookCoins' \in [Conns -> SUBSET Coins] /\ bboCoins' \in [Conns -> SUBSET Coins]
          /\ wasUser' \in [Conns -> SUBSET (Users \cup {NoUser})]
      <3> DEFINE Subs(S) == [Conns -> SUBSET S]
      <3>0. /\ orderUpdatesUser \in [Conns -> Users \cup {NoUser}]
            /\ wasUser \in Subs(Users \cup {NoUser})
            /\ l2BookCoins \in Subs(Coins) /\ bboCoins \in Subs(Coins)
        BY DEF TypeOK
      <3>a. ASSUME NEW S, NEW f \in Subs(S), NEW x \in S
            PROVE  /\ [f EXCEPT ![c] = @ \cup {x}] \in Subs(S)
                   /\ [f EXCEPT ![c] = @ \ {x}] \in Subs(S)
        <4>1. f[c] \cup {x} \in SUBSET S /\ f[c] \ {x} \in SUBSET S
          OBVIOUS
        <4> QED
          BY <4>1
      <3>b. [orderUpdatesUser EXCEPT ![c] = normalizedUser(m)] \in [Conns -> Users \cup {NoUser}]
            /\ [orderUpdatesUser EXCEPT ![c] = NoUser] \in [Conns -> Users \cup {NoUser}]
        BY <2>2, <3>0
      <3>c. /\ [wasUser EXCEPT ![c] = @ \cup {normalizedUser(m)}] \in Subs(Users \cup {NoUser})
            /\ [l2BookCoins EXCEPT ![c] = @ \cup {m.coin}] \in Subs(Coins)
            /\ [bboCoins EXCEPT ![c] = @ \cup {m.coin}] \in Subs(Coins)
            /\ [l2BookCoins EXCEPT ![c] = @ \ {m.coin}] \in Subs(Coins)
            /\ [bboCoins EXCEPT ![c] = @ \ {m.coin}] \in Subs(Coins)
        BY <2>2, <3>0, <3>a
      <3> HIDE DEF Subs
      <3> DEFINE P == /\ orderUpdatesUser' \in [Conns -> Users \cup {NoUser}]
                      /\ wasUser' \in Subs(Users \cup {NoUser})
                      /\ l2BookCoins' \in Subs(Coins) /\ bboCoins' \in Subs(Coins)
      <3> SUFFICES P
        BY DEF Subs
      <3>1. CASE Subscribe(c, m)
        BY <3>0, <3>b, <3>c, <3>1 DEF Subscribe
      <3>2. CASE Unsubscribe(c, m)
        BY <3>0, <3>b, <3>c, <3>2 DEF Unsubscribe
      <3>3. CASE Reject(c, m)
        BY <3>0, <3>3 DEF Reject
      <3> QED
        BY <2>1, <3>1, <3>2, <3>3
    <2>4. \A ch \in {"l2Book", "bbo", "subscriptionResponse", "error"} :
            To(c, Reply(ch, m.coin)) \in Addressed
      BY <2>2 DEF To, Reply, Msg, Addressed
    <2>5. out' \in [Goroutines -> Seq(Addressed)]
      <3>1. CASE Subscribe(c, m)
        <4>1. m.type \in {"orderUpdates", "l2Book", "bbo"}
          BY <2>2 DEF Ask
        <4> DEFINE ack == To(c, Reply("subscriptionResponse", m.coin))
                   snapshot == To(c, Reply(m.type, m.coin))
        <4>2. ack \in Addressed /\ (m.type # "orderUpdates" => snapshot \in Addressed)
          BY <2>4, <4>1
        <4>3. out' = [out EXCEPT ![c] = <<ack>> \o (IF m.type = "orderUpdates" THEN << >>
                                                                           ELSE <<snapshot>>)]
          BY <3>1 DEF Subscribe, Snapshot
        <4> HIDE DEF ack, snapshot
        <4>4. <<ack>> \o << >> \in Seq(Addressed)
          BY <4>2
        <4>5. m.type # "orderUpdates" => <<ack>> \o <<snapshot>> \in Seq(Addressed)
          BY <4>2
        <4> QED
          BY <4>3, <4>4, <4>5 DEF TypeOK
      <3>2. CASE Unsubscribe(c, m)
        BY <3>2 DEF Unsubscribe, TypeOK
      <3>3. CASE Reject(c, m)
        <4> DEFINE reply == To(c, Reply("error", m.coin))
        <4>1. reply \in Addressed /\ out' = [out EXCEPT ![c] = <<reply>>]
          BY <3>3, <2>4 DEF Reject
        <4> HIDE DEF reply
        <4>2. <<reply>> \in Seq(Addressed)
          BY <4>1
        <4> QED
          BY <4>1, <4>2 DEF TypeOK
      <3> QED
        BY <2>1, <3>1, <3>2, <3>3
    <2>6. owed' \in [Conns -> Seq(Msg)] /\ asked' \in 0..MaxAsks
      <3>1. Answers(m) \in Seq(Msg)
        BY <2>2, AnswersFollow
      <3>2. owed[c] \o Answers(m) \in Seq(Msg)
        BY <3>1 DEF TypeOK
      <3>3. owed' \in [Conns -> Seq(Msg)]
        BY <2>1, <3>2 DEF TypeOK
      <3> QED
        BY <1>14, <3>3 DEF HandleMessage, TypeOK
    <2> QED
      BY <1>14, <2>3, <2>5, <2>6 DEF HandleMessage, TypeOK, Places
  <1>15. ASSUME NEW c \in Conns, Connect(c) \/ HangUp(c) PROVE TypeOK'
    BY <1>15 DEF Connect, HangUp, TypeOK, Places
  <1>16. ASSUME NEW b \in Broadcasters, NEW u \in Update, Publish(b, u) PROVE TypeOK'
    <2>1. /\ Append(channel[b], u) \in Seq(Update)
          /\ Len(Append(channel[b], u)) = Len(channel[b]) + 1 /\ Len(channel[b]) \in Nat
      BY DEF TypeOK
    <2>2. channel' \in [Broadcasters -> Seq(Update)]
      BY <1>16, <2>1 DEF Publish, TypeOK
    <2>3. \A d \in Broadcasters : Len(channel'[d]) <= ChCap
      BY <1>16, <2>1 DEF Publish, TypeOK
    <2>4. published' \in 0..MaxUpdates
      BY <1>16 DEF Publish, TypeOK
    <2> QED
      BY <1>16, <2>2, <2>3, <2>4 DEF Publish, TypeOK
  <1>17. CASE BroadcastOrderUpdate
    <2>1. PICK user \in OrderOwners : Publish("orders", OrderUpdate(published + 1, user))
      BY <1>17 DEF BroadcastOrderUpdate
    <2>2. OrderUpdate(published + 1, user) \in Update
      BY <2>1 DEF Publish, OrderUpdate, Update, TypeOK
    <2> QED
      BY <1>16, <2>1, <2>2 DEF Broadcasters
  <1>18. CASE SetBBO
    <2>1. PICK coin \in BookCoins : Publish("market", BookUpdate(published + 1, coin))
      BY <1>18 DEF SetBBO, BroadcastL2Book
    <2>2. BookUpdate(published + 1, coin) \in Update
      BY <2>1 DEF Publish, BookUpdate, Update, TypeOK
    <2> QED
      BY <1>16, <2>1, <2>2 DEF Broadcasters
  <1>19. CASE UNCHANGED vars
    BY <1>19 DEF vars, TypeOK
  <1> QED
    BY <1>1, <1>2, <1>3, <1>4, <1>5, <1>6, <1>7, <1>8, <1>9, <1>10, <1>11, <1>12, <1>13,
       <1>14, <1>15, <1>17, <1>18, <1>19
    DEF Next, Step, BroadcasterStep, ConnStep, SendStep, Goroutines, Quiet

-----------------------------------------------------------------------------
(***************************************************************************)
(* The read-write mutex.                                                   *)
(***************************************************************************)
LEMMA StepLock == TypeOK /\ LockInv /\ PlaceInv /\ [Next]_vars => LockInv' /\ PlaceInv'
  <1> SUFFICES ASSUME TypeOK, LockInv, PlaceInv, [Next]_vars PROVE LockInv' /\ PlaceInv'
    OBVIOUS
  <1> USE DEF At, Go, lockVars, subVars, clientVars
  <1>0. /\ pc \in [Goroutines -> Places] /\ held \in [Goroutines -> 0..2]
        /\ out \in [Goroutines -> Seq(Addressed)] /\ waiting \subseteq Goroutines
        /\ Conns \subseteq Goroutines /\ Broadcasters \subseteq Goroutines
        /\ \A g \in Goroutines : g \in Conns \/ g \in Broadcasters
    BY DEF TypeOK, Goroutines
  <1>d. Conns \cap Broadcasters = {}
    BY HubAssumption
  <1> DEFINE Inv == LockInv /\ PlaceInv
  \* A step of one goroutine leaves the others' locks and places alone.
  <1>a. ASSUME NEW g \in Goroutines,
               \A h \in Goroutines \ {g} : pc'[h] = pc[h] /\ held'[h] = held[h] /\ out'[h] = out[h],
               waiting' \ {g} = waiting \ {g},
               held'[g] = Holds(g)', g \in waiting' => pc'[g] \in {"find", "loop"},
               g \in Broadcasters =>
                   pc'[g] \notin {"off", "join", "joining", "leave", "leaving", "done"},
               g \in Conns => pc'[g] \notin {"receive", "lock", "loop"},
               pc'[g] \in {"find", "write", "writing"} => out'[g] # << >>
        PROVE  Inv'
    <2>1. \A h \in Goroutines \ {g} : Holds(h)' = Holds(h)
      BY <1>a DEF Holds, InLoop, IsAdmitted
    <2>2. \A h \in Goroutines : held'[h] = Holds(h)'
      BY <1>a, <2>1 DEF LockInv
    <2>3. \A h \in waiting' : pc'[h] \in {"find", "loop"}
      BY <1>a, <1>0 DEF LockInv
    <2>4. PlaceInv'
      BY <1>a, <1>0 DEF PlaceInv
    <2> QED
      BY <2>2, <2>3, <2>4 DEF LockInv
  <1> HIDE DEF Inv
  <1> USE <1>0, <1>d DEF LockInv, PlaceInv, Holds, InLoop, IsAdmitted
  <1>1. ASSUME NEW g \in Goroutines, FindConn(g) PROVE Inv'
    BY <1>1, <1>a DEF FindConn, Found, Sending
  <1>2. ASSUME NEW g \in Goroutines, FindHeldBack(g) PROVE Inv'
    BY <1>2, <1>a DEF FindHeldBack, HeldBack, Sending
  <1>3. ASSUME NEW g \in Goroutines, FindAdmitted(g) PROVE Inv'
    <2>1. held[g] = (IF g \in Broadcasters THEN 1 ELSE 0) + 1
      BY <1>3 DEF FindAdmitted, Admitted
    <2>2. held' = [held EXCEPT ![g] = held[g] - 1] /\ waiting' = waiting
          /\ pc' = [pc EXCEPT ![g] = pc'[g]] /\ pc'[g] \in {"run", "write"}
          /\ out' = [out EXCEPT ![g] = out'[g]] /\ (pc'[g] = "write" => out'[g] # << >>)
      BY <1>3 DEF FindAdmitted, Found, Admitted
    <2>3. held'[g] = Holds(g)'
      BY <2>1, <2>2
    <2>4. g \notin waiting'
      BY <1>3, <2>2 DEF FindAdmitted, Admitted
    <2>5. \A h \in Goroutines \ {g} : pc'[h] = pc[h] /\ held'[h] = held[h] /\ out'[h] = out[h]
      BY <2>2
    <2> QED
      BY <1>a, <2>2, <2>3, <2>4, <2>5
  <1>4. ASSUME NEW g \in Goroutines, StartWrite(g) PROVE Inv'
    BY <1>4, <1>a DEF StartWrite
  <1>5. ASSUME NEW g \in Goroutines, EndWrite(g) PROVE Inv'
    BY <1>5, <1>a DEF EndWrite
  <1>6. ASSUME NEW b \in Broadcasters, Receive(b) PROVE Inv'
    BY <1>6, <1>a DEF Receive
  <1>7. ASSUME NEW b \in Broadcasters, LoopLock(b) PROVE Inv'
    <2>1. held[b] = 0 /\ b \notin waiting /\ out' = out
      BY <1>7 DEF LoopLock
    <2>2. CASE Passes(b, "run")
      <3>1. /\ held' = [held EXCEPT ![b] = 1] /\ waiting' = waiting
            /\ pc' = [pc EXCEPT ![b] = "run"]
        BY <2>1, <2>2 DEF Passes
      <3>2. held'[b] = Holds(b)'
        BY <3>1
      <3> QED
        BY <1>a, <2>1, <3>1, <3>2
    <2>3. CASE HeldBack(b, "loop")
      BY <1>a, <2>1, <2>3 DEF HeldBack
    <2> QED
      BY <1>7, <2>2, <2>3 DEF LoopLock
  <1>8. ASSUME NEW b \in Broadcasters, LoopAdmitted(b) PROVE Inv'
    <2>0. pc[b] = "loop" /\ b \notin waiting
      BY <1>8 DEF LoopAdmitted, Admitted
    <2>1. held[b] = 1 /\ held' = held /\ waiting' = waiting /\ b \notin waiting /\ out' = out
          /\ pc' = [pc EXCEPT ![b] = "run"]
      <3>1. held[b] = 1
        BY <2>0
      <3> QED
        BY <1>8, <2>0, <3>1 DEF LoopAdmitted
    <2>2. held'[b] = Holds(b)'
      BY <2>1
    <2> QED
      BY <1>a, <2>1, <2>2
  <1>9. ASSUME NEW b \in Broadcasters, Visit(b) PROVE Inv'
    BY <1>9, <1>a DEF Visit
  <1>10. ASSUME NEW b \in Broadcasters, LoopUnlock(b) PROVE Inv'
    <2>a. pc[b] = "run"
      BY <1>10 DEF LoopUnlock
    <2>0. held[b] = 1 /\ b \notin waiting
      BY <2>a
    <2>1. held[b] = 1 /\ waiting' = waiting /\ b \notin waiting /\ out' = out
          /\ held' = [held EXCEPT ![b] = held[b] - 1] /\ pc' = [pc EXCEPT ![b] = "receive"]
      BY <1>10, <2>0 DEF LoopUnlock
    <2>2. held'[b] = Holds(b)'
      BY <2>1
    <2> QED
      BY <1>a, <2>1, <2>2
  <1>11. ASSUME NEW c \in Conns, LockConnections(c) PROVE Inv'
    BY <1>11, <1>a DEF LockConnections, Announce
  <1>12. ASSUME NEW c \in Conns, Register(c) \/ Deregister(c) PROVE Inv'
    <2>1. /\ pc[c] \in {"joining", "leaving"} /\ Alone
          /\ pc' = [pc EXCEPT ![c] = pc'[c]] /\ pc'[c] \in {"run", "done"}
          /\ waiting' = {} /\ out' = out
          /\ held' = [g \in Goroutines |-> IF g \in waiting THEN held[g] + 1 ELSE held[g]]
      BY <1>12 DEF Register, Deregister, Unlock
    <2>2. \A g \in Goroutines : held[g] = 0 /\ ~InLoop(g) /\ ~IsAdmitted(g)
      BY <2>1 DEF Alone
    <2>3. \A g \in Goroutines : ~InLoop(g)' /\ (IsAdmitted(g)' <=> g \in waiting)
      BY <2>1, <2>2
    <2>4. \A g \in Goroutines : held'[g] = Holds(g)'
      BY <2>1, <2>2, <2>3
    <2> QED
      BY <2>1, <2>4 DEF Inv
  <1>13. ASSUME NEW c \in Conns, ReadError(c) PROVE Inv'
    BY <1>13, <1>a DEF ReadError, Idle
  <1>14. ASSUME NEW c \in Conns, HandleMessage(c) PROVE Inv'
    BY <1>14, <1>a DEF HandleMessage, Idle, Subscribe, Unsubscribe, Reject
  <1>15. ASSUME NEW c \in Conns, Connect(c) \/ HangUp(c) PROVE Inv'
    BY <1>15, <1>a DEF Connect, HangUp
  <1>16. ASSUME NEW b \in Broadcasters, NEW u, Publish(b, u) PROVE Inv'
    BY <1>16 DEF Publish, Inv
  <1>17. CASE BroadcastOrderUpdate \/ SetBBO
    <2>1. PICK b \in Broadcasters : \E u : Publish(b, u)
      BY <1>17 DEF BroadcastOrderUpdate, SetBBO, BroadcastL2Book, Broadcasters
    <2> QED
      BY <1>16, <2>1 DEF Inv
  <1>18. CASE UNCHANGED vars
    BY <1>18 DEF vars, Inv
  <1> QED
    BY <1>1, <1>2, <1>3, <1>4, <1>5, <1>6, <1>7, <1>8, <1>9, <1>10, <1>11, <1>12, <1>13,
       <1>14, <1>15, <1>17, <1>18
    DEF Next, Step, BroadcasterStep, ConnStep, SendStep, Quiet, Inv

\* The manager never releases a read lock twice, never has more in a channel than
\* it has room for, and keeps every message it holds well-formed (sync.RWMutex,
\* make(chan ..., 100), sendJSON), whatever the number of connections and
\* messages.
THEOREM HubTypeCorrect == Spec => []TypeOK
  <1>1. Spec => [](TypeOK /\ LockInv /\ PlaceInv)
    BY InitTypes, StepTypes, StepLock, PTL DEF Spec
  <1> QED
    BY <1>1, PTL

-----------------------------------------------------------------------------
(***************************************************************************)
(* The loop over the connections, and the write mutex of each of them.     *)
(***************************************************************************)
\* What is left of a loop is in the map for as long as the loop runs, and there
\* is no loop, and nothing to send, before one begins.
LoopInv ==
    \A b \in Broadcasters :
        /\ InLoop(b) => todo[b] \subseteq connections
        /\ ~InLoop(b) => todo[b] = {} /\ out[b] = << >>

\* Those in WriteJSON on a connection are those who are writing to it: no mutex
\* is kept or given away, and each keeps the others out.
WriteInv ==
    \A c \in Conns :
        /\ inWrite[c] = {g \in Goroutines : pc[g] = "writing" /\ Target(g) = c}
        /\ \A g, h \in inWrite[c] : g = h

LEMMA Members ==
    ASSUME TypeOK
    PROVE  /\ pc \in [Goroutines -> Places] /\ held \in [Goroutines -> 0..2]
           /\ out \in [Goroutines -> Seq(Addressed)]
           /\ todo \in [Broadcasters -> SUBSET Conns]
           /\ Conns \subseteq Goroutines /\ Broadcasters \subseteq Goroutines
           /\ \A g \in Goroutines : g \in Conns \/ g \in Broadcasters
           /\ Conns \cap Broadcasters = {}
  BY HubAssumption DEF TypeOK, Goroutines

LEMMA InitLoop == Init => LoopInv /\ WriteInv
  BY DEF Init, LoopInv, WriteInv, InLoop, Goroutines, Broadcasters

LEMMA StepLoop ==
    TypeOK /\ LockInv /\ PlaceInv /\ LoopInv /\ [Next]_vars => LoopInv'
  <1> SUFFICES ASSUME TypeOK, LockInv, PlaceInv, LoopInv, [Next]_vars PROVE LoopInv'
    OBVIOUS
  <1>0. /\ pc \in [Goroutines -> Places] /\ out \in [Goroutines -> Seq(Addressed)]
        /\ todo \in [Broadcasters -> SUBSET Conns]
        /\ Conns \subseteq Goroutines /\ Broadcasters \subseteq Goroutines
        /\ Conns \cap Broadcasters = {}
    BY Members
  <1> USE <1>0 DEF At, Go, lockVars, subVars, clientVars, LoopInv, InLoop
  <1>1. ASSUME NEW g \in Goroutines, FindConn(g) PROVE LoopInv'
    BY <1>1 DEF FindConn, Found, Sending
  <1>2. ASSUME NEW g \in Goroutines, FindHeldBack(g) PROVE LoopInv'
    BY <1>2 DEF FindHeldBack, HeldBack, Sending
  <1>3. ASSUME NEW g \in Goroutines, FindAdmitted(g) PROVE LoopInv'
    BY <1>3 DEF FindAdmitted, Found, Admitted
  <1>4. ASSUME NEW g \in Goroutines, StartWrite(g) PROVE LoopInv'
    BY <1>4 DEF StartWrite
  <1>5. ASSUME NEW g \in Goroutines, EndWrite(g) PROVE LoopInv'
    BY <1>5 DEF EndWrite
  <1>6. ASSUME NEW b \in Broadcasters, Receive(b) PROVE LoopInv'
    BY <1>6 DEF Receive
  <1>7. ASSUME NEW b \in Broadcasters, LoopLock(b) PROVE LoopInv'
    <2>1. CASE Passes(b, "run") /\ todo' = [todo EXCEPT ![b] = connections]
      BY <1>7, <2>1 DEF LoopLock, Passes
    <2>2. CASE HeldBack(b, "loop") /\ UNCHANGED todo
      BY <1>7, <2>2 DEF LoopLock, HeldBack
    <2> QED
      BY <1>7, <2>1, <2>2 DEF LoopLock
  <1>8. ASSUME NEW b \in Broadcasters, LoopAdmitted(b) PROVE LoopInv'
    BY <1>8 DEF LoopAdmitted, Admitted
  <1>9. ASSUME NEW b \in Broadcasters, Visit(b) PROVE LoopInv'
    BY <1>9 DEF Visit
  <1>10. ASSUME NEW b \in Broadcasters, LoopUnlock(b) PROVE LoopInv'
    BY <1>10 DEF LoopUnlock
  <1>11. ASSUME NEW c \in Conns, LockConnections(c) PROVE LoopInv'
    BY <1>11 DEF LockConnections, Announce
  \* Whoever writes the map has waited for all readers, the loops among them.
  <1>12. ASSUME NEW c \in Conns, Register(c) \/ Deregister(c) PROVE LoopInv'
    <2>1. ASSUME NEW b \in Broadcasters PROVE ~InLoop(b)
      <3>1. held[b] = 0
        BY <1>12 DEF Register, Deregister, Alone
      <3>2. held[b] = Holds(b)
        BY DEF LockInv
      <3> HIDE DEF InLoop
      <3> QED
        BY <3>1, <3>2 DEF Holds
    <2>2. pc' = [pc EXCEPT ![c] = pc'[c]] /\ todo' = todo /\ out' = out
      BY <1>12 DEF Register, Deregister
    <2> QED
      BY <2>1, <2>2
  <1>13. ASSUME NEW c \in Conns, ReadError(c) PROVE LoopInv'
    BY <1>13 DEF ReadError
  <1>14. ASSUME NEW c \in Conns, HandleMessage(c) PROVE LoopInv'
    BY <1>14 DEF HandleMessage, Subscribe, Unsubscribe, Reject
  <1>15. ASSUME NEW c \in Conns, Connect(c) \/ HangUp(c) PROVE LoopInv'
    BY <1>15 DEF Connect, HangUp
  <1>16. ASSUME NEW b \in Broadcasters, NEW u, Publish(b, u) PROVE LoopInv'
    BY <1>16 DEF Publish
  <1>17. CASE BroadcastOrderUpdate \/ SetBBO
    BY <1>16, <1>17 DEF BroadcastOrderUpdate, SetBBO, BroadcastL2Book, Broadcasters
  <1>18. CASE UNCHANGED vars
    BY <1>18 DEF vars
  <1> QED
    BY <1>1, <1>2, <1>3, <1>4, <1>5, <1>6, <1>7, <1>8, <1>9, <1>10, <1>11, <1>12, <1>13,
       <1>14, <1>15, <1>17, <1>18
    DEF Next, Step, BroadcasterStep, ConnStep, SendStep, Quiet, Goroutines

LEMMA StepWrite ==
    TypeOK /\ PlaceInv /\ WriteInv /\ [Next]_vars => WriteInv'
  <1> SUFFICES ASSUME TypeOK, PlaceInv, WriteInv, [Next]_vars PROVE WriteInv'
    OBVIOUS
  <1>0. /\ pc \in [Goroutines -> Places] /\ out \in [Goroutines -> Seq(Addressed)]
        /\ inWrite \in [Conns -> SUBSET Goroutines]
        /\ Conns \subseteq Goroutines /\ Broadcasters \subseteq Goroutines
    BY Members DEF TypeOK
  <1> DEFINE Writing(g) == pc[g] = "writing"
  \* A step that nobody begins or ends a write in.
  <1>a. ASSUME inWrite' = inWrite,
               \A h \in Goroutines : /\ Writing(h)' <=> Writing(h)
                                     /\ Writing(h) => out'[h] = out[h]
        PROVE  WriteInv'
    BY <1>a DEF WriteInv, Target
  <1> USE <1>0 DEF At, Go, lockVars, subVars, clientVars
  <1>1. ASSUME NEW g \in Goroutines, FindConn(g) PROVE WriteInv'
    BY <1>1, <1>a DEF FindConn, Found, Sending
  <1>2. ASSUME NEW g \in Goroutines, FindHeldBack(g) PROVE WriteInv'
    BY <1>2, <1>a DEF FindHeldBack, HeldBack, Sending
  <1>3. ASSUME NEW g \in Goroutines, FindAdmitted(g) PROVE WriteInv'
    BY <1>3, <1>a DEF FindAdmitted, Found, Admitted
  <1>4. ASSUME NEW g \in Goroutines, StartWrite(g) PROVE WriteInv'
    <2> DEFINE t == Target(g)
    <2>1. /\ t \in Conns /\ inWrite[t] = {} /\ out' = out /\ pc[g] = "write"
          /\ pc' = [pc EXCEPT ![g] = "writing"] /\ inWrite' = [inWrite EXCEPT ![t] = {g}]
      BY <1>4, FirstMessage DEF StartWrite, PlaceInv
    <2>2. \A h \in Goroutines : Target(h)' = Target(h)
      BY <2>1 DEF Target
    <2> HIDE DEF t
    <2>3. ASSUME NEW c \in Conns
          PROVE  inWrite'[c] = {h \in Goroutines : pc'[h] = "writing" /\ Target(h)' = c}
      <3>1. Target(g)' = t
        BY <2>2 DEF t
      <3> QED
        BY <2>1, <2>2, <3>1 DEF WriteInv
    <2>4. \A c \in Conns : \A h, k \in inWrite'[c] : h = k
      BY <2>1 DEF WriteInv
    <2> QED
      BY <2>3, <2>4 DEF WriteInv
  <1>5. ASSUME NEW g \in Goroutines, EndWrite(g) PROVE WriteInv'
    <2> DEFINE t == Target(g)
    <2>1. /\ t \in Conns /\ pc[g] = "writing"
          /\ out' = [out EXCEPT ![g] = Tail(@)]
          /\ pc' = [pc EXCEPT ![g] = "run"]
          /\ inWrite' = [inWrite EXCEPT ![t] = @ \ {g}]
      BY <1>5, FirstMessage DEF EndWrite, PlaceInv
    <2>2. \A h \in Goroutines \ {g} : Target(h)' = Target(h)
      BY <2>1 DEF Target
    <2>3. ASSUME NEW c \in Conns
          PROVE  inWrite'[c] = {h \in Goroutines : pc'[h] = "writing" /\ Target(h)' = c}
      <3>1. inWrite'[c] = {h \in Goroutines : pc[h] = "writing" /\ Target(h) = c} \ {g}
        BY <2>1 DEF WriteInv
      <3> HIDE DEF t
      <3> QED
        BY <2>1, <2>2, <3>1
    <2>4. \A c \in Conns : \A h, k \in inWrite'[c] : h = k
      BY <2>1 DEF WriteInv
    <2> QED
      BY <2>3, <2>4 DEF WriteInv
  <1>6. ASSUME NEW b \in Broadcasters, Receive(b) PROVE WriteInv'
    BY <1>6, <1>a DEF Receive
  <1>7. ASSUME NEW b \in Broadcasters, LoopLock(b) PROVE WriteInv'
    BY <1>7, <1>a DEF LoopLock, Passes, HeldBack
  <1>8. ASSUME NEW b \in Broadcasters, LoopAdmitted(b) PROVE WriteInv'
    BY <1>8, <1>a DEF LoopAdmitted, Admitted
  <1>9. ASSUME NEW b \in Broadcasters, Visit(b) PROVE WriteInv'
    BY <1>9, <1>a DEF Visit
  <1>10. ASSUME NEW b \in Broadcasters, LoopUnlock(b) PROVE WriteInv'
    BY <1>10, <1>a DEF LoopUnlock
  <1>11. ASSUME NEW c \in Conns, LockConnections(c) PROVE WriteInv'
    BY <1>11, <1>a DEF LockConnections, Announce
  <1>12. ASSUME NEW c \in Conns, Register(c) \/ Deregister(c) PROVE WriteInv'
    BY <1>12, <1>a DEF Register, Deregister
  <1>13. ASSUME NEW c \in Conns, ReadError(c) PROVE WriteInv'
    BY <1>13, <1>a DEF ReadError, Idle
  <1>14. ASSUME NEW c \in Conns, HandleMessage(c) PROVE WriteInv'
    BY <1>14, <1>a DEF HandleMessage, Idle, Subscribe, Unsubscribe, Reject
  <1>15. ASSUME NEW c \in Conns, Connect(c) \/ HangUp(c) PROVE WriteInv'
    BY <1>15, <1>a DEF Connect, HangUp
  <1>16. ASSUME NEW b \in Broadcasters, NEW u, Publish(b, u) PROVE WriteInv'
    BY <1>16, <1>a DEF Publish
  <1>17. CASE BroadcastOrderUpdate \/ SetBBO
    BY <1>16, <1>17 DEF BroadcastOrderUpdate, SetBBO, BroadcastL2Book, Broadcasters
  <1>18. CASE UNCHANGED vars
    BY <1>18, <1>a DEF vars
  <1> QED
    BY <1>1, <1>2, <1>3, <1>4, <1>5, <1>6, <1>7, <1>8, <1>9, <1>10, <1>11, <1>12, <1>13,
       <1>14, <1>15, <1>17, <1>18
    DEF Next, Step, BroadcasterStep, ConnStep, SendStep, Quiet, Goroutines

LEMMA Loops == Spec => [](TypeOK /\ LockInv /\ PlaceInv /\ LoopInv /\ WriteInv)
  BY InitTypes, InitLoop, StepTypes, StepLock, StepLoop, StepWrite, PTL DEF Spec

LEMMA LoopStaysInMap == TypeOK /\ LockInv /\ LoopInv => LoopSeesMap
  BY DEF LoopInv, LoopSeesMap, InLoop, At

\* The map of connections is not written while a broadcaster ranges over it
\* (HandleConnection, broadcastOrderUpdates, broadcastL2Book): whatever is left
\* of the loop is still in the map.
THEOREM MapIsNotWrittenInLoop == Spec => []LoopSeesMap
  BY LoopStaysInMap, Loops, PTL

-----------------------------------------------------------------------------
(***************************************************************************)
(* The deadlock, and why there is no other.                                *)
(***************************************************************************)
\* Whose turn it is: readers wait only for an announced writer, and the writer is
\* the one connection that is about to enter the map or to leave it.
TurnInv ==
    /\ waiting # {} => writer # NoConn
    /\ writer # NoConn => writer \in Conns /\ pc[writer] \in {"joining", "leaving"}
    /\ \A c \in Conns : pc[c] \in {"joining", "leaving"} => writer = c

LEMMA InitTurn == Init => TurnInv
  BY DEF Init, TurnInv, Goroutines

LEMMA StepTurn == TypeOK /\ PlaceInv /\ TurnInv /\ [Next]_vars => TurnInv'
  <1> SUFFICES ASSUME TypeOK, PlaceInv, TurnInv, [Next]_vars PROVE TurnInv'
    OBVIOUS
  <1>0. /\ pc \in [Goroutines -> Places] /\ NoConn \notin Conns
        /\ Conns \subseteq Goroutines /\ Broadcasters \subseteq Goroutines
        /\ Conns \cap Broadcasters = {}
    BY Members, HubAssumption
  <1> USE DEF At, Go, lockVars
  \* A step that takes one goroutine elsewhere, and neither side of the lock.
  <1>a. ASSUME NEW g \in Goroutines, pc[g] \notin {"joining", "leaving"},
               NEW p, p \notin {"joining", "leaving"}, pc' = [pc EXCEPT ![g] = p],
               writer' = writer, waiting' # {} => waiting # {} \/ writer # NoConn
        PROVE  TurnInv'
    BY <1>0, <1>a DEF TurnInv
  <1>b. ASSUME UNCHANGED <<pc, writer, waiting>> PROVE TurnInv'
    BY <1>b DEF TurnInv
  <1>1. ASSUME NEW g \in Goroutines, SendStep(g) PROVE TurnInv'
    <2>1. CASE FindConn(g)
      BY <1>a, <2>1 DEF FindConn, Sending, Found
    <2>2. CASE FindHeldBack(g)
      BY <1>a, <2>2 DEF FindHeldBack, Sending, HeldBack
    <2>3. CASE FindAdmitted(g)
      BY <1>a, <2>3 DEF FindAdmitted, Admitted, Found
    <2>4. CASE StartWrite(g)
      BY <1>a, <2>4 DEF StartWrite
    <2>5. CASE EndWrite(g)
      BY <1>a, <2>5 DEF EndWrite
    <2> QED
      BY <1>1, <2>1, <2>2, <2>3, <2>4, <2>5 DEF SendStep
  <1>2. ASSUME NEW b \in Broadcasters, Receive(b) PROVE TurnInv'
    BY <1>0, <1>a, <1>2 DEF Receive
  <1>3. ASSUME NEW b \in Broadcasters, LoopLock(b) PROVE TurnInv'
    BY <1>0, <1>a, <1>3 DEF LoopLock, Passes, HeldBack
  <1>4. ASSUME NEW b \in Broadcasters, LoopAdmitted(b) PROVE TurnInv'
    BY <1>0, <1>a, <1>4 DEF LoopAdmitted, Admitted
  <1>5. ASSUME NEW b \in Broadcasters, LoopUnlock(b) PROVE TurnInv'
    BY <1>0, <1>a, <1>5 DEF LoopUnlock
  <1>6. ASSUME NEW b \in Broadcasters, Visit(b) PROVE TurnInv'
    BY <1>b, <1>6 DEF Visit
  <1>7. ASSUME NEW c \in Conns, LockConnections(c) PROVE TurnInv'
    <2>1. writer = NoConn /\ writer' = c /\ waiting' = waiting
      BY <1>7 DEF LockConnections, Announce
    <2>2. PICK p \in {"joining", "leaving"} : pc' = [pc EXCEPT ![c] = p]
      BY <1>7 DEF LockConnections, Announce
    <2> QED
      BY <1>0, <2>1, <2>2 DEF TurnInv
  <1>8. ASSUME NEW c \in Conns, Register(c) \/ Deregister(c) PROVE TurnInv'
    <2>1. /\ pc[c] \in {"joining", "leaving"} /\ writer' = NoConn /\ waiting' = {}
          /\ \E p \in {"run", "done"} : pc' = [pc EXCEPT ![c] = p]
      BY <1>8 DEF Register, Deregister, Unlock
    <2> QED
      BY <1>0, <2>1 DEF TurnInv
  <1>9. ASSUME NEW c \in Conns, ReadError(c) PROVE TurnInv'
    BY <1>0, <1>a, <1>9 DEF ReadError, Idle
  <1>10. ASSUME NEW c \in Conns, Connect(c) PROVE TurnInv'
    BY <1>0, <1>a, <1>10 DEF Connect
  <1>11. ASSUME NEW c \in Conns, HandleMessage(c) \/ HangUp(c) PROVE TurnInv'
    BY <1>b, <1>11 DEF HandleMessage, HangUp
  <1>12. CASE BroadcastOrderUpdate \/ SetBBO \/ UNCHANGED vars
    BY <1>b, <1>12 DEF BroadcastOrderUpdate, SetBBO, BroadcastL2Book, Publish, vars
  <1> QED
    BY <1>0, <1>1, <1>2, <1>3, <1>4, <1>5, <1>6, <1>7, <1>8, <1>9, <1>10, <1>11, <1>12
    DEF Next, Step, BroadcasterStep, ConnStep, Quiet

LEMMA NotHeldUp ==
    TypeOK /\ LockInv /\ PlaceInv /\ WriteInv /\ TurnInv => WorkGoesOn
  <1> SUFFICES ASSUME TypeOK, LockInv, PlaceInv, WriteInv, TurnInv, NeverStuck,
                      \A g \in Goroutines : ~CanGoOn(g),
                      NEW h \in Goroutines, ~AtRest(h)
               PROVE  FALSE
    BY DEF WorkGoesOn
  <1>0. /\ pc \in [Goroutines -> Places] /\ held \in [Goroutines -> 0..2]
        /\ Conns \subseteq Goroutines /\ Broadcasters \subseteq Goroutines
        /\ \A g \in Goroutines : g \in Conns \/ g \in Broadcasters
        /\ Conns \cap Broadcasters = {}
    BY Members
  <1> USE DEF At
  \* Nobody is in a write or waits for one: a write ends.
  <1>1. \A g \in Goroutines : pc[g] \notin {"write", "writing"}
    <2> SUFFICES ASSUME NEW g \in Goroutines, pc[g] = "write" PROVE FALSE
      BY DEF CanGoOn
    <2>1. inWrite[Target(g)] # {}
      BY DEF CanGoOn
    <2>2. Target(g) \in Conns
      BY FirstMessage DEF PlaceInv
    <2>3. PICK k \in inWrite[Target(g)] : TRUE
      BY <2>1
    <2>4. k \in Goroutines /\ pc[k] = "writing"
      BY <2>2, <2>3 DEF WriteInv
    <2> QED
      BY <2>4 DEF CanGoOn
  \* Whoever holds the read lock goes on, but for the deadlock.
  <1>2. \A g \in Goroutines : held[g] = 0
    <2> SUFFICES ASSUME NEW g \in Goroutines, held[g] # 0 PROVE FALSE
      OBVIOUS
    <2>1. held[g] > 0 /\ held[g] = Holds(g)
      BY <1>0 DEF LockInv
    <2>2. IsAdmitted(g) => CanGoOn(g)
      BY DEF IsAdmitted, CanGoOn
    <2>3. InLoop(g)
      BY <2>1, <2>2 DEF Holds
    <2>4. pc[g] = "run" => CanGoOn(g)
      BY <1>0, <2>3 DEF CanGoOn, AtRest, InLoop
    <2>5. pc[g] = "find"
      BY <1>1, <2>3, <2>4 DEF InLoop
    <2> QED
      BY <2>1, <2>2, <2>3, <2>5 DEF IsAdmitted, NeverStuck, InLoop
  \* So nobody has announced Lock, and nobody waits.
  <1>3. writer = NoConn /\ waiting = {}
    <2>1. writer # NoConn => CanGoOn(writer)
      BY <1>2 DEF TurnInv, CanGoOn, Alone
    <2> QED
      BY <1>0, <2>1 DEF TurnInv
  <1>4. h \in Broadcasters => pc[h] \in {"receive", "lock", "loop", "run", "find"}
    BY <1>0, <1>1 DEF PlaceInv, Places
  <1>5. h \in Conns => pc[h] \in {"off", "join", "run", "find", "leave", "done"}
    BY <1>0, <1>1, <1>3, HubAssumption DEF PlaceInv, Places, TurnInv
  <1>6. h \notin Broadcasters
    BY <1>3, <1>4 DEF CanGoOn, AtRest
  <1>7. h \notin Conns
    BY <1>3, <1>5 DEF CanGoOn, AtRest
  <1> QED
    BY <1>0, <1>6, <1>7

\* The manager stops only where a broadcaster waits for a read lock that it holds
\* itself (sendJSON within broadcastOrderUpdates and broadcastL2Book): otherwise,
\* as long as anything is left to do, some goroutine goes on, whoever joins, leaves
\* or is written to.
THEOREM OnlyDeadlock == Spec => []WorkGoesOn
  BY NotHeldUp, InitTurn, StepTurn, Loops, PTL DEF Spec

-----------------------------------------------------------------------------
(***************************************************************************)
(* What a step does to the messages on their way and to those received.    *)
(***************************************************************************)
\* A goroutine's messages leave it one by one; new ones come from a broadcaster's
\* visit to a connection and from a read loop's answers, which go to the
\* connection itself and are no updates.
Own(c, p) == p.to = c /\ p.msg.id = NoId /\ p.msg.channel # "orderUpdates"
LEMMA ShortConcat ==
    ASSUME NEW x, NEW y
    PROVE  /\ \A i \in 1..Len(<<x>> \o << >>) : (<<x>> \o << >>)[i] = x
           /\ \A i \in 1..Len(<<x>> \o <<y>>) : (<<x>> \o <<y>>)[i] \in {x, y}
  <1>1. <<x>> \in Seq({x}) /\ << >> \in Seq({x}) /\ <<x>> \in Seq({x, y}) /\ <<y>> \in Seq({x, y})
    OBVIOUS
  <1> DEFINE one == <<x>> \o << >>
             two == <<x>> \o <<y>>
  <1>2. one \in Seq({x}) /\ two \in Seq({x, y})
    BY <1>1
  <1> HIDE DEF one, two
  <1>3. (\A i \in 1..Len(one) : one[i] = x) /\ (\A i \in 1..Len(two) : two[i] \in {x, y})
    BY <1>2
  <1> QED
    BY <1>3 DEF one, two

LEMMA OutStep ==
    ASSUME TypeOK, PlaceInv, [Next]_vars, NEW g \in Goroutines
    PROVE  \/ out'[g] = out[g]
           \/ out[g] # << >> /\ out'[g] = Tail(out[g])
           \/ g \in Broadcasters /\ Visit(g)
           \/ g \in Conns /\ \A i \in 1..Len(out'[g]) : Own(g, out'[g][i])
  <1> DEFINE Same == out'[g] = out[g]
             Shorter == out[g] # << >> /\ out'[g] = Tail(out[g])
             New == g \in Conns /\ \A i \in 1..Len(out'[g]) : Own(g, out'[g][i])
             Goal == Same \/ Shorter \/ (g \in Broadcasters /\ Visit(g)) \/ New
  <1>0. /\ out \in [Goroutines -> Seq(Addressed)] /\ Conns \subseteq Goroutines
        /\ Broadcasters \subseteq Goroutines
    BY Members
  <1> SUFFICES Goal
    OBVIOUS
  <1> USE <1>0 DEF lockVars, subVars, clientVars
  <1>1. ASSUME NEW h \in Goroutines, FindConn(h) PROVE Goal
    BY <1>1 DEF FindConn, Found, Sending
  <1>2. ASSUME NEW h \in Goroutines, FindHeldBack(h) PROVE Goal
    BY <1>2 DEF FindHeldBack
  <1>3. ASSUME NEW h \in Goroutines, FindAdmitted(h) PROVE Goal
    BY <1>3 DEF FindAdmitted, Found, Admitted, At, PlaceInv
  <1>4. ASSUME NEW h \in Goroutines, StartWrite(h) PROVE Goal
    BY <1>4 DEF StartWrite
  <1>5. ASSUME NEW h \in Goroutines, EndWrite(h) PROVE Goal
    BY <1>5 DEF EndWrite, At, PlaceInv
  <1>6. ASSUME NEW b \in Broadcasters, BroadcasterStep(b), ~SendStep(b) PROVE Goal
    BY <1>6 DEF BroadcasterStep, Receive, LoopLock, LoopAdmitted, LoopUnlock, Visit
  <1>7. ASSUME NEW c \in Conns, ConnStep(c), ~SendStep(c) PROVE Goal
    BY <1>7 DEF ConnStep, LockConnections, Register, Deregister, ReadError
  <1>8. ASSUME NEW c \in Conns, HandleMessage(c) PROVE Goal
    <2>1. PICK m \in Asks : Subscribe(c, m) \/ Unsubscribe(c, m) \/ Reject(c, m)
      BY <1>8 DEF HandleMessage
    <2>2. m \in Ask
      BY HubAssumption
    <2>3. CASE Subscribe(c, m)
      <3> DEFINE ack == To(c, Reply("subscriptionResponse", m.coin))
                 snapshot == To(c, Reply(m.type, m.coin))
                 answers == <<ack>> \o (IF m.type = "orderUpdates" THEN << >>
                                                                   ELSE <<snapshot>>)
      <3>1. Own(c, ack) /\ (m.type # "orderUpdates" => Own(c, snapshot))
        BY DEF Own, To, Reply
      <3>2. out' = [out EXCEPT ![c] = answers]
        BY <2>3 DEF Subscribe, Snapshot
      <3> HIDE DEF ack, snapshot
      <3>3. \A i \in 1..Len(answers) : Own(c, answers[i])
        BY <3>1, ShortConcat
      <3> HIDE DEF answers
      <3> QED
        BY <3>2, <3>3
    <2>4. CASE Unsubscribe(c, m)
      BY <2>4 DEF Unsubscribe
    <2>5. CASE Reject(c, m)
      <3> DEFINE reply == To(c, Reply("error", m.coin))
      <3>1. Own(c, reply) /\ out' = [out EXCEPT ![c] = <<reply>>]
        BY <2>5 DEF Reject, Own, To, Reply
      <3> HIDE DEF reply
      <3> QED
        BY <3>1
    <2> QED
      BY <2>1, <2>3, <2>4, <2>5
  <1>9. ASSUME NEW c \in Conns, Connect(c) \/ HangUp(c) PROVE Goal
    BY <1>9 DEF Connect, HangUp
  <1>10. CASE BroadcastOrderUpdate \/ SetBBO
    BY <1>10 DEF BroadcastOrderUpdate, SetBBO, BroadcastL2Book, Publish
  <1>11. CASE UNCHANGED vars
    BY <1>11 DEF vars
  <1> QED
    BY <1>1, <1>2, <1>3, <1>4, <1>5, <1>6, <1>7, <1>8, <1>9, <1>10, <1>11
    DEF Next, Step, BroadcasterStep, ConnStep, SendStep, Quiet

\* A client receives what a goroutine had first to send, addressed to it.
LEMMA InboxStep ==
    ASSUME TypeOK, PlaceInv, [Next]_vars
    PROVE  \/ inbox' = inbox
           \/ \E g \in Goroutines :
                 /\ EndWrite(g) /\ out[g] # << >>
                 /\ inbox' = [inbox EXCEPT ![Target(g)] = Append(@, Head(out[g]).msg)]
  <1>0. Conns \subseteq Goroutines /\ Broadcasters \subseteq Goroutines
    BY Members
  <1> USE <1>0 DEF lockVars, subVars, clientVars
  <1>1. ASSUME NEW g \in Goroutines, EndWrite(g)
        PROVE  \/ inbox' = inbox
               \/ /\ EndWrite(g) /\ out[g] # << >>
                  /\ inbox' = [inbox EXCEPT ![Target(g)] = Append(@, Head(out[g]).msg)]
    BY <1>1 DEF EndWrite, At, PlaceInv
  <1>2. ASSUME NEW g \in Goroutines, SendStep(g), ~EndWrite(g) PROVE inbox' = inbox
    BY <1>2 DEF SendStep, FindConn, FindHeldBack, FindAdmitted, StartWrite
  <1>3. ASSUME NEW b \in Broadcasters, BroadcasterStep(b), ~SendStep(b) PROVE inbox' = inbox
    BY <1>3 DEF BroadcasterStep, Receive, LoopLock, LoopAdmitted, LoopUnlock, Visit
  <1>4. ASSUME NEW c \in Conns, ConnStep(c), ~SendStep(c) PROVE inbox' = inbox
    BY <1>4 DEF ConnStep, LockConnections, Register, Deregister, ReadError
  <1>5. ASSUME NEW c \in Conns, HandleMessage(c) \/ Connect(c) \/ HangUp(c)
        PROVE  inbox' = inbox
    BY <1>5 DEF HandleMessage, Connect, HangUp
  <1>6. CASE BroadcastOrderUpdate \/ SetBBO
    BY <1>6 DEF BroadcastOrderUpdate, SetBBO, BroadcastL2Book, Publish
  <1>7. CASE UNCHANGED vars
    BY <1>7 DEF vars
  <1> QED
    BY <1>1, <1>2, <1>3, <1>4, <1>5, <1>6, <1>7 DEF Next, Step, Quiet

\* Only a client's message changes its subscriptions, and no step forgets whose
\* orders it ever subscribed to.
LEMMA SubscriptionStep ==
    ASSUME TypeOK, [Next]_vars, NEW c \in Conns
    PROVE  /\ wasUser[c] \subseteq wasUser'[c]
           /\ orderUpdatesUser'[c] \in {orderUpdatesUser[c], NoUser} \cup wasUser'[c]
  <1> DEFINE Goal == /\ wasUser[c] \subseteq wasUser'[c]
                     /\ orderUpdatesUser'[c] \in {orderUpdatesUser[c], NoUser} \cup wasUser'[c]
  <1>0. /\ wasUser \in [Conns -> SUBSET (Users \cup {NoUser})]
        /\ orderUpdatesUser \in [Conns -> Users \cup {NoUser}]
        /\ Conns \subseteq Goroutines /\ Broadcasters \subseteq Goroutines
    BY Members DEF TypeOK
  <1>a. ASSUME UNCHANGED subVars PROVE Goal
    BY <1>a DEF subVars
  <1> HIDE DEF Goal
  <1>1. ASSUME NEW g \in Goroutines, SendStep(g) PROVE Goal
    BY <1>1, <1>a DEF SendStep, FindConn, FindHeldBack, FindAdmitted, StartWrite, EndWrite
  <1>2. ASSUME NEW b \in Broadcasters, BroadcasterStep(b) PROVE Goal
    BY <1>0, <1>1, <1>2, <1>a
    DEF BroadcasterStep, Receive, LoopLock, LoopAdmitted, LoopUnlock, Visit
  <1>3. ASSUME NEW d \in Conns, ConnStep(d) PROVE Goal
    BY <1>0, <1>1, <1>3, <1>a DEF ConnStep, LockConnections, Register, Deregister, ReadError
  <1>4. ASSUME NEW d \in Conns, HandleMessage(d) PROVE Goal
    <2>1. PICK m \in Asks : Subscribe(d, m) \/ Unsubscribe(d, m) \/ Reject(d, m)
      BY <1>4 DEF HandleMessage
    <2>2. CASE Subscribe(d, m)
      BY <1>0, <2>2 DEF Subscribe, Goal
    <2>3. CASE Unsubscribe(d, m)
      BY <1>0, <2>3 DEF Unsubscribe, Goal
    <2>4. CASE Reject(d, m)
      BY <1>a, <2>4 DEF Reject
    <2> QED
      BY <2>1, <2>2, <2>3, <2>4
  <1>5. ASSUME NEW d \in Conns, Connect(d) \/ HangUp(d) PROVE Goal
    BY <1>5, <1>a DEF Connect, HangUp
  <1>6. CASE BroadcastOrderUpdate \/ SetBBO
    BY <1>6, <1>a DEF BroadcastOrderUpdate, SetBBO, BroadcastL2Book, Publish, Goal
  <1>7. CASE UNCHANGED vars
    BY <1>7, <1>a DEF vars, subVars
  <1> QED
    BY <1>1, <1>2, <1>3, <1>4, <1>5, <1>6, <1>7 DEF Next, Step, Quiet, Goal

-----------------------------------------------------------------------------
(***************************************************************************)
(* What a client may be sent.                                              *)
(***************************************************************************)
Entitled(users, m) ==
    m.channel = "orderUpdates" =>
        /\ m.user = NoUser \/ normalized[m.user] \in users
        /\ users \ {NoUser} # {}

WalletInv ==
    /\ \A c \in Conns : orderUpdatesUser[c] \in wasUser[c] \cup {NoUser}
    /\ \A g \in Goroutines : \A i \in 1..Len(out[g]) : Entitled(wasUser[out[g][i].to], out[g][i].msg)
    /\ \A c \in Conns : \A i \in 1..Len(inbox[c]) : Entitled(wasUser[c], inbox[c][i])

LEMMA InitWallet == Init => WalletInv
  <1> SUFFICES ASSUME Init PROVE WalletInv
    OBVIOUS
  <1>1. /\ \A g \in Goroutines : out[g] = << >> /\ Len(out[g]) = 0
        /\ \A c \in Conns : inbox[c] = << >> /\ Len(inbox[c]) = 0
    BY DEF Init
  <1>2. \A c \in Conns : orderUpdatesUser[c] = NoUser
    BY DEF Init
  <1> QED
    BY <1>1, <1>2 DEF WalletInv

\* What a visit has a broadcaster send.
LEMMA VisitSends ==
    ASSUME NEW b \in Broadcasters, NEW c, ForConn(b, c) # << >>
    PROVE  \E p : /\ ForConn(b, c) = <<p>> /\ p.to = c
                  /\ p.msg.id = current[b].id /\ Kind(p.msg) = b
                  /\ p.msg.channel = "orderUpdates" =>
                        p.msg.user = current[b].user /\ shouldSend(c, current[b])
  <1> DEFINE u == current[b]
             wantsOrder == b = "orders" /\ shouldSend(c, u)
             wantsBook == b = "market" /\ u.coin \in l2BookCoins[c]
             wantsBBO == b = "market" /\ u.coin \in bboCoins[c] \ l2BookCoins[c]
             order == To(c, Message("orderUpdates", u))
             book == To(c, Message("l2Book", u))
             bbo == To(c, Message("bbo", u))
  <1>1. ForConn(b, c) = CASE wantsOrder -> <<order>> [] wantsBook -> <<book>>
                          [] wantsBBO -> <<bbo>> [] OTHER -> << >>
    BY DEF ForConn
  <1>2. \A p \in {order, book, bbo} : p.to = c /\ p.msg.id = u.id /\ p.msg.user = u.user
    BY DEF To, Message
  <1>3. /\ Kind(order.msg) = "orders" /\ Kind(book.msg) = "market" /\ Kind(bbo.msg) = "market"
        /\ book.msg.channel # "orderUpdates" /\ bbo.msg.channel # "orderUpdates"
    BY DEF To, Message, Kind
  <1>4. (wantsOrder => b = "orders" /\ shouldSend(c, u)) /\ (wantsBook \/ wantsBBO => b = "market")
    OBVIOUS
  <1> HIDE DEF u, wantsOrder, wantsBook, wantsBBO, order, book, bbo
  <1>5. CASE wantsOrder
    <2>1. ForConn(b, c) = <<order>>
      BY <1>1, <1>4, <1>5
    <2> QED
      BY <1>2, <1>3, <1>4, <1>5, <2>1 DEF u
  <1>6. CASE ~wantsOrder /\ (wantsBook \/ wantsBBO)
    <2>1. PICK p \in {book, bbo} : ForConn(b, c) = <<p>>
      BY <1>1, <1>6
    <2>2. Kind(p.msg) = b /\ p.msg.channel # "orderUpdates" /\ p.to = c /\ p.msg.id = u.id
      BY <1>2, <1>3, <1>4, <1>6, <2>1
    <2> QED
      BY <2>1, <2>2 DEF u
  <1> QED
    BY <1>1, <1>5, <1>6

LEMMA StepWallet ==
    TypeOK /\ PlaceInv /\ WalletInv /\ [Next]_vars => WalletInv'
  <1> SUFFICES ASSUME TypeOK, PlaceInv, WalletInv, [Next]_vars PROVE WalletInv'
    OBVIOUS
  <1>0. /\ out \in [Goroutines -> Seq(Addressed)] /\ inbox \in [Conns -> Seq(Msg)]
        /\ todo \in [Broadcasters -> SUBSET Conns]
        /\ Conns \subseteq Goroutines /\ Broadcasters \subseteq Goroutines
    BY Members DEF TypeOK
  <1>1. ASSUME NEW c \in Conns, NEW m, Entitled(wasUser[c], m) PROVE Entitled(wasUser'[c], m)
    BY <1>1, SubscriptionStep DEF Entitled
  <1>2. \A c \in Conns : orderUpdatesUser'[c] \in wasUser'[c] \cup {NoUser}
    BY SubscriptionStep DEF WalletInv
  <1>3. ASSUME NEW g \in Goroutines, NEW i \in 1..Len(out'[g])
        PROVE  Entitled(wasUser'[out'[g][i].to], out'[g][i].msg)
    <2> DEFINE p == out'[g][i]
               Goal == Entitled(wasUser'[p.to], p.msg)
    <2>1. ASSUME NEW j \in 1..Len(out[g]), p = out[g][j]
          PROVE  Goal
      <3>1. out[g][j] \in Addressed
        BY <1>0
      <3>2. p.to \in Conns
        BY <2>1, <3>1 DEF Addressed
      <3>3. Entitled(wasUser[p.to], p.msg)
        BY <2>1 DEF WalletInv
      <3> QED
        BY <1>1, <3>2, <3>3
    <2>2. CASE out'[g] = out[g]
      BY <2>1, <2>2
    <2>3. CASE out[g] # << >> /\ out'[g] = Tail(out[g])
      <3>1. i + 1 \in 1..Len(out[g]) /\ p = out[g][i + 1]
        BY <1>0, <2>3
      <3> QED
        BY <2>1, <3>1
    <2>4. CASE g \in Broadcasters /\ Visit(g)
      <3>1. PICK c \in todo[g] : out' = [out EXCEPT ![g] = ForConn(g, c)]
        BY <2>4 DEF Visit
      <3>2. c \in Conns /\ out'[g] = ForConn(g, c) /\ ForConn(g, c) # << >>
        BY <1>0, <2>4, <3>1
      <3>3. PICK q : /\ ForConn(g, c) = <<q>> /\ q.to = c
                     /\ q.msg.channel = "orderUpdates" =>
                          q.msg.user = current[g].user /\ shouldSend(c, current[g])
        BY <2>4, <3>2, VisitSends
      <3>4. p = q
        BY <3>2, <3>3
      <3>5. wasUser' = wasUser /\ orderUpdatesUser[c] \in wasUser[c] \cup {NoUser}
        BY <2>4, <3>2 DEF Visit, subVars, WalletInv
      <3>6. Entitled(wasUser'[c], q.msg)
        BY <3>3, <3>5 DEF shouldSend, Entitled
      <3>7. Entitled(wasUser'[q.to], q.msg)
        BY <3>3, <3>6
      <3> QED
        BY ONLY <3>4, <3>7
    <2>5. CASE g \in Conns /\ \A j \in 1..Len(out'[g]) : Own(g, out'[g][j])
      BY <2>5 DEF Own, Entitled
    <2> QED
      BY <2>2, <2>3, <2>4, <2>5, OutStep
  <1>4. ASSUME NEW c \in Conns, NEW i \in 1..Len(inbox'[c])
        PROVE  Entitled(wasUser'[c], inbox'[c][i])
    <2>1. ASSUME i \in 1..Len(inbox[c]), inbox'[c][i] = inbox[c][i]
          PROVE  Entitled(wasUser'[c], inbox'[c][i])
      BY <1>1, <2>1 DEF WalletInv
    <2>2. CASE inbox' = inbox
      BY <2>1, <2>2
    <2>3. ASSUME NEW g \in Goroutines, out[g] # << >>,
                 inbox' = [inbox EXCEPT ![Target(g)] = Append(@, Head(out[g]).msg)]
          PROVE  Entitled(wasUser'[c], inbox'[c][i])
      <3>1. Entitled(wasUser[Target(g)], Head(out[g]).msg)
        BY <1>0, <2>3 DEF WalletInv, Target
      <3>2. CASE i \in 1..Len(inbox[c])
        BY <1>0, <2>1, <2>3, <3>2
      <3>3. CASE i \notin 1..Len(inbox[c])
        <4>1. c = Target(g) /\ inbox'[c][i] = Head(out[g]).msg
          BY <1>0, <2>3, <3>3
        <4> QED
          BY <1>1, <3>1, <4>1
      <3> QED
        BY <3>2, <3>3
    <2> QED
      BY <2>2, <2>3, InboxStep
  <1> QED
    BY <1>2, <1>3, <1>4 DEF WalletInv

LEMMA Isolated == WalletInv => WalletIsolation
  BY DEF WalletInv, WalletIsolation, Entitled

\* Whatever its subscriptions do between the broadcaster's test and the write, a
\* client receives order updates only of wallets it subscribed to at some time,
\* and unsigned orders only if it subscribed to a wallet at all
\* (broadcastOrderUpdates).
THEOREM WalletsIsolated == Spec => []WalletIsolation
  BY Isolated, InitWallet, StepWallet, Loops, PTL DEF Spec

-----------------------------------------------------------------------------
(***************************************************************************)
(* The order in which a client gets the updates of a kind.                 *)
(***************************************************************************)
\* The last update of its kind to leave the channel.
Latest(b) == IF current[b].id = NoId THEN 0 ELSE current[b].id

\* The broadcaster has an update that the connection has not been sent yet.
Due(b, c) ==
    \/ pc[b] \in {"lock", "loop"}
    \/ c \in todo[b]
    \/ out[b] # << >> /\ Target(b) = c

\* Updates wait in the order of publication, behind the one being broadcast.
QueueInv ==
    \A b \in Broadcasters :
        /\ current[b].id # NoId => current[b].id \in 1..published
        /\ \A i \in 1..Len(channel[b]) :
              /\ channel[b][i].id \in 1..published
              /\ Latest(b) < channel[b][i].id
        /\ \A i, j \in 1..Len(channel[b]) : i < j => channel[b][i].id < channel[b][j].id

\* A broadcaster sends its update and nothing else, to each connection once; a
\* connection sends itself no updates.
SendInv ==
    /\ \A b \in Broadcasters :
          out[b] # << >> =>
              /\ Len(out[b]) = 1
              /\ Target(b) \notin todo[b]
              /\ Kind(Head(out[b]).msg) = b
              /\ Head(out[b]).msg.id = current[b].id
    /\ \A c \in Conns : \A i \in 1..Len(out[c]) : out[c][i].msg.id = NoId

\* What a client has is no newer than the update being broadcast, and older than
\* that if the update is still due to it.
InboxInv ==
    \A b \in Broadcasters, c \in Conns : \A i \in 1..Len(inbox[c]) :
        inbox[c][i].id # NoId /\ Kind(inbox[c][i]) = b =>
            /\ inbox[c][i].id \in 1..Latest(b)
            /\ Due(b, c) => inbox[c][i].id < Latest(b)

OrderInv == QueueInv /\ SendInv /\ InboxInv /\ InOrder

LEMMA InitOrder == Init => OrderInv
  <1> SUFFICES ASSUME Init PROVE OrderInv
    OBVIOUS
  <1>1. /\ \A g \in Goroutines : out[g] = << >> /\ Len(out[g]) = 0
        /\ \A c \in Conns : inbox[c] = << >> /\ Len(inbox[c]) = 0
        /\ \A b \in Broadcasters : channel[b] = << >> /\ Len(channel[b]) = 0
        /\ \A b \in Broadcasters : current[b].id = NoId
        /\ published = 0 /\ Conns \subseteq Goroutines /\ Broadcasters \subseteq Goroutines
    BY DEF Init, NoUpdate, Goroutines
  <1> QED
    BY <1>1 DEF OrderInv, QueueInv, SendInv, InboxInv, InOrder, Latest

\* A broadcaster's update changes only when it takes the next one from the channel.
LEMMA CurrentStep ==
    ASSUME TypeOK, [Next]_vars, NEW b \in Broadcasters, ~Receive(b)
    PROVE  current'[b] = current[b]
  <1>0. /\ current \in [Broadcasters -> Update] /\ Conns \subseteq Goroutines
        /\ Broadcasters \subseteq Goroutines
    BY Members DEF TypeOK
  <1>1. ASSUME NEW g \in Goroutines, SendStep(g) PROVE current' = current
    BY <1>1 DEF SendStep, FindConn, FindHeldBack, FindAdmitted, StartWrite, EndWrite
  <1>2. ASSUME NEW d \in Broadcasters, Receive(d) PROVE current'[b] = current[b]
    BY <1>0, <1>2 DEF Receive
  <1>3. ASSUME NEW d \in Broadcasters, BroadcasterStep(d), ~Receive(d) PROVE current' = current
    BY <1>0, <1>1, <1>3 DEF BroadcasterStep, LoopLock, LoopAdmitted, LoopUnlock, Visit
  <1>4. ASSUME NEW c \in Conns, ConnStep(c) PROVE current' = current
    BY <1>0, <1>1, <1>4 DEF ConnStep, LockConnections, Register, Deregister, ReadError
  <1>5. ASSUME NEW c \in Conns, HandleMessage(c) \/ Connect(c) \/ HangUp(c)
        PROVE  current' = current
    BY <1>5 DEF HandleMessage, Connect, HangUp
  <1>6. CASE BroadcastOrderUpdate \/ SetBBO
    BY <1>6 DEF BroadcastOrderUpdate, SetBBO, BroadcastL2Book, Publish
  <1>7. CASE UNCHANGED vars
    BY <1>7 DEF vars
  <1> QED
    BY <1>2, <1>3, <1>4, <1>5, <1>6, <1>7 DEF Next, Step, Quiet

\* The channels change when an update is published, under the next number, or
\* taken out.
LEMMA ChannelStep ==
    ASSUME TypeOK, [Next]_vars
    PROVE  \/ UNCHANGED <<channel, published>>
           \/ \E b \in Broadcasters : Receive(b)
           \/ /\ published' = published + 1
              /\ \/ channel' = channel
                 \/ \E b \in Broadcasters, u \in Update :
                       /\ u.id = published + 1 /\ u.id \in 1..MaxUpdates
                       /\ channel' = [channel EXCEPT ![b] = Append(@, u)]
  <1> DEFINE Same == UNCHANGED <<channel, published>>
             Goal == \/ Same
                     \/ \E b \in Broadcasters : Receive(b)
                     \/ /\ published' = published + 1
                        /\ \/ channel' = channel
                           \/ \E b \in Broadcasters, u \in Update :
                                 /\ u.id = published + 1 /\ u.id \in 1..MaxUpdates
                                 /\ channel' = [channel EXCEPT ![b] = Append(@, u)]
  <1>0. Conns \subseteq Goroutines /\ Broadcasters \subseteq Goroutines
    BY Members
  <1> USE DEF clientVars
  <1>1. ASSUME NEW g \in Goroutines, SendStep(g) PROVE Same
    BY <1>1 DEF SendStep, FindConn, FindHeldBack, FindAdmitted, StartWrite, EndWrite
  <1>2. ASSUME NEW d \in Broadcasters, BroadcasterStep(d), ~Receive(d) PROVE Same
    BY <1>0, <1>1, <1>2 DEF BroadcasterStep, LoopLock, LoopAdmitted, LoopUnlock, Visit
  <1>3. ASSUME NEW c \in Conns, ConnStep(c) PROVE Same
    BY <1>0, <1>1, <1>3 DEF ConnStep, LockConnections, Register, Deregister, ReadError
  <1>4. ASSUME NEW c \in Conns, HandleMessage(c) \/ Connect(c) \/ HangUp(c) PROVE Same
    BY <1>4 DEF HandleMessage, Connect, HangUp
  <1>5. ASSUME NEW b \in Broadcasters, NEW u \in Update, u.id = published + 1, Publish(b, u)
        PROVE  Goal
    <2>1. published \in 0..MaxUpdates /\ MaxUpdates \in Nat
      BY HubAssumption DEF TypeOK
    <2>2. /\ published < MaxUpdates /\ published' = published + 1
          /\ channel' = channel \/ channel' = [channel EXCEPT ![b] = Append(@, u)]
      BY <1>5 DEF Publish
    <2>3. u.id \in 1..MaxUpdates
      BY <1>5, <2>1, <2>2
    <2> QED
      BY <1>5, <2>2, <2>3
  <1>6. ASSUME NEW user \in OrderOwners, Publish("orders", OrderUpdate(published + 1, user))
        PROVE  Goal
    <2>1. OrderUpdate(published + 1, user) \in Update
      BY <1>6, HubAssumption DEF Publish, OrderUpdate, Update, TypeOK
    <2> QED
      BY <1>5, <1>6, <2>1 DEF Broadcasters, OrderUpdate
  <1>7. ASSUME NEW coin \in BookCoins, Publish("market", BookUpdate(published + 1, coin))
        PROVE  Goal
    <2>1. BookUpdate(published + 1, coin) \in Update
      BY <1>7, HubAssumption DEF Publish, BookUpdate, Update, TypeOK
    <2> QED
      BY <1>5, <1>7, <2>1 DEF Broadcasters, BookUpdate
  <1>8. CASE UNCHANGED vars
    BY <1>8 DEF vars
  <1> QED
    BY <1>2, <1>3, <1>4, <1>6, <1>7, <1>8
    DEF Next, Step, Quiet, BroadcastOrderUpdate, SetBBO, BroadcastL2Book

\* In between, nothing becomes due to a connection; and a loop in progress only
\* gets shorter.
LEMMA DueStep ==
    ASSUME TypeOK, PlaceInv, LoopInv, SendInv, [Next]_vars, NEW b \in Broadcasters, ~Receive(b)
    PROVE  /\ \A c \in Conns : Due(b, c)' => Due(b, c)
           /\ InLoop(b) => todo'[b] \subseteq todo[b]
  <1> DEFINE Less == /\ \A c \in Conns : Due(b, c)' => Due(b, c)
                     /\ InLoop(b) => todo'[b] \subseteq todo[b]
  <1>0. /\ pc \in [Goroutines -> Places] /\ out \in [Goroutines -> Seq(Addressed)]
        /\ todo \in [Broadcasters -> SUBSET Conns]
        /\ Conns \subseteq Goroutines /\ Broadcasters \subseteq Goroutines
        /\ Conns \cap Broadcasters = {}
    BY Members
  \* A step that leaves the broadcaster's place alone, or only takes it through
  \* sendJSON.
  <1>a. ASSUME pc'[b] = pc[b] \/ pc'[b] \notin {"lock", "loop"},
               todo'[b] \subseteq todo[b],
               out'[b] = out[b] \/ out'[b] = << >>
        PROVE  Less
    BY <1>a DEF Due, Target, InLoop
  <1>b. out[b] # << >> => Tail(out[b]) = << >>
    <2>1. ASSUME out[b] # << >> PROVE Tail(out[b]) = << >>
      <3>1. Len(out[b]) = 1 /\ out[b] \in Seq(Addressed)
        BY <1>0, <2>1 DEF SendInv
      <3>2. Tail(out[b]) \in Seq(Addressed) /\ Len(Tail(out[b])) = 0
        BY <2>1, <3>1
      <3> QED
        BY <3>2, EmptySeq
    <2> QED
      BY <2>1
  <1> USE <1>0 DEF At, Go
  <1>1. ASSUME NEW g \in Goroutines, SendStep(g) PROVE Less
    <2>1. todo' = todo
      BY <1>1 DEF SendStep, FindConn, FindHeldBack, FindAdmitted, StartWrite, EndWrite
    <2>2. CASE FindConn(g)
      BY <1>a, <1>b, <2>1, <2>2 DEF FindConn, Found, Sending
    <2>3. CASE FindHeldBack(g)
      BY <1>a, <2>1, <2>3 DEF FindHeldBack, HeldBack
    <2>4. CASE FindAdmitted(g)
      BY <1>a, <1>b, <2>1, <2>4 DEF FindAdmitted, Found, Admitted, PlaceInv
    <2>5. CASE StartWrite(g)
      BY <1>a, <2>1, <2>5 DEF StartWrite
    <2>6. CASE EndWrite(g)
      BY <1>a, <1>b, <2>1, <2>6 DEF EndWrite, PlaceInv
    <2> QED
      BY <1>1, <2>2, <2>3, <2>4, <2>5, <2>6 DEF SendStep
  <1>2. CASE LoopLock(b) \/ LoopAdmitted(b)
    BY <1>2 DEF LoopLock, LoopAdmitted, Admitted, Due, InLoop
  <1>3. CASE Visit(b)
    <2>1. PICK c \in todo[b] : /\ todo' = [todo EXCEPT ![b] = @ \ {c}]
                               /\ out' = [out EXCEPT ![b] = ForConn(b, c)]
      BY <1>3 DEF Visit
    <2>2. pc' = pc
      BY <1>3 DEF Visit
    <2>3. out'[b] # << >> => Target(b)' = c
      <3>1. ASSUME ForConn(b, c) # << >> PROVE Head(ForConn(b, c)).to = c
        BY <3>1, VisitSends
      <3> QED
        BY <2>1, <3>1 DEF Target
    <2>4. c \in todo[b] /\ todo'[b] = todo[b] \ {c}
      BY <2>1
    <2>5. ASSUME NEW d \in Conns, Due(b, d)' PROVE Due(b, d)
      BY <2>2, <2>3, <2>4, <2>5 DEF Due
    <2> QED
      BY <2>4, <2>5
  <1>4. CASE LoopUnlock(b)
    BY <1>4, <1>a DEF LoopUnlock
  <1>5. ASSUME NEW d \in Broadcasters, d # b, BroadcasterStep(d), ~SendStep(d) PROVE Less
    <2>1. pc'[b] = pc[b] /\ todo'[b] = todo[b] /\ out'[b] = out[b]
      BY <1>5
      DEF BroadcasterStep, Receive, LoopLock, LoopAdmitted, Visit, LoopUnlock, Passes, HeldBack
    <2> QED
      BY <1>a, <2>1
  <1>6. ASSUME NEW c \in Conns, ConnStep(c), ~SendStep(c) PROVE Less
    BY <1>6, <1>a DEF ConnStep, LockConnections, Announce, Register, Deregister, ReadError
  <1>7. ASSUME NEW c \in Conns, HandleMessage(c) PROVE Less
    BY <1>7, <1>a DEF HandleMessage, Subscribe, Unsubscribe, Reject
  <1>8. ASSUME NEW c \in Conns, Connect(c) \/ HangUp(c) PROVE Less
    BY <1>8, <1>a DEF Connect, HangUp
  <1>9. CASE BroadcastOrderUpdate \/ SetBBO
    BY <1>9, <1>a DEF BroadcastOrderUpdate, SetBBO, BroadcastL2Book, Publish
  <1>10. CASE UNCHANGED vars
    BY <1>10, <1>a DEF vars
  <1> QED
    BY <1>1, <1>2, <1>3, <1>4, <1>5, <1>6, <1>7, <1>8, <1>9, <1>10
    DEF Next, Step, BroadcasterStep, ConnStep, Quiet

LEMMA StepQueue == TypeOK /\ QueueInv /\ [Next]_vars => QueueInv'
  <1> SUFFICES ASSUME TypeOK, QueueInv, [Next]_vars PROVE QueueInv'
    OBVIOUS
  <1>0. /\ current \in [Broadcasters -> Update] /\ channel \in [Broadcasters -> Seq(Update)]
        /\ published \in 0..MaxUpdates /\ MaxUpdates \in Nat
    BY HubAssumption DEF TypeOK
  <1>n. NoId \notin 1..MaxUpdates
    BY HubAssumption
  <1>1. \A b \in Broadcasters : Latest(b) \in Nat
    BY <1>0 DEF QueueInv, Latest
  <1>2. ASSUME NEW d \in Broadcasters, Receive(d) PROVE QueueInv'
    <2>1. /\ channel[d] # << >>
          /\ current' = [current EXCEPT ![d] = Head(channel[d])]
          /\ channel' = [channel EXCEPT ![d] = Tail(@)]
          /\ published' = published
      BY <1>2 DEF Receive, clientVars
    <2>2. ASSUME NEW b \in Broadcasters, b # d
          PROVE  channel'[b] = channel[b] /\ Latest(b)' = Latest(b)
      BY <1>0, <2>1, <2>2 DEF Latest
    <2>3. /\ 1 \in 1..Len(channel[d]) /\ Head(channel[d]) = channel[d][1]
          /\ Len(channel'[d]) = Len(channel[d]) - 1 /\ Len(channel[d]) \in Nat
          /\ \A i \in 1..Len(channel'[d]) : /\ channel'[d][i] = channel[d][i + 1]
                                            /\ i + 1 \in 1..Len(channel[d])
      BY <1>0, <2>1
    <2>4. Latest(d)' = channel[d][1].id /\ channel[d][1].id \in 1..published
      <3>1. channel[d][1].id \in 1..published
        BY <2>3 DEF QueueInv
      <3>2. channel[d][1].id # NoId
        BY <1>0, <1>n, <3>1
      <3> QED
        BY <1>0, <2>1, <2>3, <3>1, <3>2 DEF Latest
    <2>5. /\ \A i \in 1..Len(channel'[d]) : /\ channel'[d][i].id \in 1..published
                                            /\ channel[d][1].id < channel'[d][i].id
          /\ \A i, j \in 1..Len(channel'[d]) : i < j => channel'[d][i].id < channel'[d][j].id
      <3>1. ASSUME NEW i \in 1..Len(channel'[d])
            PROVE  /\ channel'[d][i].id \in 1..published
                   /\ channel[d][1].id < channel'[d][i].id
        <4>1. i + 1 \in 1..Len(channel[d]) /\ channel'[d][i] = channel[d][i + 1] /\ 1 < i + 1
          BY <2>3
        <4> QED
          BY <2>3, <4>1 DEF QueueInv
      <3>2. ASSUME NEW i \in 1..Len(channel'[d]), NEW j \in 1..Len(channel'[d]), i < j
            PROVE  channel'[d][i].id < channel'[d][j].id
        <4>1. /\ i + 1 \in 1..Len(channel[d]) /\ channel'[d][i] = channel[d][i + 1]
              /\ j + 1 \in 1..Len(channel[d]) /\ channel'[d][j] = channel[d][j + 1]
              /\ i + 1 < j + 1
          BY <2>3, <3>2
        <4> QED
          BY <4>1 DEF QueueInv
      <3> QED
        BY <3>1, <3>2
    <2>6. ASSUME NEW b \in Broadcasters
          PROVE  /\ current'[b].id # NoId => current'[b].id \in 1..published'
                 /\ \A i \in 1..Len(channel'[b]) :
                       /\ channel'[b][i].id \in 1..published'
                       /\ Latest(b)' < channel'[b][i].id
                 /\ \A i, j \in 1..Len(channel'[b]) :
                       i < j => channel'[b][i].id < channel'[b][j].id
      <3>1. CASE b = d
        <4>1. /\ Latest(b)' = channel[d][1].id /\ current'[b].id = channel[d][1].id
              /\ channel[d][1].id \in 1..published'
          BY <1>0, <2>1, <2>3, <2>4, <3>1
        <4> QED
          BY <2>1, <2>5, <3>1, <4>1
      <3>2. CASE b # d
        <4>1. current'[b] = current[b]
          BY <1>0, <2>1, <3>2
        <4> QED
          BY <2>1, <2>2, <3>2, <4>1 DEF QueueInv
      <3> QED
        BY <3>1, <3>2
    <2> QED
      BY <2>6 DEF QueueInv
  <1>3. ASSUME \A b \in Broadcasters : ~Receive(b),
               published' = published + 1,
               \/ channel' = channel
               \/ \E b \in Broadcasters, u \in Update :
                     u.id = published + 1 /\ channel' = [channel EXCEPT ![b] = Append(@, u)]
        PROVE  QueueInv'
    <2>1. \A b \in Broadcasters : Latest(b)' = Latest(b) /\ current'[b] = current[b]
      BY <1>3, CurrentStep DEF Latest
    <2>2. CASE channel' = channel
      BY <1>0, <1>1, <1>3, <2>1, <2>2 DEF QueueInv
    <2>3. ASSUME NEW d \in Broadcasters, NEW u \in Update, u.id = published + 1,
                 channel' = [channel EXCEPT ![d] = Append(@, u)]
          PROVE  QueueInv'
      <3>1. /\ Len(channel'[d]) = Len(channel[d]) + 1 /\ Len(channel[d]) \in Nat
            /\ channel'[d][Len(channel[d]) + 1] = u
            /\ \A i \in 1..Len(channel[d]) : channel'[d][i] = channel[d][i]
        BY <1>0, <2>3
      <3>2. \A b \in Broadcasters \ {d} : channel'[b] = channel[b]
        BY <1>0, <2>3
      <3>3. \A b \in Broadcasters : current'[b].id # NoId => current'[b].id \in 1..published'
        BY <1>0, <1>1, <1>3, <2>1 DEF QueueInv
      <3>4. ASSUME NEW i \in 1..Len(channel'[d])
            PROVE  channel'[d][i].id \in 1..published' /\ Latest(d)' < channel'[d][i].id
        <4>1. CASE i \in 1..Len(channel[d])
          <5>1. channel[d][i].id \in 1..published /\ Latest(d) < channel[d][i].id
            BY <4>1 DEF QueueInv
          <5> QED
            BY <1>0, <1>3, <2>1, <3>1, <4>1, <5>1
        <4>2. CASE i = Len(channel[d]) + 1
          <5>1. Latest(d) \in 0..published
            BY <1>0 DEF QueueInv, Latest
          <5> QED
            BY <1>0, <1>3, <2>1, <2>3, <3>1, <4>2, <5>1
        <4> QED
          BY <3>1, <4>1, <4>2
      <3>5. ASSUME NEW i \in 1..Len(channel'[d]), NEW j \in 1..Len(channel'[d]), i < j
            PROVE  channel'[d][i].id < channel'[d][j].id
        <4>1. CASE j \in 1..Len(channel[d])
          <5>1. /\ i \in 1..Len(channel[d]) /\ channel'[d][i] = channel[d][i]
                /\ channel'[d][j] = channel[d][j]
            BY <3>1, <3>5, <4>1
          <5> QED
            BY <3>5, <4>1, <5>1 DEF QueueInv
        <4>2. CASE j = Len(channel[d]) + 1
          <5>1. i \in 1..Len(channel[d])
            BY <3>1, <3>5, <4>2
          <5>2. channel[d][i].id \in 1..published
            BY <5>1 DEF QueueInv
          <5> QED
            BY <1>0, <2>3, <3>1, <4>2, <5>1, <5>2
        <4> QED
          BY <3>1, <4>1, <4>2
      <3>6. ASSUME NEW b \in Broadcasters \ {d}, NEW i \in 1..Len(channel'[b])
            PROVE  channel'[b][i].id \in 1..published' /\ Latest(b)' < channel'[b][i].id
        <4>1. channel[b][i].id \in 1..published /\ Latest(b) < channel[b][i].id
          BY <3>2 DEF QueueInv
        <4> QED
          BY <1>0, <1>3, <2>1, <3>2, <4>1
      <3> QED
        BY <3>2, <3>3, <3>4, <3>5, <3>6 DEF QueueInv
    <2> QED
      BY <1>3, <2>2, <2>3
  <1>4. ASSUME \A b \in Broadcasters : ~Receive(b), UNCHANGED <<channel, published>>
        PROVE  QueueInv'
    <2>1. \A b \in Broadcasters : Latest(b)' = Latest(b) /\ current'[b] = current[b]
      BY <1>4, CurrentStep DEF Latest
    <2> QED
      BY <1>4, <2>1 DEF QueueInv
  <1> QED
    BY <1>2, <1>3, <1>4, ChannelStep

LEMMA StepSend ==
    TypeOK /\ PlaceInv /\ LoopInv /\ SendInv /\ [Next]_vars => SendInv'
  <1> SUFFICES ASSUME TypeOK, PlaceInv, LoopInv, SendInv, [Next]_vars PROVE SendInv'
    OBVIOUS
  <1>0. /\ out \in [Goroutines -> Seq(Addressed)] /\ todo \in [Broadcasters -> SUBSET Conns]
        /\ Conns \subseteq Goroutines /\ Broadcasters \subseteq Goroutines
        /\ Conns \cap Broadcasters = {}
    BY Members
  <1>1. ASSUME NEW b \in Broadcasters, out'[b] # << >>
        PROVE  /\ Len(out'[b]) = 1
               /\ Target(b)' \notin todo'[b]
               /\ Kind(Head(out'[b]).msg) = b
               /\ Head(out'[b]).msg.id = current'[b].id
    <2>1. CASE out'[b] = out[b]
      <3>1. InLoop(b) /\ ~Receive(b)
        BY <1>1, <2>1 DEF LoopInv, InLoop, Receive, At
      <3>2. todo'[b] \subseteq todo[b] /\ current'[b] = current[b]
        BY <3>1, DueStep, CurrentStep
      <3> QED
        BY <1>1, <2>1, <3>2 DEF SendInv, Target
    <2>2. CASE out[b] # << >> /\ out'[b] = Tail(out[b])
      <3>1. Len(out[b]) = 1 /\ out[b] \in Seq(Addressed)
        BY <1>0, <2>2 DEF SendInv
      <3>2. out'[b] \in Seq(Addressed) /\ Len(out'[b]) = 0
        BY <2>2, <3>1
      <3> QED
        BY <1>1, <3>2, EmptySeq
    <2>3. CASE Visit(b)
      <3>1. PICK c \in todo[b] : /\ todo' = [todo EXCEPT ![b] = @ \ {c}]
                                 /\ out' = [out EXCEPT ![b] = ForConn(b, c)]
        BY <2>3 DEF Visit
      <3>2. out'[b] = ForConn(b, c) /\ c \notin todo'[b] /\ current' = current
        BY <1>0, <2>3, <3>1 DEF Visit
      <3>3. PICK p : /\ ForConn(b, c) = <<p>> /\ p.to = c
                     /\ p.msg.id = current[b].id /\ Kind(p.msg) = b
        BY <1>1, <3>2, VisitSends
      <3>4. Len(out'[b]) = 1 /\ Head(out'[b]) = p
        BY <3>2, <3>3
      <3> QED
        BY <3>2, <3>3, <3>4 DEF Target
    <2> QED
      BY <1>0, <2>1, <2>2, <2>3, OutStep
  <1>2. ASSUME NEW c \in Conns, NEW i \in 1..Len(out'[c]) PROVE out'[c][i].msg.id = NoId
    <2>1. CASE out'[c] = out[c]
      BY <2>1 DEF SendInv
    <2>2. CASE out[c] # << >> /\ out'[c] = Tail(out[c])
      <3>1. i + 1 \in 1..Len(out[c]) /\ out'[c][i] = out[c][i + 1]
        BY <1>0, <2>2
      <3> QED
        BY <3>1 DEF SendInv
    <2>3. CASE \A j \in 1..Len(out'[c]) : Own(c, out'[c][j])
      BY <2>3 DEF Own
    <2> QED
      BY <1>0, <2>1, <2>2, <2>3, OutStep
  <1> QED
    BY <1>1, <1>2 DEF SendInv

\* A message that is written is the broadcaster's update, which was due to this
\* connection until now, or no update at all.
LEMMA Written ==
    ASSUME TypeOK, PlaceInv, LoopInv, SendInv, NEW g \in Goroutines, EndWrite(g),
           out[g] # << >>, Head(out[g]).msg.id # NoId
    PROVE  /\ g \in Broadcasters /\ Kind(Head(out[g]).msg) = g
           /\ current[g].id # NoId
           /\ Head(out[g]).msg.id = Latest(g) /\ Latest(g)' = Latest(g)
           /\ Due(g, Target(g)) /\ \A c : c = Target(g) => ~Due(g, c)'
  <1>0. /\ out \in [Goroutines -> Seq(Addressed)] /\ pc \in [Goroutines -> Places]
        /\ \A h \in Goroutines : h \in Conns \/ h \in Broadcasters
    BY Members
  <1>1. g \in Broadcasters
    <2>1. ASSUME g \in Conns PROVE FALSE
      <3>1. 1 \in 1..Len(out[g]) /\ Head(out[g]) = out[g][1]
        BY <1>0
      <3> QED
        BY <2>1, <3>1 DEF SendInv
    <2> QED
      BY <1>0, <2>1
  <1>2. /\ Len(out[g]) = 1 /\ Target(g) \notin todo[g] /\ Kind(Head(out[g]).msg) = g
        /\ Head(out[g]).msg.id = current[g].id
    BY <1>1 DEF SendInv
  <1>3. out'[g] = Tail(out[g]) /\ pc'[g] = "run" /\ todo' = todo /\ current' = current
    BY <1>0 DEF EndWrite, Go
  <1>4. out'[g] = << >>
    <2>1. out'[g] \in Seq(Addressed) /\ Len(out'[g]) = 0
      BY <1>0, <1>2, <1>3
    <2> QED
      BY <2>1, EmptySeq
  <1>5. Due(g, Target(g))
    BY DEF Due
  <1>6. ASSUME NEW c, c = Target(g) PROVE ~Due(g, c)'
    BY <1>2, <1>3, <1>4, <1>6 DEF Due
  <1> QED
    BY <1>1, <1>2, <1>3, <1>5, <1>6 DEF Latest

LEMMA StepInbox ==
    TypeOK /\ PlaceInv /\ LoopInv /\ OrderInv /\ [Next]_vars => InboxInv' /\ InOrder'
  <1> SUFFICES ASSUME TypeOK, PlaceInv, LoopInv, QueueInv, SendInv, InboxInv, InOrder,
                      [Next]_vars
               PROVE  InboxInv' /\ InOrder'
    BY DEF OrderInv
  <1>0. /\ current \in [Broadcasters -> Update] /\ channel \in [Broadcasters -> Seq(Update)]
        /\ inbox \in [Conns -> Seq(Msg)] /\ out \in [Goroutines -> Seq(Addressed)]
        /\ published \in 0..MaxUpdates /\ MaxUpdates \in Nat
    BY HubAssumption DEF TypeOK
  <1>n. NoId \notin 1..MaxUpdates
    BY HubAssumption
  <1> DEFINE Old(c, i) == i \in 1..Len(inbox[c]) /\ inbox'[c][i] = inbox[c][i]
             New(b, c, i) == /\ i \notin 1..Len(inbox[c]) /\ Kind(inbox'[c][i]) = b
                             /\ current[b].id # NoId
                             /\ inbox'[c][i].id = Latest(b) /\ Latest(b)' = Latest(b)
                             /\ Due(b, c) /\ ~Due(b, c)'
                             /\ i = Len(inbox'[c])
  \* What a client has it had before, or it was due to it and no longer is.
  <1>1. ASSUME NEW c \in Conns, NEW i \in 1..Len(inbox'[c]), inbox'[c][i].id # NoId
        PROVE  Old(c, i) \/ \E b \in Broadcasters : New(b, c, i)
    <2>1. CASE inbox' = inbox
      BY <2>1
    <2>2. ASSUME NEW g \in Goroutines, EndWrite(g), out[g] # << >>,
                 inbox' = [inbox EXCEPT ![Target(g)] = Append(@, Head(out[g]).msg)]
          PROVE  Old(c, i) \/ \E b \in Broadcasters : New(b, c, i)
      <3>1. CASE i \in 1..Len(inbox[c])
        BY <1>0, <2>2, <3>1
      <3>2. CASE i \notin 1..Len(inbox[c])
        <4>1. /\ c = Target(g) /\ inbox'[c][i] = Head(out[g]).msg
              /\ i = Len(inbox'[c])
          BY <1>0, <2>2, <3>2
        <4>2. /\ g \in Broadcasters /\ Kind(Head(out[g]).msg) = g
              /\ current[g].id # NoId
              /\ Head(out[g]).msg.id = Latest(g) /\ Latest(g)' = Latest(g)
              /\ Due(g, Target(g)) /\ \A d : d = Target(g) => ~Due(g, d)'
          BY <1>1, <2>2, <4>1, Written
        <4>3. ~Due(g, c)' /\ Due(g, c)
          BY <4>1, <4>2
        <4> QED
          BY <3>2, <4>1, <4>2, <4>3
      <3> QED
        BY <3>1, <3>2
    <2> QED
      BY <2>1, <2>2, InboxStep
  <1>2. \A b \in Broadcasters : Latest(b) \in Nat
    BY <1>0 DEF QueueInv, Latest
  <1>3. ASSUME NEW b \in Broadcasters, NEW c \in Conns, NEW i \in 1..Len(inbox'[c]),
               inbox'[c][i].id # NoId, Kind(inbox'[c][i]) = b
        PROVE  /\ inbox'[c][i].id \in 1..Latest(b)'
               /\ Due(b, c)' => inbox'[c][i].id < Latest(b)'
    <2>1. CASE Old(c, i)
      <3>1. /\ inbox'[c][i].id \in 1..Latest(b)
            /\ Due(b, c) => inbox'[c][i].id < Latest(b)
        BY <1>3, <2>1 DEF InboxInv
      <3>2. CASE Receive(b)
        <4>1. /\ channel[b] # << >> /\ 1 \in 1..Len(channel[b])
              /\ current' = [current EXCEPT ![b] = Head(channel[b])]
              /\ Head(channel[b]) = channel[b][1]
          BY <1>0, <3>2 DEF Receive
        <4>2. Latest(b) < channel[b][1].id /\ channel[b][1].id \in 1..published
          BY <4>1 DEF QueueInv
        <4>3. Latest(b)' = channel[b][1].id
          <5>1. channel[b][1].id # NoId
            BY <1>0, <1>n, <4>2
          <5>2. current'[b] = channel[b][1]
            BY <1>0, <4>1
          <5> QED
            BY <5>1, <5>2 DEF Latest
        <4> QED
          BY <1>0, <1>2, <3>1, <4>2, <4>3
      <3>3. CASE ~Receive(b)
        <4>1. Latest(b)' = Latest(b) /\ (Due(b, c)' => Due(b, c))
          BY <3>3, CurrentStep, DueStep DEF Latest
        <4> QED
          BY <3>1, <4>1
      <3> QED
        BY <3>2, <3>3
    <2>2. ASSUME NEW d \in Broadcasters, New(d, c, i)
          PROVE  /\ inbox'[c][i].id \in 1..Latest(b)'
                 /\ Due(b, c)' => inbox'[c][i].id < Latest(b)'
      <3>1. d = b
        BY <1>3, <2>2
      <3>2. inbox'[c][i].id = Latest(b) /\ Latest(b)' = Latest(b) /\ ~Due(b, c)'
        BY <2>2, <3>1
      <3>3. Latest(b) \in 1..published
        BY <2>2, <3>1 DEF Latest, QueueInv
      <3> QED
        BY <3>2, <3>3
    <2> QED
      BY <1>1, <1>3, <2>1, <2>2
  <1>4. ASSUME NEW c \in Conns, NEW i \in 1..Len(inbox'[c]), NEW j \in 1..Len(inbox'[c]), i < j,
               inbox'[c][i].id # NoId, inbox'[c][j].id # NoId,
               Kind(inbox'[c][i]) = Kind(inbox'[c][j])
        PROVE  inbox'[c][i].id < inbox'[c][j].id
    <2>1. Old(c, i)
      BY <1>1, <1>4
    <2>2. CASE Old(c, j)
      BY <1>4, <2>1, <2>2 DEF InOrder
    <2>3. ASSUME NEW b \in Broadcasters, New(b, c, j)
          PROVE  inbox'[c][i].id < inbox'[c][j].id
      <3>1. Kind(inbox[c][i]) = b /\ inbox[c][i].id # NoId /\ Due(b, c)
        BY <1>4, <2>1, <2>3
      <3>2. inbox[c][i].id < Latest(b)
        BY <2>1, <3>1 DEF InboxInv
      <3> QED
        BY <2>1, <2>3, <3>2
    <2> QED
      BY <1>1, <1>4, <2>2, <2>3
  <1>5. InboxInv'
    BY <1>3 DEF InboxInv
  <1>6. InOrder'
    BY <1>4 DEF InOrder
  <1> QED
    BY <1>5, <1>6

\* On each connection updates of a kind arrive in the order of their publication
\* and none twice, however the two broadcasters and the read loop interleave,
\* connections come and go and subscriptions change (broadcastOrderUpdates,
\* broadcastL2Book, sendJSON).
THEOREM UpdatesInOrder == Spec => []InOrder
  <1>1. OrderInv /\ TypeOK /\ PlaceInv /\ LoopInv /\ [Next]_vars => OrderInv'
    BY StepQueue, StepSend, StepInbox DEF OrderInv
  <1>2. OrderInv => InOrder
    BY DEF OrderInv
  <1> QED
    BY <1>1, <1>2, InitOrder, Loops, PTL DEF Spec

-----------------------------------------------------------------------------
(***************************************************************************)
(* The answers that a client is owed.                                      *)
(*                                                                         *)
(* As long as a client is there, what it is owed is what it has been       *)
(* answered and then what its read loop still has to send: the loop takes  *)
(* no message before it has answered the last, the connection is in the    *)
(* map while the loop runs, and a broadcaster sends no answers.            *)
(***************************************************************************)
Counted(box) == Rank(box, Len(box))
Prefix(box, due) ==
    \A i \in 1..Len(box) :
        box[i].id = NoId => Rank(box, i) \in 1..Len(due) /\ box[i] = due[Rank(box, i)]
Rest(box, due, sending) ==
    /\ Len(due) = Counted(box) + Len(sending)
    /\ \A i \in 1..Len(sending) : sending[i].msg = due[Counted(box) + i]

Present == {"run", "find", "write", "writing", "leave", "leaving"}
ReplyOf(c) ==
    /\ pc[c] = "off" => c \notin up /\ inbox[c] = << >> /\ owed[c] = << >> /\ out[c] = << >>
    /\ pc[c] \in Present => c \in connections
    /\ \A i \in 1..Len(out[c]) : out[c][i].to = c
    /\ Prefix(inbox[c], owed[c])
    /\ c \in up => Rest(inbox[c], owed[c], out[c])
Numbered ==
    \A b \in Broadcasters :
        /\ pc[b] # "receive" => current[b].id # NoId
        /\ \A i \in 1..Len(channel[b]) : channel[b][i].id # NoId
ReplyInv == Numbered /\ \A c \in Conns : ReplyOf(c)

\* The place of a message among the answers.
LEMMA RankType ==
    ASSUME NEW box, NEW i \in Nat
    PROVE  /\ Rank(box, i) \in Nat
           /\ IsFiniteSet({j \in 1..i : box[j].id = NoId})
  <1> DEFINE own == {j \in 1..i : box[j].id = NoId}
  <1>1. IsFiniteSet(1..i) /\ own \in SUBSET (1..i)
    BY FS_Interval
  <1> HIDE DEF own
  <1>2. IsFiniteSet(own)
    BY <1>1, FS_Subset
  <1>3. Cardinality(own) \in Nat
    BY <1>2, FS_CardinalityType
  <1> QED
    BY <1>2, <1>3 DEF Rank, own

LEMMA RankAppend ==
    ASSUME NEW box \in Seq(Msg), NEW m \in Msg
    PROVE  /\ \A i \in 1..Len(box) : Rank(Append(box, m), i) = Rank(box, i)
           /\ Rank(Append(box, m), Len(box)) = Counted(box)
           /\ m.id = NoId => Counted(Append(box, m)) = Counted(box) + 1
           /\ m.id # NoId => Counted(Append(box, m)) = Counted(box)
  <1> DEFINE n == Len(box)
             longer == Append(box, m)
             own(s, i) == {j \in 1..i : s[j].id = NoId}
  <1>1. /\ n \in Nat /\ Len(longer) = n + 1 /\ longer[n + 1] = m
        /\ \A j \in 1..n : longer[j] = box[j]
    OBVIOUS
  <1> HIDE DEF n, longer
  <1>2. ASSUME NEW i \in 0..n PROVE Rank(longer, i) = Rank(box, i)
    <2>1. own(longer, i) = own(box, i)
      BY <1>1
    <2> HIDE DEF own
    <2>2. Cardinality(own(longer, i)) = Cardinality(own(box, i))
      BY <2>1, Zenon
    <2> QED
      BY <2>2 DEF own, Rank
  <1>3. n \in 0..n /\ (1..n) \subseteq (0..n)
    BY <1>1
  <1>4. Counted(longer) = Cardinality(own(longer, n + 1)) /\ Counted(box) = Cardinality(own(box, n))
    BY <1>1 DEF Counted, Rank, n
  <1>5. CASE m.id = NoId
    <2>1. own(longer, n + 1) = own(box, n) \cup {n + 1} /\ n + 1 \notin own(box, n)
      BY <1>1, <1>5
    <2>2. IsFiniteSet(own(box, n))
      BY <1>1, RankType
    <2> HIDE DEF own
    <2>3. Cardinality(own(box, n) \cup {n + 1}) = Cardinality(own(box, n)) + 1
      BY <2>1, <2>2, FS_AddElement
    <2>4. Cardinality(own(longer, n + 1)) = Cardinality(own(box, n) \cup {n + 1})
      BY <2>1, Zenon
    <2> QED
      BY <1>2, <1>3, <1>4, <1>5, <2>3, <2>4 DEF longer, n, Counted
  <1>6. CASE m.id # NoId
    <2>1. own(longer, n + 1) = own(box, n)
      BY <1>1, <1>6
    <2> HIDE DEF own
    <2>2. Cardinality(own(longer, n + 1)) = Cardinality(own(box, n))
      BY <2>1, Zenon
    <2> QED
      BY <1>2, <1>3, <1>4, <1>6, <2>2 DEF longer, n, Counted
  <1> QED
    BY <1>5, <1>6

\* The next answer arrives.
LEMMA AnswerArrives ==
    ASSUME NEW box \in Seq(Msg), NEW due \in Seq(Msg), NEW sending \in Seq(Addressed),
           sending # << >>, Prefix(box, due), Rest(box, due, sending),
           Head(sending).msg \in Msg, Head(sending).msg.id = NoId
    PROVE  /\ Prefix(Append(box, Head(sending).msg), due)
           /\ Rest(Append(box, Head(sending).msg), due, Tail(sending))
  <1> DEFINE m == Head(sending).msg
             n == Len(box)
             k == Counted(box)
             longer == Append(box, m)
             tail == Tail(sending)
  <1>0. n \in Nat /\ Len(due) \in Nat /\ Len(sending) \in Nat \ {0} /\ k \in Nat
    <2>1. n \in Nat /\ Len(due) \in Nat /\ Len(sending) \in Nat /\ Len(sending) # 0
      BY EmptySeq
    <2>2. k \in Nat
      BY <2>1, RankType DEF Counted
    <2> QED
      BY <2>1, <2>2
  <1>1. /\ Len(tail) = Len(sending) - 1 /\ Head(sending) = sending[1]
        /\ \A i \in 1..Len(tail) : tail[i] = sending[i + 1]
    BY <1>0
  <1>2. Len(longer) = n + 1 /\ longer[n + 1] = m /\ \A j \in 1..n : longer[j] = box[j]
    OBVIOUS
  <1>3. /\ \A i \in 1..n : Rank(longer, i) = Rank(box, i)
        /\ Counted(longer) = k + 1 /\ Rank(longer, n + 1) = k + 1
    BY <1>2, RankAppend DEF Counted
  <1>4. /\ Len(due) = k + Len(sending)
        /\ \A i \in 1..Len(sending) : sending[i].msg = due[k + i]
    BY DEF Rest
  <1>5. m = due[k + 1] /\ k + 1 \in 1..Len(due)
    BY <1>0, <1>1, <1>4
  <1> HIDE DEF m, n, k, longer, tail
  <1>6. ASSUME NEW i \in 1..Len(longer), longer[i].id = NoId
        PROVE  Rank(longer, i) \in 1..Len(due) /\ longer[i] = due[Rank(longer, i)]
    <2>1. CASE i \in 1..n
      BY <1>2, <1>3, <1>6, <2>1 DEF Prefix, n
    <2>2. CASE i = n + 1
      BY <1>2, <1>3, <1>5, <2>2
    <2> QED
      BY <1>0, <1>2, <2>1, <2>2
  <1>7. Len(due) = Counted(longer) + Len(tail)
    BY <1>0, <1>1, <1>3, <1>4
  <1>8. ASSUME NEW i \in 1..Len(tail) PROVE tail[i].msg = due[Counted(longer) + i]
    <2>1. i + 1 \in 1..Len(sending) /\ k + (i + 1) = Counted(longer) + i
      BY <1>0, <1>1, <1>3
    <2> QED
      BY <1>1, <1>4, <2>1
  <1>9. Prefix(longer, due)
    BY <1>6 DEF Prefix
  <1>10. Rest(longer, due, tail)
    BY <1>7, <1>8 DEF Rest
  <1> QED
    BY <1>9, <1>10 DEF longer, tail, m

\* An update arrives.
LEMMA UpdateArrives ==
    ASSUME NEW box \in Seq(Msg), NEW due \in Seq(Msg), NEW sending, NEW m \in Msg,
           m.id # NoId, Prefix(box, due), Rest(box, due, sending)
    PROVE  Prefix(Append(box, m), due) /\ Rest(Append(box, m), due, sending)
  <1> DEFINE n == Len(box)
             longer == Append(box, m)
  <1>1. /\ n \in Nat /\ Len(longer) = n + 1 /\ longer[n + 1] = m
        /\ \A j \in 1..n : longer[j] = box[j]
    OBVIOUS
  <1>2. (\A i \in 1..n : Rank(longer, i) = Rank(box, i)) /\ Counted(longer) = Counted(box)
    BY RankAppend
  <1> HIDE DEF longer
  <1>3. ASSUME NEW i \in 1..Len(longer), longer[i].id = NoId
        PROVE  Rank(longer, i) \in 1..Len(due) /\ longer[i] = due[Rank(longer, i)]
    <2>1. i \in 1..n
      BY <1>1, <1>3
    <2> QED
      BY <1>1, <1>2, <1>3, <2>1 DEF Prefix
  <1>4. Prefix(longer, due)
    BY <1>3 DEF Prefix
  <1>5. Rest(longer, due, sending)
    BY <1>2 DEF Rest
  <1> QED
    BY <1>4, <1>5 DEF longer

\* More is owed.
LEMMA MoreOwed ==
    ASSUME NEW box \in Seq(Msg), NEW due \in Seq(Msg), NEW more \in Seq(Msg),
           NEW c, NEW new, Carries(c, new, more), Prefix(box, due)
    PROVE  /\ Prefix(box, due \o more)
           /\ Len(due) = Counted(box) => Rest(box, due \o more, new)
  <1> DEFINE all == due \o more
  <1>1. /\ Len(due) \in Nat /\ Len(more) \in Nat /\ Len(all) = Len(due) + Len(more)
        /\ \A i \in 1..Len(due) : all[i] = due[i]
        /\ \A i \in 1..Len(more) : all[Len(due) + i] = more[i]
    OBVIOUS
  <1> HIDE DEF all
  <1>2. Prefix(box, all)
    BY <1>1 DEF Prefix
  <1>3. ASSUME Len(due) = Counted(box) PROVE Rest(box, all, new)
    <2>1. Len(all) = Counted(box) + Len(new) /\ Len(new) = Len(more)
      BY <1>1, <1>3 DEF Carries
    <2>2. ASSUME NEW i \in 1..Len(new) PROVE new[i].msg = all[Counted(box) + i]
      <3>0. new[i] = To(c, more[i])
        BY DEF Carries
      <3>1. new[i].msg = more[i]
        BY <3>0 DEF To
      <3> QED
        BY <1>1, <1>3, <2>1, <3>1
    <2> QED
      BY <2>1, <2>2 DEF Rest
  <1> QED
    BY <1>2, <1>3 DEF all

LEMMA InitReply == Init => ReplyInv
  <1> SUFFICES ASSUME Init PROVE ReplyInv
    OBVIOUS
  <1>1. ASSUME NEW c \in Conns
        PROVE  /\ inbox[c] = << >> /\ owed[c] = << >> /\ out[c] = << >> /\ c \notin up
               /\ pc[c] = "off"
    BY DEF Init, Goroutines
  <1>2. ASSUME NEW c \in Conns PROVE ReplyOf(c)
    <2>1. Len(inbox[c]) = 0 /\ Len(out[c]) = 0
      BY <1>1
    <2> QED
      BY <1>1, <2>1 DEF ReplyOf, Prefix, Present
  <1>3. \A b \in Broadcasters : pc[b] = "receive" /\ Len(channel[b]) = 0
    BY HubAssumption DEF Init, Goroutines
  <1> QED
    BY <1>2, <1>3 DEF ReplyInv, Numbered

\* A step that leaves a connection's messages alone, and does not put its read
\* loop where it was not, or the connection out of the map.
LEMMA LeftAlone ==
    ASSUME NEW c \in Conns, ReplyOf(c),
           inbox'[c] = inbox[c], owed'[c] = owed[c], out'[c] = out[c],
           pc'[c] = "off" => pc[c] = "off",
           pc'[c] \in Present => (pc[c] \in Present /\ (c \in connections => c \in connections'))
                                   \/ c \in connections',
           c \in up' => c \in up
    PROVE  ReplyOf(c)'
  BY DEF ReplyOf

LEMMA SendReply ==
    ASSUME TypeOK, PlaceInv, LoopInv, SendInv, ReplyInv, NEW g \in Goroutines, SendStep(g),
           NEW c \in Conns
    PROVE  ReplyOf(c)'
  <1>0. /\ pc \in [Goroutines -> Places] /\ out \in [Goroutines -> Seq(Addressed)]
        /\ inbox \in [Conns -> Seq(Msg)] /\ owed \in [Conns -> Seq(Msg)]
        /\ c \in Goroutines /\ ReplyOf(c)
    BY Members DEF TypeOK, ReplyInv
  <1>1. ASSUME g \in Conns, out[g] # << >>
        PROVE  /\ Target(g) = g /\ 1 \in 1..Len(out[g]) /\ Head(out[g]) = out[g][1]
               /\ Head(out[g]).msg.id = NoId
    <2>1. 1 \in 1..Len(out[g]) /\ Head(out[g]) = out[g][1]
      BY <1>0, <1>1
    <2> QED
      BY <1>1, <2>1 DEF Target, ReplyInv, ReplyOf, SendInv
  <1>2. ASSUME out[g] # << >>, pc[g] \in {"run", "find"}, Found(g),
               UNCHANGED <<connections, up, owed, inbox>>
        PROVE  ReplyOf(c)'
    <2>1. CASE g # c
      <3>1. out'[c] = out[c] /\ pc'[c] = pc[c]
        BY <1>0, <1>2, <2>1 DEF Found, Go
      <3> QED
        BY <1>0, <1>2, <3>1, LeftAlone
    <2>2. CASE g = c
      <3>1. Target(g) \in connections
        BY <1>0, <1>1, <1>2, <2>2 DEF ReplyOf, Present
      <3>2. out' = out /\ pc'[c] = "write"
        BY <1>0, <1>2, <2>2, <3>1 DEF Found, Go
      <3>3. pc[c] \in Present /\ "write" # "off"
        BY <1>2, <2>2 DEF Present
      <3> QED
        BY <1>0, <1>2, <3>2, <3>3, LeftAlone
    <2> QED
      BY <2>1, <2>2
  <1>3. CASE FindConn(g)
    BY <1>2, <1>3 DEF FindConn, Sending, At, clientVars
  <1>4. CASE FindAdmitted(g)
    BY <1>2, <1>4 DEF FindAdmitted, Admitted, At, PlaceInv, clientVars
  <1>5. CASE FindHeldBack(g) \/ StartWrite(g)
    <2>1. /\ UNCHANGED <<connections, up, owed, inbox, out>>
          /\ pc[g] \in {"run", "write"} /\ pc' \in {[pc EXCEPT ![g] = p] : p \in {"find", "writing"}}
      BY <1>5 DEF FindHeldBack, HeldBack, StartWrite, Sending, At, Go, clientVars
    <2>2. /\ pc'[c] = "off" => pc[c] = "off"
          /\ pc'[c] \in Present => pc[c] \in Present
      BY <1>0, <2>1 DEF Present
    <2> QED
      BY <1>0, <2>1, <2>2, LeftAlone
  <1>6. CASE EndWrite(g)
    <2>0. /\ out[g] # << >> /\ pc[g] = "writing" /\ UNCHANGED <<connections, up, owed>>
          /\ pc' = [pc EXCEPT ![g] = "run"] /\ out' = [out EXCEPT ![g] = Tail(@)]
          /\ inbox' = IF Target(g) \in up
                      THEN [inbox EXCEPT ![Target(g)] = Append(@, Head(out[g]).msg)]
                      ELSE inbox
      BY <1>6 DEF EndWrite, PlaceInv, At, Go, clientVars
    <2>1. Head(out[g]).msg \in Msg
      BY <2>0, FirstMessage
    <2>2. CASE g = c
      <3>1. Target(g) = c /\ Head(out[c]).msg.id = NoId
        BY <1>1, <2>0, <2>2
      <3>2. out'[c] = Tail(out[c]) /\ pc'[c] = "run" /\ pc[c] \in Present
        BY <1>0, <2>0, <2>2 DEF Present
      <3>3. \A i \in 1..Len(out'[c]) : out'[c][i] = out[c][i + 1] /\ i + 1 \in 1..Len(out[c])
        BY <1>0, <2>0, <2>2, <3>2
      <3>4. CASE c \in up
        <4>1. inbox'[c] = Append(inbox[c], Head(out[c]).msg)
          BY <1>0, <2>0, <2>2, <3>1, <3>4
        <4>2. Prefix(inbox[c], owed[c]) /\ Rest(inbox[c], owed[c], out[c])
          BY <1>0, <3>4 DEF ReplyOf
        <4>3. /\ inbox[c] \in Seq(Msg) /\ owed[c] \in Seq(Msg) /\ out[c] \in Seq(Addressed)
              /\ out[c] # << >> /\ Head(out[c]).msg \in Msg
          BY <1>0, <2>0, <2>1, <2>2
        <4>4. Prefix(inbox'[c], owed'[c]) /\ Rest(inbox'[c], owed'[c], out'[c])
          <5>1. /\ Prefix(Append(inbox[c], Head(out[c]).msg), owed[c])
                /\ Rest(Append(inbox[c], Head(out[c]).msg), owed[c], Tail(out[c]))
            BY <3>1, <4>2, <4>3, AnswerArrives
          <5> QED
            BY <2>0, <3>2, <4>1, <5>1
        <4> QED
          BY <1>0, <2>0, <3>2, <3>3, <4>4 DEF ReplyOf, Present
      <3>5. CASE c \notin up
        <4>1. inbox' = inbox
          BY <2>0, <3>1, <3>5
        <4> QED
          BY <1>0, <2>0, <3>2, <3>3, <3>5, <4>1 DEF ReplyOf, Present
      <3> QED
        BY <3>4, <3>5
    <2>3. CASE g # c
      <3>1. out'[c] = out[c] /\ pc'[c] = pc[c]
        BY <1>0, <2>0, <2>3
      <3>2. CASE Target(g) = c /\ c \in up
        <4>1. inbox'[c] = Append(inbox[c], Head(out[g]).msg)
          BY <1>0, <2>0, <3>2
        <4>2. g \in Broadcasters
          BY <1>1, <2>0, <2>3, <3>2, Members
        <4>3. Head(out[g]).msg.id # NoId
          BY <2>0, <4>2 DEF SendInv, ReplyInv, Numbered
        <4>4. Prefix(inbox[c], owed[c]) /\ Rest(inbox[c], owed[c], out[c])
          BY <1>0, <3>2 DEF ReplyOf
        <4>5. Prefix(inbox'[c], owed'[c]) /\ Rest(inbox'[c], owed'[c], out'[c])
          <5>1. inbox[c] \in Seq(Msg) /\ owed[c] \in Seq(Msg)
            BY <1>0
          <5>2. /\ Prefix(Append(inbox[c], Head(out[g]).msg), owed[c])
                /\ Rest(Append(inbox[c], Head(out[g]).msg), owed[c], out[c])
            BY <2>1, <4>3, <4>4, <5>1, UpdateArrives
          <5> QED
            BY <2>0, <3>1, <4>1, <5>2
        <4> QED
          BY <1>0, <2>0, <3>1, <3>2, <4>5 DEF ReplyOf
      <3>3. CASE ~(Target(g) = c /\ c \in up)
        <4>1. inbox'[c] = inbox[c]
          BY <1>0, <2>0, <3>3
        <4> QED
          BY <1>0, <2>0, <3>1, <4>1, LeftAlone
      <3> QED
        BY <3>2, <3>3
    <2> QED
      BY <2>2, <2>3
  <1> QED
    BY <1>3, <1>4, <1>5, <1>6 DEF SendStep

\* A message is read and its answers are ready to be sent.
LEMMA HandleReply ==
    ASSUME TypeOK, ReplyInv, NEW d \in Conns, HandleMessage(d), NEW c \in Conns
    PROVE  ReplyOf(c)'
  <1>0. /\ out \in [Goroutines -> Seq(Addressed)] /\ owed \in [Conns -> Seq(Msg)]
        /\ inbox \in [Conns -> Seq(Msg)] /\ c \in Goroutines /\ ReplyOf(c)
    BY Members DEF TypeOK, ReplyInv
  <1>1. PICK m \in Asks : /\ Subscribe(d, m) \/ Unsubscribe(d, m) \/ Reject(d, m)
                          /\ owed' = [owed EXCEPT ![d] = @ \o Answers(m)]
    BY DEF HandleMessage
  <1>2. m \in Ask
    BY HubAssumption
  <1>3. /\ pc[d] = "run" /\ out[d] = << >> /\ UNCHANGED <<connections, pc, up, inbox>>
    BY DEF HandleMessage, Idle, At
  <1>4. PICK new : out' = [out EXCEPT ![d] = new] /\ Carries(d, new, Answers(m))
    <2>1. CASE Subscribe(d, m) \/ Reject(d, m)
      BY <1>2, <2>1, AnswersFollow
    <2>2. CASE Unsubscribe(d, m)
      <3>1. out' = [out EXCEPT ![d] = << >>] /\ Answers(m) = << >>
        BY <1>0, <1>2, <1>3, <2>2, AnswersFollow DEF Unsubscribe
      <3>2. Carries(d, << >>, << >>)
        BY DEF Carries
      <3> QED
        BY <3>1, <3>2
    <2> QED
      BY <1>1, <2>1, <2>2
  <1>5. CASE c # d
    <2>1. out'[c] = out[c] /\ owed'[c] = owed[c]
      BY <1>0, <1>1, <1>4, <1>5
    <2> QED
      BY <1>0, <1>3, <2>1, LeftAlone
  <1>6. CASE c = d
    <2>1. out'[c] = new /\ owed'[c] = owed[c] \o Answers(m)
      BY <1>0, <1>1, <1>4, <1>6
    <2>2. Answers(m) \in Seq(Msg)
      BY <1>2, AnswersFollow
    <2>3. Len(out[c]) = 0
      BY <1>3, <1>6
    <2>4. c \in up => Len(owed[c]) = Counted(inbox[c])
      <3>0. Len(inbox[c]) \in Nat
        BY <1>0
      <3>1. Counted(inbox[c]) \in Nat
        BY <3>0, RankType DEF Counted
      <3> QED
        BY <1>0, <2>3, <3>1 DEF ReplyOf, Rest
    <2>5. ASSUME NEW i \in 1..Len(new) PROVE new[i].to = c
      <3>1. new[i] = To(d, Answers(m)[i])
        BY <1>4 DEF Carries
      <3> QED
        BY <1>6, <3>1 DEF To
    <2>6. Prefix(inbox[c], owed[c])
      BY <1>0 DEF ReplyOf
    <2>7. /\ Prefix(inbox[c], owed'[c])
          /\ c \in up => Rest(inbox[c], owed'[c], new)
      <3>1. inbox[c] \in Seq(Msg) /\ owed[c] \in Seq(Msg)
        BY <1>0
      <3> QED
        BY <1>4, <2>1, <2>2, <2>4, <2>6, <3>1, MoreOwed
    <2>8. pc'[c] # "off" /\ (pc'[c] \in Present => c \in connections')
      BY <1>0, <1>3, <1>6 DEF ReplyOf
    <2> QED
      BY <1>3, <2>1, <2>5, <2>7, <2>8 DEF ReplyOf
  <1> QED
    BY <1>5, <1>6

LEMMA StepReply ==
    TypeOK /\ PlaceInv /\ LoopInv /\ SendInv /\ ReplyInv /\ [Next]_vars => ReplyInv'
  <1> SUFFICES ASSUME TypeOK, PlaceInv, LoopInv, SendInv, ReplyInv, [Next]_vars
               PROVE  ReplyInv'
    OBVIOUS
  <1>0. /\ pc \in [Goroutines -> Places] /\ out \in [Goroutines -> Seq(Addressed)]
        /\ current \in [Broadcasters -> Update] /\ channel \in [Broadcasters -> Seq(Update)]
        /\ \A c \in Conns : ReplyOf(c) /\ c \in Goroutines
        /\ Conns \subseteq Goroutines /\ Broadcasters \subseteq Goroutines
        /\ Conns \cap Broadcasters = {}
    BY Members DEF TypeOK, ReplyInv
  <1>1. ASSUME NEW b \in Broadcasters, pc'[b] # "receive" PROVE current'[b].id # NoId
    <2>1. CASE Receive(b)
      <3>1. /\ channel[b] # << >> /\ 1 \in 1..Len(channel[b]) /\ Head(channel[b]) = channel[b][1]
            /\ current'[b] = Head(channel[b])
        BY <1>0, <2>1 DEF Receive
      <3>2. channel[b][1].id # NoId
        BY <3>1 DEF ReplyInv, Numbered
      <3> QED
        BY <3>1, <3>2
    <2>2. CASE ~Receive(b)
      <3>1. current'[b] = current[b]
        BY <2>2, CurrentStep
      <3>2. ASSUME pc[b] = "receive" PROVE FALSE
        <4>1. ASSUME NEW g \in Goroutines, SendStep(g) PROVE pc'[b] = "receive"
          <5>1. pc[g] # "receive" /\ \E p : pc' = [pc EXCEPT ![g] = p]
            BY <4>1 DEF SendStep, FindConn, FindHeldBack, FindAdmitted, Found, HeldBack,
                        StartWrite, EndWrite, Sending, Admitted, At, Go
          <5> QED
            BY <1>0, <3>2, <5>1
        <4>2. ASSUME NEW d \in Broadcasters, BroadcasterStep(d), ~SendStep(d)
              PROVE  pc'[b] = "receive"
          <5>1. CASE d = b
            BY <2>2, <3>2, <4>2, <5>1
            DEF BroadcasterStep, LoopLock, LoopAdmitted, Admitted, Visit, LoopUnlock, At
          <5>2. CASE d # b
            BY <1>0, <3>2, <4>2, <5>2
            DEF BroadcasterStep, Receive, LoopLock, Passes, HeldBack, LoopAdmitted, Visit,
                LoopUnlock, Go
          <5> QED
            BY <5>1, <5>2
        <4>3. ASSUME NEW c \in Conns, ConnStep(c), ~SendStep(c) PROVE pc'[b] = "receive"
          BY <1>0, <3>2, <4>3
          DEF ConnStep, LockConnections, Announce, Register, Deregister, ReadError, Go
        <4>4. ASSUME NEW c \in Conns, HandleMessage(c) \/ Connect(c) \/ HangUp(c)
              PROVE  pc'[b] = "receive"
          BY <1>0, <3>2, <4>4 DEF HandleMessage, Connect, HangUp, Go
        <4>5. CASE BroadcastOrderUpdate \/ SetBBO \/ UNCHANGED vars
          BY <1>1, <3>2, <4>5 DEF BroadcastOrderUpdate, SetBBO, BroadcastL2Book, Publish, vars
        <4> QED
          BY <1>0, <1>1, <4>1, <4>2, <4>3, <4>4, <4>5 DEF Next, Step, Quiet
      <3> QED
        BY <3>1, <3>2 DEF ReplyInv, Numbered
    <2> QED
      BY <2>1, <2>2
  <1>3. ASSUME NEW b \in Broadcasters, NEW i \in 1..Len(channel'[b])
        PROVE  channel'[b][i].id # NoId
    <2>0. \A d \in Broadcasters : \A j \in 1..Len(channel[d]) : channel[d][j].id # NoId
      BY DEF ReplyInv, Numbered
    <2>1. CASE channel' = channel
      BY <1>3, <2>0, <2>1
    <2>2. ASSUME NEW d \in Broadcasters, Receive(d) PROVE channel'[b][i].id # NoId
      <3>1. channel[d] # << >> /\ channel' = [channel EXCEPT ![d] = Tail(@)]
        BY <2>2 DEF Receive
      <3>2. CASE b # d
        BY <1>0, <1>3, <2>0, <3>1, <3>2
      <3>3. CASE b = d
        <4>1. i + 1 \in 1..Len(channel[d]) /\ channel'[b][i] = channel[d][i + 1]
          BY <1>0, <1>3, <3>1, <3>3
        <4> QED
          BY <2>0, <4>1
      <3> QED
        BY <3>2, <3>3
    <2>3. ASSUME NEW d \in Broadcasters, NEW u \in Update, u.id \in 1..MaxUpdates,
                 channel' = [channel EXCEPT ![d] = Append(@, u)]
          PROVE  channel'[b][i].id # NoId
      <3>1. u.id # NoId
        BY <2>3, HubAssumption
      <3>2. channel'[b][i] = u \/ (i \in 1..Len(channel[b]) /\ channel'[b][i] = channel[b][i])
        BY <1>0, <1>3, <2>3
      <3> QED
        BY <2>0, <3>1, <3>2
    <2> QED
      BY <2>1, <2>2, <2>3, ChannelStep
  <1>2. ASSUME NEW c \in Conns PROVE ReplyOf(c)'
    <2>1. ASSUME NEW g \in Goroutines, SendStep(g) PROVE ReplyOf(c)'
      BY <2>1, SendReply
    <2>2. ASSUME NEW b \in Broadcasters, BroadcasterStep(b), ~SendStep(b) PROVE ReplyOf(c)'
      <3>1. c # b /\ pc'[c] = pc[c] /\ out'[c] = out[c]
        BY <1>0, <2>2
        DEF BroadcasterStep, Receive, LoopLock, Passes, HeldBack, LoopAdmitted, Visit,
            LoopUnlock, Go
      <3>2. UNCHANGED <<connections, up, owed, inbox>>
        BY <2>2
        DEF BroadcasterStep, Receive, LoopLock, LoopAdmitted, Visit, LoopUnlock, clientVars
      <3> QED
        BY <1>0, <3>1, <3>2, LeftAlone
    <2>3. ASSUME NEW d \in Conns, ConnStep(d), ~SendStep(d) PROVE ReplyOf(c)'
      <3>1. UNCHANGED <<up, owed, inbox, out>>
        BY <2>3
        DEF ConnStep, LockConnections, Register, Deregister, ReadError, clientVars
      <3>2. CASE LockConnections(d) \/ ReadError(d)
        <4>1. connections' = connections
          BY <3>2 DEF LockConnections, ReadError
        <4>2. /\ pc'[c] = "off" => pc[c] = "off"
              /\ pc'[c] \in Present => pc[c] \in Present
          BY <1>0, <3>2 DEF LockConnections, Announce, ReadError, Idle, At, Go, Present
        <4> QED
          BY <1>0, <3>1, <4>1, <4>2, LeftAlone
      <3>3. CASE Register(d)
        <4>1. c \in connections' \/ pc'[c] = pc[c]
          BY <1>0, <3>3 DEF Register, Go
        <4>2. connections \subseteq connections' /\ (pc'[c] = "off" => pc[c] = "off")
          BY <1>0, <3>3 DEF Register, Go
        <4> QED
          BY <1>0, <3>1, <4>1, <4>2, LeftAlone
      <3>4. CASE Deregister(d)
        <4>1. /\ pc'[c] = "off" => pc[c] = "off"
              /\ pc'[c] \in Present => pc[c] \in Present /\ c # d
          BY <1>0, <3>4 DEF Deregister, Go, Present
        <4>2. connections' = connections \ {d}
          BY <3>4 DEF Deregister
        <4> QED
          BY <1>0, <3>1, <4>1, <4>2, LeftAlone
      <3> QED
        BY <2>3, <3>2, <3>3, <3>4 DEF ConnStep
    <2>4. ASSUME NEW d \in Conns, HandleMessage(d) PROVE ReplyOf(c)'
      BY <2>4, HandleReply
    <2>5. ASSUME NEW d \in Conns, Connect(d) PROVE ReplyOf(c)'
      <3>1. /\ UNCHANGED <<connections, out, owed, inbox>> /\ up' = up \cup {d}
            /\ pc[d] = "off" /\ pc' = [pc EXCEPT ![d] = "join"]
        BY <2>5 DEF Connect, At, Go
      <3>2. CASE c # d
        BY <1>0, <3>1, <3>2, LeftAlone
      <3>3. CASE c = d
        <4>1. inbox[c] = << >> /\ owed[c] = << >> /\ out[c] = << >>
          BY <1>0, <3>1, <3>3 DEF ReplyOf
        <4>2. Counted(<< >>) = 0 /\ Len(<< >>) = 0
          <5>1. {j \in 1..0 : << >>[j].id = NoId} = {}
            OBVIOUS
          <5>2. Cardinality({j \in 1..0 : << >>[j].id = NoId}) = Cardinality({})
            BY <5>1, Zenon
          <5>3. Counted(<< >>) = Cardinality({j \in 1..0 : << >>[j].id = NoId})
            BY DEF Counted, Rank
          <5> QED
            BY <5>2, <5>3, FS_EmptySet
        <4>3. Rest(inbox[c], owed[c], out[c])
          BY <4>1, <4>2 DEF Rest
        <4>4. pc'[c] = "join"
          BY <1>0, <3>1, <3>3
        <4> QED
          BY <1>0, <3>1, <4>3, <4>4 DEF ReplyOf, Present
      <3> QED
        BY <3>2, <3>3
    <2>6. ASSUME NEW d \in Conns, HangUp(d) PROVE ReplyOf(c)'
      <3>1. UNCHANGED <<connections, pc, out, owed, inbox>> /\ up' = up \ {d}
        BY <2>6 DEF HangUp
      <3> QED
        BY <1>0, <3>1, LeftAlone
    <2>7. CASE BroadcastOrderUpdate \/ SetBBO \/ UNCHANGED vars
      <3>1. UNCHANGED <<connections, pc, out, owed, inbox, up>>
        BY <2>7 DEF BroadcastOrderUpdate, SetBBO, BroadcastL2Book, Publish, vars, clientVars
      <3> QED
        BY <1>0, <3>1, LeftAlone
    <2> QED
      BY <1>0, <2>1, <2>2, <2>3, <2>4, <2>5, <2>6, <2>7 DEF Next, Step, Quiet
  <1> QED
    BY <1>1, <1>2, <1>3 DEF ReplyInv, Numbered

LEMMA AllAnswered == TypeOK /\ ReplyInv => RepliesComplete
  <1> SUFFICES ASSUME TypeOK, ReplyInv, NEW c \in Conns
               PROVE  /\ Prefix(inbox[c], owed[c])
                      /\ Idle(c) /\ c \in up => Counted(inbox[c]) = Len(owed[c])
    BY DEF RepliesComplete, Prefix, Counted
  <1>1. ReplyOf(c) /\ inbox[c] \in Seq(Msg)
    BY DEF ReplyInv, TypeOK
  <1>2. Counted(inbox[c]) \in Nat
    <2>1. Len(inbox[c]) \in Nat
      BY <1>1
    <2> QED
      BY <2>1, RankType DEF Counted
  <1>3. ASSUME Idle(c), c \in up PROVE Counted(inbox[c]) = Len(owed[c])
    <2>1. Len(out[c]) = 0
      BY <1>3 DEF Idle
    <2> QED
      BY <1>1, <1>2, <1>3, <2>1 DEF ReplyOf, Rest
  <1> QED
    BY <1>1, <1>3 DEF ReplyOf

\* A client that stays gets every answer to what it said, in its order and once,
\* whatever the broadcasters write between them, and one that leaves a part of
\* them from the first on (handleMessage, sendJSON): for any number of
\* connections, messages and updates.
THEOREM AnswersComplete == Spec => []RepliesComplete
  <1>1. OrderInv /\ TypeOK /\ PlaceInv /\ LoopInv /\ [Next]_vars => OrderInv'
    BY StepQueue, StepSend, StepInbox DEF OrderInv
  <1>2. OrderInv /\ TypeOK /\ PlaceInv /\ LoopInv /\ ReplyInv /\ [Next]_vars => ReplyInv'
    BY StepReply DEF OrderInv
  <1> QED
    BY <1>1, <1>2, AllAnswered, InitOrder, InitReply, Loops, PTL DEF Spec

-----------------------------------------------------------------------------
(***************************************************************************)
(* The manager with somebody else's channel.                               *)
(*                                                                         *)
(* What does not depend on how updates are numbered, in one invariant.  It *)
(* does not depend on who puts updates in the channel either, as long as   *)
(* they are updates and fit: Server puts the orders of the book there.     *)
(***************************************************************************)
HubInv ==
    /\ TypeOK /\ LockInv /\ PlaceInv /\ LoopInv /\ WriteInv
    /\ WalletInv /\ SendInv /\ ReplyInv /\ TurnInv

LEMMA InitHub == Init => HubInv
  BY InitTypes, InitLoop, InitWallet, InitOrder, InitReply, InitTurn DEF HubInv, OrderInv

LEMMA StepHub == HubInv /\ [Next]_vars => HubInv'
  <1>1. TypeOK /\ LockInv /\ PlaceInv /\ [Next]_vars => TypeOK' /\ LockInv' /\ PlaceInv'
    BY StepTypes, StepLock
  <1> QED
    BY <1>1, StepLoop, StepWrite, StepWallet, StepSend, StepReply, StepTurn DEF HubInv

\* Somebody puts updates in the channels.
LEMMA Fed ==
    ASSUME HubInv,
           UNCHANGED <<connections, lockVars, subVars, inWrite, pc, todo, current, out,
                       clientVars, inbox>>,
           channel' \in [Broadcasters -> Seq(Update)],
           \A b \in Broadcasters :
               /\ Len(channel'[b]) <= ChCap
               /\ \A i \in 1..Len(channel'[b]) : channel'[b][i].id # NoId
    PROVE  HubInv'
  <1> USE DEF lockVars, subVars, clientVars
  <1>1. TypeOK'
    BY DEF HubInv, TypeOK
  <1>2. LockInv' /\ PlaceInv'
    BY DEF HubInv, LockInv, PlaceInv, Holds, InLoop, IsAdmitted
  <1>3. LoopInv' /\ WriteInv'
    BY DEF HubInv, LoopInv, WriteInv, InLoop, Target
  <1>4. WalletInv'
    BY DEF HubInv, WalletInv
  <1>5. SendInv'
    BY DEF HubInv, SendInv, Target
  <1>6. ReplyInv'
    <2>1. \A c \in Conns : ReplyOf(c)'
      BY DEF HubInv, ReplyInv, ReplyOf
    <2> QED
      BY <2>1 DEF HubInv, ReplyInv, Numbered
  <1>7. TurnInv'
    BY DEF HubInv, TurnInv
  <1> QED
    BY <1>1, <1>2, <1>3, <1>4, <1>5, <1>6, <1>7 DEF HubInv

LEMMA HubPromises ==
    HubInv => LoopSeesMap /\ WalletIsolation /\ RepliesComplete /\ WorkGoesOn
  BY LoopStaysInMap, Isolated, AllAnswered, NotHeldUp DEF HubInv
=============================================================================
