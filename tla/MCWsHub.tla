------------------------------- MODULE MCWsHub -------------------------------
(***************************************************************************)
(* Constants for model-checking WsHub.                                     *)
(***************************************************************************)
EXTENDS WsHub, TLC

\* Two wallets, one of them also in the mixed case of a checksum.
CONSTANTS u1, u1Mixed, u2, btc

lower == [a \in Spelled \cup {NoUser} |-> IF a = u1Mixed THEN u1 ELSE a]

Say(method, type, user) ==
    [method |-> method, type |-> type, user |-> user, coin |-> btc]

\* Subscriptions to orders that come, change and go, one to the best prices,
\* and a refused message.
ChangingAsks == { Say("subscribe", "orderUpdates", u1Mixed), Say("subscribe", "orderUpdates", u2),
                  Say("unsubscribe", "orderUpdates", u1), Say("subscribe", "bbo", u1),
                  Say("bad", "bbo", u1) }

\* Subscriptions to orders and to a book, and the end of the latter.
SteadyAsks == { Say("subscribe", "orderUpdates", u1Mixed), Say("subscribe", "l2Book", u1),
                Say("unsubscribe", "bbo", u1) }

BookAsks == { Say("subscribe", "l2Book", u1) }

\* Which connection is which makes no difference to an invariant.
Alike == Permutations(Conns)
=============================================================================
