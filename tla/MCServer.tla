------------------------------- MODULE MCServer -------------------------------
(***************************************************************************)
(* Constants for model-checking Server: orders of two wallets over one     *)
(* cloid, a fill, and a client that follows one of them.                   *)
(***************************************************************************)
EXTENDS Server

CONSTANTS w1, w2, btc

A == [kind |-> "hex", n |-> MaxInt64 + 1, upper |-> FALSE, prefix |-> "0x"]
AUpper == [A EXCEPT !.upper = TRUE, !.prefix = "0X"]

Entry1(c, px, sz) == [abbrev |-> TRUE, oid |-> NoOid, cloid |-> c, px |-> px,
                      sz |-> sz, ioc |-> FALSE]
Send(type, user, items) ==
    [type |-> type, list |-> TRUE, user |-> user, oid |-> NoOid, cloid |-> NoCloid,
     items |-> items]

MCRequests == {
    Send("order", Recovered(w1), <<Entry1(A, 1, 2)>>),
    Send("order", Recovered(w2), <<Entry1(AUpper, 2, 1)>>) }
MCFills == { [cloid |-> A, px |-> 2, size |-> 1] }

Say(method, user) == [method |-> method, type |-> "orderUpdates", user |-> user, coin |-> btc]
MCAsks == { Say("subscribe", Recovered(w1)) }
=============================================================================
