------------------------------ MODULE MCExchange ------------------------------
(***************************************************************************)
(* Constants for model-checking Exchange: the requests, a handful of each  *)
(* kind, chosen so that they collide: the same cloid in two spellings and  *)
(* from two wallets, references by oid, by a cloid that parses as an oid   *)
(* and by one that does not, orders without a cloid, a rejected IOC order. *)
(***************************************************************************)
EXTENDS Exchange, TLC

CONSTANTS w1, w2

\* A cloid too wide for an int64, and one whose digits are the first oid.
Wide == MaxInt64 + 1
Hex(digits, up, pre) == [kind |-> "hex", n |-> digits, upper |-> up, prefix |-> pre]
A == Hex(Wide, FALSE, "0x")
AUpper == Hex(Wide, TRUE, "0X")
OidLike == Hex(BaseOid + 1, FALSE, "0x")

Entry1(c, px, sz) == [abbrev |-> TRUE, oid |-> NoOid, cloid |-> c, px |-> px,
                      sz |-> sz, ioc |-> FALSE]
Full(it) == [it EXCEPT !.abbrev = FALSE]
ByOid(it, oid) == [it EXCEPT !.oid = oid]
Ioc(it) == [it EXCEPT !.ioc = TRUE]

Ask(type, user, items) ==
    [type |-> type, list |-> TRUE, user |-> user, oid |-> NoOid,
     cloid |-> NoCloid, items |-> items]
Modify(user, oid, c, it) ==
    [Ask("modify", user, <<it>>) EXCEPT !.oid = oid, !.cloid = c, !.list = FALSE]

One == Recovered(w1)
Two == Recovered(w2)
First == BaseOid + 1

\* They race over one key and its first two oids: orders in both formats and
\* spellings, and everything that names them while they displace each other.
MCRequests == {
    Ask("order", One, <<Entry1(A, 1, 2)>>),
    Ask("order", Two, <<Full(Entry1(AUpper, 2, 1)), ByOid(Entry1(NoCloid, 3, 1), First)>>),
    Ask("order", Unsigned, <<Ioc(Entry1(NoCloid, 3, 1))>>),
    Ask("order", Unsigned, <<Ioc(Entry1(NoCloid, 1, 1))>>),
    Modify(One, NoOid, A, Entry1(NoCloid, 3, 2)),
    Modify(Two, NoOid, OidLike, Entry1(NoCloid, 3, 1)),
    Modify(Two, First + 1, NoCloid, Entry1(NoCloid, 1, 2)),
    [Modify(One, NoOid, NoCloid, Entry1(A, 1, 1)) EXCEPT !.items = << >>],
    Ask("batchModify", Two, <<Full(Entry1(A, 2, 2))>>),
    Ask("cancel", One, <<ByOid(Entry1(NoCloid, 0, 0), First + 1), Entry1(AUpper, 0, 0)>>),
    [Ask("cancel", Two, <<Full(ByOid(Entry1(OidLike, 0, 0), First))>>) EXCEPT !.list = FALSE] }

MCFills == { [cloid |-> A, px |-> 2, size |-> 1] }

\* Which slot serves a request makes no difference.
Alike == Permutations(Handlers)

\* Two orders under one cloid.
CreateRequests == { Ask("order", One, <<Entry1(A, 1, 2)>>) }
\* A modify of an unknown oid, given a full-name order with a cloid of its own:
\* the oid that is injected is not read, and the cloid is not known either.
FullModifyRequests == { Modify(One, First, NoCloid, Full(Entry1(A, 3, 2))) }
NoFills == {}

\* An order that is filled and then modified.
ReopenRequests == { Ask("order", One, <<Entry1(A, 1, 2)>>),
                    Modify(One, NoOid, A, Entry1(NoCloid, 3, 2)) }
AllFilled == { [cloid |-> A, px |-> 2, size |-> Remaining] }
=============================================================================
