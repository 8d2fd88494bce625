------------------------------ MODULE CloidKeys ------------------------------
(***************************************************************************)
(* The spellings of client order ids and wallet addresses, and the two     *)
(* normalisations the server applies to them before it compares them       *)
(* (server/state.go canonicalizeCloidKey, server/handlers.go               *)
(* normalizeAddress).                                                      *)
(*                                                                         *)
(* A cloid is a string.  What the server's behaviour depends on is: the    *)
(* digits it carries (n), whether they are written in upper case, and      *)
(* whether and how it is prefixed.  kind "mock" stands for the generated   *)
(* strings "mock-<nanoseconds>", which are never hexadecimal.              *)
(***************************************************************************)
EXTENDS Integers

CONSTANTS Wallets,    \* wallets that sign requests
          NoWallet,   \* the "wallet" of a request whose signature is unusable
          NoCloid,    \* an absent (or empty) cloid
          MaxInt64    \* the largest number strconv.ParseInt(_, 16, 64) accepts

ASSUME KeysAssumption ==
    /\ NoWallet \notin Wallets
    /\ MaxInt64 \in Nat

(***************************************************************************)
(* Client order ids.                                                       *)
(***************************************************************************)
Cloid == [kind : {"hex", "mock"}, n : Nat, upper : BOOLEAN,
          prefix : {"", "0x", "0X"}]

\* A prefixed cloid loses its prefix and its case; one without a prefix is
\* taken as it is, upper case included.
canonicalizeCloidKey(c) ==
    IF c.prefix = "" THEN c
                     ELSE [c EXCEPT !.prefix = "", !.upper = FALSE]

Key == [kind : {"hex", "mock"}, n : Nat, upper : BOOLEAN, prefix : {""}]

\* The digits of a "0x" cloid read as an oid.  A 32-digit cloid whose upper
\* half is zero parses too; "0X" is not looked for.
LooksLikeOid(c) == c.prefix = "0x" /\ c.kind = "hex" /\ c.n <= MaxInt64

\* The cloid that the server invents for an order that carries none.
mockCloid(nanos) == [kind |-> "mock", n |-> nanos, upper |-> FALSE,
                     prefix |-> ""]

(***************************************************************************)
(* Wallet addresses: recovered ones carry the mixed-case EIP-55 checksum.  *)
(***************************************************************************)
Address == [wallet : Wallets \cup {NoWallet}, mixed : BOOLEAN]

normalizeAddress(a) == [a EXCEPT !.mixed = FALSE]

\* walletAddr = "" in HandleExchange, user = "" in an /info request.
Unsigned == [wallet |-> NoWallet, mixed |-> FALSE]
Recovered(w) == [wallet |-> w, mixed |-> TRUE]
=============================================================================
