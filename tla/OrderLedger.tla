----------------------------- MODULE OrderLedger -----------------------------
(***************************************************************************)
(* What the order book promises, stated without keys to scan, locks or     *)
(* channels: an append-only ledger with one line per oid ever handed out.  *)
(*                                                                         *)
(* A line carries the key of its order and the order itself, until a newer *)
(* order of the same key retires it.  Every step touches one line only     *)
(* (placing an order also retires the line it displaces), oids are handed  *)
(* out once and in order, the owner and key of a line never change, and a  *)
(* retired line stays retired.                                             *)
(***************************************************************************)
EXTENDS Integers, Sequences

CONSTANTS FirstOid,  \* the oid of the ledger's first line
          Retired    \* in place of the order of a displaced line

VARIABLE ledger      \* Seq([key, order])

LedgerInit == ledger = << >>

Lines == 1..Len(ledger)
LiveLine(i) == ledger[i].order # Retired

\* A new line: open, numbered by its place, retiring its predecessor.
Place ==
    LET new == ledger'[Len(ledger) + 1]
    IN  /\ Len(ledger') = Len(ledger) + 1
        /\ new.order # Retired
        /\ new.order.oid = FirstOid + Len(ledger)
        /\ new.order.status = "open"
        /\ \A i \in Lines :
              ledger'[i] = IF ledger[i].key = new.key
                           THEN [ledger[i] EXCEPT !.order = Retired]
                           ELSE ledger[i]

\* Line i, a live one, is the only line a step changes, and it keeps its key.
OnlyLine(i) ==
    /\ LiveLine(i)
    /\ Len(ledger') = Len(ledger)
    /\ ledger'[i].key = ledger[i].key
    /\ ledger'[i].order # Retired
    /\ \A j \in Lines \ {i} : ledger'[j] = ledger[j]

\* An amended order keeps its status or is open again: the ledger does not say
\* which.
Amend(i) ==
    /\ OnlyLine(i)
    /\ LET old == ledger[i].order   new == ledger'[i].order
       IN  /\ new.status \in {old.status, "open"}
           /\ new = [old EXCEPT !.px = new.px, !.sz = new.sz, !.status = new.status]

Cancel(i) ==
    /\ OnlyLine(i)
    /\ ledger'[i].order = [ledger[i].order EXCEPT !.status = "canceled"]

\* A fill moves the size towards 0 and never past it, and completes the order
\* exactly when nothing is left.
Fill(i) ==
    /\ OnlyLine(i)
    /\ LET old == ledger[i].order   new == ledger'[i].order
       IN  /\ new.sz <= old.sz \/ new.sz = 0
           /\ new.sz >= 0
           /\ new = [old EXCEPT !.px = new.px, !.sz = new.sz,
                        !.status = IF new.sz = 0 THEN "filled" ELSE "open"]

LedgerNext ==
    \/ Place
    \/ \E i \in Lines : Amend(i) \/ Cancel(i) \/ Fill(i)

LedgerSpec == LedgerInit /\ [][LedgerNext]_ledger
=============================================================================
