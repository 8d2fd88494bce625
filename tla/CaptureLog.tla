------------------------------ MODULE CaptureLog ------------------------------
(***************************************************************************)
(* What the test server's request capture promises, stated without locks,  *)
(* flags or counters: a log that a test reads back after it has driven the *)
(* server.                                                                 *)
(*                                                                         *)
(* A request is settled once, in one step, between its arrival and its     *)
(* answer: it is appended to the log, or left out of it, which only the    *)
(* kinds in Optional and Never may be.  Clearing empties the log in one    *)
(* step, whatever is in flight.                                            *)
(***************************************************************************)
EXTENDS Sequences

CONSTANTS Slots,     \* requests in flight
          Kinds,     \* kinds of requests
          Optional,  \* those that may be left out
          Never      \* those that are always left out

VARIABLES log,       \* Seq(Kinds)
          phase      \* Slots -> [at : {"idle", "open", "settled"}, kind : Kinds]

LogInit == log = << >> /\ \A s \in Slots : phase[s].at = "idle"

Moves(s, from, to) ==
    /\ phase[s].at = from
    /\ phase'[s].at = to
    /\ \A t \in Slots \ {s} : phase'[t] = phase[t]
Keeps(s) == phase'[s].kind = phase[s].kind

Arrives(s) == Moves(s, "idle", "open") /\ UNCHANGED log
Logs(s) ==
    /\ Moves(s, "open", "settled") /\ Keeps(s)
    /\ phase[s].kind \notin Never
    /\ log' = Append(log, phase[s].kind)
LeavesOut(s) ==
    /\ Moves(s, "open", "settled") /\ Keeps(s)
    /\ phase[s].kind \in Optional \cup Never
    /\ UNCHANGED log
Answers(s) == Moves(s, "settled", "idle") /\ UNCHANGED log
Clears == log' = << >> /\ UNCHANGED phase

LogNext ==
    \/ \E s \in Slots : Arrives(s) \/ Logs(s) \/ LeavesOut(s) \/ Answers(s)
    \/ Clears

LogSpec == LogInit /\ [][LogNext]_<<log, phase>>
=============================================================================
