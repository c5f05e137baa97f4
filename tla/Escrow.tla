------------------------------- MODULE Escrow -------------------------------
(***************************************************************************)
(* What the solver promises about the money of an order, with nothing of   *)
(* how: it holds the order's deposit, it may trade with it, and it lets go *)
(* of it at most once, to pay the user or to send the deposit back.        *)
(* OrderLifecycle implements this (held is the set of attached deposits,   *)
(* moves the solver's successful transactions in chain order).             *)
(***************************************************************************)
EXTENDS Sequences

CONSTANT Orders

VARIABLES held, moves

Trades == {"swap", "rebalance"}
Disbursements == {"payout", "refund", "refundOutput"}

Disbursed(o) ==
    \E i \in DOMAIN moves : moves[i].order = o /\ moves[i].kind \in Disbursements

Init == held = {} /\ moves = <<>>

Hold(o) ==
    /\ o \notin held
    /\ held' = held \cup {o}
    /\ UNCHANGED moves

Trade(o) ==
    /\ o \in held
    /\ \E kind \in Trades : moves' = Append(moves, [order |-> o, kind |-> kind])
    /\ UNCHANGED held

Disburse(o) ==
    /\ o \in held /\ ~Disbursed(o)
    /\ \E kind \in Disbursements : moves' = Append(moves, [order |-> o, kind |-> kind])
    /\ UNCHANGED held

Next == \E o \in Orders : Hold(o) \/ Trade(o) \/ Disburse(o)

Spec == Init /\ [][Next]_<<held, moves>>

=============================================================================
