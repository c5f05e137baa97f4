------------------------------ MODULE MCLedger ------------------------------
(***************************************************************************)
(* Instances of Ledger for TLC: one order that swaps its own deposit, and  *)
(* others that are paid out of what the account holds.                     *)
(***************************************************************************)
EXTENDS Ledger

CONSTANTS o1, usdc, eth

AllUsdc == [o \in Orders |-> usdc]
FirstSwaps == [o \in Orders |-> IF o = o1 THEN eth ELSE usdc]
Two == [o \in Orders |-> 2]
One == [o \in Orders |-> 1]
Funded == [t \in Tokens |-> IF t = eth THEN 1 ELSE 0]

=============================================================================
