----------------------------- MODULE MCDeposits -----------------------------
(***************************************************************************)
(* Instances of Deposits: what the orders' intents ask for, and symmetry.  *)
(***************************************************************************)
EXTENDS Deposits, TLC

\* Every intent asks for the same, which is when orders get in each other's way.
AskAlike == [o \in Orders |-> 2]

\* Sound where no temporal property is checked.
Alike == Permutations(Orders) \cup Permutations(Requests)
=============================================================================
