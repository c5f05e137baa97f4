------------------------- MODULE MCOrderLifecycle -------------------------
(***************************************************************************)
(* Instances of OrderLifecycle for TLC: which orders swap, bridge and have *)
(* an origin side, and what a Transfer log tells their payouts apart by.   *)
(***************************************************************************)
EXTENDS OrderClaims

None == {}
All == Orders

Distinct == [o \in Orders |-> o]

=============================================================================
