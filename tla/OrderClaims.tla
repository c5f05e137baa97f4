---------------------------- MODULE OrderClaims ----------------------------
(***************************************************************************)
(* What the source says of the order pipeline, in a comment or the README, *)
(* and OrderLifecycle refutes: each definition is a sentence of the source *)
(* as a property, with the place it stands at.                             *)
(***************************************************************************)
EXTENDS OrderLifecycle

\* executor.ts:260-261 "a fill that cannot happen is refunded immediately": an
\* order the fill gave up on as REFUNDING gets its refund.
RefusedFillIsRefunded ==
    \A o \in Orders : st[o] = "REFUNDING" ~> st[o] = "REFUNDED"

\* fill-queue.ts:61-62 "the order state machine is what actually makes a second
\* fill impossible": no order has two mined payouts.
FilledOnce ==
    \A i, j \in DOMAIN mined :
        mined[i] = mined[j] /\ mined[i].kind = "payout" => i = j

=============================================================================
