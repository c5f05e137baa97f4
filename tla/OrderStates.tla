---------------------------- MODULE OrderStates ----------------------------
(***************************************************************************)
(* The order state machine of src/src/orders/state-machine.ts: its states, *)
(* the transitions `transition` accepts, and the sets the executor and the *)
(* queue test a state against.  Every module about orders shares it.       *)
(***************************************************************************)

\* The states of `OrderState`, under their names in the source.
OrderState ==
    {"RECEIVED", "QUOTING", "QUOTED", "ACCEPTED", "AWAITING_DEPOSIT",
     "DEPOSIT_CONFIRMED", "FILLING", "FILLED", "SETTLING", "SETTLED",
     "QUOTE_FAILED", "EXPIRED", "CANCELLED", "FILL_FAILED", "PAYOUT_FAILED",
     "SETTLEMENT_FAILED", "REFUNDING", "REFUNDED", "REFUND_FAILED",
     "INSUFFICIENT_INVENTORY", "DEPOSIT_REORGED", "NEEDS_REVIEW"}

\* The `TRANSITIONS` table, as a relation: each state with the states it may
\* move to.  A state on no left-hand side is terminal.
Transitions ==
    ({"RECEIVED"}               \X {"QUOTING", "CANCELLED"})
    \cup ({"QUOTING"}           \X {"QUOTED", "QUOTE_FAILED", "CANCELLED"})
    \cup ({"QUOTED"}            \X {"ACCEPTED", "EXPIRED", "CANCELLED"})
    \cup ({"ACCEPTED"}          \X {"AWAITING_DEPOSIT", "EXPIRED", "CANCELLED"})
    \cup ({"AWAITING_DEPOSIT"}  \X {"DEPOSIT_CONFIRMED", "EXPIRED", "CANCELLED"})
    \cup ({"DEPOSIT_CONFIRMED"} \X {"FILLING", "INSUFFICIENT_INVENTORY", "CANCELLED"})
    \cup ({"FILLING"}           \X {"FILLED", "FILL_FAILED", "PAYOUT_FAILED",
                                    "REFUNDING", "NEEDS_REVIEW"})
    \cup ({"PAYOUT_FAILED"}     \X {"FILLING"})
    \cup ({"FILL_FAILED", "INSUFFICIENT_INVENTORY", "EXPIRED", "REFUND_FAILED"}
                                \X {"REFUNDING"})
    \cup ({"FILLED", "SETTLEMENT_FAILED"} \X {"SETTLING"})
    \cup ({"SETTLING"}          \X {"SETTLED", "SETTLEMENT_FAILED", "DEPOSIT_REORGED"})
    \cup ({"REFUNDING"}         \X {"REFUNDED", "REFUND_FAILED", "NEEDS_REVIEW"})

CanTransition(from, to) == <<from, to>> \in Transitions

IsTerminal(s) == \A t \in OrderState : ~CanTransition(s, t)

\* executor.ts REFUNDABLE: the states refund() acts on.
Refundable ==
    {"REFUNDING", "REFUND_FAILED", "FILL_FAILED", "INSUFFICIENT_INVENTORY", "EXPIRED"}

\* fill-queue.ts REFUND_STAGE: what execute() can leave behind that means the
\* deposit is held and goes back.
RefundStage == {"REFUNDING", "FILL_FAILED", "INSUFFICIENT_INVENTORY"}

=============================================================================
