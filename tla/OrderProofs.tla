----------------------------- MODULE OrderProofs -----------------------------
(***************************************************************************)
(* For every set of orders, every route and every bound: the pipeline's    *)
(* state is well typed, and every state an order is moved to is one        *)
(* `transition` accepts.  What makes the second so is StateAt: at each     *)
(* await the code knows the order's state, because nothing else moves an   *)
(* order its job is working on.                                            *)
(*                                                                         *)
(* Then what an order's record goes with: a process that does not lead     *)
(* works on no order but the one it recovers, a record past the deposit    *)
(* has one attached, and a reservation is held only while it may be spent. *)
(*                                                                         *)
(* Last, an order's deposit is disbursed at most once, after it was        *)
(* confirmed, and the records agree with the chain about it; so            *)
(* OrderLifecycle implements Escrow.                                       *)
(***************************************************************************)
EXTENDS OrderLifecycle, TLAPS

-----------------------------------------------------------------------------
(* Types.                                                                  *)

(* Memberships in the enumerated sets, so that no leaf below has to expand *)
(* them.                                                                   *)
LEMMA Labels ==
    /\ Stages \subseteq PCs
    /\ {"idle", "accepted", "unseen", "depth", "decided", "pin", "quoteCheck", "swap",
        "swapping", "pay", "paying", "paid", "present", "finality", "executed",
        "returning", "refundDepth", "sendRefund", "refunding", "returned",
        "rebalance", "rebalancing"} \subseteq PCs
    /\ {"deposit", "fill", "settle", "refund"} \subseteq Stages
  BY DEF PCs, Stages

LEMMA States ==
    {"AWAITING_DEPOSIT", "DEPOSIT_CONFIRMED", "EXPIRED", "INSUFFICIENT_INVENTORY",
     "FILLING", "FILLED", "FILL_FAILED", "PAYOUT_FAILED", "SETTLING", "SETTLED",
     "SETTLEMENT_FAILED", "DEPOSIT_REORGED", "REFUNDING", "REFUNDED",
     "REFUND_FAILED", "NEEDS_REVIEW"} \subseteq OrderState
  BY DEF OrderState

LEMMA TxKinds ==
    {"swap", "payout", "refund", "refundOutput", "rebalance"} \subseteq Kinds
  BY DEF Kinds


\* An advance to a state writes a state, accepted or not.
LEMMA AdvanceTypes ==
    ASSUME TypeOK, NEW o \in Orders, NEW s \in OrderState, Advance(o, s)
    PROVE  st' \in [Orders -> OrderState] /\ refused' \subseteq OrderState \X OrderState
  BY DEF TypeOK, Advance

LEMMA AwaitDepositTypes == ASSUME TypeOK, NEW o \in Orders, AwaitDeposit(o) PROVE TypeOK'
  <1> USE DEF vars, recordVars, jobVars, procVars, userVars, txVars, boundVars, world
  <1>1. CASE IgnoreDeposit(o)
    BY <1>1, Labels DEF TypeOK, IgnoreDeposit, At, Return, Wait, Goto
  <1>2. CASE FindDeposit(o)
    BY <1>2, Labels DEF TypeOK, FindDeposit, At, Goto
  <1>3. CASE FindNothing(o)
    BY <1>3, Labels DEF TypeOK, FindNothing, At, Goto
  <1>4. CASE KeepWatching(o)
    BY <1>4, Labels DEF TypeOK, KeepWatching, At, Wait, Goto
  <1>5. CASE ExpireUnpaid(o)
    <2>1. st' \in [Orders -> OrderState] /\ refused' \subseteq OrderState \X OrderState
      BY <1>5, States, AdvanceTypes DEF ExpireUnpaid
    <2>2. QED
      BY <1>5, Labels, <2>1 DEF TypeOK, ExpireUnpaid, At, Return, Wait, Goto
  <1>6. CASE DecideDeposit(o)
    <2>1. st' \in [Orders -> OrderState] /\ refused' \subseteq OrderState \X OrderState
      BY <1>6, States, AdvanceTypes DEF DecideDeposit
    <2>2. QED
      BY <1>6, Labels, <2>1 DEF TypeOK, DecideDeposit, At, Goto
  <1>7. CASE NextStage(o)
    BY <1>7, Labels DEF TypeOK, NextStage, At, Goto
  <1>8. QED BY <1>1, <1>2, <1>3, <1>4, <1>5, <1>6, <1>7 DEF AwaitDeposit

LEMMA ExecuteTypes == ASSUME TypeOK, NEW o \in Orders, Execute(o) PROVE TypeOK'
  <1> USE DEF vars, recordVars, jobVars, procVars, userVars, txVars, boundVars, world
  <1>1. CASE IgnoreExecute(o)
    BY <1>1, Labels DEF TypeOK, IgnoreExecute, At, Goto
  <1>2. CASE Reserve(o)
    BY <1>2, Labels DEF TypeOK, Reserve, At, Goto, Reservation
  <1>3. CASE ReserveRefused(o)
    <2>1. st' \in [Orders -> OrderState] /\ refused' \subseteq OrderState \X OrderState
      BY <1>3, States, AdvanceTypes DEF ReserveRefused
    <2>2. CASE CanTransition(st[o], "INSUFFICIENT_INVENTORY")
      <3>1. pc' \in [Orders -> PCs]
        BY <1>3, <2>2, Labels DEF TypeOK, ReserveRefused, Goto
      <3>2. UNCHANGED jobVars
        BY <1>3, <2>2 DEF ReserveRefused
      <3>3. QED
        BY <1>3, <2>1, <3>1, <3>2 DEF TypeOK, ReserveRefused
    <2>3. CASE ~CanTransition(st[o], "INSUFFICIENT_INVENTORY")
      <3>1. JobThrows(o)
        BY <1>3, <2>3 DEF ReserveRefused
      <3>2. pc' \in [Orders -> PCs] /\ stalls' = stalls
        BY <3>1, Labels DEF TypeOK, JobThrows, Goto
      <3>3. attempts' \in [Orders -> Nat]
        BY <3>1 DEF TypeOK, JobThrows
      <3>4. job' \in [Orders -> Stages \cup {"none", "done", "failed"}]
        BY <3>1 DEF TypeOK, JobThrows
      <3>5. QED
        BY <1>3, <2>1, <3>2, <3>3, <3>4 DEF TypeOK, ReserveRefused
    <2>4. QED
      BY <2>2, <2>3
  <1>4. CASE StartFilling(o)
    <2>1. st' \in [Orders -> OrderState] /\ refused' \subseteq OrderState \X OrderState
      BY <1>4, States, AdvanceTypes DEF StartFilling
    <2>2. fillFrom' \in [Orders -> Nat] /\ pc' \in [Orders -> PCs]
      BY <1>4, Labels DEF TypeOK, StartFilling, Goto
    <2>3. QED
      BY <1>4, <2>1, <2>2 DEF TypeOK, StartFilling
  <1>5. CASE QuoteHolds(o)
    BY <1>5, Labels DEF TypeOK, QuoteHolds, At, Goto
  <1>6. CASE QuoteRefused(o)
    <2>1. st' \in [Orders -> OrderState] /\ refused' \subseteq OrderState \X OrderState
      BY <1>6, States, AdvanceTypes DEF QuoteRefused
    <2>2. QED
      BY <1>6, Labels, <2>1 DEF TypeOK, QuoteRefused, At, Goto, Reservation
  <1>7. CASE SendSwap(o)
    BY <1>7, Labels, TxKinds DEF TypeOK, SendSwap, At, Goto, Broadcast, Tx
  <1>8. CASE SwapCovers(o)
    BY <1>8, Labels DEF TypeOK, SwapCovers, At, Goto
  <1>9. CASE SwapShort(o)
    <2>1. st' \in [Orders -> OrderState] /\ refused' \subseteq OrderState \X OrderState
      BY <1>9, States, AdvanceTypes DEF SwapShort
    <2>2. QED
      BY <1>9, Labels, <2>1 DEF TypeOK, SwapShort, At, Goto, Reservation
  <1>10. CASE SwapFails(o)
    <2>1. st' \in [Orders -> OrderState] /\ refused' \subseteq OrderState \X OrderState
      BY <1>10, States, AdvanceTypes DEF SwapFails
    <2>2. /\ pc' \in [Orders -> PCs] /\ faults' \in Nat /\ crashes' \in Nat
          /\ res' \in [Orders -> {"none", "held", "committed", "released"}]
      BY <1>10, Labels DEF TypeOK, SwapFails, Goto, Reservation, SendFails
    <2>3. QED
      BY <1>10, <2>1, <2>2 DEF TypeOK, SwapFails
  <1>11. CASE SendPayout(o)
    BY <1>11, Labels, TxKinds DEF TypeOK, SendPayout, At, Goto, Broadcast, Tx
  <1>12. CASE PayoutDone(o)
    BY <1>12, Labels DEF TypeOK, PayoutDone, At, Goto
  <1>13. CASE PayoutFails(o)
    <2>1. st' \in [Orders -> OrderState] /\ refused' \subseteq OrderState \X OrderState
      BY <1>13, States, AdvanceTypes DEF PayoutFails
    <2>2. /\ pc' \in [Orders -> PCs] /\ faults' \in Nat /\ crashes' \in Nat
          /\ res' \in [Orders -> {"none", "held", "committed", "released"}]
      BY <1>13, Labels DEF TypeOK, PayoutFails, Goto, Reservation, SendFails
    <2>3. QED
      BY <1>13, <2>1, <2>2 DEF TypeOK, PayoutFails
  <1>14. CASE PayoutGivenUp(o)
    <2>1. st' \in [Orders -> OrderState] /\ refused' \subseteq OrderState \X OrderState
      BY <1>14, States, AdvanceTypes DEF PayoutGivenUp
    <2>2. /\ pc' \in [Orders -> PCs] /\ faults' \in Nat /\ crashes' \in Nat
          /\ res' \in [Orders -> {"none", "held", "committed", "released"}]
      BY <1>14, Labels DEF TypeOK, PayoutGivenUp, Goto, Reservation, SendFails
    <2>3. QED
      BY <1>14, <2>1, <2>2 DEF TypeOK, PayoutGivenUp
  <1>15. CASE RecordFill(o)
    <2>1. st' \in [Orders -> OrderState] /\ refused' \subseteq OrderState \X OrderState
      BY <1>15, States, AdvanceTypes DEF RecordFill
    <2>2. QED
      BY <1>15, Labels, <2>1 DEF TypeOK, RecordFill, At, Goto, Reservation
  <1>16. QED
    BY <1>1, <1>2, <1>3, <1>4, <1>5, <1>6, <1>7, <1>8, <1>9, <1>10, <1>11,
       <1>12, <1>13, <1>14, <1>15 DEF Execute

LEMMA SettleTypes == ASSUME TypeOK, NEW o \in Orders, Settle(o) PROVE TypeOK'
  <1> USE DEF vars, recordVars, jobVars, procVars, userVars, txVars, boundVars, world
  <1>1. CASE StartSettling(o)
    <2>1. st' \in [Orders -> OrderState] /\ refused' \subseteq OrderState \X OrderState
      BY <1>1, States, AdvanceTypes DEF StartSettling
    <2>2. QED
      BY <1>1, Labels, <2>1 DEF TypeOK, StartSettling, At, Goto
  <1>2. CASE IgnoreSettle(o)
    BY <1>2, Labels DEF TypeOK, IgnoreSettle, At, Goto
  <1>3. CASE StillPresent(o)
    BY <1>3, Labels DEF TypeOK, StillPresent, At, Goto
  <1>4. CASE NoticeReorg(o)
    <2>1. st' \in [Orders -> OrderState] /\ refused' \subseteq OrderState \X OrderState
      BY <1>4, States, AdvanceTypes DEF NoticeReorg
    <2>2. QED
      BY <1>4, Labels, <2>1 DEF TypeOK, NoticeReorg, At, Goto
  <1>5. CASE PresenceUnknown(o)
    <2>1. st' \in [Orders -> OrderState] /\ refused' \subseteq OrderState \X OrderState
      BY <1>5, States, AdvanceTypes DEF PresenceUnknown
    <2>2. pc' \in [Orders -> PCs] /\ faults' \in Nat /\ crashes' \in Nat
      BY <1>5, Labels DEF TypeOK, PresenceUnknown, Goto, Fault
    <2>3. QED
      BY <1>5, <2>1, <2>2 DEF TypeOK, PresenceUnknown
  <1>6. CASE CheckFinality(o)
    <2>1. st' \in [Orders -> OrderState] /\ refused' \subseteq OrderState \X OrderState
      BY <1>6, States, AdvanceTypes DEF CheckFinality
    <2>2. QED
      BY <1>6, Labels, <2>1 DEF TypeOK, CheckFinality, At, Goto
  <1>7. QED BY <1>1, <1>2, <1>3, <1>4, <1>5, <1>6 DEF Settle

LEMMA AfterStageTypes == ASSUME TypeOK, NEW o \in Orders, AfterStage(o) PROVE TypeOK'
  <1> USE DEF vars, recordVars, jobVars, procVars, userVars, txVars, boundVars, world
  <1>1. CASE ComeBack(o)
    BY <1>1, Labels DEF TypeOK, ComeBack, At, Wait, Goto
  <1>2. CASE StoreRefundStage(o)
    BY <1>2, Labels DEF TypeOK, StoreRefundStage, At, Goto
  <1>3. CASE ReturnUnsettled(o)
    BY <1>3, Labels DEF TypeOK, ReturnUnsettled, At, Return, Wait, Goto
  <1>4. CASE GoOnToRebalance(o)
    BY <1>4, Labels DEF TypeOK, GoOnToRebalance, At, Goto
  <1>5. QED BY <1>1, <1>2, <1>3, <1>4 DEF AfterStage

LEMMA RefundTypes == ASSUME TypeOK, NEW o \in Orders, Refund(o) PROVE TypeOK'
  <1> USE DEF vars, recordVars, jobVars, procVars, userVars, txVars, boundVars, world
  <1>1. CASE IgnoreRefund(o)
    BY <1>1, Labels DEF TypeOK, IgnoreRefund, At, Return, Wait, Goto
  <1>2. CASE StartRefund(o)
    <2>1. st' \in [Orders -> OrderState] /\ refused' \subseteq OrderState \X OrderState
      BY <1>2, States, AdvanceTypes DEF StartRefund, TypeOK
    <2>2. QED
      BY <1>2, Labels, <2>1 DEF TypeOK, StartRefund, At, Goto
  <1>3. CASE RefundTooShallow(o)
    <2>1. st' \in [Orders -> OrderState] /\ refused' \subseteq OrderState \X OrderState
      BY <1>3, States, AdvanceTypes DEF RefundTooShallow
    <2>2. QED
      BY <1>3, Labels, <2>1 DEF TypeOK, RefundTooShallow, At, Wait, Goto
  <1>4. CASE RefundDeepEnough(o)
    BY <1>4, Labels DEF TypeOK, RefundDeepEnough, At, Goto
  <1>5. CASE SendRefund(o)
    BY <1>5, Labels, TxKinds, SMTT(30) DEF TypeOK, SendRefund, At, Goto, Broadcast, RefundKind, Tx
  <1>6. CASE RefundDone(o)
    BY <1>6, Labels DEF TypeOK, RefundDone, At, Goto
  <1>7. CASE RefundFails(o)
    <2>1. st' \in [Orders -> OrderState] /\ refused' \subseteq OrderState \X OrderState
      BY <1>7, States, AdvanceTypes DEF RefundFails
    <2>2. /\ pc' \in [Orders -> PCs] /\ faults' \in Nat /\ crashes' \in Nat
          /\ job' \in [Orders -> Stages \cup {"none", "done", "failed"}]
      BY <1>7, Labels DEF TypeOK, RefundFails, Wait, Goto, SendFails
    <2>3. QED
      BY <1>7, <2>1, <2>2 DEF TypeOK, RefundFails, Wait
  <1>8. CASE RecordRefund(o)
    <2>1. st' \in [Orders -> OrderState] /\ refused' \subseteq OrderState \X OrderState
      BY <1>8, States, AdvanceTypes DEF RecordRefund
    <2>2. QED
      BY <1>8, Labels, <2>1 DEF TypeOK, RecordRefund, At, Return, Wait, Goto
  <1>9. QED BY <1>1, <1>2, <1>3, <1>4, <1>5, <1>6, <1>7, <1>8 DEF Refund

LEMMA RebalanceTypes == ASSUME TypeOK, NEW o \in Orders, Rebalance(o) PROVE TypeOK'
  <1> USE DEF vars, recordVars, jobVars, procVars, userVars, txVars, boundVars, world
  <1>1. CASE SkipRebalance(o)
    BY <1>1, Labels DEF TypeOK, SkipRebalance, At, Return, Wait, Goto
  <1>2. CASE SendRebalance(o)
    <2>1. pc' \in [Orders -> PCs]
      BY <1>2, Labels DEF TypeOK, SendRebalance, Goto
    <2>2. /\ sends' \in [Orders -> Nat]
          /\ pending' \subseteq Tx
          /\ receipt' = [receipt EXCEPT ![o] = "none"] /\ UNCHANGED mined
      BY <1>2, TxKinds DEF TypeOK, SendRebalance, Broadcast, Tx
    <2>3. QED
      BY <1>2, <2>1, <2>2 DEF TypeOK, SendRebalance
  <1>3. CASE RebalanceDone(o)
    BY <1>3, Labels DEF TypeOK, RebalanceDone, At, Return, Wait, Goto
  <1>4. CASE RebalanceFails(o)
    <2>1. /\ attempts' \in [Orders -> Nat]
          /\ job' \in [Orders -> Stages \cup {"none", "done", "failed"}]
          /\ pc' \in [Orders -> PCs]
      BY <1>4, Labels DEF TypeOK, RebalanceFails, JobThrows, Goto
    <2>2. faults' \in Nat /\ crashes' \in Nat
      BY <1>4 DEF TypeOK, RebalanceFails, SendFails
    <2>3. QED BY <1>4, <2>1, <2>2 DEF TypeOK, RebalanceFails, JobThrows
  <1>5. QED BY <1>1, <1>2, <1>3, <1>4 DEF Rebalance

LEMMA RecoverTypes == ASSUME TypeOK, NEW o \in Orders, Recover(o) PROVE TypeOK'
  <1> USE DEF vars, recordVars, jobVars, procVars, userVars, txVars, boundVars, world
  <1>1. CASE RecoverFill(o)
    <2>1. st' \in [Orders -> OrderState] /\ refused' \subseteq OrderState \X OrderState
      BY <1>1, States, AdvanceTypes DEF RecoverFill
    <2>2. QED
      BY <1>1, Labels, <2>1 DEF TypeOK, RecoverFill, Goto, Reservation, Found,
          Recovering
  <1>2. CASE RecoverRefund(o)
    <2>1. st' \in [Orders -> OrderState] /\ refused' \subseteq OrderState \X OrderState
      BY <1>2, States, AdvanceTypes DEF RecoverRefund
    <2>2. QED
      BY <1>2, Labels, <2>1 DEF TypeOK, RecoverRefund, RefundKind, Found, Recovering
  <1>3. CASE HandToReview(o)
    <2>1. st' \in [Orders -> OrderState] /\ refused' \subseteq OrderState \X OrderState
      BY <1>3, States, AdvanceTypes DEF HandToReview, TypeOK
    <2>2. QED
      BY <1>3, Labels, <2>1 DEF TypeOK, HandToReview, RefundKind, Found, Recovering
  <1>4. CASE Recovered(o)
    BY <1>4, Labels DEF TypeOK, Recovered, At, Goto
  <1>5. QED BY <1>1, <1>2, <1>3, <1>4 DEF Recover

LEMMA WorksTypes == ASSUME TypeOK, NEW o \in Orders, Works(o) PROVE TypeOK'
  <1> USE DEF vars, recordVars, jobVars, procVars, userVars, txVars, boundVars, world
  <1>1. CASE Enqueue(o)
    BY <1>1, Labels DEF TypeOK, Enqueue, At, Wait, Goto
  <1>2. CASE PickUp(o)
    BY <1>2, Labels DEF TypeOK, PickUp, At, Goto
  <1>3. QED
    BY <1>1, <1>2, AwaitDepositTypes, ExecuteTypes, SettleTypes, AfterStageTypes,
       RefundTypes, RebalanceTypes, RecoverTypes DEF Works

LEMMA ProcessDiesTypes ==
    ASSUME TypeOK, ProcessDies, crashes' \in Nat, faults' \in Nat PROVE TypeOK'
  <1> USE DEF vars, recordVars, jobVars, procVars, userVars, txVars, boundVars, world
  <1>1. stalls' \in [Orders -> Nat]
    BY DEF TypeOK, ProcessDies
  <1>2. job' \in [Orders -> Stages \cup {"none", "done", "failed"}]
    BY DEF TypeOK, ProcessDies
  <1>3. pc' \in [Orders -> PCs]
    BY Labels DEF ProcessDies
  <1>4. QED
    BY <1>1, <1>2, <1>3 DEF TypeOK, ProcessDies

LEMMA ErrsTypes == ASSUME TypeOK, NEW o \in Orders, Errs(o) PROVE TypeOK'
  <1> USE DEF vars, recordVars, jobVars, procVars, userVars, txVars, boundVars, world
  <1>1. CASE DepositCheckFails(o)
    <2>1. pc' \in [Orders -> PCs] /\ faults' \in Nat /\ UNCHANGED crashes
      BY <1>1, Labels DEF TypeOK, DepositCheckFails, Wait, Goto, Fault
    <2>2. job' \in [Orders -> Stages \cup {"none", "done", "failed"}]
      BY <1>1, Labels DEF TypeOK, DepositCheckFails, Wait
    <2>3. QED
      BY <1>1, <2>1, <2>2 DEF TypeOK, DepositCheckFails, Wait
  <1>2. CASE Throw(o)
    BY <1>2, Labels DEF TypeOK, Throw, JobThrows, Goto, Fault
  <1>3. CASE RestoreThrows(o)
    <2>1. ProcessDies /\ crashes' \in Nat /\ faults' \in Nat
      BY <1>3 DEF TypeOK, RestoreThrows, Fault
    <2>2. QED BY <2>1, ProcessDiesTypes
  <1>4. QED BY <1>1, <1>2, <1>3 DEF Errs

LEMMA ChainTypes == ASSUME TypeOK, NEW o \in Orders, Chain(o) PROVE TypeOK'
  <1> USE DEF vars, recordVars, jobVars, procVars, userVars, txVars, boundVars, world
  <1>1. CASE TransferLands(o)
    BY <1>1 DEF TypeOK, TransferLands
  <1>2. CASE Bury(o)
    <2>1. depth \in [Orders -> 0..2] /\ depth[o] \in 0..1
      BY <1>2 DEF TypeOK, Bury
    <2>2. depth' \in [Orders -> 0..2]
      BY <1>2, <2>1 DEF Bury
    <2>3. QED BY <1>2, <2>2 DEF TypeOK, Bury
  <1>3. CASE Reorg(o)
    <2>1. PICK d \in {0, depth[o]} : depth' = [depth EXCEPT ![o] = d]
      BY <1>3 DEF Reorg
    <2>2. depth \in [Orders -> 0..2]
      BY DEF TypeOK
    <2>3. depth' \in [Orders -> 0..2]
      <3>1. d = 0 \/ d = depth[o]
        BY <2>1
      <3>2. depth[o] \in 0..2
        BY <2>2
      <3>3. d \in 0..2
        BY <3>1, <3>2
      <3>4. QED BY <2>1, <2>2, <3>3
    <2>4. transfer' \in [Orders -> {"unsent", "mined", "gone"}]
      BY <1>3 DEF TypeOK, Reorg
    <2>5. faults' \in Nat /\ crashes' \in Nat
      BY <1>3 DEF TypeOK, Reorg, Fault
    <2>6. QED BY <1>3, <2>3, <2>4, <2>5 DEF TypeOK, Reorg
  <1>4. CASE DeadlinePasses(o)
    BY <1>4 DEF TypeOK, DeadlinePasses
  <1>5. QED BY <1>1, <1>2, <1>3, <1>4 DEF Chain

LEMMA ReceiptTypes ==
    ASSUME TypeOK, NEW t \in pending,
           NEW status \in {"ok", "reverted"}, Receipt(t, status)
    PROVE  receipt' \in [Orders -> {"none", "ok", "reverted"}]
  BY DEF TypeOK, Receipt, Tx

LEMMA TxTypes == ASSUME TypeOK, NEW t \in pending, Mine(t) \/ Revert(t) PROVE TypeOK'
  <1> USE DEF vars, recordVars, jobVars, procVars, userVars, txVars, boundVars, world
  <1>1. t.order \in Orders /\ t.kind \in Kinds
    BY DEF TypeOK, Tx
  <1>2. CASE Mine(t)
    <2>1. mined' \in Seq([order : Orders, kind : Kinds])
      BY <1>1, <1>2 DEF TypeOK, Mine
    <2>2. receipt' \in [Orders -> {"none", "ok", "reverted"}]
      BY <1>2, ReceiptTypes DEF Mine
    <2>3. QED BY <1>2, <2>1, <2>2 DEF TypeOK, Mine
  <1>3. CASE Revert(t)
    <2>1. receipt' \in [Orders -> {"none", "ok", "reverted"}]
      BY <1>3, ReceiptTypes DEF Revert
    <2>2. QED BY <1>3, <2>1 DEF TypeOK, Revert, Fault
  <1>4. QED BY <1>2, <1>3

\* Every reachable state is well typed.
THEOREM TypeCorrect == Spec => []TypeOK
<1> USE DEF vars, recordVars, jobVars, procVars, userVars, txVars, boundVars, world
<1>1. Init => TypeOK
  BY Labels, States DEF Init, TypeOK
<1>2. TypeOK /\ [Next]_vars => TypeOK'
  <2> SUFFICES ASSUME TypeOK, [Next]_vars PROVE TypeOK'
    OBVIOUS
  <2>1. CASE Crash
    <3>1. ProcessDies /\ crashes' \in Nat /\ faults' \in Nat
      BY <2>1 DEF TypeOK, Crash
    <3>2. QED BY <3>1, ProcessDiesTypes
  <2>2. CASE Boot
    BY <2>2 DEF TypeOK, Boot
  <2>3. CASE StartWorker
    BY <2>3 DEF TypeOK, StartWorker
  <2>4. CASE UNCHANGED vars
    BY <2>4 DEF TypeOK
  <2>5. QED
    BY <2>1, <2>2, <2>3, <2>4, WorksTypes, ErrsTypes, ChainTypes, TxTypes DEF Next, Quiescent
<1>3. QED
  BY <1>1, <1>2, PTL DEF Spec

-----------------------------------------------------------------------------
(* States.                                                                 *)

\* The order states possible at each await of the code, where it matters.
KnownState(o) ==
    /\ pc[o] \in {"accepted", "unseen", "depth"} => st[o] = "AWAITING_DEPOSIT"
    /\ pc[o] = "decided" => st[o] \in {"DEPOSIT_CONFIRMED", "EXPIRED"}
    /\ pc[o] = "pin" => st[o] \in {"PAYOUT_FAILED", "DEPOSIT_CONFIRMED"}
    /\ pc[o] \in {"quoteCheck", "swap", "swapping", "pay", "paying", "paid"}
          => st[o] = "FILLING"
    /\ pc[o] \in {"present", "finality"} => st[o] = "SETTLING"
    /\ pc[o] = "returning" => st[o] \in RefundStage
    /\ pc[o] \in {"refundDepth", "sendRefund", "refunding", "returned"}
          => st[o] = "REFUNDING"
    /\ pc[o] \in {"rebalance", "rebalancing"} => st[o] = "SETTLED"

StateAt == \A o \in Orders : KnownState(o)

\* The step asks for no move `transition` throws on but the one of LegalAdvance.
StepIsLegal == refused' \subseteq refused \cup {<<"PAYOUT_FAILED", "INSUFFICIENT_INVENTORY">>}

\* The edges of TRANSITIONS that the executor takes.
LEMMA Edges ==
    /\ \A s \in {"DEPOSIT_CONFIRMED", "EXPIRED"} : CanTransition("AWAITING_DEPOSIT", s)
    /\ \A s \in {"FILLING", "INSUFFICIENT_INVENTORY"} : CanTransition("DEPOSIT_CONFIRMED", s)
    /\ \A s \in {"FILLED", "FILL_FAILED", "PAYOUT_FAILED", "REFUNDING", "NEEDS_REVIEW"} :
          CanTransition("FILLING", s)
    /\ CanTransition("PAYOUT_FAILED", "FILLING")
    /\ \A s \in {"FILLED", "SETTLEMENT_FAILED"} : CanTransition(s, "SETTLING")
    /\ \A s \in {"SETTLED", "SETTLEMENT_FAILED", "DEPOSIT_REORGED"} :
          CanTransition("SETTLING", s)
    /\ \A s \in Refundable : s # "REFUNDING" => CanTransition(s, "REFUNDING")
    /\ \A s \in {"REFUNDED", "REFUND_FAILED", "NEEDS_REVIEW"} : CanTransition("REFUNDING", s)
    /\ ~CanTransition("PAYOUT_FAILED", "INSUFFICIENT_INVENTORY")
  BY DEF CanTransition, Transitions, Refundable

\* The order moves: the advance was accepted.
Moved(o, s) == st' = [st EXCEPT ![o] = s] /\ refused' = refused

LEMMA Accepted ==
    ASSUME NEW o, NEW s, CanTransition(st[o], s), Advance(o, s) PROVE Moved(o, s)
  BY DEF Advance, Moved

(* Where each action's advance takes its order: StateAt has it accepted.   *)
LEMMA Moves ==
    ASSUME TypeOK, StateAt, NEW o \in Orders
    PROVE  /\ ExpireUnpaid(o) => Moved(o, "EXPIRED")
           /\ DecideDeposit(o) =>
                 Moved(o, IF o \in late THEN "EXPIRED" ELSE "DEPOSIT_CONFIRMED")
           /\ ReserveRefused(o) =>
                 \/ /\ st[o] = "DEPOSIT_CONFIRMED"
                    /\ Moved(o, "INSUFFICIENT_INVENTORY")
                    /\ Goto(o, "executed") /\ UNCHANGED jobVars
                 \/ /\ st[o] = "PAYOUT_FAILED" /\ st' = st /\ StepIsLegal
                    /\ JobThrows(o)
           /\ StartFilling(o) => Moved(o, "FILLING")
           /\ QuoteRefused(o) => Moved(o, "REFUNDING")
           /\ SwapShort(o) \/ SwapFails(o) \/ PayoutGivenUp(o) => Moved(o, "FILL_FAILED")
           /\ PayoutFails(o) => Moved(o, "PAYOUT_FAILED")
           /\ RecordFill(o) \/ RecoverFill(o) => Moved(o, "FILLED")
           /\ StartSettling(o) => Moved(o, "SETTLING")
           /\ NoticeReorg(o) => Moved(o, "DEPOSIT_REORGED")
           /\ PresenceUnknown(o) => Moved(o, "SETTLEMENT_FAILED")
           /\ CheckFinality(o) =>
                 Moved(o, IF depth[o] < 2 THEN "SETTLEMENT_FAILED" ELSE "SETTLED")
           /\ StartRefund(o) => Moved(o, "REFUNDING")
           /\ RefundTooShallow(o) \/ RefundFails(o) => Moved(o, "REFUND_FAILED")
           /\ RecordRefund(o) \/ RecoverRefund(o) => Moved(o, "REFUNDED")
           /\ HandToReview(o) => Moved(o, "NEEDS_REVIEW")
  <1>0. st \in [Orders -> OrderState] /\ KnownState(o)
    BY DEF TypeOK, StateAt
  <1>1. /\ ExpireUnpaid(o) => Moved(o, "EXPIRED")
        /\ DecideDeposit(o) =>
              Moved(o, IF o \in late THEN "EXPIRED" ELSE "DEPOSIT_CONFIRMED")
    BY <1>0, Edges, Accepted DEF KnownState, At, ExpireUnpaid, DecideDeposit
  <1>2. ReserveRefused(o) =>
            \/ /\ st[o] = "DEPOSIT_CONFIRMED"
               /\ Moved(o, "INSUFFICIENT_INVENTORY")
               /\ Goto(o, "executed") /\ UNCHANGED jobVars
            \/ /\ st[o] = "PAYOUT_FAILED" /\ st' = st /\ StepIsLegal
               /\ JobThrows(o)
    <2>1. CASE st[o] = "DEPOSIT_CONFIRMED"
      BY <2>1, Edges, Accepted DEF ReserveRefused
    <2>2. CASE st[o] = "PAYOUT_FAILED"
      <3>1. ~CanTransition(st[o], "INSUFFICIENT_INVENTORY")
        BY <2>2, Edges
      <3>2. Advance(o, "INSUFFICIENT_INVENTORY") => st' = st /\ StepIsLegal
        BY <1>0, <2>2, <3>1 DEF Advance, StepIsLegal
      <3>3. QED BY <2>2, <3>1, <3>2 DEF ReserveRefused
    <2>3. QED BY <2>1, <2>2 DEF ReserveRefused
  <1>3. /\ StartFilling(o) => Moved(o, "FILLING")
        /\ QuoteRefused(o) => Moved(o, "REFUNDING")
        /\ SwapShort(o) \/ SwapFails(o) \/ PayoutGivenUp(o) => Moved(o, "FILL_FAILED")
        /\ PayoutFails(o) => Moved(o, "PAYOUT_FAILED")
        /\ RecordFill(o) \/ RecoverFill(o) => Moved(o, "FILLED")
    BY <1>0, Edges, Accepted
    DEF KnownState, At, SendFails, Recovering, StartFilling, QuoteRefused, SwapShort, SwapFails,
        PayoutGivenUp, PayoutFails, RecordFill, RecoverFill
  <1>4. /\ StartSettling(o) => Moved(o, "SETTLING")
        /\ NoticeReorg(o) => Moved(o, "DEPOSIT_REORGED")
        /\ PresenceUnknown(o) => Moved(o, "SETTLEMENT_FAILED")
        /\ CheckFinality(o) =>
              Moved(o, IF depth[o] < 2 THEN "SETTLEMENT_FAILED" ELSE "SETTLED")
    BY <1>0, Edges, Accepted
    DEF KnownState, At, StartSettling, NoticeReorg, PresenceUnknown, CheckFinality
  <1>5. StartRefund(o) => Moved(o, "REFUNDING")
    <2>1. CASE st[o] = "REFUNDING"
      BY <1>0, <2>1 DEF StartRefund, Moved
    <2>2. CASE st[o] # "REFUNDING"
      BY <2>2, Edges, Accepted DEF StartRefund
    <2>3. QED BY <2>1, <2>2
  <1>6. /\ RefundTooShallow(o) \/ RefundFails(o) => Moved(o, "REFUND_FAILED")
        /\ RecordRefund(o) \/ RecoverRefund(o) => Moved(o, "REFUNDED")
        /\ HandToReview(o) => Moved(o, "NEEDS_REVIEW")
    BY <1>0, Edges, Accepted
    DEF KnownState, At, SendFails, Recovering, RefundTooShallow, RefundFails, RecordRefund,
        RecoverRefund, HandToReview
  <1>7. QED BY <1>1, <1>2, <1>3, <1>4, <1>5, <1>6


LEMMA AwaitDepositStates ==
    ASSUME TypeOK, StateAt, NEW o \in Orders, AwaitDeposit(o)
    PROVE  StateAt' /\ StepIsLegal
  <1> USE DEF vars, recordVars, jobVars, procVars, userVars, txVars, boundVars, world
  <1>0. st \in [Orders -> OrderState] /\ pc \in [Orders -> PCs]
    BY DEF TypeOK
  <1>1. CASE IgnoreDeposit(o)
    BY <1>1, <1>0 DEF StateAt, KnownState, StepIsLegal, IgnoreDeposit, At, Return, Wait, Goto
  <1>2. CASE FindDeposit(o)
    BY <1>2, <1>0 DEF StateAt, KnownState, StepIsLegal, FindDeposit, At, Goto
  <1>3. CASE FindNothing(o)
    BY <1>3, <1>0 DEF StateAt, KnownState, StepIsLegal, FindNothing, At, Goto
  <1>4. CASE KeepWatching(o)
    BY <1>4, <1>0 DEF StateAt, KnownState, StepIsLegal, KeepWatching, At, Wait, Goto
  <1>5. CASE ExpireUnpaid(o)
    <2>1. Moved(o, "EXPIRED")
      BY <1>5, Moves
    <2>2. QED
      BY <1>5, <1>0, <2>1 DEF StateAt, KnownState, StepIsLegal, ExpireUnpaid, At, Moved,
          Return, Wait, Goto
  <1>6. CASE DecideDeposit(o)
    <2>1. Moved(o, IF o \in late THEN "EXPIRED" ELSE "DEPOSIT_CONFIRMED")
      BY <1>6, Moves
    <2>2. QED
      BY <1>6, <1>0, <2>1 DEF StateAt, KnownState, StepIsLegal, DecideDeposit, At, Goto, Moved
  <1>7. CASE NextStage(o)
    BY <1>7, <1>0 DEF StateAt, KnownState, StepIsLegal, NextStage, At, Goto
  <1>8. QED BY <1>1, <1>2, <1>3, <1>4, <1>5, <1>6, <1>7 DEF AwaitDeposit

LEMMA ExecuteStates ==
    ASSUME TypeOK, StateAt, NEW o \in Orders, Execute(o)
    PROVE  StateAt' /\ StepIsLegal
  <1> USE DEF vars, recordVars, jobVars, procVars, userVars, txVars, boundVars, world
  <1>0. st \in [Orders -> OrderState] /\ pc \in [Orders -> PCs]
    BY DEF TypeOK
  <1>1. CASE IgnoreExecute(o)
    BY <1>1, <1>0 DEF StateAt, KnownState, StepIsLegal, IgnoreExecute, At, Goto
  <1>2. CASE Reserve(o)
    BY <1>2, <1>0 DEF StateAt, KnownState, StepIsLegal, Reserve, At, Goto, Reservation
  <1>3. CASE ReserveRefused(o)
    <2>1. CASE /\ st[o] = "DEPOSIT_CONFIRMED" /\ Moved(o, "INSUFFICIENT_INVENTORY")
               /\ Goto(o, "executed") /\ UNCHANGED jobVars
      BY <1>3, <1>0, <2>1 DEF StateAt, KnownState, StepIsLegal, ReserveRefused, At, Goto, Moved
    <2>2. CASE st[o] = "PAYOUT_FAILED" /\ st' = st /\ StepIsLegal /\ JobThrows(o)
      BY <1>3, <1>0, <2>2 DEF StateAt, KnownState, ReserveRefused, At, Goto, JobThrows
    <2>3. QED BY <1>3, <2>1, <2>2, Moves
  <1>4. CASE StartFilling(o)
    <2>1. Moved(o, "FILLING")
      BY <1>4, Moves
    <2>2. QED
      BY <1>4, <1>0, <2>1 DEF StateAt, KnownState, StepIsLegal, StartFilling, At, Goto, Moved
  <1>5. CASE QuoteHolds(o)
    BY <1>5, <1>0 DEF StateAt, KnownState, StepIsLegal, QuoteHolds, At, Goto
  <1>6. CASE QuoteRefused(o)
    <2>1. Moved(o, "REFUNDING")
      BY <1>6, Moves
    <2>2. QED
      BY <1>6, <1>0, <2>1 DEF StateAt, KnownState, StepIsLegal, QuoteRefused, At, Goto,
          Moved, Reservation
  <1>7. CASE SendSwap(o)
    BY <1>7, <1>0 DEF StateAt, KnownState, StepIsLegal, SendSwap, At, Goto, Broadcast
  <1>8. CASE SwapCovers(o)
    BY <1>8, <1>0 DEF StateAt, KnownState, StepIsLegal, SwapCovers, At, Goto
  <1>9. CASE SwapShort(o)
    <2>1. Moved(o, "FILL_FAILED")
      BY <1>9, Moves
    <2>2. QED
      BY <1>9, <1>0, <2>1 DEF StateAt, KnownState, StepIsLegal, SwapShort, At, Goto, Moved,
          Reservation
  <1>10. CASE SwapFails(o)
    <2>1. Moved(o, "FILL_FAILED")
      BY <1>10, Moves
    <2>2. QED
      BY <1>10, <1>0, <2>1 DEF StateAt, KnownState, StepIsLegal, SwapFails, Goto, Moved,
          Reservation, SendFails, At
  <1>11. CASE SendPayout(o)
    BY <1>11, <1>0 DEF StateAt, KnownState, StepIsLegal, SendPayout, At, Goto, Broadcast
  <1>12. CASE PayoutDone(o)
    BY <1>12, <1>0 DEF StateAt, KnownState, StepIsLegal, PayoutDone, At, Goto
  <1>13. CASE PayoutFails(o)
    <2>1. Moved(o, "PAYOUT_FAILED")
      BY <1>13, Moves
    <2>2. QED
      BY <1>13, <1>0, <2>1 DEF StateAt, KnownState, StepIsLegal, PayoutFails, Goto, Moved,
          Reservation, SendFails, At
  <1>14. CASE PayoutGivenUp(o)
    <2>1. Moved(o, "FILL_FAILED")
      BY <1>14, Moves
    <2>2. QED
      BY <1>14, <1>0, <2>1 DEF StateAt, KnownState, StepIsLegal, PayoutGivenUp, Goto, Moved,
          Reservation, SendFails, At
  <1>15. CASE RecordFill(o)
    <2>1. Moved(o, "FILLED")
      BY <1>15, Moves
    <2>2. QED
      BY <1>15, <1>0, <2>1 DEF StateAt, KnownState, StepIsLegal, RecordFill, At, Goto, Moved,
          Reservation
  <1>16. QED
    BY <1>1, <1>2, <1>3, <1>4, <1>5, <1>6, <1>7, <1>8, <1>9, <1>10, <1>11,
       <1>12, <1>13, <1>14, <1>15 DEF Execute

LEMMA SettleStates ==
    ASSUME TypeOK, StateAt, NEW o \in Orders, Settle(o)
    PROVE  StateAt' /\ StepIsLegal
  <1> USE DEF vars, recordVars, jobVars, procVars, userVars, txVars, boundVars, world
  <1>0. st \in [Orders -> OrderState] /\ pc \in [Orders -> PCs]
    BY DEF TypeOK
  <1>1. CASE StartSettling(o)
    <2>1. Moved(o, "SETTLING")
      BY <1>1, Moves
    <2>2. QED
      BY <1>1, <1>0, <2>1 DEF StateAt, KnownState, StepIsLegal, StartSettling, At, Goto, Moved
  <1>2. CASE IgnoreSettle(o)
    BY <1>2, <1>0 DEF StateAt, KnownState, StepIsLegal, IgnoreSettle, At, Goto
  <1>3. CASE StillPresent(o)
    BY <1>3, <1>0 DEF StateAt, KnownState, StepIsLegal, StillPresent, At, Goto
  <1>4. CASE NoticeReorg(o)
    <2>1. Moved(o, "DEPOSIT_REORGED")
      BY <1>4, Moves
    <2>2. QED
      BY <1>4, <1>0, <2>1 DEF StateAt, KnownState, StepIsLegal, NoticeReorg, At, Goto, Moved
  <1>5. CASE PresenceUnknown(o)
    <2>1. Moved(o, "SETTLEMENT_FAILED")
      BY <1>5, Moves
    <2>2. QED
      BY <1>5, <1>0, <2>1 DEF StateAt, KnownState, StepIsLegal, PresenceUnknown, At, Goto,
          Moved, Fault
  <1>6. CASE CheckFinality(o)
    <2>1. Moved(o, IF depth[o] < 2 THEN "SETTLEMENT_FAILED" ELSE "SETTLED")
      BY <1>6, Moves
    <2>2. QED
      BY <1>6, <1>0, <2>1 DEF StateAt, KnownState, StepIsLegal, CheckFinality, At, Goto, Moved
  <1>7. QED BY <1>1, <1>2, <1>3, <1>4, <1>5, <1>6 DEF Settle

LEMMA AfterStageStates ==
    ASSUME TypeOK, StateAt, NEW o \in Orders, AfterStage(o)
    PROVE  StateAt' /\ StepIsLegal
  <1> USE DEF vars, recordVars, jobVars, procVars, userVars, txVars, boundVars, world
  <1>0. st \in [Orders -> OrderState] /\ pc \in [Orders -> PCs]
    BY DEF TypeOK
  <1>1. CASE ComeBack(o)
    BY <1>1, <1>0 DEF StateAt, KnownState, StepIsLegal, ComeBack, At, Wait, Goto
  <1>2. CASE StoreRefundStage(o)
    BY <1>2, <1>0 DEF StateAt, KnownState, StepIsLegal, StoreRefundStage, At, Goto, RefundStage
  <1>3. CASE ReturnUnsettled(o)
    BY <1>3, <1>0 DEF StateAt, KnownState, StepIsLegal, ReturnUnsettled, At, Return, Wait,
          Goto, RefundStage
  <1>4. CASE GoOnToRebalance(o)
    BY <1>4, <1>0 DEF StateAt, KnownState, StepIsLegal, GoOnToRebalance, At, Goto
  <1>5. QED BY <1>1, <1>2, <1>3, <1>4 DEF AfterStage

LEMMA RefundStates ==
    ASSUME TypeOK, StateAt, NEW o \in Orders, Refund(o)
    PROVE  StateAt' /\ StepIsLegal
  <1> USE DEF vars, recordVars, jobVars, procVars, userVars, txVars, boundVars, world
  <1>0. st \in [Orders -> OrderState] /\ pc \in [Orders -> PCs]
    BY DEF TypeOK
  <1>1. CASE IgnoreRefund(o)
    BY <1>1, <1>0 DEF StateAt, KnownState, StepIsLegal, IgnoreRefund, At, Return, Wait, Goto,
          Refundable
  <1>2. CASE StartRefund(o)
    <2>1. Moved(o, "REFUNDING")
      BY <1>2, Moves
    <2>2. QED
      BY <1>2, <1>0, <2>1 DEF StateAt, KnownState, StepIsLegal, StartRefund, At, Goto, Moved,
          Refundable
  <1>3. CASE RefundTooShallow(o)
    <2>1. Moved(o, "REFUND_FAILED")
      BY <1>3, Moves
    <2>2. QED
      BY <1>3, <1>0, <2>1 DEF StateAt, KnownState, StepIsLegal, RefundTooShallow, At, Moved,
          Wait, Goto
  <1>4. CASE RefundDeepEnough(o)
    BY <1>4, <1>0 DEF StateAt, KnownState, StepIsLegal, RefundDeepEnough, At, Goto
  <1>5. CASE SendRefund(o)
    BY <1>5, <1>0 DEF StateAt, KnownState, StepIsLegal, SendRefund, At, Goto, Broadcast,
          RefundKind
  <1>6. CASE RefundDone(o)
    BY <1>6, <1>0 DEF StateAt, KnownState, StepIsLegal, RefundDone, At, Goto
  <1>7. CASE RefundFails(o)
    <2>1. Moved(o, "REFUND_FAILED")
      BY <1>7, Moves
    <2>2. QED
      BY <1>7, <1>0, <2>1 DEF StateAt, KnownState, StepIsLegal, RefundFails, Moved, Wait,
          Goto, SendFails, At
  <1>8. CASE RecordRefund(o)
    <2>1. Moved(o, "REFUNDED")
      BY <1>8, Moves
    <2>2. QED
      BY <1>8, <1>0, <2>1 DEF StateAt, KnownState, StepIsLegal, RecordRefund, At, Moved,
          Return, Wait, Goto
  <1>9. QED BY <1>1, <1>2, <1>3, <1>4, <1>5, <1>6, <1>7, <1>8 DEF Refund

LEMMA RebalanceStates ==
    ASSUME TypeOK, StateAt, NEW o \in Orders, Rebalance(o)
    PROVE  StateAt' /\ StepIsLegal
  <1> USE DEF vars, recordVars, jobVars, procVars, userVars, txVars, boundVars, world
  <1>0. st \in [Orders -> OrderState] /\ pc \in [Orders -> PCs]
    BY DEF TypeOK
  <1>1. CASE SkipRebalance(o)
    BY <1>1, <1>0 DEF StateAt, KnownState, StepIsLegal, SkipRebalance, At, Return, Wait, Goto
  <1>2. CASE SendRebalance(o)
    BY <1>2, <1>0 DEF StateAt, KnownState, StepIsLegal, SendRebalance, At, Goto, Broadcast
  <1>3. CASE RebalanceDone(o)
    BY <1>3, <1>0 DEF StateAt, KnownState, StepIsLegal, RebalanceDone, At, Return, Wait, Goto
  <1>4. CASE RebalanceFails(o)
    BY <1>4, <1>0 DEF StateAt, KnownState, StepIsLegal, RebalanceFails, JobThrows, Goto,
          SendFails, At
  <1>5. QED BY <1>1, <1>2, <1>3, <1>4 DEF Rebalance

LEMMA RecoverStates ==
    ASSUME TypeOK, StateAt, NEW o \in Orders, Recover(o)
    PROVE  StateAt' /\ StepIsLegal
  <1> USE DEF vars, recordVars, jobVars, procVars, userVars, txVars, boundVars, world
  <1>0. st \in [Orders -> OrderState] /\ pc \in [Orders -> PCs]
    BY DEF TypeOK
  <1>1. CASE RecoverFill(o)
    <2>1. Moved(o, "FILLED")
      BY <1>1, Moves
    <2>2. QED
      BY <1>1, <1>0, <2>1 DEF StateAt, KnownState, StepIsLegal, RecoverFill, Goto, Moved,
          Reservation, Found, Recovering
  <1>2. CASE RecoverRefund(o)
    <2>1. Moved(o, "REFUNDED")
      BY <1>2, Moves
    <2>2. QED
      BY <1>2, <1>0, <2>1 DEF StateAt, KnownState, StepIsLegal, RecoverRefund, Moved,
          RefundKind, Found, Recovering
  <1>3. CASE HandToReview(o)
    <2>1. Moved(o, "NEEDS_REVIEW")
      BY <1>3, Moves
    <2>2. QED
      BY <1>3, <1>0, <2>1 DEF StateAt, KnownState, StepIsLegal, HandToReview, Moved,
          RefundKind, Found, Recovering
  <1>4. CASE Recovered(o)
    BY <1>4, <1>0 DEF StateAt, KnownState, StepIsLegal, Recovered, At, Goto
  <1>5. QED BY <1>1, <1>2, <1>3, <1>4 DEF Recover

LEMMA OtherStates ==
    ASSUME TypeOK, StateAt, st' = st, refused' = refused, pc' \in [Orders -> PCs],
           \A o \in Orders : pc'[o] \in {pc[o], "idle"}
    PROVE  StateAt' /\ StepIsLegal
  BY DEF StateAt, KnownState, StepIsLegal

LEMMA WorksStates ==
    ASSUME TypeOK, StateAt, NEW o \in Orders, Works(o)
    PROVE  StateAt' /\ StepIsLegal
  <1> USE DEF vars, recordVars, jobVars, procVars, userVars, txVars, boundVars, world
  <1>1. CASE Enqueue(o)
    BY <1>1 DEF TypeOK, StateAt, KnownState, StepIsLegal, Enqueue, Wait, Goto
  <1>2. CASE PickUp(o)
    BY <1>2 DEF TypeOK, Stages, StateAt, KnownState, StepIsLegal, PickUp, Goto
  <1>3. QED
    BY <1>1, <1>2, AwaitDepositStates, ExecuteStates, SettleStates, AfterStageStates,
       RefundStates, RebalanceStates, RecoverStates DEF Works

LEMMA NextStates ==
    ASSUME TypeOK, StateAt, [Next]_vars
    PROVE  StateAt' /\ StepIsLegal
  <1> USE DEF vars, recordVars, jobVars, procVars, userVars, txVars, boundVars, world
  <1>1. ASSUME NEW o \in Orders, Works(o) PROVE StateAt' /\ StepIsLegal
    BY <1>1, WorksStates
  <1>2. ASSUME NEW o \in Orders, Errs(o) PROVE StateAt' /\ StepIsLegal
    <2>1. CASE DepositCheckFails(o)
      BY <2>1, Labels, OtherStates DEF TypeOK, DepositCheckFails, Wait, Goto
    <2>2. CASE Throw(o)
      BY <2>2, Labels, OtherStates DEF TypeOK, Throw, JobThrows, Goto
    <2>3. CASE RestoreThrows(o)
      BY <2>3, Labels, OtherStates DEF RestoreThrows, ProcessDies
    <2>4. QED BY <1>2, <2>1, <2>2, <2>3 DEF Errs
  <1>3. ASSUME NEW o \in Orders, Chain(o) PROVE StateAt' /\ StepIsLegal
    BY <1>3, OtherStates DEF TypeOK, Chain, TransferLands, Bury, Reorg, DeadlinePasses
  <1>4. ASSUME NEW t \in pending, Mine(t) \/ Revert(t) PROVE StateAt' /\ StepIsLegal
    BY <1>4, OtherStates DEF TypeOK, Mine, Revert
  <1>5. CASE Crash
    BY <1>5, Labels, OtherStates DEF Crash, ProcessDies
  <1>6. CASE Boot \/ StartWorker \/ UNCHANGED vars
    BY <1>6, OtherStates DEF TypeOK, Boot, StartWorker
  <1>7. QED
    BY <1>1, <1>2, <1>3, <1>4, <1>5, <1>6 DEF Next, Quiescent

LEMMA StateAtInvariant == Spec => []StateAt
<1>1. Init => StateAt
  BY DEF Init, StateAt, KnownState
<1>2. TypeOK /\ StateAt /\ [Next]_vars => StateAt'
  BY NextStates
<1>3. QED
  BY <1>1, <1>2, TypeCorrect, PTL DEF Spec

\* Whatever fails, is lost or crashes in between, the executor, the worker and
\* restore() ask `transition` for one move only that it throws on: the payout
\* retry's whose reservation is refused.
THEOREM AdvancesAreLegal == Spec => []LegalAdvance
<1>1. Init => LegalAdvance
  BY DEF Init, LegalAdvance
<1>2. TypeOK /\ StateAt /\ LegalAdvance /\ [Next]_vars => LegalAdvance'
  BY NextStates DEF StepIsLegal, LegalAdvance
<1>3. QED
  BY <1>1, <1>2, TypeCorrect, StateAtInvariant, PTL DEF Spec

-----------------------------------------------------------------------------
(* What a record goes with.                                                *)

\* A leader that is up has recovered everything.  Before that the only code
\* running is recover() carrying a filled order through its settlement, and
\* every order caught in FILLING or REFUNDING is still to be recovered.
RestoreOrder ==
    /\ phase = "up" => restoring = {}
    /\ phase # "up" =>
          \A o \in Orders :
              \/ pc[o] = "idle"
              \/ /\ phase = "restoring" /\ o \in restoring
                 /\ pc[o] \in {"settle", "present", "finality", "executed"}
                 /\ st[o] \in Filled
    /\ phase = "restoring" =>
          \A o \in Orders : st[o] \in {"FILLING", "REFUNDING"} => o \in restoring

\* An order past its deposit has one attached, which the chain had mined; one
\* that may be filled was on time; and what was broadcast is for such orders.
AttachedTo(o) ==
    /\ st[o] \notin {"AWAITING_DEPOSIT", "EXPIRED"} => o \in held
    /\ pc[o] = "depth" => o \in held
    /\ o \in held => transfer[o] # "unsent"
    /\ st[o] \in {"DEPOSIT_CONFIRMED", "FILLING", "PAYOUT_FAILED"} => o \notin late

Attached ==
    /\ \A o \in Orders : AttachedTo(o)
    /\ \A t \in pending : t.order \in held

Records == RestoreOrder /\ Attached /\ NoReservationLeaks


LEMMA AwaitDepositRecords ==
    ASSUME TypeOK, StateAt, Records, NEW o \in Orders, AwaitDeposit(o)
    PROVE  Records' /\ held' \in {held, held \cup {o}}
  <1> USE DEF vars, recordVars, jobVars, procVars, userVars, txVars, boundVars, world
  <1>0. /\ st \in [Orders -> OrderState] /\ pc \in [Orders -> PCs]
        /\ held \subseteq Orders /\ transfer \in [Orders -> {"unsent", "mined", "gone"}]
        /\ res \in [Orders -> {"none", "held", "committed", "released"}]
    BY DEF TypeOK
  <1>1. CASE IgnoreDeposit(o)
    BY <1>1, <1>0
    DEF StateAt, KnownState, Records, RestoreOrder, Filled, Attached, AttachedTo,
        NoReservationLeaks, IgnoreDeposit, At, Return, Wait, Goto
  <1>2. CASE FindDeposit(o)
    BY <1>2, <1>0
    DEF StateAt, KnownState, Records, RestoreOrder, Filled, Attached, AttachedTo,
        NoReservationLeaks, FindDeposit, At, Goto
  <1>3. CASE FindNothing(o)
    BY <1>3, <1>0
    DEF StateAt, KnownState, Records, RestoreOrder, Filled, Attached, AttachedTo,
        NoReservationLeaks, FindNothing, At, Goto
  <1>4. CASE KeepWatching(o)
    BY <1>4, <1>0
    DEF StateAt, KnownState, Records, RestoreOrder, Filled, Attached, AttachedTo,
        NoReservationLeaks, KeepWatching, At, Wait, Goto
  <1>5. CASE ExpireUnpaid(o)
    <2>1. Moved(o, "EXPIRED")
      BY <1>5, Moves
    <2>2. QED
      BY <1>5, <1>0, <2>1
      DEF StateAt, KnownState, Records, RestoreOrder, Filled, Attached, AttachedTo,
          NoReservationLeaks, ExpireUnpaid, At, Moved, Return, Wait, Goto
  <1>6. CASE DecideDeposit(o)
    <2>1. Moved(o, IF o \in late THEN "EXPIRED" ELSE "DEPOSIT_CONFIRMED")
      BY <1>6, Moves
    <2>2. QED
      BY <1>6, <1>0, <2>1
      DEF StateAt, KnownState, Records, RestoreOrder, Filled, Attached, AttachedTo,
          NoReservationLeaks, DecideDeposit, At, Goto, Moved
  <1>7. CASE NextStage(o)
    BY <1>7, <1>0
    DEF StateAt, KnownState, Records, RestoreOrder, Filled, Attached, AttachedTo,
        NoReservationLeaks, NextStage, At, Goto
  <1>8. QED BY <1>1, <1>2, <1>3, <1>4, <1>5, <1>6, <1>7 DEF AwaitDeposit

LEMMA ExecuteRecords ==
    ASSUME TypeOK, StateAt, Records, NEW o \in Orders, Execute(o)
    PROVE  Records' /\ held' \in {held, held \cup {o}}
  <1> USE DEF vars, recordVars, jobVars, procVars, userVars, txVars, boundVars, world
  <1>0. /\ st \in [Orders -> OrderState] /\ pc \in [Orders -> PCs]
        /\ held \subseteq Orders /\ transfer \in [Orders -> {"unsent", "mined", "gone"}]
        /\ res \in [Orders -> {"none", "held", "committed", "released"}]
    BY DEF TypeOK
  <1>1. CASE IgnoreExecute(o)
    BY <1>1, <1>0
    DEF StateAt, KnownState, Records, RestoreOrder, Filled, Attached, AttachedTo,
        NoReservationLeaks, IgnoreExecute, At, Goto
  <1>2. CASE Reserve(o)
    BY <1>2, <1>0
    DEF StateAt, KnownState, Records, RestoreOrder, Filled, Attached, AttachedTo,
        NoReservationLeaks, Reserve, At, Goto, Reservation
  <1>3. CASE ReserveRefused(o)
    <2>1. CASE /\ st[o] = "DEPOSIT_CONFIRMED" /\ Moved(o, "INSUFFICIENT_INVENTORY")
               /\ Goto(o, "executed") /\ UNCHANGED jobVars
      BY <1>3, <1>0, <2>1
      DEF StateAt, KnownState, Records, RestoreOrder, Filled, Attached, AttachedTo,
            NoReservationLeaks, ReserveRefused, At, Goto, Moved
    <2>2. CASE st[o] = "PAYOUT_FAILED" /\ st' = st /\ JobThrows(o)
      BY <1>3, <1>0, <2>2
      DEF StateAt, KnownState, Records, RestoreOrder, Filled, Attached, AttachedTo,
            NoReservationLeaks, ReserveRefused, At, Goto, JobThrows
    <2>3. QED BY <1>3, <2>1, <2>2, Moves
  <1>4. CASE StartFilling(o)
    <2>1. Moved(o, "FILLING")
      BY <1>4, Moves
    <2>2. QED
      BY <1>4, <1>0, <2>1
      DEF StateAt, KnownState, Records, RestoreOrder, Filled, Attached, AttachedTo,
          NoReservationLeaks, StartFilling, At, Goto, Moved
  <1>5. CASE QuoteHolds(o)
    BY <1>5, <1>0
    DEF StateAt, KnownState, Records, RestoreOrder, Filled, Attached, AttachedTo,
        NoReservationLeaks, QuoteHolds, At, Goto
  <1>6. CASE QuoteRefused(o)
    <2>1. Moved(o, "REFUNDING")
      BY <1>6, Moves
    <2>2. QED
      BY <1>6, <1>0, <2>1
      DEF StateAt, KnownState, Records, RestoreOrder, Filled, Attached, AttachedTo,
          NoReservationLeaks, QuoteRefused, At, Goto, Moved, Reservation
  <1>7. CASE SendSwap(o)
    BY <1>7, <1>0
    DEF StateAt, KnownState, Records, RestoreOrder, Filled, Attached, AttachedTo,
        NoReservationLeaks, SendSwap, At, Goto, Broadcast
  <1>8. CASE SwapCovers(o)
    BY <1>8, <1>0
    DEF StateAt, KnownState, Records, RestoreOrder, Filled, Attached, AttachedTo,
        NoReservationLeaks, SwapCovers, At, Goto
  <1>9. CASE SwapShort(o)
    <2>1. Moved(o, "FILL_FAILED")
      BY <1>9, Moves
    <2>2. QED
      BY <1>9, <1>0, <2>1
      DEF StateAt, KnownState, Records, RestoreOrder, Filled, Attached, AttachedTo,
          NoReservationLeaks, SwapShort, At, Goto, Moved, Reservation
  <1>10. CASE SwapFails(o)
    <2>1. Moved(o, "FILL_FAILED")
      BY <1>10, Moves
    <2>2. QED
      BY <1>10, <1>0, <2>1
      DEF StateAt, KnownState, Records, RestoreOrder, Filled, Attached, AttachedTo,
          NoReservationLeaks, SwapFails, Goto, Moved, Reservation, SendFails, At
  <1>11. CASE SendPayout(o)
    BY <1>11, <1>0
    DEF StateAt, KnownState, Records, RestoreOrder, Filled, Attached, AttachedTo,
        NoReservationLeaks, SendPayout, At, Goto, Broadcast
  <1>12. CASE PayoutDone(o)
    BY <1>12, <1>0
    DEF StateAt, KnownState, Records, RestoreOrder, Filled, Attached, AttachedTo,
        NoReservationLeaks, PayoutDone, At, Goto
  <1>13. CASE PayoutFails(o)
    <2>1. Moved(o, "PAYOUT_FAILED")
      BY <1>13, Moves
    <2>2. QED
      BY <1>13, <1>0, <2>1
      DEF StateAt, KnownState, Records, RestoreOrder, Filled, Attached, AttachedTo,
          NoReservationLeaks, PayoutFails, Goto, Moved, Reservation, SendFails, At
  <1>14. CASE PayoutGivenUp(o)
    <2>1. Moved(o, "FILL_FAILED")
      BY <1>14, Moves
    <2>2. QED
      BY <1>14, <1>0, <2>1
      DEF StateAt, KnownState, Records, RestoreOrder, Filled, Attached, AttachedTo,
          NoReservationLeaks, PayoutGivenUp, Goto, Moved, Reservation, SendFails, At
  <1>15. CASE RecordFill(o)
    <2>1. Moved(o, "FILLED")
      BY <1>15, Moves
    <2>2. QED
      BY <1>15, <1>0, <2>1
      DEF StateAt, KnownState, Records, RestoreOrder, Filled, Attached, AttachedTo,
          NoReservationLeaks, RecordFill, At, Goto, Moved, Reservation
  <1>16. QED BY <1>1, <1>2, <1>3, <1>4, <1>5, <1>6, <1>7, <1>8, <1>9, <1>10, <1>11,
         <1>12, <1>13, <1>14, <1>15 DEF Execute

LEMMA SettleRecords ==
    ASSUME TypeOK, StateAt, Records, NEW o \in Orders, Settle(o)
    PROVE  Records' /\ held' \in {held, held \cup {o}}
  <1> USE DEF vars, recordVars, jobVars, procVars, userVars, txVars, boundVars, world
  <1>0. /\ st \in [Orders -> OrderState] /\ pc \in [Orders -> PCs]
        /\ held \subseteq Orders /\ transfer \in [Orders -> {"unsent", "mined", "gone"}]
        /\ res \in [Orders -> {"none", "held", "committed", "released"}]
    BY DEF TypeOK
  <1>1. CASE StartSettling(o)
    <2>1. Moved(o, "SETTLING")
      BY <1>1, Moves
    <2>2. QED
      BY <1>1, <1>0, <2>1
      DEF StateAt, KnownState, Records, RestoreOrder, Filled, Attached, AttachedTo,
          NoReservationLeaks, StartSettling, At, Goto, Moved
  <1>2. CASE IgnoreSettle(o)
    BY <1>2, <1>0
    DEF StateAt, KnownState, Records, RestoreOrder, Filled, Attached, AttachedTo,
        NoReservationLeaks, IgnoreSettle, At, Goto
  <1>3. CASE StillPresent(o)
    BY <1>3, <1>0
    DEF StateAt, KnownState, Records, RestoreOrder, Filled, Attached, AttachedTo,
        NoReservationLeaks, StillPresent, At, Goto
  <1>4. CASE NoticeReorg(o)
    <2>1. Moved(o, "DEPOSIT_REORGED")
      BY <1>4, Moves
    <2>2. QED
      BY <1>4, <1>0, <2>1
      DEF StateAt, KnownState, Records, RestoreOrder, Filled, Attached, AttachedTo,
          NoReservationLeaks, NoticeReorg, At, Goto, Moved
  <1>5. CASE PresenceUnknown(o)
    <2>1. Moved(o, "SETTLEMENT_FAILED")
      BY <1>5, Moves
    <2>2. QED
      BY <1>5, <1>0, <2>1
      DEF StateAt, KnownState, Records, RestoreOrder, Filled, Attached, AttachedTo,
          NoReservationLeaks, PresenceUnknown, At, Goto, Moved, Fault
  <1>6. CASE CheckFinality(o)
    <2>1. Moved(o, IF depth[o] < 2 THEN "SETTLEMENT_FAILED" ELSE "SETTLED")
      BY <1>6, Moves
    <2>2. QED
      BY <1>6, <1>0, <2>1
      DEF StateAt, KnownState, Records, RestoreOrder, Filled, Attached, AttachedTo,
          NoReservationLeaks, CheckFinality, At, Goto, Moved
  <1>7. QED BY <1>1, <1>2, <1>3, <1>4, <1>5, <1>6 DEF Settle

LEMMA AfterStageRecords ==
    ASSUME TypeOK, StateAt, Records, NEW o \in Orders, AfterStage(o)
    PROVE  Records' /\ held' \in {held, held \cup {o}}
  <1> USE DEF vars, recordVars, jobVars, procVars, userVars, txVars, boundVars, world
  <1>0. /\ st \in [Orders -> OrderState] /\ pc \in [Orders -> PCs]
        /\ held \subseteq Orders /\ transfer \in [Orders -> {"unsent", "mined", "gone"}]
        /\ res \in [Orders -> {"none", "held", "committed", "released"}]
    BY DEF TypeOK
  <1>1. CASE ComeBack(o)
    BY <1>1, <1>0
    DEF StateAt, KnownState, Records, RestoreOrder, Filled, Attached, AttachedTo,
        NoReservationLeaks, ComeBack, At, Wait, Goto
  <1>2. CASE StoreRefundStage(o)
    BY <1>2, <1>0
    DEF StateAt, KnownState, Records, RestoreOrder, Filled, Attached, AttachedTo,
        NoReservationLeaks, StoreRefundStage, At, Goto, RefundStage
  <1>3. CASE ReturnUnsettled(o)
    BY <1>3, <1>0
    DEF StateAt, KnownState, Records, RestoreOrder, Filled, Attached, AttachedTo,
        NoReservationLeaks, ReturnUnsettled, At, Return, Wait, Goto, RefundStage
  <1>4. CASE GoOnToRebalance(o)
    BY <1>4, <1>0
    DEF StateAt, KnownState, Records, RestoreOrder, Filled, Attached, AttachedTo,
        NoReservationLeaks, GoOnToRebalance, At, Goto
  <1>5. QED BY <1>1, <1>2, <1>3, <1>4 DEF AfterStage

LEMMA RefundRecords ==
    ASSUME TypeOK, StateAt, Records, NEW o \in Orders, Refund(o)
    PROVE  Records' /\ held' \in {held, held \cup {o}}
  <1> USE DEF vars, recordVars, jobVars, procVars, userVars, txVars, boundVars, world
  <1>0. /\ st \in [Orders -> OrderState] /\ pc \in [Orders -> PCs]
        /\ held \subseteq Orders /\ transfer \in [Orders -> {"unsent", "mined", "gone"}]
        /\ res \in [Orders -> {"none", "held", "committed", "released"}]
    BY DEF TypeOK
  <1>1. CASE IgnoreRefund(o)
    BY <1>1, <1>0
    DEF StateAt, KnownState, Records, RestoreOrder, Filled, Attached, AttachedTo,
        NoReservationLeaks, IgnoreRefund, At, Return, Wait, Goto, Refundable
  <1>2. CASE StartRefund(o)
    <2>1. Moved(o, "REFUNDING")
      BY <1>2, Moves
    <2>2. QED
      BY <1>2, <1>0, <2>1
      DEF StateAt, KnownState, Records, RestoreOrder, Filled, Attached, AttachedTo,
          NoReservationLeaks, StartRefund, At, Goto, Moved, Refundable
  <1>3. CASE RefundTooShallow(o)
    <2>1. Moved(o, "REFUND_FAILED")
      BY <1>3, Moves
    <2>2. QED
      BY <1>3, <1>0, <2>1
      DEF StateAt, KnownState, Records, RestoreOrder, Filled, Attached, AttachedTo,
          NoReservationLeaks, RefundTooShallow, At, Moved, Wait, Goto
  <1>4. CASE RefundDeepEnough(o)
    BY <1>4, <1>0
    DEF StateAt, KnownState, Records, RestoreOrder, Filled, Attached, AttachedTo,
        NoReservationLeaks, RefundDeepEnough, At, Goto
  <1>5. CASE SendRefund(o)
    BY <1>5, <1>0
    DEF StateAt, KnownState, Records, RestoreOrder, Filled, Attached, AttachedTo,
        NoReservationLeaks, SendRefund, At, Goto, Broadcast, RefundKind
  <1>6. CASE RefundDone(o)
    BY <1>6, <1>0
    DEF StateAt, KnownState, Records, RestoreOrder, Filled, Attached, AttachedTo,
        NoReservationLeaks, RefundDone, At, Goto
  <1>7. CASE RefundFails(o)
    <2>1. Moved(o, "REFUND_FAILED")
      BY <1>7, Moves
    <2>2. QED
      BY <1>7, <1>0, <2>1
      DEF StateAt, KnownState, Records, RestoreOrder, Filled, Attached, AttachedTo,
          NoReservationLeaks, RefundFails, Moved, Wait, Goto, SendFails, At
  <1>8. CASE RecordRefund(o)
    <2>1. Moved(o, "REFUNDED")
      BY <1>8, Moves
    <2>2. QED
      BY <1>8, <1>0, <2>1
      DEF StateAt, KnownState, Records, RestoreOrder, Filled, Attached, AttachedTo,
          NoReservationLeaks, RecordRefund, At, Moved, Return, Wait, Goto
  <1>9. QED BY <1>1, <1>2, <1>3, <1>4, <1>5, <1>6, <1>7, <1>8 DEF Refund

LEMMA RebalanceRecords ==
    ASSUME TypeOK, StateAt, Records, NEW o \in Orders, Rebalance(o)
    PROVE  Records' /\ held' \in {held, held \cup {o}}
  <1> USE DEF vars, recordVars, jobVars, procVars, userVars, txVars, boundVars, world
  <1>0. /\ st \in [Orders -> OrderState] /\ pc \in [Orders -> PCs]
        /\ held \subseteq Orders /\ transfer \in [Orders -> {"unsent", "mined", "gone"}]
        /\ res \in [Orders -> {"none", "held", "committed", "released"}]
    BY DEF TypeOK
  <1>1. CASE SkipRebalance(o)
    BY <1>1, <1>0
    DEF StateAt, KnownState, Records, RestoreOrder, Filled, Attached, AttachedTo,
        NoReservationLeaks, SkipRebalance, At, Return, Wait, Goto
  <1>2. CASE SendRebalance(o)
    BY <1>2, <1>0
    DEF StateAt, KnownState, Records, RestoreOrder, Filled, Attached, AttachedTo,
        NoReservationLeaks, SendRebalance, At, Goto, Broadcast
  <1>3. CASE RebalanceDone(o)
    BY <1>3, <1>0
    DEF StateAt, KnownState, Records, RestoreOrder, Filled, Attached, AttachedTo,
        NoReservationLeaks, RebalanceDone, At, Return, Wait, Goto
  <1>4. CASE RebalanceFails(o)
    BY <1>4, <1>0
    DEF StateAt, KnownState, Records, RestoreOrder, Filled, Attached, AttachedTo,
        NoReservationLeaks, RebalanceFails, JobThrows, Goto, SendFails, At
  <1>5. QED BY <1>1, <1>2, <1>3, <1>4 DEF Rebalance

LEMMA RecoverRecords ==
    ASSUME TypeOK, StateAt, Records, NEW o \in Orders, Recover(o)
    PROVE  Records' /\ held' \in {held, held \cup {o}}
  <1> USE DEF vars, recordVars, jobVars, procVars, userVars, txVars, boundVars, world
  <1>0. /\ st \in [Orders -> OrderState] /\ pc \in [Orders -> PCs]
        /\ held \subseteq Orders /\ transfer \in [Orders -> {"unsent", "mined", "gone"}]
        /\ res \in [Orders -> {"none", "held", "committed", "released"}]
    BY DEF TypeOK
  <1>1. CASE RecoverFill(o)
    <2>1. Moved(o, "FILLED")
      BY <1>1, Moves
    <2>2. QED
      BY <1>1, <1>0, <2>1
      DEF StateAt, KnownState, Records, RestoreOrder, Filled, Attached, AttachedTo,
          NoReservationLeaks, RecoverFill, Goto, Moved, Reservation, Found, Recovering
  <1>2. CASE RecoverRefund(o)
    <2>1. Moved(o, "REFUNDED")
      BY <1>2, Moves
    <2>2. QED
      BY <1>2, <1>0, <2>1
      DEF StateAt, KnownState, Records, RestoreOrder, Filled, Attached, AttachedTo,
          NoReservationLeaks, RecoverRefund, Moved, RefundKind, Found, Recovering
  <1>3. CASE HandToReview(o)
    <2>1. Moved(o, "NEEDS_REVIEW")
      BY <1>3, Moves
    <2>2. QED
      BY <1>3, <1>0, <2>1
      DEF StateAt, KnownState, Records, RestoreOrder, Filled, Attached, AttachedTo,
          NoReservationLeaks, HandToReview, Moved, RefundKind, Found, Recovering
  <1>4. CASE Recovered(o)
    BY <1>4, <1>0
    DEF StateAt, KnownState, Records, RestoreOrder, Filled, Attached, AttachedTo,
        NoReservationLeaks, Recovered, At, Goto
  <1>5. QED BY <1>1, <1>2, <1>3, <1>4 DEF Recover

LEMMA WorksRecords ==
    ASSUME TypeOK, StateAt, Records, NEW o \in Orders, Works(o)
    PROVE  Records' /\ held' \in {held, held \cup {o}}
  <1> USE DEF vars, recordVars, jobVars, procVars, userVars, txVars, boundVars, world
  <1> USE DEF Records, RestoreOrder, Attached, AttachedTo, NoReservationLeaks
  <1>1. CASE Enqueue(o)
    BY <1>1 DEF TypeOK, Enqueue, Wait, Goto
  <1>2. CASE PickUp(o)
    BY <1>2 DEF TypeOK, Stages, PickUp, Goto
  <1>3. QED
    BY <1>1, <1>2, AwaitDepositRecords, ExecuteRecords, SettleRecords, AfterStageRecords,
       RefundRecords, RebalanceRecords, RecoverRecords DEF Works

LEMMA OtherRecords ==
    ASSUME TypeOK, Records, UNCHANGED <<st, res, held, transfer, late, phase, restoring>>,
           pending' \subseteq pending, \A o \in Orders : pc'[o] \in {pc[o], "idle"}
    PROVE  Records'
  BY DEF Records, RestoreOrder, Attached, AttachedTo, NoReservationLeaks

LEMMA NextRecords ==
    ASSUME TypeOK, StateAt, Records, [Next]_vars
    PROVE  Records'
  <1> USE DEF vars, recordVars, jobVars, procVars, userVars, txVars, boundVars, world
  <1>1. ASSUME NEW o \in Orders, Works(o) PROVE Records'
    BY <1>1, WorksRecords
  <1>2. ASSUME ProcessDies PROVE Records'
    BY <1>2 DEF ProcessDies, Records, RestoreOrder, Attached, AttachedTo, NoReservationLeaks
  <1>3. ASSUME NEW o \in Orders, Errs(o) PROVE Records'
    <2>1. CASE DepositCheckFails(o)
      BY <2>1, OtherRecords DEF TypeOK, DepositCheckFails, Wait, Goto
    <2>2. CASE Throw(o)
      BY <2>2, OtherRecords DEF TypeOK, Throw, JobThrows, Goto
    <2>3. CASE RestoreThrows(o)
      BY <2>3, <1>2 DEF RestoreThrows
    <2>4. QED BY <1>3, <2>1, <2>2, <2>3 DEF Errs
  <1>4. ASSUME NEW o \in Orders, Chain(o) PROVE Records'
    <2>0. UNCHANGED <<st, res, held, pc, phase, restoring, pending>>
      BY <1>4 DEF Chain, TransferLands, Bury, Reorg, DeadlinePasses
    <2>1. ASSUME NEW p \in held
          PROVE  transfer'[p] # "unsent" /\ (p \notin late => p \notin late')
      <3>1. transfer[p] # "unsent" /\ p \in Orders
        BY DEF TypeOK, Records, Attached, AttachedTo
      <3>2. QED
        BY <1>4, <3>1 DEF TypeOK, Chain, TransferLands, Bury, Reorg, DeadlinePasses
    <2>2. Attached'
      BY <2>0, <2>1 DEF Records, Attached, AttachedTo
    <2>3. QED
      BY <2>0, <2>2 DEF Records, RestoreOrder, NoReservationLeaks
  <1>5. ASSUME NEW t \in pending, Mine(t) \/ Revert(t) PROVE Records'
    BY <1>5, OtherRecords DEF Mine, Revert
  <1>6. CASE Boot \/ StartWorker
    BY <1>6 DEF Boot, StartWorker, Records, RestoreOrder, Attached, AttachedTo,
                NoReservationLeaks
  <1>7. CASE UNCHANGED vars
    BY <1>7, OtherRecords
  <1>8. QED
    BY <1>1, <1>2, <1>3, <1>4, <1>5, <1>6, <1>7 DEF Next, Crash, Quiescent

LEMMA RecordsInvariant == Spec => []Records
<1>1. Init => Records
  BY DEF Init, Records, RestoreOrder, Attached, AttachedTo, NoReservationLeaks
<1>2. TypeOK /\ StateAt /\ Records /\ [Next]_vars => Records'
  BY NextRecords
<1>3. QED
  BY <1>1, <1>2, TypeCorrect, StateAtInvariant, PTL DEF Spec

\* No reservation outlives its order's use of it: every way out of FILLING,
\* including the one a restart takes, commits or releases it, and what stays
\* held belongs to an order that may still spend it or to one in review.
THEOREM ReservationsReleased == Spec => []NoReservationLeaks
<1>1. Records => NoReservationLeaks
  BY DEF Records
<1>2. QED
  BY <1>1, RecordsInvariant, PTL

-----------------------------------------------------------------------------
(* Payments.                                                               *)
(*                                                                         *)
(* The argument: an order is Free while its code may still broadcast a     *)
(* payout or a refund, and the chain holds none, mined or pending, for a   *)
(* Free order (Unsent).  Broadcasting one ends Free, and only a revert of  *)
(* that very transaction brings Free back (Nonces).  A restart does not:   *)
(* it finds the order in FILLING or REFUNDING, where recover() records     *)
(* what it sees on chain or calls a person, and sends nothing.             *)
(*                                                                         *)
(* It needs two assumptions, which the code does not make good on its own: *)
(* a write to the record store does not fail, and once a transaction is    *)
(* broadcast its receipt is not lost.                                      *)

\* The code may go on to broadcast a payout or a refund of o.
MaySend(o) ==
    \/ st[o] \in {"AWAITING_DEPOSIT", "DEPOSIT_CONFIRMED", "EXPIRED", "INSUFFICIENT_INVENTORY",
                  "FILL_FAILED", "PAYOUT_FAILED", "REFUND_FAILED"}
    \/ st[o] = "FILLING" /\ pc[o] \in {"quoteCheck", "swap", "swapping", "pay"}
    \/ st[o] = "REFUNDING" /\ phase = "up" /\ pc[o] \notin {"refunding", "returned"}

Free(o) == MaySend(o) \/ (pc[o] \in {"paying", "refunding"} /\ receipt[o] = "reverted")

\* A disbursement of o is on chain or on its way.
Out(o) ==
    \/ \E i \in DOMAIN mined : mined[i].order = o /\ Disburses(mined[i].kind)
    \/ \E t \in pending : t.order = o /\ Disburses(t.kind)

Unsent == \A o \in Orders : Free(o) => ~Out(o)

\* Mined and pending transactions together hold one disbursement of an order.
OneOut ==
    /\ DisbursedOnce
    /\ \A t, u \in pending :
          t.order = u.order /\ Disburses(t.kind) /\ Disburses(u.kind) => t = u
    /\ \A t \in pending : \A i \in DOMAIN mined :
          ~(t.order = mined[i].order /\ Disburses(t.kind) /\ Disburses(mined[i].kind))

\* The transaction the code waits for is the one with the order's last nonce.
NonceOf(t) ==
    /\ t.nonce <= sends[t.order]
    /\ t.nonce = sends[t.order] =>
          /\ pc[t.order] = "paying" => t.kind = "payout"
          /\ pc[t.order] = "refunding" => t.kind \in {"refund", "refundOutput"}

Nonces == \A t \in pending : NonceOf(t)

\* The states an order may be in once a payout of it is out.
PaidStates == Filled \cup {"FILLING", "NEEDS_REVIEW"}

PayoutOut(o) == Executed(o, "payout") \/ Outstanding(o, "payout")

PayoutsMatch ==
    \A o \in Orders : PayoutOut(o) => st[o] \in PaidStates /\ o \in held \ late

Money == Unsent /\ OneOut /\ Nonces /\ PayoutsMatch

\* What the code takes to have been paid, or refunded.
TakenPaid(o) ==
    (pc[o] = "paying" /\ receipt[o] = "ok") \/ pc[o] = "paid" \/ st[o] \in Filled

TakenRefunded(o) ==
    (pc[o] = "refunding" /\ receipt[o] = "ok") \/ pc[o] = "returned" \/ st[o] = "REFUNDED"

Refunded(o) == \E kind \in {"refund", "refundOutput"} : Executed(o, kind)

Proven ==
    \A o \in Orders :
        /\ TakenPaid(o) => Executed(o, "payout")
        /\ TakenRefunded(o) => Refunded(o)

-----------------------------------------------------------------------------
(* Steps that neither send nor mine.  Each one frees no order, leaves the  *)
(* paid states only from a free order, and takes nothing as paid or        *)
(* refunded but what it was told or found on chain.                        *)

QuietFor(o) ==
    /\ Free(o)' => Free(o)
    /\ pc'[o] \in {"paying", "refunding"} => pc'[o] = pc[o]
    /\ st[o] \in PaidStates /\ st'[o] \notin PaidStates => Free(o)
    /\ TakenPaid(o)' => TakenPaid(o) \/ Found(o, "payout", fillFrom[o])
    /\ TakenRefunded(o)' => TakenRefunded(o) \/ Found(o, RefundKind(o), landedAt[o])

Quiet == UNCHANGED <<mined, pending, sends>> /\ \A o \in Orders : QuietFor(o)


LEMMA AwaitDepositQuiet ==
    ASSUME TypeOK, StateAt, RestoreOrder, ~AnswersLost,
           NEW o \in Orders, AwaitDeposit(o)
    PROVE  Quiet
  <1> USE DEF vars, recordVars, jobVars, procVars, userVars, txVars, boundVars, world
  <1>0. /\ st \in [Orders -> OrderState] /\ pc \in [Orders -> PCs]
        /\ receipt \in [Orders -> {"none", "ok", "reverted"}]
    BY DEF TypeOK
  <1>1. CASE IgnoreDeposit(o)
    BY <1>1, <1>0
    DEF StateAt, KnownState, RestoreOrder, Quiet, QuietFor, Free, MaySend, PaidStates,
        Filled, TakenPaid, TakenRefunded, IgnoreDeposit, At, Return, Wait, Goto
  <1>2. CASE FindDeposit(o)
    BY <1>2, <1>0
    DEF StateAt, KnownState, RestoreOrder, Quiet, QuietFor, Free, MaySend, PaidStates,
        Filled, TakenPaid, TakenRefunded, FindDeposit, At, Goto
  <1>3. CASE FindNothing(o)
    BY <1>3, <1>0
    DEF StateAt, KnownState, RestoreOrder, Quiet, QuietFor, Free, MaySend, PaidStates,
        Filled, TakenPaid, TakenRefunded, FindNothing, At, Goto
  <1>4. CASE KeepWatching(o)
    BY <1>4, <1>0
    DEF StateAt, KnownState, RestoreOrder, Quiet, QuietFor, Free, MaySend, PaidStates,
        Filled, TakenPaid, TakenRefunded, KeepWatching, At, Wait, Goto
  <1>5. CASE ExpireUnpaid(o)
    <2>1. Moved(o, "EXPIRED")
      BY <1>5, Moves
    <2>2. QED
      BY <1>5, <1>0, <2>1
      DEF StateAt, KnownState, RestoreOrder, Quiet, QuietFor, Free, MaySend, PaidStates,
          Filled, TakenPaid, TakenRefunded, ExpireUnpaid, At, Moved, Return, Wait, Goto
  <1>6. CASE DecideDeposit(o)
    <2>1. Moved(o, IF o \in late THEN "EXPIRED" ELSE "DEPOSIT_CONFIRMED")
      BY <1>6, Moves
    <2>2. QED
      BY <1>6, <1>0, <2>1
      DEF StateAt, KnownState, RestoreOrder, Quiet, QuietFor, Free, MaySend, PaidStates,
          Filled, TakenPaid, TakenRefunded, DecideDeposit, At, Goto, Moved
  <1>7. CASE NextStage(o)
    BY <1>7, <1>0
    DEF StateAt, KnownState, RestoreOrder, Quiet, QuietFor, Free, MaySend, PaidStates,
        Filled, TakenPaid, TakenRefunded, NextStage, At, Goto
  <1>8. QED BY <1>1, <1>2, <1>3, <1>4, <1>5, <1>6, <1>7 DEF AwaitDeposit

LEMMA ExecuteQuiet ==
    ASSUME TypeOK, StateAt, RestoreOrder, ~AnswersLost,
           NEW o \in Orders, Execute(o), ~SendSwap(o), ~SendPayout(o)
    PROVE  Quiet
  <1> USE DEF vars, recordVars, jobVars, procVars, userVars, txVars, boundVars, world
  <1>0. /\ st \in [Orders -> OrderState] /\ pc \in [Orders -> PCs]
        /\ receipt \in [Orders -> {"none", "ok", "reverted"}]
    BY DEF TypeOK
  <1>1. CASE IgnoreExecute(o)
    BY <1>1, <1>0
    DEF StateAt, KnownState, RestoreOrder, Quiet, QuietFor, Free, MaySend, PaidStates,
        Filled, TakenPaid, TakenRefunded, IgnoreExecute, At, Goto
  <1>2. CASE Reserve(o)
    BY <1>2, <1>0
    DEF StateAt, KnownState, RestoreOrder, Quiet, QuietFor, Free, MaySend, PaidStates,
        Filled, TakenPaid, TakenRefunded, Reserve, At, Goto, Reservation
  <1>3. CASE ReserveRefused(o)
    <2>1. CASE /\ st[o] = "DEPOSIT_CONFIRMED" /\ Moved(o, "INSUFFICIENT_INVENTORY")
               /\ Goto(o, "executed") /\ UNCHANGED jobVars
      BY <1>3, <1>0, <2>1
      DEF StateAt, KnownState, RestoreOrder, Quiet, QuietFor, Free, MaySend, PaidStates,
            Filled, TakenPaid, TakenRefunded, ReserveRefused, At, Goto, Moved
    <2>2. CASE st[o] = "PAYOUT_FAILED" /\ st' = st /\ JobThrows(o)
      BY <1>3, <1>0, <2>2
      DEF StateAt, KnownState, RestoreOrder, Quiet, QuietFor, Free, MaySend, PaidStates,
            Filled, TakenPaid, TakenRefunded, ReserveRefused, At, Goto, JobThrows
    <2>3. QED BY <1>3, <2>1, <2>2, Moves
  <1>4. CASE StartFilling(o)
    <2>1. Moved(o, "FILLING")
      BY <1>4, Moves
    <2>2. QED
      BY <1>4, <1>0, <2>1
      DEF StateAt, KnownState, RestoreOrder, Quiet, QuietFor, Free, MaySend, PaidStates,
          Filled, TakenPaid, TakenRefunded, StartFilling, At, Goto, Moved
  <1>5. CASE QuoteHolds(o)
    BY <1>5, <1>0
    DEF StateAt, KnownState, RestoreOrder, Quiet, QuietFor, Free, MaySend, PaidStates,
        Filled, TakenPaid, TakenRefunded, QuoteHolds, At, Goto
  <1>6. CASE QuoteRefused(o)
    <2>1. Moved(o, "REFUNDING")
      BY <1>6, Moves
    <2>2. QED
      BY <1>6, <1>0, <2>1
      DEF StateAt, KnownState, RestoreOrder, Quiet, QuietFor, Free, MaySend, PaidStates,
          Filled, TakenPaid, TakenRefunded, QuoteRefused, At, Goto, Moved, Reservation
  <1>7. CASE SwapCovers(o)
    BY <1>7, <1>0
    DEF StateAt, KnownState, RestoreOrder, Quiet, QuietFor, Free, MaySend, PaidStates,
        Filled, TakenPaid, TakenRefunded, SwapCovers, At, Goto
  <1>8. CASE SwapShort(o)
    <2>1. Moved(o, "FILL_FAILED")
      BY <1>8, Moves
    <2>2. QED
      BY <1>8, <1>0, <2>1
      DEF StateAt, KnownState, RestoreOrder, Quiet, QuietFor, Free, MaySend, PaidStates,
          Filled, TakenPaid, TakenRefunded, SwapShort, At, Goto, Moved, Reservation
  <1>9. CASE SwapFails(o)
    <2>1. Moved(o, "FILL_FAILED")
      BY <1>9, Moves
    <2>2. QED
      BY <1>9, <1>0, <2>1
      DEF StateAt, KnownState, RestoreOrder, Quiet, QuietFor, Free, MaySend, PaidStates,
          Filled, TakenPaid, TakenRefunded, SwapFails, Goto, Moved, Reservation, SendFails,
          At
  <1>10. CASE PayoutDone(o)
    BY <1>10, <1>0
    DEF StateAt, KnownState, RestoreOrder, Quiet, QuietFor, Free, MaySend, PaidStates,
        Filled, TakenPaid, TakenRefunded, PayoutDone, At, Goto
  <1>11. CASE PayoutFails(o)
    <2>1. Moved(o, "PAYOUT_FAILED")
      BY <1>11, Moves
    <2>2. QED
      BY <1>11, <1>0, <2>1
      DEF StateAt, KnownState, RestoreOrder, Quiet, QuietFor, Free, MaySend, PaidStates,
          Filled, TakenPaid, TakenRefunded, PayoutFails, Goto, Moved, Reservation,
          SendFails, At
  <1>12. CASE PayoutGivenUp(o)
    <2>1. Moved(o, "FILL_FAILED")
      BY <1>12, Moves
    <2>2. QED
      BY <1>12, <1>0, <2>1
      DEF StateAt, KnownState, RestoreOrder, Quiet, QuietFor, Free, MaySend, PaidStates,
          Filled, TakenPaid, TakenRefunded, PayoutGivenUp, Goto, Moved, Reservation,
          SendFails, At
  <1>13. CASE RecordFill(o)
    <2>1. Moved(o, "FILLED")
      BY <1>13, Moves
    <2>2. QED
      BY <1>13, <1>0, <2>1
      DEF StateAt, KnownState, RestoreOrder, Quiet, QuietFor, Free, MaySend, PaidStates,
          Filled, TakenPaid, TakenRefunded, RecordFill, At, Goto, Moved, Reservation
  <1>14. QED BY <1>1, <1>2, <1>3, <1>4, <1>5, <1>6, <1>7, <1>8, <1>9, <1>10, <1>11,
         <1>12, <1>13 DEF Execute

LEMMA SettleQuiet ==
    ASSUME TypeOK, StateAt, RestoreOrder, ~AnswersLost,
           NEW o \in Orders, Settle(o)
    PROVE  Quiet
  <1> USE DEF vars, recordVars, jobVars, procVars, userVars, txVars, boundVars, world
  <1>0. /\ st \in [Orders -> OrderState] /\ pc \in [Orders -> PCs]
        /\ receipt \in [Orders -> {"none", "ok", "reverted"}]
    BY DEF TypeOK
  <1>1. CASE StartSettling(o)
    <2>1. Moved(o, "SETTLING")
      BY <1>1, Moves
    <2>2. QED
      BY <1>1, <1>0, <2>1
      DEF StateAt, KnownState, RestoreOrder, Quiet, QuietFor, Free, MaySend, PaidStates,
          Filled, TakenPaid, TakenRefunded, StartSettling, At, Goto, Moved
  <1>2. CASE IgnoreSettle(o)
    BY <1>2, <1>0
    DEF StateAt, KnownState, RestoreOrder, Quiet, QuietFor, Free, MaySend, PaidStates,
        Filled, TakenPaid, TakenRefunded, IgnoreSettle, At, Goto
  <1>3. CASE StillPresent(o)
    BY <1>3, <1>0
    DEF StateAt, KnownState, RestoreOrder, Quiet, QuietFor, Free, MaySend, PaidStates,
        Filled, TakenPaid, TakenRefunded, StillPresent, At, Goto
  <1>4. CASE NoticeReorg(o)
    <2>1. Moved(o, "DEPOSIT_REORGED")
      BY <1>4, Moves
    <2>2. QED
      BY <1>4, <1>0, <2>1
      DEF StateAt, KnownState, RestoreOrder, Quiet, QuietFor, Free, MaySend, PaidStates,
          Filled, TakenPaid, TakenRefunded, NoticeReorg, At, Goto, Moved
  <1>5. CASE PresenceUnknown(o)
    <2>1. Moved(o, "SETTLEMENT_FAILED")
      BY <1>5, Moves
    <2>2. QED
      BY <1>5, <1>0, <2>1
      DEF StateAt, KnownState, RestoreOrder, Quiet, QuietFor, Free, MaySend, PaidStates,
          Filled, TakenPaid, TakenRefunded, PresenceUnknown, At, Goto, Moved, Fault
  <1>6. CASE CheckFinality(o)
    <2>1. Moved(o, IF depth[o] < 2 THEN "SETTLEMENT_FAILED" ELSE "SETTLED")
      BY <1>6, Moves
    <2>2. QED
      BY <1>6, <1>0, <2>1
      DEF StateAt, KnownState, RestoreOrder, Quiet, QuietFor, Free, MaySend, PaidStates,
          Filled, TakenPaid, TakenRefunded, CheckFinality, At, Goto, Moved
  <1>7. QED BY <1>1, <1>2, <1>3, <1>4, <1>5, <1>6 DEF Settle

LEMMA AfterStageQuiet ==
    ASSUME TypeOK, StateAt, RestoreOrder, ~AnswersLost,
           NEW o \in Orders, AfterStage(o)
    PROVE  Quiet
  <1> USE DEF vars, recordVars, jobVars, procVars, userVars, txVars, boundVars, world
  <1>0. /\ st \in [Orders -> OrderState] /\ pc \in [Orders -> PCs]
        /\ receipt \in [Orders -> {"none", "ok", "reverted"}]
    BY DEF TypeOK
  <1>1. CASE ComeBack(o)
    BY <1>1, <1>0
    DEF StateAt, KnownState, RestoreOrder, Quiet, QuietFor, Free, MaySend, PaidStates,
        Filled, TakenPaid, TakenRefunded, ComeBack, At, Wait, Goto
  <1>2. CASE StoreRefundStage(o)
    BY <1>2, <1>0
    DEF StateAt, KnownState, RestoreOrder, Quiet, QuietFor, Free, MaySend, PaidStates,
        Filled, TakenPaid, TakenRefunded, StoreRefundStage, At, Goto, RefundStage
  <1>3. CASE ReturnUnsettled(o)
    BY <1>3, <1>0
    DEF StateAt, KnownState, RestoreOrder, Quiet, QuietFor, Free, MaySend, PaidStates,
        Filled, TakenPaid, TakenRefunded, ReturnUnsettled, At, Return, Wait, Goto,
        RefundStage
  <1>4. CASE GoOnToRebalance(o)
    BY <1>4, <1>0
    DEF StateAt, KnownState, RestoreOrder, Quiet, QuietFor, Free, MaySend, PaidStates,
        Filled, TakenPaid, TakenRefunded, GoOnToRebalance, At, Goto
  <1>5. QED BY <1>1, <1>2, <1>3, <1>4 DEF AfterStage

LEMMA RefundQuiet ==
    ASSUME TypeOK, StateAt, RestoreOrder, ~AnswersLost,
           NEW o \in Orders, Refund(o), ~SendRefund(o)
    PROVE  Quiet
  <1> USE DEF vars, recordVars, jobVars, procVars, userVars, txVars, boundVars, world
  <1>0. /\ st \in [Orders -> OrderState] /\ pc \in [Orders -> PCs]
        /\ receipt \in [Orders -> {"none", "ok", "reverted"}]
    BY DEF TypeOK
  <1>1. CASE IgnoreRefund(o)
    BY <1>1, <1>0
    DEF StateAt, KnownState, RestoreOrder, Quiet, QuietFor, Free, MaySend, PaidStates,
        Filled, TakenPaid, TakenRefunded, IgnoreRefund, At, Return, Wait, Goto, Refundable
  <1>2. CASE StartRefund(o)
    <2>1. Moved(o, "REFUNDING")
      BY <1>2, Moves
    <2>2. QED
      BY <1>2, <1>0, <2>1
      DEF StateAt, KnownState, RestoreOrder, Quiet, QuietFor, Free, MaySend, PaidStates,
          Filled, TakenPaid, TakenRefunded, StartRefund, At, Goto, Moved, Refundable
  <1>3. CASE RefundTooShallow(o)
    <2>1. Moved(o, "REFUND_FAILED")
      BY <1>3, Moves
    <2>2. QED
      BY <1>3, <1>0, <2>1
      DEF StateAt, KnownState, RestoreOrder, Quiet, QuietFor, Free, MaySend, PaidStates,
          Filled, TakenPaid, TakenRefunded, RefundTooShallow, At, Moved, Wait, Goto
  <1>4. CASE RefundDeepEnough(o)
    BY <1>4, <1>0
    DEF StateAt, KnownState, RestoreOrder, Quiet, QuietFor, Free, MaySend, PaidStates,
        Filled, TakenPaid, TakenRefunded, RefundDeepEnough, At, Goto
  <1>5. CASE RefundDone(o)
    BY <1>5, <1>0
    DEF StateAt, KnownState, RestoreOrder, Quiet, QuietFor, Free, MaySend, PaidStates,
        Filled, TakenPaid, TakenRefunded, RefundDone, At, Goto
  <1>6. CASE RefundFails(o)
    <2>1. Moved(o, "REFUND_FAILED")
      BY <1>6, Moves
    <2>2. QED
      BY <1>6, <1>0, <2>1
      DEF StateAt, KnownState, RestoreOrder, Quiet, QuietFor, Free, MaySend, PaidStates,
          Filled, TakenPaid, TakenRefunded, RefundFails, Moved, Wait, Goto, SendFails, At
  <1>7. CASE RecordRefund(o)
    <2>1. Moved(o, "REFUNDED")
      BY <1>7, Moves
    <2>2. QED
      BY <1>7, <1>0, <2>1
      DEF StateAt, KnownState, RestoreOrder, Quiet, QuietFor, Free, MaySend, PaidStates,
          Filled, TakenPaid, TakenRefunded, RecordRefund, At, Moved, Return, Wait, Goto
  <1>8. QED BY <1>1, <1>2, <1>3, <1>4, <1>5, <1>6, <1>7 DEF Refund

LEMMA RebalanceQuiet ==
    ASSUME TypeOK, StateAt, RestoreOrder, ~AnswersLost,
           NEW o \in Orders, Rebalance(o), ~SendRebalance(o)
    PROVE  Quiet
  <1> USE DEF vars, recordVars, jobVars, procVars, userVars, txVars, boundVars, world
  <1>0. /\ st \in [Orders -> OrderState] /\ pc \in [Orders -> PCs]
        /\ receipt \in [Orders -> {"none", "ok", "reverted"}]
    BY DEF TypeOK
  <1>1. CASE SkipRebalance(o)
    BY <1>1, <1>0
    DEF StateAt, KnownState, RestoreOrder, Quiet, QuietFor, Free, MaySend, PaidStates,
        Filled, TakenPaid, TakenRefunded, SkipRebalance, At, Return, Wait, Goto
  <1>2. CASE RebalanceDone(o)
    BY <1>2, <1>0
    DEF StateAt, KnownState, RestoreOrder, Quiet, QuietFor, Free, MaySend, PaidStates,
        Filled, TakenPaid, TakenRefunded, RebalanceDone, At, Return, Wait, Goto
  <1>3. CASE RebalanceFails(o)
    BY <1>3, <1>0
    DEF StateAt, KnownState, RestoreOrder, Quiet, QuietFor, Free, MaySend, PaidStates,
        Filled, TakenPaid, TakenRefunded, RebalanceFails, JobThrows, Goto, SendFails, At
  <1>4. QED BY <1>1, <1>2, <1>3 DEF Rebalance

LEMMA RecoverQuiet ==
    ASSUME TypeOK, StateAt, RestoreOrder, ~AnswersLost,
           NEW o \in Orders, Recover(o)
    PROVE  Quiet
  <1> USE DEF vars, recordVars, jobVars, procVars, userVars, txVars, boundVars, world
  <1>0. /\ st \in [Orders -> OrderState] /\ pc \in [Orders -> PCs]
        /\ receipt \in [Orders -> {"none", "ok", "reverted"}]
    BY DEF TypeOK
  <1>1. CASE RecoverFill(o)
    <2>1. Moved(o, "FILLED")
      BY <1>1, Moves
    <2>2. QED
      BY <1>1, <1>0, <2>1
      DEF StateAt, KnownState, RestoreOrder, Quiet, QuietFor, Free, MaySend, PaidStates,
          Filled, TakenPaid, TakenRefunded, RecoverFill, Goto, Moved, Reservation, Found,
          Recovering
  <1>2. CASE RecoverRefund(o)
    <2>1. Moved(o, "REFUNDED")
      BY <1>2, Moves
    <2>2. QED
      BY <1>2, <1>0, <2>1
      DEF StateAt, KnownState, RestoreOrder, Quiet, QuietFor, Free, MaySend, PaidStates,
          Filled, TakenPaid, TakenRefunded, RecoverRefund, Moved, RefundKind, Found,
          Recovering
  <1>3. CASE HandToReview(o)
    <2>1. Moved(o, "NEEDS_REVIEW")
      BY <1>3, Moves
    <2>2. QED
      BY <1>3, <1>0, <2>1
      DEF StateAt, KnownState, RestoreOrder, Quiet, QuietFor, Free, MaySend, PaidStates,
          Filled, TakenPaid, TakenRefunded, HandToReview, Moved, RefundKind, Found,
          Recovering
  <1>4. CASE Recovered(o)
    BY <1>4, <1>0
    DEF StateAt, KnownState, RestoreOrder, Quiet, QuietFor, Free, MaySend, PaidStates,
        Filled, TakenPaid, TakenRefunded, Recovered, At, Goto
  <1>5. QED BY <1>1, <1>2, <1>3, <1>4 DEF Recover


LEMMA OtherQuiet ==
    ASSUME TypeOK, ~SavesFail, NEW o \in Orders, DepositCheckFails(o) \/ Throw(o)
    PROVE  Quiet
  <1> USE DEF vars, recordVars, jobVars, procVars, userVars, txVars, boundVars, world
  <1>1. CASE DepositCheckFails(o)
    BY <1>1 DEF TypeOK, DepositCheckFails, Wait, Goto, Quiet, QuietFor, Free, MaySend,
                TakenPaid, TakenRefunded
  <1>2. CASE Throw(o)
    BY <1>2 DEF TypeOK, Throw, ReadThrows, JobThrows, Goto, Quiet, QuietFor, Free, MaySend,
                TakenPaid, TakenRefunded
  <1>3. QED BY <1>1, <1>2

LEMMA ProcessQuiet ==
    ASSUME TypeOK, RestoreOrder, ProcessDies \/ Boot \/ StartWorker \/ UNCHANGED vars
    PROVE  Quiet
  <1> USE DEF vars, recordVars, jobVars, procVars, userVars, txVars, boundVars, world
  <1>1. CASE ProcessDies
    BY <1>1 DEF TypeOK, ProcessDies, Quiet, QuietFor, Free, MaySend, TakenPaid, TakenRefunded
  <1>2. CASE Boot
    BY <1>2 DEF Boot, Quiet, QuietFor, Free, MaySend, TakenPaid, TakenRefunded
  <1>3. CASE StartWorker
    BY <1>3 DEF StartWorker, RestoreOrder, Quiet, QuietFor, Free, MaySend, TakenPaid,
                TakenRefunded
  <1>4. CASE UNCHANGED vars
    BY <1>4 DEF Quiet, QuietFor, Free, MaySend, TakenPaid, TakenRefunded
  <1>5. QED BY <1>1, <1>2, <1>3, <1>4

LEMMA ChainQuiet == ASSUME TypeOK, NEW o \in Orders, Chain(o) PROVE Quiet
  <1> USE DEF vars, recordVars, jobVars, procVars, userVars, txVars, boundVars, world
  <1>1. UNCHANGED <<st, pc, phase, mined, pending, sends, receipt>>
    BY DEF Chain, TransferLands, Bury, Reorg, DeadlinePasses
  <1>2. QED
    BY <1>1 DEF Quiet, QuietFor, Free, MaySend, TakenPaid, TakenRefunded

LEMMA QuietKeepsMoney ==
    ASSUME TypeOK, Attached, Money, Quiet,
           \A o \in Orders : o \in held => o \in held' /\ (o \notin late => o \notin late')
    PROVE  Money'
  <1>1. Unsent'
    BY DEF Money, Quiet, QuietFor, Unsent, Out
  <1>2. OneOut'
    BY DEF Money, Quiet, OneOut, DisbursedOnce
  <1>3. Nonces'
    BY DEF Money, Quiet, QuietFor, Nonces, NonceOf, TypeOK, Tx
  <1>4. PayoutsMatch'
    <2> SUFFICES ASSUME NEW o \in Orders, PayoutOut(o)'
                 PROVE  st'[o] \in PaidStates /\ o \in held' \ late'
      BY DEF PayoutsMatch
    <2>1. PayoutOut(o)
      BY DEF Quiet, PayoutOut, Executed, Outstanding
    <2>2. Out(o)
      BY <2>1 DEF PayoutOut, Executed, Outstanding, Out, Disburses
    <2>3. st[o] \in PaidStates /\ o \in held \ late
      BY <2>1 DEF Money, PayoutsMatch
    <2>4. st'[o] \in PaidStates
      BY <2>2, <2>3 DEF Quiet, QuietFor, Money, Unsent
    <2>5. QED BY <2>3, <2>4
  <1>5. QED BY <1>1, <1>2, <1>3, <1>4 DEF Money

-----------------------------------------------------------------------------
(* Steps that send.                                                        *)

LEMMA TradeKeepsMoney ==
    ASSUME TypeOK, StateAt, RestoreOrder, Money,
           NEW o \in Orders, SendSwap(o) \/ SendRebalance(o)
    PROVE  Money'
  <1> USE DEF vars, recordVars, jobVars, procVars, userVars, txVars, boundVars, world
  <1> DEFINE tx(kind) == [order |-> o, kind |-> kind, nonce |-> sends[o] + 1]
  <1>1. PICK kind \in {"swap", "rebalance"} : Broadcast(o, kind)
    BY DEF SendSwap, SendRebalance
  <1>2. /\ pending' = pending \cup {tx(kind)} /\ ~Disburses(kind)
        /\ mined' = mined
        /\ sends' = [sends EXCEPT ![o] = @ + 1]
    BY <1>1 DEF Broadcast, Disburses
  <1>3. /\ UNCHANGED <<st, phase, held, late>>
        /\ pc[o] \in {"swap", "rebalance"} /\ pc'[o] \in {"swapping", "rebalancing"}
        /\ pc[o] = "swap" => pc'[o] = "swapping"
        /\ \A p \in Orders : p # o => pc'[p] = pc[p] /\ receipt'[p] = receipt[p]
    BY DEF TypeOK, SendSwap, SendRebalance, At, Goto, Broadcast
  <1>4. \A p \in Orders : Free(p)' => Free(p)
    BY <1>3 DEF StateAt, KnownState, Free, MaySend
  <1>5. \A p \in Orders : Out(p)' => Out(p)
    BY <1>2 DEF Out
  <1>6. Unsent'
    BY <1>4, <1>5 DEF Money, Unsent
  <1>7. OneOut'
    BY <1>2 DEF Money, OneOut, DisbursedOnce
  <1>8. Nonces'
    BY <1>2, <1>3, SMTT(30) DEF TypeOK, Tx, Money, Nonces, NonceOf
  <1>9. PayoutsMatch'
    BY <1>2, <1>3 DEF Money, PayoutsMatch, PayoutOut, Executed, Outstanding, Disburses
  <1>10. QED BY <1>6, <1>7, <1>8, <1>9 DEF Money

LEMMA DisbursementKeepsMoney ==
    ASSUME TypeOK, StateAt, RestoreOrder, Attached, Money,
           NEW o \in Orders, SendPayout(o) \/ SendRefund(o)
    PROVE  Money'
  <1> USE DEF vars, recordVars, jobVars, procVars, userVars, txVars, boundVars, world
  <1> DEFINE tx(kind) == [order |-> o, kind |-> kind, nonce |-> sends[o] + 1]
  <1>1. PICK kind \in {"payout", "refund", "refundOutput"} :
           /\ Broadcast(o, kind)
           /\ pc'[o] = "paying" => kind = "payout" /\ st[o] = "FILLING"
           /\ pc'[o] = "refunding" => kind # "payout"
    BY DEF TypeOK, StateAt, KnownState, SendPayout, SendRefund, RefundKind, At, Goto
  <1>2. /\ pending' = pending \cup {tx(kind)} /\ Disburses(kind)
        /\ mined' = mined
        /\ sends' = [sends EXCEPT ![o] = @ + 1]
    BY <1>1 DEF Broadcast, Disburses
  <1>3. /\ UNCHANGED <<st, phase, held, late>>
        /\ pc'[o] \in {"paying", "refunding"}
        /\ receipt'[o] = "none"
        /\ \A p \in Orders : p # o => pc'[p] = pc[p] /\ receipt'[p] = receipt[p]
    BY DEF TypeOK, SendPayout, SendRefund, At, Goto, Broadcast
  <1>4. MaySend(o) /\ ~Free(o)'
    BY <1>3 DEF TypeOK, StateAt, KnownState, RestoreOrder, SendPayout, SendRefund, At, Goto,
                Free, MaySend
  <1>5. ~Out(o)
    BY <1>4 DEF Money, Unsent, Free
  <1>6. Unsent'
    <2>1. \A p \in Orders : p # o => (Free(p)' => Free(p)) /\ (Out(p)' => Out(p))
      BY <1>2, <1>3 DEF Free, MaySend, Out
    <2>2. QED BY <1>4, <2>1 DEF Money, Unsent
  <1>7. OneOut'
    BY <1>2, <1>5 DEF Money, OneOut, DisbursedOnce, Out
  <1>8. Nonces'
    BY <1>1, <1>2, <1>3, SMTT(30) DEF TypeOK, Tx, Money, Nonces, NonceOf
  <1>9. PayoutsMatch'
    <2>1. kind = "payout" => st[o] = "FILLING" /\ o \in held \ late
      BY <1>1, <1>3 DEF Attached, AttachedTo
    <2>2. \A p \in Orders : PayoutOut(p)' => PayoutOut(p) \/ (p = o /\ kind = "payout")
      BY <1>2 DEF PayoutOut, Executed, Outstanding
    <2>3. QED BY <1>3, <2>1, <2>2 DEF Money, PayoutsMatch, PaidStates
  <1>10. QED BY <1>6, <1>7, <1>8, <1>9 DEF Money

-----------------------------------------------------------------------------
(* Steps of the chain.                                                     *)

LEMMA MinedGrows ==
    ASSUME TypeOK, NEW e, mined' = Append(mined, e)
    PROVE  /\ DOMAIN mined' = DOMAIN mined \cup {Len(mined) + 1}
           /\ Len(mined) + 1 \notin DOMAIN mined
           /\ \A i \in DOMAIN mined : mined'[i] = mined[i]
           /\ mined'[Len(mined) + 1] = e
  <1>1. mined \in Seq([order : Orders, kind : Kinds])
    BY DEF TypeOK
  <1>2. Len(mined) \in Nat /\ DOMAIN mined = 1..Len(mined)
    BY <1>1
  <1>3. DOMAIN mined' = 1..(Len(mined) + 1)
    BY <1>1
  <1>4. QED BY <1>1, <1>2, <1>3

LEMMA MinedKeepsMoney ==
    ASSUME TypeOK, Money, NEW t \in pending, Mine(t) \/ Revert(t)
    PROVE  Money'
  <1> USE DEF vars, recordVars, jobVars, procVars, userVars, txVars, boundVars, world
  <1>1. /\ UNCHANGED <<st, pc, phase, held, late, sends>>
        /\ pending' = pending \ {t}
        /\ t.order \in Orders
    BY DEF TypeOK, Tx, Mine, Revert
  <1>2. \/ mined' = mined
        \/ /\ mined' = Append(mined, [order |-> t.order, kind |-> t.kind])
           /\ Receipt(t, "ok")
    BY DEF Mine, Revert
  <1>3. \A p \in Orders : Out(p)' => Out(p)
    <2> SUFFICES ASSUME NEW p \in Orders, Out(p)' PROVE Out(p)
      OBVIOUS
    <2>1. CASE mined' = mined
      BY <1>1, <2>1 DEF Out
    <2>2. CASE mined' = Append(mined, [order |-> t.order, kind |-> t.kind])
      BY <1>1, <2>2, MinedGrows DEF Out
    <2>3. QED BY <1>2, <2>1, <2>2
  <1>4. Unsent'
    <2> SUFFICES ASSUME NEW p \in Orders, Free(p)' PROVE ~Out(p)'
      BY DEF Unsent
    <2>1. CASE Free(p)
      BY <1>3, <2>1 DEF Money, Unsent
    <2>2. CASE ~Free(p)
      <3>1. /\ pc[p] \in {"paying", "refunding"}
            /\ receipt[p] # "reverted" /\ receipt'[p] = "reverted"
        BY <1>1, <2>2 DEF Free, MaySend
      <3>2. p = t.order /\ t.nonce = sends[p] /\ Revert(t)
        BY <3>1 DEF TypeOK, Mine, Revert, Receipt
      <3>3. Disburses(t.kind)
        BY <3>1, <3>2 DEF Money, Nonces, NonceOf, Disburses
      <3>4. mined' = mined
        BY <3>2 DEF Revert
      <3>5. QED BY <1>1, <3>2, <3>3, <3>4 DEF Money, OneOut, Out
    <2>3. QED BY <2>1, <2>2
  <1>5. OneOut'
    <2>1. CASE mined' = mined
      BY <1>1, <2>1 DEF Money, OneOut, DisbursedOnce
    <2>2. CASE mined' = Append(mined, [order |-> t.order, kind |-> t.kind])
      BY <1>1, <2>2, MinedGrows DEF Money, OneOut, DisbursedOnce
    <2>3. QED BY <1>2, <2>1, <2>2
  <1>6. Nonces'
    BY <1>1 DEF Money, Nonces, NonceOf
  <1>7. PayoutsMatch'
    <2>1. \A p \in Orders : PayoutOut(p)' => PayoutOut(p)
      <3>1. CASE mined' = mined
        BY <1>1, <3>1 DEF PayoutOut, Executed, Outstanding
      <3>2. CASE mined' = Append(mined, [order |-> t.order, kind |-> t.kind])
        BY <1>1, <3>2, MinedGrows DEF PayoutOut, Executed, Outstanding
      <3>3. QED BY <1>2, <3>1, <3>2
    <2>2. QED BY <1>1, <2>1 DEF Money, PayoutsMatch
  <1>8. QED BY <1>4, <1>5, <1>6, <1>7 DEF Money


-----------------------------------------------------------------------------
(* The invariant and what follows from it.                                 *)

LEMMA WorksQuiet ==
    ASSUME TypeOK, StateAt, RestoreOrder, ~AnswersLost, NEW o \in Orders, Works(o)
    PROVE  Quiet \/ SendSwap(o) \/ SendRebalance(o) \/ SendPayout(o) \/ SendRefund(o)
  <1> USE DEF vars, recordVars, jobVars, procVars, userVars, txVars, boundVars, world
  <1>1. CASE Enqueue(o)
    BY <1>1 DEF TypeOK, Enqueue, At, Wait, Goto, Quiet, QuietFor, Free, MaySend, TakenPaid,
                TakenRefunded
  <1>2. CASE PickUp(o)
    BY <1>2 DEF TypeOK, Stages, PickUp, At, Goto, Quiet, QuietFor, Free, MaySend, TakenPaid,
                TakenRefunded
  <1>3. QED
    BY <1>1, <1>2, AwaitDepositQuiet, ExecuteQuiet, SettleQuiet, AfterStageQuiet,
       RefundQuiet, RebalanceQuiet, RecoverQuiet DEF Works

\* Every step is quiet, sends, or is the chain's.
LEMMA NextQuiet ==
    ASSUME TypeOK, StateAt, RestoreOrder, ~SavesFail, ~AnswersLost, [Next]_vars
    PROVE  \/ Quiet
           \/ \E o \in Orders : SendSwap(o) \/ SendRebalance(o)
           \/ \E o \in Orders : SendPayout(o) \/ SendRefund(o)
           \/ \E t \in pending : Mine(t) \/ Revert(t)
  <1>1. ASSUME NEW o \in Orders, Errs(o) PROVE Quiet
    BY <1>1, OtherQuiet, ProcessQuiet DEF Errs, RestoreThrows
  <1>2. CASE Crash \/ Boot \/ StartWorker \/ UNCHANGED vars
    BY <1>2, ProcessQuiet DEF Crash
  <1>3. QED
    BY <1>1, <1>2, WorksQuiet, ChainQuiet DEF Next, Quiescent

\* Only the chain and the user move what is on chain.
LEMMA WorksLate == ASSUME NEW o \in Orders, Works(o) PROVE late' = late
  <1> USE DEF vars, recordVars, jobVars, procVars, userVars, txVars, boundVars, world
  <1>1. QED
    BY DEF Works, Enqueue, PickUp,
       AwaitDeposit, IgnoreDeposit, FindDeposit, FindNothing, KeepWatching, ExpireUnpaid,
       DecideDeposit, NextStage, Execute, IgnoreExecute, Reserve, ReserveRefused,
       StartFilling, QuoteHolds, QuoteRefused, SendSwap, SwapCovers,
       SwapShort, SwapFails, SendPayout, PayoutDone, PayoutFails, PayoutGivenUp,
       RecordFill, Settle, StartSettling, IgnoreSettle, StillPresent, NoticeReorg,
       PresenceUnknown, CheckFinality, AfterStage, ComeBack, StoreRefundStage,
       ReturnUnsettled, GoOnToRebalance, Refund, IgnoreRefund, StartRefund,
       RefundTooShallow, RefundDeepEnough, SendRefund, RefundDone, RefundFails,
       RecordRefund, Rebalance, SkipRebalance, SendRebalance, RebalanceDone,
       RebalanceFails, Recover, RecoverFill, RecoverRefund, HandToReview, Recovered

\* What is held stays held, and on time.
LEMMA HeldStays ==
    ASSUME TypeOK, StateAt, Records, [Next]_vars
    PROVE  \A o \in Orders : o \in held => o \in held' /\ (o \notin late => o \notin late')
  <1> USE DEF vars, recordVars, jobVars, procVars, userVars, txVars, boundVars, world
  <1>1. ASSUME NEW o \in Orders, Works(o) PROVE held \subseteq held' /\ late' = late
    BY <1>1, WorksRecords, WorksLate
  <1>2. ASSUME NEW o \in Orders, Errs(o) PROVE held' = held /\ late' = late
    BY <1>2 DEF Errs, DepositCheckFails, Throw, RestoreThrows, ProcessDies
  <1>3. ASSUME NEW o \in Orders, Chain(o)
        PROVE  held' = held /\ \A p \in held : p \notin late => p \notin late'
    BY <1>3 DEF TypeOK, Records, Attached, AttachedTo, Chain, TransferLands, Bury, Reorg,
          DeadlinePasses
  <1>4. ASSUME NEW t \in pending, Mine(t) \/ Revert(t) PROVE held' = held /\ late' = late
    BY <1>4 DEF Mine, Revert
  <1>5. CASE Crash \/ Boot \/ StartWorker \/ UNCHANGED vars
    BY <1>5 DEF Crash, ProcessDies, Boot, StartWorker
  <1>6. QED
    BY <1>1, <1>2, <1>3, <1>4, <1>5 DEF TypeOK, Next, Quiescent

LEMMA NextMoney ==
    ASSUME TypeOK, StateAt, Records, Money, ~SavesFail, ~AnswersLost, [Next]_vars
    PROVE  Money'
  BY NextQuiet, HeldStays, QuietKeepsMoney, TradeKeepsMoney, DisbursementKeepsMoney,
     MinedKeepsMoney DEF Records

LEMMA MoneyInvariant ==
    ASSUME ~SavesFail, ~AnswersLost
    PROVE  Spec => []Money
<1>1. Init => Money
  BY DEF Init, Money, Unsent, Out, OneOut, DisbursedOnce, Nonces, PayoutsMatch, PayoutOut,
         Executed, Outstanding
<1>2. TypeOK /\ StateAt /\ Records /\ Money /\ [Next]_vars => Money'
  BY NextMoney
<1>3. QED
  BY <1>1, <1>2, TypeCorrect, StateAtInvariant, RecordsInvariant, PTL
     DEF Spec

\* No order's deposit is paid out or refunded twice, nor both.
THEOREM DepositDisbursedOnce ==
    ASSUME ~SavesFail, ~AnswersLost
    PROVE  Spec => []DisbursedOnce
<1>1. Money => DisbursedOnce
  BY DEF Money, OneOut
<1>2. QED
  BY <1>1, MoneyInvariant, PTL

\* A payout is broadcast only for an order whose deposit is attached and was on
\* time.
THEOREM PaidAfterDeposit ==
    ASSUME ~SavesFail, ~AnswersLost
    PROVE  Spec => []PaysOnlyConfirmed
<1>1. Money => PaysOnlyConfirmed
  BY DEF Money, PayoutsMatch, PayoutOut, PaysOnlyConfirmed
<1>2. QED
  BY <1>1, MoneyInvariant, PTL

-----------------------------------------------------------------------------
(* The records and the chain, when no two payouts look alike.              *)

LEMMA ItemOfSeq == ASSUME NEW S, NEW s \in Seq(S), NEW i \in DOMAIN s PROVE s[i] \in S
  OBVIOUS

LEMMA FoundIsOwn ==
    ASSUME TypeOK, NEW o \in Orders, NEW kind, NEW from, Found(o, kind, from),
           \A p, q \in Orders : TransferKey[p] = TransferKey[q] => p = q
    PROVE  Executed(o, kind)
  <1>1. PICK i \in DOMAIN mined :
           mined[i].kind = kind /\ TransferKey[mined[i].order] = TransferKey[o]
    BY DEF Found
  <1>2. mined[i] \in [order : Orders, kind : Kinds]
    <2>1. mined \in Seq([order : Orders, kind : Kinds])
      BY DEF TypeOK
    <2>2. QED BY <2>1, ItemOfSeq
  <1>3. mined[i] = [order |-> o, kind |-> kind]
    BY <1>1, <1>2
  <1>4. QED BY <1>3 DEF Executed

LEMMA NextProven ==
    ASSUME TypeOK, StateAt, Records, Money, Proven, ~SavesFail, ~AnswersLost, [Next]_vars,
           \A p, q \in Orders : TransferKey[p] = TransferKey[q] => p = q
    PROVE  Proven'
  <1> USE DEF vars, recordVars, jobVars, procVars, userVars, txVars, boundVars, world
  <1>1. CASE Quiet
    <2> SUFFICES ASSUME NEW o \in Orders
                 PROVE  /\ TakenPaid(o)' => Executed(o, "payout")'
                        /\ TakenRefunded(o)' => Refunded(o)'
      BY DEF Proven
    <2>1. \A kind : Executed(o, kind)' <=> Executed(o, kind)
      BY <1>1 DEF Quiet, Executed
    <2>2. TakenPaid(o)' => Executed(o, "payout")
      BY <1>1, FoundIsOwn DEF Quiet, QuietFor, Proven
    <2>3. Found(o, RefundKind(o), landedAt[o]) => Refunded(o)
      BY FoundIsOwn DEF RefundKind, Refunded
    <2>4. TakenRefunded(o)' => Refunded(o)
      BY <1>1, <2>3 DEF Quiet, QuietFor, Proven
    <2>5. QED BY <2>1, <2>2, <2>4 DEF Refunded
  <1>2. ASSUME NEW o \in Orders,
               SendSwap(o) \/ SendRebalance(o) \/ SendPayout(o) \/ SendRefund(o)
        PROVE  Proven'
    <2>1. /\ mined' = mined /\ st' = st
          /\ receipt'[o] = "none" /\ pc'[o] \notin {"paid", "returned"}
          /\ \A p \in Orders : p # o => pc'[p] = pc[p] /\ receipt'[p] = receipt[p]
      BY <1>2 DEF TypeOK, SendSwap, SendRebalance, SendPayout, SendRefund, Broadcast, Goto
    <2>2. QED
      BY <2>1 DEF Proven, TakenPaid, TakenRefunded, Executed, Refunded
  <1>3. ASSUME NEW t \in pending, Mine(t) \/ Revert(t) PROVE Proven'
    <2>1. \A p \in Orders, kind \in Kinds : Executed(p, kind) => Executed(p, kind)'
      <3>1. CASE mined' = mined
        BY <3>1 DEF Executed
      <3>2. CASE mined' = Append(mined, [order |-> t.order, kind |-> t.kind])
        BY <3>2, MinedGrows DEF Executed
      <3>3. QED BY <1>3, <3>1, <3>2 DEF Mine, Revert
    <2>2. Mine(t) => Executed(t.order, t.kind)'
      BY MinedGrows DEF Mine, Executed
    <2>3. ASSUME NEW p \in Orders, pc[p] \in {"paying", "refunding"},
                 receipt[p] # "ok", receipt'[p] = "ok"
          PROVE  Mine(t) /\ p = t.order /\ t.nonce = sends[p]
      BY <1>3, <2>3, SMTT(30) DEF TypeOK, Mine, Revert, Receipt
    <2>4. ASSUME NEW p \in Orders, pc[p] = "paying", receipt[p] # "ok", receipt'[p] = "ok"
          PROVE  Executed(p, "payout")'
      BY <2>2, <2>3, <2>4 DEF Money, Nonces, NonceOf
    <2>5. ASSUME NEW p \in Orders, pc[p] = "refunding", receipt[p] # "ok", receipt'[p] = "ok"
          PROVE  Refunded(p)'
      BY <2>2, <2>3, <2>5 DEF Money, Nonces, NonceOf, Refunded
    <2>6. st' = st /\ pc' = pc
      BY <1>3 DEF Mine, Revert
    <2>7. \A p \in Orders : TakenPaid(p)' => Executed(p, "payout")'
      BY <2>1, <2>4, <2>6, TxKinds DEF Proven, TakenPaid
    <2>8. \A p \in Orders : TakenRefunded(p)' => Refunded(p)'
      BY <2>1, <2>5, <2>6, TxKinds DEF Proven, TakenRefunded, Refunded
    <2>9. QED BY <2>7, <2>8 DEF Proven
  <1>4. QED
    BY <1>1, <1>2, <1>3, NextQuiet DEF Records

\* When no two orders' payouts look alike to recover()'s search, the record and
\* the chain agree: an order past FILLING was paid, a REFUNDED one refunded,
\* and an order with a payout out is in no state that would pay or refund again.
THEOREM RecordsAreTrue ==
    ASSUME ~SavesFail, ~AnswersLost,
           \A p, q \in Orders : TransferKey[p] = TransferKey[q] => p = q
    PROVE  Spec => []RecordsMatchChain
<1>1. Init => Proven
  BY DEF Init, Proven, TakenPaid, TakenRefunded, Filled
<1>2. TypeOK /\ StateAt /\ Records /\ Money /\ Proven /\ [Next]_vars => Proven'
  BY NextProven
<1>3. Money /\ Proven => RecordsMatchChain
  BY DEF Money, PayoutsMatch, PayoutOut, PaidStates, Proven, TakenPaid, TakenRefunded, Refunded,
         RecordsMatchChain
<1>4. QED
  BY <1>1, <1>2, <1>3, TypeCorrect, StateAtInvariant, RecordsInvariant, MoneyInvariant, PTL
     DEF Spec

-----------------------------------------------------------------------------
(* Refinement.                                                             *)

\* The pipeline implements the escrow: it holds deposits, trades with what it
\* holds, and lets go of each deposit at most once.
THEOREM PipelineIsEscrow ==
    ASSUME ~SavesFail, ~AnswersLost
    PROVE  Spec => ImplementsEscrow
<1> USE DEF vars, recordVars, jobVars, procVars, userVars, txVars, boundVars, world
<1>1. Init => Promise!Init
  BY DEF Init, Promise!Init
<1>2. TypeOK /\ StateAt /\ Records /\ Money /\ [Next]_vars
         => [Promise!Next]_<<held, mined>>
  <2> SUFFICES ASSUME TypeOK, StateAt, Records, Money, [Next]_vars
               PROVE  Promise!Next \/ UNCHANGED <<held, mined>>
    OBVIOUS
  <2>1. ASSUME NEW o \in Orders, Works(o) PROVE Promise!Next \/ UNCHANGED <<held, mined>>
    <3>1. mined' = mined
      BY <2>1, WorksQuiet DEF Records, Quiet, SendSwap, SendRebalance, SendPayout, SendRefund,
            Broadcast
    <3>2. held' \in {held, held \cup {o}}
      BY <2>1, WorksRecords
    <3>3. QED BY <3>1, <3>2 DEF Promise!Next, Promise!Hold
  <2>2. ASSUME NEW t \in pending, Mine(t) PROVE Promise!Next
    <3>1. /\ t.order \in Orders /\ t.order \in held /\ t.kind \in Kinds
          /\ held' = held /\ mined' = Append(mined, [order |-> t.order, kind |-> t.kind])
      BY <2>2 DEF TypeOK, Tx, Records, Attached, Mine
    <3>2. CASE Disburses(t.kind)
      <4>1. ~Promise!Disbursed(t.order)
        BY <3>2 DEF Money, OneOut, Promise!Disbursed, Promise!Disbursements, Disburses
      <4>2. t.kind \in Promise!Disbursements
        BY <3>2 DEF Disburses, Promise!Disbursements
      <4>3. QED BY <3>1, <4>1, <4>2 DEF Promise!Next, Promise!Disburse
    <3>3. CASE ~Disburses(t.kind)
      <4>1. t.kind \in Promise!Trades
        BY <3>1, <3>3 DEF Kinds, Disburses, Promise!Trades
      <4>2. QED BY <3>1, <4>1 DEF Promise!Next, Promise!Trade
    <3>4. QED BY <3>2, <3>3
  <2>3. ASSUME NEW o \in Orders, Errs(o) \/ Chain(o) PROVE UNCHANGED <<held, mined>>
    BY <2>3 DEF Errs, DepositCheckFails, Throw, RestoreThrows, ProcessDies,
                Chain, TransferLands, Bury, Reorg, DeadlinePasses
  <2>4. ASSUME NEW t \in pending, Revert(t) PROVE UNCHANGED <<held, mined>>
    BY <2>4 DEF Revert
  <2>5. CASE Crash \/ Boot \/ StartWorker \/ UNCHANGED vars
    BY <2>5 DEF Crash, ProcessDies, Boot, StartWorker
  <2>6. QED
    BY <2>1, <2>2, <2>3, <2>4, <2>5 DEF Next, Quiescent
<1>3. QED
  BY <1>1, <1>2, TypeCorrect, StateAtInvariant, RecordsInvariant,
     MoneyInvariant, PTL DEF Spec, ImplementsEscrow, Promise!Spec

=============================================================================
