--------------------------- MODULE OrderLifecycle ---------------------------
(***************************************************************************)
(* An accepted order from AWAITING_DEPOSIT to its end: the stages of       *)
(* execution/executor.ts as the BullMQ job of execution/fill-queue.ts runs *)
(* them, the transactions fill-engine.ts sends for them, and the restart   *)
(* of solver.ts restore(), against a chain that mines, reverts and reorgs. *)
(*                                                                         *)
(* A step ends where the code awaits something another actor, a crash or a *)
(* thrown error can come between.  pc[o] names the await order o's code is *)
(* at; everything but pc, payoutOnly and receipt survives a crash.         *)
(* Amounts live in the ledger, not here: of a reservation this module      *)
(* keeps whether it is held, and a refused one is a choice.                *)
(***************************************************************************)
EXTENDS OrderStates, Naturals, Sequences

CONSTANTS
    Orders,         \* accepted orders
    WithLegs,       \* orders whose fill swaps before it pays (path.legs)
    Bridged,        \* orders whose deposit stays on another chain (path.bridge)
    WithOriginLegs, \* those whose deposit is then swapped into the hub asset
    TransferKey,    \* what a Transfer log shows of o's payout: token, recipient, amount
    MaxAttempts,    \* QUEUE_ATTEMPTS
    MaxStalls,      \* BullMQ's maxStalledCount, left at its default
    MaxCrashes,     \* bound on crashes of the leading process
    MaxFaults,      \* bound on errors, reverts and lost answers
    ReadsFail,      \* an RPC read may throw
    SavesFail,      \* a write to Redis may throw
    AnswersLost     \* after a broadcast, the receipt or a balance read may throw

\* A same-chain path always swaps, and only a bridged one has an origin side.
ASSUME RouteAssumption ==
    /\ WithLegs \subseteq Orders /\ Bridged \subseteq Orders
    /\ Orders \ Bridged \subseteq WithLegs
    /\ WithOriginLegs \subseteq Bridged

ASSUME BoundAssumption ==
    /\ MaxAttempts \in Nat \ {0}
    /\ MaxStalls \in Nat
    /\ MaxCrashes \in Nat
    /\ MaxFaults \in Nat
    /\ {ReadsFail, SavesFail, AnswersLost} \subseteq BOOLEAN

VARIABLES
    st,         \* order.state
    held,       \* orders with order.deposit attached (its key is in `claimed`)
    owed,       \* orders with order.owed attached
    fillFrom,   \* order.fillFromBlock, as a position in `mined`
    res,        \* the order's reservation: none, held, committed or released
    refused,    \* history: the moves <<from, to>> that `transition` threw on
    job,        \* the job's stage, "none" before enqueue, "done" or "failed" after
    attempts,   \* job.attemptsMade
    stalls,     \* how often BullMQ found the job's process dead
    phase,      \* the leading process: up, down or restoring
    restoring,  \* orders restore() has still to recover
    pc,         \* where the code working on the order is
    payoutOnly, \* orders whose execute() has that local set
    transfer,   \* the user's deposit transfer: unsent, mined, or gone in a reorg
    late,       \* orders whose transfer was mined after the deadline
    landedAt,   \* its block, as a position in `mined`
    depth,      \* blocks on top: 0 under DEPOSIT_CONFIRMATIONS, 1, 2 from DEPOSIT_FINALITY
    overdue,    \* orders whose deposit deadline has passed
    pending,    \* the solver's broadcast transactions not yet mined
    mined,      \* its successful ones, in the order the chain mined them
    sends,      \* nonce of the order's latest transaction
    receipt,    \* what waitForTransactionReceipt returned for it
    crashes, faults

recordVars == <<st, held, owed, fillFrom, res, refused>>
jobVars == <<job, attempts, stalls>>
procVars == <<phase, restoring>>
userVars == <<transfer, late, landedAt, depth, overdue>>
txVars == <<pending, mined, sends, receipt>>
boundVars == <<crashes, faults>>
world == <<procVars, userVars, boundVars>>
vars == <<recordVars, jobVars, procVars, pc, payoutOnly, userVars, txVars, boundVars>>

Stages == {"deposit", "fill", "settle", "refund"}
Kinds == {"swap", "payout", "refund", "refundOutput", "rebalance"}
Tx == [order : Orders, kind : Kinds, nonce : Nat]
PCs == Stages \cup
    {"accepted", "idle", "unseen", "depth", "decided", "pin", "quoteCheck",
     "swap", "swapping", "pay", "paying", "paid", "present", "finality",
     "executed", "returning", "refundDepth", "sendRefund", "refunding",
     "returned", "rebalance", "rebalancing"}

\* The kind of transaction refund() sends: the deposit, or the output a
\* same-chain swap turned it into.
RefundKind(o) == IF o \in owed THEN "refundOutput" ELSE "refund"

Executed(o, kind) == \E i \in DOMAIN mined : mined[i] = [order |-> o, kind |-> kind]
Outstanding(o, kind) == \E t \in pending : t.order = o /\ t.kind = kind

Init ==
    /\ st = [o \in Orders |-> "AWAITING_DEPOSIT"]
    /\ held = {}
    /\ owed = {}
    /\ fillFrom = [o \in Orders |-> 0]
    /\ res = [o \in Orders |-> "none"]
    /\ refused = {}
    /\ job = [o \in Orders |-> "none"]
    /\ attempts = [o \in Orders |-> 0]
    /\ stalls = [o \in Orders |-> 0]
    /\ phase = "up"
    /\ restoring = {}
    /\ pc = [o \in Orders |-> "accepted"]
    /\ payoutOnly = {}
    /\ transfer = [o \in Orders |-> "unsent"]
    /\ late = {}
    /\ landedAt = [o \in Orders |-> 0]
    /\ depth = [o \in Orders |-> 0]
    /\ overdue = {}
    /\ pending = {}
    /\ mined = <<>>
    /\ sends = [o \in Orders |-> 0]
    /\ receipt = [o \in Orders |-> "none"]
    /\ crashes = 0
    /\ faults = 0

-----------------------------------------------------------------------------
(* What the actions are made of.                                           *)

At(o, label) == pc[o] = label
Goto(o, label) == pc' = [pc EXCEPT ![o] = label]
Reservation(o, state) == res' = [res EXCEPT ![o] = state]

\* orders.advance: `transition` throws on a move the table lacks, and nothing is
\* written.
Advance(o, state) ==
    LET accepted == CanTransition(st[o], state)
    IN /\ st' = [st EXCEPT ![o] = IF accepted THEN state ELSE @]
       /\ refused' = IF accepted THEN refused ELSE refused \cup {<<st[o], state>>}

\* wait(next): the job parks itself with its next stage and comes back.
Wait(o, stage) ==
    /\ job' = [job EXCEPT ![o] = stage]
    /\ Goto(o, "idle")
    /\ UNCHANGED <<attempts, stalls>>

\* The processor returns and the completed job is removed.
Return(o) == Wait(o, "done")

\* The processor throws: BullMQ runs the job again from its stored stage, or
\* keeps it as failed once its attempts are spent.
JobThrows(o) ==
    /\ attempts' = [attempts EXCEPT ![o] = @ + 1]
    /\ job' = [job EXCEPT ![o] = IF attempts[o] + 1 < MaxAttempts THEN @ ELSE "failed"]
    /\ Goto(o, "idle")
    /\ UNCHANGED stalls

Fault == faults < MaxFaults /\ faults' = faults + 1 /\ UNCHANGED crashes

Broadcast(o, kind) ==
    /\ sends' = [sends EXCEPT ![o] = @ + 1]
    /\ pending' = pending \cup {[order |-> o, kind |-> kind, nonce |-> sends[o] + 1]}
    /\ receipt' = [receipt EXCEPT ![o] = "none"]
    /\ UNCHANGED mined

\* A send that fails at `before` never left; one that fails at `after` was
\* reverted, or was broadcast and the code could not learn what became of it.
SendFails(o, before, after) ==
    LET reverted == At(o, after) /\ receipt[o] = "reverted"
    IN /\ \/ reverted
          \/ faults < MaxFaults /\ (At(o, before) \/ (AnswersLost /\ At(o, after)))
       /\ faults' = IF reverted THEN faults ELSE faults + 1
       /\ UNCHANGED crashes

\* findTransfer: a mined transfer of `kind` that looks like o's, after `from`.
Found(o, kind, from) ==
    \E i \in DOMAIN mined :
        /\ i > from
        /\ mined[i].kind = kind
        /\ TransferKey[mined[i].order] = TransferKey[o]

\* executor.recover takes one order after another.
Recovering(o, state) ==
    /\ phase = "restoring" /\ o \in restoring /\ st[o] = state
    /\ \A p \in Orders : pc[p] = "idle"

-----------------------------------------------------------------------------
(* Slips: one plausible bug each, of the action it is named after.  None   *)
(* is part of Next; a property is worth checking when one of them breaks   *)
(* it.                                                                     *)

\* awaitDeposit's caller returns instead of parking the job again.
KeepWatchingOnce(o) ==
    /\ \/ At(o, "unseen") /\ o \notin overdue
       \/ At(o, "depth") /\ depth[o] = 0
    /\ Return(o)
    /\ UNCHANGED <<recordVars, payoutOnly, txVars, world>>

\* The block's timestamp is not compared with the deadline.
DecideByDepthAlone(o) ==
    /\ At(o, "depth") /\ depth[o] > 0
    /\ Advance(o, "DEPOSIT_CONFIRMED")
    /\ Goto(o, "decided")
    /\ UNCHANGED <<held, owed, fillFrom, res, jobVars, payoutOnly, txVars, world>>

\* A late deposit's job goes to the stage of a timely one.
NextStageIsFill(o) ==
    /\ At(o, "decided")
    /\ job' = [job EXCEPT ![o] = "fill"] /\ Goto(o, "fill")
    /\ UNCHANGED <<recordVars, attempts, stalls, payoutOnly, txVars, world>>

\* execute without its state guard.
ReserveInAnyState(o) ==
    /\ At(o, "fill")
    /\ Reservation(o, "held")
    /\ payoutOnly' = IF st[o] = "PAYOUT_FAILED" THEN payoutOnly \cup {o} ELSE payoutOnly \ {o}
    /\ Goto(o, "pin")
    /\ UNCHANGED <<st, refused, held, owed, fillFrom, jobVars, txVars, world>>

\* A refused quote forgets to release what it reserved.
QuoteRefusedUnreleased(o) ==
    /\ At(o, "quoteCheck")
    /\ Advance(o, "REFUNDING")
    /\ Goto(o, "executed")
    /\ UNCHANGED <<held, owed, fillFrom, res, jobVars, payoutOnly, txVars, world>>

\* A fill is recorded without committing its reservation.
RecordFillUncommitted(o) ==
    /\ At(o, "paid")
    /\ Advance(o, "FILLED")
    /\ Goto(o, "settle")
    /\ UNCHANGED <<held, owed, fillFrom, res, jobVars, payoutOnly, txVars, world>>

\* A job that finds its order settled already goes home before the rebalance.
IgnoreSettleReturns(o) ==
    /\ At(o, "settle") /\ st[o] \notin {"FILLED", "SETTLEMENT_FAILED"}
    /\ Return(o)
    /\ UNCHANGED <<recordVars, payoutOnly, txVars, world>>

\* The stage to come back to is taken from the order's state.
ComeBackByState(o) ==
    /\ At(o, "executed") /\ o \notin restoring
    /\ st[o] \in {"SETTLEMENT_FAILED", "PAYOUT_FAILED"}
    /\ Wait(o, st[o])
    /\ UNCHANGED <<recordVars, payoutOnly, txVars, world>>

\* A failed settlement comes back to the stage the job is in.
ComeBackToFill(o) ==
    /\ At(o, "executed") /\ o \notin restoring
    /\ st[o] \in {"SETTLEMENT_FAILED", "PAYOUT_FAILED"}
    /\ Wait(o, "fill")
    /\ UNCHANGED <<recordVars, payoutOnly, txVars, world>>

\* refund without REFUNDABLE.
StartRefundOfAnyHeld(o) ==
    /\ At(o, "refund") /\ o \in held
    /\ IF st[o] = "REFUNDING" THEN UNCHANGED <<st, refused>> ELSE Advance(o, "REFUNDING")
    /\ Goto(o, "refundDepth")
    /\ UNCHANGED <<held, owed, fillFrom, res, jobVars, payoutOnly, txVars, world>>

\* recover takes a payout it was waiting for to have gone out.
RecoverFillUnseen(o) ==
    /\ Recovering(o, "FILLING")
    /\ Reservation(o, IF res[o] = "held" THEN "committed" ELSE res[o])
    /\ Advance(o, "FILLED")
    /\ Goto(o, "settle")
    /\ UNCHANGED <<held, owed, fillFrom, jobVars, payoutOnly, txVars, world>>

\* recover leaves what it cannot find to the queue instead of to a person.
HandToQueue(o) ==
    /\ \/ /\ Recovering(o, "FILLING") /\ ~Found(o, "payout", fillFrom[o])
          /\ Advance(o, "PAYOUT_FAILED")
       \/ /\ Recovering(o, "REFUNDING") /\ ~Found(o, RefundKind(o), landedAt[o])
          /\ Advance(o, "REFUND_FAILED")
    /\ restoring' = restoring \ {o}
    /\ UNCHANGED <<held, owed, fillFrom, res, jobVars, phase, pc, payoutOnly, userVars, txVars, boundVars>>

-----------------------------------------------------------------------------
(* The queue: enqueue, and BullMQ handing a job to the worker.             *)

\* routes/solver.ts accept: acceptOrder has returned, the job is added.
Enqueue(o) ==
    /\ phase = "up" /\ At(o, "accepted")
    /\ Wait(o, "deposit")
    /\ UNCHANGED <<recordVars, payoutOnly, txVars, world>>

PickUp(o) ==
    /\ phase = "up" /\ At(o, "idle") /\ job[o] \in Stages
    /\ Goto(o, job[o])
    /\ UNCHANGED <<recordVars, jobVars, payoutOnly, txVars, world>>

-----------------------------------------------------------------------------
(* Stage "deposit": executor.awaitDeposit and what the worker makes of it. *)

\* Status "ignored": the order is past AWAITING_DEPOSIT.
IgnoreDeposit(o) ==
    /\ At(o, "deposit") /\ st[o] # "AWAITING_DEPOSIT"
    /\ Return(o)
    /\ UNCHANGED <<recordVars, payoutOnly, txVars, world>>

\* findDeposit sees the transfer, now or on an earlier visit: it is the order's.
FindDeposit(o) ==
    /\ At(o, "deposit") /\ st[o] = "AWAITING_DEPOSIT"
    /\ o \in held \/ transfer[o] = "mined"
    /\ held' = held \cup {o}
    /\ Goto(o, "depth")
    /\ UNCHANGED <<st, refused, owed, fillFrom, res, jobVars, payoutOnly, txVars, world>>

FindNothing(o) ==
    /\ At(o, "deposit") /\ st[o] = "AWAITING_DEPOSIT"
    /\ o \notin held /\ transfer[o] = "unsent"
    /\ Goto(o, "unseen")
    /\ UNCHANGED <<recordVars, jobVars, payoutOnly, txVars, world>>

\* Status "waiting": nothing there and time left on the clock, which is read
\* after the scan, or a deposit still too shallow.
KeepWatching(o) ==
    /\ \/ At(o, "unseen") /\ o \notin overdue
       \/ At(o, "depth") /\ depth[o] = 0
    /\ Wait(o, "deposit")
    /\ UNCHANGED <<recordVars, payoutOnly, txVars, world>>

ExpireUnpaid(o) ==
    /\ At(o, "unseen") /\ o \in overdue
    /\ Advance(o, "EXPIRED")
    /\ Return(o)
    /\ UNCHANGED <<held, owed, fillFrom, res, payoutOnly, txVars, world>>

\* Deep enough, the block's timestamp decides between filling and refunding.
DecideDeposit(o) ==
    /\ At(o, "depth") /\ depth[o] > 0
    /\ Advance(o, IF o \in late THEN "EXPIRED" ELSE "DEPOSIT_CONFIRMED")
    /\ Goto(o, "decided")
    /\ UNCHANGED <<held, owed, fillFrom, res, jobVars, payoutOnly, txVars, world>>

\* A read that throws is caught and the job waits, at no cost in attempts.
DepositCheckFails(o) ==
    /\ pc[o] \in {"deposit", "depth"} /\ ReadsFail /\ Fault
    /\ Wait(o, "deposit")
    /\ UNCHANGED <<recordVars, procVars, payoutOnly, userVars, txVars>>

\* job.updateData with the next stage, which then runs in the same job run.
NextStage(o) ==
    /\ At(o, "decided")
    /\ LET stage == IF st[o] = "EXPIRED" THEN "refund" ELSE "fill"
       IN job' = [job EXCEPT ![o] = stage] /\ Goto(o, stage)
    /\ UNCHANGED <<recordVars, attempts, stalls, payoutOnly, txVars, world>>

-----------------------------------------------------------------------------
(* Stage "fill": executor.execute, with the two sends of fill-engine run(). *)

IgnoreExecute(o) ==
    /\ At(o, "fill") /\ st[o] \notin {"DEPOSIT_CONFIRMED", "PAYOUT_FAILED"}
    /\ Goto(o, "executed")
    /\ UNCHANGED <<recordVars, jobVars, payoutOnly, txVars, world>>

\* What the fill spends: its input or, on a payout retry, the output the swap
\* left.  A reservation already held is granted again.
Reserve(o) ==
    /\ At(o, "fill") /\ st[o] \in {"DEPOSIT_CONFIRMED", "PAYOUT_FAILED"}
    /\ Reservation(o, "held")
    /\ payoutOnly' = IF st[o] = "PAYOUT_FAILED" THEN payoutOnly \cup {o} ELSE payoutOnly \ {o}
    /\ Goto(o, "pin")
    /\ UNCHANGED <<st, refused, held, owed, fillFrom, jobVars, txVars, world>>

\* The same move is asked for on a payout retry, where `transition` throws.
ReserveRefused(o) ==
    /\ At(o, "fill") /\ st[o] \in {"DEPOSIT_CONFIRMED", "PAYOUT_FAILED"} /\ res[o] # "held"
    /\ Advance(o, "INSUFFICIENT_INVENTORY")
    /\ IF CanTransition(st[o], "INSUFFICIENT_INVENTORY")
          THEN Goto(o, "executed") /\ UNCHANGED jobVars
          ELSE JobThrows(o)
    /\ UNCHANGED <<held, owed, fillFrom, res, payoutOnly, txVars, world>>

\* fillFromBlock is the head, whose own transactions the later scan includes.
StartFilling(o) ==
    /\ At(o, "pin")
    /\ \E k \in 0..Len(mined) :
          /\ Len(mined) <= k + 1
          /\ fillFrom' = [fillFrom EXCEPT ![o] = k]
    /\ Advance(o, "FILLING")
    /\ Goto(o, IF o \in payoutOnly THEN "pay" ELSE "quoteCheck")
    /\ UNCHANGED <<held, owed, res, jobVars, payoutOnly, txVars, world>>

\* reprice and dryRun pass.
QuoteHolds(o) ==
    /\ At(o, "quoteCheck")
    /\ Goto(o, IF o \in WithLegs THEN "swap" ELSE "pay")
    /\ UNCHANGED <<recordVars, jobVars, payoutOnly, txVars, world>>

\* Either refuses: the deposit is to go back.
QuoteRefused(o) ==
    /\ At(o, "quoteCheck")
    /\ Reservation(o, "released")
    /\ Advance(o, "REFUNDING")
    /\ Goto(o, "executed")
    /\ UNCHANGED <<held, owed, fillFrom, jobVars, payoutOnly, txVars, world>>

SendSwap(o) ==
    /\ At(o, "swap")
    /\ Broadcast(o, "swap")
    /\ Goto(o, "swapping")
    /\ UNCHANGED <<recordVars, jobVars, payoutOnly, world>>

SwapCovers(o) ==
    /\ At(o, "swapping") /\ receipt[o] = "ok"
    /\ Goto(o, "pay")
    /\ UNCHANGED <<recordVars, jobVars, payoutOnly, txVars, world>>

\* The output is under the quote: a same-chain order is owed that output, a
\* bridged one its deposit.
SwapShort(o) ==
    /\ At(o, "swapping") /\ receipt[o] = "ok"
    /\ Reservation(o, "committed")
    /\ owed' = IF o \in Bridged THEN owed ELSE owed \cup {o}
    /\ Advance(o, "FILL_FAILED")
    /\ Goto(o, "executed")
    /\ UNCHANGED <<held, fillFrom, jobVars, payoutOnly, txVars, world>>

\* `swapped` is null: the code takes it that nothing moved.
SwapFails(o) ==
    /\ SendFails(o, "swap", "swapping")
    /\ Reservation(o, "released")
    /\ Advance(o, "FILL_FAILED")
    /\ Goto(o, "executed")
    /\ UNCHANGED <<held, owed, fillFrom, jobVars, procVars, payoutOnly, userVars, txVars>>

SendPayout(o) ==
    /\ At(o, "pay")
    /\ Broadcast(o, "payout")
    /\ Goto(o, "paying")
    /\ UNCHANGED <<recordVars, jobVars, payoutOnly, world>>

PayoutDone(o) ==
    /\ At(o, "paying") /\ receipt[o] = "ok"
    /\ Goto(o, "paid")
    /\ UNCHANGED <<recordVars, jobVars, payoutOnly, txVars, world>>

\* After a swap of this same run the payout is to be retried.
PayoutFails(o) ==
    /\ SendFails(o, "pay", "paying")
    /\ o \in WithLegs \ payoutOnly
    /\ Reservation(o, "committed")
    /\ Advance(o, "PAYOUT_FAILED")
    /\ Goto(o, "executed")
    /\ UNCHANGED <<held, owed, fillFrom, jobVars, procVars, payoutOnly, userVars, txVars>>

\* With no swap in this run, which is also how a retry looks, the fill failed.
PayoutGivenUp(o) ==
    /\ SendFails(o, "pay", "paying")
    /\ o \notin WithLegs \ payoutOnly
    /\ Reservation(o, "released")
    /\ Advance(o, "FILL_FAILED")
    /\ Goto(o, "executed")
    /\ UNCHANGED <<held, owed, fillFrom, jobVars, procVars, payoutOnly, userVars, txVars>>

RecordFill(o) ==
    /\ At(o, "paid")
    /\ Reservation(o, "committed")
    /\ Advance(o, "FILLED")
    /\ Goto(o, "settle")
    /\ UNCHANGED <<held, owed, fillFrom, jobVars, payoutOnly, txVars, world>>

-----------------------------------------------------------------------------
(* Stage "settle": executor.settle, also run by execute() and recover().   *)

StartSettling(o) ==
    /\ At(o, "settle") /\ st[o] \in {"FILLED", "SETTLEMENT_FAILED"}
    /\ Advance(o, "SETTLING")
    /\ Goto(o, "present")
    /\ UNCHANGED <<held, owed, fillFrom, res, jobVars, payoutOnly, txVars, world>>

IgnoreSettle(o) ==
    /\ At(o, "settle") /\ st[o] \notin {"FILLED", "SETTLEMENT_FAILED"}
    /\ Goto(o, "executed")
    /\ UNCHANGED <<recordVars, jobVars, payoutOnly, txVars, world>>

StillPresent(o) ==
    /\ At(o, "present") /\ transfer[o] = "mined"
    /\ Goto(o, "finality")
    /\ UNCHANGED <<recordVars, jobVars, payoutOnly, txVars, world>>

NoticeReorg(o) ==
    /\ At(o, "present") /\ transfer[o] = "gone"
    /\ Advance(o, "DEPOSIT_REORGED")
    /\ Goto(o, "executed")
    /\ UNCHANGED <<held, owed, fillFrom, res, jobVars, payoutOnly, txVars, world>>

\* stillPresent threw: caught, and retried as SETTLEMENT_FAILED.
PresenceUnknown(o) ==
    /\ At(o, "present") /\ ReadsFail /\ Fault
    /\ Advance(o, "SETTLEMENT_FAILED")
    /\ Goto(o, "executed")
    /\ UNCHANGED <<held, owed, fillFrom, res, jobVars, procVars, payoutOnly, userVars, txVars>>

CheckFinality(o) ==
    /\ At(o, "finality")
    /\ Advance(o, IF depth[o] < 2 THEN "SETTLEMENT_FAILED" ELSE "SETTLED")
    /\ Goto(o, "executed")
    /\ UNCHANGED <<held, owed, fillFrom, res, jobVars, payoutOnly, txVars, world>>

-----------------------------------------------------------------------------
(* What the worker does with the order execute() or settle() returned.     *)

ComeBack(o) ==
    /\ At(o, "executed") /\ o \notin restoring
    /\ st[o] \in {"SETTLEMENT_FAILED", "PAYOUT_FAILED"}
    /\ Wait(o, IF st[o] = "PAYOUT_FAILED" THEN "fill" ELSE "settle")
    /\ UNCHANGED <<recordVars, payoutOnly, txVars, world>>

\* The stage is stored as "refund", and the next test in the processor returns
\* because the order is not SETTLED.
StoreRefundStage(o) ==
    /\ At(o, "executed") /\ o \notin restoring
    /\ st[o] \in RefundStage
    /\ job' = [job EXCEPT ![o] = "refund"]
    /\ Goto(o, "returning")
    /\ UNCHANGED <<recordVars, attempts, stalls, payoutOnly, txVars, world>>

ReturnUnsettled(o) ==
    /\ \/ At(o, "returning")
       \/ /\ At(o, "executed") /\ o \notin restoring
          /\ st[o] \notin RefundStage \cup {"SETTLEMENT_FAILED", "PAYOUT_FAILED", "SETTLED"}
    /\ Return(o)
    /\ UNCHANGED <<recordVars, payoutOnly, txVars, world>>

GoOnToRebalance(o) ==
    /\ At(o, "executed") /\ o \notin restoring
    /\ st[o] = "SETTLED"
    /\ Goto(o, "rebalance")
    /\ UNCHANGED <<recordVars, jobVars, payoutOnly, txVars, world>>

-----------------------------------------------------------------------------
(* Stage "refund": executor.refund.                                        *)

IgnoreRefund(o) ==
    /\ At(o, "refund") /\ ~(st[o] \in Refundable /\ o \in held)
    /\ Return(o)
    /\ UNCHANGED <<recordVars, payoutOnly, txVars, world>>

StartRefund(o) ==
    /\ At(o, "refund") /\ st[o] \in Refundable /\ o \in held
    /\ IF st[o] = "REFUNDING" THEN UNCHANGED <<st, refused>> ELSE Advance(o, "REFUNDING")
    /\ Goto(o, "refundDepth")
    /\ UNCHANGED <<held, owed, fillFrom, res, jobVars, payoutOnly, txVars, world>>

RefundTooShallow(o) ==
    /\ At(o, "refundDepth") /\ depth[o] = 0
    /\ Advance(o, "REFUND_FAILED")
    /\ Wait(o, "refund")
    /\ UNCHANGED <<held, owed, fillFrom, res, payoutOnly, txVars, world>>

RefundDeepEnough(o) ==
    /\ At(o, "refundDepth") /\ depth[o] > 0
    /\ Goto(o, "sendRefund")
    /\ UNCHANGED <<recordVars, jobVars, payoutOnly, txVars, world>>

SendRefund(o) ==
    /\ At(o, "sendRefund")
    /\ Broadcast(o, RefundKind(o))
    /\ Goto(o, "refunding")
    /\ UNCHANGED <<recordVars, jobVars, payoutOnly, world>>

RefundDone(o) ==
    /\ At(o, "refunding") /\ receipt[o] = "ok"
    /\ Goto(o, "returned")
    /\ UNCHANGED <<recordVars, jobVars, payoutOnly, txVars, world>>

RefundFails(o) ==
    /\ SendFails(o, "sendRefund", "refunding")
    /\ Advance(o, "REFUND_FAILED")
    /\ Wait(o, "refund")
    /\ UNCHANGED <<held, owed, fillFrom, res, procVars, payoutOnly, userVars, txVars>>

RecordRefund(o) ==
    /\ At(o, "returned")
    /\ Advance(o, "REFUNDED")
    /\ Return(o)
    /\ UNCHANGED <<held, owed, fillFrom, res, payoutOnly, txVars, world>>

-----------------------------------------------------------------------------
(* The last step of a settled bridged order: executor.rebalance.           *)

SkipRebalance(o) ==
    /\ At(o, "rebalance") /\ o \notin WithOriginLegs
    /\ Return(o)
    /\ UNCHANGED <<recordVars, payoutOnly, txVars, world>>

SendRebalance(o) ==
    /\ At(o, "rebalance") /\ o \in WithOriginLegs
    /\ Broadcast(o, "rebalance")
    /\ Goto(o, "rebalancing")
    /\ UNCHANGED <<recordVars, jobVars, payoutOnly, world>>

RebalanceDone(o) ==
    /\ At(o, "rebalancing") /\ receipt[o] = "ok"
    /\ Return(o)
    /\ UNCHANGED <<recordVars, payoutOnly, txVars, world>>

\* A failed rebalance is thrown for the queue's retry policy.
RebalanceFails(o) ==
    /\ o \in WithOriginLegs
    /\ SendFails(o, "rebalance", "rebalancing")
    /\ JobThrows(o)
    /\ UNCHANGED <<recordVars, procVars, payoutOnly, userVars, txVars>>

-----------------------------------------------------------------------------
(* The process: errors no stage catches, crashes, and the restart.         *)

\* Where a read can throw out of the processor, and where a save can.
ReadThrows == {"pin", "quoteCheck", "swap", "paid", "finality", "refundDepth"}
SaveThrows == {"decided", "fill", "pin", "quoteCheck", "paid", "settle", "present",
               "finality", "executed", "refund", "returned"}

Throw(o) ==
    /\ o \notin restoring
    /\ \/ ReadsFail /\ pc[o] \in ReadThrows
       \/ SavesFail /\ pc[o] \in SaveThrows
    /\ Fault
    /\ JobThrows(o)
    /\ UNCHANGED <<recordVars, procVars, payoutOnly, userVars, txVars>>

\* BullMQ finds the dead process's active jobs stalled and queues them again,
\* until they have stalled too often.
ProcessDies ==
    LET active == {o \in Orders \ restoring : pc[o] \notin {"idle", "accepted"}}
    IN /\ phase' = "down"
       /\ restoring' = {}
       /\ stalls' = [o \in Orders |-> IF o \in active THEN stalls[o] + 1 ELSE stalls[o]]
       /\ job' = [o \in Orders |->
                     IF o \in active /\ stalls[o] + 1 > MaxStalls THEN "failed" ELSE job[o]]
       /\ pc' = [o \in Orders |-> "idle"]
       /\ payoutOnly' = {}
       /\ receipt' = [o \in Orders |-> "none"]
       /\ UNCHANGED <<recordVars, attempts, userVars, pending, mined, sends>>

Crash ==
    /\ phase # "down" /\ crashes < MaxCrashes
    /\ crashes' = crashes + 1
    /\ UNCHANGED faults
    /\ ProcessDies

\* An error in restore() rejects buildServer and ends the process.
RestoreThrows(o) ==
    /\ o \in restoring
    /\ \/ ReadsFail /\ pc[o] = "finality"
       \/ SavesFail /\ pc[o] \in {"settle", "present", "finality"}
    /\ Fault
    /\ ProcessDies

\* The next leader reads the records: solver.restore.
Boot ==
    /\ phase = "down"
    /\ phase' = "restoring"
    /\ restoring' = {o \in Orders : st[o] \in {"FILLING", "REFUNDING"}}
    /\ UNCHANGED <<recordVars, jobVars, pc, payoutOnly, userVars, txVars, boundVars>>

\* The payout went out: the order carries on to settlement.
RecoverFill(o) ==
    /\ Recovering(o, "FILLING") /\ Found(o, "payout", fillFrom[o])
    /\ Reservation(o, IF res[o] = "held" THEN "committed" ELSE res[o])
    /\ Advance(o, "FILLED")
    /\ Goto(o, "settle")
    /\ UNCHANGED <<held, owed, fillFrom, jobVars, payoutOnly, txVars, world>>

RecoverRefund(o) ==
    /\ Recovering(o, "REFUNDING") /\ Found(o, RefundKind(o), landedAt[o])
    /\ Advance(o, "REFUNDED")
    /\ restoring' = restoring \ {o}
    /\ UNCHANGED <<held, owed, fillFrom, res, jobVars, phase, pc, payoutOnly, userVars, txVars, boundVars>>

\* Nothing found: nothing is sent again, a person looks.
HandToReview(o) ==
    /\ \/ Recovering(o, "FILLING") /\ ~Found(o, "payout", fillFrom[o])
       \/ Recovering(o, "REFUNDING") /\ ~Found(o, RefundKind(o), landedAt[o])
    /\ Advance(o, "NEEDS_REVIEW")
    /\ restoring' = restoring \ {o}
    /\ UNCHANGED <<held, owed, fillFrom, res, jobVars, phase, pc, payoutOnly, userVars, txVars, boundVars>>

\* settle() came back to recover(): restore() goes on with the next order.
Recovered(o) ==
    /\ At(o, "executed") /\ o \in restoring
    /\ restoring' = restoring \ {o}
    /\ Goto(o, "idle")
    /\ UNCHANGED <<recordVars, jobVars, phase, payoutOnly, userVars, txVars, boundVars>>

\* restore() is done: the worker starts.
StartWorker ==
    /\ phase = "restoring" /\ restoring = {}
    /\ phase' = "up"
    /\ UNCHANGED <<recordVars, jobVars, restoring, pc, payoutOnly, userVars, txVars, boundVars>>

-----------------------------------------------------------------------------
(* The chain and the user.                                                 *)

TransferLands(o) ==
    /\ transfer[o] = "unsent"
    /\ transfer' = [transfer EXCEPT ![o] = "mined"]
    /\ late' = IF o \in overdue THEN late \cup {o} ELSE late \ {o}
    /\ landedAt' = [landedAt EXCEPT ![o] = Len(mined)]
    /\ UNCHANGED <<recordVars, jobVars, procVars, pc, payoutOnly, depth, overdue, txVars, boundVars>>

\* Depth is a difference of block numbers: it grows whatever the block holds.
Bury(o) ==
    /\ transfer[o] # "unsent" /\ depth[o] < 2
    /\ depth' = [depth EXCEPT ![o] = @ + 1]
    /\ UNCHANGED <<recordVars, jobVars, procVars, pc, payoutOnly, transfer, late, landedAt, overdue,
                   txVars, boundVars>>

\* A reorg drops the transfer and may leave the head lower.  Before anyone
\* attached it, it is as if it had not been sent.
Reorg(o) ==
    /\ transfer[o] = "mined" /\ depth[o] < 2 /\ Fault
    /\ transfer' = [transfer EXCEPT ![o] = IF o \in held THEN "gone" ELSE "unsent"]
    /\ \E d \in IF o \in held THEN {0, depth[o]} ELSE {0} : depth' = [depth EXCEPT ![o] = d]
    /\ UNCHANGED <<recordVars, jobVars, procVars, pc, payoutOnly, late, landedAt, overdue, txVars>>

DeadlinePasses(o) ==
    /\ o \notin overdue
    /\ overdue' = overdue \cup {o}
    /\ UNCHANGED <<recordVars, jobVars, procVars, pc, payoutOnly, transfer, late, landedAt, depth,
                   txVars, boundVars>>

\* The code waiting for this very transaction's receipt, if any, is told.
Receipt(t, status) ==
    LET waited == /\ pc[t.order] \in {"swapping", "paying", "refunding", "rebalancing"}
                  /\ t.nonce = sends[t.order]
    IN receipt' = [receipt EXCEPT ![t.order] = IF waited THEN status ELSE @]

Mine(t) ==
    /\ pending' = pending \ {t}
    /\ mined' = Append(mined, [order |-> t.order, kind |-> t.kind])
    /\ Receipt(t, "ok")
    /\ UNCHANGED <<recordVars, jobVars, pc, payoutOnly, sends, world>>

Revert(t) ==
    /\ pending' = pending \ {t}
    /\ Receipt(t, "reverted")
    /\ Fault
    /\ UNCHANGED <<recordVars, jobVars, procVars, pc, payoutOnly, userVars, mined, sends>>

\* Every order is done with, or waits on nothing but a user: the system rests.
Quiescent ==
    /\ phase = "up" /\ pending = {}
    /\ \A o \in Orders : At(o, "idle") /\ job[o] \notin Stages
    /\ UNCHANGED vars

-----------------------------------------------------------------------------
(* The whole.                                                              *)

AwaitDeposit(o) ==
    \/ IgnoreDeposit(o) \/ FindDeposit(o) \/ FindNothing(o) \/ KeepWatching(o)
    \/ ExpireUnpaid(o) \/ DecideDeposit(o) \/ NextStage(o)

Execute(o) ==
    \/ IgnoreExecute(o) \/ Reserve(o) \/ ReserveRefused(o)
    \/ StartFilling(o) \/ QuoteHolds(o) \/ QuoteRefused(o)
    \/ SendSwap(o) \/ SwapCovers(o) \/ SwapShort(o) \/ SwapFails(o)
    \/ SendPayout(o) \/ PayoutDone(o) \/ PayoutFails(o) \/ PayoutGivenUp(o) \/ RecordFill(o)

Settle(o) ==
    \/ StartSettling(o) \/ IgnoreSettle(o) \/ StillPresent(o) \/ NoticeReorg(o)
    \/ PresenceUnknown(o) \/ CheckFinality(o)

AfterStage(o) ==
    ComeBack(o) \/ StoreRefundStage(o) \/ ReturnUnsettled(o) \/ GoOnToRebalance(o)

Refund(o) ==
    \/ IgnoreRefund(o) \/ StartRefund(o) \/ RefundTooShallow(o) \/ RefundDeepEnough(o)
    \/ SendRefund(o) \/ RefundDone(o) \/ RefundFails(o) \/ RecordRefund(o)

Rebalance(o) ==
    SkipRebalance(o) \/ SendRebalance(o) \/ RebalanceDone(o) \/ RebalanceFails(o)

Recover(o) ==
    RecoverFill(o) \/ RecoverRefund(o) \/ HandToReview(o) \/ Recovered(o)

\* The steps of the code, as against those that hurt it.
Works(o) ==
    \/ Enqueue(o) \/ PickUp(o) \/ AwaitDeposit(o) \/ Execute(o) \/ Settle(o)
    \/ AfterStage(o) \/ Refund(o) \/ Rebalance(o) \/ Recover(o)

Errs(o) == DepositCheckFails(o) \/ Throw(o) \/ RestoreThrows(o)

Chain(o) == TransferLands(o) \/ Bury(o) \/ Reorg(o) \/ DeadlinePasses(o)

Next ==
    \/ \E o \in Orders : Works(o) \/ Errs(o) \/ Chain(o)
    \/ \E t \in pending : Mine(t) \/ Revert(t)
    \/ Crash \/ Boot \/ StartWorker
    \/ Quiescent

Spec == Init /\ [][Next]_vars

\* The worker and the next leader keep running, time passes, blocks are
\* produced, and what the solver broadcasts is mined.  No user has to pay.
FairSpec ==
    /\ Spec
    /\ \A o \in Orders : WF_vars(Works(o)) /\ WF_vars(Bury(o)) /\ WF_vars(DeadlinePasses(o))
    /\ WF_vars(\E t \in pending : Mine(t) \/ Revert(t))
    /\ WF_vars(Boot \/ StartWorker)

-----------------------------------------------------------------------------
(* Properties.                                                             *)

TypeOK ==
    /\ st \in [Orders -> OrderState]
    /\ held \subseteq Orders /\ owed \subseteq Orders
    /\ fillFrom \in [Orders -> Nat]
    /\ res \in [Orders -> {"none", "held", "committed", "released"}]
    /\ refused \subseteq OrderState \X OrderState
    /\ job \in [Orders -> Stages \cup {"none", "done", "failed"}]
    /\ attempts \in [Orders -> Nat]
    /\ stalls \in [Orders -> Nat]
    /\ phase \in {"up", "down", "restoring"}
    /\ restoring \subseteq Orders
    /\ pc \in [Orders -> PCs]
    /\ payoutOnly \subseteq Orders
    /\ transfer \in [Orders -> {"unsent", "mined", "gone"}]
    /\ late \subseteq Orders
    /\ landedAt \in [Orders -> Nat]
    /\ depth \in [Orders -> 0..2]
    /\ overdue \subseteq Orders
    /\ pending \subseteq Tx
    /\ mined \in Seq([order : Orders, kind : Kinds])
    /\ sends \in [Orders -> Nat]
    /\ receipt \in [Orders -> {"none", "ok", "reverted"}]
    /\ crashes \in Nat
    /\ faults \in Nat

\* No order's deposit is disbursed twice: at most one of the solver's mined
\* transactions for an order is a payout to the user or a refund, however
\* crashes, retries and reverts fall.  (execute's state guard, refund's
\* REFUNDABLE guard and recover's "never re-sent" together.)
Disburses(kind) == kind \in {"payout", "refund", "refundOutput"}
DisbursedOnce ==
    \A i, j \in DOMAIN mined :
        /\ mined[i].order = mined[j].order
        /\ Disburses(mined[i].kind) /\ Disburses(mined[j].kind)
        => i = j

\* The order pipeline implements the escrow it promises.
Promise == INSTANCE Escrow WITH moves <- mined
ImplementsEscrow == Promise!Spec

\* What a record says of money is so on chain.  An order past FILLING was paid
\* and a REFUNDED one refunded; an order whose payout is out or may yet be
\* mined is in no state that execute or refund would send for again.
Filled == {"FILLED", "SETTLING", "SETTLED", "SETTLEMENT_FAILED", "DEPOSIT_REORGED"}
RecordsMatchChain ==
    \A o \in Orders :
        /\ st[o] \in Filled => Executed(o, "payout")
        /\ st[o] = "REFUNDED" => \E kind \in {"refund", "refundOutput"} : Executed(o, kind)
        /\ Executed(o, "payout") \/ Outstanding(o, "payout")
              => st[o] \in Filled \cup {"FILLING", "NEEDS_REVIEW"}

\* Inventory is not left locked: a reservation is held only while its order may
\* still spend it, or while a person has yet to look.  (The release and commit
\* calls of execute and recover, on every way out of FILLING.)
NoReservationLeaks ==
    \A o \in Orders :
        res[o] = "held" => st[o] \in {"DEPOSIT_CONFIRMED", "PAYOUT_FAILED", "FILLING", "NEEDS_REVIEW"}

\* Of the moves the executor and recover() ask for, at whatever await, retry or
\* restart, `transition` throws on one only: a payout retry whose reservation is
\* refused asks for PAYOUT_FAILED to become INSUFFICIENT_INVENTORY
\* (executor.ts:209-210).  No other advance throws half way through a handler.
LegalAdvance == refused \subseteq {<<"PAYOUT_FAILED", "INSUFFICIENT_INVENTORY">>}

\* Nothing is broadcast to pay a user before the deposit is attached, was deep
\* enough and on time ("the deposit is confirmed before anything is paid out").
PaysOnlyConfirmed ==
    \A o \in Orders :
        Executed(o, "payout") \/ Outstanding(o, "payout") => o \in held \ late

\* A watched deposit is decided: an order with a job leaves AWAITING_DEPOSIT.
DepositDecided ==
    \A o \in Orders :
        st[o] = "AWAITING_DEPOSIT" /\ job[o] # "none" ~> st[o] # "AWAITING_DEPOSIT"

\* A deposit that came after the deadline goes back to the user, in a process
\* that lives to send it (a restart does not resume an EXPIRED order).
LateDepositReturned ==
    \A o \in Orders :
        st[o] = "EXPIRED" /\ o \in held /\ crashes = 0 ~> st[o] = "REFUNDED" \/ crashes > 0

\* A settlement that could not be confirmed is asked again until the deposit
\* is final or gone, in a process that lives to ask.
SettlementConcludes ==
    \A o \in Orders :
        st[o] = "SETTLEMENT_FAILED" /\ crashes = 0
            ~> st[o] \in {"SETTLED", "DEPOSIT_REORGED"} \/ crashes > 0

\* A settled bridged order's deposit is put back to work on its origin.
SettledIsRebalanced ==
    \A o \in Orders :
        st[o] = "SETTLED" /\ o \in WithOriginLegs ~> Executed(o, "rebalance")

=============================================================================
