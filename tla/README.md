# A verification development of the solver engine

TLA+ modules that model the solver engine of this repository, TLC configurations that check them on
small instances, and theorems about them that TLAPS checks. File names without a directory are those
of `src/src/`: `executor.ts` is `execution/executor.ts`, `fill-queue.ts` and `fill-engine.ts` stand
beside it, `state-machine.ts` is `orders/state-machine.ts`, `leader.ts` is `lib/leader.ts`.

## The system

The solver sells a user's intent: it quotes a price, waits for the user's deposit on the origin chain,
pays the user on the destination chain from its own inventory (swapping first where the route says
so), and is paid once the deposit is final. One process leads; others only price.

| Component | State it keeps | Operations | Correct when |
|---|---|---|---|
| Order store, `state-machine.ts`, `records.ts` | one record per order in Redis, a map of them in memory | `put`, `advance`, `attach`, `restore` | every state is a legal successor of the last; no write is lost or made by a stale leader |
| Pipeline, `executor.ts` | none of its own: acts on orders, inventory and chains | `awaitDeposit`, `execute`, `settle`, `refund`, `rebalance`, `recover` | a deposit is disbursed once, after it is confirmed; the record tells what the chain did; nothing is kept |
| Queue and worker, `fill-queue.ts` | one BullMQ job per order, with its stage | `enqueue`, the processor, `wait` | each order's work is done again until it is concluded |
| Fill engine, `fill-engine.ts` | the account's turn, approvals, measured gas | `fill`, `dryRun`, `gasFor...`, `forget` | sends are serial and checked, measurements never disturb a fill |
| Leadership, `leader.ts`, `index.ts` | the lease in Redis, its number, `leading` | acquire, renew, release, `fence`, `assertLeading` | one writer of records; a stale one stops |
| Inventory, `orders/inventory.ts` | balances and reservations | `reserve`, `commit`, `release`, `credit`, `debit`, `reconcile`, `restore` | reserved is the sum of what is held; nothing is promised twice |
| Quotes and acceptance, `solver.ts`, `orders/quotes.ts` | intents, quotes, the claimed deposits | `quoteIntent`, `acceptOrder`, `findDeposit` | a quote is accepted once; no two open orders wait for one transfer |
| Sweeper, `execution/sweeper.ts` | a cursor and the strays of each chain | `scan`, `refund`, `restore` | a transfer is an order's or a stray, never both, and a stray is returned once |
| Pool repository, `chain/pool-repository.ts` | loaded pools, the synced block | `ensure`, `sync`, `reselect` | loaded state is the chain's at the synced block |
| Pricing, `quoting/*`, `lib/math.ts`, `sources/*` | none | pure functions | fees and rounding never favour the wrong side |

The HTTP routes call the solver, which writes orders and adds a job. The worker runs four jobs at a time
and calls the executor; the executor awaits Redis, the origin and destination chains and the fill
engine, which sends one transaction at a time after asking the lease. Block pollers run the pool
repository's sync, the ledger's reconciliation and the sweepers beside it. On a restart or a change of
leader, `solver.restore()` reads the records, asks the chain about orders that were mid-transaction,
and only then starts the worker.

What is hard: every `await` in a stage is a place where another job, a crash, or a thrown error can come
between two writes; a broadcast transaction may be mined, reverted or unheard of; a deposit may be
late, shallow or reorganised away; BullMQ runs a job again that a dead process had begun; a stalled
leader wakes after another took over. `PROJECT.json` lists these hazards at their lines.

## Modules

| Module | What it is |
|---|---|
| `OrderStates` | The states, the transition table and the state sets of `state-machine.ts`, `executor.ts` and `fill-queue.ts`. |
| `Escrow` | The abstract promise: hold a deposit, trade with it, let go of it at most once. |
| `OrderLifecycle` | The pipeline in detail: executor, worker, the sends of the fill engine, restart, chains and users. |
| `OrderClaims` | Two sentences of the repository's comments as properties of `OrderLifecycle`; the code refutes each. |
| `Leadership` | Several instances, the lease, the fenced saves and the check before a send. |
| `Deposits` | Acceptance by several requests, the amount to send, the search for a deposit and its claim, and the sweeper. |
| `Ledger` | The inventory in memory and in Redis, the handlers that call it, sync, restart, and the account on chain. |
| `Pools` | The pool repository of one chain: loads, replays, reselection, against blocks of events. |
| `PoolsClaims` | One sentence of a comment of `pool-repository.ts`, which the code refutes. |
| `FillEngine` | The turns of one account: measurements on a fork or live, approvals, remembered gas, fills. |
| `Amounts` | The arithmetic: `lib/math.ts`, the constant-product quote, the concentrated swap, as operators. |
| `Quoting` | Path searches, pricing, and the second pricing before a fill, in a market that moves; uses `Amounts`. |
| `MCOrderLifecycle`, `MCDeposits`, `MCLedger`, `MCPools`, `MCFillEngine`, `MCQuoting` | Instances for the configurations: order sets, routes, pools and markets. |
| `OrderProofs` | The theorems about orders. |
| `LeadershipProofs`, `DepositsProofs`, `LedgerProofs`, `FillEngineProofs`, `PoolsProofs`, `QuotingProofs` | The theorems about leadership, deposits, the ledger, the fill engine, the pools, and swaps and pricing. |
| `FiniteSums` | Lemmas about the library's sums over finite sets, for the ledger, the pools and pricing. |

### OrderLifecycle and the code

A step of the model is the code between two awaits at which something else can happen, together with
the awaits in it that cannot matter. `pc[o]` names the await order `o` is at:

| Labels | Code |
|---|---|
| `accepted`, `idle` | `accept` before its enqueue; no code is working on the order |
| `deposit`, `unseen`, `depth`, `decided` | `awaitDeposit`, and the worker's `updateData` after it |
| `fill`, `pin`, `quoteCheck`, `swap`, `swapping`, `pay`, `paying`, `paid` | `execute` and `run` of the fill engine |
| `settle`, `present`, `finality` | `settle`, called by the worker, by `execute` and by `recover` |
| `executed`, `returning` | the worker's tests on the order a stage returned |
| `refund`, `refundDepth`, `sendRefund`, `refunding`, `returned` | `refund` |
| `rebalance`, `rebalancing` | `rebalance` |

The record (`st`, `held`, `owed`, `fillFrom`, `res`) and the job (`job`, `attempts`, `stalls`) are in
Redis and survive a crash; `pc`, `payoutOnly` and `receipt` do not. `advance` and `attach` are one
step each with the code before them: the process is the only writer (`Leadership` is about that) and one
job at a time works on an order. `Advance` is `transition`: a move the table refuses throws, writes
nothing, and is kept in `refused`, which is history. The chain is `pending` (broadcast) and `mined` (successful, in
order); a reverted transaction leaves `pending` and tells its waiter. A deposit is `unsent`, `mined` or
`gone` in a reorganisation, with its depth in three classes: under `DEPOSIT_CONFIRMATIONS`, under
`DEPOSIT_FINALITY`, final.

Abstracted: amounts and prices (whether a reservation, a price check or a swap suffices is a choice),
which transfer a deposit is found in (`Deposits` is about that), and the inventory's arithmetic.
`TransferKey` says which orders' payouts look alike to `findTransfer`.

`Slips` in the module are the mutants: one plausible bug per action, none of them part of `Next`.
Each property of a passing run is violated when one of them replaces the action it is named after.

### Leadership and the code

A step is one Redis command and what its caller does with the answer, unless something can come between
the two: a lease that ran out before the caller learnt it had been set (`acquired`), and the
check and the send (`gate` is `asked`, then `passed`). Every instance may take any time over its next
step, which is what a stall is; `Expire` may come at any moment, because nothing the code does bounds
the time between two renewals. Numbers of the counter are compared and never ordered, so `Fresh` hands out one
that nobody remembers. `stale` and `late` are history: the instances whose map misses a save of another, and
the transactions an instance sent after its lease was gone. A save waits in `saves` after its process has
died: Redis may still execute it. Abstracted: what a save or a transaction says, the retries of
`ioredis` (a save may land at any later time, or never), and `/health`.

Orders assume of leadership what `HolderIsCurrent` and `OneLateSend` say, and no more: a restart under a new
leader reads a chain on which one more transaction of the old one may appear.

### Deposits and the code

One chain and one token, because orders of others never meet. Every save goes through `line`, the
commands Redis has yet to answer: `put` sends the record and sets the map when the answer is there
(`Landed`), so what is read in between is the record before, and a later save may overwrite an earlier one. A
crash comes before or after any of them: a restart reads the records with the first few of `line` executed.

| In the model | Code |
|---|---|
| `req[r]`: `quote`, `expired`, `block`, `accepted`, `wanted`, `awaiting`, `enqueue` | the await `acceptOrder`, or the route after it, is at: `quotes.accept`, the three `advance` and one `attach`, the block read, `fills.enqueue` |
| `job[o]`: `waiting`, `found`, `claiming`, `deciding` | the order's job between two calls of `awaitDeposit`; `findDeposit`'s logs; the save of the deposit; that of the decision |
| `claimed` | the set in memory that `awaitDeposit` adds to and `restore` fills |
| `sweep`: `judging`, `weighing`, `sending` | `scan`: log after log, the awaits of one, `fillEngine.fill` of stray after stray |
| `sweptTo`, `savedTo` | the sweeper's cursor in memory and in Redis |
| `strays[t].status`: `open`, `held`, `returned`, `abandoned` | no `refundTx`; `abandoned` with a reason at once; `refundTx`; `abandoned` after `maxAttempts` |

`Prompt` and `Duplicates` say what `NeverBoth` depends on. The block an order waits from is read before
three saves are awaited: if they take `DEPOSIT_FINALITY` blocks (`Prompt = FALSE`), the sweeper returns a transfer of the
amount as nobody's, and the order then claims it. Two accepts of one quote that overlap (`Duplicates = TRUE`) do
the same with a second, older block. `ClaimedOnce` and `ReturnedOnce` are proved for all values of both, `ToldIsWanted` where
accepts do not overlap, `NeverBoth` where, besides, saves are prompt.

Abstracted: `ignoreFrom` and the solver's own swap outputs (transfers that are not there), the price that
decides whether a stray is `held` (a choice), reorganisations, and what `OrderLifecycle` does with an
order once it is decided. `findDeposit` and `claimed.add` are one step, as no other code runs between
the last answer and the set; where requests are batched (`fork.ts`) that is not so.

### Ledger and the code

A call is made in memory, its save is sent, and the call returns when Redis has executed it: `todo[o]` are the
calls order `o`'s handler has yet to return from, `line` the saves under way, `saving` who waits. `reserve`, `commit`
and `release` save twice, and what is read between the two saves is what the code reads. `next[o]` is the state the
handler saves after its calls. A handler that throws starts over from the order's state, except in `filling` and
`refunding`, where `execute` and `refund` do not act (`stuck`). So does a payout retry whose reservation is refused, because its
advance throws (`ReserveRefused`).

| In the model | Code |
|---|---|
| `balances`, `reservations`; `rows`, `promises` | the two maps of `inventory.ts`; the same in Redis |
| `TakeDeposit`, `StartFill`, `RefuseFill`, `Pay`, `PayoutFails`, `Refund` | the ledger calls of `awaitDeposit`, `execute`, `refund`, in their order |
| `SyncBegins`, `SyncReads`, `Reconcile` | `solver.ts` `sync`: for each token `balanceOf`, an await, `reconcile` |
| `TakeOver`, `Recover` | `restore` of the inventory; `executor.recover` |
| `live` | `EXECUTION_MODE`: on a fork `balanceOf` answers null, nothing is reconciled, and the chain dies with the process |

`holdings` are read when a process starts and `restore` runs when it leads, which may be much later: `TakeOver`
takes either the balances of long ago or those of now. `Asked` are the tokens whose balances are read at boot; a token
outside starts unknown and is found when it is first credited.

### Pools and the code

The chain adds one event a block; `loaded` starts at block 0, where the process started. A replay (`syncing`) is
three awaits: the factories' logs, the pools' logs, and one `reselect` for each pair. `tracked` has the cheap numbers
of every pool of a pair, `held` the full state of the deepest. Prices are ticks, liquidity is the sum of positions
over the tick, and a read covers the ticks of a `Window` around the current one, so a swap may leave it: `HeldIsExact`
speaks of the ticks that were read. `off` is history: the pairs that lost a probe, were loaded after a
sync, or were half way through a replay that threw. Those are known not to be exact, and findings and hazards say so.

### FillEngine and the code

`turn` is the promise chain of `exclusive`: the tasks that wait, the first one running, `at` what it has done. On a
fork a measurement is `Snapshot`, the steps of `run`, `Unwind`; live it is `Estimate`. `promises` are what `remembered`
caches, `gasByRoute` the map that names them. A fault is a call that throws, or an approval that reverts; a throw between
a broadcast and its answer leaves both outcomes open. `lost` is history: the orders of which a transaction, or a balance read
after one, went unanswered. `landed` and `stained` are too: a foreign deposit came between two balance reads, and a revert failed. `made` is what
an order's swap made on the chain, whatever the engine was told.
Amounts are those of the token paid out; `Made` says that a swap may yield less than the router promised.

### Amounts, Quoting and the code

`Amounts` follows the integer arithmetic operator by operator, truncation and direction of rounding included.
`sqrt(1.0001^tick)` is a table `Ratio` that a configuration gives, and `Q96` and the fee denominators are small:
the constants of the code are out of TLC's integers. `Quoting` does the reads of `priceIntent` one at a time (`Value`, `Carry`, `Fill`:
each hub asset's valuation, the origin's costs, the path on the destination), and between any two of them a trade, a mint,
a new gas price or another order's reservation may come (`Move`). `Reserve` and `Repriced` are `execute`'s reservation and its second
pricing, in that order. Measured gas does not change here, as `FillEngine` is about that. The path search measures
`MEASURED_PATH_LIMIT` candidates, and hops over hubs that pools join. A chain has two sources, as in `environment.ts`: all v2 pools of all
venues are one, all v3 pools the other, and a source quotes a leg with the best of its pools (`BestOf`).

The loop of `swap` is written as rounds, each what one turn of the loop does: it looks for the next tick (`TickNext`),
keeps the price inside the limits (`Within`), takes a step, and crosses the tick if it got there (`Onward`). There is a round for each
tick of the pool and one more, after which the loop has ended; that this many are enough is `SwapSettles`. `isqrt`'s loop is a
recursive function of the guess.

`ClmmOK` is what a concentrated pool on chain always is: its price lies in its tick's range, its ticks rise, and its liquidity is the sum of what
its ticks add below the price, negative nowhere. Markets start in such states and `PoolsStayOK` says that they keep to them. The rest that is assumed
of constants: a pool trades two different tokens of its chain; what is traded and asked for is positive; ticks are an interval of integers, and the table `Ratio`
is positive and rises with them; `None` is nothing it stands in for. TLC evaluates all of them for the run.

## Runs

| Run | Instance | Shows |
|---|---|---|
| `OrderSafety` | one same-chain order, 2 crashes, 3 faults, reads that throw | `TypeOK`; `DisbursedOnce`; `RecordsMatchChain`; `NoReservationLeaks`; `PaysOnlyConfirmed`; `LegalAdvance`; `ImplementsEscrow` |
| `OrderBridged` | one bridged order with swaps on both chains, 1 crash, 1 fault, fair | `DepositDecided`; `LateDepositReturned`; `SettlementConcludes`; `SettledIsRebalanced` |
| `RefutedRefusedFillIsRefunded` | no crash, no fault | a refused fill is never refunded (finding 1) |
| `RefutedFilledOnce` | one fault, an answer lost | a payout is sent twice (finding 2) |
| `Leadership` | 2 instances, 1 chain, 3 numbers, fair | `HolderIsCurrent`; `OneLateSend`; `LoserStops`; `TakenOver` |
| `DepositsSafety` | 2 orders that ask for the same, 2 requests, 1 transfer, 4 blocks, 1 crash, 1 fault | `TypeOK`; `ClaimedOnce`; `NeverBoth`; `ReturnedOnce`; `ToldIsWanted` |
| `DepositsLive` | 1 order, 1 request, 1 transfer of 2 amounts, 5 blocks, 1 crash, 1 fault, fair | `StrayConcluded` |
| `Ledger` | 2 orders, one that swaps its deposit and one paid from inventory, 2 tokens, 1 sync, 3 events, fork and live, fair | `TypeOK`; `ReservedIsHeld`; `StoreKnowsPromises`; `ForkAgrees`; `LedgerFollowsChain` |
| `Pools` | 2 pairs, 4 pools (one of them v2, one not listed), 3 ticks, 3 blocks, 1 fault, fair | `HeldIsExact`; `TrackedIsExact`; `DeepestAreHeld`; `SyncCatchesUp` |
| `RefutedCurrentToSyncedBlock` | the same, no fault | a pair loaded after a sync stays at the old block (finding 3) |
| `FillEngine` | 2 quotes, 1 order, 3 routes, 1 fault or event, fork and live, fair | `MeasurementLeavesNoTrace`; `ApprovalsStand`; `ResultsAreTrue`; `PaidFromTheSwap`; `GasIsOfThisShape`; `TurnsEnd` |
| `Quoting` | 9 intents, 3 chains, 8 pools in 3 markets, 2 inventories, 1 move | `SwapFavoursThePool`; `FillWithinBuffer`; `UnmovedIsFilled` |

**Bounds.** Orders interact only through the chain's log of the solver's transfers and the restart that
takes one after another, so an order is checked alone, with deep bounds; what is said of several whose payouts look
alike is proved. `MaxCrashes = 2` with `MaxStalls = 1` lets BullMQ resume a job once and drop it
once; `MaxFaults = 3` is enough for a revert, a reorganisation and a failed read in one history, and for
`MaxAttempts = 3` to run out. The depth of a deposit needs three classes because the code compares it
with two constants. Leadership needs two instances to race and a third number for a save of a dead holder; sends on two chains are
independent in the code. Deposits: two orders and two requests to race for an amount and a transfer, one
transfer because who gets it is the question (two in the refuting run), `DEPOSIT_FINALITY` and
`DEPOSIT_CONFIRMATIONS` 2 and 1 in place of 6 and 2, with as many blocks as let a transfer be sent, buried and swept
around an accept; one fault is a save, a read or a receipt, at any step. Ledger: two orders that share a
token, because a ledger's row is where they meet, and as many events as two payments and a crash or a refused
save need. Pools: two pairs so that one is loaded while another is replayed, three blocks so that a replay leaves one behind,
one pool held per pair so that another overtakes it, two positions that end at different ticks. Fill engine: two quotes to share a
measurement and one that fails, one order whose dry run, fill and retry stand between them. Quoting: numbers small enough to
round badly (amounts of two and three digits, fees of 5 %), markets with full, stepped and gapped
liquidity so that swaps cross, jump over and run out of ticks; one move, at any of the reads. The theorems have none of these bounds.

**Fairness** (`FairSpec`). Weak fairness of each order's steps (`Works`): the worker and BullMQ's timers
go on. Of `Boot` and `StartWorker`: another leader comes. Of `Bury` and `DeadlinePasses`: blocks are produced
and time passes. Of mining: a broadcast transaction is mined or reverted. No fairness makes a user
pay, a revert, a reorganisation, a crash or a fault happen. `CHECK_DEADLOCK` stays on: `Quiescent`
names the states in which the system may rest.

For `Leadership`: an instance that is not dead goes on acquiring and renewing, Redis answers, and a lease
whose holder is gone runs out (`PX`). Deaths, restarts, shutdowns and the loss of a lease that is
held are never required. `TakenOver` asks for an instance that stays up, and not that it is the one
that leads.

For `Deposits`: blocks come, the pollers sweep, an accept that began goes on and the job of an order is
called again. Users, expiries, crashes and faults are free.

For `Ledger`: handlers and Redis go on, the block poller keeps calling `sync`, and another leader follows a crash.
For `Pools`: the poller syncs to the head again and again, and what is read answers or throws; which blocks come is free.
For `FillEngine`: the awaits of the running task end, and quotes go on with what they got. `Quoting` claims no liveness.

**What the passing liveness runs depend on.** `SettlementConcludes` needs reads that answer: the depth
read of `settle` (line 391) stands outside its `try`, and when it throws the order stays `SETTLING`,
which no stage acts on. `SettledIsRebalanced` is checked with one fault: attempts are counted per job
and not per stage, so failures of earlier stages use up those of the rebalance.

### Findings

1. **A refused fill is not refunded.** `execute` leaves the order `REFUNDING` (or `FILL_FAILED`, or
   `INSUFFICIENT_INVENTORY`) for "the next stage". The worker stores stage `refund` and then returns
   because the state is not `SETTLED` (`fill-queue.ts:145-152`); the completed job is removed.
2. **A payout can be sent twice.** When the receipt of a payout after a swap is not answered, `run`
   reports `PAYOUT_FAILED` (`fill-engine.ts:345-353`), and the retry sends it again while the first may
   be mined. With answers that arrive, `DisbursedOnce` holds and is proved.
3. **A pair quoted late is stale.** `load` reads a pair at the block the process started at, whatever block the
   repository is synced to by then, and the next replay starts after that (`pool-repository.ts:189`, `327`). The pair
   is quoted from old pools until they happen to emit their events anew. `pool-repository.ts:133` calls `syncedBlock` "the block
   every loaded pool is current to".

Also met while modelling, each in the list of hazards or in a module's comment.

Orders and deposits:
- A crash between `FILLED` and `SETTLED` leaves the order there: `restore` recovers `FILLING` and `REFUNDING` only (`solver.ts:252`),
  and its job returns at once, though README:154 says a restart resumes every order. A crash while `EXPIRED` keeps a late
  deposit the same way; `LateDepositReturned` and `SettlementConcludes` except crashes for this reason.
- Two open orders may wait for one amount: it is chosen two saves before the order is `AWAITING_DEPOSIT` (`solver.ts:288`, `459`),
  which `solver.ts:280` says never happens. The transfer still becomes one order's (`ClaimedOnce`).
- A second transfer of an amount an order waits for is passed over by the sweep and its cursor (`sweeper.ts:168`, `225`), and is
  nobody's once the order has claimed the first; `sweeper.ts:9` says it goes back.
- A save that fails after a refund was broadcast sends the refund again; a crash after a rebalance's broadcast swaps
  twice; a deposit reorganised away between `settle`'s two reads is `SETTLED`; a claim whose save fails leaves its transfer neither
  the order's nor a stray until a restart.
- A holder that stalls between the check and the broadcast sends beside the next holder, though `leader.ts:43` says its
  writes fail (records do; `OneLateSend` bounds the sends to one per chain).
- A process that dies before its first cursor is saved sweeps from the block of its next start, and what came before is
  never judged (`StrayConcluded` is stated from the first saved cursor on).
- A payout retry reserves the output again. If another order reserved it first, `execute` asks for `PAYOUT_FAILED` to become
  `INSUFFICIENT_INVENTORY` (`executor.ts:209-210`), which the table refuses (`state-machine.ts:98`): `transition` throws until the job's
  attempts are used up, and the user is not paid, though `state-machine.ts:96-97` says "only the payout is retried". `LegalAdvance`
  names this move, and says that no handler asks for any other that is refused.

The ledger:
- Between the credit and the debit of a fill (`executor.ts:314-315`) another order can reserve what was already paid out.
- On a real chain, `holdings` are as old as the process and not as the lease, so a standby that takes over starts from what the account
  held long ago, until its first sync.
- A save that fails inside `reserve` leaves the amount in `reserved` (`inventory.ts:65-77`) until a restart. `refund` sends
  without a reservation (`executor.ts:461`).
- A credit made after `sync` read the balance is counted twice until the next sync, and syncs may overlap.

Pools and measurements:
- The window of ticks is not read again when the price leaves it; a probe lost in a multicall is a pool never
  watched (`discovery.ts:97`); events of a reorganised head are not undone; a reselect that throws has its mints
  applied twice by the next replay (`off`).
- A swap that was mined and whose balance read throws is reported as not made (`fill-engine.ts:304`), though `:37-39` says that a failure
  after a swap carries it, "and the ledger has to know". A payout that was mined and whose balance read throws is reported as not paid (`:340`), which is finding 2 once more. A deposit between the two balance reads counts as acquired.
  An approval's receipt is not looked at (`:237`). A rejected measurement is remembered until it expires (`:374`).

Pricing:
- `execute` reserves and then prices again, and `priceIntent` compares what is left with the whole amount (`executor.ts:207`,
  `228`, `solver.ts:384`): a bridged order that the account covers exactly is refunded as "cannot be priced any more", though nothing
  moved. `UnmovedIsFilled` asks for twice the amount.
- The second pricing values the best route now, and the fill runs the stored one. `FillWithinBuffer` is about fills for which the two are the same.
- "The risk buffer is what the solver charged for that gap" (`executor.ts:224`) is nearly so. The fresh quote may be lower by the first quote's buffer,
  but has a buffer of its own taken off, a share of a smaller output and so smaller. Where no service fee covers the difference (`SERVICE_BPS` may be 0), an output of 47 quoted
  at 34 with a buffer of 7 is filled when it has become 37, quoted at 27 with a buffer of 5: the fill makes 32. So `FillWithinBuffer` grants a fill what
  the buffer has shrunk by, and nothing else.
- `minAmountOut` refuses at the second pricing even inside the risk buffer. A search that throws there leaves the order `FILLING`, with its
  reservation held.
- A router's rate, hub decimals and the gas price are cached as promises, rejections included (`environment.ts:104`, `123`, `207`).

## Proofs

All for any set of orders, routes, requests, transfers, quotes, tokens, pairs, pools and intents, or of instances and chains, any amounts,
prices, fees and ticks, and any bounds.

| Theorem | States | Assuming |
|---|---|---|
| `TypeCorrect` | `TypeOK` of `OrderLifecycle` | |
| `AdvancesAreLegal` | `LegalAdvance`: one move alone is asked for that the table refuses | |
| `ReservationsReleased` | `NoReservationLeaks` | |
| `DepositDisbursedOnce` | `DisbursedOnce` | saves and receipts answer |
| `PaidAfterDeposit` | `PaysOnlyConfirmed` | saves and receipts answer |
| `RecordsAreTrue` | `RecordsMatchChain` | the same, and `TransferKey` tells orders apart |
| `PipelineIsEscrow` | `ImplementsEscrow` | saves and receipts answer |
| `LeadershipTypes` | `TypeOK` of `Leadership` | |
| `HolderHasTheStore` | `HolderIsCurrent` | |
| `LateSendIsTheLast` | `OneLateSend` | |
| `AmountIsFree` | `uniqueDepositAmount`'s loop ends, with an amount no open order of the map waits for | |
| `DepositTypes` | `TypeOK` of `Deposits` | |
| `DepositClaimedOnce` | `ClaimedOnce` | |
| `StrayReturnedOnce` | `ReturnedOnce` | |
| `AnswerIsTheRecord` | `ToldIsWanted` | accepts of one order do not overlap |
| `DepositIsNoStray` | `NeverBoth` | the same, `Prompt`, and `DEPOSIT_FINALITY > 0` |
| `TypeCorrect` (`LedgerProofs`) | `TypeOK` of `Ledger` | |
| `ReservedHeld` | `ReservedIsHeld` | |
| `StoreKnows` | `StoreKnowsPromises` | |
| `CallsGoThrough` | no call of a handler finds less in the ledger than it takes | |
| `ForkAgreement` | `ForkAgrees` | |
| `MeasuredWithoutTrace` | `MeasurementLeavesNoTrace` | |
| `ApprovedIsAllowed` | `ApprovalsStand` | |
| `ToldTheTruth` | `ResultsAreTrue` | of orders whose transactions and balance reads after them were answered (`lost`), while every revert succeeded (`stained`); the amount made, if no foreign deposit came between two balance reads (`landed`) |
| `PaysFromSwaps` | `PaidFromTheSwap` | all orders swap; nothing `lost`, `landed` or `stained` |
| `OwedIsHeld` | the account holds, over what it held at first, the quote of every order whose swap was made and whose payout failed | the same (`Telling`) |
| `GasIsFresh` | `GasIsOfThisShape` | |
| `HeldAreExact` | `HeldIsExact` | |
| `TrackedAreExact` | `TrackedIsExact` | |
| `HeldAreDeepest` | `DeepestAreHeld` | |
| `IsqrtIsRoot` | the loop of `isqrt` ends at the integer square root | |
| `ProductKept` | a constant-product quote is at most the reserve, and the product of the reserves never falls | |
| `SwapSettles` | a concentrated swap ends, in a state the pool can be in, and pays nothing above the price it began at | `ClmmOK` of the pool |
| `SwapFavours` | nothing is gained by trading back, by cutting a trade in two, or by seeing some of the ticks | `ClmmOK` of the pool |
| `PoolsStayOK` | every pool stays in a state it can be in | |
| `PoolsFavoured` | `SwapFavoursThePool` | |
| `QInvariant` | what a pricing has found is what it would find now, while nothing moves | |
| `FillKeepsWithinBuffer` | `FillWithinBuffer` | |
| `UnmovedFilled` | `UnmovedIsFilled` | |

The assumptions are needed: without them, TLC finds the counterexamples above.

The inductive invariant of the orders has layers, in this order in the proof modules. `TypeOK` is inductive alone. `StateAt` says
what each await knows of the order's state (`KnownState`): the code advances, awaits and then assumes the state it
wrote, which is so because no other step writes it; `LegalAdvance` follows, `ReserveRefused` on a payout retry being the only
move asked for that the table lacks.
`Records` adds what the reservation, the attached deposit and the restart know. `Money` relates records to the chain:
`Unsent` (before a send there is nothing of the kind outstanding or mined), `OneOut` (at most one
disbursement, mined or pending), `Nonces` (a receipt is about the latest transaction) and
`PayoutsMatch` (a state says whether the payout is out). The hard case is a crash with a transaction
in flight: the order is then `FILLING` or `REFUNDING`, no stage sends in these states without having
entered them itself, and `recover` only moves them to states from which nothing is sent.

For leadership the invariant says that numbers are held by one instance each (`Unique`, `Numbered`): a lease lost
is never one's own again, so an instance that is late stays so, may not pass the check a second time
(`LastSend`), and an instance that missed a save cannot save.

For deposits a record on its way to Redis counts as much as the one in the map, because it will replace it
(`Holds`). The invariant is that what is held is `claimed` (`Marked`) and by one order (`Single`): a claim takes
what nobody had claimed, every other save repeats a deposit its order holds already, and a restart claims what the
records say. `AmountIsFree` counts: the open orders' amounts are fewer than the candidates. It says
nothing of orders about to open. `SweepInv` says what the sweeper knows at each await: what
it weighs has no record yet, what it refunds is open, and a block that brings a transfer does not change which is
the oldest of those it looks at.

`ToldIsWanted` and `NeverBoth` need more than that. `Agreed`: an order has one accept, and none once its user was told or its job
runs; every save on its way belongs to the accept or the job that awaits it, one each; and a job's saves repeat the amount and the block
that the record has. So nothing that lands after an answer changes what was answered. `Timely`: what the sweeper judges is
`DEPOSIT_FINALITY` blocks deep and unclaimed, and the block an accept read is not yet that deep, so the order that opens waits from a
later block than that of any transfer already judged. This is the step that `Prompt` is for, and without it TLC has the counterexample.

The ledger's invariant has three layers. The shape of a call: a caller has one save on its way, of the call it is in, and the first of a call's two
saves finds the reservation as the call found it. With that the sum of reservations and `reserved` change together (`Balanced`), and memory,
rows and stored reservations keep in step (`Stored`, `RowsFirst`, `Backed`). Then what an order's stage lets it hold (`Stage`): its
input until it swapped, what its user is owed afterwards; so every call finds what it settles (`CallsGoThrough`). Last, on a fork, what
the ledger is yet to be told (`ForkCounts`): the effects of the calls that are left, and what the chain did that no call tells of yet. Sums over
the orders are the library's, whose defining recursion is over finite sets: a function that sums exists and is unique by a least counterexample,
and from it the sum changes by what one order changes.

The fill engine's invariant says what each step of a turn knows. The line holds one task of an order at most, a snapshot is open exactly
between its making and its unwinding, and never in a fill's turn; so the chain without what an open measurement has yet to undo (`Real`) moves only
when a fill moves it. What a fill has done at each step gives the truth of its report, and what its swap made (`MadeOK`) that of the amount in it. `Owed` counts the orders whose swap is made and whose
payout failed: that the account holds their quotes (`OwedIsHeld`) is what makes `PaidFromTheSwap` inductive.

The repository's invariant relates a pair to the chain at a block. `Numbers`: what is tracked and held is what block `b` has. An event does to the
chain's pools what the repository does to its numbers when it reads the log (`RankedFollows`, `FreshFollows`): a mint moves the liquidity in range by its
amount exactly when the tick is in its range, which is where sums over positions come in. By a least counterexample over the blocks of a range, a replay takes
`Numbers` at its first block to `Numbers` at its last (`LogsReplayed`), provided the pools that the range creates are tracked before their logs
are asked for (`CreatedReplayed`, `Watches`). Then the cases beside the rule. A pair that loads while a replay runs is not moved by it; a replay that throws after its logs
were applied leaves `syncedBlock` behind: both leave a pair exact when the range held no event of it (`Quiet`, `LateOK`), and all others are `off`.
The ranking is a strict order of the filled entries, so the number of those less than `PoolsPerPair` from the top is known (`TopIs`), and it is what is held
whenever a pair is not waiting for its reselection (`HeldOK`).

A swap is followed round by round. A step takes in the least that is enough for the price it moves to and pays the most the curve gives, both rounded for the
pool, so no step pays above the price the swap began at, and at a tick that is reached the change of liquidity is that tick's net (`SwapSettles`). That it favours the
pool is three arguments about two swaps side by side. A trade in two against the whole: the whole is in the same place as the first part until that ends; from there on it
is ahead of the second part (`Leads`), and where the second part stops inside a step that the whole makes at once, rounding once leaves no less than rounding twice. A trade
back against the trade: it undoes the trade's rounds from the last to the first (`Undoes`), and a round undone gives at most what it cost. A window of ticks against
all of them: the two are in step (`InStep`) until the window's ticks end, and then either there is liquidity, which is noticed, or there is nothing to be paid.

The invariant of pricing (`QInv`) is about reads at different times. What a pricing has found so far, asset by asset and step by step, is stated against what the same searches would
give now (`PathsOf`, a function of pools, prices and remembered rates), and holds for as long as the count of moves is what it was when the pricing began (`JobSame`). A quote is then the price of the
best of all paths (`QuoteSame`), and since the second pricing gets the same paths it finds the same quote, unless the account no longer holds twice what the fill spends
(`UnmovedIsFilled`). For `FillWithinBuffer` the second pricing is compared with what the stored route gives at the fill (`FreshTrue`): legs are quoted by the pools that
will be asked, and a chain of legs gives what its last leg was quoted. Inductions over rounds, ticks, legs and guesses are by a least counterexample in a finite range (`Climb`).

Every one of these invariants was an invariant of a TLC run before it was proved: the ledger's on 379195 states, the fill engine's on
219916 and 891471, the deposits' on 1852204, the pools' on 308062, those of pricing on
98673. The proofs add assumptions to the models, of what TLA+ leaves open and the code does not: that
`None` is none of the values it stands in for, that orders, listed pools and ranges are finitely many, and that a pool holds nothing before it is
deployed and initialised (`Sound`).

Only model-checked: liveness, which is out of the prover's reach (`DepositDecided`, `LateDepositReturned`, `SettlementConcludes`, `SettledIsRebalanced`, `LoserStops`,
`TakenOver`, `StrayConcluded`, `LedgerFollowsChain`, `SyncCatchesUp`, `TurnsEnd`). Every safety invariant and every action property of the passing runs is stated by a
theorem, and so is the refinement.

## Not modelled

Starting forks and runtimes (`runtime.ts`, `fork.ts`), dealing balances (`deal.ts`, `funding.ts`), batching reads, address tables, ABIs,
configuration, logging, parsing and the requests to outside quote services: I/O or data. The 256-bit constants of Uniswap's
tick mathematics and Solana's transactions: a router chain is a rate and a constant cost. Reorganisations reach the order pipeline and
not the pool repository, whose code has nothing for them. What is abstracted in each module is said in its section.

## Plan

Done: the pipeline, leadership, deposits, the ledger, pools, the fill engine, pricing, and the theorems of them all. Left:
an abstract account under `Ledger` (what is held, what is promised) that it implements on a fork; what it would promise is stated of `Ledger`
itself for now (`ReservedHeld`, `StoreKnows`, `ForkAgreement`).
