----------------------------- MODULE FillEngine -----------------------------
(***************************************************************************)
(* execution/fill-engine.ts of one chain: measurements and fills that take *)
(* turns on one account, the gas remembered of each route, and what a fill *)
(* reports of the transactions it sent.                                    *)
(*                                                                         *)
(* On a fork a measurement is real transactions between a snapshot and a   *)
(* revert; live it is a simulation.  Callers are quotes, which measure,    *)
(* and orders, which dry run and fill.  Amounts are those of the token     *)
(* paid out; everything spent is approved to the router of a route.        *)
(***************************************************************************)
EXTENDS Integers, Sequences, FiniteSets

CONSTANTS
    Orders, Quotes,
    Routes,
    Asks,         \* what a quote may measure: a kind, route or deposit, and a route
    RouteOf,      \* the route of an order
    Legs,         \* the pools of a route
    Origin,       \* of a pool: its kind, amm and router, or None
    Quoted,       \* what every order's user is paid
    Pure,         \* an order's route when its fill is the payout alone
    None,
    MaxMishaps    \* bound on RPC calls that throw, and on mints, foreign deposits and
                  \* expired measurements

ASSUME FillEngineAssumption ==
    /\ Asks \in [Quotes -> SUBSET ({"route", "deposit"} \X Routes)]
    /\ RouteOf \in [Orders -> Routes \cup {Pure}]
    /\ \A r \in Routes : Legs[r] # <<>>
    /\ Quoted \in Nat \ {0} /\ MaxMishaps \in Nat

VARIABLES
    fork,
    chain,        \* allowances, the account's balance, the transactions that stand and
                  \* what each order's swap made
    saved,        \* the snapshot to go back to
    approved,
    turn,         \* tasks waiting for the account, the first one running
    at,           \* how far that one has got
    promises,     \* a measurement's outcome
    gasByRoute,
    quotes,
    fills,
    shape,        \* how often liquidity was minted or burned in the pools
    told,         \* ... when forget() was last called
    lost,         \* history: orders one of whose transactions, or a balance read after
                  \* one, went unanswered
    landed,       \* history: a foreign deposit arrived between two balance reads
    stained,      \* history: a snapshot could not be reverted to
    faults, events

engineVars == <<approved, turn, at, promises, gasByRoute>>
callerVars == <<quotes, fills>>
worldVars == <<shape, told, events>>
historyVars == <<lost, landed, stained>>
vars == <<fork, chain, saved, engineVars, callerVars, worldVars, historyVars, faults>>

Fault == faults + events < MaxMishaps /\ faults' = faults + 1
Event == faults + events < MaxMishaps /\ events' = events + 1

-----------------------------------------------------------------------------
(* Routes.                                                                 *)

OriginsOf(r) == [i \in DOMAIN Legs[r] |-> Origin[Legs[r][i]]]

\* routerFor: that of the first leg.
RouterFor(r) == IF r = Pure \/ OriginsOf(r)[1] = None THEN None ELSE OriginsOf(r)[1].router

\* callData: one leg on its own router, several in one packed path.
Encodable(r) ==
    /\ \A i \in DOMAIN Legs[r] : OriginsOf(r)[i] # None
    /\ Len(Legs[r]) > 1 =>
           \A i \in DOMAIN Legs[r] :
               OriginsOf(r)[i].kind = "v3" /\ OriginsOf(r)[i].amm = OriginsOf(r)[1].amm

Key(kind, r) == IF kind = "payout" THEN <<kind>> ELSE <<kind, r>>
Keys == {Key(kind, r) : kind \in {"route", "deposit", "payout"}, r \in Routes}
Names(key) == IF Len(key) = 1 THEN {} ELSE {Legs[key[2]][i] : i \in DOMAIN Legs[key[2]]}

Routers == {RouterFor(r) : r \in Routes}

\* The account as the chain has it, and what a task reports.
Account == [allowed : SUBSET Routers, balance : Int,
            did : [Orders -> [swaps : Nat, pays : Nat]], made : [Orders -> Int],
            probes : Nat]
Reasons == {"ok", "unknown router", "thrown", "not funded", "no recipient", "NO_ROUTES",
            "reverted", "thrown in run", "SLIPPAGE", "PAYOUT_FAILED"}
Results == [ok : BOOLEAN, reason : Reasons, swapped : Int \cup {None}]

ASSUME NoneAssumption == None \notin Account /\ None \notin Results /\ None \notin Int

-----------------------------------------------------------------------------
(* The task whose turn it is.                                              *)

Idle == [step |-> "start", before |-> 0, acquired |-> 0, swapped |-> None, result |-> None,
         shape |-> 0]
Result(ok, reason) == [ok |-> ok, reason |-> reason, swapped |-> at.swapped]

task == Head(turn)
Running(step) == turn # <<>> /\ at.step = step
Measuring == task.kind \in {"route", "deposit", "payout"}
OnSnapshot == fork /\ task.kind # "fill"
HasLegs == task.route # Pure
Needs == HasLegs /\ (fork \/ task.kind = "fill") /\ RouterFor(task.route) # None

Goto(step) == at' = [at EXCEPT !.step = step]
\* The task has its result; what it did inside a snapshot is still to be undone.
Finish(ok, reason) ==
    at' = [at EXCEPT !.result = Result(ok, reason), !.shape = shape,
                     !.step = IF saved # None THEN "unwind" ELSE "done"]

\* Where a quote is, what it measures, the promise it awaits and what it got.
Asking(where, ask, promise, got) == [at |-> where, ask |-> ask, promise |-> promise, got |-> got]

Init ==
    /\ fork \in BOOLEAN
    /\ chain = [allowed |-> {}, balance |-> Quoted,
                did |-> [o \in Orders |-> [swaps |-> 0, pays |-> 0]],
                made |-> [o \in Orders |-> 0], probes |-> 0]
    /\ saved = None
    /\ approved = {}
    /\ turn = <<>>
    /\ at = Idle
    /\ promises = <<>>
    /\ gasByRoute = [k \in Keys |-> None]
    /\ quotes = [q \in Quotes |-> Asking("idle", None, 0, None)]
    /\ fills = [o \in Orders |-> [at |-> "idle", result |-> None]]
    /\ shape = 0 /\ told = 0
    /\ lost = {} /\ landed = FALSE /\ stained = FALSE
    /\ faults = 0 /\ events = 0

KnowsRouter == task.kind = "route" => RouterFor(task.route) # None

\* A measurement of a route whose router is not known ends here.
Unroutable ==
    /\ Running("start") /\ ~KnowsRouter
    /\ Finish(FALSE, "unknown router")
    /\ UNCHANGED <<fork, chain, saved, approved, turn, promises, gasByRoute, callerVars,
                   worldVars, historyVars, faults>>

\* The allowance and its record; the approval's receipt is not looked at.
Allow(router) ==
    /\ approved' = approved \cup {router}
    /\ \/ chain' = [chain EXCEPT !.allowed = @ \cup {router}] /\ UNCHANGED faults
       \/ router \notin chain.allowed /\ Fault /\ UNCHANGED chain

\* A slip of Approve: the approval is made inside the snapshot.
ApproveInside ==
    /\ Running("start") /\ KnowsRouter
    /\ LET router == RouterFor(task.route)
       IN  IF Needs /\ router \notin approved THEN Allow(router)
           ELSE UNCHANGED <<approved, chain, faults>>
    /\ IF OnSnapshot THEN saved' = chain /\ Goto("run") ELSE Goto("approved") /\ UNCHANGED saved
    /\ UNCHANGED <<fork, turn, promises, gasByRoute, callerVars, worldVars, historyVars>>

\* ensureApproval(): the cache, then the allowance, then a transaction.  A live
\* measurement needs none.
Approve ==
    /\ Running("start") /\ KnowsRouter
    /\ LET router == RouterFor(task.route)
       IN  IF Needs /\ router \notin approved THEN Allow(router)
           ELSE UNCHANGED <<approved, chain, faults>>
    /\ Goto("approved")
    /\ UNCHANGED <<fork, saved, turn, promises, gasByRoute, callerVars, worldVars, historyVars>>

\* Reading the allowance, beforeSend or the approval throws, outside any try.
ApproveThrows ==
    /\ Running("start") /\ Needs /\ RouterFor(task.route) \notin approved /\ Fault
    /\ Finish(FALSE, "thrown")
    /\ UNCHANGED <<fork, chain, saved, approved, turn, promises, gasByRoute, callerVars,
                   worldVars, historyVars>>

\* simulate() on a fork: the snapshot, then the balance the account is short of,
\* which some tokens have no slot for.
Snapshot ==
    /\ Running("approved") /\ OnSnapshot
    /\ saved' = chain
    /\ \/ Goto("run")
       \/ /\ Measuring
          /\ at' = [at EXCEPT !.result = Result(FALSE, "not funded"), !.step = "unwind",
                              !.shape = shape]
    /\ UNCHANGED <<fork, chain, approved, turn, promises, gasByRoute, callerVars, worldVars,
                   historyVars, faults>>

\* The balance read or the snapshot throws; or every recipient holds the token.
SnapshotFails ==
    /\ Running("approved") /\ OnSnapshot
    /\ \/ Finish(FALSE, "thrown") /\ Fault
       \/ task.kind = "payout" /\ Finish(FALSE, "no recipient") /\ UNCHANGED faults
    /\ UNCHANGED <<fork, chain, saved, approved, turn, promises, gasByRoute, callerVars,
                   worldVars, historyVars>>

\* simulate() live: the node runs the calls against its state and overrides.
Estimate ==
    /\ Running("approved") /\ ~fork /\ task.kind # "fill"
    /\ \/ (HasLegs => Encodable(task.route)) /\ Finish(TRUE, "ok") /\ UNCHANGED faults
       \/ HasLegs /\ ~Encodable(task.route) /\ RouterFor(task.route) # None
             /\ Finish(FALSE, "NO_ROUTES") /\ UNCHANGED faults
       \/ Finish(FALSE, "reverted") /\ UNCHANGED faults
       \/ Finish(FALSE, "thrown") /\ Fault
    /\ UNCHANGED <<fork, chain, saved, approved, turn, promises, gasByRoute, callerVars,
                   worldVars, historyVars>>

FillStarts ==
    /\ Running("approved") /\ task.kind = "fill"
    /\ Goto("run")
    /\ UNCHANGED <<fork, chain, saved, approved, turn, promises, gasByRoute, callerVars,
                   worldVars, historyVars, faults>>

-----------------------------------------------------------------------------
(* run(): the swap, the check, the payout.                                 *)

Did(what, amount) ==
    IF Measuring THEN [chain EXCEPT !.probes = @ + 1, !.balance = @ + amount]
    ELSE IF what = "swap"
    THEN [chain EXCEPT !.did[task.by].swaps = @ + 1, !.made[task.by] = @ + amount,
                       !.balance = @ + amount]
    ELSE [chain EXCEPT !.did[task.by].pays = @ + 1, !.balance = @ + amount]

Lose == lost' = IF Measuring THEN lost ELSE lost \cup {task.by}

\* What a token that takes a fee on transfers makes is short of what the router
\* promised; short of the router's minimum, the swap reverts.
Made == {Quoted - 1, Quoted}

NotEncodable ==
    /\ Running("run") /\ HasLegs /\ ~Encodable(task.route)
    /\ Finish(FALSE, "NO_ROUTES")
    /\ UNCHANGED <<fork, chain, saved, approved, turn, promises, gasByRoute, callerVars,
                   worldVars, historyVars, faults>>

Swap ==
    /\ Running("run") /\ HasLegs /\ Encodable(task.route)
    /\ RouterFor(task.route) \in chain.allowed
    /\ \E made \in Made : chain' = Did("swap", made)
    /\ at' = [at EXCEPT !.step = "swapped", !.before = chain.balance]
    /\ UNCHANGED <<fork, saved, approved, turn, promises, gasByRoute, callerVars, worldVars,
                   historyVars, faults>>

SwapReverts ==
    /\ Running("run") /\ HasLegs /\ Encodable(task.route)
    /\ Finish(FALSE, "reverted")
    /\ UNCHANGED <<fork, chain, saved, approved, turn, promises, gasByRoute, callerVars,
                   worldVars, historyVars, faults>>

\* beforeSend, the send or the receipt throws: the swap may be mined or not.
SwapThrows ==
    /\ Running("run") /\ HasLegs /\ Encodable(task.route) /\ Fault
    /\ \/ UNCHANGED <<chain, lost>>
       \/ /\ RouterFor(task.route) \in chain.allowed
          /\ \E made \in Made : chain' = Did("swap", made)
          /\ Lose
    /\ Finish(FALSE, "thrown in run")
    /\ UNCHANGED <<fork, saved, approved, turn, promises, gasByRoute, callerVars, worldVars,
                   landed, stained>>

\* A slip of Acquired: the whole balance counts as acquired.
AcquiredWhole ==
    /\ Running("swapped")
    /\ LET acquired == chain.balance
       IN  at' = [at EXCEPT !.step = "acquired", !.acquired = acquired, !.swapped = acquired]
    /\ UNCHANGED <<fork, chain, saved, approved, turn, promises, gasByRoute, callerVars,
                   worldVars, historyVars, faults>>

\* What was acquired is what the balance gained since.
Acquired ==
    /\ Running("swapped")
    /\ LET acquired == chain.balance - at.before
       IN  at' = [at EXCEPT !.step = "acquired", !.acquired = acquired, !.swapped = acquired]
    /\ UNCHANGED <<fork, chain, saved, approved, turn, promises, gasByRoute, callerVars,
                   worldVars, historyVars, faults>>

\* The swap is mined and the balance cannot be read: it is reported as not made.
AcquiredThrows ==
    /\ Running("swapped") /\ Fault
    /\ Lose
    /\ Finish(FALSE, "thrown in run")
    /\ UNCHANGED <<fork, chain, saved, approved, turn, promises, gasByRoute, callerVars,
                   worldVars, landed, stained>>

ToPay == \/ Running("acquired")
         \/ Running("run") /\ ~HasLegs

\* A measurement of a swap has nobody to pay.
Measured ==
    /\ ToPay /\ task.kind \in {"route", "deposit"}
    /\ Finish(TRUE, "ok")
    /\ UNCHANGED <<fork, chain, saved, approved, turn, promises, gasByRoute, callerVars,
                   worldVars, historyVars, faults>>

Paying == ToPay /\ task.kind \notin {"route", "deposit"} /\ (HasLegs => at.acquired >= Quoted)

TooLittle ==
    /\ ToPay /\ HasLegs /\ task.kind \notin {"route", "deposit"} /\ at.acquired < Quoted
    /\ Finish(FALSE, "SLIPPAGE")
    /\ UNCHANGED <<fork, chain, saved, approved, turn, promises, gasByRoute, callerVars,
                   worldVars, historyVars, faults>>

Pay ==
    /\ Paying /\ (Measuring \/ chain.balance >= Quoted)
    /\ chain' = Did("pay", - Quoted)
    /\ Goto("paid")
    /\ UNCHANGED <<fork, saved, approved, turn, promises, gasByRoute, callerVars, worldVars,
                   historyVars, faults>>

\* A slip of PayReverts: the swap that was made is left out of the report.
PayRevertsAlone ==
    /\ Paying
    /\ at' = [at EXCEPT !.result = [ok |-> FALSE, reason |-> "PAYOUT_FAILED", swapped |-> None],
                        !.shape = shape, !.step = IF saved # None THEN "unwind" ELSE "done"]
    /\ UNCHANGED <<fork, chain, saved, approved, turn, promises, gasByRoute, callerVars,
                   worldVars, historyVars, faults>>

PayReverts ==
    /\ Paying
    /\ Finish(FALSE, "PAYOUT_FAILED")
    /\ UNCHANGED <<fork, chain, saved, approved, turn, promises, gasByRoute, callerVars,
                   worldVars, historyVars, faults>>

Caught == IF at.swapped = None THEN "thrown in run" ELSE "PAYOUT_FAILED"

PayThrows ==
    /\ Paying /\ Fault
    /\ \/ UNCHANGED <<chain, lost>>
       \/ (Measuring \/ chain.balance >= Quoted) /\ chain' = Did("pay", - Quoted) /\ Lose
    /\ Finish(FALSE, Caught)
    /\ UNCHANGED <<fork, saved, approved, turn, promises, gasByRoute, callerVars, worldVars,
                   landed, stained>>

Delivered ==
    /\ Running("paid")
    /\ Finish(TRUE, "ok")
    /\ UNCHANGED <<fork, chain, saved, approved, turn, promises, gasByRoute, callerVars,
                   worldVars, historyVars, faults>>

\* The user is paid and his balance cannot be read: it is reported as not paid.
DeliveredThrows ==
    /\ Running("paid") /\ Fault
    /\ Lose
    /\ Finish(FALSE, Caught)
    /\ UNCHANGED <<fork, chain, saved, approved, turn, promises, gasByRoute, callerVars,
                   worldVars, landed, stained>>

-----------------------------------------------------------------------------
(* The end of a turn.                                                      *)

\* A slip of Unwind: a measurement that failed is not rolled back.
UnwindOnSuccess ==
    /\ Running("unwind")
    /\ saved' = None
    /\ Goto("done")
    /\ IF at.result.ok THEN chain' = saved ELSE UNCHANGED chain
    /\ UNCHANGED <<faults, stained>>
    /\ UNCHANGED <<fork, approved, turn, promises, gasByRoute, callerVars, worldVars, lost, landed>>

\* finally: whatever happened inside the snapshot is rolled back.
Unwind ==
    /\ Running("unwind")
    /\ saved' = None
    /\ \/ chain' = saved /\ Goto("done") /\ UNCHANGED <<faults, stained>>
       \/ /\ Fault /\ stained' = TRUE /\ UNCHANGED chain
          /\ at' = [at EXCEPT !.step = "done", !.result = Result(FALSE, "thrown")]
    /\ UNCHANGED <<fork, approved, turn, promises, gasByRoute, callerVars, worldVars, lost, landed>>

\* The promise is settled and the next task has its turn.
EndTurn ==
    /\ Running("done")
    /\ turn' = Tail(turn)
    /\ at' = Idle
    /\ IF Measuring
       THEN /\ promises' = [promises EXCEPT ![task.by] =
                   [gas |-> IF at.result.reason = "thrown" THEN "thrown"
                            ELSE IF at.result.ok THEN "measured" ELSE "null",
                    shape |-> at.shape]]
            /\ UNCHANGED fills
       ELSE /\ fills' = [fills EXCEPT ![task.by].result = at.result]
            /\ UNCHANGED promises
    /\ UNCHANGED <<fork, chain, saved, approved, gasByRoute, quotes, worldVars, historyVars, faults>>

-----------------------------------------------------------------------------
(* The callers.                                                            *)

Pending == [gas |-> "pending", shape |-> 0]

\* remembered(): the measurement known of a key, or a new one at the end of the line.
Remembered(q, ask, kind, where) ==
    LET k == Key(kind, ask[2])
        p == IF gasByRoute[k] # None THEN gasByRoute[k] ELSE Len(promises) + 1
    IN  /\ quotes' = [quotes EXCEPT ![q] = Asking(where, ask, p, None)]
        /\ IF gasByRoute[k] # None THEN UNCHANGED <<promises, turn, gasByRoute>>
           ELSE /\ promises' = Append(promises, Pending)
                /\ turn' = Append(turn, [by |-> p, kind |-> kind,
                                         route |-> IF kind = "payout" THEN Pure ELSE ask[2]])
                /\ gasByRoute' = [gasByRoute EXCEPT ![k] = p]
        /\ UNCHANGED <<fork, chain, saved, approved, at, fills, worldVars, historyVars, faults>>

\* gasForRoute and gasForDeposit; the latter asks for the router first.
AskGas(q, ask) ==
    /\ quotes[q].at = "idle"
    /\ ask[1] = "deposit" => RouterFor(ask[2]) # None
    /\ Remembered(q, ask, ask[1], "swap")

AskUnknown(q, ask) ==
    /\ quotes[q].at = "idle" /\ ask[1] = "deposit" /\ RouterFor(ask[2]) = None
    /\ quotes' = [quotes EXCEPT ![q] = Asking("ended", ask, 0, "null")]
    /\ UNCHANGED <<fork, chain, saved, engineVars, fills, worldVars, historyVars, faults>>

\* A slip of AskPayout: asked for while the swap's turn is not over.
AskPayoutInside(q) ==
    /\ quotes[q].at = "swap" /\ quotes[q].ask[1] = "route"
    /\ turn # <<>> /\ task.by = quotes[q].promise /\ at.step = "done"
    /\ at' = [at EXCEPT !.step = "nested"]
    /\ LET p == Len(promises) + 1
       IN  /\ promises' = Append(promises, Pending)
           /\ turn' = Append(turn, [by |-> p, kind |-> "payout", route |-> Pure])
           /\ quotes' = [quotes EXCEPT ![q] = Asking("payout", quotes[q].ask, p, None)]
    /\ UNCHANGED <<fork, chain, saved, approved, gasByRoute, fills, worldVars, historyVars, faults>>

\* A route is its swap and the transfer of what the swap makes, measured after it.
AskPayout(q) ==
    /\ quotes[q].at = "swap" /\ quotes[q].ask[1] = "route"
    /\ promises[quotes[q].promise].gas = "measured"
    /\ Remembered(q, quotes[q].ask, "payout", "payout")

QuoteEnds(q) ==
    /\ quotes[q].at \in {"swap", "payout"}
    /\ LET gas == promises[quotes[q].promise].gas
       IN  /\ gas # "pending"
           /\ quotes[q].at = "swap" /\ quotes[q].ask[1] = "route" => gas # "measured"
           /\ quotes' = [quotes EXCEPT ![q] = Asking("ended", quotes[q].ask, 0, gas)]
    /\ UNCHANGED <<fork, chain, saved, engineVars, fills, worldVars, historyVars, faults>>

Queue(o, kind, r, where) ==
    /\ turn' = Append(turn, [by |-> o, kind |-> kind, route |-> r])
    /\ fills' = [fills EXCEPT ![o] = [at |-> where, result |-> None]]
    /\ UNCHANGED <<fork, chain, saved, approved, at, promises, gasByRoute, quotes, worldVars,
                   historyVars, faults>>

AskDryRun(o) ==
    /\ fills[o].at = "idle"
    /\ Queue(o, "dry", RouteOf[o], "dry run")

AskFill(o) ==
    /\ fills[o].at = "dry run" /\ fills[o].result # None /\ fills[o].result.ok
    /\ Queue(o, "fill", RouteOf[o], "fill")

\* The swap went through and the payout did not: execute() sends it alone.
AskPayoutOnly(o) ==
    /\ fills[o].at = "fill" /\ fills[o].result # None
    /\ fills[o].result.reason = "PAYOUT_FAILED" /\ fills[o].result.swapped # None
    /\ Queue(o, "fill", Pure, "retry")

-----------------------------------------------------------------------------
(* The world.                                                              *)

\* Somebody mints or burns in the pools.
Reshape ==
    /\ ~fork /\ Event
    /\ shape' = shape + 1
    /\ UNCHANGED <<fork, chain, saved, engineVars, callerVars, told, historyVars, faults>>

\* A slip of Forget: a measurement under way is let finish.
ForgetMeasured ==
    /\ told < shape
    /\ told' = shape
    /\ gasByRoute' = [k \in Keys |->
           IF Names(k) = {} \/ gasByRoute[k] = None \/ promises[gasByRoute[k]].gas = "pending"
           THEN gasByRoute[k] ELSE None]
    /\ UNCHANGED <<fork, chain, saved, approved, turn, at, promises, callerVars, shape, events,
                   historyVars, faults>>

\* forget(): the poller's sync saw it, and every measurement naming a pool goes.
Forget ==
    /\ told < shape
    /\ told' = shape
    /\ gasByRoute' = [k \in Keys |-> IF Names(k) = {} THEN gasByRoute[k] ELSE None]
    /\ UNCHANGED <<fork, chain, saved, approved, turn, at, promises, callerVars, shape, events,
                   historyVars, faults>>

\* gasCacheTtlMs is over.
Expire(k) ==
    /\ gasByRoute[k] # None /\ Event
    /\ gasByRoute' = [gasByRoute EXCEPT ![k] = None]
    /\ UNCHANGED <<fork, chain, saved, approved, turn, at, promises, callerVars, shape, told,
                   historyVars, faults>>

\* A user's deposit of the same token reaches the account between the two reads
\* of its balance; at other times it is in both or in neither.
DepositLands ==
    /\ ~fork /\ Running("swapped") /\ Event
    /\ chain' = [chain EXCEPT !.balance = @ + 1]
    /\ landed' = TRUE
    /\ UNCHANGED <<fork, saved, engineVars, callerVars, shape, told, lost, stained, faults>>

Ended ==
    /\ turn = <<>> /\ \A q \in Quotes : quotes[q].at = "ended"
    /\ UNCHANGED vars

-----------------------------------------------------------------------------
(* The whole.                                                              *)

RunStep ==
    \/ NotEncodable \/ Swap \/ SwapReverts \/ SwapThrows \/ Acquired \/ AcquiredThrows
    \/ Measured \/ TooLittle \/ Pay \/ PayReverts \/ PayThrows \/ Delivered \/ DeliveredThrows

TurnStep ==
    \/ Unroutable \/ Approve \/ ApproveThrows \/ Snapshot \/ SnapshotFails
    \/ Estimate \/ FillStarts
    \/ RunStep \/ Unwind \/ EndTurn

Next ==
    \/ TurnStep
    \/ \E q \in Quotes :
          \/ \E ask \in Asks[q] : AskGas(q, ask) \/ AskUnknown(q, ask)
          \/ AskPayout(q) \/ QuoteEnds(q)
    \/ \E o \in Orders : AskDryRun(o) \/ AskFill(o) \/ AskPayoutOnly(o)
    \/ Reshape \/ Forget \/ DepositLands \/ \E k \in Keys : Expire(k)
    \/ Ended

Spec == Init /\ [][Next]_vars

\* What the running task awaits returns or throws, and callers go on with it.
FairSpec ==
    /\ Spec
    /\ WF_vars(TurnStep)
    /\ \A q \in Quotes : WF_vars(AskPayout(q) \/ QuoteEnds(q))

-----------------------------------------------------------------------------
(* Properties.                                                             *)

\* Between a measurement and the next turn, the chain holds no transaction but
\* those of fills: no probe stands, and an order whose fill has not begun has
\* neither swapped nor paid, whatever failed inside the measurement.  An idle
\* engine has no snapshot open, and a live chain never has one.
Standing == turn = <<>> \/ at.step \in {"start", "approved", "done"}
MeasurementLeavesNoTrace ==
    /\ turn = <<>> \/ ~fork => saved = None
    /\ Standing /\ ~stained =>
           /\ chain.probes = 0
           /\ \A o \in Orders : fills[o].at \in {"idle", "dry run"} =>
                  chain.did[o] = [swaps |-> 0, pays |-> 0]

\* What the engine remembers as approved is approved on the chain, through every
\* rollback: no swap fails for an allowance that a revert took away.
ApprovalsStand == faults = 0 => approved \subseteq chain.allowed

\* What execute() is told of an order is what the chain did for it, if each of
\* its transactions, and each balance read after one, was answered (it is not
\* `lost`) and every snapshot was reverted (nothing is `stained`): an ok is one
\* payout after one swap, if its route has any; a failure that carries a swap, or
\* of the payout tried again, is one swap and no payout; any other failure moved
\* nothing.  If no foreign deposit came between the two reads of the balance
\* either (nothing `landed`), the amount reported is what the swap made, and whom
\* it says it paid had a swap that made at least the quote.
ToldWhatHappened(o) ==
    LET r == fills[o].result
        one == IF RouteOf[o] = Pure THEN 0 ELSE 1
    IN  chain.did[o] =
            IF r.ok THEN [swaps |-> one, pays |-> 1]
            ELSE IF r.swapped # None \/ fills[o].at = "retry" THEN [swaps |-> 1, pays |-> 0]
            ELSE [swaps |-> 0, pays |-> 0]
ToldWhatItMade(o) ==
    LET r == fills[o].result
    IN  /\ r.swapped # None => r.swapped = chain.made[o]
        /\ r.ok /\ RouteOf[o] # Pure => chain.made[o] >= Quoted
ResultsAreTrue ==
    ~stained => \A o \in Orders \ lost :
        fills[o].at \in {"fill", "retry"} /\ fills[o].result # None =>
            ToldWhatHappened(o) /\ (~landed => ToldWhatItMade(o))

\* The account never pays a user out of what it held before: what its fills paid
\* came out of their swaps.  Between two turns, if every fill has a swap, every
\* transaction and every balance read after one was answered, every snapshot was
\* reverted and no foreign deposit came between the two reads of a balance.
PaidFromTheSwap ==
    (\A o \in Orders : RouteOf[o] # Pure) /\ ~landed /\ ~stained /\ lost = {} /\ Standing
        => chain.balance >= Quoted

\* A remembered measurement was made on the pools as they are since the last
\* mint or burn the poller told of, however long it was under way.
GasIsOfThisShape ==
    \A k \in Keys : Names(k) # {} /\ gasByRoute[k] # None =>
        LET p == promises[gasByRoute[k]] IN p.gas # "pending" => p.shape >= told

\* Every turn ends: no task waits for another that is behind it.
TurnsEnd == <>[](turn = <<>>)

=============================================================================
