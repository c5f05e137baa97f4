------------------------------ MODULE Deposits ------------------------------
(***************************************************************************)
(* Whose money a transfer is: acceptOrder and uniqueDepositAmount of       *)
(* solver.ts, the worker's search for an order's deposit, and the sweeper  *)
(* that sends back what no order accounts for.                             *)
(*                                                                         *)
(* A step is the code between two awaits.  Redis answers in the order of   *)
(* the commands (`line`), a chain in any order.  One chain and one token:  *)
(* orders of others never meet.  The clock and the blocks' timestamps are  *)
(* one clock.  Reorganisations, and what becomes of an order once it is    *)
(* decided, are OrderLifecycle's.                                          *)
(***************************************************************************)
EXTENDS OrderStates, Integers, FiniteSets, Sequences

CONSTANTS
    Orders, Requests, Transfers,
    NoTransfer,             \* an order without a deposit
    NoOrder,                \* a request that is not being answered
    Asked,                  \* [Orders -> Nat]: intent.origin.amount
    Amounts,                \* what users send
    DEPOSIT_CONFIRMATIONS, DEPOSIT_FINALITY,
    MaxAttempts,            \* sweep.maxAttempts
    MaxHead,                \* bound on blocks
    MaxCrashes,             \* bound on crashes
    MaxFaults,              \* bound on failing saves and unheard refunds
    Duplicates,             \* two accepts of one order may overlap
    Prompt                  \* an accept is written before DEPOSIT_FINALITY blocks

ASSUME DepositsAssumption ==
    /\ IsFiniteSet(Orders) /\ Orders \cap Requests = {} /\ NoTransfer \notin Transfers /\ NoOrder \notin Orders
    /\ Asked \in [Orders -> Nat \ {0}] /\ Amounts \subseteq Nat \ {0}
    /\ {DEPOSIT_CONFIRMATIONS, DEPOSIT_FINALITY, MaxAttempts} \subseteq Nat
    /\ {MaxHead, MaxCrashes, MaxFaults} \subseteq Nat
    /\ {Duplicates, Prompt} \subseteq BOOLEAN

VARIABLES
    head,       \* the chain's height
    paid,       \* transfers to the solver: block (0: not sent) and amount
    overdue,    \* the last block before an order's deadline, MaxHead until it passes
    order,      \* records: state, amount wanted (0: none), first block, deposit
    quote,      \* status of the order's quote
    req,        \* accepts: where each is, its order, the block it read, its answer
    job,        \* an order's job: where it is, the transfers it has read
    line,       \* saves Redis has yet to answer: who waits, which order, what record
    claimed,    \* transfers that were matched to an order, in memory
    told,       \* amounts the user of an order was told to send
    strays,     \* the sweeper's records: status and attempts
    sweep,      \* the sweeper: where it is, what is left to do, the scan's last block
    sweptTo,    \* its cursor
    savedTo,    \* the cursor as Redis has it (0: none yet)
    returned,   \* history: refunds of a transfer by the sweeper that were mined
    unheard,    \* history: those of which it learnt nothing
    crashes, faults

chain    == <<head, paid, overdue>>
book     == <<order, quote, line>>
accepts  == <<req, told>>
jobs     == <<job, claimed>>
sweeper  == <<strays, sweep, sweptTo, savedTo, returned, unheard>>
vars     == <<chain, book, accepts, jobs, sweeper, crashes, faults>>

Sent(t) == paid[t].block # 0
Oldest(S) == {t \in S : \A u \in S : paid[t].block <= paid[u].block}
First(S) == CHOOSE t \in Oldest(S) : TRUE

NoRequest == [at |-> "none", order |-> NoOrder, from |-> 0, want |-> 0]
Job(at, seen) == [at |-> at, seen |-> seen]
Sweep(at, todo, till) == [at |-> at, todo |-> todo, till |-> till]

Records == [st : OrderState, want : Nat, from : Nat, dep : Transfers \cup {NoTransfer}]
Accepting == {"none", "quote", "expired", "block", "accepted", "wanted", "awaiting", "enqueue"}
Working == {"none", "waiting", "found", "claiming", "deciding"}
Statuses == {"none", "open", "held", "returned", "abandoned"}
Sweeping == {"resting", "judging", "weighing", "sending"}

Init ==
    /\ head = 1
    /\ paid = [t \in Transfers |-> [block |-> 0, amount |-> 0]]
    /\ overdue = [o \in Orders |-> MaxHead]
    /\ order = [o \in Orders |-> [st |-> "QUOTED", want |-> 0, from |-> 0, dep |-> NoTransfer]]
    /\ quote = [o \in Orders |-> "open"]
    /\ req = [r \in Requests |-> NoRequest]
    /\ job = [o \in Orders |-> Job("none", {})]
    /\ line = <<>> /\ claimed = {}
    /\ told = [o \in Orders |-> {}]
    /\ strays = [t \in Transfers |-> [status |-> "none", attempts |-> 0]]
    /\ sweep = Sweep("resting", {}, 0) /\ sweptTo = 0 /\ savedTo = 0
    /\ returned = [t \in Transfers |-> 0]
    /\ unheard = [t \in Transfers |-> 0]
    /\ crashes = 0 /\ faults = 0

-----------------------------------------------------------------------------
(* put(): a save is issued, and the map follows when Redis has answered.   *)

Save(w, o, rec) == [by |-> w, order |-> o, rec |-> rec]
Advanced(o, to) == [order[o] EXCEPT !.st = to]

Answered(w) == line # <<>> /\ Head(line).by = w
Landed == [order EXCEPT ![Head(line).order] = Head(line).rec]

\* The sweeper's refunds, one after another, oldest first; and its rest after them.
Due == {t \in Transfers : strays[t].status = "open"}
Refunds(todo) == IF todo = {} THEN Sweep("resting", {}, 0) ELSE Sweep("sending", todo, 0)

-----------------------------------------------------------------------------
(* Slips: one plausible bug each, of the action it is named after.         *)

\* The deposit is recorded and not claimed.
ClaimUnmarked(o) ==
    /\ job[o].at = "found" /\ job[o].seen \ claimed # {}
    /\ line' = Append(line, Save(o, o, [order[o] EXCEPT !.dep = First(job[o].seen \ claimed)]))
    /\ job' = [job EXCEPT ![o] = Job("claiming", {})]
    /\ UNCHANGED <<chain, order, quote, accepts, claimed, sweeper, crashes, faults>>

\* The scan does not ask which orders are open.
SpokenUnasked(t) == t \in claimed \/ strays[t].status # "none"

\* refundTx is not recorded.
RefundedUnrecorded ==
    /\ sweep.at = "sending"
    /\ sweep' = Refunds(sweep.todo \ {First(sweep.todo)})
    /\ returned' = [returned EXCEPT ![First(sweep.todo)] = @ + 1]
    /\ UNCHANGED <<chain, book, accepts, jobs, strays, sweptTo, savedTo, unheard, crashes, faults>>

\* The answer repeats the intent's amount.
EnqueueAsAsked(r) ==
    /\ req[r].at = "enqueue"
    /\ LET o == req[r].order
       IN  /\ job' = [job EXCEPT ![o] = IF @.at = "none" THEN Job("waiting", {}) ELSE @]
           /\ told' = [told EXCEPT ![o] = @ \cup {Asked[o]}]
    /\ req' = [req EXCEPT ![r] = NoRequest]
    /\ UNCHANGED <<chain, book, claimed, sweeper, crashes, faults>>

\* The cursor moves to the head, past blocks not scanned.
SweptToHead ==
    /\ sweep.at = "judging" /\ sweep.todo = {}
    /\ sweptTo' = head /\ savedTo' = head
    /\ sweep' = Refunds(Due)
    /\ UNCHANGED <<chain, book, accepts, jobs, strays, returned, unheard, crashes, faults>>

-----------------------------------------------------------------------------
(* acceptOrder, and the route's enqueue after it.                          *)

\* The least amount from `asked` on that no order of the map waits for.
uniqueDepositAmount(map, asked) ==
    LET open == {map[o].want : o \in {p \in Orders : map[p].st = "AWAITING_DEPOSIT"}}
        free == (asked .. asked + Cardinality(Orders)) \ open
    IN  CHOOSE n \in free : \A m \in free : n <= m

MayAccept(r, o) ==
    req[r].at = "none" /\ (Duplicates \/ \A q \in Requests : req[q].order # o)

\* quotes.accept finds the quote open and saves it as accepted.
Accept(r, o) ==
    /\ MayAccept(r, o) /\ quote[o] = "open"
    /\ req' = [req EXCEPT ![r] = [NoRequest EXCEPT !.at = "quote", !.order = o]]
    /\ line' = Append(line, Save(r, o, order[o]))
    /\ UNCHANGED <<chain, order, quote, told, jobs, sweeper, crashes, faults>>

\* Or it finds it expired, and the order expires with it.
AcceptExpired(r, o) ==
    /\ MayAccept(r, o) /\ quote[o] = "expired" /\ order[o].st = "QUOTED"
    /\ req' = [req EXCEPT ![r] = [NoRequest EXCEPT !.at = "expired", !.order = o]]
    /\ line' = Append(line, Save(r, o, Advanced(o, "EXPIRED")))
    /\ UNCHANGED <<chain, order, quote, told, jobs, sweeper, crashes, faults>>

ExpiredLands(r) ==
    /\ Answered(r) /\ req[r].at = "expired"
    /\ order' = Landed /\ line' = Tail(line)
    /\ req' = [req EXCEPT ![r] = NoRequest]
    /\ UNCHANGED <<chain, quote, told, jobs, sweeper, crashes, faults>>

QuoteLands(r) ==
    /\ Answered(r) /\ req[r].at = "quote"
    /\ quote' = [quote EXCEPT ![req[r].order] = "accepted"]
    /\ line' = Tail(line)
    /\ req' = [req EXCEPT ![r] = [@ EXCEPT !.at = "block", !.from = head]]
    /\ UNCHANGED <<chain, order, told, jobs, sweeper, crashes, faults>>

\* The head as it was at some moment since; then the order is ACCEPTED, unless
\* the table refuses.
BlockRead(r) ==
    /\ req[r].at = "block"
    /\ LET o == req[r].order
       IN  IF CanTransition(order[o].st, "ACCEPTED")
           THEN /\ \E h \in req[r].from .. head :
                      req' = [req EXCEPT ![r] = [@ EXCEPT !.at = "accepted", !.from = h]]
                /\ line' = Append(line, Save(r, o, Advanced(o, "ACCEPTED")))
           ELSE req' = [req EXCEPT ![r] = NoRequest] /\ UNCHANGED line
    /\ UNCHANGED <<chain, order, quote, told, jobs, sweeper, crashes, faults>>

\* The amount is chosen now, and attached with the next save.
AcceptedLands(r) ==
    /\ Answered(r) /\ req[r].at = "accepted"
    /\ order' = Landed
    /\ LET o == req[r].order
           amount == uniqueDepositAmount(order', Asked[o])
           wanted == [order'[o] EXCEPT !.want = amount, !.from = req[r].from]
       IN  line' = Append(Tail(line), Save(r, o, wanted))
    /\ req' = [req EXCEPT ![r] = [@ EXCEPT !.at = "wanted"]]
    /\ UNCHANGED <<chain, quote, told, jobs, sweeper, crashes, faults>>

WantedLands(r) ==
    /\ Answered(r) /\ req[r].at = "wanted"
    /\ order' = Landed
    /\ LET o == req[r].order
       IN  IF CanTransition(order'[o].st, "AWAITING_DEPOSIT")
           THEN /\ line' = Append(Tail(line), Save(r, o, [order'[o] EXCEPT !.st = "AWAITING_DEPOSIT"]))
                /\ req' = [req EXCEPT ![r] = [@ EXCEPT !.at = "awaiting"]]
           ELSE line' = Tail(line) /\ req' = [req EXCEPT ![r] = NoRequest]
    /\ UNCHANGED <<chain, quote, told, jobs, sweeper, crashes, faults>>

AwaitingLands(r) ==
    /\ Answered(r) /\ req[r].at = "awaiting"
    /\ order' = Landed /\ line' = Tail(line)
    /\ req' = [req EXCEPT ![r] = [@ EXCEPT !.at = "enqueue", !.want = Head(line).rec.want]]
    /\ UNCHANGED <<chain, quote, told, jobs, sweeper, crashes, faults>>

\* The job's id is the order's: one that is queued already stays.  The answer
\* carries the amount.
Enqueue(r) ==
    /\ req[r].at = "enqueue"
    /\ LET o == req[r].order
       IN  /\ job' = [job EXCEPT ![o] = IF @.at = "none" THEN Job("waiting", {}) ELSE @]
           /\ told' = [told EXCEPT ![o] = @ \cup {req[r].want}]
    /\ req' = [req EXCEPT ![r] = NoRequest]
    /\ UNCHANGED <<chain, book, claimed, sweeper, crashes, faults>>

-----------------------------------------------------------------------------
(* awaitDeposit, called again and again by the order's job.                *)

\* findDeposit's logs, as the chain has them when it is asked.
Search(o) ==
    /\ job[o].at = "waiting" /\ order[o].st = "AWAITING_DEPOSIT" /\ order[o].dep = NoTransfer
    /\ job' = [job EXCEPT ![o] = Job("found",
           {t \in Transfers : /\ Sent(t) /\ paid[t].block >= order[o].from
                              /\ paid[t].amount = order[o].want})]
    /\ UNCHANGED <<chain, book, accepts, claimed, sweeper, crashes, faults>>

\* The first that no order has claimed is this order's.
Claim(o) ==
    /\ job[o].at = "found" /\ job[o].seen \ claimed # {}
    /\ LET t == First(job[o].seen \ claimed)
       IN  /\ claimed' = claimed \cup {t}
           /\ line' = Append(line, Save(o, o, [order[o] EXCEPT !.dep = t]))
    /\ job' = [job EXCEPT ![o] = Job("claiming", {})]
    /\ UNCHANGED <<chain, order, quote, accepts, sweeper, crashes, faults>>

\* There is none: the job waits, or the deadline has passed.
NotFound(o) ==
    /\ job[o].at = "found" /\ job[o].seen \subseteq claimed
    /\ IF overdue[o] = MaxHead
       THEN job' = [job EXCEPT ![o] = Job("waiting", {})] /\ UNCHANGED line
       ELSE /\ job' = [job EXCEPT ![o] = Job("deciding", {})]
            /\ line' = Append(line, Save(o, o, Advanced(o, "EXPIRED")))
    /\ UNCHANGED <<chain, order, quote, accepts, claimed, sweeper, crashes, faults>>

ClaimLands(o) ==
    /\ Answered(o) /\ job[o].at = "claiming"
    /\ order' = Landed /\ line' = Tail(line)
    /\ job' = [job EXCEPT ![o] = Job("waiting", {})]
    /\ UNCHANGED <<chain, quote, accepts, claimed, sweeper, crashes, faults>>

\* Deep enough, the deposit is confirmed, or expired by its block's time.
Decide(o) ==
    /\ job[o].at = "waiting" /\ order[o].st = "AWAITING_DEPOSIT" /\ order[o].dep # NoTransfer
    /\ LET landed == paid[order[o].dep].block
           to == IF landed > overdue[o] THEN "EXPIRED" ELSE "DEPOSIT_CONFIRMED"
       IN  /\ head - landed >= DEPOSIT_CONFIRMATIONS
           /\ line' = Append(line, Save(o, o, Advanced(o, to)))
    /\ job' = [job EXCEPT ![o] = Job("deciding", {})]
    /\ UNCHANGED <<chain, order, quote, accepts, claimed, sweeper, crashes, faults>>

DecisionLands(o) ==
    /\ Answered(o) /\ job[o].at = "deciding"
    /\ order' = Landed /\ line' = Tail(line)
    /\ job' = [job EXCEPT ![o] = Job("none", {})]
    /\ UNCHANGED <<chain, quote, accepts, claimed, sweeper, crashes, faults>>

\* A job whose order no longer waits.
Ignored(o) ==
    /\ job[o].at = "waiting" /\ order[o].st # "AWAITING_DEPOSIT"
    /\ job' = [job EXCEPT ![o] = Job("none", {})]
    /\ UNCHANGED <<chain, book, accepts, claimed, sweeper, crashes, faults>>

-----------------------------------------------------------------------------
(* The sweeper's scan(), one at a time.                                    *)

claimable(t) ==
    \E o \in Orders : /\ order[o].st = "AWAITING_DEPOSIT" /\ order[o].want = paid[t].amount
                      /\ order[o].from <= paid[t].block

\* The logs since the cursor; when no block is deep enough, what is due at once.
SweepStarts ==
    /\ sweep.at = "resting"
    /\ LET till == head - DEPOSIT_FINALITY
       IN  sweep' = IF till <= sweptTo THEN Refunds(Due)
                    ELSE Sweep("judging",
                               {t \in Transfers : Sent(t) /\ paid[t].block \in sweptTo + 1 .. till}, till)
    /\ UNCHANGED <<chain, book, accepts, jobs, strays, sweptTo, savedTo, returned, unheard, crashes, faults>>

Spoken(t) == t \in claimed \/ strays[t].status # "none" \/ claimable(t)

\* Log after log: passed over, or looked into with awaits.
Judge ==
    /\ sweep.at = "judging" /\ sweep.todo # {}
    /\ LET t == First(sweep.todo)
       IN  sweep' = IF Spoken(t) THEN [sweep EXCEPT !.todo = @ \ {t}]
                                 ELSE [sweep EXCEPT !.at = "weighing"]
    /\ UNCHANGED <<chain, book, accepts, jobs, strays, sweptTo, savedTo, returned, unheard, crashes, faults>>

\* Recorded; held when its token has no price or it is worth less than its gas.
Weigh ==
    /\ sweep.at = "weighing"
    /\ LET t == First(sweep.todo)
       IN  /\ \E status \in {"open", "held"} : strays' = [strays EXCEPT ![t].status = status]
           /\ sweep' = [sweep EXCEPT !.at = "judging", !.todo = @ \ {t}]
    /\ UNCHANGED <<chain, book, accepts, jobs, sweptTo, savedTo, returned, unheard, crashes, faults>>

\* The cursor is saved, and every open stray is due: a transfer by the fill engine.
Swept ==
    /\ sweep.at = "judging" /\ sweep.todo = {}
    /\ sweptTo' = sweep.till /\ savedTo' = sweep.till
    /\ sweep' = Refunds(Due)
    /\ UNCHANGED <<chain, book, accepts, jobs, strays, returned, unheard, crashes, faults>>

Refunding == First(sweep.todo)
Tried(status) == [strays EXCEPT ![Refunding] = [status |-> status, attempts |-> @.attempts + 1]]
Onward == Refunds(sweep.todo \ {Refunding})
Failed == IF strays[Refunding].attempts + 1 >= MaxAttempts THEN "abandoned" ELSE "open"

Refunded ==
    /\ sweep.at = "sending"
    /\ strays' = Tried("returned") /\ sweep' = Onward
    /\ returned' = [returned EXCEPT ![Refunding] = @ + 1]
    /\ UNCHANGED <<chain, book, accepts, jobs, sweptTo, savedTo, unheard, crashes, faults>>

\* It reverts, or cannot be sent.
RefundFails ==
    /\ sweep.at = "sending"
    /\ strays' = Tried(Failed) /\ sweep' = Onward
    /\ UNCHANGED <<chain, book, accepts, jobs, sweptTo, savedTo, returned, unheard, crashes, faults>>

\* It is mined and its receipt is not answered: a failure, as far as fill() knows.
RefundUnheard ==
    /\ sweep.at = "sending" /\ faults < MaxFaults
    /\ strays' = Tried(Failed) /\ sweep' = Onward
    /\ returned' = [returned EXCEPT ![Refunding] = @ + 1]
    /\ unheard' = [unheard EXCEPT ![Refunding] = @ + 1]
    /\ faults' = faults + 1
    /\ UNCHANGED <<chain, book, accepts, jobs, sweptTo, savedTo, crashes>>

-----------------------------------------------------------------------------
(* Failures.                                                               *)

\* A save is refused: the accept is answered with an error, the job waits.
SaveFails ==
    /\ line # <<>> /\ faults < MaxFaults
    /\ line' = Tail(line)
    /\ LET w == Head(line).by
       IN  IF w \in Requests THEN req' = [req EXCEPT ![w] = NoRequest] /\ UNCHANGED job
                             ELSE job' = [job EXCEPT ![w] = Job("waiting", {})] /\ UNCHANGED req
    /\ faults' = faults + 1
    /\ UNCHANGED <<chain, order, quote, told, claimed, sweeper, crashes>>

\* What a refund that is being sent came to, when nothing will tell.
MinedUnheard ==
    \E mined \in SUBSET (IF sweep.at = "sending" THEN {Refunding} ELSE {}) :
        /\ returned' = [t \in Transfers |-> IF t \in mined THEN returned[t] + 1 ELSE returned[t]]
        /\ unheard' = [t \in Transfers |-> IF t \in mined THEN unheard[t] + 1 ELSE unheard[t]]

\* A read or a save throws, and the sweep with it: that of a stray, of the
\* cursor, which has moved in memory, or of a refund.
SweepFails ==
    /\ sweep.at \in {"judging", "weighing", "sending"} /\ faults < MaxFaults
    /\ sweep' = Sweep("resting", {}, 0)
    /\ \/ UNCHANGED sweptTo
       \/ sweep.at = "judging" /\ sweep.todo = {} /\ sweptTo' = sweep.till
    /\ MinedUnheard
    /\ faults' = faults + 1
    /\ UNCHANGED <<chain, book, accepts, jobs, strays, savedTo, crashes>>

\* The records after the first n saves.
OfQuote(w) == w.by \in Requests /\ req[w.by].at = "quote"
Mine(n, o) == {i \in 1 .. n : line[i].order = o /\ ~OfQuote(line[i])}
Executed(n) ==
    [o \in Orders |->
        IF Mine(n, o) = {} THEN order[o]
        ELSE line[CHOOSE i \in Mine(n, o) : \A j \in Mine(n, o) : j <= i].rec]

\* The process dies and is started again: jobs stay and records, with the saves
\* Redis has executed; restore() claims what they say, and the sweep goes on from
\* the cursor that was saved, or, when none was, from the block of the new start.
Restart(unclaimed) ==
    /\ crashes < MaxCrashes /\ crashes' = crashes + 1
    /\ req' = [r \in Requests |-> NoRequest]
    /\ \E n \in 0 .. Len(line) :
          /\ order' = Executed(n)
          /\ quote' = [o \in Orders |->
                IF \E i \in 1 .. n : line[i].order = o /\ OfQuote(line[i]) THEN "accepted" ELSE quote[o]]
    /\ line' = <<>>
    /\ job' = [o \in Orders |-> IF job[o].at = "none" THEN job[o] ELSE Job("waiting", {})]
    /\ claimed' = {order'[o].dep : o \in Orders} \ unclaimed
    /\ sweep' = Sweep("resting", {}, 0)
    /\ sweptTo' = IF savedTo = 0 THEN head - 1 ELSE savedTo
    /\ MinedUnheard
    /\ UNCHANGED <<chain, told, strays, savedTo, faults>>

\* A slip: restore() claims the deposit of an order that has none.
CrashClaimsNothing == Restart({})

Crash == Restart({NoTransfer})

-----------------------------------------------------------------------------
(* The chain, its users and the clock.                                     *)

Block ==
    /\ head < MaxHead /\ head' = head + 1
    /\ Prompt => \A r \in Requests :
          req[r].at \in {"block", "accepted", "wanted", "awaiting"} => head' < req[r].from + DEPOSIT_FINALITY
    /\ \/ UNCHANGED paid
       \/ \E t \in Transfers, a \in Amounts :
             ~Sent(t) /\ paid' = [paid EXCEPT ![t] = [block |-> head', amount |-> a]]
    /\ UNCHANGED <<overdue, book, accepts, jobs, sweeper, crashes, faults>>

DeadlinePasses(o) ==
    /\ order[o].want # 0 /\ overdue[o] = MaxHead
    /\ overdue' = [overdue EXCEPT ![o] = head]
    /\ UNCHANGED <<head, paid, book, accepts, jobs, sweeper, crashes, faults>>

QuoteExpires(o) ==
    /\ quote[o] = "open"
    /\ quote' = [quote EXCEPT ![o] = "expired"]
    /\ UNCHANGED <<chain, order, line, accepts, jobs, sweeper, crashes, faults>>

-----------------------------------------------------------------------------
Answers(r) ==
    \/ ExpiredLands(r) \/ QuoteLands(r) \/ BlockRead(r) \/ AcceptedLands(r)
    \/ WantedLands(r) \/ AwaitingLands(r) \/ Enqueue(r)

Watches(o) ==
    Search(o) \/ Claim(o) \/ NotFound(o) \/ ClaimLands(o) \/ Decide(o) \/ DecisionLands(o) \/ Ignored(o)

Sweeps ==
    SweepStarts \/ Judge \/ Weigh \/ Swept \/ Refunded \/ RefundFails

Next ==
    \/ \E r \in Requests : Answers(r) \/ \E o \in Orders : Accept(r, o) \/ AcceptExpired(r, o)
    \/ \E o \in Orders : Watches(o) \/ DeadlinePasses(o) \/ QuoteExpires(o)
    \/ Sweeps \/ RefundUnheard \/ SaveFails \/ SweepFails \/ Crash \/ Block

Spec == Init /\ [][Next]_vars

\* Blocks come, the pollers sweep, and what has begun goes on.
FairSpec ==
    /\ Spec /\ WF_vars(Block) /\ WF_vars(Sweeps)
    /\ \A r \in Requests : WF_vars(Answers(r))
    /\ \A o \in Orders : WF_vars(Watches(o))

-----------------------------------------------------------------------------
(* Properties.                                                             *)

TypeOK ==
    /\ head \in Nat
    /\ paid \in [Transfers -> [block : Nat, amount : Nat]]
    /\ overdue \in [Orders -> Nat]
    /\ order \in [Orders -> Records]
    /\ quote \in [Orders -> {"open", "accepted", "expired"}]
    /\ req \in [Requests -> [at : Accepting, order : Orders \cup {NoOrder}, from : Nat, want : Nat]]
    /\ job \in [Orders -> [at : Working, seen : SUBSET Transfers]]
    /\ line \in Seq([by : Orders \cup Requests, order : Orders, rec : Records])
    /\ claimed \subseteq Transfers
    /\ told \in [Orders -> SUBSET Nat]
    /\ strays \in [Transfers -> [status : Statuses, attempts : Nat]]
    /\ sweep \in [at : Sweeping, todo : SUBSET Transfers, till : Int]
    /\ {sweptTo, savedTo} \subseteq Int /\ {crashes, faults} \subseteq Nat
    /\ returned \in [Transfers -> Nat]
    /\ unheard \in [Transfers -> Nat]

\* A transfer pays for one order ("not already claimed by another order").
ClaimedOnce ==
    \A o, p \in Orders : o # p /\ order[o].dep # NoTransfer => order[o].dep # order[p].dep

\* A transfer is an order's deposit or a stray, never both: it is not traded
\* for one user and sent back to another.
NeverBoth == \A o \in Orders, t \in Transfers : order[o].dep = t => strays[t].status = "none"

\* A stray goes back once, but for refunds of which no answer came.
ReturnedOnce == \A t \in Transfers : returned[t] <= 1 + unheard[t]

\* What a user was told to send is what the order waits for.
ToldIsWanted == \A o \in Orders : told[o] \subseteq {order[o].want}

\* A transfer of an amount nobody was told to send goes back, or is kept with
\* the reason: one the cursor has yet to pass, provided the cursor is saved by
\* the time of a crash.
StrayConcluded ==
    \A t \in Transfers :
        /\ Sent(t) /\ sweptTo < paid[t].block /\ paid[t].block + DEPOSIT_FINALITY <= MaxHead
        /\ savedTo # 0 \/ crashes = MaxCrashes
        /\ \A o \in Orders : paid[t].amount < Asked[o]
        ~> strays[t].status \in {"returned", "abandoned", "held"}

=============================================================================
