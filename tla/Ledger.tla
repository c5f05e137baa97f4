------------------------------- MODULE Ledger -------------------------------
(***************************************************************************)
(* orders/inventory.ts: what the solver believes it holds and what of it   *)
(* is promised, as the handlers of execution/executor.ts and the block     *)
(* poller's sync in solver.ts call it, against the balances of the account *)
(* on chain and the rows in Redis.                                         *)
(*                                                                         *)
(* Every change is made in memory, then saved, and the save is awaited: a  *)
(* step is the code up to that await.  What is not here: prices (a fill is *)
(* refused by choice), the order states between those the ledger sees, the *)
(* rebalance, transactions mined while the process is down, and a payout   *)
(* that was mined and reported as failed (FillEngine, DeliveredThrows).    *)
(***************************************************************************)
EXTENDS Integers, Sequences, FiniteSetsExt, Functions

CONSTANTS
    Orders,
    Tokens,      \* balance keys: a chain and a token on it
    Abroad,      \* orders whose deposit is on a chain Tokens leaves out
    Deposited,   \* the token each order's user sends
    Spent,       \* the token its fill spends: another one when it swaps first
    Bought,      \* the token its user is paid in
    Amount,      \* what is deposited, spent and bought
    Quoted,      \* what its user is paid
    Opening,     \* the account's balances to begin with
    Asked,       \* the tokens whose balances are read at boot (holdings)
    Syncs,       \* runs of sync() that may overlap: the poller does not wait for the last
    None,        \* no row, no reservation, nothing read
    MaxEvents    \* bound on users' payments, crashes and saves that throw

ASSUME LedgerAssumption ==
    /\ Abroad \subseteq Orders
    /\ {Deposited, Spent, Bought} \subseteq [Orders -> Tokens]
    /\ Amount \in [Orders -> Nat \ {0}]
    /\ Quoted \in [Orders -> Nat \ {0}]
    /\ \A o \in Orders : Quoted[o] <= Amount[o]
    /\ Opening \in [Tokens -> Nat]
    /\ Asked \subseteq Tokens
    /\ IsFiniteSet(Orders) /\ Syncs \cap Orders = {}
    /\ None \notin [available : Int, reserved : Int]
    /\ None \notin [token : Tokens, amount : Nat, state : {"held", "committed", "released"}]
    /\ None \notin [token : Tokens, value : Int]
    /\ MaxEvents \in Nat

VARIABLES
    live,          \* the chains are real: balanceOf answers, the ledger is restored
    chain,         \* the account's balances
    done,          \* what the chain did for an order: none, swapped, paid or refunded
    balances,      \* the map in memory; None where it has no entry
    reservations,
    rows,          \* both as Redis has them
    promises,
    line,          \* saves sent and not yet executed
    st,            \* the state of the order record, as far as the ledger cares
    todo,          \* the ledger calls its handler has yet to return from
    next,          \* the state the handler saves after them
    saving,        \* callers whose call has a save in `line`
    read,          \* what balanceOf told a caller, until it reconciles
    left,          \* tokens each running sync() has yet to compare
    stuck,         \* orders whose handler threw in a state no stage acts on
    torn,          \* history: orders a call of which threw half way in this process
    recovering,    \* orders restore() has yet to recover
    up,
    events

chainVars == <<live, chain, done>>
memoryVars == <<balances, reservations>>
storeVars == <<rows, promises, line>>
handlerVars == <<todo, next, saving, read, stuck, torn>>
processVars == <<left, recovering, up>>
vars == <<chainVars, memoryVars, storeVars, st, handlerVars, processVars, events>>

Callers == Orders \cup Syncs
OrderStates == {"unpaid", "awaiting", "confirmed", "expired", "filling", "payout_failed",
                "refunding", "review", "ended"}
Balance == [available : Int, reserved : Int]
Reservation == [token : Tokens, amount : Nat, state : {"held", "committed", "released"}]
Empty == [available |-> 0, reserved |-> 0]

Event == events < MaxEvents /\ events' = events + 1

\* balanceOf(chainId, token)
BalanceOf(t) == IF balances[t] = None THEN Empty ELSE balances[t]
TokensOn == {t \in Tokens : balances[t] # None}

Holds(kept, o) == kept[o] # None /\ kept[o].state = "held"
Share(kept, o, t) == IF Holds(kept, o) /\ kept[o].token = t THEN kept[o].amount ELSE 0
HeldOf(kept, t) == SumFunction([o \in Orders |-> Share(kept, o, t)])

Init ==
    /\ live \in BOOLEAN
    /\ chain = Opening
    /\ done = [o \in Orders |-> "none"]
    /\ balances = [t \in Tokens |-> IF t \in Asked
                                    THEN [available |-> Opening[t], reserved |-> 0] ELSE None]
    /\ reservations = [o \in Orders |-> None]
    /\ rows = [t \in Tokens |-> None]
    /\ promises = [o \in Orders |-> None]
    /\ line = <<>>
    /\ st = [o \in Orders |-> "unpaid"]
    /\ todo = [o \in Orders |-> <<>>]
    /\ next = [o \in Orders |-> "none"]
    /\ saving = {}
    /\ read = [c \in Callers |-> None]
    /\ left = [s \in Syncs |-> {}]
    /\ stuck = {}
    /\ torn = {}
    /\ recovering = {}
    /\ up = TRUE
    /\ events = 0

-----------------------------------------------------------------------------
(* The calls.                                                              *)

Call(op, t, n) == [op |-> op, token |-> t, amount |-> n]
Calls == [op : {"credit", "debit", "reserve", "commit", "release", "reconcile"},
          token : Tokens, amount : Nat]

\* setBalance: memory now, the save on its way, its caller waiting for it.
SetBalance(c, t, available, reserved) ==
    LET balance == [available |-> available, reserved |-> reserved]
    IN  /\ balances' = [balances EXCEPT ![t] = balance]
        /\ line' = Append(line, [by |-> c, token |-> t, value |-> balance])
        /\ saving' = saving \cup {c}

Returns(o) == todo' = [todo EXCEPT ![o] = Tail(@)]

Calling(o, op) ==
    /\ up /\ todo[o] # <<>> /\ o \notin saving
    /\ Head(todo[o]).op = op

CreditOrDebit(o) ==
    /\ Calling(o, "credit") \/ Calling(o, "debit")
    /\ LET c == Head(todo[o])
           b == BalanceOf(c.token)
       IN  SetBalance(o, c.token,
                      IF c.op = "credit" THEN b.available + c.amount ELSE b.available - c.amount,
                      b.reserved)
    /\ UNCHANGED <<chainVars, reservations, rows, promises, st, todo, next, read, stuck, torn,
                   processVars, events>>

\* reserve(): the check and the mutation have no await between them.
Reserve(o) ==
    /\ Calling(o, "reserve") /\ ~Holds(reservations, o)
    /\ LET c == Head(todo[o])
           b == BalanceOf(c.token)
       IN  /\ b.available >= c.amount
           /\ SetBalance(o, c.token, b.available - c.amount, b.reserved + c.amount)
    /\ UNCHANGED <<chainVars, reservations, rows, promises, st, todo, next, read, stuck, torn,
                   processVars, events>>

\* The order holds it already: an earlier attempt got as far.
ReserveAgain(o) ==
    /\ Calling(o, "reserve") /\ Holds(reservations, o)
    /\ Returns(o)
    /\ UNCHANGED <<chainVars, memoryVars, storeVars, st, next, saving, read, stuck, torn,
                   processVars, events>>

\* Not enough: execute() gives the order up as INSUFFICIENT_INVENTORY, which a
\* payout retry may not become: its advance throws, and its stage starts over.
ReserveRefused(o) ==
    /\ Calling(o, "reserve") /\ ~Holds(reservations, o)
    /\ BalanceOf(Head(todo[o]).token).available < Head(todo[o]).amount
    /\ Returns(o)
    /\ next' = [next EXCEPT ![o] = IF st[o] = "confirmed" THEN "ended" ELSE "none"]
    /\ UNCHANGED <<chainVars, memoryVars, storeVars, st, saving, read, stuck, torn,
                   processVars, events>>

\* settle(): what the order holds leaves `reserved`, to be available or spent.
Settle(o) ==
    /\ Calling(o, "commit") \/ Calling(o, "release")
    /\ Holds(reservations, o)
    /\ LET r == reservations[o]
           b == BalanceOf(r.token)
       IN  SetBalance(o, r.token,
                      IF Head(todo[o]).op = "release" THEN b.available + r.amount ELSE b.available,
                      b.reserved - r.amount)
    /\ UNCHANGED <<chainVars, reservations, rows, promises, st, todo, next, read, stuck, torn,
                   processVars, events>>

Reads(c, t) == read' = [read EXCEPT ![c] = [token |-> t, value |-> chain[t]]]

\* A slip of ReadBalance, below: the null of a fork is taken for a balance.
ReadBalanceNullTaken(o) ==
    /\ Calling(o, "reconcile") /\ read[o] = None
    /\ read' = [read EXCEPT ![o] = [token |-> Head(todo[o]).token,
                                    value |-> IF live THEN chain[Head(todo[o]).token] ELSE None]]
    /\ UNCHANGED <<chainVars, memoryVars, storeVars, st, todo, next, saving, stuck, torn,
                   processVars, events>>

\* fillEngine.balanceOf: what the chain says now, or null on a fork.
ReadBalance(o) ==
    /\ Calling(o, "reconcile") /\ read[o] = None
    /\ IF live THEN Reads(o, Head(todo[o]).token) /\ UNCHANGED todo
               ELSE Returns(o) /\ UNCHANGED read
    /\ UNCHANGED <<chainVars, memoryVars, storeVars, st, next, saving, stuck, torn,
                   processVars, events>>

\* A slip of Reconcile: what the chain says is taken to be available.
ReconcileWhole(c) ==
    /\ up /\ read[c] # None
    /\ SetBalance(c, read[c].token, read[c].value, BalanceOf(read[c].token).reserved)
    /\ read' = [read EXCEPT ![c] = None]
    /\ UNCHANGED <<chainVars, reservations, rows, promises, st, todo, next, stuck, torn,
                   processVars, events>>

\* reconcile(): what was read, less what is reserved by now; equal, nothing to save.
Reconcile(c) ==
    /\ up /\ read[c] # None
    /\ LET b == BalanceOf(read[c].token)
           available == read[c].value - b.reserved
       IN  IF available = b.available
           THEN UNCHANGED <<balances, line, saving>>
           ELSE SetBalance(c, read[c].token, available, b.reserved)
    /\ IF c \in Orders /\ c \notin saving' THEN Returns(c) ELSE UNCHANGED todo
    /\ read' = [read EXCEPT ![c] = None]
    /\ UNCHANGED <<chainVars, reservations, rows, promises, st, next, stuck, torn,
                   processVars, events>>

\* What setReservation puts in the map once reserve's or settle's balance is saved.
Reserved(o) ==
    LET c == Head(todo[o])
    IN  CASE c.op = "reserve" -> [token |-> c.token, amount |-> c.amount, state |-> "held"]
          [] c.op = "commit"  -> [reservations[o] EXCEPT !.state = "committed"]
          [] c.op = "release" -> [reservations[o] EXCEPT !.state = "released"]

TwoSaves(o) == Head(todo[o]).op \in {"reserve", "commit", "release"}

\* A slip of BalanceSaved: the call returns before its reservation is saved.
BalanceSavedUnawaited ==
    /\ line # <<>> /\ up /\ "token" \in DOMAIN Head(line)
    /\ LET w == Head(line)
           o == w.by
           two == o \in Orders /\ TwoSaves(o)
       IN  /\ rows' = [rows EXCEPT ![w.token] = w.value]
           /\ reservations' = IF two THEN [reservations EXCEPT ![o] = Reserved(o)] ELSE reservations
           /\ saving' = saving \ {o}
           /\ IF o \in Syncs THEN UNCHANGED todo ELSE Returns(o)
    /\ line' = Tail(line)
    /\ UNCHANGED <<chainVars, balances, promises, st, next, read, stuck, torn,
                   processVars, events>>

\* Redis executes the oldest save.  A balance's is followed by the
\* reservation's where the call has one; otherwise the call returns.
BalanceSaved ==
    /\ line # <<>> /\ up
    /\ LET w == Head(line)
           o == w.by
       IN  /\ "token" \in DOMAIN w
           /\ rows' = [rows EXCEPT ![w.token] = w.value]
           /\ IF o \in Orders /\ TwoSaves(o)
              THEN /\ reservations' = [reservations EXCEPT ![o] = Reserved(o)]
                   /\ line' = Append(Tail(line), [by |-> o, value |-> Reserved(o)])
                   /\ UNCHANGED <<saving, todo>>
              ELSE /\ line' = Tail(line)
                   /\ saving' = saving \ {o}
                   /\ IF o \in Syncs THEN UNCHANGED todo ELSE Returns(o)
                   /\ UNCHANGED reservations
    /\ UNCHANGED <<chainVars, balances, promises, st, next, read, stuck, torn,
                   processVars, events>>

ReservationSaved ==
    /\ line # <<>> /\ up
    /\ LET w == Head(line)
       IN  /\ "token" \notin DOMAIN w
           /\ promises' = [promises EXCEPT ![w.by] = w.value]
           /\ saving' = saving \ {w.by}
           /\ Returns(w.by)
    /\ line' = Tail(line)
    /\ UNCHANGED <<chainVars, memoryVars, rows, st, next, read, stuck, torn,
                   processVars, events>>

\* A handler threw: its stage starts over from the order's state, unless no
\* stage acts on it.
Throws(o) ==
    /\ todo' = [todo EXCEPT ![o] = <<>>]
    /\ next' = [next EXCEPT ![o] = "none"]
    /\ stuck' = IF st[o] \in {"filling", "refunding"} THEN stuck \cup {o} ELSE stuck

\* Redis refuses a save: memory stays as it is, and the call throws.
SaveFails ==
    /\ line # <<>> /\ up /\ recovering = {}
    /\ Event
    /\ LET c == Head(line).by
       IN  /\ saving' = saving \ {c}
           /\ IF c \in Syncs
              THEN UNCHANGED <<todo, next, stuck, torn>> /\ left' = [left EXCEPT ![c] = {}]
              ELSE Throws(c) /\ torn' = torn \cup {c} /\ UNCHANGED left
    /\ line' = Tail(line)
    /\ UNCHANGED <<chainVars, memoryVars, rows, promises, st, read, recovering, up>>

-----------------------------------------------------------------------------
(* The handlers that make them.                                            *)

Idle(o) == up /\ recovering = {} /\ todo[o] = <<>> /\ next[o] = "none" /\ o \notin stuck

Handle(o, calls, state) ==
    /\ todo' = [todo EXCEPT ![o] = calls]
    /\ next' = [next EXCEPT ![o] = state]
    /\ UNCHANGED <<memoryVars, storeVars, saving, read, stuck, torn>>

\* awaitDeposit(): credited on time or late, then the state is saved.
TakeDeposit(o) ==
    /\ Idle(o) /\ st[o] = "awaiting"
    /\ \E state \in {"confirmed", "expired"} :
           Handle(o, <<Call("credit", Deposited[o], Amount[o])>>, state)
    /\ UNCHANGED <<chainVars, st, processVars, events>>

\* execute() from DEPOSIT_CONFIRMED reserves the input; from PAYOUT_FAILED,
\* what the swap left.
StartFill(o) ==
    /\ Idle(o)
    /\ \/ /\ st[o] = "confirmed"
          /\ Handle(o, <<Call("reserve", Spent[o], Amount[o])>>, "filling")
       \/ /\ st[o] = "payout_failed"
          /\ Handle(o, <<Call("reserve", Bought[o], Quoted[o])>>, "filling")
    /\ UNCHANGED <<chainVars, st, processVars, events>>

\* The price moved, the dry run failed, or the first transaction did.
RefuseFill(o) ==
    /\ Idle(o) /\ st[o] = "filling"
    /\ done[o] # "paid" /\ (done[o] = "swapped" => reservations[o].token = Bought[o])
    /\ Handle(o, <<Call("release", Spent[o], Amount[o])>>, "ended")
    /\ UNCHANGED <<chainVars, st, processVars, events>>

Swap(o) ==
    /\ Idle(o) /\ st[o] = "filling" /\ done[o] = "none" /\ Spent[o] # Bought[o]
    /\ chain[Spent[o]] >= Amount[o]
    /\ chain' = [chain EXCEPT ![Spent[o]] = @ - Amount[o], ![Bought[o]] = @ + Amount[o]]
    /\ done' = [done EXCEPT ![o] = "swapped"]
    /\ UNCHANGED <<live, memoryVars, storeVars, st, handlerVars, processVars, events>>

\* The payout is mined, and execute() writes the fill down.  A first attempt
\* has the swap's output to credit, or the input when there was none to swap;
\* a retry the amount it is called with.
Pay(o) ==
    /\ Idle(o) /\ st[o] = "filling"
    /\ done[o] = IF Spent[o] = Bought[o] THEN "none" ELSE "swapped"
    /\ chain[Bought[o]] >= Quoted[o]
    /\ chain' = [chain EXCEPT ![Bought[o]] = @ - Quoted[o]]
    /\ done' = [done EXCEPT ![o] = "paid"]
    /\ LET retried == reservations[o].token = Bought[o] /\ Spent[o] # Bought[o]
       IN  Handle(o, <<Call("commit", Spent[o], Amount[o]),
                       Call("credit", Bought[o], IF retried THEN Quoted[o] ELSE Amount[o]),
                       Call("debit", Bought[o], Quoted[o]),
                       Call("reconcile", Bought[o], 0)>>, "ended")
    /\ UNCHANGED <<live, st, processVars, events>>

\* A slip of PayoutFails: the spent input goes back to the ledger.
PayoutFailsReleasing(o) ==
    /\ Idle(o) /\ st[o] = "filling" /\ done[o] = "swapped" /\ reservations[o].token = Spent[o]
    /\ Handle(o, <<Call("release", Spent[o], Amount[o]),
                   Call("credit", Bought[o], Amount[o])>>, "payout_failed")
    /\ UNCHANGED <<chainVars, st, processVars, events>>

\* The swap went through and the payout did not, or its output was too little
\* to try.
PayoutFails(o) ==
    /\ Idle(o) /\ st[o] = "filling" /\ done[o] = "swapped" /\ reservations[o].token = Spent[o]
    /\ \E state \in {"payout_failed", "ended"} :
           Handle(o, <<Call("commit", Spent[o], Amount[o]),
                       Call("credit", Bought[o], Amount[o])>>, state)
    /\ UNCHANGED <<chainVars, st, processVars, events>>

StartRefund(o) ==
    /\ Idle(o) /\ st[o] = "expired"
    /\ Handle(o, <<>>, "refunding")
    /\ UNCHANGED <<chainVars, st, processVars, events>>

\* refund() sends what no reservation is asked for.
Refund(o) ==
    /\ Idle(o) /\ st[o] = "refunding" /\ chain[Deposited[o]] >= Amount[o]
    /\ chain' = [chain EXCEPT ![Deposited[o]] = @ - Amount[o]]
    /\ done' = [done EXCEPT ![o] = "refunded"]
    /\ Handle(o, <<Call("debit", Deposited[o], Amount[o])>>, "ended")
    /\ UNCHANGED <<live, st, processVars, events>>

RefundGivenUp(o) ==
    /\ Idle(o) /\ st[o] = "refunding" /\ chain[Deposited[o]] < Amount[o]
    /\ Handle(o, <<>>, "ended")
    /\ UNCHANGED <<chainVars, st, processVars, events>>

\* The handler's calls returned: the new state is saved.
Advance(o) ==
    /\ up /\ todo[o] = <<>> /\ next[o] # "none"
    /\ st' = [st EXCEPT ![o] = next[o]]
    /\ next' = [next EXCEPT ![o] = "none"]
    /\ recovering' = recovering \ {o}
    /\ UNCHANGED <<chainVars, memoryVars, storeVars, todo, saving, read, stuck, torn,
                   left, up, events>>

\* ... or that save throws, with the ledger already changed.
AdvanceFails(o) ==
    /\ up /\ recovering = {} /\ todo[o] = <<>> /\ next[o] # "none"
    /\ Event
    /\ Throws(o)
    /\ torn' = torn \cup {o}
    /\ UNCHANGED <<chainVars, memoryVars, storeVars, st, saving, read, processVars>>

\* A deposit on a chain that is left out is credited there.
UserPays(o) ==
    /\ st[o] = "unpaid" /\ Event
    /\ IF o \in Abroad
       THEN st' = [st EXCEPT ![o] = "confirmed"] /\ UNCHANGED chain
       ELSE /\ st' = [st EXCEPT ![o] = "awaiting"]
            /\ chain' = [chain EXCEPT ![Deposited[o]] = @ + Amount[o]]
    /\ UNCHANGED <<live, done, memoryVars, storeVars, handlerVars, processVars>>

-----------------------------------------------------------------------------
(* The block poller's sync(), token after token, and the next process.     *)

SyncBegins(s) ==
    /\ up /\ live /\ recovering = {}
    /\ left[s] = {} /\ read[s] = None /\ s \notin saving
    /\ left' = [left EXCEPT ![s] = TokensOn]
    /\ UNCHANGED <<chainVars, memoryVars, storeVars, st, handlerVars, recovering, up, events>>

SyncReads(s) ==
    /\ up /\ read[s] = None /\ s \notin saving
    /\ left[s] # {}
    /\ LET t == CHOOSE t \in left[s] : TRUE
       IN  /\ Reads(s, t)
           /\ left' = [left EXCEPT ![s] = @ \ {t}]
    /\ UNCHANGED <<chainVars, memoryVars, storeVars, st, todo, next, saving, stuck, torn,
                   recovering, up, events>>

\* A fork dies with its process; a real chain and Redis do not.
Crash ==
    /\ up /\ live /\ Event
    /\ up' = FALSE
    /\ line' = <<>>
    /\ todo' = [o \in Orders |-> <<>>]
    /\ next' = [o \in Orders |-> "none"]
    /\ saving' = {}
    /\ read' = [c \in Callers |-> None]
    /\ left' = [s \in Syncs |-> {}]
    /\ stuck' = {}
    /\ torn' = {}
    /\ recovering' = {}
    /\ UNCHANGED <<chainVars, memoryVars, rows, promises, st>>

\* A slip of TakeOver: the stored balances are believed.
TakeOverAsStored ==
    /\ ~up
    /\ up' = TRUE
    /\ reservations' = promises
    /\ balances' = rows
    /\ recovering' = {o \in Orders : st[o] \in {"filling", "refunding"}}
    /\ UNCHANGED <<chainVars, storeVars, st, handlerVars, left, events>>

\* restore(): the stored reservations, and each stored token re-based on what
\* the chain held when the new leader's process started, which it may have
\* done with the first leader's or only now.
TakeOver ==
    /\ ~up
    /\ up' = TRUE
    /\ reservations' = promises
    /\ \E holdings \in {Opening, chain} :
           balances' = [t \in Tokens |->
               IF rows[t] = None
               THEN IF t \in Asked THEN [available |-> holdings[t], reserved |-> 0] ELSE None
               ELSE [available |-> IF t \in Asked THEN holdings[t] - HeldOf(promises, t)
                                                  ELSE rows[t].available,
                     reserved |-> HeldOf(promises, t)]]
    /\ recovering' = {o \in Orders : st[o] \in {"filling", "refunding"}}
    /\ UNCHANGED <<chainVars, storeVars, st, handlerVars, left, events>>

\* recover(): found on chain, the ledger is told of it; not found, a person looks.
Recover(o) ==
    /\ up /\ o \in recovering /\ todo[o] = <<>> /\ next[o] = "none"
    /\ IF done[o] = (IF st[o] = "filling" THEN "paid" ELSE "refunded")
       THEN Handle(o, IF st[o] = "refunding"
                      THEN <<Call("debit", Deposited[o], Amount[o])>>
                      ELSE IF Holds(reservations, o)
                           THEN <<Call("commit", Spent[o], Amount[o])>> ELSE <<>>, "ended")
       ELSE Handle(o, <<>>, "review")
    /\ UNCHANGED <<chainVars, st, processVars, events>>

\* Nothing is left to do but compare, or to wait for a user.
Quiescent ==
    /\ up /\ saving = {} /\ recovering = {}
    /\ \A o \in Orders : st[o] \in {"unpaid", "review", "ended"} \/ o \in stuck
    /\ UNCHANGED vars

-----------------------------------------------------------------------------
(* The whole.                                                              *)

LedgerCall(o) ==
    \/ CreditOrDebit(o) \/ Reserve(o) \/ ReserveAgain(o) \/ ReserveRefused(o)
    \/ Settle(o) \/ ReadBalance(o) \/ Reconcile(o)

Handler(o) ==
    \/ TakeDeposit(o) \/ StartFill(o) \/ RefuseFill(o) \/ Swap(o) \/ Pay(o)
    \/ PayoutFails(o) \/ StartRefund(o) \/ Refund(o) \/ RefundGivenUp(o)
    \/ Advance(o) \/ Recover(o)

Saved == BalanceSaved \/ ReservationSaved

SyncStep(s) == SyncBegins(s) \/ SyncReads(s) \/ Reconcile(s)

Next ==
    \/ \E o \in Orders : LedgerCall(o) \/ Handler(o) \/ AdvanceFails(o) \/ UserPays(o)
    \/ \E s \in Syncs : SyncStep(s)
    \/ Saved \/ SaveFails
    \/ Crash \/ TakeOver
    \/ Quiescent

Spec == Init /\ [][Next]_vars

\* Handlers and Redis go on, blocks keep coming, and another leader follows.
FairSpec ==
    /\ Spec
    /\ \A o \in Orders : WF_vars(LedgerCall(o) \/ Handler(o))
    /\ \A s \in Syncs : WF_vars(SyncStep(s))
    /\ WF_vars(Saved) /\ WF_vars(TakeOver)

-----------------------------------------------------------------------------
(* Properties.                                                             *)

TypeOK ==
    /\ live \in BOOLEAN
    /\ chain \in [Tokens -> Nat]
    /\ done \in [Orders -> {"none", "swapped", "paid", "refunded"}]
    /\ balances \in [Tokens -> Balance \cup {None}]
    /\ rows \in [Tokens -> Balance \cup {None}]
    /\ reservations \in [Orders -> Reservation \cup {None}]
    /\ promises \in [Orders -> Reservation \cup {None}]
    /\ line \in Seq([by : Callers, token : Tokens, value : Balance]
                    \cup [by : Orders, value : Reservation])
    /\ st \in [Orders -> OrderStates]
    /\ todo \in [Orders -> Seq(Calls)]
    /\ next \in [Orders -> OrderStates \cup {"none"}]
    /\ saving \subseteq Callers
    /\ read \in [Callers -> [token : Tokens, value : Int] \cup {None}]
    /\ left \in [Syncs -> SUBSET Tokens]
    /\ stuck \subseteq Orders /\ torn \subseteq Orders /\ recovering \subseteq Orders
    /\ up \in BOOLEAN /\ events \in Nat

\* Between its two saves a call's effect is in `balances` and not yet in
\* `reservations`.
Between(o, ops) == o \in saving /\ todo[o] # <<>> /\ Head(todo[o]).op \in ops

Promised(o, t) ==
    IF Holds(reservations, o)
    THEN IF reservations[o].token = t /\ ~Between(o, {"commit", "release"})
         THEN reservations[o].amount ELSE 0
    ELSE IF Between(o, {"reserve"}) /\ Head(todo[o]).token = t
         THEN Head(todo[o]).amount ELSE 0

\* What the ledger says is reserved of a token is what its orders hold, through
\* overlapping calls, comparisons with the chain and restarts: nothing is
\* reserved twice or given back twice.  (A save that throws leaves its call half
\* done, and the tokens of that order are left out.)
ReservedIsHeld ==
    up => \A t \in Tokens :
        (\A o \in torn : t \notin {Deposited[o], Spent[o], Bought[o]})
            => BalanceOf(t).reserved = SumFunction([o \in Orders |-> Promised(o, t)])

\* Once a call has returned, the store knows of the reservation what memory
\* does, and a balance row is stored before any reservation of its token:
\* restore() re-bases the tokens that have a row, and no other.
StoreKnowsPromises ==
    /\ up => \A o \in Orders \ (saving \cup torn) : promises[o] = reservations[o]
    /\ \A o \in Orders : promises[o] # None => rows[promises[o].token] # None

\* On a fork nobody reads balances, and the ledger's arithmetic alone must say
\* what the account holds, whenever no deposit or fill is being written down.
\* (executor.ts:317 "on a fork the ledger and the chain cannot disagree".)
WrittenDown(o) ==
    /\ todo[o] = <<>> /\ next[o] = "none"
    /\ st[o] # "awaiting"
    /\ st[o] = "filling" /\ done[o] = "swapped" => reservations[o].token = Bought[o]
Unseen(t) == IF t \in Asked THEN 0 ELSE Opening[t]
ForkAgrees ==
    ~live /\ torn = {} /\ (\A o \in Orders : WrittenDown(o))
        => \A t \in Tokens : BalanceOf(t).available + BalanceOf(t).reserved = chain[t] - Unseen(t)

\* Live, once no order moves any more the ledger comes to say what the account
\* holds, whatever crashes, failed saves and readings that were old when they
\* were compared left behind.
LedgerFollowsChain ==
    live => <>[](\A t \in TokensOn : balances[t].available + balances[t].reserved = chain[t])

=============================================================================
