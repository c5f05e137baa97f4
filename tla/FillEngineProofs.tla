--------------------------- MODULE FillEngineProofs ---------------------------
(***************************************************************************)
(* What execution/fill-engine.ts promises, for any orders, quotes, routes  *)
(* and any number of calls that throw.                                     *)
(*                                                                         *)
(* The argument.  The line holds at most one task of an order, which waits *)
(* for it (TasksOK); a snapshot is open exactly from its making to its     *)
(* unwinding, and never in the turn of a fill (StepOK).  So the chain      *)
(* without what an open measurement has yet to undo, Real, moves only when *)
(* a fill moves it: nothing of a measurement is in it (Clean), and orders  *)
(* that are not in their turn are in the snapshot as they are on the chain *)
(* (SnapOK).  Then, at each step of its turn, what a fill has done is      *)
(* known, and with it whether its report is true (Known, FillsOK), and of  *)
(* its swap what it made and what was measured of it (MadeOK); and         *)
(* what the account holds is what it held before, a swap that is not paid  *)
(* out yet for every order owed one (Owed), and in the turn of a fill what *)
(* it acquired (FundsOK).                                                  *)
(***************************************************************************)
EXTENDS FillEngine, FiniteSetTheorems, TLAPS

-----------------------------------------------------------------------------
(* The invariant.                                                          *)

\* The steps of a turn: before the snapshot, inside it, and with the result known.
Waiting == {"start", "approved"}
Inside == {"run", "swapped", "acquired", "paid"}
Over == {"unwind", "done"}

\* A task is a measurement, of a promise, or an order's dry run or fill.
Kinds == {"route", "deposit", "payout"}
Tasks == [by : Nat, kind : Kinds, route : Routes \cup {Pure}]
             \cup [by : Orders, kind : {"dry", "fill"}, route : Routes \cup {Pure}]
Ats == [step : Waiting \cup Inside \cup Over, before : Int, acquired : Int,
        swapped : Int \cup {None}, result : Results \cup {None}, shape : Nat]
Stages == {"idle", "dry run", "fill", "retry"}

\* The state is well formed.
TypeOK ==
    /\ fork \in BOOLEAN
    /\ chain \in Account
    /\ saved \in Account \cup {None}
    /\ approved \subseteq Routers
    /\ turn \in Seq(Tasks)
    /\ at \in Ats
    /\ promises \in Seq([gas : {"pending", "measured", "null", "thrown"}, shape : Nat])
    /\ gasByRoute \in [Keys -> Nat \cup {None}]
    /\ fills \in [Orders -> [at : Stages, result : Results \cup {None}]]
    /\ shape \in Nat /\ told \in Nat
    /\ lost \in SUBSET Orders /\ landed \in BOOLEAN /\ stained \in BOOLEAN
    /\ faults \in Nat /\ events \in Nat

\* The order whose dry run or fill a task is.
IsOrders(t) == t.kind \in {"dry", "fill"}
\* An order's task is what the order waits for, and the only one of its.
TasksOK ==
    /\ \A i \in 1 .. Len(turn) :
          LET t == turn[i]
          IN  IF IsOrders(t)
              THEN /\ fills[t.by].result = None
                   /\ t.kind = "dry" => fills[t.by].at = "dry run"
                   /\ t.kind = "fill" =>
                        \/ fills[t.by].at = "fill" /\ t.route = RouteOf[t.by]
                        \/ fills[t.by].at = "retry" /\ t.route = Pure
              ELSE t.by \in 1 .. Len(promises)
    /\ \A i, j \in 1 .. Len(turn) :
          IsOrders(turn[i]) /\ IsOrders(turn[j]) /\ turn[i].by = turn[j].by => i = j

\* A snapshot is open from its making to its end, and a fill has none.
StepOK ==
    /\ turn = <<>> => at = Idle
    /\ at.step \in Waiting \cup {"done"} => saved = None
    /\ at.step \in Inside => (saved = None <=> task.kind = "fill")
    /\ at.step = "unwind" => saved # None /\ task.kind # "fill"
    /\ saved # None => fork
    /\ at.step \in {"swapped", "acquired"} => HasLegs
    /\ at.step \in Waiting \cup {"run", "swapped"} => at.swapped = None
    /\ at.step = "acquired" => at.swapped = at.acquired /\ at.swapped # None
    /\ at.step = "paid" => (IF HasLegs THEN at.swapped = at.acquired /\ at.acquired >= Quoted
                           ELSE at.swapped = None)
    /\ at.step \in Over => at.result # None

\* No approval is made inside a snapshot, which a revert would take back.
Allowed ==
    faults = 0 => /\ approved \subseteq chain.allowed
                  /\ saved # None => approved \subseteq saved.allowed

\* The chain without what a measurement has yet to undo.
Real == IF saved = None THEN chain ELSE saved
Untouched == [swaps |-> 0, pays |-> 0]

\* Nothing a measurement or a dry run did is left.
Clean ==
    ~stained =>
    /\ Real.probes = 0
    /\ \A o \in Orders : fills[o].at \in {"idle", "dry run"} =>
           Real.did[o] = Untouched /\ Real.made[o] = 0

\* A measurement that names a pool is forgotten, under way or not, or was made since.
ShapesOK ==
    /\ told <= shape
    /\ \A k \in Keys : Names(k) # {} /\ gasByRoute[k] # None =>
          LET n == gasByRoute[k]
          IN  /\ n \in 1 .. Len(promises)
              /\ promises[n].gas # "pending" => promises[n].shape >= told
              /\ at.step \in Over /\ Measuring /\ task.by = n => at.shape >= told

\* What is known of a fill at each step of its turn, and after.
One(o) == IF RouteOf[o] = Pure THEN 0 ELSE 1
DidIs(o, s, p) == chain.did[o] = [swaps |-> s, pays |-> p]

\* What a result tells of an order's fill is what the chain has.
Truth(o, r) ==
    /\ r.reason = "PAYOUT_FAILED" => ~r.ok
    /\ r.swapped # None => RouteOf[o] # Pure
    /\ IF r.ok THEN DidIs(o, One(o), 1)
       ELSE IF r.swapped # None \/ fills[o].at = "retry" THEN DidIs(o, 1, 0)
       ELSE DidIs(o, 0, 0)

InTurn(o) == turn # <<>> /\ IsOrders(task) /\ task.by = o

Known(o) ==
    /\ fills[o].at = "retry" => RouteOf[o] # Pure
    /\ fills[o].result # None => Truth(o, fills[o].result)
    /\ fills[o].result = None =>
        /\ ~InTurn(o) \/ at.step \in Waiting \cup {"run"} =>
             IF fills[o].at = "retry" THEN DidIs(o, 1, 0) ELSE DidIs(o, 0, 0)
        /\ InTurn(o) /\ at.step \in {"swapped", "acquired"} => DidIs(o, 1, 0)
        /\ InTurn(o) /\ at.step = "paid" => DidIs(o, One(o), 1)
        /\ InTurn(o) /\ at.step = "done" => Truth(o, at.result)

FillsOK ==
    ~stained => \A o \in Orders \ lost : fills[o].at \in {"fill", "retry"} => Known(o)

\* What a result tells of a swap's output is what the chain has, and a payout
\* follows only from a swap that made the quote.
MadeTruth(o, r) ==
    /\ r.swapped # None => r.swapped = chain.made[o]
    /\ RouteOf[o] # Pure /\ (r.ok \/ (r.reason = "PAYOUT_FAILED" /\ r.swapped # None)) =>
           chain.made[o] >= Quoted

\* What is known of a fill's swap at each step of its turn, and after.
MadeKnown(o) ==
    /\ fills[o].result # None => MadeTruth(o, fills[o].result)
    /\ fills[o].result = None =>
        /\ fills[o].at = "retry" => chain.made[o] >= Quoted
        /\ fills[o].at = "fill" /\ (~InTurn(o) \/ at.step \in Waiting \cup {"run"}) =>
               chain.made[o] = 0
        /\ InTurn(o) =>
            /\ at.step = "swapped" => chain.balance - at.before = chain.made[o]
            /\ at.step = "acquired" => at.swapped = chain.made[o]
            /\ at.step = "paid" =>
                /\ at.swapped # None => at.swapped = chain.made[o]
                /\ RouteOf[o] # Pure => chain.made[o] >= Quoted
            /\ at.step = "done" => MadeTruth(o, at.result)

MadeOK ==
    ~stained /\ ~landed => \A o \in Orders \ lost :
        fills[o].at \in {"fill", "retry"} => MadeKnown(o)

\* In a snapshot only the order whose dry run it is moves.
SnapOK ==
    saved # None => \A o \in Orders : ~InTurn(o) =>
        saved.did[o] = chain.did[o] /\ saved.made[o] = chain.made[o]

\* The orders whose swap is made and whose user is yet to be paid by a payout alone.
Owed == {o \in Orders :
           \/ fills[o].at = "retry" /\ Real.did[o].pays = 0
           \/ /\ fills[o].at = "fill" /\ fills[o].result # None
              /\ fills[o].result.reason = "PAYOUT_FAILED" /\ fills[o].result.swapped # None}
Floor == Quoted + Quoted * Cardinality(Owed)
Begun == {o \in Orders : fills[o].at # "idle"}

\* A first fill has its turn.
Filling == turn # <<>> /\ task.kind = "fill" /\ fills[task.by].at = "fill"
FundsOK ==
    (\A o \in Orders : RouteOf[o] # Pure) /\ ~landed /\ ~stained /\ lost = {} =>
    /\ Real.balance >= Floor
    /\ Filling /\ at.step = "swapped" => at.before >= Floor /\ chain.balance >= at.before
    /\ Filling /\ at.step = "acquired" => chain.balance >= Floor + at.acquired
    /\ Filling /\ at.step = "done" /\ at.result.reason = "PAYOUT_FAILED"
          /\ at.result.swapped # None => chain.balance >= Floor + Quoted

\* Only finitely many orders have begun, so there is a number of those owed.
Finite == IsFiniteSet(Begun)

-----------------------------------------------------------------------------
(* The task whose turn it is.                                              *)

\* The task whose turn it is, and the line behind it.
LEMMA TaskType ==
    ASSUME TypeOK, turn # <<>>
    PROVE  /\ task \in Tasks
           /\ task.kind \in Kinds => task.by \in Nat
           /\ task.kind \notin Kinds => task.kind \in {"dry", "fill"} /\ task.by \in Orders
           /\ task.route \in Routes \cup {Pure}
           /\ Tail(turn) \in Seq(Tasks)
           /\ Len(turn) \in Nat \ {0} /\ task = turn[1]
  <1>1. turn \in Seq(Tasks) /\ turn # <<>>
    BY DEF TypeOK
  <1>2. task \in Tasks /\ Tail(turn) \in Seq(Tasks) /\ Len(turn) \in Nat \ {0} /\ task = turn[1]
    BY <1>1 DEF task
  <1> QED
    BY <1>2 DEF Tasks, Kinds

\* What a transaction of an order makes of the account.
LEMMA AccountAfter ==
    ASSUME NEW ch \in Account, NEW b \in Orders, NEW m \in Int
    PROVE  /\ [ch EXCEPT !.did[b].swaps = @ + 1, !.made[b] = @ + m, !.balance = @ + m]
                 = [ch EXCEPT !.did = [ch.did EXCEPT ![b].swaps = @ + 1],
                              !.made = [ch.made EXCEPT ![b] = @ + m],
                              !.balance = ch.balance + m]
           /\ [ch EXCEPT !.did[b].pays = @ + 1, !.balance = @ + m]
                 = [ch EXCEPT !.did = [ch.did EXCEPT ![b].pays = @ + 1], !.made = ch.made,
                              !.balance = ch.balance + m]
           /\ {[ch.did EXCEPT ![b].swaps = @ + 1], [ch.did EXCEPT ![b].pays = @ + 1]}
                 \subseteq [Orders -> [swaps : Nat, pays : Nat]]
           /\ {ch.made, [ch.made EXCEPT ![b] = @ + m]} \subseteq [Orders -> Int]
  <1>1. /\ ch.did \in [Orders -> [swaps : Nat, pays : Nat]]
        /\ ch.made \in [Orders -> Int] /\ ch.made[b] + m \in Int
    BY DEF Account
  <1>2. [ch EXCEPT !.did[b].swaps = @ + 1, !.made[b] = @ + m, !.balance = @ + m]
           = [ch EXCEPT !.did = [ch.did EXCEPT ![b].swaps = @ + 1],
                        !.made = [ch.made EXCEPT ![b] = @ + m],
                        !.balance = ch.balance + m]
    BY Zenon DEF Account
  <1>3. [ch EXCEPT !.did[b].pays = @ + 1, !.balance = @ + m]
           = [ch EXCEPT !.did = [ch.did EXCEPT ![b].pays = @ + 1], !.made = ch.made,
                        !.balance = ch.balance + m]
    BY DEF Account
  <1>4. /\ {[ch.did EXCEPT ![b].swaps = @ + 1], [ch.did EXCEPT ![b].pays = @ + 1]}
              \subseteq [Orders -> [swaps : Nat, pays : Nat]]
        /\ {ch.made, [ch.made EXCEPT ![b] = @ + m]} \subseteq [Orders -> Int]
    BY <1>1
  <1> QED
    BY <1>2, <1>3, <1>4

\* A transaction moves the balance and what it is counted as, and nothing else.
LEMMA DidIt ==
    ASSUME TypeOK, turn # <<>>, NEW what \in {"swap", "pay"}, NEW amount \in Int,
           NEW c, c = Did(what, amount)
    PROVE  /\ c \in Account
           /\ c.allowed = chain.allowed /\ c.balance = chain.balance + amount
           /\ Measuring => c.did = chain.did /\ c.made = chain.made
           /\ ~Measuring =>
                /\ c.probes = chain.probes
                /\ \A o \in Orders : o # task.by =>
                        c.did[o] = chain.did[o] /\ c.made[o] = chain.made[o]
                /\ what = "swap" => /\ c.did[task.by].swaps = chain.did[task.by].swaps + 1
                                    /\ c.did[task.by].pays = chain.did[task.by].pays
                                    /\ c.made[task.by] = chain.made[task.by] + amount
                /\ what = "pay" => /\ c.did[task.by].pays = chain.did[task.by].pays + 1
                                   /\ c.did[task.by].swaps = chain.did[task.by].swaps
                                   /\ c.made = chain.made
  <1>1. chain \in Account
    BY DEF TypeOK
  <1>2. chain.balance + amount \in Int /\ chain.did \in [Orders -> [swaps : Nat, pays : Nat]]
        /\ chain.probes + 1 \in Nat /\ chain.made \in [Orders -> Int]
    BY <1>1 DEF Account
  <1>3. CASE Measuring
    <2> DEFINE n == chain.balance + amount
               p == chain.probes + 1
    <2>1. n \in Int /\ p \in Nat /\ c = [chain EXCEPT !.probes = p, !.balance = n]
      BY <1>1, <1>2, <1>3 DEF Did, Account
    <2>2. n = chain.balance + amount
      OBVIOUS
    <2> HIDE DEF n, p
    <2>3. c \in Account
      BY <1>1, <2>1 DEF Account
    <2>4. c.allowed = chain.allowed /\ c.balance = n /\ c.did = chain.did /\ c.made = chain.made
      BY <1>1, <2>1 DEF Account
    <2> QED
      BY <1>3, <2>2, <2>3, <2>4
  <1>4. CASE ~Measuring
    <2>1. task.by \in Orders
      BY <1>4, TaskType DEF Measuring, Kinds
    <2>2. ASSUME NEW d \in [Orders -> [swaps : Nat, pays : Nat]], NEW e \in [Orders -> Int],
                 c = [chain EXCEPT !.did = d, !.made = e, !.balance = chain.balance + amount]
          PROVE  /\ c \in Account /\ c.allowed = chain.allowed
                 /\ c.balance = chain.balance + amount /\ c.did = d /\ c.made = e
                 /\ c.probes = chain.probes
      <3>1. c \in Account
        <4> DEFINE n == chain.balance + amount
        <4>1. n \in Int /\ c = [chain EXCEPT !.did = d, !.made = e, !.balance = n]
          BY <1>2, <2>2
        <4> HIDE DEF n
        <4> QED
          BY <1>1, <2>2, <4>1 DEF Account
      <3> QED
        BY <1>1, <2>2, <3>1 DEF Account
    <2>3. CASE what = "swap"
      <3> DEFINE d == [chain.did EXCEPT ![task.by].swaps = @ + 1]
                 e == [chain.made EXCEPT ![task.by] = @ + amount]
      <3>1. c = [chain EXCEPT !.did = d, !.made = e, !.balance = chain.balance + amount]
            /\ d \in [Orders -> [swaps : Nat, pays : Nat]] /\ e \in [Orders -> Int]
        <4>1. c = [chain EXCEPT !.did[task.by].swaps = @ + 1, !.made[task.by] = @ + amount,
                                !.balance = @ + amount]
          BY <1>4, <2>3 DEF Did
        <4>2. [chain EXCEPT !.did[task.by].swaps = @ + 1, !.made[task.by] = @ + amount,
                            !.balance = @ + amount]
                 = [chain EXCEPT !.did = d, !.made = e, !.balance = chain.balance + amount]
          BY <1>1, <2>1, Zenon DEF Account
        <4>3. d \in [Orders -> [swaps : Nat, pays : Nat]] /\ e \in [Orders -> Int]
          BY <1>1, <2>1, AccountAfter
        <4> QED
          BY <4>1, <4>2, <4>3
      <3>2. /\ \A o \in Orders : o # task.by => d[o] = chain.did[o] /\ e[o] = chain.made[o]
            /\ d[task.by].swaps = chain.did[task.by].swaps + 1
            /\ d[task.by].pays = chain.did[task.by].pays
            /\ e[task.by] = chain.made[task.by] + amount
        BY <1>2, <2>1
      <3> HIDE DEF d, e
      <3>3. c \in Account /\ c.allowed = chain.allowed /\ c.balance = chain.balance + amount
            /\ c.did = d /\ c.made = e /\ c.probes = chain.probes
        BY <2>2, <3>1
      <3> QED
        BY <1>4, <2>3, <3>2, <3>3
    <2>4. CASE what = "pay"
      <3> DEFINE d == [chain.did EXCEPT ![task.by].pays = @ + 1]
      <3>1. c = [chain EXCEPT !.did = d, !.made = chain.made, !.balance = chain.balance + amount]
            /\ d \in [Orders -> [swaps : Nat, pays : Nat]]
        <4>1. c = [chain EXCEPT !.did[task.by].pays = @ + 1, !.balance = @ + amount]
          BY <1>4, <2>4 DEF Did
        <4>2. /\ [chain EXCEPT !.did[task.by].pays = @ + 1, !.balance = @ + amount]
                   = [chain EXCEPT !.did = d, !.made = chain.made,
                                   !.balance = chain.balance + amount]
              /\ d \in [Orders -> [swaps : Nat, pays : Nat]]
          BY <1>1, <2>1, AccountAfter
        <4> QED
          BY <4>1, <4>2
      <3>2. /\ \A o \in Orders : o # task.by => d[o] = chain.did[o]
            /\ d[task.by].pays = chain.did[task.by].pays + 1
            /\ d[task.by].swaps = chain.did[task.by].swaps
        BY <1>2, <2>1
      <3> HIDE DEF d
      <3>3. c \in Account /\ c.allowed = chain.allowed /\ c.balance = chain.balance + amount
            /\ c.did = d /\ c.made = chain.made /\ c.probes = chain.probes
        BY <1>2, <2>2, <3>1
      <3> QED
        BY <1>4, <2>4, <3>2, <3>3
    <2> QED
      BY <2>3, <2>4
  <1> QED
    BY <1>3, <1>4

\* The task has its result.
LEMMA FinishIs ==
    ASSUME TypeOK, NEW ok \in BOOLEAN, NEW reason \in Reasons, Finish(ok, reason)
    PROVE  /\ at' \in Ats
           /\ at'.step = IF saved # None THEN "unwind" ELSE "done"
           /\ at'.shape = shape
           /\ at'.swapped = at.swapped /\ at'.acquired = at.acquired /\ at'.before = at.before
           /\ at'.result \in Results
           /\ at'.result.ok = ok /\ at'.result.reason = reason /\ at'.result.swapped = at.swapped
  <1>1. at \in Ats /\ shape \in Nat
    BY DEF TypeOK
  <1>2. Result(ok, reason) \in Results
    BY <1>1 DEF Results, Result, Ats
  <1> QED
    BY <1>1, <1>2 DEF Finish, Ats, Over, Result

\* The task is a step further.
LEMMA GotoIs ==
    ASSUME TypeOK, NEW step \in Waiting \cup Inside \cup Over, Goto(step)
    PROVE  /\ at' \in Ats
           /\ at'.step = step
           /\ at'.shape = at.shape /\ at'.result = at.result
           /\ at'.swapped = at.swapped /\ at'.acquired = at.acquired /\ at'.before = at.before
  BY DEF TypeOK, Goto, Ats

\* The router of a route is one of the routers.
LEMMA RouterIs ==
    ASSUME NEW r \in Routes
    PROVE  RouterFor(r) \in Routers
  BY DEF Routers

-----------------------------------------------------------------------------
(* Types: the turn.                                                        *)

\* The reasons, listed.
LEMMA ReasonsAre ==
    {"ok", "unknown router", "thrown", "not funded", "no recipient", "NO_ROUTES",
     "reverted", "thrown in run", "SLIPPAGE", "PAYOUT_FAILED"} = Reasons
  BY DEF Reasons

\* A sequence with one element replaced.
LEMMA SeqExcept ==
    ASSUME NEW S, NEW s \in Seq(S), NEW i, NEW e \in S
    PROVE  [s EXCEPT ![i] = e] \in Seq(S)
  <1>1. PICK n \in Nat : s \in [1 .. n -> S]
    <2>1. Len(s) \in Nat /\ s \in [1 .. Len(s) -> S]
      OBVIOUS
    <2> QED
      BY <2>1
  <1>2. [s EXCEPT ![i] = e] \in [1 .. n -> S]
    BY <1>1
  <1>3. [1 .. n -> S] \subseteq Seq(S)
    BY <1>1
  <1> QED
    BY <1>2, <1>3

\* What the balance gained is a number.
LEMMA GainIs ==
    ASSUME TypeOK
    PROVE  /\ chain.balance \in Int /\ at.before \in Int /\ at.acquired \in Int
           /\ chain.balance - at.before \in Int
  <1>1. chain.balance \in Int
    BY DEF TypeOK, Account
  <1>2. at.before \in Int /\ at.acquired \in Int
    BY DEF TypeOK, Ats
  <1> QED
    BY <1>1, <1>2

\* What a swap makes, and what is paid, are numbers.
LEMMA MadeIs == Quoted \in Nat \ {0} /\ - Quoted \in Int /\ Made \subseteq Nat /\ Made \subseteq Int
  BY FillEngineAssumption DEF Made

\* A transaction makes an account of an account.
LEMMA DidTypes ==
    ASSUME TypeOK, turn # <<>>
    PROVE  \A amount \in Int : Did("swap", amount) \in Account /\ Did("pay", amount) \in Account
  <1> TAKE amount \in Int
  <1>1. PICK c : c = Did("swap", amount)
    OBVIOUS
  <1>2. PICK d : d = Did("pay", amount)
    OBVIOUS
  <1>3. c \in Account
    BY <1>1, DidIt
  <1>4. d \in Account
    BY <1>2, DidIt
  <1> QED
    BY <1>1, <1>2, <1>3, <1>4

\* What a step of a turn leaves well typed when it only finishes the task.
LEMMA FinishTypes ==
    ASSUME TypeOK, turn # <<>>, NEW ok \in BOOLEAN, NEW reason \in Reasons, Finish(ok, reason),
           chain' \in Account, lost' = lost \/ Lose, faults' = faults \/ Fault,
           UNCHANGED <<fork, saved, approved, turn, promises, gasByRoute, callerVars,
                       worldVars, landed, stained>>
    PROVE  TypeOK'
  <1>1. at' \in Ats
    BY FinishIs
  <1>2. lost' \in SUBSET Orders
    BY TaskType DEF TypeOK, Lose, Measuring, Kinds
  <1>3. faults' \in Nat
    BY DEF TypeOK, Fault
  <1> QED
    BY <1>1, <1>2, <1>3 DEF TypeOK, callerVars, worldVars

\* A step that is not the last of its turn keeps the types.
LEMMA GotoTypes ==
    ASSUME TypeOK, at' \in Ats, chain' \in Account, saved' \in Account \cup {None},
           approved' \subseteq Routers, stained' \in BOOLEAN, faults' = faults \/ Fault,
           UNCHANGED <<fork, turn, promises, gasByRoute, callerVars, worldVars, lost, landed>>
    PROVE  TypeOK'
  BY DEF TypeOK, Fault, callerVars, worldVars

\* Nor does a step of run() break them.
LEMMA RunTypes == ASSUME TypeOK, RunStep PROVE TypeOK'
  <1> USE ReasonsAre DEF historyVars
  <1>0. turn # <<>> /\ chain \in Account /\ at \in Ats
    BY DEF TypeOK, RunStep, Running, NotEncodable, Swap, SwapReverts, SwapThrows, Acquired,
       AcquiredThrows, Measured, TooLittle, Pay, PayReverts, PayThrows, Delivered,
       DeliveredThrows, ToPay, Paying
  <1> DEFINE Same == UNCHANGED <<fork, saved, approved, turn, promises, gasByRoute, callerVars,
                                 worldVars, landed, stained>>
  <1>1. CASE NotEncodable
    BY <1>0, <1>1, FinishTypes DEF NotEncodable
  <1>2. CASE Swap
    <2>1. PICK made \in Made : chain' = Did("swap", made)
      BY <1>2 DEF Swap
    <2>2. chain' \in Account
      BY <1>0, <2>1, MadeIs, DidTypes
    <2>3. at' \in Ats
      BY <1>0, <1>2 DEF Swap, Ats, Account, Inside
    <2> QED
      BY <1>2, <2>2, <2>3, GotoTypes DEF Swap, TypeOK
  <1>3. CASE SwapReverts
    BY <1>0, <1>3, FinishTypes DEF SwapReverts
  <1>4. CASE SwapThrows
    <2>1. chain' \in Account
      BY <1>0, <1>4, MadeIs, DidTypes DEF SwapThrows
    <2> QED
      BY <1>0, <1>4, <2>1, FinishTypes DEF SwapThrows
  <1>5. CASE Acquired
    <2>1. at' \in Ats
      <3> DEFINE n == chain.balance - at.before
      <3>1. n \in Int
        BY GainIs
      <3>2. at' = [at EXCEPT !.step = "acquired", !.acquired = n, !.swapped = n]
        BY <1>5 DEF Acquired
      <3> HIDE DEF n
      <3> QED
        BY <1>0, <3>1, <3>2 DEF Ats, Inside
    <2> QED
      BY <1>0, <1>5, <2>1, GotoTypes DEF Acquired, TypeOK
  <1>6. CASE AcquiredThrows
    BY <1>0, <1>6, FinishTypes DEF AcquiredThrows
  <1>7. CASE Measured
    BY <1>0, <1>7, FinishTypes DEF Measured
  <1>8. CASE TooLittle
    BY <1>0, <1>8, FinishTypes DEF TooLittle
  <1>9. CASE Pay
    <2>1. chain' \in Account
      BY <1>0, <1>9, MadeIs, DidTypes DEF Pay
    <2>2. at' \in Ats
      BY <1>9, GotoIs DEF Pay, Inside
    <2> QED
      BY <1>0, <1>9, <2>1, <2>2, GotoTypes DEF Pay, TypeOK
  <1>10. CASE PayReverts
    BY <1>0, <1>10, FinishTypes DEF PayReverts
  <1>11. CASE PayThrows
    <2>1. chain' \in Account
      BY <1>0, <1>11, MadeIs, DidTypes DEF PayThrows
    <2>2. Caught \in Reasons
      BY DEF Caught
    <2> QED
      BY <1>0, <1>11, <2>1, <2>2, FinishTypes DEF PayThrows
  <1>12. CASE Delivered
    BY <1>0, <1>12, FinishTypes DEF Delivered
  <1>13. CASE DeliveredThrows
    <2>2. Caught \in Reasons
      BY DEF Caught
    <2> QED
      BY <1>0, <1>13, <2>2, FinishTypes DEF DeliveredThrows
  <1> QED
    BY <1>1, <1>2, <1>3, <1>4, <1>5, <1>6, <1>7, <1>8, <1>9, <1>10, <1>11, <1>12, <1>13
       DEF RunStep

\* Where an engine without a task is.
LEMMA IdleIs == Idle \in Ats /\ Idle.step = "start" /\ Idle.swapped = None
  BY DEF Idle, Ats, Waiting

\* Nor does any step of a turn.
LEMMA TurnTypes == ASSUME TypeOK, StepOK, TurnStep PROVE TypeOK'
  <1> USE ReasonsAre DEF historyVars
  <1>0. turn # <<>> /\ chain \in Account /\ at \in Ats
    <2>1. RunStep => turn # <<>>
      BY DEF RunStep, Running, NotEncodable, Swap, SwapReverts, SwapThrows, Acquired,
         AcquiredThrows, Measured, TooLittle, Pay, PayReverts, PayThrows, Delivered,
         DeliveredThrows, ToPay, Paying
    <2> QED
      BY <2>1 DEF TypeOK, TurnStep, Running, Unroutable, Approve, ApproveThrows, Snapshot,
         SnapshotFails, Estimate, FillStarts, Unwind, EndTurn
  <1>1. CASE Unroutable
    BY <1>0, <1>1, FinishTypes DEF Unroutable
  <1>2. CASE Approve
    <2>1. at' \in Ats
      BY <1>2, GotoIs DEF Approve, Waiting
    <2>2. approved' \subseteq Routers /\ chain' \in Account
      <3>1. CASE UNCHANGED <<approved, chain>>
        BY <1>0, <3>1 DEF TypeOK
      <3>2. CASE Needs /\ Allow(RouterFor(task.route))
        <4>1. RouterFor(task.route) \in Routers
          BY <1>0, <3>2, TaskType, RouterIs DEF Needs, HasLegs
        <4> QED
          BY <1>0, <3>2, <4>1, ZenonT(30) DEF TypeOK, Allow, Account
      <3> QED
        BY <1>2, <3>1, <3>2 DEF Approve
    <2>3. faults' = faults \/ Fault
      BY <1>2 DEF Approve, Allow
    <2> QED
      BY <1>2, <2>1, <2>2, <2>3, GotoTypes DEF Approve, TypeOK
  <1>3. CASE ApproveThrows
    BY <1>0, <1>3, FinishTypes DEF ApproveThrows
  <1>4. CASE Snapshot
    <2>1. at' \in Ats
      <3>1. CASE Goto("run")
        BY <3>1, GotoIs DEF Inside
      <3>2. CASE at' = [at EXCEPT !.result = Result(FALSE, "not funded"), !.step = "unwind",
                                  !.shape = shape]
        <4>1. Result(FALSE, "not funded") \in Results
          BY <1>0 DEF Result, Results, Ats
        <4> QED
          BY <1>0, <3>2, <4>1 DEF Ats, Over, TypeOK
      <3> QED
        BY <1>4, <3>1, <3>2 DEF Snapshot
    <2> QED
      BY <1>0, <1>4, <2>1, GotoTypes DEF Snapshot, TypeOK
  <1>5. CASE SnapshotFails
    BY <1>0, <1>5, FinishTypes DEF SnapshotFails
  <1>6. CASE Estimate
    BY <1>0, <1>6, FinishTypes DEF Estimate
  <1>7. CASE FillStarts
    <2>1. at' \in Ats
      BY <1>7, GotoIs DEF FillStarts, Inside
    <2> QED
      BY <1>0, <1>7, <2>1, GotoTypes DEF FillStarts, TypeOK
  <1>8. CASE RunStep
    BY <1>8, RunTypes
  <1>9. CASE Unwind
    <2>1. at' \in Ats
      <3>1. CASE Goto("done")
        BY <3>1, GotoIs DEF Over
      <3>2. CASE at' = [at EXCEPT !.step = "done", !.result = Result(FALSE, "thrown")]
        <4>1. Result(FALSE, "thrown") \in Results
          BY <1>0 DEF Result, Results, Ats
        <4> QED
          BY <1>0, <3>2, <4>1 DEF Ats, Over, TypeOK
      <3> QED
        BY <1>9, <3>1, <3>2 DEF Unwind
    <2>2. chain' \in Account
      <3>1. saved \in Account
        BY <1>9, <1>0 DEF Unwind, TypeOK, StepOK, Running
      <3> QED
        BY <1>9, <1>0, <3>1 DEF Unwind
    <2> QED
      BY <1>0, <1>9, <2>1, <2>2, GotoTypes DEF Unwind, TypeOK
  <1>10. CASE EndTurn
    <2>1. turn' \in Seq(Tasks) /\ at' \in Ats
      BY <1>0, <1>10, TaskType, IdleIs DEF EndTurn
    <2>2. promises' \in Seq([gas : {"pending", "measured", "null", "thrown"}, shape : Nat])
      <3>1. promises \in Seq([gas : {"pending", "measured", "null", "thrown"}, shape : Nat])
        BY DEF TypeOK
      <3>2. at.shape \in Nat
        BY <1>0 DEF Ats
      <3> DEFINE gas == IF at.result.reason = "thrown" THEN "thrown"
                        ELSE IF at.result.ok THEN "measured" ELSE "null"
                 e == [gas |-> gas, shape |-> at.shape]
      <3>3. e \in [gas : {"pending", "measured", "null", "thrown"}, shape : Nat]
        BY <3>2
      <3>4. promises' = [promises EXCEPT ![task.by] = e] \/ promises' = promises
        BY <1>10 DEF EndTurn
      <3> HIDE DEF e
      <3>5. [promises EXCEPT ![task.by] = e]
              \in Seq([gas : {"pending", "measured", "null", "thrown"}, shape : Nat])
        BY <3>1, <3>3, SeqExcept
      <3> QED
        BY <3>1, <3>4, <3>5
    <2>3. fills' \in [Orders -> [at : Stages, result : Results \cup {None}]]
      <3>1. at.result \in Results \cup {None}
        BY <1>0 DEF Ats
      <3>2. fills \in [Orders -> [at : Stages, result : Results \cup {None}]]
        BY DEF TypeOK
      <3>3. fills' = fills \/ fills' = [fills EXCEPT ![task.by].result = at.result]
        BY <1>10 DEF EndTurn
      <3> QED
        BY <3>1, <3>2, <3>3
    <2> QED
      BY <1>10, <2>1, <2>2, <2>3 DEF EndTurn, TypeOK, callerVars, worldVars
  <1> QED
    BY <1>1, <1>2, <1>3, <1>4, <1>5, <1>6, <1>7, <1>8, <1>9, <1>10 DEF TurnStep

-----------------------------------------------------------------------------
(* Types: the callers and the world.                                       *)

Promises == [gas : {"pending", "measured", "null", "thrown"}, shape : Nat]

\* What `remembered` changes: nothing but the quote, or a promise and a task more.
LEMMA RememberedIs ==
    ASSUME TypeOK, NEW q, NEW ask, NEW kind \in Kinds, NEW where, Remembered(q, ask, kind, where),
           kind # "payout" => ask[2] \in Routes
    PROVE  /\ UNCHANGED <<fork, chain, saved, approved, at, fills, worldVars, historyVars, faults>>
           /\ \/ UNCHANGED <<promises, turn, gasByRoute>>
              \/ \E t \in Tasks :
                   /\ t.kind = kind /\ t.by = Len(promises) + 1
                   /\ turn' = Append(turn, t)
                   /\ promises' = Append(promises, Pending)
                   /\ gasByRoute' = [gasByRoute EXCEPT ![Key(kind, ask[2])] = Len(promises) + 1]
  <1> DEFINE k == Key(kind, ask[2])
             r == IF kind = "payout" THEN Pure ELSE ask[2]
  <1> HIDE DEF k
  <1>1. UNCHANGED <<fork, chain, saved, approved, at, fills, worldVars, historyVars, faults>>
    BY DEF Remembered
  <1>2. CASE gasByRoute[k] # None
    BY <1>1, <1>2 DEF Remembered, k
  <1>3. CASE gasByRoute[k] = None
    <2> DEFINE t == [by |-> Len(promises) + 1, kind |-> kind, route |-> r]
    <2>1. Len(promises) \in Nat
      BY DEF TypeOK
    <2>2. r \in Routes \cup {Pure}
      OBVIOUS
    <2>3. t \in Tasks
      BY <2>1, <2>2 DEF Tasks
    <2>4. /\ turn' = Append(turn, t)
          /\ promises' = Append(promises, Pending)
          /\ gasByRoute' = [gasByRoute EXCEPT ![k] = Len(promises) + 1]
      BY <1>3 DEF Remembered, k
    <2>5. t.kind = kind /\ t.by = Len(promises) + 1
      OBVIOUS
    <2> HIDE DEF t
    <2> QED
      BY <1>1, <2>3, <2>4, <2>5 DEF k
  <1> QED
    BY <1>2, <1>3

\* A quote that measures, or shares a measurement, keeps the types.
LEMMA RememberedTypes ==
    ASSUME TypeOK, NEW q, NEW ask, NEW kind \in Kinds, NEW where, Remembered(q, ask, kind, where),
           kind # "payout" => ask[2] \in Routes
    PROVE  TypeOK'
  <1>1. /\ UNCHANGED <<fork, chain, saved, approved, at, fills, worldVars, historyVars, faults>>
        /\ \/ UNCHANGED <<promises, turn, gasByRoute>>
           \/ \E t \in Tasks :
                   /\ turn' = Append(turn, t)
                   /\ promises' = Append(promises, Pending)
                   /\ gasByRoute' = [gasByRoute EXCEPT ![Key(kind, ask[2])] = Len(promises) + 1]
    BY RememberedIs, ZenonT(30)
  <1>2. turn \in Seq(Tasks) /\ promises \in Seq(Promises) /\ gasByRoute \in [Keys -> Nat \cup {None}]
    BY DEF TypeOK, Promises
  <1>3. Pending \in Promises /\ Len(promises) + 1 \in Nat
    BY <1>2 DEF Pending, Promises
  <1>4. CASE UNCHANGED <<promises, turn, gasByRoute>>
    BY <1>1, <1>4 DEF TypeOK, worldVars, historyVars
  <1>5. ASSUME NEW t \in Tasks, turn' = Append(turn, t), promises' = Append(promises, Pending),
               gasByRoute' = [gasByRoute EXCEPT ![Key(kind, ask[2])] = Len(promises) + 1]
        PROVE  TypeOK'
    <2>1. turn' \in Seq(Tasks)
      BY <1>2, <1>5
    <2>2. promises' \in Seq(Promises)
      BY <1>2, <1>3, <1>5
    <2>3. gasByRoute' \in [Keys -> Nat \cup {None}]
      BY <1>2, <1>3, <1>5
    <2> QED
      BY <1>1, <2>1, <2>2, <2>3 DEF TypeOK, worldVars, historyVars, Promises
  <1> QED
    BY <1>1, <1>4, <1>5

\* What a quote may ask for.
LEMMA AskedFor ==
    ASSUME NEW q \in Quotes, NEW ask \in Asks[q]
    PROVE  /\ ask[1] \in {"route", "deposit"} /\ ask[1] \in Kinds /\ ask[2] \in Routes
           /\ Key(ask[1], ask[2]) \in Keys
  <1>1. ask \in {"route", "deposit"} \X Routes
    BY FillEngineAssumption
  <1> QED
    BY <1>1 DEF Kinds, Keys

\* A task of an order at the end of the line.
LEMMA QueueIs ==
    ASSUME TypeOK, NEW o \in Orders, NEW kind \in {"dry", "fill"}, NEW r \in Routes \cup {Pure},
           NEW where \in Stages, Queue(o, kind, r, where)
    PROVE  /\ UNCHANGED <<fork, chain, saved, approved, at, promises, gasByRoute, quotes,
                          worldVars, historyVars, faults>>
           /\ fills' = [fills EXCEPT ![o] = [at |-> where, result |-> None]]
           /\ fills' \in [Orders -> [at : Stages, result : Results \cup {None}]]
           /\ turn' \in Seq(Tasks)
           /\ \E t \in Tasks : /\ t.by = o /\ t.kind = kind /\ t.route = r
                               /\ turn' = Append(turn, t)
  <1> DEFINE t == [by |-> o, kind |-> kind, route |-> r]
  <1>1. t \in Tasks
    BY DEF Tasks
  <1>2. fills' = [fills EXCEPT ![o] = [at |-> where, result |-> None]] /\ turn' = Append(turn, t)
    BY DEF Queue
  <1>3. fills' \in [Orders -> [at : Stages, result : Results \cup {None}]]
    BY <1>2 DEF TypeOK
  <1>4. t.by = o /\ t.kind = kind /\ t.route = r
    OBVIOUS
  <1>5. UNCHANGED <<fork, chain, saved, approved, at, promises, gasByRoute, quotes,
                          worldVars, historyVars, faults>>
    BY DEF Queue
  <1> HIDE DEF t
  <1>6. turn' \in Seq(Tasks)
    BY <1>1, <1>2 DEF TypeOK
  <1> QED
    BY <1>1, <1>2, <1>3, <1>4, <1>5, <1>6

\* An order that queues a task keeps the types.
LEMMA QueueTypes ==
    ASSUME TypeOK, NEW o \in Orders, NEW kind \in {"dry", "fill"}, NEW r \in Routes \cup {Pure},
           NEW where \in Stages, Queue(o, kind, r, where)
    PROVE  TypeOK'
  <1>1. /\ UNCHANGED <<fork, chain, saved, approved, at, promises, gasByRoute, quotes,
                          worldVars, historyVars, faults>>
        /\ fills' \in [Orders -> [at : Stages, result : Results \cup {None}]]
        /\ turn' \in Seq(Tasks)
    BY QueueIs
  <1> QED
    BY <1>1 DEF TypeOK, worldVars, historyVars

OrderAsks(o) == AskDryRun(o) \/ AskFill(o) \/ AskPayoutOnly(o)

\* An order asks for one thing at a time.
LEMMA OrderAskIs ==
    ASSUME TypeOK, NEW o \in Orders, OrderAsks(o)
    PROVE  /\ \E kind \in {"dry", "fill"}, r \in Routes \cup {Pure}, where \in Stages :
                /\ Queue(o, kind, r, where)
                /\ kind = "dry" => where = "dry run"
                /\ kind = "fill" => \/ where = "fill" /\ r = RouteOf[o]
                                    \/ where = "retry" /\ r = Pure
           /\ fills[o].at # "idle" => fills[o].result # None
  <1>1. RouteOf[o] \in Routes \cup {Pure}
    BY FillEngineAssumption
  <1>2. CASE AskDryRun(o)
    BY <1>1, <1>2 DEF AskDryRun, Stages
  <1>3. CASE AskFill(o)
    BY <1>1, <1>3 DEF AskFill, Stages
  <1>4. CASE AskPayoutOnly(o)
    BY <1>1, <1>4 DEF AskPayoutOnly, Stages
  <1> QED
    BY <1>2, <1>3, <1>4 DEF OrderAsks

QuoteSteps(q) ==
    \/ \E ask \in Asks[q] : AskGas(q, ask) \/ AskUnknown(q, ask)
    \/ AskPayout(q) \/ QuoteEnds(q)

\* A quote's step: `remembered`, or nothing but the quote.
LEMMA QuoteStepIs ==
    ASSUME NEW q \in Quotes, QuoteSteps(q)
    PROVE  \/ \E ask, where : \E kind \in Kinds :
                 Remembered(q, ask, kind, where) /\ (kind # "payout" => ask[2] \in Routes)
           \/ UNCHANGED <<fork, chain, saved, engineVars, fills, worldVars, historyVars, faults>>
  <1>1. ASSUME NEW ask \in Asks[q], AskGas(q, ask)
        PROVE  Remembered(q, ask, ask[1], "swap") /\ ask[1] \in Kinds /\ ask[2] \in Routes
    BY <1>1, AskedFor DEF AskGas
  <1>2. ASSUME AskPayout(q)
        PROVE  Remembered(q, quotes[q].ask, "payout", "payout") /\ "payout" \in Kinds
    BY <1>2 DEF AskPayout, Kinds
  <1>3. ASSUME QuoteEnds(q) \/ \E ask \in Asks[q] : AskUnknown(q, ask)
        PROVE UNCHANGED <<fork, chain, saved, engineVars, fills, worldVars, historyVars, faults>>
    BY <1>3 DEF QuoteEnds, AskUnknown
  <1>4. CASE \E ask \in Asks[q] : AskGas(q, ask)
    BY <1>1, <1>4
  <1>5. CASE AskPayout(q)
    BY <1>2, <1>5
  <1> QED
    BY <1>3, <1>4, <1>5 DEF QuoteSteps

WorldSteps == Reshape \/ Forget \/ DepositLands \/ \E k \in Keys : Expire(k)

\* The world keeps them.
LEMMA WorldTypes == ASSUME TypeOK, WorldSteps PROVE TypeOK'
  <1> USE DEF engineVars, callerVars, historyVars
  <1>1. CASE Reshape
    BY <1>1 DEF Reshape, Event, TypeOK
  <1>2. CASE Forget
    <2>1. gasByRoute' \in [Keys -> Nat \cup {None}]
      BY <1>2 DEF Forget, TypeOK
    <2> QED
      BY <1>2, <2>1 DEF Forget, TypeOK
  <1>3. CASE DepositLands
    <2> DEFINE n == chain.balance + 1
    <2>1. n \in Int /\ chain' = [chain EXCEPT !.balance = n]
      BY <1>3, GainIs DEF DepositLands
    <2> HIDE DEF n
    <2>2. chain' \in Account
      BY <2>1 DEF Account, TypeOK
    <2> QED
      BY <1>3, <2>2 DEF DepositLands, Event, TypeOK
  <1>4. ASSUME NEW k \in Keys, Expire(k) PROVE TypeOK'
    <2>1. gasByRoute' \in [Keys -> Nat \cup {None}]
      BY <1>4 DEF Expire, TypeOK
    <2> QED
      BY <1>4, <2>1 DEF Expire, Event, TypeOK
  <1> QED
    BY <1>1, <1>2, <1>3, <1>4 DEF WorldSteps

\* The steps, in the groups the proofs go by.
LEMMA NextIs ==
    Next <=> \/ TurnStep
             \/ \E q \in Quotes : QuoteSteps(q)
             \/ \E o \in Orders : OrderAsks(o)
             \/ WorldSteps \/ Ended
  BY DEF Next, QuoteSteps, OrderAsks, WorldSteps

\* Every step keeps the types.
LEMMA NextTypes == ASSUME TypeOK, StepOK, [Next]_vars PROVE TypeOK'
  <1>1. ASSUME NEW q \in Quotes, QuoteSteps(q) PROVE TypeOK'
    <2>1. CASE UNCHANGED <<fork, chain, saved, engineVars, fills, worldVars, historyVars, faults>>
      BY <2>1 DEF TypeOK, engineVars, worldVars, historyVars
    <2> QED
      BY <1>1, <2>1, QuoteStepIs, RememberedTypes
  <1>2. ASSUME NEW o \in Orders, OrderAsks(o) PROVE TypeOK'
    BY <1>2, OrderAskIs, QueueTypes
  <1>3. CASE Ended \/ UNCHANGED vars
    BY <1>3 DEF Ended, vars, TypeOK, engineVars, callerVars, worldVars, historyVars
  <1> QED
    BY <1>1, <1>2, <1>3, NextIs, TurnTypes, WorldTypes

\* They hold to begin with.
LEMMA InitTypes == Init => TypeOK
  <1> SUFFICES ASSUME Init PROVE TypeOK
    OBVIOUS
  <1> USE DEF Init
  <1>1. chain \in Account
    BY FillEngineAssumption DEF Account
  <1>2. fills \in [Orders -> [at : Stages, result : Results \cup {None}]]
    BY DEF Stages
  <1>3. turn \in Seq(Tasks) /\ promises \in Seq(Promises) /\ at \in Ats
    BY IdleIs
  <1>4. gasByRoute \in [Keys -> Nat \cup {None}]
    OBVIOUS
  <1> QED
    BY <1>1, <1>2, <1>3, <1>4 DEF TypeOK, Promises

-----------------------------------------------------------------------------
(* The line.                                                               *)

\* What the end of a turn does.
LEMMA EndTurnIs ==
    ASSUME TypeOK, EndTurn
    PROVE  /\ turn # <<>> /\ at.step = "done"
           /\ turn' = Tail(turn) /\ at' = Idle
           /\ Len(promises') = Len(promises)
           /\ \A n \in 1 .. Len(promises) : n # task.by => promises'[n] = promises[n]
           /\ Measuring => fills' = fills
           /\ Measuring /\ task.by \in 1 .. Len(promises) => promises'[task.by].shape = at.shape
           /\ ~Measuring => /\ promises' = promises
                            /\ fills' = [fills EXCEPT ![task.by].result = at.result]
                            /\ IsOrders(task) /\ task.by \in Orders
                            /\ fills'[task.by].at = fills[task.by].at
                            /\ fills'[task.by].result = at.result
                            /\ \A o \in Orders : o # task.by => fills'[o] = fills[o]
           /\ UNCHANGED <<fork, chain, saved, approved, gasByRoute, quotes, worldVars,
                          historyVars, faults>>
  <1>1. turn # <<>> /\ at.step = "done" /\ turn' = Tail(turn) /\ at' = Idle
        /\ UNCHANGED <<fork, chain, saved, approved, gasByRoute, quotes, worldVars,
                          historyVars, faults>>
    BY DEF EndTurn, Running
  <1>2. promises \in Seq(Promises) /\ at.shape \in Nat
        /\ fills \in [Orders -> [at : Stages, result : Results \cup {None}]]
    BY DEF TypeOK, Promises, Ats
  <1>3. CASE Measuring
    <2> DEFINE gas == IF at.result.reason = "thrown" THEN "thrown"
                        ELSE IF at.result.ok THEN "measured" ELSE "null"
               e == [gas |-> gas, shape |-> at.shape]
    <2>1. e \in Promises /\ e.shape = at.shape
      BY <1>2 DEF Promises
    <2>2. promises' = [promises EXCEPT ![task.by] = e] /\ fills' = fills
      BY <1>3 DEF EndTurn
    <2> HIDE DEF e
    <2>3. Len(promises') = Len(promises)
      BY <1>2, <2>2
    <2>4. \A n \in 1 .. Len(promises) : promises'[n] = IF n = task.by THEN e ELSE promises[n]
      BY <1>2, <2>2
    <2> QED
      BY <1>1, <1>3, <2>1, <2>2, <2>3, <2>4
  <1>4. CASE ~Measuring
    <2>1. promises' = promises /\ fills' = [fills EXCEPT ![task.by].result = at.result]
      BY <1>4 DEF EndTurn
    <2>2. IsOrders(task) /\ task.by \in Orders
      BY <1>1, <1>4, TaskType DEF IsOrders, Measuring, Kinds
    <2>3. /\ fills'[task.by].at = fills[task.by].at
          /\ fills'[task.by].result = at.result
          /\ \A o \in Orders : o # task.by => fills'[o] = fills[o]
      BY <1>2, <2>1, <2>2
    <2> QED
      BY <1>1, <1>4, <2>1, <2>2, <2>3
  <1> QED
    BY <1>3, <1>4

\* All steps of a turn but its end leave the line and the callers alone.
WorkSteps == \/ Unroutable \/ Approve \/ ApproveThrows \/ Snapshot \/ SnapshotFails
             \/ Estimate \/ FillStarts \/ RunStep \/ Unwind

\* Such a step belongs to a turn.
LEMMA WorkIs ==
    ASSUME WorkSteps
    PROVE  turn # <<>> /\ UNCHANGED <<fork, turn, promises, gasByRoute, callerVars, worldVars, landed>>
  <1> USE DEF historyVars
  <1>1. RunStep => turn # <<>> /\ UNCHANGED <<fork, turn, promises, gasByRoute, callerVars,
                                              worldVars, landed>>
    BY DEF RunStep, Running, NotEncodable, Swap, SwapReverts, SwapThrows, Acquired,
       AcquiredThrows, Measured, TooLittle, Pay, PayReverts, PayThrows, Delivered,
       DeliveredThrows, ToPay, Paying
  <1> QED
    BY <1>1 DEF WorkSteps, Running, Unroutable, Approve, ApproveThrows, Snapshot,
         SnapshotFails, Estimate, FillStarts, Unwind

\* The line without its first task.
LEMMA TailIs ==
    ASSUME turn \in Seq(Tasks), turn # <<>>
    PROVE  /\ Len(Tail(turn)) = Len(turn) - 1 /\ Len(turn) \in Nat \ {0}
           /\ \A i \in 1 .. Len(turn) - 1 : /\ Tail(turn)[i] = turn[i + 1]
                                            /\ i + 1 \in 1 .. Len(turn) /\ i + 1 # 1
           /\ task = turn[1]
  BY DEF task

\* The line with a task more.
LEMMA AppendIs ==
    ASSUME turn \in Seq(Tasks), NEW t \in Tasks
    PROVE  /\ Len(Append(turn, t)) = Len(turn) + 1 /\ Len(turn) \in Nat
           /\ \A i \in 1 .. Len(turn) + 1 :
                 Append(turn, t)[i] = IF i = Len(turn) + 1 THEN t ELSE turn[i]
           /\ Append(turn, t) # <<>>
           /\ turn # <<>> => Head(Append(turn, t)) = Head(turn)
           /\ turn = <<>> => Head(Append(turn, t)) = t
  <1>1. Len(turn) \in Nat /\ Append(turn, t) \in Seq(Tasks) /\ Len(Append(turn, t)) = Len(turn) + 1
    OBVIOUS
  <1>2. \A i \in 1 .. Len(turn) + 1 :
           Append(turn, t)[i] = IF i = Len(turn) + 1 THEN t ELSE turn[i]
    OBVIOUS
  <1>3. turn # <<>> => Len(turn) > 0
    OBVIOUS
  <1>4. turn = <<>> => Len(turn) = 0
    OBVIOUS
  <1> QED
    BY <1>1, <1>2, <1>3, <1>4

TaskOK(t) ==
    IF IsOrders(t)
    THEN /\ fills[t.by].result = None
         /\ t.kind = "dry" => fills[t.by].at = "dry run"
         /\ t.kind = "fill" =>
                        \/ fills[t.by].at = "fill" /\ t.route = RouteOf[t.by]
                        \/ fills[t.by].at = "retry" /\ t.route = Pure
    ELSE t.by \in 1 .. Len(promises)
Apart == \A i, j \in 1 .. Len(turn) :
            IsOrders(turn[i]) /\ IsOrders(turn[j]) /\ turn[i].by = turn[j].by => i = j

\* What is said of the line is said of every task of it, and of every two.
LEMMA TasksAre == TasksOK <=> (\A i \in 1 .. Len(turn) : TaskOK(turn[i])) /\ Apart
  BY DEF TasksOK, TaskOK, Apart

\* The first task leaves the line.
LEMMA EndTurnTasks ==
    ASSUME TypeOK, TasksOK, EndTurn
    PROVE  TasksOK'
  <1>0. turn \in Seq(Tasks) /\ turn # <<>> /\ turn' = Tail(turn)
    BY EndTurnIs DEF TypeOK
  <1>1. /\ Len(turn') = Len(turn) - 1 /\ Len(turn) \in Nat \ {0}
        /\ \A i \in 1 .. Len(turn) - 1 : /\ turn'[i] = turn[i + 1]
                                         /\ i + 1 \in 1 .. Len(turn) /\ i + 1 # 1
        /\ task = turn[1]
    BY <1>0, TailIs
  <1>2. (\A i \in 1 .. Len(turn) : TaskOK(turn[i])) /\ Apart
    BY TasksAre
  <1>3. ASSUME NEW i \in 1 .. Len(turn') PROVE TaskOK(turn[i])'
    <2>1. turn'[i] = turn[i + 1] /\ i + 1 \in 1 .. Len(turn) /\ i + 1 # 1 /\ TaskOK(turn[i + 1])
      BY <1>1, <1>2
    <2>2. turn[i + 1] \in Tasks
      BY <1>0, <2>1
    <2> DEFINE t == turn[i + 1]
    <2>3. CASE IsOrders(t)
      <3>1. t.by \in Orders
        BY <2>2, <2>3 DEF Tasks, IsOrders, Kinds
      <3>2. ~Measuring => t.by # task.by
        BY <1>1, <1>2, <2>1, <2>3, EndTurnIs DEF Apart
      <3>3. fills'[t.by] = fills[t.by]
        BY <3>1, <3>2, EndTurnIs
      <3> QED
        BY <2>1, <2>3, <3>3 DEF TaskOK, IsOrders
    <2>4. CASE ~IsOrders(t)
      <3>1. Len(promises') = Len(promises)
        BY EndTurnIs
      <3> QED
        BY <2>1, <2>4, <3>1 DEF TaskOK, IsOrders
    <2> QED
      BY <2>3, <2>4
  <1>4. Apart'
    <2>1. \A i \in 1 .. Len(turn') : turn'[i] = turn[i + 1] /\ i \in Int /\ i + 1 \in 1 .. Len(turn)
      BY <1>1
    <2> QED
      BY <1>2, <2>1 DEF Apart, IsOrders
  <1> QED
    BY <1>3, <1>4 DEF TasksOK, TaskOK, Apart, IsOrders

\* A measurement joins it.
LEMMA RememberedTasks ==
    ASSUME TypeOK, TasksOK, NEW t \in Tasks, UNCHANGED fills,
           t.kind \in Kinds, t.by = Len(promises) + 1,
           turn' = Append(turn, t), promises' = Append(promises, Pending)
    PROVE  TasksOK'
  <1>1. turn \in Seq(Tasks) /\ promises \in Seq(Promises)
    BY DEF TypeOK, Promises
  <1>2. Len(promises') = Len(promises) + 1 /\ Len(promises) \in Nat
    BY <1>1
  <1>3. /\ Len(turn') = Len(turn) + 1 /\ Len(turn) \in Nat
        /\ \A i \in 1 .. Len(turn) + 1 : turn'[i] = IF i = Len(turn) + 1 THEN t ELSE turn[i]
    BY <1>1, AppendIs
  <1>4. (\A i \in 1 .. Len(turn) : TaskOK(turn[i])) /\ Apart
    BY TasksAre
  <1>5. ~IsOrders(t)
    BY DEF IsOrders, Kinds
  <1>6. ASSUME NEW i \in 1 .. Len(turn') PROVE TaskOK(turn[i])'
    <2>1. CASE i = Len(turn) + 1
      <3>1. turn'[i] = t
        BY <1>3, <2>1
      <3>2. t.by \in 1 .. Len(promises')
        BY <1>2
      <3> QED
        BY <1>5, <3>1, <3>2 DEF TaskOK, IsOrders
    <2>2. CASE i # Len(turn) + 1
      <3>1. i \in 1 .. Len(turn) /\ turn'[i] = turn[i]
        BY <1>3, <2>2
      <3>2. TaskOK(turn[i])
        BY <1>4, <3>1
      <3>3. \A n \in 1 .. Len(promises) : n \in 1 .. Len(promises')
        BY <1>2
      <3> QED
        BY <3>1, <3>2, <3>3 DEF TaskOK, IsOrders
    <2> QED
      BY <2>1, <2>2
  <1>7. Apart'
    BY <1>3, <1>4, <1>5 DEF Apart, IsOrders
  <1> QED
    BY <1>6, <1>7 DEF TasksOK, TaskOK, Apart, IsOrders

\* The task of an order joins it.
LEMMA QueueTasks ==
    ASSUME TypeOK, TasksOK, NEW o \in Orders, OrderAsks(o)
    PROVE  TasksOK'
  <1>1. PICK kind \in {"dry", "fill"}, r \in Routes \cup {Pure}, where \in Stages :
          /\ Queue(o, kind, r, where)
          /\ kind = "dry" => where = "dry run"
          /\ kind = "fill" => \/ where = "fill" /\ r = RouteOf[o]
                              \/ where = "retry" /\ r = Pure
    BY OrderAskIs
  <1>11. Queue(o, kind, r, where)
    BY <1>1
  <1> DEFINE t == [by |-> o, kind |-> kind, route |-> r]
  <1>2. t \in Tasks /\ t.by = o /\ t.kind = kind /\ t.route = r /\ turn' = Append(turn, t)
    BY <1>11 DEF Queue, Tasks
  <1> HIDE DEF t
  <1>3. promises' = promises /\ fills' = [fills EXCEPT ![o] = [at |-> where, result |-> None]]
    BY <1>11 DEF Queue
  <1>4. turn \in Seq(Tasks) /\ fills \in [Orders -> [at : Stages, result : Results \cup {None}]]
    BY DEF TypeOK
  <1>5. fills'[o] = [at |-> where, result |-> None] /\ \A p \in Orders : p # o => fills'[p] = fills[p]
    BY <1>3, <1>4
  <1>6. /\ Len(turn') = Len(turn) + 1 /\ Len(turn) \in Nat
        /\ \A i \in 1 .. Len(turn) + 1 : turn'[i] = IF i = Len(turn) + 1 THEN t ELSE turn[i]
    BY <1>2, <1>4, AppendIs
  <1>7. (\A i \in 1 .. Len(turn) : TaskOK(turn[i])) /\ Apart
    BY TasksAre
  <1>8. \A i \in 1 .. Len(turn) : IsOrders(turn[i]) => turn[i].by # o /\ turn[i].by \in Orders
    <2> SUFFICES ASSUME NEW i \in 1 .. Len(turn), IsOrders(turn[i])
                 PROVE  turn[i].by # o /\ turn[i].by \in Orders
      OBVIOUS
    <2>1. turn[i] \in Tasks /\ TaskOK(turn[i])
      BY <1>4, <1>7
    <2>2. turn[i].by \in Orders
      BY <2>1 DEF Tasks, IsOrders, Kinds
    <2>3. fills[turn[i].by].result = None /\ fills[turn[i].by].at # "idle"
      BY <2>1 DEF TaskOK, IsOrders
    <2>4. fills[o].at # "idle" => fills[o].result # None
      BY OrderAskIs
    <2> QED
      BY <2>2, <2>3, <2>4
  <1>9. ASSUME NEW i \in 1 .. Len(turn') PROVE TaskOK(turn[i])'
    <2>1. CASE i = Len(turn) + 1
      <3>1. turn'[i] = t /\ IsOrders(t)
        BY <1>2, <1>6, <2>1 DEF IsOrders
      <3> QED
        <4>1. fills'[t.by].result = None /\ fills'[t.by].at = where
          BY <1>2, <1>5
        <4>2. t.kind = "dry" => fills'[t.by].at = "dry run"
          BY <1>1, <1>2, <4>1
        <4>3. t.kind = "fill" => \/ fills'[t.by].at = "fill" /\ t.route = RouteOf[t.by]
                                 \/ fills'[t.by].at = "retry" /\ t.route = Pure
          BY <1>1, <1>2, <4>1
        <4> QED
          BY <3>1, <4>1, <4>2, <4>3 DEF TaskOK, IsOrders
    <2>2. CASE i # Len(turn) + 1
      <3>1. turn'[i] = turn[i] /\ i \in 1 .. Len(turn)
        BY <1>6, <2>2
      <3>2. TaskOK(turn[i]) /\ (IsOrders(turn[i]) => fills'[turn[i].by] = fills[turn[i].by])
        BY <1>5, <1>7, <1>8, <3>1
      <3> QED
        BY <1>3, <3>1, <3>2 DEF TaskOK, IsOrders
    <2> QED
      BY <2>1, <2>2
  <1>10. Apart'
    <2>1. \A i \in 1 .. Len(turn') : i \in 1 .. Len(turn) \/ i = Len(turn) + 1
      BY <1>6
    <2>2. \A i \in 1 .. Len(turn) : turn'[i] = turn[i]
      BY <1>6
    <2>3. turn'[Len(turn) + 1] = t
      BY <1>6
    <2> QED
      BY <1>2, <1>7, <1>8, <2>1, <2>2, <2>3 DEF Apart, IsOrders
  <1> QED
    BY <1>9, <1>10 DEF TasksOK, TaskOK, Apart, IsOrders

\* Every step keeps the line in order.
LEMMA NextTasks ==
    ASSUME TypeOK, TasksOK, [Next]_vars
    PROVE  TasksOK'
  <1> USE DEF engineVars, callerVars, worldVars, historyVars
  <1>0. UNCHANGED <<turn, fills, promises>> => TasksOK'
    BY DEF TasksOK, IsOrders
  <1>1. CASE WorkSteps
    BY <1>0, <1>1, WorkIs
  <1>2. CASE EndTurn
    BY <1>2, EndTurnTasks
  <1>3. ASSUME NEW q \in Quotes, QuoteSteps(q) PROVE TasksOK'
    <2>1. CASE UNCHANGED <<fork, chain, saved, engineVars, fills, worldVars, historyVars, faults>>
      BY <1>0, <2>1
    <2>2. ASSUME NEW ask, NEW where, NEW kind \in Kinds, Remembered(q, ask, kind, where),
                 kind # "payout" => ask[2] \in Routes
          PROVE TasksOK'
      <3>1. /\ UNCHANGED fills
            /\ \/ UNCHANGED <<promises, turn, gasByRoute>>
               \/ \E t \in Tasks : /\ t.kind = kind /\ t.by = Len(promises) + 1
                                   /\ turn' = Append(turn, t)
                                   /\ promises' = Append(promises, Pending)
        BY <2>2, RememberedIs
      <3> QED
        BY <1>0, <3>1, RememberedTasks
    <2> QED
      BY <1>3, <2>1, <2>2, QuoteStepIs
  <1>4. ASSUME NEW o \in Orders, OrderAsks(o) PROVE TasksOK'
    BY <1>4, QueueTasks
  <1>5. CASE WorldSteps \/ Ended \/ UNCHANGED vars
    BY <1>0, <1>5 DEF WorldSteps, Reshape, Forget, DepositLands, Expire, Ended, vars
  <1> QED
    BY <1>1, <1>2, <1>3, <1>4, <1>5, NextIs DEF TurnStep, WorkSteps

-----------------------------------------------------------------------------
(* The step a turn is at.                                                  *)

\* A task with its result has its snapshot to unwind, or none.
LEMMA FinishSteps ==
    ASSUME TypeOK, StepOK, turn # <<>>, at.step \in Waiting \cup Inside,
           NEW ok \in BOOLEAN, NEW reason \in Reasons, Finish(ok, reason),
           UNCHANGED <<fork, saved, turn>>
    PROVE  StepOK'
  <1>1. /\ at'.step = IF saved # None THEN "unwind" ELSE "done"
        /\ at'.result \in Results
    BY FinishIs
  <1>2. at'.result # None
    BY <1>1, NoneAssumption
  <1>3. saved # None => task.kind # "fill"
    BY DEF StepOK, Waiting, Inside
  <1> QED
    BY <1>1, <1>2, <1>3 DEF StepOK, Waiting, Inside, Over, task, HasLegs

\* Steps of run() keep what is known of a step.
LEMMA RunSteps == ASSUME TypeOK, StepOK, RunStep PROVE StepOK'
  <1> USE ReasonsAre DEF historyVars
  <1>0. turn # <<>> /\ UNCHANGED <<fork, saved, turn>> /\ at.step \in Inside /\ at \in Ats
    BY DEF RunStep, Running, NotEncodable, Swap, SwapReverts, SwapThrows, Acquired,
       AcquiredThrows, Measured, TooLittle, Pay, PayReverts, PayThrows, Delivered,
       DeliveredThrows, ToPay, Paying, Inside, TypeOK
  <1>1. ASSUME NEW ok \in BOOLEAN, NEW reason \in Reasons, Finish(ok, reason) PROVE StepOK'
    BY <1>0, <1>1, FinishSteps
  <1>2. CASE NotEncodable \/ SwapReverts \/ SwapThrows \/ AcquiredThrows \/ Measured \/ TooLittle
             \/ PayReverts \/ Delivered
    BY <1>1, <1>2 DEF NotEncodable, SwapReverts, SwapThrows, AcquiredThrows, Measured, TooLittle,
       PayReverts, Delivered
  <1>3. CASE PayThrows \/ DeliveredThrows
    <2>1. Caught \in Reasons
      BY DEF Caught
    <2> QED
      BY <1>1, <1>3, <2>1 DEF PayThrows, DeliveredThrows
  <1>4. CASE Swap
    <2>1. at'.step = "swapped" /\ at'.swapped = at.swapped /\ HasLegs /\ at.step = "run"
      BY <1>0, <1>4 DEF Swap, Ats, Running
    <2> QED
      BY <1>0, <2>1 DEF StepOK, Waiting, Inside, Over, task, HasLegs
  <1>5. CASE Acquired
    <2>1. at'.step = "acquired" /\ at'.swapped = at'.acquired /\ at.step = "swapped"
          /\ at'.acquired = chain.balance - at.before
      BY <1>0, <1>5 DEF Acquired, Ats, Running
    <2>2. at'.swapped # None
      BY <2>1, GainIs, NoneAssumption
    <2> QED
      BY <1>0, <2>1, <2>2 DEF StepOK, Waiting, Inside, Over, task, HasLegs
  <1>6. CASE Pay
    <2>1. at'.step = "paid" /\ at'.swapped = at.swapped /\ at'.acquired = at.acquired
      BY <1>0, <1>6, GotoIs DEF Pay, Inside
    <2>2. /\ HasLegs => at.swapped = at.acquired /\ at.acquired >= Quoted
          /\ ~HasLegs => at.swapped = None
      BY <1>6 DEF Pay, Paying, ToPay, Running, StepOK
    <2> QED
      BY <1>0, <2>1, <2>2 DEF StepOK, Waiting, Inside, Over, task, HasLegs
  <1> QED
    BY <1>2, <1>3, <1>4, <1>5, <1>6 DEF RunStep

\* So do the other steps of a turn.
LEMMA WorkKeepsSteps == ASSUME TypeOK, StepOK, WorkSteps PROVE StepOK'
  <1> USE ReasonsAre DEF historyVars
  <1>0. turn # <<>> /\ UNCHANGED <<fork, turn>> /\ at \in Ats
    BY WorkIs DEF TypeOK
  <1>1. ASSUME NEW ok \in BOOLEAN, NEW reason \in Reasons, Finish(ok, reason),
               at.step \in Waiting, UNCHANGED saved
        PROVE StepOK'
    BY <1>0, <1>1, FinishSteps
  <1>2. CASE Unroutable \/ ApproveThrows \/ SnapshotFails \/ Estimate
    BY <1>1, <1>2 DEF Unroutable, ApproveThrows, SnapshotFails, Estimate, Running, Waiting
  <1>3. CASE Approve
    <2>1. at'.step = "approved" /\ at'.swapped = at.swapped /\ at.step = "start" /\ saved' = saved
      BY <1>0, <1>3, GotoIs DEF Approve, Waiting, Running
    <2> QED
      BY <1>0, <2>1 DEF StepOK, Waiting, Inside, Over, task
  <1>4. CASE Snapshot
    <2>1. saved' = chain /\ at.step = "approved" /\ fork /\ task.kind # "fill"
      BY <1>4 DEF Snapshot, Running, OnSnapshot
    <2>2. saved' # None
      BY <2>1, NoneAssumption DEF TypeOK
    <2>3. \/ at'.step = "run" /\ at'.swapped = at.swapped
          \/ at'.step = "unwind" /\ at'.result # None
      <3>1. CASE Goto("run")
        BY <3>1, GotoIs DEF Inside
      <3>2. CASE at' = [at EXCEPT !.result = Result(FALSE, "not funded"), !.step = "unwind",
                                  !.shape = shape]
        <4>1. Result(FALSE, "not funded") \in Results
          BY <1>0 DEF Result, Results, Ats
        <4> QED
          BY <1>0, <3>2, <4>1, NoneAssumption DEF Ats
      <3> QED
        BY <1>4, <3>1, <3>2 DEF Snapshot
    <2>4. at.swapped = None
      BY <2>1 DEF StepOK, Waiting
    <2> QED
      BY <1>0, <2>1, <2>2, <2>3, <2>4 DEF StepOK, Waiting, Inside, Over, task
  <1>5. CASE FillStarts
    <2>1. at'.step = "run" /\ at'.swapped = at.swapped /\ at.step = "approved" /\ saved' = saved
          /\ task.kind = "fill"
      BY <1>0, <1>5, GotoIs DEF FillStarts, Inside, Running
    <2> QED
      BY <1>0, <2>1 DEF StepOK, Waiting, Inside, Over, task
  <1>6. CASE RunStep
    BY <1>6, RunSteps
  <1>7. CASE Unwind
    <2>1. saved' = None /\ at.step = "unwind"
      BY <1>7 DEF Unwind, Running
    <2>2. at'.step = "done" /\ at'.result # None
      <3>1. CASE Goto("done")
        BY <1>0, <2>1, <3>1, GotoIs DEF Over, StepOK
      <3>2. CASE at' = [at EXCEPT !.step = "done", !.result = Result(FALSE, "thrown")]
        <4>1. Result(FALSE, "thrown") \in Results
          BY <1>0 DEF Result, Results, Ats
        <4> QED
          BY <1>0, <3>2, <4>1, NoneAssumption DEF Ats
      <3> QED
        BY <1>7, <3>1, <3>2 DEF Unwind
    <2> QED
      BY <1>0, <2>1, <2>2 DEF StepOK, Waiting, Inside, Over, task
  <1> QED
    BY <1>2, <1>3, <1>4, <1>5, <1>6, <1>7 DEF WorkSteps

\* The turn ends with no snapshot open.
LEMMA EndTurnSteps ==
    ASSUME TypeOK, StepOK, EndTurn
    PROVE  StepOK'
  <1>1. at.step = "done" /\ at' = Idle /\ saved' = saved /\ saved = None
    BY EndTurnIs DEF StepOK
  <1> QED
    BY <1>1, IdleIs DEF StepOK, Waiting, Inside, Over

\* A task more at the end of the line changes nothing of the first.
LEMMA TurnGrows ==
    ASSUME TypeOK, StepOK, NEW t \in Tasks, turn' = Append(turn, t), UNCHANGED <<fork, at, saved>>
    PROVE  /\ StepOK'
           /\ turn' # <<>>
           /\ turn # <<>> => task' = task
           /\ turn = <<>> => at = Idle
  <1>1. turn' # <<>> /\ (turn # <<>> => task' = task)
    BY AppendIs DEF TypeOK, task
  <1>2. turn = <<>> => at = Idle
    BY DEF StepOK
  <1>3. CASE turn = <<>>
    BY <1>1, <1>2, <1>3, IdleIs DEF StepOK, Waiting, Inside, Over
  <1>4. CASE turn # <<>>
    BY <1>1, <1>2, <1>4 DEF StepOK, HasLegs
  <1> QED
    BY <1>1, <1>2, <1>3, <1>4

\* Every step keeps what is known of the step a turn is at.
LEMMA NextSteps == ASSUME TypeOK, StepOK, [Next]_vars PROVE StepOK'
  <1> USE DEF engineVars, callerVars, worldVars, historyVars
  <1>0. UNCHANGED <<turn, fork, at, saved>> => StepOK'
    BY DEF StepOK, task, HasLegs
  <1>1. CASE WorkSteps
    BY <1>1, WorkKeepsSteps
  <1>2. CASE EndTurn
    BY <1>2, EndTurnSteps
  <1>3. ASSUME NEW q \in Quotes, QuoteSteps(q) PROVE StepOK'
    <2>1. CASE UNCHANGED <<fork, chain, saved, engineVars, fills, worldVars, historyVars, faults>>
      BY <1>0, <2>1
    <2>2. ASSUME NEW ask, NEW where, NEW kind \in Kinds, Remembered(q, ask, kind, where),
                 kind # "payout" => ask[2] \in Routes
          PROVE StepOK'
      <3>1. /\ UNCHANGED <<fork, at, saved>>
            /\ turn' = turn \/ \E t \in Tasks : turn' = Append(turn, t)
        BY <2>2, RememberedIs
      <3> QED
        BY <1>0, <3>1, TurnGrows
    <2> QED
      BY <1>3, <2>1, <2>2, QuoteStepIs
  <1>4. ASSUME NEW o \in Orders, OrderAsks(o) PROVE StepOK'
    <2>1. /\ UNCHANGED <<fork, at, saved>>
          /\ \E t \in Tasks : turn' = Append(turn, t)
      BY <1>4, OrderAskIs, QueueIs
    <2> QED
      BY <2>1, TurnGrows
  <1>5. CASE WorldSteps \/ Ended \/ UNCHANGED vars
    BY <1>0, <1>5 DEF WorldSteps, Reshape, Forget, DepositLands, Expire, Ended, vars
  <1> QED
    BY <1>1, <1>2, <1>3, <1>4, <1>5, NextIs DEF TurnStep, WorkSteps

-----------------------------------------------------------------------------
(* The account, its snapshot and its approvals.                            *)

\* A transaction of run(): the swap or the payout.
Sent(c) == \E amount \in Int : c = Did("swap", amount) \/ c = Did("pay", amount)

\* What a step of a turn does to the chain and to the open snapshot.
LEMMA ChainMoves ==
    ASSUME TypeOK, StepOK, WorkSteps
    PROVE  \/ UNCHANGED <<chain, saved, approved, stained>>
           \/ /\ saved = None /\ UNCHANGED <<saved, stained>>
              /\ \E r \in Routers :
                   /\ approved' = approved \cup {r}
                   /\ \/ chain' = [chain EXCEPT !.allowed = @ \cup {r}]
                      \/ chain' = chain /\ faults' = faults + 1
           \/ saved = None /\ saved' = chain /\ UNCHANGED <<chain, approved, stained>>
           \/ Sent(chain') /\ at.step \in Inside /\ UNCHANGED <<saved, approved, stained>>
           \/ /\ saved # None /\ saved' = None /\ UNCHANGED approved
              /\ \/ chain' = saved /\ UNCHANGED stained
                 \/ chain' = chain /\ stained' = TRUE
  <1> USE DEF historyVars
  <1>1. CASE Unroutable \/ ApproveThrows \/ SnapshotFails \/ Estimate \/ FillStarts
    BY <1>1 DEF Unroutable, ApproveThrows, SnapshotFails, Estimate, FillStarts
  <1>2. CASE Approve
    <2>1. UNCHANGED <<saved, stained>> /\ saved = None
      BY <1>2 DEF Approve, Running, StepOK, Waiting
    <2>2. CASE UNCHANGED <<approved, chain>>
      BY <2>1, <2>2
    <2>3. CASE Needs /\ Allow(RouterFor(task.route))
      <3>1. RouterFor(task.route) \in Routers
        BY <1>2, <2>3, TaskType, RouterIs DEF Needs, HasLegs, Approve, Running
      <3> QED
        BY <2>1, <2>3, <3>1 DEF Allow, Fault
    <2> QED
      BY <1>2, <2>2, <2>3 DEF Approve
  <1>3. CASE Snapshot
    BY <1>3 DEF Snapshot, Running, StepOK, Waiting
  <1>4. CASE RunStep
    <2>1. UNCHANGED <<saved, approved, stained>> /\ at.step \in Inside
      BY <1>4 DEF RunStep, Running, NotEncodable, Swap, SwapReverts, SwapThrows, Acquired,
         AcquiredThrows, Measured, TooLittle, Pay, PayReverts, PayThrows, Delivered,
         DeliveredThrows, ToPay, Paying, Inside
    <2>2. chain' = chain \/ (\E made \in Made : chain' = Did("swap", made))
                         \/ chain' = Did("pay", - Quoted)
      BY <1>4 DEF RunStep, NotEncodable, Swap, SwapReverts, SwapThrows, Acquired,
         AcquiredThrows, Measured, TooLittle, Pay, PayReverts, PayThrows, Delivered,
         DeliveredThrows
    <2> QED
      BY <2>1, <2>2, MadeIs DEF Sent
  <1>5. CASE Unwind
    BY <1>5 DEF Unwind, Running, StepOK
  <1> QED
    BY <1>1, <1>2, <1>3, <1>4, <1>5 DEF WorkSteps

\* A transaction of a measurement leaves the orders alone, one of an order the others.
LEMMA SentIs ==
    ASSUME TypeOK, turn # <<>>, NEW c, Sent(c)
    PROVE  /\ c \in Account /\ c.allowed = chain.allowed
           /\ ~Measuring => /\ c.probes = chain.probes
                            /\ \A o \in Orders : o # task.by =>
                                   c.did[o] = chain.did[o] /\ c.made[o] = chain.made[o]
           /\ Measuring => c.did = chain.did /\ c.made = chain.made
  BY DidIt DEF Sent

\* Calls that threw are never forgotten.
LEMMA FaultsGrow == ASSUME TypeOK, [Next]_vars PROVE faults' \in {faults, faults + 1} /\ faults \in Nat
  <1> USE DEF engineVars, callerVars, worldVars, historyVars, Fault, Event
  <1>0. faults \in Nat
    BY DEF TypeOK
  <1>1. CASE RunStep
    BY <1>0, <1>1 DEF RunStep, NotEncodable, Swap, SwapReverts, SwapThrows, Acquired,
         AcquiredThrows, Measured, TooLittle, Pay, PayReverts, PayThrows, Delivered,
         DeliveredThrows
  <1>2. CASE TurnStep /\ ~RunStep
    BY <1>0, <1>2 DEF TurnStep, Unroutable, Approve, Allow, ApproveThrows, Snapshot,
         SnapshotFails, Estimate, FillStarts, Unwind, EndTurn
  <1>3. ASSUME NEW q \in Quotes, QuoteSteps(q) PROVE faults' = faults
    BY <1>3 DEF QuoteSteps, AskGas, AskUnknown, AskPayout, QuoteEnds, Remembered
  <1>4. ASSUME NEW o \in Orders, OrderAsks(o) PROVE faults' = faults
    BY <1>4 DEF OrderAsks, AskDryRun, AskFill, AskPayoutOnly, Queue
  <1>5. ASSUME WorldSteps \/ Ended \/ UNCHANGED vars PROVE faults' = faults
    BY <1>5 DEF WorldSteps, Reshape, Forget, DepositLands, Expire, Ended, vars
  <1> QED
    BY <1>0, <1>1, <1>2, <1>3, <1>4, <1>5, NextIs

\* What other steps do to the account and its snapshot.
LEMMA OtherMoves ==
    ASSUME TypeOK, StepOK, [Next]_vars, ~WorkSteps
    PROVE  /\ UNCHANGED <<saved, approved, stained>>
           /\ \/ chain' = chain
              \/ /\ saved = None /\ landed' = TRUE /\ at.step = "swapped"
                 /\ chain' = [chain EXCEPT !.balance = @ + 1]
                 /\ UNCHANGED <<turn, at, fills, lost>>
  <1> USE DEF engineVars, callerVars, worldVars, historyVars
  <1>1. CASE EndTurn
    BY <1>1, EndTurnIs
  <1>3. ASSUME NEW q \in Quotes, QuoteSteps(q) PROVE UNCHANGED <<chain, saved, approved, stained>>
    BY <1>3 DEF QuoteSteps, AskGas, AskUnknown, AskPayout, QuoteEnds, Remembered
  <1>4. ASSUME NEW o \in Orders, OrderAsks(o) PROVE UNCHANGED <<chain, saved, approved, stained>>
    BY <1>4 DEF OrderAsks, AskDryRun, AskFill, AskPayoutOnly, Queue
  <1>5. CASE WorldSteps \/ Ended \/ UNCHANGED vars
    BY <1>5 DEF WorldSteps, Reshape, Forget, DepositLands, Expire, Ended, vars, Running, StepOK
  <1> QED
    BY <1>1, <1>3, <1>4, <1>5, NextIs DEF TurnStep, WorkSteps

\* What is remembered as approved stays approved, in the snapshot as well.
LEMMA NextAllowed == ASSUME TypeOK, StepOK, Allowed, [Next]_vars PROVE Allowed'
  <1>1. faults' = 0 => faults = 0 /\ faults' = faults
    BY FaultsGrow
  <1>2. CASE WorkSteps
    <2>1. turn # <<>> /\ chain \in Account
      BY <1>2, WorkIs DEF TypeOK
    <2>2. Sent(chain') => chain'.allowed = chain.allowed
      BY <2>1, SentIs
    <2>3. ASSUME NEW r \in Routers, chain' = [chain EXCEPT !.allowed = @ \cup {r}]
          PROVE  chain'.allowed = chain.allowed \cup {r}
      BY <2>1, <2>3 DEF Account
    <2>4. faults' = 0 => faults' # faults + 1
      BY FaultsGrow
    <2> QED
      BY <1>1, <1>2, <2>2, <2>3, <2>4, ChainMoves DEF Allowed
  <1>3. CASE ~WorkSteps
    <2>1. chain \in Account
      BY DEF TypeOK
    <2>2. chain' = [chain EXCEPT !.balance = @ + 1] => chain'.allowed = chain.allowed
      BY <2>1 DEF Account
    <2> QED
      BY <1>1, <1>3, <2>2, OtherMoves DEF Allowed
  <1> QED
    BY <1>2, <1>3

\* How the callers move: a state further, or the result of a turn.
LEMMA FillsMove ==
    ASSUME TypeOK, [Next]_vars
    PROVE  \/ fills' = fills
           \/ EndTurn
           \/ \E o \in Orders : OrderAsks(o)
  <1> USE DEF engineVars, callerVars, worldVars, historyVars
  <1>1. CASE WorkSteps
    BY <1>1, WorkIs
  <1>3. ASSUME NEW q \in Quotes, QuoteSteps(q) PROVE fills' = fills
    BY <1>3 DEF QuoteSteps, AskGas, AskUnknown, AskPayout, QuoteEnds, Remembered
  <1>5. CASE WorldSteps \/ Ended \/ UNCHANGED vars
    BY <1>5 DEF WorldSteps, Reshape, Forget, DepositLands, Expire, Ended, vars
  <1> QED
    BY <1>1, <1>3, <1>5, NextIs DEF TurnStep, WorkSteps

\* An order that has not begun its fill had not before.
LEMMA NotBegun ==
    ASSUME TypeOK, [Next]_vars
    PROVE  \A o \in Orders : fills'[o].at \in {"idle", "dry run"} => fills[o].at \in {"idle", "dry run"}
  <1>1. ASSUME EndTurn, NEW o \in Orders PROVE fills'[o].at = fills[o].at
    BY <1>1, EndTurnIs
  <1>2. ASSUME NEW p \in Orders, OrderAsks(p), NEW o \in Orders,
               fills'[o].at \in {"idle", "dry run"}
        PROVE  fills[o].at \in {"idle", "dry run"}
    <2>1. ASSUME NEW where, fills' = [fills EXCEPT ![p] = [at |-> where, result |-> None]],
                 where \in {"idle", "dry run"} => fills[p].at = "idle"
          PROVE  fills[o].at \in {"idle", "dry run"}
      <3>1. fills'[o] = IF o = p THEN [at |-> where, result |-> None] ELSE fills[o]
        BY <2>1 DEF TypeOK
      <3>2. CASE o = p
        <4>1. fills'[o].at = where
          BY <3>1, <3>2
        <4>2. where \in {"idle", "dry run"}
          BY <1>2, <4>1
        <4> QED
          BY <2>1, <3>2, <4>2
      <3>3. CASE o # p
        BY <1>2, <3>1, <3>3
      <3> QED
        BY <3>2, <3>3
    <2>2. CASE AskDryRun(p)
      BY <2>1, <2>2 DEF AskDryRun, Queue
    <2>3. CASE AskFill(p)
      BY <2>1, <2>3 DEF AskFill, Queue
    <2>4. CASE AskPayoutOnly(p)
      BY <2>1, <2>4 DEF AskPayoutOnly, Queue
    <2> QED
      BY <1>2, <2>2, <2>3, <2>4 DEF OrderAsks
  <1> QED
    BY <1>1, <1>2, FillsMove

\* The task at the head is a fill that has begun.
LEMMA HeadFills ==
    ASSUME TypeOK, TasksOK, turn # <<>>
    PROVE  /\ task.kind = "fill" =>
                /\ task.by \in Orders /\ fills[task.by].at \in {"fill", "retry"} /\ ~Measuring
                /\ fills[task.by].result = None
                /\ fills[task.by].at = "fill" => task.route = RouteOf[task.by]
                /\ fills[task.by].at = "retry" => task.route = Pure
           /\ task.kind = "dry" => /\ task.by \in Orders /\ fills[task.by].at = "dry run"
                                   /\ fills[task.by].result = None /\ ~Measuring
           /\ Measuring => task.kind \notin {"fill", "dry"} /\ task.by \in 1 .. Len(promises)
  <1>1. task = turn[1] /\ 1 \in 1 .. Len(turn)
    BY TaskType
  <1>2. TaskOK(task)
    BY <1>1, TasksAre
  <1> QED
    BY <1>2, TaskType DEF TaskOK, IsOrders, Measuring, Kinds

\* No probe stands outside an open snapshot.
LEMMA NextClean ==
    ASSUME TypeOK, TasksOK, StepOK, Clean, [Next]_vars
    PROVE  Clean'
  <1> DEFINE Calm(c) == /\ c.probes = 0
                        /\ \A o \in Orders : fills[o].at \in {"idle", "dry run"} =>
                               c.did[o] = Untouched /\ c.made[o] = 0
  <1>0. stained' = FALSE => stained = FALSE
    <2>1. stained \in BOOLEAN /\ stained' \in BOOLEAN
      BY NextTypes DEF TypeOK
    <2>2. CASE WorkSteps
      BY <2>2, <2>1, ChainMoves
    <2> QED
      BY <2>1, <2>2, OtherMoves
  <1> SUFFICES ASSUME ~stained'
               PROVE  /\ Real'.probes = 0
                      /\ \A o \in Orders : fills'[o].at \in {"idle", "dry run"}
                            => Real'.did[o] = Untouched /\ Real'.made[o] = 0
    BY DEF Clean, Untouched
  <1>1. Calm(Real)
    <2>1. ~stained
      BY <1>0, NextTypes DEF TypeOK
    <2> QED
      BY <2>1 DEF Clean
  <1>2. Calm(Real')
    <2>0. chain \in Account
      BY DEF TypeOK
    <2>1. CASE WorkSteps
      <3>1. turn # <<>>
        BY <2>1, WorkIs
      <3>2. CASE Real' = Real
        BY <1>1, <3>2
      <3>3. ASSUME NEW r \in Routers, chain' = [chain EXCEPT !.allowed = @ \cup {r}],
                   saved = None, saved' = saved
            PROVE  Calm(Real')
        <4>1. Real' = chain' /\ Real = chain
          BY <3>3 DEF Real
        <4>2. chain'.probes = chain.probes /\ chain'.did = chain.did /\ chain'.made = chain.made
          BY <2>0, <3>3 DEF Account
        <4> QED
          BY <1>1, <4>1, <4>2
      <3>4. ASSUME Sent(chain'), at.step \in Inside, saved' = saved, saved = None
            PROVE  Calm(Real')
        <4>1. Real' = chain' /\ Real = chain /\ task.kind = "fill"
          BY <3>4 DEF Real, StepOK
        <4>2. PICK c : c = chain'
          OBVIOUS
        <4>3. /\ c.probes = chain.probes
              /\ \A o \in Orders : o # task.by => c.did[o] = chain.did[o] /\ c.made[o] = chain.made[o]
          BY <3>1, <3>4, <4>1, <4>2, SentIs, HeadFills
        <4>4. fills[task.by].at \in {"fill", "retry"}
          BY <3>1, <4>1, HeadFills
        <4> QED
          BY <1>1, <4>1, <4>2, <4>3, <4>4
      <3>5. stained' # TRUE
        OBVIOUS
      <3> QED
        BY <2>1, <3>2, <3>3, <3>4, <3>5, ChainMoves DEF Real
    <2>2. CASE ~WorkSteps
      <3>1. CASE Real' = Real
        BY <1>1, <3>1
      <3>2. CASE saved = None /\ saved' = None /\ chain' = [chain EXCEPT !.balance = @ + 1]
        <4>1. Real' = chain' /\ Real = chain
          BY <3>2 DEF Real
        <4>2. chain'.probes = chain.probes /\ chain'.did = chain.did /\ chain'.made = chain.made
          BY <2>0, <3>2 DEF Account
        <4> QED
          BY <1>1, <4>1, <4>2
      <3> QED
        BY <2>2, <3>1, <3>2, OtherMoves DEF Real
    <2> QED
      BY <2>1, <2>2
  <1> QED
    BY <1>2, NotBegun

-----------------------------------------------------------------------------
(* The measurements remembered.                                            *)

\* A task that has its result was given the pools' shape of that moment.
LEMMA ResultShape ==
    ASSUME TypeOK, StepOK, WorkSteps, at'.step \in Over
    PROVE  at'.shape = shape \/ (at.step \in Over /\ at'.shape = at.shape)
  <1> USE ReasonsAre DEF historyVars
  <1>0. at \in Ats
    BY DEF TypeOK
  <1>1. ASSUME NEW ok \in BOOLEAN, NEW reason \in Reasons, Finish(ok, reason)
        PROVE  at'.shape = shape
    BY <1>1, FinishIs
  <1>2. CASE Unroutable \/ ApproveThrows \/ SnapshotFails \/ Estimate
             \/ NotEncodable \/ SwapReverts \/ SwapThrows \/ AcquiredThrows \/ Measured \/ TooLittle
             \/ PayReverts \/ Delivered
    BY <1>1, <1>2 DEF Unroutable, ApproveThrows, SnapshotFails, Estimate,
       NotEncodable, SwapReverts, SwapThrows, AcquiredThrows, Measured, TooLittle,
       PayReverts, Delivered
  <1>3. CASE PayThrows \/ DeliveredThrows
    <2>1. Caught \in Reasons
      BY DEF Caught
    <2> QED
      BY <1>1, <1>3, <2>1 DEF PayThrows, DeliveredThrows
  <1>4. CASE Approve \/ FillStarts
    <2>1. Goto("approved") \/ Goto("run")
      BY <1>4 DEF Approve, FillStarts
    <2>2. at'.step \in {"approved", "run"}
      BY <2>1, GotoIs DEF Waiting, Inside
    <2> QED
      BY <2>2 DEF Over
  <1>5. CASE Snapshot
    <2>1. CASE Goto("run")
      BY <2>1, GotoIs DEF Inside, Over
    <2>2. CASE at' = [at EXCEPT !.result = Result(FALSE, "not funded"), !.step = "unwind",
                                  !.shape = shape]
      BY <1>0, <2>2 DEF Ats
    <2> QED
      BY <1>5, <2>1, <2>2 DEF Snapshot
  <1>6. CASE Swap \/ Acquired \/ Pay
    <2>1. CASE Swap
      BY <1>0, <2>1 DEF Swap, Ats, Over
    <2>2. CASE Acquired
      BY <1>0, <2>2 DEF Acquired, Ats, Over
    <2>3. CASE Pay
      BY <2>3, GotoIs DEF Pay, Inside, Over
    <2> QED
      BY <1>6, <2>1, <2>2, <2>3
  <1>7. CASE Unwind
    <2>1. at.step = "unwind"
      BY <1>7 DEF Unwind, Running
    <2>2. CASE Goto("done")
      BY <2>1, <2>2, GotoIs DEF Over
    <2>3. CASE at' = [at EXCEPT !.step = "done", !.result = Result(FALSE, "thrown")]
      BY <1>0, <2>1, <2>3 DEF Ats, Over
    <2> QED
      BY <1>7, <2>2, <2>3 DEF Unwind
  <1> QED
    BY <1>2, <1>3, <1>4, <1>5, <1>6, <1>7 DEF WorkSteps, RunStep

\* What is remembered of a route, or is about to be, is of the shape last told of.
Fresh(n) ==
    /\ n \in 1 .. Len(promises)
    /\ promises[n].gas # "pending" => promises[n].shape >= told
    /\ at.step \in Over /\ Measuring /\ task.by = n => at.shape >= told

\* What is said of the measurements remembered is said of each.
LEMMA ShapesAre ==
    ShapesOK <=> told <= shape /\ \A k \in Keys : Names(k) # {} /\ gasByRoute[k] # None
                                                     => Fresh(gasByRoute[k])
  BY DEF ShapesOK, Fresh

\* A measurement gets its result on the pools of that moment.
LEMMA WorkShapes == ASSUME TypeOK, StepOK, ShapesOK, WorkSteps PROVE ShapesOK'
  <1>1. UNCHANGED <<turn, promises, gasByRoute, shape, told>>
    BY WorkIs DEF worldVars
  <1>2. told <= shape
    BY ShapesAre
  <1>3. at'.step \in Over => at'.shape >= told \/ (at.step \in Over /\ at'.shape = at.shape)
    BY <1>2, ResultShape DEF TypeOK
  <1>4. ASSUME NEW n, Fresh(n) PROVE Fresh(n)'
    BY <1>1, <1>3, <1>4 DEF Fresh, Measuring, task
  <1>5. \A k \in Keys : Names(k) # {} /\ gasByRoute[k] # None => Fresh(gasByRoute[k])
    BY ShapesAre
  <1>6. ASSUME NEW k \in Keys, Names(k) # {}, gasByRoute'[k] # None PROVE Fresh(gasByRoute[k])'
    <2>1. PICK n : n = gasByRoute[k]
      OBVIOUS
    <2>2. Fresh(n)' /\ n = gasByRoute'[k]
      BY <1>1, <1>4, <1>5, <1>6, <2>1
    <2> QED
      BY <2>2 DEF Fresh
  <1> QED
    BY <1>1, <1>2, <1>6 DEF ShapesOK, Fresh

\* The promise keeps the shape its measurement was made on.
LEMMA EndTurnShapes == ASSUME TypeOK, TasksOK, StepOK, ShapesOK, EndTurn PROVE ShapesOK'
  <1>1. /\ UNCHANGED <<gasByRoute, shape, told>> /\ turn # <<>> /\ at.step = "done" /\ at' = Idle
        /\ Len(promises') = Len(promises)
        /\ \A n \in 1 .. Len(promises) : n # task.by => promises'[n] = promises[n]
        /\ Measuring /\ task.by \in 1 .. Len(promises) => promises'[task.by].shape = at.shape
        /\ ~Measuring => promises' = promises
    BY EndTurnIs DEF worldVars
  <1>2. ASSUME NEW n, Fresh(n)
        PROVE  /\ n \in 1 .. Len(promises')
               /\ promises'[n].gas # "pending" => promises'[n].shape >= told
    BY <1>1, <1>2 DEF Fresh, Over
  <1>3. told <= shape
    BY ShapesAre
  <1>4. at'.step \notin Over
    BY <1>1, IdleIs DEF Over
  <1> QED
    BY <1>1, <1>2, <1>3, <1>4, ShapesAre DEF ShapesOK

\* A task more, and perhaps the promise of it.
LEMMA GrownShapes ==
    ASSUME TypeOK, TasksOK, StepOK, ShapesOK, NEW t \in Tasks, turn' = Append(turn, t),
           UNCHANGED <<fork, at, saved, shape, told>>,
           NEW k0,
           \/ UNCHANGED <<promises, gasByRoute>>
           \/ /\ promises' = Append(promises, Pending)
              /\ gasByRoute' = [gasByRoute EXCEPT ![k0] = Len(promises) + 1]
    PROVE  ShapesOK'
  <1>0. promises \in Seq(Promises) /\ gasByRoute \in [Keys -> Nat \cup {None}] /\ Len(promises) \in Nat
    BY DEF TypeOK, Promises
  <1>1. told <= shape /\ \A k \in Keys : Names(k) # {} /\ gasByRoute[k] # None => Fresh(gasByRoute[k])
    BY ShapesAre
  <1>2. at.step \in Over => turn # <<>> /\ task' = task
    BY TurnGrows, IdleIs DEF Over
  <1>3. at.step \in Over /\ Measuring => task.by \in 1 .. Len(promises)
    BY <1>2, HeadFills
  <1>4. \A n \in 1 .. Len(promises) : n \in 1 .. Len(promises') /\ promises'[n] = promises[n]
    <2>1. CASE promises' = promises
      BY <2>1
    <2>2. CASE promises' = Append(promises, Pending)
      BY <1>0, <2>2
    <2> QED
      BY <2>1, <2>2
  <1>5. ASSUME NEW k \in Keys, Names(k) # {}, gasByRoute'[k] # None
        PROVE  Fresh(gasByRoute[k])'
    <2>1. CASE gasByRoute'[k] = gasByRoute[k]
      <3>1. PICK n : n = gasByRoute[k] /\ Fresh(n)
        BY <1>1, <1>5, <2>1
      <3>2. n \in 1 .. Len(promises') /\ promises'[n] = promises[n]
        BY <1>4, <3>1 DEF Fresh
      <3>3. at.step \in Over /\ Measuring' /\ task'.by = n => at.shape >= told
        BY <1>2, <3>1 DEF Fresh, Measuring
      <3> QED
        BY <2>1, <3>1, <3>2, <3>3 DEF Fresh
    <2>2. CASE gasByRoute'[k] # gasByRoute[k]
      <3>1. gasByRoute'[k] = Len(promises) + 1 /\ promises' = Append(promises, Pending)
        BY <1>0, <2>2
      <3>2. /\ Len(promises) + 1 \in 1 .. Len(promises')
            /\ promises'[Len(promises) + 1] = Pending
        BY <1>0, <3>1
      <3>3. promises'[Len(promises) + 1].gas = "pending"
        BY <3>2 DEF Pending
      <3>4. ~ (at.step \in Over /\ Measuring' /\ task'.by = Len(promises) + 1)
        BY <1>0, <1>2, <1>3 DEF Measuring
      <3> QED
        BY <3>1, <3>2, <3>3, <3>4 DEF Fresh
    <2> QED
      BY <2>1, <2>2
  <1> QED
    BY <1>1, <1>5 DEF ShapesOK, Fresh

\* forget() leaves no measurement that names a pool.
LEMMA ForgetShapes == ASSUME TypeOK, ShapesOK, Forget \/ \E k \in Keys : Expire(k) PROVE ShapesOK'
  <1> USE DEF callerVars, historyVars
  <1>1. CASE Forget
    <2>1. told' = shape /\ shape' = shape
      BY <1>1 DEF Forget
    <2>2. told' <= shape'
      BY <2>1 DEF TypeOK
    <2>3. \A k \in Keys : Names(k) # {} => gasByRoute'[k] = None
      BY <1>1 DEF Forget
    <2> QED
      BY <2>2, <2>3 DEF ShapesOK
  <1>2. ASSUME NEW k \in Keys, Expire(k) PROVE ShapesOK'
    <2>1. UNCHANGED <<turn, at, promises, shape, told>>
      BY <1>2 DEF Expire
    <2>2. \A j \in Keys : gasByRoute'[j] # None => gasByRoute'[j] = gasByRoute[j]
      BY <1>2 DEF Expire, TypeOK
    <2> QED
      BY <2>1, <2>2 DEF ShapesOK, Measuring, task
  <1> QED
    BY <1>1, <1>2

\* Every step keeps the remembered measurements current.
LEMMA NextShapes ==
    ASSUME TypeOK, TasksOK, StepOK, ShapesOK, [Next]_vars
    PROVE  ShapesOK'
  <1> USE DEF engineVars, callerVars, worldVars, historyVars
  <1>0. UNCHANGED <<turn, at, promises, gasByRoute, told>> /\ shape' \in {shape, shape + 1} => ShapesOK'
    <2>1. told <= shape /\ told \in Nat /\ shape \in Nat
      BY DEF ShapesOK, TypeOK
    <2>2. shape' \in {shape, shape + 1} /\ told' = told => told' <= shape'
      BY <2>1
    <2> QED
      BY <2>2 DEF ShapesOK, Measuring, task
  <1>1. CASE WorkSteps
    BY <1>1, WorkShapes
  <1>2. CASE EndTurn
    BY <1>2, EndTurnShapes
  <1>3. ASSUME NEW q \in Quotes, QuoteSteps(q) PROVE ShapesOK'
    <2>1. CASE UNCHANGED <<fork, chain, saved, engineVars, fills, worldVars, historyVars, faults>>
      BY <1>0, <2>1
    <2>2. ASSUME NEW ask, NEW where, NEW kind \in Kinds, Remembered(q, ask, kind, where),
                 kind # "payout" => ask[2] \in Routes
          PROVE ShapesOK'
      <3>1. /\ UNCHANGED <<fork, at, saved, shape, told>>
            /\ \/ UNCHANGED <<promises, turn, gasByRoute>>
               \/ \E t \in Tasks : /\ turn' = Append(turn, t)
                                   /\ promises' = Append(promises, Pending)
                                   /\ gasByRoute' = [gasByRoute EXCEPT ![Key(kind, ask[2])] = Len(promises) + 1]
        BY <2>2, RememberedIs, ZenonT(30)
      <3> QED
        BY <1>0, <3>1, GrownShapes
    <2> QED
      BY <1>3, <2>1, <2>2, QuoteStepIs
  <1>4. ASSUME NEW o \in Orders, OrderAsks(o) PROVE ShapesOK'
    <2>1. /\ UNCHANGED <<fork, at, saved, shape, told, promises, gasByRoute>>
          /\ \E t \in Tasks : turn' = Append(turn, t)
      BY <1>4, OrderAskIs, QueueIs
    <2> QED
      BY <2>1, GrownShapes
  <1>5. CASE Forget \/ \E k \in Keys : Expire(k)
    BY <1>5, ForgetShapes
  <1>6. CASE Reshape \/ DepositLands \/ Ended \/ UNCHANGED vars
    BY <1>0, <1>6 DEF Reshape, DepositLands, Ended, vars
  <1> QED
    BY <1>1, <1>2, <1>3, <1>4, <1>5, <1>6, NextIs DEF TurnStep, WorkSteps, WorldSteps

-----------------------------------------------------------------------------
(* What is known of the fills.                                             *)

\* An order whose task has its turn waits for it.
LEMMA InTurnFills ==
    ASSUME TypeOK, TasksOK, NEW o \in Orders, InTurn(o)
    PROVE  /\ turn # <<>> /\ task.by = o /\ ~Measuring
           /\ fills[o].result = None
           /\ fills[o].at = "dry run" => task.kind = "dry"
           /\ fills[o].at \in {"fill", "retry"} => task.kind = "fill"
           /\ fills[o].at = "fill" => task.route = RouteOf[o]
           /\ fills[o].at = "retry" => task.route = Pure
  <1>1. turn # <<>> /\ task.by = o /\ task.kind \in {"dry", "fill"}
    BY DEF InTurn, IsOrders
  <1> QED
    BY <1>1, HeadFills

\* A new task leaves the one whose turn it is.
LEMMA GrownTurn ==
    ASSUME TypeOK, StepOK, NEW t \in Tasks, turn' = Append(turn, t), UNCHANGED <<fork, at, saved>>
    PROVE  /\ at.step \notin Waiting => \A o : InTurn(o)' <=> InTurn(o)
           /\ saved # None => at.step \notin Waiting
  <1>1. turn' # <<>> /\ (turn # <<>> => task' = task) /\ (turn = <<>> => at = Idle)
    BY TurnGrows
  <1>2. at.step \notin Waiting => turn # <<>>
    BY <1>1, IdleIs DEF Waiting
  <1>3. saved # None => at.step \notin Waiting
    BY DEF StepOK
  <1> QED
    BY <1>1, <1>2, <1>3 DEF InTurn, IsOrders

\* How the line moves: not at all, by a task more at its end, or past its first.
LEMMA TurnMoves ==
    ASSUME TypeOK, [Next]_vars
    PROVE  \/ turn' = turn
           \/ EndTurn
           \/ UNCHANGED <<fork, at, saved, chain, lost>> /\ \E t \in Tasks : turn' = Append(turn, t)
  <1> USE DEF engineVars, callerVars, worldVars, historyVars
  <1>1. CASE WorkSteps
    BY <1>1, WorkIs
  <1>3. ASSUME NEW q \in Quotes, QuoteSteps(q)
        PROVE  \/ turn' = turn
               \/ UNCHANGED <<fork, at, saved, chain, lost>> /\ \E t \in Tasks : turn' = Append(turn, t)
    <2>1. CASE UNCHANGED <<fork, chain, saved, engineVars, fills, worldVars, historyVars, faults>>
      BY <2>1
    <2>2. ASSUME NEW ask, NEW where, NEW kind \in Kinds, Remembered(q, ask, kind, where),
                 kind # "payout" => ask[2] \in Routes
          PROVE  \/ turn' = turn
                 \/ UNCHANGED <<fork, at, saved, chain, lost>> /\ \E t \in Tasks : turn' = Append(turn, t)
      BY <2>2, RememberedIs
    <2> QED
      BY <1>3, <2>1, <2>2, QuoteStepIs
  <1>4. ASSUME NEW o \in Orders, OrderAsks(o)
        PROVE  UNCHANGED <<fork, at, saved, chain, lost>> /\ \E t \in Tasks : turn' = Append(turn, t)
    BY <1>4, OrderAskIs, QueueIs
  <1>5. CASE WorldSteps \/ Ended \/ UNCHANGED vars
    BY <1>5 DEF WorldSteps, Reshape, Forget, DepositLands, Expire, Ended, vars
  <1> QED
    BY <1>1, <1>3, <1>4, <1>5, NextIs DEF TurnStep, WorkSteps

\* Every step keeps what the snapshot holds of the orders that wait.
LEMMA NextSnap ==
    ASSUME TypeOK, TasksOK, StepOK, SnapOK, [Next]_vars
    PROVE  SnapOK'
  <1> SUFFICES ASSUME saved' # None, NEW o \in Orders, ~InTurn(o)'
               PROVE  saved'.did[o] = chain'.did[o] /\ saved'.made[o] = chain'.made[o]
    BY DEF SnapOK
  <1>1. CASE WorkSteps
    <2>1. turn # <<>> /\ UNCHANGED turn
      BY <1>1, WorkIs
    <2>2. ~InTurn(o)
      BY <2>1 DEF InTurn, IsOrders, task
    <2>3. CASE UNCHANGED <<chain, saved>>
      BY <2>2, <2>3 DEF SnapOK
    <2>4. CASE saved' = chain /\ chain' = chain
      BY <2>4
    <2>5. CASE Sent(chain') /\ saved' = saved
      <3>1. PICK c : c = chain'
        OBVIOUS
      <3>2. c.did[o] = chain.did[o] /\ c.made[o] = chain.made[o]
        BY <2>1, <2>2, <2>5, <3>1, SentIs, TaskType DEF InTurn, IsOrders, Measuring, Kinds
      <3> QED
        BY <2>2, <2>5, <3>1, <3>2 DEF SnapOK
    <2> QED
      BY <1>1, <2>3, <2>4, <2>5, ChainMoves
  <1>2. CASE ~WorkSteps
    <2>1. UNCHANGED <<saved, chain>>
      BY <1>2, OtherMoves
    <2>2. ~InTurn(o)
      <3>1. CASE turn' = turn
        BY <3>1 DEF InTurn, IsOrders, task
      <3>2. CASE EndTurn
        BY <2>1, <3>2, EndTurnIs DEF StepOK
      <3>3. CASE UNCHANGED <<fork, at, saved>> /\ \E t \in Tasks : turn' = Append(turn, t)
        BY <2>1, <3>3, GrownTurn
      <3> QED
        BY <3>1, <3>2, <3>3, TurnMoves
    <2> QED
      BY <2>1, <2>2 DEF SnapOK
  <1> QED
    BY <1>1, <1>2

\* Nothing of an order moves: it is as much known of it as was.
LEMMA Bystander ==
    ASSUME NEW o \in Orders, Known(o),
           chain'.did[o] = chain.did[o], fills'[o] = fills[o],
           \/ ~InTurn(o) \/ at.step \in Waiting \cup {"run"},
           \/ ~InTurn(o)' \/ at'.step \in Waiting \cup {"run"}
    PROVE  Known(o)'
  <1>1. \A s, p : DidIs(o, s, p)' <=> DidIs(o, s, p)
    BY DEF DidIs
  <1>2. \A r : Truth(o, r)' <=> Truth(o, r)
    BY <1>1 DEF Truth, One
  <1>3. fills'[o].result = None => ~ (at'.step \in {"swapped", "acquired", "paid", "done"} /\ InTurn(o)')
    BY DEF Waiting
  <1>4. fills[o].at = "retry" => RouteOf[o] # Pure
    BY DEF Known
  <1>5. fills[o].result # None => Truth(o, fills[o].result)'
    BY <1>2 DEF Known
  <1>6. fills[o].result = None =>
           IF fills[o].at = "retry" THEN DidIs(o, 1, 0)' ELSE DidIs(o, 0, 0)'
    BY <1>1 DEF Known
  <1> QED
    BY <1>3, <1>4, <1>5, <1>6 DEF Known, Truth

\* A fill whose task has its result.
LEMMA Concluded ==
    ASSUME NEW o \in Orders, Known(o), fills'[o] = fills[o], fills[o].result = None,
           InTurn(o)', at'.step = "done", Truth(o, at.result)'
    PROVE  Known(o)'
  BY DEF Known, Waiting

\* What is known of an order whose fill has its turn.
LEMMA FillTurn ==
    ASSUME TypeOK, TasksOK, StepOK, NEW o \in Orders, InTurn(o), fills[o].at \in {"fill", "retry"},
           Known(o)
    PROVE  /\ turn # <<>> /\ task.by = o /\ task.kind = "fill" /\ ~Measuring
           /\ fills[o].result = None /\ saved = None /\ at.step # "unwind"
           /\ fills[o].at = "fill" => task.route = RouteOf[o]
           /\ fills[o].at = "retry" => task.route = Pure /\ RouteOf[o] # Pure
           /\ at.step \in Waiting \cup {"run"} =>
                 /\ fills[o].at = "fill" => DidIs(o, 0, 0)
                 /\ fills[o].at = "retry" => DidIs(o, 1, 0)
                 /\ at.swapped = None
           /\ at.step \in {"swapped", "acquired"} =>
                 DidIs(o, 1, 0) /\ fills[o].at = "fill" /\ RouteOf[o] # Pure
           /\ at.step = "paid" => /\ DidIs(o, One(o), 1)
                                  /\ at.swapped # None => RouteOf[o] # Pure
           /\ at.step = "done" => Truth(o, at.result)
  <1>1. /\ turn # <<>> /\ task.by = o /\ task.kind = "fill" /\ ~Measuring
        /\ fills[o].result = None
        /\ fills[o].at = "fill" => task.route = RouteOf[o]
        /\ fills[o].at = "retry" => task.route = Pure
    BY InTurnFills
  <1>2. saved = None /\ at.step # "unwind"
    BY <1>1 DEF StepOK, TypeOK, Ats, Waiting, Inside, Over
  <1>3. fills[o].at = "retry" => RouteOf[o] # Pure
    BY DEF Known
  <1>4. /\ at.step \in {"swapped", "acquired"} => task.route # Pure
        /\ at.step = "paid" /\ at.swapped # None => task.route # Pure
        /\ at.step \in Waiting \cup {"run"} => at.swapped = None
    BY DEF StepOK, HasLegs
  <1>5. /\ at.step \in Waiting \cup {"run"} =>
                 /\ fills[o].at = "fill" => DidIs(o, 0, 0)
                 /\ fills[o].at = "retry" => DidIs(o, 1, 0)
        /\ at.step \in {"swapped", "acquired"} => DidIs(o, 1, 0)
        /\ at.step = "paid" => DidIs(o, One(o), 1)
        /\ at.step = "done" => Truth(o, at.result)
    BY <1>1 DEF Known
  <1> QED
    BY <1>1, <1>2, <1>3, <1>4, <1>5

\* A fill that finishes without another transaction.
LEMMA FillFinishes ==
    ASSUME TypeOK, TasksOK, StepOK, NEW o \in Orders, InTurn(o), fills[o].at \in {"fill", "retry"},
           Known(o), NEW ok \in BOOLEAN, NEW reason \in Reasons, Finish(ok, reason),
           UNCHANGED <<turn, fills, chain, saved>>,
           at.step \in Waiting \cup {"run", "acquired", "paid"},
           ok <=> at.step = "paid",
           ok => reason = "ok"
    PROVE  Known(o)'
  <1>1. /\ at'.step = "done"
        /\ at'.result.ok = ok /\ at'.result.reason = reason /\ at'.result.swapped = at.swapped
    BY FillTurn, FinishIs
  <1>2. InTurn(o)'
    BY DEF InTurn, IsOrders, task
  <1>3. \A s, p : DidIs(o, s, p)' <=> DidIs(o, s, p)
    BY DEF DidIs
  <1>4. Truth(o, at.result)'
    <2>1. at'.result.reason = "PAYOUT_FAILED" => ~at'.result.ok
      BY <1>1
    <2>2. CASE at.step \in Waiting \cup {"run"}
      <3>1. /\ ~at'.result.ok /\ at'.result.swapped = None
            /\ fills[o].at = "fill" => DidIs(o, 0, 0)
            /\ fills[o].at = "retry" => DidIs(o, 1, 0)
        BY <1>1, <2>2, FillTurn DEF Waiting
      <3> QED
        BY <1>3, <2>1, <3>1 DEF Truth
    <2>3. CASE at.step = "acquired"
      <3>1. ~at'.result.ok /\ DidIs(o, 1, 0) /\ RouteOf[o] # Pure
        BY <1>1, <2>3, FillTurn
      <3>2. at'.result.swapped # None
        BY <1>1, <2>3 DEF StepOK
      <3> QED
        BY <1>3, <2>1, <2>3, <3>1, <3>2 DEF Truth
    <2>4. CASE at.step = "paid"
      <3>1. /\ at'.result.ok /\ DidIs(o, One(o), 1)
            /\ at'.result.swapped # None => RouteOf[o] # Pure
        BY <1>1, <2>4, FillTurn
      <3> QED
        BY <1>3, <2>1, <3>1 DEF Truth, One
    <2> QED
      BY <2>2, <2>3, <2>4
  <1>5. fills[o].result = None
    BY FillTurn
  <1> QED
    BY <1>1, <1>2, <1>4, <1>5, Concluded

\* Every step of the turn of a fill.
LEMMA OwnFill ==
    ASSUME TypeOK, TasksOK, StepOK, NEW o \in Orders, InTurn(o), fills[o].at \in {"fill", "retry"},
           Known(o), WorkSteps, o \notin lost'
    PROVE  Known(o)'
  <1> USE DEF historyVars
  <1>0. /\ turn # <<>> /\ task.by = o /\ task.kind = "fill" /\ ~Measuring
        /\ fills[o].result = None /\ saved = None /\ at.step # "unwind"
    BY FillTurn
  <1>1. UNCHANGED <<turn, fills>> /\ at \in Ats /\ chain \in Account
    BY WorkIs DEF callerVars, TypeOK
  <1>2. InTurn(o)'
    BY <1>1 DEF InTurn, IsOrders, task
  <1>3. ~Lose
    BY <1>0 DEF Lose
  <1>4. ASSUME NEW ok \in BOOLEAN, NEW reason \in Reasons, Finish(ok, reason),
               UNCHANGED <<chain, saved>>,
               at.step \in Waiting \cup {"run", "acquired", "paid"},
               ok <=> at.step = "paid", ok => reason = "ok"
        PROVE  Known(o)'
    BY <1>1, <1>4, FillFinishes
  <1>5. CASE Unroutable \/ ApproveThrows
    BY <1>4, <1>5, ReasonsAre DEF Unroutable, ApproveThrows, Running, Waiting
  <1>6. CASE SnapshotFails \/ Estimate \/ Snapshot \/ Measured \/ AcquiredThrows \/ DeliveredThrows
             \/ Unwind
    BY <1>0, <1>3, <1>6 DEF SnapshotFails, Estimate, Snapshot, Measured, OnSnapshot, AcquiredThrows,
       DeliveredThrows, Unwind, Running
  <1>7. CASE NotEncodable \/ SwapReverts
    BY <1>4, <1>7, ReasonsAre DEF NotEncodable, SwapReverts, Running
  <1>8. CASE SwapThrows
    BY <1>3, <1>4, <1>8, ReasonsAre DEF SwapThrows, Running
  <1>9. CASE TooLittle
    BY <1>4, <1>9, ReasonsAre DEF TooLittle, ToPay, Running
  <1>10. CASE PayReverts
    BY <1>4, <1>10, ReasonsAre DEF PayReverts, Paying, ToPay, Running
  <1>11. CASE PayThrows
    <2>1. Caught \in Reasons
      BY ReasonsAre DEF Caught
    <2> QED
      BY <1>3, <1>4, <1>11, <2>1 DEF PayThrows, Paying, ToPay, Running
  <1>12. CASE Delivered
    BY <1>4, <1>12, ReasonsAre DEF Delivered, Running
  <1>13. CASE Approve \/ FillStarts
    <2>1. at.step \in Waiting /\ at'.step \in Waiting \cup {"run"}
      BY <1>13, GotoIs DEF Approve, FillStarts, Running, Waiting, Inside
    <2>2. chain'.did = chain.did
      <3>1. \/ chain' = chain
            \/ \E r : chain' = [chain EXCEPT !.allowed = @ \cup {r}]
        BY <1>13 DEF Approve, FillStarts, Allow
      <3> QED
        BY <1>1, <3>1 DEF Account
    <2> QED
      BY <1>1, <2>1, <2>2, Bystander
  <1>14. CASE Swap
    <2>1. at.step = "run" /\ at'.step = "swapped" /\ task.route # Pure
      BY <1>1, <1>14 DEF Swap, Running, HasLegs, Ats
    <2>2. fills[o].at = "fill" /\ DidIs(o, 0, 0) /\ RouteOf[o] # Pure
      BY <2>1, FillTurn
    <2>3. PICK made \in Int : chain' = Did("swap", made)
      BY <1>14, MadeIs DEF Swap
    <2>4. chain'.did[o].swaps = 1 /\ chain'.did[o].pays = 0 /\ chain'.did[o] \in [swaps : Nat, pays : Nat]
      <3>1. PICK c : c = chain'
        OBVIOUS
      <3>2. c \in Account /\ c.did[o].swaps = chain.did[o].swaps + 1 /\ c.did[o].pays = chain.did[o].pays
        BY <1>0, <2>3, <3>1, DidIt
      <3>3. chain.did[o].swaps = 0 /\ chain.did[o].pays = 0
        BY <2>2 DEF DidIs
      <3>4. c.did[o] \in [swaps : Nat, pays : Nat]
        BY <3>2 DEF Account
      <3> QED
        BY <3>1, <3>2, <3>3, <3>4
    <2>5. DidIs(o, 1, 0)'
      BY <2>4 DEF DidIs
    <2> QED
      BY <1>0, <1>1, <1>2, <2>1, <2>2, <2>5 DEF Known, Waiting
  <1>15. CASE Acquired
    <2>1. at.step = "swapped" /\ at'.step = "acquired" /\ chain' = chain
      BY <1>1, <1>15 DEF Acquired, Running, Ats
    <2>2. fills[o].at = "fill" /\ DidIs(o, 1, 0)
      BY <2>1, FillTurn
    <2>3. DidIs(o, 1, 0)'
      BY <2>1, <2>2 DEF DidIs
    <2> QED
      BY <1>0, <1>1, <1>2, <2>1, <2>2, <2>3 DEF Known, Waiting
  <1>16. CASE Pay
    <2>1. /\ at'.step = "paid"
          /\ at.step # "acquired" => at.step = "run" /\ task.route = Pure
      <3>1. Goto("paid") /\ ToPay
        BY <1>16 DEF Pay, Paying
      <3>2. at'.step = "paid"
        BY <3>1, GotoIs DEF Inside
      <3> QED
        BY <3>1, <3>2 DEF ToPay, Running, HasLegs
    <2>2. DidIs(o, One(o), 0)
      BY <2>1, FillTurn DEF One
    <2>3. chain' = Did("pay", - Quoted)
      BY <1>16 DEF Pay
    <2>4. chain'.did[o].swaps = One(o) /\ chain'.did[o].pays = 1 /\ chain'.did[o] \in [swaps : Nat, pays : Nat]
      <3>1. PICK c : c = chain'
        OBVIOUS
      <3>2. c \in Account /\ c.did[o].swaps = chain.did[o].swaps /\ c.did[o].pays = chain.did[o].pays + 1
        BY <1>0, <2>3, <3>1, MadeIs, DidIt
      <3>3. chain.did[o].swaps = One(o) /\ chain.did[o].pays = 0
        BY <2>2 DEF DidIs
      <3>4. c.did[o] \in [swaps : Nat, pays : Nat]
        BY <3>2 DEF Account
      <3> QED
        BY <3>1, <3>2, <3>3, <3>4
    <2>5. DidIs(o, One(o), 1)'
      BY <2>4 DEF DidIs, One
    <2>6. fills[o].at = "retry" => RouteOf[o] # Pure
      BY FillTurn
    <2> QED
      BY <1>0, <1>1, <1>2, <2>1, <2>5, <2>6 DEF Known, Waiting, One
  <1> QED
    BY <1>5, <1>6, <1>7, <1>8, <1>9, <1>10, <1>11, <1>12, <1>13, <1>14, <1>15, <1>16
       DEF WorkSteps, RunStep

\* What went wrong stays on record.
LEMMA HistoryStays ==
    ASSUME TypeOK, StepOK, [Next]_vars
    PROVE  lost \subseteq lost' /\ (~stained' => ~stained) /\ (~landed' => ~landed)
  <1> USE DEF engineVars, callerVars, worldVars, historyVars
  <1>1. CASE WorkSteps
    <2>1. landed' = landed
      BY <1>1, WorkIs
    <2>2. ~stained' => ~stained
      <3>1. stained' = stained \/ stained' = TRUE
        BY <1>1, ChainMoves
      <3> QED
        BY <3>1
    <2>3. Lose => lost \subseteq lost'
      BY DEF Lose
    <2>4. ASSUME NotEncodable \/ Swap \/ SwapReverts \/ Acquired \/ Measured \/ TooLittle \/ Pay
                 \/ PayReverts \/ Delivered
          PROVE  lost' = lost
      BY <2>4 DEF NotEncodable, Swap, SwapReverts, Acquired, Measured, TooLittle, Pay, PayReverts,
           Delivered
    <2>5. ASSUME SwapThrows \/ AcquiredThrows \/ PayThrows \/ DeliveredThrows
          PROVE  lost' = lost \/ Lose
      BY <2>5 DEF SwapThrows, AcquiredThrows, PayThrows, DeliveredThrows
    <2>6. ASSUME Unroutable \/ Approve \/ ApproveThrows \/ Snapshot \/ SnapshotFails \/ Estimate
                 \/ FillStarts \/ Unwind
          PROVE  lost' = lost
      BY <2>6 DEF Unroutable, Approve, ApproveThrows, Snapshot, SnapshotFails, Estimate, FillStarts,
           Unwind
    <2>7. lost \subseteq lost'
      BY <1>1, <2>3, <2>4, <2>5, <2>6 DEF WorkSteps, RunStep
    <2> QED
      BY <2>1, <2>2, <2>7
  <1>2. CASE EndTurn
    BY <1>2, EndTurnIs
  <1>3. ASSUME NEW q \in Quotes, QuoteSteps(q) PROVE UNCHANGED historyVars
    BY <1>3 DEF QuoteSteps, AskGas, AskUnknown, AskPayout, QuoteEnds, Remembered
  <1>4. ASSUME NEW o \in Orders, OrderAsks(o) PROVE UNCHANGED historyVars
    BY <1>4 DEF OrderAsks, AskDryRun, AskFill, AskPayoutOnly, Queue
  <1>5. CASE WorldSteps \/ Ended \/ UNCHANGED vars
    BY <1>5 DEF WorldSteps, Reshape, Forget, DepositLands, Expire, Ended, vars
  <1> QED
    BY <1>1, <1>2, <1>3, <1>4, <1>5, NextIs DEF TurnStep, WorkSteps

\* Only the task whose turn it is gets on.
LEMMA AtStays ==
    ASSUME TypeOK, [Next]_vars, ~WorkSteps, ~EndTurn
    PROVE  at' = at
  <1> USE DEF engineVars, callerVars, worldVars, historyVars
  <1>3. ASSUME NEW q \in Quotes, QuoteSteps(q) PROVE at' = at
    BY <1>3 DEF QuoteSteps, AskGas, AskUnknown, AskPayout, QuoteEnds, Remembered
  <1>4. ASSUME NEW o \in Orders, OrderAsks(o) PROVE at' = at
    BY <1>4 DEF OrderAsks, AskDryRun, AskFill, AskPayoutOnly, Queue
  <1>5. CASE WorldSteps \/ Ended \/ UNCHANGED vars
    BY <1>5 DEF WorldSteps, Reshape, Forget, DepositLands, Expire, Ended, vars
  <1> QED
    BY <1>3, <1>4, <1>5, NextIs DEF TurnStep, WorkSteps

\* What a step that is not of a turn leaves of the order in its turn.
LEMMA TurnStays ==
    ASSUME TypeOK, StepOK, [Next]_vars, ~WorkSteps, ~EndTurn
    PROVE  at' = at /\ (at.step \notin Waiting => \A o : InTurn(o)' <=> InTurn(o))
  <1>1. at' = at
    BY AtStays
  <1>2. CASE turn' = turn
    BY <1>1, <1>2 DEF InTurn, IsOrders, task
  <1>3. CASE UNCHANGED <<fork, at, saved>> /\ \E t \in Tasks : turn' = Append(turn, t)
    BY <1>1, <1>3, GrownTurn
  <1> QED
    BY <1>2, <1>3, TurnMoves

\* Neither the turn nor the chain moves for an order.
LEMMA Still ==
    ASSUME NEW o \in Orders, Known(o), chain'.did[o] = chain.did[o], fills'[o] = fills[o],
           at' = at, InTurn(o)' <=> InTurn(o)
    PROVE  Known(o)'
  <1>1. \A s, p : DidIs(o, s, p)' <=> DidIs(o, s, p)
    BY DEF DidIs
  <1>2. \A r : Truth(o, r)' <=> Truth(o, r)
    BY <1>1 DEF Truth, One
  <1> QED
    BY <1>1, <1>2 DEF Known, One, Truth

\* A step that is not of an order's turn leaves what the chain has of it.
LEMMA DidStays ==
    ASSUME TypeOK, StepOK, SnapOK, [Next]_vars, ~stained', NEW o \in Orders,
           WorkSteps => ~InTurn(o)
    PROVE  chain'.did[o] = chain.did[o] /\ chain'.made[o] = chain.made[o]
  <1>0. chain \in Account
    BY DEF TypeOK
  <1>1. CASE WorkSteps
    <2>1. turn # <<>>
      BY <1>1, WorkIs
    <2>2. ~InTurn(o)
      BY <1>1
    <2>3. ASSUME NEW r \in Routers, chain' = [chain EXCEPT !.allowed = @ \cup {r}]
          PROVE  chain'.did[o] = chain.did[o] /\ chain'.made[o] = chain.made[o]
      BY <1>0, <2>3 DEF Account
    <2>4. CASE Sent(chain')
      <3>1. PICK c : c = chain'
        OBVIOUS
      <3>2. c.did[o] = chain.did[o] /\ c.made[o] = chain.made[o]
        BY <2>1, <2>2, <2>4, <3>1, SentIs, TaskType DEF InTurn, IsOrders, Measuring, Kinds
      <3> QED
        BY <3>1, <3>2
    <2>5. saved # None => saved.did[o] = chain.did[o] /\ saved.made[o] = chain.made[o]
      BY <2>2 DEF SnapOK
    <2> QED
      BY <1>1, <2>3, <2>4, <2>5, ChainMoves
  <1>2. CASE ~WorkSteps
    <2>1. chain' = [chain EXCEPT !.balance = @ + 1] =>
            chain'.did[o] = chain.did[o] /\ chain'.made[o] = chain.made[o]
      BY <1>0 DEF Account
    <2> QED
      BY <1>2, <2>1, OtherMoves
  <1> QED
    BY <1>1, <1>2

\* The caller is told what the turn came to.
LEMMA EndTurnFills ==
    ASSUME TypeOK, TasksOK, StepOK, NEW o \in Orders, fills[o].at \in {"fill", "retry"}, Known(o),
           EndTurn, chain'.did[o] = chain.did[o]
    PROVE  Known(o)'
  <1>1. at.step = "done" /\ at' = Idle /\ at'.step \in Waiting
    BY EndTurnIs, IdleIs DEF Waiting
  <1>2. CASE InTurn(o)
    <2>1. task.by = o /\ ~Measuring /\ Truth(o, at.result)
      BY <1>1, <1>2, FillTurn
    <2>2. at.result # None
      BY <1>1 DEF StepOK, Over
    <2>3. fills'[o].at = fills[o].at /\ fills'[o].result = at.result
      BY <2>1, EndTurnIs
    <2>4. \A s, p : DidIs(o, s, p)' <=> DidIs(o, s, p)
      BY DEF DidIs
    <2>5. PICK r : r = at.result
      OBVIOUS
    <2>6. Truth(o, r)'
      BY <2>1, <2>3, <2>4, <2>5 DEF Truth, One
    <2>7. fills[o].at = "retry" => RouteOf[o] # Pure
      BY DEF Known
    <2>8. Truth(o, fills[o].result)' /\ fills'[o].result # None
      BY <2>2, <2>3, <2>5, <2>6 DEF Truth
    <2> QED
      BY <2>3, <2>7, <2>8 DEF Known
  <1>3. CASE ~InTurn(o)
    <2>1. ~Measuring => task.by # o
      BY <1>3, EndTurnIs DEF InTurn
    <2>2. fills'[o] = fills[o]
      BY <2>1, EndTurnIs
    <2> QED
      BY <1>1, <1>3, <2>2, Bystander
  <1> QED
    BY <1>2, <1>3

\* A fill begins with nothing done, the payout alone with the swap done.
LEMMA AskedFills ==
    ASSUME TypeOK, TasksOK, StepOK, Clean, SnapOK, NEW o \in Orders,
           fills[o].at \in {"fill", "retry"} => Known(o), [Next]_vars,
           AskFill(o) \/ AskPayoutOnly(o), ~stained'
    PROVE  Known(o)'
  <1>1. OrderAsks(o) /\ fills[o].result # None
    BY DEF OrderAsks, AskFill, AskPayoutOnly
  <1>2. ~InTurn(o)
    BY <1>1, InTurnFills
  <1>3. /\ UNCHANGED <<fork, chain, saved, at>>
        /\ \E t \in Tasks : turn' = Append(turn, t)
    BY <1>1, OrderAskIs, QueueIs
  <1>4. at.step \notin Waiting => ~InTurn(o)'
    BY <1>2, <1>3, GrownTurn
  <1>5. \A s, p : DidIs(o, s, p)' <=> DidIs(o, s, p)
    BY <1>3 DEF DidIs
  <1>6. fills \in [Orders -> [at : Stages, result : Results \cup {None}]]
    BY DEF TypeOK
  <1>7. CASE AskFill(o)
    <2>1. fills' = [fills EXCEPT ![o] = [at |-> "fill", result |-> None]] /\ fills[o].at = "dry run"
      BY <1>7 DEF AskFill, Queue
    <2>2. fills'[o].at = "fill" /\ fills'[o].result = None
      BY <1>6, <2>1
    <2>3. Real.did[o] = Untouched
      BY <2>1, HistoryStays DEF Clean
    <2>4. Real.did[o] = chain.did[o]
      BY <1>2 DEF Real, SnapOK
    <2>5. DidIs(o, 0, 0)'
      BY <1>5, <2>3, <2>4 DEF DidIs, Untouched
    <2> QED
      BY <1>3, <1>4, <2>2, <2>5 DEF Known, Waiting
  <1>8. CASE AskPayoutOnly(o)
    <2>1. /\ fills' = [fills EXCEPT ![o] = [at |-> "retry", result |-> None]]
          /\ fills[o].at = "fill"
          /\ fills[o].result.reason = "PAYOUT_FAILED" /\ fills[o].result.swapped # None
      BY <1>8 DEF AskPayoutOnly, Queue
    <2>2. fills'[o].at = "retry" /\ fills'[o].result = None
      BY <1>6, <2>1
    <2>3. Truth(o, fills[o].result)
      BY <1>1, <2>1 DEF Known
    <2>4. RouteOf[o] # Pure /\ DidIs(o, 1, 0)
      BY <2>1, <2>3 DEF Truth
    <2>5. DidIs(o, 1, 0)'
      BY <1>5, <2>4
    <2> QED
      BY <1>3, <1>4, <2>2, <2>4, <2>5 DEF Known, Waiting
  <1> QED
    BY <1>7, <1>8

\* Every step keeps what is known of the fills.
LEMMA NextFills ==
    ASSUME TypeOK, TasksOK, StepOK, Clean, SnapOK, FillsOK, [Next]_vars
    PROVE  FillsOK'
  <1> SUFFICES ASSUME ~stained', NEW o \in Orders, o \notin lost', fills'[o].at \in {"fill", "retry"}
               PROVE  Known(o)'
    BY DEF FillsOK
  <1>1. fills[o].at \in {"fill", "retry"} => Known(o)
    BY HistoryStays DEF FillsOK
  <1>2. CASE WorkSteps
    <2>1. UNCHANGED <<turn, fills>>
      BY <1>2, WorkIs DEF callerVars
    <2>2. CASE InTurn(o)
      BY <1>1, <1>2, <2>1, <2>2, OwnFill
    <2>3. CASE ~InTurn(o)
      <3>1. ~InTurn(o)' /\ chain'.did[o] = chain.did[o]
        BY <2>1, <2>3, DidStays DEF InTurn, IsOrders, task
      <3> QED
        BY <1>1, <2>1, <2>3, <3>1, Bystander
    <2> QED
      BY <2>2, <2>3
  <1>3. CASE ~WorkSteps /\ EndTurn
    <2>1. chain'.did[o] = chain.did[o] /\ fills'[o].at = fills[o].at
      BY <1>3, DidStays, EndTurnIs
    <2> QED
      BY <1>1, <1>3, <2>1, EndTurnFills
  <1>4. CASE ~WorkSteps /\ ~EndTurn /\ fills'[o] = fills[o]
    <2>1. chain'.did[o] = chain.did[o] /\ at' = at
      BY <1>4, DidStays, TurnStays
    <2>2. CASE at.step \in Waiting
      BY <1>1, <1>4, <2>1, <2>2, Bystander
    <2>3. CASE at.step \notin Waiting
      <3>1. InTurn(o)' <=> InTurn(o)
        BY <1>4, <2>3, TurnStays
      <3> QED
        BY <1>1, <1>4, <2>1, <3>1, Still
    <2> QED
      BY <2>2, <2>3
  <1>5. CASE ~EndTurn /\ fills'[o] # fills[o]
    <2>1. PICK p \in Orders : OrderAsks(p)
      BY <1>5, FillsMove
    <2>2. \E where : fills' = [fills EXCEPT ![p] = [at |-> where, result |-> None]]
      BY <2>1 DEF OrderAsks, AskDryRun, AskFill, AskPayoutOnly, Queue
    <2>3. p = o
      BY <1>5, <2>2 DEF TypeOK
    <2>4. ~AskDryRun(o)
      <3>1. ASSUME AskDryRun(o) PROVE fills'[o].at = "dry run"
        BY <3>1 DEF AskDryRun, Queue, TypeOK
      <3> QED
        BY <3>1
    <2>5. AskFill(o) \/ AskPayoutOnly(o)
      BY <2>1, <2>3, <2>4 DEF OrderAsks
    <2> QED
      BY <1>1, <2>5, AskedFills
  <1> QED
    BY <1>2, <1>3, <1>4, <1>5

-----------------------------------------------------------------------------
(* What the swaps made.                                                    *)

\* Nothing of an order moves.
LEMMA MadeBystander ==
    ASSUME NEW o \in Orders, MadeKnown(o),
           chain'.made[o] = chain.made[o], fills'[o] = fills[o],
           ~InTurn(o) \/ at.step \in Waiting \cup {"run"},
           ~InTurn(o)' \/ at'.step \in Waiting \cup {"run"}
    PROVE  MadeKnown(o)'
  BY DEF MadeKnown, MadeTruth, Waiting

\* A fill whose task has its result.
LEMMA MadeConcluded ==
    ASSUME NEW o \in Orders, fills'[o] = fills[o], fills[o].result = None,
           fills[o].at = "retry" => chain'.made[o] >= Quoted,
           InTurn(o)', at'.step = "done", MadeTruth(o, at.result)'
    PROVE  MadeKnown(o)'
  BY DEF MadeKnown, Waiting

\* A fill in its turn.
LEMMA FillIs ==
    ASSUME TypeOK, TasksOK, StepOK, NEW o \in Orders, InTurn(o), fills[o].at \in {"fill", "retry"}
    PROVE  /\ turn # <<>> /\ task.by = o /\ task.kind = "fill" /\ ~Measuring
           /\ fills[o].result = None /\ saved = None /\ at.step # "unwind"
           /\ at.step \in Waiting \cup {"run"} => at.swapped = None
           /\ at.step \in {"swapped", "acquired"} => fills[o].at = "fill"
           /\ fills[o].at = "fill" => task.route = RouteOf[o]
           /\ fills[o].at = "retry" => task.route = Pure
  <1>1. /\ turn # <<>> /\ task.by = o /\ task.kind = "fill" /\ ~Measuring
        /\ fills[o].result = None
        /\ fills[o].at = "fill" => task.route = RouteOf[o]
        /\ fills[o].at = "retry" => task.route = Pure
    BY InTurnFills
  <1>2. saved = None /\ at.step # "unwind"
    BY <1>1 DEF StepOK, TypeOK, Ats, Waiting, Inside, Over
  <1>3. /\ at.step \in {"swapped", "acquired"} => task.route # Pure
        /\ at.step \in Waiting \cup {"run"} => at.swapped = None
    BY DEF StepOK, HasLegs
  <1> QED
    BY <1>1, <1>2, <1>3

\* A fill that finishes without another transaction.
LEMMA MadeFinishes ==
    ASSUME TypeOK, TasksOK, StepOK, NEW o \in Orders, InTurn(o), fills[o].at \in {"fill", "retry"},
           MadeKnown(o), NEW ok \in BOOLEAN, NEW reason \in Reasons, Finish(ok, reason),
           UNCHANGED <<turn, fills, chain, saved>>,
           at.step \in Waiting \cup {"run", "acquired", "paid"},
           ok <=> at.step = "paid",
           reason = "PAYOUT_FAILED" /\ HasLegs => at.acquired >= Quoted
    PROVE  MadeKnown(o)'
  <1>0. fills[o].result = None
    BY FillIs
  <1>1. /\ at'.step = "done"
        /\ at'.result.ok = ok /\ at'.result.reason = reason /\ at'.result.swapped = at.swapped
    BY FillIs, FinishIs
  <1>2. InTurn(o)'
    BY DEF InTurn, IsOrders, task
  <1>3. MadeTruth(o, at.result)'
    <2>1. CASE at.step \in Waiting \cup {"run"}
      <3>1. ~at'.result.ok /\ at'.result.swapped = None
        BY <1>1, <2>1, FillIs DEF Waiting
      <3> QED
        BY <3>1 DEF MadeTruth
    <2>2. CASE at.step = "acquired"
      <3>1. ~at'.result.ok /\ at.swapped = chain.made[o]
        BY <1>0, <1>1, <2>2 DEF MadeKnown
      <3>2. at.swapped = at.acquired /\ HasLegs
        BY <2>2 DEF StepOK
      <3> QED
        BY <1>1, <3>1, <3>2 DEF MadeTruth
    <2>3. CASE at.step = "paid"
      <3>1. /\ at.swapped # None => at.swapped = chain.made[o]
            /\ RouteOf[o] # Pure => chain.made[o] >= Quoted
        BY <1>0, <2>3 DEF MadeKnown
      <3> QED
        BY <1>1, <3>1 DEF MadeTruth
    <2> QED
      BY <2>1, <2>2, <2>3
  <1>4. fills[o].at = "retry" => chain'.made[o] >= Quoted
    BY <1>0 DEF MadeKnown
  <1> QED
    BY <1>0, <1>1, <1>2, <1>3, <1>4, MadeConcluded

\* Every step of the turn of a fill.
LEMMA MadeOwn ==
    ASSUME TypeOK, TasksOK, StepOK, NEW o \in Orders, InTurn(o), fills[o].at \in {"fill", "retry"},
           MadeKnown(o), WorkSteps, o \notin lost'
    PROVE  MadeKnown(o)'
  <1> USE DEF historyVars
  <1>0. /\ turn # <<>> /\ task.by = o /\ task.kind = "fill" /\ ~Measuring
        /\ fills[o].result = None /\ saved = None /\ at.step # "unwind"
    BY FillIs
  <1>1. UNCHANGED <<turn, fills>> /\ at \in Ats /\ chain \in Account
    BY WorkIs DEF callerVars, TypeOK
  <1>2. InTurn(o)'
    BY <1>1 DEF InTurn, IsOrders, task
  <1>3. ~Lose
    BY <1>0 DEF Lose
  <1>4. ASSUME NEW ok \in BOOLEAN, NEW reason \in Reasons, Finish(ok, reason),
               UNCHANGED <<chain, saved>>,
               at.step \in Waiting \cup {"run", "acquired", "paid"},
               ok <=> at.step = "paid",
               reason = "PAYOUT_FAILED" /\ HasLegs => at.acquired >= Quoted
        PROVE  MadeKnown(o)'
    BY <1>1, <1>4, MadeFinishes
  <1>5. CASE Unroutable \/ ApproveThrows
    BY <1>4, <1>5, ReasonsAre DEF Unroutable, ApproveThrows, Running, Waiting
  <1>6. CASE SnapshotFails \/ Estimate \/ Snapshot \/ Measured \/ AcquiredThrows \/ DeliveredThrows
             \/ Unwind
    BY <1>0, <1>3, <1>6 DEF SnapshotFails, Estimate, Snapshot, Measured, OnSnapshot, AcquiredThrows,
       DeliveredThrows, Unwind, Running
  <1>7. CASE NotEncodable \/ SwapReverts
    BY <1>4, <1>7, ReasonsAre DEF NotEncodable, SwapReverts, Running
  <1>8. CASE SwapThrows
    BY <1>3, <1>4, <1>8, ReasonsAre DEF SwapThrows, Running
  <1>9. CASE TooLittle
    BY <1>4, <1>9, ReasonsAre DEF TooLittle, ToPay, Running
  <1>10. CASE PayReverts
    BY <1>4, <1>10, ReasonsAre DEF PayReverts, Paying, ToPay, Running
  <1>11. CASE PayThrows
    <2>1. Caught \in Reasons
      BY ReasonsAre DEF Caught
    <2> QED
      BY <1>3, <1>4, <1>11, <2>1 DEF PayThrows, Paying, ToPay, Running
  <1>12. CASE Delivered
    BY <1>4, <1>12, ReasonsAre DEF Delivered, Running
  <1>13. CASE Approve \/ FillStarts
    <2>1. at.step \in Waiting /\ at'.step \in Waiting \cup {"run"}
      BY <1>13, GotoIs DEF Approve, FillStarts, Running, Waiting, Inside
    <2>2. chain'.made = chain.made
      <3>1. \/ chain' = chain
            \/ \E r : chain' = [chain EXCEPT !.allowed = @ \cup {r}]
        BY <1>13 DEF Approve, FillStarts, Allow
      <3> QED
        BY <1>1, <3>1 DEF Account
    <2> QED
      BY <1>1, <2>1, <2>2, MadeBystander
  <1>14. CASE Swap
    <2>1. /\ at.step = "run" /\ task.route # Pure
          /\ at'.step = "swapped" /\ at'.before = chain.balance
      BY <1>1, <1>14 DEF Swap, Running, HasLegs, Ats
    <2>2. fills[o].at = "fill" /\ chain.made[o] = 0
      BY <1>0, <2>1, FillIs DEF MadeKnown
    <2>3. PICK made \in Int : chain' = Did("swap", made)
      BY <1>14, MadeIs DEF Swap
    <2>4. PICK c : c = chain'
      OBVIOUS
    <2>5. c.balance = chain.balance + made /\ c.made[o] = chain.made[o] + made
      BY <1>0, <2>3, <2>4, DidIt
    <2>6. chain.balance \in Int
      BY GainIs
    <2>7. c.balance - at'.before = c.made[o]
      BY <2>1, <2>2, <2>5, <2>6
    <2> QED
      BY <1>0, <1>1, <1>2, <2>1, <2>2, <2>4, <2>7 DEF MadeKnown, Waiting
  <1>15. CASE Acquired
    <2>1. /\ at.step = "swapped" /\ chain' = chain
          /\ at'.step = "acquired" /\ at'.swapped = chain.balance - at.before
      BY <1>1, <1>15 DEF Acquired, Running, Ats
    <2>2. fills[o].at = "fill" /\ chain.balance - at.before = chain.made[o]
      BY <1>0, <2>1, FillIs DEF MadeKnown
    <2> QED
      BY <1>0, <1>1, <1>2, <2>1, <2>2 DEF MadeKnown, Waiting
  <1>16. CASE Pay
    <2>1. at'.step = "paid" /\ at'.swapped = at.swapped /\ ToPay
          /\ (HasLegs => at.acquired >= Quoted)
      BY <1>16, GotoIs DEF Pay, Paying, Inside
    <2>2. chain' = Did("pay", - Quoted)
      BY <1>16 DEF Pay
    <2>3. PICK c : c = chain'
      OBVIOUS
    <2>4. c.made = chain.made
      BY <1>0, <2>2, <2>3, MadeIs, DidIt
    <2>5. /\ at.swapped # None => at.swapped = chain.made[o]
          /\ RouteOf[o] # Pure => chain.made[o] >= Quoted
      <3>1. CASE at.step = "acquired"
        <4>1. at.swapped = chain.made[o]
          BY <1>0, <3>1 DEF MadeKnown
        <4>2. at.swapped = at.acquired /\ HasLegs
          BY <3>1 DEF StepOK
        <4> QED
          BY <2>1, <4>1, <4>2
      <3>2. CASE at.step = "run" /\ ~HasLegs
        <4>1. at.swapped = None /\ task.route = Pure
          BY <3>2, FillIs DEF HasLegs
        <4>2. RouteOf[o] # Pure => fills[o].at = "retry"
          BY <4>1, FillIs
        <4> QED
          BY <1>0, <4>1, <4>2 DEF MadeKnown
      <3> QED
        BY <2>1, <3>1, <3>2 DEF ToPay, Running
    <2>6. fills[o].at = "retry" => chain.made[o] >= Quoted
      BY <1>0 DEF MadeKnown
    <2> QED
      BY <1>0, <1>1, <1>2, <2>1, <2>3, <2>4, <2>5, <2>6 DEF MadeKnown, Waiting
  <1> QED
    BY <1>5, <1>6, <1>7, <1>8, <1>9, <1>10, <1>11, <1>12, <1>13, <1>14, <1>15, <1>16
       DEF WorkSteps, RunStep

\* Neither the turn nor the chain moves for an order.
LEMMA MadeStill ==
    ASSUME NEW o \in Orders, MadeKnown(o), chain' = chain, fills'[o] = fills[o],
           at' = at, InTurn(o)' <=> InTurn(o)
    PROVE  MadeKnown(o)'
  BY DEF MadeKnown, MadeTruth

\* The caller is told what the turn came to.
LEMMA EndTurnMade ==
    ASSUME TypeOK, TasksOK, StepOK, NEW o \in Orders, fills[o].at \in {"fill", "retry"},
           MadeKnown(o), EndTurn, chain' = chain
    PROVE  MadeKnown(o)'
  <1>1. at.step = "done" /\ at' = Idle /\ at'.step \in Waiting
    BY EndTurnIs, IdleIs DEF Waiting
  <1>2. CASE InTurn(o)
    <2>1. task.by = o /\ ~Measuring /\ MadeTruth(o, at.result)
      BY <1>1, <1>2, FillIs DEF MadeKnown
    <2>2. at.result # None
      BY <1>1 DEF StepOK, Over
    <2>3. fills'[o].at = fills[o].at /\ fills'[o].result = at.result
      BY <2>1, EndTurnIs
    <2>4. MadeTruth(o, fills[o].result)' /\ fills'[o].result # None
      BY <2>1, <2>2, <2>3 DEF MadeTruth
    <2> QED
      BY <2>4 DEF MadeKnown
  <1>3. CASE ~InTurn(o)
    <2>1. ~Measuring => task.by # o
      BY <1>3, EndTurnIs DEF InTurn
    <2>2. fills'[o] = fills[o]
      BY <2>1, EndTurnIs
    <2> QED
      BY <1>1, <1>3, <2>2, MadeBystander
  <1> QED
    BY <1>2, <1>3

\* A fill begins with nothing made, the payout alone with enough to pay with.
LEMMA AskedMade ==
    ASSUME TypeOK, TasksOK, StepOK, Clean, SnapOK, NEW o \in Orders,
           fills[o].at \in {"fill", "retry"} => MadeKnown(o) /\ Known(o), [Next]_vars,
           AskFill(o) \/ AskPayoutOnly(o), ~stained'
    PROVE  MadeKnown(o)'
  <1>1. OrderAsks(o) /\ fills[o].result # None
    BY DEF OrderAsks, AskFill, AskPayoutOnly
  <1>2. ~InTurn(o)
    BY <1>1, InTurnFills
  <1>3. /\ UNCHANGED <<fork, chain, saved, at>>
        /\ \E t \in Tasks : turn' = Append(turn, t)
    BY <1>1, OrderAskIs, QueueIs
  <1>4. at.step \notin Waiting => ~InTurn(o)'
    BY <1>2, <1>3, GrownTurn
  <1>6. fills \in [Orders -> [at : Stages, result : Results \cup {None}]]
    BY DEF TypeOK
  <1>7. CASE AskFill(o)
    <2>1. fills' = [fills EXCEPT ![o] = [at |-> "fill", result |-> None]] /\ fills[o].at = "dry run"
      BY <1>7 DEF AskFill, Queue
    <2>2. fills'[o].at = "fill" /\ fills'[o].result = None
      BY <1>6, <2>1
    <2>3. Real.made[o] = 0
      BY <2>1, HistoryStays DEF Clean
    <2>4. Real.made[o] = chain.made[o]
      BY <1>2 DEF Real, SnapOK
    <2> QED
      BY <1>3, <1>4, <2>2, <2>3, <2>4 DEF MadeKnown, Waiting
  <1>8. CASE AskPayoutOnly(o)
    <2>1. /\ fills' = [fills EXCEPT ![o] = [at |-> "retry", result |-> None]]
          /\ fills[o].at = "fill"
          /\ fills[o].result.reason = "PAYOUT_FAILED" /\ fills[o].result.swapped # None
      BY <1>8 DEF AskPayoutOnly, Queue
    <2>2. fills'[o].at = "retry" /\ fills'[o].result = None
      BY <1>6, <2>1
    <2>3. MadeTruth(o, fills[o].result) /\ Truth(o, fills[o].result)
      BY <1>1, <2>1 DEF MadeKnown, Known
    <2>4. chain.made[o] >= Quoted
      BY <2>1, <2>3 DEF MadeTruth, Truth
    <2> QED
      BY <1>3, <1>4, <2>2, <2>4 DEF MadeKnown, Waiting
  <1> QED
    BY <1>7, <1>8

\* Every step keeps what is known of the swaps.
LEMMA NextMade ==
    ASSUME TypeOK, TasksOK, StepOK, Clean, SnapOK, FillsOK, MadeOK, [Next]_vars
    PROVE  MadeOK'
  <1> SUFFICES ASSUME ~stained', ~landed', NEW o \in Orders, o \notin lost',
                      fills'[o].at \in {"fill", "retry"}
               PROVE  MadeKnown(o)'
    BY DEF MadeOK
  <1>1. fills[o].at \in {"fill", "retry"} => MadeKnown(o) /\ Known(o)
    BY HistoryStays DEF MadeOK, FillsOK
  <1>2. CASE WorkSteps
    <2>1. UNCHANGED <<turn, fills>>
      BY <1>2, WorkIs DEF callerVars
    <2>2. CASE InTurn(o)
      BY <1>1, <1>2, <2>1, <2>2, MadeOwn
    <2>3. CASE ~InTurn(o)
      <3>1. ~InTurn(o)' /\ chain'.made[o] = chain.made[o]
        BY <2>1, <2>3, DidStays DEF InTurn, IsOrders, task
      <3> QED
        BY <1>1, <2>1, <2>3, <3>1, MadeBystander
    <2> QED
      BY <2>2, <2>3
  <1>3. ~WorkSteps => chain' = chain
    BY OtherMoves
  <1>4. CASE ~WorkSteps /\ EndTurn
    <2>1. fills'[o].at = fills[o].at
      BY <1>4, EndTurnIs
    <2> QED
      BY <1>1, <1>3, <1>4, <2>1, EndTurnMade
  <1>5. CASE ~WorkSteps /\ ~EndTurn /\ fills'[o] = fills[o]
    <2>1. at' = at
      BY <1>5, TurnStays
    <2>2. CASE at.step \in Waiting
      BY <1>1, <1>3, <1>5, <2>1, <2>2, MadeBystander
    <2>3. CASE at.step \notin Waiting
      <3>1. InTurn(o)' <=> InTurn(o)
        BY <1>5, <2>3, TurnStays
      <3> QED
        BY <1>1, <1>3, <1>5, <2>1, <3>1, MadeStill
    <2> QED
      BY <2>2, <2>3
  <1>6. CASE ~WorkSteps /\ ~EndTurn /\ fills'[o] # fills[o]
    <2>1. PICK p \in Orders : OrderAsks(p)
      BY <1>6, FillsMove
    <2>2. \E where : fills' = [fills EXCEPT ![p] = [at |-> where, result |-> None]]
      BY <2>1 DEF OrderAsks, AskDryRun, AskFill, AskPayoutOnly, Queue
    <2>3. p = o
      BY <1>6, <2>2 DEF TypeOK
    <2>4. ~AskDryRun(o)
      <3>1. ASSUME AskDryRun(o) PROVE fills'[o].at = "dry run"
        BY <3>1 DEF AskDryRun, Queue, TypeOK
      <3> QED
        BY <3>1
    <2>5. AskFill(o) \/ AskPayoutOnly(o)
      BY <2>1, <2>3, <2>4 DEF OrderAsks
    <2> QED
      BY <1>1, <2>5, AskedMade
  <1> QED
    BY <1>2, <1>4, <1>5, <1>6

-----------------------------------------------------------------------------
(* What the account must hold.                                             *)

\* Only so many orders have begun.
LEMMA NextFinite == ASSUME TypeOK, Finite, [Next]_vars PROVE Finite'
  <1>1. CASE fills' = fills
    BY <1>1 DEF Finite, Begun
  <1>2. CASE EndTurn
    <2>1. \A o \in Orders : fills'[o].at = fills[o].at
      BY <1>2, EndTurnIs
    <2>2. Begun' = Begun
      BY <2>1 DEF Begun
    <2> QED
      BY <2>2 DEF Finite
  <1>3. ASSUME NEW o \in Orders, OrderAsks(o) PROVE Finite'
    <2>1. \E where : fills' = [fills EXCEPT ![o] = [at |-> where, result |-> None]]
      BY <1>3 DEF OrderAsks, AskDryRun, AskFill, AskPayoutOnly, Queue
    <2>2. \A p \in Orders : p # o => fills'[p] = fills[p]
      BY <2>1 DEF TypeOK
    <2>3. Begun' \in SUBSET (Begun \cup {o})
      BY <2>2 DEF Begun
    <2>4. IsFiniteSet(Begun \cup {o})
      BY FS_AddElement DEF Finite
    <2>5. IsFiniteSet(Begun')
      BY <2>3, <2>4, FS_Subset
    <2> QED
      BY <2>5 DEF Finite
  <1> QED
    BY <1>1, <1>2, <1>3, FillsMove

\* What the account must hold with so many swaps not paid out.
LEMMA FloorIs ==
    ASSUME Finite
    PROVE  /\ IsFiniteSet(Owed) /\ Cardinality(Owed) \in Nat
           /\ Floor \in Int /\ Floor >= Quoted
  <1>1. Owed \in SUBSET Begun
    BY DEF Owed, Begun
  <1>2. IsFiniteSet(Owed)
    BY <1>1, FS_Subset DEF Finite
  <1>3. Cardinality(Owed) \in Nat
    BY <1>2, FS_CardinalityType
  <1>4. \A q, n \in Nat : q * n \in Nat
    OBVIOUS
  <1> QED
    BY <1>2, <1>3, <1>4, MadeIs DEF Floor

\* One order more or less of those owed.
LEMMA FloorMoves ==
    ASSUME Finite, Finite', NEW o
    PROVE  /\ Owed' = Owed => Floor' = Floor
           /\ o \in Owed /\ Owed' = Owed \ {o} => Floor' = Floor - Quoted
           /\ o \notin Owed /\ Owed' = Owed \cup {o} => Floor' = Floor + Quoted
  <1>1. IsFiniteSet(Owed) /\ Cardinality(Owed) \in Nat /\ Quoted \in Nat
    BY FloorIs, MadeIs
  <1>2. \A q, n \in Int : q * (n + 1) = q * n + q /\ q * (n - 1) = q * n - q /\ q * n \in Int
    OBVIOUS
  <1> DEFINE n == Cardinality(Owed)
             f == Quoted * n
  <1>3. n \in Int /\ Quoted \in Int /\ f \in Int /\ Floor = Quoted + f
        /\ Quoted * (n + 1) = f + Quoted /\ Quoted * (n - 1) = f - Quoted
    BY <1>1, <1>2 DEF Floor
  <1>4. Floor' = Quoted + Quoted * Cardinality(Owed')
    BY DEF Floor
  <1>5. Cardinality(Owed') = n => Floor' = Floor
    BY <1>3, <1>4
  <1>6. Cardinality(Owed') = n - 1 => Floor' = Floor - Quoted
    <2> HIDE DEF n, f
    <2> QED
      BY <1>3, <1>4
  <1>7. Cardinality(Owed') = n + 1 => Floor' = Floor + Quoted
    <2> HIDE DEF n, f
    <2> QED
      BY <1>3, <1>4
  <1>8. o \in Owed => Cardinality(Owed \ {o}) = n - 1
    BY <1>1, FS_RemoveElement
  <1>9. o \notin Owed => Cardinality(Owed \cup {o}) = n + 1
    BY <1>1, FS_AddElement
  <1> QED
    BY <1>5, <1>6, <1>7, <1>8, <1>9

\* A measurement or a dry run leaves the account as it was, once it is undone.
LEMMA RealStays ==
    ASSUME TypeOK, StepOK, WorkSteps, ~stained', task.kind # "fill"
    PROVE  Real'.balance = Real.balance /\ Real'.did = Real.did
  <1>0. chain \in Account
    BY DEF TypeOK
  <1>1. ASSUME NEW r \in Routers, chain' = [chain EXCEPT !.allowed = @ \cup {r}]
        PROVE  chain'.balance = chain.balance /\ chain'.did = chain.did
    BY <1>0, <1>1 DEF Account
  <1>2. at.step \in Inside => saved # None
    BY DEF StepOK
  <1> QED
    BY <1>1, <1>2, ChainMoves DEF Real

\* What no step of a turn but its end can change: who is owed, but for the
\* order being paid.
LEMMA OwedStays ==
    ASSUME UNCHANGED fills,
           NEW o, \A p \in Orders \ {o} : Real'.did[p].pays = Real.did[p].pays
    PROVE  /\ Owed' \ {o} = Owed \ {o}
           /\ (o \in Owed' <=> o \in Owed) => Owed' = Owed
           /\ o \notin Owed' /\ o \in Owed => Owed' = Owed \ {o}
  <1>1. \A p \in Orders \ {o} : p \in Owed' <=> p \in Owed
    BY DEF Owed
  <1>2. Owed \subseteq Orders /\ Owed' \subseteq Orders
    BY DEF Owed
  <1> HIDE DEF Owed
  <1> DEFINE S == Owed
             T == Owed'
  <1>3. \A p \in Orders \ {o} : p \in T <=> p \in S
    BY <1>1
  <1>4. S \subseteq Orders /\ T \subseteq Orders
    BY <1>2
  <1> HIDE DEF S, T
  <1>5. /\ T \ {o} = S \ {o}
        /\ (o \in T <=> o \in S) => T = S
        /\ o \notin T /\ o \in S => T = S \ {o}
    BY <1>3, <1>4
  <1> QED
    BY <1>5 DEF S, T

\* The states FundsOK speaks of, and what it says of them.
Telling == (\A o \in Orders : RouteOf[o] # Pure) /\ ~landed /\ ~stained /\ lost = {}
Funds ==
    /\ Real.balance >= Floor
    /\ Filling /\ at.step = "swapped" => at.before >= Floor /\ chain.balance >= at.before
    /\ Filling /\ at.step = "acquired" => chain.balance >= Floor + at.acquired
    /\ Filling /\ at.step = "done" /\ at.result.reason = "PAYOUT_FAILED" /\ at.result.swapped # None =>
          chain.balance >= Floor + Quoted

\* The two forms of what the account must hold.
LEMMA FundsAre == FundsOK <=> (Telling => Funds)
  BY DEF FundsOK, Telling, Funds

\* Balances are numbers.
LEMMA BalanceIs ==
    ASSUME TypeOK
    PROVE  chain.balance \in Int /\ Real.balance \in Int /\ at.before \in Int /\ at.acquired \in Int
  BY DEF TypeOK, Real, Account, Ats

\* A measurement or a dry run has its turn.
LEMMA ProbeFunds ==
    ASSUME TypeOK, StepOK, Funds, WorkSteps, ~stained', task.kind # "fill", Finite, Finite'
    PROVE  Funds'
  <1>1. Real'.balance = Real.balance /\ Real'.did = Real.did
    BY RealStays
  <1>2. UNCHANGED <<turn, fills>>
    BY WorkIs DEF callerVars
  <1>3. Owed' = Owed
    BY <1>1, <1>2 DEF Owed
  <1>4. Floor' = Floor
    BY <1>3 DEF Floor
  <1>5. ~Filling'
    BY <1>2 DEF Filling, task
  <1>6. Real.balance >= Floor
    BY DEF Funds
  <1> QED
    BY <1>1, <1>4, <1>5, <1>6 DEF Funds

\* The payout alone has its turn: it pays what was owed to its order.
LEMMA RetryFunds ==
    ASSUME TypeOK, TasksOK, StepOK, Funds, WorkSteps, lost' = {}, Finite, Finite',
           NEW o \in Orders, InTurn(o), fills[o].at = "retry", Known(o)
    PROVE  Funds'
  <1> USE DEF historyVars
  <1>0. /\ turn # <<>> /\ task.by = o /\ task.kind = "fill" /\ ~Measuring /\ saved = None
        /\ at.step # "unwind" /\ task.route = Pure
        /\ at.step \in Waiting \cup {"run"} => DidIs(o, 1, 0)
    BY FillTurn
  <1>1. UNCHANGED <<turn, fills>>
    BY WorkIs DEF callerVars
  <1>2. ~Filling /\ ~Filling'
    BY <1>0, <1>1 DEF Filling, task
  <1>3. Real.balance >= Floor /\ Real.balance \in Int /\ Floor \in Int /\ Quoted \in Int
    BY BalanceIs, FloorIs, MadeIs DEF Funds
  <1>4. saved' = None
    BY <1>0 DEF WorkSteps, RunStep, Unroutable, Approve, ApproveThrows, Snapshot, OnSnapshot,
       SnapshotFails, Estimate, FillStarts, NotEncodable, Swap, SwapReverts, SwapThrows, Acquired,
       AcquiredThrows, Measured, TooLittle, Pay, PayReverts, PayThrows, Delivered, DeliveredThrows,
       Unwind
  <1>5. Real = chain /\ Real' = chain'
    BY <1>0, <1>4 DEF Real
  <1>6. CASE chain'.balance = chain.balance /\ chain'.did = chain.did
    <2>1. Owed' = Owed
      BY <1>1, <1>5, <1>6 DEF Owed
    <2>2. Floor' = Floor
      BY <2>1 DEF Floor
    <2> QED
      BY <1>2, <1>3, <1>5, <1>6, <2>2 DEF Funds
  <1>7. CASE Pay
    <2>1. chain' = Did("pay", - Quoted)
      BY <1>7 DEF Pay
    <2>2. DidIs(o, 1, 0)
      BY <1>0, <1>7 DEF Pay, Paying, ToPay, Running, StepOK, HasLegs
    <2>3. PICK c : c = chain'
      OBVIOUS
    <2>4. /\ c.balance = chain.balance + (- Quoted)
          /\ \A p \in Orders : p # o => c.did[p] = chain.did[p]
          /\ c.did[o].pays = chain.did[o].pays + 1
      BY <1>0, <2>1, <2>3, MadeIs, DidIt
    <2>5. chain.did[o].pays = 0
      BY <2>2 DEF DidIs
    <2>6. o \in Owed /\ o \notin Owed'
      BY <1>1, <1>5, <2>3, <2>4, <2>5 DEF Owed
    <2>7. \A p \in Orders \ {o} : Real'.did[p].pays = Real.did[p].pays
      BY <1>5, <2>3, <2>4
    <2>8. Floor' = Floor - Quoted
      BY <1>1, <2>6, <2>7, OwedStays, FloorMoves
    <2> QED
      BY <1>2, <1>3, <1>5, <2>3, <2>4, <2>8 DEF Funds
  <1>8. ~Lose
    BY <1>0 DEF Lose
  <1>9. CASE Approve
    <2>1. chain \in Account
      BY DEF TypeOK
    <2>2. \/ chain' = chain
          \/ \E r : chain' = [chain EXCEPT !.allowed = @ \cup {r}]
      BY <1>9 DEF Approve, Allow
    <2>3. chain'.balance = chain.balance /\ chain'.did = chain.did
      BY <2>1, <2>2 DEF Account
    <2> QED
      BY <1>6, <2>3
  <1>10. CASE ~Approve /\ ~Pay
    <2>1. chain' = chain
      BY <1>0, <1>8, <1>10 DEF WorkSteps, RunStep, Unroutable, ApproveThrows, Snapshot,
         SnapshotFails, Estimate, FillStarts, NotEncodable, Swap, SwapReverts, SwapThrows, Acquired,
         AcquiredThrows, Measured, TooLittle, PayReverts, PayThrows, Delivered, DeliveredThrows,
         Unwind, HasLegs, Running
    <2> QED
      BY <1>6, <2>1
  <1> QED
    BY <1>7, <1>9, <1>10

\* An order's fill has its turn: it pays out of what its swap made.
LEMMA FirstFunds ==
    ASSUME TypeOK, TasksOK, StepOK, Funds, WorkSteps, lost' = {}, Finite, Finite',
           NEW o \in Orders, InTurn(o), fills[o].at = "fill", RouteOf[o] # Pure, Known(o)
    PROVE  Funds'
  <1> USE DEF historyVars
  <1>0. /\ turn # <<>> /\ task.by = o /\ task.kind = "fill" /\ ~Measuring /\ saved = None
        /\ at.step # "unwind" /\ task.route # Pure /\ fills[o].result = None
    BY FillTurn
  <1>1. UNCHANGED <<turn, fills>> /\ at \in Ats
    BY WorkIs DEF callerVars, TypeOK
  <1>2. Filling /\ Filling'
    BY <1>0, <1>1 DEF Filling, task
  <1>3. /\ Real.balance >= Floor
        /\ at.step = "swapped" => at.before >= Floor /\ chain.balance >= at.before
        /\ at.step = "acquired" => chain.balance >= Floor + at.acquired
    BY <1>2 DEF Funds
  <1>4. saved' = None
    BY <1>0 DEF WorkSteps, RunStep, Unroutable, Approve, ApproveThrows, Snapshot, OnSnapshot,
       SnapshotFails, Estimate, FillStarts, NotEncodable, Swap, SwapReverts, SwapThrows, Acquired,
       AcquiredThrows, Measured, TooLittle, Pay, PayReverts, PayThrows, Delivered, DeliveredThrows,
       Unwind
  <1>5. Real = chain /\ Real' = chain'
    BY <1>0, <1>4 DEF Real
  <1>6. /\ chain.balance \in Int /\ Floor \in Int /\ Quoted \in Nat \ {0} /\ at.before \in Int
        /\ at.acquired \in Int
    BY BalanceIs, FloorIs, MadeIs
  <1>7. Floor' = Floor
    <2>1. \A p \in Orders \ {o} : Real'.did[p].pays = Real.did[p].pays
      <3>1. PICK c : c = chain'
        OBVIOUS
      <3>2. chain \in Account
        BY DEF TypeOK
      <3>3. Sent(c) => \A p \in Orders \ {o} : c.did[p] = chain.did[p]
        BY <1>0, SentIs
      <3>4. ASSUME NEW r \in Routers, c = [chain EXCEPT !.allowed = @ \cup {r}]
            PROVE  c.did = chain.did
        BY <3>2, <3>4 DEF Account
      <3> QED
        BY <1>0, <1>5, <3>1, <3>3, <3>4, ChainMoves
    <2>2. o \notin Owed /\ o \notin Owed'
      BY <1>0, <1>1 DEF Owed
    <2> QED
      BY <1>1, <2>1, <2>2, OwedStays, FloorMoves
  <1>8. ~Lose
    BY <1>0 DEF Lose
  <1> DEFINE Rest == at'.step = "done" /\ at'.result.reason = "PAYOUT_FAILED"
                        /\ at'.result.swapped # None => chain'.balance >= Floor + Quoted
  \* A step that does not move the balance, and what it must not end in.
  <1>9. ASSUME chain'.balance = chain.balance, at'.step \notin {"swapped", "acquired"}, Rest
        PROVE  Funds'
    BY <1>2, <1>3, <1>5, <1>7, <1>9 DEF Funds
  <1>10. ASSUME NEW ok \in BOOLEAN, NEW reason \in Reasons, Finish(ok, reason), chain' = chain,
                reason # "PAYOUT_FAILED" \/ chain.balance >= Floor + Quoted
         PROVE  Funds'
    <2>1. at'.step = "done" /\ at'.result.reason = reason
      BY <1>0, <1>10, FinishIs
    <2> QED
      BY <1>9, <1>10, <2>1
  <1>11. CASE Unroutable \/ Snapshot \/ SnapshotFails \/ Estimate \/ Measured \/ AcquiredThrows
               \/ DeliveredThrows \/ Unwind
    BY <1>0, <1>8, <1>11 DEF Unroutable, KnowsRouter, SnapshotFails, Estimate, Snapshot, Measured,
       OnSnapshot, AcquiredThrows, DeliveredThrows, Unwind, Running
  <1>12. CASE ApproveThrows
    BY <1>10, <1>12, ReasonsAre DEF ApproveThrows
  <1>13. CASE NotEncodable \/ SwapReverts
    BY <1>10, <1>13, ReasonsAre DEF NotEncodable, SwapReverts
  <1>14. CASE SwapThrows
    BY <1>8, <1>10, <1>14, ReasonsAre DEF SwapThrows
  <1>15. CASE TooLittle
    BY <1>10, <1>15, ReasonsAre DEF TooLittle
  <1>16. CASE Delivered
    BY <1>10, <1>16, ReasonsAre DEF Delivered
  \* What is to be paid is there on top of what was before.
  <1>17. Paying => chain.balance >= Floor + Quoted /\ at.step = "acquired"
    <2>1. Paying => at.step = "acquired" /\ at.acquired >= Quoted
      BY <1>0 DEF Paying, ToPay, Running, HasLegs
    <2> QED
      BY <1>3, <1>6, <2>1
  <1>18. CASE PayReverts
    BY <1>10, <1>17, <1>18, ReasonsAre DEF PayReverts
  <1>19. CASE PayThrows
    <2>1. Caught \in Reasons
      BY ReasonsAre DEF Caught
    <2> QED
      BY <1>8, <1>10, <1>17, <1>19, <2>1 DEF PayThrows
  <1>20. CASE Approve \/ FillStarts
    <2>1. at'.step \in {"approved", "run"}
      BY <1>20, GotoIs DEF Approve, FillStarts, Waiting, Inside
    <2>2. chain'.balance = chain.balance
      <3>1. \/ chain' = chain
            \/ \E r : chain' = [chain EXCEPT !.allowed = @ \cup {r}]
        BY <1>20 DEF Approve, FillStarts, Allow
      <3>2. chain \in Account
        BY DEF TypeOK
      <3> QED
        BY <3>1, <3>2 DEF Account
    <2> QED
      BY <1>9, <2>1, <2>2
  <1>21. CASE Swap
    <2>1. at'.step = "swapped" /\ at'.before = chain.balance
      BY <1>1, <1>21 DEF Swap, Ats
    <2>2. PICK made \in Nat : chain' = Did("swap", made)
      BY <1>21, MadeIs DEF Swap
    <2>3. PICK c : c = chain'
      OBVIOUS
    <2>4. c.balance = chain.balance + made
      BY <1>0, <2>2, <2>3, DidIt
    <2> QED
      BY <1>2, <1>3, <1>5, <1>6, <1>7, <2>1, <2>3, <2>4 DEF Funds
  <1>22. CASE Acquired
    <2>1. at.step = "swapped" /\ chain' = chain
      BY <1>22 DEF Acquired, Running
    <2>2. at'.step = "acquired" /\ at'.acquired = chain.balance - at.before
      BY <1>1, <1>22 DEF Acquired, Ats
    <2>3. chain.balance >= Floor + (chain.balance - at.before)
      BY <1>3, <1>6, <2>1
    <2> QED
      BY <1>2, <1>3, <1>5, <1>7, <2>1, <2>2, <2>3 DEF Funds
  <1>23. CASE Pay
    <2>1. at'.step = "paid"
      BY <1>23, GotoIs DEF Pay, Inside
    <2>2. Paying /\ chain' = Did("pay", - Quoted)
      BY <1>23 DEF Pay
    <2>3. PICK c : c = chain'
      OBVIOUS
    <2>4. c.balance = chain.balance + (- Quoted)
      BY <1>0, <2>2, <2>3, MadeIs, DidIt
    <2>5. chain'.balance >= Floor
      BY <1>6, <1>17, <2>2, <2>3, <2>4
    <2> QED
      BY <1>2, <1>5, <1>7, <2>1, <2>5 DEF Funds
  <1> QED
    BY <1>11, <1>12, <1>13, <1>14, <1>15, <1>16, <1>18, <1>19, <1>20, <1>21, <1>22, <1>23
       DEF WorkSteps, RunStep

\* A turn ends: a fill that swapped and did not pay is owed from now on.
LEMMA EndTurnFunds ==
    ASSUME TypeOK, TasksOK, StepOK, Funds, EndTurn, Finite, Finite'
    PROVE  Funds'
  <1>1. at' = Idle /\ at'.step = "start" /\ Real' = Real /\ at.step = "done" /\ saved = None
    BY EndTurnIs, IdleIs DEF Real, StepOK
  <1>2. Real.balance >= Floor /\ Real.balance \in Int /\ Floor \in Int /\ Quoted \in Int
    BY BalanceIs, FloorIs, MadeIs DEF Funds
  <1>3. ASSUME Real.balance >= Floor' PROVE Funds'
    BY <1>1, <1>3 DEF Funds
  <1>4. CASE Measuring
    <2>1. fills' = fills
      BY <1>4, EndTurnIs
    <2>2. Floor' = Floor
      BY <1>1, <2>1 DEF Owed, Floor
    <2> QED
      BY <1>2, <1>3, <2>2
  <1>5. CASE ~Measuring
    <2> DEFINE o == task.by
    <2>1. /\ o \in Orders /\ IsOrders(task) /\ turn # <<>>
          /\ fills'[o].at = fills[o].at /\ fills'[o].result = at.result
          /\ \A p \in Orders : p # o => fills'[p] = fills[p]
      BY <1>5, EndTurnIs
    <2>2. fills[o].result = None /\ (fills[o].at = "fill" => task.kind = "fill")
      BY <2>1, HeadFills DEF IsOrders
    <2>3. \A p \in Orders : p # o => (p \in Owed' <=> p \in Owed)
      BY <1>1, <2>1 DEF Owed
    <2>4. at.result # None
      BY <1>1 DEF StepOK, Over
    <2>5. CASE fills[o].at = "fill" /\ at.result.reason = "PAYOUT_FAILED" /\ at.result.swapped # None
      <3>1. Filling
        BY <2>1, <2>2, <2>5 DEF Filling
      <3>2. Real.balance >= Floor + Quoted
        BY <1>1, <2>5, <3>1 DEF Funds, Real
      <3>3. o \notin Owed /\ o \in Owed'
        BY <2>1, <2>2, <2>4, <2>5 DEF Owed
      <3>4. Owed' = Owed \cup {o}
        BY <2>3, <3>3 DEF Owed
      <3>5. Floor' = Floor + Quoted
        BY <3>3, <3>4, FloorMoves
      <3> QED
        BY <1>3, <3>2, <3>5
    <2>6. CASE ~ (fills[o].at = "fill" /\ at.result.reason = "PAYOUT_FAILED" /\ at.result.swapped # None)
      <3>1. o \in Owed' <=> o \in Owed
        BY <1>1, <2>1, <2>2, <2>6 DEF Owed
      <3>2. Owed' = Owed
        BY <2>3, <3>1 DEF Owed
      <3> QED
        BY <1>2, <1>3, <3>2 DEF Floor
    <2> QED
      BY <2>5, <2>6
  <1> QED
    BY <1>4, <1>5

\* What a caller asks for moves nobody in or out of those owed: an order sent for
\* its payout alone was owed it already.
LEMMA AskedOwed ==
    ASSUME TypeOK, TasksOK, StepOK, SnapOK, NEW o \in Orders, OrderAsks(o),
           fills[o].at = "fill" => Known(o)
    PROVE  Owed' = Owed
  <1>1. UNCHANGED <<chain, saved>> /\ fills[o].at # "idle" => fills[o].result # None
    BY OrderAskIs, QueueIs
  <1>2. Real' = Real
    BY DEF Real, OrderAsks, AskDryRun, AskFill, AskPayoutOnly, Queue
  <1>3. fills \in [Orders -> [at : Stages, result : Results \cup {None}]]
    BY DEF TypeOK
  <1>4. ASSUME NEW where, fills' = [fills EXCEPT ![o] = [at |-> where, result |-> None]],
               where = "retry" /\ Real.did[o].pays = 0 <=> o \in Owed
        PROVE  Owed' = Owed
    <2>1. fills'[o] = [at |-> where, result |-> None] /\ \A p \in Orders : p # o => fills'[p] = fills[p]
      BY <1>3, <1>4
    <2>2. o \in Owed' <=> where = "retry" /\ Real.did[o].pays = 0
      BY <1>2, <2>1 DEF Owed
    <2>3. \A p \in Orders : p # o => (p \in Owed' <=> p \in Owed)
      BY <1>2, <2>1 DEF Owed
    <2> QED
      BY <1>4, <2>2, <2>3 DEF Owed
  <1>5. CASE AskDryRun(o)
    BY <1>4, <1>5 DEF AskDryRun, Queue, Owed
  <1>6. CASE AskFill(o)
    BY <1>4, <1>6 DEF AskFill, Queue, Owed
  <1>7. CASE AskPayoutOnly(o)
    <2>1. /\ fills' = [fills EXCEPT ![o] = [at |-> "retry", result |-> None]]
          /\ fills[o].at = "fill" /\ fills[o].result # None
          /\ fills[o].result.reason = "PAYOUT_FAILED" /\ fills[o].result.swapped # None
      BY <1>7 DEF AskPayoutOnly, Queue
    <2>2. DidIs(o, 1, 0)
      BY <2>1 DEF Known, Truth
    <2>3. ~InTurn(o)
      BY <2>1, InTurnFills
    <2>4. Real.did[o].pays = 0
      BY <2>2, <2>3 DEF DidIs, SnapOK, Real
    <2>5. o \in Owed
      BY <2>1 DEF Owed
    <2> QED
      BY <1>4, <2>1, <2>4, <2>5
  <1> QED
    BY <1>5, <1>6, <1>7 DEF OrderAsks

\* The fill whose turn it is stays the one, whatever the callers ask.
LEMMA FillingStays ==
    ASSUME TypeOK, TasksOK, StepOK, [Next]_vars, ~WorkSteps, ~EndTurn,
           at.step \notin Waiting, Filling'
    PROVE  Filling
  <1>1. turn # <<>> /\ turn' # <<>> /\ task' = task
    <2>1. turn # <<>>
      BY IdleIs DEF StepOK, Waiting
    <2>2. CASE turn' = turn
      BY <2>1, <2>2 DEF task
    <2>3. CASE UNCHANGED <<fork, at, saved>> /\ \E t \in Tasks : turn' = Append(turn, t)
      BY <2>1, <2>3, TurnGrows
    <2> QED
      BY <2>1, <2>2, <2>3, TurnMoves
  <1>2. task.kind = "fill" /\ fills'[task.by].at = "fill" /\ task.by \in Orders
        /\ fills[task.by].at \in {"fill", "retry"} /\ fills[task.by].result = None
    <2>1. task.kind = "fill" /\ fills'[task.by].at = "fill"
      BY <1>1 DEF Filling
    <2> QED
      BY <1>1, <2>1, HeadFills
  <1>3. fills'[task.by] = fills[task.by]
    <2>1. ASSUME NEW o \in Orders, OrderAsks(o) PROVE fills'[task.by] = fills[task.by]
      <3>1. \E where : fills' = [fills EXCEPT ![o] = [at |-> where, result |-> None]]
        BY <2>1 DEF OrderAsks, AskDryRun, AskFill, AskPayoutOnly, Queue
      <3>2. task.by # o
        BY <1>2, <2>1, OrderAskIs
      <3> QED
        BY <1>2, <3>1, <3>2 DEF TypeOK
    <2> QED
      BY <2>1, FillsMove
  <1> QED
    BY <1>1, <1>2, <1>3 DEF Filling

\* Every step keeps in the account what is owed.
LEMMA NextFunds ==
    ASSUME TypeOK, TasksOK, StepOK, SnapOK, FillsOK, FundsOK, Finite, [Next]_vars
    PROVE  FundsOK'
  <1> SUFFICES ASSUME Telling' PROVE Funds'
    BY DEF FundsOK, Telling, Funds
  <1>1. Telling /\ lost' = {} /\ ~stained' /\ ~landed'
    BY HistoryStays DEF Telling
  <1>2. Funds /\ \A o \in Orders : RouteOf[o] # Pure
    BY <1>1, FundsAre DEF Telling
  <1>3. \A o \in Orders : fills[o].at \in {"fill", "retry"} => Known(o)
    BY <1>1 DEF FillsOK, Telling
  <1>4. Finite'
    BY NextFinite
  <1>5. CASE WorkSteps
    <2>1. CASE task.kind # "fill"
      BY <1>1, <1>2, <1>4, <1>5, <2>1, ProbeFunds
    <2>2. CASE task.kind = "fill"
      <3> DEFINE o == task.by
      <3>1. o \in Orders /\ fills[o].at \in {"fill", "retry"} /\ InTurn(o)
        BY <1>5, <2>2, WorkIs, HeadFills DEF InTurn, IsOrders
      <3>2. CASE fills[o].at = "fill"
        BY <1>1, <1>2, <1>3, <1>4, <1>5, <3>1, <3>2, FirstFunds
      <3>3. CASE fills[o].at = "retry"
        BY <1>1, <1>2, <1>3, <1>4, <1>5, <3>1, <3>3, RetryFunds
      <3> QED
        BY <3>1, <3>2, <3>3
    <2> QED
      BY <2>1, <2>2
  <1>6. CASE EndTurn
    BY <1>2, <1>4, <1>6, EndTurnFunds
  <1>7. CASE ~WorkSteps /\ ~EndTurn
    <2>1. at' = at /\ chain' = chain /\ saved' = saved /\ Real' = Real
      BY <1>1, <1>7, AtStays, OtherMoves DEF Real
    <2>2. Owed' = Owed
      <3>1. CASE fills' = fills
        BY <2>1, <3>1 DEF Owed
      <3>2. ASSUME NEW o \in Orders, OrderAsks(o) PROVE Owed' = Owed
        BY <1>3, <3>2, AskedOwed
      <3> QED
        BY <1>7, <3>1, <3>2, FillsMove
    <2>3. Floor' = Floor
      BY <2>2 DEF Floor
    <2>4. at.step \notin Waiting /\ Filling' => Filling
      BY <1>7, FillingStays
    <2> QED
      BY <1>2, <2>1, <2>3, <2>4 DEF Funds, Waiting
  <1> QED
    BY <1>5, <1>6, <1>7

-----------------------------------------------------------------------------
(* The whole invariant.                                                    *)

IInv == /\ TypeOK /\ TasksOK /\ StepOK /\ Allowed /\ Clean /\ ShapesOK
        /\ FillsOK /\ MadeOK /\ SnapOK /\ FundsOK /\ Finite

\* The invariant holds to begin with.
LEMMA InitInv == Init => IInv
  <1> SUFFICES ASSUME Init PROVE IInv
    OBVIOUS
  <1>1. TypeOK
    BY InitTypes
  <1>2. turn = <<>> /\ at = Idle /\ saved = None /\ approved = {} /\ faults = 0 /\ told = 0 /\ shape = 0
    BY DEF Init
  <1>3. chain.probes = 0 /\ chain.balance = Quoted 
        /\ \A o \in Orders : chain.did[o] = Untouched /\ chain.made[o] = 0
    BY DEF Init, Untouched
  <1>4. \A o \in Orders : fills[o].at = "idle" /\ fills[o].result = None
    BY DEF Init
  <1>5. \A k \in Keys : gasByRoute[k] = None
    BY DEF Init
  <1>6. TasksOK
    BY <1>2 DEF TasksOK
  <1>7. StepOK
    BY <1>2, IdleIs DEF StepOK, Waiting, Inside, Over
  <1>8. Allowed /\ SnapOK /\ ShapesOK
    BY <1>2, <1>5 DEF Allowed, SnapOK, ShapesOK
  <1>9. Clean
    BY <1>2, <1>3 DEF Clean, Real
  <1>10. FillsOK /\ MadeOK
    BY <1>4 DEF FillsOK, MadeOK
  <1>11. Begun = {} /\ Owed = {}
    BY <1>4 DEF Begun, Owed
  <1>12. Finite
    BY <1>11, FS_EmptySet DEF Finite
  <1>13. Floor = Quoted
    <2>1. Cardinality(Owed) = 0
      BY <1>11, FS_EmptySet
    <2> QED
      BY <2>1, MadeIs DEF Floor
  <1>14. FundsOK
    BY <1>2, <1>3, <1>13, MadeIs DEF FundsOK, Real, Filling
  <1> QED
    BY <1>1, <1>6, <1>7, <1>8, <1>9, <1>10, <1>12, <1>14 DEF IInv

\* Every step keeps it.
LEMMA NextInv == IInv /\ [Next]_vars => IInv'
  <1> SUFFICES ASSUME IInv, [Next]_vars PROVE IInv'
    OBVIOUS
  <1>1. TypeOK /\ TasksOK /\ StepOK /\ Allowed /\ Clean /\ ShapesOK
        /\ FillsOK /\ MadeOK /\ SnapOK /\ FundsOK /\ Finite
    BY DEF IInv
  <1>2. TypeOK' /\ TasksOK' /\ StepOK'
    BY <1>1, NextTypes, NextTasks, NextSteps
  <1>3. Allowed' /\ Clean' /\ ShapesOK'
    BY <1>1, NextAllowed, NextClean, NextShapes
  <1>4. FillsOK' /\ MadeOK' /\ SnapOK'
    BY <1>1, NextFills, NextMade, NextSnap
  <1>5. FundsOK' /\ Finite'
    BY <1>1, NextFunds, NextFinite
  <1> QED
    BY <1>2, <1>3, <1>4, <1>5 DEF IInv

\* It holds throughout.
LEMMA Invariance == Spec => []IInv
  BY InitInv, NextInv, PTL DEF Spec

\* Between turns the chain holds no transaction but those of fills, whatever threw or
\* reverted inside a measurement, unless a revert itself failed: simulate() takes its
\* snapshot before the first transaction of run() and reverts in its finally, and a
\* fill takes none (fill-engine.ts: simulate, fill).
THEOREM MeasuredWithoutTrace == Spec => []MeasurementLeavesNoTrace
  <1>1. IInv => MeasurementLeavesNoTrace
    <2> SUFFICES ASSUME IInv PROVE MeasurementLeavesNoTrace
      OBVIOUS
    <2>1. (turn = <<>> => saved = None) /\ (~fork => saved = None)
      BY IdleIs DEF IInv, StepOK, Waiting
    <2>2. Standing => saved = None
      BY <2>1 DEF Standing, IInv, StepOK, Waiting
    <2> QED
      BY <2>1, <2>2 DEF MeasurementLeavesNoTrace, IInv, Clean, Real, Untouched
  <1> QED
    BY <1>1, Invariance, PTL

\* With no call that threw, every router ensureApproval() remembers is approved on the
\* chain: the approval comes before the snapshot, so no revert takes it back
\* (fill-engine.ts: ensureApproval).
THEOREM ApprovedIsAllowed == Spec => []ApprovalsStand
  <1>1. IInv => ApprovalsStand
    BY DEF IInv, Allowed, ApprovalsStand
  <1> QED
    BY <1>1, Invariance, PTL

\* What run() reports to execute() is what its transactions did, so the payout is sent
\* alone exactly when the swap stands and nobody is paid.  It is stated of orders none of
\* whose transactions, or balance reads after one, went unanswered (not in `lost`), while
\* no revert failed (~stained); what the swap made also needs that no foreign deposit
\* came in between its two reads (~landed) (fill-engine.ts: run).
THEOREM ToldTheTruth == Spec => []ResultsAreTrue
  <1>1. IInv => ResultsAreTrue
    <2> SUFFICES ASSUME IInv, ~stained, NEW o \in Orders \ lost,
                        fills[o].at \in {"fill", "retry"}, fills[o].result # None
                 PROVE  ToldWhatHappened(o) /\ (~landed => ToldWhatItMade(o))
      BY DEF ResultsAreTrue
    <2>1. Truth(o, fills[o].result)
      BY DEF IInv, FillsOK, Known
    <2>2. ToldWhatHappened(o)
      BY <2>1 DEF ToldWhatHappened, Truth, DidIs, One
    <2>3. ~landed => MadeTruth(o, fills[o].result)
      BY DEF IInv, MadeOK, MadeKnown
    <2>4. ~landed => ToldWhatItMade(o)
      <3> SUFFICES ASSUME ~landed PROVE ToldWhatItMade(o)
        OBVIOUS
      <3>1. fills[o].result.swapped # None => fills[o].result.swapped = chain.made[o]
        BY <2>3 DEF MadeTruth
      <3>2. fills[o].result.ok /\ RouteOf[o] # Pure => chain.made[o] >= Quoted
        BY <2>3 DEF MadeTruth
      <3> QED
        BY <3>1, <3>2 DEF ToldWhatItMade
    <2> QED
      BY <2>2, <2>4
  <1> QED
    BY <1>1, Invariance, PTL

\* For orders that swap, what the account held before stays in it, through any number of
\* fills, fills that could not pay and payouts sent alone, as long as no transaction or
\* balance read went unanswered (lost = {}), no foreign deposit came in between two reads
\* (~landed) and no revert failed (~stained) (fill-engine.ts: run).
THEOREM PaysFromSwaps == Spec => []PaidFromTheSwap
  <1>1. IInv => PaidFromTheSwap
    <2> SUFFICES ASSUME IInv, \A o \in Orders : RouteOf[o] # Pure, ~landed, ~stained, lost = {}, Standing
                 PROVE  chain.balance >= Quoted
      BY DEF PaidFromTheSwap
    <2>1. saved = None
      BY IdleIs DEF Standing, IInv, StepOK, Waiting
    <2>2. Real.balance >= Floor /\ Floor >= Quoted /\ Real.balance \in Int /\ Floor \in Int /\ Quoted \in Int
      BY FloorIs, BalanceIs, MadeIs DEF IInv, FundsOK
    <2> QED
      BY <2>1, <2>2 DEF Real
  <1> QED
    BY <1>1, Invariance, PTL

\* More than that: outside a snapshot, and under the same three exemptions (Telling), the
\* account holds, besides what it held before, the quote of every order whose swap is
\* made and whose payout failed, so the payout alone finds what it pays (fill-engine.ts:
\* run; executor.ts: execute).
THEOREM OwedIsHeld ==
    Spec => [](Telling /\ saved = None => chain.balance >= Quoted + Quoted * Cardinality(Owed))
  <1>1. IInv => (Telling /\ saved = None => chain.balance >= Quoted + Quoted * Cardinality(Owed))
    BY DEF IInv, FundsOK, Telling, Floor, Real
  <1> QED
    BY <1>1, Invariance, PTL

\* A remembered measurement of a route or deposit is of the pools as they were when
\* forget() was last called, or later, even if it was under way then (fill-engine.ts:
\* remembered, forget).
THEOREM GasIsFresh == Spec => []GasIsOfThisShape
  <1>1. IInv => GasIsOfThisShape
    BY DEF IInv, ShapesOK, GasIsOfThisShape
  <1> QED
    BY <1>1, Invariance, PTL

=============================================================================
