----------------------------- MODULE LedgerProofs -----------------------------
(***************************************************************************)
(* What orders/inventory.ts promises, for every number of orders and       *)
(* tokens: its state is well formed; what it says is reserved is what its  *)
(* orders hold; the store knows of a reservation once its call returned;   *)
(* none of its calls throws; and on a fork it agrees with the chain.       *)
(*                                                                         *)
(* The argument, in three layers.  First the shape of a call: every caller *)
(* has at most one save on its way, of the call its handler is in, and the *)
(* first of a call's two saves finds the reservation as the call found it  *)
(* (LineOK, CallerOK).  With that, what `reserved` is and what the orders  *)
(* promised change together, and memory, rows and stored reservations keep *)
(* in step (Balanced, Stored, RowsFirst, Backed).  Second, what an order's *)
(* stage lets it hold (Stage): its input until it swapped, and what its    *)
(* user is to be paid afterwards; so every call finds what it settles.     *)
(* Third, on a fork, what the ledger is yet to be told: the effects of the *)
(* calls that are left, and what the chain did that no call tells of yet   *)
(* (ForkCounts).                                                           *)
(***************************************************************************)
EXTENDS Ledger, FiniteSums

-----------------------------------------------------------------------------
(* The invariant.                                                          *)

\* The tokens an order has to do with, the calls and reservations of its
\* handlers, and the two kinds of save.
Touched(o) == {Deposited[o], Spent[o], Bought[o]}

CallsOf(o) == {c \in Calls : c.token \in Touched(o)}
KeepsOf(o) == {r \in Reservation : r.token \in Touched(o)} \cup {None}

BalanceSave == [by : Callers, token : Tokens, value : Balance]
PromiseSave == [by : Orders, value : Reservation]

\* Calls and reservations are of the order's own tokens.
OwnOK ==
    \A o \in Orders : /\ todo[o] \in Seq(CallsOf(o))
                      /\ reservations[o] \in KeepsOf(o) /\ promises[o] \in KeepsOf(o)

\* The first save of a call finds the reservation as the call found it, and the second as it leaves it.
BalanceFits(w) ==
    w.by \in Orders =>
        /\ Head(todo[w.by]).op = "reserve" =>
               ~Holds(reservations, w.by) /\ w.token = Head(todo[w.by]).token
        /\ Head(todo[w.by]).op \in {"commit", "release"} =>
               Holds(reservations, w.by) /\ w.token = reservations[w.by].token

PromiseFits(w) ==
    /\ TwoSaves(w.by)
    /\ w.value = reservations[w.by]
    /\ rows[w.value.token] # None
    /\ Holds(reservations, w.by) <=> Head(todo[w.by]).op = "reserve"

\* A save on its way is one its caller waits for, of the call it makes.
Fits(w) ==
    /\ w.by \in saving
    /\ w \in BalanceSave => BalanceFits(w)
    /\ w \in PromiseSave => PromiseFits(w)

In(s) == {s[i] : i \in 1 .. Len(s)}
Single(s) == \A i, j \in 1 .. Len(s) : s[i].by = s[j].by => i = j

\* Nobody has two saves on their way.
LineOK == (\A w \in In(line) : Fits(w)) /\ Single(line)

\* Who saves or has read is in a call.
CallerOK ==
    /\ \A o \in Orders \cap saving : todo[o] # <<>>
    /\ \A c \in Callers : read[c] # None =>
           /\ c \notin saving
           /\ c \in Orders => todo[c] # <<>> /\ Head(todo[c]).op = "reconcile"

\* A process that is down runs nothing.
DownOK ==
    ~up => /\ line = <<>> /\ saving = {} /\ recovering = {} /\ torn = {} /\ stuck = {}
           /\ todo = [o \in Orders |-> <<>>] /\ next = [o \in Orders |-> "none"]

\* ReservedIsHeld, over the tokens of orders none of whose calls threw.
Balanced ==
  up => \A t \in Tokens :
        (\A o \in torn : t \notin Touched(o))
            => BalanceOf(t).reserved = SumFunction([o \in Orders |-> Promised(o, t)])

\* The reservation in memory is the stored one, or its save is on its way; a
\* stored one has its balance stored before it.
OnItsWay(o) == \E w \in In(line) : w.by = o /\ w \in PromiseSave

RowsFirst == \A o \in Orders : promises[o] # None => rows[promises[o].token] # None

Stored == up => \A o \in Orders \ torn : promises[o] = reservations[o] \/ OnItsWay(o)

\* A reservation, or the save of a balance, is of a balance in the map.
Backed ==
    up => /\ \A o \in Orders : reservations[o] # None => balances[reservations[o].token] # None
          /\ \A w \in In(line) : w \in BalanceSave => balances[w.token] # None

\* What an order may have promised: the input of its fill, or, once it
\* swapped, what its user is to be paid.
Input(o, r) == r.token = Spent[o] /\ r.amount = Amount[o]
Output(o, r) ==
    /\ r.token = Bought[o] /\ r.amount = Quoted[o] /\ Spent[o] # Bought[o]
    /\ done[o] \in {"swapped", "paid"}

KeepFits(o) ==
    /\ reservations[o] # None => Input(o, reservations[o]) \/ Output(o, reservations[o])
    /\ promises[o] # None => Input(o, promises[o]) \/ Output(o, promises[o])

Simple == {"credit", "debit", "reconcile"}

\* A handler's first call may be of the reservation, the others are not.
Rest(s) == Len(s) <= 4 /\ \A i \in 2 .. Len(s) : s[i].op \in Simple

\* What a fill reserves: its input, or on a retry what its user is paid.
Wanted(o, c) ==
    \/ st[o] = "confirmed" /\ c.token = Spent[o] /\ c.amount = Amount[o]
    \/ st[o] = "payout_failed" /\ c.token = Bought[o] /\ c.amount = Quoted[o]

\* An order's calls, the state to be saved after them, and the state it is
\* in agree with what the chain did for it.
TodoFits(o) ==
    /\ Rest(todo[o])
    /\ todo[o] # <<>> => next[o] # "none"
    /\ todo[o] # <<>> /\ Head(todo[o]).op = "reserve" =>
           next[o] = "filling" /\ Wanted(o, Head(todo[o]))
    /\ todo[o] # <<>> /\ Head(todo[o]).op \in {"commit", "release"} /\ o \notin saving =>
           Holds(reservations, o)

NextFits(o) ==
    /\ next[o] \notin {"unpaid", "awaiting"}
    /\ st[o] = "unpaid" => next[o] = "none"
    /\ next[o] \in {"confirmed", "expired", "refunding"} => done[o] = "none"
    /\ next[o] = "filling" => st[o] \in {"confirmed", "payout_failed"}
    /\ next[o] = "filling" =>
           IF todo[o] = <<>> THEN Holds(reservations, o)
                             ELSE Head(todo[o]).op = "reserve" /\ Len(todo[o]) = 1
    /\ next[o] = "payout_failed" =>
           /\ done[o] = "swapped"
           /\ \/ todo[o] # <<>> /\ Head(todo[o]).op = "commit"
              \/ ~Holds(reservations, o) /\ ~Holds(promises, o)
    /\ o \in recovering => next[o] \in {"none", "ended", "review"}

StateFits(o) ==
    /\ st[o] \in {"unpaid", "awaiting", "confirmed", "expired"} => done[o] = "none"
    /\ st[o] = "payout_failed" =>
           /\ done[o] = "swapped"
           /\ Holds(reservations, o) => Output(o, reservations[o])
           /\ Holds(promises, o) => Output(o, promises[o])
    /\ st[o] = "filling" /\ up /\ next[o] = "none" /\ o \notin stuck \cup recovering =>
           Holds(reservations, o)
    /\ st[o] = "refunding" => done[o] \in {"none", "refunded"}
    /\ o \in recovering => st[o] \in {"filling", "refunding"}
    /\ done[o] = "swapped" => Spent[o] # Bought[o]

Fit(o) == KeepFits(o) /\ TodoFits(o) /\ NextFits(o) /\ StateFits(o)

Stage == \A o \in Orders : Fit(o)

-----------------------------------------------------------------------------
(* Its parts, and the shape of calls and saves.                            *)

Saves == BalanceSave \cup PromiseSave

ChainOK == live \in BOOLEAN /\ chain \in [Tokens -> Nat] /\ done \in [Orders -> {"none", "swapped", "paid", "refunded"}]
BalancesOK == balances \in [Tokens -> Balance \cup {None}]
RowsOK == rows \in [Tokens -> Balance \cup {None}]
ReservationsOK == reservations \in [Orders -> Reservation \cup {None}] /\ \A o \in Orders : reservations[o] \in KeepsOf(o)
PromisesOK == promises \in [Orders -> Reservation \cup {None}] /\ \A o \in Orders : promises[o] \in KeepsOf(o)
SavesOK == line \in Seq(Saves)
StateOK == st \in [Orders -> OrderStates]
TodoOK == todo \in [Orders -> Seq(Calls)] /\ \A o \in Orders : todo[o] \in Seq(CallsOf(o))
NextOK == next \in [Orders -> OrderStates \cup {"none"}]
SavingOK == saving \subseteq Callers
ReadOK == read \in [Callers -> [token : Tokens, value : Int] \cup {None}]
LeftOK == left \in [Syncs -> SUBSET Tokens]
SetsOK == stuck \subseteq Orders /\ torn \subseteq Orders /\ recovering \subseteq Orders
CountOK == up \in BOOLEAN /\ events \in Nat

\* The type invariant, by variable.
LEMMA Groups ==
    TypeOK /\ OwnOK <=>
        /\ ChainOK /\ BalancesOK /\ RowsOK /\ ReservationsOK /\ PromisesOK /\ SavesOK /\ StateOK
        /\ TodoOK /\ NextOK /\ SavingOK /\ ReadOK /\ LeftOK /\ SetsOK /\ CountOK
  BY DEF TypeOK, OwnOK, ChainOK, BalancesOK, RowsOK, ReservationsOK, PromisesOK, SavesOK,
     StateOK,
     TodoOK, NextOK, SavingOK, ReadOK, LeftOK, SetsOK, CountOK, Saves, BalanceSave, PromiseSave

\* What the constants are.
LEMMA Values ==
    /\ \A o \in Orders : /\ Deposited[o] \in Tokens /\ Spent[o] \in Tokens /\ Bought[o] \in Tokens
                         /\ Amount[o] \in Nat /\ Amount[o] > 0 /\ Quoted[o] \in Nat /\ Quoted[o] > 0
    /\ \A t \in Tokens : Opening[t] \in Nat
    /\ Orders \subseteq Callers /\ Syncs \subseteq Callers
    /\ None \notin Balance /\ None \notin Reservation /\ None \notin [token : Tokens, value : Int]
  BY LedgerAssumption DEF Callers, Balance, Reservation

\* The first of the calls left, and the rest.
LEMMA FirstCall ==
    ASSUME NEW o \in Orders, NEW s \in Seq(CallsOf(o)), s # <<>>
    PROVE  /\ Head(s) = s[1] /\ Head(s) \in CallsOf(o) /\ Tail(s) \in Seq(CallsOf(o))
           /\ Len(s) \in Nat /\ Len(s) >= 1 /\ Len(Tail(s)) = Len(s) - 1
           /\ \A i \in 1 .. Len(Tail(s)) : Tail(s)[i] = s[i + 1]
  OBVIOUS

\* A save is of a balance or of a reservation, and its fields say which.
LEMMA Kinds ==
    ASSUME NEW w \in Saves
    PROVE  /\ "token" \in DOMAIN w <=> w \in BalanceSave
           /\ "token" \notin DOMAIN w <=> w \in PromiseSave
           /\ w.by \in Callers
  <1>1. CASE w \in BalanceSave
    BY <1>1 DEF BalanceSave, PromiseSave
  <1>2. CASE w \in PromiseSave
    BY <1>2 DEF BalanceSave, PromiseSave, Callers
  <1> QED
    BY <1>1, <1>2 DEF Saves

\* What Append, Head and Tail do to the saves on their way.
LEMMA Last ==
    ASSUME NEW s \in Seq(Saves), NEW w \in Saves
    PROVE  /\ Append(s, w) \in Seq(Saves) /\ In(Append(s, w)) = In(s) \cup {w}
           /\ Single(s) /\ (\A v \in In(s) : v.by # w.by) => Single(Append(s, w))
  <1>1. /\ Append(s, w) \in Seq(Saves) /\ Len(Append(s, w)) = Len(s) + 1 /\ Len(s) \in Nat
        /\ \A i \in 1 .. Len(s) : Append(s, w)[i] = s[i]
        /\ Append(s, w)[Len(s) + 1] = w
    OBVIOUS
  <1>2. In(Append(s, w)) = In(s) \cup {w}
    <2>1. 1 .. Len(Append(s, w)) = (1 .. Len(s)) \cup {Len(s) + 1}
      BY <1>1
    <2> QED
      BY <1>1, <2>1 DEF In
  <1>3. ASSUME Single(s), \A v \in In(s) : v.by # w.by,
               NEW i \in 1 .. Len(s) + 1, NEW j \in 1 .. Len(s) + 1, Append(s, w)[i].by = Append(s, w)[j].by
        PROVE  i = j
    <2>1. \A k \in 1 .. Len(s) : Append(s, w)[k].by # w.by
      BY <1>1, <1>3 DEF In
    <2>2. CASE i \in 1 .. Len(s) /\ j \in 1 .. Len(s)
      BY <1>1, <1>3, <2>2 DEF Single
    <2>3. CASE i = Len(s) + 1 \/ j = Len(s) + 1
      BY <1>1, <1>3, <2>1, <2>3
    <2> QED
      BY <1>1, <2>2, <2>3
  <1> QED
    BY <1>1, <1>2, <1>3 DEF Single

\* Head and Tail of the saves on their way.
LEMMA First ==
    ASSUME NEW s \in Seq(Saves), s # <<>>
    PROVE  /\ Head(s) \in In(s) /\ Head(s) \in Saves
           /\ Tail(s) \in Seq(Saves) /\ In(s) = In(Tail(s)) \cup {Head(s)}
           /\ Single(s) => Single(Tail(s)) /\ \A v \in In(Tail(s)) : v.by # Head(s).by
  <1>1. /\ Head(s) = s[1] /\ Head(s) \in Saves /\ Tail(s) \in Seq(Saves)
        /\ Len(s) \in Nat /\ Len(s) >= 1 /\ Len(Tail(s)) = Len(s) - 1
        /\ \A i \in 1 .. Len(Tail(s)) : Tail(s)[i] = s[i + 1]
    OBVIOUS
  <1>2. Head(s) \in In(s)
    BY <1>1 DEF In
  <1>3. \A v \in In(Tail(s)) : \E i \in 2 .. Len(s) : v = s[i]
    BY <1>1 DEF In
  <1>4. \A i \in 2 .. Len(s) : s[i] \in In(Tail(s))
    <2>1. ASSUME NEW i \in 2 .. Len(s) PROVE i - 1 \in 1 .. Len(Tail(s)) /\ s[i] = Tail(s)[i - 1]
      BY <1>1
    <2> QED
      BY <2>1 DEF In
  <1>5. In(s) = In(Tail(s)) \cup {Head(s)}
    <2>1. In(s) \subseteq In(Tail(s)) \cup {Head(s)}
      <3>1. ASSUME NEW i \in 1 .. Len(s) PROVE s[i] \in In(Tail(s)) \cup {Head(s)}
        <4>1. CASE i = 1
          BY <1>1, <4>1
        <4>2. CASE i \in 2 .. Len(s)
          BY <1>4, <4>2
        <4> QED
          BY <1>1, <4>1, <4>2
      <3> QED
        BY <3>1 DEF In
    <2>2. In(Tail(s)) \subseteq In(s)
      <3>1. \A i \in 2 .. Len(s) : s[i] \in In(s)
        BY <1>1 DEF In
      <3> QED
        BY <1>3, <3>1
    <2> QED
      BY <1>2, <2>1, <2>2
  <1>6. ASSUME Single(s) PROVE Single(Tail(s)) /\ \A v \in In(Tail(s)) : v.by # Head(s).by
    <2>1. ASSUME NEW i \in 2 .. Len(s), s[i].by = s[1].by PROVE FALSE
      <3>1. i \in 1 .. Len(s) /\ 1 \in 1 .. Len(s) /\ i # 1
        BY <1>1
      <3> QED
        BY <1>6, <2>1, <3>1 DEF Single
    <2>2. \A v \in In(Tail(s)) : v.by # Head(s).by
      BY <1>1, <1>3, <2>1
    <2>3. ASSUME NEW i \in 1 .. Len(Tail(s)), NEW j \in 1 .. Len(Tail(s)), Tail(s)[i].by = Tail(s)[j].by
          PROVE  i = j
      <3>1. i + 1 \in 1 .. Len(s) /\ j + 1 \in 1 .. Len(s) /\ s[i + 1].by = s[j + 1].by
        BY <1>1, <2>3
      <3>2. i + 1 = j + 1
        BY <1>6, <3>1 DEF Single
      <3> QED
        BY <3>2
    <2> QED
      BY <2>2, <2>3 DEF Single
  <1> QED
    BY <1>1, <1>2, <1>5, <1>6

Typed == /\ ChainOK /\ BalancesOK /\ RowsOK /\ ReservationsOK /\ PromisesOK /\ SavesOK /\ StateOK
        /\ TodoOK /\ NextOK /\ SavingOK /\ ReadOK /\ LeftOK /\ SetsOK /\ CountOK

\* A sum of integers is one.
LEMMA SumInt ==
    ASSUME NEW S, IsFiniteSet(S), NEW f \in [S -> Int]
    PROVE  SumFunction(f) \in Int
  <1>1. PICK g : Totals(g, f, S)
    BY Summed
  <1> QED
    BY <1>1 DEF SumFunction, Totals

\* balanceOf() answers a balance for every token.
LEMMA BalanceOfOK ==
    ASSUME BalancesOK, NEW t \in Tokens
    PROVE  /\ BalanceOf(t) \in Balance
           /\ BalanceOf(t).available \in Int /\ BalanceOf(t).reserved \in Int
  BY DEF BalancesOK, BalanceOf, Balance, Empty

\* What restore() adds up is a number.
LEMMA HeldOfOK ==
    ASSUME NEW kept, \A o \in Orders : kept[o] \in KeepsOf(o), NEW t \in Tokens
    PROVE  HeldOf(kept, t) \in Int
  <1> DEFINE f == [o \in Orders |-> Share(kept, o, t)]
  <1>1. f \in [Orders -> Int]
    BY Values DEF KeepsOf, Reservation, Share, Holds
  <1>2. IsFiniteSet(Orders)
    BY LedgerAssumption
  <1> HIDE DEF f
  <1>3. SumFunction(f) \in Int
    BY <1>1, <1>2, SumInt
  <1> QED
    BY <1>3 DEF HeldOf, f

\* setBalance() keeps the types.
LEMMA SetBalanceOK ==
    ASSUME BalancesOK, SavesOK, SavingOK, NEW c \in Callers, NEW t \in Tokens,
           NEW a \in Int, NEW r \in Int, SetBalance(c, t, a, r)
    PROVE  /\ BalancesOK' /\ SavesOK' /\ SavingOK'
           /\ line # <<>> => line' # <<>>
  <1> DEFINE b == [available |-> a, reserved |-> r]
             w == [by |-> c, token |-> t, value |-> b]
  <1>1. b \in Balance /\ w \in Saves
    BY DEF Balance, Saves, BalanceSave
  <1>2. balances' = [balances EXCEPT ![t] = b] /\ line' = Append(line, w) /\ saving' = saving \cup {c}
    BY DEF SetBalance
  <1> HIDE DEF b, w
  <1> QED
    BY <1>1, <1>2, Last DEF BalancesOK, SavesOK, SavingOK

\* The call an order's handler is in.
LEMMA HeadOK ==
    ASSUME TodoOK, NEW o \in Orders, todo[o] # <<>>
    PROVE  /\ Head(todo[o]) \in CallsOf(o)
           /\ Head(todo[o]).token \in Tokens /\ Head(todo[o]).token \in Touched(o)
           /\ Head(todo[o]).amount \in Nat
           /\ Head(todo[o]).op \in {"credit", "debit", "reserve", "commit", "release", "reconcile"}
           /\ Head(todo[o]) = todo[o][1]
  BY FirstCall DEF TodoOK, CallsOf, Calls

\* A call that returns leaves calls.
LEMMA ReturnsOK ==
    ASSUME TodoOK, NEW o \in Orders, todo[o] # <<>>, Returns(o)
    PROVE  TodoOK'
  <1>1. Tail(todo[o]) \in Seq(CallsOf(o)) /\ Tail(todo[o]) \in Seq(Calls)
    <2>1. todo[o] \in Seq(Calls) /\ todo[o] \in Seq(CallsOf(o))
      BY DEF TodoOK
    <2> QED
      BY <2>1, FirstCall
  <1> QED
    BY <1>1 DEF TodoOK, Returns

\* What reserve() and settle() put in the map: the amount asked for, or what was held.
LEMMA ReservedOK ==
    ASSUME Typed, NEW o \in Orders, todo[o] # <<>>, TwoSaves(o),
           Head(todo[o]).op \in {"commit", "release"} => Holds(reservations, o)
    PROVE  /\ Reserved(o) \in Reservation /\ Reserved(o) \in KeepsOf(o)
           /\ Head(todo[o]).op = "reserve" =>
                  /\ Reserved(o).state = "held"
                  /\ Reserved(o).token = Head(todo[o]).token /\ Reserved(o).amount = Head(todo[o]).amount
           /\ Head(todo[o]).op # "reserve" =>
                  /\ Reserved(o).state # "held"
                  /\ Reserved(o).token = reservations[o].token /\ Reserved(o).amount = reservations[o].amount
  <1> DEFINE c == Head(todo[o])
  <1>1. c.token \in Tokens /\ c.token \in Touched(o) /\ c.amount \in Nat
    BY HeadOK DEF Typed
  <1>2. CASE c.op = "reserve"
    <2>1. Reserved(o) = [token |-> c.token, amount |-> c.amount, state |-> "held"]
      BY <1>2 DEF Reserved
    <2> QED
      BY <1>1, <1>2, <2>1 DEF Reservation, KeepsOf
  <1>3. CASE c.op = "commit"
    <2>1. Reserved(o) = [reservations[o] EXCEPT !.state = "committed"]
      BY <1>3 DEF Reserved
    <2>2. reservations[o] \in Reservation /\ reservations[o].token \in Touched(o)
      BY <1>3 DEF Holds, Typed, ReservationsOK, KeepsOf
    <2> QED
      BY <1>3, <2>1, <2>2 DEF Reservation, KeepsOf
  <1>4. CASE c.op = "release"
    <2>1. Reserved(o) = [reservations[o] EXCEPT !.state = "released"]
      BY <1>4 DEF Reserved
    <2>2. reservations[o] \in Reservation /\ reservations[o].token \in Touched(o)
      BY <1>4 DEF Holds, Typed, ReservationsOK, KeepsOf
    <2> QED
      BY <1>4, <2>1, <2>2 DEF Reservation, KeepsOf
  <1> QED
    BY <1>2, <1>3, <1>4 DEF TwoSaves

\* The oldest save, by what it is of.
LEMMA HeadFits ==
    ASSUME Typed, LineOK, CallerOK, line # <<>>
    PROVE  /\ Head(line) \in Saves /\ Tail(line) \in Seq(Saves)
           /\ Head(line).by \in Callers /\ Head(line).by \in saving
           /\ Head(line).by \notin Orders => Head(line).by \in Syncs
           /\ Head(line).by \in Orders => Head(line).by \notin Syncs /\ todo[Head(line).by] # <<>>
           /\ Head(line) \in BalanceSave =>
                  /\ "token" \in DOMAIN Head(line) /\ BalanceFits(Head(line))
                  /\ Head(line).token \in Tokens /\ Head(line).value \in Balance
           /\ Head(line) \in PromiseSave =>
                  /\ "token" \notin DOMAIN Head(line) /\ PromiseFits(Head(line))
                  /\ Head(line).by \in Orders /\ Head(line).value \in Reservation
           /\ "token" \in DOMAIN Head(line) => Head(line) \in BalanceSave
           /\ "token" \notin DOMAIN Head(line) => Head(line) \in PromiseSave
  <1>1. Head(line) \in In(line) /\ Head(line) \in Saves /\ Tail(line) \in Seq(Saves)
    BY First DEF Typed, SavesOK
  <1>2. Fits(Head(line))
    BY <1>1 DEF LineOK
  <1> DEFINE w == Head(line)
  <1>3. /\ "token" \in DOMAIN w <=> w \in BalanceSave
        /\ "token" \notin DOMAIN w <=> w \in PromiseSave
        /\ w.by \in Callers
    BY <1>1, Kinds
  <1>4. w.by \in saving
    BY <1>2 DEF Fits
  <1>5. /\ w.by \notin Orders => w.by \in Syncs
        /\ w.by \in Orders => w.by \notin Syncs
    BY <1>3, LedgerAssumption DEF Callers
  <1>6. w.by \in Orders => todo[w.by] # <<>>
    BY <1>4 DEF CallerOK
  <1>7. w \in BalanceSave => BalanceFits(w) /\ w.token \in Tokens /\ w.value \in Balance
    BY <1>2 DEF Fits, BalanceSave
  <1>8. w \in PromiseSave => PromiseFits(w) /\ w.by \in Orders /\ w.value \in Reservation
    BY <1>2 DEF Fits, PromiseSave
  <1> QED
    BY <1>1, <1>3, <1>4, <1>5, <1>6, <1>7, <1>8

\* A handler that starts leaves calls of its order.
LEMMA HandleOK ==
    ASSUME TodoOK, NextOK, NEW o \in Orders, NEW calls \in Seq(CallsOf(o)), NEW s \in OrderStates,
           Handle(o, calls, s)
    PROVE  TodoOK' /\ NextOK'
  <1>1. calls \in Seq(Calls)
    BY DEF CallsOf
  <1> QED
    BY <1>1 DEF TodoOK, NextOK, Handle

\* ... with no call, one, or two.
LEMMA Handles0 ==
    ASSUME TodoOK, NextOK, NEW o \in Orders, NEW s \in OrderStates, Handle(o, <<>>, s)
    PROVE  TodoOK' /\ NextOK'
  BY <<>> \in Seq(CallsOf(o)), HandleOK

LEMMA Handles1 ==
    ASSUME TodoOK, NextOK, NEW o \in Orders, NEW s \in OrderStates, NEW c \in CallsOf(o), Handle(o, <<c>>, s)
    PROVE  TodoOK' /\ NextOK'
  BY <<c>> \in Seq(CallsOf(o)), HandleOK

LEMMA Handles2 ==
    ASSUME TodoOK, NextOK, NEW o \in Orders, NEW s \in OrderStates, NEW c \in CallsOf(o), NEW d \in CallsOf(o),
           Handle(o, <<c, d>>, s)
    PROVE  TodoOK' /\ NextOK'
  BY <<c, d>> \in Seq(CallsOf(o)), HandleOK

\* What handlers call.
LEMMA CallOK ==
    ASSUME NEW o \in Orders, NEW t \in Touched(o), NEW n \in Nat,
           NEW op \in {"credit", "debit", "reserve", "commit", "release", "reconcile"}
    PROVE  Call(op, t, n) \in CallsOf(o)
  BY Values DEF Call, CallsOf, Calls, Touched

LEMMA Mine ==
    ASSUME NEW o \in Orders
    PROVE  Deposited[o] \in Touched(o) /\ Spent[o] \in Touched(o) /\ Bought[o] \in Touched(o)
  BY DEF Touched

\* Every step keeps the types.
LEMMA TypedStep ==
    ASSUME Typed, LineOK, CallerOK, [Next]_vars
    PROVE  Typed'
  <1> USE DEF Typed, ChainOK, RowsOK, ReservationsOK, PromisesOK, StateOK, NextOK, ReadOK, LeftOK, SetsOK, CountOK,
              vars, chainVars, memoryVars, storeVars, handlerVars, processVars
  <1>1. ASSUME NEW o \in Orders, CreditOrDebit(o) PROVE Typed'
    <2>1. BalancesOK' /\ SavesOK' /\ SavingOK'
      BY <1>1, HeadOK, BalanceOfOK, SetBalanceOK, Values DEF CreditOrDebit, Calling
    <2> QED
      BY <1>1, <2>1 DEF CreditOrDebit, TodoOK
  <1>2. ASSUME NEW o \in Orders, Reserve(o) PROVE Typed'
    <2>1. BalancesOK' /\ SavesOK' /\ SavingOK'
      BY <1>2, HeadOK, BalanceOfOK, SetBalanceOK, Values DEF Reserve, Calling
    <2> QED
      BY <1>2, <2>1 DEF Reserve, TodoOK
  <1>3. ASSUME NEW o \in Orders, ReserveAgain(o) \/ ReserveRefused(o) PROVE Typed'
    <2>1. TodoOK'
      BY <1>3, ReturnsOK DEF ReserveAgain, ReserveRefused, Calling
    <2> QED
      BY <1>3, <2>1 DEF ReserveAgain, ReserveRefused, SavesOK, BalancesOK, SavingOK, OrderStates
  <1>4. ASSUME NEW o \in Orders, Settle(o) PROVE Typed'
    <2>1. reservations[o].token \in Tokens /\ reservations[o].amount \in Nat
      BY <1>4 DEF Settle, Holds, Reservation
    <2>2. BalancesOK' /\ SavesOK' /\ SavingOK'
      BY <1>4, <2>1, BalanceOfOK, SetBalanceOK, Values DEF Settle
    <2> QED
      BY <1>4, <2>2 DEF Settle, TodoOK
  <1>5. ASSUME NEW o \in Orders, ReadBalance(o) PROVE Typed'
    <2>1. TodoOK'
      BY <1>5, ReturnsOK DEF ReadBalance, Calling, TodoOK
    <2>2. ReadOK'
      BY <1>5, HeadOK, Values DEF ReadBalance, Calling, Reads
    <2> QED
      BY <1>5, <2>1, <2>2 DEF ReadBalance, SavesOK, BalancesOK, SavingOK
  <1>6. ASSUME NEW c \in Callers, Reconcile(c) PROVE Typed'
    <2>1. read[c].token \in Tokens /\ read[c].value \in Int
      BY <1>6 DEF Reconcile
    <2>2. BalancesOK' /\ SavesOK' /\ SavingOK'
      BY <1>6, <2>1, BalanceOfOK, SetBalanceOK DEF Reconcile, SavesOK, BalancesOK, SavingOK
    <2>3. TodoOK'
      BY <1>6, ReturnsOK DEF Reconcile, CallerOK, TodoOK
    <2> QED
      BY <1>6, <2>2, <2>3 DEF Reconcile
  <1>7. ASSUME BalanceSaved PROVE Typed'
    <2> DEFINE w == Head(line)
               o == w.by
    <2>1. w \in BalanceSave /\ w.value \in Balance /\ w.token \in Tokens /\ o \in Callers /\ BalanceFits(w)
      BY <1>7, HeadFits DEF BalanceSaved
    <2>2. RowsOK'
      BY <1>7, <2>1 DEF BalanceSaved
    <2>3. CASE o \in Orders /\ TwoSaves(o)
      <3>1. Reserved(o) \in Reservation /\ Reserved(o) \in KeepsOf(o)
        BY <2>1, <2>3, ReservedOK, <1>7, HeadFits DEF BalanceFits, BalanceSaved
      <3>2. ReservationsOK'
        BY <1>7, <2>3, <3>1 DEF BalanceSaved, KeepsOf
      <3>3. SavesOK'
        <4>1. [by |-> o, value |-> Reserved(o)] \in Saves
          BY <2>3, <3>1 DEF Saves, PromiseSave
        <4>2. Tail(line) \in Seq(Saves)
          BY <1>7, First DEF BalanceSaved, SavesOK
        <4> QED
          <5>1. line' = Append(Tail(line), [by |-> o, value |-> Reserved(o)])
            BY <1>7, <2>3 DEF BalanceSaved
          <5> QED
            BY <4>1, <4>2, <5>1, Last DEF SavesOK
      <3> QED
        BY <1>7, <2>2, <2>3, <3>2, <3>3 DEF BalanceSaved, BalancesOK, SavingOK, TodoOK
    <2>4. CASE ~(o \in Orders /\ TwoSaves(o))
      <3>1. SavesOK' /\ SavingOK'
        <4>1. Tail(line) \in Seq(Saves)
          BY <1>7, First DEF BalanceSaved, SavesOK
        <4> QED
          BY <1>7, <2>4, <4>1 DEF BalanceSaved, SavesOK, SavingOK
      <3>2. TodoOK'
        BY <1>7, <2>1, <2>4, ReturnsOK, HeadFits DEF BalanceSaved, TodoOK
      <3> QED
        BY <1>7, <2>2, <2>4, <3>1, <3>2 DEF BalanceSaved, BalancesOK
    <2> QED
      BY <2>3, <2>4
  <1>8. ASSUME ReservationSaved PROVE Typed'
    <2> DEFINE w == Head(line)
    <2>1. w \in PromiseSave /\ w.value \in Reservation /\ w.by \in Orders /\ PromiseFits(w) /\ todo[w.by] # <<>>
      BY <1>8, HeadFits DEF ReservationSaved
    <2>2. PromisesOK'
      BY <1>8, <2>1 DEF ReservationSaved, PromiseFits
    <2>3. SavesOK' /\ SavingOK'
      BY <1>8, First DEF ReservationSaved, SavesOK, SavingOK
    <2>4. TodoOK'
      BY <1>8, <2>1, ReturnsOK DEF ReservationSaved
    <2> QED
      BY <1>8, <2>2, <2>3, <2>4 DEF ReservationSaved, BalancesOK
  <1>9. ASSUME SaveFails PROVE Typed'
    <2>1. SavesOK' /\ SavingOK'
      BY <1>9, First DEF SaveFails, SavesOK, SavingOK
    <2>2. Head(line).by \in Syncs \/ Head(line).by \in Orders
      BY <1>9, HeadFits DEF SaveFails
    <2>3. TodoOK'
      <3>1. todo' = todo \/ todo' = [todo EXCEPT ![Head(line).by] = <<>>]
        BY <1>9 DEF SaveFails, Throws
      <3>2. <<>> \in Seq(Calls) /\ \A o \in Orders : <<>> \in Seq(CallsOf(o))
        OBVIOUS
      <3> QED
        BY <3>1, <3>2, ZenonT(30) DEF TodoOK
    <2> QED
      <3>1. NextOK' /\ LeftOK' /\ SetsOK'
        BY <1>9, <2>2, ZenonT(30) DEF SaveFails, Throws
      <3>2. CountOK' /\ ChainOK' /\ BalancesOK' /\ RowsOK' /\ ReservationsOK' /\ PromisesOK' /\ StateOK' /\ ReadOK'
        BY <1>9 DEF SaveFails, BalancesOK, Event
      <3> QED
        BY <2>1, <2>3, <3>1, <3>2
  <1>10. ASSUME NEW o \in Orders, TakeDeposit(o) PROVE Typed'
    <2>1. TodoOK' /\ NextOK'
      <3>1. PICK s \in {"confirmed", "expired"} : Handle(o, <<Call("credit", Deposited[o], Amount[o])>>, s)
        BY <1>10 DEF TakeDeposit
      <3>2. Call("credit", Deposited[o], Amount[o]) \in CallsOf(o) /\ s \in OrderStates
        BY CallOK, Mine, Values DEF OrderStates
      <3> QED
        BY <3>1, <3>2, Handles1
    <2> QED
      BY <1>10, <2>1 DEF TakeDeposit, Handle, SavesOK, BalancesOK, SavingOK
  <1>11. ASSUME NEW o \in Orders, StartFill(o) PROVE Typed'
    <2>1. TodoOK' /\ NextOK'
      <3>1. /\ Call("reserve", Spent[o], Amount[o]) \in CallsOf(o) /\ "filling" \in OrderStates
            /\ Call("reserve", Bought[o], Quoted[o]) \in CallsOf(o)
        BY CallOK, Mine, Values DEF OrderStates
      <3> QED
        BY <1>11, <3>1, Handles1 DEF StartFill
    <2> QED
      BY <1>11, <2>1 DEF StartFill, Handle, SavesOK, BalancesOK, SavingOK
  <1>12. ASSUME NEW o \in Orders, RefuseFill(o) PROVE Typed'
    <2>1. TodoOK' /\ NextOK'
      <3>1. Call("release", Spent[o], Amount[o]) \in CallsOf(o) /\ "ended" \in OrderStates
        BY CallOK, Mine, Values DEF OrderStates
      <3> QED
        BY <1>12, <3>1, Handles1 DEF RefuseFill
    <2> QED
      BY <1>12, <2>1 DEF RefuseFill, Handle, SavesOK, BalancesOK, SavingOK
  <1>13. ASSUME NEW o \in Orders, Swap(o) PROVE Typed'
    <2>1. chain' \in [Tokens -> Nat]
      BY <1>13, Values DEF Swap
    <2> QED
      BY <1>13, <2>1 DEF Swap, TodoOK, SavesOK, BalancesOK, SavingOK
  <1>14. ASSUME NEW o \in Orders, Pay(o) PROVE Typed'
    <2>1. TodoOK' /\ NextOK'
      <3> DEFINE n == IF reservations[o].token = Bought[o] /\ Spent[o] # Bought[o] THEN Quoted[o] ELSE Amount[o]
                 calls == <<Call("commit", Spent[o], Amount[o]), Call("credit", Bought[o], n),
                            Call("debit", Bought[o], Quoted[o]), Call("reconcile", Bought[o], 0)>>
      <3>1. n \in Nat
        BY Values
      <3>2. Handle(o, calls, "ended")
        BY <1>14 DEF Pay
      <3> HIDE DEF n
      <3>3. calls \in Seq(CallsOf(o))
        BY <3>1, CallOK, Mine, Values
      <3> HIDE DEF calls
      <3> QED
        BY <3>2, <3>3, HandleOK DEF OrderStates
    <2>2. chain' \in [Tokens -> Nat]
      BY <1>14, Values DEF Pay
    <2> QED
      BY <1>14, <2>1, <2>2 DEF Pay, Handle, SavesOK, BalancesOK, SavingOK
  <1>15. ASSUME NEW o \in Orders, PayoutFails(o) PROVE Typed'
    <2>1. TodoOK' /\ NextOK'
      <3> DEFINE c == Call("commit", Spent[o], Amount[o])
                 d == Call("credit", Bought[o], Amount[o])
      <3>1. PICK s \in {"payout_failed", "ended"} : Handle(o, <<c, d>>, s)
        BY <1>15 DEF PayoutFails
      <3>2. c \in CallsOf(o) /\ d \in CallsOf(o) /\ s \in OrderStates
        BY CallOK, Mine, Values DEF OrderStates
      <3> HIDE DEF c, d
      <3> QED
        BY <3>1, <3>2, Handles2
    <2> QED
      BY <1>15, <2>1 DEF PayoutFails, Handle, SavesOK, BalancesOK, SavingOK
  <1>16. ASSUME NEW o \in Orders, StartRefund(o) \/ RefundGivenUp(o) PROVE Typed'
    <2>1. TodoOK' /\ NextOK'
      BY <1>16, Handles0, "refunding" \in OrderStates, "ended" \in OrderStates
         DEF StartRefund, RefundGivenUp, OrderStates
    <2> QED
      BY <1>16, <2>1 DEF StartRefund, RefundGivenUp, Handle, SavesOK, BalancesOK, SavingOK
  <1>17. ASSUME NEW o \in Orders, Refund(o) PROVE Typed'
    <2>1. TodoOK' /\ NextOK'
      <3>1. Call("debit", Deposited[o], Amount[o]) \in CallsOf(o) /\ "ended" \in OrderStates
        BY CallOK, Mine, Values DEF OrderStates
      <3> QED
        BY <1>17, <3>1, Handles1 DEF Refund
    <2>2. chain' \in [Tokens -> Nat]
      BY <1>17, Values DEF Refund
    <2> QED
      BY <1>17, <2>1, <2>2 DEF Refund, Handle, SavesOK, BalancesOK, SavingOK
  <1>18. ASSUME NEW o \in Orders, Advance(o) PROVE Typed'
    BY <1>18 DEF Advance, TodoOK, SavesOK, BalancesOK, SavingOK
  <1>19. ASSUME NEW o \in Orders, AdvanceFails(o) PROVE Typed'
    BY <1>19, LedgerAssumption, SMTT(30) DEF AdvanceFails, Throws, Event, TodoOK, SavesOK, BalancesOK,
       SavingOK
  <1>20. ASSUME NEW o \in Orders, UserPays(o) PROVE Typed'
    <2>1. StateOK' /\ ChainOK'
      BY <1>20, Values DEF UserPays, OrderStates
    <2>2. CountOK'
      BY <1>20 DEF UserPays, Event
    <2> QED
      BY <1>20, <2>1, <2>2 DEF UserPays, TodoOK, SavesOK, BalancesOK, SavingOK
  <1>21. ASSUME NEW s \in Syncs, SyncBegins(s) PROVE Typed'
    BY <1>21 DEF SyncBegins, TokensOn, TodoOK, SavesOK, BalancesOK, SavingOK
  <1>22. ASSUME NEW s \in Syncs, SyncReads(s) PROVE Typed'
    BY <1>22, Values DEF SyncReads, Reads, TodoOK, SavesOK, BalancesOK, SavingOK
  <1>23. ASSUME Crash PROVE Typed'
    <2>1. SavesOK' /\ TodoOK' /\ SavingOK'
      BY <1>23 DEF Crash, TodoOK, SavesOK, SavingOK
    <2>2. NextOK' /\ ReadOK' /\ LeftOK' /\ SetsOK' /\ CountOK'
      <3>1. NextOK'
        BY <1>23 DEF Crash
      <3>2. ReadOK' /\ LeftOK'
        BY <1>23 DEF Crash
      <3>3. SetsOK' /\ CountOK'
        <4>1. stuck' = {} /\ torn' = {} /\ recovering' = {} /\ events' = events + 1
          BY <1>23 DEF Crash, Event
        <4>2. up' \in BOOLEAN
          BY <1>23, Zenon DEF Crash
        <4> QED
          BY <4>1, <4>2
      <3> QED
        BY <3>1, <3>2, <3>3
    <2> QED
      BY <1>23, <2>1, <2>2 DEF Crash, BalancesOK
  <1>24. ASSUME TakeOver PROVE Typed'
    <2>1. BalancesOK'
      <3>1. \A t \in Tokens : HeldOf(promises, t) \in Int
        BY HeldOfOK
      <3> QED
        BY <1>24, <3>1, Values DEF TakeOver, BalancesOK, Balance
    <2> QED
      BY <1>24, <2>1 DEF TakeOver, TodoOK, SavesOK, SavingOK
  <1>25. ASSUME NEW o \in Orders, Recover(o) PROVE Typed'
    <2>1. TodoOK' /\ NextOK'
      <3>1. /\ Call("debit", Deposited[o], Amount[o]) \in CallsOf(o) /\ "ended" \in OrderStates
            /\ Call("commit", Spent[o], Amount[o]) \in CallsOf(o) /\ "review" \in OrderStates
        BY CallOK, Mine, Values DEF OrderStates
      <3> QED
        BY <1>25, <3>1, Handles0, Handles1 DEF Recover
    <2> QED
      BY <1>25, <2>1 DEF Recover, Handle, SavesOK, BalancesOK, SavingOK
  <1>26. CASE UNCHANGED vars
    BY <1>26 DEF TodoOK, SavesOK, BalancesOK, SavingOK
  <1> QED
    BY <1>1, <1>2, <1>3, <1>4, <1>5, <1>6, <1>7, <1>8, <1>9, <1>10, <1>11, <1>12, <1>13, <1>14,
       <1>15,
       <1>16, <1>17, <1>18, <1>19, <1>20, <1>21, <1>22, <1>23, <1>24, <1>25, <1>26
       DEF Next, LedgerCall, Handler, Saved, SyncStep, Quiescent, Callers

\* What is on its way is a save.
LEMMA InSaves ==
    ASSUME SavesOK
    PROVE  \A w \in In(line) : w \in Saves
  BY DEF SavesOK, In

\* A save fits as long as its caller's call and reservation stay what they are.
LEMMA FitsKept ==
    ASSUME NEW w \in Saves, Fits(w), w.by \in saving',
           w.by \in Orders => todo'[w.by] = todo[w.by] /\ reservations'[w.by] = reservations[w.by],
           \A t \in Tokens : rows[t] # None => rows'[t] # None
    PROVE  Fits(w)'
  <1>1. w \in BalanceSave /\ BalanceFits(w) => BalanceFits(w)'
    BY DEF BalanceFits, Holds
  <1>2. w \in PromiseSave /\ PromiseFits(w) => PromiseFits(w)'
    <2>1. w \in PromiseSave => w.by \in Orders /\ w.value.token \in Tokens
      BY DEF PromiseSave, Reservation
    <2> QED
      BY <2>1 DEF PromiseFits, TwoSaves, Holds
  <1> QED
    BY <1>1, <1>2 DEF Fits

\* The saves on their way stay, one is added, the oldest is taken, or followed.
LEMMA LineKept ==
    ASSUME SavesOK, LineOK, line' = line, saving' = saving,
           \A o \in Orders \cap saving : todo'[o] = todo[o] /\ reservations'[o] = reservations[o],
           \A t \in Tokens : rows[t] # None => rows'[t] # None
    PROVE  LineOK'
  <1>1. ASSUME NEW w \in In(line) PROVE Fits(w)'
    <2>1. w \in Saves /\ Fits(w) /\ w.by \in saving'
      BY InSaves DEF LineOK, Fits
    <2> QED
      BY <2>1, FitsKept
  <1> QED
    BY <1>1 DEF LineOK

LEMMA LineAdded ==
    ASSUME SavesOK, LineOK, NEW w \in Saves, line' = Append(line, w),
           saving' = saving \cup {w.by}, w.by \notin saving, Fits(w)',
           \A o \in Orders \cap saving : todo'[o] = todo[o] /\ reservations'[o] = reservations[o],
           \A t \in Tokens : rows[t] # None => rows'[t] # None
    PROVE  LineOK'
  <1>1. \A v \in In(line) : v \in Saves /\ Fits(v) /\ v.by \in saving /\ v.by # w.by
    BY InSaves DEF LineOK, Fits
  <1>2. In(line') = In(line) \cup {w} /\ Single(line')
    BY <1>1, Last DEF SavesOK, LineOK
  <1>3. ASSUME NEW v \in In(line) PROVE Fits(v)'
    BY <1>1, FitsKept
  <1> QED
    BY <1>2, <1>3 DEF LineOK

LEMMA LineTaken ==
    ASSUME SavesOK, LineOK, line # <<>>, line' = Tail(line), saving' = saving \ {Head(line).by},
           \A o \in Orders \cap saving' : todo'[o] = todo[o] /\ reservations'[o] = reservations[o],
           \A t \in Tokens : rows[t] # None => rows'[t] # None
    PROVE  LineOK'
  <1>1. Single(line') /\ \A v \in In(line') : v \in In(line) /\ v.by # Head(line).by
    BY First DEF SavesOK, LineOK
  <1>2. \A v \in In(line') : v \in Saves /\ Fits(v) /\ v.by \in saving'
    BY <1>1, InSaves DEF LineOK, Fits
  <1>3. ASSUME NEW v \in In(line') PROVE Fits(v)'
    BY <1>2, FitsKept
  <1> QED
    BY <1>1, <1>3 DEF LineOK

\* The oldest save is executed, and its call's second one sent.
LEMMA LineFollowed ==
    ASSUME SavesOK, LineOK, line # <<>>, saving' = saving,
           NEW w \in Saves, w.by = Head(line).by, line' = Append(Tail(line), w), Fits(w)',
           \A o \in Orders \cap saving : o # w.by => todo'[o] = todo[o] /\ reservations'[o] = reservations[o],
           \A t \in Tokens : rows[t] # None => rows'[t] # None
    PROVE  LineOK'
  <1> DEFINE s == Tail(line)
  <1>1. s \in Seq(Saves) /\ Single(s) /\ \A v \in In(s) : v \in In(line) /\ v.by # w.by
    BY First DEF SavesOK, LineOK
  <1>2. \A v \in In(s) : v \in Saves /\ Fits(v) /\ v.by \in saving'
    BY <1>1, InSaves DEF LineOK, Fits
  <1>3. In(line') = In(s) \cup {w} /\ Single(line')
    BY <1>1, Last
  <1>4. ASSUME NEW v \in In(s) PROVE Fits(v)'
    BY <1>1, <1>2, FitsKept
  <1> QED
    BY <1>3, <1>4 DEF LineOK

\* setBalance() sends the save of the call it is made in.
LEMMA SetBalanceFits ==
    ASSUME SavesOK, LineOK, NEW c \in Callers, NEW t \in Tokens, NEW a \in Int, NEW r \in Int,
           SetBalance(c, t, a, r), c \notin saving,
           rows' = rows, reservations' = reservations, todo' = todo,
           c \in Orders =>
               /\ Head(todo[c]).op = "reserve" => ~Holds(reservations, c) /\ t = Head(todo[c]).token
               /\ Head(todo[c]).op \in {"commit", "release"} =>
                      Holds(reservations, c) /\ t = reservations[c].token
    PROVE  LineOK'
  <1> DEFINE w == [by |-> c, token |-> t, value |-> [available |-> a, reserved |-> r]]
  <1>1. w \in BalanceSave /\ w \in Saves /\ w.by = c /\ w.token = t
    BY DEF Saves, BalanceSave, Balance
  <1>2. w \notin PromiseSave
    BY <1>1, Kinds
  <1>3. line' = Append(line, w) /\ saving' = saving \cup {c}
    BY DEF SetBalance
  <1> HIDE DEF w
  <1>4. PICK v : v = w
    OBVIOUS
  <1>5. Fits(v)'
    BY <1>1, <1>2, <1>3, <1>4 DEF Fits, BalanceFits, Holds
  <1> QED
    BY <1>1, <1>3, <1>4, <1>5, LineAdded

\* A call that returns, or a handler that throws, is of one order.
LEMMA ReturnsAlone ==
    ASSUME TodoOK, NEW o, Returns(o)
    PROVE  /\ \A p \in Orders : p # o => todo'[p] = todo[p]
           /\ o \in Orders => todo'[o] = Tail(todo[o])
  BY DEF Returns, TodoOK

LEMMA ThrowsAlone ==
    ASSUME TodoOK, NextOK, NEW o, Throws(o)
    PROVE  /\ \A p \in Orders : p # o => todo'[p] = todo[p] /\ next'[p] = next[p]
           /\ o \in Orders => todo'[o] = <<>> /\ next'[o] = "none"
  BY DEF Throws, TodoOK, NextOK

\* Callers stay in their calls as long as these stay.
LEMMA CallerKept ==
    ASSUME CallerOK, saving' = saving, read' = read,
           \A o \in Orders : todo[o] # <<>> => todo'[o] = todo[o]
    PROVE  CallerOK'
  BY DEF CallerOK

\* Every step keeps at most one save of a caller on its way, of the call it makes.
LEMMA LineStep ==
    ASSUME Typed, LineOK, CallerOK, DownOK, [Next]_vars
    PROVE  LineOK'
  <1> SavesOK /\ TodoOK /\ NextOK
    BY DEF Typed
  <1> USE DEF vars, chainVars, memoryVars, storeVars, handlerVars, processVars
  <1>1. ASSUME NEW o \in Orders, CreditOrDebit(o) PROVE LineOK'
    BY <1>1, HeadOK, BalanceOfOK, SetBalanceFits, Values DEF CreditOrDebit, Calling, Typed
  <1>2. ASSUME NEW o \in Orders, Reserve(o) PROVE LineOK'
    <2> DEFINE c == Head(todo[o])
               b == BalanceOf(c.token)
    <2>1. /\ SetBalance(o, c.token, b.available - c.amount, b.reserved + c.amount)
          /\ todo[o] # <<>> /\ o \notin saving /\ c.op = "reserve" /\ ~Holds(reservations, o)
          /\ rows' = rows /\ reservations' = reservations /\ todo' = todo
      BY <1>2 DEF Reserve, Calling
    <2>2. c.token \in Tokens /\ b.available - c.amount \in Int /\ b.reserved + c.amount \in Int
      BY <2>1, HeadOK, BalanceOfOK DEF Typed
    <2>3. c.op \notin {"commit", "release"}
      BY <2>1
    <2> HIDE DEF b
    <2> QED
      BY <2>1, <2>2, <2>3, SetBalanceFits, Values
  <1>3. ASSUME NEW o \in Orders, ReserveAgain(o) \/ ReserveRefused(o) PROVE LineOK'
    BY <1>3, LineKept, ReturnsAlone DEF ReserveAgain, ReserveRefused, Calling
  <1>4. ASSUME NEW o \in Orders, Settle(o) PROVE LineOK'
    <2>1. reservations[o].token \in Tokens /\ reservations[o].amount \in Nat
      BY <1>4 DEF Settle, Holds, Reservation, Typed, ReservationsOK
    <2> QED
      BY <1>4, <2>1, BalanceOfOK, SetBalanceFits, Values DEF Settle, Calling, Typed
  <1>5. ASSUME NEW o \in Orders, ReadBalance(o) PROVE LineOK'
    BY <1>5, LineKept, ReturnsAlone DEF ReadBalance, Calling
  <1>6. ASSUME NEW c \in Callers, Reconcile(c) PROVE LineOK'
    <2>1. /\ read[c].token \in Tokens /\ read[c].value \in Int
          /\ c \notin saving /\ (c \in Orders => Head(todo[c]).op = "reconcile")
      BY <1>6 DEF Reconcile, Typed, ReadOK, CallerOK
    <2> DEFINE b == BalanceOf(read[c].token)
               a == read[c].value - b.reserved
    <2>2. CASE a = b.available
      <3>1. line' = line /\ saving' = saving /\ rows' = rows /\ reservations' = reservations
        BY <1>6, <2>2 DEF Reconcile
      <3>2. \A o \in Orders : o # c => todo'[o] = todo[o]
        BY <1>6, ReturnsAlone DEF Reconcile
      <3> QED
        BY <2>1, <3>1, <3>2, LineKept
    <2>3. CASE a # b.available
      <3>1. SetBalance(c, read[c].token, a, b.reserved)
        BY <1>6, <2>3 DEF Reconcile
      <3>2. todo' = todo
        BY <1>6, <3>1 DEF Reconcile, SetBalance
      <3>3. rows' = rows /\ reservations' = reservations
        BY <1>6 DEF Reconcile
      <3>4. a \in Int /\ b.reserved \in Int
        BY <2>1, BalanceOfOK DEF Typed
      <3> HIDE DEF a, b
      <3> QED
        BY <2>1, <3>1, <3>2, <3>3, <3>4, SetBalanceFits
    <2> QED
      BY <2>2, <2>3
  <1>7. ASSUME BalanceSaved PROVE LineOK'
    <2>0. PICK w : w = Head(line)
      OBVIOUS
    <2> DEFINE o == w.by
    <2>1. w \in BalanceSave /\ w.value \in Balance /\ w.token \in Tokens /\ o \in Callers /\ BalanceFits(w)
          /\ o \in saving /\ line # <<>> /\ (o \in Orders => o \notin Syncs /\ todo[o] # <<>>)
      BY <1>7, <2>0, HeadFits DEF BalanceSaved
    <2>2. \A t \in Tokens : rows[t] # None => rows'[t] # None
      BY <1>7, <2>0, <2>1, Values DEF BalanceSaved, Typed, RowsOK
    <2>3. CASE o \in Orders /\ TwoSaves(o)
      <3> DEFINE v == [by |-> o, value |-> Reserved(o)]
      <3>1. /\ line' = Append(Tail(line), v) /\ saving' = saving /\ todo' = todo
            /\ reservations' = [reservations EXCEPT ![o] = Reserved(o)]
            /\ rows' = [rows EXCEPT ![w.token] = w.value]
        BY <1>7, <2>0, <2>3 DEF BalanceSaved
      <3>2. Head(todo[o]).op \in {"commit", "release"} => Holds(reservations, o) /\ w.token = reservations[o].token
        BY <2>1, <2>3 DEF BalanceFits
      <3>3. Head(todo[o]).op = "reserve" => w.token = Head(todo[o]).token
        BY <2>1, <2>3 DEF BalanceFits
      <3>4. /\ Reserved(o) \in Reservation
            /\ Reserved(o).token = w.token
            /\ Reserved(o).state = "held" <=> Head(todo[o]).op = "reserve"
        BY <2>1, <2>3, <3>2, <3>3, ReservedOK DEF TwoSaves
      <3>5. v \in PromiseSave /\ v \in Saves /\ v.by = o /\ v.value = Reserved(o)
        BY <2>3, <3>4 DEF PromiseSave, Saves
      <3>6. v \notin BalanceSave
        BY <3>5, Kinds
      <3>7. reservations'[o] = Reserved(o) /\ rows'[w.token] = w.value
        BY <2>1, <2>3, <3>1 DEF Typed, ReservationsOK, RowsOK
      <3>8. \A p \in Orders \cap saving : p # v.by => todo'[p] = todo[p] /\ reservations'[p] = reservations[p]
        BY <3>1, <3>5 DEF Typed, ReservationsOK
      <3> HIDE DEF v
      <3>9. PICK x : x = v
        OBVIOUS
      <3>10. PromiseFits(x)'
        <4>1. TwoSaves(o)'
          <5>1. todo'[o] = todo[o]
            BY <3>1
          <5> QED
            BY <2>3, <5>1 DEF TwoSaves
        <4>2. Reserved(o) # None /\ w.value # None
          BY <2>1, <3>4, Values
        <4> QED
          BY <2>3, <3>1, <3>4, <3>5, <3>7, <3>9, <4>1, <4>2 DEF PromiseFits, Holds, TwoSaves
      <3>11. Fits(x)'
        BY <2>1, <3>1, <3>5, <3>6, <3>9, <3>10 DEF Fits
      <3> QED
        BY <2>0, <2>1, <2>2, <3>1, <3>5, <3>8, <3>9, <3>11, LineFollowed
    <2>4. CASE ~(o \in Orders /\ TwoSaves(o))
      <3>1. line' = Tail(line) /\ saving' = saving \ {o} /\ reservations' = reservations
        BY <1>7, <2>0, <2>4 DEF BalanceSaved
      <3>2. \A p \in Orders : p # o => todo'[p] = todo[p]
        BY <1>7, <2>0, <2>4, ReturnsAlone DEF BalanceSaved
      <3> QED
        BY <2>0, <2>1, <2>2, <3>1, <3>2, LineTaken
    <2> QED
      BY <2>3, <2>4
  <1>8. ASSUME ReservationSaved PROVE LineOK'
    <2>1. line # <<>> /\ line' = Tail(line) /\ saving' = saving \ {Head(line).by} /\ rows' = rows
          /\ reservations' = reservations
      BY <1>8 DEF ReservationSaved
    <2>2. \A p \in Orders : p # Head(line).by => todo'[p] = todo[p]
      BY <1>8, ReturnsAlone DEF ReservationSaved
    <2> QED
      BY <2>1, <2>2, LineTaken
  <1>9. ASSUME SaveFails PROVE LineOK'
    <2>1. line # <<>> /\ line' = Tail(line) /\ saving' = saving \ {Head(line).by} /\ rows' = rows
          /\ reservations' = reservations
      BY <1>9 DEF SaveFails
    <2>2. \A p \in Orders : p # Head(line).by => todo'[p] = todo[p]
      BY <1>9, ThrowsAlone DEF SaveFails
    <2> QED
      BY <2>1, <2>2, LineTaken
  <1>10. ASSUME NEW o \in Orders, NEW calls, NEW s, Handle(o, calls, s), todo[o] = <<>> PROVE LineOK'
    BY <1>10, LineKept DEF Handle, CallerOK
  <1>11. ASSUME NEW o \in Orders, Handler(o), ~Swap(o), ~Advance(o) PROVE LineOK'
    <2>1. \E calls, s : Handle(o, calls, s)
      BY <1>11 DEF Handler, TakeDeposit, StartFill, RefuseFill, Pay, PayoutFails, StartRefund,
         Refund,
         RefundGivenUp, Recover
    <2>2. todo[o] = <<>>
      BY <1>11 DEF Handler, TakeDeposit, StartFill, RefuseFill, Pay, PayoutFails, StartRefund,
         Refund,
         RefundGivenUp, Recover, Idle
    <2> QED
      BY <1>10, <2>1, <2>2
  <1>12. ASSUME NEW o \in Orders, Swap(o) \/ Advance(o) \/ UserPays(o) PROVE LineOK'
    BY <1>12, LineKept DEF Swap, Advance, UserPays
  <1>13. ASSUME NEW o \in Orders, AdvanceFails(o) PROVE LineOK'
    BY <1>13, LineKept DEF AdvanceFails, Throws, CallerOK
  <1>14. ASSUME NEW s \in Syncs, SyncBegins(s) \/ SyncReads(s) PROVE LineOK'
    BY <1>14, LineKept DEF SyncBegins, SyncReads
  <1>15. ASSUME Crash PROVE LineOK'
    BY <1>15 DEF Crash, LineOK, In, Single
  <1>16. ASSUME TakeOver PROVE LineOK'
    BY <1>16 DEF TakeOver, DownOK, LineOK, In, Single
  <1>17. CASE UNCHANGED vars
    BY <1>17, LineKept
  <1> QED
    BY <1>1, <1>2, <1>3, <1>4, <1>5, <1>6, <1>7, <1>8, <1>9, <1>11, <1>12, <1>13, <1>14, <1>15,
       <1>16, <1>17
       DEF Next, LedgerCall, Saved, SyncStep, Quiescent, Callers, Handler

\* Every step leaves who saves or has read in a call.
LEMMA CallerStep ==
    ASSUME Typed, LineOK, CallerOK, DownOK, [Next]_vars
    PROVE  CallerOK'
  <1> TodoOK /\ NextOK /\ ReadOK /\ SavingOK
    BY DEF Typed
  <1> USE DEF vars, chainVars, memoryVars, storeVars, handlerVars, processVars
  <1>1. ASSUME NEW o \in Orders, CreditOrDebit(o) \/ Reserve(o) \/ Settle(o) PROVE CallerOK'
    <2>1. /\ saving' = saving \cup {o} /\ todo' = todo /\ read' = read /\ todo[o] # <<>>
          /\ Head(todo[o]).op # "reconcile"
      BY <1>1 DEF CreditOrDebit, Reserve, Settle, SetBalance, Calling
    <2> QED
      BY <2>1 DEF CallerOK
  <1>3. ASSUME NEW o \in Orders, ReserveAgain(o) \/ ReserveRefused(o) PROVE CallerOK'
    BY <1>3, ReturnsAlone DEF ReserveAgain, ReserveRefused, Calling, CallerOK
  <1>5. ASSUME NEW o \in Orders, ReadBalance(o) PROVE CallerOK'
    <2>1. /\ todo[o] # <<>> /\ o \notin saving /\ Head(todo[o]).op = "reconcile" /\ read[o] = None
          /\ saving' = saving
      BY <1>5 DEF ReadBalance, Calling
    <2>2. CASE live
      <3>1. todo' = todo /\ \A c \in Callers : c # o => read'[c] = read[c]
        BY <1>5, <2>2 DEF ReadBalance, Reads, ReadOK
      <3> QED
        BY <2>1, <3>1 DEF CallerOK
    <2>3. CASE ~live
      <3>1. read' = read /\ \A p \in Orders : p # o => todo'[p] = todo[p]
        BY <1>5, <2>3, ReturnsAlone DEF ReadBalance
      <3> QED
        BY <2>1, <3>1, Values DEF CallerOK
    <2> QED
      BY <2>2, <2>3
  <1>6. ASSUME NEW c \in Callers, Reconcile(c) PROVE CallerOK'
    <2>1. /\ c \notin saving /\ (c \in Orders => todo[c] # <<>>)
          /\ (saving' = saving \/ saving' = saving \cup {c})
          /\ read'[c] = None /\ \A d \in Callers : d # c => read'[d] = read[d]
          /\ \A p \in Orders : p # c => todo'[p] = todo[p]
          /\ c \in saving' => todo' = todo
      BY <1>6, ReturnsAlone DEF Reconcile, SetBalance, CallerOK, ReadOK
    <2> QED
      BY <2>1 DEF CallerOK
  <1>7. ASSUME BalanceSaved PROVE CallerOK'
    <2>1. /\ read' = read
          /\ \/ saving' = saving /\ todo' = todo
             \/ /\ saving' = saving \ {Head(line).by}
                /\ \A p \in Orders : p # Head(line).by => todo'[p] = todo[p]
      BY <1>7, ReturnsAlone DEF BalanceSaved
    <2>2. Head(line).by \in saving
      BY <1>7, HeadFits DEF BalanceSaved
    <2> QED
      BY <2>1, <2>2 DEF CallerOK
  <1>8. ASSUME ReservationSaved PROVE CallerOK'
    <2>1. read' = read /\ saving' = saving \ {Head(line).by}
          /\ \A p \in Orders : p # Head(line).by => todo'[p] = todo[p]
      BY <1>8, ReturnsAlone DEF ReservationSaved
    <2>2. Head(line).by \in saving
      BY <1>8, HeadFits DEF ReservationSaved
    <2> QED
      BY <2>1, <2>2 DEF CallerOK
  <1>9. ASSUME SaveFails PROVE CallerOK'
    <2>1. read' = read /\ saving' = saving \ {Head(line).by}
          /\ \A p \in Orders : p # Head(line).by => todo'[p] = todo[p]
      BY <1>9, ThrowsAlone DEF SaveFails
    <2>2. Head(line).by \in saving
      BY <1>9, HeadFits DEF SaveFails
    <2> QED
      BY <2>1, <2>2 DEF CallerOK
  <1>11. ASSUME NEW o \in Orders, Handler(o), ~Swap(o), ~Advance(o) PROVE CallerOK'
    <2>1. \E calls, s : Handle(o, calls, s)
      BY <1>11 DEF Handler, TakeDeposit, StartFill, RefuseFill, Pay, PayoutFails, StartRefund,
         Refund,
         RefundGivenUp, Recover
    <2>2. todo[o] = <<>>
      BY <1>11 DEF Handler, TakeDeposit, StartFill, RefuseFill, Pay, PayoutFails, StartRefund,
         Refund,
         RefundGivenUp, Recover, Idle
    <2>3. saving' = saving /\ read' = read /\ \A p \in Orders : p # o => todo'[p] = todo[p]
      BY <2>1 DEF Handle, TodoOK
    <2> QED
      BY <2>2, <2>3, CallerKept
  <1>12. ASSUME NEW o \in Orders, Swap(o) \/ Advance(o) \/ UserPays(o) PROVE CallerOK'
    BY <1>12, CallerKept DEF Swap, Advance, UserPays
  <1>13. ASSUME NEW o \in Orders, AdvanceFails(o) PROVE CallerOK'
    BY <1>13, CallerKept, ThrowsAlone DEF AdvanceFails
  <1>14. ASSUME NEW s \in Syncs, SyncBegins(s) \/ SyncReads(s) PROVE CallerOK'
    <2>1. /\ saving' = saving /\ todo' = todo /\ s \notin saving /\ s \notin Orders
          /\ \A c \in Callers : c # s => read'[c] = read[c]
      BY <1>14, LedgerAssumption DEF SyncBegins, SyncReads, Reads, ReadOK
    <2> QED
      BY <2>1 DEF CallerOK
  <1>15. ASSUME Crash PROVE CallerOK'
    BY <1>15 DEF Crash, CallerOK
  <1>16. ASSUME TakeOver PROVE CallerOK'
    BY <1>16, CallerKept DEF TakeOver
  <1>17. CASE UNCHANGED vars
    BY <1>17, CallerKept
  <1> QED
    BY <1>1, <1>3, <1>5, <1>6, <1>7, <1>8, <1>9, <1>11, <1>12, <1>13, <1>14, <1>15, <1>16, <1>17
       DEF Next, LedgerCall, Saved, SyncStep, Quiescent, Callers, Handler

\* While no process runs, users pay and the next one starts.
LEMMA WhileDown ==
    ASSUME ~up, [Next]_vars
    PROVE  \/ TakeOver \/ UNCHANGED vars \/ \E o \in Orders : UserPays(o)
  <1>1. \A o \in Orders : ~LedgerCall(o)
    BY DEF LedgerCall, CreditOrDebit, Reserve, ReserveAgain, ReserveRefused, Settle,
       ReadBalance, Reconcile,
       Calling
  <1>2. \A o \in Orders : ~Handler(o) /\ ~AdvanceFails(o)
    BY DEF Handler, TakeDeposit, StartFill, RefuseFill, Swap, Pay, PayoutFails, StartRefund,
       Refund,
       RefundGivenUp, Advance, Recover, AdvanceFails, Idle
  <1>3. (\A s \in Syncs : ~SyncStep(s)) /\ ~Saved /\ ~SaveFails /\ ~Crash /\ ~Quiescent
    BY DEF SyncStep, SyncBegins, SyncReads, Reconcile, Saved, BalanceSaved, ReservationSaved,
       SaveFails,
       Crash, Quiescent
  <1> QED
    BY <1>1, <1>2, <1>3 DEF Next

\* A crash stops everything, and only a new leader starts it.
LEMMA DownStep ==
    ASSUME Typed, DownOK, [Next]_vars
    PROVE  DownOK'
  <1> USE DEF vars, chainVars, memoryVars, storeVars, handlerVars, processVars
  <1>1. CASE up
    <2>1. up' = up \/ Crash
      <3>1. \A o \in Orders : LedgerCall(o) => up' = up
        BY DEF LedgerCall, CreditOrDebit, Reserve, ReserveAgain, ReserveRefused, Settle,
           ReadBalance, Reconcile
      <3>2. \A o \in Orders : Handler(o) \/ AdvanceFails(o) \/ UserPays(o) => up' = up
        BY DEF Handler, TakeDeposit, StartFill, RefuseFill, Swap, Pay, PayoutFails,
           StartRefund, Refund,
           RefundGivenUp, Advance, Recover, AdvanceFails, UserPays
      <3>3. /\ \A s \in Syncs : SyncStep(s) => up' = up
            /\ Saved \/ SaveFails \/ Quiescent => up' = up
        BY DEF SyncStep, SyncBegins, SyncReads, Reconcile, Saved, BalanceSaved,
           ReservationSaved, SaveFails,
           Quiescent
      <3>4. ~TakeOver
        BY <1>1 DEF TakeOver
      <3> QED
        BY <3>1, <3>2, <3>3, <3>4 DEF Next
    <2>2. Crash => DownOK'
      BY DEF Crash, DownOK
    <2> QED
      BY <1>1, <2>1, <2>2 DEF DownOK
  <1>2. CASE ~up
    <2>1. \/ TakeOver \/ UNCHANGED vars \/ \E o \in Orders : UserPays(o)
      BY <1>2, WhileDown
    <2>2. TakeOver => DownOK'
      BY DEF TakeOver, DownOK
    <2>3. ASSUME NEW o \in Orders, UserPays(o) PROVE DownOK'
      BY <2>3, <1>2 DEF UserPays, DownOK
    <2>4. UNCHANGED vars => DownOK'
      BY <1>2 DEF DownOK
    <2> QED
      BY <2>1, <2>2, <2>3, <2>4
  <1> QED
    BY <1>1, <1>2

\* The types and the shape of the calls hold at the start, and always.
LEMMA ShapeInit ==
    ASSUME Init
    PROVE  Typed /\ LineOK /\ CallerOK /\ DownOK
  <1> USE DEF Init
  <1>1. ChainOK /\ StateOK /\ NextOK /\ LeftOK /\ SetsOK /\ SavingOK
    BY Values, LedgerAssumption DEF ChainOK, StateOK, NextOK, LeftOK, SetsOK, OrderStates,
       SavingOK
  <1>2. BalancesOK /\ RowsOK
    BY Values DEF BalancesOK, RowsOK, Balance
  <1>3. ReservationsOK /\ PromisesOK
    BY DEF ReservationsOK, PromisesOK, KeepsOf
  <1>4. TodoOK /\ SavesOK
    BY DEF TodoOK, SavesOK
  <1>5. ReadOK
    BY DEF ReadOK
  <1>6. CountOK
    BY DEF CountOK
  <1>7. LineOK
    BY DEF LineOK, In, Single
  <1>8. CallerOK
    BY DEF CallerOK
  <1>9. DownOK
    BY DEF DownOK
  <1> QED
    BY <1>1, <1>2, <1>3, <1>4, <1>5, <1>6, <1>7, <1>8, <1>9 DEF Typed

LEMMA ShapeHolds == Spec => [](Typed /\ LineOK /\ CallerOK /\ DownOK)
  <1>1. Init => Typed /\ LineOK /\ CallerOK /\ DownOK
    BY ShapeInit
  <1>2. (Typed /\ LineOK /\ CallerOK /\ DownOK) /\ [Next]_vars
            => (Typed /\ LineOK /\ CallerOK /\ DownOK)'
    BY TypedStep, LineStep, CallerStep, DownStep
  <1> QED
    BY <1>1, <1>2, PTL DEF Spec

\* The ledger's state is well formed, whatever is awaited, throws or restarts:
\* balances and reservations are of the tokens and orders there are, and
\* what handlers are about to call is what orders/inventory.ts offers.
THEOREM TypeCorrect == Spec => []TypeOK
  <1>1. Typed => TypeOK
    BY Groups DEF Typed
  <1> QED
    BY <1>1, ShapeHolds, PTL

-----------------------------------------------------------------------------
(* What is reserved, and what is stored.                                   *)

Clear(t) == \A o \in torn : t \notin Touched(o)

\* What an order promised is a number.
LEMMA PromisedInt == Typed => \A o \in Orders, t \in Tokens : Promised(o, t) \in Int
  <1>1. SUFFICES ASSUME Typed, NEW o \in Orders, NEW t \in Tokens PROVE Promised(o, t) \in Int
    OBVIOUS
  <1>2. Holds(reservations, o) => reservations[o].amount \in Int
    BY <1>1 DEF Typed, ReservationsOK, Reservation, Holds
  <1>3. Between(o, {"reserve"}) => Head(todo[o]).amount \in Int
    BY <1>1, HeadOK DEF Typed, Between
  <1> QED
    BY <1>2, <1>3 DEF Promised

\* No call of the order is between its two saves, nor could be.
Loose(o) == o \in saving => Head(todo[o]).op \in Simple

\* ... and stays while its reservation and its call do.
LEMMA PromisedKept ==
    ASSUME NEW o \in Orders, NEW t \in Tokens, reservations'[o] = reservations[o],
           \/ todo'[o] = todo[o] /\ (o \in saving' <=> o \in saving)
           \/ Loose(o) /\ Loose(o)'
    PROVE  Promised(o, t)' = Promised(o, t)
  <1>1. CASE todo'[o] = todo[o] /\ (o \in saving' <=> o \in saving)
    BY <1>1 DEF Promised, Holds, Between
  <1>2. CASE Loose(o) /\ Loose(o)'
    <2>1. \A ops \in {{"reserve"}, {"commit", "release"}} : ~Between(o, ops) /\ ~Between(o, ops)'
      BY <1>2 DEF Loose, Between, Simple
    <2>2. Promised(o, t) = IF Holds(reservations, o) /\ reservations[o].token = t THEN reservations[o].amount ELSE 0
      BY <2>1 DEF Promised
    <2>3. Promised(o, t)' = IF Holds(reservations, o) /\ reservations[o].token = t THEN reservations[o].amount ELSE 0
      BY <2>1 DEF Promised, Holds
    <2> QED
      BY <2>2, <2>3
  <1> QED
    BY <1>1, <1>2

\* An order's promise changes by what the reserved balance does.
LEMMA Moved ==
    ASSUME Typed, Balanced, up, torn \subseteq torn', NEW x \in Orders,
           \A t \in Tokens : Clear(t)' =>
               /\ \A o \in Orders \ {x} : Promised(o, t)' = Promised(o, t)
               /\ Promised(x, t)' \in Int
               /\ BalanceOf(t).reserved' = BalanceOf(t).reserved - Promised(x, t) + Promised(x, t)'
    PROVE  Balanced'
  <1>1. SUFFICES ASSUME NEW t \in Tokens, Clear(t)'
                 PROVE  BalanceOf(t).reserved' = SumFunction([o \in Orders |-> Promised(o, t)'])
    BY DEF Balanced, Clear
  <1> DEFINE f == [o \in Orders |-> Promised(o, t)]
             e == [o \in Orders |-> Promised(o, t)']
  <1>2. f \in [Orders -> Int] /\ e \in [Orders -> Int]
    <2>2. \A o \in Orders : Promised(o, t) \in Int /\ Promised(o, t)' \in Int
      BY <1>1, PromisedInt
    <2> QED
      BY <2>2
  <1>3. \A o \in Orders \ {x} : e[o] = f[o]
    BY <1>1
  <1>4. f[x] = Promised(x, t) /\ e[x] = Promised(x, t)'
    OBVIOUS
  <1>5. BalanceOf(t).reserved = SumFunction(f)
    BY <1>1 DEF Balanced, Clear
  <1> HIDE DEF f, e
  <1>6. /\ SumFunction(f) \in Int /\ SumFunction(e) \in Int
        /\ SumFunction(e) = SumFunction(f) - f[x] + e[x]
    BY <1>2, <1>3, LedgerAssumption, SumChange
  <1>7. BalanceOf(t).reserved' = SumFunction(e)
    BY <1>1, <1>4, <1>5, <1>6
  <1> QED
    BY <1>7 DEF e

\* ... or nothing promised changes and no reserved balance does.
LEMMA Steady ==
    ASSUME Balanced, up, torn \subseteq torn',
           \A t \in Tokens : Clear(t)' =>
               /\ \A o \in Orders : Promised(o, t)' = Promised(o, t)
               /\ BalanceOf(t).reserved' = BalanceOf(t).reserved
    PROVE  Balanced'
  <1>1. SUFFICES ASSUME NEW t \in Tokens, Clear(t)'
                 PROVE  BalanceOf(t).reserved' = SumFunction([o \in Orders |-> Promised(o, t)'])
    BY DEF Balanced, Clear
  <1>2. [o \in Orders |-> Promised(o, t)'] = [o \in Orders |-> Promised(o, t)]
    BY <1>1
  <1>3. BalanceOf(t).reserved = SumFunction([o \in Orders |-> Promised(o, t)])
    BY <1>1 DEF Balanced, Clear
  <1> QED
    BY <1>1, <1>2, <1>3

\* What setBalance() leaves of every balance.
LEMMA SetBalanceAt ==
    ASSUME BalancesOK, NEW c, NEW u \in Tokens, NEW a \in Int, NEW r \in Int, SetBalance(c, u, a, r), NEW t \in Tokens
    PROVE  balances'[t] = IF t = u THEN [available |-> a, reserved |-> r] ELSE balances[t]
  BY DEF SetBalance, BalancesOK

LEMMA SetReserved ==
    ASSUME BalancesOK, NEW c, NEW u \in Tokens, NEW a \in Int, NEW r \in Int, SetBalance(c, u, a, r), NEW t \in Tokens
    PROVE  BalanceOf(t).reserved' = IF t = u THEN r ELSE BalanceOf(t).reserved
  <1> DEFINE b == [available |-> a, reserved |-> r]
  <1>1. b # None
    BY Values DEF Balance
  <1>2. balances'[t] = IF t = u THEN b ELSE balances[t]
    BY SetBalanceAt
  <1>3. b.available = a /\ b.reserved = r
    OBVIOUS
  <1> HIDE DEF b
  <1> QED
    BY <1>1, <1>2, <1>3 DEF BalanceOf

LEMMA SetAvailable ==
    ASSUME BalancesOK, NEW c, NEW u \in Tokens, NEW a \in Int, NEW r \in Int, SetBalance(c, u, a, r), NEW t \in Tokens
    PROVE  BalanceOf(t).available' = IF t = u THEN a ELSE BalanceOf(t).available
  <1> DEFINE b == [available |-> a, reserved |-> r]
  <1>1. b # None
    BY Values DEF Balance
  <1>2. balances'[t] = IF t = u THEN b ELSE balances[t]
    BY SetBalanceAt
  <1>3. b.available = a /\ b.reserved = r
    OBVIOUS
  <1> HIDE DEF b
  <1> QED
    BY <1>1, <1>2, <1>3 DEF BalanceOf

\* Every step changes `reserved` by what it changes of the promises: a call at its
\* first save, and restore() for all orders at once.
LEMMA BalancedStep ==
    ASSUME Typed, LineOK, CallerOK, DownOK, Balanced, RowsFirst, [Next]_vars
    PROVE  Balanced'
  <1> TodoOK /\ NextOK /\ ReadOK /\ SavingOK /\ BalancesOK /\ SavesOK /\ ReservationsOK
    BY DEF Typed
  <1> USE DEF vars, chainVars, memoryVars, storeVars, handlerVars, processVars
  <1>1. ASSUME NEW o \in Orders, CreditOrDebit(o) PROVE Balanced'
    <2> DEFINE c == Head(todo[o])
               b == BalanceOf(c.token)
               a == IF c.op = "credit" THEN b.available + c.amount ELSE b.available - c.amount
    <2>1. /\ SetBalance(o, c.token, a, b.reserved) /\ todo[o] # <<>> /\ o \notin saving
          /\ c.op \in Simple
          /\ todo' = todo /\ torn' = torn /\ reservations' = reservations /\ up
      BY <1>1 DEF CreditOrDebit, Calling, Simple
    <2>2. c.token \in Tokens /\ a \in Int /\ b.reserved \in Int
      BY <2>1, HeadOK, BalanceOfOK
    <2> HIDE DEF a
    <2>3. \A t \in Tokens : BalanceOf(t).reserved' = BalanceOf(t).reserved
      BY <2>1, <2>2, SetReserved
    <2>4. saving' = saving \cup {o}
      BY <2>1 DEF SetBalance
    <2>5. Loose(o) /\ Loose(o)'
      BY <2>1, <2>4 DEF Loose
    <2>6. \A p \in Orders, t \in Tokens : Promised(p, t)' = Promised(p, t)
      BY <2>1, <2>4, <2>5, PromisedKept
    <2> QED
      BY <2>1, <2>3, <2>6, Steady
  <1>2. ASSUME NEW o \in Orders, Reserve(o) PROVE Balanced'
    <2> DEFINE c == Head(todo[o])
               b == BalanceOf(c.token)
    <2>1. /\ SetBalance(o, c.token, b.available - c.amount, b.reserved + c.amount)
          /\ todo[o] # <<>> /\ o \notin saving /\ c.op = "reserve" /\ ~Holds(reservations, o)
          /\ todo' = todo /\ torn' = torn /\ reservations' = reservations /\ up
      BY <1>2 DEF Reserve, Calling
    <2>2. c.token \in Tokens /\ b.available - c.amount \in Int /\ b.reserved + c.amount \in Int /\ c.amount \in Int
          /\ b.reserved \in Int
      BY <2>1, HeadOK, BalanceOfOK
    <2>3. saving' = saving \cup {o}
      BY <2>1 DEF SetBalance
    <2>4. \A t \in Tokens : BalanceOf(t).reserved' = IF t = c.token THEN b.reserved + c.amount ELSE BalanceOf(t).reserved
      <3> HIDE DEF b
      <3> QED
        BY <2>1, <2>2, SetReserved
    <2>5. \A t \in Tokens : Promised(o, t) = 0
      BY <2>1 DEF Promised, Between
    <2>6. \A t \in Tokens : Promised(o, t)' = IF t = c.token THEN c.amount ELSE 0
      BY <2>1, <2>3 DEF Promised, Between, Holds
    <2>7. \A p \in Orders \ {o}, t \in Tokens : Promised(p, t)' = Promised(p, t)
      BY <2>1, <2>3, PromisedKept
    <2>8. \A t \in Tokens : /\ Promised(o, t)' \in Int
                            /\ BalanceOf(t).reserved' = BalanceOf(t).reserved - Promised(o, t) + Promised(o, t)'
      <3>1. \A t \in Tokens : BalanceOf(t).reserved \in Int
        BY BalanceOfOK
      <3> QED
        BY <2>2, <2>4, <2>5, <2>6, <3>1
    <2> QED
      BY <2>1, <2>7, <2>8, Moved
  <1>3. ASSUME NEW o \in Orders, ReserveAgain(o) \/ ReserveRefused(o) \/ ReadBalance(o) PROVE Balanced'
    <2>1. /\ o \notin saving /\ saving' = saving /\ torn' = torn /\ reservations' = reservations /\ up /\ balances' = balances
          /\ \A p \in Orders : p # o => todo'[p] = todo[p]
      BY <1>3, ReturnsAlone DEF ReserveAgain, ReserveRefused, ReadBalance, Calling
    <2>2. \A p \in Orders, t \in Tokens : Promised(p, t)' = Promised(p, t)
      BY <2>1, PromisedKept DEF Loose
    <2>3. \A t \in Tokens : BalanceOf(t).reserved' = BalanceOf(t).reserved
      BY <2>1 DEF BalanceOf
    <2> QED
      BY <2>1, <2>2, <2>3, Steady
  <1>4. ASSUME NEW o \in Orders, Settle(o) PROVE Balanced'
    <2> DEFINE r == reservations[o]
               b == BalanceOf(r.token)
               a == IF Head(todo[o]).op = "release" THEN b.available + r.amount ELSE b.available
    <2>1. /\ SetBalance(o, r.token, a, b.reserved - r.amount)
          /\ todo[o] # <<>> /\ o \notin saving /\ Head(todo[o]).op \in {"commit", "release"} /\ Holds(reservations, o)
          /\ todo' = todo /\ torn' = torn /\ reservations' = reservations /\ up
      BY <1>4 DEF Settle, Calling
    <2>2. r.token \in Tokens /\ r.amount \in Int
      BY <2>1 DEF Holds, ReservationsOK, Reservation
    <2>3. b.reserved - r.amount \in Int /\ a \in Int /\ b.reserved \in Int
      BY <2>2, BalanceOfOK
    <2>4. saving' = saving \cup {o}
      BY <2>1 DEF SetBalance
    <2>5. \A t \in Tokens : BalanceOf(t).reserved' = IF t = r.token THEN b.reserved - r.amount ELSE BalanceOf(t).reserved
      <3> HIDE DEF b, a
      <3> QED
        BY <2>1, <2>2, <2>3, SetReserved
    <2>6. \A t \in Tokens : Promised(o, t) = IF t = r.token THEN r.amount ELSE 0
      BY <2>1 DEF Promised, Between
    <2>7. \A t \in Tokens : Promised(o, t)' = 0
      BY <2>1, <2>4 DEF Promised, Between, Holds
    <2>8. \A p \in Orders \ {o}, t \in Tokens : Promised(p, t)' = Promised(p, t)
      BY <2>1, <2>4, PromisedKept
    <2>9. \A t \in Tokens : /\ Promised(o, t)' \in Int
                            /\ BalanceOf(t).reserved' = BalanceOf(t).reserved - Promised(o, t) + Promised(o, t)'
      <3>1. \A t \in Tokens : BalanceOf(t).reserved \in Int
        BY BalanceOfOK
      <3> QED
        BY <2>2, <2>5, <2>6, <2>7, <3>1
    <2> QED
      BY <2>1, <2>8, <2>9, Moved
  <1>6. ASSUME NEW c \in Callers, Reconcile(c) PROVE Balanced'
    <2>1. /\ read[c].token \in Tokens /\ read[c].value \in Int /\ c \notin saving /\ up
          /\ c \in Orders => todo[c] # <<>> /\ Head(todo[c]).op \in Simple
          /\ torn' = torn /\ reservations' = reservations
          /\ \A p \in Orders : p # c => todo'[p] = todo[p]
          /\ (saving' = saving \/ saving' = saving \cup {c})
          /\ c \in saving' => todo' = todo
      BY <1>6, ReturnsAlone DEF Reconcile, CallerOK, ReadOK, SetBalance, Simple
    <2> DEFINE b == BalanceOf(read[c].token)
               a == read[c].value - b.reserved
    <2>2. balances' = balances \/ SetBalance(c, read[c].token, a, b.reserved)
      BY <1>6 DEF Reconcile
    <2>3. a \in Int /\ b.reserved \in Int
      BY <2>1, BalanceOfOK
    <2>4. \A t \in Tokens : BalanceOf(t).reserved' = BalanceOf(t).reserved
      <3>1. CASE balances' = balances
        BY <3>1 DEF BalanceOf
      <3>2. CASE SetBalance(c, read[c].token, a, b.reserved)
        <4> HIDE DEF a
        <4> QED
          BY <2>1, <2>3, <3>2, SetReserved
      <3> QED
        BY <2>2, <3>1, <3>2
    <2>5. \A p \in Orders : \/ todo'[p] = todo[p] /\ (p \in saving' <=> p \in saving)
                            \/ Loose(p) /\ Loose(p)'
      BY <2>1 DEF Loose
    <2>6. \A p \in Orders, t \in Tokens : Promised(p, t)' = Promised(p, t)
      BY <2>1, <2>5, PromisedKept
    <2> QED
      BY <2>1, <2>4, <2>6, Steady
  <1>7. ASSUME BalanceSaved PROVE Balanced'
    <2>0. PICK w : w = Head(line)
      OBVIOUS
    <2> DEFINE o == w.by
    <2>1. /\ w \in BalanceSave /\ w.token \in Tokens /\ o \in Callers /\ BalanceFits(w) /\ up
          /\ o \in saving /\ line # <<>> /\ (o \in Orders => o \notin Syncs /\ todo[o] # <<>>)
          /\ balances' = balances /\ torn' = torn
      BY <1>7, <2>0, HeadFits DEF BalanceSaved
    <2>2. \A t \in Tokens : BalanceOf(t).reserved' = BalanceOf(t).reserved
      BY <2>1 DEF BalanceOf
    <2>3. CASE o \in Orders /\ TwoSaves(o)
      <3>1. /\ saving' = saving /\ todo' = todo
            /\ reservations' = [reservations EXCEPT ![o] = Reserved(o)]
        BY <1>7, <2>0, <2>3 DEF BalanceSaved
      <3>2. /\ Head(todo[o]).op \in {"commit", "release"} => Holds(reservations, o)
            /\ Head(todo[o]).op = "reserve" => ~Holds(reservations, o)
        BY <2>1, <2>3 DEF BalanceFits
      <3>3. /\ Reserved(o) \in Reservation
            /\ Head(todo[o]).op = "reserve" =>
                   /\ Reserved(o).state = "held"
                   /\ Reserved(o).token = Head(todo[o]).token /\ Reserved(o).amount = Head(todo[o]).amount
            /\ Head(todo[o]).op # "reserve" => Reserved(o).state # "held"
        BY <2>1, <2>3, <3>2, ReservedOK
      <3>4. reservations'[o] = Reserved(o) /\ Reserved(o) # None /\ o \in saving' /\ todo'[o] = todo[o]
            /\ \A p \in Orders \ {o} : reservations'[p] = reservations[p]
        <4>1. Reserved(o) # None
          <5>1. Reserved(o) \in Reservation
            BY <3>3
          <5>2. None \notin Reservation
            BY Values
          <5> QED
            BY <5>1, <5>2
        <4>2. /\ reservations'[o] = Reserved(o)
              /\ \A p \in Orders \ {o} : reservations'[p] = reservations[p]
          BY <2>3, <3>1 DEF ReservationsOK
        <4> QED
          BY <2>1, <3>1, <4>1, <4>2
      <3>5. ASSUME NEW t \in Tokens PROVE Promised(o, t)' = Promised(o, t)
        <4>1. CASE Head(todo[o]).op = "reserve"
          <5> DEFINE n == IF Head(todo[o]).token = t THEN Head(todo[o]).amount ELSE 0
          <5>1. Promised(o, t) = n
            BY <2>1, <2>3, <3>2, <4>1 DEF Promised, Between
          <5>2. Holds(reservations, o)' /\ ~Between(o, {"commit", "release"})'
            BY <3>3, <3>4, <4>1 DEF Holds, Between
          <5>3. Promised(o, t)' = n
            BY <3>3, <3>4, <4>1, <5>2 DEF Promised
          <5> QED
            BY <5>1, <5>3
        <4>2. CASE Head(todo[o]).op \in {"commit", "release"}
          <5>1. Promised(o, t) = 0
            BY <2>1, <2>3, <3>2, <4>2 DEF Promised, Between
          <5>2. ~Holds(reservations, o)' /\ ~Between(o, {"reserve"})'
            BY <3>3, <3>4, <4>2 DEF Holds, Between
          <5>3. Promised(o, t)' = 0
            BY <5>2 DEF Promised
          <5> QED
            BY <5>1, <5>3
        <4> QED
          BY <2>3, <4>1, <4>2 DEF TwoSaves
      <3>6. \A p \in Orders \ {o}, t \in Tokens : Promised(p, t)' = Promised(p, t)
        BY <3>1, <3>4, PromisedKept
      <3> QED
        BY <2>1, <2>2, <3>5, <3>6, Steady
    <2>4. CASE ~(o \in Orders /\ TwoSaves(o))
      <3>1. saving' = saving \ {o} /\ reservations' = reservations
            /\ \A p \in Orders : p # o => todo'[p] = todo[p]
        BY <1>7, <2>0, <2>4, ReturnsAlone DEF BalanceSaved
      <3>2. \A p \in Orders : \/ todo'[p] = todo[p] /\ (p \in saving' <=> p \in saving)
                              \/ Loose(p) /\ Loose(p)'
        <4>1. o \in Orders => Head(todo[o]).op \in Simple
          BY <2>1, <2>4, HeadOK DEF TwoSaves, Simple
        <4> QED
          BY <3>1, <4>1 DEF Loose
      <3>3. \A p \in Orders, t \in Tokens : Promised(p, t)' = Promised(p, t)
        BY <3>1, <3>2, PromisedKept
      <3> QED
        BY <2>1, <2>2, <3>3, Steady
    <2> QED
      BY <2>3, <2>4
  <1>8. ASSUME ReservationSaved PROVE Balanced'
    <2>0. PICK w : w = Head(line)
      OBVIOUS
    <2> DEFINE o == w.by
    <2>1. /\ w \in PromiseSave /\ PromiseFits(w) /\ o \in saving /\ o \in Orders /\ todo[o] # <<>>
          /\ saving' = saving \ {o} /\ reservations' = reservations /\ balances' = balances /\ torn' = torn /\ up
          /\ \A p \in Orders : p # o => todo'[p] = todo[p]
      BY <1>8, <2>0, HeadFits, ReturnsAlone DEF ReservationSaved
    <2>2. \A t \in Tokens : BalanceOf(t).reserved' = BalanceOf(t).reserved
      BY <2>1 DEF BalanceOf
    <2>3. \A t \in Tokens : Promised(o, t)' = Promised(o, t)
      BY <2>1 DEF PromiseFits, Promised, Between, Holds, TwoSaves
    <2>4. \A p \in Orders \ {o}, t \in Tokens : Promised(p, t)' = Promised(p, t)
      BY <2>1, PromisedKept
    <2> QED
      BY <2>1, <2>2, <2>3, <2>4, Steady
  <1>9. ASSUME SaveFails PROVE Balanced'
    <2>0. PICK w : w = Head(line)
      OBVIOUS
    <2> DEFINE o == w.by
    <2>1. /\ saving' = saving \ {o} /\ reservations' = reservations /\ balances' = balances /\ up
          /\ \A p \in Orders : p # o => todo'[p] = todo[p]
          /\ torn \subseteq torn' /\ (o \in Syncs \/ o \in torn')
          /\ o \in Orders => o \notin Syncs /\ todo[o] # <<>>
      BY <1>9, <2>0, HeadFits, ThrowsAlone DEF SaveFails
    <2>2. \A t \in Tokens : BalanceOf(t).reserved' = BalanceOf(t).reserved
      BY <2>1 DEF BalanceOf
    <2>3. ASSUME NEW t \in Tokens, Clear(t)', o \in Orders PROVE Promised(o, t)' = Promised(o, t)
      <3>1. t \notin Touched(o)
        BY <2>1, <2>3 DEF Clear, Touched
      <3>2. Head(todo[o]).token # t
        BY <2>1, <2>3, <3>1, HeadOK
      <3>3. reservations[o] # None => reservations[o].token # t
        BY <2>3, <3>1 DEF ReservationsOK, KeepsOf
      <3>4. Promised(o, t) = 0
        BY <3>2, <3>3 DEF Promised, Holds
      <3>5. Promised(o, t)' = 0
        BY <2>1, <3>3 DEF Promised, Holds, Between
      <3> QED
        BY <3>4, <3>5
    <2>4. \A p \in Orders \ {o}, t \in Tokens : Promised(p, t)' = Promised(p, t)
      BY <2>1, PromisedKept
    <2> QED
      BY <2>1, <2>2, <2>3, <2>4, Steady
  <1>11. ASSUME NEW o \in Orders, Handler(o) \/ UserPays(o) \/ AdvanceFails(o), up PROVE Balanced'
    <2>1. /\ saving' = saving /\ balances' = balances /\ reservations' = reservations /\ torn \subseteq torn'
      BY <1>11 DEF Handler, TakeDeposit, StartFill, RefuseFill, Swap, Pay, PayoutFails,
         StartRefund, Refund,
         RefundGivenUp, Recover, Advance, Handle, UserPays, AdvanceFails
    <2>2. todo[o] = <<>> \/ todo' = todo
      BY <1>11 DEF Handler, TakeDeposit, StartFill, RefuseFill, Swap, Pay, PayoutFails,
         StartRefund, Refund,
         RefundGivenUp, Recover, Advance, Idle, UserPays, AdvanceFails
    <2>3. \A p \in Orders : p # o => todo'[p] = todo[p]
      BY <1>11, ThrowsAlone DEF Handler, TakeDeposit, StartFill, RefuseFill, Swap, Pay,
         PayoutFails, StartRefund, Refund,
         RefundGivenUp, Recover, Advance, Handle, UserPays, AdvanceFails, TodoOK
    <2>4. \A p \in Orders : todo'[p] = todo[p] \/ (Loose(p) /\ Loose(p)')
      <3>1. ASSUME todo[o] = <<>> PROVE Loose(o) /\ Loose(o)'
        BY <2>1, <3>1 DEF CallerOK, Loose
      <3> QED
        <4>1. CASE todo[o] = <<>>
          BY <2>3, <3>1, <4>1
        <4>2. CASE todo' = todo
          BY <4>2
        <4> QED
          BY <2>2, <4>1, <4>2
    <2>5. \A p \in Orders, t \in Tokens : Promised(p, t)' = Promised(p, t)
      BY <2>1, <2>4, PromisedKept
    <2>6. \A t \in Tokens : BalanceOf(t).reserved' = BalanceOf(t).reserved
      BY <2>1 DEF BalanceOf
    <2> QED
      BY <1>11, <2>1, <2>5, <2>6, Steady
  <1>14. ASSUME (\E s \in Syncs : SyncBegins(s) \/ SyncReads(s)) \/ UNCHANGED vars, up PROVE Balanced'
    <2>1. saving' = saving /\ balances' = balances /\ reservations' = reservations /\ torn' = torn /\ todo' = todo
      BY <1>14 DEF SyncBegins, SyncReads
    <2>2. \A p \in Orders, t \in Tokens : Promised(p, t)' = Promised(p, t)
      BY <2>1, PromisedKept
    <2>3. \A t \in Tokens : BalanceOf(t).reserved' = BalanceOf(t).reserved
      BY <2>1 DEF BalanceOf
    <2> QED
      BY <1>14, <2>1, <2>2, <2>3, Steady
  <1>15. ASSUME ~up' PROVE Balanced'
    BY <1>15 DEF Balanced
  <1>16. ASSUME TakeOver PROVE Balanced'
    <2>1. saving' = {} /\ torn' = {} /\ reservations' = promises
      BY <1>16 DEF TakeOver, DownOK
    <2>2. ASSUME NEW o \in Orders, NEW t \in Tokens PROVE Promised(o, t)' = Share(promises, o, t)
      BY <2>1 DEF Promised, Between, Holds, Share
    <2>3. ASSUME NEW t \in Tokens
          PROVE  BalanceOf(t).reserved' = SumFunction([o \in Orders |-> Share(promises, o, t)])
      <3>1. CASE rows[t] # None
        <4>0. PICK holdings \in {Opening, chain} :
                  balances'[t] = [available |-> IF t \in Asked THEN holdings[t] - HeldOf(promises, t)
                                                                ELSE rows[t].available,
                                  reserved |-> HeldOf(promises, t)]
          BY <1>16, <3>1 DEF TakeOver
        <4> DEFINE a == IF t \in Asked THEN holdings[t] - HeldOf(promises, t) ELSE rows[t].available
        <4>1. balances'[t] = [available |-> a, reserved |-> HeldOf(promises, t)]
          BY <4>0
        <4>3. HeldOf(promises, t) \in Int
          BY HeldOfOK DEF Typed, PromisesOK
        <4>4. a \in Int
          BY <3>1, <4>3, Values DEF Typed, ChainOK, RowsOK, Balance
        <4> HIDE DEF a
        <4>2. balances'[t] # None
          BY <4>1, <4>3, <4>4, Values DEF Balance
        <4> QED
          BY <4>1, <4>2 DEF BalanceOf, HeldOf
      <3>2. CASE rows[t] = None
        <4>1. BalanceOf(t).reserved' = 0
          BY <1>16, <3>2 DEF TakeOver, BalanceOf, Empty
        <4> DEFINE f == [o \in Orders |-> Share(promises, o, t)]
        <4>2. f \in [Orders -> Int] /\ \A o \in Orders : f[o] = 0
          BY <3>2 DEF Share, Holds, RowsFirst
        <4> HIDE DEF f
        <4>3. SumFunction(f) = 0
          BY <4>2, LedgerAssumption, SumZero
        <4> QED
          BY <4>1, <4>3 DEF f
      <3> QED
        BY <3>1, <3>2
    <2> QED
      BY <2>2, <2>3 DEF Balanced
  <1> QED
    <2>1. up => Balanced'
      BY <1>1, <1>2, <1>3, <1>4, <1>6, <1>7, <1>8, <1>9, <1>11, <1>14, <1>15
         DEF Next, LedgerCall, Saved, SyncStep, Quiescent, Callers, Crash, TakeOver
    <2>2. ~up => Balanced'
      BY <1>15, <1>16, WhileDown DEF UserPays
    <2> QED
      BY <2>1, <2>2

\* What setBalance sends.
LEMMA Sent ==
    ASSUME SavesOK, NEW c \in Callers, NEW t \in Tokens, NEW a \in Int, NEW r \in Int, SetBalance(c, t, a, r)
    PROVE  \E w \in BalanceSave : w.token = t /\ In(line') = In(line) \cup {w}
  <1> DEFINE w == [by |-> c, token |-> t, value |-> [available |-> a, reserved |-> r]]
  <1>1. w \in Saves /\ w \in BalanceSave /\ w.token = t
    BY DEF Saves, BalanceSave, Balance
  <1>2. line' = Append(line, w)
    BY DEF SetBalance
  <1> HIDE DEF w
  <1>3. In(line') = In(line) \cup {w}
    BY <1>1, <1>2, Last DEF SavesOK
  <1> QED
    BY <1>1, <1>3

\* What does not touch the ledger, the store or the saves on their way.
Quiet ==
    /\ balances' = balances /\ reservations' = reservations
    /\ rows' = rows /\ promises' = promises /\ line' = line
    /\ torn \subseteq torn' /\ up' = up

\* The steps that touch the map, the reservations or the store, and the others.
LEMMA Steps ==
    ASSUME [Next]_vars
    PROVE  \/ \E o \in Orders : CreditOrDebit(o) \/ Reserve(o) \/ Settle(o)
           \/ \E c \in Callers : Reconcile(c)
           \/ BalanceSaved \/ ReservationSaved \/ SaveFails \/ Crash \/ TakeOver
           \/ Quiet
  <1> USE DEF vars, chainVars, memoryVars, storeVars, handlerVars, processVars
  <1>1. \A o \in Orders : ReserveAgain(o) \/ ReserveRefused(o) \/ ReadBalance(o) => Quiet
    BY DEF ReserveAgain, ReserveRefused, ReadBalance, Quiet
  <1>2. \A o \in Orders : Handler(o) => Quiet
    BY DEF Handler, TakeDeposit, StartFill, RefuseFill, Swap, Pay, PayoutFails, StartRefund,
       Refund,
       RefundGivenUp, Advance, Recover, Handle, Quiet
  <1>3. \A o \in Orders : AdvanceFails(o) \/ UserPays(o) => Quiet
    BY DEF AdvanceFails, UserPays, Quiet
  <1>4. \A s \in Syncs : SyncBegins(s) \/ SyncReads(s) => Quiet
    BY DEF SyncBegins, SyncReads, Quiet
  <1>5. UNCHANGED vars => Quiet
    BY DEF Quiet
  <1> QED
    BY <1>1, <1>2, <1>3, <1>4, <1>5 DEF Next, LedgerCall, Saved, SyncStep, Quiescent, Callers

\* A reservation is stored by the second save of a call whose first stored the row.
LEMMA RowsFirstStep ==
    ASSUME Typed, LineOK, CallerOK, RowsFirst, [Next]_vars
    PROVE  RowsFirst'
  <1> RowsOK /\ PromisesOK
    BY DEF Typed
  <1> USE DEF vars, chainVars, memoryVars, storeVars, handlerVars, processVars
  <1>1. ASSUME BalanceSaved PROVE RowsFirst'
    <2>0. PICK w : w = Head(line)
      OBVIOUS
    <2>1. w.token \in Tokens /\ w.value \in Balance /\ promises' = promises
          /\ rows' = [rows EXCEPT ![w.token] = w.value]
      BY <1>1, <2>0, HeadFits DEF BalanceSaved
    <2>2. \A t \in Tokens : rows[t] # None => rows'[t] # None
      BY <2>1, Values DEF RowsOK
    <2> QED
      BY <2>1, <2>2 DEF RowsFirst, PromisesOK, Reservation
  <1>2. ASSUME ReservationSaved PROVE RowsFirst'
    <2>0. PICK w : w = Head(line)
      OBVIOUS
    <2>1. /\ w.by \in Orders /\ PromiseFits(w) /\ rows' = rows
          /\ promises' = [promises EXCEPT ![w.by] = w.value]
      BY <1>2, <2>0, HeadFits DEF ReservationSaved
    <2> QED
      BY <2>1 DEF RowsFirst, PromiseFits, PromisesOK
  <1>3. ASSUME rows' = rows, promises' = promises PROVE RowsFirst'
    BY <1>3 DEF RowsFirst
  <1>4. \A o \in Orders : CreditOrDebit(o) \/ Reserve(o) \/ Settle(o) => rows' = rows /\ promises' = promises
    BY DEF CreditOrDebit, Reserve, Settle
  <1>5. (\E c \in Callers : Reconcile(c)) \/ SaveFails \/ Crash \/ TakeOver \/ Quiet => rows' = rows /\ promises' = promises
    BY DEF Reconcile, SaveFails, Crash, TakeOver, Quiet
  <1> QED
    BY <1>1, <1>2, <1>3, <1>4, <1>5, Steps

\* A reservation in memory differs from the store only while its save is on its way.
LEMMA StoredStep ==
    ASSUME Typed, LineOK, CallerOK, DownOK, Stored, [Next]_vars
    PROVE  Stored'
  <1> TodoOK /\ ReservationsOK /\ PromisesOK /\ SavesOK
    BY DEF Typed
  <1> USE DEF vars, chainVars, memoryVars, storeVars, handlerVars, processVars
  <1>1. ASSUME up, reservations' = reservations, promises' = promises, torn' = torn,
               NEW c, NEW t, NEW a, NEW r, c \in Callers, t \in Tokens, a \in Int, r \in Int,
               SetBalance(c, t, a, r)
        PROVE  Stored'
    <2>2. In(line) \subseteq In(line')
      BY <1>1, Sent
    <2> QED
      BY <1>1, <2>2 DEF Stored, OnItsWay
  <1>2. ASSUME NEW o \in Orders, CreditOrDebit(o) \/ Reserve(o) PROVE Stored'
    <2>1. todo[o] # <<>> /\ up /\ reservations' = reservations /\ promises' = promises /\ torn' = torn
      BY <1>2 DEF CreditOrDebit, Reserve, Calling
    <2>2. Head(todo[o]).token \in Tokens /\ Head(todo[o]).amount \in Int /\ BalanceOf(Head(todo[o]).token).available \in Int
          /\ BalanceOf(Head(todo[o]).token).reserved \in Int
      BY <2>1, HeadOK, BalanceOfOK DEF Typed
    <2>3. \E a, r \in Int : SetBalance(o, Head(todo[o]).token, a, r)
      BY <1>2, <2>2 DEF CreditOrDebit, Reserve
    <2> QED
      BY <1>1, <2>1, <2>2, <2>3, Values
  <1>3. ASSUME NEW o \in Orders, Settle(o) PROVE Stored'
    <2>1. Holds(reservations, o) /\ up /\ reservations' = reservations /\ promises' = promises /\ torn' = torn
      BY <1>3 DEF Settle, Calling
    <2>2. reservations[o].token \in Tokens /\ reservations[o].amount \in Int
      BY <2>1 DEF Holds, ReservationsOK, Reservation
    <2>3. BalanceOf(reservations[o].token).available \in Int /\ BalanceOf(reservations[o].token).reserved \in Int
      BY <2>2, BalanceOfOK DEF Typed
    <2>4. \E a, r \in Int : SetBalance(o, reservations[o].token, a, r)
      BY <1>3, <2>2, <2>3 DEF Settle
    <2> QED
      BY <1>1, <2>1, <2>2, <2>4, Values
  <1>4. ASSUME NEW c \in Callers, Reconcile(c) PROVE Stored'
    <2>1. read[c].token \in Tokens /\ read[c].value \in Int /\ up /\ reservations' = reservations
          /\ promises' = promises /\ torn' = torn
      BY <1>4 DEF Reconcile, Typed, ReadOK
    <2>2. BalanceOf(read[c].token).reserved \in Int
      BY <2>1, BalanceOfOK DEF Typed
    <2>3. \/ line' = line
          \/ \E a, r \in Int : SetBalance(c, read[c].token, a, r)
      BY <1>4, <2>1, <2>2 DEF Reconcile
    <2>4. line' = line => Stored'
      BY <2>1 DEF Stored, OnItsWay
    <2> QED
      BY <1>1, <2>1, <2>3, <2>4
  <1>5. ASSUME BalanceSaved PROVE Stored'
    <2>0. PICK w : w = Head(line)
      OBVIOUS
    <2> DEFINE o == w.by
    <2>1. /\ w \in BalanceSave /\ w \notin PromiseSave /\ up /\ line # <<>> /\ promises' = promises /\ torn' = torn
          /\ BalanceFits(w) /\ (o \in Orders => todo[o] # <<>>)
      BY <1>5, <2>0, HeadFits, Kinds DEF BalanceSaved
    <2>2. Tail(line) \in Seq(Saves) /\ In(line) = In(Tail(line)) \cup {w}
      BY <2>0, <2>1, First DEF SavesOK
    <2>3. CASE o \in Orders /\ TwoSaves(o)
      <3> DEFINE v == [by |-> o, value |-> Reserved(o)]
      <3>1. /\ line' = Append(Tail(line), v)
            /\ reservations' = [reservations EXCEPT ![o] = Reserved(o)]
        BY <1>5, <2>0, <2>3 DEF BalanceSaved
      <3>2. Reserved(o) \in Reservation
        BY <2>1, <2>3, ReservedOK DEF BalanceFits
      <3>3. v \in PromiseSave /\ v \in Saves /\ v.by = o
        BY <2>3, <3>2 DEF PromiseSave, Saves
      <3> HIDE DEF v
      <3>4. In(line') = In(Tail(line)) \cup {v}
        BY <2>2, <3>1, <3>3, Last
      <3>5. OnItsWay(o)'
        BY <3>3, <3>4 DEF OnItsWay
      <3>6. \A p \in Orders : OnItsWay(p) => OnItsWay(p)'
        BY <2>1, <2>2, <3>4 DEF OnItsWay
      <3>7. \A p \in Orders : p # o => reservations'[p] = reservations[p]
        BY <3>1 DEF ReservationsOK
      <3> QED
        BY <2>1, <3>5, <3>6, <3>7 DEF Stored
    <2>4. CASE ~(o \in Orders /\ TwoSaves(o))
      <3>1. line' = Tail(line) /\ reservations' = reservations
        BY <1>5, <2>0, <2>4 DEF BalanceSaved
      <3>2. \A p \in Orders : OnItsWay(p) => OnItsWay(p)'
        BY <2>1, <2>2, <3>1 DEF OnItsWay
      <3> QED
        BY <2>1, <3>1, <3>2 DEF Stored
    <2> QED
      BY <2>3, <2>4
  <1>6. ASSUME ReservationSaved PROVE Stored'
    <2>0. PICK w : w = Head(line)
      OBVIOUS
    <2>1. /\ w.by \in Orders /\ PromiseFits(w) /\ up /\ torn' = torn /\ reservations' = reservations
          /\ promises' = [promises EXCEPT ![w.by] = w.value] /\ line # <<>> /\ line' = Tail(line)
      BY <1>6, <2>0, HeadFits DEF ReservationSaved
    <2>2. In(line) = In(Tail(line)) \cup {w}
      BY <2>0, <2>1, First DEF SavesOK
    <2>3. promises'[w.by] = reservations'[w.by] /\ \A p \in Orders : p # w.by => promises'[p] = promises[p]
      BY <2>1 DEF PromiseFits, PromisesOK
    <2>4. \A p \in Orders : p # w.by /\ OnItsWay(p) => OnItsWay(p)'
      BY <2>1, <2>2 DEF OnItsWay
    <2> QED
      BY <2>1, <2>3, <2>4 DEF Stored
  <1>7. ASSUME SaveFails PROVE Stored'
    <2>0. PICK w : w = Head(line)
      OBVIOUS
    <2>1. /\ up /\ torn \subseteq torn' /\ (w.by \in Orders => w.by \in torn') /\ reservations' = reservations
          /\ promises' = promises /\ line # <<>> /\ line' = Tail(line)
      BY <1>7, <2>0, LedgerAssumption DEF SaveFails
    <2>2. In(line) = In(Tail(line)) \cup {w}
      BY <2>0, <2>1, First DEF SavesOK
    <2>4. \A p \in Orders : p # w.by /\ OnItsWay(p) => OnItsWay(p)'
      BY <2>1, <2>2 DEF OnItsWay
    <2> QED
      BY <2>1, <2>4 DEF Stored
  <1>8. ASSUME Crash PROVE Stored'
    BY <1>8 DEF Crash, Stored
  <1>9. ASSUME TakeOver PROVE Stored'
    BY <1>9 DEF TakeOver, Stored
  <1>10. ASSUME Quiet PROVE Stored'
    BY <1>10 DEF Quiet, Stored, OnItsWay
  <1> QED
    BY <1>2, <1>3, <1>4, <1>5, <1>6, <1>7, <1>8, <1>9, <1>10, Steps

\* A balance never leaves the map, and restore() brings back every stored one.
LEMMA BackedStep ==
    ASSUME Typed, LineOK, CallerOK, DownOK, Backed, RowsFirst, [Next]_vars
    PROVE  Backed'
  <1> TodoOK /\ ReservationsOK /\ PromisesOK /\ SavesOK /\ BalancesOK
    BY DEF Typed
  <1> USE DEF vars, chainVars, memoryVars, storeVars, handlerVars, processVars
  <1>1. ASSUME up, reservations' = reservations,
               NEW c, NEW t, NEW a, NEW r, c \in Callers, t \in Tokens, a \in Int, r \in Int,
               SetBalance(c, t, a, r)
        PROVE  Backed'
    <2>1. PICK w \in BalanceSave : w.token = t /\ In(line') = In(line) \cup {w}
      BY <1>1, Sent
    <2>2. [available |-> a, reserved |-> r] # None
      BY <1>1, Values DEF Balance
    <2>3. \A u \in Tokens : balances'[u] = IF u = t THEN [available |-> a, reserved |-> r] ELSE balances[u]
      BY <1>1, SetBalanceAt
    <2>4. (\A o \in Orders : reservations[o] # None => reservations[o].token \in Tokens)
          /\ \A v \in In(line) : v \in BalanceSave => v.token \in Tokens
      BY DEF ReservationsOK, Reservation, BalanceSave
    <2> QED
      BY <1>1, <2>1, <2>2, <2>3, <2>4 DEF Backed
  <1>2. ASSUME NEW o \in Orders, CreditOrDebit(o) \/ Reserve(o) PROVE Backed'
    <2>1. todo[o] # <<>> /\ up /\ reservations' = reservations
      BY <1>2 DEF CreditOrDebit, Reserve, Calling
    <2>2. Head(todo[o]).token \in Tokens /\ Head(todo[o]).amount \in Int /\ BalanceOf(Head(todo[o]).token).available \in Int
          /\ BalanceOf(Head(todo[o]).token).reserved \in Int
      BY <2>1, HeadOK, BalanceOfOK
    <2>3. \E a, r \in Int : SetBalance(o, Head(todo[o]).token, a, r)
      BY <1>2, <2>2 DEF CreditOrDebit, Reserve
    <2> QED
      BY <1>1, <2>1, <2>2, <2>3, Values
  <1>3. ASSUME NEW o \in Orders, Settle(o) PROVE Backed'
    <2>1. Holds(reservations, o) /\ up /\ reservations' = reservations
      BY <1>3 DEF Settle, Calling
    <2>2. reservations[o].token \in Tokens /\ reservations[o].amount \in Int
      BY <2>1 DEF Holds, ReservationsOK, Reservation
    <2>3. BalanceOf(reservations[o].token).available \in Int /\ BalanceOf(reservations[o].token).reserved \in Int
      BY <2>2, BalanceOfOK
    <2>4. \E a, r \in Int : SetBalance(o, reservations[o].token, a, r)
      BY <1>3, <2>2, <2>3 DEF Settle
    <2> QED
      BY <1>1, <2>1, <2>2, <2>4, Values
  <1>4. ASSUME NEW c \in Callers, Reconcile(c) PROVE Backed'
    <2>1. read[c].token \in Tokens /\ read[c].value \in Int /\ up /\ up' = up /\ reservations' = reservations
      BY <1>4 DEF Reconcile, Typed, ReadOK
    <2>2. BalanceOf(read[c].token).reserved \in Int
      BY <2>1, BalanceOfOK
    <2>3. \/ line' = line /\ balances' = balances
          \/ \E a, r \in Int : SetBalance(c, read[c].token, a, r)
      BY <1>4, <2>1, <2>2 DEF Reconcile
    <2>4. line' = line /\ balances' = balances => Backed'
      BY <2>1 DEF Backed
    <2> QED
      BY <1>1, <2>1, <2>3, <2>4
  <1>5. ASSUME BalanceSaved PROVE Backed'
    <2>0. PICK w : w = Head(line)
      OBVIOUS
    <2> DEFINE o == w.by
    <2>1. /\ w \in BalanceSave /\ up /\ line # <<>> /\ balances' = balances
          /\ BalanceFits(w) /\ (o \in Orders => todo[o] # <<>>) /\ w \in In(line)
      BY <1>5, <2>0, HeadFits, First DEF BalanceSaved
    <2>2. Tail(line) \in Seq(Saves) /\ In(line) = In(Tail(line)) \cup {w}
      BY <2>0, <2>1, First DEF SavesOK
    <2>3. CASE o \in Orders /\ TwoSaves(o)
      <3> DEFINE v == [by |-> o, value |-> Reserved(o)]
      <3>1. /\ line' = Append(Tail(line), v)
            /\ reservations' = [reservations EXCEPT ![o] = Reserved(o)]
        BY <1>5, <2>0, <2>3 DEF BalanceSaved
      <3>2. Reserved(o) \in Reservation /\ Reserved(o).token = w.token
        BY <2>1, <2>3, ReservedOK DEF BalanceFits, TwoSaves
      <3>3. v \in PromiseSave /\ v \in Saves
        BY <2>3, <3>2 DEF PromiseSave, Saves
      <3>5. v \notin BalanceSave
        BY <3>3, Kinds
      <3> HIDE DEF v
      <3>4. In(line') = In(Tail(line)) \cup {v}
        BY <2>2, <3>1, <3>3, Last
      <3>7. reservations'[o] = Reserved(o) /\ \A p \in Orders : p # o => reservations'[p] = reservations[p]
        BY <2>3, <3>1 DEF ReservationsOK
      <3> QED
        BY <2>1, <2>2, <3>2, <3>4, <3>5, <3>7 DEF Backed
    <2>4. CASE ~(o \in Orders /\ TwoSaves(o))
      <3>1. line' = Tail(line) /\ reservations' = reservations
        BY <1>5, <2>0, <2>4 DEF BalanceSaved
      <3> QED
        BY <2>1, <2>2, <3>1 DEF Backed
    <2> QED
      BY <2>3, <2>4
  <1>6. ASSUME ReservationSaved \/ SaveFails PROVE Backed'
    <2>1. up /\ reservations' = reservations /\ balances' = balances /\ line # <<>> /\ line' = Tail(line)
      BY <1>6 DEF ReservationSaved, SaveFails
    <2>2. In(Tail(line)) \subseteq In(line)
      BY <2>1, First DEF SavesOK
    <2> QED
      BY <2>1, <2>2 DEF Backed
  <1>8. ASSUME Crash PROVE Backed'
    BY <1>8 DEF Crash, Backed
  <1>9. ASSUME TakeOver PROVE Backed'
    <2>1. reservations' = promises /\ line' = <<>> /\ In(<<>>) = {}
      BY <1>9 DEF TakeOver, DownOK, In
    <2>2. ASSUME NEW t \in Tokens, rows[t] # None PROVE balances'[t] # None
      <3>0. PICK holdings \in {Opening, chain} :
              balances'[t] = [available |-> IF t \in Asked THEN holdings[t] - HeldOf(promises, t)
                                                            ELSE rows[t].available,
                              reserved |-> HeldOf(promises, t)]
        BY <1>9, <2>2 DEF TakeOver
      <3> DEFINE a == IF t \in Asked THEN holdings[t] - HeldOf(promises, t) ELSE rows[t].available
      <3>1. balances'[t] = [available |-> a, reserved |-> HeldOf(promises, t)]
        BY <3>0
      <3>2. HeldOf(promises, t) \in Int
        BY HeldOfOK DEF PromisesOK
      <3>3. a \in Int
        BY <2>2, <3>2, Values DEF Typed, ChainOK, RowsOK, Balance
      <3> HIDE DEF a
      <3> QED
        BY <3>1, <3>2, <3>3, Values DEF Balance
    <2> QED
      BY <2>1, <2>2 DEF Backed, RowsFirst, PromisesOK, Reservation
  <1>10. ASSUME Quiet PROVE Backed'
    BY <1>10 DEF Quiet, Backed
  <1> QED
    BY <1>2, <1>3, <1>4, <1>5, <1>6, <1>8, <1>9, <1>10, Steps

Kept == /\ Typed /\ LineOK /\ CallerOK /\ DownOK
        /\ Balanced /\ RowsFirst /\ Stored /\ Backed

\* The invariant holds at the start, and always.
LEMMA KeptInit == Init => Kept
  <1>1. SUFFICES ASSUME Init PROVE Balanced /\ RowsFirst /\ Stored /\ Backed
    BY ShapeInit DEF Kept
  <1>2. RowsFirst /\ Stored
    BY <1>1 DEF Init, RowsFirst, Stored
  <1>3. Backed
    BY <1>1 DEF Init, Backed, In
  <1>4. ASSUME NEW t \in Tokens
        PROVE  BalanceOf(t).reserved = SumFunction([o \in Orders |-> Promised(o, t)])
    <2> DEFINE f == [o \in Orders |-> Promised(o, t)]
    <2>1. f \in [Orders -> Int] /\ \A o \in Orders : f[o] = 0
      BY <1>1 DEF Init, Promised, Holds, Between
    <2> HIDE DEF f
    <2>2. SumFunction(f) = 0
      BY <2>1, LedgerAssumption, SumZero
    <2>3. BalanceOf(t).reserved = 0
      BY <1>1 DEF Init, BalanceOf, Empty
    <2> QED
      BY <2>2, <2>3 DEF f
  <1> QED
    BY <1>2, <1>3, <1>4 DEF Balanced

LEMMA KeptHolds == Spec => []Kept
  <1>1. Kept /\ [Next]_vars => Kept'
    <2>1. SUFFICES ASSUME Kept, [Next]_vars PROVE Kept'
      OBVIOUS
    <2>2. Typed' /\ LineOK' /\ CallerOK' /\ DownOK'
      BY <2>1, TypedStep, LineStep, CallerStep, DownStep DEF Kept
    <2>3. Balanced' /\ RowsFirst' /\ Stored' /\ Backed'
      BY <2>1, BalancedStep, RowsFirstStep, StoredStep, BackedStep DEF Kept
    <2> QED
      BY <2>2, <2>3 DEF Kept
  <1> QED
    BY <1>1, KeptInit, PTL DEF Spec

\* What orders/inventory.ts says is reserved of a token is the sum of what its
\* orders hold, for any number of orders and overlapping calls, through comparisons
\* with the chain, restarts and the restore of another leader.
THEOREM ReservedHeld == Spec => []ReservedIsHeld
  <1>1. Kept => ReservedIsHeld
    BY DEF Kept, Balanced, ReservedIsHeld, Touched
  <1> QED
    BY <1>1, KeptHolds, PTL

\* Once a call of orders/inventory.ts has returned, the store has the reservation
\* that memory has, and it stores a balance row before any reservation of its token.
THEOREM StoreKnows == Spec => []StoreKnowsPromises
  <1>1. Kept => StoreKnowsPromises
    <2>1. SUFFICES ASSUME Kept, up, NEW o \in Orders \ (saving \cup torn)
                   PROVE  promises[o] = reservations[o]
      BY DEF StoreKnowsPromises, Kept, RowsFirst
    <2>2. ~OnItsWay(o)
      BY <2>1 DEF Kept, OnItsWay, LineOK, Fits
    <2> QED
      BY <2>1, <2>2 DEF Kept, Stored
  <1> QED
    BY <1>1, KeptHolds, PTL

-----------------------------------------------------------------------------
(* What an order may hold at each stage.                                   *)

\* A step leaves an order as it is, or adds a save of its call's.
Like(o) ==
    /\ todo'[o] = todo[o] /\ next'[o] = next[o] /\ st'[o] = st[o] /\ done'[o] = done[o]
    /\ reservations'[o] = reservations[o] /\ promises'[o] = promises[o]
    /\ o \in saving => o \in saving'
    /\ o \in stuck' <=> o \in stuck
    /\ o \in recovering' <=> o \in recovering
    /\ up' = up

Same(o) == Like(o) /\ (o \in saving' => o \in saving)

\* What an order may hold depends on its own part of the state.
LEMMA FitKept ==
    ASSUME NEW o \in Orders, Fit(o), Like(o)
    PROVE  Fit(o)'
  <1> USE DEF Like
  <1>1. KeepFits(o)'
    BY DEF Fit, KeepFits, Input, Output
  <1>2. TodoFits(o)'
    BY DEF Fit, TodoFits, Rest, Wanted, Holds
  <1>3. NextFits(o)'
    BY DEF Fit, NextFits, Holds
  <1>4. StateFits(o)'
    BY DEF Fit, StateFits, Holds, Output
  <1> QED
    BY <1>1, <1>2, <1>3, <1>4 DEF Fit

\* Whoever acts, the other orders' parts of the state stay.
LEMMA Others ==
    ASSUME Typed, LineOK, CallerOK, [Next]_vars
    PROVE  \/ Crash \/ TakeOver
           \/ /\ \A o \in Orders : Same(o)
              /\ live' = live /\ chain' = chain
              /\ balances' = balances \/ \E s \in Syncs : Reconcile(s)
           \/ \E o \in Orders : /\ \/ LedgerCall(o) \/ Handler(o) \/ AdvanceFails(o) \/ UserPays(o)
                                   \/ (Saved \/ SaveFails) /\ Head(line).by = o
                                /\ \A p \in Orders \ {o} : Same(p)
  <1> TodoOK /\ NextOK /\ StateOK /\ ReservationsOK /\ PromisesOK /\ ChainOK
    BY DEF Typed
  <1> USE DEF Like, Same, vars, chainVars, memoryVars, storeVars, handlerVars, processVars
  <1>1. ASSUME NEW o \in Orders, CreditOrDebit(o) \/ Reserve(o) \/ Settle(o) PROVE \A p \in Orders \ {o} : Same(p)
    BY <1>1 DEF CreditOrDebit, Reserve, Settle, SetBalance
  <1>2. ASSUME NEW o \in Orders, ReserveAgain(o) \/ ReserveRefused(o) PROVE \A p \in Orders \ {o} : Same(p)
    BY <1>2, ReturnsAlone DEF ReserveAgain, ReserveRefused, NextOK
  <1>3. ASSUME NEW o \in Orders, ReadBalance(o) PROVE \A p \in Orders \ {o} : Same(p)
    BY <1>3, ReturnsAlone DEF ReadBalance
  <1>4. ASSUME NEW o \in Callers, Reconcile(o) PROVE \A p \in Orders \ {o} : Same(p)
    BY <1>4, ReturnsAlone DEF Reconcile, SetBalance
  <1>5. ASSUME NEW s \in Syncs, SyncBegins(s) \/ SyncReads(s)
        PROVE  /\ \A p \in Orders : Same(p)
               /\ live' = live /\ chain' = chain /\ balances' = balances
    BY <1>5 DEF SyncBegins, SyncReads, Reads
  <1>6. ASSUME Saved \/ SaveFails PROVE \A p \in Orders \ {Head(line).by} : Same(p)
    <2>1. ASSUME BalanceSaved PROVE \A p \in Orders \ {Head(line).by} : Same(p)
      <3>1. \A p \in Orders \ {Head(line).by} : todo'[p] = todo[p] /\ reservations'[p] = reservations[p]
        BY <2>1, ReturnsAlone DEF BalanceSaved, ReservationsOK
      <3> QED
        BY <2>1, <3>1 DEF BalanceSaved
    <2>2. ASSUME ReservationSaved PROVE \A p \in Orders \ {Head(line).by} : Same(p)
      <3>1. \A p \in Orders \ {Head(line).by} : todo'[p] = todo[p] /\ promises'[p] = promises[p]
        BY <2>2, ReturnsAlone DEF ReservationSaved, PromisesOK
      <3> QED
        BY <2>2, <3>1 DEF ReservationSaved
    <2>3. ASSUME SaveFails PROVE \A p \in Orders \ {Head(line).by} : Same(p)
      <3>1. /\ \A p \in Orders \ {Head(line).by} : todo'[p] = todo[p] /\ next'[p] = next[p]
            /\ \A p \in Orders \ {Head(line).by} : p \in stuck' <=> p \in stuck
        BY <2>3, ThrowsAlone DEF SaveFails, Throws
      <3> QED
        BY <2>3, <3>1 DEF SaveFails
    <2> QED
      BY <1>6, <2>1, <2>2, <2>3 DEF Saved
  <1>7. ASSUME NEW o \in Orders, Handler(o) PROVE \A p \in Orders \ {o} : Same(p)
    <2>1. ASSUME NEW calls, NEW s, Handle(o, calls, s), st' = st, up' = up, recovering' = recovering,
                 \A p \in Orders \ {o} : done'[p] = done[p]
          PROVE  \A p \in Orders \ {o} : Same(p)
      BY <2>1 DEF Handle, TodoOK, NextOK
    <2>2. ASSUME Swap(o) PROVE \A p \in Orders \ {o} : Same(p)
      BY <2>2 DEF Swap, ChainOK
    <2>3. ASSUME Advance(o) PROVE \A p \in Orders \ {o} : Same(p)
      BY <2>3 DEF Advance, NextOK, StateOK
    <2>4. ASSUME ~Swap(o), ~Advance(o) PROVE \A p \in Orders \ {o} : Same(p)
      <3>1. st' = st /\ up' = up /\ recovering' = recovering
        BY <1>7, <2>4 DEF Handler, TakeDeposit, StartFill, RefuseFill, Pay, PayoutFails,
           StartRefund, Refund,
           RefundGivenUp, Recover
      <3>2. \A p \in Orders \ {o} : done'[p] = done[p]
        BY <1>7, <2>4 DEF Handler, TakeDeposit, StartFill, RefuseFill, Pay, PayoutFails,
           StartRefund, Refund,
           RefundGivenUp, Recover, ChainOK
      <3>3. \E calls, s : Handle(o, calls, s)
        BY <1>7, <2>4 DEF Handler, TakeDeposit, StartFill, RefuseFill, Pay, PayoutFails,
           StartRefund, Refund,
           RefundGivenUp, Recover
      <3> QED
        BY <2>1, <3>1, <3>2, <3>3
    <2> QED
      BY <2>2, <2>3, <2>4
  <1>8. ASSUME NEW o \in Orders, AdvanceFails(o) PROVE \A p \in Orders \ {o} : Same(p)
    <2>1. /\ \A p \in Orders \ {o} : todo'[p] = todo[p] /\ next'[p] = next[p]
          /\ \A p \in Orders \ {o} : p \in stuck' <=> p \in stuck
      BY <1>8, ThrowsAlone DEF AdvanceFails, Throws
    <2> QED
      BY <1>8, <2>1 DEF AdvanceFails
  <1>9. ASSUME NEW o \in Orders, UserPays(o) PROVE \A p \in Orders \ {o} : Same(p)
    BY <1>9 DEF UserPays, StateOK
  <1>10. ASSUME UNCHANGED vars \/ Quiescent
         PROVE  /\ \A p \in Orders : Same(p)
                /\ live' = live /\ chain' = chain /\ balances' = balances
    BY <1>10 DEF Quiescent
  <1>11. \A s \in Syncs : s \notin Orders
    BY LedgerAssumption
  <1>12. ASSUME Saved \/ SaveFails, Head(line).by \notin Orders
         PROVE  /\ \A p \in Orders : Same(p)
                /\ live' = live /\ chain' = chain /\ balances' = balances
    BY <1>6, <1>12 DEF Saved, BalanceSaved, ReservationSaved, SaveFails
  <1>13. \A o \in Orders : LedgerCall(o) => \A p \in Orders \ {o} : Same(p)
    <2>1. \A o \in Orders : o \in Callers
      BY DEF Callers
    <2> QED
      BY <1>1, <1>2, <1>3, <1>4, <2>1 DEF LedgerCall
  <1>14. ASSUME NEW s \in Syncs, SyncStep(s)
         PROVE  /\ \A p \in Orders : Same(p)
                /\ live' = live /\ chain' = chain
                /\ balances' = balances \/ Reconcile(s)
    <2>1. s \in Callers
      BY DEF Callers
    <2>2. CASE Reconcile(s)
      <3>1. live' = live /\ chain' = chain
        BY <2>2 DEF Reconcile
      <3> QED
        BY <1>4, <1>11, <2>1, <2>2, <3>1
    <2> QED
      BY <1>5, <1>14, <2>2 DEF SyncStep
  <1> HIDE DEF Like, Same, vars, chainVars, memoryVars, storeVars, handlerVars, processVars
  <1> QED
    <2>1. CASE Saved \/ SaveFails
      BY <1>6, <1>12, <2>1
    <2>2. ASSUME NEW s \in Syncs, SyncStep(s)
          PROVE  /\ \A o \in Orders : Same(o)
                 /\ live' = live /\ chain' = chain
                 /\ balances' = balances \/ \E r \in Syncs : Reconcile(r)
      BY <1>14, <2>2
    <2>3. CASE UNCHANGED vars \/ Quiescent
      BY <1>10, <2>3
    <2>4. ASSUME NEW o \in Orders, LedgerCall(o) \/ Handler(o) \/ AdvanceFails(o) \/ UserPays(o)
          PROVE  \A p \in Orders \ {o} : Same(p)
      BY <1>7, <1>8, <1>9, <1>13, <2>4
    <2> QED
      BY <2>1, <2>2, <2>3, <2>4 DEF Next

\* The first of the calls returns.
LEMMA RestTail ==
    ASSUME NEW o \in Orders, NEW s \in Seq(CallsOf(o)), s # <<>>, Rest(s)
    PROVE  /\ Rest(Tail(s))
           /\ Tail(s) # <<>> => Head(Tail(s)).op \in Simple
           /\ Len(s) = 1 => Tail(s) = <<>>
  <1>1. /\ Len(s) \in Nat /\ Len(s) >= 1 /\ Len(Tail(s)) = Len(s) - 1 /\ Tail(s) \in Seq(CallsOf(o))
        /\ \A i \in 1 .. Len(Tail(s)) : Tail(s)[i] = s[i + 1]
    BY FirstCall
  <1>2. \A i \in 1 .. Len(Tail(s)) : Tail(s)[i].op \in Simple
    BY <1>1 DEF Rest
  <1>3. ASSUME Tail(s) # <<>> PROVE Head(Tail(s)) = Tail(s)[1] /\ 1 \in 1 .. Len(Tail(s))
    <2> DEFINE r == Tail(s)
    <2>1. r \in Seq(CallsOf(o)) /\ r # <<>>
      BY <1>1, <1>3
    <2> HIDE DEF r
    <2>2. Head(r) = r[1] /\ Len(r) \in Nat /\ Len(r) >= 1
      BY <2>1, FirstCall
    <2> QED
      BY <2>2 DEF r
  <1>4. Len(Tail(s)) = 0 => Tail(s) = <<>>
    <2> DEFINE r == Tail(s)
    <2> HIDE DEF r
    <2>1. r \in Seq(CallsOf(o)) => (Len(r) = 0 => r = <<>>)
      OBVIOUS
    <2> QED
      BY <1>1, <2>1 DEF r
  <1> QED
    BY <1>1, <1>2, <1>3, <1>4 DEF Rest

\* A call returns.
LEMMA ReturnFits ==
    ASSUME TodoOK, NEW o \in Orders, Fit(o), todo[o] # <<>>, todo'[o] = Tail(todo[o]),
           st'[o] = st[o], done'[o] = done[o], reservations'[o] = reservations[o],
           stuck' = stuck, recovering' = recovering, up' = up,
           next'[o] = next[o] \/ next'[o] = "ended",
           promises'[o] = promises[o] \/ promises'[o] = reservations[o],
           Head(todo[o]).op = "reserve" /\ next'[o] = next[o] => Holds(reservations, o),
           Head(todo[o]).op = "commit" => ~Holds(reservations, o) /\ promises'[o] = reservations[o]
    PROVE  Fit(o)'
  <1>1. /\ Rest(todo'[o])
        /\ todo'[o] # <<>> => Head(todo'[o]).op \in Simple
        /\ Len(todo[o]) = 1 => todo'[o] = <<>>
    BY RestTail DEF TodoOK, Fit, TodoFits
  <1>2. KeepFits(o)'
    BY DEF Fit, KeepFits, Input, Output
  <1>3. TodoFits(o)'
    BY <1>1 DEF Fit, TodoFits, Simple, Rest
  <1>4. NextFits(o)'
    BY <1>1 DEF Fit, NextFits, TodoFits, Simple, Holds
  <1>5. StateFits(o)'
    BY DEF Fit, StateFits, TodoFits, Output, Holds
  <1> QED
    BY <1>2, <1>3, <1>4, <1>5 DEF Fit

\* A handler throws.
LEMMA ThrowFits ==
    ASSUME Typed, NEW o \in Orders, Fit(o), Throws(o), st' = st, done' = done, reservations' = reservations,
           promises' = promises, recovering' = recovering, up' = up
    PROVE  Fit(o)'
  <1>1. todo'[o] = <<>> /\ next'[o] = "none"
    BY ThrowsAlone DEF Typed
  <1>2. st[o] = "filling" => o \in stuck'
    BY DEF Throws
  <1>3. KeepFits(o)'
    BY DEF Fit, KeepFits, Input, Output
  <1>4. TodoFits(o)'
    BY <1>1 DEF TodoFits, Rest
  <1>5. NextFits(o)'
    BY <1>1 DEF NextFits
  <1>6. StateFits(o)'
    BY <1>2 DEF Fit, StateFits, Output, Holds
  <1> QED
    BY <1>3, <1>4, <1>5, <1>6 DEF Fit

\* A handler starts.
LEMMA HandleFits ==
    ASSUME TodoOK, NextOK, NEW o \in Orders, NEW calls, NEW s, Fit(o), todo[o] = <<>>, Handle(o, calls, s),
           s \notin {"none", "unpaid", "awaiting"},
           st' = st, up' = up, recovering' = recovering, st[o] # "unpaid", Rest(calls),
           \/ done'[o] = done[o]
           \/ done'[o] = "paid" /\ st[o] = "filling"
           \/ done'[o] = "refunded" /\ st[o] = "refunding",
           s \in {"confirmed", "expired", "refunding"} => done'[o] = "none",
           s = "filling" => Len(calls) = 1 /\ calls # <<>> /\ Head(calls).op = "reserve",
           calls # <<>> /\ Head(calls).op = "reserve" => s = "filling" /\ Wanted(o, Head(calls)),
           calls # <<>> /\ Head(calls).op \in {"commit", "release"} => Holds(reservations, o),
           s = "payout_failed" => done'[o] = "swapped" /\ calls # <<>> /\ Head(calls).op = "commit",
           o \in recovering => s \in {"ended", "review"}
    PROVE  Fit(o)'
  <1>1. /\ todo'[o] = calls /\ next'[o] = s /\ reservations' = reservations /\ promises' = promises
        /\ stuck' = stuck /\ saving' = saving
    <2>1. todo'[o] = calls
      BY DEF Handle, TodoOK
    <2>2. next'[o] = s
      BY DEF Handle, NextOK
    <2> QED
      BY <2>1, <2>2 DEF Handle, memoryVars, storeVars
  <1>2. KeepFits(o)'
    BY <1>1 DEF Fit, KeepFits, StateFits, Input, Output
  <1>3. TodoFits(o)'
    BY <1>1 DEF TodoFits, Rest, Wanted, Holds
  <1>4. NextFits(o)'
    BY <1>1 DEF Fit, NextFits, Wanted, Holds
  <1>5. StateFits(o)'
    BY <1>1 DEF Fit, StateFits, Output, Holds
  <1> QED
    BY <1>2, <1>3, <1>4, <1>5 DEF Fit

\* What handlers call is of that form.
LEMMA Rests ==
    /\ Rest(<<>>)
    /\ \A c : Rest(<<c>>)
    /\ \A c, d : d.op \in Simple => Rest(<<c, d>>)
    /\ \A c, d, e, f : d.op \in Simple /\ e.op \in Simple /\ f.op \in Simple => Rest(<<c, d, e, f>>)
  <1>1. Rest(<<>>) /\ \A c : Rest(<<c>>)
    BY DEF Rest
  <1>2. ASSUME NEW c, NEW d, d.op \in Simple PROVE Rest(<<c, d>>)
    <2>1. \A i \in 2 .. 2 : <<c, d>>[i] = d
      OBVIOUS
    <2> QED
      BY <1>2, <2>1 DEF Rest
  <1>3. ASSUME NEW c, NEW d, NEW e, NEW f, d.op \in Simple, e.op \in Simple, f.op \in Simple
        PROVE  Rest(<<c, d, e, f>>)
    <2>1. \A i \in 2 .. 4 : <<c, d, e, f>>[i] \in {d, e, f}
      OBVIOUS
    <2> QED
      BY <1>3, <2>1 DEF Rest
  <1> QED
    BY <1>1, <1>2, <1>3

\* The order whose call returns, whose save was executed, or whose handler acts.
LEMMA CallFits ==
    ASSUME Typed, LineOK, CallerOK, NEW o \in Orders, Fit(o), LedgerCall(o)
    PROVE  Fit(o)'
  <1> TodoOK /\ NextOK /\ StateOK /\ ReservationsOK /\ PromisesOK /\ ChainOK
    BY DEF Typed
  <1> USE DEF vars, chainVars, memoryVars, storeVars, handlerVars, processVars
  <1>1. ASSUME CreditOrDebit(o) \/ Reserve(o) \/ Settle(o) PROVE Fit(o)'
    <2>1. Like(o)
      BY <1>1 DEF CreditOrDebit, Reserve, Settle, SetBalance, Like
    <2> QED
      BY <2>1, FitKept
  <1>2. ASSUME ReserveAgain(o) \/ ReserveRefused(o) PROVE Fit(o)'
    <2>1. /\ todo[o] # <<>> /\ todo'[o] = Tail(todo[o]) /\ Head(todo[o]).op = "reserve"
          /\ st' = st /\ done' = done /\ reservations' = reservations /\ promises' = promises
          /\ stuck' = stuck /\ recovering' = recovering /\ up' = up
      BY <1>2, ReturnsAlone DEF ReserveAgain, ReserveRefused, Calling
    <2>2. CASE ReserveAgain(o)
      <3>1. next'[o] = next[o] /\ Holds(reservations, o)
        BY <2>2 DEF ReserveAgain
      <3> QED
        BY <2>1, <3>1, ReturnFits
    <2>3. CASE ReserveRefused(o)
      <3>1. next'[o] = IF st[o] = "confirmed" THEN "ended" ELSE "none"
        BY <2>3 DEF ReserveRefused, NextOK
      <3>2. next[o] = "filling" /\ st[o] \in {"confirmed", "payout_failed"} /\ Len(todo[o]) = 1
        BY <2>1 DEF Fit, TodoFits, NextFits
      <3>3. CASE st[o] = "confirmed"
        BY <2>1, <3>1, <3>2, <3>3, ReturnFits
      <3>4. CASE st[o] = "payout_failed"
        <4>1. todo'[o] = <<>> /\ next'[o] = "none"
          BY <2>1, <3>1, <3>2, <3>4, RestTail DEF TodoOK, Fit, TodoFits
        <4>2. KeepFits(o)'
          BY <2>1 DEF Fit, KeepFits, Input, Output
        <4>3. TodoFits(o)' /\ NextFits(o)'
          BY <4>1 DEF TodoFits, NextFits, Rest
        <4>4. StateFits(o)'
          BY <2>1, <3>4 DEF Fit, StateFits, Output, Holds
        <4> QED
          BY <4>2, <4>3, <4>4 DEF Fit
      <3> QED
        BY <3>2, <3>3, <3>4
    <2> QED
      BY <1>2, <2>2, <2>3
  <1>3. ASSUME ReadBalance(o) PROVE Fit(o)'
    <2>1. CASE live
      <3>1. Like(o)
        BY <1>3, <2>1 DEF ReadBalance, Like
      <3> QED
        BY <3>1, FitKept
    <2>2. CASE ~live
      <3>1. todo[o] # <<>> /\ todo'[o] = Tail(todo[o]) /\ Head(todo[o]).op = "reconcile"
        BY <1>3, <2>2, ReturnsAlone DEF ReadBalance, Calling
      <3>2. /\ next'[o] = next[o] /\ st' = st /\ done' = done /\ reservations' = reservations
            /\ promises' = promises /\ stuck' = stuck /\ recovering' = recovering /\ up' = up
        BY <1>3 DEF ReadBalance
      <3> QED
        BY <3>1, <3>2, ReturnFits
    <2> QED
      BY <2>1, <2>2
  <1>4. ASSUME Reconcile(o) PROVE Fit(o)'
    <2>1. o \notin saving /\ todo[o] # <<>> /\ Head(todo[o]).op = "reconcile"
      BY <1>4, Values DEF Reconcile, CallerOK
    <2>2. /\ next'[o] = next[o] /\ st' = st /\ done' = done /\ reservations' = reservations
          /\ promises' = promises /\ stuck' = stuck /\ recovering' = recovering /\ up' = up
      BY <1>4 DEF Reconcile, SetBalance
    <2>3. CASE o \in saving'
      <3>1. Like(o)
        BY <1>4, <2>2, <2>3 DEF Reconcile, Like
      <3> QED
        BY <3>1, FitKept
    <2>4. CASE o \notin saving'
      <3>1. todo'[o] = Tail(todo[o])
        BY <1>4, <2>4, ReturnsAlone DEF Reconcile
      <3> QED
        BY <2>1, <2>2, <3>1, ReturnFits
    <2> QED
      BY <2>3, <2>4
  <1> QED
    BY <1>1, <1>2, <1>3, <1>4 DEF LedgerCall

\* The order whose save was executed, or failed.
LEMMA SavedFits ==
    ASSUME Typed, LineOK, CallerOK, NEW o \in Orders, Fit(o), Saved \/ SaveFails, Head(line).by = o
    PROVE  Fit(o)'
  <1> TodoOK /\ NextOK /\ StateOK /\ ReservationsOK /\ PromisesOK /\ ChainOK
    BY DEF Typed
  <1> USE DEF vars, chainVars, memoryVars, storeVars, handlerVars, processVars
  <1>1. todo[o] # <<>> /\ o \in saving /\ o \notin Syncs
    BY HeadFits DEF Saved, BalanceSaved, ReservationSaved, SaveFails
  <1>2. ASSUME SaveFails PROVE Fit(o)'
    BY <1>1, <1>2, ThrowFits DEF SaveFails
  <1>3. ASSUME ReservationSaved PROVE Fit(o)'
    <2>1. Head(line) \in PromiseSave /\ PromiseFits(Head(line))
      BY <1>3, HeadFits DEF ReservationSaved
    <2>2. /\ TwoSaves(o) /\ promises'[o] = reservations[o]
          /\ Holds(reservations, o) <=> Head(todo[o]).op = "reserve"
      BY <1>3, <2>1 DEF PromiseFits, ReservationSaved, PromisesOK
    <2>3. /\ next'[o] = next[o] /\ st' = st /\ done' = done /\ reservations' = reservations
          /\ stuck' = stuck /\ recovering' = recovering /\ up' = up /\ todo'[o] = Tail(todo[o])
      BY <1>3, ReturnsAlone DEF ReservationSaved
    <2> QED
      BY <1>1, <2>2, <2>3, ReturnFits
  <1>4. ASSUME BalanceSaved PROVE Fit(o)'
    <2>1. Head(line) \in BalanceSave /\ BalanceFits(Head(line))
      BY <1>4, HeadFits DEF BalanceSaved
    <2>2. /\ next'[o] = next[o] /\ st' = st /\ done' = done /\ promises' = promises
          /\ stuck' = stuck /\ recovering' = recovering /\ up' = up
      BY <1>4 DEF BalanceSaved
    <2>3. CASE TwoSaves(o)
      <3>1. /\ Head(todo[o]).op \in {"commit", "release"} => Holds(reservations, o)
            /\ Head(todo[o]).op = "reserve" => ~Holds(reservations, o)
            /\ Head(todo[o]).op \in {"reserve", "commit", "release"}
        BY <2>1, <2>3 DEF BalanceFits, TwoSaves
      <3> DEFINE r == Reserved(o)
      <3>2. /\ Head(todo[o]).op = "reserve" =>
                  /\ r.state = "held"
                  /\ r.token = Head(todo[o]).token /\ r.amount = Head(todo[o]).amount
            /\ Head(todo[o]).op # "reserve" =>
                  /\ r.state # "held"
                  /\ r.token = reservations[o].token /\ r.amount = reservations[o].amount
        BY <1>1, <2>3, <3>1, ReservedOK
      <3>3. reservations'[o] = r /\ todo' = todo /\ saving' = saving
        BY <1>4, <2>3 DEF BalanceSaved, ReservationsOK
      <3> HIDE DEF r
      <3>4. KeepFits(o)'
        <4>1. Head(todo[o]).op = "reserve" => Input(o, r) \/ Output(o, r)
          BY <1>1, <3>2 DEF Fit, TodoFits, StateFits, Wanted, Input, Output
        <4>2. Head(todo[o]).op # "reserve" => Input(o, r) \/ Output(o, r)
          BY <3>1, <3>2 DEF Fit, KeepFits, Input, Output, Holds
        <4> QED
          BY <2>2, <3>3, <4>1, <4>2 DEF Fit, KeepFits, Input, Output
      <3>5. TodoFits(o)'
        BY <1>1, <2>2, <3>1, <3>2, <3>3 DEF Fit, TodoFits, Rest, Wanted
      <3>6. NextFits(o)'
        BY <1>1, <2>2, <3>1, <3>2, <3>3 DEF Fit, NextFits, TodoFits, Holds
      <3>7. StateFits(o)'
        <4>1. Holds(reservations, o)' => Head(todo[o]).op = "reserve"
          BY <3>2, <3>3, <3>1 DEF Holds
        <4> QED
          BY <1>1, <2>2, <3>1, <3>2, <3>3, <4>1
             DEF Fit, StateFits, TodoFits, Wanted, Output, Holds
      <3> QED
        BY <3>4, <3>5, <3>6, <3>7 DEF Fit
    <2>4. CASE ~TwoSaves(o)
      <3>1. todo'[o] = Tail(todo[o]) /\ reservations' = reservations
        BY <1>1, <1>4, <2>4, ReturnsAlone DEF BalanceSaved
      <3> QED
        BY <1>1, <2>2, <2>4, <3>1, ReturnFits DEF TwoSaves
    <2> QED
      BY <2>3, <2>4
  <1> QED
    BY <1>2, <1>3, <1>4 DEF Saved

\* The order whose handler starts, ends or throws, or whose user pays.
LEMMA HandlerFits ==
    ASSUME Typed, CallerOK, DownOK, NEW o \in Orders, Fit(o), Handler(o) \/ AdvanceFails(o) \/ UserPays(o)
    PROVE  Fit(o)'
  <1> TodoOK /\ NextOK /\ StateOK /\ ReservationsOK /\ PromisesOK /\ ChainOK
    BY DEF Typed
  <1> USE DEF vars, chainVars, memoryVars, storeVars, handlerVars, processVars
  <1>1. ASSUME TakeDeposit(o) PROVE Fit(o)'
    <2> DEFINE q == <<Call("credit", Deposited[o], Amount[o])>>
    <2>1. q # <<>> /\ Head(q).op = "credit" /\ Rest(q)
      BY Rests DEF Call
    <2>2. done[o] = "none"
      BY <1>1 DEF TakeDeposit, Fit, StateFits
    <2> HIDE DEF q
    <2>3. PICK s \in {"confirmed", "expired"} : Handle(o, q, s)
      BY <1>1 DEF TakeDeposit, q
    <2> QED
      BY <1>1, <2>1, <2>2, <2>3, HandleFits DEF TakeDeposit, Idle
  <1>2. ASSUME StartFill(o) PROVE Fit(o)'
    <2>1. PICK t, n : /\ Handle(o, <<Call("reserve", t, n)>>, "filling")
                      /\ \/ st[o] = "confirmed" /\ t = Spent[o] /\ n = Amount[o]
                         \/ st[o] = "payout_failed" /\ t = Bought[o] /\ n = Quoted[o]
      BY <1>2 DEF StartFill
    <2> DEFINE q == <<Call("reserve", t, n)>>
    <2>2. q # <<>> /\ Head(q).op = "reserve" /\ Rest(q) /\ Len(q) = 1 /\ Head(q).token = t /\ Head(q).amount = n
      BY Rests DEF Call
    <2> HIDE DEF q
    <2>3. Wanted(o, Head(q))
      BY <2>1, <2>2 DEF Wanted
    <2>4. Handle(o, q, "filling") /\ st[o] # "unpaid"
      BY <2>1 DEF q
    <2> QED
      BY <1>2, <2>2, <2>3, <2>4, HandleFits DEF StartFill, Idle
  <1>3. ASSUME RefuseFill(o) PROVE Fit(o)'
    <2> DEFINE q == <<Call("release", Spent[o], Amount[o])>>
    <2>1. q # <<>> /\ Head(q).op = "release" /\ Rest(q)
      BY Rests DEF Call
    <2>2. Holds(reservations, o)
      BY <1>3 DEF RefuseFill, Idle, Fit, StateFits
    <2>3. Handle(o, q, "ended")
      BY <1>3 DEF RefuseFill
    <2> HIDE DEF q
    <2> QED
      BY <1>3, <2>1, <2>2, <2>3, HandleFits DEF RefuseFill, Idle
  <1>4. ASSUME Swap(o) PROVE Fit(o)'
    <2>1. /\ done'[o] = "swapped" /\ Spent[o] # Bought[o] /\ st[o] = "filling" /\ next[o] = "none" /\ todo[o] = <<>>
          /\ todo' = todo /\ next' = next /\ st' = st /\ reservations' = reservations /\ promises' = promises
          /\ stuck' = stuck /\ recovering' = recovering /\ up' = up /\ saving' = saving
      BY <1>4 DEF Swap, Idle, ChainOK
    <2>2. KeepFits(o)'
      BY <2>1 DEF Fit, KeepFits, Input, Output
    <2>3. TodoFits(o)'
      BY <2>1 DEF Fit, TodoFits, Rest
    <2>4. NextFits(o)'
      BY <2>1 DEF Fit, NextFits
    <2>5. StateFits(o)'
      BY <2>1 DEF Fit, StateFits, Holds
    <2> QED
      BY <2>2, <2>3, <2>4, <2>5 DEF Fit
  <1>5. ASSUME Pay(o) PROVE Fit(o)'
    <2>1. PICK n : Handle(o, <<Call("commit", Spent[o], Amount[o]), Call("credit", Bought[o], n),
                               Call("debit", Bought[o], Quoted[o]), Call("reconcile", Bought[o], 0)>>, "ended")
      BY <1>5 DEF Pay
    <2> DEFINE q == <<Call("commit", Spent[o], Amount[o]), Call("credit", Bought[o], n),
                      Call("debit", Bought[o], Quoted[o]), Call("reconcile", Bought[o], 0)>>
    <2>2. q # <<>> /\ Head(q).op = "commit"
      BY DEF Call
    <2>3. Rest(q)
      BY Rests DEF Call, Simple
    <2>4. Holds(reservations, o)
      BY <1>5 DEF Pay, Idle, Fit, StateFits
    <2>5. done'[o] = "paid" /\ st[o] = "filling"
      BY <1>5 DEF Pay, ChainOK
    <2> HIDE DEF q
    <2>6. Handle(o, q, "ended")
      BY <2>1 DEF q
    <2> QED
      BY <1>5, <2>2, <2>3, <2>4, <2>5, <2>6, HandleFits DEF Pay, Idle
  <1>6. ASSUME PayoutFails(o) PROVE Fit(o)'
    <2> DEFINE q == <<Call("commit", Spent[o], Amount[o]), Call("credit", Bought[o], Amount[o])>>
    <2>1. q # <<>> /\ Head(q).op = "commit"
      BY DEF Call
    <2>2. Rest(q)
      BY Rests DEF Call, Simple
    <2>3. Holds(reservations, o)
      BY <1>6 DEF PayoutFails, Idle, Fit, StateFits
    <2> HIDE DEF q
    <2>4. PICK s \in {"payout_failed", "ended"} : Handle(o, q, s)
      BY <1>6 DEF PayoutFails, q
    <2> QED
      BY <1>6, <2>1, <2>2, <2>3, <2>4, HandleFits DEF PayoutFails, Idle
  <1>7. ASSUME StartRefund(o) PROVE Fit(o)'
    <2>1. done[o] = "none"
      BY <1>7 DEF StartRefund, Fit, StateFits
    <2> QED
      BY <1>7, <2>1, Rests, HandleFits DEF StartRefund, Idle
  <1>8. ASSUME Refund(o) PROVE Fit(o)'
    <2> DEFINE q == <<Call("debit", Deposited[o], Amount[o])>>
    <2>1. q # <<>> /\ Head(q).op = "debit" /\ Rest(q)
      BY Rests DEF Call
    <2>2. done'[o] = "refunded" /\ st[o] = "refunding"
      BY <1>8 DEF Refund, ChainOK
    <2>3. Handle(o, q, "ended")
      BY <1>8 DEF Refund
    <2> HIDE DEF q
    <2> QED
      BY <1>8, <2>1, <2>2, <2>3, HandleFits DEF Refund, Idle
  <1>9. ASSUME RefundGivenUp(o) PROVE Fit(o)'
    BY <1>9, Rests, HandleFits DEF RefundGivenUp, Idle
  <1>10. ASSUME Advance(o) PROVE Fit(o)'
    <2>1. /\ st'[o] = next[o] /\ next'[o] = "none" /\ todo[o] = <<>> /\ next[o] # "none"
          /\ todo' = todo /\ done' = done /\ reservations' = reservations /\ promises' = promises
          /\ stuck' = stuck /\ o \notin recovering' /\ up' = up /\ saving' = saving
      BY <1>10 DEF Advance, StateOK, NextOK
    <2>2. KeepFits(o)'
      BY <2>1 DEF Fit, KeepFits, Input, Output
    <2>3. TodoFits(o)'
      BY <2>1 DEF Fit, TodoFits, Rest
    <2>4. NextFits(o)'
      BY <2>1 DEF Fit, NextFits
    <2>5. StateFits(o)'
      BY <2>1 DEF Fit, StateFits, NextFits, Holds
    <2> QED
      BY <2>2, <2>3, <2>4, <2>5 DEF Fit
  <1>11. ASSUME Recover(o) PROVE Fit(o)'
    <2>1. PICK q, s : /\ Handle(o, q, s) /\ s \in {"ended", "review"}
                      /\ \/ q = <<>>
                         \/ q = <<Call("debit", Deposited[o], Amount[o])>>
                         \/ q = <<Call("commit", Spent[o], Amount[o])>> /\ Holds(reservations, o)
      BY <1>11 DEF Recover
    <2>2. Rest(q) /\ (q # <<>> => Head(q).op = "debit" \/ (Head(q).op = "commit" /\ Holds(reservations, o)))
      <3>1. CASE q = <<>>
        BY <3>1, Rests
      <3>2. CASE q = <<Call("debit", Deposited[o], Amount[o])>>
        <4>1. Head(q).op = "debit"
          BY <3>2 DEF Call
        <4>2. Rest(q)
          BY <3>2, Rests
        <4> QED
          BY <3>2, <4>1, <4>2
      <3>3. CASE q = <<Call("commit", Spent[o], Amount[o])>> /\ Holds(reservations, o)
        <4>1. Head(q).op = "commit"
          BY <3>3 DEF Call
        <4>2. Rest(q)
          BY <3>3, Rests
        <4> QED
          BY <3>3, <4>1, <4>2
      <3> QED
        BY <2>1, <3>1, <3>2, <3>3
    <2>3. st[o] # "unpaid"
      BY <1>11 DEF Recover, Fit, StateFits
    <2> QED
      BY <1>11, <2>1, <2>2, <2>3, HandleFits DEF Recover
  <1>12. ASSUME AdvanceFails(o) PROVE Fit(o)'
    BY <1>12, ThrowFits DEF AdvanceFails
  <1>13. ASSUME UserPays(o) PROVE Fit(o)'
    <2>1. /\ st[o] = "unpaid" /\ st'[o] \in {"awaiting", "confirmed"}
          /\ todo' = todo /\ next' = next /\ done' = done /\ reservations' = reservations /\ promises' = promises
          /\ stuck' = stuck /\ recovering' = recovering /\ up' = up /\ saving' = saving
      BY <1>13 DEF UserPays, StateOK
    <2>2. next[o] = "none" /\ todo[o] = <<>> /\ done[o] = "none"
      BY <2>1 DEF Fit, NextFits, TodoFits, StateFits
    <2>3. KeepFits(o)'
      BY <2>1 DEF Fit, KeepFits, Input, Output
    <2>4. TodoFits(o)'
      BY <2>1, <2>2 DEF Fit, TodoFits, Rest
    <2>5. NextFits(o)'
      BY <2>1, <2>2 DEF Fit, NextFits
    <2>6. StateFits(o)'
      BY <2>1, <2>2 DEF Fit, StateFits, Holds
    <2> QED
      BY <2>3, <2>4, <2>5, <2>6 DEF Fit
  <1> QED
    BY <1>1, <1>2, <1>3, <1>4, <1>5, <1>6, <1>7, <1>8, <1>9, <1>10, <1>11, <1>12, <1>13
       DEF Handler

\* Nothing is promised at the start.
LEMMA StageInit == Init => Stage
  <1> SUFFICES ASSUME Init, NEW o \in Orders PROVE Fit(o)
    BY DEF Stage
  <1>1. /\ todo[o] = <<>> /\ next[o] = "none" /\ st[o] = "unpaid" /\ done[o] = "none"
        /\ reservations[o] = None /\ promises[o] = None /\ o \notin recovering
    BY DEF Init
  <1>2. KeepFits(o)
    BY <1>1 DEF KeepFits
  <1>3. TodoFits(o)
    BY <1>1 DEF TodoFits, Rest
  <1>4. NextFits(o)
    BY <1>1 DEF NextFits
  <1>5. StateFits(o)
    BY <1>1 DEF StateFits
  <1> QED
    BY <1>2, <1>3, <1>4, <1>5 DEF Fit

\* A restart brings the stored reservations back, and recover() asks no more of an
\* order than it holds.
LEMMA RestartFits ==
    ASSUME Typed, DownOK, NEW o \in Orders, Fit(o), Crash \/ TakeOver
    PROVE  Fit(o)'
  <1> USE DEF chainVars, memoryVars, storeVars, handlerVars
  <1>1. ASSUME Crash PROVE Fit(o)'
    <2>1. /\ todo'[o] = <<>> /\ next'[o] = "none" /\ st' = st /\ done' = done /\ up' = FALSE
          /\ reservations' = reservations /\ promises' = promises /\ recovering' = {}
      BY <1>1 DEF Crash
    <2>2. KeepFits(o)'
      BY <2>1 DEF Fit, KeepFits, Input, Output
    <2>3. TodoFits(o)'
      BY <2>1 DEF TodoFits, Rest
    <2>4. NextFits(o)'
      BY <2>1 DEF NextFits
    <2>5. StateFits(o)'
      BY <2>1 DEF Fit, StateFits, Holds, Output
    <2> QED
      BY <2>2, <2>3, <2>4, <2>5 DEF Fit
  <1>2. ASSUME TakeOver PROVE Fit(o)'
    <2>1. /\ todo'[o] = <<>> /\ next'[o] = "none" /\ st' = st /\ done' = done
          /\ reservations' = promises /\ promises' = promises
          /\ recovering' = {p \in Orders : st[p] \in {"filling", "refunding"}}
      BY <1>2 DEF TakeOver, DownOK
    <2>2. KeepFits(o)'
      BY <2>1 DEF Fit, KeepFits, Input, Output
    <2>3. TodoFits(o)'
      BY <2>1 DEF TodoFits, Rest
    <2>4. NextFits(o)'
      BY <2>1 DEF NextFits
    <2>5. StateFits(o)'
      BY <2>1 DEF Fit, StateFits, Holds, Output
    <2> QED
      BY <2>2, <2>3, <2>4, <2>5 DEF Fit
  <1> QED
    BY <1>1, <1>2

\* Every step leaves every order holding what its stage may hold.
LEMMA StageStep ==
    ASSUME Typed, LineOK, CallerOK, DownOK, Stage, [Next]_vars
    PROVE  Stage'
  <1> SUFFICES ASSUME NEW o \in Orders PROVE Fit(o)'
    BY DEF Stage
  <1>1. Fit(o)
    BY DEF Stage
  <1>2. CASE Crash \/ TakeOver
    BY <1>1, <1>2, RestartFits
  <1>3. CASE Same(o)
    BY <1>1, <1>3, FitKept DEF Same
  <1>4. CASE \/ LedgerCall(o) \/ Handler(o) \/ AdvanceFails(o) \/ UserPays(o)
             \/ (Saved \/ SaveFails) /\ Head(line).by = o
    BY <1>1, <1>4, CallFits, SavedFits, HandlerFits
  <1> QED
    BY <1>2, <1>3, <1>4, Others

LEMMA StageHolds == Spec => []Stage
  <1>1. Kept /\ Stage /\ [Next]_vars => Stage'
    BY StageStep DEF Kept
  <1> QED
    BY <1>1, StageInit, KeptHolds, PTL DEF Spec

\* What a call of the ledger asks of an order's reservation, where inventory.ts throws.
NoCallThrows ==
    \A o \in Orders : up /\ todo[o] # <<>> /\ o \notin saving =>
       /\ Head(todo[o]).op = "reserve" /\ Holds(reservations, o) =>
             /\ reservations[o].amount = Head(todo[o]).amount
             /\ reservations[o].token = Head(todo[o]).token
       /\ Head(todo[o]).op \in {"commit", "release"} => Holds(reservations, o) /\ balances[reservations[o].token] # None

\* No call of orders/inventory.ts throws: no handler reserves a second amount for
\* an order (inventory.ts:122), settles what the order does not hold (:151), or
\* settles where there is no balance (:153).
THEOREM CallsGoThrough == Spec => []NoCallThrows
  <1>1. Kept /\ Stage => NoCallThrows
    <2>1. SUFFICES ASSUME Kept, Stage, NEW o \in Orders, up, todo[o] # <<>>, o \notin saving
          PROVE  /\ Head(todo[o]).op = "reserve" /\ Holds(reservations, o) =>
                        /\ reservations[o].amount = Head(todo[o]).amount
                        /\ reservations[o].token = Head(todo[o]).token
                 /\ Head(todo[o]).op \in {"commit", "release"} =>
                        Holds(reservations, o) /\ balances[reservations[o].token] # None
      BY DEF NoCallThrows
    <2>2. Fit(o)
      BY <2>1 DEF Stage
    <2>3. Head(todo[o]).op \in {"commit", "release"} => Holds(reservations, o)
      BY <2>1, <2>2 DEF Fit, TodoFits
    <2>4. Holds(reservations, o) => balances[reservations[o].token] # None
      BY <2>1 DEF Kept, Backed, Holds
    <2>5. ASSUME Head(todo[o]).op = "reserve", Holds(reservations, o)
          PROVE  reservations[o].amount = Head(todo[o]).amount /\ reservations[o].token = Head(todo[o]).token
      BY <2>1, <2>2, <2>5 DEF Fit, TodoFits, KeepFits, StateFits, Wanted, Holds, Input, Output
    <2> QED
      BY <2>3, <2>4, <2>5
  <1> QED
    BY <1>1, KeptHolds, StageHolds, PTL

-----------------------------------------------------------------------------
(* What a fork is yet to be told.                                          *)

\* What a call adds to available and reserved together.
Effect(o, c, t) ==
    CASE c.op = "credit" /\ c.token = t -> c.amount
      [] c.op = "debit" /\ c.token = t -> 0 - c.amount
      [] c.op = "commit" /\ reservations[o].token = t -> 0 - reservations[o].amount
      [] OTHER -> 0

\* The calls whose effect is yet to come, the first of them already made
\* when its save is on its way.
Before(o) == IF o \in saving THEN 1 ELSE 0
Nth(o, i, t) ==
   LET k == i + Before(o)
   IN IF k \in 1 .. Len(todo[o]) THEN Effect(o, todo[o][k], t) ELSE 0

\* What the chain did and no call yet tells of: a deposit, a swap.
At(t, u, n) == IF t = u THEN n ELSE 0
Untold(o, t) ==
   IF next[o] # "none" THEN 0
   ELSE IF st[o] = "awaiting" THEN At(t, Deposited[o], Amount[o])
   ELSE IF st[o] = "filling" /\ done[o] = "swapped" /\ reservations[o].token = Spent[o]
        THEN At(t, Bought[o], Amount[o]) - At(t, Spent[o], Amount[o])
   ELSE 0

\* What the ledger is yet to be told of an order.
Pending(o, t) == Nth(o, 1, t) + Nth(o, 2, t) + Nth(o, 3, t) + Nth(o, 4, t)
Owing(o, t) == Pending(o, t) + Untold(o, t)
Total(t) == BalanceOf(t).available + BalanceOf(t).reserved

\* On a fork nobody reads balances, and its process is the only one.
ForkQuiet == ~live => /\ read = [c \in Callers |-> None] /\ up /\ recovering = {} /\ stuck \subseteq torn
                     /\ \A s \in Syncs : left[s] = {}

\* The ledger and what it is yet to be told come to what the chain holds.
ForkCounts ==
    ~live /\ torn = {} =>
        \A t \in Tokens : Total(t) + SumFunction([o \in Orders |-> Owing(o, t)]) = chain[t] - Unseen(t)

\* An effect is a number, of a commit when the order has a reservation.
LEMMA EffectInt ==
    ASSUME NEW o \in Orders, NEW c \in CallsOf(o), NEW t \in Tokens,
           c.op = "commit" => reservations[o].amount \in Int
    PROVE  Effect(o, c, t) \in Int
  <1>1. c.amount \in Int
    BY DEF CallsOf, Calls
  <1>2. CASE c.op = "credit" /\ c.token = t
    BY <1>1, <1>2 DEF Effect
  <1>3. CASE c.op = "debit" /\ c.token = t
    BY <1>1, <1>3 DEF Effect
  <1>4. CASE c.op = "commit" /\ reservations[o].token = t
    BY <1>4 DEF Effect
  <1>5. CASE /\ ~(c.op = "credit" /\ c.token = t) /\ ~(c.op = "debit" /\ c.token = t)
             /\ ~(c.op = "commit" /\ reservations[o].token = t)
    BY <1>5 DEF Effect
  <1> QED
    BY <1>2, <1>3, <1>4, <1>5

\* The calls left, one by one.
LEMMA Each ==
    ASSUME Typed, NEW o \in Orders, Fit(o)
    PROVE  /\ Len(todo[o]) \in 0 .. 4
           /\ \A i \in 1 .. Len(todo[o]) : todo[o][i] \in CallsOf(o)
           /\ \A i \in 2 .. Len(todo[o]) : todo[o][i].op \in Simple
           /\ todo[o] # <<>> => Len(todo[o]) >= 1 /\ Head(todo[o]) = todo[o][1]
           /\ todo[o] = <<>> => Len(todo[o]) = 0
  <1>1. todo[o] \in Seq(CallsOf(o))
    BY DEF Typed, TodoOK
  <1>2. Rest(todo[o])
    BY DEF Fit, TodoFits
  <1> DEFINE s == todo[o]
  <1>3. s \in Seq(CallsOf(o)) /\ Rest(s)
    BY <1>1, <1>2
  <1> HIDE DEF s
  <1>4. Len(s) \in Nat /\ \A i \in 1 .. Len(s) : s[i] \in CallsOf(o)
    BY <1>3
  <1>5. s # <<>> => Len(s) >= 1 /\ Head(s) = s[1]
    BY <1>3, FirstCall
  <1>6. s = <<>> => Len(s) = 0
    OBVIOUS
  <1> QED
    <2>1. Len(s) <= 4 /\ \A i \in 2 .. Len(s) : s[i].op \in Simple
      BY <1>3 DEF Rest
    <2>2. Len(s) \in 0 .. 4
      <3>1. \A n \in Nat : n <= 4 => n \in 0 .. 4
        OBVIOUS
      <3>2. Len(s) \in Nat
        BY <1>4
      <3>3. Len(s) <= 4
        BY <2>1
      <3> QED
        BY <3>1, <3>2, <3>3
    <2> QED
      BY <1>4, <1>5, <1>6, <2>1, <2>2 DEF s

\* Of a call a later one cannot be a commit, so that its effect stays what it is.
LEMMA EffectKept ==
    ASSUME NEW o, NEW c, NEW t, c.op \in Simple \/ reservations'[o] = reservations[o]
    PROVE  Effect(o, c, t)' = Effect(o, c, t)
  BY DEF Effect, Simple

\* What is pending is a number.
LEMMA NthInt ==
    ASSUME Typed, NEW o \in Orders, Fit(o), NEW t \in Tokens
    PROVE  \A i \in 1 .. 4 : Nth(o, i, t) \in Int
  <1> SUFFICES ASSUME NEW i \in 1 .. 4 PROVE Nth(o, i, t) \in Int
    OBVIOUS
  <1> DEFINE k == i + Before(o)
  <1>1. Before(o) \in {0, 1} /\ (Before(o) = 0 => o \notin saving)
    BY DEF Before
  <1>2. CASE k \notin 1 .. Len(todo[o])
    BY <1>2 DEF Nth
  <1>3. CASE k \in 1 .. Len(todo[o])
    <2>1. todo[o][k] \in CallsOf(o)
      BY <1>3, Each
    <2>2. todo[o][k].op = "commit" => reservations[o].amount \in Int
      <3>1. SUFFICES ASSUME todo[o][k].op = "commit" PROVE reservations[o].amount \in Int
        OBVIOUS
      <3>2. k = 1 /\ o \notin saving /\ todo[o] # <<>>
        <4>1. k \notin 2 .. Len(todo[o])
          BY <3>1, Each DEF Simple
        <4>2. k = 1
          BY <1>1, <1>3, <4>1, Each
        <4> QED
          BY <1>1, <1>3, <4>2, Each
      <3>3. Holds(reservations, o)
        BY <3>1, <3>2, Each DEF Fit, TodoFits
      <3> QED
        BY <3>3 DEF Holds, Typed, ReservationsOK, Reservation
    <2> HIDE DEF k
    <2>3. Effect(o, todo[o][k], t) \in Int
      BY <2>1, <2>2, EffectInt
    <2> QED
      BY <1>3, <2>3 DEF Nth, k
  <1> QED
    BY <1>2, <1>3

LEMMA UntoldInt ==
    ASSUME NEW o \in Orders, NEW t
    PROVE  Untold(o, t) \in Int
  BY Values DEF Untold, At

LEMMA UntoldIntNext ==
    ASSUME NEW o \in Orders, NEW t
    PROVE  Untold(o, t)' \in Int
  BY Values DEF Untold, At

LEMMA OwingInt ==
    ASSUME Typed, NEW o \in Orders, Fit(o), NEW t \in Tokens
    PROVE  Pending(o, t) \in Int /\ Owing(o, t) \in Int
  BY NthInt, UntoldInt DEF Owing, Pending

\* Nothing is pending when no call is left.
LEMMA Begun ==
    ASSUME NEW o \in Orders, todo[o] = <<>>, NEW t
    PROVE  Pending(o, t) = 0
  <1>1. \A i \in 1 .. 4 : Nth(o, i, t) = 0
    BY DEF Nth, Before
  <1> QED
    BY <1>1 DEF Pending

\* A call changes memory, and its save is sent.
LEMMA Applied ==
    ASSUME Typed, NEW o \in Orders, Fit(o), NEW t \in Tokens, todo[o] # <<>>, o \notin saving,
           o \in saving', todo'[o] = todo[o], reservations'[o] = reservations[o]
    PROVE  Pending(o, t)' = Pending(o, t) - Effect(o, Head(todo[o]), t)
  <1>1. Len(todo[o]) \in 1 .. 4 /\ Head(todo[o]) = todo[o][1]
    BY Each
  <1>2. Nth(o, 1, t) = Effect(o, Head(todo[o]), t)
    BY <1>1 DEF Nth, Before
  <1>3. \A i \in 1 .. 3 : Nth(o, i, t)' = Nth(o, i + 1, t)
    <2>1. \A c : Effect(o, c, t)' = Effect(o, c, t)
      BY EffectKept
    <2> QED
      BY <2>1 DEF Nth, Before
  <1>4. Nth(o, 4, t)' = 0
    BY <1>1 DEF Nth, Before
  <1> QED
    BY <1>2, <1>3, <1>4, NthInt DEF Pending

\* A call returns.
LEMMA Returned ==
    ASSUME Typed, NEW o \in Orders, Fit(o), NEW t \in Tokens, todo[o] # <<>>,
           todo'[o] = Tail(todo[o]), o \notin saving', reservations'[o] = reservations[o],
           o \notin saving => Head(todo[o]).op \in {"reserve", "release", "reconcile"}
    PROVE  Pending(o, t)' = Pending(o, t)
  <1>1. Len(todo[o]) \in 1 .. 4 /\ Head(todo[o]) = todo[o][1]
    BY Each
  <1>2. /\ Len(todo'[o]) = Len(todo[o]) - 1
        /\ \A i \in 1 .. Len(todo'[o]) : todo'[o][i] = todo[o][i + 1]
    BY FirstCall DEF Typed, TodoOK
  <1>3. \A c : Effect(o, c, t)' = Effect(o, c, t)
    BY EffectKept
  <1>4. CASE o \in saving
    <2>1. \A i \in 1 .. 4 : Nth(o, i, t)' = Nth(o, i, t)
      BY <1>1, <1>2, <1>3, <1>4 DEF Nth, Before
    <2> QED
      BY <2>1 DEF Pending
  <1>5. CASE o \notin saving
    <2>1. Nth(o, 1, t) = 0
      <3>1. Effect(o, Head(todo[o]), t) = 0
        BY <1>5 DEF Effect
      <3> QED
        BY <1>1, <1>5, <3>1 DEF Nth, Before
    <2>2. \A i \in 1 .. 3 : Nth(o, i, t)' = Nth(o, i + 1, t)
      BY <1>1, <1>2, <1>3, <1>5 DEF Nth, Before
    <2>3. Nth(o, 4, t)' = 0
      BY <1>1, <1>2 DEF Nth, Before
    <2> QED
      BY <2>1, <2>2, <2>3, NthInt DEF Pending
  <1> QED
    BY <1>4, <1>5

\* The first save of two is executed: the call goes on, and the reservation changes.
LEMMA HalfSaved ==
    ASSUME Typed, NEW o \in Orders, Fit(o), NEW t \in Tokens, o \in saving, o \in saving', todo'[o] = todo[o]
    PROVE  Pending(o, t)' = Pending(o, t)
  <1>1. ASSUME NEW i \in 1 .. 4 PROVE Nth(o, i, t)' = Nth(o, i, t)
    <2>1. CASE i + 1 \in 1 .. Len(todo[o])
      <3>1. todo[o][i + 1].op \in Simple
        BY <2>1, Each
      <3> DEFINE c == todo[o][i + 1]
      <3>2. PICK d : d = c
        OBVIOUS
      <3>3. Effect(o, d, t)' = Effect(o, d, t)
        BY <3>1, <3>2, EffectKept
      <3> QED
        BY <2>1, <3>2, <3>3 DEF Nth, Before
    <2>2. CASE i + 1 \notin 1 .. Len(todo[o])
      BY <2>2 DEF Nth, Before
    <2> QED
      BY <2>1, <2>2
  <1> QED
    BY <1>1 DEF Pending

\* Nothing of the order changes.
LEMMA OwingKept ==
    ASSUME NEW o \in Orders, Same(o), NEW t
    PROVE  Owing(o, t)' = Owing(o, t)
  <1>1. \A c : Effect(o, c, t)' = Effect(o, c, t)
    BY EffectKept DEF Same, Like
  <1>2. \A i \in 1 .. 4 : Nth(o, i, t)' = Nth(o, i, t)
    BY <1>1 DEF Same, Like, Nth, Before
  <1>3. Untold(o, t)' = Untold(o, t)
    BY DEF Same, Like, Untold
  <1> QED
    BY <1>2, <1>3 DEF Owing, Pending

\* A handler starts with the calls it makes.
LEMMA Starts1 ==
    ASSUME NEW o \in Orders, NEW t, NEW c, todo'[o] = <<c>>, o \notin saving', Effect(o, c, t)' \in Int
    PROVE  Pending(o, t)' = Effect(o, c, t)'
  <1>1. Nth(o, 1, t)' = Effect(o, c, t)'
    BY DEF Nth, Before
  <1>2. \A i \in 2 .. 4 : Nth(o, i, t)' = 0
    BY DEF Nth, Before
  <1> QED
    BY <1>1, <1>2 DEF Pending

LEMMA Starts2 ==
    ASSUME NEW o \in Orders, NEW t, NEW c, NEW d, todo'[o] = <<c, d>>, o \notin saving',
           Effect(o, c, t)' \in Int, Effect(o, d, t)' \in Int
    PROVE  Pending(o, t)' = Effect(o, c, t)' + Effect(o, d, t)'
  <1>1. Nth(o, 1, t)' = Effect(o, c, t)' /\ Nth(o, 2, t)' = Effect(o, d, t)'
    BY DEF Nth, Before
  <1>2. \A i \in 3 .. 4 : Nth(o, i, t)' = 0
    BY DEF Nth, Before
  <1> QED
    BY <1>1, <1>2 DEF Pending

LEMMA Starts4 ==
    ASSUME NEW o \in Orders, NEW t, NEW c, NEW d, NEW e, NEW f, todo'[o] = <<c, d, e, f>>, o \notin saving'
    PROVE  Pending(o, t)' = Effect(o, c, t)' + Effect(o, d, t)' + Effect(o, e, t)' + Effect(o, f, t)'
  <1>1. /\ Nth(o, 1, t)' = Effect(o, c, t)' /\ Nth(o, 2, t)' = Effect(o, d, t)'
        /\ Nth(o, 3, t)' = Effect(o, e, t)' /\ Nth(o, 4, t)' = Effect(o, f, t)'
    BY DEF Nth, Before
  <1> QED
    BY <1>1 DEF Pending

\* Available and reserved together.
LEMMA TotalInt ==
    ASSUME BalancesOK, NEW t \in Tokens
    PROVE  Total(t) \in Int
  BY BalanceOfOK DEF Total

LEMMA TotalKept ==
    ASSUME balances' = balances, NEW t
    PROVE  Total(t)' = Total(t)
  BY DEF Total, BalanceOf

LEMMA TotalSet ==
    ASSUME BalancesOK, NEW c, NEW u \in Tokens, NEW a \in Int, NEW r \in Int, SetBalance(c, u, a, r),
           NEW t \in Tokens
    PROVE  Total(t)' = IF t = u THEN a + r ELSE Total(t)
  <1>1. BalanceOf(t).reserved' = IF t = u THEN r ELSE BalanceOf(t).reserved
    BY SetReserved
  <1>2. BalanceOf(t).available' = IF t = u THEN a ELSE BalanceOf(t).available
    BY SetAvailable
  <1> QED
    BY <1>1, <1>2 DEF Total

\* What the ledger has, and is yet to be told of an order, moves with the chain.
Even(o, t) ==
    /\ Owing(o, t)' \in Int
    /\ Total(t)' + Owing(o, t)' - chain'[t] = Total(t) + Owing(o, t) - chain[t]

\* What no call tells of stays, or there was and is none.
LEMMA UntoldKept ==
    ASSUME NEW o, NEW t,
           \/ next'[o] = next[o] /\ st'[o] = st[o] /\ done'[o] = done[o] /\ reservations'[o] = reservations[o]
           \/ next[o] # "none" /\ next'[o] # "none"
    PROVE  Untold(o, t)' = Untold(o, t)
  BY DEF Untold

\* A call that changes memory by its effect.
LEMMA EvenApplied ==
    ASSUME Typed, NEW o \in Orders, Fit(o), NEW t \in Tokens, todo[o] # <<>>, o \notin saving,
           o \in saving', todo' = todo, reservations' = reservations, next' = next, st' = st, done' = done,
           chain' = chain, Total(t)' = Total(t) + Effect(o, Head(todo[o]), t)
    PROVE  Even(o, t)
  <1>1. Pending(o, t)' = Pending(o, t) - Effect(o, Head(todo[o]), t)
    BY Applied
  <1>2. Effect(o, Head(todo[o]), t) \in Int
    <2>1. Head(todo[o]).op = "commit" => reservations[o].amount \in Int
      BY DEF Fit, TodoFits, Holds, Typed, ReservationsOK, Reservation
    <2>2. Head(todo[o]) \in CallsOf(o)
      BY HeadOK DEF Typed
    <2> QED
      BY <2>1, <2>2, EffectInt
  <1>3. Untold(o, t)' = Untold(o, t) /\ Untold(o, t) \in Int
    BY UntoldKept, UntoldInt
  <1>4. Pending(o, t) \in Int
    BY OwingInt
  <1>5. Total(t) \in Int /\ chain[t] \in Int
    BY TotalInt DEF Typed, ChainOK
  <1>6. Owing(o, t)' = Owing(o, t) - Effect(o, Head(todo[o]), t) /\ Owing(o, t) \in Int
    BY <1>1, <1>2, <1>3, <1>4 DEF Owing
  <1> QED
    BY <1>2, <1>5, <1>6 DEF Even

\* A step that leaves the ledger's totals, the chain and what is owed as they are.
LEMMA EvenStill ==
    ASSUME Typed, NEW o \in Orders, Fit(o), NEW t \in Tokens, Pending(o, t)' = Pending(o, t),
           balances' = balances, chain' = chain, Untold(o, t)' = Untold(o, t)
    PROVE  Even(o, t)
  <1>1. Total(t)' = Total(t) /\ Total(t) \in Int /\ chain[t] \in Int
    BY TotalKept, TotalInt DEF Typed, ChainOK
  <1>2. Owing(o, t)' = Owing(o, t) /\ Owing(o, t) \in Int
    BY OwingInt DEF Owing
  <1> QED
    BY <1>1, <1>2 DEF Even

\* A call on a fork.
LEMMA CallEven ==
    ASSUME Typed, CallerOK, ForkQuiet, ~live, NEW o \in Orders, Fit(o), NEW t \in Tokens, LedgerCall(o)
    PROVE  Even(o, t)
  <1> TodoOK /\ BalancesOK /\ ReservationsOK /\ NextOK
    BY DEF Typed
  <1> USE DEF vars, chainVars, memoryVars, storeVars, handlerVars, processVars
  <1>1. ASSUME CreditOrDebit(o) PROVE Even(o, t)
    <2> DEFINE c == Head(todo[o])
               b == BalanceOf(c.token)
               a == IF c.op = "credit" THEN b.available + c.amount ELSE b.available - c.amount
    <2>1. /\ todo[o] # <<>> /\ o \notin saving /\ c.op \in {"credit", "debit"}
          /\ SetBalance(o, c.token, a, b.reserved)
          /\ todo' = todo /\ reservations' = reservations /\ next' = next /\ st' = st /\ done' = done
          /\ chain' = chain
      BY <1>1 DEF CreditOrDebit, Calling
    <2>2. c.token \in Tokens /\ c.amount \in Int
      BY <2>1, HeadOK
    <2>3. b.available \in Int /\ b.reserved \in Int /\ a \in Int
      BY <2>2, BalanceOfOK
    <2>4. o \in saving'
      BY <2>1 DEF SetBalance
    <2> HIDE DEF a
    <2>5. Total(t)' = IF t = c.token THEN a + b.reserved ELSE Total(t)
      BY <2>1, <2>2, <2>3, TotalSet
    <2>6. Total(t)' = Total(t) + Effect(o, c, t)
      <3>1. CASE t # c.token
        BY <2>1, <2>5, <3>1, TotalInt DEF Effect
      <3>2. CASE t = c.token /\ c.op = "credit"
        <4>1. Effect(o, c, t) = c.amount
          BY <3>2 DEF Effect
        <4> QED
          BY <2>2, <2>3, <2>5, <3>2, <4>1 DEF Total, a
      <3>3. CASE t = c.token /\ c.op = "debit"
        <4>1. Effect(o, c, t) = 0 - c.amount
          BY <3>3 DEF Effect
        <4> QED
          BY <2>2, <2>3, <2>5, <3>3, <4>1 DEF Total, a
      <3> QED
        BY <2>1, <3>1, <3>2, <3>3
    <2> QED
      BY <2>1, <2>4, <2>6, EvenApplied
  <1>2. ASSUME Reserve(o) PROVE Even(o, t)
    <2> DEFINE c == Head(todo[o])
               b == BalanceOf(c.token)
    <2>1. /\ todo[o] # <<>> /\ o \notin saving /\ c.op = "reserve"
          /\ SetBalance(o, c.token, b.available - c.amount, b.reserved + c.amount)
          /\ todo' = todo /\ reservations' = reservations /\ next' = next /\ st' = st /\ done' = done
          /\ chain' = chain
      BY <1>2 DEF Reserve, Calling
    <2>2. c.token \in Tokens /\ c.amount \in Int
      BY <2>1, HeadOK
    <2>3. b.available \in Int /\ b.reserved \in Int
      BY <2>2, BalanceOfOK
    <2>4. o \in saving'
      BY <2>1 DEF SetBalance
    <2>5. Total(t)' = IF t = c.token THEN b.available - c.amount + (b.reserved + c.amount) ELSE Total(t)
      BY <2>1, <2>2, <2>3, TotalSet
    <2>6. Effect(o, c, t) = 0
      BY <2>1 DEF Effect
    <2>7. Total(t)' = Total(t) + Effect(o, c, t)
      BY <2>2, <2>3, <2>5, <2>6, TotalInt DEF Total
    <2> QED
      BY <2>1, <2>4, <2>7, EvenApplied
  <1>3. ASSUME Settle(o) PROVE Even(o, t)
    <2> DEFINE c == Head(todo[o])
               r == reservations[o]
               b == BalanceOf(r.token)
               a == IF c.op = "release" THEN b.available + r.amount ELSE b.available
    <2>1. /\ todo[o] # <<>> /\ o \notin saving /\ c.op \in {"commit", "release"} /\ Holds(reservations, o)
          /\ SetBalance(o, r.token, a, b.reserved - r.amount)
          /\ todo' = todo /\ reservations' = reservations /\ next' = next /\ st' = st /\ done' = done
          /\ chain' = chain
      BY <1>3 DEF Settle, Calling
    <2>2. r.token \in Tokens /\ r.amount \in Int
      BY <2>1 DEF Holds, ReservationsOK, Reservation
    <2>3. b.available \in Int /\ b.reserved \in Int /\ a \in Int
      BY <2>2, BalanceOfOK
    <2>4. o \in saving'
      BY <2>1 DEF SetBalance
    <2> HIDE DEF a
    <2>5. Total(t)' = IF t = r.token THEN a + (b.reserved - r.amount) ELSE Total(t)
      BY <2>1, <2>2, <2>3, TotalSet
    <2>6. Total(t)' = Total(t) + Effect(o, c, t)
      <3>1. CASE t # r.token
        <4>1. Effect(o, c, t) = 0
          BY <2>1, <3>1 DEF Effect
        <4> QED
          BY <2>5, <3>1, <4>1, TotalInt
      <3>2. CASE t = r.token /\ c.op = "commit"
        <4>1. Effect(o, c, t) = 0 - r.amount
          BY <3>2 DEF Effect
        <4> QED
          BY <2>2, <2>3, <2>5, <3>2, <4>1 DEF Total, a
      <3>3. CASE t = r.token /\ c.op = "release"
        <4>1. Effect(o, c, t) = 0
          BY <3>3 DEF Effect
        <4> QED
          BY <2>2, <2>3, <2>5, <3>3, <4>1 DEF Total, a
      <3> QED
        BY <2>1, <3>1, <3>2, <3>3
    <2> QED
      BY <2>1, <2>4, <2>6, EvenApplied
  <1>4. ASSUME ReserveAgain(o) \/ ReserveRefused(o) \/ ReadBalance(o) PROVE Even(o, t)
    <2>1. /\ todo[o] # <<>> /\ o \notin saving /\ Head(todo[o]).op \in {"reserve", "reconcile"}
          /\ todo'[o] = Tail(todo[o]) /\ balances' = balances /\ chain' = chain
          /\ saving' = saving /\ reservations' = reservations
      BY <1>4, ReturnsAlone DEF ReserveAgain, ReserveRefused, ReadBalance, Calling
    <2>2. Pending(o, t)' = Pending(o, t)
      BY <2>1, Returned
    <2>3. ASSUME ReserveAgain(o) \/ ReadBalance(o) PROVE Untold(o, t)' = Untold(o, t)
      <3>1. next[o] # "none" /\ next'[o] # "none"
        BY <2>1, <2>3 DEF ReserveAgain, ReadBalance, NextOK, Fit, TodoFits
      <3> QED
        BY <3>1, UntoldKept
    <2>4. ASSUME ReserveRefused(o) PROVE Untold(o, t)' = Untold(o, t)
      <3>1. next[o] = "filling" /\ st'[o] = st[o] /\ st[o] \in {"confirmed", "payout_failed"}
        BY <2>1, <2>4 DEF ReserveRefused, Calling, Fit, TodoFits, NextFits
      <3> QED
        BY <3>1 DEF Untold
    <2>5. Untold(o, t)' = Untold(o, t)
      BY <1>4, <2>3, <2>4
    <2> QED
      BY <2>1, <2>2, <2>5, EvenStill
  <1>5. ~Reconcile(o)
    BY Values DEF Reconcile, ForkQuiet
  <1> QED
    BY <1>1, <1>2, <1>3, <1>4, <1>5 DEF LedgerCall

\* A save executed on a fork.
LEMMA SavedEven ==
    ASSUME Typed, LineOK, CallerOK, NEW o \in Orders, Fit(o), NEW t \in Tokens, Saved, Head(line).by = o
    PROVE  Even(o, t)
  <1> TodoOK /\ ReservationsOK /\ NextOK
    BY DEF Typed
  <1> USE DEF vars, chainVars, memoryVars, storeVars, handlerVars, processVars
  <1>1. /\ todo[o] # <<>> /\ o \in saving /\ o \notin Syncs /\ next[o] # "none"
        /\ balances' = balances /\ chain' = chain /\ next' = next
    <2>1. todo[o] # <<>> /\ o \in saving /\ o \notin Syncs
      BY HeadFits DEF Saved, BalanceSaved, ReservationSaved
    <2> QED
      BY <2>1 DEF Saved, BalanceSaved, ReservationSaved, Fit, TodoFits
  <1>2. CASE todo'[o] = Tail(todo[o]) /\ saving' = saving \ {o} /\ reservations' = reservations
    <2>1. Pending(o, t)' = Pending(o, t)
      BY <1>1, <1>2, Returned
    <2> QED
      BY <1>1, <2>1, UntoldKept, EvenStill
  <1>3. CASE todo' = todo /\ saving' = saving
    <2>1. Pending(o, t)' = Pending(o, t)
      BY <1>1, <1>3, HalfSaved
    <2> QED
      BY <1>1, <2>1, UntoldKept, EvenStill
  <1>4. CASE ReservationSaved
    <2>1. todo'[o] = Tail(todo[o]) /\ saving' = saving \ {o} /\ reservations' = reservations
      BY <1>4, ReturnsAlone DEF ReservationSaved
    <2> QED
      BY <1>2, <2>1
  <1>5. CASE BalanceSaved
    <2>1. CASE TwoSaves(o)
      <3>1. todo' = todo /\ saving' = saving
        BY <1>5, <2>1 DEF BalanceSaved
      <3> QED
        BY <1>3, <3>1
    <2>2. CASE ~TwoSaves(o)
      <3>1. todo'[o] = Tail(todo[o]) /\ saving' = saving \ {o} /\ reservations' = reservations
        BY <1>1, <1>5, <2>2, ReturnsAlone DEF BalanceSaved
      <3> QED
        BY <1>2, <3>1
    <2> QED
      BY <2>1, <2>2
  <1> QED
    BY <1>4, <1>5 DEF Saved

\* ... nor when none will be.
LEMMA BegunNext ==
    ASSUME NEW o \in Orders, todo'[o] = <<>>, NEW t
    PROVE  Pending(o, t)' = 0
  <1>1. \A i \in 1 .. 4 : Nth(o, i, t)' = 0
    BY DEF Nth, Before
  <1> QED
    BY <1>1 DEF Pending

\* What the calls of a handler come to.
LEMMA Effects ==
    ASSUME NEW o \in Orders, NEW u, NEW n, NEW t, reservations' = reservations
    PROVE  /\ Effect(o, Call("credit", u, n), t)' = At(t, u, n)
           /\ Effect(o, Call("debit", u, n), t)' = IF t = u THEN 0 - n ELSE 0
           /\ Effect(o, Call("commit", u, n), t)' =
                  IF t = reservations[o].token THEN 0 - reservations[o].amount ELSE 0
           /\ \A op \in {"reserve", "release", "reconcile"} : Effect(o, Call(op, u, n), t)' = 0
  BY DEF Effect, Call, At

\* What an order that holds a reservation holds, when its handler starts.
LEMMA HeldInFill ==
    ASSUME NEW o \in Orders, Fit(o), Idle(o), st[o] = "filling"
    PROVE  /\ Holds(reservations, o)
           /\ Input(o, reservations[o]) \/ Output(o, reservations[o])
           /\ done[o] \notin {"swapped", "paid"} => Input(o, reservations[o])
           /\ done[o] = "swapped" => Spent[o] # Bought[o]
  BY DEF Idle, Fit, StateFits, KeepFits, Holds, Output

\* A handler that makes its calls: they are to tell what the chain did and
\* the ledger has not been told.
LEMMA HandleEven ==
    ASSUME Typed, CallerOK, NEW o \in Orders, Fit(o), NEW t \in Tokens, NEW q, NEW s, s # "none",
           Handle(o, q, s), todo[o] = <<>>, Pending(o, t)' \in Int, chain'[t] \in Int,
           Pending(o, t)' - chain'[t] = Untold(o, t) - chain[t]
    PROVE  Even(o, t)
  <1>1. balances' = balances /\ next'[o] = s
    BY DEF Handle, memoryVars, Typed, NextOK
  <1>2. Total(t)' = Total(t) /\ Total(t) \in Int /\ chain[t] \in Int
    BY <1>1, TotalKept, TotalInt DEF Typed, ChainOK
  <1>3. Owing(o, t)' = Pending(o, t)'
    BY <1>1 DEF Owing, Untold
  <1>4. Owing(o, t) = Untold(o, t) /\ Untold(o, t) \in Int
    BY Begun, UntoldInt DEF Owing
  <1> QED
    BY <1>2, <1>3, <1>4 DEF Even

\* A handler starts with the calls it makes.
LEMMA Handled ==
    ASSUME Typed, CallerOK, NEW o \in Orders, NEW q, NEW s, Handle(o, q, s), todo[o] = <<>>
    PROVE  todo'[o] = q /\ o \notin saving' /\ reservations' = reservations
  BY DEF Handle, memoryVars, Typed, TodoOK, CallerOK

\* A payout, of a fill that spends what it pays in, that swaps first, or is tried again.
LEMMA PayEven ==
    ASSUME Typed, CallerOK, NEW o \in Orders, Fit(o), NEW t \in Tokens, Pay(o)
    PROVE  Even(o, t)
  <1> DEFINE again == reservations[o].token = Bought[o] /\ Spent[o] # Bought[o]
  <1>0. PICK n : n = IF again THEN Quoted[o] ELSE Amount[o]
    OBVIOUS
  <1> DEFINE a == Call("commit", Spent[o], Amount[o])
             b == Call("credit", Bought[o], n)
             c == Call("debit", Bought[o], Quoted[o])
             d == Call("reconcile", Bought[o], 0)
  <1>1. /\ Idle(o) /\ st[o] = "filling" /\ todo[o] = <<>> /\ next[o] = "none"
        /\ done[o] = IF Spent[o] = Bought[o] THEN "none" ELSE "swapped"
        /\ chain' = [chain EXCEPT ![Bought[o]] = @ - Quoted[o]]
        /\ Handle(o, <<a, b, c, d>>, "ended")
    BY <1>0 DEF Pay, Idle
  <1>2. /\ Input(o, reservations[o]) \/ Output(o, reservations[o])
        /\ done[o] \notin {"swapped", "paid"} => Input(o, reservations[o])
    BY <1>1, HeldInFill
  <1>3. /\ Amount[o] \in Int /\ Quoted[o] \in Int /\ n \in Int
        /\ Spent[o] \in Tokens /\ Bought[o] \in Tokens /\ chain[t] \in Int
    BY <1>0, Values DEF Typed, ChainOK
  <1>4. chain'[t] = IF t = Bought[o] THEN chain[t] - Quoted[o] ELSE chain[t]
    BY <1>1 DEF Typed, ChainOK
  <1>5. Pending(o, t)' = Effect(o, a, t)' + Effect(o, b, t)' + Effect(o, c, t)' + Effect(o, d, t)'
    <2>1. todo'[o] = <<a, b, c, d>> /\ o \notin saving'
      BY <1>1, Handled
    <2> HIDE DEF a, b, c, d
    <2>2. \A w, x, y, z : todo'[o] = <<w, x, y, z>>
             => Pending(o, t)' = Effect(o, w, t)' + Effect(o, x, t)' + Effect(o, y, t)' + Effect(o, z, t)'
      BY <2>1, Starts4
    <2> QED
      BY <2>1, <2>2
  <1>6. /\ Effect(o, a, t)' = IF t = reservations[o].token THEN 0 - reservations[o].amount ELSE 0
        /\ Effect(o, b, t)' = At(t, Bought[o], n)
        /\ Effect(o, c, t)' = IF t = Bought[o] THEN 0 - Quoted[o] ELSE 0
        /\ Effect(o, d, t)' = 0
    BY <1>1, Handled, Effects
  <1> HIDE DEF a, b, c, d
  <1>7. CASE Spent[o] = Bought[o]
    <2>1. Input(o, reservations[o]) /\ n = Amount[o] /\ Untold(o, t) = 0
      BY <1>0, <1>1, <1>2, <1>7 DEF Untold
    <2>2. Pending(o, t)' = IF t = Bought[o] THEN 0 - Quoted[o] ELSE 0
      BY <1>3, <1>5, <1>6, <1>7, <2>1 DEF Input, At
    <2>3. Pending(o, t)' \in Int /\ Pending(o, t)' - chain'[t] = Untold(o, t) - chain[t]
      BY <1>3, <1>4, <2>1, <2>2
    <2>4. chain'[t] \in Int
      BY <1>3, <1>4
    <2> QED
      BY <1>1, <2>3, <2>4, HandleEven
  <1>8. CASE Spent[o] # Bought[o] /\ reservations[o].token = Spent[o]
    <2>1. /\ Input(o, reservations[o]) /\ n = Amount[o]
          /\ Untold(o, t) = At(t, Bought[o], Amount[o]) - At(t, Spent[o], Amount[o])
      BY <1>0, <1>1, <1>2, <1>8 DEF Untold, Output
    <2>2. /\ Pending(o, t)' \in Int
          /\ Pending(o, t)' = Untold(o, t) + IF t = Bought[o] THEN 0 - Quoted[o] ELSE 0
      BY <1>3, <1>5, <1>6, <1>8, <2>1 DEF Input, At
    <2>3. Untold(o, t) \in Int
      BY UntoldInt
    <2>4. chain'[t] \in Int /\ Pending(o, t)' - chain'[t] = Untold(o, t) - chain[t]
      BY <1>3, <1>4, <2>2, <2>3
    <2> QED
      BY <1>1, <2>2, <2>4, HandleEven
  <1>9. CASE Spent[o] # Bought[o] /\ reservations[o].token # Spent[o]
    <2>1. Output(o, reservations[o]) /\ n = Quoted[o] /\ Untold(o, t) = 0
      BY <1>0, <1>1, <1>2, <1>9 DEF Untold, Output, Input
    <2>2. Pending(o, t)' = IF t = Bought[o] THEN 0 - Quoted[o] ELSE 0
      BY <1>3, <1>5, <1>6, <1>9, <2>1 DEF Output, At
    <2>3. Pending(o, t)' \in Int /\ Pending(o, t)' - chain'[t] = Untold(o, t) - chain[t]
      BY <1>3, <1>4, <2>1, <2>2
    <2>4. chain'[t] \in Int
      BY <1>3, <1>4
    <2> QED
      BY <1>1, <2>3, <2>4, HandleEven
  <1> QED
    BY <1>7, <1>8, <1>9

\* A handler, or a user's payment, on a fork.
LEMMA HandlerEven ==
    ASSUME Typed, CallerOK, ForkQuiet, ~live, NEW o \in Orders, Fit(o), Fit(o)', NEW t \in Tokens,
           Handler(o) \/ UserPays(o)
    PROVE  Even(o, t)
  <1> TodoOK /\ NextOK /\ StateOK /\ ChainOK
    BY DEF Typed
  <1>0. /\ Deposited[o] \in Tokens /\ Spent[o] \in Tokens /\ Bought[o] \in Tokens
        /\ Amount[o] \in Int /\ Quoted[o] \in Int /\ chain[t] \in Int
    BY Values DEF ChainOK
  <1> USE DEF vars, chainVars, memoryVars, storeVars, handlerVars, processVars
  \* Handlers that move nothing, on chain or in the ledger.
  <1>1. ASSUME NEW q, NEW s, s # "none", Handle(o, q, s), todo[o] = <<>>, chain' = chain,
               \/ q = <<>>
               \/ \E op \in {"reserve", "release"} : \E u, n : q = <<Call(op, u, n)>>,
               Untold(o, t) = 0
        PROVE  Even(o, t)
    <2>1. todo'[o] = q /\ o \notin saving' /\ reservations' = reservations
      BY <1>1, Handled
    <2>2. Pending(o, t)' = 0
      <3>1. CASE q = <<>>
        BY <2>1, <3>1, BegunNext
      <3>2. CASE \E op \in {"reserve", "release"} : \E u, n : q = <<Call(op, u, n)>>
        <4>1. PICK op \in {"reserve", "release"} : \E u, n : q = <<Call(op, u, n)>>
          BY <3>2
        <4>2. PICK u, n : q = <<Call(op, u, n)>>
          BY <4>1
        <4>3. Effect(o, Call(op, u, n), t)' = 0
          BY <2>1, Effects
        <4> QED
          BY <2>1, <4>2, <4>3, Starts1
      <3> QED
        BY <1>1, <3>1, <3>2
    <2> QED
      BY <1>0, <1>1, <2>2, HandleEven
  <1>2. ASSUME TakeDeposit(o) PROVE Even(o, t)
    <2> DEFINE c == Call("credit", Deposited[o], Amount[o])
    <2>1. PICK s \in {"confirmed", "expired"} : Handle(o, <<c>>, s)
      BY <1>2 DEF TakeDeposit
    <2>2. st[o] = "awaiting" /\ todo[o] = <<>> /\ next[o] = "none" /\ chain' = chain
      BY <1>2 DEF TakeDeposit, Idle
    <2>3. todo'[o] = <<c>> /\ o \notin saving' /\ reservations' = reservations
      BY <2>1, <2>2, Handled
    <2>4. Effect(o, c, t)' = At(t, Deposited[o], Amount[o]) /\ At(t, Deposited[o], Amount[o]) \in Int
      BY <1>0, <2>3, Effects DEF At
    <2> HIDE DEF c
    <2>5. Pending(o, t)' = At(t, Deposited[o], Amount[o])
      BY <2>3, <2>4, Starts1
    <2>6. Untold(o, t) = At(t, Deposited[o], Amount[o])
      BY <2>2 DEF Untold
    <2> QED
      BY <1>0, <2>1, <2>2, <2>4, <2>5, <2>6, HandleEven
  <1>3. ASSUME StartFill(o) PROVE Even(o, t)
    <2>1. Untold(o, t) = 0 /\ todo[o] = <<>> /\ chain' = chain
      BY <1>3 DEF StartFill, Idle, Untold
    <2>2. \E u, n : Handle(o, <<Call("reserve", u, n)>>, "filling")
      BY <1>3 DEF StartFill
    <2> QED
      BY <1>1, <2>1, <2>2
  <1>4. ASSUME RefuseFill(o) PROVE Even(o, t)
    <2>1. Idle(o) /\ st[o] = "filling" /\ (done[o] = "swapped" => reservations[o].token = Bought[o])
      BY <1>4 DEF RefuseFill
    <2>2. done[o] = "swapped" => Spent[o] # Bought[o]
      BY <2>1, HeldInFill
    <2>3. Untold(o, t) = 0 /\ todo[o] = <<>> /\ chain' = chain
      BY <1>4, <2>1, <2>2 DEF RefuseFill, Idle, Untold
    <2>4. Handle(o, <<Call("release", Spent[o], Amount[o])>>, "ended")
      BY <1>4 DEF RefuseFill
    <2> QED
      BY <1>1, <2>3, <2>4
  <1>5. ASSUME Swap(o) PROVE Even(o, t)
    <2>1. /\ Idle(o) /\ st[o] = "filling" /\ done[o] = "none" /\ Spent[o] # Bought[o]
          /\ chain' = [chain EXCEPT ![Spent[o]] = @ - Amount[o], ![Bought[o]] = @ + Amount[o]]
          /\ done'[o] = "swapped" /\ st' = st /\ reservations' = reservations /\ balances' = balances
          /\ todo' = todo /\ next' = next /\ todo[o] = <<>> /\ next[o] = "none"
      BY <1>5 DEF Swap, Idle, ChainOK
    <2>2. reservations[o].token = Spent[o]
      BY <2>1, HeldInFill DEF Input
    <2>3. Untold(o, t) = 0
      BY <2>1 DEF Untold
    <2>4. Untold(o, t)' = At(t, Bought[o], Amount[o]) - At(t, Spent[o], Amount[o])
      BY <2>1, <2>2 DEF Untold
    <2>5. chain'[t] = IF t = Spent[o] THEN chain[t] - Amount[o]
                      ELSE IF t = Bought[o] THEN chain[t] + Amount[o] ELSE chain[t]
      BY <1>0, <2>1 DEF ChainOK
    <2>6. Owing(o, t) = 0 /\ Owing(o, t)' = Untold(o, t)'
      <3>1. Pending(o, t) = 0 /\ Pending(o, t)' = 0
        BY <2>1, Begun, BegunNext
      <3>2. Untold(o, t)' \in Int
        BY UntoldIntNext
      <3> QED
        BY <2>3, <3>1, <3>2 DEF Owing
    <2>7. Total(t)' = Total(t) /\ Total(t) \in Int
      BY <2>1, TotalKept, TotalInt DEF Typed
    <2> QED
      BY <1>0, <2>1, <2>4, <2>5, <2>6, <2>7 DEF Even, At
  <1>6. ASSUME PayoutFails(o) PROVE Even(o, t)
    <2> DEFINE c == Call("commit", Spent[o], Amount[o])
               d == Call("credit", Bought[o], Amount[o])
    <2>1. PICK s \in {"payout_failed", "ended"} : Handle(o, <<c, d>>, s)
      BY <1>6 DEF PayoutFails
    <2>2. /\ Idle(o) /\ st[o] = "filling" /\ done[o] = "swapped" /\ reservations[o].token = Spent[o]
          /\ todo[o] = <<>> /\ next[o] = "none" /\ chain' = chain
      BY <1>6 DEF PayoutFails, Idle
    <2>3. todo'[o] = <<c, d>> /\ o \notin saving' /\ reservations' = reservations
      BY <2>1, <2>2, Handled
    <2>4. Input(o, reservations[o])
      BY <2>2, HeldInFill DEF Output
    <2>5. /\ Effect(o, c, t)' = IF t = Spent[o] THEN 0 - Amount[o] ELSE 0
          /\ Effect(o, d, t)' = At(t, Bought[o], Amount[o])
      BY <2>2, <2>3, <2>4, Effects DEF Input
    <2> HIDE DEF c, d
    <2>6. Effect(o, c, t)' \in Int /\ Effect(o, d, t)' \in Int
      BY <1>0, <2>5 DEF At
    <2>7. Pending(o, t)' = Effect(o, c, t)' + Effect(o, d, t)'
      BY <2>3, <2>6, Starts2
    <2>8. Untold(o, t) = At(t, Bought[o], Amount[o]) - At(t, Spent[o], Amount[o])
      BY <2>2 DEF Untold
    <2>9. Pending(o, t)' = Untold(o, t) /\ Untold(o, t) \in Int
      BY <1>0, <2>5, <2>7, <2>8 DEF At
    <2> QED
      BY <1>0, <2>1, <2>2, <2>9, HandleEven
  <1>7. ASSUME StartRefund(o) \/ RefundGivenUp(o) PROVE Even(o, t)
    <2>1. Untold(o, t) = 0 /\ todo[o] = <<>> /\ chain' = chain
      BY <1>7 DEF StartRefund, RefundGivenUp, Idle, Untold
    <2>2. Handle(o, <<>>, "refunding") \/ Handle(o, <<>>, "ended")
      BY <1>7 DEF StartRefund, RefundGivenUp
    <2> QED
      BY <1>1, <2>1, <2>2
  <1>8. ASSUME Refund(o) PROVE Even(o, t)
    <2> DEFINE c == Call("debit", Deposited[o], Amount[o])
    <2>1. /\ Handle(o, <<c>>, "ended") /\ st[o] = "refunding" /\ todo[o] = <<>>
          /\ chain' = [chain EXCEPT ![Deposited[o]] = @ - Amount[o]]
      BY <1>8 DEF Refund, Idle
    <2>2. todo'[o] = <<c>> /\ o \notin saving' /\ reservations' = reservations
      BY <2>1, Handled
    <2>3. Effect(o, c, t)' = IF t = Deposited[o] THEN 0 - Amount[o] ELSE 0
      BY <2>2, Effects
    <2> HIDE DEF c
    <2>4. Effect(o, c, t)' \in Int
      BY <1>0, <2>3
    <2>5. Pending(o, t)' = Effect(o, c, t)'
      BY <2>2, <2>4, Starts1
    <2>6. Untold(o, t) = 0
      BY <2>1 DEF Untold
    <2>7. chain'[t] = IF t = Deposited[o] THEN chain[t] - Amount[o] ELSE chain[t]
      BY <2>1 DEF ChainOK
    <2>8. chain'[t] \in Int /\ Pending(o, t)' - chain'[t] = Untold(o, t) - chain[t]
      BY <1>0, <2>3, <2>5, <2>6, <2>7
    <2> QED
      BY <2>1, <2>4, <2>5, <2>8, HandleEven
  <1>9. ASSUME Advance(o) PROVE Even(o, t)
    <2>1. /\ todo[o] = <<>> /\ todo' = todo /\ next[o] # "none" /\ next'[o] = "none" /\ st'[o] = next[o]
          /\ done' = done /\ reservations' = reservations /\ balances' = balances /\ chain' = chain
      BY <1>9 DEF Advance, NextOK, StateOK
    <2>2. next[o] # "awaiting"
      BY DEF Fit, NextFits
    <2>3. next[o] = "filling" /\ done[o] = "swapped" => reservations[o].token # Spent[o]
      <3>1. SUFFICES ASSUME next[o] = "filling", done[o] = "swapped" PROVE reservations[o].token # Spent[o]
        OBVIOUS
      <3>2. Holds(reservations, o) /\ st[o] = "payout_failed"
        BY <2>1, <3>1 DEF Fit, NextFits, StateFits
      <3> QED
        BY <3>2 DEF Fit, StateFits, Output
    <2>4. Untold(o, t) = 0 /\ Untold(o, t)' = 0
      BY <2>1, <2>2, <2>3 DEF Untold
    <2>5. Pending(o, t) = 0 /\ Pending(o, t)' = 0
      BY <2>1, Begun, BegunNext
    <2> QED
      BY <2>1, <2>4, <2>5, EvenStill
  <1>10. ASSUME UserPays(o) PROVE Even(o, t)
    <2>1. /\ st[o] = "unpaid" /\ todo' = todo /\ next' = next /\ balances' = balances
      BY <1>10 DEF UserPays
    <2>2. next[o] = "none" /\ todo[o] = <<>>
      BY <2>1 DEF Fit, NextFits, TodoFits
    <2>3. Pending(o, t) = 0 /\ Pending(o, t)' = 0 /\ Untold(o, t) = 0
      BY <2>1, <2>2, Begun, BegunNext DEF Untold
    <2>4. CASE o \in Abroad
      <3>1. st'[o] = "confirmed" /\ chain' = chain
        BY <1>10, <2>4 DEF UserPays, StateOK
      <3>2. Untold(o, t)' = 0
        BY <2>1, <3>1 DEF Untold
      <3> QED
        BY <2>1, <2>3, <3>1, <3>2, EvenStill
    <2>5. CASE o \notin Abroad
      <3>1. st'[o] = "awaiting" /\ chain' = [chain EXCEPT ![Deposited[o]] = @ + Amount[o]]
        BY <1>10, <2>5 DEF UserPays, StateOK
      <3>2. Untold(o, t)' = At(t, Deposited[o], Amount[o])
        BY <2>1, <2>2, <3>1 DEF Untold
      <3>3. chain'[t] = chain[t] + At(t, Deposited[o], Amount[o])
        BY <1>0, <3>1 DEF ChainOK, At
      <3>4. Total(t)' = Total(t) /\ Total(t) \in Int
        BY <2>1, TotalKept, TotalInt DEF Typed
      <3>5. Owing(o, t) = 0 /\ Owing(o, t)' = At(t, Deposited[o], Amount[o]) /\ Owing(o, t)' \in Int
        BY <1>0, <2>3, <3>2 DEF Owing, At
      <3> QED
        BY <1>0, <3>3, <3>4, <3>5 DEF Even
    <2> QED
      BY <2>4, <2>5
  <1>11. ~Recover(o)
    BY DEF Recover, ForkQuiet
  <1> QED
    BY <1>2, <1>3, <1>4, <1>5, <1>6, <1>7, <1>8, <1>9, <1>10, <1>11, PayEven DEF Handler

\* A fork stays one, and nobody reads balances on it.
LEMMA ForkQuietStep ==
    ASSUME Typed, LineOK, CallerOK, ForkQuiet, [Next]_vars
    PROVE  ForkQuiet' /\ live' = live
  <1> USE DEF vars, chainVars, memoryVars, storeVars, handlerVars, processVars
  <1>1. ASSUME NEW o \in Orders, LedgerCall(o) \/ AdvanceFails(o) \/ UserPays(o) PROVE live' = live
    BY <1>1 DEF LedgerCall, CreditOrDebit, Reserve, ReserveAgain, ReserveRefused, Settle,
       ReadBalance, Reconcile,
       AdvanceFails, UserPays
  <1>2. ASSUME NEW o \in Orders, Handler(o) PROVE live' = live
    BY <1>2 DEF Handler, TakeDeposit, StartFill, RefuseFill, Swap, Pay, PayoutFails,
       StartRefund, Refund,
       RefundGivenUp, Advance, Recover
  <1>3. ASSUME NEW s \in Syncs, SyncStep(s) PROVE live' = live
    BY <1>3 DEF SyncStep, SyncBegins, SyncReads, Reconcile
  <1>4. Saved \/ SaveFails \/ Crash \/ TakeOver \/ Quiescent => live' = live
    BY DEF Saved, BalanceSaved, ReservationSaved, SaveFails, Crash, TakeOver, Quiescent
  <1>5. live' = live
    BY <1>1, <1>2, <1>3, <1>4 DEF Next
  <1>6. SUFFICES ASSUME ~live PROVE ForkQuiet'
    BY <1>5 DEF ForkQuiet
  <1>7. /\ read = [c \in Callers |-> None]
        /\ \A c \in Callers : read[c] = None /\ ~Reconcile(c)
        /\ up /\ recovering = {} /\ stuck \subseteq torn /\ \A s \in Syncs : left[s] = {}
    BY <1>6 DEF ForkQuiet, Reconcile
  <1>8. CASE read' = read /\ up' = up /\ recovering' = {} /\ stuck' \subseteq torn' /\ left' = left
    BY <1>7, <1>8 DEF ForkQuiet
  <1>9. ASSUME NEW o \in Orders, LedgerCall(o) \/ UserPays(o) PROVE ForkQuiet'
    BY <1>6, <1>7, <1>8, <1>9, Values DEF LedgerCall, CreditOrDebit, Reserve, ReserveAgain,
       ReserveRefused, Settle, ReadBalance,
       UserPays
  <1>10. ASSUME NEW o \in Orders, Handler(o) PROVE ForkQuiet'
    BY <1>7, <1>8, <1>10 DEF Handler, TakeDeposit, StartFill, RefuseFill, Swap, Pay,
       PayoutFails, StartRefund, Refund,
       RefundGivenUp, Advance, Recover, Handle
  <1>11. ASSUME NEW o \in Orders, AdvanceFails(o) PROVE ForkQuiet'
    BY <1>7, <1>8, <1>11 DEF AdvanceFails, Throws
  <1>12. ASSUME NEW s \in Syncs, SyncStep(s) PROVE ForkQuiet'
    BY <1>6, <1>7, <1>12, Values DEF SyncStep, SyncBegins, SyncReads
  <1>13. ASSUME SaveFails PROVE ForkQuiet'
    <2>1. /\ read' = read /\ up' = up /\ recovering' = recovering
      BY <1>13 DEF SaveFails
    <2>2. stuck' \subseteq torn'
      BY <1>7, <1>13 DEF SaveFails, Throws
    <2>3. \A s \in Syncs : left'[s] = {}
      BY <1>7, <1>13 DEF SaveFails, Typed, LeftOK
    <2> QED
      BY <1>7, <2>1, <2>2, <2>3 DEF ForkQuiet
  <1>14. Saved \/ Quiescent \/ UNCHANGED vars => ForkQuiet'
    BY <1>7, <1>8 DEF Saved, BalanceSaved, ReservationSaved, Quiescent
  <1>15. ~Crash /\ ~TakeOver
    BY <1>6, <1>7 DEF Crash, TakeOver
  <1> QED
    BY <1>9, <1>10, <1>11, <1>12, <1>13, <1>14, <1>15 DEF Next

\* torn only grows, but for a crash.
LEMMA TornGrows ==
    ASSUME [Next]_vars
    PROVE  Crash \/ torn \subseteq torn'
  BY Steps DEF Quiet, CreditOrDebit, Reserve, Settle, Reconcile, BalanceSaved,
     ReservationSaved, SaveFails, TakeOver,
     handlerVars

\* One order acts, and the ledger, the chain and what it is owed stay even.
LEMMA CountsMoved ==
    ASSUME Typed, Stage, ForkCounts, ~live, torn = {}, NEW x \in Orders,
           \A t \in Tokens : Even(x, t), \A t \in Tokens : Total(t)' \in Int /\ chain'[t] \in Int,
           \A o \in Orders \ {x} : Same(o)
    PROVE  ForkCounts'
  <1>1. SUFFICES ASSUME NEW t \in Tokens
                 PROVE  Total(t)' + SumFunction([o \in Orders |-> Owing(o, t)']) = chain'[t] - Unseen(t)
    BY DEF ForkCounts, Unseen
  <1> DEFINE f == [o \in Orders |-> Owing(o, t)]
             e == [o \in Orders |-> Owing(o, t)']
  <1>2. /\ f \in [Orders -> Int] /\ e \in [Orders -> Int]
        /\ \A o \in Orders \ {x} : e[o] = f[o]
    <2>1. \A o \in Orders : Owing(o, t) \in Int
      BY OwingInt DEF Stage
    <2>2. \A o \in Orders \ {x} : Owing(o, t)' = Owing(o, t)
      BY OwingKept
    <2>3. Owing(x, t)' \in Int
      BY DEF Even
    <2> QED
      BY <2>1, <2>2, <2>3
  <1>3. f[x] = Owing(x, t) /\ e[x] = Owing(x, t)'
    OBVIOUS
  <1>4. Total(t) + SumFunction(f) = chain[t] - Unseen(t)
    BY DEF ForkCounts
  <1> HIDE DEF f, e
  <1>5. /\ SumFunction(f) \in Int /\ SumFunction(e) \in Int
        /\ SumFunction(e) = SumFunction(f) - f[x] + e[x]
    <2>1. IsFiniteSet(Orders)
      BY LedgerAssumption
    <2>2. \A x0 \in Orders : (\A o \in Orders \ {x0} : e[o] = f[o]) =>
             /\ SumFunction(f) \in Int /\ SumFunction(e) \in Int
             /\ SumFunction(e) = SumFunction(f) - f[x0] + e[x0]
      BY <1>2, <2>1, SumChange
    <2> QED
      BY <1>2, <2>2
  <1>6. Total(t)' + e[x] - chain'[t] = Total(t) + f[x] - chain[t]
    BY <1>3 DEF Even
  <1>7. /\ Total(t) \in Int /\ chain[t] \in Int /\ Unseen(t) \in Int /\ f[x] \in Int /\ e[x] \in Int
        /\ Total(t)' \in Int /\ chain'[t] \in Int
    BY <1>2, TotalInt, Values DEF Typed, ChainOK, Unseen
  <1>8. Total(t)' + SumFunction(e) = chain'[t] - Unseen(t)
    BY <1>4, <1>5, <1>6, <1>7
  <1> QED
    BY <1>8 DEF e

\* Every step on a fork keeps the count.
LEMMA ForkCountsStep ==
    ASSUME Typed, Typed', LineOK, CallerOK, Stage, Stage', ForkQuiet, ForkCounts, [Next]_vars
    PROVE  ForkCounts'
  <1>1. SUFFICES ASSUME ~live', torn' = {} PROVE ForkCounts'
    BY DEF ForkCounts
  <1>2. ~live /\ up
    BY <1>1, ForkQuietStep DEF ForkQuiet
  <1>3. ~Crash /\ ~TakeOver
    BY <1>2 DEF Crash, TakeOver
  <1>4. torn = {}
    BY <1>1, <1>3, TornGrows
  <1>5. ASSUME \A o \in Orders : Same(o), chain' = chain, balances' = balances PROVE ForkCounts'
    <2>1. SUFFICES ASSUME NEW t \in Tokens
                   PROVE  Total(t)' + SumFunction([o \in Orders |-> Owing(o, t)']) = chain'[t] - Unseen(t)
      BY DEF ForkCounts, Unseen
    <2>2. [o \in Orders |-> Owing(o, t)'] = [o \in Orders |-> Owing(o, t)]
      BY <1>5, OwingKept
    <2>3. Total(t)' = Total(t)
      BY <1>5, TotalKept
    <2>4. Total(t) + SumFunction([o \in Orders |-> Owing(o, t)]) = chain[t] - Unseen(t)
      BY <1>2, <1>4 DEF ForkCounts
    <2> QED
      BY <1>5, <2>2, <2>3, <2>4
  <1>6. \A s \in Syncs : ~Reconcile(s)
    BY <1>2, Values DEF ForkQuiet, Reconcile
  <1>7. ASSUME NEW x \in Orders, \A o \in Orders \ {x} : Same(o),
               \/ LedgerCall(x) \/ Handler(x) \/ UserPays(x)
               \/ Saved /\ Head(line).by = x
        PROVE  ForkCounts'
    <2>1. Fit(x) /\ Fit(x)'
      BY DEF Stage
    <2>2. \A t \in Tokens : Even(x, t)
      BY <1>2, <1>7, <2>1, CallEven, SavedEven, HandlerEven
    <2>3. \A t \in Tokens : Total(t)' \in Int /\ chain'[t] \in Int
      <3>1. \A t \in Tokens : BalanceOf(t)' \in Balance
        BY Values DEF Typed, BalancesOK, BalanceOf, Balance, Empty
      <3> QED
        BY <3>1 DEF Typed, ChainOK, Total, Balance
    <2> QED
      BY <1>2, <1>4, <1>7, <2>2, <2>3, CountsMoved
  <1>8. \A o \in Orders : ~AdvanceFails(o) /\ ~(SaveFails /\ Head(line).by = o)
    <2>1. \A o \in Orders : ~AdvanceFails(o)
      BY <1>1 DEF AdvanceFails
    <2>2. \A o \in Orders : ~(SaveFails /\ Head(line).by = o)
      BY <1>1, LedgerAssumption DEF SaveFails
    <2> QED
      BY <2>1, <2>2
  <1> QED
    BY <1>3, <1>5, <1>6, <1>7, <1>8, Others

\* The count holds at the start, and always.
LEMMA ForkInit == Init => ForkQuiet /\ ForkCounts
  <1> SUFFICES ASSUME Init PROVE ForkQuiet /\ ForkCounts
    OBVIOUS
  <1>1. ForkQuiet
    BY DEF Init, ForkQuiet
  <1>2. ASSUME NEW t \in Tokens
        PROVE  Total(t) + SumFunction([o \in Orders |-> Owing(o, t)]) = chain[t] - Unseen(t)
    <2> DEFINE f == [o \in Orders |-> Owing(o, t)]
    <2>1. \A o \in Orders : Owing(o, t) = 0
      <3>1. ASSUME NEW o \in Orders PROVE Owing(o, t) = 0
        <4>1. Pending(o, t) = 0
          BY Begun DEF Init
        <4>2. Untold(o, t) = 0
          BY DEF Init, Untold
        <4> QED
          BY <4>1, <4>2 DEF Owing
      <3> QED
        BY <3>1
    <2>2. f \in [Orders -> Int] /\ \A o \in Orders : f[o] = 0
      BY <2>1
    <2> HIDE DEF f
    <2>3. SumFunction(f) = 0
      BY <2>2, LedgerAssumption, SumZero
    <2>4. BalanceOf(t) = IF t \in Asked THEN [available |-> Opening[t], reserved |-> 0] ELSE Empty
      <3>1. [available |-> Opening[t], reserved |-> 0] # None
        BY Values DEF Balance
      <3> QED
        BY <3>1 DEF Init, BalanceOf
    <2>5. Total(t) = IF t \in Asked THEN Opening[t] ELSE 0
      BY <2>4, Values DEF Total, Empty
    <2>6. Opening[t] \in Int /\ chain[t] = Opening[t]
      BY Values DEF Init
    <2> QED
      BY <2>3, <2>5, <2>6 DEF f, Unseen
  <1> QED
    BY <1>1, <1>2 DEF ForkCounts

LEMMA ForkHolds == Spec => [](ForkQuiet /\ ForkCounts)
  <1>1. Kept /\ Kept' /\ Stage /\ Stage' /\ (ForkQuiet /\ ForkCounts) /\ [Next]_vars => (ForkQuiet /\ ForkCounts)'
    BY ForkQuietStep, ForkCountsStep DEF Kept
  <1> QED
    BY <1>1, ForkInit, KeptHolds, StageHolds, PTL DEF Spec

\* On a fork, where nothing is compared with the chain, available and reserved
\* together are what the account holds whenever no deposit or fill is being written
\* down (executor.ts:317), for any number of orders, swapped or not, retried or refunded.
THEOREM ForkAgreement == Spec => []ForkAgrees
  <1>1. Kept /\ Stage /\ ForkCounts => ForkAgrees
    <2>1. SUFFICES ASSUME Kept, Stage, ForkCounts, ~live, torn = {}, \A o \in Orders : WrittenDown(o), NEW t \in Tokens
                   PROVE  BalanceOf(t).available + BalanceOf(t).reserved = chain[t] - Unseen(t)
      BY DEF ForkAgrees
    <2> DEFINE f == [o \in Orders |-> Owing(o, t)]
    <2>2. ASSUME NEW o \in Orders PROVE Owing(o, t) = 0
      <3>1. Pending(o, t) = 0
        BY <2>1, Begun DEF WrittenDown
      <3>2. Untold(o, t) = 0
        BY <2>1 DEF WrittenDown, Untold, Stage, Fit, StateFits
      <3> QED
        BY <3>1, <3>2 DEF Owing
    <2>3. f \in [Orders -> Int] /\ \A o \in Orders : f[o] = 0
      BY <2>2
    <2>4. Total(t) + SumFunction(f) = chain[t] - Unseen(t)
      BY <2>1 DEF ForkCounts
    <2> HIDE DEF f
    <2>5. SumFunction(f) = 0
      BY <2>3, LedgerAssumption, SumZero
    <2> QED
      <3>1. Total(t) \in Int
        BY <2>1, TotalInt DEF Kept, Typed
      <3> QED
        BY <2>4, <2>5, <3>1 DEF Total
  <1> QED
    BY <1>1, KeptHolds, StageHolds, ForkHolds, PTL

===============================================================================
