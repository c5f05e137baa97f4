--------------------------- MODULE DepositsProofs ---------------------------
(***************************************************************************)
(* For any orders, requests, transfers and bounds: a transfer is the       *)
(* deposit of one order, and a stray goes back once.                       *)
(*                                                                         *)
(* A record on its way to Redis counts as much as one that has arrived,    *)
(* because it will overwrite what the map says: an order holds a transfer  *)
(* (Holds) when either names it.  What is held is claimed (Marked), and by *)
(* one order (Single); a claim takes what was not claimed, and every other *)
(* save repeats a deposit its order holds already.                         *)
(*                                                                         *)
(* Where accepts of one order do not overlap, what its user was told is    *)
(* what its record wants (Agreed); where, besides, the saves of an accept  *)
(* are prompt, what the sweeper judges nobody's is too old for an order    *)
(* that opens later to wait for (Timely).                                  *)
(***************************************************************************)
EXTENDS Deposits, FiniteSetTheorems, FunctionTheorems, WellFoundedInduction, TLAPS

Saves == [by : Orders \cup Requests, order : Orders, rec : Records]

Accepts == [at : Accepting, order : Orders \cup {NoOrder}, from : Nat, want : Nat]

Jobs == [at : Working, seen : SUBSET Transfers]

In(s) == {s[i] : i \in 1 .. Len(s)}

Holds(o, t) == order[o].dep = t \/ \E w \in In(line) : w.order = o /\ w.rec.dep = t

Marked == \A o \in Orders, t \in Transfers : Holds(o, t) => t \in claimed

Single == \A o, p \in Orders, t \in Transfers : Holds(o, t) /\ Holds(p, t) => o = p

\* A request that is being answered is about an order.
Busy == \A r \in Requests : req[r].at # "none" => req[r].order \in Orders

Inv == TypeOK /\ Busy /\ Marked /\ Single

\* TypeOK by the groups of variables the actions leave alone.
ChainOK == head \in Nat /\ paid \in [Transfers -> [block : Nat, amount : Nat]] /\ overdue \in [Orders -> Nat]
OrderOK == order \in [Orders -> Records]
QuoteOK == quote \in [Orders -> {"open", "accepted", "expired"}]
LineOK == line \in Seq(Saves)
ReqOK == req \in [Requests -> Accepts] /\ Busy
ToldOK == told \in [Orders -> SUBSET Nat]
JobOK == job \in [Orders -> Jobs]
ClaimedOK == claimed \subseteq Transfers
StraysOK == strays \in [Transfers -> [status : Statuses, attempts : Nat]]
SweepOK == sweep \in [at : Sweeping, todo : SUBSET Transfers, till : Int] /\ sweptTo \in Int /\ savedTo \in Int
HistoryOK == returned \in [Transfers -> Nat] /\ unheard \in [Transfers -> Nat]
CountOK == crashes \in Nat /\ faults \in Nat

-----------------------------------------------------------------------------
(* Helpers.                                                                *)

\* What Append, Head and Tail do to the records on their way.
LEMMA Line ==
    ASSUME NEW s \in Seq(Saves), NEW w \in Saves
    PROVE  /\ Append(s, w) \in Seq(Saves) /\ In(Append(s, w)) = In(s) \cup {w}
           /\ s # <<>> => /\ Tail(s) \in Seq(Saves) /\ In(Tail(s)) \subseteq In(s)
                          /\ Head(s) \in Saves /\ Head(s) \in In(s)
  <1>1. Append(s, w) \in Seq(Saves) /\ Len(Append(s, w)) = Len(s) + 1 /\ Len(s) \in Nat
    OBVIOUS
  <1>2. \A i \in 1 .. Len(s) + 1 : Append(s, w)[i] = IF i = Len(s) + 1 THEN w ELSE s[i]
    OBVIOUS
  <1>3. In(Append(s, w)) = In(s) \cup {w}
    BY <1>1, <1>2 DEF In
  <1>4. ASSUME s # <<>>
        PROVE  /\ Tail(s) \in Seq(Saves) /\ In(Tail(s)) \subseteq In(s)
               /\ Head(s) \in Saves /\ Head(s) \in In(s)
    <2>1. Len(s) >= 1 /\ Head(s) = s[1] /\ Head(s) \in Saves
      BY <1>4
    <2>2. /\ Tail(s) \in Seq(Saves) /\ Len(Tail(s)) = Len(s) - 1
          /\ \A i \in 1 .. Len(s) - 1 : Tail(s)[i] = s[i + 1]
      BY <1>4
    <2> QED
      BY <2>1, <2>2, <1>1 DEF In
  <1> QED
    BY <1>1, <1>3, <1>4

\* A set of numbers has a least one.
LEMMA Least ==
    ASSUME NEW N \in SUBSET Nat, N # {}
    PROVE  \E n \in N : \A m \in N : n <= m
  <1>1. PICK n \in N : \A m \in N : ~ (<<m, n>> \in OpToRel(<, Nat))
    BY WFMin, NatLessThanWellFounded
  <1>2. \A m \in N : ~ (m < n)
    BY <1>1 DEF OpToRel
  <1> QED
    BY <1>2

\* The oldest of some transfers is one of them.
LEMMA FirstIsOne ==
    ASSUME TypeOK, NEW S \in SUBSET Transfers, S # {}
    PROVE  First(S) \in S
  <1> DEFINE N == {paid[t].block : t \in S}
  <1>1. N \in SUBSET Nat /\ N # {}
    BY SMTT(30) DEF TypeOK
  <1>2. PICK n \in N : \A m \in N : n <= m
    BY <1>1, Least
  <1>3. \E t \in S : \A u \in S : paid[t].block <= paid[u].block
    BY <1>2
  <1> QED
    BY <1>3 DEF First, Oldest

\* uniqueDepositAmount finds an amount, and no open order waits for it: the
\* loop of the code ends.
THEOREM AmountIsFree ==
    ASSUME NEW map \in [Orders -> Records], NEW asked \in Nat
    PROVE  LET n == uniqueDepositAmount(map, asked)
           IN  /\ n \in Nat /\ n >= asked
               /\ \A o \in Orders : map[o].st = "AWAITING_DEPOSIT" => map[o].want # n
  <1> DEFINE P == {p \in Orders : map[p].st = "AWAITING_DEPOSIT"}
             open == {map[o].want : o \in P}
             range == asked .. asked + Cardinality(Orders)
             free == range \ open
  <1>1. IsFiniteSet(P) /\ Cardinality(P) <= Cardinality(Orders) /\ Cardinality(Orders) \in Nat
    BY FS_Subset, FS_CardinalityType, DepositsAssumption DEF DepositsAssumption
  <1>2. IsFiniteSet(open) /\ Cardinality(open) <= Cardinality(P)
    <2> DEFINE f == [o \in P |-> map[o].want]
    <2>1. f \in Surjection(P, open)
      BY DEF Surjection
    <2> QED
      BY <2>1, <1>1, FS_Surjection
  <1>3. IsFiniteSet(range) /\ Cardinality(range) = Cardinality(Orders) + 1
    BY <1>1, FS_Interval, SMTT(30)
  <1>4. free # {}
    <2>1. SUFFICES ASSUME range \subseteq open PROVE FALSE
      OBVIOUS
    <2>2. Cardinality(range) <= Cardinality(open)
      BY <2>1, <1>2, FS_Subset
    <2>3. Cardinality(open) \in Nat /\ Cardinality(P) \in Nat
      BY <1>1, <1>2, FS_CardinalityType
    <2> QED
      BY <2>2, <2>3, <1>1, <1>2, <1>3
  <1>5. free \in SUBSET Nat
    BY <1>1
  <1>6. \E n \in free : \A m \in free : n <= m
    BY <1>4, <1>5, Least
  <1>7. uniqueDepositAmount(map, asked) \in free
    BY <1>6 DEF uniqueDepositAmount
  <1> QED
    BY <1>7, <1>1

-----------------------------------------------------------------------------
(* What a step does to who holds what.                                     *)

\* Most steps give nobody a transfer and take none out of `claimed`.
NoNewHolder ==
    \A o \in Orders, t \in Transfers : Holds(o, t)' => Holds(o, t)

LEMMA NobodyNew ==
    ASSUME Marked, Single, NoNewHolder, claimed \subseteq claimed'
    PROVE  Marked' /\ Single'
  BY DEF Marked, Single, NoNewHolder

\* A save that repeats the deposit its order has in the map.
LEMMA Issued ==
    ASSUME TypeOK, NEW w \in Saves, line' = Append(line, w), order' = order,
           w.rec.dep = order[w.order].dep
    PROVE  NoNewHolder
  <1>1. In(line') = In(line) \cup {w}
    BY Line DEF TypeOK, Saves
  <1> QED
    BY <1>1 DEF NoNewHolder, Holds

\* The map follows a save: the deposit was held on its way already.
LEMMA Follows ==
    ASSUME TypeOK, line # <<>>, order' = Landed
    PROVE  /\ order' \in [Orders -> Records]
           /\ Tail(line) \in Seq(Saves) /\ In(Tail(line)) \subseteq In(line)
           /\ \A o \in Orders, t \in Transfers : order'[o].dep = t => Holds(o, t)
  <1>1. /\ Tail(line) \in Seq(Saves) /\ In(Tail(line)) \subseteq In(line)
        /\ Head(line) \in Saves /\ Head(line) \in In(line)
    <2>1. line \in Seq(Saves)
      BY DEF TypeOK, Saves
    <2>2. PICK w : w \in Saves
      BY <2>1
    <2> QED
      BY <2>1, <2>2, Line
  <1>2. order' = [order EXCEPT ![Head(line).order] = Head(line).rec]
    BY DEF Landed
  <1>3. order' \in [Orders -> Records]
    BY <1>1, <1>2 DEF TypeOK, Saves
  <1>4. ASSUME NEW o \in Orders, NEW t \in Transfers, order'[o].dep = t PROVE Holds(o, t)
    <2>1. CASE o = Head(line).order
      BY <2>1, <1>1, <1>2, <1>4 DEF Holds, TypeOK
    <2>2. CASE o # Head(line).order
      BY <2>2, <1>2, <1>4 DEF Holds, TypeOK
    <2> QED
      BY <2>1, <2>2
  <1> QED
    BY <1>1, <1>3, <1>4

\* An answer, with the next save of the same code or without one.
LEMMA LandsAlone ==
    ASSUME TypeOK, line # <<>>, order' = Landed, line' = Tail(line)
    PROVE  NoNewHolder /\ order' \in [Orders -> Records] /\ line' \in Seq(Saves)
  BY Follows DEF NoNewHolder, Holds

LEMMA LandsOn ==
    ASSUME TypeOK, line # <<>>, order' = Landed, NEW w \in Saves,
           line' = Append(Tail(line), w), w.rec.dep = order'[w.order].dep
    PROVE  NoNewHolder /\ order' \in [Orders -> Records] /\ line' \in Seq(Saves)
  <1>1. /\ Tail(line) \in Seq(Saves) /\ order' \in [Orders -> Records]
        /\ In(Tail(line)) \subseteq In(line)
        /\ \A o \in Orders, t \in Transfers : order'[o].dep = t => Holds(o, t)
    BY Follows
  <1>2. line' \in Seq(Saves) /\ In(line') = In(Tail(line)) \cup {w}
    BY <1>1, Line
  <1>3. ASSUME NEW o \in Orders, NEW t \in Transfers, Holds(o, t)' PROVE Holds(o, t)
    <2>1. CASE order'[o].dep = t
      BY <2>1, <1>1
    <2>2. CASE \E v \in In(line') : v.order = o /\ v.rec.dep = t
      BY <2>2, <1>1, <1>2 DEF Holds
    <2> QED
      BY <1>3, <2>1, <2>2 DEF Holds
  <1> QED
    BY <1>1, <1>2, <1>3 DEF NoNewHolder

LEMMA Shrinks ==
    ASSUME TypeOK, line # <<>>, order' = order, line' = Tail(line)
    PROVE  NoNewHolder /\ line' \in Seq(Saves)
  <1>1. line \in Seq(Saves)
    BY DEF TypeOK, Saves
  <1>2. PICK w : w \in Saves
    BY <1>1
  <1>3. line' \in Seq(Saves) /\ In(line') \subseteq In(line)
    BY <1>1, <1>2, Line
  <1>4. ASSUME NEW o \in Orders, NEW t \in Transfers, Holds(o, t)' PROVE Holds(o, t)
    BY <1>3, <1>4 DEF Holds
  <1> QED
    BY <1>3, <1>4 DEF NoNewHolder

LEMMA Untouched ==
    ASSUME Marked, Single, order' = order, line' = line, claimed' = claimed
    PROVE  Marked' /\ Single'
  BY DEF Marked, Single, Holds, In

LEMMA AdvancedIsRecord ==
    ASSUME OrderOK, NEW o \in Orders, NEW to \in OrderState
    PROVE  Advanced(o, to) \in Records /\ Advanced(o, to).dep = order[o].dep
  <1>1. order[o] \in Records
    BY DEF OrderOK
  <1> QED
    BY <1>1 DEF Advanced, Records

-----------------------------------------------------------------------------
(* Types, group by group.                                                  *)

LEMMA Groups ==
    (TypeOK /\ Busy) <=>
        /\ ChainOK /\ OrderOK /\ QuoteOK /\ LineOK /\ ReqOK /\ ToldOK /\ JobOK /\ ClaimedOK
        /\ StraysOK /\ SweepOK /\ HistoryOK /\ CountOK
  BY DEF TypeOK, ChainOK, OrderOK, QuoteOK, LineOK, ReqOK, ToldOK, JobOK, ClaimedOK, StraysOK, SweepOK,
     HistoryOK, CountOK, Saves, Accepts, Jobs

LEMMA GroupsNext ==
    ASSUME ChainOK', OrderOK', QuoteOK', LineOK', ReqOK', ToldOK', JobOK', ClaimedOK',
           StraysOK', SweepOK', HistoryOK', CountOK'
    PROVE  TypeOK' /\ Busy'
  BY DEF TypeOK, ChainOK, OrderOK, QuoteOK, LineOK, ReqOK, ToldOK, JobOK, ClaimedOK, StraysOK, SweepOK,
     HistoryOK, CountOK, Saves, Accepts, Jobs

\* What is unchanged keeps its type.
LEMMA Kept ==
    ASSUME TypeOK, Busy
    PROVE  /\ UNCHANGED chain => ChainOK'
           /\ UNCHANGED order => OrderOK'
           /\ UNCHANGED quote => QuoteOK'
           /\ UNCHANGED line => LineOK'
           /\ UNCHANGED req => ReqOK'
           /\ UNCHANGED told => ToldOK'
           /\ UNCHANGED job => JobOK'
           /\ UNCHANGED claimed => ClaimedOK'
           /\ UNCHANGED strays => StraysOK'
           /\ UNCHANGED <<sweep, sweptTo, savedTo>> => SweepOK'
           /\ UNCHANGED <<returned, unheard>> => HistoryOK'
           /\ UNCHANGED <<crashes, faults>> => CountOK'
  <1> USE Groups
  <1>1. UNCHANGED chain => ChainOK'
    BY DEF chain, ChainOK
  <1>2. UNCHANGED order => OrderOK'
    BY DEF OrderOK
  <1>3. UNCHANGED quote => QuoteOK'
    BY DEF QuoteOK
  <1>4. UNCHANGED line => LineOK'
    BY DEF LineOK
  <1>5. UNCHANGED req => ReqOK'
    BY DEF ReqOK, Busy
  <1>6. UNCHANGED told => ToldOK'
    BY DEF ToldOK
  <1>7. UNCHANGED job => JobOK'
    BY DEF JobOK
  <1>8. UNCHANGED claimed => ClaimedOK'
    BY DEF ClaimedOK
  <1>9. UNCHANGED strays => StraysOK'
    BY DEF StraysOK
  <1>10. UNCHANGED <<sweep, sweptTo, savedTo>> => SweepOK'
    BY DEF SweepOK
  <1>11. UNCHANGED <<returned, unheard>> => HistoryOK'
    BY DEF HistoryOK
  <1>12. UNCHANGED <<crashes, faults>> => CountOK'
    BY DEF CountOK
  <1> QED
    BY <1>1, <1>2, <1>3, <1>4, <1>5, <1>6, <1>7, <1>8, <1>9, <1>10, <1>11, <1>12

\* An accept that goes on, or ends.
LEMMA ReqMoves ==
    ASSUME ReqOK, NEW r \in Requests, NEW s \in Accepts, s.at # "none" => s.order \in Orders,
           req' = [req EXCEPT ![r] = s]
    PROVE  ReqOK'
  BY DEF ReqOK, Busy

LEMMA NoRequestIsOne == NoRequest \in Accepts /\ NoRequest.at = "none"
  BY DEF NoRequest, Accepts, Accepting

LEMMA JobMoves ==
    ASSUME JobOK, NEW o \in Orders, NEW j \in Jobs, job' = [job EXCEPT ![o] = j]
    PROVE  JobOK'
  BY DEF JobOK

-----------------------------------------------------------------------------
(* Init, and the actions.                                                  *)

LEMMA InitInv == Init => Inv
  <1> SUFFICES ASSUME Init PROVE Inv
    OBVIOUS
  <1>1. TypeOK
    BY DepositsAssumption DEF Init, TypeOK, DepositsAssumption, Records, OrderState, NoRequest,
       Accepting, Job, Working, Statuses, Sweep, Sweeping
  <1>2. In(line) = {}
    BY DEF Init, In
  <1>3. \A o \in Orders, t \in Transfers : ~Holds(o, t)
    BY <1>2, DepositsAssumption DEF Init, Holds, DepositsAssumption
  <1> QED
    BY <1>1, <1>3 DEF Inv, Init, Busy, NoRequest, Marked, Single

LEMMA AcceptInv ==
    ASSUME Inv, NEW r \in Requests, NEW o \in Orders, Accept(r, o) \/ AcceptExpired(r, o)
    PROVE  Inv'
  <1> DEFINE to == IF Accept(r, o) THEN order[o] ELSE Advanced(o, "EXPIRED")
             w == Save(r, o, to)
             s == [NoRequest EXCEPT !.at = IF Accept(r, o) THEN "quote" ELSE "expired", !.order = o]
  <1>1. TypeOK /\ Busy /\ Marked /\ Single /\ ReqOK /\ OrderOK /\ LineOK
    BY Groups DEF Inv
  <1>2. line' = Append(line, w) /\ req' = [req EXCEPT ![r] = s]
    BY DEF Accept, AcceptExpired
  <1>3. w \in Saves /\ w.rec.dep = order[w.order].dep
    <2>1. order[o] \in Records /\ Advanced(o, "EXPIRED") \in Records /\ to.dep = order[o].dep
      BY <1>1, AdvancedIsRecord DEF OrderOK, OrderState
    <2> QED
      BY <2>1 DEF Save, Saves
  <1>4. UNCHANGED <<chain, order, quote, told, jobs, sweeper, crashes, faults>>
    BY DEF Accept, AcceptExpired
  <1>5. NoNewHolder /\ Marked' /\ Single'
    BY <1>1, <1>2, <1>3, <1>4, Issued, NobodyNew DEF jobs
  <1>6. LineOK'
    BY <1>1, <1>2, <1>3, Line DEF LineOK
  <1>7. ReqOK'
    <2>1. s \in Accepts /\ s.order \in Orders
      BY DEF NoRequest, Accepts, Accepting
    <2> QED
      BY <1>1, <1>2, <2>1, ReqMoves
  <1> QED
    BY <1>1, <1>4, <1>5, <1>6, <1>7, Kept, GroupsNext DEF Inv, jobs, sweeper

\* What the requests' actions have in common: the map may follow a save, and
\* the job queue and what users are told have types of their own.
LEMMA AnswerInv ==
    ASSUME Inv, OrderOK', LineOK', ReqOK', JobOK', ToldOK', QuoteOK', NoNewHolder,
           UNCHANGED <<chain, claimed, sweeper, crashes, faults>>
    PROVE  Inv'
  <1>1. TypeOK /\ Busy /\ Marked /\ Single
    BY DEF Inv
  <1>2. Marked' /\ Single'
    BY <1>1, NobodyNew
  <1> QED
    BY <1>1, <1>2, Kept, GroupsNext DEF Inv, sweeper

LEMMA AnswersInv ==
    ASSUME Inv, NEW r \in Requests, Answers(r)
    PROVE  Inv'
  <1>0. /\ TypeOK /\ Busy /\ ReqOK /\ OrderOK /\ LineOK /\ QuoteOK /\ ToldOK /\ JobOK /\ ChainOK
        /\ req[r] \in Accepts /\ (req[r].at # "none" => req[r].order \in Orders)
    BY Groups DEF Inv, ReqOK, Busy
  <1>1. CASE ExpiredLands(r)
    <2>1. NoNewHolder /\ OrderOK' /\ LineOK'
      BY <1>0, <1>1, LandsAlone DEF ExpiredLands, Answered, OrderOK, LineOK
    <2>2. ReqOK'
      BY <1>0, <1>1, ReqMoves, NoRequestIsOne DEF ExpiredLands
    <2>3. UNCHANGED <<chain, quote, told, jobs, sweeper, crashes, faults>>
      BY <1>1 DEF ExpiredLands
    <2> QED
      BY <1>0, <2>1, <2>2, <2>3, Kept, AnswerInv DEF jobs
  <1>2. CASE QuoteLands(r)
    <2>1. UNCHANGED <<chain, order, told, jobs, sweeper, crashes, faults>>
      BY <1>2 DEF QuoteLands
    <2>2. NoNewHolder /\ LineOK'
      BY <1>0, <1>2, <2>1, Shrinks DEF QuoteLands, Answered, LineOK
    <2>3. ReqOK'
      <3> DEFINE s == [req[r] EXCEPT !.at = "block", !.from = head]
      <3>1. s \in Accepts /\ s.order \in Orders
        BY <1>0, <1>2 DEF QuoteLands, Accepts, Accepting, ChainOK
      <3>2. req' = [req EXCEPT ![r] = s]
        BY <1>2 DEF QuoteLands
      <3> QED
        BY <1>0, <3>1, <3>2, ReqMoves
    <2>4. QuoteOK'
      BY <1>0, <1>2 DEF QuoteLands, QuoteOK
    <2> QED
      BY <1>0, <2>1, <2>2, <2>3, <2>4, Kept, AnswerInv DEF jobs
  <1>3. CASE BlockRead(r)
    <2> DEFINE o == req[r].order
               w == Save(r, o, Advanced(o, "ACCEPTED"))
    <2>1. UNCHANGED <<chain, order, quote, told, jobs, sweeper, crashes, faults>> /\ o \in Orders
      BY <1>0, <1>3 DEF BlockRead
    <2>2. NoNewHolder /\ LineOK'
      <3>1. w \in Saves /\ w.rec.dep = order[w.order].dep
        BY <1>0, <2>1, AdvancedIsRecord DEF Save, Saves, OrderState
      <3>2. CASE line' = line
        BY <1>0, <2>1, <3>2 DEF NoNewHolder, Holds, In, LineOK
      <3>3. CASE line' = Append(line, w)
        BY <1>0, <2>1, <3>1, <3>3, Issued, Line DEF LineOK
      <3> QED
        BY <1>3, <3>2, <3>3 DEF BlockRead
    <2>3. ReqOK'
      <3>1. CASE req' = [req EXCEPT ![r] = NoRequest]
        BY <1>0, <3>1, ReqMoves, NoRequestIsOne
      <3>2. ASSUME NEW h \in req[r].from .. head,
                   req' = [req EXCEPT ![r] = [@ EXCEPT !.at = "accepted", !.from = h]]
            PROVE  ReqOK'
        <4> DEFINE s == [req[r] EXCEPT !.at = "accepted", !.from = h]
        <4>1. h \in Nat
          BY <1>0 DEF ChainOK, Accepts
        <4>2. s \in Accepts /\ s.order \in Orders
          BY <1>0, <2>1, <4>1 DEF Accepts, Accepting
        <4>3. req' = [req EXCEPT ![r] = s]
          BY <3>2
        <4> QED
          BY <1>0, <4>2, <4>3, ReqMoves
      <3> QED
        BY <1>3, <3>1, <3>2 DEF BlockRead
    <2> QED
      BY <1>0, <2>1, <2>2, <2>3, Kept, AnswerInv DEF jobs
  <1>4. CASE AcceptedLands(r)
    <2> DEFINE o == req[r].order
               amount == uniqueDepositAmount(order', Asked[o])
               wanted == [order'[o] EXCEPT !.want = amount, !.from = req[r].from]
               w == Save(r, o, wanted)
               s == [req[r] EXCEPT !.at = "wanted"]
    <2>1. /\ o \in Orders /\ line # <<>> /\ order' = Landed
          /\ line' = Append(Tail(line), w) /\ req' = [req EXCEPT ![r] = s]
          /\ UNCHANGED <<chain, quote, told, jobs, sweeper, crashes, faults>>
      BY <1>0, <1>4 DEF AcceptedLands, Answered
    <2>2. order' \in [Orders -> Records]
      BY <1>0, <2>1, Follows
    <2>3. amount \in Nat
      BY <2>1, <2>2, AmountIsFree, DepositsAssumption DEF DepositsAssumption
    <2>4. w \in Saves /\ w.rec.dep = order'[w.order].dep
      <3>1. order'[o] \in Records /\ req[r].from \in Nat
        BY <1>0, <2>1, <2>2 DEF Accepts
      <3>2. wanted \in Records /\ wanted.dep = order'[o].dep
        BY <2>3, <3>1 DEF Records
      <3> QED
        BY <2>1, <3>2 DEF Save, Saves
    <2>5. NoNewHolder /\ LineOK' /\ OrderOK'
      BY <1>0, <2>1, <2>4, LandsOn DEF LineOK, OrderOK
    <2>6. ReqOK'
      <3>1. s \in Accepts /\ s.order \in Orders
        BY <1>0, <2>1 DEF Accepts, Accepting
      <3> QED
        BY <1>0, <2>1, <3>1, ReqMoves
    <2> QED
      BY <1>0, <2>1, <2>5, <2>6, Kept, AnswerInv DEF jobs
  <1>5. CASE WantedLands(r)
    <2> DEFINE o == req[r].order
               w == Save(r, o, [order'[o] EXCEPT !.st = "AWAITING_DEPOSIT"])
               s == [req[r] EXCEPT !.at = "awaiting"]
    <2>1. /\ o \in Orders /\ line # <<>> /\ order' = Landed
          /\ UNCHANGED <<chain, quote, told, jobs, sweeper, crashes, faults>>
      BY <1>0, <1>5 DEF WantedLands, Answered
    <2>2. order' \in [Orders -> Records]
      BY <1>0, <2>1, Follows
    <2>3. w \in Saves /\ w.rec.dep = order'[w.order].dep
      <3>1. order'[o] \in Records
        BY <2>1, <2>2
      <3> QED
        BY <2>1, <3>1 DEF Save, Saves, Records, OrderState
    <2>4. NoNewHolder /\ OrderOK' /\ LineOK'
      <3>1. CASE line' = Append(Tail(line), w)
        BY <1>0, <2>1, <2>3, <3>1, LandsOn DEF LineOK, OrderOK
      <3>2. CASE line' = Tail(line)
        BY <1>0, <2>1, <3>2, LandsAlone DEF LineOK, OrderOK
      <3> QED
        BY <1>5, <3>1, <3>2 DEF WantedLands
    <2>5. ReqOK'
      <3>1. s \in Accepts /\ s.order \in Orders
        BY <1>0, <2>1 DEF Accepts, Accepting
      <3>2. req' = [req EXCEPT ![r] = s] \/ req' = [req EXCEPT ![r] = NoRequest]
        BY <1>5 DEF WantedLands
      <3> QED
        BY <1>0, <3>1, <3>2, ReqMoves, NoRequestIsOne
    <2> QED
      BY <1>0, <2>1, <2>4, <2>5, Kept, AnswerInv DEF jobs
  <1>6. CASE AwaitingLands(r)
    <2> DEFINE s == [req[r] EXCEPT !.at = "enqueue", !.want = Head(line).rec.want]
    <2>1. /\ line # <<>> /\ line' = Tail(line) /\ order' = Landed /\ req' = [req EXCEPT ![r] = s]
          /\ UNCHANGED <<chain, quote, told, jobs, sweeper, crashes, faults>>
      BY <1>6 DEF AwaitingLands, Answered
    <2>2. NoNewHolder /\ OrderOK' /\ LineOK'
      BY <1>0, <2>1, LandsAlone DEF OrderOK, LineOK
    <2>3. Head(line) \in Saves
      BY <1>0, <2>1 DEF LineOK
    <2>4. ReqOK'
      <3>1. s \in Accepts /\ s.order \in Orders
        BY <1>0, <1>6, <2>3 DEF AwaitingLands, Accepts, Accepting, Saves, Records
      <3> QED
        BY <1>0, <2>1, <3>1, ReqMoves
    <2> QED
      BY <1>0, <2>1, <2>2, <2>4, Kept, AnswerInv DEF jobs
  <1>7. CASE Enqueue(r)
    <2> DEFINE o == req[r].order
               j == IF job[o].at = "none" THEN Job("waiting", {}) ELSE job[o]
    <2>1. /\ o \in Orders /\ UNCHANGED <<chain, book, claimed, sweeper, crashes, faults>>
          /\ job' = [job EXCEPT ![o] = j]
          /\ told' = [told EXCEPT ![o] = @ \cup {req[r].want}]
          /\ req' = [req EXCEPT ![r] = NoRequest]
      BY <1>0, <1>7 DEF Enqueue
    <2>2. ReqOK'
      BY <1>0, <2>1, ReqMoves, NoRequestIsOne
    <2>3. JobOK'
      <3>1. job[o] \in Jobs /\ Job("waiting", {}) \in Jobs
        BY <1>0, <2>1 DEF JobOK, Jobs, Job, Working
      <3> QED
        BY <1>0, <2>1, <3>1, JobMoves
    <2>4. ToldOK'
      <3>1. told[o] \cup {req[r].want} \in SUBSET Nat
        BY <1>0, <2>1 DEF ToldOK, Accepts
      <3> QED
        BY <1>0, <2>1, <3>1 DEF ToldOK
    <2>5. NoNewHolder
      BY <2>1 DEF NoNewHolder, Holds, In, book
    <2> QED
      BY <1>0, <2>1, <2>2, <2>3, <2>4, <2>5, Kept, AnswerInv DEF book
  <1> QED
    BY <1>1, <1>2, <1>3, <1>4, <1>5, <1>6, <1>7 DEF Answers

-----------------------------------------------------------------------------
(* The jobs, the sweeper, failures and the world.                          *)

\* A step of a job that saves what repeats the order's deposit, or nothing.
LEMMA WatchInv ==
    ASSUME Inv, OrderOK', LineOK', JobOK', NoNewHolder,
           UNCHANGED <<chain, quote, accepts, claimed, sweeper, crashes, faults>>
    PROVE  Inv'
  <1>1. TypeOK /\ Busy /\ Marked /\ Single
    BY DEF Inv
  <1>2. Marked' /\ Single'
    BY <1>1, NobodyNew
  <1> QED
    BY <1>1, <1>2, Kept, GroupsNext DEF Inv, sweeper, accepts

\* The claim: what it takes nobody holds, because nobody has claimed it.
LEMMA ClaimInv ==
    ASSUME Inv, NEW o \in Orders, Claim(o)
    PROVE  Inv'
  <1> DEFINE t == First(job[o].seen \ claimed)
             w == Save(o, o, [order[o] EXCEPT !.dep = t])
  <1>0. TypeOK /\ Busy /\ Marked /\ Single /\ OrderOK /\ LineOK /\ JobOK /\ ClaimedOK
    BY Groups DEF Inv
  <1>1. /\ claimed' = claimed \cup {t} /\ line' = Append(line, w)
        /\ job' = [job EXCEPT ![o] = Job("claiming", {})]
        /\ UNCHANGED <<chain, order, quote, accepts, sweeper, crashes, faults>>
    BY DEF Claim
  <1>2. t \in Transfers /\ t \notin claimed
    <2> DEFINE S == job[o].seen \ claimed
    <2>1. S \in SUBSET Transfers /\ S # {}
      BY <1>0 DEF Claim, JobOK, Jobs
    <2>2. First(S) \in S
      BY <1>0, <2>1, FirstIsOne
    <2> QED
      BY <2>1, <2>2
  <1>3. w \in Saves /\ w.order = o /\ w.rec.dep = t
    <2>1. order[o] \in Records
      BY <1>0 DEF OrderOK
    <2> QED
      BY <1>2, <2>1 DEF Save, Saves, Records
  <1>4. LineOK' /\ In(line') = In(line) \cup {w}
    BY <1>0, <1>1, <1>3, Line DEF LineOK
  <1>5. ASSUME NEW p \in Orders, NEW u \in Transfers, Holds(p, u)'
        PROVE  Holds(p, u) \/ (p = o /\ u = t)
    BY <1>1, <1>3, <1>4, <1>5 DEF Holds
  <1>6. \A p \in Orders : ~Holds(p, t)
    BY <1>0, <1>2 DEF Marked
  <1>7. Marked'
    BY <1>0, <1>1, <1>5 DEF Marked
  <1>8. Single'
    <2> SUFFICES ASSUME NEW p \in Orders, NEW q \in Orders, NEW u \in Transfers, Holds(p, u)', Holds(q, u)'
                 PROVE  p = q
      BY DEF Single
    <2>1. CASE u = t
      BY <1>5, <1>6, <2>1
    <2>2. CASE u # t
      BY <1>0, <1>5, <2>2 DEF Single
    <2> QED
      BY <2>1, <2>2
  <1>9. JobOK' /\ ClaimedOK'
    <2>1. Job("claiming", {}) \in Jobs
      BY DEF Job, Jobs, Working
    <2> QED
      BY <1>0, <1>1, <1>2, <2>1, JobMoves DEF ClaimedOK
  <1> QED
    BY <1>0, <1>1, <1>4, <1>7, <1>8, <1>9, Kept, GroupsNext DEF Inv, sweeper, accepts

LEMMA WatchesInv ==
    ASSUME Inv, NEW o \in Orders, Watches(o)
    PROVE  Inv'
  <1>0. TypeOK /\ Busy /\ OrderOK /\ LineOK /\ JobOK
    BY Groups DEF Inv
  <1>1. \A at \in Working : Job(at, {}) \in Jobs
    BY DEF Job, Jobs
  <1>2. CASE Search(o) \/ Ignored(o)
    <2>1. UNCHANGED <<chain, book, accepts, claimed, sweeper, crashes, faults>>
      BY <1>2 DEF Search, Ignored
    <2>2. JobOK'
      <3>1. PICK j \in Jobs : job' = [job EXCEPT ![o] = j]
        <4>1. CASE Search(o)
          <5> DEFINE S == {t \in Transfers : /\ Sent(t) /\ paid[t].block >= order[o].from
                                             /\ paid[t].amount = order[o].want}
          <5>1. Job("found", S) \in Jobs
            BY DEF Job, Jobs, Working
          <5> QED
            BY <4>1, <5>1 DEF Search
        <4>2. CASE Ignored(o)
          BY <1>1, <4>2 DEF Ignored, Working
        <4> QED
          BY <1>2, <4>1, <4>2
      <3> QED
        BY <1>0, <3>1, JobMoves
    <2>3. NoNewHolder
      BY <2>1 DEF NoNewHolder, Holds, In, book
    <2> QED
      BY <1>0, <2>1, <2>2, <2>3, Kept, WatchInv DEF book
  <1>3. CASE NotFound(o) \/ Decide(o)
    <2>1. UNCHANGED <<chain, order, quote, accepts, claimed, sweeper, crashes, faults>>
      BY <1>3 DEF NotFound, Decide
    <2>2. JobOK'
      <3>1. \E j \in Jobs : job' = [job EXCEPT ![o] = j]
        BY <1>1, <1>3 DEF NotFound, Decide, Working
      <3> QED
        BY <1>0, <3>1, JobMoves
    <2>3. line' = line \/ \E to \in OrderState : line' = Append(line, Save(o, o, Advanced(o, to)))
      BY <1>3 DEF NotFound, Decide, OrderState
    <2>4. NoNewHolder /\ LineOK'
      <3>1. CASE line' = line
        BY <1>0, <2>1, <3>1 DEF NoNewHolder, Holds, In, LineOK
      <3>2. ASSUME NEW to \in OrderState, line' = Append(line, Save(o, o, Advanced(o, to)))
            PROVE  NoNewHolder /\ LineOK'
        <4> DEFINE w == Save(o, o, Advanced(o, to))
        <4>1. w \in Saves /\ w.rec.dep = order[w.order].dep
          BY <1>0, AdvancedIsRecord DEF Save, Saves
        <4> QED
          BY <1>0, <2>1, <3>2, <4>1, Issued, Line DEF LineOK
      <3> QED
        BY <2>3, <3>1, <3>2
    <2> QED
      BY <1>0, <2>1, <2>2, <2>4, Kept, WatchInv
  <1>4. CASE ClaimLands(o) \/ DecisionLands(o)
    <2>1. /\ line # <<>> /\ order' = Landed /\ line' = Tail(line)
          /\ UNCHANGED <<chain, quote, accepts, claimed, sweeper, crashes, faults>>
      BY <1>4 DEF ClaimLands, DecisionLands, Answered
    <2>2. NoNewHolder /\ OrderOK' /\ LineOK'
      BY <1>0, <2>1, LandsAlone DEF OrderOK, LineOK
    <2>3. JobOK'
      <3>1. \E j \in Jobs : job' = [job EXCEPT ![o] = j]
        BY <1>1, <1>4 DEF ClaimLands, DecisionLands, Working
      <3> QED
        BY <1>0, <3>1, JobMoves
    <2> QED
      BY <2>1, <2>2, <2>3, WatchInv
  <1> QED
    BY <1>2, <1>3, <1>4, ClaimInv DEF Watches

LEMMA MinedIsCounted ==
    ASSUME HistoryOK, MinedUnheard
    PROVE  HistoryOK'
  <1>1. PICK mined : /\ returned' = [t \in Transfers |-> IF t \in mined THEN returned[t] + 1 ELSE returned[t]]
                     /\ unheard' = [t \in Transfers |-> IF t \in mined THEN unheard[t] + 1 ELSE unheard[t]]
    BY DEF MinedUnheard
  <1> QED
    BY <1>1 DEF HistoryOK

\* The sweeper touches its own variables and the count of faults.
LEMMA SweepsInv ==
    ASSUME Inv, Sweeps \/ RefundUnheard \/ SweepFails
    PROVE  Inv'
  <1>0. TypeOK /\ Busy /\ Marked /\ Single /\ ChainOK /\ StraysOK /\ SweepOK /\ HistoryOK /\ CountOK
    BY Groups DEF Inv
  <1>1. UNCHANGED <<chain, book, accepts, jobs, crashes>>
    BY DEF Sweeps, SweepStarts, Judge, Weigh, Swept, Refunded, RefundFails, RefundUnheard, SweepFails
  <1>2. Marked' /\ Single'
    BY <1>0, <1>1, Untouched DEF book, jobs
  <1>3. CountOK'
    BY <1>0, <1>1 DEF CountOK, Sweeps, SweepStarts, Judge, Weigh, Swept, Refunded, RefundFails, RefundUnheard,
       SweepFails
  <1>4. sweep.todo # {} => First(sweep.todo) \in Transfers
    <2>1. sweep.todo \in SUBSET Transfers
      BY <1>0 DEF SweepOK
    <2> QED
      BY <1>0, <2>1, FirstIsOne
  <1>5. SweepOK'
    <2>0. \A todo \in SUBSET Transfers : Refunds(todo) \in [at : Sweeping, todo : SUBSET Transfers, till : Int]
      BY DEF Refunds, Sweep, Sweeping
    <2>1. CASE SweepStarts
      <3>1. head - DEPOSIT_FINALITY \in Int
        BY <1>0, DepositsAssumption DEF ChainOK, DepositsAssumption
      <3>2. Due \in SUBSET Transfers
        BY DEF Due
      <3>3. \A todo \in SUBSET Transfers :
                Sweep("judging", todo, head - DEPOSIT_FINALITY) \in [at : Sweeping, todo : SUBSET Transfers, till : Int]
        BY <3>1 DEF Sweep, Sweeping
      <3> DEFINE new == {t \in Transfers :
                             Sent(t) /\ paid[t].block \in sweptTo + 1 .. head - DEPOSIT_FINALITY}
      <3>4. new \in SUBSET Transfers
        OBVIOUS
      <3>5. sweep' = Refunds(Due) \/ sweep' = Sweep("judging", new, head - DEPOSIT_FINALITY)
        BY <2>1 DEF SweepStarts
      <3>6. sweptTo' = sweptTo /\ savedTo' = savedTo
        BY <2>1 DEF SweepStarts
      <3> HIDE DEF new
      <3> QED
        BY <1>0, <2>0, <3>2, <3>3, <3>4, <3>5, <3>6 DEF SweepOK
    <2>2. CASE Judge
      BY <1>0, <2>2 DEF Judge, SweepOK, Sweeping
    <2>3. CASE Weigh
      BY <1>0, <2>3 DEF Weigh, SweepOK, Sweeping
    <2>4. CASE Swept
      <3>1. sweep' = Refunds(Due) /\ sweptTo' = sweep.till /\ savedTo' = sweep.till /\ Due \in SUBSET Transfers
        BY <2>4 DEF Swept, Due
      <3> QED
        BY <1>0, <2>0, <3>1 DEF SweepOK
    <2>5. CASE Refunded \/ RefundFails \/ RefundUnheard
      <3>1. sweep' = Refunds(sweep.todo \ {Refunding}) /\ sweptTo' = sweptTo /\ savedTo' = savedTo
        BY <2>5 DEF Refunded, RefundFails, RefundUnheard, Onward
      <3>2. sweep.todo \ {Refunding} \in SUBSET Transfers
        BY <1>0 DEF SweepOK
      <3> QED
        BY <1>0, <2>0, <3>1, <3>2 DEF SweepOK
    <2>6. CASE SweepFails
      <3>1. sweep' \in [at : Sweeping, todo : SUBSET Transfers, till : Int]
        BY <2>6 DEF SweepFails, Sweep, Sweeping
      <3>2. sweptTo' \in Int /\ savedTo' \in Int
        <4>1. sweep.till \in Int /\ sweptTo \in Int /\ savedTo \in Int
          BY <1>0 DEF SweepOK
        <4>2. savedTo' = savedTo /\ sweptTo' \in {sweptTo, sweep.till}
          BY <2>6 DEF SweepFails
        <4> QED
          BY <4>1, <4>2
      <3> QED
        BY <3>1, <3>2 DEF SweepOK
    <2> QED
      BY <2>1, <2>2, <2>3, <2>4, <2>5, <2>6 DEF Sweeps
  <1>6. StraysOK'
    <2>1. CASE strays' = strays
      BY <1>0, <2>1 DEF StraysOK
    <2>2. CASE Weigh
      <3>1. PICK status \in {"open", "held"} : strays' = [strays EXCEPT ![First(sweep.todo)].status = status]
        BY <2>2 DEF Weigh
      <3> QED
        BY <1>0, <3>1 DEF StraysOK, Statuses
    <2>3. CASE Refunded \/ RefundFails \/ RefundUnheard
      <3>1. PICK status \in Statuses : strays' = Tried(status)
        BY <2>3 DEF Refunded, RefundFails, RefundUnheard, Failed, Statuses
      <3>2. CASE Refunding \in Transfers
        <4> DEFINE s == [status |-> status, attempts |-> strays[Refunding].attempts + 1]
        <4>1. s \in [status : Statuses, attempts : Nat]
          BY <1>0, <3>2 DEF StraysOK
        <4>2. strays' = [strays EXCEPT ![Refunding] = s]
          BY <3>1 DEF Tried
        <4> HIDE DEF s
        <4> QED
          BY <1>0, <4>1, <4>2 DEF StraysOK
      <3>3. CASE Refunding \notin Transfers
        BY <1>0, <3>1, <3>3 DEF Tried, StraysOK
      <3> QED
        BY <3>2, <3>3
    <2> QED
      BY <2>1, <2>2, <2>3 DEF Sweeps, SweepStarts, Judge, Swept, SweepFails
  <1>7. HistoryOK'
    <2>1. CASE UNCHANGED <<returned, unheard>>
      BY <1>0, <2>1 DEF HistoryOK
    <2>2. CASE Refunded \/ RefundUnheard
      BY <1>0, <2>2 DEF Refunded, RefundUnheard, HistoryOK
    <2>3. CASE SweepFails
      BY <1>0, <2>3, MinedIsCounted DEF SweepFails
    <2> QED
      BY <2>1, <2>2, <2>3 DEF Sweeps, SweepStarts, Judge, Weigh, Swept, RefundFails, SweepFails
  <1> QED
    BY <1>0, <1>1, <1>2, <1>3, <1>5, <1>6, <1>7, Kept, GroupsNext DEF Inv, book, accepts, jobs

LEMMA SaveFailsInv ==
    ASSUME Inv, SaveFails
    PROVE  Inv'
  <1> DEFINE w == Head(line).by
  <1>0. TypeOK /\ Busy /\ Marked /\ Single /\ LineOK /\ ReqOK /\ JobOK /\ CountOK
    BY Groups DEF Inv
  <1>1. /\ line # <<>> /\ line' = Tail(line) /\ faults' = faults + 1
        /\ UNCHANGED <<chain, order, quote, told, claimed, sweeper, crashes>>
    BY DEF SaveFails
  <1>2. NoNewHolder /\ LineOK'
    BY <1>0, <1>1, Shrinks DEF LineOK
  <1>3. w \in Orders \cup Requests
    <2>1. Head(line) \in Saves
      BY <1>0, <1>1 DEF LineOK
    <2> QED
      BY <2>1 DEF Saves
  <1>4. ReqOK' /\ JobOK'
    <2>1. CASE w \in Requests
      <3>1. req' = [req EXCEPT ![w] = NoRequest] /\ job' = job
        BY <2>1 DEF SaveFails
      <3> QED
        BY <1>0, <2>1, <3>1, ReqMoves, NoRequestIsOne, Kept
    <2>2. CASE w \notin Requests
      <3>1. job' = [job EXCEPT ![w] = Job("waiting", {})] /\ req' = req
        BY <2>2 DEF SaveFails
      <3>2. Job("waiting", {}) \in Jobs
        BY DEF Job, Jobs, Working
      <3> QED
        BY <1>0, <1>3, <2>2, <3>1, <3>2, JobMoves, Kept
    <2> QED
      BY <2>1, <2>2
  <1>5. CountOK'
    BY <1>0, <1>1 DEF CountOK
  <1>6. Marked' /\ Single'
    BY <1>0, <1>1, <1>2, NobodyNew
  <1> QED
    BY <1>0, <1>1, <1>2, <1>4, <1>5, <1>6, Kept, GroupsNext DEF Inv, sweeper

\* A record after a crash is the map's, or that of a save on its way.
LEMMA ExecutedIsOne ==
    ASSUME TypeOK, NEW n \in 0 .. Len(line), NEW o \in Orders
    PROVE  \/ Executed(n)[o] = order[o]
           \/ \E w \in In(line) : w \in Saves /\ w.order = o /\ ~OfQuote(w) /\ Executed(n)[o] = w.rec
  <1>0. line \in Seq(Saves) /\ n \in Nat /\ Len(line) \in Nat
    BY DEF TypeOK, Saves
  <1>1. CASE Mine(n, o) = {}
    BY <1>1 DEF Executed
  <1>2. CASE Mine(n, o) # {}
    <2> DEFINE N == {n - i : i \in Mine(n, o)}
               last == CHOOSE i \in Mine(n, o) : \A j \in Mine(n, o) : j <= i
    <2>1. Mine(n, o) \subseteq 1 .. n
      BY DEF Mine
    <2>2. N \in SUBSET Nat /\ N # {}
      BY <1>0, <1>2, <2>1
    <2>3. PICK k \in N : \A m \in N : k <= m
      BY <2>2, Least
    <2>4. \E i \in Mine(n, o) : \A j \in Mine(n, o) : j <= i
      <3>1. PICK i \in Mine(n, o) : k = n - i
        BY <2>3
      <3>2. ASSUME NEW j \in Mine(n, o) PROVE j <= i
        <4>1. n - i <= n - j
          BY <2>3, <3>1
        <4> QED
          BY <1>0, <2>1, <4>1
      <3> QED
        BY <3>2
    <2>5. last \in Mine(n, o)
      BY <2>4
    <2>6. Executed(n)[o] = line[last].rec
      BY <1>2 DEF Executed
    <2> HIDE DEF last
    <2>7. last \in 1 .. Len(line) /\ line[last].order = o /\ ~OfQuote(line[last])
      BY <1>0, <2>1, <2>5 DEF Mine
    <2>8. line[last] \in Saves /\ line[last] \in In(line)
      BY <1>0, <2>7 DEF In
    <2> QED
      BY <2>6, <2>7, <2>8
  <1> QED
    BY <1>1, <1>2

\* Redis has executed some of the saves: their deposits were held on the way.
LEMMA ExecutedAreHeld ==
    ASSUME TypeOK, NEW n \in 0 .. Len(line)
    PROVE  /\ Executed(n) \in [Orders -> Records]
           /\ \A o \in Orders, t \in Transfers : Executed(n)[o].dep = t => Holds(o, t)
  <1>1. ASSUME NEW o \in Orders
        PROVE  /\ Executed(n)[o] \in Records
               /\ \A t \in Transfers : Executed(n)[o].dep = t => Holds(o, t)
    <2>1. order[o] \in Records
      BY DEF TypeOK
    <2>2. CASE Executed(n)[o] = order[o]
      BY <2>1, <2>2 DEF Holds
    <2>3. CASE \E w \in In(line) : w \in Saves /\ w.order = o /\ ~OfQuote(w) /\ Executed(n)[o] = w.rec
      BY <2>3 DEF Holds, Saves
    <2> QED
      BY <2>2, <2>3, ExecutedIsOne
  <1>2. Executed(n) = [o \in Orders |-> Executed(n)[o]]
    BY DEF Executed
  <1> QED
    BY <1>1, <1>2

\* What the process knew is gone; what the records say is claimed again.
LEMMA CrashInv ==
    ASSUME Inv, Crash
    PROVE  Inv'
  <1>0. TypeOK /\ Busy /\ Marked /\ Single /\ QuoteOK /\ JobOK /\ HistoryOK /\ CountOK /\ SweepOK /\ ChainOK
    BY Groups DEF Inv
  <1>1. /\ crashes' = crashes + 1 /\ req' = [r \in Requests |-> NoRequest] /\ line' = <<>>
        /\ job' = [o \in Orders |-> IF job[o].at = "none" THEN job[o] ELSE Job("waiting", {})]
        /\ claimed' = {order'[o].dep : o \in Orders} \ {NoTransfer}
        /\ sweep' = Sweep("resting", {}, 0) /\ sweptTo' = IF savedTo = 0 THEN head - 1 ELSE savedTo
        /\ UNCHANGED <<chain, told, strays, savedTo, faults>>
    BY DEF Crash, Restart
  <1>2. PICK n \in 0 .. Len(line) :
            /\ order' = Executed(n)
            /\ quote' = [o \in Orders |->
                  IF \E i \in 1 .. n : line[i].order = o /\ OfQuote(line[i]) THEN "accepted" ELSE quote[o]]
    BY DEF Crash, Restart
  <1>3. OrderOK' /\ \A o \in Orders, t \in Transfers : order'[o].dep = t => Holds(o, t)
    BY <1>0, <1>2, ExecutedAreHeld DEF OrderOK
  <1>4. QuoteOK'
    BY <1>0, <1>2 DEF QuoteOK
  <1>5. LineOK' /\ In(line') = {}
    BY <1>1 DEF LineOK, In
  <1>6. \A o \in Orders, t \in Transfers : Holds(o, t)' => order'[o].dep = t
    BY <1>5 DEF Holds
  <1>7. Marked'
    BY <1>1, <1>6, DepositsAssumption DEF Marked, DepositsAssumption
  <1>8. Single'
    BY <1>0, <1>3, <1>6 DEF Single
  <1>9. ReqOK'
    BY <1>1, NoRequestIsOne DEF ReqOK, Busy
  <1>10. JobOK'
    <2>1. Job("waiting", {}) \in Jobs
      BY DEF Job, Jobs, Working
    <2> QED
      BY <1>0, <1>1, <2>1 DEF JobOK
  <1>11. ClaimedOK'
    BY <1>1, <1>3 DEF ClaimedOK, OrderOK, Records
  <1>12. SweepOK' /\ CountOK'
    BY <1>0, <1>1 DEF SweepOK, CountOK, ChainOK, Sweep, Sweeping
  <1>13. HistoryOK'
    BY <1>0, MinedIsCounted DEF Crash, Restart
  <1> QED
    BY <1>0, <1>1, <1>3, <1>4, <1>5, <1>7, <1>8, <1>9, <1>10, <1>11, <1>12, <1>13, Kept, GroupsNext DEF Inv

LEMMA WorldInv ==
    ASSUME Inv, Block \/ \E o \in Orders : DeadlinePasses(o) \/ QuoteExpires(o)
    PROVE  Inv'
  <1>0. TypeOK /\ Busy /\ Marked /\ Single /\ ChainOK /\ QuoteOK
    BY Groups DEF Inv
  <1>1. UNCHANGED <<order, line, accepts, jobs, sweeper, crashes, faults>>
    BY DEF Block, DeadlinePasses, QuoteExpires, book
  <1>2. Marked' /\ Single'
    BY <1>0, <1>1, Untouched DEF jobs
  <1>3. QuoteOK'
    <2>1. CASE quote' = quote
      BY <1>0, <2>1 DEF QuoteOK
    <2>2. CASE \E o \in Orders : QuoteExpires(o)
      BY <1>0, <2>2 DEF QuoteExpires, QuoteOK
    <2> QED
      BY <2>1, <2>2 DEF Block, DeadlinePasses, book
  <1>4. ChainOK'
    <2>1. CASE chain' = chain
      BY <1>0, <2>1 DEF ChainOK, chain
    <2>2. CASE \E o \in Orders : DeadlinePasses(o)
      BY <1>0, <2>2 DEF DeadlinePasses, ChainOK
    <2>3. CASE Block
      <3>1. head' = head + 1 /\ head + 1 \in Nat /\ overdue' = overdue
        BY <1>0, <2>3 DEF Block, ChainOK
      <3>2. paid' \in [Transfers -> [block : Nat, amount : Nat]]
        <4>1. CASE paid' = paid
          BY <1>0, <4>1 DEF ChainOK
        <4>2. ASSUME NEW t \in Transfers, NEW a \in Amounts,
                     paid' = [paid EXCEPT ![t] = [block |-> head', amount |-> a]]
              PROVE  paid' \in [Transfers -> [block : Nat, amount : Nat]]
          <5>1. a \in Nat
            BY DepositsAssumption DEF DepositsAssumption
          <5> QED
            BY <1>0, <3>1, <4>2, <5>1 DEF ChainOK
        <4> QED
          BY <2>3, <4>1, <4>2 DEF Block
      <3> QED
        BY <1>0, <3>1, <3>2 DEF ChainOK
    <2> QED
      BY <2>1, <2>2, <2>3 DEF QuoteExpires
  <1> QED
    BY <1>0, <1>1, <1>2, <1>3, <1>4, Kept, GroupsNext DEF Inv, accepts, jobs, sweeper

LEMMA NextInv == Inv /\ [Next]_vars => Inv'
  <1> SUFFICES ASSUME Inv, [Next]_vars PROVE Inv'
    OBVIOUS
  <1>1. CASE UNCHANGED vars
    <2>1. TypeOK /\ Busy /\ Marked /\ Single
      BY DEF Inv
    <2>2. Marked' /\ Single'
      BY <1>1, <2>1, Untouched DEF vars, book, jobs
    <2> QED
      BY <1>1, <2>1, <2>2, Kept, GroupsNext DEF Inv, vars, book, accepts, jobs, sweeper
  <1>2. CASE \E r \in Requests : Answers(r) \/ \E o \in Orders : Accept(r, o) \/ AcceptExpired(r, o)
    BY <1>2, AnswersInv, AcceptInv
  <1>3. CASE \E o \in Orders : Watches(o)
    BY <1>3, WatchesInv
  <1>4. CASE Sweeps \/ RefundUnheard \/ SweepFails
    BY <1>4, SweepsInv
  <1>5. CASE SaveFails
    BY <1>5, SaveFailsInv
  <1>6. CASE Crash
    BY <1>6, CrashInv
  <1>7. CASE Block \/ \E o \in Orders : DeadlinePasses(o) \/ QuoteExpires(o)
    BY <1>7, WorldInv
  <1> QED
    BY <1>1, <1>2, <1>3, <1>4, <1>5, <1>6, <1>7 DEF Next

THEOREM DepositInvariant == Spec => []Inv
  BY InitInv, NextInv, PTL DEF Spec

\* Every record of the acceptance, the search and the sweeper keeps its type.
THEOREM DepositTypes == Spec => []TypeOK
  <1>1. Inv => TypeOK
    BY DEF Inv
  <1> QED
    BY <1>1, DepositInvariant, PTL

\* "not already claimed by another order" (executor.ts): a transfer is the
\* deposit of one order, through crashes, failing saves, overlapping accepts
\* of one order and amounts that collide.
THEOREM DepositClaimedOnce == Spec => []ClaimedOnce
  <1>1. Inv => ClaimedOnce
    <2> SUFFICES ASSUME Inv, NEW o \in Orders, NEW p \in Orders, o # p,
                        order[o].dep # NoTransfer, order[o].dep = order[p].dep
                 PROVE  FALSE
      BY DEF ClaimedOnce
    <2>1. order[o].dep \in Transfers
      <3>1. order[o] \in Records
        BY DEF Inv, TypeOK
      <3> QED
        BY <3>1 DEF Records
    <2> QED
      BY <2>1 DEF Inv, Single, Holds
  <1> QED
    BY <1>1, DepositInvariant, PTL

-----------------------------------------------------------------------------
(* A stray goes back once.                                                 *)

\* What the sweeper is busy with was sent, what it weighs has no record yet,
\* what it refunds is open; and refunds are counted by the record of a stray
\* or as unheard of.
SweepKnows ==
    /\ \A t \in sweep.todo : Sent(t)
    /\ \A t \in Transfers : strays[t].status # "none" => Sent(t)
    /\ sweep.at \in {"weighing", "sending"} => sweep.todo # {}
    /\ sweep.at = "weighing" => strays[First(sweep.todo)].status = "none"
    /\ sweep.at = "sending" => \A t \in sweep.todo : strays[t].status = "open"

Counted ==
    \A t \in Transfers : returned[t] <= unheard[t] + (IF strays[t].status = "returned" THEN 1 ELSE 0)

SweepInv == SweepKnows /\ Counted

\* Steps of the others leave it as it was; the oldest transfer of those the
\* sweeper looks at stays the oldest when a block brings another one.
LEMMA SweepUntouched ==
    ASSUME TypeOK, SweepInv, UNCHANGED <<strays, sweep, returned, unheard>>,
           \A t \in Transfers : Sent(t) => paid'[t] = paid[t]
    PROVE  SweepInv'
  <1>0. ChainOK /\ SweepOK /\ SweepKnows /\ Counted
    BY DEF TypeOK, ChainOK, SweepOK, SweepInv
  <1>1. sweep.todo \in SUBSET Transfers
    BY <1>0 DEF SweepOK
  <1>2. \A t \in Transfers : Sent(t) => Sent(t)'
    BY <1>0 DEF Sent
  <1>3. Oldest(sweep.todo)' = Oldest(sweep.todo)
    <2>1. \A t \in sweep.todo : paid'[t] = paid[t]
      BY <1>0, <1>1 DEF SweepKnows
    <2> QED
      BY <2>1 DEF Oldest
  <1>4. First(sweep.todo)' = First(sweep.todo)
    BY <1>3 DEF First
  <1>5. SweepKnows'
    BY <1>0, <1>1, <1>2, <1>4 DEF SweepKnows
  <1>6. Counted'
    BY <1>0 DEF Counted
  <1> QED
    BY <1>5, <1>6 DEF SweepInv

\* A refund whose end is not heard of, and a sweep that is over.
LEMMA SweepCut ==
    ASSUME TypeOK, SweepInv, MinedUnheard, sweep' = Sweep("resting", {}, 0), UNCHANGED <<paid, strays>>
    PROVE  SweepInv'
  <1>1. SweepKnows'
    BY DEF SweepInv, SweepKnows, Sweep, Sent
  <1>2. PICK mined : /\ returned' = [t \in Transfers |-> IF t \in mined THEN returned[t] + 1 ELSE returned[t]]
                     /\ unheard' = [t \in Transfers |-> IF t \in mined THEN unheard[t] + 1 ELSE unheard[t]]
    BY DEF MinedUnheard
  <1>3. HistoryOK /\ Counted
    BY DEF TypeOK, HistoryOK, SweepInv
  <1>4. Counted'
    <2> SUFFICES ASSUME NEW t \in Transfers
                 PROVE  returned'[t] <= unheard'[t] + (IF strays[t].status = "returned" THEN 1 ELSE 0)
      BY DEF Counted
    <2>1. returned[t] \in Nat /\ unheard[t] \in Nat
      BY <1>3 DEF HistoryOK
    <2>2. returned[t] <= unheard[t] + (IF strays[t].status = "returned" THEN 1 ELSE 0)
      BY <1>3 DEF Counted
    <2>3. CASE t \in mined
      <3>1. returned'[t] = returned[t] + 1 /\ unheard'[t] = unheard[t] + 1
        BY <1>2, <2>3
      <3> QED
        BY <2>1, <2>2, <3>1
    <2>4. CASE t \notin mined
      BY <1>2, <2>2, <2>4
    <2> QED
      BY <2>3, <2>4
  <1> QED
    BY <1>1, <1>4 DEF SweepInv

\* A refund whose end is known: the first of what is left was open, and is off
\* the list.
LEMMA SweepGoesOn ==
    ASSUME TypeOK, SweepInv, sweep.at = "sending", NEW STATE status, status \in Statuses \ {"none"},
           strays' = Tried(status), sweep' = Onward, paid' = paid,
           HistoryOK',
           \A t \in Transfers : t # Refunding => returned'[t] = returned[t] /\ unheard'[t] = unheard[t],
           returned'[Refunding] <= returned[Refunding] + (IF status = "returned" THEN 1 ELSE 0)
                                   + unheard'[Refunding] - unheard[Refunding]
    PROVE  SweepInv'
  <1>0. /\ ChainOK /\ StraysOK /\ SweepOK /\ HistoryOK /\ SweepKnows /\ Counted
        /\ sweep.todo \in SUBSET Transfers
    BY DEF TypeOK, ChainOK, StraysOK, SweepOK, HistoryOK, SweepInv
  <1>1. Refunding \in sweep.todo /\ Refunding \in Transfers
    <2>1. sweep.todo # {}
      BY <1>0 DEF SweepKnows
    <2> QED
      BY <1>0, <2>1, FirstIsOne DEF Refunding
  <1>2. strays[Refunding].status = "open" /\ Sent(Refunding)
    BY <1>0, <1>1 DEF SweepKnows
  <1>3. \A t \in Transfers : strays'[t].status = IF t = Refunding THEN status ELSE strays[t].status
    BY <1>0, <1>1 DEF Tried, StraysOK
  <1>4. /\ sweep'.todo = sweep.todo \ {Refunding}
        /\ sweep'.at = "resting" \/ (sweep'.at = "sending" /\ sweep'.todo # {})
    BY DEF Onward, Refunds, Sweep
  <1>5. \A t \in Transfers : Sent(t)' = Sent(t)
    BY DEF Sent
  <1>6. SweepKnows'
    BY <1>0, <1>2, <1>3, <1>4, <1>5 DEF SweepKnows
  <1>7. Counted'
    <2> SUFFICES ASSUME NEW t \in Transfers
                 PROVE  returned'[t] <= unheard'[t] + (IF strays'[t].status = "returned" THEN 1 ELSE 0)
      BY DEF Counted
    <2>1. /\ returned[t] \in Nat /\ unheard[t] \in Nat /\ returned'[t] \in Nat /\ unheard'[t] \in Nat
          /\ returned[t] <= unheard[t] + (IF strays[t].status = "returned" THEN 1 ELSE 0)
      BY <1>0 DEF HistoryOK, Counted
    <2>2. CASE t = Refunding
      BY <1>2, <1>3, <2>1, <2>2
    <2>3. CASE t # Refunding
      BY <1>3, <2>1, <2>3
    <2> QED
      BY <2>2, <2>3
  <1> QED
    BY <1>6, <1>7 DEF SweepInv

LEMMA InitSweep == Init => SweepInv
  <1> SUFFICES ASSUME Init PROVE SweepInv
    OBVIOUS
  <1>1. SweepKnows
    BY DEF Init, SweepKnows, Sweep
  <1>2. Counted
    BY DEF Init, Counted
  <1> QED
    BY <1>1, <1>2 DEF SweepInv

LEMMA NextSweep ==
    ASSUME TypeOK, TypeOK', SweepInv, [Next]_vars
    PROVE  SweepInv'
  <1>0. /\ ChainOK /\ StraysOK /\ SweepOK /\ HistoryOK /\ HistoryOK' /\ SweepKnows /\ Counted
        /\ sweep.todo \in SUBSET Transfers
    BY DEF TypeOK, ChainOK, StraysOK, SweepOK, HistoryOK, SweepInv
  <1>1. ASSUME UNCHANGED <<chain, sweeper>> PROVE SweepInv'
    BY <1>1, SweepUntouched DEF chain, sweeper
  <1>2. CASE \E r \in Requests : Answers(r) \/ \E o \in Orders : Accept(r, o) \/ AcceptExpired(r, o)
    BY <1>1, <1>2 DEF Answers, ExpiredLands, QuoteLands, BlockRead, AcceptedLands, WantedLands, AwaitingLands,
       Enqueue, Accept, AcceptExpired
  <1>3. CASE \E o \in Orders : Watches(o) \/ QuoteExpires(o)
    BY <1>1, <1>3 DEF Watches, Search, Claim, NotFound, ClaimLands, Decide, DecisionLands, Ignored, QuoteExpires
  <1>4. CASE SaveFails
    BY <1>1, <1>4 DEF SaveFails
  <1>5. CASE UNCHANGED vars
    BY <1>1, <1>5 DEF vars
  <1>6. CASE \E o \in Orders : DeadlinePasses(o)
    BY <1>6, SweepUntouched DEF DeadlinePasses, sweeper
  <1>7. CASE Block
    <2>1. \A t \in Transfers : Sent(t) => paid'[t] = paid[t]
      BY <1>0, <1>7 DEF Block, ChainOK
    <2> QED
      BY <1>7, <2>1, SweepUntouched DEF Block, sweeper
  <1>8. CASE Crash \/ SweepFails
    BY <1>8, SweepCut DEF Crash, Restart, SweepFails, chain
  <1>9. CASE Refunded \/ RefundFails \/ RefundUnheard
    <2>1. sweep.at = "sending" /\ sweep' = Onward /\ paid' = paid
      BY <1>9 DEF Refunded, RefundFails, RefundUnheard, chain
    <2>2. Refunding \in Transfers
      <3>1. sweep.todo # {}
        BY <1>0, <2>1 DEF SweepKnows
      <3> QED
        BY <1>0, <3>1, FirstIsOne DEF Refunding
    <2>3. returned[Refunding] \in Nat /\ unheard[Refunding] \in Nat
      BY <1>0, <2>2 DEF HistoryOK
    <2>4. CASE Refunded
      <3>1. /\ strays' = Tried("returned") /\ unheard' = unheard
            /\ returned' = [returned EXCEPT ![Refunding] = @ + 1]
        BY <2>4 DEF Refunded
      <3>2. /\ \A t \in Transfers : t # Refunding => returned'[t] = returned[t] /\ unheard'[t] = unheard[t]
            /\ returned'[Refunding] = returned[Refunding] + 1
        BY <1>0, <2>2, <3>1 DEF HistoryOK
      <3> DEFINE status == "returned"
      <3>3. status \in Statuses \ {"none"}
        BY DEF Statuses
      <3>4. returned'[Refunding] <= returned[Refunding] + (IF status = "returned" THEN 1 ELSE 0)
                                    + unheard'[Refunding] - unheard[Refunding]
        BY <2>3, <3>1, <3>2
      <3> QED
        BY <1>0, <2>1, <3>1, <3>2, <3>3, <3>4, SweepGoesOn
    <2>5. CASE RefundFails \/ RefundUnheard
      <3>1. Failed \in Statuses \ {"none"} /\ Failed # "returned" /\ strays' = Tried(Failed)
        BY <2>5 DEF RefundFails, RefundUnheard, Failed, Statuses
      <3>2. /\ \A t \in Transfers : t # Refunding => returned'[t] = returned[t] /\ unheard'[t] = unheard[t]
            /\ returned'[Refunding] - returned[Refunding] = unheard'[Refunding] - unheard[Refunding]
            /\ returned'[Refunding] \in Nat /\ unheard'[Refunding] \in Nat
        BY <1>0, <2>2, <2>3, <2>5 DEF HistoryOK, RefundFails, RefundUnheard
      <3>3. returned'[Refunding] <= returned[Refunding] + (IF Failed = "returned" THEN 1 ELSE 0)
                                    + unheard'[Refunding] - unheard[Refunding]
        BY <2>3, <3>1, <3>2
      <3> QED
        BY <1>0, <2>1, <3>1, <3>2, <3>3, SweepGoesOn
    <2> QED
      BY <1>9, <2>4, <2>5
  <1>10. CASE SweepStarts \/ Judge \/ Weigh \/ Swept
    <2>1. UNCHANGED <<paid, returned, unheard>>
      BY <1>10 DEF SweepStarts, Judge, Weigh, Swept, chain
    <2>2. \A t \in Transfers : Sent(t)' = Sent(t)
      BY <2>1 DEF Sent
    <2>3. sweep.todo # {} => First(sweep.todo) \in sweep.todo
      BY <1>0, FirstIsOne
    <2>4. CASE Weigh
      <3> DEFINE t == First(sweep.todo)
      <3>1. /\ sweep.at = "weighing" /\ t \in sweep.todo /\ strays[t].status = "none" /\ Sent(t)
        BY <1>0, <2>3, <2>4 DEF Weigh, SweepKnows
      <3>2. PICK status \in {"open", "held"} : strays' = [strays EXCEPT ![t].status = status]
        BY <2>4 DEF Weigh
      <3>3. sweep'.at = "judging" /\ sweep'.todo = sweep.todo \ {t}
        BY <1>0, <2>4 DEF Weigh, SweepOK
      <3>4. \A u \in Transfers : strays'[u].status = IF u = t THEN status ELSE strays[u].status
        BY <1>0, <3>1, <3>2 DEF StraysOK
      <3>5. SweepKnows'
        BY <1>0, <2>2, <3>1, <3>3, <3>4 DEF SweepKnows
      <3>6. Counted'
        BY <1>0, <2>1, <3>1, <3>2, <3>4 DEF Counted
      <3> QED
        BY <3>5, <3>6 DEF SweepInv
    <2>5. CASE strays' = strays
      <3>1. Counted'
        BY <1>0, <2>1, <2>5 DEF Counted
      <3>0. ASSUME sweep' = Refunds(Due) PROVE SweepInv'
        <4>1. /\ sweep'.todo = Due
              /\ sweep'.at = "resting" \/ (sweep'.at = "sending" /\ sweep'.todo # {})
          BY <3>0 DEF Refunds, Sweep
        <4>2. \A t \in Due : t \in Transfers /\ strays[t].status = "open" /\ Sent(t)
          BY <1>0 DEF Due, SweepKnows
        <4> QED
          BY <1>0, <2>2, <2>5, <3>1, <4>1, <4>2 DEF SweepInv, SweepKnows
      <3>2. CASE SweepStarts
        <4>1. CASE sweep' = Refunds(Due)
          BY <3>0, <4>1
        <4>2. CASE sweep' # Refunds(Due)
          <5>1. sweep'.at = "judging" /\ \A t \in sweep'.todo : t \in Transfers /\ Sent(t)
            BY <3>2, <4>2 DEF SweepStarts, Sweep
          <5> QED
            BY <1>0, <2>2, <2>5, <3>1, <5>1 DEF SweepInv, SweepKnows
        <4> QED
          BY <4>1, <4>2
      <3>3. CASE Judge
        <4> DEFINE t == First(sweep.todo)
        <4>1. sweep.todo # {} /\ sweep.at = "judging" /\ t \in sweep.todo /\ t \in Transfers
          BY <1>0, <2>3, <3>3 DEF Judge
        <4>2. CASE Spoken(t)
          <5>1. sweep'.at = "judging" /\ sweep'.todo = sweep.todo \ {t}
            BY <1>0, <3>3, <4>1, <4>2 DEF Judge, SweepOK
          <5> QED
            BY <1>0, <2>2, <2>5, <3>1, <5>1 DEF SweepInv, SweepKnows
        <4>3. CASE ~Spoken(t)
          <5>1. sweep'.at = "weighing" /\ sweep'.todo = sweep.todo
            BY <1>0, <3>3, <4>3 DEF Judge, SweepOK
          <5>2. strays[t].status = "none"
            BY <4>3 DEF Spoken
          <5>3. Oldest(sweep.todo)' = Oldest(sweep.todo)
            BY <2>1, <5>1 DEF Oldest
          <5>4. First(sweep.todo)' = t
            BY <5>3 DEF First
          <5> QED
            BY <1>0, <2>2, <2>5, <3>1, <4>1, <5>1, <5>2, <5>4 DEF SweepInv, SweepKnows
        <4> QED
          BY <4>2, <4>3
      <3>4. CASE Swept
        BY <3>0, <3>4 DEF Swept
      <3>5. CASE Weigh
        BY <2>4, <3>5
      <3> QED
        BY <1>10, <3>2, <3>3, <3>4, <3>5
    <2> QED
      BY <1>10, <2>4, <2>5 DEF SweepStarts, Judge, Swept
  <1> QED
    BY <1>2, <1>3, <1>4, <1>5, <1>6, <1>7, <1>8, <1>9, <1>10 DEF Next, Sweeps

\* However often sweeps fail, refunds revert and the process dies, a stray is
\* refunded once, but for each refund whose end the sweeper did not learn.
THEOREM StrayReturnedOnce == Spec => []ReturnedOnce
  <1>1. TypeOK /\ SweepInv => ReturnedOnce
    <2> SUFFICES ASSUME TypeOK, SweepInv, NEW t \in Transfers PROVE returned[t] <= 1 + unheard[t]
      BY DEF ReturnedOnce
    <2>1. returned[t] \in Nat /\ unheard[t] \in Nat
      BY DEF TypeOK
    <2>2. returned[t] <= unheard[t] + (IF strays[t].status = "returned" THEN 1 ELSE 0)
      BY DEF SweepInv, Counted
    <2> QED
      BY <2>1, <2>2
  <1>2. TypeOK /\ TypeOK' /\ SweepInv /\ [Next]_vars => SweepInv'
    BY NextSweep
  <1> QED
    BY <1>1, <1>2, InitSweep, DepositTypes, PTL DEF Spec

-----------------------------------------------------------------------------
(***************************************************************************)
(* What a user was told, and what is nobody's.  An accept and a job save   *)
(* several times, and each awaits its save before the next: the line has   *)
(* one save of each.  So long as accepts of one order do not overlap, the  *)
(* only saves that follow an answer are the job's, and they repeat amount  *)
(* and block.                                                              *)
(***************************************************************************)

\* The awaits of an accept at which a save of its is under way.
Saving == {"quote", "expired", "accepted", "wanted", "awaiting"}

\* A save is awaited by the accept that is about its order, or by the order's own
\* job, and nobody awaits two.
Owned ==
    \A w \in In(line) :
        IF w.by \in Requests THEN req[w.by].at \in Saving /\ req[w.by].order = w.order
        ELSE w.by = w.order /\ job[w.by].at \in {"claiming", "deciding"}

Apart(s) == \A i, j \in 1 .. Len(s) : s[i].by = s[j].by => i = j

OneEach == Apart(line)

\* A step of `a` on the line: what was its is gone, and only W is new.
Turned(a, W) ==
    OneEach' /\ \A v \in In(line') : v \in W \/ (v \in In(line) /\ v.by # a)

LEMMA AppendApart ==
    ASSUME NEW s \in Seq(Saves), NEW w \in Saves, Apart(s), \A v \in In(s) : v.by # w.by
    PROVE  Apart(Append(s, w))
  <1>1. Len(Append(s, w)) = Len(s) + 1 /\ Len(s) \in Nat
    OBVIOUS
  <1>2. \A i \in 1 .. Len(s) + 1 : Append(s, w)[i] = IF i = Len(s) + 1 THEN w ELSE s[i]
    OBVIOUS
  <1>3. \A i \in 1 .. Len(s) : s[i].by # w.by
    BY DEF In
  <1> QED
    BY <1>1, <1>2, <1>3 DEF Apart

LEMMA TailApart ==
    ASSUME NEW s \in Seq(Saves), s # <<>>, Apart(s)
    PROVE  /\ Tail(s) \in Seq(Saves) /\ Apart(Tail(s))
           /\ \A v \in In(Tail(s)) : v \in In(s) /\ v.by # Head(s).by
  <1>1. Len(s) \in Nat /\ Len(s) >= 1 /\ Head(s) = s[1]
    OBVIOUS
  <1>2. /\ Tail(s) \in Seq(Saves) /\ Len(Tail(s)) = Len(s) - 1
        /\ \A i \in 1 .. Len(s) - 1 : Tail(s)[i] = s[i + 1]
    OBVIOUS
  <1>3. Apart(Tail(s))
    <2> SUFFICES ASSUME NEW i \in 1 .. Len(Tail(s)), NEW j \in 1 .. Len(Tail(s)), Tail(s)[i].by = Tail(s)[j].by
                 PROVE  i = j
      BY DEF Apart
    <2>1. i + 1 \in 1 .. Len(s) /\ j + 1 \in 1 .. Len(s) /\ s[i + 1].by = s[j + 1].by
      BY <1>1, <1>2
    <2>2. i + 1 = j + 1
      BY <2>1 DEF Apart
    <2> QED
      BY <1>1, <1>2, <2>2
  <1>4. ASSUME NEW v \in In(Tail(s)) PROVE v \in In(s) /\ v.by # Head(s).by
    <2>1. PICK i \in 1 .. Len(s) - 1 : v = s[i + 1]
      BY <1>2 DEF In
    <2>2. i + 1 \in 1 .. Len(s) /\ i + 1 # 1 /\ 1 \in 1 .. Len(s)
      BY <1>1
    <2>3. v.by # s[1].by
      BY <2>1, <2>2 DEF Apart
    <2> QED
      BY <1>1, <2>1, <2>2, <2>3 DEF In
  <1> QED
    BY <1>2, <1>3, <1>4

LEMMA TurnsOn ==
    ASSUME LineOK, OneEach, NEW w \in Saves,
           \/ line' = Append(line, w) /\ \A v \in In(line) : v.by # w.by
           \/ line # <<>> /\ Head(line).by = w.by /\ line' = Append(Tail(line), w)
    PROVE  Turned(w.by, {w})
  <1>0. line \in Seq(Saves) /\ Apart(line)
    BY DEF LineOK, OneEach
  <1>1. CASE line' = Append(line, w) /\ \A v \in In(line) : v.by # w.by
    <2>1. Apart(Append(line, w)) /\ In(Append(line, w)) = In(line) \cup {w}
      BY <1>0, <1>1, AppendApart, Line
    <2> QED
      BY <1>1, <2>1 DEF Turned, OneEach
  <1>2. CASE line # <<>> /\ Head(line).by = w.by /\ line' = Append(Tail(line), w)
    <2>1. /\ Tail(line) \in Seq(Saves) /\ Apart(Tail(line))
          /\ \A v \in In(Tail(line)) : v \in In(line) /\ v.by # w.by
      BY <1>0, <1>2, TailApart
    <2>2. Apart(Append(Tail(line), w)) /\ In(Append(Tail(line), w)) = In(Tail(line)) \cup {w}
      BY <2>1, AppendApart, Line
    <2> QED
      BY <1>2, <2>1, <2>2 DEF Turned, OneEach
  <1> QED
    BY <1>1, <1>2

LEMMA TurnEnds ==
    ASSUME LineOK, OneEach, NEW a,
           \/ line' = line /\ \A v \in In(line) : v.by # a
           \/ line # <<>> /\ Head(line).by = a /\ line' = Tail(line)
    PROVE  Turned(a, {})
  <1>0. line \in Seq(Saves) /\ Apart(line)
    BY DEF LineOK, OneEach
  <1>1. CASE line' = line /\ \A v \in In(line) : v.by # a
    BY <1>0, <1>1 DEF Turned, OneEach, Apart, In
  <1>2. CASE line # <<>> /\ Head(line).by = a /\ line' = Tail(line)
    BY <1>0, <1>2, TailApart DEF Turned, OneEach
  <1> QED
    BY <1>1, <1>2

\* With no overlapping accepts, an order has one request, and none once its user was
\* told an amount or its job runs; and then its quote is accepted.
Alone ==
    /\ \A r \in Requests : req[r].at = "none" => req[r].order = NoOrder
    /\ \A r, q \in Requests : req[r].order \in Orders /\ req[r].order = req[q].order => r = q

Once ==
    /\ \A o \in Orders : told[o] # {} \/ job[o].at # "none" =>
           quote[o] = "accepted" /\ \A r \in Requests : req[r].order # o
    /\ \A r \in Requests : req[r].at \in {"block", "accepted", "wanted", "awaiting", "enqueue"} =>
           quote[req[r].order] = "accepted"

\* The answer carries what the order waits for, and the job's saves repeat it.
Answer == \A r \in Requests : req[r].at = "enqueue" => req[r].want = order[req[r].order].want

Repeats ==
    \A w \in In(line) : w.by \in Orders =>
        /\ w.rec.want = order[w.by].want /\ w.rec.from = order[w.by].from
        /\ w.rec.st = "AWAITING_DEPOSIT" => order[w.by].st = "AWAITING_DEPOSIT"

Agreed == Owned /\ OneEach /\ Alone /\ Once /\ Answer /\ Repeats /\ ToldIsWanted

\* What nobody awaits a save for has none on its way.
LEMMA NothingOfARequest ==
    ASSUME Owned, NEW r \in Requests, req[r].at \notin Saving, NEW v \in In(line)
    PROVE  v.by # r
  BY DEF Owned

LEMMA NothingOfAJob ==
    ASSUME Owned, NEW o \in Orders, job[o].at \notin {"claiming", "deciding"}, NEW v \in In(line)
    PROVE  v.by # o
  BY DepositsAssumption DEF Owned, DepositsAssumption

\* A step of the one accept of order o, which is `s` after it: other orders' records
\* and quotes stay, and W is what it saves.
RequestStep(r, s, o, W) ==
    /\ Turned(r, W) /\ W \subseteq Saves
    /\ req' = [req EXCEPT ![r] = s] /\ UNCHANGED <<job, told>>
    /\ s \in Accepts /\ IF s.at = "none" THEN s.order = NoOrder ELSE s.order = o
    /\ \A q \in Requests : q # r => req[q].order # o
    /\ told[o] = {} /\ job[o].at = "none"
    /\ \A w \in W : w.by = r /\ w.order = s.order /\ s.at \in Saving
    /\ \A p \in Orders : p # o => order'[p] = order[p] /\ quote'[p] = quote[p]
    /\ s.at \in {"block", "accepted", "wanted", "awaiting", "enqueue"} => quote'[o] = "accepted"
    /\ s.at = "enqueue" => s.want = order'[o].want

LEMMA RequestAgrees ==
    ASSUME ReqOK, LineOK', Agreed, NEW r \in Requests, NEW o \in Orders, NEW s, NEW W, RequestStep(r, s, o, W)
    PROVE  Agreed'
  <1>0. Orders \cap Requests = {} /\ NoOrder \notin Orders
    BY DepositsAssumption DEF DepositsAssumption
  <1>1. \A q \in Requests : req'[q] = IF q = r THEN s ELSE req[q]
    BY DEF ReqOK, RequestStep
  <1>2. Busy
    BY DEF ReqOK
  <1> USE DEF RequestStep
  <1>3. Owned'
    <2> SUFFICES ASSUME NEW v \in In(line')
                 PROVE  IF v.by \in Requests THEN req'[v.by].at \in Saving /\ req'[v.by].order = v.order
                        ELSE v.by = v.order /\ job[v.by].at \in {"claiming", "deciding"}
      BY DEF Owned
    <2>1. CASE v \in W
      BY <1>1, <2>1
    <2>2. CASE v \in In(line) /\ v.by # r
      BY <1>1, <2>2 DEF Agreed, Owned
    <2> QED
      BY <2>1, <2>2 DEF Turned
  <1>4. Alone'
    <2>1. \A q \in Requests : req'[q].at = "none" => req'[q].order = NoOrder
      BY <1>1 DEF Agreed, Alone
    <2>2. ASSUME NEW p \in Requests, NEW q \in Requests, req'[p].order \in Orders, req'[p].order = req'[q].order
          PROVE  p = q
      <3>1. CASE p = r /\ q # r
        BY <1>0, <1>1, <2>2, <3>1
      <3>2. CASE q = r /\ p # r
        BY <1>0, <1>1, <2>2, <3>2
      <3>3. CASE p # r /\ q # r
        BY <1>1, <2>2, <3>3 DEF Agreed, Alone
      <3> QED
        BY <3>1, <3>2, <3>3
    <2> QED
      BY <2>1, <2>2 DEF Alone
  <1>5. Once'
    <2>1. ASSUME NEW p \in Orders, told[p] # {} \/ job[p].at # "none"
          PROVE  quote'[p] = "accepted" /\ \A q \in Requests : req'[q].order # p
      <3>1. p # o
        BY <2>1
      <3>2. quote[p] = "accepted" /\ \A q \in Requests : req[q].order # p
        BY <2>1 DEF Agreed, Once
      <3> QED
        BY <1>0, <1>1, <3>1, <3>2
    <2>2. ASSUME NEW q \in Requests, req'[q].at \in {"block", "accepted", "wanted", "awaiting", "enqueue"}
          PROVE  quote'[req'[q].order] = "accepted"
      <3>1. CASE q = r
        BY <1>1, <2>2, <3>1
      <3>2. CASE q # r
        <4>1. quote[req[q].order] = "accepted" /\ req[q].order \in Orders /\ req[q].order # o
          BY <1>1, <1>2, <2>2, <3>2 DEF Agreed, Once, Busy
        <4> QED
          BY <1>1, <3>2, <4>1
      <3> QED
        BY <3>1, <3>2
    <2> QED
      BY <2>1, <2>2 DEF Once
  <1>6. Answer'
    <2> SUFFICES ASSUME NEW q \in Requests, req'[q].at = "enqueue"
                 PROVE  req'[q].want = order'[req'[q].order].want
      BY DEF Answer
    <2>1. CASE q = r
      BY <1>1, <2>1
    <2>2. CASE q # r
      <3>1. req[q].want = order[req[q].order].want /\ req[q].order \in Orders /\ req[q].order # o
        BY <1>1, <1>2, <2>2 DEF Agreed, Answer, Busy
      <3> QED
        BY <1>1, <2>2, <3>1
    <2> QED
      BY <2>1, <2>2
  <1>7. Repeats'
    <2> SUFFICES ASSUME NEW v \in In(line'), v.by \in Orders
                 PROVE  /\ v.rec.want = order'[v.by].want /\ v.rec.from = order'[v.by].from
                        /\ v.rec.st = "AWAITING_DEPOSIT" => order'[v.by].st = "AWAITING_DEPOSIT"
      BY DEF Repeats
    <2>1. v \in In(line)
      BY <1>0 DEF Turned
    <2>2. v.by # o
      BY <1>0, <2>1 DEF Agreed, Owned
    <2> QED
      BY <2>1, <2>2 DEF Agreed, Repeats
  <1>8. ToldIsWanted'
    BY DEF Agreed, ToldIsWanted
  <1> QED
    BY <1>3, <1>4, <1>5, <1>6, <1>7, <1>8 DEF Agreed, Turned

\* A step of order o's job, which is `j` after it: the record keeps the amount, and
\* what it saves, W, repeats it.
JobStep(o, j, W) ==
    /\ Turned(o, W) /\ W \subseteq Saves
    /\ job' = [job EXCEPT ![o] = j] /\ j \in Jobs /\ job[o].at # "none"
    /\ UNCHANGED <<req, told, quote>>
    /\ \A w \in W : /\ w.by = o /\ w.order = o /\ j.at \in {"claiming", "deciding"}
                    /\ w.rec.want = order'[o].want /\ w.rec.from = order'[o].from
                    /\ w.rec.st = "AWAITING_DEPOSIT" => order'[o].st = "AWAITING_DEPOSIT"
    /\ \A p \in Orders : p # o => order'[p] = order[p]
    /\ order'[o].want = order[o].want

LEMMA JobAgrees ==
    ASSUME ReqOK, JobOK, LineOK', Agreed, NEW o \in Orders, NEW j, NEW W, JobStep(o, j, W)
    PROVE  Agreed'
  <1>0. Orders \cap Requests = {} /\ NoOrder \notin Orders
    BY DepositsAssumption DEF DepositsAssumption
  <1>1. \A p \in Orders : job'[p] = IF p = o THEN j ELSE job[p]
    BY DEF JobOK, JobStep
  <1> USE DEF JobStep, ReqOK
  <1>2. quote[o] = "accepted" /\ \A q \in Requests : req[q].order # o
    BY DEF Agreed, Once
  <1>3. Owned'
    <2> SUFFICES ASSUME NEW v \in In(line')
                 PROVE  IF v.by \in Requests THEN req[v.by].at \in Saving /\ req[v.by].order = v.order
                        ELSE v.by = v.order /\ job'[v.by].at \in {"claiming", "deciding"}
      BY DEF Owned
    <2>0. v \in Saves
      BY DEF In, LineOK
    <2>1. CASE v \in W
      BY <1>0, <1>1, <2>1
    <2>2. CASE v \in In(line) /\ v.by # o
      <3>1. v.by \in Orders \cup Requests
        BY <2>0 DEF Saves
      <3> QED
        BY <1>1, <2>2, <3>1 DEF Agreed, Owned
    <2> QED
      BY <2>1, <2>2 DEF Turned
  <1>4. Alone'
    BY DEF Agreed, Alone
  <1>5. Once'
    BY <1>1, <1>2 DEF Agreed, Once
  <1>6. Answer'
    BY <1>2 DEF Agreed, Answer, Busy
  <1>7. Repeats'
    <2> SUFFICES ASSUME NEW v \in In(line'), v.by \in Orders
                 PROVE  /\ v.rec.want = order'[v.by].want /\ v.rec.from = order'[v.by].from
                        /\ v.rec.st = "AWAITING_DEPOSIT" => order'[v.by].st = "AWAITING_DEPOSIT"
      BY DEF Repeats
    <2>1. CASE v \in W
      BY <2>1
    <2>2. CASE v \in In(line) /\ v.by # o
      BY <2>2 DEF Agreed, Repeats
    <2> QED
      BY <2>1, <2>2 DEF Turned
  <1>8. ToldIsWanted'
    BY DEF Agreed, ToldIsWanted
  <1> QED
    BY <1>3, <1>4, <1>5, <1>6, <1>7, <1>8 DEF Agreed, Turned

\* Steps of the others: a quote that was accepted stays so.
LEMMA OthersAgree ==
    ASSUME Agreed, UNCHANGED <<order, line, req, job, told>>, \A o \in Orders : quote[o] = "accepted" => quote'[o] = "accepted",
           Busy
    PROVE  Agreed'
  <1>1. Owned' /\ OneEach' /\ Alone' /\ Answer' /\ Repeats' /\ ToldIsWanted'
    BY DEF Agreed, Owned, OneEach, Apart, Alone, Answer, Repeats, ToldIsWanted, In
  <1>2. Once'
    BY DEF Agreed, Once, Busy
  <1> QED
    BY <1>1, <1>2 DEF Agreed


-----------------------------------------------------------------------------
(* Who is looked for, and what is judged.                                  *)

\* What an accept is about to save opens its order only at the last await, and from
\* the block that it read.
Opens ==
    \A w \in In(line) : w.by \in Requests =>
        /\ req[w.by].at \in {"wanted", "awaiting"} => w.rec.from = req[w.by].from
        /\ req[w.by].at \in {"expired", "accepted", "wanted"} => w.rec.st # "AWAITING_DEPOSIT"

\* That block is not final while the accept is under way.
Promptly ==
    \A r \in Requests : req[r].at \in {"block", "accepted", "wanted", "awaiting"} =>
        head < req[r].from + DEPOSIT_FINALITY

\* What the sweeper has taken for a stray, or is about to.
Judged(t) == strays[t].status # "none" \/ (sweep.at = "weighing" /\ t = First(sweep.todo))

Buried ==
    /\ \A t \in Transfers : Judged(t) => paid[t].block + DEPOSIT_FINALITY <= head
    /\ sweep.at \in {"judging", "weighing"} =>
           \A t \in sweep.todo : paid[t].block + DEPOSIT_FINALITY <= head

Nobodys ==
    \A t \in Transfers : Judged(t) =>
        /\ t \notin claimed
        /\ \A o \in Orders : order[o].st = "AWAITING_DEPOSIT" /\ order[o].want = paid[t].amount =>
               paid[t].block < order[o].from

\* What a job has found, its order may claim.
Claimable(o, T) ==
    /\ order[o].st = "AWAITING_DEPOSIT"
    /\ \A t \in T : Sent(t) /\ order[o].from <= paid[t].block /\ paid[t].amount = order[o].want

Seen == \A o \in Orders : job[o].at = "found" => Claimable(o, job[o].seen)

Timely == Opens /\ Promptly /\ Buried /\ Nobodys /\ Seen

\* What a step of an accept owes to Timely: an order that opens waits from a block
\* that is not final.
OpensInTime(s, o, W) ==
    /\ \A w \in W : /\ s.at \in {"wanted", "awaiting"} => w.rec.from = s.from
                    /\ s.at \in {"expired", "accepted", "wanted"} => w.rec.st # "AWAITING_DEPOSIT"
    /\ s.at \in {"block", "accepted", "wanted", "awaiting"} => head < s.from + DEPOSIT_FINALITY
    /\ order'[o].st = "AWAITING_DEPOSIT" =>
           order'[o] = order[o] \/ head < order'[o].from + DEPOSIT_FINALITY

\* And a step of a job: the order opens no more, and claims what nobody judged.
ClaimsInTime(o, j) ==
    /\ order'[o].st = "AWAITING_DEPOSIT" => order[o].st = "AWAITING_DEPOSIT" /\ order'[o].from = order[o].from
    /\ \A t \in claimed' : t \in claimed \/ ~Judged(t)
    /\ j.at = "found" => order' = order /\ Claimable(o, j.seen)

LEMMA RequestIsTimely ==
    ASSUME TypeOK, OrderOK', ReqOK, LineOK', Agreed, Timely, NEW r \in Requests, NEW o \in Orders, NEW s, NEW W,
           RequestStep(r, s, o, W), OpensInTime(s, o, W), UNCHANGED <<chain, claimed, sweeper>>
    PROVE  Timely'
  <1>0. /\ Orders \cap Requests = {} /\ DEPOSIT_FINALITY \in Nat /\ head \in Nat
        /\ \A t \in Transfers : paid[t].block \in Nat
        /\ \A p \in Orders : order'[p].from \in Nat
    BY DepositsAssumption DEF DepositsAssumption, TypeOK, OrderOK, Records
  <1>1. \A q \in Requests : req'[q] = IF q = r THEN s ELSE req[q]
    BY DEF ReqOK, RequestStep
  <1>2. UNCHANGED <<head, paid, strays, sweep, claimed>>
    BY DEF chain, sweeper
  <1>3. \A t : Judged(t)' <=> Judged(t)
    BY <1>2 DEF Judged, First, Oldest
  <1>4. Opens'
    <2> SUFFICES ASSUME NEW v \in In(line'), v.by \in Requests
                 PROVE  /\ req'[v.by].at \in {"wanted", "awaiting"} => v.rec.from = req'[v.by].from
                        /\ req'[v.by].at \in {"expired", "accepted", "wanted"} => v.rec.st # "AWAITING_DEPOSIT"
      BY DEF Opens
    <2>1. CASE v \in W
      BY <1>1, <2>1 DEF RequestStep, OpensInTime
    <2>2. CASE v \in In(line) /\ v.by # r
      BY <1>1, <2>2 DEF Timely, Opens
    <2> QED
      BY <2>1, <2>2 DEF RequestStep, Turned
  <1>5. Promptly'
    BY <1>1, <1>2 DEF Timely, Promptly, OpensInTime
  <1>6. Buried'
    BY <1>2, <1>3 DEF Timely, Buried
  <1>7. Nobodys'
    <2> SUFFICES ASSUME NEW t \in Transfers, Judged(t)
                 PROVE  /\ t \notin claimed
                        /\ \A p \in Orders : order'[p].st = "AWAITING_DEPOSIT" /\ order'[p].want = paid[t].amount =>
                               paid[t].block < order'[p].from
      BY <1>2, <1>3 DEF Nobodys
    <2>1. /\ t \notin claimed /\ paid[t].block + DEPOSIT_FINALITY <= head
          /\ \A p \in Orders : order[p].st = "AWAITING_DEPOSIT" /\ order[p].want = paid[t].amount =>
                 paid[t].block < order[p].from
      BY DEF Timely, Nobodys, Buried
    <2>2. ASSUME NEW p \in Orders, order'[p].st = "AWAITING_DEPOSIT", order'[p].want = paid[t].amount
          PROVE  paid[t].block < order'[p].from
      <3>1. CASE order'[p] = order[p]
        BY <2>1, <2>2, <3>1
      <3>2. CASE order'[p] # order[p]
        <4>1. head < order'[p].from + DEPOSIT_FINALITY
          BY <2>2, <3>2 DEF RequestStep, OpensInTime
        <4> QED
          BY <1>0, <2>1, <4>1
      <3> QED
        BY <3>1, <3>2
    <2> QED
      BY <2>1, <2>2
  <1>8. Seen'
    BY <1>2 DEF Timely, Seen, Claimable, Sent, RequestStep
  <1> QED
    BY <1>4, <1>5, <1>6, <1>7, <1>8 DEF Timely

LEMMA JobIsTimely ==
    ASSUME ReqOK, JobOK, Agreed, Timely, NEW o \in Orders, NEW j, NEW W,
           JobStep(o, j, W), ClaimsInTime(o, j), UNCHANGED <<chain, sweeper>>
    PROVE  Timely'
  <1>0. Orders \cap Requests = {}
    BY DepositsAssumption DEF DepositsAssumption
  <1>1. \A p \in Orders : job'[p] = IF p = o THEN j ELSE job[p]
    BY DEF JobOK, JobStep
  <1>2. UNCHANGED <<head, paid, strays, sweep, req>>
    BY DEF chain, sweeper, JobStep
  <1>3. \A t : Judged(t)' <=> Judged(t)
    BY <1>2 DEF Judged, First, Oldest
  <1>4. Opens'
    BY <1>0, <1>2 DEF Timely, Opens, JobStep, Turned
  <1>5. Promptly'
    BY <1>2 DEF Timely, Promptly
  <1>6. Buried'
    BY <1>2, <1>3 DEF Timely, Buried
  <1>7. Nobodys'
    <2> SUFFICES ASSUME NEW t \in Transfers, Judged(t)
                 PROVE  /\ t \notin claimed'
                        /\ \A p \in Orders : order'[p].st = "AWAITING_DEPOSIT" /\ order'[p].want = paid[t].amount =>
                               paid[t].block < order'[p].from
      BY <1>2, <1>3 DEF Nobodys
    <2>1. /\ t \notin claimed
          /\ \A p \in Orders : order[p].st = "AWAITING_DEPOSIT" /\ order[p].want = paid[t].amount =>
                 paid[t].block < order[p].from
      BY DEF Timely, Nobodys
    <2> QED
      BY <2>1 DEF ClaimsInTime, JobStep
  <1>8. Seen'
    <2> SUFFICES ASSUME NEW p \in Orders, job'[p].at = "found" PROVE Claimable(p, job[p].seen)'
      BY DEF Seen
    <2>1. CASE p = o
      BY <1>1, <1>2, <2>1 DEF ClaimsInTime, Claimable, Sent
    <2>2. CASE p # o
      BY <1>1, <1>2, <2>2 DEF Timely, Seen, Claimable, Sent, JobStep
    <2> QED
      BY <2>1, <2>2
  <1> QED
    BY <1>4, <1>5, <1>6, <1>7, <1>8 DEF Timely

\* The accept of an order is the only one, and no job of the order runs yet.
LEMMA Sole ==
    ASSUME Busy, Agreed, NEW r \in Requests, req[r].at # "none"
    PROVE  /\ req[r].order \in Orders /\ told[req[r].order] = {} /\ job[req[r].order].at = "none"
           /\ \A q \in Requests : q # r => req[q].order # req[r].order
  BY DEF Busy, Agreed, Alone, Once

LEMMA Unasked ==
    ASSUME Agreed, NEW o \in Orders, quote[o] # "accepted"
    PROVE  told[o] = {} /\ job[o].at = "none"
  BY DEF Agreed, Once

\* What Redis answers first, and what the map is after it.
LEMMA HeadOfLine ==
    ASSUME LineOK, NEW a, Answered(a)
    PROVE  Head(line) \in Saves /\ Head(line) \in In(line) /\ Head(line).by = a
  <1>1. line \in Seq(Saves) /\ line # <<>>
    BY DEF LineOK, Answered
  <1>2. PICK w : w \in Saves
    BY <1>1
  <1> QED
    BY <1>1, <1>2, Line DEF Answered

LEMMA FirstLands ==
    ASSUME OrderOK, LineOK, NEW a, Answered(a), order' = Landed
    PROVE  /\ Head(line) \in Saves /\ Head(line) \in In(line) /\ Head(line).by = a
           /\ order'[Head(line).order] = Head(line).rec
           /\ \A p \in Orders : p # Head(line).order => order'[p] = order[p]
           /\ order' \in [Orders -> Records]
  <1>1. Head(line) \in Saves /\ Head(line) \in In(line) /\ Head(line).by = a
    BY HeadOfLine
  <1>2. order' = [order EXCEPT ![Head(line).order] = Head(line).rec]
    BY DEF Landed
  <1> QED
    BY <1>1, <1>2 DEF OrderOK, Saves

\* A step of a request, and what it owes to Timely where Timely holds.
Steps(r) ==
    \E o \in Orders, s \in Accepts : \E W \in SUBSET Saves :
        /\ RequestStep(r, s, o, W)
        /\ Opens /\ Promptly /\ DEPOSIT_FINALITY > 0 => OpensInTime(s, o, W)

LEMMA AcceptSteps ==
    ASSUME ~Duplicates, Inv, Agreed, NEW r \in Requests, NEW o \in Orders, Accept(r, o) \/ AcceptExpired(r, o)
    PROVE  Steps(r)
  <1> DEFINE to == IF Accept(r, o) THEN order[o] ELSE Advanced(o, "EXPIRED")
             w == Save(r, o, to)
             s == [NoRequest EXCEPT !.at = IF Accept(r, o) THEN "quote" ELSE "expired", !.order = o]
  <1>1. TypeOK /\ Busy /\ LineOK /\ OrderOK /\ ReqOK /\ LineOK'
    <2>1. Inv'
      BY AcceptInv
    <2> QED
      BY <2>1, Groups DEF Inv, TypeOK, LineOK, Saves
  <1>2. /\ line' = Append(line, w) /\ req' = [req EXCEPT ![r] = s]
        /\ UNCHANGED <<order, quote, told, job>> /\ quote[o] # "accepted"
        /\ req[r].at = "none" /\ \A q \in Requests : req[q].order # o
    BY DEF Accept, AcceptExpired, MayAccept, jobs
  <1>3. w \in Saves /\ w.by = r /\ w.order = o
    <2>1. order[o] \in Records /\ Advanced(o, "EXPIRED") \in Records
      BY <1>1, AdvancedIsRecord DEF OrderOK, OrderState
    <2> QED
      BY <2>1 DEF Save, Saves
  <1>4. s \in Accepts /\ s.order = o /\ s.at \in {"quote", "expired"}
    BY DEF NoRequest, Accepts, Accepting
  <1>10. s.at = "expired" => w.rec.st # "AWAITING_DEPOSIT"
    BY <1>1 DEF Save, Advanced, OrderOK, Records
  <1>5. Turned(r, {w})
    <2>1. \A v \in In(line) : v.by # r
      BY <1>2, NothingOfARequest DEF Saving, Agreed
    <2> QED
      BY <1>1, <1>2, <1>3, <2>1, TurnsOn DEF Agreed
  <1>6. told[o] = {} /\ job[o].at = "none"
    BY <1>2, Unasked
  <1> HIDE DEF s, w
  <1>7. RequestStep(r, s, o, {w})
    BY <1>2, <1>3, <1>4, <1>5, <1>6 DEF Saving, RequestStep
  <1>8. OpensInTime(s, o, {w})
    BY <1>2, <1>4, <1>10 DEF OpensInTime
  <1> QED
    BY <1>3, <1>4, <1>7, <1>8 DEF Steps

LEMMA AnswersSteps ==
    ASSUME Inv, Inv', Agreed, NEW r \in Requests, Answers(r), ~Enqueue(r)
    PROVE  Steps(r)
  <1> DEFINE o == req[r].order
  <1>0. TypeOK /\ Busy /\ LineOK /\ OrderOK /\ ReqOK /\ LineOK' /\ line' \in Seq(Saves) /\ req \in [Requests -> Accepts]
        /\ Owned /\ OneEach
    BY Groups DEF Inv, TypeOK, LineOK, ReqOK, Saves, Agreed
  <1>1. /\ o \in Orders /\ told[o] = {} /\ job[o].at = "none" /\ req[r] \in Accepts
        /\ \A q \in Requests : q # r => req[q].order # o
        /\ req[r].at # "none"
    <2>1. req[r].at # "none"
      BY DEF Answers, ExpiredLands, QuoteLands, BlockRead, AcceptedLands, WantedLands, AwaitingLands, Enqueue
    <2> QED
      BY <1>0, <2>1, Sole
  <1>2. NoRequest \in Accepts /\ NoRequest.at = "none" /\ NoRequest.order = NoOrder
    BY NoRequestIsOne DEF NoRequest
  <1>3. ASSUME Answered(r), order' = Landed
        PROVE  /\ Head(line) \in Saves /\ Head(line).order = o /\ order'[o] = Head(line).rec
               /\ \A p \in Orders : p # o => order'[p] = order[p]
               /\ order'[o] \in Records
    BY <1>0, <1>1, <1>3, FirstLands DEF Owned
  <1>4. ASSUME Answered(r), line' = Tail(line) PROVE Turned(r, {})
    BY <1>0, <1>4, TurnEnds DEF Answered
  <1>5. \A s : [req EXCEPT ![r] = s][r] = s
    BY <1>0
  <1>13. ASSUME Opens, Answered(r), req[r].at \in {"expired", "accepted", "wanted"}
         PROVE  Head(line).rec.st # "AWAITING_DEPOSIT"
    BY <1>0, <1>13, HeadOfLine DEF Opens
  <1>14. ASSUME Opens, Answered(r), req[r].at \in {"wanted", "awaiting"}
         PROVE  Head(line).rec.from = req[r].from
    BY <1>0, <1>14, HeadOfLine DEF Opens
  <1> HIDE DEF o
  <1>6. CASE ExpiredLands(r)
    <2>1. /\ Answered(r) /\ order' = Landed /\ line' = Tail(line) /\ req' = [req EXCEPT ![r] = NoRequest]
          /\ UNCHANGED <<quote, told, job>>
      BY <1>6 DEF ExpiredLands, jobs
    <2>2. RequestStep(r, NoRequest, o, {})
      BY <1>1, <1>2, <1>3, <1>4, <2>1 DEF RequestStep
    <2>3. ASSUME Opens PROVE OpensInTime(NoRequest, o, {})
      BY <1>2, <1>3, <1>13, <1>6, <2>1, <2>3 DEF OpensInTime, ExpiredLands
    <2> QED
      BY <1>1, <1>2, <2>2, <2>3 DEF Steps
  <1>7. CASE QuoteLands(r)
    <2> DEFINE s == [req[r] EXCEPT !.at = "block", !.from = head]
    <2>1. /\ Answered(r) /\ line' = Tail(line) /\ req' = [req EXCEPT ![r] = s]
          /\ quote' = [quote EXCEPT ![o] = "accepted"] /\ UNCHANGED <<order, told, job>>
      BY <1>7 DEF QuoteLands, jobs, o
    <2>2. s \in Accepts /\ s.order = o /\ s.at = "block" /\ s.from = head
      BY <1>0, <1>1 DEF Accepts, Accepting, TypeOK, o
    <2>3. quote'[o] = "accepted" /\ \A p \in Orders : p # o => quote'[p] = quote[p]
      BY <1>0, <1>1, <2>1 DEF TypeOK
    <2> HIDE DEF s
    <2>4. RequestStep(r, s, o, {})
      BY <1>1, <1>4, <2>1, <2>2, <2>3 DEF RequestStep
    <2>5. ASSUME DEPOSIT_FINALITY > 0 PROVE OpensInTime(s, o, {})
      <3>1. head < head + DEPOSIT_FINALITY
        BY <1>0, <2>5, DepositsAssumption DEF DepositsAssumption, TypeOK
      <3> QED
        BY <2>1, <2>2, <3>1 DEF OpensInTime
    <2> QED
      BY <1>1, <2>2, <2>4, <2>5 DEF Steps
  <1>8. CASE BlockRead(r)
    <2>0. UNCHANGED <<order, quote, told, job>> /\ req[r].at = "block"
      BY <1>8 DEF BlockRead, jobs
    <2>1. quote[o] = "accepted"
      BY <2>0 DEF Agreed, Once, o
    <2>2. \A v \in In(line) : v.by # r
      BY <1>0, <2>0, NothingOfARequest DEF Saving
    <2>3. CASE CanTransition(order[o].st, "ACCEPTED")
      <3> DEFINE w == Save(r, o, Advanced(o, "ACCEPTED"))
      <3>1. PICK h \in req[r].from .. head : req' = [req EXCEPT ![r] = [@ EXCEPT !.at = "accepted", !.from = h]]
        BY <1>8, <2>3 DEF BlockRead, o
      <3> DEFINE s == [req[r] EXCEPT !.at = "accepted", !.from = h]
      <3>2. line' = Append(line, w) /\ req' = [req EXCEPT ![r] = s]
        BY <1>8, <2>3, <3>1 DEF BlockRead, o
      <3>3. s \in Accepts /\ s.order = o /\ s.at = "accepted" /\ s.from = h
        <4>1. h \in Nat
          BY <1>0, <1>1 DEF TypeOK, Accepts
        <4> QED
          BY <1>1, <4>1 DEF Accepts, Accepting, o
      <3>4. w \in Saves /\ w.by = r /\ w.order = o /\ w.rec.st # "AWAITING_DEPOSIT"
        <4>1. Advanced(o, "ACCEPTED") \in Records
          BY <1>0, <1>1, AdvancedIsRecord DEF OrderState
        <4>2. Advanced(o, "ACCEPTED").st = "ACCEPTED"
          BY <1>0, <1>1 DEF Advanced, OrderOK, Records
        <4> QED
          BY <1>1, <4>1, <4>2 DEF Save, Saves
      <3> HIDE DEF s, w
      <3>5. Turned(r, {w})
        BY <1>0, <2>2, <3>2, <3>4, TurnsOn
      <3>6. RequestStep(r, s, o, {w})
        BY <1>1, <2>0, <2>1, <3>2, <3>3, <3>4, <3>5 DEF RequestStep, Saving
      <3>7. ASSUME Promptly PROVE OpensInTime(s, o, {w})
        <4>1. head < req[r].from + DEPOSIT_FINALITY
          BY <2>0, <3>7 DEF Promptly
        <4>2. req[r].from \in Nat /\ h \in Nat /\ req[r].from <= h /\ DEPOSIT_FINALITY \in Nat /\ head \in Nat
          BY SMTT(30), <1>0, <1>1, DepositsAssumption DEF TypeOK, Accepts, DepositsAssumption
        <4>3. head < s.from + DEPOSIT_FINALITY
          BY <3>3, <4>1, <4>2
        <4> QED
          BY <2>0, <3>3, <3>4, <4>3 DEF OpensInTime
      <3> QED
        BY <1>1, <3>3, <3>4, <3>6, <3>7 DEF Steps
    <2>4. CASE ~CanTransition(order[o].st, "ACCEPTED")
      <3>1. req' = [req EXCEPT ![r] = NoRequest] /\ line' = line
        BY <1>8, <2>4 DEF BlockRead, o
      <3>2. Turned(r, {})
        BY <1>0, <2>2, <3>1, TurnEnds
      <3>3. RequestStep(r, NoRequest, o, {})
        BY <1>1, <1>2, <2>0, <2>1, <3>1, <3>2 DEF RequestStep
      <3>4. OpensInTime(NoRequest, o, {})
        BY <1>2, <2>0 DEF OpensInTime
      <3> QED
        BY <1>1, <1>2, <3>3, <3>4 DEF Steps
    <2> QED
      BY <2>3, <2>4
  <1>9. CASE AcceptedLands(r)
    <2> DEFINE amount == uniqueDepositAmount(order', Asked[o])
               wanted == [order'[o] EXCEPT !.want = amount, !.from = req[r].from]
               w == Save(r, o, wanted)
               s == [req[r] EXCEPT !.at = "wanted"]
    <2>1. /\ Answered(r) /\ order' = Landed /\ line' = Append(Tail(line), w) /\ req' = [req EXCEPT ![r] = s]
          /\ UNCHANGED <<quote, told, job>> /\ req[r].at = "accepted"
      BY <1>9 DEF AcceptedLands, jobs, o
    <2>2. w \in Saves /\ w.by = r /\ w.order = o /\ w.rec.st = order'[o].st /\ w.rec.from = req[r].from
      <3>1. order' \in [Orders -> Records] /\ order'[o] \in Records
        BY <1>0, <1>3, <2>1, FirstLands
      <3>2. amount \in Nat /\ req[r].from \in Nat
        BY <1>1, <3>1, AmountIsFree, DepositsAssumption DEF DepositsAssumption, Accepts
      <3>3. wanted \in Records /\ wanted.st = order'[o].st /\ wanted.from = req[r].from
        BY <3>1, <3>2 DEF Records
      <3> QED
        BY <1>1, <3>3 DEF Save, Saves
    <2>3. s \in Accepts /\ s.order = o /\ s.at = "wanted" /\ quote[o] = "accepted" /\ s.from = req[r].from
      BY <1>1, <2>1 DEF Accepts, Accepting, Agreed, Once, o
    <2> HIDE DEF s, w
    <2>4. Turned(r, {w})
      BY <1>0, <2>1, <2>2, TurnsOn DEF Answered
    <2>5. RequestStep(r, s, o, {w})
      BY <1>1, <1>3, <2>1, <2>2, <2>3, <2>4 DEF RequestStep, Saving
    <2>6. ASSUME Opens, Promptly PROVE OpensInTime(s, o, {w})
      <3>1. Head(line).rec.st # "AWAITING_DEPOSIT" /\ order'[o].st # "AWAITING_DEPOSIT"
        BY <1>3, <1>13, <2>1, <2>6
      <3>2. head < s.from + DEPOSIT_FINALITY
        BY <2>1, <2>3, <2>6 DEF Promptly
      <3> QED
        BY <2>2, <2>3, <3>1, <3>2 DEF OpensInTime
    <2> QED
      BY <1>1, <2>2, <2>3, <2>5, <2>6 DEF Steps
  <1>10. CASE WantedLands(r)
    <2>0. /\ Answered(r) /\ order' = Landed /\ UNCHANGED <<quote, told, job>> /\ req[r].at = "wanted"
          /\ quote[o] = "accepted"
      BY <1>10 DEF WantedLands, jobs, Agreed, Once, o
    <2>1. CASE CanTransition(order'[o].st, "AWAITING_DEPOSIT")
      <3> DEFINE w == Save(r, o, [order'[o] EXCEPT !.st = "AWAITING_DEPOSIT"])
                 s == [req[r] EXCEPT !.at = "awaiting"]
      <3>1. line' = Append(Tail(line), w) /\ req' = [req EXCEPT ![r] = s]
        BY <1>10, <2>1 DEF WantedLands, o
      <3>2. w \in Saves /\ w.by = r /\ w.order = o /\ w.rec.from = order'[o].from
        <4>1. order'[o] \in Records
          BY <1>3, <2>0
        <4> QED
          BY <1>1, <4>1 DEF Save, Saves, Records, OrderState
      <3>3. s \in Accepts /\ s.order = o /\ s.at = "awaiting" /\ s.from = req[r].from
        BY <1>1 DEF Accepts, Accepting, o
      <3> HIDE DEF s, w
      <3>4. Turned(r, {w})
        BY <1>0, <2>0, <3>1, <3>2, TurnsOn DEF Answered
      <3>5. RequestStep(r, s, o, {w})
        BY <1>1, <1>3, <2>0, <3>1, <3>2, <3>3, <3>4 DEF RequestStep, Saving
      <3>6. ASSUME Opens, Promptly PROVE OpensInTime(s, o, {w})
        <4>1. /\ order'[o].st # "AWAITING_DEPOSIT" /\ order'[o].from = req[r].from
          BY <1>3, <1>13, <1>14, <2>0, <3>6
        <4>2. head < s.from + DEPOSIT_FINALITY
          BY <2>0, <3>3, <3>6 DEF Promptly
        <4> QED
          BY <3>2, <3>3, <4>1, <4>2 DEF OpensInTime
      <3> QED
        BY <1>1, <3>2, <3>3, <3>5, <3>6 DEF Steps
    <2>2. CASE ~CanTransition(order'[o].st, "AWAITING_DEPOSIT")
      <3>1. line' = Tail(line) /\ req' = [req EXCEPT ![r] = NoRequest]
        BY <1>10, <2>2 DEF WantedLands, o
      <3>2. RequestStep(r, NoRequest, o, {})
        BY <1>1, <1>2, <1>3, <1>4, <2>0, <3>1 DEF RequestStep
      <3>3. ASSUME Opens PROVE OpensInTime(NoRequest, o, {})
        BY <1>2, <1>3, <1>13, <2>0, <3>3 DEF OpensInTime
      <3> QED
        BY <1>1, <1>2, <3>2, <3>3 DEF Steps
    <2> QED
      BY <2>1, <2>2
  <1>11. CASE AwaitingLands(r)
    <2> DEFINE s == [req[r] EXCEPT !.at = "enqueue", !.want = Head(line).rec.want]
    <2>1. /\ Answered(r) /\ order' = Landed /\ line' = Tail(line) /\ req' = [req EXCEPT ![r] = s]
          /\ UNCHANGED <<quote, told, job>> /\ req[r].at = "awaiting" /\ quote[o] = "accepted"
      BY <1>11 DEF AwaitingLands, jobs, Agreed, Once, o
    <2>2. s \in Accepts /\ s.order = o /\ s.at = "enqueue" /\ s.want = Head(line).rec.want
      <3>1. Head(line).rec.want \in Nat
        BY <1>3, <2>1 DEF Records
      <3> QED
        BY <1>1, <3>1 DEF Accepts, Accepting, o
    <2> HIDE DEF s
    <2>3. RequestStep(r, s, o, {})
      BY <1>1, <1>3, <1>4, <2>1, <2>2 DEF RequestStep
    <2>4. ASSUME Opens, Promptly PROVE OpensInTime(s, o, {})
      <3>1. order'[o].from = req[r].from
        BY <1>3, <1>14, <2>1, <2>4
      <3>2. head < order'[o].from + DEPOSIT_FINALITY
        BY <2>1, <2>4, <3>1 DEF Promptly
      <3> QED
        BY <2>2, <3>2 DEF OpensInTime
    <2> QED
      BY <1>1, <2>2, <2>3, <2>4 DEF Steps
  <1> QED
    BY <1>6, <1>7, <1>8, <1>9, <1>10, <1>11 DEF Answers

LEMMA EnqueueAgrees ==
    ASSUME TypeOK, Busy, Agreed, NEW r \in Requests, Enqueue(r)
    PROVE  Agreed'
  <1> DEFINE o == req[r].order
  <1>1. LineOK /\ Owned /\ TypeOK
    BY DEF TypeOK, LineOK, Saves, Agreed
  <1>2. o \in Orders /\ told[o] = {} /\ job[o].at = "none" /\ \A q \in Requests : q # r => req[q].order # o
    BY Sole DEF Enqueue
  <1>3. NoRequest \in Accepts /\ NoRequest.at = "none" /\ NoRequest.order = NoOrder
    BY NoRequestIsOne DEF NoRequest
  <1> HIDE DEF o
  <1>4. /\ UNCHANGED <<order, quote, line>> /\ req[r].at = "enqueue"
        /\ job' = [job EXCEPT ![o] = Job("waiting", {})]
        /\ told' = [told EXCEPT ![o] = {req[r].want}] /\ req' = [req EXCEPT ![r] = NoRequest]
    BY <1>1, <1>2 DEF Enqueue, book, o
  <1>5. quote[o] = "accepted" /\ req[r].want = order[o].want
    BY <1>4 DEF Agreed, Once, Answer, o
  <1>6. /\ \A q \in Requests : req'[q] = IF q = r THEN NoRequest ELSE req[q]
        /\ \A p \in Orders : told'[p] = IF p = o THEN {order[o].want} ELSE told[p]
        /\ \A p \in Orders : p # o => job'[p] = job[p]
    BY <1>1, <1>2, <1>4, <1>5 DEF TypeOK
  <1>7. \A v \in In(line) : v.by # r /\ v.by # o
    BY <1>1, <1>2, <1>4, NothingOfARequest, NothingOfAJob DEF Saving
  <1>8. Orders \cap Requests = {} /\ NoOrder \notin Orders
    BY DepositsAssumption DEF DepositsAssumption
  <1>9. Owned'
    <2> SUFFICES ASSUME NEW v \in In(line)
                 PROVE  IF v.by \in Requests THEN req'[v.by].at \in Saving /\ req'[v.by].order = v.order
                        ELSE v.by = v.order /\ job'[v.by].at \in {"claiming", "deciding"}
      BY <1>4 DEF Owned, In
    <2>1. v \in Saves
      BY <1>1 DEF In, LineOK
    <2> QED
      BY <1>1, <1>6, <1>7, <2>1 DEF Owned, Saves
  <1>10. OneEach' /\ Repeats'
    BY <1>4 DEF Agreed, OneEach, Apart, Repeats, In
  <1>11. Alone'
    BY <1>3, <1>6, <1>8 DEF Agreed, Alone
  <1>12. Once'
    BY <1>2, <1>3, <1>4, <1>5, <1>6, <1>8 DEF Agreed, Once, o
  <1>13. Answer'
    BY <1>3, <1>4, <1>6 DEF Agreed, Answer
  <1>14. ToldIsWanted'
    BY <1>4, <1>6 DEF Agreed, ToldIsWanted
  <1> QED
    BY <1>9, <1>10, <1>11, <1>12, <1>13, <1>14 DEF Agreed

LEMMA EnqueueIsTimely ==
    ASSUME TypeOK, Busy, Agreed, Timely, NEW r \in Requests, Enqueue(r)
    PROVE  Timely'
  <1>1. UNCHANGED <<head, paid, strays, sweep, claimed, order, line>>
    BY DEF Enqueue, chain, book, sweeper
  <1>2. \A q \in Requests : req'[q] = IF q = r THEN NoRequest ELSE req[q]
    BY DEF Enqueue, TypeOK
  <1>3. \A o \in Orders : job'[o].at = "found" => job'[o] = job[o]
    BY DEF Enqueue, TypeOK, Job
  <1>4. \A t : Judged(t)' <=> Judged(t)
    BY <1>1 DEF Judged, First, Oldest
  <1>5. NoRequest.at = "none"
    BY DEF NoRequest
  <1>6. Opens' /\ Promptly'
    BY <1>1, <1>2, <1>5 DEF Timely, Opens, Promptly, In
  <1>7. Buried' /\ Nobodys'
    BY <1>1, <1>4 DEF Timely, Buried, Nobodys
  <1>8. Seen'
    BY <1>1, <1>3 DEF Timely, Seen, Claimable, Sent
  <1> QED
    BY <1>6, <1>7, <1>8 DEF Timely

-----------------------------------------------------------------------------
(* The jobs.                                                               *)

JobSteps(o) ==
    \E j \in Jobs : \E W \in SUBSET Saves :
        /\ JobStep(o, j, W)
        /\ Seen /\ Nobodys => ClaimsInTime(o, j)

\* What Redis answers a job keeps the amount and the block of its order.
LEMMA JobLands ==
    ASSUME OrderOK, LineOK, Agreed, NEW o \in Orders, Answered(o), order' = Landed, line' = Tail(line)
    PROVE  /\ Turned(o, {}) /\ job[o].at # "none"
           /\ \A p \in Orders : p # o => order'[p] = order[p]
           /\ order'[o].want = order[o].want /\ order'[o].from = order[o].from
           /\ order'[o].st = "AWAITING_DEPOSIT" => order[o].st = "AWAITING_DEPOSIT"
  <1>1. /\ Head(line) \in In(line) /\ Head(line).by = o
        /\ order'[Head(line).order] = Head(line).rec
        /\ \A p \in Orders : p # Head(line).order => order'[p] = order[p]
    BY FirstLands
  <1>2. Head(line).order = o /\ job[o].at # "none"
    BY <1>1, DepositsAssumption DEF DepositsAssumption, Agreed, Owned
  <1>3. Turned(o, {})
    BY TurnEnds DEF Answered, Agreed
  <1> QED
    BY <1>1, <1>2, <1>3 DEF Agreed, Repeats

LEMMA WatchesSteps ==
    ASSUME Inv, Agreed, NEW o \in Orders, Watches(o)
    PROVE  JobSteps(o)
  <1>0. TypeOK /\ Busy /\ OrderOK /\ LineOK /\ JobOK /\ Owned /\ OneEach
    BY Groups DEF Inv, Agreed
  <1>1. \A at \in Working : Job(at, {}) \in Jobs /\ Job(at, {}).at = at
    BY DEF Job, Jobs
  <1>2. order[o] \in Records /\ \A to \in OrderState : Advanced(o, to) \in Records
    BY <1>0, AdvancedIsRecord DEF OrderOK
  <1>3. ASSUME job[o].at \in {"waiting", "found"} PROVE \A v \in In(line) : v.by # o
    BY <1>0, <1>3, NothingOfAJob
  <1>4. CASE Search(o)
    <2> DEFINE S == {t \in Transfers : /\ Sent(t) /\ paid[t].block >= order[o].from
                                       /\ paid[t].amount = order[o].want}
               j == Job("found", S)
    <2>1. /\ job' = [job EXCEPT ![o] = j] /\ job[o].at = "waiting" /\ order[o].st = "AWAITING_DEPOSIT"
          /\ UNCHANGED <<order, line, req, told, quote, claimed>>
      BY <1>4 DEF Search, book, accepts
    <2>2. j \in Jobs /\ j.at = "found" /\ j.seen = S
      BY DEF Job, Jobs, Working
    <2>3. Turned(o, {})
      BY <1>0, <1>3, <2>1, TurnEnds
    <2>4. Claimable(o, S)
      <3>1. order[o].from \in Nat /\ \A t \in Transfers : paid[t].block \in Nat
        BY <1>0, <1>2 DEF TypeOK, Records
      <3> QED
        BY <2>1, <3>1 DEF Claimable
    <2> HIDE DEF j
    <2>5. JobStep(o, j, {}) /\ ClaimsInTime(o, j)
      BY <2>1, <2>2, <2>3, <2>4 DEF JobStep, ClaimsInTime
    <2> QED
      BY <2>2, <2>5 DEF JobSteps
  <1>5. CASE Claim(o)
    <2> DEFINE t == First(job[o].seen \ claimed)
               w == Save(o, o, [order[o] EXCEPT !.dep = t])
               j == Job("claiming", {})
    <2>1. /\ job' = [job EXCEPT ![o] = j] /\ job[o].at = "found" /\ job[o].seen \ claimed # {}
          /\ UNCHANGED <<order, req, told, quote>> /\ line' = Append(line, w) /\ claimed' = claimed \cup {t}
      BY <1>5 DEF Claim, accepts
    <2>2. t \in Transfers /\ t \in job[o].seen
      <3> DEFINE S == job[o].seen \ claimed
      <3>1. S \in SUBSET Transfers /\ S # {}
        BY <1>0, <2>1 DEF JobOK, Jobs
      <3>2. First(S) \in S
        BY <1>0, <3>1, FirstIsOne
      <3> QED
        BY <3>1, <3>2
    <2> HIDE DEF t
    <2>3. /\ w \in Saves /\ w.by = o /\ w.order = o /\ w.rec.want = order[o].want
          /\ w.rec.from = order[o].from /\ w.rec.st = order[o].st
      BY <1>2, <2>2 DEF Save, Saves, Records
    <2>4. j \in Jobs /\ j.at = "claiming"
      BY <1>1 DEF Working
    <2> HIDE DEF w, j
    <2>5. Turned(o, {w})
      BY <1>0, <1>3, <2>1, <2>3, TurnsOn
    <2>6. JobStep(o, j, {w})
      BY <2>1, <2>3, <2>4, <2>5 DEF JobStep
    <2>7. ASSUME Seen, Nobodys PROVE ClaimsInTime(o, j)
      <3>1. order[o].st = "AWAITING_DEPOSIT" /\ order[o].from <= paid[t].block /\ paid[t].amount = order[o].want
        BY <2>1, <2>2, <2>7 DEF Seen, Claimable
      <3>2. order[o].from \in Nat /\ paid[t].block \in Nat
        BY <1>0, <1>2, <2>2 DEF TypeOK, Records
      <3>3. ~Judged(t)
        BY <2>2, <2>7, <3>1, <3>2 DEF Nobodys
      <3> QED
        BY <2>1, <2>4, <3>3 DEF ClaimsInTime
    <2> QED
      BY <2>3, <2>4, <2>6, <2>7 DEF JobSteps
  <1>6. CASE NotFound(o) \/ Decide(o)
    <2>1. /\ UNCHANGED <<order, req, told, quote, claimed>> /\ job[o].at \in {"waiting", "found"}
      BY <1>6 DEF NotFound, Decide, accepts
    <2>2. CASE line' = line /\ job' = [job EXCEPT ![o] = Job("waiting", {})]
      <3> DEFINE j == Job("waiting", {})
      <3>1. j \in Jobs /\ j.at = "waiting"
        BY <1>1 DEF Working
      <3>2. Turned(o, {})
        BY <1>0, <1>3, <2>1, <2>2, TurnEnds
      <3>3. JobStep(o, j, {}) /\ ClaimsInTime(o, j)
        BY <2>1, <2>2, <3>1, <3>2 DEF JobStep, ClaimsInTime
      <3> QED
        BY <3>1, <3>3 DEF JobSteps
    <2>3. ASSUME NEW to \in {"EXPIRED", "DEPOSIT_CONFIRMED"}, line' = Append(line, Save(o, o, Advanced(o, to))),
                 job' = [job EXCEPT ![o] = Job("deciding", {})]
          PROVE  JobSteps(o)
      <3> DEFINE j == Job("deciding", {})
                 w == Save(o, o, Advanced(o, to))
      <3>1. j \in Jobs /\ j.at = "deciding"
        BY <1>1 DEF Working
      <3>2. /\ w \in Saves /\ w.by = o /\ w.order = o /\ w.rec.want = order[o].want
            /\ w.rec.from = order[o].from /\ w.rec.st # "AWAITING_DEPOSIT"
        <4>1. Advanced(o, to) \in Records
          BY <1>2 DEF OrderState
        <4>2. /\ Advanced(o, to).st = to /\ Advanced(o, to).want = order[o].want
              /\ Advanced(o, to).from = order[o].from
          BY <1>2 DEF Advanced, Records
        <4> QED
          BY <4>1, <4>2 DEF Save, Saves
      <3>3. line' = Append(line, w) /\ job' = [job EXCEPT ![o] = j]
        BY <2>3
      <3> HIDE DEF w, j
      <3>4. Turned(o, {w})
        BY <1>0, <1>3, <2>1, <3>2, <3>3, TurnsOn
      <3>5. JobStep(o, j, {w}) /\ ClaimsInTime(o, j)
        BY <2>1, <3>1, <3>2, <3>3, <3>4 DEF JobStep, ClaimsInTime
      <3> QED
        BY <3>1, <3>2, <3>5 DEF JobSteps
    <2> QED
      BY <1>6, <2>2, <2>3 DEF NotFound, Decide
  <1>7. CASE ClaimLands(o) \/ DecisionLands(o)
    <2>1. /\ Answered(o) /\ order' = Landed /\ line' = Tail(line) /\ UNCHANGED <<req, told, quote, claimed>>
      BY <1>7 DEF ClaimLands, DecisionLands, accepts
    <2>2. PICK at \in {"waiting", "none"} : job' = [job EXCEPT ![o] = Job(at, {})]
      BY <1>7 DEF ClaimLands, DecisionLands
    <2> DEFINE j == Job(at, {})
    <2>3. j \in Jobs /\ j.at # "found"
      BY <1>1 DEF Working
    <2>4. job' = [job EXCEPT ![o] = j]
      BY <2>2
    <2> HIDE DEF j
    <2>5. JobStep(o, j, {}) /\ ClaimsInTime(o, j)
      BY <1>0, <2>1, <2>3, <2>4, JobLands DEF JobStep, ClaimsInTime
    <2> QED
      BY <2>3, <2>5 DEF JobSteps
  <1>8. CASE Ignored(o)
    <2> DEFINE j == Job("none", {})
    <2>1. /\ job' = [job EXCEPT ![o] = j] /\ UNCHANGED <<order, line, req, told, quote, claimed>>
          /\ job[o].at = "waiting"
      BY <1>8 DEF Ignored, book, accepts
    <2>2. j \in Jobs /\ j.at = "none"
      BY <1>1 DEF Working
    <2> HIDE DEF j
    <2>3. Turned(o, {})
      BY <1>0, <1>3, <2>1, TurnEnds
    <2>4. JobStep(o, j, {}) /\ ClaimsInTime(o, j)
      BY <2>1, <2>2, <2>3 DEF JobStep, ClaimsInTime
    <2> QED
      BY <2>2, <2>4 DEF JobSteps
  <1> QED
    BY <1>4, <1>5, <1>6, <1>7, <1>8 DEF Watches

\* A save that is refused ends the step of whoever awaits it.
LEMMA RefusedSteps ==
    ASSUME Inv, Agreed, SaveFails
    PROVE  (\E r \in Requests : Steps(r)) \/ (\E o \in Orders : JobSteps(o))
  <1> DEFINE a == Head(line).by
  <1>0. TypeOK /\ Busy /\ LineOK /\ OneEach /\ Answered(a)
    BY Groups DEF Inv, Agreed, Answered, SaveFails
  <1>1. Head(line) \in Saves /\ Head(line) \in In(line)
    BY <1>0, HeadOfLine
  <1>2. line' = Tail(line) /\ UNCHANGED <<order, quote, told, claimed>>
    BY DEF SaveFails
  <1>3. Turned(a, {})
    BY <1>0, <1>2, TurnEnds DEF Answered
  <1>4. CASE a \in Requests
    <2> DEFINE o == req[a].order
    <2>1. req' = [req EXCEPT ![a] = NoRequest] /\ job' = job
      BY <1>4 DEF SaveFails
    <2>2. NoRequest \in Accepts /\ NoRequest.at = "none" /\ NoRequest.order = NoOrder
      BY NoRequestIsOne DEF NoRequest
    <2>3. req[a].at # "none"
      BY <1>1, <1>4 DEF Agreed, Owned, Saving
    <2>4. o \in Orders /\ told[o] = {} /\ job[o].at = "none" /\ \A q \in Requests : q # a => req[q].order # o
      BY <1>0, <1>4, <2>3, Sole
    <2> HIDE DEF o, a
    <2>5. RequestStep(a, NoRequest, o, {}) /\ OpensInTime(NoRequest, o, {})
      BY <1>2, <1>3, <2>1, <2>2, <2>4 DEF RequestStep, OpensInTime
    <2> QED
      BY <1>4, <2>2, <2>4, <2>5 DEF Steps
  <1>5. CASE a \notin Requests
    <2> DEFINE j == Job("waiting", {})
    <2>1. a \in Orders /\ job[a].at # "none"
      BY <1>1, <1>5 DEF Saves, Agreed, Owned
    <2>2. job' = [job EXCEPT ![a] = j] /\ req' = req
      BY <1>5 DEF SaveFails
    <2>3. j \in Jobs /\ j.at = "waiting"
      BY DEF Job, Jobs, Working
    <2> HIDE DEF j, a
    <2>4. JobStep(a, j, {}) /\ ClaimsInTime(a, j)
      BY <1>2, <1>3, <2>1, <2>2, <2>3 DEF JobStep, ClaimsInTime
    <2> QED
      BY <2>1, <2>3, <2>4 DEF JobSteps
  <1> QED
    BY <1>4, <1>5

\* A crash leaves no request and no save; the records after it agree as before.
LEMMA CrashAgrees ==
    ASSUME Inv, Agreed, Crash
    PROVE  Agreed'
  <1>0. TypeOK /\ Owned
    BY DEF Inv, Agreed
  <1>1. /\ req' = [r \in Requests |-> NoRequest] /\ line' = <<>> /\ told' = told
        /\ job' = [o \in Orders |-> IF job[o].at = "none" THEN job[o] ELSE Job("waiting", {})]
    BY DEF Crash, Restart
  <1>2. PICK n \in 0 .. Len(line) :
            /\ order' = Executed(n)
            /\ quote' = [o \in Orders |->
                  IF \E i \in 1 .. n : line[i].order = o /\ OfQuote(line[i]) THEN "accepted" ELSE quote[o]]
    BY DEF Crash, Restart
  <1>3. \A r \in Requests : req'[r].at = "none" /\ req'[r].order = NoOrder
    BY <1>1 DEF NoRequest
  <1>4. In(line') = {} /\ OneEach'
    BY <1>1 DEF In, OneEach, Apart
  <1>5. NoOrder \notin Orders
    BY DepositsAssumption DEF DepositsAssumption
  <1>6. Owned' /\ Alone' /\ Answer' /\ Repeats'
    BY <1>3, <1>4, <1>5 DEF Owned, Alone, Answer, Repeats
  <1>7. Once'
    <2>1. \A o \in Orders : job'[o].at # "none" => job[o].at # "none"
      BY <1>1
    <2>2. \A o \in Orders : quote[o] = "accepted" => quote'[o] = "accepted"
      BY <1>2
    <2> QED
      BY <1>1, <1>3, <1>5, <2>1, <2>2 DEF Agreed, Once
  <1>8. ToldIsWanted'
    <2> SUFFICES ASSUME NEW o \in Orders, told[o] # {} PROVE told[o] \subseteq {order'[o].want}
      BY <1>1 DEF ToldIsWanted
    <2>1. \A r \in Requests : req[r].order # o
      BY DEF Agreed, Once
    <2>2. ASSUME NEW w \in In(line), w \in Saves, w.order = o PROVE w.rec.want = order[o].want
      <3>1. w.by \in Orders /\ w.by = o
        BY <1>0, <2>1, <2>2 DEF Owned, Saves
      <3> QED
        BY <3>1 DEF Agreed, Repeats
    <2>3. order'[o].want = order[o].want
      BY <1>0, <1>2, <2>2, ExecutedIsOne
    <2> QED
      BY <2>3 DEF Agreed, ToldIsWanted
  <1> QED
    BY <1>4, <1>6, <1>7, <1>8 DEF Agreed

LEMMA InitAgreed == Init => Agreed
  <1> SUFFICES ASSUME Init PROVE Agreed
    OBVIOUS
  <1>1. In(line) = {} /\ Apart(line)
    BY DEF Init, In, Apart
  <1>2. NoOrder \notin Orders /\ \A r \in Requests : req[r].at = "none" /\ req[r].order = NoOrder
    BY DepositsAssumption DEF DepositsAssumption, Init, NoRequest
  <1>3. \A o \in Orders : told[o] = {} /\ job[o].at = "none"
    BY DEF Init, Job
  <1> QED
    BY <1>1, <1>2, <1>3 DEF Agreed, Owned, OneEach, Alone, Once, Answer, Repeats, ToldIsWanted

LEMMA NextAgreed ==
    ASSUME ~Duplicates, Inv, Inv', Agreed, [Next]_vars
    PROVE  Agreed'
  <1>0. TypeOK /\ Busy /\ ReqOK /\ JobOK /\ LineOK'
    BY Groups DEF Inv, TypeOK, LineOK, Saves
  <1>1. ASSUME NEW r \in Requests, Steps(r) PROVE Agreed'
    BY <1>0, <1>1, RequestAgrees DEF Steps
  <1>2. ASSUME NEW o \in Orders, JobSteps(o) PROVE Agreed'
    BY <1>0, <1>2, JobAgrees DEF JobSteps
  <1>3. CASE \E r \in Requests : \E o \in Orders : Accept(r, o) \/ AcceptExpired(r, o)
    BY <1>1, <1>3, AcceptSteps
  <1>4. CASE \E r \in Requests : Answers(r) /\ ~Enqueue(r)
    BY <1>1, <1>4, AnswersSteps
  <1>5. CASE \E r \in Requests : Enqueue(r)
    BY <1>0, <1>5, EnqueueAgrees
  <1>6. CASE \E o \in Orders : Watches(o)
    BY <1>2, <1>6, WatchesSteps
  <1>7. CASE SaveFails
    BY <1>1, <1>2, <1>7, RefusedSteps
  <1>8. CASE Crash
    BY <1>8, CrashAgrees
  <1>9. CASE Sweeps \/ RefundUnheard \/ SweepFails
    <2>1. UNCHANGED <<order, line, req, job, told, quote>>
      BY <1>9 DEF Sweeps, SweepStarts, Judge, Weigh, Swept, Refunded, RefundFails, RefundUnheard, SweepFails,
         book, accepts, jobs
    <2> QED
      BY <1>0, <2>1, OthersAgree
  <1>10. CASE Block \/ UNCHANGED vars \/ \E o \in Orders : DeadlinePasses(o) \/ QuoteExpires(o)
    <2>1. UNCHANGED <<order, line, req, job, told>> /\ \A o \in Orders : quote[o] = "accepted" => quote'[o] = "accepted"
      BY <1>0, <1>10 DEF Block, DeadlinePasses, QuoteExpires, vars, book, accepts, jobs, TypeOK
    <2> QED
      BY <1>0, <2>1, OthersAgree
  <1> QED
    BY <1>3, <1>4, <1>5, <1>6, <1>7, <1>8, <1>9, <1>10 DEF Next

LEMMA AgreedInvariant ==
    ASSUME ~Duplicates
    PROVE  Spec => []Agreed
  <1>1. Inv /\ Inv' /\ Agreed /\ [Next]_vars => Agreed'
    BY NextAgreed
  <1> QED
    BY <1>1, InitAgreed, DepositInvariant, PTL DEF Spec

\* acceptOrder's answer and the order's record name one amount, for as long as the
\* order lives: an accept that failed half way told its user nothing, and nobody
\* accepts again what was answered (solver.ts: acceptOrder, routes/solver.ts).
THEOREM AnswerIsTheRecord ==
    ASSUME ~Duplicates
    PROVE  Spec => []ToldIsWanted
  <1>1. Agreed => ToldIsWanted
    BY DEF Agreed
  <1> QED
    BY <1>1, AgreedInvariant, PTL

-----------------------------------------------------------------------------
(* An order's deposit is no stray.                                         *)

\* A step of the sweeper: what it newly takes for a stray nobody may claim.
LEMMA JudgedIsTimely ==
    ASSUME Timely, UNCHANGED <<head, paid, order, req, job, line, claimed>>,
           \A t \in Transfers : Judged(t)' =>
               \/ Judged(t)
               \/ /\ paid[t].block + DEPOSIT_FINALITY <= head /\ t \notin claimed
                  /\ \A o \in Orders : order[o].st = "AWAITING_DEPOSIT" /\ order[o].want = paid[t].amount =>
                         paid[t].block < order[o].from,
           sweep'.at \in {"judging", "weighing"} =>
               \A t \in sweep'.todo : paid[t].block + DEPOSIT_FINALITY <= head
    PROVE  Timely'
  <1>1. Opens' /\ Promptly'
    BY DEF Timely, Opens, Promptly, In
  <1>2. Buried'
    BY DEF Timely, Buried
  <1>3. Nobodys'
    BY DEF Timely, Nobodys
  <1>4. Seen'
    BY DEF Timely, Seen, Claimable, Sent
  <1> QED
    BY <1>1, <1>2, <1>3, <1>4 DEF Timely

LEMMA SweepsTimely ==
    ASSUME Inv, SweepInv, Timely, Sweeps \/ RefundUnheard \/ SweepFails
    PROVE  Timely'
  <1>0. /\ TypeOK /\ SweepKnows /\ SweepOK /\ StraysOK /\ head \in Nat /\ DEPOSIT_FINALITY \in Nat
        /\ \A t \in Transfers : paid[t].block \in Nat /\ \A o \in Orders : order[o].from \in Nat
        /\ sweep.todo \in SUBSET Transfers
    BY DepositsAssumption DEF Inv, TypeOK, SweepInv, SweepOK, StraysOK, Records, DepositsAssumption
  <1>1. UNCHANGED <<head, paid, order, req, job, line, claimed>>
    BY DEF Sweeps, SweepStarts, Judge, Weigh, Swept, Refunded, RefundFails, RefundUnheard, SweepFails,
       chain, book, accepts, jobs
  <1>2. sweep.todo # {} => First(sweep.todo) \in sweep.todo
    BY <1>0, FirstIsOne
  <1>3. \A T : First(T)' = First(T)
    BY <1>1 DEF First, Oldest
  <1>4. ASSUME sweep'.at \in {"resting", "sending"},
               \A t \in Transfers : strays'[t].status # "none" => strays[t].status # "none"
        PROVE  Timely'
    BY <1>1, <1>4, JudgedIsTimely DEF Judged
  <1>5. \A todo : Refunds(todo).at \in {"resting", "sending"}
    BY DEF Refunds, Sweep
  <1>6. CASE SweepStarts
    <2> DEFINE new == {t \in Transfers : Sent(t) /\ paid[t].block \in sweptTo + 1 .. head - DEPOSIT_FINALITY}
    <2>1. CASE sweep' = Refunds(Due)
      BY <1>4, <1>5, <1>6, <2>1 DEF SweepStarts
    <2>2. CASE sweep' = Sweep("judging", new, head - DEPOSIT_FINALITY)
      <3>1. strays' = strays /\ sweep'.at = "judging" /\ sweep'.todo = new
        BY <1>6, <2>2 DEF SweepStarts, Sweep
      <3>2. \A t \in new : paid[t].block + DEPOSIT_FINALITY <= head
        BY <1>0 DEF SweepOK
      <3> HIDE DEF new
      <3> QED
        BY <1>1, <3>1, <3>2, JudgedIsTimely DEF Judged
    <2> QED
      BY <1>6, <2>1, <2>2 DEF SweepStarts
  <1>7. CASE Judge
    <2> DEFINE t == First(sweep.todo)
    <2>1. strays' = strays /\ sweep.at = "judging" /\ t \in sweep.todo
      BY <1>2, <1>7 DEF Judge
    <2>2. \A u \in sweep.todo : paid[u].block + DEPOSIT_FINALITY <= head
      BY <2>1 DEF Timely, Buried
    <2>3. CASE Spoken(t)
      <3>1. sweep'.at = "judging" /\ sweep'.todo = sweep.todo \ {t}
        BY <1>0, <1>7, <2>1, <2>3 DEF Judge, SweepOK
      <3> QED
        BY <1>1, <2>1, <2>2, <3>1, JudgedIsTimely DEF Judged
    <2>4. CASE ~Spoken(t)
      <3>1. sweep'.at = "weighing" /\ sweep'.todo = sweep.todo
        BY <1>0, <1>7, <2>4 DEF Judge, SweepOK
      <3>2. First(sweep.todo)' = t
        BY <1>1, <3>1 DEF First, Oldest
      <3>3. /\ t \in Transfers /\ paid[t].block + DEPOSIT_FINALITY <= head /\ t \notin claimed
            /\ \A o \in Orders : order[o].st = "AWAITING_DEPOSIT" /\ order[o].want = paid[t].amount =>
                   paid[t].block < order[o].from
        BY <1>0, <2>1, <2>2, <2>4 DEF Spoken, claimable
      <3> HIDE DEF t
      <3>4. \A u \in Transfers : Judged(u)' => Judged(u) \/ u = t
        BY <2>1, <3>1, <3>2 DEF Judged
      <3> QED
        BY <1>1, <2>2, <3>1, <3>3, <3>4, JudgedIsTimely
    <2> QED
      BY <2>3, <2>4
  <1>8. CASE Weigh
    <2> DEFINE t == First(sweep.todo)
    <2>1. sweep.at = "weighing" /\ t \in sweep.todo /\ t \in Transfers
      BY <1>0, <1>2, <1>8 DEF Weigh, SweepKnows
    <2>2. PICK status \in {"open", "held"} : strays' = [strays EXCEPT ![t].status = status]
      BY <1>8 DEF Weigh
    <2>3. sweep'.at = "judging" /\ sweep'.todo = sweep.todo \ {t}
      BY <1>0, <1>8 DEF Weigh, SweepOK
    <2>4. \A u \in Transfers : u # t => strays'[u] = strays[u]
      BY <1>0, <2>2 DEF StraysOK
    <2>5. \A u \in Transfers : Judged(u)' => Judged(u)
      BY <2>1, <2>3, <2>4 DEF Judged
    <2>6. \A u \in sweep.todo : paid[u].block + DEPOSIT_FINALITY <= head
      BY <2>1 DEF Timely, Buried
    <2> QED
      BY <1>1, <2>3, <2>5, <2>6, JudgedIsTimely
  <1>9. CASE Swept \/ SweepFails
    <2>1. strays' = strays /\ sweep'.at \in {"resting", "sending"}
      BY <1>5, <1>9 DEF Swept, SweepFails, Sweep
    <2> QED
      BY <1>4, <2>1
  <1>10. CASE Refunded \/ RefundFails \/ RefundUnheard
    <2>1. /\ sweep.at = "sending" /\ sweep' = Onward
          /\ \E status \in Statuses : strays' = Tried(status)
      BY <1>10 DEF Refunded, RefundFails, RefundUnheard, Failed, Statuses
    <2>2. Refunding \in Transfers /\ strays[Refunding].status = "open"
      BY <1>0, <1>2, <2>1 DEF SweepKnows, Refunding
    <2>3. \A t \in Transfers : t # Refunding => strays'[t] = strays[t]
      BY <1>0, <2>1 DEF Tried, StraysOK
    <2>4. sweep'.at \in {"resting", "sending"}
      BY <1>5, <2>1 DEF Onward
    <2> QED
      BY <1>4, <2>2, <2>3, <2>4
  <1> QED
    BY <1>6, <1>7, <1>8, <1>9, <1>10 DEF Sweeps

LEMMA BlockTimely ==
    ASSUME Prompt, Inv, SweepInv, Timely, Block
    PROVE  Timely'
  <1>0. /\ TypeOK /\ SweepKnows /\ head \in Nat /\ DEPOSIT_FINALITY \in Nat
        /\ paid \in [Transfers -> [block : Nat, amount : Nat]] /\ sweep.todo \in SUBSET Transfers
        /\ job \in [Orders -> Jobs]
    BY DepositsAssumption DEF Inv, TypeOK, SweepInv, DepositsAssumption, Jobs
  <1>1. head' = head + 1 /\ UNCHANGED <<order, line, req, job, claimed, strays, sweep>>
    BY DEF Block, book, accepts, jobs, sweeper
  <1>2. \A t \in Transfers : Sent(t) => paid'[t] = paid[t]
    BY <1>0 DEF Block, Sent
  <1>3. \A t \in Transfers : Sent(t) => Sent(t)'
    BY <1>2 DEF Sent
  <1>4. First(sweep.todo)' = First(sweep.todo)
    <2>1. \A t \in sweep.todo : paid'[t] = paid[t]
      BY <1>0, <1>2 DEF SweepKnows
    <2>2. Oldest(sweep.todo)' = Oldest(sweep.todo)
      BY <1>1, <2>1 DEF Oldest
    <2> QED
      BY <2>2 DEF First
  <1>5. \A t \in Transfers : Judged(t)' => Judged(t)
    BY <1>1, <1>4 DEF Judged
  <1>6. \A t \in Transfers : Judged(t) => Sent(t)
    <2>1. sweep.at = "weighing" => First(sweep.todo) \in sweep.todo
      BY <1>0, FirstIsOne DEF SweepKnows
    <2> QED
      BY <1>0, <2>1 DEF Judged, SweepKnows
  <1>7. Opens' /\ Promptly'
    <2>1. Promptly'
      BY <1>1 DEF Block, Promptly
    <2> QED
      BY <1>1, <2>1 DEF Timely, Opens, In
  <1>8. Buried'
    <2>1. ASSUME NEW t \in Transfers, Judged(t)' PROVE paid'[t].block + DEPOSIT_FINALITY <= head'
      <3>1. paid[t].block + DEPOSIT_FINALITY <= head /\ paid'[t] = paid[t]
        BY <1>2, <1>5, <1>6, <2>1 DEF Timely, Buried
      <3> QED
        BY <1>0, <1>1, <3>1
    <2>2. ASSUME sweep.at \in {"judging", "weighing"}, NEW t \in sweep.todo
          PROVE  paid'[t].block + DEPOSIT_FINALITY <= head'
      <3>1. paid[t].block + DEPOSIT_FINALITY <= head /\ paid'[t] = paid[t]
        BY <1>0, <1>2, <2>2 DEF Timely, Buried, SweepKnows
      <3> QED
        BY <1>0, <1>1, <2>2, <3>1
    <2> QED
      BY <1>1, <2>1, <2>2 DEF Buried
  <1>9. Nobodys'
    BY <1>1, <1>2, <1>5, <1>6 DEF Timely, Nobodys
  <1>10. Seen'
    <2> SUFFICES ASSUME NEW o \in Orders, job[o].at = "found" PROVE Claimable(o, job[o].seen)'
      BY <1>1 DEF Seen
    <2>1. Claimable(o, job[o].seen) /\ job[o].seen \subseteq Transfers
      BY <1>0 DEF Timely, Seen, Jobs
    <2> QED
      BY <1>1, <1>2, <1>3, <2>1 DEF Claimable
  <1> QED
    BY <1>7, <1>8, <1>9, <1>10 DEF Timely

\* After a crash no order is open that was not, but one whose last save was on its
\* way, from a block that is not final.
LEMMA CrashTimely ==
    ASSUME Inv, Inv', Agreed, Timely, Crash
    PROVE  Timely'
  <1>0. /\ TypeOK /\ Owned /\ Marked /\ DEPOSIT_FINALITY \in Nat /\ head \in Nat
        /\ \A t \in Transfers : paid[t].block \in Nat
        /\ \A o \in Orders : order'[o].from \in Nat
    BY DepositsAssumption DEF Inv, Agreed, TypeOK, Records, DepositsAssumption
  <1>1. /\ req' = [r \in Requests |-> NoRequest] /\ line' = <<>>
        /\ job' = [o \in Orders |-> IF job[o].at = "none" THEN job[o] ELSE Job("waiting", {})]
        /\ claimed' = {order'[o].dep : o \in Orders} \ {NoTransfer}
        /\ sweep' = Sweep("resting", {}, 0) /\ UNCHANGED <<head, paid, strays>>
    BY DEF Crash, Restart, chain
  <1>2. PICK n \in 0 .. Len(line) : order' = Executed(n)
    BY DEF Crash, Restart
  <1>3. In(line') = {} /\ sweep'.at = "resting"
    BY <1>1 DEF In, Sweep
  <1>4. \A r \in Requests : req'[r].at = "none"
    BY <1>1 DEF NoRequest
  <1>5. \A o \in Orders : job'[o].at # "found"
    BY <1>1 DEF Job
  <1>6. \A t \in Transfers : Judged(t)' => Judged(t)
    BY <1>1, <1>3 DEF Judged
  <1>7. Opens' /\ Promptly' /\ Seen'
    BY <1>3, <1>4, <1>5 DEF Opens, Promptly, Seen
  <1>8. Buried'
    BY <1>1, <1>3, <1>6 DEF Timely, Buried
  <1>9. Nobodys'
    <2> SUFFICES ASSUME NEW t \in Transfers, Judged(t)
                 PROVE  /\ t \notin claimed'
                        /\ \A o \in Orders : order'[o].st = "AWAITING_DEPOSIT" /\ order'[o].want = paid[t].amount =>
                               paid[t].block < order'[o].from
      BY <1>1, <1>6 DEF Nobodys
    <2>1. /\ t \notin claimed /\ paid[t].block + DEPOSIT_FINALITY <= head
          /\ \A o \in Orders : order[o].st = "AWAITING_DEPOSIT" /\ order[o].want = paid[t].amount =>
                 paid[t].block < order[o].from
      BY DEF Timely, Nobodys, Buried
    <2>2. t \notin claimed'
      BY <1>0, <1>1, <1>2, <2>1, ExecutedAreHeld DEF Marked
    <2>3. ASSUME NEW o \in Orders, order'[o].st = "AWAITING_DEPOSIT", order'[o].want = paid[t].amount
          PROVE  paid[t].block < order'[o].from
      <3>1. CASE order'[o] = order[o]
        BY <2>1, <2>3, <3>1
      <3>2. ASSUME NEW w \in In(line), w \in Saves, w.order = o, ~OfQuote(w), order'[o] = w.rec
            PROVE  paid[t].block < order'[o].from
        <4>1. CASE w.by \in Requests
          <5>1. req[w.by].at = "awaiting" /\ w.rec.from = req[w.by].from
            BY <1>0, <2>3, <3>2, <4>1 DEF Owned, Saving, OfQuote, Timely, Opens
          <5>2. head < w.rec.from + DEPOSIT_FINALITY
            BY <4>1, <5>1 DEF Timely, Promptly
          <5> QED
            BY <1>0, <2>1, <3>2, <5>2
        <4>2. CASE w.by \notin Requests
          <5>1. w.by = o
            BY <1>0, <3>2, <4>2 DEF Owned
          <5>2. w.rec.want = order[o].want /\ w.rec.from = order[o].from /\ order[o].st = "AWAITING_DEPOSIT"
            BY <2>3, <3>2, <5>1 DEF Agreed, Repeats
          <5> QED
            BY <2>1, <2>3, <3>2, <5>2
        <4> QED
          BY <4>1, <4>2
      <3> QED
        BY <1>0, <1>2, <3>1, <3>2, ExecutedIsOne
    <2> QED
      BY <2>2, <2>3
  <1> QED
    BY <1>7, <1>8, <1>9 DEF Timely

LEMMA InitTimely == Init => Timely
  <1> SUFFICES ASSUME Init PROVE Timely
    OBVIOUS
  <1>1. In(line) = {} /\ sweep.at = "resting"
    BY DEF Init, In, Sweep
  <1>2. /\ \A r \in Requests : req[r].at = "none"
        /\ \A o \in Orders : job[o].at = "none"
        /\ \A t \in Transfers : ~Judged(t)
    BY <1>1 DEF Init, NoRequest, Job, Judged
  <1> QED
    BY <1>1, <1>2 DEF Timely, Opens, Promptly, Buried, Nobodys, Seen

LEMMA NextTimely ==
    ASSUME ~Duplicates, Prompt, DEPOSIT_FINALITY > 0, Inv, Inv', Agreed, SweepInv, Timely, [Next]_vars
    PROVE  Timely'
  <1>0. TypeOK /\ Busy /\ ReqOK /\ JobOK /\ LineOK' /\ OrderOK'
    BY Groups DEF Inv, TypeOK, LineOK, OrderOK, Saves
  <1>1. ASSUME NEW r \in Requests, Steps(r), UNCHANGED <<chain, claimed, sweeper>> PROVE Timely'
    <2>1. Opens /\ Promptly
      BY DEF Timely
    <2> QED
      BY <1>0, <1>1, <2>1, RequestIsTimely DEF Steps
  <1>2. ASSUME NEW o \in Orders, JobSteps(o), UNCHANGED <<chain, sweeper>> PROVE Timely'
    <2>1. Seen /\ Nobodys
      BY DEF Timely
    <2> QED
      BY <1>0, <1>2, <2>1, JobIsTimely DEF JobSteps
  <1>3. CASE \E r \in Requests : \E o \in Orders : Accept(r, o) \/ AcceptExpired(r, o)
    BY <1>1, <1>3, AcceptSteps DEF Accept, AcceptExpired, jobs
  <1>4. CASE \E r \in Requests : Answers(r) /\ ~Enqueue(r)
    <2>1. PICK r \in Requests : Answers(r) /\ ~Enqueue(r)
      BY <1>4
    <2>2. UNCHANGED <<chain, claimed, sweeper>>
      BY <2>1 DEF Answers, ExpiredLands, QuoteLands, BlockRead, AcceptedLands, WantedLands, AwaitingLands, jobs
    <2> QED
      BY <1>1, <2>1, <2>2, AnswersSteps
  <1>5. CASE \E r \in Requests : Enqueue(r)
    BY <1>0, <1>5, EnqueueIsTimely
  <1>6. CASE \E o \in Orders : Watches(o)
    <2>1. PICK o \in Orders : Watches(o)
      BY <1>6
    <2>2. UNCHANGED <<chain, sweeper>>
      BY <2>1 DEF Watches, Search, Claim, NotFound, ClaimLands, Decide, DecisionLands, Ignored
    <2> QED
      BY <1>2, <2>1, <2>2, WatchesSteps
  <1>7. CASE SaveFails
    <2>1. UNCHANGED <<chain, claimed, sweeper>>
      BY <1>7 DEF SaveFails
    <2> QED
      BY <1>1, <1>2, <1>7, <2>1, RefusedSteps
  <1>8. CASE Crash
    BY <1>8, CrashTimely
  <1>9. CASE Sweeps \/ RefundUnheard \/ SweepFails
    BY <1>9, SweepsTimely
  <1>10. CASE Block
    BY <1>10, BlockTimely
  <1>11. CASE UNCHANGED vars \/ \E o \in Orders : DeadlinePasses(o) \/ QuoteExpires(o)
    <2>1. UNCHANGED <<head, paid, order, req, job, line, claimed, strays, sweep>>
      BY <1>11 DEF DeadlinePasses, QuoteExpires, vars, chain, book, accepts, jobs, sweeper
    <2>2. \A t \in Transfers : Judged(t)' => Judged(t)
      BY <2>1 DEF Judged, First, Oldest
    <2> QED
      BY <2>1, <2>2, JudgedIsTimely DEF Timely, Buried
  <1> QED
    BY <1>3, <1>4, <1>5, <1>6, <1>7, <1>8, <1>9, <1>10, <1>11 DEF Next

\* No order's deposit is sent back as a stray, and no stray becomes a deposit, provided
\* accepts of one order do not overlap and each is written before DEPOSIT_FINALITY
\* blocks: an order waits from a block the sweeper has not reached
\* (sweeper.ts: claimable, solver.ts: acceptOrder).
THEOREM DepositIsNoStray ==
    ASSUME ~Duplicates, Prompt, DEPOSIT_FINALITY > 0
    PROVE  Spec => []NeverBoth
  <1>1. Inv /\ Timely => NeverBoth
    BY DEF Inv, Marked, Holds, Timely, Nobodys, Judged, NeverBoth
  <1>2. Inv /\ Inv' /\ Agreed /\ SweepInv /\ Timely /\ [Next]_vars => Timely'
    BY NextTimely
  <1>3. TypeOK /\ TypeOK' /\ SweepInv /\ [Next]_vars => SweepInv'
    BY NextSweep
  <1> QED
    BY <1>1, <1>2, <1>3, InitTimely, InitSweep, AgreedInvariant, DepositInvariant, DepositTypes, PTL DEF Spec

=============================================================================
