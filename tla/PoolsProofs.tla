----------------------------- MODULE PoolsProofs -----------------------------
(***************************************************************************)
(* The pool repository keeps what the chain has.  A replay applies a range *)
(* of logs to what was true before the range, and each log does to the     *)
(* numbers of a pair what its event did to the pools (RankedFollows,       *)
(* FreshFollows): so the numbers are those of the block the range ends at  *)
(* (LogsReplayed).  For that the pools a range creates must be tracked     *)
(* before the logs are (CreatedReplayed), and empty pools must not move    *)
(* the ranking (EmptyIsNotDeep).                                           *)
(*                                                                         *)
(* A load may end inside a replay, and a replay may throw after it applied *)
(* its logs.  What saves a pair then is that no event of the range was of  *)
(* it (Quiet): the invariant says where such a pair stands meanwhile.      *)
(***************************************************************************)
EXTENDS Pools, FiniteSums

-----------------------------------------------------------------------------
(* The liquidity of a pool.                                                *)

\* Positions, without their sign.
Positions == [Ranges -> Int]

\* The net at a tick is a number.
LEMMA NetIs ==
    ASSUME NEW s, s.positions \in Positions, NEW i
    PROVE  LiquidityNet(s, i) \in Int
  <1>1. IsFiniteSet(Ranges) /\ s.positions \in [Ranges -> Int]
    BY PoolsAssumption DEF PoolsAssumption, Positions
  <1>2. PICK u : Totals(u, s.positions, Ranges)
    BY <1>1, Summed
  <1> QED
    BY <1>2 DEF Totals, LiquidityNet

\* So is liquidity, and it is zero where there are no positions or no price.
LEMMA LiquidityIs ==
    ASSUME NEW s \in States, NEW p \in Pools
    PROVE  /\ LiquidityAt(s, s.tick) \in Int /\ Liquidity(p, s) \in Int
           /\ Sound(s) /\ s.tick = None => LiquidityAt(s, s.tick) = 0
           /\ \A t \in Ticks : LiquidityAt(s, t) \in Int
           /\ \A t : (\A r \in Ranges : s.positions[r] = 0) => LiquidityAt(s, t) = 0
  <1>1. IsFiniteSet(Ranges) /\ s.positions \in [Ranges -> Int]
    BY PoolsAssumption DEF PoolsAssumption, States
  <1>2. PICK u : Totals(u, s.positions, Ranges)
    BY <1>1, Summed
  <1>3. \A t : LiquidityAt(s, t) \in Int
    BY <1>2 DEF Totals, LiquidityAt
  <1>4. ASSUME NEW t, \A r \in Ranges : s.positions[r] = 0 PROVE LiquidityAt(s, t) = 0
    <2> DEFINE T == {r \in Ranges : In(t, r)}
    <2>1. T \in SUBSET Ranges /\ \A y \in T : s.positions[y] = 0
      BY <1>4
    <2> HIDE DEF T
    <2>2. SumFunctionOnSet(s.positions, T) = 0
      BY <1>1, <2>1, NothingSums
    <2> QED
      BY <2>2 DEF T, LiquidityAt
  <1>5. Liquidity(p, s) \in Int /\ LiquidityAt(s, s.tick) \in Int
    BY <1>3 DEF Liquidity, States
  <1>6. Sound(s) /\ s.tick = None => LiquidityAt(s, s.tick) = 0
    BY DEF LiquidityAt
  <1> QED
    BY <1>3, <1>4, <1>5, <1>6

\* A position grows or shrinks: the liquidity at the ticks of its range does as much,
\* and the net at its two ends.
LEMMA PositionMoves ==
    ASSUME NEW s \in States, NEW r \in Ranges, NEW d \in Int,
           NEW z \in States, z.positions = [s.positions EXCEPT ![r] = @ + d], z.tick = s.tick
    PROVE  /\ s.tick # None =>
                  LiquidityAt(z, z.tick) = LiquidityAt(s, s.tick) + (IF In(s.tick, r) THEN d ELSE 0)
           /\ \A i : LiquidityNet(z, i) = LiquidityNet(s, i) + (IF r[1] = i THEN d ELSE 0) - (IF r[2] = i THEN d ELSE 0)
  <1> DEFINE f == s.positions
             e == z.positions
  <1>1. /\ IsFiniteSet(Ranges) /\ f \in [Ranges -> Int] /\ e \in [Ranges -> Int]
        /\ e[r] = f[r] + d /\ \A y \in Ranges \ {r} : e[y] = f[y]
    BY PoolsAssumption DEF PoolsAssumption, States
  <1> HIDE DEF e, f
  <1>2. ASSUME NEW T \in SUBSET Ranges
        PROVE  /\ SumFunctionOnSet(f, T) \in Int
               /\ SumFunctionOnSet(e, T) = SumFunctionOnSet(f, T) + (IF r \in T THEN d ELSE 0)
    BY <1>1, <1>2, SumMoves
  <1>4. ASSUME s.tick # None
        PROVE  LiquidityAt(z, z.tick) = LiquidityAt(s, s.tick) + (IF In(s.tick, r) THEN d ELSE 0)
    <2> DEFINE T == {y \in Ranges : In(s.tick, y)}
    <2>1. T \in SUBSET Ranges /\ (r \in T <=> In(s.tick, r))
      OBVIOUS
    <2>2. LiquidityAt(z, z.tick) = SumFunctionOnSet(e, T) /\ LiquidityAt(s, s.tick) = SumFunctionOnSet(f, T)
      BY <1>4 DEF LiquidityAt, e, f
    <2> HIDE DEF T
    <2> QED
      BY <1>2, <2>1, <2>2
  <1>5. ASSUME NEW i
        PROVE  LiquidityNet(z, i) = LiquidityNet(s, i) + (IF r[1] = i THEN d ELSE 0) - (IF r[2] = i THEN d ELSE 0)
    <2> DEFINE T == {y \in Ranges : y[1] = i}
               U == {y \in Ranges : y[2] = i}
    <2>1. T \in SUBSET Ranges /\ U \in SUBSET Ranges /\ (r \in T <=> r[1] = i) /\ (r \in U <=> r[2] = i)
      OBVIOUS
    <2>2. /\ LiquidityNet(z, i) = SumFunctionOnSet(e, T) - SumFunctionOnSet(e, U)
          /\ LiquidityNet(s, i) = SumFunctionOnSet(f, T) - SumFunctionOnSet(f, U)
      BY DEF LiquidityNet, e, f
    <2> HIDE DEF T, U
    <2>3. /\ SumFunctionOnSet(e, T) = SumFunctionOnSet(f, T) + (IF r[1] = i THEN d ELSE 0)
          /\ SumFunctionOnSet(f, T) \in Int
      BY <1>2, <2>1
    <2>4. /\ SumFunctionOnSet(e, U) = SumFunctionOnSet(f, U) + (IF r[2] = i THEN d ELSE 0)
          /\ SumFunctionOnSet(f, U) \in Int
      BY <1>2, <2>1
    <2> QED
      BY <2>2, <2>3, <2>4
  <1> QED
    BY <1>4, <1>5

-----------------------------------------------------------------------------
(* What an event does, and what the repository makes of it.                *)

\* The events of a block.
Names == {"Created", "Sync", "Initialize", "Swap", "Mint", "Burn"}
Events == [name : Names, pool : Pools, tick : Ticks \cup {None}, range : Ranges \cup {None}, amount : Int]

\* The event of pool p in state s leaves it in z.
Effect(p, s, log, z) ==
    /\ log \in Events /\ log.pool = p
    /\ z \in States /\ Sound(z) /\ z.live
    /\ IF log.name = "Created"
       THEN /\ ~s.live
            /\ z.tick = s.tick /\ z.positions = s.positions /\ z.reserve = s.reserve
       ELSE /\ s.live /\ p \in Listed
            /\ Kind[p] = "v2" <=> log.name = "Sync"
            /\ log.name = "Sync" => z.reserve = log.amount
            /\ log.name = "Initialize" =>
                   /\ s.tick = None /\ log.tick \in Ticks /\ z.tick = log.tick
                   /\ z.positions = s.positions
            /\ log.name = "Swap" =>
                   /\ s.tick # None /\ log.tick \in Ticks /\ z.tick = log.tick
                   /\ z.positions = s.positions /\ log.amount = LiquidityAt(s, log.tick)
            /\ log.name \in {"Mint", "Burn"} =>
                   /\ s.tick # None /\ z.tick = s.tick /\ log.range \in Ranges
                   /\ Delta(log) \in Int
                   /\ z.positions = [s.positions EXCEPT ![log.range] = @ + Delta(log)]

\* EventsOf, event by event.
LEMMA EventIs ==
    ASSUME NEW p \in Pools, NEW s \in States, Sound(s), NEW log, NEW z, <<log, z>> \in EventsOf(p, s)
    PROVE  Effect(p, s, log, z)
  <1> USE PoolsAssumption, NoneAssumption DEF PoolsAssumption, NoneAssumption
  <1>0. \A t \in Ticks : LiquidityAt(s, t) \in Int
    BY LiquidityIs
  <1>1. CASE ~s.live
    <2>1. log = Event("Created", p) /\ z = [s EXCEPT !.live = TRUE]
      BY <1>1 DEF EventsOf
    <2>2. log \in Events /\ log.pool = p /\ log.name = "Created"
      BY <2>1 DEF Event, Events, Names
    <2>3. /\ z.live /\ z.tick = s.tick /\ z.positions = s.positions /\ z.reserve = s.reserve
          /\ z \in States /\ Sound(z)
      BY <1>1, <2>1 DEF States, Sound
    <2> QED
      BY <1>1, <2>2, <2>3 DEF Effect
  <1>2. CASE s.live /\ Kind[p] = "v2" /\ p \in Listed
    <2>1. PICK n \in Reserves : log = [Event("Sync", p) EXCEPT !.amount = n] /\ z = [s EXCEPT !.reserve = n]
      BY <1>2 DEF EventsOf
    <2>2. n \in Nat
      OBVIOUS
    <2> QED
      BY <1>2, <2>1, <2>2 DEF Effect, Event, Events, Names, States, Sound
  <1>3. CASE s.live /\ Kind[p] # "v2" /\ p \in Listed /\ s.tick = None
    <2>1. PICK t \in InitialTicks : log = [Event("Initialize", p) EXCEPT !.tick = t] /\ z = [s EXCEPT !.tick = t]
      BY <1>3 DEF EventsOf
    <2>2. t \in Ticks /\ t # None
      OBVIOUS
    <2> QED
      BY <1>3, <2>1, <2>2 DEF Effect, Event, Events, Names, States, Sound
  <1>4. CASE s.live /\ Kind[p] # "v2" /\ p \in Listed /\ s.tick # None
    <2>0. s.tick \in Ticks
      BY <1>4 DEF States
    <2>1. CASE \E t \in Ticks : log = [Event("Swap", p) EXCEPT !.tick = t, !.amount = LiquidityAt(s, t)]
                                /\ z = [s EXCEPT !.tick = t]
      <3>1. PICK t \in Ticks : log = [Event("Swap", p) EXCEPT !.tick = t, !.amount = LiquidityAt(s, t)]
                               /\ z = [s EXCEPT !.tick = t]
        BY <2>1
      <3>2. t # None /\ LiquidityAt(s, t) \in Int
        BY <1>0
      <3> HIDE DEF LiquidityAt
      <3> QED
        BY <1>4, <3>1, <3>2 DEF Effect, Event, Events, Names, States, Sound
    <2>2. CASE \E r \in Ranges : log = [Event("Mint", p) EXCEPT !.range = r, !.amount = 1]
                                 /\ z = [s EXCEPT !.positions[r] = @ + 1]
      <3>1. PICK r \in Ranges : log = [Event("Mint", p) EXCEPT !.range = r, !.amount = 1]
                                /\ z = [s EXCEPT !.positions[r] = @ + 1]
        BY <2>2
      <3>2. Delta(log) = 1 /\ s.positions \in [Ranges -> Nat]
        BY <3>1 DEF Delta, Event, States
      <3>3. z.positions = [s.positions EXCEPT ![r] = @ + 1] /\ z.positions \in [Ranges -> Nat]
        BY <3>1, <3>2 DEF States
      <3>4. log = [name |-> "Mint", pool |-> p, tick |-> None, range |-> r, amount |-> 1] /\ log \in Events
        <4>1. log = [Event("Mint", p) EXCEPT !.range = r, !.amount = 1]
          BY <3>1
        <4>2. log = [name |-> "Mint", pool |-> p, tick |-> None, range |-> r, amount |-> 1]
          BY <4>1 DEF Event
        <4> QED
          BY <4>2 DEF Events, Names
      <3>5. z.live /\ z.tick = s.tick /\ z.reserve = s.reserve /\ z \in States
        BY <1>4, <2>0, <3>1, <3>3 DEF States
      <3>6. Sound(z)
        BY <1>4, <3>5 DEF Sound
      <3> QED
        BY <1>4, <3>2, <3>3, <3>4, <3>5, <3>6 DEF Effect
    <2>3. CASE \E r \in Ranges : /\ s.positions[r] > 0
                                 /\ log = [Event("Burn", p) EXCEPT !.range = r, !.amount = 1]
                                 /\ z = [s EXCEPT !.positions[r] = @ - 1]
      <3>1. PICK r \in Ranges : /\ s.positions[r] > 0
                                /\ log = [Event("Burn", p) EXCEPT !.range = r, !.amount = 1]
                                /\ z = [s EXCEPT !.positions[r] = @ - 1]
        BY <2>3
      <3>2. Delta(log) = -1 /\ s.positions \in [Ranges -> Nat]
        BY <3>1 DEF Delta, Event, States
      <3>3. z.positions = [s.positions EXCEPT ![r] = @ + (-1)] /\ z.positions \in [Ranges -> Nat]
        BY <3>1, <3>2 DEF States
      <3>4. log = [name |-> "Burn", pool |-> p, tick |-> None, range |-> r, amount |-> 1] /\ log \in Events
        <4>1. log = [Event("Burn", p) EXCEPT !.range = r, !.amount = 1]
          BY <3>1
        <4>2. log = [name |-> "Burn", pool |-> p, tick |-> None, range |-> r, amount |-> 1]
          BY <4>1 DEF Event
        <4> QED
          BY <4>2 DEF Events, Names
      <3>5. z.live /\ z.tick = s.tick /\ z.reserve = s.reserve /\ z \in States
        BY <1>4, <2>0, <3>1, <3>3 DEF States
      <3>6. Sound(z)
        BY <1>4, <3>5 DEF Sound
      <3> QED
        BY <1>4, <3>2, <3>3, <3>4, <3>5, <3>6 DEF Effect
    <2> QED
      BY <1>4, <2>1, <2>2, <2>3 DEF EventsOf
  <1>5. p \in Listed \/ ~s.live
    BY DEF EventsOf
  <1> QED
    BY <1>1, <1>2, <1>3, <1>4, <1>5

\* What a pool is ranked on is its liquidity.
Ranked(e, s) ==
    /\ e.liquidity = Liquidity(e.pool, s)
    /\ Kind[e.pool] # "v2" /\ s.tick # None => e.tick = s.tick

\* What is held of a pool is what a fresh read would return.
Fresh(p, h, s) ==
    IF Kind[p] = "v2" THEN h.liquidity = s.reserve
    ELSE /\ h.tick = s.tick /\ h.liquidity = Liquidity(p, s)
         /\ \A i \in h.seen : h.net[i] = LiquidityNet(s, i)

\* applyToTracked does to the number a pool is ranked on what the event did to it.
LEMMA RankedFollows ==
    ASSUME NEW p \in Pools, NEW s \in States, Sound(s), NEW log, NEW z, Effect(p, s, log, z),
           NEW e \in Entries, e.pool = p, Ranked(e, s)
    PROVE  IF log.name = "Created" THEN Ranked(e, z)
           ELSE /\ ApplyToTracked(e, log) \in Entries
                /\ ApplyToTracked(e, log).pool = p
                /\ Ranked(ApplyToTracked(e, log), z)
  <1> USE PoolsAssumption, NoneAssumption DEF PoolsAssumption, NoneAssumption
  <1>0. LiquidityAt(s, s.tick) \in Int /\ (s.tick = None => LiquidityAt(s, s.tick) = 0)
    BY LiquidityIs
  <1>1. CASE log.name = "Created"
    <2>1. Liquidity(p, z) = Liquidity(p, s) /\ z.tick = s.tick
      BY <1>1 DEF Effect, Liquidity, LiquidityAt
    <2> QED
      BY <1>1, <2>1 DEF Ranked
  <1>2. CASE log.name = "Sync"
    <2>1. /\ Kind[p] = "v2" /\ Liquidity(p, z) = log.amount /\ log.amount \in Int
          /\ ApplyToTracked(e, log) = [e EXCEPT !.liquidity = log.amount]
      BY <1>2 DEF Effect, Liquidity, ApplyToTracked, Events
    <2> QED
      BY <1>2, <2>1 DEF Ranked, Entries
  <1>3. CASE log.name = "Initialize"
    <2>1. /\ Kind[p] # "v2" /\ s.tick = None /\ z.tick = log.tick /\ log.tick \in Ticks
          /\ z.positions = s.positions
          /\ ApplyToTracked(e, log) = [e EXCEPT !.tick = log.tick]
      BY <1>3 DEF Effect, ApplyToTracked
    <2>2. Liquidity(p, z) = 0
      <3>1. \A r \in Ranges : z.positions[r] = 0
        BY <2>1 DEF Sound
      <3>2. z \in States
        BY DEF Effect
      <3> QED
        BY <2>1, <3>1, <3>2, LiquidityIs DEF Liquidity
    <2>3. e.liquidity = 0
      BY <1>0, <2>1 DEF Ranked, Liquidity
    <2> QED
      BY <1>3, <2>1, <2>2, <2>3 DEF Ranked, Entries
  <1>4. CASE log.name = "Swap"
    <2>1. /\ Kind[p] # "v2" /\ z.tick = log.tick /\ log.tick \in Ticks /\ z.positions = s.positions
          /\ log.amount = LiquidityAt(s, log.tick) /\ log.amount \in Int
          /\ ApplyToTracked(e, log) = [e EXCEPT !.liquidity = log.amount, !.tick = log.tick]
      BY <1>4 DEF Effect, ApplyToTracked, Events
    <2>2. Liquidity(p, z) = log.amount
      BY <2>1 DEF Liquidity, LiquidityAt
    <2> QED
      BY <1>4, <2>1, <2>2 DEF Ranked, Entries
  <1>5. CASE log.name \in {"Mint", "Burn"}
    <2>1. /\ Kind[p] # "v2" /\ s.tick # None /\ z.tick = s.tick /\ log.range \in Ranges /\ Delta(log) \in Int
          /\ z.positions = [s.positions EXCEPT ![log.range] = @ + Delta(log)] /\ z \in States
      BY <1>5 DEF Effect
    <2>2. LiquidityAt(z, z.tick) = LiquidityAt(s, s.tick) + (IF In(s.tick, log.range) THEN Delta(log) ELSE 0)
      BY <2>1, PositionMoves
    <2>3. e.tick = s.tick /\ e.liquidity = LiquidityAt(s, s.tick)
      BY <2>1 DEF Ranked, Liquidity
    <2>4. ApplyToTracked(e, log) = IF In(s.tick, log.range) THEN [e EXCEPT !.liquidity = @ + Delta(log)] ELSE e
      BY <1>5, <2>1, <2>3 DEF ApplyToTracked, InRange
    <2>5. Liquidity(p, z) = LiquidityAt(z, z.tick)
      BY <2>1 DEF Liquidity
    <2> QED
      BY <1>0, <1>5, <2>1, <2>2, <2>3, <2>4, <2>5 DEF Ranked, Entries
  <1> QED
    BY <1>1, <1>2, <1>3, <1>4, <1>5 DEF Effect, Events, Names

\* applyToConcentrated does to what is held of a pool what the event did to it.
LEMMA FreshFollows ==
    ASSUME NEW p \in Pools, NEW s \in States, Sound(s), NEW log, NEW z, Effect(p, s, log, z),
           NEW h \in Reads, Fresh(p, h, s)
    PROVE  IF log.name = "Created" THEN Fresh(p, h, z)
           ELSE ApplyToHeld(h, log) \in Reads /\ Fresh(p, ApplyToHeld(h, log), z)
  <1> USE PoolsAssumption, NoneAssumption DEF PoolsAssumption, NoneAssumption
  <1>0. LiquidityAt(s, s.tick) \in Int /\ (s.tick = None => LiquidityAt(s, s.tick) = 0)
    BY LiquidityIs
  <1>1. CASE log.name = "Created"
    <2>1. Liquidity(p, z) = Liquidity(p, s) /\ z.tick = s.tick /\ z.reserve = s.reserve
          /\ \A i : LiquidityNet(z, i) = LiquidityNet(s, i)
      BY <1>1 DEF Effect, Liquidity, LiquidityAt, LiquidityNet
    <2> QED
      BY <1>1, <2>1 DEF Fresh
  <1>2. CASE log.name = "Sync"
    <2>1. /\ Kind[p] = "v2" /\ z.reserve = log.amount /\ log.amount \in Int
          /\ ApplyToHeld(h, log) = [h EXCEPT !.liquidity = log.amount]
      BY <1>2 DEF Effect, ApplyToHeld, Events
    <2> QED
      BY <1>2, <2>1 DEF Fresh, Reads
  <1>3. CASE log.name = "Initialize"
    <2>1. /\ Kind[p] # "v2" /\ s.tick = None /\ z.tick = log.tick /\ log.tick \in Ticks
          /\ z.positions = s.positions
          /\ ApplyToHeld(h, log) = [h EXCEPT !.tick = log.tick]
      BY <1>3 DEF Effect, ApplyToHeld
    <2>2. Liquidity(p, z) = 0
      <3>1. \A r \in Ranges : z.positions[r] = 0
        BY <2>1 DEF Sound
      <3>2. z \in States
        BY DEF Effect
      <3> QED
        BY <2>1, <3>1, <3>2, LiquidityIs DEF Liquidity
    <2>3. h.liquidity = 0 /\ \A i : LiquidityNet(z, i) = LiquidityNet(s, i)
      BY <1>0, <2>1 DEF Fresh, Liquidity, LiquidityNet
    <2> QED
      BY <1>3, <2>1, <2>2, <2>3 DEF Fresh, Reads
  <1>4. CASE log.name = "Swap"
    <2>1. /\ Kind[p] # "v2" /\ z.tick = log.tick /\ log.tick \in Ticks /\ z.positions = s.positions
          /\ log.amount = LiquidityAt(s, log.tick) /\ log.amount \in Int
          /\ ApplyToHeld(h, log) = [h EXCEPT !.liquidity = log.amount, !.tick = log.tick]
      BY <1>4 DEF Effect, ApplyToHeld, Events
    <2>2. Liquidity(p, z) = log.amount /\ \A i : LiquidityNet(z, i) = LiquidityNet(s, i)
      BY <2>1 DEF Liquidity, LiquidityAt, LiquidityNet
    <2> QED
      BY <1>4, <2>1, <2>2 DEF Fresh, Reads
  <1>5. CASE log.name \in {"Mint", "Burn"}
    <2> DEFINE r == log.range
               d == Delta(log)
               k == ApplyToHeld(h, log)
    <2>1. /\ Kind[p] # "v2" /\ s.tick # None /\ z.tick = s.tick /\ r \in Ranges /\ d \in Int
          /\ z.positions = [s.positions EXCEPT ![r] = @ + d] /\ z \in States
      BY <1>5 DEF Effect
    <2>2. /\ r[1] \in Ticks /\ r[2] \in Ticks /\ r[1] < r[2] /\ r[1] \in Int /\ r[2] \in Int
      BY <2>1
    <2>3. /\ LiquidityAt(z, z.tick) = LiquidityAt(s, s.tick) + (IF In(s.tick, r) THEN d ELSE 0)
          /\ \A i : LiquidityNet(z, i) = LiquidityNet(s, i) + (IF r[1] = i THEN d ELSE 0) - (IF r[2] = i THEN d ELSE 0)
      <3> HIDE DEF r, d
      <3> QED
        BY <2>1, PositionMoves
    <2>4. h.tick = s.tick /\ h.liquidity = LiquidityAt(s, s.tick)
      BY <2>1 DEF Fresh, Liquidity
    <2> DEFINE N == NetAfter(h.net, log)
               L == IF In(s.tick, r) THEN h.liquidity + d ELSE h.liquidity
    <2>5. k = [h EXCEPT !.net = N, !.liquidity = IF InRange(h.tick, log) THEN @ + d ELSE @]
      BY <1>5 DEF ApplyToHeld
    <2>12. InRange(h.tick, log) <=> In(s.tick, r)
      BY <2>1, <2>4 DEF InRange
    <2>14. N = [h.net EXCEPT ![r[1]] = @ + d, ![r[2]] = @ - d]
      BY DEF NetAfter
    <2> HIDE DEF r, d, k, L, N
    <2>6. /\ k.tick = h.tick /\ k.seen = h.seen /\ k.liquidity = L /\ k.net = N
          /\ k = [liquidity |-> k.liquidity, tick |-> k.tick, net |-> k.net, seen |-> k.seen]
      BY <2>5, <2>12 DEF Reads, L
    <2>7. /\ k.net \in [Ticks -> Int]
          /\ \A i \in Ticks : k.net[i] = h.net[i] + (IF r[1] = i THEN d ELSE 0) - (IF r[2] = i THEN d ELSE 0)
      <3>1. h.net \in [Ticks -> Int]
        BY DEF Reads
      <3> QED
        BY <2>1, <2>2, <2>6, <2>14, <3>1
    <2>8. k \in Reads
      <3>1. h.liquidity \in Int /\ h.tick \in Int \cup {None} /\ h.seen \in SUBSET Ticks
        BY DEF Reads
      <3>2. k.liquidity \in Int
        BY <2>1, <2>6, <3>1 DEF L
      <3> QED
        BY <2>6, <2>7, <3>1, <3>2 DEF Reads
    <2>9. Liquidity(p, z) = k.liquidity
      BY <1>0, <2>1, <2>3, <2>4, <2>6 DEF Liquidity, L
    <2>10. \A i \in k.seen : k.net[i] = LiquidityNet(z, i)
      <3> SUFFICES ASSUME NEW i \in h.seen PROVE k.net[i] = LiquidityNet(z, i)
        BY <2>6
      <3>1. i \in Ticks /\ h.net[i] = LiquidityNet(s, i)
        BY <2>1 DEF Fresh, Reads
      <3>2. LiquidityNet(z, i) = LiquidityNet(s, i) + (IF r[1] = i THEN d ELSE 0) - (IF r[2] = i THEN d ELSE 0)
        BY <2>3
      <3> QED
        BY <2>7, <3>1, <3>2
    <2>11. Fresh(p, k, z)
      BY <2>1, <2>4, <2>6, <2>9, <2>10 DEF Fresh
    <2>13. ApplyToHeld(h, log) = k /\ log.name # "Created"
      BY <1>5 DEF k
    <2> QED
      BY <2>8, <2>11, <2>13
  <1> QED
    BY <1>1, <1>2, <1>3, <1>4, <1>5 DEF Effect, Events, Names

-----------------------------------------------------------------------------
(* The invariant.                                                          *)

\* Block b is the one before it and the effect of its event.
Follows(b) ==
    /\ Effect(logs[b].pool, chain[b - 1][logs[b].pool], logs[b], chain[b][logs[b].pool])
    /\ \A z \in Pools \ {logs[b].pool} : chain[b][z] = chain[b - 1][z]

\* Every block follows from the one before.
ChainOK ==
    /\ logs \in Seq(Events)
    /\ chain \in [0..head -> [Pools -> States]]
    /\ \A b \in 0..head, p \in Pools : Sound(chain[b][p])
    /\ \A b \in 1..head : Follows(b)

StageIs(s) == syncing # None /\ syncing.stage = s

\* A replay is of a range after the block synced to, about pairs that are loaded.
SyncOK ==
    /\ syncedBlock \in 0..head
    /\ syncing \in Replays \cup {None}
    /\ syncing # None =>
          /\ syncedBlock < syncing.to /\ syncing.to <= head
          /\ syncing.of \subseteq Loaded /\ syncing.left \subseteq Loaded
          /\ syncing.stage # "reselect" => syncing.left = {}

\* A pair is loaded once, by one load.
LoadOK ==
    /\ loaded \in [Pairs -> PairStates \cup {None}]
    /\ inFlight \in [Pairs -> {0, 1}]
    /\ \A q \in Pairs : inFlight[q] = 1 => loaded[q] = None
    /\ off \subseteq Pairs /\ faults \in Nat

\* What a pair tracks are listed pools of its own, each once, and what it holds
\* is tracked.
Distinct(tracked) == \A i, j \in DOMAIN tracked : tracked[i].pool = tracked[j].pool => i = j
Paired(q, pair) ==
    /\ pair \in PairStates
    /\ \A i \in DOMAIN pair.tracked : pair.tracked[i].pool \in Listed /\ PairOf[pair.tracked[i].pool] = q
    /\ Distinct(pair.tracked)
    /\ \A p \in DOMAIN pair.held : Tracks(pair, p)

\* Of states c of the pools, the pools a pair tracks are deployed.
Deployed(pair, c) == \A i \in DOMAIN pair.tracked : c[pair.tracked[i].pool].live

PairsOK == \A q \in Loaded : Paired(q, loaded[q]) /\ Deployed(loaded[q], chain[head])

\* The numbers of a pair are those of the states c, and every pool of it is
\* tracked that is deployed in them.
Numbers(pair, c) ==
    /\ \A i \in DOMAIN pair.tracked : Ranked(pair.tracked[i], c[pair.tracked[i].pool])
    /\ \A p \in DOMAIN pair.held : Fresh(p, pair.held[p], c[p])

\* A pair tracks every pool deployed.
Complete(q, pair, c) == \A p \in Listed : PairOf[p] = q /\ c[p].live => Tracks(pair, p)

ExactAt(q, pair, c) == Numbers(pair, c) /\ Complete(q, pair, c)

\* The range under replay holds no event of the pair.
Quiet(q) == \A b \in (syncedBlock + 1)..syncing.to : PairOf[logs[b].pool] # q

\* The pairs a replay is about know the pools it brings before their events.
Watches == StageIs("logs") => \A q \in syncing.of \ off : Complete(q, loaded[q], chain[syncing.to])

\* Pairs that should be exact are, at the block the reads are at.
ExactOK == \A q \in Exact : ExactAt(q, loaded[q], chain[At])

\* A pair loaded while a replay runs is not moved by it, and is exact where the
\* replay would leave it if it threw.
LateOK ==
    StageIs("reselect") =>
        \A q \in Loaded \ (off \cup syncing.of) : Quiet(q) => ExactAt(q, loaded[q], chain[syncedBlock])

\* A pair holds its deepest pools, but for the time it waits to be reselected.
HeldOK ==
    \A q \in Loaded \ off :
        (StageIs("reselect") => q \notin syncing.left \/ Quiet(q)) =>
            DOMAIN loaded[q].held = Deepest(loaded[q].tracked)

IInv == ChainOK /\ SyncOK /\ LoadOK /\ PairsOK /\ Watches /\ ExactOK /\ LateOK /\ HeldOK

-----------------------------------------------------------------------------
(* Pairs.                                                                  *)

\* A pair, taken apart and put together.
LEMMA PairHas ==
    ASSUME NEW pair \in PairStates
    PROVE  /\ pair.tracked \in Seq(Entries)
           /\ DOMAIN pair.held \in SUBSET Listed
           /\ \A p \in DOMAIN pair.held : pair.held[p] \in Reads
           /\ pair = [tracked |-> pair.tracked, held |-> pair.held]
           /\ pair.held = [p \in DOMAIN pair.held |-> pair.held[p]]
  <1>1. PICK D \in SUBSET Listed : pair.held \in [D -> Reads]
    BY DEF PairStates
  <1> QED
    BY <1>1 DEF PairStates

LEMMA PairIs ==
    ASSUME NEW t \in Seq(Entries), NEW h, NEW D \in SUBSET Listed, h \in [D -> Reads]
    PROVE  [tracked |-> t, held |-> h] \in PairStates
  BY DEF PairStates

\* What is deployed stays so.
LEMMA StaysLive ==
    ASSUME ChainOK, NEW m \in 0..head, NEW n \in m..head, NEW p \in Pools, chain[m][p].live
    PROVE  chain[n][p].live
  <1> DEFINE N == {i \in Nat : i <= head - m /\ ~chain[m + i][p].live}
  <1>0. head \in Nat /\ logs \in Seq(Events)
    BY DEF ChainOK, head
  <1>1. SUFFICES N = {}
    <2>1. n - m \in Nat /\ n - m <= head - m /\ m + (n - m) = n
      BY <1>0
    <2> QED
      BY <2>1
  <1>2. SUFFICES ASSUME N # {} PROVE FALSE
    OBVIOUS
  <1>3. PICK i \in N : \A j \in N : i <= j
    <2>1. N \in SUBSET Nat
      OBVIOUS
    <2> HIDE DEF N
    <2> QED
      BY <1>2, <2>1, Least
  <1>4. i \in Nat /\ i <= head - m /\ ~chain[m + i][p].live /\ m \in Nat /\ m + 0 = m
    BY <1>3
  <1>8. i # 0 /\ i - 1 \in Nat /\ i - 1 <= head - m /\ m + (i - 1) = (m + i) - 1 /\ m + i \in 1..head
    BY <1>0, <1>4
  <1>9. i - 1 \notin N
    <2> HIDE DEF N
    <2>1. i \notin Nat \/ ~(i <= i - 1)
      BY <1>4
    <2> QED
      BY <1>3, <1>4, <2>1
  <1>5. chain[(m + i) - 1][p].live
    BY <1>8, <1>9
  <1>6. Follows(m + i)
    BY <1>8 DEF ChainOK
  <1>7. chain[m + i][p].live
    BY <1>5, <1>6 DEF Follows, Effect
  <1> QED
    BY <1>4, <1>7

\* What one log makes of entries and reads is of their types.
LEMMA TakenTypes ==
    ASSUME NEW p, NEW s, NEW log, NEW z, Effect(p, s, log, z), log.name # "Created"
    PROVE  /\ \A e \in Entries : /\ ApplyToTracked(e, log) \in Entries
                                 /\ ApplyToTracked(e, log).pool = e.pool
           /\ \A h \in Reads : ApplyToHeld(h, log) \in Reads
  <1> USE PoolsAssumption, NoneAssumption DEF PoolsAssumption, NoneAssumption
  <1>1. /\ log.amount \in Int
        /\ log.name \in {"Swap", "Initialize"} => log.tick \in Int
        /\ log.name \in {"Mint", "Burn"} => Delta(log) \in Int /\ log.range[1] \in Ticks /\ log.range[2] \in Ticks
        /\ log.name \in {"Sync", "Swap", "Initialize", "Mint", "Burn"}
    BY DEF Effect, Events, Names
  <1>2. ASSUME NEW e \in Entries
        PROVE  ApplyToTracked(e, log) \in Entries /\ ApplyToTracked(e, log).pool = e.pool
    <2>1. CASE log.name = "Sync"
      BY <1>1, <2>1 DEF ApplyToTracked, Entries
    <2>2. CASE log.name = "Swap"
      BY <1>1, <2>2 DEF ApplyToTracked, Entries
    <2>3. CASE log.name = "Initialize"
      BY <1>1, <2>3 DEF ApplyToTracked, Entries
    <2>4. CASE log.name \in {"Mint", "Burn"}
      <3>1. ApplyToTracked(e, log) = [e EXCEPT !.liquidity = @ + Delta(log)] \/ ApplyToTracked(e, log) = e
        BY <2>4 DEF ApplyToTracked
      <3> QED
        BY <1>1, <2>4, <3>1 DEF Entries
    <2> QED
      BY <1>1, <2>1, <2>2, <2>3, <2>4
  <1>3. ASSUME NEW h \in Reads PROVE ApplyToHeld(h, log) \in Reads
    <2>1. CASE log.name = "Sync"
      BY <1>1, <2>1 DEF ApplyToHeld, Reads
    <2>2. CASE log.name = "Swap"
      BY <1>1, <2>2 DEF ApplyToHeld, Reads
    <2>3. CASE log.name = "Initialize"
      BY <1>1, <2>3 DEF ApplyToHeld, Reads
    <2>4. CASE log.name \in {"Mint", "Burn"}
      <3>1. ApplyToHeld(h, log) = [h EXCEPT !.net = NetAfter(@, log),
                                            !.liquidity = IF InRange(h.tick, log) THEN @ + Delta(log) ELSE @]
        BY <2>4 DEF ApplyToHeld
      <3>2. NetAfter(h.net, log) \in [Ticks -> Int]
        <4>1. /\ log.range[1] \in Ticks /\ log.range[2] \in Ticks /\ Delta(log) \in Int
              /\ h.net \in [Ticks -> Int]
          BY <1>1, <2>4 DEF Reads
        <4>2. NetAfter(h.net, log) = [h.net EXCEPT ![log.range[1]] = @ + Delta(log),
                                                   ![log.range[2]] = @ - Delta(log)]
          BY DEF NetAfter
        <4> QED
          BY ONLY <4>1, <4>2
      <3>3. h.liquidity + Delta(log) \in Int
        BY <1>1, <2>4 DEF Reads
      <3> DEFINE N == NetAfter(h.net, log)
                 L == IF InRange(h.tick, log) THEN h.liquidity + Delta(log) ELSE h.liquidity
      <3>4. ApplyToHeld(h, log) = [h EXCEPT !.net = N, !.liquidity = L]
        BY <3>1
      <3>5. N \in [Ticks -> Int] /\ L \in Int
        BY <3>2, <3>3 DEF Reads
      <3> HIDE DEF N, L
      <3> QED
        BY <3>4, <3>5 DEF Reads
    <2> QED
      BY <1>1, <2>1, <2>2, <2>3, <2>4
  <1> QED
    BY <1>2, <1>3

\* A log changes numbers, and no pool comes or goes.
SamePools(pair, z) ==
    /\ DOMAIN z.tracked = DOMAIN pair.tracked
    /\ \A i \in DOMAIN pair.tracked : z.tracked[i].pool = pair.tracked[i].pool
    /\ DOMAIN z.held = DOMAIN pair.held

\* A log applied to a pair.
LEMMA LogApplied ==
    ASSUME NEW q \in Pairs, NEW pair, Paired(q, pair), NEW b \in 1..head, Follows(b), ChainOK,
           logs[b].name # "Created"
    PROVE  LET z == ApplyPoolLog(pair, logs[b])
           IN  z \in PairStates /\ SamePools(pair, z) /\ (Numbers(pair, chain[b - 1]) => Numbers(z, chain[b]))
  <1> DEFINE log == logs[b]
             p == log.pool
             z == ApplyPoolLog(pair, log)
  <1>0. /\ pair.tracked \in Seq(Entries) /\ DOMAIN pair.held \in SUBSET Listed
        /\ \A x \in DOMAIN pair.held : pair.held[x] \in Reads
    BY PairHas DEF Paired
  <1>1. /\ Effect(p, chain[b - 1][p], log, chain[b][p])
        /\ \A y \in Pools \ {p} : chain[b][y] = chain[b - 1][y]
        /\ chain[b - 1][p] \in States /\ Sound(chain[b - 1][p]) /\ p \in Pools
    <2>1. b - 1 \in 0..head /\ b \in 0..head /\ head \in Nat
      BY DEF ChainOK, head
    <2>2. p \in Pools
      BY DEF Follows, Effect, Events
    <2> QED
      BY <2>1, <2>2 DEF Follows, ChainOK
  <1> HIDE DEF log, p
  <1>2. /\ \A e \in Entries : ApplyToTracked(e, log) \in Entries /\ ApplyToTracked(e, log).pool = e.pool
        /\ \A h \in Reads : ApplyToHeld(h, log) \in Reads
    BY <1>1, TakenTypes DEF log
  <1>3. /\ z = [tracked |-> z.tracked, held |-> z.held]
        /\ z.tracked = [i \in DOMAIN pair.tracked |->
                           IF pair.tracked[i].pool = p THEN ApplyToTracked(pair.tracked[i], log) ELSE pair.tracked[i]]
        /\ z.held = [x \in DOMAIN pair.held |-> IF x = p THEN ApplyToHeld(pair.held[x], log) ELSE pair.held[x]]
    BY DEF ApplyPoolLog, p
  <1> HIDE DEF z
  <1>4. z.tracked \in Seq(Entries) /\ DOMAIN z.tracked = DOMAIN pair.tracked
    <2>1. Len(pair.tracked) \in Nat /\ DOMAIN pair.tracked = 1..Len(pair.tracked)
          /\ \A i \in 1..Len(pair.tracked) : pair.tracked[i] \in Entries
      BY <1>0
    <2>2. z.tracked \in [1..Len(pair.tracked) -> Entries]
      BY <1>2, <1>3, <2>1
    <2> QED
      BY <2>1, <2>2
  <1>5. z \in PairStates
    <2>1. z.held \in [DOMAIN pair.held -> Reads]
      BY <1>0, <1>2, <1>3
    <2> QED
      BY <1>0, <1>3, <1>4, <2>1, PairIs
  <1>6. \A i \in DOMAIN pair.tracked : pair.tracked[i] \in Entries /\ z.tracked[i].pool = pair.tracked[i].pool
    BY <1>0, <1>2, <1>3
  <1>7. ASSUME Numbers(pair, chain[b - 1]) PROVE Numbers(z, chain[b])
    <2>1. ASSUME NEW i \in DOMAIN z.tracked PROVE Ranked(z.tracked[i], chain[b][z.tracked[i].pool])
      <3> DEFINE e == pair.tracked[i]
      <3>1. e \in Entries /\ z.tracked[i].pool = e.pool /\ Ranked(e, chain[b - 1][e.pool])
        BY <1>4, <1>6, <1>7 DEF Numbers
      <3>2. z.tracked[i] = IF e.pool = p THEN ApplyToTracked(e, log) ELSE e
        BY <1>3, <1>4
      <3> HIDE DEF e
      <3>3. CASE e.pool = p
        BY <1>1, <3>1, <3>2, <3>3, RankedFollows DEF log
      <3>4. CASE e.pool # p
        <4>1. e.pool \in Pools
          BY <3>1 DEF Entries
        <4> QED
          BY <1>1, <3>1, <3>2, <3>4, <4>1
      <3> QED
        BY <3>3, <3>4
    <2>2. ASSUME NEW x \in DOMAIN z.held PROVE Fresh(x, z.held[x], chain[b][x])
      <3> DEFINE h == pair.held[x]
      <3>1. h \in Reads /\ x \in Pools /\ Fresh(x, h, chain[b - 1][x])
        BY <1>0, <1>3, <1>7, PoolsAssumption DEF Numbers, PoolsAssumption
      <3>2. z.held[x] = IF x = p THEN ApplyToHeld(h, log) ELSE h
        BY <1>3
      <3> HIDE DEF h
      <3>3. CASE x = p
        BY <1>1, <3>1, <3>2, <3>3, FreshFollows DEF log
      <3>4. CASE x # p
        BY <1>1, <3>1, <3>2, <3>4
      <3> QED
        BY <3>3, <3>4
    <2> QED
      BY <2>1, <2>2 DEF Numbers
  <1>8. SamePools(pair, z)
    BY <1>3, <1>4, <1>6 DEF SamePools
  <1> QED
    BY <1>5, <1>7, <1>8 DEF z, log

\* A log that is not about the numbers of a pair.
LEMMA LogPassed ==
    ASSUME NEW q \in Pairs, NEW pair, Paired(q, pair), NEW b \in 1..head, Follows(b), ChainOK,
           logs[b].name = "Created" \/ ~Tracks(pair, logs[b].pool), Numbers(pair, chain[b - 1])
    PROVE  Numbers(pair, chain[b])
  <1> DEFINE log == logs[b]
             p == log.pool
  <1>0. /\ pair.tracked \in Seq(Entries) /\ DOMAIN pair.held \in SUBSET Listed
        /\ \A x \in DOMAIN pair.held : pair.held[x] \in Reads /\ x \in Pools
        /\ \A i \in DOMAIN pair.tracked : pair.tracked[i] \in Entries /\ pair.tracked[i].pool \in Pools
    <2>1. /\ pair.tracked \in Seq(Entries) /\ DOMAIN pair.held \in SUBSET Listed
          /\ \A x \in DOMAIN pair.held : pair.held[x] \in Reads
      BY PairHas DEF Paired
    <2>2. Listed \subseteq Pools
      BY PoolsAssumption DEF PoolsAssumption
    <2>3. \A i \in DOMAIN pair.tracked : pair.tracked[i] \in Entries
      BY <2>1
    <2>4. \A e \in Entries : e.pool \in Pools
      BY DEF Entries
    <2> QED
      BY <2>1, <2>2, <2>3, <2>4
  <1>1. /\ Effect(p, chain[b - 1][p], log, chain[b][p])
        /\ \A y \in Pools \ {p} : chain[b][y] = chain[b - 1][y]
        /\ chain[b - 1][p] \in States /\ Sound(chain[b - 1][p]) /\ p \in Pools
    <2>1. b - 1 \in 0..head /\ b \in 0..head /\ head \in Nat
      BY DEF ChainOK, head
    <2>2. p \in Pools
      BY DEF Follows, Effect, Events
    <2> QED
      BY <2>1, <2>2 DEF Follows, ChainOK
  <1> HIDE DEF log, p
  <1>2. ASSUME NEW i \in DOMAIN pair.tracked PROVE Ranked(pair.tracked[i], chain[b][pair.tracked[i].pool])
    <2> DEFINE e == pair.tracked[i]
    <2>1. e \in Entries /\ e.pool \in Pools /\ Ranked(e, chain[b - 1][e.pool])
      BY <1>0 DEF Numbers
    <2>2. e.pool = p => log.name = "Created"
      BY DEF Tracks, p, log
    <2> HIDE DEF e
    <2>3. ASSUME e.pool = p PROVE Ranked(e, chain[b][e.pool])
      BY <1>1, <2>1, <2>2, <2>3, RankedFollows
    <2>4. ASSUME e.pool # p PROVE Ranked(e, chain[b][e.pool])
      BY <1>1, <2>1, <2>4
    <2> QED
      BY <2>3, <2>4 DEF e
  <1>3. ASSUME NEW x \in DOMAIN pair.held PROVE Fresh(x, pair.held[x], chain[b][x])
    <2> DEFINE h == pair.held[x]
    <2>1. h \in Reads /\ x \in Pools /\ Fresh(x, h, chain[b - 1][x])
      BY <1>0 DEF Numbers
    <2>2. x = p => log.name = "Created"
      BY DEF Paired, p, log
    <2> HIDE DEF h
    <2>3. ASSUME x = p PROVE Fresh(x, h, chain[b][x])
      BY <1>1, <2>1, <2>2, <2>3, FreshFollows
    <2>4. ASSUME x # p PROVE Fresh(x, h, chain[b][x])
      BY <1>1, <2>1, <2>4
    <2> QED
      BY <2>3, <2>4 DEF h
  <1> QED
    BY <1>2, <1>3 DEF Numbers

-----------------------------------------------------------------------------
(* A replay, log after log.                                                *)

\* The function a replay computes exists.
LEMMA ReplayIs ==
    ASSUME NEW q, syncedBlock \in Nat, syncing.to \in Nat, syncedBlock <= syncing.to
    PROVE  \E after :
              /\ Replay(q) = after[syncing.to]
              /\ after[syncedBlock] = loaded[q]
              /\ \A b \in (syncedBlock + 1)..syncing.to : after[b] = Taken(q, after[b - 1], logs[b])
  <1> DEFINE Step(f, b) == IF b = syncedBlock THEN loaded[q] ELSE Taken(q, f[b - 1], logs[b])
             Good(n) == \E f : f = [b \in syncedBlock..(syncedBlock + n) |-> Step(f, b)]
             Bad == {n \in Nat : ~Good(n)}
  <1>1. Good(0)
    <2> DEFINE f == [b \in syncedBlock..(syncedBlock + 0) |-> loaded[q]]
    <2>1. \A b \in syncedBlock..(syncedBlock + 0) : b = syncedBlock
      OBVIOUS
    <2>2. f = [b \in syncedBlock..(syncedBlock + 0) |-> Step(f, b)]
      BY <2>1
    <2> QED
      BY <2>2
  <1>2. ASSUME NEW n \in Nat, n # 0, Good(n - 1) PROVE Good(n)
    <2>1. PICK f : f = [b \in syncedBlock..(syncedBlock + (n - 1)) |-> Step(f, b)]
      BY <1>2
    <2> DEFINE D == syncedBlock..(syncedBlock + (n - 1))
               E == syncedBlock..(syncedBlock + n)
               g == [b \in E |-> IF b \in D THEN f[b] ELSE Taken(q, f[b - 1], logs[b])]
    <2>2. \A b \in E : b # syncedBlock => b - 1 \in D /\ b - 1 \in E
      BY <1>2
    <2>3. syncedBlock \in D /\ D \subseteq E
      BY <1>2
    <2> HIDE DEF D, E
    <2>4. \A b \in D : g[b] = f[b] /\ f[b] = Step(f, b)
      BY <2>1, <2>3 DEF D
    <2>5. \A b \in E : g[b] = Step(g, b)
      <3> SUFFICES ASSUME NEW b \in E PROVE g[b] = Step(g, b)
        OBVIOUS
      <3>1. CASE b = syncedBlock
        BY <2>3, <2>4, <3>1
      <3>2. CASE b # syncedBlock
        <4>1. g[b - 1] = f[b - 1]
          BY <2>2, <2>4, <3>2
        <4>2. g[b] = Taken(q, f[b - 1], logs[b])
          BY <2>4, <3>2
        <4> QED
          BY <3>2, <4>1, <4>2
      <3> QED
        BY <3>1, <3>2
    <2>6. g = [b \in E |-> Step(g, b)]
      BY <2>5
    <2> QED
      BY <2>6 DEF E
  <1>3. Bad = {}
    <2>1. SUFFICES ASSUME Bad # {} PROVE FALSE
      OBVIOUS
    <2> HIDE DEF Good
    <2>2. PICK n \in Bad : \A m \in Bad : n <= m
      <3>1. Bad \in SUBSET Nat
        OBVIOUS
      <3> HIDE DEF Bad
      <3> QED
        BY <2>1, <3>1, Least
    <2>3. n # 0 /\ n - 1 \in Nat
      BY <1>1, <2>2
    <2>4. n - 1 \notin Bad
      <3>1. n \in Nat
        BY <2>2
      <3> HIDE DEF Bad
      <3> QED
        BY <2>2, <2>3, <3>1
    <2> QED
      BY <1>2, <2>2, <2>3, <2>4
  <1>4. Good(syncing.to - syncedBlock) /\ syncedBlock + (syncing.to - syncedBlock) = syncing.to
    <2>1. syncing.to - syncedBlock \in Nat /\ syncedBlock + (syncing.to - syncedBlock) = syncing.to
      OBVIOUS
    <2> HIDE DEF Good
    <2> QED
      BY <1>3, <2>1
  <1>5. \E f : f = [b \in syncedBlock..syncing.to |-> Step(f, b)]
    BY <1>4
  <1> DEFINE after == CHOOSE f : f = [b \in syncedBlock..syncing.to |-> Step(f, b)]
  <1>6. after = [b \in syncedBlock..syncing.to |-> Step(after, b)]
    BY <1>5
  <1>7. Replay(q) = after[syncing.to]
    BY DEF Replay
  <1> HIDE DEF after
  <1>8. /\ after[syncedBlock] = loaded[q]
        /\ \A b \in (syncedBlock + 1)..syncing.to : after[b] = Taken(q, after[b - 1], logs[b])
    BY <1>6
  <1> QED
    BY <1>7, <1>8

\* The pools a pair tracks and holds are all a pool's log depends on.
LEMMA SameTracks ==
    ASSUME NEW pair, NEW z, SamePools(pair, z)
    PROVE  \A p : Tracks(z, p) <=> Tracks(pair, p)
  BY DEF SamePools, Tracks

\* And so the pair stays one.
LEMMA SamePaired ==
    ASSUME NEW q, NEW pair, Paired(q, pair), NEW z \in PairStates, SamePools(pair, z)
    PROVE  Paired(q, z)
  <1>1. \A p : Tracks(z, p) <=> Tracks(pair, p)
    BY SameTracks
  <1> QED
    BY <1>1 DEF Paired, SamePools, Distinct

\* The pools' logs, applied to a pair that was loaded when the replay began.
LEMMA LogsReplayed ==
    ASSUME ChainOK, SyncOK, LoadOK, PairsOK, StageIs("logs"), NEW q \in Loaded
    PROVE  LET z == Replay(q)
           IN  /\ z \in PairStates /\ Paired(q, z) /\ SamePools(loaded[q], z)
               /\ q \in syncing.of /\ Numbers(loaded[q], chain[syncedBlock]) => Numbers(z, chain[syncing.to])
               /\ q \notin syncing.of \/ Quiet(q) => z = loaded[q]
  <1>0. /\ syncedBlock \in Nat /\ syncing.to \in Nat /\ syncedBlock < syncing.to /\ syncing.to <= head
        /\ head \in Nat /\ syncing.stage = "logs" /\ syncing.of \subseteq Loaded
    BY DEF SyncOK, StageIs, ChainOK, head, Replays
  <1>1. PICK after : /\ Replay(q) = after[syncing.to]
                     /\ after[syncedBlock] = loaded[q]
                     /\ \A b \in (syncedBlock + 1)..syncing.to : after[b] = Taken(q, after[b - 1], logs[b])
    BY <1>0, ReplayIs
  <1>2. /\ q \in Pairs /\ Paired(q, loaded[q])
        /\ \A y \in Loaded : Paired(y, loaded[y])
    BY DEF Loaded, PairsOK
  <1> DEFINE Fine(b) ==
                /\ after[b] \in PairStates /\ SamePools(loaded[q], after[b])
                /\ q \in syncing.of /\ Numbers(loaded[q], chain[syncedBlock]) => Numbers(after[b], chain[b])
                /\ q \notin syncing.of \/ Quiet(q) => after[b] = loaded[q]
             N == {n \in Nat : n <= syncing.to - syncedBlock /\ ~Fine(syncedBlock + n)}
  <1>3. Fine(syncedBlock)
    BY <1>1, <1>2 DEF Paired, SamePools
  <1>4. ASSUME NEW b \in (syncedBlock + 1)..syncing.to, Fine(b - 1) PROVE Fine(b)
    <2> DEFINE pair == after[b - 1]
               log == logs[b]
    <2>0. b \in 1..head /\ Follows(b)
      BY <1>0 DEF ChainOK
    <2>1. Paired(q, pair) /\ \A p : Tracks(pair, p) <=> Tracks(loaded[q], p)
      BY <1>2, <1>4, SamePaired, SameTracks
    <2>2. after[b] = IF log.name # "Created" /\ log.pool \in Watched(syncing.of) /\ Tracks(pair, log.pool)
                     THEN ApplyPoolLog(pair, log) ELSE pair
      BY <1>0, <1>1 DEF Taken
    <2>3. \A p : Tracks(loaded[q], p) => (p \in Watched(syncing.of) <=> q \in syncing.of) /\ PairOf[p] = q
      <3>1. \A p : Tracks(loaded[q], p) => PairOf[p] = q
        BY <1>2 DEF Paired, Tracks
      <3>3. ASSUME NEW p, Tracks(loaded[q], p), q \in syncing.of PROVE p \in Watched(syncing.of)
        BY <3>3 DEF Tracks, Watched
      <3>4. ASSUME NEW p, Tracks(loaded[q], p), p \in Watched(syncing.of) PROVE q \in syncing.of
        <4>1. PICK y \in syncing.of : \E i \in DOMAIN loaded[y].tracked : loaded[y].tracked[i].pool = p
          BY <3>4 DEF Watched
        <4>2. PairOf[p] = y
          BY <1>0, <1>2, <4>1 DEF Paired
        <4> QED
          BY <3>1, <3>4, <4>1, <4>2
      <3> QED
        BY <3>1, <3>3, <3>4
    <2> HIDE DEF pair, log
    <2>4. CASE log.name # "Created" /\ log.pool \in Watched(syncing.of) /\ Tracks(pair, log.pool)
      <3>1. q \in syncing.of /\ PairOf[log.pool] = q
        BY <2>1, <2>3, <2>4
      <3>2. ~Quiet(q)
        BY <3>1 DEF Quiet, log
      <3>3. /\ after[b] \in PairStates /\ SamePools(pair, after[b])
            /\ Numbers(pair, chain[b - 1]) => Numbers(after[b], chain[b])
        BY <1>2, <2>0, <2>1, <2>2, <2>4, LogApplied DEF log
      <3>4. SamePools(loaded[q], after[b])
        BY <1>4, <3>3 DEF SamePools, pair
      <3> QED
        BY <1>4, <3>1, <3>2, <3>3, <3>4 DEF pair
    <2>5. CASE ~(log.name # "Created" /\ log.pool \in Watched(syncing.of) /\ Tracks(pair, log.pool))
      <3>1. after[b] = pair
        BY <2>2, <2>5
      <3>2. q \in syncing.of => log.name = "Created" \/ ~Tracks(pair, log.pool)
        BY <2>1, <2>3, <2>5
      <3>3. q \in syncing.of /\ Numbers(pair, chain[b - 1]) => Numbers(pair, chain[b])
        BY <1>2, <2>0, <2>1, <3>2, LogPassed DEF log
      <3> QED
        BY <1>4, <3>1, <3>3 DEF pair
    <2> QED
      BY <2>4, <2>5
  <1> HIDE DEF Fine
  <1>5. N = {}
    <2>1. SUFFICES ASSUME N # {} PROVE FALSE
      OBVIOUS
    <2>2. PICK n \in N : \A m \in N : n <= m
      <3>1. N \in SUBSET Nat
        OBVIOUS
      <3> HIDE DEF N
      <3> QED
        BY <2>1, <3>1, Least
    <2>3. n \in Nat /\ n <= syncing.to - syncedBlock /\ ~Fine(syncedBlock + n)
      BY <2>2
    <2>4. n # 0
      BY <1>0, <1>3, <2>3
    <2>5. /\ syncedBlock + n \in (syncedBlock + 1)..syncing.to /\ n - 1 \in Nat
          /\ n - 1 <= syncing.to - syncedBlock /\ syncedBlock + (n - 1) = (syncedBlock + n) - 1
      BY <1>0, <2>3, <2>4
    <2>6. n - 1 \notin N
      <3> HIDE DEF N
      <3> QED
        BY <2>2, <2>3, <2>5
    <2>7. Fine((syncedBlock + n) - 1)
      BY <2>5, <2>6
    <2> QED
      BY <1>4, <2>3, <2>5, <2>7
  <1>6. Fine(syncing.to)
    <2>1. syncing.to - syncedBlock \in Nat /\ syncedBlock + (syncing.to - syncedBlock) = syncing.to
      BY <1>0
    <2> QED
      BY <1>5, <2>1
  <1> QED
    BY <1>1, <1>2, <1>6, SamePaired DEF Fine

-----------------------------------------------------------------------------
(* The deepest pools of a pair.                                            *)

\* The entries that count, those that rank above one, and those chosen.
Filled(t) == {i \in DOMAIN t : t[i].liquidity > 0}
Above(t, i) == {j \in DOMAIN t : Before(t, j, i)}
Top(t) == {i \in Filled(t) : Cardinality(Above(t, i)) < PoolsPerPair}

LEMMA DeepestIsTop ==
    ASSUME NEW t
    PROVE  Deepest(t) = {t[i].pool : i \in Top(t)}
  <1>1. Top(t) = {i \in DOMAIN t : /\ t[i].liquidity > 0
                                   /\ Cardinality({j \in DOMAIN t : Before(t, j, i)}) < PoolsPerPair}
    BY DEF Top, Filled, Above
  <1> QED
    BY <1>1 DEF Deepest

\* The entries of a pair.
LEMMA EntriesAre ==
    ASSUME NEW t \in Seq(Entries)
    PROVE  /\ Len(t) \in Nat /\ DOMAIN t = 1..Len(t)
           /\ \A i \in DOMAIN t : i \in Int /\ t[i] \in Entries /\ t[i].liquidity \in Int /\ t[i].pool \in Pools
  <1>1. Len(t) \in Nat /\ DOMAIN t = 1..Len(t) /\ \A i \in DOMAIN t : i \in Int /\ t[i] \in Entries
    OBVIOUS
  <1>2. \A e \in Entries : e.liquidity \in Int /\ e.pool \in Pools
    BY DEF Entries
  <1> QED
    BY <1>1, <1>2

\* Entries that are empty leave the deepest as they are.
LEMMA EmptyIsNotDeep ==
    ASSUME NEW t \in Seq(Entries), NEW u \in Seq(Entries), Len(t) <= Len(u),
           \A i \in 1..Len(t) : u[i] = t[i],
           \A i \in (Len(t) + 1)..Len(u) : u[i].liquidity = 0
    PROVE  Deepest(u) = Deepest(t)
  <1>0. /\ Len(t) \in Nat /\ Len(u) \in Nat /\ DOMAIN t = 1..Len(t) /\ DOMAIN u = 1..Len(u)
        /\ DOMAIN t \subseteq DOMAIN u
        /\ \A i \in DOMAIN t : t[i].liquidity \in Int
    BY EntriesAre
  <1>1. Filled(u) = Filled(t)
    BY <1>0 DEF Filled
  <1>2. ASSUME NEW i \in DOMAIN t PROVE Above(u, i) = Above(t, i)
    <2>1. ASSUME NEW j \in DOMAIN u PROVE Before(u, j, i) <=> j \in DOMAIN t /\ Before(t, j, i)
      <3>1. CASE j \in DOMAIN t
        BY <1>0, <1>2, <3>1 DEF Before
      <3>2. CASE j \notin DOMAIN t
        <4>1. u[j].liquidity = 0
          BY <1>0, <3>2
        <4> QED
          BY <3>2, <4>1 DEF Before
      <3> QED
        BY <3>1, <3>2
    <2> QED
      BY <1>0, <2>1 DEF Above
  <1>3. Top(u) = Top(t)
    BY <1>1, <1>2 DEF Top, Filled
  <1>4. \A i \in Top(t) : u[i].pool = t[i].pool
    BY <1>0 DEF Top, Filled
  <1> QED
    BY <1>3, <1>4, DeepestIsTop

\* Of two filled entries one is before the other, and what is above the one is
\* above the other.
LEMMA OneIsAbove ==
    ASSUME NEW t \in Seq(Entries), NEW i \in Filled(t), NEW j \in Filled(t), i # j
    PROVE  /\ IsFiniteSet(Filled(t)) /\ IsFiniteSet(Above(t, i)) /\ IsFiniteSet(Above(t, j))
           /\ Cardinality(Above(t, i)) \in Nat /\ Cardinality(Above(t, j)) \in Nat
           /\ Before(t, i, j) => Cardinality(Above(t, i)) < Cardinality(Above(t, j))
           /\ Before(t, j, i) => Cardinality(Above(t, j)) < Cardinality(Above(t, i))
           /\ Before(t, i, j) \/ Before(t, j, i)
  <1>0. /\ Len(t) \in Nat /\ DOMAIN t = 1..Len(t) /\ \A k \in DOMAIN t : k \in Int /\ t[k].liquidity \in Int
        /\ i \in DOMAIN t /\ j \in DOMAIN t
    BY EntriesAre DEF Filled
  <1>1. /\ IsFiniteSet(Filled(t)) /\ \A k : IsFiniteSet(Above(t, k)) /\ Cardinality(Above(t, k)) \in Nat
    <2>1. IsFiniteSet(DOMAIN t)
      BY <1>0, FS_Interval
    <2>2. Filled(t) \in SUBSET DOMAIN t /\ \A k : Above(t, k) \in SUBSET DOMAIN t
      BY DEF Filled, Above
    <2> QED
      BY <2>1, <2>2, FS_Subset, FS_CardinalityType
  <1>2. Before(t, i, j) \/ Before(t, j, i)
    BY <1>0 DEF Before, Filled
  <1>3. ASSUME NEW k \in DOMAIN t, NEW m \in DOMAIN t, Before(t, k, m)
        PROVE  Cardinality(Above(t, k)) < Cardinality(Above(t, m))
    <2>1. \A x \in DOMAIN t : Before(t, x, k) => Before(t, x, m)
      BY <1>0, <1>3 DEF Before
    <2>2. ~ Before(t, k, k)
      BY <1>0 DEF Before
    <2>3. Above(t, k) \in SUBSET Above(t, m) /\ k \in Above(t, m) /\ k \notin Above(t, k)
      BY <1>3, <2>1, <2>2 DEF Above
    <2>4. /\ Cardinality(Above(t, k)) <= Cardinality(Above(t, m))
          /\ Cardinality(Above(t, k)) # Cardinality(Above(t, m))
      BY <1>1, <2>3, FS_Subset
    <2> QED
      BY <1>1, <2>4
  <1> QED
    BY <1>0, <1>1, <1>2, <1>3

\* As many are chosen as there are, up to the bound, and none is deeper.
LEMMA TopIs ==
    ASSUME NEW t \in Seq(Entries)
    PROVE  /\ IsFiniteSet(Filled(t)) /\ Top(t) \subseteq Filled(t)
           /\ Cardinality(Top(t)) = Min({PoolsPerPair, Cardinality(Filled(t))})
           /\ \A i \in Top(t) : \A j \in Filled(t) \ Top(t) : t[i].liquidity >= t[j].liquidity
  <1> DEFINE F == Filled(t)
             H == Top(t)
             K == PoolsPerPair
             Rank(i) == Cardinality(Above(t, i))
             Rest == {n \in Nat : \E i \in F \ H : n = Rank(i)}
  <1>0. /\ K \in Nat /\ H \in SUBSET F /\ \A i \in F : i \in H <=> Rank(i) < K
    BY PoolsAssumption DEF PoolsAssumption, Top
  <1>1. /\ IsFiniteSet(F) /\ Cardinality(F) \in Nat /\ IsFiniteSet(H) /\ Cardinality(H) \in Nat
        /\ Cardinality(H) <= Cardinality(F)
        /\ \A i \in F : Rank(i) \in Nat /\ IsFiniteSet(Above(t, i))
    <2>1. IsFiniteSet(DOMAIN t)
      <3>1. Len(t) \in Nat /\ DOMAIN t = 1..Len(t)
        OBVIOUS
      <3> QED
        BY <3>1, FS_Interval
    <2>2. F \in SUBSET DOMAIN t /\ \A k : Above(t, k) \in SUBSET DOMAIN t
      BY DEF Filled, Above
    <2> QED
      BY <1>0, <2>1, <2>2, FS_Subset, FS_CardinalityType
  <1>2. \A i, j \in F : i # j => /\ Before(t, i, j) \/ Before(t, j, i)
                                 /\ Before(t, i, j) => Rank(i) < Rank(j)
                                 /\ Before(t, j, i) => Rank(j) < Rank(i)
    BY OneIsAbove
  <1>9. \A i \in F : Above(t, i) \subseteq F
    BY DEF Above, Before, Filled
  <1> HIDE DEF F, H, K, Rank
  <1>3. Cardinality(H) <= K
    <2>1. SUFFICES ASSUME K < Cardinality(H) PROVE FALSE
      BY <1>0, <1>1
    <2> DEFINE T == 0..(K - 1)
               f == [i \in H |-> Rank(i)]
    <2>2. IsFiniteSet(T) /\ Cardinality(T) = K
      BY <1>0, FS_Interval
    <2>3. f \in [H -> T]
      BY <1>0, <1>1
    <2>5. \A i \in H : f[i] = Rank(i)
      OBVIOUS
    <2> HIDE DEF T, f
    <2>4. PICK x \in H, y \in H : x # y /\ f[x] = f[y]
      BY <1>1, <2>1, <2>2, <2>3, FS_PigeonHole
    <2> QED
      BY <1>0, <1>1, <1>2, <2>4, <2>5
  <1>4. ASSUME H # F PROVE K <= Cardinality(H)
    <2>1. PICK n \in Rest : \A m \in Rest : n <= m
      <3>1. Rest \in SUBSET Nat /\ Rest # {}
        BY <1>0, <1>1, <1>4
      <3> HIDE DEF Rest
      <3> QED
        BY <3>1, Least
    <2>2. PICK i \in F \ H : n = Rank(i)
      BY <2>1
    <2>3. ASSUME NEW j \in Above(t, i) PROVE j \in H
      <3>1. j \in F /\ Before(t, j, i) /\ ~ Before(t, i, i)
        <4>1. i \in DOMAIN t
          BY <2>2 DEF F, Filled
        <4>2. i \in Int /\ t[i].liquidity \in Int
          BY <4>1, EntriesAre
        <4> QED
          BY <1>9, <2>2, <2>3, <4>2 DEF Above, Before
      <3>2. Rank(j) < Rank(i) /\ Rank(j) \in Nat /\ Rank(i) \in Nat
        BY <1>1, <1>2, <2>2, <3>1
      <3>3. Rank(j) \notin Rest
        <4> HIDE DEF Rest
        <4> QED
          BY <2>1, <2>2, <3>2
      <3> QED
        BY <3>1, <3>2, <3>3
    <2>4. Rank(i) <= Cardinality(H)
      <3>1. Above(t, i) \in SUBSET H
        BY <2>3
      <3> QED
        BY <1>1, <3>1, FS_Subset DEF Rank
    <2> QED
      BY <1>0, <1>1, <2>2, <2>4
  <1>5. Cardinality(H) = Min({K, Cardinality(F)})
    <2>1. Cardinality(H) \in {K, Cardinality(F)} /\ \A y \in {K, Cardinality(F)} : Cardinality(H) <= y
      BY <1>0, <1>1, <1>3, <1>4
    <2>2. \A x \in {K, Cardinality(F)} : (\A y \in {K, Cardinality(F)} : x <= y) => x = Cardinality(H)
      BY <1>0, <1>1, <2>1
    <2> QED
      BY <2>1, <2>2 DEF Min
  <1>6. ASSUME NEW i \in H, NEW j \in F \ H PROVE t[i].liquidity >= t[j].liquidity
    <2>1. i \in F /\ i # j /\ Rank(i) < Rank(j) /\ Rank(i) \in Nat /\ Rank(j) \in Nat
      BY <1>0, <1>1
    <2>2. ~ Before(t, j, i)
      BY <1>2, <2>1
    <2>3. /\ t[j].liquidity > 0 /\ t[j].liquidity \in Int /\ t[i].liquidity \in Int
      <3>1. i \in DOMAIN t /\ j \in DOMAIN t /\ t[j].liquidity > 0
        BY <2>1 DEF F, Filled
      <3> QED
        BY <3>1, EntriesAre
    <2> QED
      BY <2>2, <2>3 DEF Before
  <1> QED
    BY <1>0, <1>1, <1>5, <1>6 DEF F, H, K

\* A pair's deepest pools, of distinct entries.
LEMMA DeepestIs ==
    ASSUME NEW t \in Seq(Entries), Distinct(t)
    PROVE  LET filled == {t[i].pool : i \in Filled(t)}
           IN  /\ Deepest(t) \subseteq filled
               /\ Cardinality(Deepest(t)) = Min({PoolsPerPair, Cardinality(filled)})
               /\ \A i \in Filled(t) : t[i].pool \notin Deepest(t) =>
                      \A j \in Filled(t) : t[j].pool \in Deepest(t) => t[j].liquidity >= t[i].liquidity
  <1> DEFINE F == Filled(t)
             H == Top(t)
             P(S) == {t[i].pool : i \in S}
  <1>1. /\ IsFiniteSet(F) /\ H \subseteq F /\ F \subseteq DOMAIN t
        /\ Cardinality(H) = Min({PoolsPerPair, Cardinality(F)})
        /\ \A i \in H : \A j \in F \ H : t[i].liquidity >= t[j].liquidity
    BY TopIs DEF Filled
  <1>2. Deepest(t) = P(H)
    BY DeepestIsTop
  <1>3. ASSUME NEW S \in SUBSET F PROVE Cardinality(P(S)) = Cardinality(S)
    <2> DEFINE f == [i \in S |-> t[i].pool]
    <2>1. IsFiniteSet(S)
      BY <1>1, FS_Subset
    <2>2. f \in Bijection(S, P(S))
      BY <1>1 DEF Distinct, Bijection, Injection, Surjection, IsInjective
    <2>3. ExistsBijection(S, P(S))
      BY <2>2 DEF ExistsBijection
    <2> HIDE DEF P
    <2> QED
      BY <2>1, <2>3, FS_Bijection
  <1>4. \A i \in F : i \in H <=> t[i].pool \in P(H)
    BY <1>1 DEF Distinct
  <1>5. Cardinality(P(H)) = Cardinality(H) /\ Cardinality(P(F)) = Cardinality(F) /\ P(H) \subseteq P(F)
    BY <1>1, <1>3
  <1>6. \A i \in F : t[i].pool \notin P(H) => \A j \in F : t[j].pool \in P(H) => t[j].liquidity >= t[i].liquidity
    BY <1>1, <1>4
  <1> HIDE DEF H
  <1> QED
    BY <1>1, <1>2, <1>5, <1>6

-----------------------------------------------------------------------------
(* The factories' logs.                                                    *)

\* A pair with the pools that were deployed since the block it is at.
Grown(q, pair, z) ==
    /\ Paired(q, z) /\ z.held = pair.held
    /\ Len(pair.tracked) <= Len(z.tracked)
    /\ \A i \in 1..Len(pair.tracked) : z.tracked[i] = pair.tracked[i]
    /\ \A i \in (Len(pair.tracked) + 1)..Len(z.tracked) :
           /\ z.tracked[i].liquidity = 0
           /\ ~ chain[syncedBlock][z.tracked[i].pool].live /\ chain[head][z.tracked[i].pool].live

\* One more pool.
LEMMA TrackGrows ==
    ASSUME ChainOK, NEW q \in Pairs, NEW pair \in PairStates, NEW z, Grown(q, pair, z), NEW p \in Pools,
           ~ chain[syncedBlock][p].live, chain[head][p].live
    PROVE  LET x == Track(z, q, p)
           IN  /\ Grown(q, pair, x)
               /\ \A y : Tracks(z, y) => Tracks(x, y)
               /\ PairOf[p] = q /\ p \in Listed => Tracks(x, p)
  <1> DEFINE x == Track(z, q, p)
             e == [pool |-> p, liquidity |-> 0, tick |-> None]
             t == z.tracked
             n == Len(t)
             m == Len(pair.tracked)
  <1>1. CASE Tracks(z, p) \/ PairOf[p] # q \/ p \notin Listed
    <2>1. x = z
      BY <1>1 DEF Track
    <2> QED
      BY <1>1, <2>1
  <1>2. CASE ~ Tracks(z, p) /\ PairOf[p] = q /\ p \in Listed
    <2>1. /\ t \in Seq(Entries) /\ DOMAIN z.held \in SUBSET Listed /\ z.held \in [DOMAIN z.held -> Reads]
          /\ z = [tracked |-> z.tracked, held |-> z.held] /\ m \in Nat
      <3>1. /\ t \in Seq(Entries) /\ DOMAIN z.held \in SUBSET Listed /\ \A y \in DOMAIN z.held : z.held[y] \in Reads
            /\ z = [tracked |-> z.tracked, held |-> z.held] /\ z.held = [y \in DOMAIN z.held |-> z.held[y]]
        BY PairHas DEF Grown, Paired
      <3>2. pair.tracked \in Seq(Entries)
        BY PairHas
      <3> QED
        BY <3>1, <3>2
    <2>2. x = [z EXCEPT !.tracked = Append(@, e)]
      BY <1>2 DEF Track
    <2>3. x = [tracked |-> Append(t, e), held |-> z.held]
      BY <2>1, <2>2
    <2>4. e \in Entries /\ e.pool = p /\ e.liquidity = 0
      BY DEF Entries
    <2>5. /\ n \in Nat /\ DOMAIN t = 1..n /\ \A i \in 1..n : t[i] \in Entries
          /\ Append(t, e) \in Seq(Entries) /\ Len(Append(t, e)) = n + 1 /\ DOMAIN Append(t, e) = 1..(n + 1)
          /\ \A i \in 1..n : Append(t, e)[i] = t[i]
          /\ Append(t, e)[n + 1] = e
      <3>1. n \in Nat /\ DOMAIN t = 1..n /\ \A i \in 1..n : t[i] \in Entries
        BY <2>1, EntriesAre
      <3>2. /\ Append(t, e) \in Seq(Entries) /\ Len(Append(t, e)) = n + 1 /\ DOMAIN Append(t, e) = 1..(n + 1)
            /\ \A i \in 1..n : Append(t, e)[i] = t[i]
            /\ Append(t, e)[n + 1] = e
        BY <2>1, <2>4, <3>1
      <3> QED
        BY <3>1, <3>2
    <2>6. x.tracked = Append(t, e) /\ x.held = z.held
      BY <2>3
    <2> HIDE DEF x, e
    <2>7. x \in PairStates
      <3> DEFINE u == Append(t, e)
      <3>1. u \in Seq(Entries) /\ x = [tracked |-> u, held |-> z.held]
        BY <2>3, <2>5
      <3> HIDE DEF u
      <3>2. [tracked |-> u, held |-> z.held] \in PairStates
        BY <2>1, <3>1, PairIs
      <3> QED
        BY <3>1, <3>2
    <2>8. \A y : Tracks(z, y) => Tracks(x, y)
      BY <2>5, <2>6 DEF Tracks
    <2>9. Tracks(x, p)
      <3>1. n + 1 \in DOMAIN x.tracked /\ x.tracked[n + 1].pool = p
        BY <2>4, <2>5, <2>6
      <3> QED
        BY <3>1 DEF Tracks
    <2>10. \A i \in 1..n : t[i].pool # p
      BY <1>2, <2>5 DEF Tracks
    <2>11. Distinct(x.tracked)
      <3>1. Distinct(t)
        BY DEF Grown, Paired
      <3>2. ASSUME NEW i \in 1..(n + 1), NEW j \in 1..(n + 1), x.tracked[i].pool = x.tracked[j].pool PROVE i = j
        <4>1. CASE i \in 1..n /\ j \in 1..n
          BY <2>5, <2>6, <3>1, <3>2, <4>1 DEF Distinct
        <4>2. CASE i = n + 1 /\ j = n + 1
          BY <4>2
        <4>3. CASE i \in 1..n /\ j = n + 1
          BY <2>4, <2>5, <2>6, <2>10, <3>2, <4>3
        <4>4. CASE i = n + 1 /\ j \in 1..n
          BY <2>4, <2>5, <2>6, <2>10, <3>2, <4>4
        <4> QED
          BY <2>5, <4>1, <4>2, <4>3, <4>4
      <3> QED
        BY <2>5, <2>6, <3>2 DEF Distinct
    <2>12. \A i \in DOMAIN x.tracked : x.tracked[i].pool \in Listed /\ PairOf[x.tracked[i].pool] = q
      <3>1. \A i \in 1..n : t[i].pool \in Listed /\ PairOf[t[i].pool] = q
        BY <2>5 DEF Grown, Paired
      <3> QED
        BY <1>2, <2>4, <2>5, <2>6, <3>1
    <2>13. Paired(q, x)
      <3>1. \A y \in DOMAIN z.held : Tracks(z, y)
        BY DEF Grown, Paired
      <3> QED
        BY <2>6, <2>7, <2>8, <2>11, <2>12, <3>1 DEF Paired
    <2>14. /\ m <= n /\ \A i \in 1..m : t[i] = pair.tracked[i]
           /\ \A i \in (m + 1)..n : t[i].liquidity = 0 /\ ~ chain[syncedBlock][t[i].pool].live
                                    /\ chain[head][t[i].pool].live
           /\ z.held = pair.held
      BY DEF Grown
    <2>15. \A i \in 1..m : x.tracked[i] = pair.tracked[i]
      BY <2>1, <2>5, <2>6, <2>14
    <2>16. ASSUME NEW i \in (m + 1)..(n + 1)
           PROVE  /\ x.tracked[i].liquidity = 0 /\ ~ chain[syncedBlock][x.tracked[i].pool].live
                  /\ chain[head][x.tracked[i].pool].live
      <3>1. CASE i = n + 1
        BY <2>4, <2>5, <2>6, <3>1
      <3>2. CASE i # n + 1
        <4>1. i \in (m + 1)..n /\ i \in 1..n
          BY <2>1, <2>5, <3>2
        <4> QED
          BY <2>5, <2>6, <2>14, <4>1
      <3> QED
        BY <3>1, <3>2
    <2>17. Grown(q, pair, x)
      BY <2>1, <2>5, <2>6, <2>13, <2>14, <2>15, <2>16 DEF Grown
    <2> QED
      BY <2>8, <2>9, <2>17 DEF x
  <1> QED
    BY <1>1, <1>2

\* The factories' logs, replayed for a loaded pair.
LEMMA CreatedReplayed ==
    ASSUME ChainOK, SyncOK, LoadOK, PairsOK, StageIs("created"), NEW q \in Loaded
    PROVE  LET z == Replay(q)
           IN  /\ Grown(q, loaded[q], z)
               /\ Complete(q, loaded[q], chain[syncedBlock]) => Complete(q, z, chain[syncing.to])
  <1>0. /\ syncedBlock \in Nat /\ syncing.to \in Nat /\ syncedBlock < syncing.to /\ syncing.to <= head
        /\ head \in Nat /\ syncing.stage = "created"
    BY DEF SyncOK, StageIs, ChainOK, head, Replays
  <1>1. PICK after : /\ Replay(q) = after[syncing.to]
                     /\ after[syncedBlock] = loaded[q]
                     /\ \A b \in (syncedBlock + 1)..syncing.to : after[b] = Taken(q, after[b - 1], logs[b])
    BY <1>0, ReplayIs
  <1>2. q \in Pairs /\ Paired(q, loaded[q]) /\ loaded[q] \in PairStates
    BY DEF Loaded, PairsOK, Paired
  <1> DEFINE Fine(b) ==
                /\ Grown(q, loaded[q], after[b])
                /\ Complete(q, loaded[q], chain[syncedBlock]) => Complete(q, after[b], chain[b])
             N == {n \in Nat : n <= syncing.to - syncedBlock /\ ~Fine(syncedBlock + n)}
  <1>3. Fine(syncedBlock)
    <2>1. Len(loaded[q].tracked) \in Nat
      BY <1>2, PairHas, EntriesAre
    <2> QED
      BY <1>1, <1>2, <2>1 DEF Grown
  <1>4. ASSUME NEW b \in (syncedBlock + 1)..syncing.to, Fine(b - 1) PROVE Fine(b)
    <2> DEFINE pair == after[b - 1]
               log == logs[b]
               p == log.pool
    <2>0. b \in 1..head /\ Follows(b) /\ b - 1 \in 0..head /\ b \in 0..head
          /\ b - 1 \in syncedBlock..head /\ head \in b..head /\ syncedBlock \in 0..head
      BY <1>0 DEF ChainOK
    <2>1. after[b] = IF log.name = "Created" THEN Track(pair, q, p) ELSE pair
      BY <1>0, <1>1 DEF Taken
    <2>2. /\ p \in Pools /\ Effect(p, chain[b - 1][p], log, chain[b][p])
          /\ \A y \in Pools \ {p} : chain[b][y] = chain[b - 1][y]
      BY <2>0 DEF Follows, Effect, Events
    <2> HIDE DEF pair, log, p
    <2>3. CASE log.name = "Created"
      <3>1. ~ chain[b - 1][p].live /\ chain[b][p].live
        BY <2>2, <2>3 DEF Effect
      <3>2. ~ chain[syncedBlock][p].live
        BY <2>0, <2>2, <3>1, StaysLive
      <3>3. chain[head][p].live
        BY <2>0, <2>2, <3>1, StaysLive
      <3>4. Grown(q, loaded[q], pair)
        BY <1>4 DEF pair
      <3>5. /\ Grown(q, loaded[q], after[b])
            /\ \A y : Tracks(pair, y) => Tracks(after[b], y)
            /\ PairOf[p] = q /\ p \in Listed => Tracks(after[b], p)
        BY <1>2, <2>1, <2>2, <2>3, <3>2, <3>3, <3>4, TrackGrows
      <3>6. ASSUME Complete(q, pair, chain[b - 1]) PROVE Complete(q, after[b], chain[b])
        <4> SUFFICES ASSUME NEW y \in Listed, PairOf[y] = q, chain[b][y].live PROVE Tracks(after[b], y)
          BY DEF Complete
        <4>1. y \in Pools
          BY PoolsAssumption DEF PoolsAssumption
        <4>2. CASE y = p
          BY <3>5, <4>2
        <4>3. CASE y # p
          BY <2>2, <3>5, <3>6, <4>1, <4>3 DEF Complete
        <4> QED
          BY <4>2, <4>3
      <3> QED
        BY <1>4, <3>5, <3>6 DEF pair
    <2>4. CASE log.name # "Created"
      <3>1. after[b] = pair
        BY <2>1, <2>4
      <3>2. chain[b - 1][p].live
        BY <2>2, <2>4 DEF Effect
      <3>3. ASSUME Complete(q, pair, chain[b - 1]) PROVE Complete(q, after[b], chain[b])
        <4> SUFFICES ASSUME NEW y \in Listed, PairOf[y] = q, chain[b][y].live PROVE Tracks(after[b], y)
          BY DEF Complete
        <4>1. y \in Pools
          BY PoolsAssumption DEF PoolsAssumption
        <4>2. chain[b - 1][y].live
          BY <2>2, <3>2, <4>1
        <4> QED
          BY <3>1, <3>3, <4>2 DEF Complete
      <3> QED
        BY <1>4, <3>1, <3>3 DEF pair
    <2> QED
      BY <2>3, <2>4
  <1> HIDE DEF Fine
  <1>5. N = {}
    <2>1. SUFFICES ASSUME N # {} PROVE FALSE
      OBVIOUS
    <2>2. PICK n \in N : \A m \in N : n <= m
      <3>1. N \in SUBSET Nat
        OBVIOUS
      <3> HIDE DEF N
      <3> QED
        BY <2>1, <3>1, Least
    <2>3. n \in Nat /\ n <= syncing.to - syncedBlock /\ ~Fine(syncedBlock + n)
      BY <2>2
    <2>4. n # 0
      BY <1>0, <1>3, <2>3
    <2>5. /\ syncedBlock + n \in (syncedBlock + 1)..syncing.to /\ n - 1 \in Nat
          /\ n - 1 <= syncing.to - syncedBlock /\ syncedBlock + (n - 1) = (syncedBlock + n) - 1
      BY <1>0, <2>3, <2>4
    <2>6. n - 1 \notin N
      <3> HIDE DEF N
      <3> QED
        BY <2>2, <2>3, <2>5
    <2>7. Fine((syncedBlock + n) - 1)
      BY <2>5, <2>6
    <2> QED
      BY <1>4, <2>3, <2>5, <2>7
  <1>6. Fine(syncing.to)
    <2>1. syncing.to - syncedBlock \in Nat /\ syncedBlock + (syncing.to - syncedBlock) = syncing.to
      BY <1>0
    <2> QED
      BY <1>5, <2>1
  <1> QED
    BY <1>1, <1>6 DEF Fine

\* Grown, a pair has the same numbers and the same deepest pools.
LEMMA GrownIs ==
    ASSUME ChainOK, SyncOK, NEW q \in Pairs, NEW pair \in PairStates, NEW z, Grown(q, pair, z)
    PROVE  /\ Numbers(pair, chain[syncedBlock]) => Numbers(z, chain[syncedBlock])
           /\ Deepest(z.tracked) = Deepest(pair.tracked)
           /\ Deployed(pair, chain[head]) => Deployed(z, chain[head])
  <1> DEFINE t == z.tracked
             m == Len(pair.tracked)
             n == Len(t)
  <1>1. z \in PairStates
    BY DEF Grown, Paired
  <1>2. /\ t \in Seq(Entries) /\ pair.tracked \in Seq(Entries)
    BY <1>1, PairHas
  <1>3. /\ m \in Nat /\ n \in Nat /\ DOMAIN t = 1..n /\ DOMAIN pair.tracked = 1..m
        /\ \A i \in 1..n : t[i].pool \in Pools /\ t[i] \in Entries
    BY <1>2, EntriesAre
  <1>4. /\ m <= n /\ \A i \in 1..m : t[i] = pair.tracked[i]
        /\ \A i \in (m + 1)..n : t[i].liquidity = 0 /\ ~ chain[syncedBlock][t[i].pool].live
                                 /\ chain[head][t[i].pool].live
        /\ z.held = pair.held
    BY DEF Grown
  <1> HIDE DEF t
  <1>5. Deepest(t) = Deepest(pair.tracked)
    BY <1>2, <1>4, EmptyIsNotDeep
  <1>6. ASSUME Deployed(pair, chain[head]) PROVE Deployed(z, chain[head])
    <2>1. ASSUME NEW i \in 1..n PROVE chain[head][t[i].pool].live
      <3>1. CASE i \in 1..m
        BY <1>3, <1>4, <1>6, <3>1 DEF Deployed
      <3>2. CASE i \in (m + 1)..n
        BY <1>4, <3>2
      <3> QED
        BY <1>3, <3>1, <3>2
    <2> QED
      BY <1>3, <2>1 DEF Deployed, t
  <1>7. ASSUME Numbers(pair, chain[syncedBlock]) PROVE Numbers(z, chain[syncedBlock])
    <2>1. ASSUME NEW i \in 1..n PROVE Ranked(t[i], chain[syncedBlock][t[i].pool])
      <3>1. CASE i \in 1..m
        BY <1>3, <1>4, <1>7, <3>1 DEF Numbers
      <3>2. CASE i \in (m + 1)..n
        <4> DEFINE p == t[i].pool
                   s == chain[syncedBlock][p]
        <4>1. p \in Pools /\ s \in States /\ Sound(s) /\ ~s.live /\ t[i].liquidity = 0
          BY <1>3, <1>4, <3>2 DEF ChainOK, SyncOK
        <4>2. s.tick = None /\ s.reserve = 0
          BY <4>1 DEF Sound
        <4>3. LiquidityAt(s, s.tick) = 0
          BY <4>2 DEF LiquidityAt
        <4> QED
          BY <4>1, <4>2, <4>3 DEF Ranked, Liquidity
      <3> QED
        BY <1>3, <3>1, <3>2
    <2> QED
      BY <1>3, <1>4, <1>7, <2>1 DEF Numbers, t
  <1> QED
    BY <1>5, <1>6, <1>7 DEF t

-----------------------------------------------------------------------------
(* The steps that read no chain.                                           *)

\* A step that adds no block.
LEMMA ChainStays ==
    ASSUME ChainOK, UNCHANGED chainVars
    PROVE  ChainOK' /\ head' = head
  BY DEF ChainOK, chainVars, head, Follows

\* A pair that the range under replay is not about stands where it stood.
LEMMA QuietStands ==
    ASSUME ChainOK, SyncOK, syncing # None, NEW q \in Pairs, Quiet(q), NEW p \in Pools, PairOf[p] = q
    PROVE  chain[syncing.to][p] = chain[syncedBlock][p]
  <1> DEFINE N == {i \in Nat : i <= syncing.to - syncedBlock /\ chain[syncedBlock + i][p] # chain[syncedBlock][p]}
  <1>0. /\ syncedBlock \in Nat /\ syncing.to \in Nat /\ syncedBlock < syncing.to /\ syncing.to <= head
        /\ head \in Nat
    BY DEF SyncOK, ChainOK, head, Replays
  <1>1. SUFFICES N = {}
    <2>1. syncing.to - syncedBlock \in Nat /\ syncedBlock + (syncing.to - syncedBlock) = syncing.to
      BY <1>0
    <2> QED
      BY <2>1
  <1>2. SUFFICES ASSUME N # {} PROVE FALSE
    OBVIOUS
  <1>3. PICK i \in N : \A j \in N : i <= j
    <2>1. N \in SUBSET Nat
      OBVIOUS
    <2> HIDE DEF N
    <2> QED
      BY <1>2, <2>1, Least
  <1>4. i \in Nat /\ i <= syncing.to - syncedBlock /\ chain[syncedBlock + i][p] # chain[syncedBlock][p]
    BY <1>3
  <1>5. i # 0
    <2>1. syncedBlock + 0 = syncedBlock
      BY <1>0
    <2> QED
      BY <1>4, <2>1
  <1>6. /\ i - 1 \in Nat /\ i - 1 <= syncing.to - syncedBlock
        /\ syncedBlock + (i - 1) = (syncedBlock + i) - 1
        /\ syncedBlock + i \in 1..head /\ syncedBlock + i \in (syncedBlock + 1)..syncing.to
    BY <1>0, <1>4, <1>5
  <1>7. i - 1 \notin N
    <2> HIDE DEF N
    <2>1. ~(i <= i - 1)
      BY <1>4
    <2> QED
      BY <1>3, <2>1
  <1>8. chain[(syncedBlock + i) - 1][p] = chain[syncedBlock][p]
    BY <1>6, <1>7
  <1>9. Follows(syncedBlock + i) /\ logs[syncedBlock + i].pool # p
    BY <1>6 DEF ChainOK, Quiet
  <1>10. chain[syncedBlock + i][p] = chain[(syncedBlock + i) - 1][p]
    BY <1>9 DEF Follows
  <1> QED
    BY <1>4, <1>8, <1>10

\* At the start there is the opening, and nothing is loaded.
LEMMA InitOK == Init => IInv
  <1> SUFFICES ASSUME Init PROVE IInv
    OBVIOUS
  <1>0. head = 0 /\ logs = <<>> /\ chain = [b \in {0} |-> Opening] /\ 0..0 = {0} /\ 1..0 = {}
    BY DEF Init, head
  <1>1. ChainOK
    <2>1. logs \in Seq(Events)
      BY <1>0
    <2>2. chain \in [0..head -> [Pools -> States]]
      BY <1>0, OpeningAssumption DEF OpeningAssumption
    <2>3. \A b \in 0..head, p \in Pools : Sound(chain[b][p])
      BY <1>0, OpeningAssumption DEF OpeningAssumption
    <2>4. \A b \in 1..head : Follows(b)
      BY <1>0
    <2> QED
      BY <2>1, <2>2, <2>3, <2>4 DEF ChainOK
  <1>2. Loaded = {} /\ syncing = None
    BY DEF Init, Loaded
  <1>3. SyncOK
    BY <1>0, <1>2 DEF Init, SyncOK
  <1>4. LoadOK
    BY DEF Init, LoadOK
  <1>5. PairsOK /\ Watches /\ ExactOK /\ LateOK /\ HeldOK
    BY <1>2 DEF PairsOK, Watches, ExactOK, Exact, LateOK, HeldOK, StageIs
  <1> QED
    BY <1>1, <1>3, <1>4, <1>5 DEF IInv

\* A block is added: what was exact at an earlier one still is.
LEMMA BlockOK == IInv /\ Block => IInv'
  <1> SUFFICES ASSUME IInv, Block PROVE IInv'
    OBVIOUS
  <1>0. /\ ChainOK /\ SyncOK /\ LoadOK /\ PairsOK /\ Watches /\ ExactOK /\ LateOK /\ HeldOK
        /\ UNCHANGED <<loaded, inFlight, syncedBlock, syncing, off, faults>>
    BY DEF IInv, Block
  <1>1. PICK p \in Pools : \E e \in EventsOf(p, chain[head][p]) :
            /\ logs' = Append(logs, e[1])
            /\ chain' = [b \in 0..(head + 1) |->
                            IF b <= head THEN chain[b] ELSE [chain[head] EXCEPT ![p] = e[2]]]
    BY DEF Block
  <1>2. PICK e \in EventsOf(p, chain[head][p]) :
            /\ logs' = Append(logs, e[1])
            /\ chain' = [b \in 0..(head + 1) |->
                            IF b <= head THEN chain[b] ELSE [chain[head] EXCEPT ![p] = e[2]]]
    BY <1>1
  <1>3. e = <<e[1], e[2]>>
    <2> DEFINE s == chain[head][p]
    <2>1. \E x, y : e = <<x, y>>
      <3>1. CASE ~s.live
        BY <3>1 DEF EventsOf
      <3>2. CASE s.live /\ Kind[p] = "v2"
        BY <3>2 DEF EventsOf
      <3>3. CASE s.live /\ Kind[p] # "v2" /\ s.tick = None
        BY <3>3 DEF EventsOf
      <3>4. CASE s.live /\ Kind[p] # "v2" /\ s.tick # None
        <4>1. \/ \E t \in Ticks : e = <<[Event("Swap", p) EXCEPT !.tick = t, !.amount = LiquidityAt(s, t)],
                                        [s EXCEPT !.tick = t]>>
              \/ \E r \in Ranges : e = <<[Event("Mint", p) EXCEPT !.range = r, !.amount = 1],
                                         [s EXCEPT !.positions[r] = @ + 1]>>
              \/ \E r \in Ranges : e = <<[Event("Burn", p) EXCEPT !.range = r, !.amount = 1],
                                         [s EXCEPT !.positions[r] = @ - 1]>>
          BY <3>4 DEF EventsOf
        <4> QED
          BY <4>1
      <3> QED
        BY <3>1, <3>2, <3>3, <3>4
    <2> QED
      BY <2>1
  <1>4. /\ head \in Nat /\ chain \in [0..head -> [Pools -> States]] /\ logs \in Seq(Events)
        /\ chain[head][p] \in States /\ Sound(chain[head][p])
    BY <1>0 DEF ChainOK, head
  <1> DEFINE log == e[1]
             z == e[2]
             s == chain[head][p]
  <1>5. Effect(p, s, log, z)
    BY <1>3, <1>4, EventIs
  <1>6. /\ logs' = Append(logs, log)
        /\ chain' = [b \in 0..(head + 1) |-> IF b <= head THEN chain[b] ELSE [chain[head] EXCEPT ![p] = z]]
    BY <1>2
  <1>13. s \in States /\ Sound(s) /\ s = chain[head][p]
    BY <1>4
  <1> HIDE DEF log, z, s
  <1>7. log \in Events /\ log.pool = p /\ z \in States /\ Sound(z) /\ z.live
    BY <1>5 DEF Effect
  <1>8. /\ head' = head + 1 /\ logs' \in Seq(Events) /\ logs'[head + 1] = log
        /\ \A b \in 1..head : logs'[b] = logs[b]
    BY <1>4, <1>6, <1>7 DEF head
  <1>9. /\ \A b \in 0..head : chain'[b] = chain[b]
        /\ chain'[head + 1] = [chain[head] EXCEPT ![p] = z]
        /\ chain' \in [0..(head + 1) -> [Pools -> States]]
    <2>1. \A b \in 0..head : b \in 0..(head + 1) /\ b <= head
      BY <1>4
    <2>2. head + 1 \in 0..(head + 1) /\ ~(head + 1 <= head) /\ head \in 0..head
      BY <1>4
    <2>3. [chain[head] EXCEPT ![p] = z] \in [Pools -> States]
      BY <1>4, <1>7, <2>2
    <2>4. \A b \in 0..(head + 1) : b <= head => b \in 0..head
      BY <1>4
    <2>5. \A b \in 0..head : chain[b] \in [Pools -> States]
      BY <1>4
    <2> QED
      BY <1>6, <2>1, <2>2, <2>3, <2>4, <2>5
  <1>10. /\ chain'[head + 1][p] = z
         /\ \A y \in Pools \ {p} : chain'[head + 1][y] = chain[head][y]
    <2>1. chain[head] \in [Pools -> States]
      BY <1>4
    <2> QED
      BY <1>9, <2>1
  <1>11. ChainOK'
    <2>1. ASSUME NEW b \in 0..(head + 1), NEW y \in Pools PROVE Sound(chain'[b][y])
      <3>1. CASE b \in 0..head
        BY <1>0, <1>9, <3>1 DEF ChainOK
      <3>2. CASE b = head + 1
        <4>1. head \in 0..head
          BY <1>4
        <4> QED
          BY <1>0, <1>7, <1>10, <3>2, <4>1 DEF ChainOK
      <3> QED
        BY <1>4, <3>1, <3>2
    <2>2. ASSUME NEW b \in 1..(head + 1) PROVE Follows(b)'
      <3>1. CASE b \in 1..head
        <4>1. Follows(b) /\ b \in 0..head /\ b - 1 \in 0..head
          BY <1>0, <1>4, <3>1 DEF ChainOK
        <4> QED
          BY <1>8, <1>9, <3>1, <4>1 DEF Follows
      <3>2. CASE b = head + 1
        <4>1. /\ (head + 1) - 1 = head /\ head \in 0..head
          BY <1>4
        <4>2. chain'[b - 1] = chain[head] /\ logs'[b] = log /\ chain'[b][p] = z
          BY <1>8, <1>9, <1>10, <3>2, <4>1
        <4>3. Effect(logs'[b].pool, chain'[b - 1][logs'[b].pool], logs'[b], chain'[b][logs'[b].pool])
          BY <1>5, <1>7, <1>13, <4>2
        <4>4. \A y \in Pools \ {logs'[b].pool} : chain'[b][y] = chain'[b - 1][y]
          BY <1>7, <1>10, <3>2, <4>2
        <4> QED
          BY <4>3, <4>4 DEF Follows
      <3> QED
        BY <1>4, <3>1, <3>2
    <2> QED
      BY <1>8, <1>9, <2>1, <2>2 DEF ChainOK
  <1>12. /\ loaded' = loaded /\ syncing' = syncing /\ syncedBlock' = syncedBlock /\ off' = off
         /\ Loaded' = Loaded /\ Exact' = Exact /\ At' = At
    BY <1>0 DEF Loaded, Exact, At
  <1>14. SyncOK'
    BY <1>0, <1>4, <1>8, <1>12 DEF SyncOK, Replays
  <1>15. LoadOK'
    BY <1>0 DEF LoadOK
  <1>16. PairsOK'
    <2>1. ASSUME NEW q \in Loaded PROVE Deployed(loaded[q], chain'[head + 1])
      <3>1. Paired(q, loaded[q]) /\ Deployed(loaded[q], chain[head])
        BY <1>0 DEF PairsOK
      <3>2. \A i \in DOMAIN loaded[q].tracked : loaded[q].tracked[i].pool \in Pools
        BY <3>1, PoolsAssumption DEF Paired, PoolsAssumption
      <3> QED
        BY <1>7, <1>10, <3>1, <3>2 DEF Deployed
    <2> QED
      BY <1>0, <1>8, <1>12, <2>1 DEF PairsOK
  <1>17. /\ syncing # None => syncing.to \in 0..head /\ (\A q : Quiet(q)' <=> Quiet(q))
         /\ syncedBlock \in 0..head /\ At \in 0..head
    <2>1. syncing # None => syncing.to \in Nat /\ syncing.to <= head
      BY <1>0 DEF SyncOK, Replays
    <2>2. syncing # None => \A b \in (syncedBlock + 1)..syncing.to : b \in 1..head
      BY <1>0, <1>4, <2>1 DEF SyncOK
    <2>3. syncing # None => \A q : Quiet(q)' <=> Quiet(q)
      BY <1>8, <1>12, <2>2 DEF Quiet
    <2> QED
      BY <1>0, <1>4, <2>1, <2>3 DEF SyncOK, At
  <1>18. Watches'
    BY <1>0, <1>9, <1>12, <1>17 DEF Watches, StageIs
  <1>19. ExactOK'
    BY <1>0, <1>9, <1>12, <1>17 DEF ExactOK
  <1>20. LateOK'
    BY <1>0, <1>9, <1>12, <1>17 DEF LateOK, StageIs
  <1>21. HeldOK'
    BY <1>0, <1>12, <1>17 DEF HeldOK, StageIs
  <1> QED
    BY <1>11, <1>14, <1>15, <1>16, <1>18, <1>19, <1>20, <1>21 DEF IInv

-----------------------------------------------------------------------------
(* The steps of a replay.                                                  *)

\* Steps that touch neither the chain, nor the pairs, nor the replay.
LEMMA SameOK ==
    ASSUME IInv, UNCHANGED <<chainVars, loaded, syncedBlock, syncing, off>>, LoadOK'
    PROVE  IInv'
  <1>0. /\ ChainOK /\ SyncOK /\ LoadOK /\ PairsOK /\ Watches /\ ExactOK /\ LateOK /\ HeldOK
        /\ UNCHANGED <<chain, logs, loaded, syncedBlock, syncing, off>>
    BY DEF IInv, chainVars
  <1>1. ChainOK' /\ head' = head /\ Loaded' = Loaded /\ Exact' = Exact /\ At' = At
        /\ \A q : Quiet(q)' <=> Quiet(q)
    BY <1>0, ChainStays DEF chainVars, Loaded, Exact, At, Quiet
  <1>2. SyncOK'
    BY <1>0, <1>1 DEF SyncOK
  <1>3. PairsOK'
    BY <1>0, <1>1 DEF PairsOK
  <1>4. Watches'
    BY <1>0 DEF Watches, StageIs
  <1>5. ExactOK'
    BY <1>0, <1>1 DEF ExactOK
  <1>6. LateOK'
    BY <1>0, <1>1 DEF LateOK, StageIs
  <1>7. HeldOK'
    BY <1>0, <1>1 DEF HeldOK, StageIs
  <1> QED
    BY <1>1, <1>2, <1>3, <1>4, <1>5, <1>6, <1>7 DEF IInv

LEMMA EnsureOK == ASSUME IInv, NEW q \in Pairs, Ensure(q) PROVE IInv'
  <1>1. LoadOK'
    BY DEF IInv, LoadOK, Ensure
  <1> QED
    BY <1>1, SameOK DEF Ensure

LEMMA LoadFailsOK == ASSUME IInv, NEW q \in Pairs, LoadFails(q) PROVE IInv'
  <1>1. LoadOK'
    BY DEF IInv, LoadOK, LoadFails, Fault
  <1> QED
    BY <1>1, SameOK DEF LoadFails

\* A replay begins, and may be given up while nothing was applied.
LEMMA SyncStepOK == ASSUME IInv, NEW to \in 0..head, Sync(to) PROVE IInv'
  <1>0. /\ ChainOK /\ SyncOK /\ LoadOK /\ PairsOK /\ Watches /\ ExactOK /\ LateOK /\ HeldOK
        /\ UNCHANGED <<chain, logs, loaded, inFlight, syncedBlock, off>> /\ syncing = None /\ to > syncedBlock
        /\ syncing' = [stage |-> "created", to |-> to, of |-> {}, left |-> {}]
    BY DEF IInv, Sync, chainVars
  <1>1. ChainOK' /\ head' = head /\ Loaded' = Loaded
    BY <1>0, ChainStays DEF chainVars, Loaded
  <1>2. syncing' \in Replays /\ syncing' # None /\ syncing'.stage = "created" /\ to \in Nat /\ syncing'.to = to
        /\ syncing'.of = {} /\ syncing'.left = {}
    <2>1. to \in Nat /\ to <= head
      BY <1>0 DEF ChainOK, head
    <2> QED
      BY <1>0, <2>1, NoneAssumption DEF Replays, NoneAssumption
  <1>3. SyncOK'
    BY <1>0, <1>1, <1>2 DEF SyncOK
  <1>4. LoadOK'
    BY <1>0 DEF LoadOK, Sync, Fault
  <1>5. PairsOK'
    BY <1>0, <1>1 DEF PairsOK
  <1>6. Exact' = Exact /\ At' = At
    BY <1>0, <1>1, <1>2 DEF Exact, At
  <1>7. ExactOK'
    BY <1>0, <1>6 DEF ExactOK
  <1>8. Watches' /\ LateOK'
    BY <1>2 DEF Watches, LateOK, StageIs
  <1>9. HeldOK'
    BY <1>0, <1>1, <1>2 DEF HeldOK, StageIs
  <1> QED
    BY <1>1, <1>3, <1>4, <1>5, <1>7, <1>8, <1>9 DEF IInv

LEMMA LogsFailOK == ASSUME IInv, LogsFail PROVE IInv'
  <1>0. /\ ChainOK /\ SyncOK /\ LoadOK /\ PairsOK /\ Watches /\ ExactOK /\ LateOK /\ HeldOK
        /\ UNCHANGED <<chain, logs, loaded, inFlight, syncedBlock, off>> /\ syncing' = None
        /\ syncing # None /\ syncing.stage \in {"created", "logs"}
    BY DEF IInv, LogsFail, chainVars
  <1>1. ChainOK' /\ head' = head /\ Loaded' = Loaded
    BY <1>0, ChainStays DEF chainVars, Loaded
  <1>3. SyncOK'
    BY <1>0, <1>1 DEF SyncOK
  <1>4. LoadOK'
    BY <1>0 DEF LoadOK, LogsFail, Fault
  <1>5. PairsOK'
    BY <1>0, <1>1 DEF PairsOK
  <1>6. Exact' = Exact /\ At' = At
    BY <1>0, <1>1 DEF Exact, At
  <1>7. ExactOK'
    BY <1>0, <1>6 DEF ExactOK
  <1>8. Watches' /\ LateOK'
    BY <1>0 DEF Watches, LateOK, StageIs
  <1>9. HeldOK'
    BY <1>0, <1>1 DEF HeldOK, StageIs
  <1> QED
    BY <1>1, <1>3, <1>4, <1>5, <1>7, <1>8, <1>9 DEF IInv

\* The reads were already at the block the repository is now synced to.
LEMMA ReplayedOK == ASSUME IInv, Replayed PROVE IInv'
  <1>0. /\ ChainOK /\ SyncOK /\ LoadOK /\ PairsOK /\ Watches /\ ExactOK /\ LateOK /\ HeldOK
        /\ UNCHANGED <<chain, logs, loaded, inFlight, faults>> /\ syncing' = None
        /\ syncing # None /\ syncing.stage = "reselect" /\ syncing.left = {}
        /\ syncedBlock' = syncing.to /\ off' = off \cup (Loaded \ syncing.of)
    BY DEF IInv, Replayed, chainVars
  <1>1. ChainOK' /\ head' = head /\ Loaded' = Loaded
    BY <1>0, ChainStays DEF chainVars, Loaded
  <1>2. syncing.of \subseteq Loaded /\ Loaded \subseteq Pairs /\ syncing.to \in Nat /\ syncing.to <= head
    BY <1>0 DEF SyncOK, Loaded, Replays
  <1>3. SyncOK'
    BY <1>0, <1>1, <1>2 DEF SyncOK
  <1>4. LoadOK'
    BY <1>0, <1>2 DEF LoadOK
  <1>5. PairsOK'
    BY <1>0, <1>1 DEF PairsOK
  <1>6. Exact' = Exact /\ At' = At
    BY <1>0, <1>1, <1>2 DEF Exact, At
  <1>7. ExactOK'
    BY <1>0, <1>6 DEF ExactOK
  <1>8. Watches' /\ LateOK'
    BY <1>0 DEF Watches, LateOK, StageIs
  <1>9. HeldOK'
    BY <1>0, <1>1 DEF HeldOK, StageIs
  <1> QED
    BY <1>1, <1>3, <1>4, <1>5, <1>7, <1>8, <1>9 DEF IInv

\* The numbers of a pair no event is of are those of the block before the range.
LEMMA QuietIsExact ==
    ASSUME ChainOK, SyncOK, syncing # None, NEW q \in Pairs, Quiet(q),
           NEW pair, Paired(q, pair), ExactAt(q, pair, chain[syncing.to])
    PROVE  ExactAt(q, pair, chain[syncedBlock])
  <1>1. \A p \in Listed : p \in Pools /\ (PairOf[p] = q => chain[syncing.to][p] = chain[syncedBlock][p])
    BY QuietStands, PoolsAssumption DEF PoolsAssumption
  <1>2. \A i \in DOMAIN pair.tracked : pair.tracked[i].pool \in Listed /\ PairOf[pair.tracked[i].pool] = q
    BY DEF Paired
  <1>3. \A p \in DOMAIN pair.held : p \in Listed /\ PairOf[p] = q
    BY <1>2 DEF Paired, Tracks
  <1>4. Numbers(pair, chain[syncedBlock])
    BY <1>1, <1>2, <1>3 DEF Numbers, ExactAt
  <1>5. Complete(q, pair, chain[syncedBlock])
    BY <1>1 DEF Complete, ExactAt
  <1> QED
    BY <1>4, <1>5 DEF ExactAt

\* A replay throws after its logs: who is not off had no event in it.
LEMMA ReselectFailsOK == ASSUME IInv, NEW q \in Pairs, ReselectFails(q) PROVE IInv'
  <1>0. /\ ChainOK /\ SyncOK /\ LoadOK /\ PairsOK /\ Watches /\ ExactOK /\ LateOK /\ HeldOK
        /\ UNCHANGED <<chain, logs, loaded, inFlight, syncedBlock>> /\ syncing' = None
        /\ syncing # None /\ q \in syncing.left
        /\ off' = off \cup (Loaded \cap {PairOf[logs[b].pool] : b \in (syncedBlock + 1)..syncing.to})
    BY DEF IInv, ReselectFails, chainVars
  <1>1. ChainOK' /\ head' = head /\ Loaded' = Loaded
    BY <1>0, ChainStays DEF chainVars, Loaded
  <1>2. syncing.stage = "reselect" /\ Loaded \subseteq Pairs
    BY <1>0 DEF SyncOK, Loaded
  <1>10. \A y \in Loaded \ off' : y \notin off /\ Quiet(y)
    BY <1>0 DEF Quiet
  <1>3. SyncOK'
    BY <1>0, <1>1 DEF SyncOK
  <1>4. LoadOK'
    BY <1>0, <1>2 DEF LoadOK, ReselectFails, Fault
  <1>5. PairsOK'
    BY <1>0, <1>1 DEF PairsOK
  <1>6. Exact' = Loaded \ off' /\ At' = syncedBlock
    BY <1>0, <1>1 DEF Exact, At
  <1>7. ExactOK'
    <2> SUFFICES ASSUME NEW y \in Loaded \ off' PROVE ExactAt(y, loaded[y], chain[syncedBlock])
      BY <1>0, <1>6 DEF ExactOK
    <2>1. y \notin off /\ Quiet(y) /\ y \in Pairs /\ Paired(y, loaded[y])
      BY <1>0, <1>2, <1>10 DEF PairsOK
    <2>2. CASE y \in syncing.of
      <3>1. ExactAt(y, loaded[y], chain[syncing.to])
        BY <1>0, <1>2, <2>1, <2>2 DEF ExactOK, Exact, At
      <3> QED
        BY <1>0, <2>1, <3>1, QuietIsExact
    <2>3. CASE y \notin syncing.of
      BY <1>0, <1>2, <2>1, <2>3 DEF LateOK, StageIs
    <2> QED
      BY <2>2, <2>3
  <1>8. Watches' /\ LateOK'
    BY <1>0 DEF Watches, LateOK, StageIs
  <1>9. HeldOK'
    BY <1>0, <1>1, <1>10 DEF HeldOK, StageIs
  <1> QED
    BY <1>1, <1>3, <1>4, <1>5, <1>7, <1>8, <1>9 DEF IInv

\* The pools created in the range are tracked, at nothing.
LEMMA CreatedReadOK == ASSUME IInv, CreatedRead PROVE IInv'
  <1>0. /\ ChainOK /\ SyncOK /\ LoadOK /\ PairsOK /\ Watches /\ ExactOK /\ LateOK /\ HeldOK
        /\ UNCHANGED <<chain, logs, inFlight, syncedBlock, off, faults>>
        /\ syncing # None /\ syncing.stage = "created" /\ StageIs("created")
        /\ loaded' = [q \in Pairs |-> IF loaded[q] = None THEN None ELSE Replay(q)]
        /\ syncing' = [syncing EXCEPT !.stage = "logs", !.of = Loaded]
    BY DEF IInv, CreatedRead, chainVars, StageIs
  <1>1. ChainOK' /\ head' = head
    BY <1>0, ChainStays DEF chainVars
  <1>2. ASSUME NEW q \in Loaded
        PROVE  /\ q \in Pairs /\ loaded[q] \in PairStates /\ loaded'[q] = Replay(q)
               /\ Grown(q, loaded[q], loaded'[q])
               /\ loaded'[q] \in PairStates /\ Paired(q, loaded'[q])
               /\ Complete(q, loaded[q], chain[syncedBlock]) => Complete(q, loaded'[q], chain[syncing.to])
    <2>1. q \in Pairs /\ loaded[q] # None /\ Paired(q, loaded[q])
      BY <1>0 DEF Loaded, PairsOK
    <2>2. loaded'[q] = Replay(q)
      BY <1>0, <2>1
    <2>3. /\ Grown(q, loaded[q], Replay(q))
          /\ Complete(q, loaded[q], chain[syncedBlock]) => Complete(q, Replay(q), chain[syncing.to])
      BY <1>0, CreatedReplayed
    <2> QED
      BY <2>1, <2>2, <2>3 DEF Grown, Paired
  <1>3. /\ Loaded' = Loaded /\ \A q \in Pairs \ Loaded : loaded'[q] = None
        /\ DOMAIN loaded' = Pairs /\ loaded' \in [Pairs -> PairStates \cup {None}]
    <2>1. \A q \in Pairs \ Loaded : loaded'[q] = None
      BY <1>0 DEF Loaded
    <2>2. \A q \in Loaded : loaded'[q] \in PairStates /\ loaded'[q] # None /\ q \in Pairs
      BY <1>2, NoneAssumption DEF NoneAssumption
    <2>3. DOMAIN loaded' = Pairs /\ loaded' = [q \in Pairs |-> loaded'[q]]
      BY <1>0
    <2>4. \A q \in Pairs : loaded'[q] \in PairStates \cup {None}
      BY <2>1, <2>2
    <2> QED
      BY <2>1, <2>2, <2>3, <2>4 DEF Loaded
  <1>4. /\ syncing' \in Replays /\ syncing' # None /\ syncing'.stage = "logs" /\ syncing'.of = Loaded
        /\ syncing'.to = syncing.to /\ syncing'.left = syncing.left /\ syncing.left = {} /\ Loaded \subseteq Pairs
    BY <1>0, NoneAssumption DEF SyncOK, Replays, NoneAssumption, Loaded
  <1>5. SyncOK'
    BY <1>0, <1>1, <1>3, <1>4 DEF SyncOK
  <1>6. LoadOK'
    <2>1. \A q \in Pairs : inFlight[q] = 1 => loaded'[q] = None
      BY <1>0, <1>3 DEF LoadOK, Loaded
    <2> QED
      BY <1>0, <1>3, <2>1 DEF LoadOK
  <1>7. ASSUME NEW q \in Loaded
        PROVE  /\ Deepest(loaded'[q].tracked) = Deepest(loaded[q].tracked) /\ loaded'[q].held = loaded[q].held
               /\ Numbers(loaded[q], chain[syncedBlock]) => Numbers(loaded'[q], chain[syncedBlock])
               /\ Deployed(loaded[q], chain[head]) => Deployed(loaded'[q], chain[head])
    <2>1. q \in Pairs /\ loaded[q] \in PairStates /\ Grown(q, loaded[q], loaded'[q])
      BY <1>2
    <2>2. loaded'[q].held = loaded[q].held
      BY <2>1 DEF Grown
    <2> QED
      BY <1>0, <2>1, <2>2, GrownIs
  <1>8. PairsOK'
    BY <1>0, <1>1, <1>2, <1>3, <1>7 DEF PairsOK
  <1>9. Exact = Loaded \ off /\ Exact' = Loaded \ off /\ At = syncedBlock /\ At' = syncedBlock
    BY <1>0, <1>3, <1>4 DEF Exact, At
  <1>10. ASSUME NEW q \in Loaded \ off
         PROVE  /\ Complete(q, loaded'[q], chain[syncing.to])
                /\ ExactAt(q, loaded'[q], chain[syncedBlock])
    <2>1. ExactAt(q, loaded[q], chain[syncedBlock])
      BY <1>0, <1>9 DEF ExactOK
    <2>2. Complete(q, loaded'[q], chain[syncing.to]) /\ Numbers(loaded'[q], chain[syncedBlock])
      BY <1>2, <1>7, <2>1 DEF ExactAt
    <2>3. syncedBlock \in 0..head /\ syncing.to \in syncedBlock..head
      BY <1>0 DEF SyncOK, Replays
    <2>4. \A p \in Listed : chain[syncedBlock][p].live => chain[syncing.to][p].live
      BY <1>0, <2>3, StaysLive, PoolsAssumption DEF PoolsAssumption
    <2>5. Complete(q, loaded'[q], chain[syncedBlock])
      BY <2>2, <2>4 DEF Complete
    <2> QED
      BY <2>2, <2>5 DEF ExactAt
  <1>11. Watches'
    BY <1>0, <1>4, <1>10 DEF Watches, StageIs
  <1>12. ExactOK'
    BY <1>0, <1>9, <1>10 DEF ExactOK
  <1>13. LateOK'
    BY <1>4 DEF LateOK, StageIs
  <1>14. HeldOK'
    BY <1>0, <1>3, <1>4, <1>7 DEF HeldOK, StageIs
  <1> QED
    BY <1>1, <1>5, <1>6, <1>8, <1>11, <1>12, <1>13, <1>14 DEF IInv

\* The logs take the reads from one end of the range to the other.
LEMMA LogsReadOK == ASSUME IInv, LogsRead PROVE IInv'
  <1>0. /\ ChainOK /\ SyncOK /\ LoadOK /\ PairsOK /\ Watches /\ ExactOK /\ LateOK /\ HeldOK
        /\ UNCHANGED <<chain, logs, inFlight, syncedBlock, off, faults>>
        /\ syncing # None /\ syncing.stage = "logs" /\ StageIs("logs")
        /\ loaded' = [q \in Pairs |-> IF loaded[q] = None THEN None ELSE Replay(q)]
        /\ syncing' = [syncing EXCEPT !.stage = "reselect", !.left = Loaded]
    BY DEF IInv, LogsRead, chainVars, StageIs
  <1>1. ChainOK' /\ head' = head
    BY <1>0, ChainStays DEF chainVars
  <1>2. ASSUME NEW q \in Loaded
        PROVE  /\ q \in Pairs /\ loaded[q] \in PairStates
               /\ loaded'[q] \in PairStates /\ Paired(q, loaded'[q]) /\ SamePools(loaded[q], loaded'[q])
               /\ q \in syncing.of /\ Numbers(loaded[q], chain[syncedBlock]) => Numbers(loaded'[q], chain[syncing.to])
               /\ q \notin syncing.of \/ Quiet(q) => loaded'[q] = loaded[q]
    <2>1. q \in Pairs /\ loaded[q] # None /\ Paired(q, loaded[q])
      BY <1>0 DEF Loaded, PairsOK
    <2>2. loaded'[q] = Replay(q)
      BY <1>0, <2>1
    <2>3. /\ Replay(q) \in PairStates /\ Paired(q, Replay(q)) /\ SamePools(loaded[q], Replay(q))
          /\ q \in syncing.of /\ Numbers(loaded[q], chain[syncedBlock]) => Numbers(Replay(q), chain[syncing.to])
          /\ q \notin syncing.of \/ Quiet(q) => Replay(q) = loaded[q]
      BY <1>0, LogsReplayed
    <2> QED
      BY <2>1, <2>2, <2>3 DEF Paired
  <1>3. /\ Loaded' = Loaded /\ \A q \in Pairs \ Loaded : loaded'[q] = None
        /\ DOMAIN loaded' = Pairs /\ loaded' \in [Pairs -> PairStates \cup {None}]
    <2>1. \A q \in Pairs \ Loaded : loaded'[q] = None
      BY <1>0 DEF Loaded
    <2>2. \A q \in Loaded : loaded'[q] \in PairStates /\ loaded'[q] # None /\ q \in Pairs
      BY <1>2, NoneAssumption DEF NoneAssumption
    <2>3. DOMAIN loaded' = Pairs /\ loaded' = [q \in Pairs |-> loaded'[q]]
      BY <1>0
    <2>4. \A q \in Pairs : loaded'[q] \in PairStates \cup {None}
      BY <2>1, <2>2
    <2> QED
      BY <2>1, <2>2, <2>3, <2>4 DEF Loaded
  <1>4. /\ syncing' \in Replays /\ syncing' # None /\ syncing'.stage = "reselect" /\ syncing'.of = syncing.of
        /\ syncing'.to = syncing.to /\ syncing'.left = Loaded /\ Loaded \subseteq Pairs /\ syncing.of \subseteq Loaded
    BY <1>0, NoneAssumption DEF SyncOK, Replays, NoneAssumption, Loaded
  <1>5. SyncOK'
    BY <1>0, <1>1, <1>3, <1>4 DEF SyncOK
  <1>6. LoadOK'
    <2>1. \A q \in Pairs : inFlight[q] = 1 => loaded'[q] = None
      BY <1>0, <1>3 DEF LoadOK, Loaded
    <2> QED
      BY <1>0, <1>3, <2>1 DEF LoadOK
  <1>7. ASSUME NEW q \in Loaded
        PROVE  \A c : /\ Deployed(loaded[q], c) => Deployed(loaded'[q], c)
                      /\ Complete(q, loaded[q], c) => Complete(q, loaded'[q], c)
    <2>1. SamePools(loaded[q], loaded'[q])
      BY <1>2
    <2>2. \A p : Tracks(loaded'[q], p) <=> Tracks(loaded[q], p)
      BY <2>1, SameTracks
    <2> QED
      BY <2>1, <2>2 DEF SamePools, Deployed, Complete
  <1>8. PairsOK'
    BY <1>0, <1>1, <1>2, <1>3, <1>7 DEF PairsOK
  <1>9. /\ Exact = Loaded \ off /\ Exact' = syncing.of \ off /\ At = syncedBlock /\ At' = syncing.to
        /\ \A q : Quiet(q)' <=> Quiet(q)
    BY <1>0, <1>3, <1>4 DEF Exact, At, Quiet
  <1>10. ExactOK'
    <2> SUFFICES ASSUME NEW q \in syncing.of \ off PROVE ExactAt(q, loaded'[q], chain[syncing.to])
      BY <1>0, <1>9 DEF ExactOK
    <2>1. Numbers(loaded[q], chain[syncedBlock]) /\ Complete(q, loaded[q], chain[syncing.to])
      BY <1>0, <1>4, <1>9 DEF ExactOK, ExactAt, Watches
    <2> QED
      BY <1>2, <1>4, <1>7, <2>1 DEF ExactAt
  <1>11. Watches'
    BY <1>4 DEF Watches, StageIs
  <1>12. LateOK'
    <2> SUFFICES ASSUME NEW q \in Loaded \ (off \cup syncing.of), Quiet(q)
                 PROVE  ExactAt(q, loaded'[q], chain[syncedBlock])
      BY <1>0, <1>3, <1>4, <1>9 DEF LateOK
    <2> QED
      BY <1>0, <1>2, <1>9 DEF ExactOK
  <1>13. HeldOK'
    <2> SUFFICES ASSUME NEW q \in Loaded \ off, q \notin Loaded \/ Quiet(q)
                 PROVE  DOMAIN loaded'[q].held = Deepest(loaded'[q].tracked)
      BY <1>0, <1>3, <1>4, <1>9 DEF HeldOK, StageIs
    <2> QED
      BY <1>0, <1>2 DEF HeldOK, StageIs
  <1> QED
    BY <1>1, <1>5, <1>6, <1>8, <1>10, <1>11, <1>12, <1>13 DEF IInv

-----------------------------------------------------------------------------
(* The steps that read the chain.                                          *)

\* What is read of a pool is of it.
LEMMA FullReadIs ==
    ASSUME NEW p \in Pools, NEW s \in States, Sound(s), Kind[p] = "v2" \/ s.tick # None
    PROVE  FullRead(p, s) \in Reads /\ Fresh(p, FullRead(p, s), s)
  <1>0. /\ Liquidity(p, s) \in Int /\ \A i : LiquidityNet(s, i) \in Int
        /\ s.reserve \in Int /\ s.tick \in Int \cup {None}
    <2>1. s.positions \in Positions
      BY DEF States, Positions
    <2>2. s.reserve \in Int /\ s.tick \in Int \cup {None}
      <3>1. s.reserve \in Int
        BY DEF States
      <3>2. s.tick \in Ticks \cup {None} /\ Ticks \subseteq Int
        BY PoolsAssumption DEF States, PoolsAssumption
      <3>3. s.tick \in Int \cup {None}
        BY <3>2
      <3> QED
        BY <3>1, <3>3
    <2> QED
      BY <2>1, <2>2, LiquidityIs, NetIs
  <1>1. CASE Kind[p] = "v2"
    <2>1. FullRead(p, s) = [liquidity |-> s.reserve, tick |-> None, net |-> [i \in Ticks |-> 0], seen |-> {}]
      BY <1>1 DEF FullRead
    <2> QED
      BY <1>0, <1>1, <2>1 DEF Reads, Fresh
  <1>2. CASE Kind[p] # "v2"
    <2> DEFINE w == Window[s.tick]
               net == [i \in Ticks |-> IF i \in w THEN LiquidityNet(s, i) ELSE 0]
    <2>1. FullRead(p, s) = [liquidity |-> Liquidity(p, s), tick |-> s.tick, net |-> net, seen |-> w]
      BY <1>2 DEF FullRead
    <2>2. w \in SUBSET Ticks
      BY <1>2, PoolsAssumption DEF States, PoolsAssumption
    <2>3. net \in [Ticks -> Int] /\ \A i \in w : net[i] = LiquidityNet(s, i)
      BY <1>0, <2>2
    <2> HIDE DEF w, net
    <2> QED
      BY <1>0, <1>2, <2>1, <2>2, <2>3 DEF Reads, Fresh
  <1> QED
    BY <1>1, <1>2

\* A pool that is filled can be read.
LEMMA FilledIsReadable ==
    ASSUME NEW p \in Pools, NEW s \in States, Sound(s), Liquidity(p, s) > 0
    PROVE  s.live /\ (Kind[p] = "v2" \/ s.tick # None)
  BY LiquidityIs DEF Liquidity, Sound

\* The pools selected, read or kept.
LEMMA SelectedIs ==
    ASSUME ChainOK, NEW b \in 0..head, NEW S \in SUBSET Listed, NEW keep,
           \A p \in DOMAIN keep : keep[p] \in Reads,
           \A p \in S \ DOMAIN keep : Kind[p] = "v2" \/ chain[b][p].tick # None
    PROVE  LET r == ReadSelected(S, keep, b)
           IN  /\ DOMAIN r = S /\ r \in [S -> Reads]
               /\ \A p \in S \cap DOMAIN keep : r[p] = keep[p]
               /\ \A p \in S \ DOMAIN keep : Fresh(p, r[p], chain[b][p])
  <1>1. \A p \in S : p \in Pools /\ chain[b][p] \in States /\ Sound(chain[b][p])
    BY PoolsAssumption DEF PoolsAssumption, ChainOK
  <1>2. ASSUME NEW p \in S \ DOMAIN keep
        PROVE  FullRead(p, chain[b][p]) \in Reads /\ Fresh(p, FullRead(p, chain[b][p]), chain[b][p])
    BY <1>1, FullReadIs
  <1> QED
    BY <1>2 DEF ReadSelected

\* The deepest pools of a pair are tracked by it, and filled.
LEMMA DeepestAreTracked ==
    ASSUME NEW pair \in PairStates, NEW p \in Deepest(pair.tracked)
    PROVE  Tracks(pair, p) /\ \E i \in DOMAIN pair.tracked : pair.tracked[i].pool = p /\ pair.tracked[i].liquidity > 0
  BY DEF Deepest, Tracks

\* Every element of a finite set once.
LEMMA InSequence ==
    ASSUME NEW S, IsFiniteSet(S)
    PROVE  LET f == SetToSeq(S)
           IN  /\ f \in Seq(S)
               /\ \A i, j \in DOMAIN f : f[i] = f[j] => i = j
               /\ \A x \in S : \E i \in DOMAIN f : f[i] = x
  <1> DEFINE n == Cardinality(S)
             f == SetToSeq(S)
  <1>1. n \in Nat /\ \E g : g \in Bijection(1..n, S)
    BY FS_CardinalityType DEF ExistsBijection
  <1>2. \E g \in [1..n -> S] : IsInjective(g)
    BY <1>1 DEF Bijection, Injection, IsInjective
  <1>3. f \in [1..n -> S] /\ IsInjective(f)
    BY <1>2 DEF SetToSeq
  <1>4. \A i, j \in 1..n : f[i] = f[j] => i = j
    BY <1>3 DEF IsInjective
  <1> HIDE DEF f
  <1>5. f \in Injection(1..n, S)
    BY <1>3, <1>4 DEF Injection
  <1>6. Cardinality(1..n) = n
    BY <1>1, FS_Interval
  <1>7. f \in Surjection(1..n, S)
    BY <1>5, <1>6, FS_Injection
  <1>8. \A x \in S : \E i \in 1..n : f[i] = x
    BY <1>7 DEF Surjection
  <1>9. DOMAIN f = 1..n /\ f \in Seq(S)
    BY <1>1, <1>3
  <1> QED
    BY <1>4, <1>8, <1>9 DEF f

\* Promoted pools are read at the block the reads are at.
LEMMA ReselectOK == ASSUME IInv, NEW q \in Pairs, Reselect(q) PROVE IInv'
  <1> DEFINE pair == loaded[q]
             z == loaded'[q]
             to == syncing.to
             D == Deepest(pair.tracked)
             r == ReadSelected(D, pair.held, to)
  <1>0. /\ ChainOK /\ SyncOK /\ LoadOK /\ PairsOK /\ Watches /\ ExactOK /\ LateOK /\ HeldOK
        /\ UNCHANGED <<chain, logs, inFlight, syncedBlock, off, faults>>
        /\ syncing # None /\ q \in syncing.left
        /\ \A p \in Promoted(pair) : Readable(p, chain[to][p])
        /\ loaded' = [loaded EXCEPT ![q].held = r]
        /\ syncing' = [syncing EXCEPT !.left = @ \ {q}]
    BY DEF IInv, Reselect, chainVars
  <1>1. ChainOK' /\ head' = head
    BY <1>0, ChainStays DEF chainVars
  <1>2. /\ q \in Loaded /\ syncing.stage = "reselect" /\ syncing.to \in 0..head /\ to \in 0..head
        /\ Loaded \subseteq Pairs /\ syncing.of \subseteq Loaded
    BY <1>0 DEF SyncOK, Replays, ChainOK, head, Loaded
  <1>3. /\ pair \in PairStates /\ Paired(q, pair) /\ Deployed(pair, chain[head])
        /\ pair.tracked \in Seq(Entries) /\ DOMAIN pair.held \in SUBSET Listed
        /\ \A p \in DOMAIN pair.held : pair.held[p] \in Reads
        /\ pair = [tracked |-> pair.tracked, held |-> pair.held]
        /\ pair.held = [p \in DOMAIN pair.held |-> pair.held[p]]
    <2>1. pair \in PairStates /\ Paired(q, pair) /\ Deployed(pair, chain[head])
      BY <1>0, <1>2 DEF PairsOK, Paired
    <2> QED
      BY <2>1, PairHas
  <1>4. \A p \in D : Tracks(pair, p) /\ p \in Listed
    <2>1. \A p \in D : Tracks(pair, p)
      BY <1>3, DeepestAreTracked
    <2> QED
      BY <1>3, <2>1 DEF Paired, Tracks
  <1>5. /\ DOMAIN r = D /\ r \in [D -> Reads]
        /\ \A p \in D \cap DOMAIN pair.held : r[p] = pair.held[p]
        /\ \A p \in D \ DOMAIN pair.held : Fresh(p, r[p], chain[to][p])
    <2>1. \A p \in D \ DOMAIN pair.held : Kind[p] = "v2" \/ chain[to][p].tick # None
      BY <1>0 DEF Promoted, Readable
    <2>2. D \in SUBSET Listed
      BY <1>4
    <2> HIDE DEF D, to, pair
    <2> QED
      BY <1>0, <1>2, <1>3, <2>1, <2>2, SelectedIs
  <1> HIDE DEF D, r
  <1>6. /\ loaded' \in [Pairs -> PairStates \cup {None}] /\ z = [tracked |-> pair.tracked, held |-> r]
        /\ z \in PairStates /\ \A y \in Pairs \ {q} : loaded'[y] = loaded[y]
    <2>1. loaded \in [Pairs -> PairStates \cup {None}]
      BY <1>0 DEF LoadOK
    <2>2. [pair EXCEPT !.held = r] = [tracked |-> pair.tracked, held |-> r]
      BY <1>3
    <2>3. [tracked |-> pair.tracked, held |-> r] \in PairStates
      <3>1. D \in SUBSET Listed
        BY <1>4
      <3> HIDE DEF pair
      <3> QED
        BY <1>3, <1>5, <3>1, PairIs
    <2>4. loaded' = [loaded EXCEPT ![q] = [pair EXCEPT !.held = r]]
      BY <1>0
    <2> DEFINE x == [pair EXCEPT !.held = r]
    <2>5. loaded' = [loaded EXCEPT ![q] = x] /\ x = [tracked |-> pair.tracked, held |-> r] /\ x \in PairStates
      BY <2>2, <2>3, <2>4
    <2> HIDE DEF x
    <2> QED
      BY <2>1, <2>5
  <1>7. /\ Loaded' = Loaded /\ z.tracked = pair.tracked /\ z.held = r /\ DOMAIN z.held = D
    <2>1. z # None /\ pair # None
      BY <1>3, <1>6, NoneAssumption DEF NoneAssumption
    <2> QED
      BY <1>5, <1>6, <2>1 DEF Loaded
  <1>8. /\ syncing' \in Replays /\ syncing' # None /\ syncing'.stage = "reselect" /\ syncing'.of = syncing.of
        /\ syncing'.to = to /\ syncing'.left = syncing.left \ {q}
    BY <1>0, <1>2, NoneAssumption DEF SyncOK, Replays, NoneAssumption
  <1>9. Paired(q, z) /\ Deployed(z, chain[head])
    <2>1. \A p : Tracks(z, p) <=> Tracks(pair, p)
      BY <1>7 DEF Tracks
    <2> HIDE DEF z, pair
    <2> QED
      BY <1>3, <1>4, <1>6, <1>7, <2>1 DEF Paired, Deployed
  <1>10. \A c : Complete(q, pair, c) => Complete(q, z, c)
    BY <1>7 DEF Complete, Tracks
  <1>11. SyncOK'
    BY <1>0, <1>1, <1>2, <1>7, <1>8 DEF SyncOK
  <1>12. LoadOK'
    <2>1. \A y \in Pairs : inFlight[y] = 1 => loaded'[y] = None
      BY <1>0, <1>2, <1>6 DEF LoadOK, Loaded
    <2> QED
      BY <1>0, <1>6, <2>1 DEF LoadOK
  <1>13. PairsOK'
    BY <1>0, <1>1, <1>2, <1>6, <1>7, <1>9 DEF PairsOK
  <1>14. /\ Exact = syncing.of \ off /\ Exact' = syncing.of \ off /\ At = to /\ At' = to
         /\ \A y : Quiet(y)' <=> Quiet(y)
    BY <1>0, <1>2, <1>8 DEF Exact, At, Quiet
  <1>15. Watches'
    BY <1>8 DEF Watches, StageIs
  <1>16. ASSUME Numbers(pair, chain[to]) PROVE Numbers(z, chain[to])
    <2>1. \A p \in D : Fresh(p, r[p], chain[to][p])
      BY <1>5, <1>16 DEF Numbers
    <2> QED
      BY <1>7, <1>16, <2>1 DEF Numbers
  <1>17. ExactOK'
    <2> SUFFICES ASSUME NEW y \in syncing.of \ off PROVE ExactAt(y, loaded'[y], chain[to])
      BY <1>0, <1>14 DEF ExactOK
    <2>1. ExactAt(y, loaded[y], chain[to]) /\ y \in Pairs
      BY <1>0, <1>2, <1>14 DEF ExactOK
    <2>2. CASE y = q
      BY <1>10, <1>16, <2>1, <2>2 DEF ExactAt
    <2>3. CASE y # q
      BY <1>6, <2>1, <2>3
    <2> QED
      BY <2>2, <2>3
  <1>18. LateOK'
    <2> SUFFICES ASSUME NEW y \in Loaded \ (off \cup syncing.of), Quiet(y)
                 PROVE  ExactAt(y, loaded'[y], chain[syncedBlock])
      BY <1>0, <1>7, <1>8, <1>14 DEF LateOK
    <2>1. ExactAt(y, loaded[y], chain[syncedBlock]) /\ y \in Pairs
      BY <1>0, <1>2 DEF LateOK, StageIs
    <2>2. CASE y = q
      <3>1. DOMAIN pair.held = D
        BY <1>0, <1>2, <2>2 DEF HeldOK, D
      <3>2. r = pair.held
        BY <1>3, <1>5, <3>1
      <3>3. z = pair
        BY <1>3, <1>6, <3>2
      <3> QED
        BY <2>1, <2>2, <3>3
    <2>3. CASE y # q
      BY <1>6, <2>1, <2>3
    <2> QED
      BY <2>2, <2>3
  <1>19. HeldOK'
    <2> SUFFICES ASSUME NEW y \in Loaded \ off, y \notin syncing.left \ {q} \/ Quiet(y)
                 PROVE  DOMAIN loaded'[y].held = Deepest(loaded'[y].tracked)
      BY <1>0, <1>7, <1>8, <1>14 DEF HeldOK, StageIs
    <2>1. CASE y = q
      BY <1>7, <2>1 DEF D
    <2>2. CASE y # q
      BY <1>0, <1>2, <1>6, <2>2 DEF HeldOK, StageIs
    <2> QED
      BY <2>1, <2>2
  <1> QED
    BY <1>1, <1>11, <1>12, <1>13, <1>15, <1>17, <1>18, <1>19 DEF IInv

\* The probe of a candidate.
LEMMA ProbeIs ==
    ASSUME NEW p \in Pools, NEW s \in States, Sound(s)
    PROVE  Probe(p, s) \in Entries /\ Probe(p, s).pool = p /\ Ranked(Probe(p, s), s)
           /\ Probe(p, s).liquidity = Liquidity(p, s)
  <1>1. Liquidity(p, s) \in Int
    BY LiquidityIs
  <1>2. s.tick \in Int \cup {None}
    <2>1. s.tick \in Ticks \cup {None} /\ Ticks \subseteq Int
      BY PoolsAssumption DEF States, PoolsAssumption
    <2> QED
      BY <2>1
  <1> DEFINE u == IF Kind[p] = "v2" THEN None ELSE IF s.tick = None THEN 0 ELSE s.tick
             n == Liquidity(p, s)
  <1>3. u \in Int \cup {None} /\ (Kind[p] # "v2" /\ s.tick # None => u = s.tick)
    BY <1>2
  <1>4. Probe(p, s) = [pool |-> p, liquidity |-> n, tick |-> u]
    BY DEF Probe
  <1>5. n \in Int /\ n = Liquidity(p, s)
    BY <1>1
  <1> HIDE DEF u, n
  <1> QED
    BY <1>3, <1>4, <1>5 DEF Entries, Ranked

\* A pair as a load makes it: of the candidates that answered, at block 0.
LEMMA LoadIs ==
    ASSUME ChainOK, NEW q \in Pairs, NEW S \in SUBSET {p \in Listed : PairOf[p] = q /\ chain[0][p].live}
    PROVE  LET found == SetToSeq(S)
               tracked == [i \in DOMAIN found |-> Probe(found[i], chain[0][found[i]])]
               z == [tracked |-> tracked, held |-> ReadSelected(Deepest(tracked), <<>>, 0)]
           IN  /\ Paired(q, z) /\ Deployed(z, chain[head]) /\ Numbers(z, chain[0])
               /\ DOMAIN z.held = Deepest(z.tracked)
               /\ \A p \in S : Tracks(z, p)
  <1> DEFINE found == SetToSeq(S)
             tracked == [i \in DOMAIN found |-> Probe(found[i], chain[0][found[i]])]
             D == Deepest(tracked)
             h == ReadSelected(D, <<>>, 0)
             z == [tracked |-> tracked, held |-> h]
  <1>0. head \in Nat /\ 0 \in 0..head /\ head \in 0..head
    BY DEF ChainOK, head
  <1>1. IsFiniteSet(S) /\ \A p \in S : p \in Pools /\ p \in Listed /\ PairOf[p] = q /\ chain[0][p].live
        /\ chain[0][p] \in States /\ Sound(chain[0][p])
    <2>1. IsFiniteSet(Listed) /\ S \in SUBSET Listed /\ Listed \subseteq Pools
      BY PoolsAssumption DEF PoolsAssumption
    <2>2. IsFiniteSet(S)
      BY <2>1, FS_Subset
    <2> QED
      BY <1>0, <2>1, <2>2 DEF ChainOK
  <1>2. /\ found \in Seq(S) /\ \A i, j \in DOMAIN found : found[i] = found[j] => i = j
        /\ \A p \in S : \E i \in DOMAIN found : found[i] = p
    BY <1>1, InSequence
  <1> HIDE DEF found
  <1>3. Len(found) \in Nat /\ DOMAIN found = 1..Len(found) /\ \A i \in DOMAIN found : found[i] \in S
    BY <1>2
  <1>4. \A i \in DOMAIN found : /\ tracked[i] \in Entries /\ tracked[i].pool = found[i]
                                /\ Ranked(tracked[i], chain[0][found[i]])
                                /\ tracked[i].liquidity = Liquidity(found[i], chain[0][found[i]])
    BY <1>1, <1>3, ProbeIs
  <1>5. DOMAIN tracked = DOMAIN found /\ tracked \in Seq(Entries)
    <2>1. DOMAIN tracked = 1..Len(found)
      BY <1>3
    <2>2. tracked = [i \in 1..Len(found) |-> tracked[i]]
      BY <1>3
    <2> HIDE DEF tracked
    <2>3. tracked \in [1..Len(found) -> Entries]
      BY <1>3, <1>4, <2>1, <2>2
    <2> QED
      BY <1>3, <2>1, <2>3
  <1> HIDE DEF tracked
  <1>6. D \in SUBSET Listed /\ \A p \in D : Liquidity(p, chain[0][p]) > 0 /\ p \in S
    <2> SUFFICES ASSUME NEW p \in D PROVE p \in Listed /\ p \in S /\ Liquidity(p, chain[0][p]) > 0
      OBVIOUS
    <2>1. PICK i \in DOMAIN tracked : tracked[i].pool = p /\ tracked[i].liquidity > 0
      BY DEF Deepest
    <2>2. i \in DOMAIN found /\ p = found[i] /\ tracked[i].liquidity = Liquidity(p, chain[0][p])
      BY <1>4, <1>5, <2>1
    <2> QED
      BY <1>1, <1>3, <2>1, <2>2
  <1>7. /\ DOMAIN h = D /\ h \in [D -> Reads] /\ \A p \in D : Fresh(p, h[p], chain[0][p])
    <2>1. \A p \in D : Kind[p] = "v2" \/ chain[0][p].tick # None
      BY <1>1, <1>6, FilledIsReadable
    <2>2. DOMAIN <<>> = {}
      OBVIOUS
    <2> DEFINE none == <<>>
    <2>3. DOMAIN none = {} /\ h = ReadSelected(D, none, 0)
      BY <2>2
    <2> HIDE DEF none, D, h
    <2> QED
      BY <1>0, <1>6, <2>1, <2>3, SelectedIs
  <1> HIDE DEF D, h
  <1>8. z \in PairStates /\ z.tracked = tracked /\ z.held = h
    BY <1>5, <1>6, <1>7, PairIs
  <1> HIDE DEF z
  <1>9. \A p \in S : Tracks(z, p)
    BY <1>2, <1>4, <1>5, <1>8 DEF Tracks
  <1>10. Paired(q, z)
    <2>1. Distinct(tracked)
      BY <1>2, <1>4, <1>5 DEF Distinct
    <2>2. \A i \in DOMAIN tracked : tracked[i].pool \in Listed /\ PairOf[tracked[i].pool] = q
      BY <1>1, <1>3, <1>4, <1>5
    <2> QED
      BY <1>6, <1>7, <1>8, <1>9, <2>1, <2>2 DEF Paired
  <1>11. Deployed(z, chain[head])
    <2>1. \A p \in S : chain[head][p].live
      BY <1>0, <1>1, StaysLive
    <2> QED
      BY <1>3, <1>4, <1>5, <1>8, <2>1 DEF Deployed
  <1>12. Numbers(z, chain[0])
    BY <1>4, <1>5, <1>7, <1>8 DEF Numbers
  <1>13. DOMAIN z.held = Deepest(z.tracked)
    BY <1>7, <1>8 DEF D
  <1> QED
    BY <1>9, <1>10, <1>11, <1>12, <1>13 DEF z, h, D, tracked, found

\* A load is exact at block 0, and off if the repository has gone on since.
LEMMA LoadEndsOK == ASSUME IInv, NEW q \in Pairs, LoadEnds(q) PROVE IInv'
  <1> DEFINE live == {p \in Listed : PairOf[p] = q /\ chain[0][p].live}
  <1>0. /\ ChainOK /\ SyncOK /\ LoadOK /\ PairsOK /\ Watches /\ ExactOK /\ LateOK /\ HeldOK
        /\ UNCHANGED <<chain, logs, syncedBlock, syncing>>
        /\ inFlight[q] > 0 /\ inFlight' = [inFlight EXCEPT ![q] = @ - 1]
    BY DEF IInv, LoadEnds, chainVars
  <1>1. PICK lost \in SUBSET live :
            /\ IF lost = {} THEN UNCHANGED faults ELSE Fault
            /\ LET found == SetToSeq(live \ lost)
                   tracked == [i \in DOMAIN found |-> Probe(found[i], chain[0][found[i]])]
               IN  loaded' = [loaded EXCEPT ![q] =
                       [tracked |-> tracked,
                        held |-> ReadSelected(Deepest(tracked), <<>>, 0)]]
            /\ off' = IF lost # {} \/ (syncedBlock > 0 /\ q \notin Loaded) THEN off \cup {q} ELSE off
    BY DEF LoadEnds
  <1> DEFINE S == live \ lost
             found == SetToSeq(S)
             tracked == [i \in DOMAIN found |-> Probe(found[i], chain[0][found[i]])]
             z == [tracked |-> tracked, held |-> ReadSelected(Deepest(tracked), <<>>, 0)]
  <1>2. /\ Paired(q, z) /\ Deployed(z, chain[head]) /\ Numbers(z, chain[0])
        /\ DOMAIN z.held = Deepest(z.tracked)
        /\ \A p \in S : Tracks(z, p)
    <2>1. S \in SUBSET {p \in Listed : PairOf[p] = q /\ chain[0][p].live}
      OBVIOUS
    <2> HIDE DEF S
    <2> QED
      BY <1>0, <2>1, LoadIs
  <1>3. loaded' = [loaded EXCEPT ![q] = z]
    BY <1>1
  <1> HIDE DEF z
  <1>4. lost = {} => Complete(q, z, chain[0])
    BY <1>2 DEF Complete
  <1>5. loaded[q] = None /\ q \notin Loaded /\ inFlight[q] = 1
    BY <1>0 DEF LoadOK, Loaded
  <1>6. /\ z \in PairStates /\ loaded' \in [Pairs -> PairStates \cup {None}]
        /\ loaded'[q] = z /\ \A y \in Pairs \ {q} : loaded'[y] = loaded[y]
        /\ Loaded' = Loaded \cup {q}
    <2>1. z \in PairStates /\ z # None
      BY <1>2, NoneAssumption DEF Paired, NoneAssumption
    <2>2. loaded \in [Pairs -> PairStates \cup {None}]
      BY <1>0 DEF LoadOK
    <2>3. loaded'[q] = z /\ \A y \in Pairs \ {q} : loaded'[y] = loaded[y]
      BY <1>3, <2>2
    <2> QED
      BY <1>3, <2>1, <2>2, <2>3 DEF Loaded
  <1>7. /\ off \subseteq off' /\ off' \subseteq Pairs
        /\ q \notin off' => syncedBlock = 0 /\ lost = {}
    BY <1>0, <1>1, <1>5 DEF LoadOK, SyncOK
  <1>8. ChainOK' /\ head' = head
    BY <1>0, ChainStays DEF chainVars
  <1>9. SyncOK'
    BY <1>0, <1>6, <1>8 DEF SyncOK
  <1>10. LoadOK'
    <2>1. inFlight' \in [Pairs -> {0, 1}] /\ \A y \in Pairs : inFlight'[y] = 1 => inFlight[y] = 1 /\ y # q
      BY <1>0, <1>5 DEF LoadOK
    <2>2. \A y \in Pairs : inFlight'[y] = 1 => loaded'[y] = None
      BY <1>0, <1>6, <2>1 DEF LoadOK
    <2>3. faults' \in Nat
      BY <1>0, <1>1 DEF LoadOK, Fault
    <2> QED
      BY <1>6, <1>7, <2>1, <2>2, <2>3 DEF LoadOK
  <1>11. Loaded \subseteq Pairs /\ \A y \in Loaded : y # q /\ loaded'[y] = loaded[y]
    BY <1>5, <1>6 DEF Loaded
  <1>12. PairsOK'
    BY <1>0, <1>2, <1>6, <1>8, <1>11 DEF PairsOK
  <1>13. syncing # None => syncing.of \subseteq Loaded /\ syncing.left \subseteq Loaded
    BY <1>0 DEF SyncOK
  <1>14. Watches'
    BY <1>0, <1>7, <1>11, <1>13 DEF Watches, StageIs
  <1>15. q \notin off' => ExactAt(q, z, chain[syncedBlock])
    BY <1>2, <1>4, <1>7 DEF ExactAt
  <1>16. At' = At /\ (~StageIs("reselect") => At = syncedBlock)
    BY <1>0 DEF At, StageIs
  <1>17. \A y \in Exact' : \/ y \in Exact /\ y \in Loaded
                           \/ y = q /\ q \notin off' /\ ~StageIs("reselect")
    <2>1. CASE syncing # None /\ syncing.stage = "reselect"
      BY <1>0, <1>7, <1>13, <2>1 DEF Exact
    <2>2. CASE ~(syncing # None /\ syncing.stage = "reselect")
      BY <1>0, <1>6, <1>7, <2>2 DEF Exact, StageIs
    <2> QED
      BY <2>1, <2>2
  <1>18. ExactOK'
    <2> SUFFICES ASSUME NEW y \in Exact' PROVE ExactAt(y, loaded'[y], chain[At])
      BY <1>0, <1>16 DEF ExactOK
    <2>1. CASE y \in Exact /\ y \in Loaded
      BY <1>0, <1>11, <2>1 DEF ExactOK
    <2>2. CASE y = q /\ q \notin off' /\ ~StageIs("reselect")
      BY <1>6, <1>15, <1>16, <2>2
    <2> QED
      BY <1>17, <2>1, <2>2
  <1>19. LateOK'
    <2> SUFFICES ASSUME StageIs("reselect"), NEW y \in Loaded' \ (off' \cup syncing.of), Quiet(y)
                 PROVE  ExactAt(y, loaded'[y], chain[syncedBlock])
      BY <1>0 DEF LateOK, StageIs, Quiet
    <2>1. CASE y \in Loaded
      BY <1>0, <1>7, <1>11, <2>1 DEF LateOK
    <2>2. CASE y = q
      BY <1>6, <1>15, <2>2
    <2> QED
      BY <1>6, <2>1, <2>2
  <1>20. HeldOK'
    <2> SUFFICES ASSUME NEW y \in Loaded' \ off', StageIs("reselect") => y \notin syncing.left \/ Quiet(y)
                 PROVE  DOMAIN loaded'[y].held = Deepest(loaded'[y].tracked)
      BY <1>0 DEF HeldOK, StageIs, Quiet
    <2>1. CASE y \in Loaded
      BY <1>0, <1>7, <1>11, <2>1 DEF HeldOK
    <2>2. CASE y = q
      BY <1>2, <1>6, <2>2
    <2> QED
      BY <1>6, <2>1, <2>2
  <1> QED
    BY <1>8, <1>9, <1>10, <1>12, <1>14, <1>18, <1>19, <1>20 DEF IInv

-----------------------------------------------------------------------------
(* What the repository keeps.                                              *)

\* Every step, of the replays, the loads and the chain, keeps the invariant.
THEOREM PoolsInvariant == Spec => []IInv
  <1>1. Init => IInv
    BY InitOK
  <1>2. IInv /\ [Next]_vars => IInv'
    <2> SUFFICES ASSUME IInv, [Next]_vars PROVE IInv'
      OBVIOUS
    <2>1. CASE Block
      BY <2>1, BlockOK
    <2>2. ASSUME NEW q \in Pairs, Ensure(q) PROVE IInv'
      BY <2>2, EnsureOK
    <2>3. ASSUME NEW q \in Pairs, LoadEnds(q) PROVE IInv'
      BY <2>3, LoadEndsOK
    <2>4. ASSUME NEW q \in Pairs, LoadFails(q) PROVE IInv'
      BY <2>4, LoadFailsOK
    <2>5. ASSUME NEW q \in Pairs, ReselectFails(q) PROVE IInv'
      BY <2>5, ReselectFailsOK
    <2>6. ASSUME NEW to \in 0..head, Sync(to) PROVE IInv'
      BY <2>6, SyncStepOK
    <2>7. CASE SyncStep
      <3>1. CASE CreatedRead
        BY <3>1, CreatedReadOK
      <3>2. CASE LogsRead
        BY <3>2, LogsReadOK
      <3>3. CASE Replayed
        BY <3>3, ReplayedOK
      <3>4. ASSUME NEW q \in Pairs, Reselect(q) PROVE IInv'
        BY <3>4, ReselectOK
      <3> QED
        BY <2>7, <3>1, <3>2, <3>3, <3>4 DEF SyncStep
    <2>8. CASE LogsFail
      BY <2>8, LogsFailOK
    <2>9. CASE UNCHANGED vars
      <3>1. UNCHANGED <<chainVars, loaded, inFlight, syncedBlock, syncing, off, faults>>
        BY <2>9 DEF vars
      <3>2. LoadOK'
        BY <3>1 DEF IInv, LoadOK
      <3> QED
        BY <3>1, <3>2, SameOK
    <2>10. CASE Done
      BY <2>9, <2>10 DEF Done
    <2> QED
      BY <2>1, <2>2, <2>3, <2>4, <2>5, <2>6, <2>7, <2>8, <2>9, <2>10 DEF Next
  <1> QED
    BY <1>1, <1>2, PTL DEF Spec

\* A pair that should be exact is, at the block its reads are at.
LEMMA ExactIs ==
    ASSUME IInv, NEW q \in Exact
    PROVE  /\ q \in Loaded \ off /\ q \in Pairs /\ At \in 0..head
           /\ ExactAt(q, loaded[q], chain[At]) /\ Paired(q, loaded[q]) /\ Deployed(loaded[q], chain[head])
           /\ loaded[q].tracked \in Seq(Entries)
           /\ \A p \in Pools : /\ chain[At][p] \in States /\ Sound(chain[At][p])
                               /\ Liquidity(p, chain[At][p]) \in Int
  <1>0. ChainOK /\ SyncOK /\ PairsOK /\ ExactOK
    BY DEF IInv
  <1>1. q \in Loaded \ off /\ q \in Pairs
    BY <1>0 DEF Exact, SyncOK, Loaded
  <1>2. At \in 0..head
    BY <1>0 DEF At, SyncOK, Replays, ChainOK, head
  <1>3. Paired(q, loaded[q]) /\ Deployed(loaded[q], chain[head]) /\ ExactAt(q, loaded[q], chain[At])
    BY <1>0, <1>1 DEF PairsOK, ExactOK
  <1>4. loaded[q].tracked \in Seq(Entries)
    BY <1>3, PairHas DEF Paired
  <1>5. \A p \in Pools : chain[At][p] \in States /\ Sound(chain[At][p]) /\ Liquidity(p, chain[At][p]) \in Int
    BY <1>0, <1>2, LiquidityIs DEF ChainOK
  <1> QED
    BY <1>1, <1>2, <1>3, <1>4, <1>5

\* A pool held in full is what a fresh read would return, whatever the replays
\* went over and whatever failed: applyPoolLog keeps the reads of loadPair.
THEOREM HeldAreExact == Spec => []HeldIsExact
  <1>1. IInv => HeldIsExact
    <2> SUFFICES ASSUME IInv, NEW q \in Exact, NEW p \in DOMAIN loaded[q].held
                 PROVE  Fresh(p, loaded[q].held[p], chain[At][p])
      BY DEF HeldIsExact, Fresh
    <2> QED
      BY ExactIs DEF ExactAt, Numbers
  <1> QED
    BY <1>1, PoolsInvariant, PTL

\* Every listed pool of a pair is tracked from the block of its creation, once,
\* and ranked on what the chain has in it.
THEOREM TrackedAreExact == Spec => []TrackedIsExact
  <1>1. IInv => TrackedIsExact
    <2> SUFFICES ASSUME IInv, NEW q \in Exact
                 PROVE  LET entries == ToSet(loaded[q].tracked)
                        IN  /\ {p \in Live(chain[At]) : PairOf[p] = q} \subseteq {e.pool : e \in entries}
                            /\ Cardinality({e.pool : e \in entries}) = Len(loaded[q].tracked)
                            /\ \A e \in entries : e.pool \in Live(chain[head])
                            /\ \A e \in entries : e.liquidity = Liquidity(e.pool, chain[At][e.pool])
      BY DEF TrackedIsExact
    <2> DEFINE t == loaded[q].tracked
               pools == {e.pool : e \in ToSet(t)}
    <2>1. /\ ExactAt(q, loaded[q], chain[At]) /\ Paired(q, loaded[q]) /\ Deployed(loaded[q], chain[head])
          /\ t \in Seq(Entries)
      BY ExactIs
    <2>2. Len(t) \in Nat /\ DOMAIN t = 1..Len(t)
      BY <2>1, EntriesAre
    <2>3. /\ \A i \in DOMAIN t : /\ t[i].pool \in Live(chain[head])
                                 /\ t[i].liquidity = Liquidity(t[i].pool, chain[At][t[i].pool])
          /\ \A p \in Live(chain[At]) : PairOf[p] = q => \E i \in DOMAIN t : t[i].pool = p
          /\ \A i, j \in DOMAIN t : t[i].pool = t[j].pool => i = j
      <3>1. \A i \in DOMAIN t : t[i].pool \in Live(chain[head])
        BY <2>1 DEF Paired, Deployed, Live
      <3>2. \A i \in DOMAIN t : t[i].liquidity = Liquidity(t[i].pool, chain[At][t[i].pool])
        BY <2>1 DEF ExactAt, Numbers, Ranked
      <3>3. \A p \in Live(chain[At]) : PairOf[p] = q => \E i \in DOMAIN t : t[i].pool = p
        BY <2>1 DEF ExactAt, Complete, Live, Tracks
      <3>4. \A i, j \in DOMAIN t : t[i].pool = t[j].pool => i = j
        BY <2>1 DEF Paired, Distinct
      <3> QED
        BY <3>1, <3>2, <3>3, <3>4
    <2> HIDE DEF t
    <2>4. ToSet(t) = {t[i] : i \in DOMAIN t}
      BY DEF ToSet
    <2>5. pools = {t[i].pool : i \in DOMAIN t}
      BY <2>4
    <2> HIDE DEF pools
    <2>6. Cardinality(pools) = Len(t)
      <3> DEFINE f == [i \in 1..Len(t) |-> t[i].pool]
      <3>1. f \in Bijection(1..Len(t), pools)
        <4>1. \A i \in 1..Len(t) : f[i] = t[i].pool /\ t[i].pool \in pools
          BY <2>2, <2>5
        <4>2. f \in [1..Len(t) -> pools]
          BY <4>1
        <4>3. \A i, j \in 1..Len(t) : f[i] = f[j] => i = j
          BY <2>2, <2>3, <4>1
        <4>4. \A p \in pools : \E i \in 1..Len(t) : f[i] = p
          BY <2>2, <2>5, <4>1
        <4> HIDE DEF f
        <4> QED
          BY <4>2, <4>3, <4>4 DEF Bijection, Injection, Surjection, IsInjective
      <3>2. IsFiniteSet(1..Len(t)) /\ Cardinality(1..Len(t)) = Len(t)
        <4> DEFINE n == Len(t)
        <4>1. n \in Nat
          BY <2>2
        <4> HIDE DEF n
        <4>2. IsFiniteSet(1..n) /\ Cardinality(1..n) = n
          BY <4>1, FS_Interval
        <4> QED
          BY <4>2 DEF n
      <3>3. ExistsBijection(1..Len(t), pools)
        BY <3>1 DEF ExistsBijection
      <3> QED
        BY <3>2, <3>3, FS_Bijection
    <2>7. {p \in Live(chain[At]) : PairOf[p] = q} \subseteq pools
      BY <2>3, <2>5
    <2>8. \A e \in ToSet(t) : e.pool \in Live(chain[head]) /\ e.liquidity = Liquidity(e.pool, chain[At][e.pool])
      BY <2>3, <2>4
    <2> QED
      BY <2>6, <2>7, <2>8 DEF t, pools
  <1> QED
    BY <1>1, PoolsInvariant, PTL

\* The pools quoted from are the deepest of the pair, however the ranking moved
\* while a replay ran: reselect reads what the logs promoted.
THEOREM HeldAreDeepest == Spec => []DeepestAreHeld
  <1>1. IInv => DeepestAreHeld
    <2> SUFFICES ASSUME IInv, NEW q \in Exact,
                        syncing = None \/ syncing.stage # "reselect" \/ q \notin syncing.left
                 PROVE  LET depth(p) == Liquidity(p, chain[At][p])
                            filled == {p \in Live(chain[At]) : PairOf[p] = q /\ depth(p) > 0}
                            held == DOMAIN loaded[q].held
                        IN  /\ held \subseteq filled
                            /\ Cardinality(held) = Min({PoolsPerPair, Cardinality(filled)})
                            /\ \A p \in held : \A z \in filled \ held : depth(p) >= depth(z)
      BY DEF DeepestAreHeld
    <2> DEFINE t == loaded[q].tracked
               depth(p) == Liquidity(p, chain[At][p])
               filled == {p \in Live(chain[At]) : PairOf[p] = q /\ depth(p) > 0}
               held == DOMAIN loaded[q].held
               ranked == {t[i].pool : i \in Filled(t)}
    <2>1. /\ q \in Loaded \ off /\ ExactAt(q, loaded[q], chain[At]) /\ Paired(q, loaded[q])
          /\ t \in Seq(Entries) /\ Distinct(t)
          /\ \A p \in Pools : chain[At][p] \in States /\ Sound(chain[At][p])
      BY ExactIs DEF Paired
    <2>2. held = Deepest(t)
      BY <2>1 DEF IInv, HeldOK, StageIs
    <2>3. \A i \in DOMAIN t : /\ t[i].liquidity = depth(t[i].pool) /\ t[i].pool \in Listed
                              /\ PairOf[t[i].pool] = q /\ t[i].pool \in Pools
      BY <2>1, PoolsAssumption DEF ExactAt, Numbers, Ranked, Paired, PoolsAssumption
    <2>4. ranked = filled
      <3>1. ASSUME NEW p \in ranked PROVE p \in filled
        <4>1. PICK i \in DOMAIN t : p = t[i].pool /\ t[i].liquidity > 0
          BY <3>1 DEF Filled
        <4>2. p \in Pools /\ p \in Listed /\ PairOf[p] = q /\ depth(p) > 0
          BY <2>3, <4>1
        <4>3. chain[At][p].live
          BY <2>1, <4>2, FilledIsReadable
        <4> QED
          BY <4>2, <4>3 DEF Live
      <3>2. ASSUME NEW p \in filled PROVE p \in ranked
        <4>1. PICK i \in DOMAIN t : t[i].pool = p
          BY <2>1, <3>2 DEF ExactAt, Complete, Live, Tracks
        <4> QED
          BY <2>3, <3>2, <4>1 DEF Filled
      <3> QED
        BY <3>1, <3>2
    <2>5. /\ held \subseteq ranked
          /\ Cardinality(held) = Min({PoolsPerPair, Cardinality(ranked)})
          /\ \A i \in Filled(t) : t[i].pool \notin held =>
                 \A j \in Filled(t) : t[j].pool \in held => t[j].liquidity >= t[i].liquidity
      <3> HIDE DEF t, held
      <3> QED
        BY <2>1, <2>2, DeepestIs
    <2>6. ASSUME NEW p \in held, NEW z \in filled \ held PROVE depth(p) >= depth(z)
      <3>1. PICK j \in Filled(t) : t[j].pool = p
        BY <2>5
      <3>2. PICK i \in Filled(t) : t[i].pool = z
        BY <2>4
      <3>3. t[j].liquidity >= t[i].liquidity /\ j \in DOMAIN t /\ i \in DOMAIN t
        BY <2>5, <2>6, <3>1, <3>2 DEF Filled
      <3> QED
        BY <2>3, <3>1, <3>2, <3>3
    <2> HIDE DEF t, ranked, filled, held, depth
    <2>7. held \subseteq filled /\ Cardinality(held) = Min({PoolsPerPair, Cardinality(filled)})
      BY <2>4, <2>5
    <2> QED
      BY <2>6, <2>7 DEF filled, held, depth
  <1> QED
    BY <1>1, PoolsInvariant, PTL

=============================================================================
