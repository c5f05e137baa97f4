-------------------------------- MODULE Pools --------------------------------
(***************************************************************************)
(* chain/pool-repository.ts with what it calls of chain/discovery.ts and   *)
(* chain/pools.ts, for one EVM chain.                                      *)
(*                                                                         *)
(* A pair is loaded at the block the process started at, and brought       *)
(* forward by replaying the events of its pools.  The chain adds blocks    *)
(* of one event each; a step of the repository is the code between two     *)
(* awaits.  Prices are ticks; a v2 pool is the smaller of its reserves.    *)
(***************************************************************************)
EXTENDS Integers, SequencesExt, FiniteSetsExt

CONSTANTS
    Pairs,
    Pools,          \* pools a factory has deployed or may yet
    PairOf,
    Kind,           \* "v2" or "v3"
    Listed,         \* pools candidatePools derives: the fee tiers of the registry
    Ticks,
    InitialTicks,   \* those a pool is initialised at
    Ranges,         \* a position's <<tickLower, tickUpper>>
    Window,         \* the ticks a fresh read covers around the current one
    Reserves,
    PoolsPerPair,
    Opening,        \* every pool at block 0, the block the process starts at
    None,
    MaxBlock,       \* bound on blocks
    MaxPositions,   \* bound on the positions of one range
    MaxFaults       \* bound on RPC calls that throw, lose an answer or answer late

ASSUME PoolsAssumption ==
    /\ PairOf \in [Pools -> Pairs] /\ Kind \in [Pools -> {"v2", "v3"}]
    /\ Listed \subseteq Pools
    /\ InitialTicks \subseteq Ticks /\ Ticks \subseteq Int /\ Ranges \subseteq Ticks \X Ticks
    /\ \A r \in Ranges : r[1] < r[2]
    /\ Window \in [Ticks -> SUBSET Ticks] /\ \A t \in Ticks : t \in Window[t]
    /\ Reserves \subseteq Nat
    /\ PoolsPerPair \in Nat \ {0}
    /\ {MaxBlock, MaxPositions, MaxFaults} \subseteq Nat
    /\ IsFiniteSet(Listed) /\ IsFiniteSet(Ranges)

\* A pool on chain, of either kind.
States == [live : BOOLEAN, tick : Ticks \cup {None}, positions : [Ranges -> Nat], reserve : Nat]

\* Nothing is in a pool before it is deployed and, of v3, initialised.
Sound(s) ==
    /\ ~s.live => s.tick = None /\ s.reserve = 0
    /\ s.tick = None => \A r \in Ranges : s.positions[r] = 0

\* What the repository keeps of a pool it watches, of one it quotes from, of a
\* pair, and of a replay.
Entries == [pool : Pools, liquidity : Int, tick : Int \cup {None}]
Reads == [liquidity : Int, tick : Int \cup {None}, net : [Ticks -> Int], seen : SUBSET Ticks]
PairStates == [tracked : Seq(Entries), held : UNION {[D -> Reads] : D \in SUBSET Listed}]
Replays == [stage : {"created", "logs", "reselect"}, to : Nat, of : SUBSET Pairs, left : SUBSET Pairs]

ASSUME NoneAssumption == None \notin Int /\ None \notin PairStates /\ None \notin Replays
ASSUME OpeningAssumption == Opening \in [Pools -> States] /\ \A p \in Pools : Sound(Opening[p])

VARIABLES
    chain,          \* chain[b][p]: pool p as block b leaves it
    logs,           \* the event of each block
    loaded,
    inFlight,       \* loads of each pair under way
    syncedBlock,
    syncing,        \* the replay under way: its range, stage and pairs still to reselect
    off,            \* history: pairs known not to be what a fresh read would return
    faults

chainVars == <<chain, logs>>
vars == <<chainVars, loaded, inFlight, syncedBlock, syncing, off, faults>>

head == Len(logs)
Loaded == {q \in Pairs : loaded[q] # None}

Fault == faults < MaxFaults /\ faults' = faults + 1

-----------------------------------------------------------------------------
(* Pools on chain, and what reading one returns.                           *)

In(t, r) == r[1] <= t /\ t < r[2]

\* What the chain calls `liquidity` when the price is at tick t.
LiquidityAt(s, t) ==
    IF t = None THEN 0
    ELSE SumFunctionOnSet(s.positions, {r \in Ranges : In(t, r)})

Liquidity(p, s) == IF Kind[p] = "v2" THEN s.reserve ELSE LiquidityAt(s, s.tick)

LiquidityNet(s, i) ==
    SumFunctionOnSet(s.positions, {r \in Ranges : r[1] = i})
    - SumFunctionOnSet(s.positions, {r \in Ranges : r[2] = i})

Event(name, p) == [name |-> name, pool |-> p, tick |-> None, range |-> None, amount |-> 0]

\* The events a pool in state s can emit, each with the state it leaves.  Nobody
\* asks for those of a pool that is not listed.
EventsOf(p, s) ==
    IF ~s.live
    THEN {<<Event("Created", p), [s EXCEPT !.live = TRUE]>>}
    ELSE IF p \notin Listed THEN {}
    ELSE IF Kind[p] = "v2"
    THEN {<<[Event("Sync", p) EXCEPT !.amount = n], [s EXCEPT !.reserve = n]>>
              : n \in Reserves \ {s.reserve}}
    ELSE IF s.tick = None
    THEN {<<[Event("Initialize", p) EXCEPT !.tick = t], [s EXCEPT !.tick = t]>> : t \in InitialTicks}
    ELSE {<<[Event("Swap", p) EXCEPT !.tick = t, !.amount = LiquidityAt(s, t)],
            [s EXCEPT !.tick = t]>>
              : t \in {t \in Ticks \ {s.tick} : LiquidityAt(s, s.tick) > 0}}
         \cup {<<[Event("Mint", p) EXCEPT !.range = r, !.amount = 1],
                 [s EXCEPT !.positions[r] = @ + 1]>>
              : r \in {r \in Ranges : s.positions[r] < MaxPositions}}
         \cup {<<[Event("Burn", p) EXCEPT !.range = r, !.amount = 1],
                 [s EXCEPT !.positions[r] = @ - 1]>>
              : r \in {r \in Ranges : s.positions[r] > 0}}

\* discoverPools: the cheap number, and the tick.  A pool not initialised has
\* slot0's zero.
Probe(p, s) ==
    [pool |-> p, liquidity |-> Liquidity(p, s), tick |-> IF Kind[p] = "v2" THEN None
                                                        ELSE IF s.tick = None THEN 0 ELSE s.tick]

\* readConstantProductPool, readConcentratedPool: the whole state, with the
\* initialised ticks inside the window (`seen` remembers which those are).
FullRead(p, s) ==
    IF Kind[p] = "v2"
    THEN [liquidity |-> s.reserve, tick |-> None, net |-> [i \in Ticks |-> 0], seen |-> {}]
    ELSE [liquidity |-> Liquidity(p, s), tick |-> s.tick,
          net |-> [i \in Ticks |-> IF i \in Window[s.tick] THEN LiquidityNet(s, i) ELSE 0],
          seen |-> Window[s.tick]]

\* A pool not deployed or not initialised fails the read or its validation.
Readable(p, s) == s.live /\ (Kind[p] = "v2" \/ s.tick # None)

-----------------------------------------------------------------------------
(* The repository's helpers.                                               *)

Before(tracked, j, i) ==
    /\ tracked[j].liquidity > 0
    /\ \/ tracked[j].liquidity > tracked[i].liquidity
       \/ tracked[j].liquidity = tracked[i].liquidity /\ j < i

Deepest(tracked) ==
    {tracked[i].pool : i \in {i \in DOMAIN tracked :
        /\ tracked[i].liquidity > 0
        /\ Cardinality({j \in DOMAIN tracked : Before(tracked, j, i)}) < PoolsPerPair}}

\* readSelected: what is held and still selected is kept as it is.
ReadSelected(selected, keep, b) ==
    [p \in selected |-> IF p \in DOMAIN keep THEN keep[p] ELSE FullRead(p, chain[b][p])]

Promoted(pair) == Deepest(pair.tracked) \ DOMAIN pair.held

Tracks(pair, p) == \E i \in DOMAIN pair.tracked : pair.tracked[i].pool = p

\* A pool created for a pair that is loaded, unless no candidate has its address.
Track(pair, q, p) ==
    IF Tracks(pair, p) \/ PairOf[p] # q \/ p \notin Listed THEN pair
    ELSE [pair EXCEPT !.tracked = Append(@, [pool |-> p, liquidity |-> 0, tick |-> None])]

Delta(log) == IF log.name = "Mint" THEN log.amount ELSE - log.amount
InRange(tick, log) == tick # None /\ In(tick, log.range)

\* A slip of ApplyToTracked: a mint counts wherever its range is.
ApplyToTrackedAnywhere(pool, log) ==
    CASE log.name = "Sync"       -> [pool EXCEPT !.liquidity = log.amount]
      [] log.name = "Swap"       -> [pool EXCEPT !.liquidity = log.amount, !.tick = log.tick]
      [] log.name = "Initialize" -> [pool EXCEPT !.tick = log.tick]
      [] OTHER                   -> [pool EXCEPT !.liquidity = @ + Delta(log)]

ApplyToTracked(pool, log) ==
    CASE log.name = "Sync"       -> [pool EXCEPT !.liquidity = log.amount]
      [] log.name = "Swap"       -> [pool EXCEPT !.liquidity = log.amount, !.tick = log.tick]
      [] log.name = "Initialize" -> [pool EXCEPT !.tick = log.tick]
      [] OTHER                   -> IF InRange(pool.tick, log)
                                    THEN [pool EXCEPT !.liquidity = @ + Delta(log)] ELSE pool

NetAfter(net, log) ==
    [net EXCEPT ![log.range[1]] = @ + Delta(log), ![log.range[2]] = @ - Delta(log)]

\* applyToConcentrated, and the reserves applyPoolLog sets of a v2 pool.  A tick
\* outside the window is listed by the first event that touches it.
ApplyToHeld(pool, log) ==
    CASE log.name = "Sync"       -> [pool EXCEPT !.liquidity = log.amount]
      [] log.name = "Swap"       -> [pool EXCEPT !.liquidity = log.amount, !.tick = log.tick]
      [] log.name = "Initialize" -> [pool EXCEPT !.tick = log.tick]
      [] OTHER -> [pool EXCEPT
             !.net = NetAfter(@, log),
             !.liquidity = IF InRange(pool.tick, log) THEN @ + Delta(log) ELSE @]

ApplyPoolLog(pair, log) ==
    [tracked |-> [i \in DOMAIN pair.tracked |->
         IF pair.tracked[i].pool = log.pool
         THEN ApplyToTracked(pair.tracked[i], log) ELSE pair.tracked[i]],
     held |-> [p \in DOMAIN pair.held |->
         IF p = log.pool THEN ApplyToHeld(pair.held[p], log) ELSE pair.held[p]]]

Watched(pairs) ==
    UNION {{loaded[q].tracked[i].pool : i \in DOMAIN loaded[q].tracked} : q \in pairs}

\* What a replay makes of one log of its range: the factories' logs bring pools
\* to track, the logs of the pools watched are applied where they are tracked.
Taken(q, pair, log) ==
    IF syncing.stage = "created"
    THEN IF log.name = "Created" THEN Track(pair, q, log.pool) ELSE pair
    ELSE IF log.name # "Created" /\ log.pool \in Watched(syncing.of) /\ Tracks(pair, log.pool)
         THEN ApplyPoolLog(pair, log) ELSE pair

\* A pair after every log of the range, in order.
Replay(q) ==
    LET after[b \in syncedBlock..syncing.to] ==
            IF b = syncedBlock THEN loaded[q] ELSE Taken(q, after[b - 1], logs[b])
    IN  after[syncing.to]

-----------------------------------------------------------------------------
(* Loading a pair.                                                         *)

Init ==
    /\ chain = [b \in {0} |-> Opening]
    /\ logs = <<>>
    /\ loaded = [q \in Pairs |-> None]
    /\ inFlight = [q \in Pairs |-> 0]
    /\ syncedBlock = 0
    /\ syncing = None
    /\ off = {}
    /\ faults = 0

Block ==
    /\ head < MaxBlock
    /\ \E p \in Pools : \E e \in EventsOf(p, chain[head][p]) :
           /\ logs' = Append(logs, e[1])
           /\ chain' = [b \in 0..(head + 1) |->
                           IF b <= head THEN chain[b] ELSE [chain[head] EXCEPT ![p] = e[2]]]
    /\ UNCHANGED <<loaded, inFlight, syncedBlock, syncing, off, faults>>

\* A slip of Ensure: a load under way is not joined.
EnsureAlways(q) ==
    /\ loaded[q] = None /\ inFlight[q] < 2
    /\ inFlight' = [inFlight EXCEPT ![q] = @ + 1]
    /\ UNCHANGED <<chainVars, loaded, syncedBlock, syncing, off, faults>>

\* A quote needs a pair that is neither loaded nor being loaded.
Ensure(q) ==
    /\ loaded[q] = None /\ inFlight[q] = 0
    /\ inFlight' = [inFlight EXCEPT ![q] = @ + 1]
    /\ UNCHANGED <<chainVars, loaded, syncedBlock, syncing, off, faults>>

\* load(): probe the candidates and read the deepest, all at the block the
\* process started at, whatever the repository is synced to by now.  A probe
\* lost on the way is a pool that does not exist.
LoadEnds(q) ==
    /\ inFlight[q] > 0
    /\ LET live == {p \in Listed : PairOf[p] = q /\ chain[0][p].live}
       IN  \E lost \in SUBSET live :
              /\ IF lost = {} THEN UNCHANGED faults ELSE Fault
              /\ LET found == SetToSeq(live \ lost)
                     tracked == [i \in DOMAIN found |-> Probe(found[i], chain[0][found[i]])]
                 IN  loaded' = [loaded EXCEPT ![q] =
                         [tracked |-> tracked,
                          held |-> ReadSelected(Deepest(tracked), <<>>, 0)]]
              /\ off' = IF lost # {} \/ (syncedBlock > 0 /\ q \notin Loaded) THEN off \cup {q} ELSE off
    /\ inFlight' = [inFlight EXCEPT ![q] = @ - 1]
    /\ UNCHANGED <<chainVars, syncedBlock, syncing>>

\* The rpc is unreachable: a later quote starts over.
LoadFails(q) ==
    /\ inFlight[q] > 0 /\ Fault
    /\ inFlight' = [inFlight EXCEPT ![q] = @ - 1]
    /\ UNCHANGED <<chainVars, loaded, syncedBlock, syncing, off>>

-----------------------------------------------------------------------------
(* Replaying the chain's events.                                           *)

\* sync(): a call while a replay runs joins it, and a block already replayed, or
\* nothing loaded, is a replay of nothing.  Polls answered out of order make `to`
\* an earlier block.
Sync(to) ==
    /\ syncing = None
    /\ to > syncedBlock /\ Loaded # {}
    /\ IF to = head THEN UNCHANGED faults ELSE Fault
    /\ syncing' = [stage |-> "created", to |-> to, of |-> {}, left |-> {}]
    /\ UNCHANGED <<chainVars, loaded, inFlight, syncedBlock, off>>

\* The factories' logs are in: new pools are tracked, and the addresses to ask
\* the pool logs of are those tracked now.
CreatedRead ==
    /\ syncing # None /\ syncing.stage = "created"
    /\ loaded' = [q \in Pairs |-> IF loaded[q] = None THEN None ELSE Replay(q)]
    /\ syncing' = [syncing EXCEPT !.stage = "logs", !.of = Loaded]
    /\ UNCHANGED <<chainVars, inFlight, syncedBlock, off, faults>>

\* The pool logs are in, and applied in order.
LogsRead ==
    /\ syncing # None /\ syncing.stage = "logs"
    /\ loaded' = [q \in Pairs |-> IF loaded[q] = None THEN None ELSE Replay(q)]
    /\ syncing' = [syncing EXCEPT !.stage = "reselect", !.left = Loaded]
    /\ UNCHANGED <<chainVars, inFlight, syncedBlock, off, faults>>

\* A slip of Reselect: what is held stays held.
ReselectKeeping(q) ==
    /\ syncing # None /\ q \in syncing.left
    /\ \A p \in Promoted(loaded[q]) : Readable(p, chain[syncing.to][p])
    /\ loaded' = [loaded EXCEPT ![q].held =
           ReadSelected(Deepest(loaded[q].tracked) \cup DOMAIN @, @, syncing.to)]
    /\ syncing' = [syncing EXCEPT !.left = @ \ {q}]
    /\ UNCHANGED <<chainVars, inFlight, syncedBlock, off, faults>>

\* reselect(): the promoted pools are read at the block the logs end with.
Reselect(q) ==
    /\ syncing # None /\ q \in syncing.left
    /\ \A p \in Promoted(loaded[q]) : Readable(p, chain[syncing.to][p])
    /\ loaded' = [loaded EXCEPT ![q].held = ReadSelected(Deepest(loaded[q].tracked), @, syncing.to)]
    /\ syncing' = [syncing EXCEPT !.left = @ \ {q}]
    /\ UNCHANGED <<chainVars, inFlight, syncedBlock, off, faults>>

\* The whole repository is at the new block.  Pairs that loaded meanwhile are not.
Replayed ==
    /\ syncing # None /\ syncing.stage = "reselect" /\ syncing.left = {}
    /\ syncedBlock' = syncing.to
    /\ syncing' = None
    /\ off' = off \cup (Loaded \ syncing.of)
    /\ UNCHANGED <<chainVars, loaded, inFlight, faults>>

\* A slip of LogsFail: the promise that failed goes on being joined.
LogsFailJoined ==
    /\ syncing # None /\ syncing.stage \in {"created", "logs"} /\ Fault
    /\ syncing' = [syncing EXCEPT !.stage = "failed"]
    /\ UNCHANGED <<chainVars, loaded, inFlight, syncedBlock, off>>

\* getLogs throws: nothing but new pools was taken in, and the next sync asks again.
LogsFail ==
    /\ syncing # None /\ syncing.stage \in {"created", "logs"} /\ Fault
    /\ syncing' = None
    /\ UNCHANGED <<chainVars, loaded, inFlight, syncedBlock, off>>

\* A promoted pool cannot be read: the logs stay applied and syncedBlock stays
\* behind them, so the next sync applies them again.
ReselectFails(q) ==
    /\ syncing # None /\ q \in syncing.left
    /\ Promoted(loaded[q]) # {}
    /\ IF \A p \in Promoted(loaded[q]) : Readable(p, chain[syncing.to][p])
       THEN Fault ELSE UNCHANGED faults
    /\ syncing' = None
    /\ off' = off \cup (Loaded \cap {PairOf[logs[b].pool] : b \in (syncedBlock + 1)..syncing.to})
    /\ UNCHANGED <<chainVars, loaded, inFlight, syncedBlock>>

-----------------------------------------------------------------------------
(* The whole.                                                              *)

Done == head = MaxBlock /\ syncedBlock = head /\ UNCHANGED vars

SyncStep == CreatedRead \/ LogsRead \/ Replayed \/ \E q \in Pairs : Reselect(q)

Next ==
    \/ Block
    \/ \E q \in Pairs : Ensure(q) \/ LoadEnds(q) \/ LoadFails(q) \/ ReselectFails(q)
    \/ \E to \in 0..head : Sync(to)
    \/ SyncStep \/ LogsFail
    \/ Done

Spec == Init /\ [][Next]_vars

\* The interval goes on polling the head, and calls that do not throw return.
FairSpec ==
    /\ Spec
    /\ WF_vars(SyncStep \/ \E q \in Pairs : ReselectFails(q))
    /\ WF_vars(Sync(head))

-----------------------------------------------------------------------------
(* Properties.                                                             *)

Live(s) == {p \in Listed : s[p].live}

\* The block the pools read from are at: a replay moves them all in one step.
At == IF syncing # None /\ syncing.stage = "reselect" THEN syncing.to ELSE syncedBlock

\* Pairs that should be exact: all but those loaded once the chain had moved on,
\* or whose replay threw after it applied its logs, or a probe of which was lost.
Exact == (IF syncing # None /\ syncing.stage = "reselect" THEN syncing.of ELSE Loaded) \ off

\* A pool held in full is what a fresh read would return of the ticks that were
\* in its window: price, liquidity in range and the net at every tick, whatever
\* swaps, mints and burns the replays went over and whatever calls failed.
HeldIsExact ==
    \A q \in Exact : \A p \in DOMAIN loaded[q].held :
        LET h == loaded[q].held[p]
            s == chain[At][p]
        IN  IF Kind[p] = "v2" THEN h.liquidity = s.reserve
            ELSE /\ h.tick = s.tick /\ h.liquidity = Liquidity(p, s)
                 /\ \A i \in h.seen : h.net[i] = LiquidityNet(s, i)

\* Every listed pool of a loaded pair is watched from the block that created it,
\* once, however often its creation is read; no other is, and the number it is
\* ranked on is the chain's.
TrackedIsExact ==
    \A q \in Exact :
        LET entries == ToSet(loaded[q].tracked)
        IN  /\ {p \in Live(chain[At]) : PairOf[p] = q} \subseteq {e.pool : e \in entries}
            /\ Cardinality({e.pool : e \in entries}) = Len(loaded[q].tracked)
            /\ \A e \in entries : e.pool \in Live(chain[head])
            /\ \A e \in entries : e.liquidity = Liquidity(e.pool, chain[At][e.pool])

\* The pools quoted from are the deepest the pair has on chain: none shallower
\* is held, and none deeper is left out, once its replay reselected them.
DeepestAreHeld ==
    \A q \in Exact :
        (syncing = None \/ syncing.stage # "reselect" \/ q \notin syncing.left) =>
            LET depth(p) == Liquidity(p, chain[At][p])
                filled == {p \in Live(chain[At]) : PairOf[p] = q /\ depth(p) > 0}
                held == DOMAIN loaded[q].held
            IN  /\ held \subseteq filled
                /\ Cardinality(held) = Min({PoolsPerPair, Cardinality(filled)})
                /\ \A p \in held : \A z \in filled \ held : depth(p) >= depth(z)

\* Whatever fails, and however polls answer out of order, a loaded repository
\* comes to every block.
SyncCatchesUp == <>[](Loaded # {} => syncedBlock = head)

=============================================================================
