------------------------------- MODULE Quoting -------------------------------
(***************************************************************************)
(* What a deposit is quoted at, and whether the fill that comes later is   *)
(* still worth it: the path searches of quoting/routing.ts and bridge.ts   *)
(* over the pools of quoting/environment.ts, the price of pricing.ts,      *)
(* quoteIntent of solver.ts, and the second pricing execute() makes.       *)
(*                                                                         *)
(* Other traders and the poller's sync come between any two reads.  Pools  *)
(* are as the last sync left them (Pools), a fill meets the same ones, and *)
(* measured gas is a number that stays (FillEngine).  An amount of gas     *)
(* that cannot be priced throws.                                           *)
(***************************************************************************)
EXTENDS Amounts, SequencesExt

CONSTANTS
    Chains, Routers,   \* Routers: chains without pools, asked live, never paid out on
    Tokens,            \* of each chain
    Native, Hubs,      \* ... its wrapped native token and its hub tokens
    Asset, Decimals,   \* of a hub token
    Pairs,             \* the pools: chain, source, kind, token0, token1
    InitialPools,      \* the states they may be in at first
    Positions,         \* ranges that may be minted to
    Trades,            \* amounts that may be traded
    GasPrices,         \* of each chain
    GasOf,             \* gas measured of a leg, a payout, or None
    Intents,           \* origin, destination, tokenIn, tokenOut, amount, minAmountOut
    Held,              \* what the account may hold of a token it pays out
    RiskBps, ServiceBps, AppBps,
    WaitMs, HorizonMs, \* of each origin chain
    MEASURED_PATH_LIMIT,
    None,
    UnitOfNative,      \* one sol, that the routers are asked the price of
    MaxMoves           \* bound on trades and mints

PoolIds == DOMAIN Pairs
AllTokens == UNION {Tokens[c] : c \in Chains}
Assets == {Asset[t] : t \in UNION {Hubs[c] : c \in Chains}}

ASSUME MarketAssumption ==
    /\ IsFiniteSet(PoolIds) /\ Routers \subseteq Chains
    /\ \A c \in Chains :
           IsFiniteSet(Hubs[c]) /\ Hubs[c] \subseteq Tokens[c] /\ Native[c] \in Tokens[c]
    /\ \A p \in PoolIds :
           /\ {Pairs[p].token0, Pairs[p].token1} \subseteq Tokens[Pairs[p].chain]
           /\ Pairs[p].token0 # Pairs[p].token1
           /\ Pairs[p].kind \in {"cpmm", "clmm", "router"}

ASSUME NumbersAssumption ==
    /\ {ServiceBps, AppBps, RiskBps, MaxMoves, MEASURED_PATH_LIMIT} \subseteq Nat
    /\ {UnitOfNative, HorizonMs} \subseteq Nat \ {0}
    /\ \A c \in Chains : WaitMs[c] \in Nat /\ GasPrices[c] # {} /\ GasPrices[c] \subseteq Nat
    /\ \A p \in PoolIds \cup {"payout"} : GasOf[p] \in Nat \cup {None}
    /\ Held \subseteq [AllTokens -> Nat]
    /\ Trades \subseteq Nat \ {0}
    /\ \A r \in Positions : {r.lower, r.upper} \subseteq DOMAIN Ratio /\ r.lower < r.upper /\ r.amount \in Nat

ASSUME DecimalsAssumption ==
    \A c, d \in Chains : \A t \in Hubs[c], u \in Hubs[d] :
        /\ Decimals[t] \in Nat
        /\ Decimals[t] <= Decimals[u] => 10 ^ (Decimals[u] - Decimals[t]) \in Nat \ {0}

ASSUME IntentsAssumption ==
    \A i \in Intents :
        /\ {i.origin, i.destination} \subseteq Chains /\ i.destination \notin Routers
        /\ i.tokenIn \in Tokens[i.origin] /\ i.tokenOut \in Tokens[i.destination]
        /\ i.amount \in Nat \ {0} /\ i.minAmountOut \in Nat

\* What None stands in for.
Leg == [pool : PoolIds, in : AllTokens, out : AllTokens, amountOut : Int]
ASSUME NoneAssumption ==
    /\ None \notin Int \cup Assets \cup {"quote", "reprice"} \cup [num : Int, den : Int]
    /\ None \notin [legs : Seq(Leg), amountOut : Int]
    /\ None \notin [legs : Seq(Leg), amountOut : Int, gasCost : Int]
    /\ None \notin [asset : Assets \cup {None}, step : {"carry", "fill"}, originLegs : Seq(Leg),
                     bridged : Int, settlement : Int, rebalance : Int]

VARIABLES
    pool,        \* the state of each pool
    gasPrice,    \* the one pinned on each chain
    rates,       \* a router chain's remembered price of its native token
    job,         \* the pricing under way
    order,       \* the order, and what it was quoted
    available,   \* what the account holds, unreserved, of each token
    moves        \* how often a pool moved

vars == <<pool, gasPrice, rates, job, order, available, moves>>

MaxBy(S, Rank(_)) == CHOOSE x \in S : \A y \in S : Rank(x) >= Rank(y)

-----------------------------------------------------------------------------
(* Pools.                                                                  *)

\* What the liquidity gains when the price rises through a tick, and what it is there.
NetAt(s, tick) ==
    IF \E k \in DOMAIN s.ticks : s.ticks[k].index = tick
    THEN s.ticks[CHOOSE k \in DOMAIN s.ticks : s.ticks[k].index = tick].net ELSE 0
LiquidityAt(s, tick) ==
    SumFunctionOnSet([t \in DOMAIN Ratio |-> NetAt(s, t)], {t \in DOMAIN Ratio : t <= tick})

\* The states a pool can be in.  The liquidity of a concentrated one is what its ticks
\* make it where its price is, and is negative nowhere.
ClmmStates ==
    [price : Nat, tick : Int, liquidity : Nat, fee : 0..(FEE_PIPS_DENOMINATOR - 1),
     ticks : Seq([index : DOMAIN Ratio, net : Int])]
ClmmOK(s) ==
    /\ s \in ClmmStates
    /\ \A j, k \in DOMAIN s.ticks : j < k => s.ticks[j].index < s.ticks[k].index
    /\ Ratio[MIN_TICK] < s.price /\ s.price < Ratio[MAX_TICK]
    /\ s.tick \in MIN_TICK..(MAX_TICK - 1) /\ s.price \in Ratio[s.tick]..Ratio[s.tick + 1]
    /\ s.liquidity = LiquidityAt(s, s.tick)
    /\ \A t \in DOMAIN Ratio : LiquidityAt(s, t) >= 0

CpmmStates == [reserve0 : Nat, reserve1 : Nat, fee : 0..(BPS_DENOMINATOR - 1)]
RouterStates == [rate : (Nat \ {0}) \cup {None}]

PoolOK(p, s) ==
    CASE Pairs[p].kind = "cpmm" -> s \in CpmmStates
      [] Pairs[p].kind = "clmm" -> ClmmOK(s)
      [] Pairs[p].kind = "router" -> s \in RouterStates

ASSUME PoolsAssumption ==
    \A m \in InitialPools : m = [p \in PoolIds |-> m[p]] /\ \A p \in PoolIds : PoolOK(p, m[p])

-----------------------------------------------------------------------------
(* One swap.                                                               *)

Serves(p, c, in, out) ==
    Pairs[p].chain = c /\ {Pairs[p].token0, Pairs[p].token1} = {in, out} /\ in # out

hasPools(c, in, out) == \E p \in PoolIds : Serves(p, c, in, out)

tokenInIsToken0(p, in) == Pairs[p].token0 = in

\* What a pool gives, None for nothing that can be quoted.
Output(s, p, in, amount) ==
    LET forward == tokenInIsToken0(p, in)
        Paid(result) == IF Quotable(result) THEN result.out ELSE None
    IN  CASE Pairs[p].kind = "cpmm" ->
               IF forward THEN getAmountOut(amount, s.reserve0, s.reserve1, s.fee)
               ELSE getAmountOut(amount, s.reserve1, s.reserve0, s.fee)
          [] Pairs[p].kind = "clmm" -> Paid(swap(s, amount, forward))
          [] Pairs[p].kind = "router" ->
               IF s.rate = None THEN None
               ELSE IF forward THEN amount * s.rate ELSE amount \div s.rate

AmountOut(quote) == quote.amountOut
BestOf(quotes) ==
    {MaxBy({q \in quotes : Pairs[q.pool].source = source}, AmountOut) :
        source \in {Pairs[q.pool].source : q \in quotes}}

\* quoteAll: of every source its best pool.
quoteLeg(pools, c, in, out, amount) ==
    BestOf({q \in {[pool |-> p, in |-> in, out |-> out,
                    amountOut |-> Output(pools[p], p, in, amount)] :
                       p \in {p \in PoolIds : amount > 0 /\ Serves(p, c, in, out)}} :
               q.amountOut # None})

\* What a chain of legs gives for an amount, with the pools as they are.
Through(pools, legs, amount) ==
    LET after[k \in 0..Len(legs)] ==
            IF k = 0 THEN amount
            ELSE IF after[k - 1] = None \/ after[k - 1] <= 0 THEN None
            ELSE Output(pools[legs[k].pool], legs[k].pool, legs[k].in, after[k - 1])
    IN  after[Len(legs)]

-----------------------------------------------------------------------------
(* Gas.                                                                    *)

\* A pool's rate of the native token in another; a router chain remembers its own.
ReferenceRate(pools, c, token) ==
    LET Reference == {p \in PoolIds : Pairs[p].kind = "clmm" /\ Serves(p, c, Native[c], token)}
    IN  IF token = Native[c] THEN [num |-> 1, den |-> 1]
        ELSE IF Reference = {} THEN None
        ELSE LET p == CHOOSE p \in Reference : TRUE
                 squared == pools[p].price * pools[p].price
             IN  IF Pairs[p].token0 = token THEN [num |-> Q96 * Q96, den |-> squared]
                 ELSE [num |-> squared, den |-> Q96 * Q96]

Rejected == [num |-> 0, den |-> 0]

\* The best price any router gives now, or a rejection.
RouterRate(pools, c, token) ==
    LET Rate(quotes) == IF quotes = {} THEN Rejected
                        ELSE [num |-> MaxBy(quotes, AmountOut).amountOut, den |-> UnitOfNative]
    IN  Rate(quoteLeg(pools, c, Native[c], token, UnitOfNative))

readGasPricing(c, token) ==
    IF c \notin Routers \/ token = Native[c] THEN ReferenceRate(pool, c, token)
    ELSE IF rates[c][token] = None THEN RouterRate(pool, c, token) ELSE rates[c][token]

Priceable(rate) == rate # None /\ rate # Rejected

gasCostIn(price, rate, gas) == mulDiv(gas * price, rate.num, rate.den)

Route(legs) == [k \in DOMAIN legs |-> legs[k].pool]

SwapGas(route) ==
    IF \E k \in DOMAIN route : GasOf[route[k]] = None THEN None
    ELSE SumFunction([k \in DOMAIN route |-> GasOf[route[k]]])

\* ... and the transfer that pays the user.
GasOfRoute(route) ==
    IF SwapGas(route) = None \/ GasOf["payout"] = None THEN None
    ELSE SwapGas(route) + GasOf["payout"]

-----------------------------------------------------------------------------
(* findPaths.                                                              *)

Direct(pools, c, in, out, amount) == {<<leg>> : leg \in quoteLeg(pools, c, in, out, amount)}

reachable(c, in, out) ==
    IF c \in Routers THEN {}
    ELSE {hub \in Hubs[c] \ {in, out} : hasPools(c, in, hub) /\ hasPools(c, hub, out)}

Hopped(pools, c, in, out, amount) ==
    UNION {UNION {{<<first, second>> : second \in quoteLeg(pools, c, hub, out, first.amountOut)} :
                  first \in quoteLeg(pools, c, in, hub, amount)} :
           hub \in reachable(c, in, out)}

Gives(legs) == legs[Len(legs)].amountOut

\* The candidates that give most, as many as are worth measuring.
Shortlist(candidates) ==
    CHOOSE S \in SUBSET candidates :
        /\ Cardinality(S) = MEASURED_PATH_LIMIT \/ S = candidates
        /\ Cardinality(S) <= MEASURED_PATH_LIMIT
        /\ \A s \in S, o \in candidates \ S : Gives(s) >= Gives(o)

Net(path) == path.amountOut - path.gasCost
BestPath(paths) == IF paths = {} THEN None ELSE MaxBy(paths, Net)

\* The best path net of its gas, None when no route can be executed.  What a deposit
\* is worth is searched for without: that swap is not part of the fill.
findPaths(pools, c, in, out, amount, price, rate, measured) ==
    LET Gas(legs) == IF measured THEN GasOfRoute(Route(legs)) ELSE 0
    IN  BestPath({[legs |-> legs, amountOut |-> Gives(legs),
               gasCost |-> gasCostIn(price, rate, Gas(legs))] :
                  legs \in {l \in Shortlist(Direct(pools, c, in, out, amount)
                                                 \cup Hopped(pools, c, in, out, amount)) :
                               Gas(l) # None}})

-----------------------------------------------------------------------------
(* priceQuote.                                                             *)

RiskOf(c) == scaleRiskBps(RiskBps, WaitMs[c], HorizonMs)

Fees(path, origin) ==
    [gas |-> path.gasCost,
     service |-> applyBps(path.amountOut, ServiceBps),
     app |-> applyBps(path.amountOut, AppBps),
     settlement |-> path.settlement,
     rebalance |-> path.rebalance,
     riskBuffer |-> applyBps(path.amountOut, RiskOf(origin))]

Profitable(priced, intent) ==
    /\ priced.quoted > 0
    /\ priced.fees.service + priced.fees.riskBuffer > 0
    /\ priced.quoted >= intent.minAmountOut

QuotedAmount(path, fees) ==
    path.amountOut - fees.gas - fees.service - fees.app - fees.settlement - fees.rebalance
        - fees.riskBuffer

\* A slip of PricedWith: what claiming the deposit costs is not taken off.
PricedUnsettled(path, fees) ==
    [quoted |-> QuotedAmount(path, fees) + fees.settlement, fees |-> fees, path |-> path]

PricedWith(path, fees) == [quoted |-> QuotedAmount(path, fees), fees |-> fees, path |-> path]

\* None for a rejection.
priceQuote(path, intent) ==
    LET Checked(priced) == IF Profitable(priced, intent) THEN priced ELSE None
    IN  Checked(PricedWith(path, Fees(path, intent.origin)))

Spends(intent, path) ==
    IF path.asset = None THEN intent.tokenIn
    ELSE IF path.legs = <<>> THEN intent.tokenOut ELSE path.legs[1].in

-----------------------------------------------------------------------------
(* priceIntent, a read at a time.                                          *)

Idle == [why |-> None]
NoOrder == [st |-> "none", quote |-> None]

Init ==
    /\ pool \in InitialPools
    /\ gasPrice = [c \in Chains |-> CHOOSE g \in GasPrices[c] : \A h \in GasPrices[c] : g <= h]
    /\ rates = [c \in Routers |-> [t \in Tokens[c] |-> None]]
    /\ job = Idle
    /\ order = NoOrder
    /\ available \in Held
    /\ moves = 0

HubOf(c, asset) == CHOOSE t \in Hubs[c] : Asset[t] = asset
shared(i) ==
    {Asset[t] : t \in Hubs[i.origin]} \cap {Asset[t] : t \in Hubs[i.destination]}

SettlementGas(c) == IF c \in Routers THEN 1 ELSE GasOf["payout"]

\* Both gas prices are taken first, and what claiming the deposit costs.
Begin(why, i) ==
    job' = [why |-> why, intent |-> i, price |-> gasPrice, part |-> None, paths |-> {},
            todo |-> IF i.origin = i.destination THEN {None}
                     ELSE IF SettlementGas(i.origin) = None THEN {} ELSE shared(i)]

Part(asset, step, originLegs, bridged) ==
    [asset |-> asset, step |-> step, originLegs |-> originLegs, bridged |-> bridged,
     settlement |-> 0, rebalance |-> 0]

Throw ==
    /\ job' = Idle
    /\ order' = [order EXCEPT !.st = "thrown"]

\* A router chain's rate is remembered, and so is a rejection.
Remember(c, token) ==
    rates' = IF c \in Routers /\ token # Native[c]
             THEN [rates EXCEPT ![c][token] = readGasPricing(c, token)] ELSE rates

\* One chain: nothing to value.
Local ==
    /\ job.why # None /\ job.part = None /\ None \in job.todo
    /\ job' = [job EXCEPT !.part = Part(None, "fill", <<>>, job.intent.amount)]
    /\ UNCHANGED <<pool, gasPrice, rates, order, available, moves>>

RebalanceGas(c, legs) ==
    IF legs = <<>> THEN 0
    ELSE IF c \in Routers THEN 1 ELSE SwapGas(Route(legs))

\* What the deposit is worth in the hub asset, valued on the origin; None when
\* it is worth nothing, or taking it there cannot be measured.
Valuation(i, asset, best) ==
    LET hub == HubOf(i.origin, asset)
        bridged == convertDecimals(best.amountOut, Decimals[hub],
                                   Decimals[HubOf(i.destination, asset)])
    IN  IF best = None THEN None
        ELSE IF RebalanceGas(i.origin, best.legs) = None \/ bridged <= 0 THEN None
        ELSE Part(asset, "carry", best.legs, bridged)

Valued(asset, part) ==
    job' = IF part = None THEN [job EXCEPT !.todo = @ \ {asset}] ELSE [job EXCEPT !.part = part]

ValueAt(asset, hub, rate) ==
    IF ~Priceable(rate) THEN Throw
    ELSE /\ Valued(asset, Valuation(job.intent, asset,
                  findPaths(pool, job.intent.origin, job.intent.tokenIn, hub, job.intent.amount,
                            job.price[job.intent.origin], rate, FALSE)))
         /\ UNCHANGED order

Value(asset) ==
    /\ job.why # None /\ job.part = None /\ asset \in job.todo
    /\ LET hub == HubOf(job.intent.origin, asset)
       IN  IF job.intent.tokenIn = hub
           THEN /\ Valued(asset, Valuation(job.intent, asset,
                                          [legs |-> <<>>, amountOut |-> job.intent.amount]))
                /\ UNCHANGED <<order, rates>>
           ELSE /\ ValueAt(asset, hub, readGasPricing(job.intent.origin, hub))
                /\ Remember(job.intent.origin, hub)
    /\ UNCHANGED <<pool, gasPrice, available, moves>>

\* The origin's costs, in the destination's hub.
Carried(i, part, price, rate) ==
    LET carry(gas) == convertDecimals(gasCostIn(price, rate, gas),
                                      Decimals[HubOf(i.origin, part.asset)],
                                      Decimals[HubOf(i.destination, part.asset)])
    IN  [part EXCEPT !.step = "fill",
                     !.settlement = carry(SettlementGas(i.origin)),
                     !.rebalance = carry(RebalanceGas(i.origin, part.originLegs))]

CarryAt(rate) ==
    IF ~Priceable(rate) THEN Throw
    ELSE /\ job' = [job EXCEPT !.part = Carried(job.intent, @, job.price[job.intent.origin], rate)]
         /\ UNCHANGED order

Carry ==
    /\ job.why # None /\ job.part # None /\ job.part.step = "carry"
    /\ LET hub == HubOf(job.intent.origin, job.part.asset)
       IN  /\ CarryAt(readGasPricing(job.intent.origin, hub))
           /\ Remember(job.intent.origin, hub)
    /\ UNCHANGED <<pool, gasPrice, available, moves>>

\* The payout alone, when the user wants what the solver holds, or a search.
FillPath(pools, i, part, price, rate) ==
    LET c == i.destination
        in == IF part.asset = None THEN i.tokenIn ELSE HubOf(c, part.asset)
    IN  IF part.asset # None /\ in = i.tokenOut
        THEN IF GasOf["payout"] = None THEN None
             ELSE [legs |-> <<>>, amountOut |-> part.bridged,
                   gasCost |-> gasCostIn(price, rate, GasOf["payout"])]
        ELSE findPaths(pools, c, in, i.tokenOut, part.bridged, price, rate, TRUE)

\* The origin's costs restated at the rate the path achieved.
Bridged(path, part) ==
    LET inOutputToken(x) ==
            IF path.legs = <<>> THEN x ELSE mulDiv(x, path.amountOut, part.bridged)
    IN  [asset |-> part.asset, originLegs |-> part.originLegs, bridged |-> part.bridged,
         legs |-> path.legs, amountOut |-> path.amountOut, gasCost |-> path.gasCost,
         settlement |-> inOutputToken(part.settlement),
         rebalance |-> inOutputToken(part.rebalance)]

netAmountOut(path) == path.amountOut - path.gasCost - path.settlement - path.rebalance

FillWith(path) ==
    job' = [job EXCEPT !.todo = @ \ {job.part.asset}, !.part = None,
                       !.paths = IF path = None THEN @ ELSE @ \cup {Bridged(path, job.part)}]

FillAt(rate) ==
    IF ~Priceable(rate) THEN Throw
    ELSE /\ FillWith(FillPath(pool, job.intent, job.part, job.price[job.intent.destination], rate))
         /\ UNCHANGED order

Fill ==
    /\ job.why # None /\ job.part # None /\ job.part.step = "fill"
    /\ FillAt(readGasPricing(job.intent.destination, job.intent.tokenOut))
    /\ UNCHANGED <<pool, gasPrice, rates, available, moves>>

\* The best path is priced; across chains the account has to hold what it spends.
Covered(best) ==
    IF best.asset # None /\ available[Spends(job.intent, best)] < best.bridged THEN None
    ELSE priceQuote(best, job.intent)

Priced == IF job.paths = {} THEN None ELSE Covered(MaxBy(job.paths, netAmountOut))

Concluding(why) == job.why = why /\ job.part = None /\ job.todo = {} /\ job' = Idle

-----------------------------------------------------------------------------
(* The order.                                                              *)

QuoteIntent(i) ==
    /\ order = NoOrder /\ job = Idle
    /\ Begin("quote", i)
    /\ order' = [st |-> "QUOTING", quote |-> None, intent |-> i, asked |-> moves,
                 checked |-> 0, fresh |-> None]
    /\ UNCHANGED <<pool, gasPrice, rates, available, moves>>

QuotedAs(priced) ==
    order' = [order EXCEPT !.st = IF priced = None THEN "QUOTE_FAILED" ELSE "QUOTED",
                           !.quote = priced]

Quoted ==
    /\ Concluding("quote")
    /\ QuotedAs(Priced)
    /\ UNCHANGED <<pool, gasPrice, rates, available, moves>>

Input(o) == IF o.quote.path.asset = None THEN o.intent.amount ELSE o.quote.path.bridged
Spent(o) == Spends(o.intent, o.quote.path)
Release == available' = [available EXCEPT ![Spent(order)] = @ + Input(order)]

\* Accepted, its deposit confirmed (on one chain it is credited here): execute()
\* reserves what the fill spends, then prices the intent again.
Reserve ==
    /\ order.st = "QUOTED" /\ job = Idle
    /\ LET credited == IF order.quote.path.asset = None
                       THEN [available EXCEPT ![Spent(order)] = @ + Input(order)] ELSE available
       IN  IF credited[Spent(order)] < Input(order)
           THEN /\ order' = [order EXCEPT !.st = "INSUFFICIENT_INVENTORY"]
                /\ UNCHANGED <<job, available>>
           ELSE /\ available' = [credited EXCEPT ![Spent(order)] = @ - Input(order)]
                /\ order' = [order EXCEPT !.st = "FILLING", !.checked = moves]
                /\ Begin("reprice", order.intent)
    /\ UNCHANGED <<pool, gasPrice, rates, moves>>

\* A slip of StillWorth: the fresh quote is held against the gross amount.
StillWorthGross(fresh, quote) ==
    fresh # None /\ fresh.quoted >= quote.path.amountOut - quote.fees.riskBuffer

StillWorth(fresh, quote) ==
    fresh # None /\ fresh.quoted >= quote.quoted - quote.fees.riskBuffer

RepricedAt(fresh) ==
    IF StillWorth(fresh, order.quote)
    THEN /\ order' = [order EXCEPT !.st = "REPRICED", !.fresh = fresh]
         /\ UNCHANGED available
    ELSE order' = [order EXCEPT !.st = "REFUNDING"] /\ Release

Repriced ==
    /\ Concluding("reprice")
    /\ RepricedAt(Priced)
    /\ UNCHANGED <<pool, gasPrice, rates, moves>>

\* The dry run, and the fill that finds what the dry run found: the quoted path
\* gives what the user is paid, or the deposit goes back.
ExecutedWith(acquired) ==
    IF acquired = None \/ acquired < order.quote.quoted
    THEN order' = [order EXCEPT !.st = "REFUNDING"] /\ Release
    ELSE order' = [order EXCEPT !.st = "FILLED"] /\ UNCHANGED available

Executed ==
    /\ order.st = "REPRICED"
    /\ ExecutedWith(Through(pool, order.quote.path.legs, Input(order)))
    /\ UNCHANGED <<pool, gasPrice, rates, job, moves>>

-----------------------------------------------------------------------------
(* The world, as a sync brings it in.                                      *)

Move == moves < MaxMoves /\ moves' = moves + 1

After(s, result) ==
    [s EXCEPT !.price = result.price, !.tick = result.tick, !.liquidity = result.liquidity]

\* Somebody trades in a pool, within the ticks that are loaded, or a router's price
\* changes.
Traded(p, s, amount, forward) ==
    LET Swapped(result) == Quotable(result) /\ pool' = [pool EXCEPT ![p] = After(s, result)]
        Exchanged(paid) ==
            pool' = [pool EXCEPT ![p] =
                IF forward
                THEN [s EXCEPT !.reserve0 = @ + amount, !.reserve1 = @ - paid]
                ELSE [s EXCEPT !.reserve1 = @ + amount, !.reserve0 = @ - paid]]
    IN  CASE Pairs[p].kind = "clmm" -> Swapped(swap(s, amount, forward))
          [] Pairs[p].kind = "cpmm" -> Exchanged(Output(s, p, IF forward THEN Pairs[p].token0
                                                             ELSE Pairs[p].token1, amount))
          [] Pairs[p].kind = "router" ->
               /\ s.rate # None
               /\ pool' = [pool EXCEPT ![p].rate =
                               IF forward THEN @ + 1 ELSE IF @ = 1 THEN None ELSE @ - 1]

Trade(p, amount, forward) ==
    /\ Move
    /\ Traded(p, pool[p], amount, forward)
    /\ UNCHANGED <<gasPrice, rates, job, order, available>>

Rising(S) ==
    [k \in 1..Cardinality(S) |-> CHOOSE t \in S : Cardinality({u \in S : u <= t}) = k]

Minted(s, position) ==
    LET Now(t) == NetAt(s, t) + (IF t = position.lower THEN position.amount ELSE 0)
                              - (IF t = position.upper THEN position.amount ELSE 0)
        Indices == Rising({t \in DOMAIN Ratio : Now(t) # 0})
    IN  [s EXCEPT
            !.ticks = [k \in DOMAIN Indices |-> [index |-> Indices[k], net |-> Now(Indices[k])]],
            !.liquidity = IF s.tick \in position.lower..(position.upper - 1)
                          THEN @ + position.amount ELSE @]

Mint(p, position) ==
    /\ Move /\ Pairs[p].kind = "clmm"
    /\ pool' = [pool EXCEPT ![p] = Minted(@, position)]
    /\ UNCHANGED <<gasPrice, rates, job, order, available>>

GasMoves(c) ==
    /\ Move
    /\ \E g \in GasPrices[c] \ {gasPrice[c]} : gasPrice' = [gasPrice EXCEPT ![c] = g]
    /\ UNCHANGED <<pool, rates, job, order, available>>

\* Another order is promised what is left of a token.
Promised(token) ==
    /\ Move /\ available[token] > 0
    /\ available' = [available EXCEPT ![token] = 0]
    /\ UNCHANGED <<pool, gasPrice, rates, job, order>>

Ended ==
    /\ order.st \in {"QUOTE_FAILED", "INSUFFICIENT_INVENTORY", "REFUNDING", "FILLED", "thrown"}
    /\ UNCHANGED vars

Next ==
    \/ \E i \in Intents : QuoteIntent(i)
    \/ Local \/ \E a \in Assets : Value(a)
    \/ Carry \/ Fill
    \/ Quoted \/ Reserve \/ Repriced \/ Executed
    \/ \E p \in PoolIds : \/ \E a \in Trades, f \in BOOLEAN : Trade(p, a, f)
                           \/ \E r \in Positions : Mint(p, r)
    \/ \E c \in Chains : GasMoves(c) \/ \E t \in Tokens[c] : Promised(t)
    \/ Ended

Spec == Init /\ [][Next]_vars

-----------------------------------------------------------------------------
(* Properties.                                                             *)

\* What the concentrated pools quote is never more than the pool would pay: not
\* when only some of its ticks are loaded, not by cutting a trade in two, and not
\* by trading back; it is nothing above the price the pool is at; and a swap ends, in a
\* state the pool can be in.
Window(s, n) ==
    [s EXCEPT !.ticks = SubSeq(@, tickCursorAt(@, s.tick - n - 1, FALSE),
                                  tickCursorAt(@, s.tick + n, TRUE))]

WindowKnows(s, a, forward, whole) ==
    \A n \in 0..2 : LET Seen(r) == ~r.exhausted => r.out <= whole.out
                    IN  Seen(swap(Window(s, n), a, forward))
NoGainBack(s, a, forward, whole) ==
    whole.out > 0 => swap(After(s, whole), whole.out, ~forward).out <= a - whole.remaining
NoGainSplit(s, a, forward, whole) ==
    ~whole.exhausted =>
        \A b \in {t \in Trades : t < a} :
            LET Rest(first) == first.out + swap(After(s, first), a - b, forward).out
            IN  Rest(swap(s, b, forward)) <= whole.out

NothingAbovePrice(s, a, forward, whole) ==
    LET squared == s.price * s.price
        spent == a - whole.remaining
    IN  IF forward THEN whole.out * (Q96 * Q96) <= spent * squared
        ELSE whole.out * squared <= spent * (Q96 * Q96)
Settles(s, a, forward, whole) ==
    /\ Finished(whole, forward) /\ ClmmOK(After(s, whole))
    /\ whole.remaining \in 0..a /\ whole.out \in Nat
    /\ NothingAbovePrice(s, a, forward, whole)

SwapFavoursThePool ==
    order = NoOrder =>
        \A p \in {q \in PoolIds : Pairs[q].kind = "clmm"}, a \in Trades, forward \in BOOLEAN :
            LET Fair(whole) == /\ Settles(pool[p], a, forward, whole)
                               /\ WindowKnows(pool[p], a, forward, whole)
                               /\ NoGainBack(pool[p], a, forward, whole)
                               /\ NoGainSplit(pool[p], a, forward, whole)
            IN  Fair(swap(pool[p], a, forward))

\* The buffer is what a move of the price may cost ("the risk buffer is what the
\* solver charged for that gap", executor.ts:224).  A fill whose quoted route is
\* still the best, with nothing moved since it was priced again, makes what the
\* user is paid and the solver's own fee, after every cost and what is collected
\* for the app; all it may fall short by is what the buffer itself, a share of the
\* output, has shrunk by since the quote.
Worth(o) ==
    LET i == o.intent
        path == o.quote.path
        Across(value) ==
            IF path.asset = None THEN value
            ELSE convertDecimals(value, Decimals[HubOf(i.origin, path.asset)],
                                 Decimals[HubOf(i.destination, path.asset)])
    IN  Through(pool, path.legs, Across(Through(pool, path.originLegs, i.amount)))

CostsNow(o) ==
    LET c == o.intent.destination
    IN  gasCostIn(gasPrice[c], ReferenceRate(pool, c, o.intent.tokenOut),
                  GasOfRoute(Route(o.quote.path.legs)))
            + o.fresh.path.settlement + o.fresh.path.rebalance + o.fresh.fees.app

FillWithinBuffer ==
    /\ order.st = "FILLED" /\ order.checked = moves
    /\ Route(order.fresh.path.legs) = Route(order.quote.path.legs)
    /\ Route(order.fresh.path.originLegs) = Route(order.quote.path.originLegs)
    => Worth(order) - CostsNow(order)
           >= order.quote.quoted + order.fresh.fees.service
                  - (order.quote.fees.riskBuffer - order.fresh.fees.riskBuffer)

\* An order whose pools and gas have not moved since it was asked for is filled,
\* provided the account holds twice what the fill spends: its own reservation is
\* missing when it is priced again.
UnmovedIsFilled ==
    order.st \in {"REFUNDING", "thrown"} /\ order.quote # None /\ order.asked = moves
        => /\ order.quote.path.asset # None
           /\ available[Spent(order)] < 2 * Input(order)

=============================================================================
