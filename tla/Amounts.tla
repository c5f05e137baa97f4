------------------------------- MODULE Amounts -------------------------------
(***************************************************************************)
(* Integer arithmetic of amounts, prices and fees: lib/math.ts, the        *)
(* constant product of sources/constant-product.ts and the concentrated    *)
(* liquidity of sources/concentrated-liquidity.ts.  bigints do not         *)
(* overflow, and every operand is a natural number, so / is \div.          *)
(***************************************************************************)
EXTENDS Integers, Sequences, FiniteSets

CONSTANTS
    BPS_DENOMINATOR,
    FEE_PIPS_DENOMINATOR,
    Q96,          \* the unit of square root prices
    Ratio         \* the square root price of each tick, a strictly rising function

MIN_TICK == CHOOSE t \in DOMAIN Ratio : \A u \in DOMAIN Ratio : t <= u
MAX_TICK == CHOOSE t \in DOMAIN Ratio : \A u \in DOMAIN Ratio : t >= u

ASSUME AmountsAssumption ==
    /\ {BPS_DENOMINATOR, FEE_PIPS_DENOMINATOR, Q96} \subseteq Nat \ {0}
    /\ {MIN_TICK, MAX_TICK} \subseteq Int /\ MIN_TICK < MAX_TICK
    /\ DOMAIN Ratio = MIN_TICK..MAX_TICK
    /\ \A t \in DOMAIN Ratio : Ratio[t] \in Nat \ {0}
    /\ \A t, u \in DOMAIN Ratio : t < u => Ratio[t] < Ratio[u]

mulDiv(value, multiplier, denominator) == (value * multiplier) \div denominator

mulDivRoundingUp(value, multiplier, denominator) ==
    LET truncated == mulDiv(value, multiplier, denominator)
    IN  IF truncated * denominator = value * multiplier THEN truncated ELSE truncated + 1

applyBps(value, bps) == mulDiv(value, bps, BPS_DENOMINATOR)

convertDecimals(value, from, to) ==
    IF to >= from THEN value * 10 ^ (to - from) ELSE value \div (10 ^ (from - to))

isqrt(value) ==
    LET newton[guess \in 1..value] ==
            LET next == (guess + value \div guess) \div 2
            IN  IF next < guess THEN newton[next] ELSE guess
    IN  IF value < 2 THEN value ELSE newton[value]

\* The buffer for a wait grows with its square root.
scaleRiskBps(riskBps, waitMs, horizonMs) ==
    (riskBps * isqrt((waitMs * 1000000) \div horizonMs)) \div 1000

getAmountOut(amountIn, reserveIn, reserveOut, feeBps) ==
    LET afterFee == amountIn * (BPS_DENOMINATOR - feeBps)
    IN  mulDiv(afterFee, reserveOut, reserveIn * BPS_DENOMINATOR + afterFee)

-----------------------------------------------------------------------------
(* Concentrated liquidity.  A pool's ticks are a sequence, by rising index,*)
(* of what the liquidity gains when the price rises through each.          *)

\* tickCursorAt: the last tick at or below, or the first above.
tickCursorAt(ticks, tick, zeroForOne) ==
    LET below == Cardinality({i \in DOMAIN ticks : ticks[i].index <= tick})
    IN  IF zeroForOne THEN below ELSE below + 1

getTickAtSqrtRatio(price) ==
    CHOOSE t \in DOMAIN Ratio :
        Ratio[t] <= price /\ \A u \in DOMAIN Ratio : Ratio[u] <= price => u <= t

getAmount0Delta(lower, upper, liquidity, roundUp) ==
    IF roundUp
    THEN mulDivRoundingUp(mulDivRoundingUp(liquidity * Q96, upper - lower, upper), 1, lower)
    ELSE mulDiv(liquidity * Q96, upper - lower, upper) \div lower

getAmount1Delta(lower, upper, liquidity, roundUp) ==
    IF roundUp THEN mulDivRoundingUp(liquidity, upper - lower, Q96)
    ELSE mulDiv(liquidity, upper - lower, Q96)

getNextSqrtPriceFromInput(price, liquidity, amount, zeroForOne) ==
    IF ~zeroForOne THEN price + mulDiv(amount, Q96, liquidity)
    ELSE IF amount = 0 THEN price
    ELSE mulDivRoundingUp(liquidity * Q96, price, liquidity * Q96 + amount * price)

\* What goes in to move the price between two, and what comes out.
InFor(from, to, liquidity, zeroForOne) ==
    IF zeroForOne THEN getAmount0Delta(to, from, liquidity, TRUE)
    ELSE getAmount1Delta(from, to, liquidity, TRUE)
OutFor(from, to, liquidity, zeroForOne) ==
    IF zeroForOne THEN getAmount1Delta(to, from, liquidity, FALSE)
    ELSE getAmount0Delta(from, to, liquidity, FALSE)

NextPrice(current, target, liquidity, lessFee) ==
    IF lessFee >= InFor(current, target, liquidity, current >= target) THEN target
    ELSE getNextSqrtPriceFromInput(current, liquidity, lessFee, current >= target)

StepTo(current, next, target, in, liquidity, remaining, feePips) ==
    [next |-> next, in |-> in,
     out |-> OutFor(current, next, liquidity, current >= target),
     fee |-> IF next = target THEN mulDivRoundingUp(in, feePips, FEE_PIPS_DENOMINATOR - feePips)
             ELSE remaining - in]

computeSwapStep(current, target, liquidity, remaining, feePips) ==
    LET Step(next) == StepTo(current, next, target,
                             InFor(current, next, liquidity, current >= target),
                             liquidity, remaining, feePips)
    IN  Step(NextPrice(current, target, liquidity,
                       mulDiv(remaining, FEE_PIPS_DENOMINATOR - feePips, FEE_PIPS_DENOMINATOR)))

\* A slip of RunsOut: the end of the ticks goes unnoticed.
RunsOutUnseen(tickNext, liquidity) == FALSE

\* The ticks that were loaded end here, and there is still liquidity to spend.
RunsOut(tickNext, liquidity) == tickNext \in {MIN_TICK, MAX_TICK} /\ liquidity > 0

\* Where a step towards a tick leaves the swap.
Landed(ticks, s, tickNext, step, zeroForOne) ==
    LET initialised == s.cursor \in DOMAIN ticks
        reached == step.next = Ratio[tickNext]
        net == ticks[s.cursor].net
        tick == IF reached THEN IF zeroForOne THEN tickNext - 1 ELSE tickNext
                ELSE IF step.next # s.price THEN getTickAtSqrtRatio(step.next)
                ELSE s.tick
    IN  [remaining |-> s.remaining - step.in - step.fee,
         out |-> s.out + step.out,
         price |-> step.next,
         tick |-> tick,
         liquidity |-> IF ~(reached /\ initialised) THEN s.liquidity
                       ELSE s.liquidity + (IF zeroForOne THEN -net ELSE net),
         cursor |-> IF reached
                    THEN IF ~initialised THEN s.cursor
                         ELSE s.cursor + (IF zeroForOne THEN -1 ELSE 1)
                    ELSE IF step.next = s.price THEN s.cursor
                    ELSE tickCursorAt(ticks, tick, zeroForOne),
         exhausted |-> s.exhausted \/ RunsOut(tickNext, s.liquidity)]

\* The price a swap may go to, and the next tick on the way.
Limit(zeroForOne) == IF zeroForOne THEN Ratio[MIN_TICK] + 1 ELSE Ratio[MAX_TICK] - 1

Within(price, zeroForOne) ==
    IF (zeroForOne /\ price < Limit(zeroForOne)) \/ (~zeroForOne /\ price > Limit(zeroForOne))
    THEN Limit(zeroForOne) ELSE price

TickNext(ticks, cursor, zeroForOne) ==
    IF cursor \in DOMAIN ticks THEN ticks[cursor].index
    ELSE IF zeroForOne THEN MIN_TICK ELSE MAX_TICK

Finished(s, zeroForOne) == s.remaining = 0 \/ s.price = Limit(zeroForOne)

Onward(pool, s, zeroForOne) ==
    LET Towards(tickNext) ==
            Landed(pool.ticks, s, tickNext,
                   computeSwapStep(s.price, Within(Ratio[tickNext], zeroForOne), s.liquidity,
                                   s.remaining, pool.fee),
                   zeroForOne)
    IN  IF Finished(s, zeroForOne) THEN s ELSE Towards(TickNext(pool.ticks, s.cursor, zeroForOne))

\* swap(): from tick to tick until the input is spent or the limit is reached, which
\* takes one round for every tick, and one beyond them.
swap(pool, amount, zeroForOne) ==
    LET after[n \in 0..(Len(pool.ticks) + 1)] ==
            IF n = 0
            THEN [remaining |-> amount, out |-> 0, price |-> pool.price, tick |-> pool.tick,
                  liquidity |-> pool.liquidity,
                  cursor |-> tickCursorAt(pool.ticks, pool.tick, zeroForOne),
                  exhausted |-> FALSE]
            ELSE LET s == after[n - 1] IN Onward(pool, s, zeroForOne)
    IN  after[Len(pool.ticks) + 1]

\* What createClmmSource quotes: nothing for a pool that pays nothing or ran out.
Quotable(result) == result.out # 0 /\ ~result.exhausted

=============================================================================
