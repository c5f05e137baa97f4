------------------------------ MODULE MCQuoting ------------------------------
(***************************************************************************)
(* An instance of Quoting for TLC: two chains with pools, joined on two    *)
(* hub assets, and a router chain.  wE, wB are the wrapped natives, uE, uB *)
(* the dollars; tB and xB are bought on base, and nothing prices gas in xB.*)
(***************************************************************************)
EXTENDS Quoting

McRatio == [t \in -4..4 |-> <<64, 91, 128, 181, 256, 362, 512, 724, 1024>>[t + 5]]

McTokens == [c \in {"eth", "base", "sol"} |->
    CASE c = "eth" -> {"wE", "uE"} [] c = "base" -> {"wB", "uB", "tB", "xB"}
      [] c = "sol" -> {"wS", "uS"}]
McHubs == [c \in {"eth", "base", "sol"} |->
    CASE c = "eth" -> {"wE", "uE"} [] c = "base" -> {"wB", "uB"} [] c = "sol" -> {"wS", "uS"}]
McNative == [c \in {"eth", "base", "sol"} |->
    CASE c = "eth" -> "wE" [] c = "base" -> "wB" [] c = "sol" -> "wS"]
HubTokens == {"wE", "uE", "wB", "uB", "wS", "uS"}
McAsset == [t \in HubTokens |->
    CASE t \in {"wE", "wB"} -> "ETH" [] t = "wS" -> "SOL" [] OTHER -> "USD"]
McDecimals == [t \in HubTokens |-> IF t = "uS" THEN 1 ELSE 0]

Pair(c, source, kind, t0, t1) ==
    [chain |-> c, source |-> source, kind |-> kind, token0 |-> t0, token1 |-> t1]
McPairs == [p \in {"e1", "b1", "b2", "b3", "b4", "b5", "b6", "s1"} |->
    CASE p = "e1" -> Pair("eth", "concentrated-liquidity", "clmm", "wE", "uE")
      [] p = "b1" -> Pair("base", "concentrated-liquidity", "clmm", "wB", "uB")
      [] p = "b2" -> Pair("base", "constant-product", "cpmm", "uB", "wB")
      [] p = "b3" -> Pair("base", "constant-product", "cpmm", "tB", "uB")
      [] p = "b4" -> Pair("base", "concentrated-liquidity", "clmm", "tB", "wB")
      [] p = "b5" -> Pair("base", "constant-product", "cpmm", "uB", "xB")
      [] p = "b6" -> Pair("base", "constant-product", "cpmm", "wB", "uB")
      [] p = "s1" -> Pair("sol", "jupiter", "router", "wS", "uS")]

Cpmm(r0, r1) == [reserve0 |-> r0, reserve1 |-> r1, fee |-> 1]
Tick(i, n) == [index |-> i, net |-> n]
Clmm(liquidity, ticks) ==
    [price |-> 256, tick |-> 0, liquidity |-> liquidity, fee |-> 1, ticks |-> ticks]
Wide == Clmm(200, <<Tick(-3, 200), Tick(3, -200)>>)
Stepped == Clmm(240, <<Tick(-3, 80), Tick(-1, 160), Tick(1, -160), Tick(3, -80)>>)
Gapped == Clmm(150, <<Tick(-3, 90), Tick(-2, -90), Tick(-1, 150), Tick(1, -150), Tick(2, 60),
                     Tick(3, -60)>>)
Opening(e, b, rate) == [p \in DOMAIN McPairs |->
    CASE p = "e1" -> e
      [] p = "b1" -> b
      [] p = "b2" -> Cpmm(300, 300)
      [] p = "b3" -> Cpmm(300, 200)
      [] p = "b4" -> Wide
      [] p = "b5" -> Cpmm(300, 300)
      [] p = "b6" -> Cpmm(300, 400)
      [] p = "s1" -> [rate |-> rate]]
McInitialPools == 
    {Opening(Wide, Stepped, 10), Opening(Stepped, Gapped, 10), Opening(Gapped, Wide, None)}
McPositions == {[lower |-> -2, upper |-> 1, amount |-> 60]}

McGasPrices == [c \in {"eth", "base", "sol"} |-> IF c = "sol" THEN {1} ELSE {1, 2}]
McGasOf == [p \in DOMAIN McPairs \cup {"payout"} |->
    CASE p = "b6" -> None [] p = "payout" -> 3 [] OTHER -> 1]

Intent(c, d, in, out, amount, min) ==
    [origin |-> c, destination |-> d, tokenIn |-> in, tokenOut |-> out,
     amount |-> amount, minAmountOut |-> min]
McIntents == {
    Intent("base", "base", "wB", "uB", 40, 0),
    Intent("base", "base", "uB", "tB", 40, 0),
    Intent("eth", "base", "wE", "uB", 60, 0),
    Intent("eth", "base", "uE", "tB", 60, 10),
    Intent("sol", "base", "wS", "uB", 60, 0),
    Intent("sol", "base", "uS", "uB", 600, 0),
    Intent("eth", "base", "uE", "xB", 60, 0),
    Intent("eth", "base", "wE", "uB", 900, 0),
    Intent("base", "eth", "uB", "uE", 40, 33)}

Balances(u, w) ==
    [t \in UNION {McTokens[c] : c \in {"eth", "base", "sol"}} |->
        CASE t \in {"uB", "uE"} -> u [] t = "wB" -> w [] OTHER -> 0]
McHeld == {Balances(130, 130), Balances(60, 50)}
McWaitMs == [c \in {"eth", "base", "sol"} |-> IF c = "eth" THEN 4 ELSE 1]

=============================================================================
