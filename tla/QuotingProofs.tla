---------------------------- MODULE QuotingProofs ----------------------------
(***************************************************************************)
(* For any market, pools and prices.                                       *)
(*                                                                         *)
(* A swap (SwapSettles): what a step takes in is the least that is enough  *)
(* for the price it moves to, and what it pays the most the curve gives,   *)
(* so no step pays above the price the swap began at; a round reaches the  *)
(* next tick, where the net of that tick is the change of liquidity, or it *)
(* is the last, and no tick is met twice, so there are at most as many     *)
(* rounds as ticks and one.  Trades and mints therefore leave every pool   *)
(* in a state it can be in (PoolsStayOK), and what a pool answers is an    *)
(* amount or nothing.                                                      *)
(*                                                                         *)
(* It favours the pool (SwapFavours).  A trade in two: the whole is in the *)
(* same place as the first part until that ends, and from there on ahead   *)
(* of the second (Leads): the prices it skips are paid for by the curve,   *)
(* so rounding once leaves it with no less.  A trade back undoes the       *)
(* rounds of the trade from the last to the first (Undoes), and each gives *)
(* less than it cost.  A window is in step with the whole pool (InStep)    *)
(* until its ticks end, which is noticed, or there is nothing to be paid.  *)
(*                                                                         *)
(* A quote (QInvariant): a pricing takes a read at a time, so what it has  *)
(* found is stated against what it would find now (PathsOf), which holds   *)
(* for as long as nothing moves.  A quote is then the price of the best of *)
(* all paths, and the second pricing of an unmoved order finds it again,   *)
(* or finds that the account no longer holds what the fill spends.         *)
(***************************************************************************)
EXTENDS Quoting, FiniteSums

-----------------------------------------------------------------------------
(* Amounts.                                                                *)

\* The guess isqrt() makes of a guess.
NextGuess(value, guess) == (guess + value \div guess) \div 2

\* It stays above the root, and a guess it does not lower is below it.
LEMMA NextIs ==
    ASSUME NEW v \in Nat, NEW g \in 1..v
    PROVE  /\ NextGuess(v, g) \in Nat \ {0}
           /\ v < (NextGuess(v, g) + 1) * (NextGuess(v, g) + 1)
           /\ NextGuess(v, g) >= g => g * g <= v
  <1> DEFINE q == v \div g
             r == v % g
             n == NextGuess(v, g)
  <1>1. g \in Nat \ {0} /\ g <= v
    OBVIOUS
  <1>2. q \in Nat /\ r \in Nat /\ r < g /\ v = q * g + r
    <2>1. \A a \in Nat, d \in Nat \ {0} :
              a \div d \in Nat /\ a % d \in Nat /\ a % d < d /\ a = d * (a \div d) + (a % d)
      <3> SUFFICES ASSUME NEW a \in Nat, NEW d \in Nat \ {0}
                   PROVE  a \div d \in Nat /\ a % d \in Nat /\ a % d < d /\ a = d * (a \div d) + (a % d)
        OBVIOUS
      <3>1. a % d \in 0..(d - 1)
        OBVIOUS
      <3>2. a \div d \in Nat
        OBVIOUS
      <3>3. a = d * (a \div d) + (a % d)
        BY Z3
      <3> QED
        BY <3>1, <3>2, <3>3
    <2>2. v = g * q + r
      BY <1>1, <2>1
    <2>3. g * q = q * g
      BY <1>1, <2>1
    <2> QED
      BY <1>1, <2>1, <2>2, <2>3
  <1>3. q # 0
    BY <1>1, <1>2
  <1>4. n = (g + q) \div 2
    BY DEF NextGuess
  <1> HIDE DEF q, r
  <1>5. n \in Nat \ {0} /\ 2 * n <= g + q /\ g + q <= 2 * n + 1
    BY <1>1, <1>2, <1>3, <1>4
  <1> HIDE DEF n
  <1>6. v < (n + 1) * (n + 1)
    <2> DEFINE a == g
               b == q + 1
               m == 2 * (n + 1)
    <2>1. a \in Nat /\ b \in Nat /\ m \in Nat /\ a + b <= m
      BY <1>1, <1>2, <1>5
    <2>2. v < a * b
      <3>1. a * b = q * g + g
        BY <1>1, <1>2
      <3>2. q * g \in Nat
        BY <1>1, <1>2
      <3> QED
        BY <1>1, <1>2, <3>1, <3>2
    <2>3. m * m = 4 * ((n + 1) * (n + 1))
      BY <1>5
    <2>4. (n + 1) * (n + 1) \in Nat
      BY <1>5
    <2> HIDE DEF a, b, m
    <2>5. (a + b) * (a + b) <= m * m
      <3>1. \A x, y \in Nat : x <= y => x * x <= y * y
        BY Z3
      <3> QED
        BY <2>1, <3>1
    <2>6. 4 * (a * b) <= (a + b) * (a + b)
      <3>1. \A x, y \in Nat : 4 * (x * y) <= (x + y) * (x + y)
        <4> SUFFICES ASSUME NEW x \in Nat, NEW y \in Nat PROVE 4 * (x * y) <= (x + y) * (x + y)
          OBVIOUS
        <4>1. (x + y) * (x + y) = 4 * (x * y) + (x - y) * (x - y)
          BY Z3
        <4>2. (x - y) * (x - y) >= 0
          BY Z3
        <4> QED
          BY <4>1, <4>2
      <3> QED
        BY <2>1, <3>1
    <2>7. a * b \in Nat /\ (a + b) * (a + b) \in Nat /\ m * m \in Nat
      BY <2>1
    <2> DEFINE s == (n + 1) * (n + 1)
               ab == a * b
               sum == (a + b) * (a + b)
               mm == m * m
    <2>8. v < ab /\ 4 * ab <= sum /\ sum <= mm /\ mm = 4 * s /\ s \in Nat /\ ab \in Nat /\ sum \in Nat /\ mm \in Nat
      BY <2>2, <2>3, <2>4, <2>5, <2>6, <2>7
    <2> HIDE DEF s, ab, sum, mm
    <2>9. v < s
      BY <2>8
    <2> QED
      BY <2>9 DEF s
  <1>7. ASSUME n >= g PROVE g * g <= v
    <2>1. g <= q
      BY <1>1, <1>2, <1>5, <1>7
    <2>2. g * g <= q * g
      BY <1>1, <1>2, <2>1, Z3
    <2>3. q * g \in Nat /\ g * g \in Nat
      BY <1>1, <1>2
    <2> QED
      BY <1>2, <2>2, <2>3
  <1> QED
    BY <1>5, <1>6, <1>7 DEF n

\* The floor of a square root.
IsRoot(r, v) == r \in Nat /\ r * r <= v /\ v < (r + 1) * (r + 1)

\* isqrt() is the floor of the square root.
LEMMA IsqrtIsRoot ==
    ASSUME NEW v \in Nat
    PROVE  IsRoot(isqrt(v), v)
  <1>1. CASE v < 2
    BY <1>1 DEF isqrt, IsRoot
  <1>2. CASE ~(v < 2)
    <2> DEFINE Step(f, g) == IF NextGuess(v, g) < g THEN f[NextGuess(v, g)] ELSE g
               F(n, f) == f = [g \in 1..n |-> Step(f, g)]
               Bad == {n \in Nat : n <= v /\ ~(\E f : F(n, f))}
    <2>1. Bad = {}
      <3>1. SUFFICES ASSUME Bad # {} PROVE FALSE
        OBVIOUS
      <3>2. PICK n \in Bad : \A m \in Bad : n <= m
        <4>1. Bad \in SUBSET Nat
          OBVIOUS
        <4> HIDE DEF Bad
        <4> QED
          BY <3>1, <4>1, Least
      <3>3. n \in Nat /\ n <= v /\ ~(\E f : F(n, f))
        BY <3>2
      <3>4. n # 0
        <4> DEFINE e == [g \in 1..0 |-> 0]
        <4>1. F(0, e)
          <5>1. 1..0 = {}
            OBVIOUS
          <5> QED
            BY <5>1
        <4> HIDE DEF F
        <4> QED
          BY <3>3, <4>1
      <3>5. n - 1 \in Nat /\ n - 1 < n
        BY <3>3, <3>4
      <3>6. \E f : F(n - 1, f)
        <4>1. n - 1 \notin Bad
          <5> HIDE DEF Bad
          <5> QED
            BY <3>2, <3>3, <3>5
        <4> HIDE DEF F
        <4> QED
          BY <3>3, <3>5, <4>1
      <3>7. PICK f : F(n - 1, f)
        BY <3>6
      <3> DEFINE D == 1..(n - 1)
                 E == 1..n
                 h == [g \in E |-> IF g \in D THEN f[g] ELSE Step(f, g)]
      <3>8. \A g \in E : NextGuess(v, g) < g => NextGuess(v, g) \in D
        <4> SUFFICES ASSUME NEW g \in E, NextGuess(v, g) < g PROVE NextGuess(v, g) \in D
          OBVIOUS
        <4>1. g \in 1..v
          BY <3>3
        <4>2. NextGuess(v, g) \in Nat \ {0}
          BY <4>1, NextIs
        <4> QED
          BY <3>5, <4>2
      <3>9. D \subseteq E
        BY <3>3, <3>5
      <3>10. \A g \in D : f[g] = Step(f, g)
        BY <3>7
      <3> HIDE DEF D, E
      <3>11. \A g \in D : h[g] = f[g]
        BY <3>9
      <3>12. \A g \in E : h[g] = Step(h, g)
        <4> SUFFICES ASSUME NEW g \in E PROVE h[g] = Step(h, g)
          OBVIOUS
        <4>1. Step(h, g) = Step(f, g)
          BY <3>8, <3>11
        <4> QED
          BY <3>10, <4>1
      <3>13. F(n, h)
        BY <3>12 DEF E
      <3> HIDE DEF F
      <3> QED
        BY <3>3, <3>13
    <2>2. \E f : F(v, f)
      <3> HIDE DEF F
      <3> QED
        BY <2>1
    <2> DEFINE newton == CHOOSE f : F(v, f)
    <2>3. F(v, newton)
      <3> HIDE DEF F
      <3> QED
        BY <2>2
    <2>4. isqrt(v) = newton[v]
      BY <1>2 DEF isqrt, NextGuess
    <2> HIDE DEF newton
    <2>5. \A g \in 1..v : newton[g] = Step(newton, g)
      BY <2>3
    <2> DEFINE Above(g) == v < (g + 1) * (g + 1)
               Wrong == {g \in Nat : g \in 1..v /\ Above(g) /\ ~IsRoot(newton[g], v)}
    <2>6. Wrong = {}
      <3>1. SUFFICES ASSUME Wrong # {} PROVE FALSE
        OBVIOUS
      <3>2. PICK g \in Wrong : \A m \in Wrong : g <= m
        <4>1. Wrong \in SUBSET Nat
          OBVIOUS
        <4> HIDE DEF Wrong
        <4> QED
          BY <3>1, <4>1, Least
      <3>3. g \in Nat /\ g \in 1..v /\ Above(g) /\ ~IsRoot(newton[g], v)
        BY <3>2
      <3> DEFINE next == NextGuess(v, g)
      <3>4. next \in Nat \ {0} /\ Above(next) /\ (next >= g => g * g <= v)
        BY <3>3, NextIs
      <3> HIDE DEF next
      <3>5. CASE next < g
        <4>1. next \in 1..v
          BY <3>3, <3>4, <3>5
        <4>2. next \notin Wrong
          <5> HIDE DEF Wrong
          <5> QED
            BY <3>2, <3>3, <3>4, <3>5
        <4>3. IsRoot(newton[next], v)
          BY <3>4, <4>1, <4>2
        <4>4. newton[g] = newton[next]
          BY <2>5, <3>3, <3>5 DEF next
        <4> QED
          BY <3>3, <4>3, <4>4
      <3>6. CASE next >= g
        <4>1. newton[g] = g
          BY <2>5, <3>3, <3>4, <3>6 DEF next
        <4> QED
          BY <3>3, <3>4, <3>6, <4>1 DEF IsRoot
      <3> QED
        BY <3>3, <3>4, <3>5, <3>6
    <2>7. v \in 1..v /\ Above(v)
      <3>1. (v + 1) * (v + 1) = v * v + 2 * v + 1 /\ v * v \in Nat
        OBVIOUS
      <3> QED
        BY <1>2, <3>1
    <2> HIDE DEF Above
    <2> QED
      BY <2>4, <2>6, <2>7
  <1> QED
    BY <1>1, <1>2

-----------------------------------------------------------------------------
(* The best of some.                                                       *)

\* Of finitely many integers one is the greatest.
LEMMA Highest ==
    ASSUME NEW S, IsFiniteSet(S), S # {}, NEW f \in [S -> Int]
    PROVE  \E x \in S : \A y \in S : f[x] >= f[y]
  <1> DEFINE Top(T) == \E x \in T : \A y \in T : f[x] >= f[y]
             B == {T \in SUBSET S : T # {} /\ ~Top(T)}
  <1>1. SUFFICES ASSUME B # {} PROVE FALSE
    OBVIOUS
  <1>2. PICK s \in B : \A x \in s : s \ {x} \notin B
    <2>1. B \in SUBSET SUBSET S
      OBVIOUS
    <2> HIDE DEF B
    <2> QED
      BY <1>1, <2>1, Smallest
  <1>3. s \in SUBSET S /\ s # {} /\ ~Top(s)
    BY <1>2
  <1>4. PICK x \in s : TRUE
    BY <1>3
  <1>5. s \ {x} = {} \/ Top(s \ {x})
    <2>1. s \ {x} \in SUBSET S /\ s \ {x} \notin B
      BY <1>2, <1>3, <1>4
    <2> HIDE DEF Top
    <2> QED
      BY <2>1
  <1>6. f[x] \in Int /\ \A y \in s : f[y] \in Int
    BY <1>3, <1>4
  <1>7. CASE s \ {x} = {}
    BY <1>3, <1>4, <1>6, <1>7
  <1>8. CASE Top(s \ {x})
    <2>1. PICK z \in s \ {x} : \A y \in s \ {x} : f[z] >= f[y]
      BY <1>8
    <2>2. CASE f[x] >= f[z]
      BY <1>3, <1>4, <1>6, <2>1, <2>2
    <2>3. CASE f[z] >= f[x]
      BY <1>3, <1>4, <1>6, <2>1, <2>3
    <2> QED
      BY <1>4, <1>6, <2>1, <2>2, <2>3
  <1> QED
    BY <1>5, <1>7, <1>8

\* The best of some quotes is one of them.
LEMMA BestQuote ==
    ASSUME NEW S, IsFiniteSet(S), S # {}, \A q \in S : q.amountOut \in Int
    PROVE  MaxBy(S, AmountOut) \in S
  <1> DEFINE f == [q \in S |-> q.amountOut]
  <1>1. PICK x \in S : \A y \in S : f[x] >= f[y]
    <2>1. f \in [S -> Int]
      OBVIOUS
    <2> HIDE DEF f
    <2> QED
      BY <2>1, Highest
  <1>2. \E z \in S : \A y \in S : AmountOut(z) >= AmountOut(y)
    BY <1>1 DEF AmountOut
  <1> QED
    BY <1>2 DEF MaxBy

\* ... of some paths, net of their gas,
LEMMA BestNet ==
    ASSUME NEW S, IsFiniteSet(S), S # {}, \A q \in S : q.amountOut \in Int /\ q.gasCost \in Int
    PROVE  MaxBy(S, Net) \in S
  <1> DEFINE f == [q \in S |-> q.amountOut - q.gasCost]
  <1>1. PICK x \in S : \A y \in S : f[x] >= f[y]
    <2>1. f \in [S -> Int]
      OBVIOUS
    <2> HIDE DEF f
    <2> QED
      BY <2>1, Highest
  <1>2. \E z \in S : \A y \in S : Net(z) >= Net(y)
    BY <1>1 DEF Net
  <1> QED
    BY <1>2 DEF MaxBy

\* ... and of some bridged ones, net of every cost.
LEMMA BestBridged ==
    ASSUME NEW S, IsFiniteSet(S), S # {}, \A q \in S : netAmountOut(q) \in Int
    PROVE  MaxBy(S, netAmountOut) \in S
  <1> DEFINE f == [q \in S |-> netAmountOut(q)]
  <1>1. PICK x \in S : \A y \in S : f[x] >= f[y]
    <2>1. f \in [S -> Int]
      OBVIOUS
    <2> HIDE DEF f
    <2> QED
      BY <2>1, Highest
  <1>2. \E z \in S : \A y \in S : netAmountOut(z) >= netAmountOut(y)
    BY <1>1
  <1> QED
    BY <1>2 DEF MaxBy

\* What a function makes of a finite set is finite.
LEMMA ImageFinite ==
    ASSUME NEW S, IsFiniteSet(S), NEW f
    PROVE  IsFiniteSet({f[x] : x \in S})
  <1> DEFINE T == {f[x] : x \in S}
             g == [x \in S |-> f[x]]
  <1>1. g \in Surjection(S, T)
    BY DEF Surjection
  <1> HIDE DEF g, T
  <1>2. IsFiniteSet(T)
    BY <1>1, FS_Surjection
  <1> QED
    BY <1>2 DEF T

\* Of a finite set there are the n greatest.
LEMMA Greatest ==
    ASSUME NEW C, IsFiniteSet(C), NEW g \in [C -> Int], NEW n \in Nat, n <= Cardinality(C)
    PROVE  \E S \in SUBSET C : Cardinality(S) = n /\ \A s \in S, o \in C \ S : g[s] >= g[o]
  <1> DEFINE Top(k) == \E S \in SUBSET C :
                           Cardinality(S) = k /\ \A s \in S, o \in C \ S : g[s] >= g[o]
             B == {k \in Nat : k <= Cardinality(C) /\ ~Top(k)}
  <1>1. SUFFICES ASSUME B # {} PROVE FALSE
    OBVIOUS
  <1>2. PICK k \in B : \A m \in B : k <= m
    <2>1. B \in SUBSET Nat
      OBVIOUS
    <2> HIDE DEF B
    <2> QED
      BY <1>1, <2>1, Least
  <1>3. k \in Nat /\ k <= Cardinality(C) /\ ~Top(k)
    BY <1>2
  <1>4. Top(0)
    <2>1. {} \in SUBSET C /\ Cardinality({}) = 0
      BY FS_EmptySet
    <2> QED
      BY <2>1
  <1>5. k # 0 /\ k - 1 \in Nat /\ k - 1 < k
    <2> HIDE DEF Top
    <2> QED
      BY <1>3, <1>4
  <1>6. Cardinality(C) \in Nat
    BY FS_CardinalityType
  <1>7. Top(k - 1)
    <2>1. k - 1 \notin B
      <3> HIDE DEF B
      <3> QED
        BY <1>2, <1>3, <1>5
    <2> HIDE DEF Top
    <2> QED
      BY <1>3, <1>5, <1>6, <2>1
  <1>8. PICK S \in SUBSET C : Cardinality(S) = k - 1 /\ \A s \in S, o \in C \ S : g[s] >= g[o]
    BY <1>7
  <1>9. IsFiniteSet(S) /\ IsFiniteSet(C \ S) /\ C \ S # {}
    <2>1. IsFiniteSet(S) /\ IsFiniteSet(C \ S)
      BY FS_Subset
    <2>2. C \ S # {}
      BY <1>3, <1>5, <1>6, <1>8
    <2> QED
      BY <2>1, <2>2
  <1>10. PICK x \in C \ S : \A y \in C \ S : g[x] >= g[y]
    <2> DEFINE D == C \ S
               h == [y \in D |-> g[y]]
    <2>1. h \in [D -> Int] /\ IsFiniteSet(D) /\ D # {}
      BY <1>9
    <2>2. \A y \in D : h[y] = g[y]
      OBVIOUS
    <2> HIDE DEF D, h
    <2>3. \E x \in D : \A y \in D : h[x] >= h[y]
      BY <2>1, Highest
    <2> QED
      BY <2>2, <2>3 DEF D
  <1> DEFINE T == S \cup {x}
  <1>11. Cardinality(T) = k
    <2>1. Cardinality(S \cup {x}) = Cardinality(S) + 1
      BY <1>9, <1>10, FS_AddElement
    <2> QED
      BY <1>3, <1>8, <2>1
  <1>12. \A s \in T, o \in C \ T : g[s] >= g[o]
    BY <1>8, <1>10
  <1> QED
    BY <1>3, <1>11, <1>12

-----------------------------------------------------------------------------
(* Products and quotients.                                                 *)

\* Products keep the order of their factors, and show it.
LEMMA Times ==
    /\ \A x, y \in Nat : x * y \in Nat /\ x * y = y * x
    /\ \A x, y, z \in Nat : x <= y => x * z <= y * z
    /\ \A x, y \in Nat, z \in Nat \ {0} : x < y => x * z < y * z
    /\ \A x, y \in Nat, z \in Nat \ {0} : x * z <= y * z => x <= y
    /\ \A x, y \in Nat, z \in Nat \ {0} : x * z < y * z => x < y
    /\ \A x, y, z \in Nat : (x * y) * z = x * (y * z)
    /\ \A x, y, z \in Nat : (x + y) * z = x * z + y * z
    /\ \A x, y, z \in Nat : x <= y => (y - x) * z = y * z - x * z
    /\ \A x, y \in Nat \ {0} : x * y \in Nat \ {0}
  <1>1. \A x, y \in Nat : x * y \in Nat /\ x * y = y * x
    BY Z3
  <1>2. \A x, y, z \in Nat : x <= y => x * z <= y * z
    BY Z3
  <1>3. \A x, y \in Nat, z \in Nat \ {0} : x < y => x * z < y * z
    BY Z3
  <1>4. \A x, y \in Nat, z \in Nat \ {0} : x * z <= y * z => x <= y
    <2> SUFFICES ASSUME NEW x \in Nat, NEW y \in Nat, NEW z \in Nat \ {0}, x * z <= y * z, y < x
                 PROVE  FALSE
      OBVIOUS
    <2>1. y * z < x * z
      BY <1>3
    <2>2. x * z \in Nat /\ y * z \in Nat
      BY <1>1
    <2> QED
      BY <2>1, <2>2
  <1>5. \A x, y \in Nat, z \in Nat \ {0} : x * z < y * z => x < y
    <2> SUFFICES ASSUME NEW x \in Nat, NEW y \in Nat, NEW z \in Nat \ {0}, x * z < y * z, y <= x
                 PROVE  FALSE
      OBVIOUS
    <2>1. y * z <= x * z
      BY <1>2
    <2>2. x * z \in Nat /\ y * z \in Nat
      BY <1>1
    <2> QED
      BY <2>1, <2>2
  <1>6. \A x, y, z \in Nat : (x * y) * z = x * (y * z)
    BY Z3
  <1>7. \A x, y, z \in Nat : (x + y) * z = x * z + y * z
    BY Z3
  <1>8. \A x, y, z \in Nat : x <= y => (y - x) * z = y * z - x * z
    BY Z3
  <1>9. \A x, y \in Nat \ {0} : x * y \in Nat \ {0}
    BY Z3
  <1> QED
    BY <1>1, <1>2, <1>3, <1>4, <1>5, <1>6, <1>7, <1>8, <1>9

\* A quotient is the largest number whose product with the divisor is no more.
LEMMA Floor ==
    ASSUME NEW a \in Nat, NEW d \in Nat \ {0}
    PROVE  /\ a \div d \in Nat /\ (a \div d) * d <= a /\ a < (a \div d) * d + d
           /\ \A x \in Nat : x * d <= a => x <= a \div d
  <1> DEFINE q == a \div d
             r == a % d
  <1>1. r \in 0..(d - 1) /\ q \in Nat
    OBVIOUS
  <1>2. a = d * q + r
    BY Z3
  <1>3. d * q = q * d /\ q * d \in Nat
    BY <1>1, Times
  <1> HIDE DEF q, r
  <1>4. q * d <= a /\ a < q * d + d
    BY <1>1, <1>2, <1>3
  <1>5. ASSUME NEW x \in Nat, x * d <= a PROVE x <= q
    <2>1. (q + 1) * d = q * d + d
      BY <1>1, <1>3
    <2>2. x * d < (q + 1) * d
      BY <1>3, <1>4, <1>5, <2>1, Times
    <2>3. x < q + 1
      BY <1>1, <2>2, Times
    <2> QED
      BY <1>1, <2>3
  <1> QED
    BY <1>1, <1>4, <1>5 DEF q

\* Rounded up it is the smallest whose product is no less.
LEMMA Ceiling ==
    ASSUME NEW v \in Nat, NEW m \in Nat, NEW d \in Nat \ {0}
    PROVE  /\ mulDivRoundingUp(v, m, d) \in Nat
           /\ v * m <= mulDivRoundingUp(v, m, d) * d
           /\ mulDivRoundingUp(v, m, d) * d < v * m + d
           /\ \A x \in Nat : v * m <= x * d => mulDivRoundingUp(v, m, d) <= x
  <1> DEFINE a == v * m
             q == a \div d
             up == mulDivRoundingUp(v, m, d)
  <1>1. a \in Nat
    BY Times
  <1>2. up = IF q * d = a THEN q ELSE q + 1
    BY DEF mulDivRoundingUp, mulDiv
  <1> HIDE DEF a, up
  <1>3. q \in Nat /\ q * d <= a /\ a < q * d + d
    BY <1>1, Floor
  <1> HIDE DEF q
  <1>4. q * d \in Nat /\ (q + 1) * d = q * d + d
    BY <1>3, Times
  <1>5. up \in Nat /\ a <= up * d /\ up * d < a + d
    BY <1>1, <1>2, <1>3, <1>4
  <1>6. ASSUME NEW x \in Nat, a <= x * d PROVE up <= x
    <2>1. CASE q * d = a
      BY <1>2, <1>3, <1>6, <2>1, Times
    <2>2. CASE q * d # a
      <3>1. q * d < x * d
        BY <1>1, <1>3, <1>4, <1>6, <2>2, Times
      <3>2. q < x
        BY <1>3, <3>1, Times
      <3> QED
        BY <1>2, <1>3, <2>2, <3>2
    <2> QED
      BY <2>1, <2>2
  <1> QED
    BY <1>5, <1>6 DEF a, up

-----------------------------------------------------------------------------
(* A step of a swap.                                                       *)

\* Prices between which a step moves: down or up.
Ways(from, to, down) == IF down THEN to <= from ELSE from <= to

\* What is in is enough to move the price, and a pool that moves it can pay what is out,
\* by the curve of its liquidity and with nothing rounded.
Enough(from, to, liquidity, in, down) ==
    IF down THEN (liquidity * Q96) * (from - to) <= (in * to) * from
    ELSE liquidity * (to - from) <= in * Q96
Pays(from, to, liquidity, out, down) ==
    IF down THEN out * Q96 <= liquidity * (from - to)
    ELSE (out * from) * to <= (liquidity * Q96) * (to - from)

\* InFor asks for the least that is enough.
LEMMA InForIs ==
    ASSUME NEW from \in Nat \ {0}, NEW to \in Nat \ {0}, NEW liquidity \in Nat,
           NEW down \in BOOLEAN, Ways(from, to, down)
    PROVE  /\ InFor(from, to, liquidity, down) \in Nat
           /\ Enough(from, to, liquidity, InFor(from, to, liquidity, down), down)
           /\ \A x \in Nat : Enough(from, to, liquidity, x, down)
                                 => InFor(from, to, liquidity, down) <= x
  <1> DEFINE in == InFor(from, to, liquidity, down)
  <1>0. Q96 \in Nat \ {0}
    BY AmountsAssumption DEF AmountsAssumption
  <1>1. CASE down
    <2> DEFINE lq == liquidity * Q96
               gap == from - to
               j == mulDivRoundingUp(lq, gap, from)
    <2>1. lq \in Nat /\ gap \in Nat
      BY <1>0, <1>1, Times DEF Ways
    <2>2. in = mulDivRoundingUp(j, 1, to)
      BY <1>1 DEF InFor, getAmount0Delta
    <2> HIDE DEF lq, gap, in
    <2>3. j \in Nat /\ lq * gap <= j * from /\ \A x \in Nat : lq * gap <= x * from => j <= x
      BY <2>1, Ceiling
    <2> HIDE DEF j
    <2>4. in \in Nat /\ j * 1 <= in * to /\ \A x \in Nat : j * 1 <= x * to => in <= x
      BY <2>2, <2>3, Ceiling
    <2>5. j <= in * to /\ in * to \in Nat
      BY <2>3, <2>4, Times
    <2>6. lq * gap <= (in * to) * from
      <3>1. j * from <= (in * to) * from
        BY <2>3, <2>5, Times
      <3>2. lq * gap \in Nat /\ j * from \in Nat /\ (in * to) * from \in Nat
        BY <2>1, <2>3, <2>5, Times
      <3> QED
        BY <2>3, <3>1, <3>2
    <2>7. ASSUME NEW x \in Nat, lq * gap <= (x * to) * from PROVE in <= x
      <3>1. x * to \in Nat
        BY Times
      <3>2. j <= x * to
        BY <2>3, <2>7, <3>1
      <3>3. j * 1 <= x * to
        BY <2>3, <3>2
      <3> QED
        BY <2>4, <3>3
    <2> QED
      BY <1>1, <2>4, <2>6, <2>7 DEF Enough, in, lq, gap
  <1>2. CASE ~down
    <2> DEFINE gap == to - from
    <2>1. gap \in Nat
      BY <1>2 DEF Ways
    <2>2. in = mulDivRoundingUp(liquidity, gap, Q96)
      BY <1>2 DEF InFor, getAmount1Delta
    <2> HIDE DEF gap, in
    <2>3. in \in Nat /\ liquidity * gap <= in * Q96 /\ \A x \in Nat : liquidity * gap <= x * Q96 => in <= x
      BY <1>0, <2>1, <2>2, Ceiling
    <2> QED
      BY <1>2, <2>3 DEF Enough, in, gap
  <1> QED
    BY <1>1, <1>2

\* OutFor gives the most that can be paid.
LEMMA OutForIs ==
    ASSUME NEW from \in Nat \ {0}, NEW to \in Nat \ {0}, NEW liquidity \in Nat,
           NEW down \in BOOLEAN, Ways(from, to, down)
    PROVE  /\ OutFor(from, to, liquidity, down) \in Nat
           /\ Pays(from, to, liquidity, OutFor(from, to, liquidity, down), down)
           /\ \A y \in Nat : Pays(from, to, liquidity, y, down)
                                 => y <= OutFor(from, to, liquidity, down)
  <1> DEFINE out == OutFor(from, to, liquidity, down)
  <1>0. Q96 \in Nat \ {0}
    BY AmountsAssumption DEF AmountsAssumption
  <1>1. CASE down
    <2> DEFINE gap == from - to
               lg == liquidity * gap
    <2>1. gap \in Nat /\ lg \in Nat
      BY <1>1, Times DEF Ways
    <2>2. out = lg \div Q96
      BY <1>1 DEF OutFor, getAmount1Delta, mulDiv
    <2> HIDE DEF out, lg
    <2>3. out \in Nat /\ out * Q96 <= lg /\ \A y \in Nat : y * Q96 <= lg => y <= out
      BY <1>0, <2>1, <2>2, Floor
    <2> QED
      BY <1>1, <2>3 DEF Pays, out, lg, gap
  <1>2. CASE ~down
    <2> DEFINE gap == to - from
               lq == liquidity * Q96
               lg == lq * gap
               j == lg \div to
    <2>1. gap \in Nat /\ lq \in Nat /\ lg \in Nat
      BY <1>0, <1>2, Times DEF Ways
    <2>2. out = j \div from
      BY <1>2 DEF OutFor, getAmount0Delta, mulDiv
    <2> HIDE DEF out, lg
    <2>3. j \in Nat /\ j * to <= lg /\ \A y \in Nat : y * to <= lg => y <= j
      BY <2>1, Floor
    <2> HIDE DEF j
    <2>4. out \in Nat /\ out * from <= j /\ \A y \in Nat : y * from <= j => y <= out
      BY <2>2, <2>3, Floor
    <2>5. (out * from) * to <= lg
      <3>1. out * from \in Nat
        BY <2>4, Times
      <3>2. (out * from) * to <= j * to
        BY <2>3, <2>4, <3>1, Times
      <3>3. (out * from) * to \in Nat /\ j * to \in Nat
        BY <2>3, <3>1, Times
      <3> QED
        BY <2>1, <2>3, <3>2, <3>3
    <2>6. ASSUME NEW y \in Nat, (y * from) * to <= lg PROVE y <= out
      <3>1. y * from \in Nat
        BY Times
      <3>2. y * from <= j
        BY <2>3, <2>6, <3>1
      <3> QED
        BY <2>4, <3>2
    <2> QED
      BY <1>2, <2>4, <2>5, <2>6 DEF Pays, out, lg, lq, gap
  <1> QED
    BY <1>1, <1>2

\* More than enough is enough.
LEMMA EnoughMore ==
    ASSUME NEW from \in Nat \ {0}, NEW to \in Nat \ {0}, NEW liquidity \in Nat, NEW down \in BOOLEAN,
           NEW x \in Nat, NEW y \in Nat, x <= y, Ways(from, to, down), Enough(from, to, liquidity, x, down)
    PROVE  Enough(from, to, liquidity, y, down)
  <1>0. Q96 \in Nat \ {0}
    BY AmountsAssumption DEF AmountsAssumption
  <1>1. CASE down
    <2> DEFINE need == (liquidity * Q96) * (from - to)
    <2>1. from - to \in Nat /\ liquidity * Q96 \in Nat
      BY <1>0, <1>1, Times DEF Ways
    <2>2. need \in Nat
      BY <2>1, Times
    <2>3. x * to \in Nat /\ y * to \in Nat /\ x * to <= y * to
      BY Times
    <2>4. (x * to) * from \in Nat /\ (y * to) * from \in Nat /\ (x * to) * from <= (y * to) * from
      BY <2>3, Times
    <2>5. need <= (x * to) * from
      BY <1>1 DEF Enough
    <2> HIDE DEF need
    <2>6. need <= (y * to) * from
      BY <2>2, <2>4, <2>5
    <2> QED
      BY <1>1, <2>6 DEF Enough, need
  <1>2. CASE ~down
    <2> DEFINE need == liquidity * (to - from)
    <2>1. to - from \in Nat
      BY <1>2 DEF Ways
    <2>2. need \in Nat
      BY <2>1, Times
    <2>3. x * Q96 \in Nat /\ y * Q96 \in Nat /\ x * Q96 <= y * Q96
      BY <1>0, Times
    <2>4. need <= x * Q96
      BY <1>2 DEF Enough
    <2> HIDE DEF need
    <2>5. need <= y * Q96
      BY <2>2, <2>3, <2>4
    <2> QED
      BY <1>2, <2>5 DEF Enough, need
  <1> QED
    BY <1>1, <1>2

\* The price that an amount moves it to, down: the lowest it is enough for.
LEMMA LowestPrice ==
    ASSUME NEW c \in Nat \ {0}, NEW to \in Nat \ {0}, NEW liquidity \in Nat \ {0}, NEW x \in Nat,
           to <= c, ~Enough(c, to, liquidity, x, TRUE)
    PROVE  /\ getNextSqrtPriceFromInput(c, liquidity, x, TRUE) \in (to + 1)..c
           /\ Enough(c, getNextSqrtPriceFromInput(c, liquidity, x, TRUE), liquidity, x, TRUE)
           /\ \A y \in 1..c : Enough(c, y, liquidity, x, TRUE)
                                  => getNextSqrtPriceFromInput(c, liquidity, x, TRUE) <= y
  <1> DEFINE n == getNextSqrtPriceFromInput(c, liquidity, x, TRUE)
             lq == liquidity * Q96
             xc == x * c
             all == lq + xc
  <1>0. Q96 \in Nat \ {0}
    BY AmountsAssumption DEF AmountsAssumption
  <1>1. lq \in Nat \ {0} /\ xc \in Nat
    BY <1>0, Times
  <1>2. all \in Nat \ {0}
    BY <1>1
  <1>3. ASSUME NEW y \in 1..c
        PROVE  Enough(c, y, liquidity, x, TRUE) <=> lq * c <= y * all
    <2>1. y \in Nat \ {0} /\ y <= c
      OBVIOUS
    <2>2. (c - y) * lq = c * lq - y * lq /\ c - y \in Nat
      BY <1>1, <2>1, Times
    <2>3. lq * (c - y) = (c - y) * lq /\ c * lq = lq * c /\ y * lq \in Nat /\ lq * c \in Nat
      BY <1>1, <2>1, <2>2, Times
    <2>4. (x * y) * c = y * xc
      <3>1. x * y = y * x
        BY <2>1, Times
      <3> QED
        BY <2>1, <3>1, Times
    <2>5. y * all = y * lq + y * xc /\ y * xc \in Nat
      <3>1. all * y = lq * y + xc * y
        BY <1>1, <2>1, Times
      <3>2. all * y = y * all /\ lq * y = y * lq /\ xc * y = y * xc /\ y * xc \in Nat
        BY <1>1, <1>2, <2>1, Times
      <3> QED
        BY <3>1, <3>2
    <2>6. Enough(c, y, liquidity, x, TRUE) <=> lq * (c - y) <= (x * y) * c
      BY DEF Enough
    <2> DEFINE lqc == lq * c
               ylq == y * lq
               yxc == y * xc
               yall == y * all
    <2>7. /\ Enough(c, y, liquidity, x, TRUE) <=> lqc - ylq <= yxc
          /\ yall = ylq + yxc /\ lqc \in Nat /\ ylq \in Nat /\ yxc \in Nat
      BY <2>2, <2>3, <2>4, <2>5, <2>6
    <2> HIDE DEF lqc, ylq, yxc, yall
    <2>8. lqc - ylq <= yxc <=> lqc <= yall
      BY <2>7
    <2> QED
      BY <2>7, <2>8 DEF lqc, yall
  <1>4. n \in Nat /\ lq * c <= n * all /\ \A y \in Nat : lq * c <= y * all => n <= y
    <2>1. CASE x = 0
      <3>1. n = c
        BY <2>1 DEF getNextSqrtPriceFromInput
      <3>2. xc = 0
        BY <2>1
      <3>3. all = lq
        BY <1>1, <3>2
      <3> HIDE DEF n, all, lq
      <3>4. lq * c = c * all /\ c * all \in Nat
        BY <1>1, <3>3, Times
      <3>5. \A y \in Nat : c * all <= y * all => c <= y
        BY <1>2, Times
      <3> QED
        BY <3>1, <3>4, <3>5
    <2>2. CASE x # 0
      <3>1. n = mulDivRoundingUp(lq, c, all)
        BY <2>2 DEF getNextSqrtPriceFromInput
      <3> HIDE DEF n, all, lq
      <3> QED
        BY <1>1, <1>2, <3>1, Ceiling
    <2> QED
      BY <2>1, <2>2
  <1> HIDE DEF n, all, lq, xc
  <1>5. n <= c
    <2>1. c \in 1..c /\ lq * (c - c) <= (x * c) * c
      <3>1. c - c = 0
        OBVIOUS
      <3>2. lq * 0 = 0
        BY <1>1
      <3>3. (x * c) * c \in Nat
        <4>1. x * c \in Nat
          BY Times
        <4> QED
          BY <4>1, Times
      <3> QED
        BY <3>1, <3>2, <3>3
    <2>2. Enough(c, c, liquidity, x, TRUE)
      BY <2>1 DEF Enough, lq
    <2> QED
      BY <1>3, <1>4, <2>1, <2>2
  <1>6. to < n
    <2>1. to \in 1..c
      OBVIOUS
    <2>2. ~(lq * c <= to * all)
      BY <1>3, <2>1
    <2>3. lq * c \in Nat /\ to * all \in Nat /\ n * all \in Nat
      BY <1>1, <1>2, <1>4, Times
    <2>4. to * all < n * all
      BY <1>4, <2>2, <2>3
    <2> QED
      BY <1>2, <1>4, <2>4, Times
  <1>7. n \in (to + 1)..c
    BY <1>4, <1>5, <1>6
  <1>8. n \in 1..c
    BY <1>7
  <1>9. Enough(c, n, liquidity, x, TRUE)
    BY <1>3, <1>4, <1>8
  <1>10. \A y \in 1..c : Enough(c, y, liquidity, x, TRUE) => n <= y
    <2> SUFFICES ASSUME NEW y \in 1..c, Enough(c, y, liquidity, x, TRUE) PROVE n <= y
      OBVIOUS
    <2>1. lq * c <= y * all
      BY <1>3, Zenon
    <2>2. y \in Nat
      OBVIOUS
    <2> QED
      BY <1>4, <2>1, <2>2
  <1> QED
    BY <1>7, <1>9, <1>10 DEF n

\* ... and up: the highest.
LEMMA HighestPrice ==
    ASSUME NEW c \in Nat \ {0}, NEW to \in Nat \ {0}, NEW liquidity \in Nat \ {0}, NEW x \in Nat,
           c <= to, ~Enough(c, to, liquidity, x, FALSE)
    PROVE  /\ getNextSqrtPriceFromInput(c, liquidity, x, FALSE) \in c..(to - 1)
           /\ Enough(c, getNextSqrtPriceFromInput(c, liquidity, x, FALSE), liquidity, x, FALSE)
           /\ \A y \in Nat : y >= c /\ Enough(c, y, liquidity, x, FALSE)
                                 => y <= getNextSqrtPriceFromInput(c, liquidity, x, FALSE)
  <1> DEFINE n == getNextSqrtPriceFromInput(c, liquidity, x, FALSE)
             xq == x * Q96
             rise == xq \div liquidity
  <1>0. Q96 \in Nat \ {0}
    BY AmountsAssumption DEF AmountsAssumption
  <1>1. xq \in Nat
    BY <1>0, Times
  <1>2. n = c + rise
    BY DEF getNextSqrtPriceFromInput, mulDiv
  <1> HIDE DEF n, xq
  <1>3. rise \in Nat /\ rise * liquidity <= xq /\ \A y \in Nat : y * liquidity <= xq => y <= rise
    BY <1>1, Floor
  <1> HIDE DEF rise
  <1>4. n \in Nat \ {0} /\ n >= c /\ n - c = rise
    BY <1>2, <1>3
  <1>5. \A y \in Nat : y >= c => (Enough(c, y, liquidity, x, FALSE) <=> (y - c) * liquidity <= xq)
    <2> SUFFICES ASSUME NEW y \in Nat, y >= c
                 PROVE  Enough(c, y, liquidity, x, FALSE) <=> (y - c) * liquidity <= xq
      OBVIOUS
    <2>1. y - c \in Nat
      OBVIOUS
    <2>2. liquidity * (y - c) = (y - c) * liquidity
      BY <2>1, Times
    <2> QED
      BY <2>2 DEF Enough, xq
  <1>6. Enough(c, n, liquidity, x, FALSE)
    BY <1>3, <1>4, <1>5
  <1>7. \A y \in Nat : y >= c /\ Enough(c, y, liquidity, x, FALSE) => y <= n
    <2> SUFFICES ASSUME NEW y \in Nat, y >= c, Enough(c, y, liquidity, x, FALSE) PROVE y <= n
      OBVIOUS
    <2>0. y - c \in Nat
      OBVIOUS
    <2>a. (y - c) * liquidity <= xq
      BY <1>5, Zenon
    <2>1. y - c \in Nat /\ (y - c) * liquidity <= xq
      BY <2>0, <2>a
    <2>2. y - c <= rise
      BY <1>3, <2>1
    <2> QED
      BY <1>3, <1>4, <2>2
  <1>8. n < to
    <2>0. to - c \in Nat /\ to >= c
      OBVIOUS
    <2>a. ~((to - c) * liquidity <= xq)
      BY <1>5, <2>0, Zenon
    <2>1. to - c \in Nat /\ ~((to - c) * liquidity <= xq)
      BY <2>0, <2>a
    <2>2. (to - c) * liquidity \in Nat /\ rise * liquidity \in Nat
      BY <1>3, <2>1, Times
    <2>3. rise * liquidity < (to - c) * liquidity
      BY <1>1, <1>3, <2>1, <2>2
    <2>4. rise < to - c
      BY <1>3, <2>1, <2>3, Times
    <2> QED
      BY <1>2, <1>3, <2>4
  <1>9. n \in c..(to - 1)
    BY <1>4, <1>8
  <1> QED
    BY <1>6, <1>7, <1>9 DEF n

\* A step goes as far as its amount is enough for, and not past the target.
LEMMA NextPriceIs ==
    ASSUME NEW c \in Nat \ {0}, NEW t \in Nat \ {0}, NEW liquidity \in Nat, NEW x \in Nat
    PROVE  /\ NextPrice(c, t, liquidity, x) \in Nat \ {0}
           /\ Ways(c, NextPrice(c, t, liquidity, x), c >= t) /\ Ways(NextPrice(c, t, liquidity, x), t, c >= t)
           /\ Enough(c, NextPrice(c, t, liquidity, x), liquidity, x, c >= t)
           /\ Enough(c, t, liquidity, x, c >= t) => NextPrice(c, t, liquidity, x) = t
           /\ \A y \in Nat \ {0} :
                  Ways(c, y, c >= t) /\ Enough(c, y, liquidity, x, c >= t) /\ Ways(y, t, c >= t)
                      => Ways(y, NextPrice(c, t, liquidity, x), c >= t)
  <1> DEFINE n == NextPrice(c, t, liquidity, x)
             down == c >= t
             need == InFor(c, t, liquidity, down)
  <1>1. down \in BOOLEAN /\ Ways(c, t, down)
    BY DEF Ways
  <1>2. n = IF x >= need THEN t ELSE getNextSqrtPriceFromInput(c, liquidity, x, down)
    BY DEF NextPrice
  <1>3. down <=> t <= c
    OBVIOUS
  <1> HIDE DEF n, down
  <1>4. /\ need \in Nat /\ Enough(c, t, liquidity, need, down)
        /\ \A y \in Nat : Enough(c, t, liquidity, y, down) => need <= y
    BY <1>1, InForIs
  <1> HIDE DEF need
  <1>5. CASE x >= need
    <2>1. n = t
      BY <1>2, <1>5
    <2>2. Enough(c, t, liquidity, x, down)
      BY <1>1, <1>4, <1>5, EnoughMore
    <2>3. Ways(t, t, down)
      BY DEF Ways
    <2> QED
      BY <1>1, <2>1, <2>2, <2>3 DEF n, down
  <1>6. CASE ~(x >= need)
    <2>1. n = getNextSqrtPriceFromInput(c, liquidity, x, down)
      BY <1>2, <1>6
    <2>2. ~Enough(c, t, liquidity, x, down)
      <3>1. ~(need <= x)
        BY <1>4, <1>6
      <3> QED
        BY <1>4, <3>1
    <2>3. liquidity # 0
      <3> SUFFICES ASSUME liquidity = 0 PROVE Enough(c, t, liquidity, x, down)
        BY <2>2
      <3>0. Q96 \in Nat \ {0}
        BY AmountsAssumption DEF AmountsAssumption
      <3>1. CASE down
        <4>1. c - t \in Nat /\ liquidity * Q96 = 0
          BY <1>3, <3>0, <3>1
        <4>2. (liquidity * Q96) * (c - t) = 0
          BY <4>1
        <4>3. x * t \in Nat
          BY Times
        <4>4. (x * t) * c \in Nat
          BY <4>3, Times
        <4> QED
          BY <3>1, <4>2, <4>4 DEF Enough
      <3>2. CASE ~down
        <4>1. t - c \in Nat
          BY <1>3, <3>2
        <4>2. liquidity * (t - c) = 0
          BY <4>1
        <4>3. x * Q96 \in Nat
          BY <3>0, Times
        <4> QED
          BY <3>2, <4>2, <4>3 DEF Enough
      <3> QED
        BY <3>1, <3>2
    <2>4. CASE down
      <3>1. t <= c /\ ~Enough(c, t, liquidity, x, TRUE) /\ n = getNextSqrtPriceFromInput(c, liquidity, x, TRUE)
        BY <1>1, <1>3, <2>1, <2>2, <2>4
      <3>2. /\ n \in (t + 1)..c /\ Enough(c, n, liquidity, x, TRUE)
            /\ \A y \in 1..c : Enough(c, y, liquidity, x, TRUE) => n <= y
        BY <2>3, <3>1, LowestPrice
      <3>3. n \in Nat \ {0} /\ n <= c /\ t <= n
        BY <3>2
      <3>4. ASSUME NEW y \in Nat \ {0}, Ways(c, y, TRUE), Enough(c, y, liquidity, x, TRUE) PROVE n <= y
        <4>1. y \in 1..c
          BY <3>4 DEF Ways
        <4> QED
          BY <3>2, <3>4, <4>1
      <3>5. down = TRUE
        BY <1>1, <2>4
      <3> QED
        BY <2>2, <3>2, <3>3, <3>4, <3>5 DEF n, down, Ways
    <2>5. CASE ~down
      <3>1. c <= t /\ ~Enough(c, t, liquidity, x, FALSE) /\ n = getNextSqrtPriceFromInput(c, liquidity, x, FALSE)
        <4>1. down = FALSE
          BY <1>1, <2>5
        <4>2. c <= t
          BY <1>3, <2>5
        <4> QED
          BY <2>1, <2>2, <4>1, <4>2
      <3>2. /\ n \in c..(t - 1) /\ Enough(c, n, liquidity, x, FALSE)
            /\ \A y \in Nat : y >= c /\ Enough(c, y, liquidity, x, FALSE) => y <= n
        BY <2>3, <3>1, HighestPrice
      <3>3. n \in Nat \ {0} /\ c <= n /\ n <= t
        BY <3>2
      <3>4. ASSUME NEW y \in Nat \ {0}, Ways(c, y, FALSE), Enough(c, y, liquidity, x, FALSE) PROVE y <= n
        <4>1. y \in Nat /\ y >= c
          BY <3>4 DEF Ways
        <4> QED
          BY <3>2, <3>4, <4>1
      <3>5. down = FALSE
        BY <1>1, <2>5
      <3> QED
        BY <2>2, <3>2, <3>3, <3>4, <3>5 DEF n, down, Ways
    <2> QED
      BY <2>4, <2>5
  <1> QED
    BY <1>5, <1>6

\* A step spends no more than there is, and all of it when it stops short of its
\* target; the price stays between; the pool is paid enough, its fee besides, and
\* pays no more than the curve allows.
Rate(feePips) == FEE_PIPS_DENOMINATOR - feePips
StepOK(c, t, liquidity, remaining, feePips, s) ==
    /\ s = [next |-> s.next, in |-> s.in, out |-> s.out, fee |-> s.fee]
    /\ s.next \in Nat \ {0} /\ Ways(c, s.next, c >= t) /\ Ways(s.next, t, c >= t)
    /\ s.in \in Nat /\ s.out \in Nat /\ s.fee \in Nat
    /\ s.in + s.fee <= remaining /\ (s.next # t => s.in + s.fee = remaining)
    /\ s.in * FEE_PIPS_DENOMINATOR <= (s.in + s.fee) * Rate(feePips)
    /\ Enough(c, s.next, liquidity, s.in, c >= t) /\ Pays(c, s.next, liquidity, s.out, c >= t)

\* What is left of an amount after its fee.
LEMMA FeeFits ==
    ASSUME NEW in \in Nat, NEW remaining \in Nat, NEW f \in 0..(FEE_PIPS_DENOMINATOR - 1),
           in <= mulDiv(remaining, FEE_PIPS_DENOMINATOR - f, FEE_PIPS_DENOMINATOR)
    PROVE  /\ in * FEE_PIPS_DENOMINATOR <= remaining * Rate(f)
           /\ mulDivRoundingUp(in, f, Rate(f)) \in Nat
           /\ in + mulDivRoundingUp(in, f, Rate(f)) <= remaining
           /\ in * FEE_PIPS_DENOMINATOR <= (in + mulDivRoundingUp(in, f, Rate(f))) * Rate(f)
  <1> DEFINE d == FEE_PIPS_DENOMINATOR
             k == Rate(f)
             fee == mulDivRoundingUp(in, f, k)
             rk == remaining * k
  <1>1. d \in Nat \ {0} /\ k \in Nat \ {0} /\ f \in Nat /\ d = k + f
    <2>1. d \in Nat \ {0}
      BY AmountsAssumption DEF AmountsAssumption
    <2>2. k = d - f /\ f \in 0..(d - 1)
      BY DEF Rate
    <2> HIDE DEF d, k
    <2> QED
      BY <2>1, <2>2
  <1>2. in <= rk \div d
    BY DEF mulDiv, Rate
  <1> HIDE DEF d, k, fee
  <1>3. rk \in Nat
    BY <1>1, Times
  <1> HIDE DEF rk
  <1>4. in * d <= rk
    <2>1. rk \div d \in Nat /\ (rk \div d) * d <= rk
      BY <1>1, <1>3, Floor
    <2>2. in * d <= (rk \div d) * d
      BY <1>1, <1>2, <2>1, Times
    <2>3. in * d \in Nat /\ (rk \div d) * d \in Nat
      BY <1>1, <2>1, Times
    <2> QED
      BY <1>3, <2>1, <2>2, <2>3
  <1>5. fee \in Nat /\ in * f <= fee * k /\ \A x \in Nat : in * f <= x * k => fee <= x
    BY <1>1, Ceiling DEF fee
  <1>6. in * d = in * k + in * f /\ in * k \in Nat /\ in * f \in Nat
    <2>1. (k + f) * in = k * in + f * in
      BY <1>1, Times
    <2>2. in * d = (k + f) * in /\ k * in = in * k /\ f * in = in * f /\ in * k \in Nat /\ in * f \in Nat
      BY <1>1, Times
    <2> QED
      BY <2>1, <2>2
  <1>7. in <= remaining
    <2>1. in * k <= rk
      BY <1>3, <1>4, <1>6
    <2> QED
      BY <1>1, <2>1, Times DEF rk
  <1>8. in + fee <= remaining
    <2>1. remaining - in \in Nat /\ (remaining - in) * k = rk - in * k
      BY <1>1, <1>7, Times DEF rk
    <2>2. in * f <= (remaining - in) * k
      BY <1>3, <1>4, <1>6, <2>1
    <2>3. fee <= remaining - in
      BY <1>5, <2>1, <2>2
    <2> QED
      BY <1>5, <2>3
  <1>9. in * d <= (in + fee) * k
    <2>1. (in + fee) * k = in * k + fee * k /\ fee * k \in Nat
      BY <1>1, <1>5, Times
    <2> QED
      BY <1>5, <1>6, <2>1
  <1> QED
    BY <1>4, <1>5, <1>8, <1>9 DEF d, k, fee, rk

\* ... is what computeSwapStep computes.
LEMMA SwapStep ==
    ASSUME NEW c \in Nat \ {0}, NEW t \in Nat \ {0}, NEW liquidity \in Nat, NEW remaining \in Nat,
           NEW f \in 0..(FEE_PIPS_DENOMINATOR - 1)
    PROVE  StepOK(c, t, liquidity, remaining, f, computeSwapStep(c, t, liquidity, remaining, f))
  <1> DEFINE s == computeSwapStep(c, t, liquidity, remaining, f)
             down == c >= t
             x == mulDiv(remaining, FEE_PIPS_DENOMINATOR - f, FEE_PIPS_DENOMINATOR)
             n == NextPrice(c, t, liquidity, x)
             in == InFor(c, n, liquidity, down)
             fee == IF n = t THEN mulDivRoundingUp(in, f, FEE_PIPS_DENOMINATOR - f) ELSE remaining - in
             out == OutFor(c, n, liquidity, down)
  <1>1. s = [next |-> n, in |-> in, out |-> out, fee |-> fee]
    BY DEF computeSwapStep, StepTo
  <1>2. x \in Nat
    <2>1. FEE_PIPS_DENOMINATOR \in Nat \ {0} /\ FEE_PIPS_DENOMINATOR - f \in Nat
      BY AmountsAssumption DEF AmountsAssumption
    <2>2. remaining * (FEE_PIPS_DENOMINATOR - f) \in Nat
      BY <2>1, Times
    <2> QED
      BY <2>1, <2>2, Floor DEF mulDiv
  <1>3. down \in BOOLEAN
    OBVIOUS
  <1> HIDE DEF s
  <1>4. /\ n \in Nat \ {0} /\ Ways(c, n, down) /\ Ways(n, t, down)
        /\ Enough(c, n, liquidity, x, down)
    <2> HIDE DEF x
    <2> QED
      BY <1>2, NextPriceIs
  <1> HIDE DEF n, down
  <1>5. /\ in \in Nat /\ Enough(c, n, liquidity, in, down) /\ in <= x
    <2> HIDE DEF x
    <2> QED
      BY <1>2, <1>3, <1>4, InForIs
  <1>6. out \in Nat /\ Pays(c, n, liquidity, out, down)
    BY <1>3, <1>4, OutForIs
  <1> HIDE DEF in, out
  <1>7. /\ in * FEE_PIPS_DENOMINATOR <= remaining * Rate(f)
        /\ mulDivRoundingUp(in, f, Rate(f)) \in Nat
        /\ in + mulDivRoundingUp(in, f, Rate(f)) <= remaining
        /\ in * FEE_PIPS_DENOMINATOR <= (in + mulDivRoundingUp(in, f, Rate(f))) * Rate(f)
    BY <1>5, FeeFits
  <1>8. fee \in Nat /\ in + fee <= remaining /\ (n # t => in + fee = remaining)
        /\ in * FEE_PIPS_DENOMINATOR <= (in + fee) * Rate(f)
    <2>1. CASE n = t
      <3>1. fee = mulDivRoundingUp(in, f, Rate(f))
        BY <2>1 DEF Rate
      <3> HIDE DEF fee
      <3> QED
        BY <1>7, <2>1, <3>1
    <2>2. CASE n # t
      <3>1. fee = remaining - in
        BY <2>2
      <3> HIDE DEF fee
      <3>2. fee \in Nat /\ in + fee = remaining
        BY <1>5, <1>7, <3>1
      <3> QED
        BY <1>7, <3>2
    <2> QED
      BY <2>1, <2>2
  <1> HIDE DEF fee
  <1>9. s.next = n /\ s.in = in /\ s.out = out /\ s.fee = fee
    BY <1>1
  <1>10. StepOK(c, t, liquidity, remaining, f, s)
    BY <1>1, <1>4, <1>5, <1>6, <1>8, <1>9 DEF StepOK, down
  <1> QED
    BY <1>10 DEF s

-----------------------------------------------------------------------------
(* Ticks.                                                                  *)

\* One element of a part of S is taken out of its sum.
LEMMA SumOut ==
    ASSUME NEW S, IsFiniteSet(S), NEW f \in [S -> Int], NEW T \in SUBSET S, NEW x \in T
    PROVE  /\ SumFunctionOnSet(f, T \ {x}) \in Int
           /\ SumFunctionOnSet(f, T) = SumFunctionOnSet(f, T \ {x}) + f[x]
  <1> DEFINE e == [y \in S |-> IF y = x THEN 0 ELSE f[y]]
             d == -f[x]
  <1>1. x \in S /\ f[x] \in Int /\ d \in Int /\ e \in [S -> Int] /\ e[x] = f[x] + d
        /\ \A y \in S \ {x} : e[y] = f[y]
    OBVIOUS
  <1> HIDE DEF e, d
  <1>2. T \ {x} \in SUBSET S
    OBVIOUS
  <1>3. PICK g : Totals(g, f, S)
    BY Summed
  <1>4. PICK h : Totals(h, f, S)
    BY Summed
  <1>5. SumFunctionOnSet(f, T) \in Int /\ SumFunctionOnSet(f, T \ {x}) \in Int
    BY <1>2, <1>3 DEF Totals
  <1> DEFINE r == [y \in T |-> f[y]]
  <1>6. IsFiniteSet(T) /\ r \in [T -> Int] /\ \A y \in T : r[y] = f[y]
    BY FS_Subset
  <1> HIDE DEF r
  <1>7. PICK k : Totals(k, r, T)
    BY <1>6, Summed
  <1>8. SumFunctionOnSet(r, T) = r[x] + SumFunctionOnSet(r, T \ {x})
    BY <1>6, <1>7, SumSplit
  <1>9. \A s \in SUBSET T : g[s] = k[s]
    BY <1>3, <1>6, <1>7, OneSum DEF Totals
  <1>10. T \in SUBSET T /\ T \ {x} \in SUBSET T
    OBVIOUS
  <1>11. SumFunctionOnSet(f, T) = SumFunctionOnSet(r, T)
    BY <1>3, <1>7, <1>9, <1>10 DEF Totals
  <1>12. SumFunctionOnSet(f, T \ {x}) = SumFunctionOnSet(r, T \ {x})
    BY <1>2, <1>3, <1>7, <1>9, <1>10 DEF Totals
  <1> QED
    BY <1>1, <1>5, <1>6, <1>8, <1>11, <1>12

\* Ticks in rising order.
TicksOK(ticks) ==
    /\ ticks \in Seq([index : DOMAIN Ratio, net : Int])
    /\ \A j, k \in DOMAIN ticks : j < k => ticks[j].index < ticks[k].index

\* The range of ticks.
LEMMA TickRange ==
    /\ MIN_TICK \in Int /\ MAX_TICK \in Int /\ MIN_TICK < MAX_TICK
    /\ DOMAIN Ratio = MIN_TICK..MAX_TICK /\ DOMAIN Ratio \subseteq Int
    /\ IsFiniteSet(DOMAIN Ratio)
    /\ \A t \in DOMAIN Ratio : Ratio[t] \in Nat \ {0}
    /\ \A t, u \in DOMAIN Ratio : t < u => Ratio[t] < Ratio[u]
  <1>1. /\ MIN_TICK \in Int /\ MAX_TICK \in Int /\ MIN_TICK < MAX_TICK
        /\ DOMAIN Ratio = MIN_TICK..MAX_TICK
        /\ \A t \in DOMAIN Ratio : Ratio[t] \in Nat \ {0}
        /\ \A t, u \in DOMAIN Ratio : t < u => Ratio[t] < Ratio[u]
    BY AmountsAssumption DEF AmountsAssumption
  <1>2. IsFiniteSet(MIN_TICK..MAX_TICK)
    BY <1>1, FS_Interval
  <1> QED
    BY <1>1, <1>2

\* What a tick is.
LEMMA TickIs ==
    ASSUME NEW ticks, TicksOK(ticks), NEW i \in DOMAIN ticks
    PROVE  ticks[i].index \in DOMAIN Ratio /\ ticks[i].index \in Int /\ ticks[i].net \in Int
  <1> DEFINE all == DOMAIN Ratio
             entries == [index : all, net : Int]
  <1>1. all \subseteq Int /\ ticks \in Seq(entries)
    BY TickRange DEF TicksOK
  <1> HIDE DEF all
  <1>2. ticks[i] \in entries
    <2> HIDE DEF entries
    <2> QED
      BY <1>1
  <1>3. ticks[i].index \in all /\ ticks[i].net \in Int
    BY <1>2
  <1> QED
    BY <1>1, <1>3 DEF all

\* A tick at most a price is the first of them, in their order.
LEMMA Cursor ==
    ASSUME NEW ticks, TicksOK(ticks), NEW tick \in Int
    PROVE  /\ Len(ticks) \in Nat /\ DOMAIN ticks = 1..Len(ticks)
           /\ tickCursorAt(ticks, tick, TRUE) \in 0..Len(ticks)
           /\ tickCursorAt(ticks, tick, FALSE) = tickCursorAt(ticks, tick, TRUE) + 1
           /\ \A i \in DOMAIN ticks : ticks[i].index <= tick <=> i <= tickCursorAt(ticks, tick, TRUE)
  <1> DEFINE S == {i \in DOMAIN ticks : ticks[i].index <= tick}
             len == Len(ticks)
             below == tickCursorAt(ticks, tick, TRUE)
             idx == [i \in DOMAIN ticks |-> ticks[i].index]
  <1>1. len \in Nat /\ DOMAIN ticks = 1..len
    BY DEF TicksOK
  <1>2. below = Cardinality(S) /\ tickCursorAt(ticks, tick, FALSE) = Cardinality(S) + 1
    BY DEF tickCursorAt
  <1>3. \A i \in DOMAIN ticks : ticks[i].index \in Int
    BY TickIs
  <1>4. \A j, k \in DOMAIN ticks : j < k => ticks[j].index < ticks[k].index
    BY DEF TicksOK
  <1> HIDE DEF below, len
  <1>5. \E b \in 0..len : \A i \in DOMAIN ticks : i \in S <=> i <= b
    <2>1. CASE S = {}
      BY <1>1, <2>1
    <2>2. CASE S # {}
      <3> DEFINE N == {n \in Nat : \A i \in S : i <= n}
      <3>1. len \in N
        BY <1>1
      <3>2. PICK b \in N : \A m \in N : b <= m
        <4> HIDE DEF N
        <4>1. N \in SUBSET Nat /\ N # {}
          BY <3>1 DEF N
        <4> QED
          BY <4>1, Least
      <3>3. b \in S
        <4> SUFFICES ASSUME b \notin S PROVE FALSE
          OBVIOUS
        <4>1. PICK i \in S : TRUE
          BY <2>2
        <4>2. i \in 1..len /\ i <= b
          BY <1>1, <3>2, <4>1
        <4>3. \A j \in S : j <= b - 1
          <5>1. \A j \in S : j \in 1..len /\ j <= b /\ j # b
            BY <1>1, <3>2
          <5> QED
            BY <3>2, <5>1
        <4>4. b - 1 \in Nat
          BY <3>2, <4>2
        <4> QED
          BY <3>2, <4>3, <4>4
      <3>4. b \in 1..len /\ ticks[b].index <= tick
        BY <1>1, <3>3
      <3>5. ASSUME NEW i \in DOMAIN ticks PROVE i \in S <=> i <= b
        <4>1. CASE i < b
          <5>1. ticks[i].index < ticks[b].index
            BY <1>1, <1>4, <3>4, <4>1
          <5> QED
            BY <1>1, <1>3, <3>4, <4>1, <5>1
        <4>2. CASE i = b
          BY <1>1, <3>3, <4>2
        <4>3. CASE i > b
          BY <1>1, <3>2, <3>4, <4>3
        <4> QED
          BY <1>1, <3>4, <4>1, <4>2, <4>3
      <3> QED
        BY <1>1, <3>4, <3>5
    <2> QED
      BY <2>1, <2>2
  <1>6. PICK b \in 0..len : \A i \in DOMAIN ticks : i \in S <=> i <= b
    BY <1>5
  <1>7. S = 1..b
    BY <1>1, <1>6
  <1>8. Cardinality(1..b) = b
    <2>1. Cardinality(1..b) = IF 1 > b THEN 0 ELSE b - 1 + 1
      BY <1>1, <1>6, FS_Interval
    <2> QED
      BY <1>1, <1>6, <2>1
  <1>9. below = b
    BY <1>2, <1>7, <1>8
  <1> QED
    BY <1>1, <1>2, <1>6, <1>9 DEF below, len

\* What the pool's ticks are worth.
Nets(s) == [t \in DOMAIN Ratio |-> NetAt(s, t)]
UpTo(tick) == {t \in DOMAIN Ratio : t <= tick}

\* The net of a tick is found where it is, and is nothing elsewhere.
LEMMA NetIs ==
    ASSUME NEW s, TicksOK(s.ticks)
    PROVE  /\ \A t \in Int : NetAt(s, t) \in Int
           /\ \A k \in DOMAIN s.ticks : NetAt(s, s.ticks[k].index) = s.ticks[k].net
           /\ \A t : (\A k \in DOMAIN s.ticks : s.ticks[k].index # t) => NetAt(s, t) = 0
  <1>0. \A k \in DOMAIN s.ticks : s.ticks[k].index \in Int /\ s.ticks[k].net \in Int
    BY TickIs
  <1>1. DOMAIN s.ticks \subseteq Int
    BY Cursor, TickRange
  <1>2. \A j, k \in DOMAIN s.ticks : j < k => s.ticks[j].index < s.ticks[k].index
    BY DEF TicksOK
  <1>3. \A j, k \in DOMAIN s.ticks : s.ticks[j].index = s.ticks[k].index => j = k
    <2> SUFFICES ASSUME NEW j \in DOMAIN s.ticks, NEW k \in DOMAIN s.ticks,
                        s.ticks[j].index = s.ticks[k].index, j # k
                 PROVE  FALSE
      OBVIOUS
    <2>1. j < k \/ k < j
      BY <1>1
    <2>2. s.ticks[j].index < s.ticks[k].index \/ s.ticks[k].index < s.ticks[j].index
      BY <1>2, <2>1
    <2> QED
      BY <1>0, <2>2
  <1>4. ASSUME NEW t, NEW k \in DOMAIN s.ticks, s.ticks[k].index = t
        PROVE  NetAt(s, t) = s.ticks[k].net
    <2>1. \A j \in DOMAIN s.ticks : s.ticks[j].index = t => j = k
      BY <1>3, <1>4
    <2>2. (CHOOSE j \in DOMAIN s.ticks : s.ticks[j].index = t) = k
      BY <1>4, <2>1
    <2> QED
      BY <1>4, <2>2 DEF NetAt
  <1>5. ASSUME NEW t, \A k \in DOMAIN s.ticks : s.ticks[k].index # t PROVE NetAt(s, t) = 0
    BY <1>5 DEF NetAt
  <1>6. ASSUME NEW t \in Int PROVE NetAt(s, t) \in Int
    BY <1>0, <1>4, <1>5
  <1> QED
    BY <1>4, <1>5, <1>6

\* From a tick to the next one.
LEMMA OneTick ==
    ASSUME NEW s, TicksOK(s.ticks), NEW t \in Int
    PROVE  /\ LiquidityAt(s, t) \in Int /\ LiquidityAt(s, t - 1) \in Int
           /\ t \in DOMAIN Ratio => LiquidityAt(s, t) = LiquidityAt(s, t - 1) + NetAt(s, t)
           /\ t \notin DOMAIN Ratio => LiquidityAt(s, t) = LiquidityAt(s, t - 1)
  <1> DEFINE all == DOMAIN Ratio
             f == Nets(s)
  <1>1. IsFiniteSet(all) /\ all \subseteq Int
    BY TickRange
  <1>2. f \in [all -> Int] /\ \A u \in all : f[u] = NetAt(s, u)
    <2>1. f = [u \in all |-> NetAt(s, u)]
      BY DEF Nets
    <2>2. \A u \in all : NetAt(s, u) \in Int
      BY <1>1, NetIs
    <2> HIDE DEF f, all
    <2> QED
      BY <2>1, <2>2
  <1>3. /\ LiquidityAt(s, t) = SumFunctionOnSet(f, UpTo(t))
        /\ LiquidityAt(s, t - 1) = SumFunctionOnSet(f, UpTo(t - 1))
    BY DEF LiquidityAt, Nets, UpTo
  <1>4. UpTo(t) = {u \in all : u <= t} /\ UpTo(t - 1) = {u \in all : u <= t - 1}
    BY DEF UpTo
  <1> HIDE DEF f, all
  <1>5. PICK g : Totals(g, f, all)
    BY <1>1, <1>2, Summed
  <1>6. SumFunctionOnSet(f, UpTo(t)) \in Int /\ SumFunctionOnSet(f, UpTo(t - 1)) \in Int
    BY <1>4, <1>5 DEF Totals
  <1>7. CASE t \in all
    <2>0. ASSUME NEW u PROVE u \in UpTo(t - 1) <=> u \in UpTo(t) /\ u # t
      <3>1. u \in all => u \in Int
        BY <1>1
      <3>2. u \in Int => (u <= t - 1 <=> u <= t /\ u # t)
        OBVIOUS
      <3> QED
        BY <1>4, <3>1, <3>2
    <2>1. UpTo(t - 1) = UpTo(t) \ {t} /\ t \in UpTo(t) /\ UpTo(t) \in SUBSET all
      BY <1>4, <1>7, <2>0
    <2>2. SumFunctionOnSet(f, UpTo(t)) = SumFunctionOnSet(f, UpTo(t) \ {t}) + f[t]
      BY <1>1, <1>2, <2>1, SumOut
    <2> QED
      BY <1>2, <1>3, <1>6, <1>7, <2>1, <2>2 DEF all
  <1>8. CASE t \notin all
    <2>0. ASSUME NEW u PROVE u \in UpTo(t - 1) <=> u \in UpTo(t)
      <3>1. u \in all => u \in Int /\ u # t
        BY <1>1, <1>8
      <3>2. u \in Int /\ u # t => (u <= t - 1 <=> u <= t)
        OBVIOUS
      <3> QED
        BY <1>4, <3>1, <3>2
    <2>1. UpTo(t - 1) = UpTo(t)
      BY <2>0
    <2> QED
      BY <1>3, <1>6, <1>8, <2>1 DEF all
  <1> QED
    BY <1>7, <1>8

\* Where there is no tick the liquidity stays.
LEMMA NoTickBetween ==
    ASSUME NEW s, TicksOK(s.ticks), NEW low \in Int, NEW high \in Int, low <= high,
           \A k \in DOMAIN s.ticks : s.ticks[k].index <= low \/ s.ticks[k].index > high
    PROVE  LiquidityAt(s, high) = LiquidityAt(s, low)
  <1> DEFINE B == {n \in Nat : low + n <= high /\ LiquidityAt(s, low + n) # LiquidityAt(s, low)}
  <1>1. SUFFICES ASSUME B # {} PROVE FALSE
    <2>1. high - low \in Nat /\ low + (high - low) = high
      OBVIOUS
    <2>2. high - low \notin B
      BY <1>1
    <2> QED
      BY <2>1, <2>2
  <1>2. PICK n \in B : \A m \in B : n <= m
    <2>1. B \in SUBSET Nat /\ B # {}
      BY <1>1
    <2> HIDE DEF B
    <2> QED
      BY <2>1, Least
  <1>3. n \in Nat /\ low + n <= high /\ LiquidityAt(s, low + n) # LiquidityAt(s, low)
    BY <1>2
  <1>4. n # 0
    <2>1. low + 0 = low
      OBVIOUS
    <2> QED
      BY <1>3, <2>1
  <1>5. n - 1 \in Nat /\ low + (n - 1) <= high /\ (low + n) - 1 = low + (n - 1)
    BY <1>3, <1>4
  <1>6. LiquidityAt(s, low + (n - 1)) = LiquidityAt(s, low)
    <2>1. n - 1 \notin B
      BY <1>2, <1>3, <1>5
    <2> QED
      BY <1>5, <2>1
  <1>7. low + n \in Int
    BY <1>3
  <1>8. NetAt(s, low + n) = 0
    <2>1. \A k \in DOMAIN s.ticks : s.ticks[k].index # low + n
      <3>1. \A k \in DOMAIN s.ticks : s.ticks[k].index \in Int
        BY TickIs
      <3> QED
        BY <1>3, <1>4, <3>1
    <2> QED
      BY <2>1, NetIs
  <1>9. LiquidityAt(s, low + n) = LiquidityAt(s, (low + n) - 1)
    <2>1. LiquidityAt(s, (low + n) - 1) \in Int
      BY <1>7, OneTick
    <2>2. /\ low + n \in DOMAIN Ratio
              => LiquidityAt(s, low + n) = LiquidityAt(s, (low + n) - 1) + NetAt(s, low + n)
          /\ low + n \notin DOMAIN Ratio => LiquidityAt(s, low + n) = LiquidityAt(s, (low + n) - 1)
      BY <1>7, OneTick
    <2> QED
      BY <1>8, <2>1, <2>2
  <1> QED
    BY <1>3, <1>5, <1>6, <1>9

-----------------------------------------------------------------------------
(* A round of a swap.                                                      *)

\* A price of nothing moves nothing.
LEMMA NoGap ==
    ASSUME NEW c \in Nat \ {0}, NEW liquidity \in Nat, NEW x \in Nat, NEW down \in BOOLEAN
    PROVE  /\ Enough(c, c, liquidity, x, down)
           /\ Pays(c, c, liquidity, 0, down)
           /\ Pays(c, c, liquidity, x, TRUE) => x = 0
  <1>0. Q96 \in Nat \ {0}
    BY AmountsAssumption DEF AmountsAssumption
  <1>1. c - c = 0 /\ liquidity * 0 = 0 /\ (liquidity * Q96) * 0 = 0
    <2>1. liquidity * Q96 \in Nat
      BY <1>0, Times
    <2> QED
      BY <2>1
  <1>2. x * c \in Nat /\ x * Q96 \in Nat
    BY <1>0, Times
  <1>3. (x * c) * c \in Nat
    BY <1>2, Times
  <1>4. Enough(c, c, liquidity, x, down)
    <2>1. (liquidity * Q96) * (c - c) = 0 /\ liquidity * (c - c) = 0
      BY <1>1
    <2> QED
      BY <1>2, <1>3, <2>1 DEF Enough
  <1>5. Pays(c, c, liquidity, 0, down)
    <2>1. (liquidity * Q96) * (c - c) = 0 /\ liquidity * (c - c) = 0 /\ 0 * Q96 = 0 /\ (0 * c) * c = 0
      BY <1>0, <1>1
    <2> QED
      BY <2>1 DEF Pays
  <1>6. ASSUME Pays(c, c, liquidity, x, TRUE) PROVE x = 0
    <2>1. x * Q96 <= 0
      BY <1>1, <1>6 DEF Pays
    <2>2. 0 * Q96 = 0
      BY <1>0
    <2> QED
      BY <1>0, <2>1, <2>2, Times
  <1> QED
    BY <1>4, <1>5, <1>6

\* A step is a step of the swap it belongs to.
LEMMA StepWay ==
    ASSUME NEW c \in Nat \ {0}, NEW t \in Nat \ {0}, NEW liquidity \in Nat, NEW remaining \in Nat,
           NEW f, NEW s, StepOK(c, t, liquidity, remaining, f, s), NEW down \in BOOLEAN, Ways(c, t, down)
    PROVE  /\ Ways(c, s.next, down) /\ Ways(s.next, t, down)
           /\ Enough(c, s.next, liquidity, s.in, down) /\ Pays(c, s.next, liquidity, s.out, down)
  <1>1. /\ s.next \in Nat \ {0} /\ s.in \in Nat /\ s.out \in Nat
        /\ Ways(c, s.next, c >= t) /\ Ways(s.next, t, c >= t)
        /\ Enough(c, s.next, liquidity, s.in, c >= t) /\ Pays(c, s.next, liquidity, s.out, c >= t)
    BY DEF StepOK
  <1>2. CASE down
    <2>1. down = TRUE /\ (c >= t) = TRUE
      BY <1>2 DEF Ways
    <2> QED
      BY <1>1, <2>1
  <1>3. CASE ~down /\ c # t
    <2>1. down = FALSE /\ (c >= t) = FALSE
      BY <1>3 DEF Ways
    <2> QED
      BY <1>1, <2>1
  <1>4. CASE ~down /\ c = t
    <2>1. (c >= t) = TRUE
      BY <1>4
    <2>2. s.next = c
      BY <1>1, <1>4, <2>1 DEF Ways
    <2>3. Pays(c, c, liquidity, s.out, TRUE)
      BY <1>1, <2>1, <2>2
    <2>4. s.out = 0
      BY <1>1, <2>3, NoGap
    <2>5. Enough(c, c, liquidity, s.in, down) /\ Pays(c, c, liquidity, 0, down)
      BY <1>1, NoGap
    <2>6. Ways(c, c, down)
      BY DEF Ways
    <2> QED
      BY <1>4, <2>2, <2>4, <2>5, <2>6
  <1> QED
    BY <1>2, <1>3, <1>4

\* What is out for what is in, at a price.
AtMost(out, in, price, down) ==
    IF down THEN out * (Q96 * Q96) <= in * (price * price)
    ELSE out * (price * price) <= in * (Q96 * Q96)

\* No step pays above a price the swap has left behind.
LEMMA PriceHolds ==
    ASSUME NEW p \in Nat \ {0}, NEW c \in Nat \ {0}, NEW n \in Nat \ {0}, NEW liquidity \in Nat,
           NEW in \in Nat, NEW out \in Nat, NEW down \in BOOLEAN, Ways(p, c, down), Ways(c, n, down),
           Enough(c, n, liquidity, in, down), Pays(c, n, liquidity, out, down)
    PROVE  AtMost(out, in, p, down)
  <1>0. Q96 \in Nat \ {0}
    BY AmountsAssumption DEF AmountsAssumption
  <1>1. CASE down
    <2> DEFINE gap == c - n
               lg == liquidity * gap
               oq == out * Q96
               ip == in * p
    <2>1. gap \in Nat /\ n <= c /\ c <= p
      BY <1>1 DEF Ways
    <2>2. lg \in Nat /\ oq \in Nat /\ ip \in Nat /\ in * n \in Nat
      BY <1>0, <2>1, Times
    <2>3. oq <= lg
      BY <1>1 DEF Pays
    <2>4. oq * Q96 <= lg * Q96
      BY <1>0, <2>2, <2>3, Times
    <2>5. lg * Q96 = (liquidity * Q96) * gap
      <3>1. lg * Q96 = liquidity * (gap * Q96) /\ gap * Q96 = Q96 * gap
        BY <1>0, <2>1, Times
      <3>2. (liquidity * Q96) * gap = liquidity * (Q96 * gap)
        BY <1>0, <2>1, Times
      <3> QED
        BY <3>1, <3>2
    <2>6. (liquidity * Q96) * gap <= (in * n) * c
      BY <1>1 DEF Enough
    <2>7. (in * n) * c <= ip * p
      <3>1. n <= p
        BY <2>1
      <3>2. n * in <= p * in
        BY <3>1, Times
      <3>3. in * n <= ip
        <4>1. n * in = in * n /\ p * in = in * p
          BY Times
        <4> QED
          BY <3>2, <4>1
      <3>4. (in * n) * c <= ip * c
        BY <2>2, <3>3, Times
      <3>5. c * ip <= p * ip
        BY <2>1, <2>2, Times
      <3>6. c * ip = ip * c /\ p * ip = ip * p /\ ip * c \in Nat /\ ip * p \in Nat /\ (in * n) * c \in Nat
        BY <2>2, Times
      <3> QED
        BY <3>4, <3>5, <3>6
    <2>8. oq * Q96 = out * (Q96 * Q96) /\ ip * p = in * (p * p)
      BY <1>0, Times
    <2>9. oq * Q96 \in Nat /\ lg * Q96 \in Nat /\ (in * n) * c \in Nat /\ ip * p \in Nat
      BY <1>0, <2>2, Times
    <2>10. oq * Q96 <= ip * p
      BY <2>4, <2>5, <2>6, <2>7, <2>9
    <2> QED
      BY <1>1, <2>8, <2>10 DEF AtMost
  <1>2. CASE ~down
    <2> DEFINE gap == n - c
               lg == liquidity * gap
               iq == in * Q96
               op == out * p
    <2>1. gap \in Nat /\ c <= n /\ p <= c
      BY <1>2 DEF Ways
    <2>2. lg \in Nat /\ iq \in Nat /\ op \in Nat /\ out * c \in Nat
      BY <1>0, <2>1, Times
    <2>3. lg <= iq
      BY <1>2 DEF Enough
    <2>4. lg * Q96 <= iq * Q96
      BY <1>0, <2>2, <2>3, Times
    <2>5. lg * Q96 = (liquidity * Q96) * gap
      <3>1. lg * Q96 = liquidity * (gap * Q96) /\ gap * Q96 = Q96 * gap
        BY <1>0, <2>1, Times
      <3>2. (liquidity * Q96) * gap = liquidity * (Q96 * gap)
        BY <1>0, <2>1, Times
      <3> QED
        BY <3>1, <3>2
    <2>6. (out * c) * n <= (liquidity * Q96) * gap
      BY <1>2 DEF Pays
    <2>7. op * p <= (out * c) * n
      <3>1. p <= n
        BY <2>1
      <3>2. p * out <= c * out
        BY <2>1, Times
      <3>3. op <= out * c
        <4>1. p * out = op /\ c * out = out * c
          BY Times
        <4> QED
          BY <3>2, <4>1
      <3>4. op * p <= (out * c) * p
        BY <2>2, <3>3, Times
      <3>5. p * (out * c) <= n * (out * c)
        BY <2>2, <3>1, Times
      <3>6. /\ p * (out * c) = (out * c) * p /\ n * (out * c) = (out * c) * n
            /\ op * p \in Nat /\ (out * c) * p \in Nat /\ (out * c) * n \in Nat
        BY <2>2, Times
      <3> QED
        BY <3>4, <3>5, <3>6
    <2>8. iq * Q96 = in * (Q96 * Q96) /\ op * p = out * (p * p)
      BY <1>0, Times
    <2>9. iq * Q96 \in Nat /\ lg * Q96 \in Nat /\ (out * c) * n \in Nat /\ op * p \in Nat
      BY <1>0, <2>2, Times
    <2>10. op * p <= iq * Q96
      BY <2>4, <2>5, <2>6, <2>7, <2>9
    <2> QED
      BY <1>2, <2>8, <2>10 DEF AtMost
  <1> QED
    BY <1>1, <1>2

\* Two payments that are at most worth what is in are so together.
LEMMA AtMostAdds ==
    ASSUME NEW p \in Nat \ {0}, NEW down \in BOOLEAN,
           NEW o1 \in Nat, NEW i1 \in Nat, NEW o2 \in Nat, NEW i2 \in Nat,
           AtMost(o1, i1, p, down), AtMost(o2, i2, p, down), NEW more \in Nat
    PROVE  AtMost(o1 + o2, i1 + (i2 + more), p, down)
  <1> DEFINE a == IF down THEN Q96 * Q96 ELSE p * p
             b == IF down THEN p * p ELSE Q96 * Q96
  <1>1. a \in Nat /\ b \in Nat
    <2>1. Q96 * Q96 \in Nat /\ p * p \in Nat
      BY AmountsAssumption, Times DEF AmountsAssumption
    <2> QED
      BY <2>1
  <1>2. \A o, i : AtMost(o, i, p, down) <=> o * a <= i * b
    BY DEF AtMost
  <1> HIDE DEF a, b
  <1>3. o1 * a <= i1 * b /\ o2 * a <= i2 * b
    BY <1>2, Zenon
  <1>4. (o1 + o2) * a = o1 * a + o2 * a
    BY <1>1, Times
  <1>5. (i1 + (i2 + more)) * b = i1 * b + (i2 + more) * b /\ (i2 + more) * b = i2 * b + more * b
    BY <1>1, Times
  <1>6. {o1 * a, o2 * a, i1 * b, i2 * b, more * b} \subseteq Nat
    BY <1>1, Times
  <1>7. (o1 + o2) * a <= (i1 + (i2 + more)) * b
    BY <1>3, <1>4, <1>5, <1>6
  <1> QED
    BY <1>2, <1>7, Zenon

\* A price strictly inside the range of ticks, and a tick it is at.
PriceOK(price) == price \in Nat \ {0} /\ Ratio[MIN_TICK] < price /\ price < Ratio[MAX_TICK]
PlaceOK(price, tick) ==
    /\ PriceOK(price)
    /\ tick \in MIN_TICK..(MAX_TICK - 1)
    /\ Ratio[tick] <= price /\ price <= Ratio[tick + 1]

\* getTickAtSqrtRatio finds the last tick that is not above a price.
LEMMA TickAt ==
    ASSUME NEW price, PriceOK(price)
    PROVE  /\ PlaceOK(price, getTickAtSqrtRatio(price))
           /\ \A u \in DOMAIN Ratio : Ratio[u] <= price <=> u <= getTickAtSqrtRatio(price)
  <1> DEFINE all == DOMAIN Ratio
             N == {n \in Nat : MAX_TICK - n \in all /\ Ratio[MAX_TICK - n] <= price}
             Is(t) == Ratio[t] <= price /\ \A u \in all : Ratio[u] <= price => u <= t
  <1>1. /\ MIN_TICK \in Int /\ MAX_TICK \in Int /\ MIN_TICK < MAX_TICK /\ all = MIN_TICK..MAX_TICK
        /\ \A t \in all : Ratio[t] \in Nat
        /\ \A t, u \in all : t < u => Ratio[t] < Ratio[u]
    BY TickRange
  <1>2. price \in Nat \ {0} /\ Ratio[MIN_TICK] < price /\ price < Ratio[MAX_TICK]
    BY DEF PriceOK
  <1> HIDE DEF all
  <1>3. MAX_TICK - MIN_TICK \in N
    <2>1. MAX_TICK - (MAX_TICK - MIN_TICK) = MIN_TICK /\ MIN_TICK \in all /\ MAX_TICK - MIN_TICK \in Nat
      BY <1>1
    <2>2. Ratio[MIN_TICK] <= price
      BY <1>1, <1>2, <2>1
    <2> QED
      BY <2>1, <2>2
  <1>4. PICK n \in N : \A m \in N : n <= m
    <2>1. N \in SUBSET Nat /\ N # {}
      BY <1>3
    <2> HIDE DEF N
    <2> QED
      BY <2>1, Least
  <1>5. n \in Nat /\ MAX_TICK - n \in all /\ Ratio[MAX_TICK - n] <= price
    BY <1>4
  <1> DEFINE t == MAX_TICK - n
  <1>6. t \in all /\ Ratio[t] <= price
    BY <1>5
  <1>7. ASSUME NEW u \in all, Ratio[u] <= price PROVE u <= t
    <2>1. MAX_TICK - u \in Nat /\ MAX_TICK - (MAX_TICK - u) = u
      BY <1>1
    <2>2. MAX_TICK - u \in N
      BY <1>7, <2>1
    <2>3. n <= MAX_TICK - u
      BY <1>4, <2>2
    <2> QED
      BY <1>1, <1>5, <2>1, <2>3
  <1> HIDE DEF t
  <1>8. Is(t)
    BY <1>6, <1>7
  <1>9. \A v \in all : Is(v) => v = t
    <2> SUFFICES ASSUME NEW v \in all, Is(v) PROVE v = t
      OBVIOUS
    <2>1. v <= t /\ t <= v
      BY <1>6, <1>7
    <2> QED
      BY <1>1, <1>6, <2>1
  <1>10. getTickAtSqrtRatio(price) = t
    <2>1. getTickAtSqrtRatio(price) = CHOOSE v \in all : Is(v)
      BY DEF getTickAtSqrtRatio, all
    <2> HIDE DEF Is
    <2> QED
      BY <1>6, <1>8, <1>9, <2>1
  <1>11. t < MAX_TICK
    <2>1. t # MAX_TICK
      BY <1>1, <1>2, <1>6
    <2> QED
      BY <1>1, <1>6, <2>1
  <1>12. t + 1 \in all /\ t \in MIN_TICK..(MAX_TICK - 1)
    BY <1>1, <1>6, <1>11
  <1>13. ~(Ratio[t + 1] <= price)
    <2>1. ~(t + 1 <= t)
      BY <1>1, <1>6
    <2> QED
      BY <1>7, <1>12, <2>1
  <1>14. price <= Ratio[t + 1]
    BY <1>1, <1>2, <1>12, <1>13
  <1>15. ASSUME NEW u \in all, u <= t PROVE Ratio[u] <= price
    <2>1. CASE u = t
      BY <1>6, <2>1
    <2>2. CASE u # t
      <3>1. u < t
        BY <1>1, <1>6, <1>15, <2>2
      <3>2. Ratio[u] < Ratio[t] /\ Ratio[u] \in Nat /\ Ratio[t] \in Nat
        BY <1>1, <1>6, <3>1
      <3> QED
        BY <1>2, <1>6, <3>2
    <2> QED
      BY <2>1, <2>2
  <1>16. \A u \in all : Ratio[u] <= price <=> u <= t
    BY <1>7, <1>15
  <1>17. PlaceOK(price, t)
    BY <1>6, <1>12, <1>14 DEF PlaceOK
  <1> QED
    BY <1>10, <1>16, <1>17 DEF all

\* The limit is beyond every price the swap can start at.
LEMMA LimitIs ==
    ASSUME NEW price, PriceOK(price), NEW down \in BOOLEAN
    PROVE  PriceOK(Limit(down)) /\ Ways(price, Limit(down), down)
  <1> DEFINE low == Ratio[MIN_TICK]
             high == Ratio[MAX_TICK]
  <1>1. low \in Nat \ {0} /\ high \in Nat \ {0}
    BY TickRange
  <1>2. price \in Nat \ {0} /\ low < price /\ price < high
    BY DEF PriceOK
  <1>3. Limit(down) = IF down THEN low + 1 ELSE high - 1
    BY DEF Limit
  <1>4. /\ Limit(down) \in Nat \ {0} /\ low < Limit(down) /\ Limit(down) < high
        /\ down => Limit(down) <= price
        /\ ~down => price <= Limit(down)
    <2> HIDE DEF low, high
    <2> QED
      BY <1>1, <1>2, <1>3
  <1> QED
    BY <1>4 DEF PriceOK, Ways

\* The next tick on the way, and the price a round goes to.
LEMMA TargetIs ==
    ASSUME NEW ticks, TicksOK(ticks), NEW price, NEW tick, PlaceOK(price, tick), NEW down \in BOOLEAN,
           NEW cursor, cursor = tickCursorAt(ticks, tick, down),
           NEW next, next = TickNext(ticks, cursor, down), NEW target, target = Within(Ratio[next], down)
    PROVE  /\ next \in DOMAIN Ratio /\ PriceOK(target)
           /\ Ways(price, target, down) /\ Ways(target, Ratio[next], down)
           /\ target = Ratio[next] \/ target = Limit(down)
           /\ cursor \notin DOMAIN ticks => target = Limit(down)
           /\ IF down THEN next <= tick ELSE tick < next
           /\ \A k \in DOMAIN ticks : IF down THEN ticks[k].index <= tick => ticks[k].index <= next
                                      ELSE ticks[k].index > tick => ticks[k].index >= next
  <1> DEFINE all == DOMAIN Ratio
             len == Len(ticks)
             below == tickCursorAt(ticks, tick, TRUE)
  <1>1. /\ MIN_TICK \in Int /\ MAX_TICK \in Int /\ MIN_TICK < MAX_TICK /\ all = MIN_TICK..MAX_TICK
        /\ \A t \in all : Ratio[t] \in Nat \ {0}
        /\ \A t, u \in all : t < u => Ratio[t] < Ratio[u]
    BY TickRange
  <1>2. /\ PriceOK(price) /\ tick \in MIN_TICK..(MAX_TICK - 1)
        /\ Ratio[tick] <= price /\ price <= Ratio[tick + 1]
    BY DEF PlaceOK
  <1>3. tick \in Int /\ tick \in all /\ tick + 1 \in all
    BY <1>1, <1>2
  <1>4. /\ len \in Nat /\ DOMAIN ticks = 1..len /\ below \in 0..len
        /\ tickCursorAt(ticks, tick, FALSE) = below + 1
        /\ \A i \in DOMAIN ticks : ticks[i].index <= tick <=> i <= below
    BY <1>3, Cursor
  <1>5. cursor = IF down THEN below ELSE below + 1
    BY <1>4
  <1>6. \A k \in DOMAIN ticks : ticks[k].index \in all /\ ticks[k].index \in Int
    BY TickIs
  <1>7. \A j, k \in DOMAIN ticks : j < k => ticks[j].index < ticks[k].index
    BY DEF TicksOK
  <1>8. next = IF cursor \in DOMAIN ticks THEN ticks[cursor].index
               ELSE IF down THEN MIN_TICK ELSE MAX_TICK
    BY DEF TickNext
  <1> HIDE DEF all, len, below
  <1>9. next \in all /\ next \in Int
    BY <1>1, <1>6, <1>8
  <1>10. IF down THEN next <= tick ELSE tick < next
    <2>1. CASE cursor \in DOMAIN ticks
      <3>1. next = ticks[cursor].index /\ next \in Int /\ (next <= tick <=> cursor <= below)
        BY <1>4, <1>6, <1>8, <2>1
      <3> QED
        BY <1>3, <1>4, <1>5, <3>1
    <2>2. CASE cursor \notin DOMAIN ticks
      BY <1>1, <1>2, <1>8, <2>2
    <2> QED
      BY <2>1, <2>2
  <1>11. ASSUME NEW k \in DOMAIN ticks
         PROVE  IF down THEN ticks[k].index <= tick => ticks[k].index <= next
                ELSE ticks[k].index > tick => ticks[k].index >= next
    <2>0. k \in 1..len /\ ticks[k].index \in Int /\ ticks[k].index \in all /\ (ticks[k].index <= tick <=> k <= below)
      BY <1>4, <1>6
    <2>1. CASE down /\ k <= below
      <3>0. cursor = below /\ below \in 0..len /\ len \in Nat /\ k \in 1..len
        BY <1>4, <1>5, <2>0, <2>1
      <3>6. k <= below
        BY <2>1, Zenon
      <3>1. cursor \in 1..len /\ cursor \in DOMAIN ticks
        <4>1. cursor \in 1..len
          BY <3>0, <3>6
        <4> QED
          BY <1>4, <4>1
      <3>2. k < cursor => ticks[k].index < ticks[cursor].index
        BY <1>7, <3>1
      <3>3. k = cursor \/ k < cursor
        BY <3>0, <3>6
      <3>4. ticks[cursor].index = next /\ next \in Int
        BY <1>8, <1>9, <3>1
      <3>5. ticks[k].index <= next
        <4>1. CASE k = cursor
          BY <2>0, <3>4, <4>1
        <4>2. CASE k < cursor
          BY <2>0, <3>2, <3>4, <4>2
        <4> QED
          BY <3>3, <4>1, <4>2
      <3> QED
        BY <2>1, <3>5
    <2>2. CASE ~down /\ ~(k <= below)
      <3>1. cursor = below + 1 /\ cursor \in DOMAIN ticks
        BY <1>4, <1>5, <2>0, <2>2
      <3>2. cursor < k => ticks[cursor].index < ticks[k].index
        BY <1>7, <3>1
      <3>3. k = cursor \/ cursor < k
        BY <1>4, <2>0, <2>2, <3>1
      <3> QED
        BY <1>8, <1>9, <2>0, <2>2, <3>1, <3>2, <3>3
    <2>3. CASE (down /\ ~(k <= below)) \/ (~down /\ k <= below)
      BY <1>3, <2>0, <2>3
    <2> QED
      BY <2>1, <2>2, <2>3
  <1>12. PriceOK(Limit(down)) /\ Ways(price, Limit(down), down)
    BY <1>2, LimitIs
  <1> DEFINE r == Ratio[next]
             low == Ratio[MIN_TICK]
             high == Ratio[MAX_TICK]
             limit == Limit(down)
  <1>13. r \in Nat \ {0} /\ low \in Nat \ {0} /\ high \in Nat \ {0}
    BY <1>1, <1>9
  <1>14. limit \in Nat \ {0} /\ low < limit /\ limit < high /\ price \in Nat \ {0} /\ low < price /\ price < high
    BY <1>2, <1>12 DEF PriceOK
  <1>15. IF down THEN r <= price ELSE price <= r
    <2>1. CASE down
      <3>1. next = tick \/ next < tick
        <4>1. next <= tick
          BY <1>10, <2>1
        <4> QED
          BY <1>3, <1>9, <4>1
      <3>2. next < tick => r < Ratio[tick]
        BY <1>1, <1>3, <1>9
      <3>3. Ratio[tick] \in Nat
        BY <1>1, <1>3
      <3>4. r <= price
        <4>1. CASE next = tick
          BY <1>2, <4>1
        <4>2. CASE next < tick
          BY <1>2, <1>13, <1>14, <3>2, <3>3, <4>2
        <4> QED
          BY <3>1, <4>1, <4>2
      <3> QED
        BY <2>1, <3>4
    <2>2. CASE ~down
      <3>1. next = tick + 1 \/ tick + 1 < next
        BY <1>3, <1>9, <1>10, <2>2
      <3>2. tick + 1 < next => Ratio[tick + 1] < r
        BY <1>1, <1>3, <1>9
      <3>3. Ratio[tick + 1] \in Nat
        BY <1>1, <1>3
      <3> QED
        BY <1>2, <1>13, <1>14, <2>2, <3>1, <3>2, <3>3
    <2> QED
      BY <2>1, <2>2
  <1>16. target = IF (down /\ r < limit) \/ (~down /\ r > limit) THEN limit ELSE r
    BY DEF Within
  <1>17. cursor \notin DOMAIN ticks => r = IF down THEN low ELSE high
    BY <1>8
  <1>18. limit = IF down THEN low + 1 ELSE high - 1
    BY DEF Limit
  <1>19. IF down THEN limit <= price ELSE price <= limit
    BY <1>12 DEF Ways
  <1> HIDE DEF r, low, high, limit
  <1>20. /\ target \in Nat \ {0} /\ low < target /\ target < high
         /\ IF down THEN target <= price /\ r <= target ELSE price <= target /\ target <= r
         /\ target = r \/ target = limit
         /\ cursor \notin DOMAIN ticks => target = limit
    BY <1>13, <1>14, <1>15, <1>16, <1>17, <1>18, <1>19
  <1>21. PriceOK(target)
    BY <1>20 DEF PriceOK, low, high
  <1>22. Ways(price, target, down) /\ Ways(target, r, down)
    BY <1>20 DEF Ways
  <1> QED
    BY <1>9, <1>10, <1>11, <1>20, <1>21, <1>22 DEF all, r, limit

\* The cursor is where the ticks pass the price.
LEMMA CursorIs ==
    ASSUME NEW ticks, TicksOK(ticks), NEW tick \in Int, NEW b \in 0..Len(ticks),
           \A i \in DOMAIN ticks : ticks[i].index <= tick <=> i <= b
    PROVE  tickCursorAt(ticks, tick, TRUE) = b /\ tickCursorAt(ticks, tick, FALSE) = b + 1
  <1> DEFINE c == tickCursorAt(ticks, tick, TRUE)
             len == Len(ticks)
  <1>1. /\ len \in Nat /\ DOMAIN ticks = 1..len /\ c \in 0..len
        /\ tickCursorAt(ticks, tick, FALSE) = c + 1
        /\ \A i \in DOMAIN ticks : ticks[i].index <= tick <=> i <= c
    BY Cursor
  <1> HIDE DEF c, len
  <1>2. \A i \in 1..len : i <= b <=> i <= c
    BY <1>1, Zenon
  <1>3. b \in 0..len
    BY DEF len
  <1>4. c = b
    <2>1. ASSUME c < b PROVE FALSE
      <3>1. b \in 1..len /\ b <= b /\ ~(b <= c)
        BY <1>1, <1>3, <2>1
      <3> QED
        BY <1>2, <3>1
    <2>2. ASSUME b < c PROVE FALSE
      <3>1. c \in 1..len /\ c <= c /\ ~(c <= b)
        BY <1>1, <1>3, <2>2
      <3> QED
        BY <1>2, <3>1
    <2> QED
      BY <1>1, <1>3, <2>1, <2>2
  <1> QED
    BY <1>1, <1>4 DEF c

\* A price between two is as good as they are.
LEMMA PriceBetween ==
    ASSUME NEW p, PriceOK(p), NEW q, PriceOK(q), NEW n \in Nat, NEW down \in BOOLEAN,
           Ways(p, n, down), Ways(n, q, down)
    PROVE  PriceOK(n)
  <1> DEFINE low == Ratio[MIN_TICK]
             high == Ratio[MAX_TICK]
  <1>1. low \in Nat \ {0} /\ high \in Nat \ {0}
    BY TickRange
  <1>2. /\ p \in Nat \ {0} /\ low < p /\ p < high
        /\ q \in Nat \ {0} /\ low < q /\ q < high
    BY DEF PriceOK
  <1>3. (n <= p /\ q <= n) \/ (p <= n /\ n <= q)
    BY DEF Ways
  <1> HIDE DEF low, high
  <1>4. n \in Nat \ {0} /\ low < n /\ n < high
    BY <1>1, <1>2, <1>3
  <1> QED
    BY <1>4 DEF PriceOK, low, high

\* Where a round that reaches its tick leaves the swap.
LEMMA Reaching ==
    ASSUME NEW s, TicksOK(s.ticks), NEW w, NEW down \in BOOLEAN, PlaceOK(w.price, w.tick),
           w.liquidity = LiquidityAt(s, w.tick), w.cursor = tickCursorAt(s.ticks, w.tick, down),
           NEW next, next = TickNext(s.ticks, w.cursor, down), PriceOK(Ratio[next]),
           NEW step, step.next = Ratio[next],
           NEW v, v = Landed(s.ticks, w, next, step, down)
    PROVE  /\ PlaceOK(v.price, v.tick)
           /\ v.liquidity = LiquidityAt(s, v.tick) /\ v.cursor = tickCursorAt(s.ticks, v.tick, down)
           /\ w.cursor \in DOMAIN s.ticks /\ v.cursor = w.cursor + (IF down THEN -1 ELSE 1)
  <1> DEFINE all == DOMAIN Ratio
             ticks == s.ticks
             len == Len(ticks)
             cursor == w.cursor
             tick == w.tick
             net == ticks[cursor].net
             inner == DOMAIN ticks
  <1>1. /\ MIN_TICK \in Int /\ MAX_TICK \in Int /\ MIN_TICK < MAX_TICK /\ all = MIN_TICK..MAX_TICK
        /\ \A t \in all : Ratio[t] \in Nat \ {0}
        /\ \A t, u \in all : t < u => Ratio[t] < Ratio[u]
    BY TickRange
  <1>2. tick \in Int /\ len \in Nat /\ inner = 1..len
    <2>1. tick \in MIN_TICK..(MAX_TICK - 1)
      BY DEF PlaceOK
    <2>2. tick \in Int
      BY <1>1, <2>1
    <2> QED
      BY <2>2, Cursor
  <1>3. /\ next \in all
        /\ IF down THEN next <= tick ELSE tick < next
        /\ \A k \in inner : IF down THEN ticks[k].index <= tick => ticks[k].index <= next
                            ELSE ticks[k].index > tick => ticks[k].index >= next
    BY TargetIs
  <1>4. cursor \in inner /\ next # MIN_TICK /\ next # MAX_TICK
    <2>1. next # MIN_TICK /\ next # MAX_TICK
      <3>1. Ratio[next] \in Nat /\ Ratio[MIN_TICK] < Ratio[next] /\ Ratio[next] < Ratio[MAX_TICK]
        BY DEF PriceOK
      <3>2. Ratio[MIN_TICK] \in Nat /\ Ratio[MAX_TICK] \in Nat
        BY <1>1
      <3> HIDE DEF all
      <3> QED
        BY <3>1, <3>2
    <2>2. cursor \notin inner => next \in {MIN_TICK, MAX_TICK}
      BY DEF TickNext
    <2> QED
      BY <2>1, <2>2
  <1>5. next = ticks[cursor].index
    BY <1>4 DEF TickNext
  <1>6. v = [remaining |-> w.remaining - step.in - step.fee,
             out |-> w.out + step.out,
             price |-> Ratio[next],
             tick |-> IF down THEN next - 1 ELSE next,
             liquidity |-> w.liquidity + (IF down THEN -net ELSE net),
             cursor |-> cursor + (IF down THEN -1 ELSE 1),
             exhausted |-> w.exhausted \/ RunsOut(next, w.liquidity)]
    BY <1>4 DEF Landed
  <1>7. NetAt(s, next) = net /\ net \in Int
    BY <1>4, <1>5, NetIs, TickIs
  <1>8. \A k \in inner : ticks[k].index \in Int
    BY TickIs
  <1>9. \A j, k \in inner : j < k => ticks[j].index < ticks[k].index
    BY DEF TicksOK
  <1>10. next \in Int /\ next - 1 \in Int /\ next \in MIN_TICK..MAX_TICK
    BY <1>1, <1>3
  <1>11. /\ LiquidityAt(s, next) \in Int /\ LiquidityAt(s, next - 1) \in Int
         /\ LiquidityAt(s, next) = LiquidityAt(s, next - 1) + net
    BY <1>3, <1>7, <1>10, OneTick
  <1>12. \A k \in inner : (ticks[k].index <= next <=> k <= cursor) /\ (ticks[k].index <= next - 1 <=> k <= cursor - 1)
    <2> SUFFICES ASSUME NEW k \in inner
                 PROVE  (ticks[k].index <= next <=> k <= cursor) /\ (ticks[k].index <= next - 1 <=> k <= cursor - 1)
      OBVIOUS
    <2>1. k \in Int /\ cursor \in Int /\ ticks[k].index \in Int
      BY <1>2, <1>4, <1>8
    <2>2. (k < cursor => ticks[k].index < next) /\ (cursor < k => next < ticks[k].index)
      BY <1>4, <1>5, <1>9
    <2>3. k = cursor => ticks[k].index = next
      BY <1>5
    <2> HIDE DEF inner, ticks, cursor
    <2> QED
      BY <1>10, <2>1, <2>2, <2>3
  <1>13. PlaceOK(Ratio[next], next) /\ PlaceOK(Ratio[next], next - 1)
    <2>1. next \in MIN_TICK..(MAX_TICK - 1) /\ next - 1 \in MIN_TICK..(MAX_TICK - 1)
      BY <1>1, <1>4, <1>10
    <2>2. next + 1 \in all /\ next - 1 \in all /\ next - 1 < next /\ next < next + 1 /\ (next - 1) + 1 = next
      BY <1>1, <2>1
    <2>3. Ratio[next - 1] < Ratio[next] /\ Ratio[next] < Ratio[next + 1]
      BY <1>1, <1>3, <2>2
    <2>4. Ratio[next - 1] <= Ratio[next] /\ Ratio[next] <= Ratio[next + 1] /\ Ratio[next] <= Ratio[next]
      <3>1. Ratio[next - 1] \in Nat /\ Ratio[next] \in Nat /\ Ratio[next + 1] \in Nat
        BY <1>1, <1>3, <2>2
      <3> HIDE DEF all
      <3> QED
        BY <2>3, <3>1
    <2> QED
      BY <2>1, <2>2, <2>4 DEF PlaceOK
  <1>14. cursor \in 1..len /\ cursor \in 0..len /\ cursor - 1 \in 0..len /\ (cursor - 1) + 1 = cursor
    BY <1>2, <1>4
  <1>17. TicksOK(ticks) /\ len = Len(ticks)
    OBVIOUS
  <1>18. /\ \A k \in inner : ticks[k].index <= next <=> k <= cursor
         /\ \A k \in inner : ticks[k].index <= next - 1 <=> k <= cursor - 1
    BY <1>12
  <1>19. tickCursorAt(ticks, next - 1, TRUE) = cursor - 1 /\ tickCursorAt(ticks, next, FALSE) = cursor + 1
    <2>1. next \in Int /\ next - 1 \in Int /\ cursor \in 0..Len(ticks) /\ cursor - 1 \in 0..Len(ticks)
      BY <1>10, <1>14
    <2> HIDE DEF ticks, len, cursor
    <2>2. tickCursorAt(ticks, next - 1, TRUE) = cursor - 1
      <3> DEFINE t == next - 1
                 b == cursor - 1
      <3>1. t \in Int /\ b \in 0..Len(ticks) /\ \A k \in DOMAIN ticks : ticks[k].index <= t <=> k <= b
        BY <1>18, <2>1, Zenon
      <3> HIDE DEF t, b
      <3>2. tickCursorAt(ticks, t, TRUE) = b
        BY <1>17, <3>1, CursorIs
      <3> QED
        BY <3>2 DEF t, b
    <2>3. tickCursorAt(ticks, next, FALSE) = cursor + 1
      <3>1. \A k \in DOMAIN ticks : ticks[k].index <= next <=> k <= cursor
        BY <1>18
      <3>2. next \in Int /\ cursor \in 0..Len(ticks) /\ TicksOK(ticks)
        BY <1>17, <2>1
      <3> HIDE DEF inner
      <3> QED
        BY <3>1, <3>2, CursorIs
    <2> QED
      BY <2>2, <2>3
  <1>20. \A k \in inner : ticks[k].index <= tick \/ ticks[k].index > tick
    BY <1>2, <1>8
  <1>15. CASE down
    <2>0. down = TRUE
      BY <1>15
    <2>1. tickCursorAt(ticks, next - 1, TRUE) = cursor - 1
      BY <1>19
    <2>2. LiquidityAt(s, tick) = LiquidityAt(s, next)
      <3>1. \A k \in inner : ticks[k].index <= next \/ ticks[k].index > tick
        BY <1>3, <1>20, <2>0
      <3>2. next <= tick
        BY <1>3, <2>0
      <3> QED
        BY <1>2, <1>10, <3>1, <3>2, NoTickBetween
    <2>3. v.price = Ratio[next] /\ v.tick = next - 1 /\ v.liquidity = w.liquidity + (-net) /\ v.cursor = cursor + (-1)
      BY <1>6, <2>0
    <2>4. v.liquidity = LiquidityAt(s, next - 1)
      BY <1>7, <1>11, <2>2, <2>3
    <2>5. v.cursor = cursor - 1
      BY <1>14, <2>3
    <2> QED
      BY <1>4, <1>13, <2>0, <2>1, <2>3, <2>4, <2>5
  <1>16. CASE ~down
    <2>0. down = FALSE
      BY <1>16
    <2>1. tickCursorAt(ticks, next, FALSE) = cursor + 1
      BY <1>19
    <2>2. LiquidityAt(s, next - 1) = LiquidityAt(s, tick)
      <3>1. \A k \in inner : ticks[k].index <= tick \/ ticks[k].index > next - 1
        BY <1>2, <1>3, <1>8, <1>10, <2>0
      <3>2. tick < next
        BY <1>3, <2>0
      <3>3. tick <= next - 1
        BY <1>2, <1>10, <3>2
      <3> QED
        BY <1>2, <1>10, <3>1, <3>3, NoTickBetween
    <2>3. v.price = Ratio[next] /\ v.tick = next /\ v.liquidity = w.liquidity + net /\ v.cursor = cursor + 1
      BY <1>6, <2>0
    <2>4. v.liquidity = LiquidityAt(s, next)
      BY <1>7, <1>11, <2>2, <2>3
    <2> QED
      BY <1>4, <1>13, <2>0, <2>1, <2>3, <2>4
  <1> QED
    BY <1>15, <1>16

\* Where a round that stops before its tick leaves the swap.
LEMMA Stopping ==
    ASSUME NEW s, TicksOK(s.ticks), NEW w, NEW down \in BOOLEAN, PlaceOK(w.price, w.tick),
           w.liquidity = LiquidityAt(s, w.tick), w.cursor = tickCursorAt(s.ticks, w.tick, down),
           NEW next, next = TickNext(s.ticks, w.cursor, down),
           NEW step, step.next # Ratio[next], PriceOK(step.next),
           Ways(w.price, step.next, down), Ways(step.next, Ratio[next], down),
           NEW v, v = Landed(s.ticks, w, next, step, down)
    PROVE  /\ PlaceOK(v.price, v.tick)
           /\ v.liquidity = LiquidityAt(s, v.tick) /\ v.cursor = tickCursorAt(s.ticks, v.tick, down)
           /\ v.liquidity = w.liquidity /\ v.cursor = w.cursor
  <1> DEFINE all == DOMAIN Ratio
             ticks == s.ticks
             inner == DOMAIN ticks
             tick == w.tick
             price == w.price
             to == step.next
             there == getTickAtSqrtRatio(to)
  <1>1. /\ MIN_TICK \in Int /\ MAX_TICK \in Int /\ MIN_TICK < MAX_TICK /\ all = MIN_TICK..MAX_TICK
        /\ \A t \in all : Ratio[t] \in Nat \ {0}
    BY TickRange
  <1>2. /\ tick \in Int /\ tick + 1 \in all /\ tick \in all /\ price \in Nat
        /\ Ratio[tick] <= price /\ price <= Ratio[tick + 1]
    <2>1. /\ tick \in MIN_TICK..(MAX_TICK - 1) /\ PriceOK(price)
          /\ Ratio[tick] <= price /\ price <= Ratio[tick + 1]
      BY DEF PlaceOK
    <2>2. price \in Nat
      BY <2>1 DEF PriceOK
    <2>3. tick \in Int /\ tick + 1 \in all /\ tick \in all
      BY <1>1, <2>1
    <2> QED
      BY <2>1, <2>2, <2>3
  <1>3. /\ next \in all
        /\ \A k \in inner : IF down THEN ticks[k].index <= tick => ticks[k].index <= next
                            ELSE ticks[k].index > tick => ticks[k].index >= next
    BY TargetIs
  <1>4. PlaceOK(to, there) /\ \A u \in all : Ratio[u] <= to <=> u <= there
    BY TickAt
  <1>5. v.price = to /\ v.liquidity = w.liquidity
        /\ v.tick = (IF to # price THEN there ELSE tick)
        /\ v.cursor = (IF to = price THEN w.cursor ELSE tickCursorAt(ticks, v.tick, down))
    BY DEF Landed
  <1>6. CASE to = price
    BY <1>5, <1>6
  <1>7. CASE to # price
    <2>1. v.tick = there /\ v.cursor = tickCursorAt(ticks, there, down)
      BY <1>5, <1>7
    <2>2. there \in Int /\ to \in Nat /\ next \in Int /\ Ratio[next] \in Nat
      <3>1. there \in MIN_TICK..(MAX_TICK - 1) /\ PriceOK(to)
        BY <1>4 DEF PlaceOK
      <3>2. to \in Nat
        BY <3>1 DEF PriceOK
      <3>3. there \in Int /\ next \in Int /\ Ratio[next] \in Nat
        BY <1>1, <1>3, <3>1
      <3> QED
        BY <3>2, <3>3
    <2>3. \A k \in inner : ticks[k].index \in Int
      BY TickIs
    <2>4. Ratio[tick] \in Nat /\ Ratio[tick + 1] \in Nat
      BY <1>1, <1>2
    <2>5. CASE down
      <3>0. down = TRUE
        BY <2>5
      <3>1. to <= price /\ Ratio[next] <= to
        BY <3>0 DEF Ways
      <3>2. to < Ratio[tick + 1]
        BY <1>2, <1>7, <2>2, <2>4, <3>1
      <3>3. ~(Ratio[tick + 1] <= to)
        BY <2>2, <2>4, <3>2
      <3>4. ~(tick + 1 <= there)
        BY <1>2, <1>4, <3>3
      <3>5. next <= there /\ there <= tick
        <4>1. next <= there
          BY <1>3, <1>4, <3>1
        <4>2. there <= tick
          BY <1>2, <2>2, <3>4
        <4> QED
          BY <4>1, <4>2
      <3>6. \A k \in inner : ticks[k].index <= tick => ticks[k].index <= next
        BY <1>3, <3>0
      <3>7. \A k \in inner : ticks[k].index <= there \/ ticks[k].index > tick
        <4> SUFFICES ASSUME NEW k \in inner PROVE ticks[k].index <= there \/ ticks[k].index > tick
          OBVIOUS
        <4>1. ticks[k].index \in Int /\ (ticks[k].index <= tick => ticks[k].index <= next)
          BY <2>3, <3>6
        <4> QED
          BY <1>2, <2>2, <3>5, <4>1
      <3>8. LiquidityAt(s, tick) = LiquidityAt(s, there)
        BY <1>2, <2>2, <3>5, <3>7, NoTickBetween
      <3>9. {i \in inner : ticks[i].index <= there} = {i \in inner : ticks[i].index <= tick}
        <4>1. \A i \in inner : ticks[i].index <= there <=> ticks[i].index <= tick
          BY <1>2, <2>2, <2>3, <3>5, <3>7
        <4> QED
          BY <4>1
      <3>10. v.cursor = w.cursor
        BY <2>1, <3>9 DEF tickCursorAt
      <3> QED
        BY <1>4, <1>5, <2>1, <3>8, <3>10
    <2>6. CASE ~down
      <3>0. down = FALSE
        BY <2>6
      <3>1. price <= to /\ to <= Ratio[next]
        BY <3>0 DEF Ways
      <3>2. Ratio[tick] <= to
        BY <1>2, <2>2, <2>4, <3>1
      <3>3. ~(Ratio[next] <= to)
        BY <2>2, <3>1
      <3>4. tick <= there /\ ~(next <= there)
        BY <1>2, <1>3, <1>4, <3>2, <3>3
      <3>6. \A k \in inner : ticks[k].index > tick => ticks[k].index >= next
        BY <1>3, <3>0
      <3>7. \A k \in inner : ticks[k].index <= tick \/ ticks[k].index > there
        <4> SUFFICES ASSUME NEW k \in inner PROVE ticks[k].index <= tick \/ ticks[k].index > there
          OBVIOUS
        <4>1. ticks[k].index \in Int /\ (ticks[k].index > tick => ticks[k].index >= next)
          BY <2>3, <3>6
        <4> QED
          BY <1>2, <2>2, <3>4, <4>1
      <3>8. LiquidityAt(s, there) = LiquidityAt(s, tick)
        BY <1>2, <2>2, <3>4, <3>7, NoTickBetween
      <3>9. {i \in inner : ticks[i].index <= there} = {i \in inner : ticks[i].index <= tick}
        <4>1. \A i \in inner : ticks[i].index <= there <=> ticks[i].index <= tick
          BY <1>2, <2>2, <2>3, <3>4, <3>7
        <4> QED
          BY <4>1
      <3>10. v.cursor = w.cursor
        BY <2>1, <3>9 DEF tickCursorAt
      <3> QED
        BY <1>4, <1>5, <2>1, <3>8, <3>10
    <2> QED
      BY <2>5, <2>6
  <1> QED
    BY <1>6, <1>7

\* What a swap has come to.
WalkOK(s, a, w, down) ==
    /\ w.remaining \in 0..a /\ w.out \in Nat
    /\ PlaceOK(w.price, w.tick) /\ Ways(s.price, w.price, down)
    /\ w.liquidity = LiquidityAt(s, w.tick)
    /\ w.cursor = tickCursorAt(s.ticks, w.tick, down)
    /\ AtMost(w.out, a - w.remaining, s.price, down)

\* What the states of a concentrated pool are made of.
LEMMA ClmmIs ==
    ASSUME NEW s, ClmmOK(s)
    PROVE  /\ TicksOK(s.ticks) /\ PlaceOK(s.price, s.tick)
           /\ s.fee \in 0..(FEE_PIPS_DENOMINATOR - 1) /\ s.liquidity \in Nat
           /\ s.liquidity = LiquidityAt(s, s.tick)
           /\ \A t \in DOMAIN Ratio : LiquidityAt(s, t) \in Nat
  <1> DEFINE fees == 0..(FEE_PIPS_DENOMINATOR - 1)
             entries == Seq([index : DOMAIN Ratio, net : Int])
  <1>1. s \in [price : Nat, tick : Int, liquidity : Nat, fee : fees, ticks : entries]
    BY DEF ClmmOK, ClmmStates
  <1> HIDE DEF fees, entries
  <1>2. s.price \in Nat /\ s.liquidity \in Nat /\ s.fee \in fees /\ s.ticks \in entries
    BY <1>1
  <1>3. TicksOK(s.ticks)
    BY <1>2 DEF TicksOK, ClmmOK, entries
  <1>4. PlaceOK(s.price, s.tick)
    <2>1. Ratio[MIN_TICK] < s.price /\ s.price < Ratio[MAX_TICK]
      BY DEF ClmmOK
    <2>2. s.tick \in MIN_TICK..(MAX_TICK - 1) /\ s.price \in Ratio[s.tick]..Ratio[s.tick + 1]
      BY DEF ClmmOK
    <2> DEFINE low == Ratio[MIN_TICK]
    <2>3. low \in Nat
      BY TickRange
    <2>4. s.price \in Nat \ {0}
      <3>1. low < s.price
        BY <2>1
      <3> HIDE DEF low
      <3> QED
        BY <1>2, <2>3, <3>1
    <2>5. Ratio[s.tick] <= s.price /\ s.price <= Ratio[s.tick + 1]
      BY <2>2
    <2> QED
      BY <2>1, <2>2, <2>4, <2>5 DEF PlaceOK, PriceOK
  <1>5. s.liquidity = LiquidityAt(s, s.tick) /\ \A t \in DOMAIN Ratio : LiquidityAt(s, t) >= 0
    BY DEF ClmmOK
  <1>6. \A t \in DOMAIN Ratio : LiquidityAt(s, t) \in Nat
    <2> SUFFICES ASSUME NEW t \in DOMAIN Ratio PROVE LiquidityAt(s, t) \in Nat
      OBVIOUS
    <2>1. t \in Int
      BY TickRange
    <2>2. LiquidityAt(s, t) \in Int
      BY <1>3, <2>1, OneTick
    <2> QED
      BY <1>5, <2>2
  <1> QED
    BY <1>2, <1>3, <1>4, <1>5, <1>6 DEF fees

\* Every round goes on as the walk must, and either ends it or passes a tick.
LEMMA Round ==
    ASSUME NEW s, ClmmOK(s), NEW a \in Nat, NEW w, NEW down \in BOOLEAN, WalkOK(s, a, w, down),
           ~Finished(w, down), NEW v, v = Onward(s, w, down)
    PROVE  /\ WalkOK(s, a, v, down)
           /\ \/ Finished(v, down)
              \/ w.cursor \in DOMAIN s.ticks /\ v.cursor = w.cursor + (IF down THEN -1 ELSE 1)
  <1> DEFINE next == TickNext(s.ticks, w.cursor, down)
             target == Within(Ratio[next], down)
             step == computeSwapStep(w.price, target, w.liquidity, w.remaining, s.fee)
             left == w.remaining - step.in - step.fee
  <1>1. v = Landed(s.ticks, w, next, step, down)
    BY DEF Onward
  <1>2. /\ TicksOK(s.ticks) /\ s.fee \in 0..(FEE_PIPS_DENOMINATOR - 1) /\ PlaceOK(s.price, s.tick)
        /\ \A t \in DOMAIN Ratio : LiquidityAt(s, t) \in Nat
    BY ClmmIs
  <1>3. /\ w.remaining \in 0..a /\ w.out \in Nat
        /\ PlaceOK(w.price, w.tick) /\ Ways(s.price, w.price, down)
        /\ w.liquidity = LiquidityAt(s, w.tick)
        /\ w.cursor = tickCursorAt(s.ticks, w.tick, down)
        /\ AtMost(w.out, a - w.remaining, s.price, down)
    BY DEF WalkOK
  <1> HIDE DEF next, target
  <1>4. next = TickNext(s.ticks, w.cursor, down) /\ target = Within(Ratio[next], down)
    BY DEF next, target
  <1>5. /\ next \in DOMAIN Ratio /\ PriceOK(target)
        /\ Ways(w.price, target, down) /\ Ways(target, Ratio[next], down)
        /\ target = Ratio[next] \/ target = Limit(down)
    BY <1>2, <1>3, <1>4, TargetIs
  <1>6. w.price \in Nat \ {0} /\ target \in Nat \ {0} /\ s.price \in Nat \ {0} /\ PriceOK(w.price)
    BY <1>2, <1>3, <1>5 DEF PlaceOK, PriceOK
  <1>7. w.liquidity \in Nat
    <2>1. w.tick \in MIN_TICK..(MAX_TICK - 1)
      BY <1>3 DEF PlaceOK
    <2>2. w.tick \in DOMAIN Ratio
      <3>1. MIN_TICK \in Int /\ MAX_TICK \in Int /\ DOMAIN Ratio = MIN_TICK..MAX_TICK
        BY TickRange
      <3> QED
        BY <2>1, <3>1
    <2> QED
      BY <1>2, <1>3, <2>2
  <1>8. StepOK(w.price, target, w.liquidity, w.remaining, s.fee, step)
    <2>1. w.remaining \in Nat
      BY <1>3
    <2> QED
      BY <1>2, <1>6, <1>7, <2>1, SwapStep
  <1> HIDE DEF step
  <1>9. /\ step.next \in Nat \ {0} /\ step.in \in Nat /\ step.out \in Nat /\ step.fee \in Nat
        /\ step.in + step.fee <= w.remaining
        /\ step.next # target => step.in + step.fee = w.remaining
    BY <1>8 DEF StepOK
  <1>10. /\ Ways(w.price, step.next, down) /\ Ways(step.next, target, down)
         /\ Enough(w.price, step.next, w.liquidity, step.in, down)
         /\ Pays(w.price, step.next, w.liquidity, step.out, down)
    <2>1. w.remaining \in Nat
      BY <1>3
    <2> QED
      BY <1>5, <1>6, <1>7, <1>8, <2>1, StepWay
  <1>11. PriceOK(step.next)
    BY <1>5, <1>6, <1>9, <1>10, PriceBetween
  <1>12. Ways(s.price, step.next, down)
    <2>1. s.price \in Nat /\ w.price \in Nat /\ step.next \in Nat
      BY <1>6, <1>9
    <2> QED
      BY <1>3, <1>10, <2>1 DEF Ways
  <1>13. Ways(step.next, Ratio[next], down)
    <2>1. target \in Nat /\ step.next \in Nat /\ Ratio[next] \in Nat
      BY <1>5, <1>6, <1>9, TickRange
    <2> QED
      BY <1>5, <1>10, <2>1 DEF Ways
  <1>14. v.remaining = left /\ v.out = w.out + step.out /\ v.price = step.next
    BY <1>1 DEF Landed
  <1>15. left \in 0..a /\ a - left = (a - w.remaining) + (step.in + step.fee) /\ a - w.remaining \in Nat
         /\ (step.next # target => left = 0)
    BY <1>3, <1>9
  <1>16. AtMost(v.out, a - v.remaining, s.price, down)
    <2>1. AtMost(step.out, step.in, s.price, down)
      <3> DEFINE p == s.price
                 c == w.price
                 n == step.next
                 l == w.liquidity
                 in == step.in
                 out == step.out
      <3>1. /\ p \in Nat \ {0} /\ c \in Nat \ {0} /\ n \in Nat \ {0}
            /\ l \in Nat /\ in \in Nat /\ out \in Nat
        BY <1>6, <1>7, <1>9
      <3>2. Ways(p, c, down) /\ Ways(c, n, down) /\ Enough(c, n, l, in, down) /\ Pays(c, n, l, out, down)
        BY <1>3, <1>10
      <3> HIDE DEF p, c, n, l, in, out
      <3>3. AtMost(out, in, p, down)
        BY <3>1, <3>2, PriceHolds
      <3> QED
        BY <3>3 DEF p, in, out
    <2>2. AtMost(w.out + step.out, (a - w.remaining) + (step.in + step.fee), s.price, down)
      BY <1>3, <1>6, <1>9, <1>15, <2>1, AtMostAdds
    <2> QED
      BY <1>14, <1>15, <2>2
  <1>17. v.remaining \in 0..a /\ v.out \in Nat /\ Ways(s.price, v.price, down)
    BY <1>3, <1>9, <1>12, <1>14, <1>15
  <1>18. CASE step.next = Ratio[next]
    <2>1. /\ PlaceOK(v.price, v.tick)
          /\ v.liquidity = LiquidityAt(s, v.tick) /\ v.cursor = tickCursorAt(s.ticks, v.tick, down)
          /\ w.cursor \in DOMAIN s.ticks /\ v.cursor = w.cursor + (IF down THEN -1 ELSE 1)
      <3>1. PriceOK(Ratio[next])
        BY <1>11, <1>18
      <3> QED
        BY <1>1, <1>2, <1>3, <1>4, <1>18, <3>1, Reaching
    <2> QED
      BY <1>16, <1>17, <2>1 DEF WalkOK
  <1>19. CASE step.next # Ratio[next]
    <2>1. /\ PlaceOK(v.price, v.tick)
          /\ v.liquidity = LiquidityAt(s, v.tick) /\ v.cursor = tickCursorAt(s.ticks, v.tick, down)
      BY <1>1, <1>2, <1>3, <1>4, <1>10, <1>11, <1>13, <1>19, Stopping
    <2>2. Finished(v, down)
      <3>1. CASE step.next = target
        BY <1>5, <1>14, <1>19, <3>1 DEF Finished
      <3>2. CASE step.next # target
        BY <1>14, <1>15, <3>2 DEF Finished
      <3> QED
        BY <3>1, <3>2
    <2> QED
      BY <1>16, <1>17, <2>1, <2>2 DEF WalkOK
  <1> QED
    BY <1>18, <1>19

\* The rounds of a swap.
Start(s, a, down) ==
    [remaining |-> a, out |-> 0, price |-> s.price, tick |-> s.tick, liquidity |-> s.liquidity,
     cursor |-> tickCursorAt(s.ticks, s.tick, down), exhausted |-> FALSE]
Rounds(s, a, down, after) ==
    /\ swap(s, a, down) = after[Len(s.ticks) + 1]
    /\ after[0] = Start(s, a, down)
    /\ \A n \in 1..(Len(s.ticks) + 1) : after[n] = Onward(s, after[n - 1], down)

\* The function swap computes exists.
LEMMA RoundsAre ==
    ASSUME NEW s, Len(s.ticks) \in Nat, NEW a, NEW down
    PROVE  \E after : Rounds(s, a, down, after)
  <1> DEFINE last == Len(s.ticks) + 1
             start == Start(s, a, down)
             Next1(w) == Onward(s, w, down)
             Step(f, k) == IF k = 0 THEN start ELSE Next1(f[k - 1])
             Good(n) == \E f : f = [k \in 0..n |-> Step(f, k)]
             Bad == {n \in Nat : ~Good(n)}
  <1>1. Good(0)
    <2> DEFINE f == [k \in 0..0 |-> start]
    <2>1. f = [k \in 0..0 |-> Step(f, k)]
      <3>1. \A k \in 0..0 : k = 0
        OBVIOUS
      <3> QED
        BY <3>1
    <2> QED
      BY <2>1
  <1>2. ASSUME NEW n \in Nat, n # 0, Good(n - 1) PROVE Good(n)
    <2>1. PICK f : f = [k \in 0..(n - 1) |-> Step(f, k)]
      BY <1>2
    <2> DEFINE D == 0..(n - 1)
               E == 0..n
               g == [k \in E |-> IF k \in D THEN f[k] ELSE Next1(f[k - 1])]
    <2>2. \A k \in E : k # 0 => k - 1 \in D /\ k - 1 \in E
      BY <1>2
    <2>3. 0 \in D /\ D \subseteq E
      BY <1>2
    <2> HIDE DEF D, E, Next1, start
    <2>4. \A k \in D : g[k] = f[k] /\ f[k] = Step(f, k)
      BY <2>1, <2>3 DEF D
    <2>5. \A k \in E : g[k] = Step(g, k)
      <3> SUFFICES ASSUME NEW k \in E PROVE g[k] = Step(g, k)
        OBVIOUS
      <3>1. CASE k = 0
        BY <2>3, <2>4, <3>1
      <3>2. CASE k # 0
        <4>1. g[k - 1] = f[k - 1]
          BY <2>2, <2>4, <3>2
        <4>2. g[k] = Next1(f[k - 1])
          BY <2>4, <3>2
        <4> QED
          BY <3>2, <4>1, <4>2
      <3> QED
        BY <3>1, <3>2
    <2>6. g = [k \in E |-> Step(g, k)]
      BY <2>5
    <2> QED
      BY <2>6 DEF E
  <1>3. Bad = {}
    <2>1. SUFFICES ASSUME Bad # {} PROVE FALSE
      OBVIOUS
    <2> HIDE DEF Good
    <2>2. PICK n \in Bad : \A m \in Bad : n <= m
      <3>1. Bad \in SUBSET Nat
        OBVIOUS
      <3> HIDE DEF Bad
      <3> QED
        BY <2>1, <3>1, Least
    <2>3. n # 0 /\ n - 1 \in Nat
      BY <1>1, <2>2
    <2>4. n - 1 \notin Bad
      <3>1. n \in Nat
        BY <2>2
      <3> HIDE DEF Bad
      <3> QED
        BY <2>2, <2>3, <3>1
    <2> QED
      BY <1>2, <2>2, <2>3, <2>4
  <1>4. last \in Nat /\ 0..last = 0..(Len(s.ticks) + 1)
    OBVIOUS
  <1>5. Good(last)
    <2> HIDE DEF Good, last
    <2> QED
      BY <1>3, <1>4
  <1>6. \E f : f = [k \in 0..(Len(s.ticks) + 1) |-> Step(f, k)]
    BY <1>5
  <1> DEFINE after == CHOOSE f : f = [k \in 0..(Len(s.ticks) + 1) |-> Step(f, k)]
  <1>7. after = [k \in 0..(Len(s.ticks) + 1) |-> Step(after, k)]
    BY <1>6
  <1>8. swap(s, a, down) = after[Len(s.ticks) + 1]
    BY DEF swap, Start
  <1> HIDE DEF after
  <1>9. /\ after[0] = start
        /\ \A k \in 1..(Len(s.ticks) + 1) : after[k] = Next1(after[k - 1])
    <2> HIDE DEF start, Next1
    <2>1. 0 \in 0..(Len(s.ticks) + 1)
      OBVIOUS
    <2>2. \A k \in 1..(Len(s.ticks) + 1) : k # 0 /\ k \in 0..(Len(s.ticks) + 1)
      OBVIOUS
    <2> QED
      BY <1>7, <2>1, <2>2
  <1> QED
    BY <1>8, <1>9 DEF Rounds

\* A swap ends: it has passed no tick twice, and there are no more of them.
LEMMA SwapEnds ==
    ASSUME NEW s, ClmmOK(s), NEW a \in Nat, NEW down \in BOOLEAN,
           NEW result, result = swap(s, a, down)
    PROVE  WalkOK(s, a, result, down) /\ Finished(result, down)
  <1> DEFINE len == Len(s.ticks)
             c0 == tickCursorAt(s.ticks, s.tick, down)
             Passed(n) == c0 + (IF down THEN -n ELSE n)
  <1>1. /\ TicksOK(s.ticks) /\ PlaceOK(s.price, s.tick) /\ s.liquidity = LiquidityAt(s, s.tick)
    BY ClmmIs
  <1>2. s.tick \in Int /\ s.price \in Nat
    <2>1. s.tick \in MIN_TICK..(MAX_TICK - 1) /\ s.price \in Nat
      BY <1>1 DEF PlaceOK, PriceOK
    <2>2. MIN_TICK \in Int /\ MAX_TICK \in Int
      BY TickRange
    <2> QED
      BY <2>1, <2>2
  <1>3. len \in Nat /\ DOMAIN s.ticks = 1..len
        /\ tickCursorAt(s.ticks, s.tick, TRUE) \in 0..len
        /\ tickCursorAt(s.ticks, s.tick, FALSE) = tickCursorAt(s.ticks, s.tick, TRUE) + 1
    BY <1>1, <1>2, Cursor
  <1>4. PICK after : Rounds(s, a, down, after)
    BY <1>3, RoundsAre
  <1>5. /\ result = after[len + 1] /\ after[0] = Start(s, a, down)
        /\ \A n \in 1..(len + 1) : after[n] = Onward(s, after[n - 1], down)
    BY <1>4 DEF Rounds
  <1> DEFINE I(n) == /\ WalkOK(s, a, after[n], down)
                     /\ Finished(after[n], down) \/ after[n].cursor = Passed(n)
  <1>12. c0 \in Int /\ (down => c0 \in 0..len) /\ (~down => c0 \in 1..(len + 1))
    <2>1. CASE down
      <3>1. c0 = tickCursorAt(s.ticks, s.tick, TRUE)
        BY <2>1
      <3> HIDE DEF c0, len
      <3>2. c0 \in 0..len /\ len \in Nat
        BY <1>3, <3>1
      <3> QED
        BY <2>1, <3>2
    <2>2. CASE ~down
      <3> DEFINE b == tickCursorAt(s.ticks, s.tick, TRUE)
      <3>1. c0 = tickCursorAt(s.ticks, s.tick, FALSE)
        BY <2>2
      <3>2. b \in 0..len /\ len \in Nat /\ c0 = b + 1
        BY <1>3, <3>1
      <3> HIDE DEF c0, len, b
      <3>3. c0 \in 1..(len + 1)
        BY <3>2
      <3> QED
        BY <2>2, <3>2, <3>3
    <2> QED
      BY <2>1, <2>2
  <1>6. I(0)
    <2>1. /\ after[0].remaining = a /\ after[0].out = 0 /\ after[0].price = s.price
          /\ after[0].tick = s.tick /\ after[0].liquidity = s.liquidity /\ after[0].cursor = c0
      BY <1>5 DEF Start
    <2>2. Ways(s.price, s.price, down)
      BY <1>2 DEF Ways
    <2>3. AtMost(0, a - a, s.price, down)
      <3>1. Q96 * Q96 \in Nat /\ s.price * s.price \in Nat
        BY <1>2, AmountsAssumption, Times DEF AmountsAssumption
      <3>2. a - a = 0 /\ 0 * (Q96 * Q96) = 0 /\ 0 * (s.price * s.price) = 0
        BY <3>1
      <3>3. 0 * (Q96 * Q96) <= (a - a) * (s.price * s.price) /\ 0 * (s.price * s.price) <= (a - a) * (Q96 * Q96)
        BY <3>2
      <3> QED
        BY <3>3 DEF AtMost
    <2>4. WalkOK(s, a, after[0], down)
      BY <1>1, <2>1, <2>2, <2>3 DEF WalkOK
    <2>5. after[0].cursor = Passed(0)
      <3>1. c0 + 0 = c0 /\ c0 + (-0) = c0
        <4> HIDE DEF c0
        <4> QED
          BY <1>12
      <3> QED
        BY <2>1, <3>1
    <2> QED
      BY <2>4, <2>5
  <1>7. ASSUME NEW n \in 1..(len + 1), I(n - 1)
        PROVE  /\ I(n)
               /\ ~Finished(after[n], down) => after[n - 1].cursor = Passed(n - 1) /\ after[n - 1].cursor \in 1..len
    <2>1. after[n] = Onward(s, after[n - 1], down)
      BY <1>5
    <2>2. CASE Finished(after[n - 1], down)
      <3>1. after[n] = after[n - 1]
        BY <2>1, <2>2 DEF Onward
      <3> QED
        BY <1>7, <2>2, <3>1
    <2>3. CASE ~Finished(after[n - 1], down)
      <3>0. WalkOK(s, a, after[n - 1], down) /\ after[n - 1].cursor = Passed(n - 1)
        BY <1>7, <2>3
      <3> DEFINE w == after[n - 1]
                 v == after[n]
      <3>1. WalkOK(s, a, w, down) /\ ~Finished(w, down) /\ v = Onward(s, w, down)
        BY <2>1, <2>3, <3>0
      <3> HIDE DEF w, v
      <3>2. /\ WalkOK(s, a, v, down)
            /\ \/ Finished(v, down)
               \/ w.cursor \in DOMAIN s.ticks /\ v.cursor = w.cursor + (IF down THEN -1 ELSE 1)
        BY <3>1, Round
      <3>3. ASSUME v.cursor = w.cursor + (IF down THEN -1 ELSE 1), w.cursor = Passed(n - 1)
            PROVE  v.cursor = Passed(n)
        <4>1. c0 \in Int
          BY <1>12
        <4> HIDE DEF c0
        <4> QED
          BY <3>3, <4>1
      <3> QED
        BY <1>3, <3>0, <3>2, <3>3 DEF w, v
    <2> QED
      BY <2>2, <2>3
  <1> HIDE DEF I, Passed, len
  <1>8. \A n \in 0..len : I(n)
    <2> DEFINE Bad == {n \in Nat : n <= len /\ ~I(n)}
    <2>1. SUFFICES ASSUME Bad # {} PROVE FALSE
      BY <1>3
    <2>2. PICK n \in Bad : \A m \in Bad : n <= m
      <3>1. Bad \in SUBSET Nat
        OBVIOUS
      <3> HIDE DEF Bad
      <3> QED
        BY <2>1, <3>1, Least
    <2>3. n \in Nat /\ n <= len /\ ~I(n) /\ n # 0
      BY <1>6, <2>2
    <2>4. n - 1 \in Nat /\ n - 1 <= len /\ n \in 1..(len + 1)
      BY <1>3, <2>3
    <2>5. n - 1 \notin Bad
      <3> HIDE DEF Bad
      <3> QED
        BY <2>2, <2>3, <2>4
    <2>6. I(n - 1)
      BY <2>4, <2>5
    <2> QED
      BY <1>7, <2>3, <2>4, <2>6
  <1>9. I(len) /\ len + 1 \in 1..(len + 1) /\ (len + 1) - 1 = len
    BY <1>3, <1>8
  <1>10. /\ I(len + 1)
         /\ ~Finished(after[len + 1], down) => after[len].cursor = Passed(len) /\ after[len].cursor \in 1..len
    BY <1>7, <1>9
  <1>11. Passed(len) \notin 1..len
    <2>1. CASE down
      <3>0. down = TRUE
        BY <2>1
      <3>1. c0 \in 0..len
        BY <1>12, <3>0
      <3>2. Passed(len) = c0 - len
        BY <3>0 DEF Passed
      <3> HIDE DEF c0
      <3> QED
        BY <1>3, <3>1, <3>2
    <2>2. CASE ~down
      <3>0. down = FALSE
        BY <2>2
      <3>1. c0 \in 1..(len + 1)
        BY <1>12, <3>0
      <3>2. Passed(len) = c0 + len
        BY <3>0 DEF Passed
      <3> HIDE DEF c0
      <3> QED
        BY <1>3, <3>1, <3>2
    <2> QED
      BY <2>1, <2>2
  <1>13. Finished(after[len + 1], down)
    BY <1>10, <1>11
  <1> QED
    BY <1>5, <1>10, <1>13 DEF I

\* Where a swap leaves the pool.
LEMMA AfterOK ==
    ASSUME NEW s, ClmmOK(s), NEW w, PlaceOK(w.price, w.tick), w.liquidity = LiquidityAt(s, w.tick)
    PROVE  ClmmOK(After(s, w))
  <1> DEFINE n == After(s, w)
             fees == 0..(FEE_PIPS_DENOMINATOR - 1)
             entries == Seq([index : DOMAIN Ratio, net : Int])
             states == [price : Nat, tick : Int, liquidity : Nat, fee : fees, ticks : entries]
  <1>1. s \in states
    BY DEF ClmmOK, ClmmStates
  <1>2. /\ w.price \in Nat /\ w.tick \in MIN_TICK..(MAX_TICK - 1)
        /\ Ratio[MIN_TICK] < w.price /\ w.price < Ratio[MAX_TICK]
        /\ Ratio[w.tick] <= w.price /\ w.price <= Ratio[w.tick + 1]
    BY DEF PlaceOK, PriceOK
  <1>3. /\ MIN_TICK \in Int /\ MAX_TICK \in Int /\ DOMAIN Ratio = MIN_TICK..MAX_TICK
        /\ \A t \in DOMAIN Ratio : Ratio[t] \in Nat
    BY TickRange
  <1>4. w.tick \in Int /\ w.tick \in DOMAIN Ratio /\ w.tick + 1 \in DOMAIN Ratio
    BY <1>2, <1>3
  <1>5. w.liquidity \in Nat
    BY <1>4, ClmmIs
  <1>6. n \in states /\ n.price = w.price /\ n.tick = w.tick /\ n.liquidity = w.liquidity /\ n.ticks = s.ticks
    <2> HIDE DEF fees, entries
    <2> QED
      BY <1>1, <1>2, <1>4, <1>5 DEF After
  <1> HIDE DEF n
  <1>7. \A t : NetAt(n, t) = NetAt(s, t)
    BY <1>6 DEF NetAt
  <1>8. \A t : LiquidityAt(n, t) = LiquidityAt(s, t)
    BY <1>7 DEF LiquidityAt
  <1>9. w.price \in Ratio[w.tick]..Ratio[w.tick + 1]
    <2> DEFINE below == Ratio[w.tick]
               above == Ratio[w.tick + 1]
    <2>1. below \in Nat /\ above \in Nat /\ below <= w.price /\ w.price <= above /\ w.price \in Nat
      BY <1>2, <1>3, <1>4
    <2> HIDE DEF below, above
    <2>2. w.price \in below..above
      BY <2>1
    <2> QED
      BY <2>2 DEF below, above
  <1>10. \A j, k \in DOMAIN s.ticks : j < k => s.ticks[j].index < s.ticks[k].index
    BY DEF ClmmOK
  <1>11. \A t \in DOMAIN Ratio : LiquidityAt(s, t) >= 0
    BY DEF ClmmOK
  <1>12. n \in ClmmStates
    BY <1>6 DEF ClmmStates
  <1> QED
    BY <1>2, <1>6, <1>8, <1>9, <1>10, <1>11, <1>12 DEF ClmmOK, n

\* A swap of a pool ends within its rounds, leaves a state the pool can be in, and has
\* paid nothing above the price the pool was at.
THEOREM SwapSettles ==
    ASSUME NEW s, ClmmOK(s), NEW a \in Nat, NEW down \in BOOLEAN
    PROVE  Settles(s, a, down, swap(s, a, down))
  <1> DEFINE result == swap(s, a, down)
  <1>1. result = swap(s, a, down)
    OBVIOUS
  <1> HIDE DEF result
  <1>2. WalkOK(s, a, result, down) /\ Finished(result, down)
    BY <1>1, SwapEnds
  <1>3. ClmmOK(After(s, result))
    BY <1>2, AfterOK DEF WalkOK
  <1>4. NothingAbovePrice(s, a, down, result)
    BY <1>2 DEF WalkOK, AtMost, NothingAbovePrice
  <1> QED
    BY <1>2, <1>3, <1>4 DEF Settles, WalkOK, result

-----------------------------------------------------------------------------
(* Two steps and one.                                                      *)

\* Products of three factors, as they come in what two steps need and give.
LEMMA ThreeFactors ==
    /\ \A l, p, q, t \in Int : (l * (t - p)) * q = (l * (q - p)) * t + (l * (t - q)) * p
    /\ \A x, y, p, q, t \in Int : (((x + y) * p) * t) * q = ((x * p) * q) * t + ((y * q) * t) * p
    /\ \A l, p, q, t \in Int : l * (t - p) = l * (q - p) + l * (t - q)
  <1>1. ASSUME NEW l \in Int, NEW p \in Int, NEW q \in Int, NEW t \in Int
        PROVE  (l * (t - p)) * q = (l * (q - p)) * t + (l * (t - q)) * p
    BY Z3
  <1>2. ASSUME NEW x \in Int, NEW y \in Int, NEW p \in Int, NEW q \in Int, NEW t \in Int
        PROVE  (((x + y) * p) * t) * q = ((x * p) * q) * t + ((y * q) * t) * p
    BY Z3
  <1>3. ASSUME NEW l \in Int, NEW p \in Int, NEW q \in Int, NEW t \in Int
        PROVE  l * (t - p) = l * (q - p) + l * (t - q)
    BY Z3
  <1> QED
    BY <1>1, <1>2, <1>3

\* By way of a price between: the same curve, from either end.
LEMMA CurveAdds ==
    ASSUME NEW l \in Nat, NEW p \in Nat \ {0}, NEW q \in Nat \ {0}, NEW t \in Nat \ {0},
           p <= q, q <= t, NEW x \in Nat, NEW y \in Nat
    PROVE  /\ /\ l * (q - p) <= (x * p) * q /\ l * (t - q) <= (y * q) * t
              => l * (t - p) <= ((x + y) * p) * t
           /\ /\ (x * p) * q <= l * (q - p) /\ (y * q) * t <= l * (t - q)
              => ((x + y) * p) * t <= l * (t - p)
  <1> DEFINE l1 == l * (q - p)
             l2 == l * (t - q)
             l3 == l * (t - p)
             x1 == (x * p) * q
             x2 == (y * q) * t
             x3 == ((x + y) * p) * t
  <1>1. l1 \in Nat /\ l2 \in Nat /\ l3 \in Nat
    <2>1. q - p \in Nat /\ t - q \in Nat /\ t - p \in Nat
      OBVIOUS
    <2> QED
      BY <2>1, Times
  <1>2. x1 \in Nat /\ x2 \in Nat /\ x3 \in Nat
    <2>1. x * p \in Nat /\ y * q \in Nat /\ (x + y) * p \in Nat
      BY Times
    <2> QED
      BY <2>1, Times
  <1>3. l3 * q = l1 * t + l2 * p
    BY ThreeFactors
  <1>4. x3 * q = x1 * t + x2 * p
    BY ThreeFactors
  <1> HIDE DEF l1, l2, l3, x1, x2, x3
  <1>5. l1 * t \in Nat /\ l2 * p \in Nat /\ x1 * t \in Nat /\ x2 * p \in Nat /\ l3 * q \in Nat /\ x3 * q \in Nat
    BY <1>1, <1>2, Times
  <1>6. ASSUME l1 <= x1, l2 <= x2 PROVE l3 <= x3
    <2>1. l1 * t <= x1 * t /\ l2 * p <= x2 * p
      BY <1>1, <1>2, <1>6, Times
    <2>2. l3 * q <= x3 * q
      BY <1>3, <1>4, <1>5, <2>1
    <2> QED
      BY <1>1, <1>2, <2>2, Times
  <1>7. ASSUME x1 <= l1, x2 <= l2 PROVE x3 <= l3
    <2>1. x1 * t <= l1 * t /\ x2 * p <= l2 * p
      BY <1>1, <1>2, <1>7, Times
    <2>2. x3 * q <= l3 * q
      BY <1>3, <1>4, <1>5, <2>1
    <2> QED
      BY <1>1, <1>2, <2>2, Times
  <1> QED
    BY <1>6, <1>7 DEF l1, l2, l3, x1, x2, x3

\* ... and where the price itself is what is bought.
LEMMA LineAdds ==
    ASSUME NEW l \in Nat, NEW p \in Nat, NEW q \in Nat, NEW t \in Nat,
           p <= q, q <= t, NEW x \in Nat, NEW y \in Nat
    PROVE  /\ /\ l * (q - p) <= x * Q96 /\ l * (t - q) <= y * Q96
              => l * (t - p) <= (x + y) * Q96
           /\ /\ x * Q96 <= l * (q - p) /\ y * Q96 <= l * (t - q)
              => (x + y) * Q96 <= l * (t - p)
  <1> DEFINE l1 == l * (q - p)
             l2 == l * (t - q)
             l3 == l * (t - p)
             x1 == x * Q96
             x2 == y * Q96
             x3 == (x + y) * Q96
  <1>0. Q96 \in Nat
    BY AmountsAssumption DEF AmountsAssumption
  <1>1. l1 \in Nat /\ l2 \in Nat /\ l3 = l1 + l2
    <2>1. q - p \in Nat /\ t - q \in Nat
      OBVIOUS
    <2>2. l3 = l1 + l2
      BY ThreeFactors
    <2> QED
      BY <2>1, <2>2, Times
  <1>2. x1 \in Nat /\ x2 \in Nat /\ x3 = x1 + x2
    BY <1>0, Times
  <1> HIDE DEF l1, l2, l3, x1, x2, x3
  <1>3. (l1 <= x1 /\ l2 <= x2 => l3 <= x3) /\ (x1 <= l1 /\ x2 <= l2 => x3 <= l3)
    BY <1>1, <1>2
  <1> QED
    BY <1>3 DEF l1, l2, l3, x1, x2, x3

\* What is enough for two steps is so for one over both, and what they pay it pays.
LEMMA StepsAdd ==
    ASSUME NEW p \in Nat \ {0}, NEW q \in Nat \ {0}, NEW t \in Nat \ {0}, NEW liquidity \in Nat,
           NEW down \in BOOLEAN, Ways(p, q, down), Ways(q, t, down), NEW x \in Nat, NEW y \in Nat
    PROVE  /\ Enough(p, q, liquidity, x, down) /\ Enough(q, t, liquidity, y, down)
              => Enough(p, t, liquidity, x + y, down)
           /\ Pays(p, q, liquidity, x, down) /\ Pays(q, t, liquidity, y, down)
              => Pays(p, t, liquidity, x + y, down)
  <1>0. Q96 \in Nat
    BY AmountsAssumption DEF AmountsAssumption
  <1>1. liquidity * Q96 \in Nat
    BY <1>0, Times
  <1>2. CASE down
    <2>0. down = TRUE
      BY <1>2
    <2>1. t <= q /\ q <= p
      BY <2>0 DEF Ways
    <2>2. ASSUME Enough(p, q, liquidity, x, TRUE), Enough(q, t, liquidity, y, TRUE)
          PROVE  Enough(p, t, liquidity, x + y, TRUE)
      <3> DEFINE lq == liquidity * Q96
      <3>1. lq * (p - q) <= (x * q) * p /\ lq * (q - t) <= (y * t) * q
        BY <2>2 DEF Enough
      <3>2. lq \in Nat
        BY <1>1
      <3> HIDE DEF lq
      <3>3. lq * (p - t) <= ((y + x) * t) * p
        BY <2>1, <3>1, <3>2, CurveAdds
      <3>4. y + x = x + y
        OBVIOUS
      <3>5. lq * (p - t) <= ((x + y) * t) * p
        BY <3>3, <3>4
      <3> QED
        BY <3>5 DEF Enough, lq
    <2>3. ASSUME Pays(p, q, liquidity, x, TRUE), Pays(q, t, liquidity, y, TRUE)
          PROVE  Pays(p, t, liquidity, x + y, TRUE)
      <3>1. x * Q96 <= liquidity * (p - q) /\ y * Q96 <= liquidity * (q - t)
        BY <2>3 DEF Pays
      <3>2. (y + x) * Q96 <= liquidity * (p - t)
        BY <2>1, <3>1, LineAdds
      <3>3. y + x = x + y
        OBVIOUS
      <3> QED
        BY <3>2, <3>3 DEF Pays
    <2> QED
      BY <2>0, <2>2, <2>3
  <1>3. CASE ~down
    <2>0. down = FALSE
      BY <1>3
    <2>1. p <= q /\ q <= t
      BY <2>0 DEF Ways
    <2>2. ASSUME Enough(p, q, liquidity, x, FALSE), Enough(q, t, liquidity, y, FALSE)
          PROVE  Enough(p, t, liquidity, x + y, FALSE)
      <3>1. liquidity * (q - p) <= x * Q96 /\ liquidity * (t - q) <= y * Q96
        BY <2>2 DEF Enough
      <3>2. liquidity * (t - p) <= (x + y) * Q96
        BY <2>1, <3>1, LineAdds
      <3> QED
        BY <3>2 DEF Enough
    <2>3. ASSUME Pays(p, q, liquidity, x, FALSE), Pays(q, t, liquidity, y, FALSE)
          PROVE  Pays(p, t, liquidity, x + y, FALSE)
      <3> DEFINE lq == liquidity * Q96
      <3>1. (x * p) * q <= lq * (q - p) /\ (y * q) * t <= lq * (t - q)
        BY <2>3 DEF Pays
      <3>2. lq \in Nat
        BY <1>1
      <3> HIDE DEF lq
      <3>3. ((x + y) * p) * t <= lq * (t - p)
        BY <2>1, <3>1, <3>2, CurveAdds
      <3> QED
        BY <3>3 DEF Pays, lq
    <2> QED
      BY <2>0, <2>2, <2>3
  <1> QED
    BY <1>2, <1>3

\* What a step pays the step back takes in again, or more.
LEMMA BackAgain ==
    ASSUME NEW p \in Nat \ {0}, NEW q \in Nat \ {0}, NEW liquidity \in Nat, NEW down \in BOOLEAN,
           NEW x \in Nat, NEW y \in Nat,
           Pays(p, q, liquidity, y, down), Enough(q, p, liquidity, x, ~down), Ways(p, q, down)
    PROVE  y <= x
  <1>0. Q96 \in Nat \ {0}
    BY AmountsAssumption DEF AmountsAssumption
  <1>1. CASE down
    <2>0. down = TRUE /\ (~down) = FALSE
      BY <1>1
    <2> DEFINE g == liquidity * (p - q)
    <2>1. y * Q96 <= g /\ g <= x * Q96
      BY <2>0 DEF Pays, Enough
    <2>2. p - q \in Nat
      BY <2>0 DEF Ways
    <2>3. g \in Nat /\ y * Q96 \in Nat /\ x * Q96 \in Nat
      BY <1>0, <2>2, Times
    <2> HIDE DEF g
    <2>4. y * Q96 <= x * Q96
      BY <2>1, <2>3
    <2> QED
      BY <1>0, <2>4, Times
  <1>2. CASE ~down
    <2>0. down = FALSE /\ (~down) = TRUE
      BY <1>2
    <2> DEFINE g == (liquidity * Q96) * (q - p)
    <2>1. (y * p) * q <= g /\ g <= (x * p) * q
      BY <2>0 DEF Pays, Enough
    <2>2. q - p \in Nat /\ liquidity * Q96 \in Nat
      BY <1>0, <2>0, Times DEF Ways
    <2>3. y * p \in Nat /\ x * p \in Nat
      BY Times
    <2>4. g \in Nat /\ (y * p) * q \in Nat /\ (x * p) * q \in Nat
      BY <2>2, <2>3, Times
    <2> HIDE DEF g
    <2>5. (y * p) * q <= (x * p) * q
      BY <2>1, <2>4
    <2>6. y * p <= x * p
      BY <2>3, <2>5, Times
    <2> QED
      BY <2>6, Times
  <1> QED
    BY <1>1, <1>2

\* A step further pays as much.
LEMMA PaysFurther ==
    ASSUME NEW p \in Nat \ {0}, NEW q \in Nat \ {0}, NEW t \in Nat \ {0}, NEW liquidity \in Nat,
           NEW down \in BOOLEAN, Ways(p, q, down), Ways(q, t, down), NEW y \in Nat,
           Pays(p, q, liquidity, y, down)
    PROVE  Pays(p, t, liquidity, y, down)
  <1>1. Pays(q, t, liquidity, 0, down)
    <2>0. Q96 \in Nat
      BY AmountsAssumption DEF AmountsAssumption
    <2>1. CASE down
      <3>0. down = TRUE
        BY <2>1
      <3>1. q - t \in Nat
        BY <3>0 DEF Ways
      <3>2. liquidity * (q - t) \in Nat /\ 0 * Q96 = 0
        BY <2>0, <3>1, Times
      <3>3. 0 * Q96 <= liquidity * (q - t)
        BY <3>2
      <3> QED
        BY <3>0, <3>3 DEF Pays
    <2>2. CASE ~down
      <3>0. down = FALSE
        BY <2>2
      <3>1. t - q \in Nat /\ liquidity * Q96 \in Nat
        BY <2>0, <3>0, Times DEF Ways
      <3>2. (liquidity * Q96) * (t - q) \in Nat /\ (0 * q) * t = 0
        BY <3>1, Times
      <3>3. (0 * q) * t <= (liquidity * Q96) * (t - q)
        BY <3>2
      <3> QED
        BY <3>0, <3>3 DEF Pays
    <2> QED
      BY <2>1, <2>2
  <1>2. Pays(p, t, liquidity, y + 0, down)
    BY <1>1, StepsAdd
  <1>3. y + 0 = y
    OBVIOUS
  <1> QED
    BY <1>2, <1>3

\* What a step paid does not take the price back beyond where the step began.
LEMMA NotBeyond ==
    ASSUME NEW p \in Nat \ {0}, NEW q \in Nat \ {0}, NEW n \in Nat \ {0}, NEW liquidity \in Nat,
           NEW down \in BOOLEAN, Ways(p, q, down), Ways(q, n, ~down),
           NEW x \in Nat, NEW y \in Nat \ {0}, x <= y,
           Pays(p, q, liquidity, y, down), Enough(q, n, liquidity, x, ~down)
    PROVE  Ways(n, p, ~down)
  <1>0. Q96 \in Nat \ {0}
    BY AmountsAssumption DEF AmountsAssumption
  <1>1. CASE down
    <2>0. down = TRUE /\ (~down) = FALSE
      BY <1>1
    <2>1. p - q \in Nat /\ n - q \in Nat
      BY <2>0 DEF Ways
    <2> DEFINE g == (p - q) * liquidity
               h == (n - q) * liquidity
    <2>2. liquidity * (p - q) = g /\ liquidity * (n - q) = h /\ g \in Nat /\ h \in Nat
      BY <2>1, Times
    <2>3. y * Q96 <= g /\ h <= x * Q96
      BY <2>0, <2>2 DEF Pays, Enough
    <2>4. x * Q96 <= y * Q96 /\ x * Q96 \in Nat /\ y * Q96 \in Nat \ {0}
      BY <1>0, Times
    <2>5. liquidity # 0
      <3> SUFFICES ASSUME liquidity = 0 PROVE FALSE
        OBVIOUS
      <3>1. g = 0
        BY <2>1
      <3> HIDE DEF g
      <3> QED
        BY <2>3, <2>4, <3>1
    <2>6. h <= g
      <3> HIDE DEF g, h
      <3> QED
        BY <2>2, <2>3, <2>4
    <2>7. n - q <= p - q
      BY <2>1, <2>5, <2>6, Times
    <2>8. n <= p
      BY <2>7
    <2> QED
      BY <2>0, <2>8 DEF Ways
  <1>2. CASE ~down
    <2>0. down = FALSE /\ (~down) = TRUE
      BY <1>2
    <2> SUFFICES ASSUME n < p PROVE FALSE
      BY <2>0 DEF Ways
    <2> DEFINE lq == liquidity * Q96
               g == (q - p) * lq
               h == (q - n) * lq
               yp == (y * p) * q
               yn == (y * n) * q
               xn == (x * n) * q
    <2>1. lq \in Nat /\ q - p \in Nat /\ q - n \in Nat /\ q - p <= q - n
      BY <1>0, <2>0, Times DEF Ways
    <2>2. lq * (q - p) = g /\ lq * (q - n) = h /\ g \in Nat /\ h \in Nat /\ g <= h
      <3> HIDE DEF lq
      <3> QED
        BY <2>1, Times
    <2>3. yp <= g /\ h <= xn
      BY <2>0, <2>2 DEF Pays, Enough
    <2>4. x * n \in Nat /\ y * n \in Nat /\ y * p \in Nat /\ x * n <= y * n /\ y * n < y * p
      <3>1. n * y < p * y /\ n * y = y * n /\ p * y = y * p
        BY Times
      <3> QED
        BY <3>1, Times
    <2>5. yp \in Nat /\ yn \in Nat /\ xn \in Nat /\ xn <= yn /\ yn < yp
      BY <2>4, Times
    <2> HIDE DEF g, h, yp, yn, xn
    <2> QED
      BY <2>2, <2>3, <2>5
  <1> QED
    BY <1>1, <1>2

\* An amount that pays for what goes in and for its fee.
Affords(in, amount, feePips) == in * FEE_PIPS_DENOMINATOR <= amount * Rate(feePips)

\* The numbers of a fee.
LEMMA RateIs ==
    ASSUME NEW f \in 0..(FEE_PIPS_DENOMINATOR - 1)
    PROVE  FEE_PIPS_DENOMINATOR \in Nat \ {0} /\ Rate(f) \in Nat \ {0}
  <1> DEFINE d == FEE_PIPS_DENOMINATOR
  <1>1. d \in Nat \ {0}
    BY AmountsAssumption DEF AmountsAssumption
  <1>2. f \in 0..(d - 1) /\ Rate(f) = d - f
    BY DEF Rate
  <1> HIDE DEF d
  <1>3. d - f \in Nat \ {0}
    BY <1>1, <1>2
  <1> QED
    BY <1>1, <1>2, <1>3 DEF d

\* Two amounts afford what each of them affords, and more of one as much.
LEMMA AffordsAdds ==
    ASSUME NEW f \in 0..(FEE_PIPS_DENOMINATOR - 1),
           NEW x \in Nat, NEW k \in Nat, NEW y \in Nat, NEW j \in Nat,
           Affords(x, k, f), Affords(y, j, f)
    PROVE  Affords(x + y, k + j, f)
  <1> DEFINE d == FEE_PIPS_DENOMINATOR
             rate == Rate(f)
  <1>1. d \in Nat \ {0} /\ rate \in Nat \ {0}
    BY RateIs
  <1>2. x * d <= k * rate /\ y * d <= j * rate
    BY DEF Affords
  <1> HIDE DEF d, rate
  <1>3. (x + y) * d = x * d + y * d /\ (k + j) * rate = k * rate + j * rate
    BY <1>1, Times
  <1>4. x * d \in Nat /\ y * d \in Nat /\ k * rate \in Nat /\ j * rate \in Nat
    BY <1>1, Times
  <1>5. (x + y) * d <= (k + j) * rate
    BY <1>2, <1>3, <1>4
  <1> QED
    BY <1>5 DEF Affords, d, rate

\* A step goes as far as any price that what remains affords, for no more than it takes
\* to afford it, and pays as much as for any price on the way.
StepMost(c, t, liquidity, remaining, feePips, s, down) ==
    /\ \A y \in Nat \ {0}, x \in Nat, k \in 0..remaining :
           /\ Ways(c, y, down) /\ Ways(y, t, down)
           /\ Enough(c, y, liquidity, x, down) /\ Affords(x, k, feePips)
           => Ways(y, s.next, down) /\ (y = t => s.in + s.fee <= k)
    /\ \A y \in Nat \ {0}, o \in Nat :
           Ways(c, y, down) /\ Ways(y, s.next, down) /\ Pays(c, y, liquidity, o, down) => o <= s.out

\* ... as computeSwapStep does, in the way it finds,
LEMMA StepGoes ==
    ASSUME NEW c \in Nat \ {0}, NEW t \in Nat \ {0}, NEW liquidity \in Nat, NEW remaining \in Nat,
           NEW f \in 0..(FEE_PIPS_DENOMINATOR - 1), NEW s,
           s = computeSwapStep(c, t, liquidity, remaining, f)
    PROVE  StepMost(c, t, liquidity, remaining, f, s, c >= t)
  <1> DEFINE down == c >= t
             most == mulDiv(remaining, FEE_PIPS_DENOMINATOR - f, FEE_PIPS_DENOMINATOR)
             n == NextPrice(c, t, liquidity, most)
             in == InFor(c, n, liquidity, down)
             fee == IF n = t THEN mulDivRoundingUp(in, f, FEE_PIPS_DENOMINATOR - f) ELSE remaining - in
             out == OutFor(c, n, liquidity, down)
             d == FEE_PIPS_DENOMINATOR
             rate == Rate(f)
  <1>1. s = [next |-> n, in |-> in, out |-> out, fee |-> fee]
    BY DEF computeSwapStep, StepTo
  <1>2. down \in BOOLEAN /\ Ways(c, t, down)
    BY DEF Ways
  <1>3. d \in Nat \ {0} /\ rate \in Nat \ {0} /\ most = (remaining * rate) \div d
    BY RateIs DEF mulDiv, Rate
  <1>4. most \in Nat /\ \A x \in Nat : x * d <= remaining * rate => x <= most
    <2> HIDE DEF d, rate, most
    <2>1. remaining * rate \in Nat
      BY <1>3, Times
    <2> QED
      BY <1>3, <2>1, Floor
  <1>5. /\ n \in Nat \ {0} /\ Ways(c, n, down) /\ Ways(n, t, down)
        /\ Enough(c, t, liquidity, most, down) => n = t
        /\ \A y \in Nat \ {0} :
               Ways(c, y, down) /\ Enough(c, y, liquidity, most, down) /\ Ways(y, t, down)
                   => Ways(y, n, down)
    <2> HIDE DEF most
    <2> QED
      BY <1>4, NextPriceIs
  <1> HIDE DEF n, down, most
  <1>6. in \in Nat /\ \A x \in Nat : Enough(c, n, liquidity, x, down) => in <= x
    BY <1>2, <1>5, InForIs
  <1>7. out \in Nat /\ \A o \in Nat : Pays(c, n, liquidity, o, down) => o <= out
    BY <1>2, <1>5, OutForIs
  <1> HIDE DEF in, out
  <1>8. ASSUME NEW y \in Nat \ {0}, NEW x \in Nat, NEW k \in 0..remaining,
               Ways(c, y, down), Ways(y, t, down), Enough(c, y, liquidity, x, down), Affords(x, k, f)
        PROVE  Ways(y, n, down) /\ (y = t => in + fee <= k)
    <2>1. k \in Nat /\ k <= remaining
      BY <1>8
    <2>2. x * d <= k * rate
      BY <1>8 DEF Affords
    <2>3. x <= most
      <3> HIDE DEF d, rate
      <3>1. k * rate <= remaining * rate /\ k * rate \in Nat /\ remaining * rate \in Nat /\ x * d \in Nat
        BY <1>3, <2>1, Times
      <3>2. x * d <= remaining * rate
        BY <2>2, <3>1
      <3> QED
        BY <1>4, <3>2
    <2>4. Enough(c, y, liquidity, most, down)
      BY <1>2, <1>4, <1>8, <2>3, EnoughMore
    <2>5. Ways(y, n, down)
      BY <1>5, <1>8, <2>4
    <2>6. ASSUME y = t PROVE in + fee <= k
      <3>1. n = t
        BY <1>5, <2>4, <2>6
      <3>2. in <= x
        BY <1>6, <1>8, <2>6, <3>1
      <3>3. fee = mulDivRoundingUp(in, f, rate)
        BY <3>1 DEF Rate
      <3>4. in <= mulDiv(k, FEE_PIPS_DENOMINATOR - f, FEE_PIPS_DENOMINATOR)
        <4>1. mulDiv(k, FEE_PIPS_DENOMINATOR - f, FEE_PIPS_DENOMINATOR) = (k * rate) \div d
          BY DEF mulDiv, Rate
        <4> HIDE DEF d, rate
        <4>2. k * rate \in Nat /\ in * d <= x * d /\ in * d \in Nat /\ x * d \in Nat
          BY <1>3, <1>6, <2>1, <3>2, Times
        <4>3. in * d <= k * rate
          BY <2>2, <4>2
        <4>4. in <= (k * rate) \div d
          BY <1>3, <1>6, <4>2, <4>3, Floor
        <4> QED
          BY <4>1, <4>4
      <3>5. in + mulDivRoundingUp(in, f, Rate(f)) <= k
        BY <1>6, <2>1, <3>4, FeeFits
      <3> QED
        BY <3>3, <3>5
    <2> QED
      BY <2>5, <2>6
  <1>9. ASSUME NEW y \in Nat \ {0}, NEW o \in Nat, Ways(c, y, down), Ways(y, n, down),
               Pays(c, y, liquidity, o, down)
        PROVE  o <= out
    <2>1. Pays(c, n, liquidity, o, down)
      BY <1>2, <1>5, <1>9, PaysFurther
    <2> QED
      BY <1>7, <2>1
  <1> HIDE DEF fee
  <1>10. s.next = n /\ s.in = in /\ s.out = out /\ s.fee = fee
    BY <1>1
  <1>11. StepMost(c, t, liquidity, remaining, f, s, down)
    BY <1>8, <1>9, <1>10 DEF StepMost
  <1> QED
    BY <1>11 DEF down

\* ... which is the way of the swap.
LEMMA StepGoesOn ==
    ASSUME NEW c \in Nat \ {0}, NEW t \in Nat \ {0}, NEW liquidity \in Nat, NEW remaining \in Nat,
           NEW f \in 0..(FEE_PIPS_DENOMINATOR - 1), NEW s,
           s = computeSwapStep(c, t, liquidity, remaining, f), NEW down \in BOOLEAN, Ways(c, t, down)
    PROVE  StepMost(c, t, liquidity, remaining, f, s, down)
  <1>1. StepMost(c, t, liquidity, remaining, f, s, c >= t)
    BY StepGoes
  <1>2. CASE c # t
    <2>1. (c >= t) = down
      BY <1>2 DEF Ways
    <2> QED
      BY <1>1, <2>1
  <1>3. CASE c = t
    <2>0. (c >= t) = TRUE
      BY <1>3
    <2>1. StepOK(c, t, liquidity, remaining, f, s)
      BY SwapStep
    <2>2. s.next = c /\ s.out \in Nat
      <3>1. s.next \in Nat \ {0} /\ Ways(c, s.next, TRUE) /\ Ways(s.next, t, TRUE) /\ s.out \in Nat
        BY <2>0, <2>1 DEF StepOK
      <3> QED
        BY <1>3, <3>1 DEF Ways
    <2>3. \A y \in Nat \ {0} : Ways(c, y, down) /\ Ways(y, c, down) => y = c
      BY DEF Ways
    <2>4. ASSUME NEW x \in Nat, NEW k \in 0..remaining, Affords(x, k, f) PROVE s.in + s.fee <= k
      <3>1. Enough(c, c, liquidity, x, TRUE) /\ Ways(c, c, TRUE) /\ Ways(c, t, TRUE)
        BY <1>3, NoGap DEF Ways
      <3> QED
        BY <1>1, <1>3, <2>0, <2>4, <3>1 DEF StepMost
    <2>5. ASSUME NEW o \in Nat, Pays(c, c, liquidity, o, down) PROVE o <= s.out
      <3>1. o = 0
        <4>1. CASE down
          <5>1. down = TRUE
            BY <4>1
          <5> QED
            BY <2>5, <5>1, NoGap
        <4>2. CASE ~down
          <5>1. down = FALSE
            BY <4>2
          <5>2. (o * c) * c <= (liquidity * Q96) * (c - c)
            BY <2>5, <5>1 DEF Pays
          <5>3. liquidity * Q96 \in Nat
            BY AmountsAssumption, Times DEF AmountsAssumption
          <5>4. (liquidity * Q96) * (c - c) = 0
            BY <5>3
          <5>5. o * c \in Nat /\ (o * c) * c \in Nat
            BY Times
          <5>6. o # 0 => (o * c) * c \in Nat \ {0}
            BY Times
          <5> QED
            BY <5>2, <5>4, <5>5, <5>6
        <4> QED
          BY <4>1, <4>2
      <3> QED
        BY <2>2, <3>1
    <2>6. ASSUME NEW y \in Nat \ {0}, NEW x \in Nat, NEW k \in 0..remaining,
                 Ways(c, y, down), Ways(y, t, down), Affords(x, k, f)
          PROVE  Ways(y, s.next, down) /\ (y = t => s.in + s.fee <= k)
      <3>1. y = c
        BY <1>3, <2>3, <2>6
      <3> QED
        BY <2>2, <2>4, <2>6, <3>1 DEF Ways
    <2>7. ASSUME NEW y \in Nat \ {0}, NEW o \in Nat, Ways(c, y, down), Ways(y, s.next, down),
                 Pays(c, y, liquidity, o, down)
          PROVE  o <= s.out
      <3>1. y = c
        BY <2>2, <2>3, <2>7
      <3> QED
        BY <2>5, <2>7, <3>1
    <2> QED
      BY <2>6, <2>7 DEF StepMost
  <1> QED
    BY <1>2, <1>3

-----------------------------------------------------------------------------
(* A round, as others see it.                                              *)

\* Where a round goes to, and its step.
Target(s, w, down) == Within(Ratio[TickNext(s.ticks, w.cursor, down)], down)
StepOf(s, w, down) == computeSwapStep(w.price, Target(s, w, down), w.liquidity, w.remaining, s.fee)

\* What the step is.
Moves(f, w, target, step, down) ==
    /\ w.price \in Nat \ {0} /\ target \in Nat \ {0} /\ w.liquidity \in Nat
    /\ w.remaining \in Nat /\ w.out \in Nat
    /\ PriceOK(target) /\ Ways(w.price, target, down)
    /\ step.next \in Nat \ {0} /\ step.in \in Nat /\ step.out \in Nat /\ step.fee \in Nat
    /\ Ways(w.price, step.next, down) /\ Ways(step.next, target, down)
    /\ step.in + step.fee <= w.remaining
    /\ step.next # target => step.in + step.fee = w.remaining
    /\ Affords(step.in, step.in + step.fee, f)
    /\ Enough(w.price, step.next, w.liquidity, step.in, down)
    /\ Pays(w.price, step.next, w.liquidity, step.out, down)
    /\ StepMost(w.price, target, w.liquidity, w.remaining, f, step, down)

\* A tick is passed, or none is and the swap has ended.
Crosses(ticks, w, v, down) ==
    /\ w.cursor \in DOMAIN ticks /\ v.price = Ratio[ticks[w.cursor].index]
    /\ v.cursor = w.cursor + (IF down THEN -1 ELSE 1)
    /\ v.liquidity = w.liquidity + (IF down THEN -ticks[w.cursor].net ELSE ticks[w.cursor].net)
Stays(w, v, down) == v.cursor = w.cursor /\ v.liquidity = w.liquidity /\ Finished(v, down)

\* What a round does.
LEMMA Advance ==
    ASSUME NEW s, ClmmOK(s), NEW a \in Nat, NEW w, NEW down \in BOOLEAN, WalkOK(s, a, w, down),
           ~Finished(w, down), NEW v, v = Onward(s, w, down),
           NEW next, next = TickNext(s.ticks, w.cursor, down),
           NEW target, target = Target(s, w, down), NEW step, step = StepOf(s, w, down)
    PROVE  /\ Moves(s.fee, w, target, step, down)
           /\ v.price = step.next /\ v.out = w.out + step.out
           /\ v.remaining = w.remaining - (step.in + step.fee) /\ v.remaining \in Nat
           /\ step.next = Ratio[next] => Crosses(s.ticks, w, v, down) /\ target = step.next
           /\ step.next # Ratio[next] => Stays(w, v, down)
           /\ step.next # target => v.remaining = 0 /\ step.next # Ratio[next]
           /\ Ways(target, Ratio[next], down)
  <1>1. /\ v = Landed(s.ticks, w, next, step, down) /\ target = Within(Ratio[next], down)
        /\ step = computeSwapStep(w.price, target, w.liquidity, w.remaining, s.fee)
    BY DEF Onward, Target, StepOf
  <1>2. /\ TicksOK(s.ticks) /\ s.fee \in 0..(FEE_PIPS_DENOMINATOR - 1)
        /\ \A t \in DOMAIN Ratio : LiquidityAt(s, t) \in Nat
    BY ClmmIs
  <1>3. /\ w.remaining \in 0..a /\ w.out \in Nat
        /\ PlaceOK(w.price, w.tick)
        /\ w.liquidity = LiquidityAt(s, w.tick)
        /\ w.cursor = tickCursorAt(s.ticks, w.tick, down)
    BY DEF WalkOK
  <1>5. /\ next \in DOMAIN Ratio /\ PriceOK(target)
        /\ Ways(w.price, target, down) /\ Ways(target, Ratio[next], down)
        /\ target = Ratio[next] \/ target = Limit(down)
    BY <1>1, <1>2, <1>3, TargetIs
  <1>6. w.price \in Nat \ {0} /\ target \in Nat \ {0} /\ PriceOK(w.price)
    BY <1>3, <1>5 DEF PlaceOK, PriceOK
  <1>7. w.liquidity \in Nat
    <2>1. w.tick \in MIN_TICK..(MAX_TICK - 1)
      BY <1>3 DEF PlaceOK
    <2>2. w.tick \in DOMAIN Ratio
      <3>1. MIN_TICK \in Int /\ MAX_TICK \in Int /\ DOMAIN Ratio = MIN_TICK..MAX_TICK
        BY TickRange
      <3> QED
        BY <2>1, <3>1
    <2> QED
      BY <1>2, <1>3, <2>2
  <1>8. w.remaining \in Nat
    BY <1>3
  <1>9. /\ StepOK(w.price, target, w.liquidity, w.remaining, s.fee, step)
        /\ StepMost(w.price, target, w.liquidity, w.remaining, s.fee, step, down)
    <2>1. StepOK(w.price, target, w.liquidity, w.remaining, s.fee, step)
      BY <1>1, <1>2, <1>6, <1>7, <1>8, SwapStep
    <2>2. StepMost(w.price, target, w.liquidity, w.remaining, s.fee, step, down)
      <3> DEFINE c == w.price
                 l == w.liquidity
                 r == w.remaining
                 f == s.fee
      <3>1. c \in Nat \ {0} /\ l \in Nat /\ r \in Nat /\ f \in 0..(FEE_PIPS_DENOMINATOR - 1)
        BY <1>2, <1>6, <1>7, <1>8
      <3>2. step = computeSwapStep(c, target, l, r, f) /\ Ways(c, target, down)
        BY <1>1, <1>5
      <3> HIDE DEF c, l, r, f
      <3>3. StepMost(c, target, l, r, f, step, down)
        BY <1>6, <3>1, <3>2, StepGoesOn
      <3> QED
        BY <3>3 DEF c, l, r, f
    <2> QED
      BY <2>1, <2>2
  <1>10. /\ step.next \in Nat \ {0} /\ step.in \in Nat /\ step.out \in Nat /\ step.fee \in Nat
         /\ step.in + step.fee <= w.remaining
         /\ step.next # target => step.in + step.fee = w.remaining
         /\ Affords(step.in, step.in + step.fee, s.fee)
    BY <1>9 DEF StepOK, Affords
  <1>11. /\ Ways(w.price, step.next, down) /\ Ways(step.next, target, down)
         /\ Enough(w.price, step.next, w.liquidity, step.in, down)
         /\ Pays(w.price, step.next, w.liquidity, step.out, down)
    BY <1>5, <1>6, <1>7, <1>8, <1>9, StepWay
  <1>12. PriceOK(step.next)
    BY <1>5, <1>6, <1>10, <1>11, PriceBetween
  <1>13. Ways(step.next, Ratio[next], down) /\ (step.next = Ratio[next] => target = step.next)
    <2>1. target \in Nat /\ step.next \in Nat /\ Ratio[next] \in Nat
      BY <1>5, <1>6, <1>10, TickRange
    <2> QED
      BY <1>5, <1>11, <2>1 DEF Ways
  <1>14. v.price = step.next /\ v.out = w.out + step.out /\ v.remaining = w.remaining - step.in - step.fee
    BY <1>1 DEF Landed
  <1>15. v.remaining = w.remaining - (step.in + step.fee) /\ v.remaining \in Nat
         /\ (step.next # target => v.remaining = 0)
    BY <1>8, <1>10, <1>14
  <1>16. Moves(s.fee, w, target, step, down)
    BY <1>3, <1>5, <1>6, <1>7, <1>8, <1>9, <1>10, <1>11 DEF Moves
  <1>17. ASSUME step.next = Ratio[next] PROVE Crosses(s.ticks, w, v, down)
    <2>1. w.cursor \in DOMAIN s.ticks /\ v.cursor = w.cursor + (IF down THEN -1 ELSE 1)
      <3>1. PriceOK(Ratio[next])
        BY <1>12, <1>17
      <3> QED
        BY <1>1, <1>2, <1>3, <1>17, <3>1, Reaching
    <2>2. next = s.ticks[w.cursor].index
      BY <2>1 DEF TickNext
    <2>3. v.liquidity = w.liquidity + (IF down THEN -s.ticks[w.cursor].net ELSE s.ticks[w.cursor].net)
      BY <1>1, <1>17, <2>1 DEF Landed
    <2> QED
      BY <1>14, <1>17, <2>1, <2>2, <2>3 DEF Crosses
  <1>18. ASSUME step.next # Ratio[next] PROVE Stays(w, v, down)
    <2>1. v.liquidity = w.liquidity /\ v.cursor = w.cursor
      <3>1. v = Landed(s.ticks, w, next, step, down) /\ TicksOK(s.ticks)
        BY <1>1, <1>2
      <3>2. Ways(w.price, step.next, down) /\ Ways(step.next, Ratio[next], down)
        BY <1>11, <1>13
      <3> QED
        BY <1>3, <1>12, <1>18, <3>1, <3>2, Stopping
    <2>2. Finished(v, down)
      <3>1. CASE step.next = target
        BY <1>5, <1>14, <1>18, <3>1 DEF Finished
      <3>2. CASE step.next # target
        BY <1>15, <3>2 DEF Finished
      <3> QED
        BY <3>1, <3>2
    <2> QED
      BY <2>1, <2>2 DEF Stays
  <1> QED
    BY <1>5, <1>13, <1>14, <1>15, <1>16, <1>17, <1>18

-----------------------------------------------------------------------------
(* A trade cut in two.                                                     *)

\* Where the first part has left the second, or further on; the swap of the whole, x, is
\* in the same place or on its way there, and what it has left of its input affords it.
Leads(f, x, y, extra, down) ==
    \/ Finished(y, down) /\ y.out + extra <= x.out
    \/ /\ x.cursor = y.cursor /\ x.liquidity = y.liquidity /\ Ways(x.price, y.price, down)
       /\ \E i, k, o \in Nat :
              /\ Enough(x.price, y.price, x.liquidity, i, down) /\ Affords(i, k, f)
              /\ k + y.remaining <= x.remaining
              /\ Pays(x.price, y.price, x.liquidity, o, down) /\ y.out + extra <= x.out + o

\* What a walk has come to, and where it goes.
LEMMA WalkIs ==
    ASSUME NEW s, ClmmOK(s), NEW a \in Nat, NEW w, NEW down \in BOOLEAN, WalkOK(s, a, w, down)
    PROVE  /\ w.remaining \in Nat /\ w.out \in Nat /\ w.price \in Nat \ {0} /\ w.liquidity \in Nat
           /\ PriceOK(w.price)
           /\ Target(s, w, down) \in Nat \ {0} /\ Ways(w.price, Target(s, w, down), down)
           /\ Ways(w.price, Limit(down), down)
  <1>1. /\ TicksOK(s.ticks) /\ \A t \in DOMAIN Ratio : LiquidityAt(s, t) \in Nat
    BY ClmmIs
  <1>2. /\ w.remaining \in Nat /\ w.out \in Nat
        /\ PlaceOK(w.price, w.tick)
        /\ w.liquidity = LiquidityAt(s, w.tick)
        /\ w.cursor = tickCursorAt(s.ticks, w.tick, down)
    BY DEF WalkOK
  <1>3. PriceOK(w.price) /\ w.price \in Nat \ {0} /\ w.tick \in MIN_TICK..(MAX_TICK - 1)
    BY <1>2 DEF PlaceOK, PriceOK
  <1>4. w.liquidity \in Nat
    <2>1. MIN_TICK \in Int /\ MAX_TICK \in Int /\ DOMAIN Ratio = MIN_TICK..MAX_TICK
      BY TickRange
    <2>2. w.tick \in DOMAIN Ratio
      BY <1>3, <2>1
    <2> QED
      BY <1>1, <1>2, <2>2
  <1>5. PriceOK(Target(s, w, down)) /\ Ways(w.price, Target(s, w, down), down)
    BY <1>1, <1>2, TargetIs DEF Target
  <1> QED
    BY <1>2, <1>3, <1>4, <1>5, LimitIs DEF PriceOK

\* Where two walks stand in one place, what the one has to spend and has been paid leads.
LEMMA SamePlace ==
    ASSUME NEW f \in 0..(FEE_PIPS_DENOMINATOR - 1), NEW x, NEW y, NEW extra \in Nat, NEW down \in BOOLEAN,
           x.cursor = y.cursor, x.liquidity = y.liquidity, x.price = y.price,
           x.price \in Nat \ {0}, x.liquidity \in Nat,
           x.remaining \in Nat, y.remaining \in Nat, y.remaining <= x.remaining,
           x.out \in Nat, y.out \in Nat, y.out + extra <= x.out
    PROVE  Leads(f, x, y, extra, down)
  <1>1. Ways(x.price, y.price, down)
    BY DEF Ways
  <1>2. /\ Enough(x.price, y.price, x.liquidity, 0, down) /\ Pays(x.price, y.price, x.liquidity, 0, down)
    BY NoGap
  <1>3. Affords(0, 0, f)
    <2>1. 0 * FEE_PIPS_DENOMINATOR = 0 /\ 0 * Rate(f) = 0
      BY RateIs
    <2> QED
      BY <2>1 DEF Affords
  <1>4. 0 + y.remaining <= x.remaining /\ y.out + extra <= x.out + 0
    OBVIOUS
  <1> QED
    BY <1>1, <1>2, <1>3, <1>4 DEF Leads

\* A round of both.
LEMMA LeadsOn ==
    ASSUME NEW s, ClmmOK(s), NEW z, ClmmOK(z), z.ticks = s.ticks, z.fee = s.fee,
           NEW a \in Nat, NEW c \in Nat, NEW extra \in Nat, NEW down \in BOOLEAN,
           NEW x, WalkOK(s, a, x, down), NEW y, WalkOK(z, c, y, down),
           Leads(s.fee, x, y, extra, down), ~Finished(y, down),
           NEW u, u = Onward(s, x, down), NEW v, v = Onward(z, y, down)
    PROVE  ~Finished(x, down) /\ Leads(s.fee, u, v, extra, down)
  <1> DEFINE next == TickNext(s.ticks, x.cursor, down)
             t == Target(s, x, down)
             sx == StepOf(s, x, down)
             sy == StepOf(z, y, down)
             f == s.fee
             l == x.liquidity
             p == x.price
             q == y.price
  <1>1. /\ x.remaining \in Nat /\ x.out \in Nat /\ p \in Nat \ {0} /\ l \in Nat
        /\ Ways(p, Limit(down), down) /\ PriceOK(p)
    BY WalkIs
  <1>2. /\ y.remaining \in Nat /\ y.out \in Nat /\ q \in Nat \ {0}
        /\ Ways(q, Limit(down), down)
    BY WalkIs
  <1>3. f \in 0..(FEE_PIPS_DENOMINATOR - 1)
    BY ClmmIs
  <1>4. x.cursor = y.cursor /\ l = y.liquidity /\ Ways(p, q, down)
    BY DEF Leads
  <1>5. PICK i \in Nat, k \in Nat, o \in Nat :
            /\ Enough(p, q, l, i, down) /\ Affords(i, k, f) /\ k + y.remaining <= x.remaining
            /\ Pays(p, q, l, o, down) /\ y.out + extra <= x.out + o
    BY DEF Leads
  <1>6. ~Finished(x, down)
    <2>1. y.remaining # 0 /\ q # Limit(down)
      BY DEF Finished
    <2>2. x.remaining # 0
      BY <1>1, <1>2, <1>5, <2>1
    <2>3. p # Limit(down)
      BY <1>1, <1>2, <1>4, <2>1 DEF Ways
    <2> QED
      BY <2>2, <2>3 DEF Finished
  <1>7. next = TickNext(z.ticks, y.cursor, down) /\ t = Target(z, y, down)
    BY <1>4 DEF Target
  <1> HIDE DEF next, t, sx, sy
  <1>8. /\ Moves(f, x, t, sx, down)
        /\ u.price = sx.next /\ u.out = x.out + sx.out
        /\ u.remaining = x.remaining - (sx.in + sx.fee) /\ u.remaining \in Nat
        /\ sx.next = Ratio[next] => Crosses(s.ticks, x, u, down)
    BY <1>6, Advance DEF next, t, sx
  <1>9. /\ Moves(f, y, t, sy, down)
        /\ v.price = sy.next /\ v.out = y.out + sy.out
        /\ v.remaining = y.remaining - (sy.in + sy.fee) /\ v.remaining \in Nat
        /\ sy.next = Ratio[next] => Crosses(s.ticks, y, v, down) /\ t = sy.next
        /\ sy.next # Ratio[next] => Stays(y, v, down)
        /\ sy.next # t => sy.next # Ratio[next]
    <2>1. sy = StepOf(z, y, down)
      BY DEF sy
    <2> QED
      BY <1>7, <2>1, Advance
  <1>10. /\ t \in Nat \ {0} /\ sx.next \in Nat \ {0} /\ sx.in + sx.fee \in Nat /\ sx.out \in Nat
         /\ Ways(sx.next, t, down) /\ StepMost(p, t, l, x.remaining, f, sx, down)
    BY <1>8 DEF Moves
  <1>11. /\ sy.next \in Nat \ {0} /\ sy.in \in Nat /\ sy.in + sy.fee \in Nat /\ sy.out \in Nat
         /\ Ways(q, sy.next, down) /\ Ways(sy.next, t, down)
         /\ sy.in + sy.fee <= y.remaining /\ Affords(sy.in, sy.in + sy.fee, f)
         /\ Enough(q, sy.next, l, sy.in, down) /\ Pays(q, sy.next, l, sy.out, down)
    BY <1>4, <1>9 DEF Moves
  <1> DEFINE cx == sx.in + sx.fee
             cy == sy.in + sy.fee
             n == sy.next
             m == sx.next
             iy == sy.in
             oy == sy.out
             ox == sx.out
             rx == x.remaining
             ry == y.remaining
  <1>12. /\ t \in Nat \ {0} /\ m \in Nat \ {0} /\ n \in Nat \ {0} /\ p \in Nat \ {0} /\ q \in Nat \ {0} /\ l \in Nat
         /\ cx \in Nat /\ cy \in Nat /\ iy \in Nat /\ oy \in Nat /\ ox \in Nat /\ rx \in Nat /\ ry \in Nat
    BY <1>1, <1>2, <1>10, <1>11
  <1>13. /\ Ways(p, q, down) /\ Ways(q, n, down) /\ Ways(n, t, down) /\ Ways(m, t, down)
         /\ Enough(p, q, l, i, down) /\ Enough(q, n, l, iy, down)
         /\ Pays(p, q, l, o, down) /\ Pays(q, n, l, oy, down)
         /\ Affords(i, k, f) /\ Affords(iy, cy, f) /\ k + ry <= rx /\ cy <= ry
         /\ StepMost(p, t, l, rx, f, sx, down)
    BY <1>4, <1>5, <1>10, <1>11
  <1>14. /\ Ways(n, m, down) /\ (n = t => cx <= k + cy) /\ o + oy <= ox
    <2>1. m = sx.next /\ cx = sx.in + sx.fee /\ ox = sx.out
      OBVIOUS
    <2> HIDE DEF cx, cy, n, m, iy, oy, ox, rx, ry, p, q, l, f
    <2>2. Enough(p, n, l, i + iy, down) /\ Pays(p, n, l, o + oy, down)
      BY <1>12, <1>13, StepsAdd
    <2>3. Affords(i + iy, k + cy, f)
      BY <1>3, <1>12, <1>13, AffordsAdds
    <2>4. k + cy \in 0..rx /\ i + iy \in Nat /\ o + oy \in Nat
      BY <1>12, <1>13
    <2>5. Ways(p, n, down)
      BY <1>12, <1>13 DEF Ways
    <2>6. Ways(n, m, down) /\ (n = t => cx <= k + cy)
      BY <1>12, <1>13, <2>1, <2>2, <2>3, <2>4, <2>5 DEF StepMost
    <2>7. o + oy <= ox
      BY <1>12, <1>13, <2>1, <2>2, <2>4, <2>5, <2>6 DEF StepMost
    <2> QED
      BY <2>6, <2>7
  <1>15. v.out + extra <= u.out
    BY <1>1, <1>2, <1>5, <1>8, <1>9, <1>12, <1>14
  <1>16. CASE n = Ratio[next]
    <2>1. n = t
      BY <1>9, <1>16
    <2>2. m = n
      <3> HIDE DEF m, n
      <3> QED
        BY <1>12, <1>13, <1>14, <2>1 DEF Ways
    <2>3. Crosses(s.ticks, x, u, down) /\ Crosses(s.ticks, y, v, down)
      BY <1>8, <1>9, <1>16, <2>2
    <2>4. u.cursor = v.cursor /\ u.liquidity = v.liquidity
      BY <1>4, <2>3 DEF Crosses
    <2>5. u.price = v.price /\ u.price \in Nat \ {0}
      BY <1>8, <1>9, <1>12, <2>2
    <2>6. v.remaining <= u.remaining
      <3>1. cx <= k + cy
        BY <1>14, <2>1
      <3>2. u.remaining = rx - cx /\ v.remaining = ry - cy
        BY <1>8, <1>9
      <3> HIDE DEF cx, cy, rx, ry
      <3> QED
        BY <1>12, <1>13, <3>1, <3>2
    <2>7. u.liquidity \in Nat
      <3>1. WalkOK(s, a, u, down)
        BY <1>6, Round
      <3> QED
        BY <3>1, WalkIs
    <2>8. u.out \in Nat /\ v.out \in Nat /\ u.remaining \in Nat /\ v.remaining \in Nat
      BY <1>1, <1>2, <1>8, <1>9, <1>12
    <2> QED
      BY <1>3, <1>6, <1>15, <2>4, <2>5, <2>6, <2>7, <2>8, SamePlace
  <1>17. CASE n # Ratio[next]
    <2>1. Finished(v, down)
      BY <1>9, <1>17 DEF Stays
    <2> QED
      BY <1>6, <1>15, <2>1 DEF Leads
  <1> QED
    BY <1>16, <1>17

\* What nothing is enough for pays nothing.
LEMMA NothingForNothing ==
    ASSUME NEW p \in Nat \ {0}, NEW q \in Nat \ {0}, NEW liquidity \in Nat, NEW down \in BOOLEAN,
           NEW y \in Nat, Ways(p, q, down), Enough(p, q, liquidity, 0, down), Pays(p, q, liquidity, y, down)
    PROVE  y = 0
  <1>0. Q96 \in Nat \ {0}
    BY AmountsAssumption DEF AmountsAssumption
  <1> DEFINE gap == IF down THEN p - q ELSE q - p
             lg == liquidity * gap
             lq == liquidity * Q96
  <1>1. gap \in Nat
    BY DEF Ways
  <1>2. CASE down
    <2>0. down = TRUE /\ gap = p - q
      BY <1>2
    <2>1. lq * gap <= (0 * q) * p
      BY <2>0 DEF Enough
    <2>2. y * Q96 <= lg
      BY <2>0 DEF Pays
    <2> HIDE DEF gap
    <2>3. lq * gap = lg * Q96
      <3>1. (liquidity * Q96) * gap = liquidity * (Q96 * gap) /\ Q96 * gap = gap * Q96
            /\ (liquidity * gap) * Q96 = liquidity * (gap * Q96)
        BY <1>0, <1>1, Times
      <3> QED
        BY <3>1
    <2>4. lg \in Nat /\ y * Q96 \in Nat
      BY <1>0, <1>1, Times
    <2>5. (0 * q) * p = 0
      OBVIOUS
    <2> HIDE DEF lg, lq
    <2>6. lg = 0
      <3>1. lg * Q96 <= 0
        BY <2>1, <2>3, <2>5
      <3>2. lg # 0 => lg * Q96 \in Nat \ {0}
        BY <1>0, <2>4, Times
      <3> QED
        BY <3>1, <3>2
    <2>7. y # 0 => y * Q96 \in Nat \ {0}
      BY <1>0, Times
    <2> QED
      BY <2>2, <2>4, <2>6, <2>7
  <1>3. CASE ~down
    <2>0. down = FALSE /\ gap = q - p
      BY <1>3
    <2>1. lg <= 0 * Q96
      BY <2>0 DEF Enough
    <2>2. (y * p) * q <= lq * gap
      BY <2>0 DEF Pays
    <2> HIDE DEF gap
    <2>3. lq * gap = lg * Q96
      <3>1. (liquidity * Q96) * gap = liquidity * (Q96 * gap) /\ Q96 * gap = gap * Q96
            /\ (liquidity * gap) * Q96 = liquidity * (gap * Q96)
        BY <1>0, <1>1, Times
      <3> QED
        BY <3>1
    <2>4. lg \in Nat
      BY <1>1, Times
    <2>5. 0 * Q96 = 0
      BY <1>0
    <2> HIDE DEF lg, lq
    <2>6. lg = 0 /\ lg * Q96 = 0
      BY <1>0, <2>1, <2>4, <2>5
    <2>7. y # 0 => (y * p) * q \in Nat \ {0}
      <3>1. y # 0 => y * p \in Nat \ {0}
        BY Times
      <3> QED
        BY <3>1, Times
    <2>8. y # 0 => FALSE
      BY <2>2, <2>3, <2>6, <2>7
    <2> QED
      BY <2>8
  <1> QED
    BY <1>2, <1>3

\* When the second part has ended, the whole has been paid as much, or will be in a round.
LEMMA LeadsEnd ==
    ASSUME NEW s, ClmmOK(s), NEW z, ClmmOK(z), z.ticks = s.ticks, z.fee = s.fee,
           NEW a \in Nat, NEW c \in Nat, NEW extra \in Nat, NEW down \in BOOLEAN,
           NEW x, WalkOK(s, a, x, down), NEW y, WalkOK(z, c, y, down),
           Leads(s.fee, x, y, extra, down), Finished(y, down),
           NEW u, u = Onward(s, x, down)
    PROVE  y.out + extra <= x.out \/ (~Finished(x, down) /\ y.out + extra <= u.out)
  <1> SUFFICES ASSUME ~(y.out + extra <= x.out)
               PROVE  ~Finished(x, down) /\ y.out + extra <= u.out
    OBVIOUS
  <1> DEFINE next == TickNext(s.ticks, x.cursor, down)
             t == Target(s, x, down)
             sx == StepOf(s, x, down)
             f == s.fee
             l == x.liquidity
             p == x.price
             q == y.price
  <1>1. /\ x.remaining \in Nat /\ x.out \in Nat /\ p \in Nat \ {0} /\ l \in Nat
        /\ t \in Nat \ {0} /\ Ways(p, Limit(down), down)
    BY WalkIs
  <1>2. /\ y.remaining \in Nat /\ y.out \in Nat /\ q \in Nat \ {0}
        /\ Ways(q, Target(z, y, down), down) /\ Ways(q, Limit(down), down)
    BY WalkIs
  <1>3. f \in 0..(FEE_PIPS_DENOMINATOR - 1)
    BY ClmmIs
  <1>4. x.cursor = y.cursor /\ Ways(p, q, down)
    BY DEF Leads
  <1>5. PICK i \in Nat, k \in Nat, o \in Nat :
            /\ Enough(p, q, l, i, down) /\ Affords(i, k, f) /\ k + y.remaining <= x.remaining
            /\ Pays(p, q, l, o, down) /\ y.out + extra <= x.out + o
    BY DEF Leads
  <1>6. t = Target(z, y, down)
    BY <1>4 DEF Target
  <1> HIDE DEF next, t, sx
  <1>7. o # 0
    BY <1>1, <1>2, <1>5
  <1>8. ~Finished(x, down)
    <2>1. ASSUME x.remaining = 0 PROVE FALSE
      <3>1. k = 0
        BY <1>1, <1>2, <1>5, <2>1
      <3>2. i = 0
        <4>1. i * FEE_PIPS_DENOMINATOR <= 0 * Rate(f)
          BY <1>5, <3>1 DEF Affords
        <4>2. FEE_PIPS_DENOMINATOR \in Nat \ {0} /\ Rate(f) \in Nat \ {0}
          BY <1>3, RateIs
        <4>3. 0 * Rate(f) = 0
          BY <4>2
        <4>4. i # 0 => i * FEE_PIPS_DENOMINATOR \in Nat \ {0}
          BY <4>2, Times
        <4> QED
          BY <4>1, <4>3, <4>4
      <3> QED
        BY <1>1, <1>2, <1>4, <1>5, <1>7, <3>2, NothingForNothing
    <2>2. ASSUME p = Limit(down) PROVE FALSE
      <3>1. q = p
        BY <1>1, <1>2, <1>4, <2>2 DEF Ways
      <3>2. Enough(p, q, l, 0, down)
        BY <1>1, <3>1, NoGap
      <3> QED
        BY <1>1, <1>2, <1>4, <1>5, <1>7, <3>2, NothingForNothing
    <2> QED
      BY <2>1, <2>2 DEF Finished
  <1>9. Moves(f, x, t, sx, down) /\ u.out = x.out + sx.out
    BY <1>8, Advance DEF t, sx
  <1>10. StepMost(p, t, l, x.remaining, f, sx, down) /\ sx.out \in Nat
    BY <1>9 DEF Moves
  <1>11. o <= sx.out
    <2>1. k \in 0..x.remaining
      BY <1>1, <1>2, <1>5
    <2>2. Ways(q, t, down)
      BY <1>2, <1>6
    <2> HIDE DEF p, q, l, f
    <2>3. Ways(q, sx.next, down)
      BY <1>2, <1>4, <1>5, <1>10, <2>1, <2>2 DEF StepMost
    <2> QED
      BY <1>2, <1>4, <1>5, <1>10, <2>3 DEF StepMost
  <1> QED
    BY <1>1, <1>2, <1>5, <1>8, <1>9, <1>10, <1>11

-----------------------------------------------------------------------------
(* The rounds of a swap, one after another.                                *)

\* What begins and goes on holds to the end.
LEMMA Climb ==
    ASSUME NEW last \in Nat, NEW S, 0 \in S, \A n \in 1..last : n - 1 \in S => n \in S
    PROVE  \A n \in 0..last : n \in S
  <1> DEFINE Bad == {n \in Nat : n <= last /\ n \notin S}
  <1> SUFFICES ASSUME Bad # {} PROVE FALSE
    OBVIOUS
  <1>1. PICK n \in Bad : \A m \in Bad : n <= m
    <2>1. Bad \in SUBSET Nat
      OBVIOUS
    <2> HIDE DEF Bad
    <2> QED
      BY <2>1, Least
  <1>2. n \in Nat /\ n <= last /\ n \notin S /\ n # 0
    BY <1>1
  <1>3. n - 1 \in Nat /\ n - 1 <= last /\ n \in 1..last
    BY <1>2
  <1>4. n - 1 \notin Bad
    <2> HIDE DEF Bad
    <2> QED
      BY <1>1, <1>2, <1>3
  <1>5. n - 1 \in S
    BY <1>3, <1>4
  <1> QED
    BY <1>2, <1>3, <1>5

\* A swap begins as a walk does.
LEMMA StartOK ==
    ASSUME NEW s, ClmmOK(s), NEW a \in Nat, NEW down \in BOOLEAN
    PROVE  WalkOK(s, a, Start(s, a, down), down)
  <1> DEFINE w == Start(s, a, down)
  <1>1. PlaceOK(s.price, s.tick) /\ s.liquidity = LiquidityAt(s, s.tick)
    BY ClmmIs
  <1>2. s.price \in Nat
    BY <1>1 DEF PlaceOK, PriceOK
  <1>3. /\ w.remaining = a /\ w.out = 0 /\ w.price = s.price /\ w.tick = s.tick
        /\ w.liquidity = s.liquidity /\ w.cursor = tickCursorAt(s.ticks, s.tick, down)
    BY DEF Start
  <1>4. Ways(s.price, s.price, down)
    BY <1>2 DEF Ways
  <1>5. AtMost(0, a - a, s.price, down)
    <2>1. Q96 * Q96 \in Nat /\ s.price * s.price \in Nat
      BY <1>2, AmountsAssumption, Times DEF AmountsAssumption
    <2>2. a - a = 0 /\ 0 * (Q96 * Q96) = 0 /\ 0 * (s.price * s.price) = 0
      BY <2>1
    <2>3. 0 * (Q96 * Q96) <= (a - a) * (s.price * s.price) /\ 0 * (s.price * s.price) <= (a - a) * (Q96 * Q96)
      BY <2>2
    <2> QED
      BY <2>3 DEF AtMost
  <1> HIDE DEF w
  <1>6. WalkOK(s, a, w, down)
    BY <1>1, <1>3, <1>4, <1>5 DEF WalkOK
  <1> QED
    BY <1>6 DEF w

\* A round goes on, or the swap has ended; nothing is taken back that was paid.
LEMMA RoundOn ==
    ASSUME NEW s, ClmmOK(s), NEW a \in Nat, NEW w, NEW down \in BOOLEAN, WalkOK(s, a, w, down),
           NEW v, v = Onward(s, w, down)
    PROVE  WalkOK(s, a, v, down) /\ w.out <= v.out /\ (Finished(w, down) => v = w)
  <1>1. CASE Finished(w, down)
    <2>1. v = w
      BY <1>1 DEF Onward
    <2>2. w.out \in Nat
      BY DEF WalkOK
    <2> QED
      BY <2>1, <2>2
  <1>2. CASE ~Finished(w, down)
    <2> DEFINE step == StepOf(s, w, down)
               target == Target(s, w, down)
    <2> HIDE DEF step, target
    <2>1. Moves(s.fee, w, target, step, down) /\ v.out = w.out + step.out
      BY <1>2, Advance DEF step, target
    <2>2. step.out \in Nat /\ w.out \in Nat
      BY <2>1 DEF Moves
    <2>3. WalkOK(s, a, v, down)
      BY <1>2, Round
    <2> QED
      BY <1>2, <2>1, <2>2, <2>3
  <1> QED
    BY <1>1, <1>2

\* The rounds of a swap are walks, the last has ended, and none has been paid more.
Walks(s, a, down, after, last) ==
    /\ last \in Nat \ {0}
    /\ \A n \in 0..last : WalkOK(s, a, after[n], down)
    /\ \A n \in 0..last : after[n].out <= after[last].out
    /\ Finished(after[last], down)
    /\ after[0] = Start(s, a, down)
    /\ \A n \in 1..last : after[n] = Onward(s, after[n - 1], down)

\* ... by RoundOn, up and down the rounds.
LEMMA WalksAre ==
    ASSUME NEW s, ClmmOK(s), NEW a \in Nat, NEW down \in BOOLEAN, NEW after, Rounds(s, a, down, after)
    PROVE  swap(s, a, down) = after[Len(s.ticks) + 1] /\ Walks(s, a, down, after, Len(s.ticks) + 1)
  <1> DEFINE last == Len(s.ticks) + 1
             S == {n \in 0..last : WalkOK(s, a, after[n], down)}
  <1>1. last \in Nat \ {0}
    <2>1. Len(s.ticks) \in Nat
      BY ClmmIs DEF TicksOK
    <2> QED
      BY <2>1
  <1>2. /\ swap(s, a, down) = after[last] /\ after[0] = Start(s, a, down)
        /\ \A n \in 1..last : after[n] = Onward(s, after[n - 1], down)
    BY DEF Rounds
  <1> HIDE DEF last
  <1>3. \A n \in 0..last : WalkOK(s, a, after[n], down)
    <2>1. 0 \in S
      BY <1>1, <1>2, StartOK
    <2>2. \A n \in 1..last : n - 1 \in S => n \in S
      <3> SUFFICES ASSUME NEW n \in 1..last, n - 1 \in S PROVE n \in S
        OBVIOUS
      <3>1. WalkOK(s, a, after[n - 1], down) /\ after[n] = Onward(s, after[n - 1], down)
        BY <1>2
      <3>2. WalkOK(s, a, after[n], down)
        BY <3>1, RoundOn
      <3> QED
        BY <1>1, <3>2
    <2> HIDE DEF S
    <2>3. \A n \in 0..last : n \in S
      BY <1>1, <2>1, <2>2, Climb
    <2> QED
      BY <2>3 DEF S
  <1>4. Finished(after[last], down)
    BY <1>2, SwapEnds
  <1>5. \A n \in 0..last : after[n].out <= after[last].out
    <2> DEFINE T == {n \in 0..last : after[last - n].out <= after[last].out}
    <2>1. 0 \in T
      <3>1. after[last].out \in Nat /\ last - 0 = last
        BY <1>1, <1>3 DEF WalkOK
      <3> QED
        BY <1>1, <3>1
    <2>2. \A n \in 1..last : n - 1 \in T => n \in T
      <3> SUFFICES ASSUME NEW n \in 1..last, n - 1 \in T PROVE n \in T
        OBVIOUS
      <3> DEFINE m == last - n
      <3>1. m \in 0..last /\ m + 1 \in 1..last /\ m + 1 \in 0..last /\ last - (n - 1) = m + 1 /\ (m + 1) - 1 = m
        BY <1>1
      <3>2. after[m + 1].out <= after[last].out
        BY <3>1
      <3> HIDE DEF m
      <3>3. after[m + 1] = Onward(s, after[m], down) /\ WalkOK(s, a, after[m], down) /\ WalkOK(s, a, after[m + 1], down)
        BY <1>2, <1>3, <3>1
      <3>4. after[m].out <= after[m + 1].out
        BY <3>3, RoundOn
      <3>5. after[m].out \in Nat /\ after[m + 1].out \in Nat /\ after[last].out \in Nat
        BY <1>1, <1>3, <3>3 DEF WalkOK
      <3>6. after[m].out <= after[last].out
        BY <3>2, <3>4, <3>5
      <3> QED
        BY <1>1, <3>6 DEF m
    <2> HIDE DEF T
    <2>3. \A n \in 0..last : n \in T
      BY <1>1, <2>1, <2>2, Climb
    <2> SUFFICES ASSUME NEW n \in 0..last PROVE after[n].out <= after[last].out
      OBVIOUS
    <2>4. last - n \in 0..last /\ last - (last - n) = n
      BY <1>1
    <2> QED
      BY <2>3, <2>4 DEF T
  <1> QED
    <2>1. Walks(s, a, down, after, last)
      BY <1>1, <1>2, <1>3, <1>4, <1>5 DEF Walks
    <2> QED
      BY <1>2, <2>1 DEF last

\* The pool a walk leaves, and how a swap of it starts.
LEMMA AfterIs ==
    ASSUME NEW s, ClmmOK(s), NEW a \in Nat, NEW w, NEW down \in BOOLEAN, WalkOK(s, a, w, down),
           NEW z, z = After(s, w), NEW c \in Nat
    PROVE  /\ ClmmOK(z) /\ z.ticks = s.ticks /\ z.fee = s.fee
           /\ Start(z, c, down).remaining = c /\ Start(z, c, down).out = 0
           /\ Start(z, c, down).price = w.price /\ Start(z, c, down).liquidity = w.liquidity
           /\ Start(z, c, down).cursor = w.cursor
           /\ Start(z, c, ~down).remaining = c /\ Start(z, c, ~down).out = 0
           /\ Start(z, c, ~down).price = w.price /\ Start(z, c, ~down).liquidity = w.liquidity
           /\ Start(z, c, ~down).cursor = tickCursorAt(s.ticks, w.tick, ~down)
  <1>1. ClmmOK(z)
    BY AfterOK DEF WalkOK
  <1>2. z.ticks = s.ticks /\ z.fee = s.fee /\ z.price = w.price /\ z.tick = w.tick /\ z.liquidity = w.liquidity
    <2> DEFINE fees == 0..(FEE_PIPS_DENOMINATOR - 1)
               entries == Seq([index : DOMAIN Ratio, net : Int])
    <2>1. s \in [price : Nat, tick : Int, liquidity : Nat, fee : fees, ticks : entries]
      BY DEF ClmmOK, ClmmStates
    <2> HIDE DEF fees, entries
    <2> QED
      BY <2>1 DEF After
  <1>3. w.cursor = tickCursorAt(s.ticks, w.tick, down)
    BY DEF WalkOK
  <1> QED
    BY <1>1, <1>2, <1>3 DEF Start

\* The swap of the whole and that of the first part, in one place.
Together(x, y, c) ==
    /\ x.cursor = y.cursor /\ x.liquidity = y.liquidity /\ x.price = y.price
    /\ x.remaining = y.remaining + c /\ x.out = y.out

\* Where the first part ends there, the second begins there.
LEMMA TogetherEnds ==
    ASSUME NEW s, ClmmOK(s), NEW a \in Nat, NEW b \in Nat, NEW c \in Nat, NEW down \in BOOLEAN,
           NEW x, WalkOK(s, a, x, down), NEW y, WalkOK(s, b, y, down), Together(x, y, c),
           NEW start, start = Start(After(s, y), c, down)
    PROVE  Leads(s.fee, x, start, y.out, down)
  <1>1. /\ start.remaining = c /\ start.out = 0 /\ start.price = y.price /\ start.liquidity = y.liquidity
        /\ start.cursor = y.cursor
    BY AfterIs
  <1>2. /\ x.cursor = y.cursor /\ x.liquidity = y.liquidity /\ x.price = y.price
        /\ x.remaining = y.remaining + c /\ x.out = y.out
    BY DEF Together
  <1>3. x.remaining \in Nat /\ x.out \in Nat /\ x.price \in Nat \ {0} /\ x.liquidity \in Nat
    BY WalkIs
  <1>4. y.remaining \in Nat /\ y.out \in Nat
    BY WalkIs
  <1>5. s.fee \in 0..(FEE_PIPS_DENOMINATOR - 1)
    BY ClmmIs
  <1>6. start.remaining <= x.remaining /\ start.out + y.out <= x.out
    BY <1>1, <1>2, <1>3, <1>4
  <1>7. x.cursor = start.cursor /\ x.liquidity = start.liquidity /\ x.price = start.price
        /\ start.remaining \in Nat /\ start.out \in Nat
    BY <1>1, <1>2
  <1> QED
    BY <1>3, <1>4, <1>5, <1>6, <1>7, SamePlace

\* A round of both: they stay in one place, or the first part ends on the way of the whole.
LEMMA TogetherOn ==
    ASSUME NEW s, ClmmOK(s), NEW a \in Nat, NEW b \in Nat, NEW c \in Nat, NEW down \in BOOLEAN,
           NEW x, WalkOK(s, a, x, down), NEW y, WalkOK(s, b, y, down), Together(x, y, c),
           ~Finished(y, down),
           NEW u, u = Onward(s, x, down), NEW v, v = Onward(s, y, down),
           NEW start, start = Start(After(s, v), c, down)
    PROVE  \/ Together(u, v, c)
           \/ Finished(v, down) /\ Leads(s.fee, x, start, v.out, down)
  <1> DEFINE next == TickNext(s.ticks, x.cursor, down)
             t == Target(s, x, down)
             sx == StepOf(s, x, down)
             sy == StepOf(s, y, down)
             f == s.fee
             l == x.liquidity
             p == x.price
  <1>1. x.remaining \in Nat /\ x.out \in Nat /\ p \in Nat \ {0} /\ l \in Nat
    BY WalkIs
  <1>2. y.remaining \in Nat /\ y.out \in Nat
    BY WalkIs
  <1>3. /\ x.cursor = y.cursor /\ l = y.liquidity /\ p = y.price
        /\ x.remaining = y.remaining + c /\ x.out = y.out
    BY DEF Together
  <1>4. ~Finished(x, down)
    BY <1>2, <1>3 DEF Finished
  <1>5. next = TickNext(s.ticks, y.cursor, down) /\ t = Target(s, y, down)
    BY <1>3 DEF Target
  <1> HIDE DEF next, t, sx, sy
  <1>6. /\ Moves(f, x, t, sx, down)
        /\ u.price = sx.next /\ u.out = x.out + sx.out
        /\ u.remaining = x.remaining - (sx.in + sx.fee)
        /\ sx.next = Ratio[next] => Crosses(s.ticks, x, u, down)
        /\ sx.next # Ratio[next] => Stays(x, u, down)
    BY <1>4, Advance DEF next, t, sx
  <1>7. /\ Moves(f, y, t, sy, down)
        /\ v.price = sy.next /\ v.out = y.out + sy.out
        /\ v.remaining = y.remaining - (sy.in + sy.fee) /\ v.remaining \in Nat
        /\ sy.next = Ratio[next] => Crosses(s.ticks, y, v, down)
        /\ sy.next # Ratio[next] => Stays(y, v, down)
        /\ sy.next # t => v.remaining = 0 /\ sy.next # Ratio[next]
    <2>1. sy = StepOf(s, y, down)
      BY DEF sy
    <2> QED
      BY <1>5, <2>1, Advance
  <1> DEFINE cx == sx.in + sx.fee
             cy == sy.in + sy.fee
             m == sx.next
             n == sy.next
             rx == x.remaining
             ry == y.remaining
             ix == sx.in
             iy == sy.in
             ox == sx.out
             oy == sy.out
  <1>8. /\ t \in Nat \ {0} /\ m \in Nat \ {0} /\ cx \in Nat /\ ix \in Nat /\ ox \in Nat
        /\ Ways(p, m, down) /\ Ways(m, t, down) /\ cx <= rx /\ Affords(ix, cx, f)
        /\ Enough(p, m, l, ix, down) /\ Pays(p, m, l, ox, down)
        /\ StepMost(p, t, l, rx, f, sx, down)
    BY <1>6 DEF Moves
  <1>9. /\ n \in Nat \ {0} /\ cy \in Nat /\ iy \in Nat /\ oy \in Nat
        /\ Ways(p, n, down) /\ Ways(n, t, down) /\ cy <= ry /\ Affords(iy, cy, f)
        /\ (n # t => cy = ry)
        /\ Enough(p, n, l, iy, down) /\ Pays(p, n, l, oy, down)
        /\ StepMost(p, t, l, ry, f, sy, down)
    BY <1>3, <1>7 DEF Moves
  <1>10. m = sx.next /\ cx = sx.in + sx.fee /\ ox = sx.out /\ n = sy.next /\ cy = sy.in + sy.fee /\ oy = sy.out
    OBVIOUS
  <1>11. rx \in Nat /\ ry \in Nat /\ rx = ry + c
    BY <1>1, <1>2, <1>3
  <1>12. u.price = m /\ u.out = x.out + ox /\ u.remaining = rx - cx
         /\ v.price = n /\ v.out = y.out + oy /\ v.remaining = ry - cy
    BY <1>6, <1>7
  <1>13. CASE n = t
    <2>1. m = t /\ cx = cy /\ ox = oy
      <3> HIDE DEF m, n, cx, cy, rx, ry, ix, iy, ox, oy, p, l, f
      <3>1. cy \in 0..rx
        BY <1>9, <1>11
      <3>2. Ways(t, m, down) /\ cx <= cy
        BY <1>8, <1>9, <1>10, <1>13, <3>1 DEF StepMost
      <3>3. m = t
        BY <1>8, <3>2 DEF Ways
      <3>4. cx \in 0..ry
        BY <1>8, <1>9, <1>11, <3>2
      <3>5. cy <= cx
        BY <1>8, <1>9, <1>10, <3>3, <3>4 DEF StepMost
      <3>6. Ways(t, t, down)
        BY <1>8 DEF Ways
      <3>7. oy <= ox /\ ox <= oy
        BY <1>8, <1>9, <1>10, <1>13, <3>3, <3>6 DEF StepMost
      <3> QED
        BY <1>8, <1>9, <3>2, <3>3, <3>5, <3>7
    <2>2. u.cursor = v.cursor /\ u.liquidity = v.liquidity
      <3>1. CASE t = Ratio[next]
        <4>1. Crosses(s.ticks, x, u, down) /\ Crosses(s.ticks, y, v, down)
          BY <1>6, <1>7, <1>13, <2>1, <3>1
        <4> QED
          BY <1>3, <4>1 DEF Crosses
      <3>2. CASE t # Ratio[next]
        <4>1. Stays(x, u, down) /\ Stays(y, v, down)
          BY <1>6, <1>7, <1>13, <2>1, <3>2
        <4> QED
          BY <1>3, <4>1 DEF Stays
      <3> QED
        BY <3>1, <3>2
    <2>3. u.price = v.price /\ u.out = v.out /\ u.remaining = v.remaining + c
      <3> HIDE DEF m, n, cx, cy, rx, ry, ix, iy, ox, oy
      <3> QED
        BY <1>3, <1>8, <1>9, <1>11, <1>12, <1>13, <2>1
    <2> QED
      BY <2>2, <2>3 DEF Together
  <1>14. CASE n # t
    <2>1. Stays(y, v, down)
      BY <1>7, <1>14
    <2>2. WalkOK(s, b, v, down)
      BY Round
    <2>3. /\ start.remaining = c /\ start.out = 0 /\ start.price = v.price /\ start.liquidity = v.liquidity
          /\ start.cursor = v.cursor
      BY <2>2, AfterIs
    <2>4. x.cursor = start.cursor /\ l = start.liquidity /\ start.price = n
      BY <1>3, <1>12, <2>1, <2>3 DEF Stays
    <2>5. cy + start.remaining <= rx /\ start.out + v.out <= x.out + oy
      <3> HIDE DEF m, n, cx, cy, rx, ry, ix, iy, ox, oy
      <3> QED
        BY <1>1, <1>2, <1>3, <1>9, <1>11, <1>12, <2>3
    <2>6. Leads(f, x, start, v.out, down)
      <3> HIDE DEF n, cx, cy, ix, iy, ox, oy, f
      <3>1. /\ Enough(p, start.price, l, iy, down) /\ Affords(iy, cy, f) /\ cy + start.remaining <= rx
            /\ Pays(p, start.price, l, oy, down) /\ start.out + v.out <= x.out + oy
        BY <1>9, <2>4, <2>5
      <3>2. Ways(p, start.price, down)
        BY <1>9, <2>4
      <3> QED
        BY <1>9, <2>4, <3>1, <3>2 DEF Leads
    <2> QED
      BY <2>1, <2>6 DEF Stays
  <1> QED
    BY <1>13, <1>14

\* What the two parts of a trade are paid, one after the other, the whole is paid.
LEMMA SplitOK ==
    ASSUME NEW s, ClmmOK(s), NEW b \in Nat, NEW c \in Nat, NEW down \in BOOLEAN,
           NEW whole, whole = swap(s, b + c, down), NEW first, first = swap(s, b, down),
           NEW second, second = swap(After(s, first), c, down)
    PROVE  first.out + second.out <= whole.out
  <1> DEFINE a == b + c
             last == Len(s.ticks) + 1
             f == s.fee
             z == After(s, first)
             start(w) == Start(After(s, w), c, down)
             extra == first.out
  <1>0. Len(s.ticks) \in Nat /\ a \in Nat
    BY ClmmIs DEF TicksOK
  <1>1. PICK W : Rounds(s, a, down, W)
    BY <1>0, RoundsAre
  <1>2. PICK F : Rounds(s, b, down, F)
    BY <1>0, RoundsAre
  <1>3. /\ last \in Nat \ {0} /\ whole = W[last] /\ W[0] = Start(s, a, down)
        /\ \A n \in 0..last : WalkOK(s, a, W[n], down) /\ W[n].out <= W[last].out
        /\ Finished(W[last], down)
        /\ \A n \in 1..last : W[n] = Onward(s, W[n - 1], down)
    <2>1. whole = W[last] /\ Walks(s, a, down, W, last)
      BY <1>0, <1>1, WalksAre
    <2> HIDE DEF last
    <2> QED
      BY <2>1 DEF Walks
  <1>4. /\ first = F[last] /\ F[0] = Start(s, b, down)
        /\ \A n \in 0..last : WalkOK(s, b, F[n], down)
        /\ Finished(F[last], down)
        /\ \A n \in 1..last : F[n] = Onward(s, F[n - 1], down)
    <2>1. first = F[last] /\ Walks(s, b, down, F, last)
      BY <1>2, WalksAre
    <2> HIDE DEF last
    <2> QED
      BY <2>1 DEF Walks
  <1>5. WalkOK(s, b, first, down)
    BY <1>3, <1>4
  <1>6. ClmmOK(z) /\ z.ticks = s.ticks /\ z.fee = s.fee /\ start(first) = Start(z, c, down)
    BY <1>5, AfterIs
  <1>7. first.out \in Nat
    BY <1>5 DEF WalkOK
  <1> HIDE DEF z, a
  <1>8. PICK S : Rounds(z, c, down, S)
    <2>1. Len(z.ticks) \in Nat
      BY <1>0, <1>6
    <2> QED
      BY <2>1, RoundsAre
  <1>9. /\ second = S[last] /\ S[0] = Start(z, c, down)
        /\ \A n \in 0..last : WalkOK(z, c, S[n], down)
        /\ Finished(S[last], down)
        /\ \A n \in 1..last : S[n] = Onward(z, S[n - 1], down)
    <2>1. last = Len(z.ticks) + 1 /\ second = swap(z, c, down)
      BY <1>6 DEF z
    <2>2. swap(z, c, down) = S[Len(z.ticks) + 1] /\ Walks(z, c, down, S, Len(z.ticks) + 1)
      BY <1>6, <1>8, WalksAre
    <2> HIDE DEF last
    <2>3. second = S[last] /\ Walks(z, c, down, S, last)
      BY <2>1, <2>2
    <2> QED
      BY <2>3 DEF Walks
  <1> HIDE DEF last
  <1>10. a \in Nat
    BY <1>0 DEF a
  <1> DEFINE Led(n) == \E m \in 0..last : Leads(f, W[m], start(F[n]), F[n].out, down)
             P(n) == Together(W[n], F[n], c) \/ (Finished(F[n], down) /\ Led(n))
             SP == {n \in 0..last : P(n)}
  <1>11. P(0)
    <2>1. Together(W[0], F[0], c)
      BY <1>3, <1>4 DEF Start, Together, a
    <2> QED
      BY <2>1
  <1>12. ASSUME NEW n \in 1..last, P(n - 1) PROVE P(n)
    <2>1. n - 1 \in 0..last /\ n \in 0..last
      BY <1>3
    <2> DEFINE i == n - 1
               x == W[i]
               y == F[i]
               u == W[n]
               v == F[n]
    <2>2. /\ WalkOK(s, a, x, down) /\ WalkOK(s, b, y, down)
          /\ u = Onward(s, x, down) /\ v = Onward(s, y, down)
      BY <1>3, <1>4, <2>1
    <2>3. CASE Finished(y, down)
      <3>1. v = y
        BY <2>2, <2>3 DEF Onward
      <3>2. Led(i)
        <4>1. CASE Together(x, y, c)
          <5>1. Leads(f, x, start(y), y.out, down)
            <6> HIDE DEF x, y, u, v
            <6> QED
              BY <1>10, <2>2, <4>1, TogetherEnds
          <5> QED
            BY <2>1, <5>1
        <4>2. CASE ~Together(x, y, c)
          BY <1>12, <4>2
        <4> QED
          BY <4>1, <4>2
      <3>3. F[n] = F[i]
        BY <3>1
      <3>4. Led(n) /\ Finished(F[n], down)
        <4> HIDE DEF i
        <4> QED
          BY <2>3, <3>2, <3>3
      <3> QED
        BY <3>4
    <2>4. CASE ~Finished(y, down)
      <3>1. Together(x, y, c)
        BY <1>12, <2>4
      <3>2. Together(u, v, c) \/ (Finished(v, down) /\ Leads(f, x, start(v), v.out, down))
        <4> HIDE DEF x, y, u, v
        <4> QED
          BY <1>10, <2>2, <2>4, <3>1, TogetherOn
      <3> QED
        BY <2>1, <3>2
    <2> QED
      BY <2>3, <2>4
  <1>13. P(last)
    <2>1. 0 \in SP /\ last \in Nat /\ last \in 0..last
      BY <1>3, <1>11
    <2>2. \A n \in 1..last : n - 1 \in SP => n \in SP
      <3> SUFFICES ASSUME NEW n \in 1..last, n - 1 \in SP PROVE n \in SP
        OBVIOUS
      <3> HIDE DEF P
      <3>1. P(n)
        BY <1>12
      <3> QED
        BY <1>3, <3>1
    <2> HIDE DEF SP, P
    <2>3. last \in SP
      BY <2>1, <2>2, Climb
    <2> QED
      BY <2>3 DEF SP
  <1>14. \E m \in 0..last : Leads(f, W[m], S[0], extra, down)
    <2>1. CASE Together(W[last], F[last], c)
      <3>1. last \in 0..last
        BY <1>3
      <3>2. WalkOK(s, a, W[last], down) /\ WalkOK(s, b, F[last], down)
        BY <1>3, <1>4, <3>1
      <3>3. Leads(f, W[last], start(F[last]), F[last].out, down)
        BY <1>10, <2>1, <3>2, TogetherEnds
      <3> QED
        BY <1>4, <1>6, <1>9, <3>1, <3>3
    <2>2. CASE Led(last)
      BY <1>4, <1>6, <1>9, <2>2
    <2> QED
      BY <1>13, <2>1, <2>2
  <1> DEFINE Q(n) == \E m \in 0..last : Leads(f, W[m], S[n], extra, down)
             SQ == {n \in 0..last : Q(n)}
  <1> HIDE DEF start, P, SP, extra
  <1>15. extra \in Nat
    BY <1>7 DEF extra
  <1>16. ASSUME NEW n \in 1..last, Q(n - 1) PROVE Q(n)
    <2>1. n - 1 \in 0..last
      BY <1>3
    <2> DEFINE y == S[n - 1]
               v == S[n]
    <2>2. WalkOK(z, c, y, down) /\ v = Onward(z, y, down)
      BY <1>9, <2>1
    <2>3. PICK m \in 0..last : Leads(f, W[m], y, extra, down)
      BY <1>16
    <2>4. CASE Finished(y, down)
      <3>1. v = y
        BY <2>2, <2>4 DEF Onward
      <3> QED
        BY <2>3, <3>1
    <2>5. CASE ~Finished(y, down)
      <3> DEFINE x == W[m]
                 u == Onward(s, x, down)
      <3>1. WalkOK(s, a, x, down)
        BY <1>3
      <3>2. ~Finished(x, down) /\ Leads(f, u, v, extra, down)
        <4>1. u = Onward(s, x, down)
          OBVIOUS
        <4> HIDE DEF x, y, u, v
        <4> QED
          BY <1>6, <1>10, <1>15, <2>2, <2>3, <2>5, <3>1, <4>1, LeadsOn DEF x
      <3>3. m # last
        BY <1>3, <3>2
      <3>4. m + 1 \in 1..last /\ m + 1 \in 0..last /\ (m + 1) - 1 = m
        BY <1>3, <3>3
      <3>5. W[m + 1] = u
        BY <1>3, <3>4
      <3> QED
        BY <3>2, <3>4, <3>5
    <2> QED
      BY <2>4, <2>5
  <1>17. Q(last)
    <2>1. 0 \in SQ /\ last \in Nat /\ last \in 0..last
      BY <1>3, <1>14
    <2>2. \A n \in 1..last : n - 1 \in SQ => n \in SQ
      <3> SUFFICES ASSUME NEW n \in 1..last, n - 1 \in SQ PROVE n \in SQ
        OBVIOUS
      <3> HIDE DEF Q
      <3>1. Q(n)
        BY <1>16
      <3> QED
        BY <1>3, <3>1
    <2> HIDE DEF SQ, Q
    <2>3. last \in SQ
      BY <2>1, <2>2, Climb
    <2> QED
      BY <2>3 DEF SQ
  <1>18. PICK m \in 0..last : Leads(f, W[m], S[last], extra, down)
    BY <1>17
  <1> DEFINE x == W[m]
             y == S[last]
             u == Onward(s, x, down)
  <1>19. /\ WalkOK(s, a, x, down) /\ WalkOK(z, c, y, down) /\ Finished(y, down) /\ u = Onward(s, x, down)
    BY <1>3, <1>9
  <1>20. y.out + extra <= x.out \/ (~Finished(x, down) /\ y.out + extra <= u.out)
    <2> HIDE DEF x, y, u
    <2> QED
      BY <1>6, <1>10, <1>15, <1>18, <1>19, LeadsEnd DEF x, y
  <1>21. x.out \in Nat /\ y.out \in Nat /\ W[last].out \in Nat /\ x.out <= W[last].out
    <2>1. last \in 0..last
      BY <1>3
    <2> QED
      BY <1>3, <1>19, <2>1 DEF WalkOK
  <1>22. ~Finished(x, down) => u.out \in Nat /\ u.out <= W[last].out
    <2> SUFFICES ASSUME ~Finished(x, down) PROVE u.out \in Nat /\ u.out <= W[last].out
      OBVIOUS
    <2>1. m # last
      BY <1>3
    <2>2. m + 1 \in 1..last /\ m + 1 \in 0..last /\ (m + 1) - 1 = m
      BY <1>3, <2>1
    <2>3. W[m + 1] = u
      BY <1>3, <2>2
    <2> QED
      BY <1>3, <2>2, <2>3 DEF WalkOK
  <1>23. y.out + extra <= W[last].out
    <2> HIDE DEF x, y, u
    <2> QED
      BY <1>15, <1>20, <1>21, <1>22
  <1> QED
    BY <1>3, <1>7, <1>9, <1>21, <1>23 DEF extra

-----------------------------------------------------------------------------
(* A trade back never returns more than was spent.                         *)

\* Where the cursor of a swap stands for one that goes the other way.
Turn(cursor, down) == cursor + (IF down THEN 1 ELSE -1)

\* ... as it does wherever tickCursorAt puts it.
LEMMA TurnIs ==
    ASSUME NEW ticks, TicksOK(ticks), NEW tick \in Int, NEW down \in BOOLEAN, NEW up \in BOOLEAN, up # down
    PROVE  tickCursorAt(ticks, tick, up) = Turn(tickCursorAt(ticks, tick, down), down)
  <1> DEFINE below == tickCursorAt(ticks, tick, TRUE)
             above == tickCursorAt(ticks, tick, FALSE)
             len == Len(ticks)
  <1>1. above = below + 1 /\ below \in 0..len /\ len \in Nat
    BY Cursor
  <1> HIDE DEF len
  <1>2. CASE down = TRUE
    <2>1. up = FALSE
      BY <1>2
    <2>2. tickCursorAt(ticks, tick, up) = above /\ tickCursorAt(ticks, tick, down) = below
      BY <1>2, <2>1, Zenon
    <2> HIDE DEF above, below
    <2> QED
      BY <1>1, <1>2, <2>2 DEF Turn
  <1>3. CASE down = FALSE
    <2>1. up = TRUE
      BY <1>3
    <2>2. tickCursorAt(ticks, tick, up) = below /\ tickCursorAt(ticks, tick, down) = above
      BY <1>3, <2>1, Zenon
    <2> HIDE DEF above, below
    <2> QED
      BY <1>1, <1>3, <2>2 DEF Turn
  <1> QED
    BY <1>2, <1>3

\* The swap back is about to undo the round from x to y: it has no more left than had
\* been paid by then, and was paid no more than was spent from then on.
Undoes(x, y, w, kept, down) ==
    /\ w.price = y.price /\ w.cursor = Turn(x.cursor, down) /\ w.liquidity = x.liquidity
    /\ w.remaining <= y.out /\ w.out <= y.remaining - kept

\* A round of it takes it to where that round began, or ends before.
LEMMA UndoesRound ==
    ASSUME NEW s, ClmmOK(s), NEW z, ClmmOK(z), z.ticks = s.ticks,
           NEW a \in Nat, NEW c \in Nat, NEW kept \in Nat, NEW down \in BOOLEAN,
           NEW x, WalkOK(s, a, x, down), ~Finished(x, down), NEW y, y = Onward(s, x, down),
           NEW up \in BOOLEAN, up # down,
           NEW w, WalkOK(z, c, w, up), ~Finished(w, up), Undoes(x, y, w, kept, down),
           x.out = 0 \/ Target(z, w, up) = x.price,
           NEW u, u = Onward(z, w, up)
    PROVE  /\ u.out <= x.remaining - kept
           /\ \/ Finished(u, up)
              \/ Crosses(z.ticks, w, u, up) /\ u.price = x.price /\ u.remaining <= x.out
  <1> DEFINE next == TickNext(z.ticks, w.cursor, up)
             t == Target(z, w, up)
             tx == Target(s, x, down)
             sx == StepOf(s, x, down)
             sw == StepOf(z, w, up)
             l == x.liquidity
             p == x.price
             q == y.price
             n == sw.next
             ix == sx.in
             ox == sx.out
             cx == sx.in + sx.fee
             iw == sw.in
             ow == sw.out
             cw == sw.in + sw.fee
  <1>1. /\ Moves(s.fee, x, tx, sx, down)
        /\ q = sx.next /\ y.out = x.out + ox /\ y.remaining = x.remaining - cx
    BY Advance
  <1> HIDE DEF next, t, sw
  <1>2. /\ Moves(z.fee, w, t, sw, up)
        /\ u.price = n /\ u.out = w.out + ow /\ u.remaining = w.remaining - cw
        /\ u.remaining \in Nat
        /\ n = Ratio[next] => Crosses(z.ticks, w, u, up) /\ t = n
        /\ n # Ratio[next] => Stays(w, u, up)
        /\ n # t => u.remaining = 0
    BY Advance DEF next, t, sw
  <1>3. Ways(p, t, up)
    <2>1. /\ TicksOK(s.ticks) /\ PlaceOK(p, x.tick) /\ x.cursor = tickCursorAt(s.ticks, x.tick, down)
      BY ClmmIs DEF WalkOK
    <2>2. x.tick \in Int
      <3>1. MIN_TICK \in Int /\ MAX_TICK \in Int /\ x.tick \in MIN_TICK..(MAX_TICK - 1)
        BY <2>1, TickRange DEF PlaceOK
      <3> QED
        BY <3>1
    <2>3. w.cursor = tickCursorAt(z.ticks, x.tick, up)
      <3>1. tickCursorAt(z.ticks, x.tick, up) = Turn(x.cursor, down)
        BY <2>1, <2>2, TurnIs
      <3> QED
        BY <3>1 DEF Undoes
    <2>4. t = Within(Ratio[next], up)
      BY DEF t, next, Target
    <2>5. TicksOK(z.ticks)
      BY <2>1
    <2> QED
      BY <2>1, <2>3, <2>4, <2>5, TargetIs DEF next
  <1>4. /\ p \in Nat \ {0} /\ q \in Nat \ {0} /\ n \in Nat \ {0} /\ t \in Nat \ {0} /\ l \in Nat
        /\ ix \in Nat /\ ox \in Nat /\ cx \in Nat /\ iw \in Nat /\ ow \in Nat /\ cw \in Nat
        /\ x.remaining \in Nat /\ x.out \in Nat /\ w.remaining \in Nat /\ w.out \in Nat
        /\ y.remaining \in Int /\ ix <= cx /\ iw <= cw /\ cw <= w.remaining
    BY <1>1, <1>2 DEF Moves
  <1>5. /\ Ways(p, q, down) /\ Enough(p, q, l, ix, down) /\ Pays(p, q, l, ox, down)
    BY <1>1 DEF Moves
  <1>6. /\ Ways(q, n, up) /\ Ways(n, t, up) /\ Enough(q, n, l, iw, up) /\ Pays(q, n, l, ow, up)
        /\ w.remaining <= y.out /\ w.out <= y.remaining - kept
    BY <1>2 DEF Moves, Undoes
  <1>7. x.out = 0 \/ t = p
    BY DEF t
  <1>8. w.remaining # 0
    BY DEF Finished
  <1> HIDE DEF tx, sx, l, p, q, n, ix, ox, cx, iw, ow, cw
  <1>0. down = ~up /\ up = ~down
    OBVIOUS
  <1>9. Ways(n, p, up)
    <2>1. CASE t = p
      BY <1>6, <2>1
    <2>2. CASE x.out = 0
      <3>1. ox \in Nat \ {0} /\ iw <= ox
        BY <1>1, <1>4, <1>6, <1>8, <2>2
      <3>2. Ways(q, n, ~down) /\ Enough(q, n, l, iw, ~down)
        BY <1>0, <1>6
      <3>3. Ways(n, p, ~down)
        BY <1>4, <1>5, <3>1, <3>2, NotBeyond
      <3> QED
        BY <1>0, <3>3
    <2> QED
      BY <1>7, <2>1, <2>2
  <1>10. ow <= ix
    <2>1. Pays(q, p, l, ow, up)
      BY <1>4, <1>6, <1>9, PaysFurther
    <2>2. Ways(q, p, up)
      BY <1>0, <1>4, <1>5 DEF Ways
    <2>3. Enough(p, q, l, ix, ~up)
      BY <1>0, <1>5
    <2> QED
      BY <1>4, <2>1, <2>2, <2>3, BackAgain
  <1>11. u.out <= x.remaining - kept
    BY <1>1, <1>2, <1>4, <1>6, <1>10
  <1>12. ASSUME n = Ratio[next]
         PROVE  Crosses(z.ticks, w, u, up) /\ u.price = p /\ u.remaining <= x.out
    <2>1. t = n /\ Crosses(z.ticks, w, u, up)
      BY <1>2, <1>12
    <2>2. n = p
      BY <1>3, <1>4, <1>9, <2>1 DEF Ways
    <2>3. ox <= iw
      BY <1>0, <1>4, <1>5, <1>6, <2>2, BackAgain
    <2>4. u.remaining <= x.out
      BY <1>1, <1>2, <1>4, <1>6, <2>3
    <2> QED
      BY <1>2, <2>1, <2>2, <2>4
  <1>13. n # Ratio[next] => Finished(u, up)
    BY <1>2 DEF Stays
  <1> QED
    BY <1>11, <1>12, <1>13 DEF p

\* What a swap crossed, the swap back comes to next, and crosses back.
LEMMA CrossesBack ==
    ASSUME NEW s, ClmmOK(s), NEW x, x.cursor \in Int, x.liquidity \in Int, NEW y, PriceOK(y.price),
           NEW down \in BOOLEAN, NEW up \in BOOLEAN, up # down, Crosses(s.ticks, x, y, down),
           NEW w, w.cursor = Turn(y.cursor, down), w.liquidity = y.liquidity
    PROVE  /\ Target(s, w, up) = y.price /\ Ratio[TickNext(s.ticks, w.cursor, up)] = y.price
           /\ \A u : Crosses(s.ticks, w, u, up)
                         => u.cursor = Turn(x.cursor, down) /\ u.liquidity = x.liquidity
  <1> DEFINE net == s.ticks[x.cursor].net
             c == x.cursor
             l == x.liquidity
  <1>1. c \in DOMAIN s.ticks /\ net \in Int
    <2>1. c \in DOMAIN s.ticks
      BY DEF Crosses
    <2> QED
      BY <2>1, ClmmIs, TickIs
  <1>2. w.cursor = c
    <2>1. y.cursor = c + (IF down THEN -1 ELSE 1)
      BY DEF Crosses
    <2> QED
      BY <2>1 DEF Turn
  <1>3. Ratio[TickNext(s.ticks, w.cursor, up)] = y.price
    BY <1>1, <1>2 DEF Crosses, TickNext
  <1>4. Target(s, w, up) = y.price
    <2>1. Ways(y.price, Limit(up), up) /\ Limit(up) \in Nat /\ y.price \in Nat
      BY LimitIs DEF PriceOK
    <2>2. ~((up /\ y.price < Limit(up)) \/ (~up /\ y.price > Limit(up)))
      BY <2>1 DEF Ways
    <2>3. Within(y.price, up) = y.price
      BY <2>2 DEF Within
    <2> QED
      BY <1>3, <2>3 DEF Target
  <1>5. ASSUME NEW u, Crosses(s.ticks, w, u, up)
        PROVE  u.cursor = Turn(c, down) /\ u.liquidity = l
    <2>1. y.liquidity = l + (IF down THEN -net ELSE net)
      BY DEF Crosses
    <2>2. u.cursor = c + (IF up THEN -1 ELSE 1) /\ u.liquidity = y.liquidity + (IF up THEN -net ELSE net)
      BY <1>2, <1>5 DEF Crosses
    <2> HIDE DEF net, c, l
    <2>3. u.cursor = Turn(c, down)
      BY <2>2 DEF Turn
    <2>4. u.liquidity = l
      <3>1. l \in Int /\ net \in Int
        BY <1>1 DEF l
      <3>2. CASE down = TRUE
        <4>1. up = FALSE
          BY <3>2
        <4>2. y.liquidity = l + (-net) /\ u.liquidity = y.liquidity + net
          BY <2>1, <2>2, <3>2, <4>1
        <4> QED
          BY <3>1, <4>2
      <3>3. CASE down = FALSE
        BY <2>1, <2>2, <3>1, <3>3
      <3> QED
        BY <3>2, <3>3
    <2> QED
      BY <2>3, <2>4
  <1> QED
    BY <1>3, <1>4, <1>5

\* ... so that a round of it is one of the swap undone, or its last.
LEMMA UndoesOn ==
    ASSUME NEW s, ClmmOK(s), NEW z, ClmmOK(z), z.ticks = s.ticks,
           NEW a \in Nat, NEW c \in Nat, NEW kept \in Nat, NEW down \in BOOLEAN,
           NEW o, WalkOK(s, a, o, down), ~Finished(o, down),
           NEW x, x = Onward(s, o, down), ~Finished(x, down), NEW y, y = Onward(s, x, down),
           NEW up \in BOOLEAN, up # down,
           NEW w, WalkOK(z, c, w, up), ~Finished(w, up), Undoes(x, y, w, kept, down),
           NEW u, u = Onward(z, w, up)
    PROVE  Undoes(o, x, u, kept, down) \/ (Finished(u, up) /\ u.out <= a - kept)
  <1>1. WalkOK(s, a, x, down)
    BY Round
  <1>2. x.remaining \in 0..a /\ PriceOK(x.price)
    BY <1>1, WalkIs DEF WalkOK
  <1>3. Crosses(s.ticks, o, x, down)
    <2>1. \/ Crosses(s.ticks, o, x, down)
          \/ Stays(o, x, down)
      BY Advance
    <2> QED
      BY <2>1 DEF Stays
  <1>4. o.cursor \in Int /\ o.liquidity \in Int
    <2>1. o.liquidity \in Nat
      BY WalkIs
    <2>2. s.ticks \in Seq([index : DOMAIN Ratio, net : Int]) /\ o.cursor \in DOMAIN s.ticks
      BY <1>3, ClmmIs DEF TicksOK, Crosses
    <2>3. DOMAIN s.ticks \subseteq Int
      <3> DEFINE S == [index : DOMAIN Ratio, net : Int]
      <3> HIDE DEF S
      <3> QED
        BY <2>2 DEF S
    <2> QED
      BY <2>1, <2>2, <2>3
  <1>5. /\ Target(z, w, up) = x.price
        /\ \A v : Crosses(z.ticks, w, v, up)
                      => v.cursor = Turn(o.cursor, down) /\ v.liquidity = o.liquidity
    <2>1. w.cursor = Turn(x.cursor, down) /\ w.liquidity = x.liquidity
      BY DEF Undoes
    <2>2. Crosses(z.ticks, o, x, down)
      BY <1>3
    <2> QED
      BY <1>2, <1>4, <2>1, <2>2, CrossesBack
  <1>6. /\ u.out <= x.remaining - kept
        /\ \/ Finished(u, up)
           \/ Crosses(z.ticks, w, u, up) /\ u.price = x.price /\ u.remaining <= x.out
    BY <1>1, <1>5, UndoesRound
  <1>7. u.out \in Nat
    <2>1. WalkOK(z, c, u, up)
      BY Round
    <2> QED
      BY <2>1 DEF WalkOK
  <1>8. x.remaining - kept <= a - kept
    BY <1>2
  <1>9. CASE Finished(u, up)
    <2>1. u.out <= a - kept
      BY <1>2, <1>6, <1>7, <1>8
    <2> QED
      BY <1>9, <2>1
  <1>10. CASE Crosses(z.ticks, w, u, up) /\ u.price = x.price /\ u.remaining <= x.out
    BY <1>5, <1>6, <1>10 DEF Undoes
  <1> QED
    BY <1>6, <1>9, <1>10

\* It ends where the swap began.
LEMMA UndoesLast ==
    ASSUME NEW s, ClmmOK(s), NEW z, ClmmOK(z), z.ticks = s.ticks,
           NEW a \in Nat, NEW c \in Nat, NEW kept \in Nat, NEW down \in BOOLEAN,
           NEW x, WalkOK(s, a, x, down), ~Finished(x, down), x.out = 0, NEW y, y = Onward(s, x, down),
           NEW up \in BOOLEAN, up # down,
           NEW w, WalkOK(z, c, w, up), ~Finished(w, up), Undoes(x, y, w, kept, down),
           NEW u, u = Onward(z, w, up)
    PROVE  Finished(u, up) /\ u.out <= a - kept
  <1>1. /\ u.out <= x.remaining - kept
        /\ Finished(u, up) \/ u.remaining <= x.out
    BY UndoesRound
  <1>2. u.remaining \in Nat /\ u.out \in Nat /\ x.remaining \in 0..a
    <2>1. WalkOK(z, c, u, up)
      BY Round
    <2> QED
      BY <2>1 DEF WalkOK
  <1>3. Finished(u, up)
    BY <1>1, <1>2 DEF Finished
  <1> QED
    BY <1>1, <1>2, <1>3

\* The swap back begins with the last round of the swap; where that crossed a tick, once it
\* is across.
LEMMA UndoesBegin ==
    ASSUME NEW s, ClmmOK(s), NEW a \in Nat, NEW down \in BOOLEAN, NEW up \in BOOLEAN, up # down,
           NEW x, WalkOK(s, a, x, down), ~Finished(x, down), NEW y, y = Onward(s, x, down),
           NEW z, z = After(s, y), NEW w, w = Start(z, y.out, up), ~Finished(w, up),
           NEW u, u = Onward(z, w, up)
    PROVE  Undoes(x, y, w, y.remaining, down) \/ Undoes(x, y, u, y.remaining, down)
  <1>1. WalkOK(s, a, y, down)
    BY Round
  <1>2. y.out \in Nat /\ y.remaining \in Nat /\ PriceOK(y.price) /\ y.price \in Nat \ {0} /\ y.liquidity \in Nat
    BY <1>1, WalkIs
  <1>3. /\ ClmmOK(z) /\ z.ticks = s.ticks
        /\ w.remaining = y.out /\ w.out = 0 /\ w.price = y.price /\ w.liquidity = y.liquidity
        /\ w.cursor = tickCursorAt(s.ticks, y.tick, up)
    BY <1>1, <1>2, AfterIs
  <1>4. w.cursor = Turn(y.cursor, down)
    <2>1. TicksOK(s.ticks) /\ PlaceOK(y.price, y.tick) /\ y.cursor = tickCursorAt(s.ticks, y.tick, down)
      BY <1>1, ClmmIs DEF WalkOK
    <2>2. y.tick \in Int
      <3>1. MIN_TICK \in Int /\ MAX_TICK \in Int /\ y.tick \in MIN_TICK..(MAX_TICK - 1)
        BY <2>1, TickRange DEF PlaceOK
      <3> QED
        BY <3>1
    <2>3. tickCursorAt(s.ticks, y.tick, up) = Turn(tickCursorAt(s.ticks, y.tick, down), down)
      BY <2>1, <2>2, TurnIs
    <2> QED
      BY <1>3, <2>1, <2>3
  <1>5. WalkOK(z, y.out, w, up)
    BY <1>2, <1>3, StartOK
  <1>6. Crosses(s.ticks, x, y, down) \/ Stays(x, y, down)
    BY Advance
  <1>7. CASE Stays(x, y, down)
    <2>1. w.cursor = Turn(x.cursor, down) /\ w.liquidity = x.liquidity
      BY <1>3, <1>4, <1>7 DEF Stays
    <2>2. w.remaining <= y.out /\ w.out <= y.remaining - y.remaining
      BY <1>2, <1>3
    <2> QED
      BY <1>3, <2>1, <2>2 DEF Undoes
  <1>8. CASE Crosses(s.ticks, x, y, down)
    <2>1. x.cursor \in Int /\ x.liquidity \in Int
      <3>1. x.liquidity \in Nat
        BY WalkIs
      <3>2. TicksOK(s.ticks) /\ x.cursor \in DOMAIN s.ticks
        BY <1>8, ClmmIs DEF Crosses
      <3>3. DOMAIN s.ticks = 1..Len(s.ticks) /\ Len(s.ticks) \in Nat
        BY <3>2 DEF TicksOK
      <3> QED
        BY <3>1, <3>2, <3>3
    <2> DEFINE t == Target(z, w, up)
               next == TickNext(z.ticks, w.cursor, up)
               step == StepOf(z, w, up)
               n == step.next
               p == y.price
               cost == step.in + step.fee
    <2>2. /\ t = p /\ Ratio[next] = p
          /\ \A v : Crosses(z.ticks, w, v, up) => v.cursor = Turn(x.cursor, down) /\ v.liquidity = x.liquidity
      <3>1. Crosses(z.ticks, x, y, down)
        BY <1>3, <1>8
      <3> QED
        BY <1>2, <1>3, <1>4, <2>1, <3>1, CrossesBack
    <2> HIDE DEF t, next, step
    <2>3. /\ Moves(z.fee, w, t, step, up)
          /\ u.price = n /\ u.out = w.out + step.out /\ u.remaining = w.remaining - cost
          /\ n = Ratio[next] => Crosses(z.ticks, w, u, up)
      BY <1>2, <1>3, <1>5, Advance DEF t, next, step
    <2>4. /\ Ways(p, n, up) /\ Ways(n, t, up) /\ n \in Nat /\ step.out \in Nat /\ cost \in Nat
          /\ Pays(p, n, y.liquidity, step.out, up)
      BY <1>3, <2>3 DEF Moves
    <2>5. n = p
      BY <1>2, <2>2, <2>4 DEF Ways
    <2>6. step.out = 0
      <3>1. Enough(p, p, y.liquidity, 0, up) /\ Ways(p, p, up) /\ Pays(p, p, y.liquidity, step.out, up)
        BY <1>2, <2>4, <2>5, NoGap DEF Ways
      <3> HIDE DEF p
      <3>2. p \in Nat \ {0}
        BY <1>2 DEF p
      <3> QED
        BY <1>2, <2>4, <3>1, <3>2, NothingForNothing
    <2>7. Crosses(z.ticks, w, u, up)
      BY <2>2, <2>3, <2>5
    <2>8. u.cursor = Turn(x.cursor, down) /\ u.liquidity = x.liquidity
      BY <2>2, <2>7
    <2>9. u.remaining <= y.out /\ u.out <= y.remaining - y.remaining /\ u.price = y.price
      <3> HIDE DEF n, cost
      <3> QED
        BY <1>2, <1>3, <2>3, <2>4, <2>5, <2>6
    <2> QED
      BY <2>8, <2>9 DEF Undoes
  <1> QED
    BY <1>6, <1>7, <1>8

\* A swap that pays has a last round.
LEMMA LastRound ==
    ASSUME NEW s, ClmmOK(s), NEW a \in Nat, NEW down \in BOOLEAN, NEW F, Rounds(s, a, down, F),
           F[Len(s.ticks) + 1].out > 0
    PROVE  \E k \in 1..(Len(s.ticks) + 1) : ~Finished(F[k - 1], down) /\ F[k] = F[Len(s.ticks) + 1]
  <1> DEFINE last == Len(s.ticks) + 1
             Real(k) == ~Finished(F[k - 1], down)
             P(n) == ~Finished(F[n], down) \/ F[n] = F[0] \/ \E k \in 1..last : Real(k) /\ F[k] = F[n]
             SP == {n \in 0..last : P(n)}
  <1>1. /\ last \in Nat \ {0} /\ F[0] = Start(s, a, down) /\ Finished(F[last], down)
        /\ \A n \in 1..last : F[n] = Onward(s, F[n - 1], down)
    <2>1. Walks(s, a, down, F, last)
      BY WalksAre
    <2> HIDE DEF last
    <2> QED
      BY <2>1 DEF Walks
  <1>2. P(0)
    OBVIOUS
  <1>3. ASSUME NEW n \in 1..last, P(n - 1) PROVE P(n)
    <2>1. F[n] = Onward(s, F[n - 1], down)
      BY <1>1
    <2>2. CASE Finished(F[n - 1], down)
      <3>1. F[n] = F[n - 1]
        BY <2>1, <2>2 DEF Onward
      <3> QED
        BY <1>3, <2>2, <3>1
    <2>3. CASE ~Finished(F[n - 1], down)
      <3>1. Real(n) /\ F[n] = F[n]
        BY <2>3
      <3> QED
        BY <3>1
    <2> QED
      BY <2>2, <2>3
  <1>4. P(last)
    <2> HIDE DEF P, last
    <2>1. 0 \in SP
      BY <1>1, <1>2
    <2>2. \A n \in 1..last : n - 1 \in SP => n \in SP
      BY <1>1, <1>3
    <2> HIDE DEF SP
    <2>3. \A n \in 0..last : n \in SP
      BY <1>1, <2>1, <2>2, Climb
    <2>4. last \in SP
      BY <1>1, <2>3
    <2> QED
      BY <2>4 DEF SP
  <1>5. F[last] # F[0]
    BY <1>1 DEF Start
  <1> QED
    BY <1>1, <1>4, <1>5

\* What a swap paid, traded back, is paid no more than the swap had taken.
LEMMA BackOK ==
    ASSUME NEW s, ClmmOK(s), NEW a \in Nat, NEW down \in BOOLEAN, NEW up \in BOOLEAN, up # down,
           NEW whole, whole = swap(s, a, down), whole.out > 0,
           NEW back, back = swap(After(s, whole), whole.out, up)
    PROVE  back.out <= a - whole.remaining
  <1> DEFINE last == Len(s.ticks) + 1
             z == After(s, whole)
             kept == whole.remaining
             c == whole.out
  <1>0. Len(s.ticks) \in Nat
    BY ClmmIs DEF TicksOK
  <1>1. PICK F : Rounds(s, a, down, F)
    BY <1>0, RoundsAre
  <1>2. /\ last \in Nat \ {0} /\ whole = F[last] /\ F[0] = Start(s, a, down)
        /\ \A n \in 0..last : WalkOK(s, a, F[n], down)
        /\ \A n \in 1..last : F[n] = Onward(s, F[n - 1], down)
    <2>1. whole = F[last] /\ Walks(s, a, down, F, last)
      BY <1>1, WalksAre
    <2> HIDE DEF last
    <2> QED
      BY <2>1 DEF Walks
  <1>3. WalkOK(s, a, whole, down)
    BY <1>2
  <1>4. kept \in 0..a /\ c \in Nat
    BY <1>3 DEF WalkOK
  <1>5. ClmmOK(z) /\ z.ticks = s.ticks
    BY <1>3, <1>4, AfterIs
  <1> HIDE DEF z, kept, c
  <1>6. PICK B : Rounds(z, c, up, B)
    <2>1. Len(z.ticks) \in Nat
      BY <1>0, <1>5
    <2> QED
      BY <2>1, RoundsAre
  <1>7. /\ back = B[last] /\ B[0] = Start(z, c, up)
        /\ \A n \in 0..last : WalkOK(z, c, B[n], up)
        /\ \A n \in 1..last : B[n] = Onward(z, B[n - 1], up)
    <2>1. last = Len(z.ticks) + 1 /\ back = swap(z, c, up)
      BY <1>5 DEF z, c
    <2>2. swap(z, c, up) = B[Len(z.ticks) + 1] /\ Walks(z, c, up, B, Len(z.ticks) + 1)
      BY <1>4, <1>5, <1>6, WalksAre
    <2> HIDE DEF last
    <2>3. back = B[last] /\ Walks(z, c, up, B, last)
      BY <2>1, <2>2
    <2> QED
      BY <2>3 DEF Walks
  <1>8. \E k \in 1..last : ~Finished(F[k - 1], down) /\ F[k] = whole
    <2>1. F[Len(s.ticks) + 1].out > 0
      BY <1>2
    <2> QED
      BY <1>1, <1>2, <2>1, LastRound
  <1> HIDE DEF last
  <1> DEFINE Real(n) == ~Finished(F[n - 1], down)
             Undoing(n, w) == Undoes(F[n - 1], F[n], w, kept, down)
             Done(w) == Finished(w, up) /\ w.out <= a - kept
             P(m) == m = 0 \/ Done(B[m]) \/ \E n \in 1..last : Real(n) /\ Undoing(n, B[m])
             SP == {m \in 0..last : P(m)}
  <1>9. ASSUME NEW n \in 1..last, Real(n), NEW m \in 1..last, Undoing(n, B[m - 1])
        PROVE  P(m)
    <2> DEFINE x == F[n - 1]
               y == F[n]
               w == B[m - 1]
               u == B[m]
    <2>0. n - 1 \in 0..last /\ n \in 0..last /\ m - 1 \in 0..last
      BY <1>2
    <2>1. /\ WalkOK(s, a, x, down) /\ y = Onward(s, x, down) /\ ~Finished(x, down)
          /\ WalkOK(z, c, w, up) /\ u = Onward(z, w, up) /\ Undoes(x, y, w, kept, down)
      BY <1>2, <1>7, <1>9, <2>0
    <2>2. CASE Finished(w, up)
      <3>1. u = w
        BY <2>1, <2>2 DEF Onward
      <3> QED
        BY <1>9, <3>1
    <2>3. CASE ~Finished(w, up) /\ n = 1
      <3>1. x.out = 0
        BY <1>2, <2>3 DEF Start
      <3> HIDE DEF x, y, w, u
      <3>2. Done(u)
        BY <1>4, <1>5, <2>1, <2>3, <3>1, UndoesLast
      <3> QED
        BY <3>2 DEF u
    <2>4. CASE ~Finished(w, up) /\ n # 1
      <3> DEFINE o == F[(n - 1) - 1]
      <3>1. n - 1 \in 1..last /\ (n - 1) - 1 \in 0..last
        BY <1>2, <2>4
      <3>2. WalkOK(s, a, o, down) /\ x = Onward(s, o, down)
        BY <1>2, <3>1
      <3>3. ~Finished(o, down)
        BY <2>1, <3>2 DEF Onward
      <3>4. Undoes(o, x, u, kept, down) \/ Done(u)
        <4> HIDE DEF o, x, y, w, u
        <4> QED
          BY <1>4, <1>5, <2>1, <2>4, <3>2, <3>3, UndoesOn
      <3>5. CASE Undoes(o, x, u, kept, down)
        <4>1. Real(n - 1) /\ Undoing(n - 1, B[m])
          BY <3>3, <3>5
        <4> QED
          BY <3>1, <4>1
      <3> QED
        BY <3>4, <3>5
    <2> QED
      BY <2>2, <2>3, <2>4
  <1>10. ASSUME NEW m \in 1..last, P(m - 1) PROVE P(m)
    <2>0. m - 1 \in 0..last
      BY <1>2
    <2>1. B[m] = Onward(z, B[m - 1], up)
      BY <1>7
    <2>2. CASE Done(B[m - 1])
      <3>1. B[m] = B[m - 1]
        BY <2>1, <2>2 DEF Onward
      <3> QED
        BY <2>2, <3>1
    <2>3. CASE \E n \in 1..last : Real(n) /\ Undoing(n, B[m - 1])
      BY <1>9, <2>3
    <2>4. CASE m - 1 = 0
      <3> DEFINE w == B[m - 1]
                 u == B[m]
      <3>1. w = Start(z, c, up) /\ w.out = 0
        BY <1>7, <2>4 DEF Start
      <3>2. CASE Finished(w, up)
        <4>1. Done(w)
          BY <1>4, <3>1, <3>2
        <4> QED
          BY <2>2, <4>1
      <3>3. CASE ~Finished(w, up)
        <4>1. PICK k \in 1..last : ~Finished(F[k - 1], down) /\ F[k] = whole
          BY <1>8
        <4>2. k - 1 \in 0..last
          BY <1>2
        <4> DEFINE x == F[k - 1]
        <4>3. WalkOK(s, a, x, down) /\ whole = Onward(s, x, down) /\ ~Finished(x, down)
          BY <1>2, <4>1, <4>2
        <4> HIDE DEF x, w, u
        <4>4. z = After(s, whole) /\ c = whole.out /\ kept = whole.remaining
          BY DEF z, c, kept
        <4>5. u = Onward(z, w, up)
          BY <2>1 DEF u, w
        <4>6. Undoes(x, whole, w, kept, down) \/ Undoes(x, whole, u, kept, down)
          BY <3>1, <3>3, <4>3, <4>4, <4>5, UndoesBegin
        <4>7. Real(k) /\ (Undoing(k, B[m - 1]) \/ Undoing(k, B[m]))
          BY <4>1, <4>3, <4>6 DEF x, w, u
        <4> QED
          BY <1>9, <4>7
      <3> QED
        BY <3>2, <3>3
    <2> HIDE DEF Done, Real, Undoing
    <2> QED
      BY <1>10, <2>2, <2>3, <2>4
  <1>11. P(last)
    <2> HIDE DEF P
    <2>1. 0 \in SP
      BY <1>2 DEF P
    <2>2. \A n \in 1..last : n - 1 \in SP => n \in SP
      BY <1>2, <1>10
    <2> HIDE DEF SP
    <2>3. \A n \in 0..last : n \in SP
      BY <1>2, <2>1, <2>2, Climb
    <2>4. last \in SP
      BY <1>2, <2>3
    <2> QED
      BY <2>4 DEF SP
  <1>12. back.out \in Nat
    <2>1. WalkOK(z, c, back, up)
      BY <1>2, <1>7
    <2> QED
      BY <2>1 DEF WalkOK
  <1>13. CASE Done(B[last])
    BY <1>7, <1>13 DEF kept
  <1>14. CASE \E n \in 1..last : Real(n) /\ Undoing(n, B[last])
    <2>1. PICK n \in 1..last : Undoing(n, B[last])
      BY <1>14
    <2>2. back.out <= F[n].remaining - kept
      BY <1>7, <2>1 DEF Undoes
    <2>3. F[n].remaining \in 0..a
      BY <1>2, <2>1 DEF WalkOK
    <2> QED
      BY <1>4, <1>12, <2>2, <2>3 DEF kept
  <1> QED
    BY <1>2, <1>11, <1>13, <1>14

-----------------------------------------------------------------------------
(* A pool seen with some of its ticks only.                                *)

\* v is s with a stretch of its ticks, those after the first off; the swap begins among
\* them in both.
Windowed(s, v, off) ==
    /\ v.price = s.price /\ v.tick = s.tick /\ v.liquidity = s.liquidity /\ v.fee = s.fee
    /\ off \in Nat /\ Len(v.ticks) \in Nat /\ off + Len(v.ticks) <= Len(s.ticks)
    /\ TicksOK(v.ticks) /\ DOMAIN v.ticks = 1..Len(v.ticks)
    /\ \A k \in 1..Len(v.ticks) : k + off \in DOMAIN s.ticks /\ v.ticks[k] = s.ticks[k + off]
    /\ \A down \in BOOLEAN :
           tickCursorAt(s.ticks, s.tick, down) = tickCursorAt(v.ticks, s.tick, down) + off

\* What a function from 1 to n is as a sequence.
LEMMA SequenceIs ==
    ASSUME NEW E, NEW n \in Nat, NEW f \in [1..n -> E]
    PROVE  f \in Seq(E) /\ Len(f) = n /\ DOMAIN f = 1..n
  <1>1. f \in Seq(E) /\ DOMAIN f = 1..n
    OBVIOUS
  <1>2. Len(f) = n
    OBVIOUS
  <1> QED
    BY <1>1, <1>2

\* A stretch of the ticks is in order as they are.
LEMMA StretchOK ==
    ASSUME NEW ticks, TicksOK(ticks), NEW first \in 1..(Len(ticks) + 1), NEW last \in Nat,
           first - 1 <= last, last <= Len(ticks), NEW part, SubSeq(ticks, first, last) = part
    PROVE  /\ TicksOK(part) /\ Len(part) = last - first + 1 /\ DOMAIN part = 1..Len(part)
           /\ \A k \in 1..Len(part) : k + (first - 1) \in DOMAIN ticks /\ part[k] = ticks[k + (first - 1)]
  <1> DEFINE E == [index : DOMAIN Ratio, net : Int]
             len == Len(ticks)
             off == first - 1
             n == last - off
  <1>1. ticks \in Seq(E) /\ len \in Nat /\ DOMAIN ticks = 1..len
    BY DEF TicksOK
  <1> HIDE DEF E
  <1>2. n \in Nat /\ off \in Nat /\ off + n <= len /\ first = off + 1 /\ last = off + n
    BY <1>1
  <1>3. part = [k \in 1..n |-> ticks[k + off]]
    <2>1. part = [k \in 1..(1 + last - first) |-> ticks[k + first - 1]]
      BY <1>1, <1>2
    <2>2. 1 + last - first = n /\ \A k \in 1..n : k + first - 1 = k + off
      BY <1>2
    <2> QED
      BY <2>1, <2>2
  <1>4. \A k \in 1..n : k + off \in 1..len
    BY <1>2
  <1> HIDE DEF len, off, n
  <1>5. \A k \in 1..n : part[k] = ticks[k + off] /\ part[k] \in E
    BY <1>1, <1>3, <1>4
  <1>6. part \in Seq(E) /\ Len(part) = n /\ DOMAIN part = 1..n
    <2> DEFINE g == [k \in 1..n |-> ticks[k + off]]
    <2>1. g \in [1..n -> E]
      BY <1>3, <1>5
    <2> HIDE DEF g
    <2>2. g \in Seq(E) /\ Len(g) = n /\ DOMAIN g = 1..n
      BY <1>2, <2>1, SequenceIs
    <2>3. part = g
      BY <1>3 DEF g
    <2> QED
      BY <2>2, <2>3
  <1>7. \A j, k \in DOMAIN part : j < k => part[j].index < part[k].index
    <2> TAKE j, k \in DOMAIN part
    <2> HAVE j < k
    <2>1. j \in 1..n /\ k \in 1..n /\ j + off \in DOMAIN ticks /\ k + off \in DOMAIN ticks
      BY <1>1, <1>4, <1>6
    <2>2. j + off < k + off
      BY <1>2, <2>1
    <2> QED
      BY <1>5, <2>1, <2>2 DEF TicksOK
  <1>8. TicksOK(part)
    BY <1>6, <1>7 DEF TicksOK, E
  <1> QED
    BY <1>1, <1>2, <1>4, <1>5, <1>6, <1>8 DEF n, off

\* A window is such a stretch.
LEMMA WindowIs ==
    ASSUME NEW s, ClmmOK(s), NEW n \in Nat, NEW v, v = Window(s, n)
    PROVE  \E off \in Nat : Windowed(s, v, off)
  <1> DEFINE ticks == s.ticks
             t == s.tick
             len == Len(ticks)
             off == tickCursorAt(ticks, t - n - 1, TRUE)
             first == tickCursorAt(ticks, t - n - 1, FALSE)
             last == tickCursorAt(ticks, t + n, TRUE)
             b == tickCursorAt(ticks, t, TRUE)
             part == SubSeq(ticks, first, last)
  <1>1. TicksOK(ticks) /\ t \in Int
    <2>1. t \in MIN_TICK..(MAX_TICK - 1) /\ MIN_TICK \in Int /\ MAX_TICK \in Int
      BY ClmmIs, TickRange DEF PlaceOK
    <2> QED
      BY <2>1, ClmmIs
  <1>2. v.price = s.price /\ v.tick = t /\ v.liquidity = s.liquidity /\ v.fee = s.fee /\ v.ticks = part
    <2> DEFINE fees == 0..(FEE_PIPS_DENOMINATOR - 1)
               entries == Seq([index : DOMAIN Ratio, net : Int])
    <2>1. s \in [price : Nat, tick : Int, liquidity : Nat, fee : fees, ticks : entries]
      BY DEF ClmmOK, ClmmStates
    <2>2. v = [s EXCEPT !.ticks = part]
      BY DEF Window
    <2> HIDE DEF fees, entries, part
    <2> QED
      BY <2>1, <2>2
  <1>3. len \in Nat /\ DOMAIN ticks = 1..len
    BY <1>1 DEF TicksOK
  <1>4. /\ off \in 0..len /\ first = off + 1
        /\ \A i \in DOMAIN ticks : ticks[i].index <= t - n - 1 <=> i <= off
    <2>1. t - n - 1 \in Int
      BY <1>1
    <2> QED
      BY <1>1, <2>1, Cursor
  <1>5. last \in 0..len /\ \A i \in DOMAIN ticks : ticks[i].index <= t + n <=> i <= last
    <2>1. t + n \in Int
      BY <1>1
    <2> QED
      BY <1>1, <2>1, Cursor
  <1>6. /\ b \in 0..len /\ \A i \in DOMAIN ticks : ticks[i].index <= t <=> i <= b
        /\ tickCursorAt(ticks, t, FALSE) = b + 1
    BY <1>1, Cursor
  <1> HIDE DEF off, first, last, b, ticks, t, len
  <1>7. off <= b /\ b <= last
    <2>0. \A i \in DOMAIN ticks : ticks[i].index \in Int
      BY <1>1, TickIs
    <2>1. off <= b
      <3>1. CASE off = 0
        BY <1>6, <3>1
      <3>2. CASE off # 0
        <4>1. off \in DOMAIN ticks
          BY <1>3, <1>4, <3>2
        <4>2. ticks[off].index <= t - n - 1 /\ ticks[off].index \in Int
          BY <1>4, <2>0, <4>1
        <4>3. ticks[off].index <= t
          BY <1>1, <4>2
        <4> QED
          BY <1>6, <4>1, <4>3
      <3> QED
        BY <3>1, <3>2
    <2>2. b <= last
      <3>1. CASE b = 0
        BY <1>5, <3>1
      <3>2. CASE b # 0
        <4>1. b \in DOMAIN ticks
          BY <1>3, <1>6, <3>2
        <4>2. ticks[b].index <= t /\ ticks[b].index \in Int
          BY <1>6, <2>0, <4>1
        <4>3. ticks[b].index <= t + n
          BY <1>1, <4>2
        <4> QED
          BY <1>5, <4>1, <4>3
      <3> QED
        BY <3>1, <3>2
    <2> QED
      BY <2>1, <2>2
  <1>8. /\ TicksOK(part) /\ Len(part) = last - off /\ DOMAIN part = 1..Len(part)
        /\ \A k \in 1..Len(part) : k + off \in DOMAIN ticks /\ part[k] = ticks[k + off]
    <2>1. first \in 1..(Len(ticks) + 1) /\ last \in Nat /\ first - 1 <= last /\ last <= Len(ticks) /\ first - 1 = off
      BY <1>3, <1>4, <1>5, <1>6, <1>7 DEF len
    <2>2. last - first + 1 = last - off
      BY <1>4, <1>5
    <2> HIDE DEF part
    <2>3. part = SubSeq(ticks, first, last)
      BY DEF part
    <2>4. /\ TicksOK(part) /\ Len(part) = last - first + 1 /\ DOMAIN part = 1..Len(part)
          /\ \A k \in 1..Len(part) : k + (first - 1) \in DOMAIN ticks /\ part[k] = ticks[k + (first - 1)]
      BY <1>1, <2>1, StretchOK DEF part
    <2> QED
      BY <2>1, <2>2, <2>4
  <1> HIDE DEF part
  <1>9. Len(part) \in Nat /\ off + Len(part) <= len /\ b - off \in 0..Len(part) /\ off \in Nat
    BY <1>3, <1>4, <1>5, <1>6, <1>7, <1>8
  <1>10. /\ tickCursorAt(part, t, TRUE) = b - off /\ tickCursorAt(part, t, FALSE) = (b - off) + 1
    <2>1. \A i \in DOMAIN part : part[i].index <= t <=> i <= b - off
      <3> TAKE i \in DOMAIN part
      <3>1. i \in 1..Len(part) /\ i + off \in DOMAIN ticks /\ part[i] = ticks[i + off]
        BY <1>8
      <3>2. part[i].index <= t <=> i + off <= b
        BY <1>6, <3>1
      <3>3. i + off <= b <=> i <= b - off
        BY <1>4, <1>6, <1>9, <3>1
      <3> QED
        BY <3>2, <3>3
    <2> QED
      BY <1>1, <1>8, <1>9, <2>1, CursorIs
  <1>11. ASSUME NEW down \in BOOLEAN
         PROVE  tickCursorAt(ticks, t, down) = tickCursorAt(part, t, down) + off
    <2>1. CASE down = TRUE
      <3>1. tickCursorAt(ticks, t, down) = b /\ tickCursorAt(part, t, down) = b - off
        BY <1>10, <2>1, Zenon DEF b
      <3> QED
        BY <1>4, <1>6, <3>1
    <2>2. CASE down = FALSE
      <3>1. tickCursorAt(ticks, t, down) = b + 1 /\ tickCursorAt(part, t, down) = (b - off) + 1
        BY <1>6, <1>10, <2>2, Zenon
      <3> QED
        BY <1>4, <1>6, <3>1
    <2> QED
      BY <2>1, <2>2
  <1> QED
    BY <1>2, <1>8, <1>9, <1>11 DEF Windowed, ticks, t, len

\* Where there is no liquidity a step pays nothing, and goes all the way or costs all.
LEMMA EmptyStep ==
    ASSUME NEW c \in Nat \ {0}, NEW t \in Nat \ {0}, NEW remaining \in Nat,
           NEW f \in 0..(FEE_PIPS_DENOMINATOR - 1), NEW down \in BOOLEAN, Ways(c, t, down),
           NEW step, step = computeSwapStep(c, t, 0, remaining, f)
    PROVE  /\ step.out = 0 /\ step.in \in Nat /\ step.fee \in Nat
           /\ step.next = t \/ step.in + step.fee = remaining
  <1>1. StepOK(c, t, 0, remaining, f, step)
    BY SwapStep
  <1>2. /\ step.next \in Nat \ {0} /\ step.in \in Nat /\ step.out \in Nat /\ step.fee \in Nat
        /\ step.next = t \/ step.in + step.fee = remaining
    BY <1>1 DEF StepOK
  <1>3. Ways(c, step.next, down) /\ Pays(c, step.next, 0, step.out, down)
    BY <1>1, StepWay
  <1>4. step.out = 0
    <2> DEFINE o == step.out
               n == step.next
    <2>1. Q96 \in Nat \ {0} /\ o \in Nat /\ n \in Nat \ {0}
      BY <1>2, AmountsAssumption DEF AmountsAssumption
    <2>2. Ways(c, n, down) /\ Pays(c, n, 0, o, down)
      BY <1>3
    <2> HIDE DEF o, n
    <2>3. 0 * Q96 = 0 /\ 0 * (c - n) = 0 /\ 0 * (n - c) = 0
      BY <2>1
    <2>4. Enough(c, n, 0, 0, down)
      <3>1. (0 * n) * c = 0
        BY <2>1
      <3> QED
        BY <2>3, <3>1 DEF Enough
    <2>5. o = 0
      BY <2>1, <2>2, <2>4, NothingForNothing
    <2> QED
      BY <2>5 DEF o
  <1> QED
    BY <1>2, <1>4

\* A swap of the whole pool and one of its window, a round of each at a time.
InStep(y, w, off, down) ==
    /\ y.price = w.price /\ y.liquidity = w.liquidity /\ y.remaining = w.remaining /\ y.out = w.out
    /\ Finished(w, down) \/ (y.cursor \in Int /\ w.cursor = y.cursor + off)

\* They stay in step until the window ends, which ends the swap there, or is noticed.
LEMMA WindowRound ==
    ASSUME NEW s, ClmmOK(s), NEW v, NEW off \in Nat, Windowed(s, v, off),
           NEW a \in Nat, NEW down \in BOOLEAN, NEW w, WalkOK(s, a, w, down), ~Finished(w, down),
           NEW y, InStep(y, w, off, down),
           NEW u, u = Onward(s, w, down), NEW x, x = Onward(v, y, down)
    PROVE  InStep(x, u, off, down) \/ x.exhausted \/ (Finished(x, down) /\ x.out = w.out)
  <1> DEFINE next == TickNext(v.ticks, y.cursor, down)
             t == Within(Ratio[next], down)
             step == computeSwapStep(y.price, t, y.liquidity, y.remaining, v.fee)
  <1>1. /\ y.price = w.price /\ y.liquidity = w.liquidity /\ y.remaining = w.remaining /\ y.out = w.out
        /\ y.cursor \in Int /\ w.cursor = y.cursor + off
    BY DEF InStep
  <1>2. ~Finished(y, down)
    BY <1>1 DEF Finished
  <1>3. x = Landed(v.ticks, y, next, step, down)
    BY <1>2 DEF Onward
  <1>4. /\ w.remaining \in Nat /\ w.out \in Nat /\ w.price \in Nat \ {0} /\ w.liquidity \in Nat
        /\ PriceOK(w.price) /\ Ways(w.price, Limit(down), down)
    BY WalkIs
  <1>5. v.fee = s.fee /\ s.fee \in 0..(FEE_PIPS_DENOMINATOR - 1) /\ TicksOK(s.ticks)
    BY ClmmIs DEF Windowed
  <1>6. /\ x.price = step.next /\ x.out = y.out + step.out
        /\ x.remaining = y.remaining - step.in - step.fee
        /\ x.exhausted = (y.exhausted \/ RunsOut(next, y.liquidity))
    BY <1>3 DEF Landed
  <1>7. CASE y.cursor \in DOMAIN v.ticks
    <2> DEFINE k == y.cursor
               j == w.cursor
               net == s.ticks[j].net
               reached == step.next = Ratio[next]
    <2>1. j \in DOMAIN s.ticks /\ v.ticks[k] = s.ticks[j]
      BY <1>1, <1>7 DEF Windowed
    <2>2. next = TickNext(s.ticks, w.cursor, down)
      BY <1>7, <2>1 DEF TickNext
    <2>3. t = Target(s, w, down) /\ step = StepOf(s, w, down)
      <3>1. t = Target(s, w, down)
        BY <2>2 DEF Target
      <3> HIDE DEF t, next
      <3> QED
        BY <1>1, <1>5, <3>1 DEF StepOf
    <2>4. u = Landed(s.ticks, w, next, step, down)
      <3>1. Within(Ratio[TickNext(s.ticks, w.cursor, down)], down) = t
        BY <2>2
      <3> HIDE DEF t, next
      <3>2. step = computeSwapStep(w.price, t, w.liquidity, w.remaining, s.fee)
        BY <1>1, <1>5
      <3> HIDE DEF step
      <3> QED
        BY <2>2, <3>1, <3>2 DEF Onward
    <2> HIDE DEF next, t, step
    <2>5. /\ u.price = step.next /\ u.out = w.out + step.out
          /\ u.remaining = w.remaining - step.in - step.fee
      BY <2>4 DEF Landed
    <2>6. CASE reached
      <3>1. /\ u.liquidity = w.liquidity + (IF down THEN -net ELSE net)
            /\ u.cursor = j + (IF down THEN -1 ELSE 1)
        BY <2>1, <2>4, <2>6 DEF Landed
      <3>2. /\ x.liquidity = y.liquidity + (IF down THEN -v.ticks[k].net ELSE v.ticks[k].net)
            /\ x.cursor = k + (IF down THEN -1 ELSE 1)
        BY <1>3, <1>7, <2>6 DEF Landed
      <3>3. x.liquidity = u.liquidity
        BY <1>1, <2>1, <3>1, <3>2
      <3>4. x.cursor \in Int /\ u.cursor = x.cursor + off
        <4> HIDE DEF net
        <4> QED
          BY <1>1, <3>1, <3>2
      <3>5. x.price = u.price /\ x.out = u.out /\ x.remaining = u.remaining
        BY <1>1, <1>6, <2>5
      <3> QED
        BY <3>3, <3>4, <3>5 DEF InStep
    <2>7. CASE ~reached
      <3>1. Stays(w, u, down)
        BY <2>2, <2>3, <2>7, Advance
      <3>2. x.liquidity = y.liquidity
        BY <1>3, <2>7 DEF Landed
      <3>3. x.price = u.price /\ x.out = u.out /\ x.remaining = u.remaining
        BY <1>1, <1>6, <2>5
      <3> QED
        BY <1>1, <3>1, <3>2, <3>3 DEF InStep, Stays
    <2> QED
      BY <2>6, <2>7
  <1>8. CASE y.cursor \notin DOMAIN v.ticks
    <2>1. next = IF down THEN MIN_TICK ELSE MAX_TICK
      BY <1>8 DEF TickNext
    <2>2. t = Limit(down)
      <3>1. Ratio[MIN_TICK] \in Nat /\ Ratio[MAX_TICK] \in Nat
        BY TickRange
      <3> HIDE DEF next
      <3> QED
        BY <2>1, <3>1 DEF Within, Limit
    <2> HIDE DEF next, t
    <2>3. CASE y.liquidity > 0
      <3>1. RunsOut(next, y.liquidity)
        BY <2>1, <2>3 DEF RunsOut
      <3> QED
        BY <1>6, <3>1
    <2>4. CASE ~(y.liquidity > 0)
      <3>1. y.liquidity = 0
        BY <1>1, <1>4, <2>4
      <3>2. t \in Nat \ {0} /\ Ways(w.price, t, down)
        BY <1>4, <2>2, LimitIs DEF PriceOK
      <3>3. step = computeSwapStep(w.price, t, 0, w.remaining, s.fee)
        BY <1>1, <1>5, <3>1
      <3> HIDE DEF step
      <3>4. /\ step.out = 0 /\ step.in \in Nat /\ step.fee \in Nat
            /\ step.next = t \/ step.in + step.fee = w.remaining
        BY <1>4, <1>5, <3>2, <3>3, EmptyStep
      <3>5. x.out = w.out
        BY <1>1, <1>4, <1>6, <3>4
      <3>6. Finished(x, down)
        <4>1. CASE step.next = t
          BY <1>6, <2>2, <4>1 DEF Finished
        <4>2. CASE step.in + step.fee = w.remaining
          <5>1. x.remaining = 0
            BY <1>1, <1>4, <1>6, <3>4, <4>2
          <5> QED
            BY <5>1 DEF Finished
        <4> QED
          BY <3>4, <4>1, <4>2
      <3> QED
        BY <3>5, <3>6
    <2> QED
      BY <2>3, <2>4
  <1> QED
    BY <1>7, <1>8

\* What is quoted of a window of a pool's ticks is no more than the pool would pay, or the
\* quote says that the ticks ran out.
LEMMA WindowOK ==
    ASSUME NEW s, ClmmOK(s), NEW n \in Nat, NEW a \in Nat, NEW down \in BOOLEAN,
           NEW whole, whole = swap(s, a, down), NEW seen, seen = swap(Window(s, n), a, down)
    PROVE  ~seen.exhausted => seen.out <= whole.out
  <1> DEFINE v == Window(s, n)
             last == Len(s.ticks) + 1
             m == Len(v.ticks) + 1
  <1>1. PICK off \in Nat : Windowed(s, v, off)
    BY WindowIs
  <1> HIDE DEF v
  <1>2. /\ Len(s.ticks) \in Nat /\ Len(v.ticks) \in Nat /\ TicksOK(s.ticks) /\ TicksOK(v.ticks)
        /\ Len(v.ticks) <= Len(s.ticks)
    <2>0. TicksOK(s.ticks)
      BY ClmmIs
    <2>1. Len(s.ticks) \in Nat
      BY <2>0 DEF TicksOK
    <2>2. Len(v.ticks) \in Nat /\ TicksOK(v.ticks) /\ off + Len(v.ticks) <= Len(s.ticks)
      BY <1>1 DEF Windowed
    <2> QED
      BY <2>0, <2>1, <2>2
  <1>3. PICK W : Rounds(s, a, down, W)
    BY <1>2, RoundsAre
  <1>4. /\ last \in Nat \ {0} /\ whole = W[last] /\ W[0] = Start(s, a, down)
        /\ \A k \in 0..last : WalkOK(s, a, W[k], down)
        /\ \A k \in 0..last : W[k].out <= W[last].out
        /\ \A k \in 1..last : W[k] = Onward(s, W[k - 1], down)
    <2>1. whole = W[last] /\ Walks(s, a, down, W, last)
      BY <1>3, WalksAre
    <2> HIDE DEF last
    <2> QED
      BY <2>1 DEF Walks
  <1>5. PICK Y : Rounds(v, a, down, Y)
    BY <1>2, RoundsAre
  <1>6. /\ m \in Nat /\ m <= last /\ seen = Y[m] /\ Y[0] = Start(v, a, down)
        /\ \A k \in 1..m : Y[k] = Onward(v, Y[k - 1], down)
    BY <1>2, <1>5 DEF Rounds, v
  <1> HIDE DEF last, m
  <1> DEFINE NoBetter(y) == Finished(y, down) /\ y.out <= whole.out
             P(k) == InStep(Y[k], W[k], off, down) \/ Y[k].exhausted \/ NoBetter(Y[k])
             SP == {k \in 0..m : P(k)}
  <1>7. P(0)
    <2> DEFINE cs == tickCursorAt(s.ticks, s.tick, down)
               cv == tickCursorAt(v.ticks, s.tick, down)
    <2>1. cs = cv + off
      BY <1>1 DEF Windowed
    <2>2. cv \in Int
      <3> DEFINE b == tickCursorAt(v.ticks, s.tick, TRUE)
                 len == Len(v.ticks)
      <3>1. s.tick \in Int
        <4>1. s.tick \in MIN_TICK..(MAX_TICK - 1) /\ MIN_TICK \in Int /\ MAX_TICK \in Int
          BY ClmmIs, TickRange DEF PlaceOK
        <4> QED
          BY <4>1
      <3> DEFINE c == tickCursorAt(v.ticks, s.tick, FALSE)
      <3>2. b \in 0..len /\ c = b + 1 /\ len \in Nat
        BY <1>2, <3>1, Cursor
      <3> HIDE DEF len
      <3>3. cv = b \/ cv = c
        <4>1. down = TRUE \/ down = FALSE
          OBVIOUS
        <4> QED
          BY <4>1, Zenon
      <3> HIDE DEF b, c, cv
      <3> QED
        BY <3>2, <3>3
    <2> HIDE DEF cs, cv
    <2>3. Y[0].cursor = cv /\ W[0].cursor = cs
      BY <1>1, <1>4, <1>6 DEF Start, Windowed, cs, cv
    <2>4. /\ Y[0].price = W[0].price /\ Y[0].liquidity = W[0].liquidity
          /\ Y[0].remaining = W[0].remaining /\ Y[0].out = W[0].out
      BY <1>1, <1>4, <1>6 DEF Start, Windowed
    <2>5. InStep(Y[0], W[0], off, down)
      BY <2>1, <2>2, <2>3, <2>4 DEF InStep
    <2> QED
      BY <2>5
  <1>8. ASSUME NEW k \in 1..m, P(k - 1) PROVE P(k)
    <2>0. k - 1 \in 0..last /\ k \in 1..last
      BY <1>4, <1>6
    <2> DEFINE y == Y[k - 1]
               w == W[k - 1]
               x == Y[k]
               u == W[k]
    <2>1. x = Onward(v, y, down) /\ u = Onward(s, w, down) /\ WalkOK(s, a, w, down) /\ w.out <= whole.out
      BY <1>4, <1>6, <2>0
    <2> HIDE DEF y, w, x, u
    <2>2. InStep(y, w, off, down) \/ y.exhausted \/ NoBetter(y)
      BY <1>8 DEF y, w
    <2>3. CASE y.exhausted
      <3>1. x.exhausted
        <4>1. CASE Finished(y, down)
          BY <2>1, <2>3, <4>1 DEF Onward
        <4>2. CASE ~Finished(y, down)
          BY <2>1, <2>3, <4>2 DEF Onward, Landed
        <4> QED
          BY <4>1, <4>2
      <3> QED
        BY <3>1 DEF x
    <2>4. CASE NoBetter(y)
      <3>1. x = y
        BY <2>1, <2>4 DEF Onward
      <3> QED
        BY <2>4, <3>1 DEF x
    <2>5. CASE InStep(y, w, off, down) /\ Finished(w, down)
      <3>1. Finished(y, down)
        BY <2>5 DEF InStep, Finished
      <3>2. x = y /\ u = w
        BY <2>1, <2>5, <3>1 DEF Onward
      <3>3. InStep(x, u, off, down)
        BY <2>5, <3>2
      <3> QED
        BY <3>3 DEF x, u
    <2>6. CASE InStep(y, w, off, down) /\ ~Finished(w, down)
      <3>1. InStep(x, u, off, down) \/ x.exhausted \/ (Finished(x, down) /\ x.out = w.out)
        BY <1>1, <2>1, <2>6, WindowRound
      <3>2. Finished(x, down) /\ x.out = w.out => NoBetter(x)
        BY <2>1
      <3> QED
        BY <3>1, <3>2 DEF x, u
    <2> QED
      BY <2>2, <2>3, <2>4, <2>5, <2>6
  <1>9. P(m)
    <2> HIDE DEF P
    <2>1. 0 \in SP
      BY <1>6, <1>7
    <2>2. \A k \in 1..m : k - 1 \in SP => k \in SP
      BY <1>6, <1>8
    <2> HIDE DEF SP
    <2>3. \A k \in 0..m : k \in SP
      BY <1>6, <2>1, <2>2, Climb
    <2>4. m \in SP
      BY <1>6, <2>3
    <2> QED
      BY <2>4 DEF SP
  <1>10. CASE InStep(Y[m], W[m], off, down)
    <2>1. m \in 0..last
      BY <1>4, <1>6
    <2>2. W[m].out <= W[last].out
      BY <1>4, <2>1
    <2> QED
      BY <1>4, <1>6, <1>10, <2>2 DEF InStep
  <1>11. CASE Y[m].exhausted
    BY <1>6, <1>11
  <1>12. CASE NoBetter(Y[m])
    BY <1>6, <1>12
  <1> QED
    BY <1>9, <1>10, <1>11, <1>12

-----------------------------------------------------------------------------
(* The states of a pool.                                                   *)

\* How many of a set are at or below one of it.
RankIn(S, t) == Cardinality({u \in S : u <= t})

\* The ranks of a finite set of numbers count it.
LEMMA Ranks ==
    ASSUME NEW S, IsFiniteSet(S), S \subseteq Int
    PROVE  /\ Cardinality(S) \in Nat
           /\ \A t \in S : RankIn(S, t) \in 1..Cardinality(S)
           /\ \A t, u \in S : t < u => RankIn(S, t) < RankIn(S, u)
           /\ \A k \in 1..Cardinality(S) : \E t \in S : RankIn(S, t) = k
  <1> DEFINE Low(t) == {u \in S : u <= t}
             n == Cardinality(S)
             Q == {RankIn(S, t) : t \in S}
             f == [t \in S |-> RankIn(S, t)]
  <1>1. n \in Nat
    BY FS_CardinalityType
  <1>2. ASSUME NEW t \in S
        PROVE  IsFiniteSet(Low(t)) /\ RankIn(S, t) = Cardinality(Low(t)) /\ RankIn(S, t) \in 1..n
    <2>1. Low(t) \subseteq S /\ t \in Low(t)
      <3>1. t \in Int
        OBVIOUS
      <3> QED
        BY <3>1
    <2>2. RankIn(S, t) = Cardinality(Low(t))
      BY DEF RankIn
    <2> HIDE DEF Low
    <2>3. IsFiniteSet(Low(t)) /\ Cardinality(Low(t)) \in Nat /\ Cardinality(Low(t)) <= n
      BY <2>1, FS_Subset, FS_CardinalityType
    <2>4. Cardinality(Low(t)) # 0
      BY <2>1, <2>3, FS_EmptySet
    <2> QED
      BY <1>1, <2>2, <2>3, <2>4
  <1>3. ASSUME NEW t \in S, NEW u \in S, t < u PROVE RankIn(S, t) < RankIn(S, u)
    <2>1. Low(t) \subseteq Low(u) /\ u \in Low(u) /\ u \notin Low(t)
      <3>1. t \in Int /\ u \in Int
        OBVIOUS
      <3>2. \A x \in S : x \in Int
        OBVIOUS
      <3>3. \A x \in S : x <= t => x <= u
        BY <1>3, <3>1, <3>2
      <3>4. u <= u /\ ~(u <= t)
        BY <1>3, <3>1
      <3> QED
        BY <3>3, <3>4
    <2>2. IsFiniteSet(Low(u)) /\ RankIn(S, u) = Cardinality(Low(u)) /\ RankIn(S, t) = Cardinality(Low(t))
      BY <1>2
    <2> HIDE DEF Low
    <2>3. Cardinality(Low(t)) <= Cardinality(Low(u)) /\ Cardinality(Low(t)) # Cardinality(Low(u))
      BY <2>1, <2>2, FS_Subset
    <2>4. RankIn(S, t) \in Int /\ RankIn(S, u) \in Int
      BY <1>2
    <2> QED
      BY <2>2, <2>3, <2>4
  <1>4. f \in Bijection(S, Q)
    <2>1. f \in [S -> Q]
      OBVIOUS
    <2>2. \A t, u \in S : f[t] = f[u] => t = u
      <3> SUFFICES ASSUME NEW t \in S, NEW u \in S, RankIn(S, t) = RankIn(S, u), t # u PROVE FALSE
        OBVIOUS
      <3>1. t < u \/ u < t
        OBVIOUS
      <3>2. RankIn(S, t) \in 1..n /\ RankIn(S, u) \in 1..n
        BY <1>2, Zenon
      <3>3. RankIn(S, t) < RankIn(S, u) \/ RankIn(S, u) < RankIn(S, t)
        BY <1>3, <3>1
      <3> HIDE DEF n
      <3> QED
        BY <1>1, <3>2, <3>3
    <2>3. \A q \in Q : \E t \in S : f[t] = q
      OBVIOUS
    <2> HIDE DEF f, Q
    <2>4. DOMAIN f = S
      BY <2>1
    <2> QED
      BY <2>1, <2>2, <2>3, <2>4 DEF Bijection, Injection, Surjection, IsInjective
  <1>5. IsFiniteSet(Q) /\ Cardinality(Q) = n
    <2> HIDE DEF f, Q
    <2>1. ExistsBijection(S, Q)
      BY <1>4 DEF ExistsBijection
    <2> QED
      BY <2>1, FS_Bijection
  <1>6. Q \subseteq 1..n
    BY <1>2
  <1>7. IsFiniteSet(1..n) /\ Cardinality(1..n) = n
    <2>1. IsFiniteSet(1..n) /\ Cardinality(1..n) = IF 1 > n THEN 0 ELSE n - 1 + 1
      BY <1>1, FS_Interval
    <2> QED
      BY <1>1, <2>1
  <1>8. Q = 1..n
    <2> HIDE DEF Q
    <2> QED
      BY <1>5, <1>6, <1>7, FS_Subset
  <1>9. \A k \in 1..n : \E t \in S : RankIn(S, t) = k
    BY <1>8
  <1> QED
    BY <1>1, <1>2, <1>3, <1>9

\* Rising lists a set of numbers by rising size.
LEMMA RisingIs ==
    ASSUME NEW S, IsFiniteSet(S), S \subseteq Int
    PROVE  /\ Cardinality(S) \in Nat /\ DOMAIN Rising(S) = 1..Cardinality(S)
           /\ \A k \in DOMAIN Rising(S) : Rising(S)[k] \in S
           /\ \A j, k \in DOMAIN Rising(S) : j < k => Rising(S)[j] < Rising(S)[k]
           /\ \A t \in S : \E k \in DOMAIN Rising(S) : Rising(S)[k] = t
  <1> DEFINE n == Cardinality(S)
             r == Rising(S)
  <1>1. /\ n \in Nat
        /\ \A t \in S : RankIn(S, t) \in 1..n
        /\ \A t, u \in S : t < u => RankIn(S, t) < RankIn(S, u)
        /\ \A k \in 1..n : \E t \in S : RankIn(S, t) = k
    BY Ranks
  <1>2. r = [k \in 1..n |-> CHOOSE t \in S : RankIn(S, t) = k]
    BY DEF Rising, RankIn
  <1> HIDE DEF n, r
  <1>3. DOMAIN r = 1..n
    BY <1>2
  <1>4. \A k \in 1..n : r[k] \in S /\ RankIn(S, r[k]) = k
    BY <1>1, <1>2
  <1>5. \A t, u \in S : RankIn(S, t) = RankIn(S, u) => t = u
    <2> SUFFICES ASSUME NEW t \in S, NEW u \in S, RankIn(S, t) = RankIn(S, u), t # u PROVE FALSE
      OBVIOUS
    <2>1. t < u \/ u < t
      OBVIOUS
    <2>2. RankIn(S, t) \in Int /\ RankIn(S, u) \in Int
      BY <1>1
    <2>3. RankIn(S, t) < RankIn(S, u) \/ RankIn(S, u) < RankIn(S, t)
      BY <1>1, <2>1
    <2> QED
      BY <2>2, <2>3
  <1>6. ASSUME NEW j \in 1..n, NEW k \in 1..n, j < k PROVE r[j] < r[k]
    <2>1. r[j] \in S /\ r[k] \in S /\ RankIn(S, r[j]) = j /\ RankIn(S, r[k]) = k
      BY <1>4
    <2>2. r[j] \in Int /\ r[k] \in Int
      BY <2>1
    <2>3. r[j] # r[k]
      BY <1>6, <2>1
    <2>4. ~(r[k] < r[j])
      <3>1. r[k] < r[j] => k < j
        BY <1>1, <2>1
      <3> QED
        BY <1>1, <1>6, <3>1
    <2> QED
      BY <2>2, <2>3, <2>4
  <1>7. ASSUME NEW t \in S PROVE \E k \in 1..n : r[k] = t
    <2> DEFINE k == RankIn(S, t)
    <2>1. k \in 1..n
      BY <1>1
    <2>2. r[k] = t
      BY <1>4, <1>5, <2>1
    <2> QED
      BY <2>1, <2>2
  <1> QED
    BY <1>1, <1>3, <1>4, <1>6, <1>7 DEF n, r

\* Nothing sums to nothing.
LEMMA NoneBelow ==
    ASSUME NEW s, TicksOK(s.ticks)
    PROVE  LiquidityAt(s, MIN_TICK - 1) = 0
  <1> DEFINE all == DOMAIN Ratio
             f == Nets(s)
  <1>1. IsFiniteSet(all) /\ all \subseteq Int /\ all = MIN_TICK..MAX_TICK /\ MIN_TICK \in Int /\ MAX_TICK \in Int
    BY TickRange
  <1>2. f \in [all -> Int]
    <2>1. f = [u \in all |-> NetAt(s, u)]
      BY DEF Nets
    <2>2. \A u \in all : NetAt(s, u) \in Int
      BY <1>1, NetIs
    <2> HIDE DEF f, all
    <2> QED
      BY <2>1, <2>2
  <1>3. LiquidityAt(s, MIN_TICK - 1) = SumFunctionOnSet(f, UpTo(MIN_TICK - 1))
    BY DEF LiquidityAt, Nets, UpTo
  <1>4. UpTo(MIN_TICK - 1) = {}
    <2>1. \A t \in all : ~(t <= MIN_TICK - 1)
      BY <1>1
    <2> QED
      BY <2>1 DEF UpTo
  <1> HIDE DEF f, all
  <1>5. PICK g : Totals(g, f, all)
    BY <1>1, <1>2, Summed
  <1>6. SumFunctionOnSet(f, {}) = g[{}] /\ g[{}] = 0
    <2>1. {} \in SUBSET all
      OBVIOUS
    <2> QED
      BY <1>5, <2>1 DEF Totals, Sums
  <1> QED
    BY <1>3, <1>4, <1>6

\* What a position adds at a tick, and what it is worth from there on.
Bump(r, t) ==
    (IF t = r.lower THEN r.amount ELSE 0) - (IF t = r.upper THEN r.amount ELSE 0)
Inside(r, t) == IF r.lower <= t /\ t < r.upper THEN r.amount ELSE 0

\* Two pools whose ticks differ by a position differ by it everywhere.
LEMMA PositionSums ==
    ASSUME NEW s, TicksOK(s.ticks), NEW n, TicksOK(n.ticks), NEW r,
           r.lower \in DOMAIN Ratio, r.upper \in DOMAIN Ratio, r.lower < r.upper, r.amount \in Nat,
           \A t \in DOMAIN Ratio : NetAt(n, t) = NetAt(s, t) + Bump(r, t),
           NEW t \in DOMAIN Ratio
    PROVE  LiquidityAt(n, t) = LiquidityAt(s, t) + Inside(r, t)
  <1> DEFINE all == DOMAIN Ratio
             base == MIN_TICK - 1
             B == {m \in Nat : base + m <= MAX_TICK
                               /\ LiquidityAt(n, base + m) # LiquidityAt(s, base + m) + Inside(r, base + m)}
  <1>1. MIN_TICK \in Int /\ MAX_TICK \in Int /\ all = MIN_TICK..MAX_TICK
    BY TickRange
  <1>2. {r.lower, r.upper, t} \subseteq Int /\ r.lower >= MIN_TICK /\ t >= MIN_TICK /\ t <= MAX_TICK
    BY <1>1
  <1>3. ASSUME NEW u \in Int PROVE LiquidityAt(n, u) \in Int /\ LiquidityAt(s, u) \in Int
    BY <1>3, OneTick
  <1>4. SUFFICES ASSUME B # {} PROVE FALSE
    <2>1. t - base \in Nat /\ base + (t - base) = t
      BY <1>1, <1>2
    <2>2. t - base \notin B
      BY <1>4
    <2> QED
      BY <1>2, <2>1, <2>2
  <1>5. PICK m \in B : \A k \in B : m <= k
    <2>1. B \in SUBSET Nat /\ B # {}
      BY <1>4
    <2> HIDE DEF B
    <2> QED
      BY <2>1, Least
  <1>6. m \in Nat /\ base + m <= MAX_TICK
        /\ LiquidityAt(n, base + m) # LiquidityAt(s, base + m) + Inside(r, base + m)
    BY <1>5
  <1>7. m # 0
    <2>1. SUFFICES ASSUME m = 0 PROVE FALSE
      OBVIOUS
    <2>2. base + m = base
      BY <1>1, <2>1
    <2>3. LiquidityAt(n, base) = 0 /\ LiquidityAt(s, base) = 0
      BY NoneBelow
    <2>4. Inside(r, base) = 0
      <3>1. ~(r.lower <= base)
        BY <1>1, <1>2
      <3> QED
        BY <3>1 DEF Inside
    <2> QED
      BY <1>6, <2>2, <2>3, <2>4
  <1> DEFINE u == base + m
  <1>8. m - 1 \in Nat /\ base + (m - 1) <= MAX_TICK /\ u - 1 = base + (m - 1) /\ u \in Int /\ u \in MIN_TICK..MAX_TICK
    BY <1>1, <1>6, <1>7
  <1>9. m - 1 \notin B
    <2> HIDE DEF B
    <2> QED
      BY <1>5, <1>6, <1>8
  <1>10. LiquidityAt(n, base + (m - 1)) = LiquidityAt(s, base + (m - 1)) + Inside(r, base + (m - 1))
    BY <1>8, <1>9
  <1> HIDE DEF B
  <1>11. LiquidityAt(n, u) # LiquidityAt(s, u) + Inside(r, u)
    BY <1>6
  <1>12. LiquidityAt(n, u - 1) = LiquidityAt(s, u - 1) + Inside(r, u - 1)
    BY <1>8, <1>10
  <1>13. u \in all
    BY <1>1, <1>8
  <1> HIDE DEF u, base, all
  <1>14. LiquidityAt(n, u) = LiquidityAt(n, u - 1) + NetAt(n, u) /\ LiquidityAt(s, u) = LiquidityAt(s, u - 1) + NetAt(s, u)
    BY <1>8, <1>13, OneTick DEF all
  <1>15. NetAt(n, u) = NetAt(s, u) + Bump(r, u)
    BY <1>13 DEF all
  <1>16. Inside(r, u) = Inside(r, u - 1) + Bump(r, u) /\ Inside(r, u) \in Int /\ Inside(r, u - 1) \in Int /\ Bump(r, u) \in Int
    <2> DEFINE low == r.lower
               high == r.upper
               x == r.amount
    <2>1. low \in Int /\ high \in Int /\ low < high /\ x \in Nat /\ u \in Int
      BY <1>2, <1>8
    <2>2. Inside(r, u) = IF low <= u /\ u < high THEN x ELSE 0
      BY DEF Inside
    <2>3. Inside(r, u - 1) = IF low <= u - 1 /\ u - 1 < high THEN x ELSE 0
      BY DEF Inside
    <2>4. Bump(r, u) = (IF u = low THEN x ELSE 0) - (IF u = high THEN x ELSE 0)
      BY DEF Bump
    <2> HIDE DEF low, high, x
    <2> QED
      BY <2>1, <2>2, <2>3, <2>4
  <1>17. LiquidityAt(n, u - 1) \in Int /\ LiquidityAt(s, u - 1) \in Int /\ NetAt(s, u) \in Int
    <2>1. u - 1 \in Int
      BY <1>8
    <2> QED
      BY <1>3, <1>8, <2>1, NetIs
  <1> QED
    BY <1>11, <1>12, <1>14, <1>15, <1>16, <1>17

\* Minting keeps the states of a pool.
LEMMA MintedOK ==
    ASSUME NEW s, ClmmOK(s), NEW r, r.lower \in DOMAIN Ratio, r.upper \in DOMAIN Ratio,
           r.lower < r.upper, r.amount \in Nat
    PROVE  ClmmOK(Minted(s, r))
  <1> DEFINE all == DOMAIN Ratio
             Now(t) == NetAt(s, t) + (IF t = r.lower THEN r.amount ELSE 0)
                                   - (IF t = r.upper THEN r.amount ELSE 0)
             C == {t \in all : Now(t) # 0}
             I == Rising(C)
             ticks == [k \in DOMAIN I |-> [index |-> I[k], net |-> Now(I[k])]]
             liquidity == IF s.tick \in r.lower..(r.upper - 1) THEN s.liquidity + r.amount ELSE s.liquidity
             n == Minted(s, r)
             fees == 0..(FEE_PIPS_DENOMINATOR - 1)
             ticked == [index : all, net : Int]
             entries == Seq(ticked)
             states == [price : Nat, tick : Int, liquidity : Nat, fee : fees, ticks : entries]
  <1>1. IsFiniteSet(all) /\ all \subseteq Int
    BY TickRange
  <1>2. TicksOK(s.ticks) /\ PlaceOK(s.price, s.tick) /\ s.liquidity \in Nat
        /\ s.liquidity = LiquidityAt(s, s.tick) /\ \A t \in all : LiquidityAt(s, t) \in Nat
    BY ClmmIs
  <1>3. s \in states
    BY DEF ClmmOK, ClmmStates
  <1>4. \A t \in all : Now(t) \in Int /\ Now(t) = NetAt(s, t) + Bump(r, t)
    <2> SUFFICES ASSUME NEW t \in all PROVE Now(t) \in Int /\ Now(t) = NetAt(s, t) + Bump(r, t)
      OBVIOUS
    <2>1. NetAt(s, t) \in Int
      BY <1>1, <1>2, NetIs
    <2>2. /\ (IF t = r.lower THEN r.amount ELSE 0) \in Int
          /\ (IF t = r.upper THEN r.amount ELSE 0) \in Int
      OBVIOUS
    <2> QED
      BY <2>1, <2>2 DEF Bump
  <1>5. n = [s EXCEPT !.ticks = ticks, !.liquidity = liquidity]
    BY DEF Minted
  <1> HIDE DEF Now, n, fees, entries, liquidity
  <1>6. IsFiniteSet(C) /\ C \subseteq Int /\ C \subseteq all
    <2>1. C \in SUBSET all
      OBVIOUS
    <2> HIDE DEF C
    <2> QED
      BY <1>1, <2>1, FS_Subset
  <1> DEFINE c == Cardinality(C)
  <1>7. /\ c \in Nat /\ DOMAIN I = 1..c
        /\ \A k \in DOMAIN I : I[k] \in C
        /\ \A j, k \in DOMAIN I : j < k => I[j] < I[k]
        /\ \A t \in C : \E k \in DOMAIN I : I[k] = t
    <2> HIDE DEF C
    <2> QED
      BY <1>6, RisingIs
  <1> HIDE DEF C, I, c
  <1>8. \A k \in 1..c : I[k] \in all /\ Now(I[k]) \in Int /\ ticks[k] = [index |-> I[k], net |-> Now(I[k])]
    BY <1>4, <1>6, <1>7
  <1>9. ticks \in entries /\ DOMAIN ticks = 1..c
    <2>1. \A k \in 1..c : ticks[k] \in ticked
      <3> SUFFICES ASSUME NEW k \in 1..c PROVE ticks[k] \in ticked
        OBVIOUS
      <3> DEFINE i == I[k]
                 x == Now(I[k])
      <3>1. i \in all /\ x \in Int /\ ticks[k] = [index |-> i, net |-> x]
        BY <1>8
      <3> HIDE DEF all, ticks, i, x
      <3> QED
        BY <3>1
    <2>2. ticks = [k \in 1..c |-> ticks[k]]
      BY <1>7
    <2> HIDE DEF ticked, ticks
    <2>3. ticks \in [1..c -> ticked]
      BY <2>1, <2>2
    <2> QED
      BY <1>7, <2>3 DEF entries
  <1>10. \A j, k \in 1..c : j < k => ticks[j].index < ticks[k].index
    BY <1>7, <1>8
  <1> HIDE DEF ticks
  <1>11. TicksOK(ticks)
    BY <1>9, <1>10 DEF TicksOK, entries
  <1>12. s.liquidity \in Nat /\ liquidity = s.liquidity + Inside(r, s.tick) /\ liquidity \in Nat
    <2>1. {s.tick, r.lower, r.upper} \subseteq Int
      <3>1. s.tick \in Int
        <4>1. s.tick \in MIN_TICK..(MAX_TICK - 1) /\ MIN_TICK \in Int /\ MAX_TICK \in Int
          BY <1>2, TickRange DEF PlaceOK
        <4> QED
          BY <4>1
      <3> QED
        BY <1>1, <3>1
    <2>2. s.tick \in r.lower..(r.upper - 1) <=> r.lower <= s.tick /\ s.tick < r.upper
      BY <2>1
    <2> QED
      BY <1>2, <2>2 DEF liquidity, Inside
  <1>13. /\ n.ticks = ticks /\ n.liquidity = liquidity /\ n.price = s.price /\ n.tick = s.tick
         /\ n \in states
    BY <1>3, <1>5, <1>9, <1>12
  <1>14. \A t \in all : NetAt(n, t) = NetAt(s, t) + Bump(r, t)
    <2> SUFFICES ASSUME NEW t \in all PROVE NetAt(n, t) = Now(t)
      BY <1>4
    <2>1. CASE t \in C
      <3>1. PICK k \in 1..c : I[k] = t
        BY <1>7, <2>1
      <3>2. ticks[k].index = t /\ ticks[k].net = Now(t)
        <4>1. ticks[k] = [index |-> I[k], net |-> Now(I[k])]
          BY <1>8
        <4>2. ticks[k] = [index |-> t, net |-> Now(t)]
          BY <3>1, <4>1
        <4> QED
          BY <4>2
      <3>3. k \in DOMAIN n.ticks /\ TicksOK(n.ticks)
        BY <1>9, <1>11, <1>13
      <3>4. NetAt(n, n.ticks[k].index) = n.ticks[k].net
        BY <3>3, NetIs
      <3> QED
        BY <1>13, <3>2, <3>4
    <2>2. CASE t \notin C
      <3>1. Now(t) = 0
        BY <2>2 DEF C
      <3>2. \A k \in DOMAIN n.ticks : n.ticks[k].index # t
        <4>1. \A k \in 1..c : ticks[k].index \in C
          <5> SUFFICES ASSUME NEW k \in 1..c PROVE ticks[k].index \in C
            OBVIOUS
          <5>1. ticks[k] = [index |-> I[k], net |-> Now(I[k])] /\ I[k] \in C
            BY <1>7, <1>8
          <5> QED
            BY <5>1
        <4> QED
          BY <1>9, <1>13, <2>2, <4>1
      <3>3. TicksOK(n.ticks)
        BY <1>11, <1>13
      <3> QED
        BY <3>1, <3>2, <3>3, NetIs
    <2> QED
      BY <2>1, <2>2
  <1>15. \A t \in all : LiquidityAt(n, t) = LiquidityAt(s, t) + Inside(r, t) /\ Inside(r, t) \in Nat
    <2> SUFFICES ASSUME NEW t \in all
                 PROVE  LiquidityAt(n, t) = LiquidityAt(s, t) + Inside(r, t) /\ Inside(r, t) \in Nat
      OBVIOUS
    <2>1. TicksOK(n.ticks)
      BY <1>11, <1>13
    <2>2. LiquidityAt(n, t) = LiquidityAt(s, t) + Inside(r, t)
      BY <1>2, <1>14, <2>1, PositionSums
    <2> QED
      BY <2>2 DEF Inside
  <1>16. s.tick \in all
    <2>1. s.tick \in MIN_TICK..(MAX_TICK - 1) /\ all = MIN_TICK..MAX_TICK /\ MIN_TICK \in Int /\ MAX_TICK \in Int
      BY <1>2, TickRange DEF PlaceOK
    <2> HIDE DEF all
    <2> QED
      BY <2>1
  <1>17. n.liquidity = LiquidityAt(n, n.tick)
    BY <1>2, <1>12, <1>13, <1>15, <1>16
  <1>18. \A t \in all : LiquidityAt(n, t) >= 0
    BY <1>2, <1>15
  <1>19. \A j, k \in DOMAIN n.ticks : j < k => n.ticks[j].index < n.ticks[k].index
    BY <1>9, <1>10, <1>13
  <1>20. /\ Ratio[MIN_TICK] < n.price /\ n.price < Ratio[MAX_TICK]
         /\ n.tick \in MIN_TICK..(MAX_TICK - 1) /\ n.price \in Ratio[n.tick]..Ratio[n.tick + 1]
    <2>1. /\ Ratio[MIN_TICK] < s.price /\ s.price < Ratio[MAX_TICK]
          /\ s.tick \in MIN_TICK..(MAX_TICK - 1) /\ s.price \in Ratio[s.tick]..Ratio[s.tick + 1]
      BY DEF ClmmOK
    <2> QED
      BY <1>13, <2>1
  <1>21. n \in ClmmStates
    BY <1>13 DEF ClmmStates, fees, entries
  <1> QED
    BY <1>17, <1>18, <1>19, <1>20, <1>21 DEF ClmmOK, n

\* A pool of two reserves pays no more than it has, and its product never falls.
THEOREM ProductKept ==
    ASSUME NEW amount \in Nat \ {0}, NEW reserveIn \in Nat, NEW reserveOut \in Nat,
           NEW feeBps \in 0..(BPS_DENOMINATOR - 1),
           NEW paid, paid = getAmountOut(amount, reserveIn, reserveOut, feeBps)
    PROVE  /\ paid \in Nat /\ paid <= reserveOut
           /\ reserveIn * reserveOut <= (reserveIn + amount) * (reserveOut - paid)
  <1> DEFINE b == BPS_DENOMINATOR
             k == b - feeBps
             af == amount * k
             e == amount * feeBps
             rb == reserveIn * b
             d == rb + af
             more == reserveIn + amount
  <1>1. b \in Nat \ {0} /\ k \in Nat \ {0} /\ feeBps \in Nat /\ k + feeBps = b
    <2>1. b \in Nat \ {0}
      BY AmountsAssumption DEF AmountsAssumption
    <2> HIDE DEF b
    <2> QED
      BY <2>1 DEF b
  <1>2. paid = (af * reserveOut) \div d
    BY DEF getAmountOut, mulDiv
  <1> HIDE DEF b, k
  <1>3. af \in Nat \ {0} /\ e \in Nat /\ rb \in Nat
    BY <1>1, Times
  <1>4. af + e = amount * b
    <2>1. (k + feeBps) * amount = k * amount + feeBps * amount
      BY <1>1, Times
    <2>2. (k + feeBps) * amount = amount * b /\ k * amount = af /\ feeBps * amount = e
      <3>1. b * amount = amount * b /\ k * amount = amount * k /\ feeBps * amount = amount * feeBps
        BY <1>1, Times
      <3> QED
        BY <1>1, <3>1
    <2> QED
      BY <2>1, <2>2
  <1>5. d \in Nat \ {0} /\ af <= d /\ more \in Nat \ {0}
    BY <1>3
  <1>6. d + e = more * b
    <2>1. more * b = rb + amount * b
      BY <1>1, Times
    <2>2. amount * b \in Nat
      BY <1>1, Times
    <2> QED
      BY <1>3, <1>4, <2>1, <2>2
  <1> HIDE DEF af, e, rb, d, more
  <1>7. af * reserveOut \in Nat
    BY <1>3, Times
  <1>8. paid \in Nat /\ paid * d <= af * reserveOut
    BY <1>2, <1>5, <1>7, Floor
  <1>9. paid <= reserveOut
    <2>1. af * reserveOut <= d * reserveOut
      BY <1>3, <1>5, Times
    <2>2. d * reserveOut = reserveOut * d /\ d * reserveOut \in Nat /\ paid * d \in Nat
      BY <1>5, <1>8, Times
    <2>3. paid * d <= reserveOut * d
      BY <1>7, <1>8, <2>1, <2>2
    <2> QED
      BY <1>5, <1>8, <2>3, Times
  <1>10. paid * more <= amount * reserveOut
    <2>1. paid * e <= reserveOut * e
      BY <1>3, <1>8, <1>9, Times
    <2>2. (d + e) * paid = d * paid + e * paid /\ (af + e) * reserveOut = af * reserveOut + e * reserveOut
      BY <1>3, <1>5, <1>8, Times
    <2>3. d * paid = paid * d /\ e * paid = paid * e /\ e * reserveOut = reserveOut * e
      BY <1>3, <1>5, <1>8, Times
    <2>4. {paid * d, paid * e, reserveOut * e, af * reserveOut} \subseteq Nat
      BY <1>3, <1>5, <1>7, <1>8, Times
    <2>5. (d + e) * paid <= (af + e) * reserveOut
      BY <1>8, <2>1, <2>2, <2>3, <2>4
    <2>6. (more * b) * paid <= (amount * b) * reserveOut
      BY <1>4, <1>6, <2>5
    <2>7. (more * b) * paid = (paid * more) * b
      <3>1. (more * b) * paid = paid * (more * b) /\ (paid * more) * b = paid * (more * b) /\ more * b \in Nat
        BY <1>1, <1>5, <1>8, Times
      <3>2. (more * b) * paid = paid * (more * b)
        BY <1>8, <3>1, Times
      <3> QED
        BY <3>1, <3>2
    <2>8. (amount * b) * reserveOut = (amount * reserveOut) * b
      <3>1. (amount * b) * reserveOut = amount * (b * reserveOut) /\ (amount * reserveOut) * b = amount * (reserveOut * b)
        BY <1>1, Times
      <3>2. b * reserveOut = reserveOut * b
        BY <1>1, Times
      <3> QED
        BY <3>1, <3>2
    <2>9. paid * more \in Nat /\ amount * reserveOut \in Nat
      BY <1>5, <1>8, Times
    <2>10. (paid * more) * b <= (amount * reserveOut) * b
      BY <2>6, <2>7, <2>8
    <2> QED
      BY <1>1, <2>9, <2>10, Times
  <1>11. more * (reserveOut - paid) = more * reserveOut - more * paid
    <2>1. (reserveOut - paid) * more = reserveOut * more - paid * more /\ reserveOut - paid \in Nat
      BY <1>5, <1>8, <1>9, Times
    <2>2. (reserveOut - paid) * more = more * (reserveOut - paid) /\ reserveOut * more = more * reserveOut /\ paid * more = more * paid
      BY <1>5, <1>8, <2>1, Times
    <2> QED
      BY <2>1, <2>2
  <1>12. more * reserveOut = reserveIn * reserveOut + amount * reserveOut
    BY Times DEF more
  <1>13. {more * paid, reserveIn * reserveOut, amount * reserveOut} \subseteq Nat /\ more * paid = paid * more
    BY <1>5, <1>8, Times
  <1>14. reserveIn * reserveOut <= more * (reserveOut - paid)
    BY <1>10, <1>11, <1>12, <1>13
  <1> QED
    BY <1>8, <1>9, <1>14 DEF more

\* The pools are in states they can be in.
PoolsOK(pools) == \A p \in PoolIds : PoolOK(p, pools[p])

\* The kinds of pool, one by one.
LEMMA Kinds ==
    ASSUME NEW p \in PoolIds
    PROVE  /\ Pairs[p].kind = "cpmm" \/ Pairs[p].kind = "clmm" \/ Pairs[p].kind = "router"
           /\ Pairs[p].kind = "cpmm" => \A s : PoolOK(p, s) <=> s \in CpmmStates
           /\ Pairs[p].kind = "clmm" => \A s : PoolOK(p, s) <=> ClmmOK(s)
           /\ Pairs[p].kind = "router" => \A s : PoolOK(p, s) <=> s \in RouterStates
           /\ Pairs[p].token0 # Pairs[p].token1
  <1>1. Pairs[p].kind \in {"cpmm", "clmm", "router"} /\ Pairs[p].token0 # Pairs[p].token1
    BY MarketAssumption DEF MarketAssumption
  <1>2. "cpmm" # "clmm" /\ "cpmm" # "router" /\ "clmm" # "router"
    OBVIOUS
  <1> QED
    BY <1>1, <1>2 DEF PoolOK

\* A pool that trades with whatever it is given answers an amount, or nothing.
LEMMA OutputIs ==
    ASSUME NEW p \in PoolIds, NEW s, PoolOK(p, s), NEW t, NEW a \in Nat \ {0}
    PROVE  Output(s, p, t, a) \in Nat \cup {None}
  <1> DEFINE forward == tokenInIsToken0(p, t)
  <1>0. forward \in BOOLEAN
    BY DEF tokenInIsToken0
  <1>1. CASE Pairs[p].kind = "cpmm"
    <2>1. s \in CpmmStates
      BY <1>1, Kinds
    <2> DEFINE fees == 0..(BPS_DENOMINATOR - 1)
    <2>2. s \in [reserve0 : Nat, reserve1 : Nat, fee : fees]
      BY <2>1 DEF CpmmStates
    <2> HIDE DEF fees
    <2>3. s.reserve0 \in Nat /\ s.reserve1 \in Nat /\ s.fee \in fees
      BY <2>2
    <2>4. getAmountOut(a, s.reserve0, s.reserve1, s.fee) \in Nat
      BY <2>3, ProductKept DEF fees
    <2>5. getAmountOut(a, s.reserve1, s.reserve0, s.fee) \in Nat
      BY <2>3, ProductKept DEF fees
    <2>6. Output(s, p, t, a) = IF forward THEN getAmountOut(a, s.reserve0, s.reserve1, s.fee)
                               ELSE getAmountOut(a, s.reserve1, s.reserve0, s.fee)
      BY <1>1 DEF Output
    <2> QED
      BY <2>4, <2>5, <2>6
  <1>2. CASE Pairs[p].kind = "clmm"
    <2>1. ClmmOK(s)
      BY <1>2, Kinds
    <2> HIDE DEF forward
    <2>2. Settles(s, a, forward, swap(s, a, forward))
      BY <1>0, <2>1, SwapSettles
    <2>3. swap(s, a, forward).out \in Nat
      BY <2>2 DEF Settles
    <2>4. Output(s, p, t, a) = IF Quotable(swap(s, a, forward)) THEN swap(s, a, forward).out ELSE None
      <3>1. Pairs[p].kind # "cpmm"
        BY <1>2
      <3> QED
        BY <1>2, <3>1 DEF Output, forward
    <2> QED
      BY <2>3, <2>4
  <1>3. CASE Pairs[p].kind = "router"
    <2>1. s \in RouterStates
      BY <1>3, Kinds
    <2>2. s.rate \in Nat \ {0} \/ s.rate = None
      BY <2>1 DEF RouterStates
    <2>3. Output(s, p, t, a) = IF s.rate = None THEN None
                               ELSE IF forward THEN a * s.rate ELSE a \div s.rate
      <3>1. Pairs[p].kind # "cpmm" /\ Pairs[p].kind # "clmm"
        BY <1>3
      <3> QED
        BY <1>3, <3>1 DEF Output
    <2>4. \A x \in Nat \ {0} : a * x \in Nat /\ a \div x \in Nat
      BY Times, Floor
    <2> QED
      BY <2>2, <2>3, <2>4
  <1> QED
    BY <1>1, <1>2, <1>3, Kinds

\* Trading keeps the states of a pool.
LEMMA TradedOK ==
    ASSUME PoolsOK(pool), NEW p \in PoolIds, NEW a \in Nat \ {0}, NEW forward \in BOOLEAN,
           Traded(p, pool[p], a, forward)
    PROVE  \E s : PoolOK(p, s) /\ pool' = [pool EXCEPT ![p] = s]
  <1> DEFINE s == pool[p]
  <1>0. PoolOK(p, s)
    BY DEF PoolsOK
  <1>1. CASE Pairs[p].kind = "clmm"
    <2> DEFINE result == swap(s, a, forward)
    <2>1. ClmmOK(s)
      BY <1>0, <1>1, Kinds
    <2>2. pool' = [pool EXCEPT ![p] = After(s, result)]
      BY <1>1 DEF Traded
    <2>3. Settles(s, a, forward, result)
      <3> HIDE DEF s
      <3> QED
        BY <2>1, SwapSettles
    <2>4. ClmmOK(After(s, result))
      BY <2>3 DEF Settles
    <2>5. PoolOK(p, After(s, result))
      BY <1>1, <2>4, Kinds
    <2> QED
      BY <2>2, <2>5
  <1>2. CASE Pairs[p].kind = "cpmm"
    <2> DEFINE fees == 0..(BPS_DENOMINATOR - 1)
               states == [reserve0 : Nat, reserve1 : Nat, fee : fees]
               in == IF forward THEN Pairs[p].token0 ELSE Pairs[p].token1
               paid == Output(s, p, in, a)
               n == IF forward THEN [s EXCEPT !.reserve0 = @ + a, !.reserve1 = @ - paid]
                    ELSE [s EXCEPT !.reserve1 = @ + a, !.reserve0 = @ - paid]
    <2>1. s \in states
      BY <1>0, <1>2, Kinds DEF CpmmStates
    <2>2. pool' = [pool EXCEPT ![p] = n]
      <3>1. Pairs[p].kind # "clmm"
        BY <1>2
      <3> QED
        BY <1>2, <3>1 DEF Traded
    <2>3. tokenInIsToken0(p, in) <=> forward
      BY Kinds DEF tokenInIsToken0
    <2>4. paid = IF forward THEN getAmountOut(a, s.reserve0, s.reserve1, s.fee)
                 ELSE getAmountOut(a, s.reserve1, s.reserve0, s.fee)
      BY <1>2, <2>3 DEF Output
    <2> HIDE DEF s, fees, in, paid
    <2>5. s.reserve0 \in Nat /\ s.reserve1 \in Nat /\ s.fee \in fees
      BY <2>1
    <2>6. CASE forward
      <3>1. paid = getAmountOut(a, s.reserve0, s.reserve1, s.fee)
        BY <2>4, <2>6
      <3>2. paid \in Nat /\ paid <= s.reserve1
        BY <2>5, <3>1, ProductKept DEF fees
      <3>3. s.reserve0 + a \in Nat /\ s.reserve1 - paid \in Nat
        BY <2>5, <3>2
      <3>4. n = [s EXCEPT !.reserve0 = s.reserve0 + a, !.reserve1 = s.reserve1 - paid]
        BY <2>1, <2>6
      <3>5. n \in states
        BY <2>1, <3>3, <3>4
      <3> QED
        BY <1>2, <2>2, <3>5, Kinds DEF CpmmStates, fees
    <2>7. CASE ~forward
      <3>1. paid = getAmountOut(a, s.reserve1, s.reserve0, s.fee)
        BY <2>4, <2>7
      <3>2. paid \in Nat /\ paid <= s.reserve0
        BY <2>5, <3>1, ProductKept DEF fees
      <3>3. s.reserve1 + a \in Nat /\ s.reserve0 - paid \in Nat
        BY <2>5, <3>2
      <3>4. n = [s EXCEPT !.reserve1 = s.reserve1 + a, !.reserve0 = s.reserve0 - paid]
        BY <2>1, <2>7
      <3>5. n \in states
        BY <2>1, <3>3, <3>4
      <3> QED
        BY <1>2, <2>2, <3>5, Kinds DEF CpmmStates, fees
    <2> QED
      BY <2>6, <2>7
  <1>3. CASE Pairs[p].kind = "router"
    <2> DEFINE rate == IF forward THEN s.rate + 1 ELSE IF s.rate = 1 THEN None ELSE s.rate - 1
               n == [s EXCEPT !.rate = rate]
    <2>1. s \in RouterStates
      BY <1>0, <1>3, Kinds
    <2>2. s.rate # None /\ pool' = [pool EXCEPT ![p].rate =
                               IF forward THEN @ + 1 ELSE IF @ = 1 THEN None ELSE @ - 1]
      <3>1. Pairs[p].kind # "cpmm" /\ Pairs[p].kind # "clmm"
        BY <1>3
      <3> QED
        BY <1>3, <3>1 DEF Traded
    <2>3. pool' = [pool EXCEPT ![p] = n]
      BY <2>2
    <2> HIDE DEF s
    <2>4. s.rate \in Nat \ {0}
      BY <2>1, <2>2 DEF RouterStates
    <2>5. rate \in (Nat \ {0}) \cup {None}
      BY <2>4
    <2> HIDE DEF rate
    <2>6. n \in RouterStates
      BY <2>1, <2>5 DEF RouterStates
    <2> QED
      BY <1>3, <2>3, <2>6, Kinds
  <1> QED
    BY <1>1, <1>2, <1>3, Kinds

\* A pool that changes to a state it can be in leaves the pools as they can be.
LEMMA OnePool ==
    ASSUME NEW pools, pools = [p \in PoolIds |-> pools[p]], PoolsOK(pools), NEW p \in PoolIds, NEW s, PoolOK(p, s)
    PROVE  PoolsOK([pools EXCEPT ![p] = s])
           /\ [pools EXCEPT ![p] = s] = [q \in PoolIds |-> [pools EXCEPT ![p] = s][q]]
  BY DEF PoolsOK

\* ... which is an invariant.
PoolsInv == pool = [p \in PoolIds |-> pool[p]] /\ PoolsOK(pool)

\* Whatever is traded, minted and synced, every pool is in a state it can be in: the
\* liquidity of a concentrated one is what its ticks make it where its price is, and
\* negative nowhere (swap of concentrated-liquidity.ts, sync of pool-repository.ts).
THEOREM PoolsStayOK == Spec => []PoolsInv
  <1>1. Init => PoolsInv
    BY PoolsAssumption DEF Init, PoolsAssumption, PoolsInv, PoolsOK
  <1>2. ASSUME PoolsInv, [Next]_vars PROVE PoolsInv'
    <2>1. CASE pool' = pool
      BY <1>2, <2>1 DEF PoolsInv, PoolsOK
    <2>2. ASSUME NEW p \in PoolIds, NEW a \in Trades, NEW f \in BOOLEAN, Trade(p, a, f) PROVE PoolsInv'
      <3>1. a \in Nat \ {0}
        BY NumbersAssumption DEF NumbersAssumption
      <3>2. PICK s : PoolOK(p, s) /\ pool' = [pool EXCEPT ![p] = s]
        BY <1>2, <2>2, <3>1, TradedOK DEF Trade, PoolsInv
      <3> QED
        BY <1>2, <3>2, OnePool DEF PoolsInv
    <2>3. ASSUME NEW p \in PoolIds, NEW r \in Positions, Mint(p, r) PROVE PoolsInv'
      <3>1. r.lower \in DOMAIN Ratio /\ r.upper \in DOMAIN Ratio /\ r.lower < r.upper /\ r.amount \in Nat
        BY NumbersAssumption DEF NumbersAssumption
      <3>2. Pairs[p].kind = "clmm" /\ pool' = [pool EXCEPT ![p] = Minted(pool[p], r)]
        BY <2>3 DEF Mint
      <3>3. ClmmOK(pool[p])
        BY <1>2, <3>2, Kinds DEF PoolsInv, PoolsOK
      <3>4. ClmmOK(Minted(pool[p], r))
        BY <3>1, <3>3, MintedOK
      <3>5. PoolOK(p, Minted(pool[p], r))
        BY <3>2, <3>4, Kinds
      <3> QED
        BY <1>2, <3>2, <3>5, OnePool DEF PoolsInv
    <2>4. pool' = pool \/ (\E p \in PoolIds : \/ \E a \in Trades, f \in BOOLEAN : Trade(p, a, f)
                                              \/ \E r \in Positions : Mint(p, r))
      BY <1>2 DEF Next, vars, QuoteIntent, Local, Value, Carry, Fill, Quoted, Reserve, Repriced,
                  Executed, GasMoves, Promised, Ended
    <2> QED
      BY <2>1, <2>2, <2>3, <2>4
  <1> QED
    BY <1>1, <1>2, PTL DEF Spec

\* Nothing is gained from a concentrated pool: not when only some of its ticks are loaded,
\* not by trading back, and not by cutting a trade in two (swap and
\* createClmmSource of concentrated-liquidity.ts).
THEOREM SwapFavours ==
    ASSUME NEW s, ClmmOK(s), NEW a \in Nat, NEW forward \in BOOLEAN, NEW whole, whole = swap(s, a, forward)
    PROVE  /\ Settles(s, a, forward, whole)
           /\ WindowKnows(s, a, forward, whole)
           /\ NoGainBack(s, a, forward, whole)
           /\ NoGainSplit(s, a, forward, whole)
  <1>1. Settles(s, a, forward, whole)
    BY SwapSettles
  <1>2. WindowKnows(s, a, forward, whole)
    <2>1. ASSUME NEW n \in 0..2
          PROVE  ~swap(Window(s, n), a, forward).exhausted
                     => swap(Window(s, n), a, forward).out <= whole.out
      <3>1. n \in Nat
        OBVIOUS
      <3> QED
        BY <3>1, WindowOK
    <2> QED
      BY <2>1 DEF WindowKnows
  <1>3. NoGainBack(s, a, forward, whole)
    <2>1. ASSUME whole.out > 0
          PROVE  swap(After(s, whole), whole.out, ~forward).out <= a - whole.remaining
      <3>1. (~forward) \in BOOLEAN /\ (~forward) # forward
        OBVIOUS
      <3> QED
        BY <2>1, <3>1, BackOK
    <2> QED
      BY <2>1 DEF NoGainBack
  <1>4. NoGainSplit(s, a, forward, whole)
    <2>1. ASSUME NEW b \in Trades, b < a
          PROVE  swap(s, b, forward).out + swap(After(s, swap(s, b, forward)), a - b, forward).out <= whole.out
      <3>1. b \in Nat /\ a - b \in Nat /\ b + (a - b) = a
        BY <2>1, NumbersAssumption DEF NumbersAssumption
      <3> DEFINE c == a - b
      <3>2. whole = swap(s, b + c, forward)
        BY <3>1
      <3> HIDE DEF c
      <3>3. swap(s, b, forward).out + swap(After(s, swap(s, b, forward)), c, forward).out <= whole.out
        <4>1. b \in Nat /\ c \in Nat
          BY <3>1 DEF c
        <4> QED
          BY <3>2, <4>1, SplitOK
      <3> QED
        BY <3>3 DEF c
    <2> QED
      BY <2>1 DEF NoGainSplit
  <1> QED
    BY <1>1, <1>2, <1>3, <1>4

\* Whatever was traded and minted, the swaps of every concentrated pool favour the pool,
\* whether the quote is computed on all of its ticks or on some
\* (quote of concentrated-liquidity.ts, loadPools of environment.ts).
THEOREM PoolsFavoured == Spec => []SwapFavoursThePool
  <1>1. PoolsInv => SwapFavoursThePool
    <2> SUFFICES ASSUME PoolsInv,
                        NEW p \in {q \in PoolIds : Pairs[q].kind = "clmm"},
                        NEW a \in Trades, NEW forward \in BOOLEAN,
                        NEW whole, whole = swap(pool[p], a, forward)
                 PROVE  /\ Settles(pool[p], a, forward, whole)
                        /\ WindowKnows(pool[p], a, forward, whole)
                        /\ NoGainBack(pool[p], a, forward, whole)
                        /\ NoGainSplit(pool[p], a, forward, whole)
      BY DEF SwapFavoursThePool
    <2>1. ClmmOK(pool[p])
      BY Kinds DEF PoolsInv, PoolsOK
    <2>2. a \in Nat
      BY NumbersAssumption DEF NumbersAssumption
    <2> QED
      BY <2>1, <2>2, SwapFavours
  <1> QED
    BY <1>1, PoolsStayOK, PTL

-----------------------------------------------------------------------------
(* One leg.                                                                *)

\* What a pool answers is an amount, or nothing.
Answers(pools) ==
    /\ \A p \in PoolIds, t \in AllTokens, a \in Nat \ {0} : Output(pools[p], p, t, a) \in Nat \cup {None}
    /\ \A p \in PoolIds : Pairs[p].kind = "clmm" => pools[p].price \in Nat \ {0}

\* ... when it is in a state it can be in.
LEMMA AnswersOK ==
    ASSUME NEW pools, PoolsOK(pools)
    PROVE  Answers(pools)
  <1>1. ASSUME NEW p \in PoolIds, NEW t, NEW a \in Nat \ {0}
        PROVE  Output(pools[p], p, t, a) \in Nat \cup {None}
    BY OutputIs DEF PoolsOK
  <1>2. ASSUME NEW p \in PoolIds, Pairs[p].kind = "clmm" PROVE pools[p].price \in Nat \ {0}
    <2>1. ClmmOK(pools[p])
      BY <1>2, Kinds DEF PoolsOK
    <2> QED
      BY <2>1, ClmmIs DEF PlaceOK, PriceOK
  <1> QED
    BY <1>1, <1>2 DEF Answers

\* A leg through a pool of the chain.
LegFits(c, leg) ==
    /\ leg \in Leg /\ leg.amountOut \in Nat
    /\ Serves(leg.pool, c, leg.in, leg.out)

Quoted1(pools, c, in, out, amount, leg) ==
    /\ amount > 0 /\ LegFits(c, leg) /\ leg.in = in /\ leg.out = out
    /\ leg.amountOut = Output(pools[leg.pool], leg.pool, in, amount)

\* What is quoted of a leg is finitely many, each of a pool that serves it at what the
\* pool gives.
LEMMA LegsQuoted ==
    ASSUME NEW pools, Answers(pools), NEW c \in Chains, NEW in, NEW out, NEW amount \in Nat
    PROVE  /\ IsFiniteSet(quoteLeg(pools, c, in, out, amount))
           /\ \A leg \in quoteLeg(pools, c, in, out, amount) : Quoted1(pools, c, in, out, amount, leg)
  <1> DEFINE P == {p \in PoolIds : amount > 0 /\ Serves(p, c, in, out)}
             Of(p) == [pool |-> p, in |-> in, out |-> out, amountOut |-> Output(pools[p], p, in, amount)]
             f == [p \in P |-> Of(p)]
             All == {Of(p) : p \in P}
             Q == {q \in All : q.amountOut # None}
             From(source) == {q \in Q : Pairs[q.pool].source = source}
  <1>1. quoteLeg(pools, c, in, out, amount) = BestOf(Q)
    BY DEF quoteLeg
  <1>2. IsFiniteSet(Q)
    <2>1. IsFiniteSet(P)
      BY FS_Subset, MarketAssumption DEF MarketAssumption
    <2>2. All = {f[p] : p \in P}
      OBVIOUS
    <2>3. IsFiniteSet({f[p] : p \in P})
      <3> HIDE DEF f, P
      <3> QED
        BY <2>1, ImageFinite
    <2>4. IsFiniteSet(All)
      BY <2>2, <2>3
    <2> HIDE DEF All
    <2> QED
      BY <2>4, FS_Subset
  <1>3. ASSUME NEW leg \in Q PROVE Quoted1(pools, c, in, out, amount, leg)
    <2>1. PICK p \in P : leg = Of(p)
      OBVIOUS
    <2>2. amount > 0 /\ Serves(p, c, in, out) /\ p \in PoolIds
      OBVIOUS
    <2>3. in \in AllTokens /\ out \in AllTokens
      <3>1. Tokens[c] \subseteq AllTokens
        BY DEF AllTokens
      <3>2. in \in Tokens[c] /\ out \in Tokens[c]
        BY <2>2, MarketAssumption DEF MarketAssumption, Serves
      <3> QED
        BY <3>1, <3>2
    <2>4. leg.amountOut \in Nat
      <3>1. leg.amountOut = Output(pools[p], p, in, amount) /\ leg.amountOut # None
        BY <2>1
      <3>2. amount \in Nat \ {0}
        BY <2>2
      <3> QED
        BY <2>2, <2>3, <3>1, <3>2 DEF Answers
    <2> QED
      BY <2>1, <2>2, <2>3, <2>4 DEF Quoted1, LegFits, Leg
  <1>4. BestOf(Q) \subseteq Q
    <2>1. ASSUME NEW source \in {Pairs[q.pool].source : q \in Q}
          PROVE  MaxBy(From(source), AmountOut) \in Q
      <3>1. From(source) # {} /\ From(source) \in SUBSET Q
        OBVIOUS
      <3>2. \A q \in Q : q.amountOut \in Int
        BY <1>3 DEF Quoted1, LegFits
      <3> HIDE DEF From, Q
      <3>3. IsFiniteSet(From(source))
        BY <1>2, <3>1, FS_Subset
      <3>4. MaxBy(From(source), AmountOut) \in From(source)
        BY <3>1, <3>2, <3>3, BestQuote
      <3> QED
        BY <3>1, <3>4
    <2> QED
      BY <2>1 DEF BestOf
  <1> HIDE DEF Q
  <1> QED
    BY <1>1, <1>2, <1>3, <1>4, FS_Subset

-----------------------------------------------------------------------------
(* A chain of legs.                                                        *)

\* One or two legs through pools of a chain, from a token to a token.
Linked(c, in, out, legs) ==
    /\ legs \in Seq(Leg) /\ Len(legs) \in {1, 2}
    /\ \A k \in 1..Len(legs) : LegFits(c, legs[k])
    /\ legs[1].in = in /\ legs[Len(legs)].out = out
    /\ Len(legs) = 2 => legs[1].out = legs[2].in

\* ... each of which was quoted what the pools give for what the one before gives.
Chained(pools, amount, legs) ==
    /\ amount > 0
    /\ legs[1].amountOut = Output(pools[legs[1].pool], legs[1].pool, legs[1].in, amount)
    /\ Len(legs) = 2 =>
           /\ legs[1].amountOut > 0
           /\ legs[2].amountOut = Output(pools[legs[2].pool], legs[2].pool, legs[2].in, legs[1].amountOut)

\* What is held after each leg, from the amount to what the chain gives.
Hands(pools, legs, amount, after) ==
    /\ Through(pools, legs, amount) = after[Len(legs)]
    /\ after[0] = amount
    /\ \A k \in 1..Len(legs) :
          after[k] = IF after[k - 1] = None \/ after[k - 1] <= 0 THEN None
                     ELSE Output(pools[legs[k].pool], legs[k].pool, legs[k].in, after[k - 1])

\* The function Through computes exists.
LEMMA ThroughIs ==
    ASSUME NEW pools, NEW legs \in Seq(Leg), NEW amount
    PROVE  \E after : Hands(pools, legs, amount, after)
  <1> DEFINE Given(given, k) == IF given = None \/ given <= 0 THEN None
                                ELSE Output(pools[legs[k].pool], legs[k].pool, legs[k].in, given)
             Step(f, k) == IF k = 0 THEN amount ELSE Given(f[k - 1], k)
             Good(n) == \E f : f = [k \in 0..n |-> Step(f, k)]
             Bad == {n \in Nat : ~Good(n)}
  <1>1. Good(0)
    <2> DEFINE f == [k \in 0..0 |-> amount]
    <2>1. f = [k \in 0..0 |-> Step(f, k)]
      <3>1. \A k \in 0..0 : k = 0
        OBVIOUS
      <3> QED
        BY <3>1
    <2> QED
      BY <2>1
  <1>2. ASSUME NEW n \in Nat, n # 0, Good(n - 1) PROVE Good(n)
    <2>1. PICK f : f = [k \in 0..(n - 1) |-> Step(f, k)]
      BY <1>2
    <2> DEFINE D == 0..(n - 1)
               E == 0..n
               g == [k \in E |-> IF k \in D THEN f[k] ELSE Given(f[k - 1], k)]
    <2>2. \A k \in E : k # 0 => k - 1 \in D /\ k - 1 \in E
      BY <1>2
    <2>3. 0 \in D /\ D \subseteq E
      BY <1>2
    <2> HIDE DEF D, E, Given
    <2>4. \A k \in D : g[k] = f[k] /\ f[k] = Step(f, k)
      BY <2>1, <2>3 DEF D
    <2>5. \A k \in E : g[k] = Step(g, k)
      <3> SUFFICES ASSUME NEW k \in E PROVE g[k] = Step(g, k)
        OBVIOUS
      <3>1. CASE k = 0
        BY <2>3, <2>4, <3>1
      <3>2. CASE k # 0
        <4>1. g[k - 1] = f[k - 1]
          BY <2>2, <2>4, <3>2
        <4>2. g[k] = Given(f[k - 1], k)
          BY <2>4, <3>2
        <4> QED
          BY <3>2, <4>1, <4>2
      <3> QED
        BY <3>1, <3>2
    <2>6. g = [k \in E |-> Step(g, k)]
      BY <2>5
    <2> QED
      BY <2>6 DEF E
  <1>3. Bad = {}
    <2>1. SUFFICES ASSUME Bad # {} PROVE FALSE
      OBVIOUS
    <2> HIDE DEF Good
    <2>2. PICK n \in Bad : \A m \in Bad : n <= m
      <3>1. Bad \in SUBSET Nat
        OBVIOUS
      <3> HIDE DEF Bad
      <3> QED
        BY <2>1, <3>1, Least
    <2>3. n # 0 /\ n - 1 \in Nat
      BY <1>1, <2>2
    <2>4. n - 1 \notin Bad
      <3>1. n \in Nat
        BY <2>2
      <3> HIDE DEF Bad
      <3> QED
        BY <2>2, <2>3, <3>1
    <2> QED
      BY <1>2, <2>2, <2>3, <2>4
  <1>4. Good(Len(legs))
    <2> HIDE DEF Good
    <2> QED
      BY <1>3
  <1>5. \E f : f = [k \in 0..Len(legs) |-> Step(f, k)]
    BY <1>4
  <1> DEFINE after == CHOOSE f : f = [k \in 0..Len(legs) |-> Step(f, k)]
  <1>6. after = [k \in 0..Len(legs) |-> Step(after, k)]
    BY <1>5
  <1>7. Through(pools, legs, amount) = after[Len(legs)]
    BY DEF Through
  <1> HIDE DEF after
  <1>8. /\ after[0] = amount
        /\ \A k \in 1..Len(legs) : after[k] = Given(after[k - 1], k)
    <2> HIDE DEF Given
    <2>1. Len(legs) \in Nat
      OBVIOUS
    <2>2. 0 \in 0..Len(legs) /\ \A k \in 1..Len(legs) : k # 0 /\ k \in 0..Len(legs)
      BY <2>1
    <2> QED
      BY <1>6, <2>2
  <1> QED
    BY <1>7, <1>8 DEF Hands

\* Two chains over the same pools, from the same token, meet the same tokens and
\* end in the same.
LEMMA SameTokens ==
    ASSUME NEW c, NEW in, NEW out, NEW end, NEW legs, NEW others,
           Linked(c, in, out, legs), Linked(c, in, end, others), Route(legs) = Route(others)
    PROVE  /\ Len(legs) = Len(others) /\ out = end
           /\ \A k \in 1..Len(legs) : legs[k].pool = others[k].pool /\ legs[k].in = others[k].in
  <1>1. legs \in Seq(Leg) /\ others \in Seq(Leg)
    BY DEF Linked
  <1>2. Len(legs) = Len(others)
    <2>1. DOMAIN Route(legs) = DOMAIN legs /\ DOMAIN Route(others) = DOMAIN others
      BY DEF Route
    <2>2. DOMAIN legs = 1..Len(legs) /\ DOMAIN others = 1..Len(others)
      BY <1>1
    <2>3. Len(legs) \in {1, 2} /\ Len(others) \in {1, 2}
      BY DEF Linked
    <2>4. 1..Len(legs) = 1..Len(others)
      BY <2>1, <2>2
    <2>5. 2 \in 1..Len(legs) <=> 2 \in 1..Len(others)
      BY <2>4
    <2>6. \A n \in {1, 2} : 2 \in 1..n <=> n = 2
      OBVIOUS
    <2>7. (Len(legs) = 2) <=> (Len(others) = 2)
      BY <2>3, <2>5, <2>6
    <2> QED
      BY <2>3, <2>7
  <1>3. \A k \in 1..Len(legs) : legs[k].pool = others[k].pool
    BY <1>1, <1>2 DEF Route
  <1>4. legs[1].in = others[1].in
    BY DEF Linked
  <1>5. ASSUME NEW k \in 1..Len(legs), legs[k].in = others[k].in
        PROVE  legs[k].out = others[k].out
    <2>1. LegFits(c, legs[k]) /\ LegFits(c, others[k]) /\ legs[k].pool = others[k].pool
      BY <1>2, <1>3 DEF Linked
    <2> QED
      BY <1>5, <2>1 DEF LegFits, Serves
  <1>6. CASE Len(legs) = 1
    <2>1. legs[1].out = out /\ others[1].out = end /\ 1 \in 1..Len(legs)
      BY <1>2, <1>6 DEF Linked
    <2> QED
      BY <1>2, <1>3, <1>4, <1>5, <1>6, <2>1
  <1>7. CASE Len(legs) = 2
    <2>1. /\ legs[1].out = legs[2].in /\ others[1].out = others[2].in
          /\ legs[2].out = out /\ others[2].out = end /\ 1 \in 1..Len(legs) /\ 2 \in 1..Len(legs)
      BY <1>2, <1>7 DEF Linked
    <2>2. legs[2].in = others[2].in
      BY <1>4, <1>5, <2>1
    <2>3. out = end
      BY <1>5, <2>1, <2>2
    <2>4. \A k \in 1..Len(legs) : k = 1 \/ k = 2
      BY <1>7
    <2> QED
      BY <1>2, <1>3, <1>4, <2>2, <2>3, <2>4
  <1> QED
    BY <1>6, <1>7 DEF Linked

\* So they give the same, and that is what the legs were quoted.
LEMMA ThroughRoute ==
    ASSUME NEW pools, NEW c, NEW in, NEW out, NEW legs, NEW others, NEW amount \in Nat,
           Linked(c, in, out, legs), Linked(c, in, out, others), Route(legs) = Route(others),
           Chained(pools, amount, legs)
    PROVE  Through(pools, others, amount) = Gives(legs)
  <1>1. legs \in Seq(Leg) /\ others \in Seq(Leg) /\ Len(legs) \in {1, 2}
    BY DEF Linked
  <1>2. /\ Len(legs) = Len(others)
        /\ \A k \in 1..Len(legs) : legs[k].pool = others[k].pool /\ legs[k].in = others[k].in
    BY SameTokens
  <1>3. PICK after : Hands(pools, others, amount, after)
    BY <1>1, ThroughIs
  <1>4. amount # None /\ ~(amount <= 0) /\ \A k \in 1..Len(legs) : legs[k].amountOut \in Nat /\ legs[k].amountOut # None
    BY NoneAssumption DEF NoneAssumption, Chained, Linked, LegFits
  <1>5. after[1] = legs[1].amountOut
    <2>1. 1 \in 1..Len(others) /\ 1 - 1 = 0
      BY <1>1, <1>2
    <2>2. after[1] = Output(pools[others[1].pool], others[1].pool, others[1].in, amount)
      BY <1>3, <1>4, <2>1 DEF Hands
    <2> QED
      BY <1>2, <2>1, <2>2 DEF Chained
  <1>6. CASE Len(legs) = 1
    BY <1>2, <1>3, <1>5, <1>6 DEF Gives, Hands
  <1>7. CASE Len(legs) = 2
    <2>1. 2 \in 1..Len(others) /\ 2 - 1 = 1
      BY <1>2, <1>7
    <2>2. legs[1].amountOut > 0 /\ legs[1].amountOut # None /\ legs[1].amountOut \in Nat
      BY <1>4, <1>7 DEF Chained
    <2>3. after[2] = Output(pools[others[2].pool], others[2].pool, others[2].in, legs[1].amountOut)
      BY <1>3, <1>5, <2>1, <2>2 DEF Hands
    <2>4. after[2] = legs[2].amountOut
      BY <1>2, <1>7, <2>1, <2>3 DEF Chained
    <2> QED
      BY <1>2, <1>3, <1>7, <2>4 DEF Gives, Hands
  <1> QED
    BY <1>1, <1>6, <1>7

\* With nothing to go through the amount is what it was.
LEMMA ThroughNothing ==
    ASSUME NEW pools, NEW amount PROVE Through(pools, <<>>, amount) = amount
  <1>1. <<>> \in Seq(Leg) /\ Len(<<>>) = 0
    OBVIOUS
  <1>2. PICK after : Hands(pools, <<>>, amount, after)
    BY <1>1, ThroughIs
  <1> QED
    BY <1>1, <1>2 DEF Hands

-----------------------------------------------------------------------------
(* A search for a path.                                                    *)

\* The sum of naturals is one.
LEMMA SumNat ==
    ASSUME NEW S, IsFiniteSet(S), NEW f \in [S -> Nat]
    PROVE  SumFunction(f) \in Nat
  <1>1. PICK g : Totals(g, f, S)
    <2>1. f \in [S -> Int]
      OBVIOUS
    <2> QED
      BY <2>1, Summed
  <1>2. \A s \in SUBSET S : g[s] = IF s = {} THEN 0 ELSE f[Pick(s)] + g[s \ {Pick(s)}]
    BY <1>1 DEF Totals, Sums
  <1> DEFINE B == {s \in SUBSET S : g[s] \notin Nat}
  <1>3. B = {}
    <2>1. SUFFICES ASSUME B # {} PROVE FALSE
      OBVIOUS
    <2>2. PICK s \in B : \A x \in s : s \ {x} \notin B
      <3>1. B \in SUBSET SUBSET S
        OBVIOUS
      <3> HIDE DEF B
      <3> QED
        BY <2>1, <3>1, Smallest
    <2>3. s # {}
      <3>1. g[{}] = 0
        BY <1>2
      <3>2. g[s] \notin Nat
        BY <2>2
      <3> HIDE DEF B
      <3> QED
        BY <3>1, <3>2
    <2>4. Pick(s) \in s /\ s \ {Pick(s)} \in SUBSET S
      BY <2>2, <2>3 DEF Pick
    <2>5. g[s \ {Pick(s)}] \in Nat
      BY <2>2, <2>4
    <2>6. f[Pick(s)] \in Nat
      BY <2>2, <2>4
    <2>7. g[s] = f[Pick(s)] + g[s \ {Pick(s)}]
      BY <1>2, <2>2, <2>3
    <2> QED
      BY <2>2, <2>5, <2>6, <2>7
  <1> QED
    BY <1>1, <1>3 DEF Totals, SumFunction

\* The pools of a chain of legs.
LEMMA RouteIs ==
    ASSUME NEW legs \in Seq(Leg)
    PROVE  Route(legs) \in [1..Len(legs) -> PoolIds] /\ Len(legs) \in Nat
  <1>1. \A leg \in Leg : leg.pool \in PoolIds
    BY DEF Leg
  <1>2. DOMAIN legs = 1..Len(legs) /\ Len(legs) \in Nat /\ \A k \in 1..Len(legs) : legs[k] \in Leg
    OBVIOUS
  <1>3. \A k \in 1..Len(legs) : legs[k].pool \in PoolIds
    BY <1>1, <1>2
  <1> QED
    BY <1>2, <1>3 DEF Route

\* What a route's gas adds up to.
LEMMA GasCounts ==
    ASSUME NEW n \in Nat, NEW route \in [1..n -> PoolIds]
    PROVE  SwapGas(route) \in Nat \cup {None} /\ GasOfRoute(route) \in Nat \cup {None}
  <1>1. \A p \in PoolIds \cup {"payout"} : GasOf[p] \in Nat \cup {None}
    BY NumbersAssumption DEF NumbersAssumption
  <1> DEFINE gas == [k \in 1..n |-> GasOf[route[k]]]
  <1>2. SwapGas(route) \in Nat \cup {None}
    <2>1. CASE \E k \in 1..n : GasOf[route[k]] = None
      BY <2>1 DEF SwapGas
    <2>2. CASE \A k \in 1..n : GasOf[route[k]] # None
      <3>1. gas \in [1..n -> Nat]
        BY <1>1, <2>2
      <3>2. IsFiniteSet(1..n)
        BY FS_Interval
      <3>3. SwapGas(route) = SumFunction(gas)
        BY <2>2 DEF SwapGas
      <3> HIDE DEF gas
      <3> QED
        BY <3>1, <3>2, <3>3, SumNat
    <2> QED
      BY <2>1, <2>2
  <1> QED
    BY <1>1, <1>2 DEF GasOfRoute

\* A rate gas can be priced at.
GoodRate(rate) == rate \in [num : Nat, den : Nat \ {0}]

\* Gas at a good rate costs a natural number.
LEMMA CostNat ==
    ASSUME NEW price \in Nat, NEW gas \in Nat, NEW rate, GoodRate(rate)
    PROVE  gasCostIn(price, rate, gas) \in Nat
  <1>1. rate.num \in Nat /\ rate.den \in Nat \ {0}
    BY DEF GoodRate
  <1>2. gas * price \in Nat
    OBVIOUS
  <1>3. \A a, b \in Nat : a * b \in Nat
    OBVIOUS
  <1>4. (gas * price) * rate.num \in Nat
    BY <1>1, <1>2, <1>3
  <1>5. \A a \in Nat, d \in Nat \ {0} : a \div d \in Nat
    OBVIOUS
  <1> QED
    BY <1>1, <1>4, <1>5 DEF gasCostIn, mulDiv

\* The candidates that are kept are some of them.
LEMMA Shortlisted ==
    ASSUME NEW C, IsFiniteSet(C), \A legs \in C : Gives(legs) \in Int
    PROVE  Shortlist(C) \in SUBSET C
  <1> DEFINE Right(S) == /\ Cardinality(S) = MEASURED_PATH_LIMIT \/ S = C
                         /\ Cardinality(S) <= MEASURED_PATH_LIMIT
                         /\ \A s \in S, o \in C \ S : Gives(s) >= Gives(o)
  <1>1. MEASURED_PATH_LIMIT \in Nat /\ Cardinality(C) \in Nat
    BY NumbersAssumption, FS_CardinalityType DEF NumbersAssumption
  <1>2. \E S \in SUBSET C : Right(S)
    <2>1. CASE Cardinality(C) <= MEASURED_PATH_LIMIT
      <3>1. Right(C)
        BY <2>1
      <3> QED
        BY <3>1
    <2>2. CASE MEASURED_PATH_LIMIT <= Cardinality(C)
      <3> DEFINE g == [legs \in C |-> Gives(legs)]
      <3>1. g \in [C -> Int]
        OBVIOUS
      <3>2. \A legs \in C : g[legs] = Gives(legs)
        OBVIOUS
      <3> HIDE DEF g
      <3>3. PICK S \in SUBSET C :
                  /\ Cardinality(S) = MEASURED_PATH_LIMIT
                  /\ \A s \in S, o \in C \ S : g[s] >= g[o]
        BY <1>1, <2>2, <3>1, Greatest
      <3>4. Right(S)
        BY <1>1, <3>2, <3>3
      <3> QED
        BY <3>4
    <2> QED
      BY <1>1, <2>1, <2>2
  <1>3. Shortlist(C) = CHOOSE S \in SUBSET C : Right(S)
    BY DEF Shortlist
  <1> HIDE DEF Right
  <1> QED
    BY <1>2, <1>3

\* Every candidate is a chain of legs as the pools quote them.
Candidate(pools, c, in, out, amount, legs) ==
    Linked(c, in, out, legs) /\ Chained(pools, amount, legs) /\ Gives(legs) \in Nat

\* The direct legs are candidates.
LEMMA DirectOK ==
    ASSUME NEW pools, Answers(pools), NEW c \in Chains, NEW in, NEW out, NEW amount \in Nat
    PROVE  /\ IsFiniteSet(Direct(pools, c, in, out, amount))
           /\ \A legs \in Direct(pools, c, in, out, amount) : Candidate(pools, c, in, out, amount, legs)
  <1> DEFINE Q == quoteLeg(pools, c, in, out, amount)
             f == [leg \in Q |-> <<leg>>]
  <1>1. IsFiniteSet(Q) /\ \A leg \in Q : Quoted1(pools, c, in, out, amount, leg)
    BY LegsQuoted
  <1>2. Direct(pools, c, in, out, amount) = {f[leg] : leg \in Q}
    BY DEF Direct
  <1>3. ASSUME NEW leg \in Q PROVE Candidate(pools, c, in, out, amount, <<leg>>)
    <2>1. /\ amount > 0 /\ LegFits(c, leg) /\ leg.in = in /\ leg.out = out
          /\ leg.amountOut = Output(pools[leg.pool], leg.pool, in, amount)
      BY <1>1 DEF Quoted1
    <2>2. leg \in Leg /\ leg.amountOut \in Nat
      BY <2>1 DEF LegFits
    <2> DEFINE legs == <<leg>>
    <2>3. legs \in Seq(Leg) /\ Len(legs) = 1 /\ legs[1] = leg
      BY <2>2
    <2> HIDE DEF legs
    <2>4. Linked(c, in, out, legs)
      BY <2>1, <2>3 DEF Linked
    <2>5. Chained(pools, amount, legs)
      BY <2>1, <2>3 DEF Chained
    <2>6. Gives(legs) \in Nat
      BY <2>2, <2>3 DEF Gives
    <2> QED
      BY <2>4, <2>5, <2>6 DEF Candidate, legs
  <1>4. \A leg \in Q : f[leg] = <<leg>>
    OBVIOUS
  <1> HIDE DEF f, Q
  <1>5. IsFiniteSet({f[leg] : leg \in Q})
    BY <1>1, ImageFinite
  <1> QED
    BY <1>2, <1>3, <1>4, <1>5

\* ... through a hub too.
SecondLegs(pools, c, hub, out, first) ==
    {<<first, second>> : second \in quoteLeg(pools, c, hub, out, first.amountOut)}
ThroughHub(pools, c, in, out, amount, hub) ==
    UNION {SecondLegs(pools, c, hub, out, first) : first \in quoteLeg(pools, c, in, hub, amount)}

\* Two legs of which the second is quoted what the first gives are a candidate.
LEMMA SecondOK ==
    ASSUME NEW pools, Answers(pools), NEW c \in Chains, NEW in, NEW hub, NEW out, NEW amount \in Nat,
           NEW first, Quoted1(pools, c, in, hub, amount, first)
    PROVE  /\ IsFiniteSet(SecondLegs(pools, c, hub, out, first))
           /\ \A legs \in SecondLegs(pools, c, hub, out, first) : Candidate(pools, c, in, out, amount, legs)
  <1> DEFINE Q == quoteLeg(pools, c, hub, out, first.amountOut)
             f == [second \in Q |-> <<first, second>>]
  <1>1. /\ amount > 0 /\ LegFits(c, first) /\ first.in = in /\ first.out = hub
        /\ first.amountOut = Output(pools[first.pool], first.pool, in, amount)
        /\ first \in Leg /\ first.amountOut \in Nat
    BY DEF Quoted1, LegFits
  <1>2. IsFiniteSet(Q) /\ \A second \in Q : Quoted1(pools, c, hub, out, first.amountOut, second)
    BY <1>1, LegsQuoted
  <1>3. SecondLegs(pools, c, hub, out, first) = {f[second] : second \in Q}
    BY DEF SecondLegs
  <1>4. ASSUME NEW second \in Q PROVE Candidate(pools, c, in, out, amount, <<first, second>>)
    <2>1. /\ first.amountOut > 0 /\ LegFits(c, second) /\ second.in = hub /\ second.out = out
          /\ second.amountOut = Output(pools[second.pool], second.pool, hub, first.amountOut)
      BY <1>2 DEF Quoted1
    <2>2. second \in Leg /\ second.amountOut \in Nat
      BY <2>1 DEF LegFits
    <2> DEFINE legs == <<first, second>>
    <2>3. legs \in Seq(Leg) /\ Len(legs) = 2 /\ legs[1] = first /\ legs[2] = second
      BY <1>1, <2>2
    <2> HIDE DEF legs, Q
    <2>4. Linked(c, in, out, legs)
      <3>1. \A k \in 1..Len(legs) : k = 1 \/ k = 2
        BY <2>3
      <3>2. \A k \in 1..Len(legs) : LegFits(c, legs[k])
        BY <1>1, <2>1, <2>3, <3>1
      <3> QED
        BY <1>1, <2>1, <2>3, <3>2 DEF Linked
    <2>5. Chained(pools, amount, legs)
      BY <1>1, <2>1, <2>3 DEF Chained
    <2>6. Gives(legs) \in Nat
      BY <2>2, <2>3 DEF Gives
    <2> QED
      BY <2>4, <2>5, <2>6 DEF Candidate, legs
  <1>5. \A second \in Q : f[second] = <<first, second>>
    OBVIOUS
  <1> HIDE DEF f, Q
  <1>6. IsFiniteSet({f[second] : second \in Q})
    BY <1>2, ImageFinite
  <1> QED
    BY <1>3, <1>4, <1>5, <1>6

\* So are all the ways through a hub.
LEMMA ThroughHubOK ==
    ASSUME NEW pools, Answers(pools), NEW c \in Chains, NEW in, NEW hub, NEW out, NEW amount \in Nat
    PROVE  /\ IsFiniteSet(ThroughHub(pools, c, in, out, amount, hub))
           /\ \A legs \in ThroughHub(pools, c, in, out, amount, hub) : Candidate(pools, c, in, out, amount, legs)
  <1> DEFINE Q == quoteLeg(pools, c, in, hub, amount)
             f == [first \in Q |-> SecondLegs(pools, c, hub, out, first)]
             F == {f[first] : first \in Q}
  <1>1. IsFiniteSet(Q) /\ \A first \in Q : Quoted1(pools, c, in, hub, amount, first)
    BY LegsQuoted
  <1>2. ThroughHub(pools, c, in, out, amount, hub) = UNION F
    BY DEF ThroughHub
  <1>3. \A first \in Q : f[first] = SecondLegs(pools, c, hub, out, first)
    OBVIOUS
  <1> HIDE DEF f, Q
  <1>4. IsFiniteSet(F)
    BY <1>1, ImageFinite
  <1>5. \A S \in F : /\ IsFiniteSet(S)
                     /\ \A legs \in S : Candidate(pools, c, in, out, amount, legs)
    BY <1>1, <1>3, SecondOK
  <1> HIDE DEF F
  <1>6. IsFiniteSet(UNION F)
    BY <1>4, <1>5, FS_UNION
  <1> QED
    BY <1>2, <1>5, <1>6

\* ... and through every hub that can be reached.
LEMMA HoppedOK ==
    ASSUME NEW pools, Answers(pools), NEW c \in Chains, NEW in, NEW out, NEW amount \in Nat
    PROVE  /\ IsFiniteSet(Hopped(pools, c, in, out, amount))
           /\ \A legs \in Hopped(pools, c, in, out, amount) : Candidate(pools, c, in, out, amount, legs)
  <1> DEFINE R == reachable(c, in, out)
             f == [hub \in R |-> ThroughHub(pools, c, in, out, amount, hub)]
             F == {f[hub] : hub \in R}
  <1>1. IsFiniteSet(R)
    <2>1. R \subseteq Hubs[c]
      BY DEF reachable
    <2>2. IsFiniteSet(Hubs[c])
      BY MarketAssumption DEF MarketAssumption
    <2> QED
      BY <2>1, <2>2, FS_Subset
  <1>2. Hopped(pools, c, in, out, amount) = UNION F
    BY DEF Hopped, ThroughHub, SecondLegs
  <1>3. \A hub \in R : f[hub] = ThroughHub(pools, c, in, out, amount, hub)
    OBVIOUS
  <1> HIDE DEF f, R
  <1>4. IsFiniteSet(F)
    BY <1>1, ImageFinite
  <1>5. \A S \in F : /\ IsFiniteSet(S)
                     /\ \A legs \in S : Candidate(pools, c, in, out, amount, legs)
    BY <1>3, ThroughHubOK
  <1> HIDE DEF F
  <1>6. IsFiniteSet(UNION F)
    BY <1>4, <1>5, FS_UNION
  <1> QED
    BY <1>2, <1>5, <1>6

\* What the search answers.
MeasuredGas(legs, measured) == IF measured THEN GasOfRoute(Route(legs)) ELSE 0

Found(pools, c, in, out, amount, price, rate, measured, path) ==
    /\ path = [legs |-> path.legs, amountOut |-> path.amountOut, gasCost |-> path.gasCost]
    /\ Candidate(pools, c, in, out, amount, path.legs)
    /\ path.amountOut = Gives(path.legs)
    /\ MeasuredGas(path.legs, measured) \in Nat
    /\ path.gasCost = gasCostIn(price, rate, MeasuredGas(path.legs, measured))
    /\ path.gasCost \in Nat

\* A search finds nothing, or a path that is what its legs give and cost.
LEMMA PathFound ==
    ASSUME NEW pools, Answers(pools), NEW c \in Chains, NEW in, NEW out, NEW amount \in Nat,
           NEW price \in Nat, NEW rate, GoodRate(rate), NEW measured \in BOOLEAN
    PROVE  \/ findPaths(pools, c, in, out, amount, price, rate, measured) = None
           \/ Found(pools, c, in, out, amount, price, rate, measured,
                    findPaths(pools, c, in, out, amount, price, rate, measured))
  <1> DEFINE C == Direct(pools, c, in, out, amount) \cup Hopped(pools, c, in, out, amount)
             K == {legs \in Shortlist(C) : MeasuredGas(legs, measured) # None}
             Of(legs) == [legs |-> legs, amountOut |-> Gives(legs),
                          gasCost |-> gasCostIn(price, rate, MeasuredGas(legs, measured))]
             f == [legs \in K |-> Of(legs)]
             F == {f[legs] : legs \in K}
  <1>1. IsFiniteSet(C) /\ \A legs \in C : Candidate(pools, c, in, out, amount, legs)
    <2>1. /\ IsFiniteSet(Direct(pools, c, in, out, amount))
          /\ \A legs \in Direct(pools, c, in, out, amount) : Candidate(pools, c, in, out, amount, legs)
      BY DirectOK
    <2>2. /\ IsFiniteSet(Hopped(pools, c, in, out, amount))
          /\ \A legs \in Hopped(pools, c, in, out, amount) : Candidate(pools, c, in, out, amount, legs)
      BY HoppedOK
    <2> QED
      BY <2>1, <2>2, FS_Union
  <1>2. findPaths(pools, c, in, out, amount, price, rate, measured) = BestPath(F)
    <2>1. F = {Of(legs) : legs \in K}
      OBVIOUS
    <2>2. findPaths(pools, c, in, out, amount, price, rate, measured) = BestPath({Of(legs) : legs \in K})
      BY DEF findPaths, MeasuredGas
    <2> QED
      BY <2>1, <2>2
  <1>3. \A legs \in K : f[legs] = Of(legs)
    OBVIOUS
  <1> HIDE DEF f, C
  <1>4. K \in SUBSET C /\ IsFiniteSet(K)
    <2>1. Shortlist(C) \in SUBSET C
      <3>1. \A legs \in C : Gives(legs) \in Int
        BY <1>1 DEF Candidate
      <3> QED
        BY <1>1, <3>1, Shortlisted
    <2>2. K \in SUBSET C
      BY <2>1
    <2> QED
      BY <1>1, <2>2, FS_Subset
  <1>5. ASSUME NEW legs \in K PROVE Found(pools, c, in, out, amount, price, rate, measured, f[legs])
    <2>1. Candidate(pools, c, in, out, amount, legs)
      BY <1>1, <1>4
    <2>2. MeasuredGas(legs, measured) \in Nat
      <3>1. MeasuredGas(legs, measured) # None
        OBVIOUS
      <3>2. legs \in Seq(Leg)
        BY <2>1 DEF Candidate, Linked
      <3>3. Route(legs) \in [1..Len(legs) -> PoolIds] /\ Len(legs) \in Nat
        BY <3>2, RouteIs
      <3>4. GasOfRoute(Route(legs)) \in Nat \cup {None}
        BY <3>3, GasCounts
      <3> QED
        BY <3>1, <3>4 DEF MeasuredGas
    <2>3. gasCostIn(price, rate, MeasuredGas(legs, measured)) \in Nat
      BY <2>2, CostNat
    <2>4. /\ f[legs] = Of(legs) /\ f[legs].legs = legs /\ f[legs].amountOut = Gives(legs)
          /\ f[legs].gasCost = gasCostIn(price, rate, MeasuredGas(legs, measured))
      BY <1>3
    <2> HIDE DEF K
    <2> QED
      BY <2>1, <2>2, <2>3, <2>4 DEF Found
  <1> HIDE DEF K
  <1>6. IsFiniteSet(F)
    BY <1>4, ImageFinite
  <1>7. \A path \in F : Found(pools, c, in, out, amount, price, rate, measured, path)
    BY <1>5
  <1> HIDE DEF F
  <1>8. CASE F = {}
    BY <1>2, <1>8 DEF BestPath
  <1>9. CASE F # {}
    <2>1. \A path \in F : path.amountOut \in Int /\ path.gasCost \in Int
      BY <1>7 DEF Found, Candidate
    <2>2. MaxBy(F, Net) \in F
      BY <1>6, <1>9, <2>1, BestNet
    <2> QED
      BY <1>2, <1>7, <1>9, <2>2 DEF BestPath
  <1> QED
    BY <1>8, <1>9

-----------------------------------------------------------------------------
(* What gas is priced at.                                                  *)

KnownRate(rate) == rate = None \/ rate = Rejected \/ GoodRate(rate)

RatesOK ==
    /\ rates = [c \in Routers |-> [t \in Tokens[c] |-> rates[c][t]]]
    /\ \A c \in Routers : \A t \in Tokens[c] : KnownRate(rates[c][t])

RatesNow == [c \in Chains |-> [t \in Tokens[c] |-> readGasPricing(c, t)]]

\* The rate a concentrated pool gives is known: a price is positive.
LEMMA ReferenceOK ==
    ASSUME NEW pools, Answers(pools), NEW c, NEW token
    PROVE  KnownRate(ReferenceRate(pools, c, token))
  <1> DEFINE Reference == {p \in PoolIds : Pairs[p].kind = "clmm" /\ Serves(p, c, Native[c], token)}
             p == CHOOSE p \in Reference : TRUE
             squared == pools[p].price * pools[p].price
  <1>1. CASE token = Native[c]
    BY <1>1 DEF ReferenceRate, KnownRate, GoodRate
  <1>2. CASE token # Native[c] /\ Reference = {}
    BY <1>2 DEF ReferenceRate, KnownRate
  <1>3. CASE token # Native[c] /\ Reference # {}
    <2>1. p \in PoolIds /\ Pairs[p].kind = "clmm"
      BY <1>3
    <2>2. \A n \in Nat \ {0} : n * n \in Nat \ {0}
      OBVIOUS
    <2>3. squared \in Nat \ {0}
      <3>1. pools[p].price \in Nat \ {0}
        BY <2>1 DEF Answers
      <3> HIDE DEF p
      <3> QED
        BY <2>2, <3>1
    <2>4. Q96 * Q96 \in Nat \ {0}
      BY <2>2, AmountsAssumption DEF AmountsAssumption
    <2>5. ReferenceRate(pools, c, token) =
              IF Pairs[p].token0 = token THEN [num |-> Q96 * Q96, den |-> squared]
              ELSE [num |-> squared, den |-> Q96 * Q96]
      BY <1>3 DEF ReferenceRate
    <2> HIDE DEF p, squared
    <2> QED
      BY <2>3, <2>4, <2>5 DEF KnownRate, GoodRate
  <1> QED
    BY <1>1, <1>2, <1>3

\* So is the best rate of the routers, or it is a rejection.
LEMMA RouterOK ==
    ASSUME NEW pools, Answers(pools), NEW c \in Chains, NEW token
    PROVE  /\ KnownRate(RouterRate(pools, c, token))
           /\ RouterRate(pools, c, token) # None
  <1> DEFINE Q == quoteLeg(pools, c, Native[c], token, UnitOfNative)
  <1>1. UnitOfNative \in Nat \ {0}
    BY NumbersAssumption DEF NumbersAssumption
  <1>2. IsFiniteSet(Q) /\ \A leg \in Q : leg.amountOut \in Nat
    <2>1. UnitOfNative \in Nat
      BY <1>1
    <2> HIDE DEF Q
    <2> QED
      BY <2>1, LegsQuoted DEF Quoted1, LegFits, Q
  <1>3. None \notin [num : Int, den : Int]
    BY NoneAssumption DEF NoneAssumption
  <1>4. CASE Q = {}
    <2>1. RouterRate(pools, c, token) = Rejected
      BY <1>4 DEF RouterRate
    <2>2. Rejected \in [num : Int, den : Int]
      BY DEF Rejected
    <2> QED
      BY <1>3, <2>1, <2>2 DEF KnownRate
  <1>5. CASE Q # {}
    <2>1. RouterRate(pools, c, token) = [num |-> MaxBy(Q, AmountOut).amountOut, den |-> UnitOfNative]
      BY <1>5 DEF RouterRate
    <2> HIDE DEF Q
    <2>2. MaxBy(Q, AmountOut).amountOut \in Nat
      <3>1. \A leg \in Q : leg.amountOut \in Int
        BY <1>2
      <3>2. MaxBy(Q, AmountOut) \in Q
        BY <1>2, <1>5, <3>1, BestQuote
      <3> QED
        BY <1>2, <3>2
    <2>3. RouterRate(pools, c, token) \in [num : Nat, den : Nat \ {0}]
      BY <1>1, <2>1, <2>2
    <2>4. RouterRate(pools, c, token) \in [num : Int, den : Int]
      BY <2>3
    <2> QED
      BY <1>3, <2>3, <2>4 DEF KnownRate, GoodRate
  <1> QED
    BY <1>4, <1>5

\* The price of gas in a token, read now.
LEMMA ReadOK ==
    ASSUME Answers(pool), RatesOK, NEW c \in Chains, NEW t \in Tokens[c]
    PROVE  KnownRate(readGasPricing(c, t))
  BY ReferenceOK, RouterOK DEF readGasPricing, RatesOK

\* A priced one is good.
LEMMA Good ==
    ASSUME NEW rate, KnownRate(rate), Priceable(rate)
    PROVE  GoodRate(rate)
  BY DEF KnownRate, Priceable

\* Remembering a rate changes none that is read.
LEMMA RatesStay ==
    ASSUME RatesOK, Answers(pool), pool' = pool, NEW c \in Chains, NEW t \in Tokens[c], Remember(c, t)
    PROVE  RatesOK' /\ RatesNow' = RatesNow
  <1> DEFINE read == readGasPricing(c, t)
  <1>1. KnownRate(read)
    BY ReadOK
  <1>2. CASE ~(c \in Routers /\ t # Native[c])
    <2>1. rates' = rates
      BY <1>2 DEF Remember
    <2> QED
      BY <2>1 DEF RatesOK, RatesNow, readGasPricing
  <1>3. CASE c \in Routers /\ t # Native[c]
    <2>1. rates' = [rates EXCEPT ![c][t] = read]
      BY <1>3 DEF Remember
    <2>2. read # None
      BY <1>3, RouterOK DEF readGasPricing
    <2> HIDE DEF read
    <2>3. /\ rates' = [d \in Routers |-> [u \in Tokens[d] |-> rates'[d][u]]]
          /\ rates'[c][t] = read
          /\ \A d \in Routers : \A u \in Tokens[d] : <<d, u>> # <<c, t>> => rates'[d][u] = rates[d][u]
      BY <1>3, <2>1 DEF RatesOK
    <2>4. RatesOK'
      BY <1>1, <2>3 DEF RatesOK
    <2>5. \A d \in Chains : \A u \in Tokens[d] : readGasPricing(d, u)' = readGasPricing(d, u)
      <3> SUFFICES ASSUME NEW d \in Chains, NEW u \in Tokens[d]
                   PROVE  readGasPricing(d, u)' = readGasPricing(d, u)
        OBVIOUS
      <3>1. CASE <<d, u>> = <<c, t>>
        <4>1. readGasPricing(c, t)' = read
          BY <1>3, <2>2, <2>3 DEF readGasPricing
        <4> QED
          BY <3>1, <4>1 DEF read
      <3>2. CASE <<d, u>> # <<c, t>>
        BY <2>3, <3>2 DEF readGasPricing
      <3> QED
        BY <3>1, <3>2
    <2> QED
      BY <2>4, <2>5 DEF RatesNow
  <1> QED
    BY <1>2, <1>3

-----------------------------------------------------------------------------
(* The shape of what is priced.                                            *)

AllOf(i) ==
    IF i.origin = i.destination THEN {None}
    ELSE IF SettlementGas(i.origin) = None THEN {} ELSE shared(i)

Spending(i, asset) == IF asset = None THEN i.tokenIn ELSE HubOf(i.destination, asset)

OriginShape(i, asset, legs) ==
    IF asset = None THEN legs = <<>>
    ELSE /\ RebalanceGas(i.origin, legs) \in Nat
         /\ IF i.tokenIn = HubOf(i.origin, asset) THEN legs = <<>>
            ELSE Linked(i.origin, i.tokenIn, HubOf(i.origin, asset), legs)

PartShape(i, part) ==
    /\ part = [asset |-> part.asset, step |-> part.step, originLegs |-> part.originLegs,
               bridged |-> part.bridged, settlement |-> part.settlement,
               rebalance |-> part.rebalance]
    /\ part.asset \in AllOf(i) /\ part.step \in {"carry", "fill"}
    /\ part.asset = None => part.step = "fill"
    /\ part.bridged \in Nat \ {0} /\ part.settlement \in Nat /\ part.rebalance \in Nat
    /\ OriginShape(i, part.asset, part.originLegs)

LegsShape(i, asset, legs) ==
    IF asset # None /\ Spending(i, asset) = i.tokenOut THEN legs = <<>>
    ELSE Linked(i.destination, Spending(i, asset), i.tokenOut, legs)

PathShape(i, path) ==
    /\ path = [asset |-> path.asset, originLegs |-> path.originLegs, bridged |-> path.bridged,
               legs |-> path.legs, amountOut |-> path.amountOut, gasCost |-> path.gasCost,
               settlement |-> path.settlement, rebalance |-> path.rebalance]
    /\ path.asset \in AllOf(i) /\ path.bridged \in Nat \ {0}
    /\ {path.amountOut, path.gasCost, path.settlement, path.rebalance} \subseteq Nat
    /\ OriginShape(i, path.asset, path.originLegs)
    /\ LegsShape(i, path.asset, path.legs)

\* ... and that the pools still give it.
Carries(i, asset, amount) ==
    IF asset = None THEN amount
    ELSE convertDecimals(amount, Decimals[HubOf(i.origin, asset)], Decimals[HubOf(i.destination, asset)])

LegsGive(pools, amount, legs, result) ==
    IF legs = <<>> THEN result = amount ELSE Chained(pools, amount, legs) /\ result = Gives(legs)

OriginTrue(pools, i, asset, legs, bridged) ==
    \E given \in Nat : LegsGive(pools, i.amount, legs, given) /\ bridged = Carries(i, asset, given)

LegsTrue(pools, i, price, rate, path) ==
    /\ LegsGive(pools, path.bridged, path.legs, path.amountOut)
    /\ path.gasCost = gasCostIn(price, rate, GasOfRoute(Route(path.legs)))

PathTrue(pools, i, price, rate, path) ==
    /\ OriginTrue(pools, i, path.asset, path.originLegs, path.bridged)
    /\ LegsTrue(pools, i, price, rate, path)

-----------------------------------------------------------------------------
(* The steps of a pricing.                                                 *)

\* An asset an intent can go through has a hub on each of its chains.
LEMMA AssetsNamed ==
    ASSUME NEW i \in Intents, NEW asset \in AllOf(i)
    PROVE  /\ i.origin \in Chains /\ i.destination \in Chains
           /\ (asset = None) <=> (i.origin = i.destination)
           /\ asset # None =>
                 /\ HubOf(i.origin, asset) \in Hubs[i.origin]
                 /\ HubOf(i.destination, asset) \in Hubs[i.destination]
                 /\ Asset[HubOf(i.origin, asset)] = asset
                 /\ SettlementGas(i.origin) \in Nat
  <1>1. i.origin \in Chains /\ i.destination \in Chains
    BY IntentsAssumption DEF IntentsAssumption
  <1>2. shared(i) \subseteq Assets
    BY <1>1 DEF shared, Assets
  <1>3. None \notin Assets
    BY NoneAssumption DEF NoneAssumption
  <1>4. (asset = None) <=> (i.origin = i.destination)
    BY <1>2, <1>3 DEF AllOf
  <1>5. ASSUME asset # None
        PROVE  /\ HubOf(i.origin, asset) \in Hubs[i.origin]
               /\ HubOf(i.destination, asset) \in Hubs[i.destination]
               /\ Asset[HubOf(i.origin, asset)] = asset
               /\ SettlementGas(i.origin) \in Nat
    <2>1. asset \in shared(i) /\ SettlementGas(i.origin) # None
      BY <1>4, <1>5 DEF AllOf
    <2>2. GasOf["payout"] \in Nat \cup {None}
      BY NumbersAssumption DEF NumbersAssumption
    <2>3. SettlementGas(i.origin) \in Nat
      BY <2>1, <2>2 DEF SettlementGas
    <2>4. /\ \E t \in Hubs[i.origin] : Asset[t] = asset
          /\ \E t \in Hubs[i.destination] : Asset[t] = asset
      BY <2>1 DEF shared
    <2>5. \A c : (\E t \in Hubs[c] : Asset[t] = asset) =>
                    HubOf(c, asset) \in Hubs[c] /\ Asset[HubOf(c, asset)] = asset
      BY DEF HubOf
    <2> QED
      BY <2>3, <2>4, <2>5
  <1> QED
    BY <1>1, <1>4, <1>5

\* Decimals convert to natural numbers.
LEMMA ConvertNat ==
    ASSUME NEW c \in Chains, NEW d \in Chains, NEW t \in Hubs[c], NEW u \in Hubs[d], NEW amount \in Nat
    PROVE  convertDecimals(amount, Decimals[t], Decimals[u]) \in Nat
  <1> DEFINE a == Decimals[t]
             b == Decimals[u]
  <1>1. /\ a \in Nat /\ b \in Nat
        /\ a <= b => 10 ^ (b - a) \in Nat \ {0}
        /\ b <= a => 10 ^ (a - b) \in Nat \ {0}
    BY DecimalsAssumption DEF DecimalsAssumption
  <1> HIDE DEF a, b
  <1> DEFINE up == 10 ^ (b - a)
             down == 10 ^ (a - b)
  <1>2. convertDecimals(amount, a, b) = IF b >= a THEN amount * up ELSE amount \div down
    BY DEF convertDecimals
  <1>3. (b >= a => up \in Nat \ {0}) /\ (~(b >= a) => down \in Nat \ {0})
    BY <1>1
  <1> HIDE DEF up, down
  <1>4. \A n \in Nat \ {0} : amount * n \in Nat /\ amount \div n \in Nat
    OBVIOUS
  <1>5. convertDecimals(amount, a, b) \in Nat
    BY <1>2, <1>3, <1>4
  <1> QED
    BY <1>5 DEF a, b

\* ... from the origin hub to the destination one.
LEMMA CarriesNat ==
    ASSUME NEW i \in Intents, NEW asset \in AllOf(i), NEW amount \in Nat
    PROVE  Carries(i, asset, amount) \in Nat
  BY AssetsNamed, ConvertNat DEF Carries

\* What the search on the origin answers, or that there is none to make.
OriginFound(pools, i, asset, best) ==
    IF i.tokenIn = HubOf(i.origin, asset)
    THEN best = [legs |-> <<>>, amountOut |-> i.amount]
    ELSE \/ best = None
         \/ /\ Linked(i.origin, i.tokenIn, HubOf(i.origin, asset), best.legs)
            /\ Chained(pools, i.amount, best.legs)
            /\ best.amountOut = Gives(best.legs) /\ best.amountOut \in Nat

\* What the deposit is valued at is what its legs give on the origin.
LEMMA ValuationOK ==
    ASSUME NEW pools, NEW i \in Intents, NEW asset \in AllOf(i), asset # None,
           NEW best, OriginFound(pools, i, asset, best), Valuation(i, asset, best) # None
    PROVE  /\ PartShape(i, Valuation(i, asset, best))
           /\ Valuation(i, asset, best).asset = asset
           /\ Valuation(i, asset, best).step = "carry"
           /\ OriginTrue(pools, i, asset, Valuation(i, asset, best).originLegs,
                         Valuation(i, asset, best).bridged)
  <1> DEFINE part == Valuation(i, asset, best)
             bridged == Carries(i, asset, best.amountOut)
  <1>1. /\ best # None /\ RebalanceGas(i.origin, best.legs) # None /\ ~(bridged <= 0)
        /\ part = Part(asset, "carry", best.legs, bridged)
    BY DEF Valuation, Carries
  <1>2. i.amount \in Nat /\ i.origin \in Chains
    BY IntentsAssumption DEF IntentsAssumption
  <1>3. /\ best.amountOut \in Nat
        /\ LegsGive(pools, i.amount, best.legs, best.amountOut)
        /\ IF i.tokenIn = HubOf(i.origin, asset) THEN best.legs = <<>>
           ELSE Linked(i.origin, i.tokenIn, HubOf(i.origin, asset), best.legs)
    <2>1. CASE i.tokenIn = HubOf(i.origin, asset)
      BY <1>2, <2>1 DEF OriginFound, LegsGive
    <2>2. CASE i.tokenIn # HubOf(i.origin, asset)
      <3>1. /\ Linked(i.origin, i.tokenIn, HubOf(i.origin, asset), best.legs)
            /\ Chained(pools, i.amount, best.legs)
            /\ best.amountOut = Gives(best.legs) /\ best.amountOut \in Nat
        BY <1>1, <2>2 DEF OriginFound
      <3>2. best.legs # <<>>
        BY <3>1 DEF Linked
      <3> QED
        BY <2>2, <3>1, <3>2 DEF LegsGive
    <2> QED
      BY <2>1, <2>2
  <1>4. RebalanceGas(i.origin, best.legs) \in Nat
    <2>1. best.legs \in Seq(Leg)
      <3>1. best.legs = <<>> \/ Linked(i.origin, i.tokenIn, HubOf(i.origin, asset), best.legs)
        BY <1>3
      <3>2. <<>> \in Seq(Leg)
        OBVIOUS
      <3> QED
        BY <3>1, <3>2 DEF Linked
    <2>2. SwapGas(Route(best.legs)) \in Nat \cup {None}
      BY <2>1, RouteIs, GasCounts
    <2> QED
      BY <1>1, <2>2 DEF RebalanceGas
  <1>5. bridged \in Nat \ {0}
    <2>1. bridged \in Nat
      BY <1>3, CarriesNat
    <2> HIDE DEF bridged
    <2> QED
      BY <1>1, <2>1
  <1>6. OriginTrue(pools, i, asset, best.legs, bridged)
    BY <1>3 DEF OriginTrue
  <1> HIDE DEF part, bridged
  <1>7. OriginShape(i, asset, best.legs)
    BY <1>3, <1>4 DEF OriginShape
  <1>8. PartShape(i, part) /\ part.asset = asset /\ part.step = "carry"
        /\ part.originLegs = best.legs /\ part.bridged = bridged
    BY <1>1, <1>5, <1>7 DEF PartShape, Part
  <1> QED
    BY <1>6, <1>8 DEF part

\* On one chain nothing is valued: the deposit is what is spent.
LEMMA LocalOK ==
    ASSUME NEW pools, NEW i \in Intents, None \in AllOf(i)
    PROVE  /\ PartShape(i, Part(None, "fill", <<>>, i.amount))
           /\ OriginTrue(pools, i, None, <<>>, i.amount)
  <1>1. i.amount \in Nat \ {0}
    BY IntentsAssumption DEF IntentsAssumption
  <1> QED
    BY <1>1 DEF PartShape, Part, OriginShape, OriginTrue, LegsGive, Carries

\* A part whose costs were carried over keeps its legs and what it is worth.
LEMMA CarriedOK ==
    ASSUME NEW i \in Intents, NEW part, PartShape(i, part), part.asset # None,
           NEW price \in Nat, NEW rate, GoodRate(rate)
    PROVE  /\ PartShape(i, Carried(i, part, price, rate))
           /\ Carried(i, part, price, rate).asset = part.asset
           /\ Carried(i, part, price, rate).step = "fill"
           /\ Carried(i, part, price, rate).originLegs = part.originLegs
           /\ Carried(i, part, price, rate).bridged = part.bridged
  <1> DEFINE carry(gas) == convertDecimals(gasCostIn(price, rate, gas),
                                      Decimals[HubOf(i.origin, part.asset)],
                                      Decimals[HubOf(i.destination, part.asset)])
             settled == carry(SettlementGas(i.origin))
             moved == carry(RebalanceGas(i.origin, part.originLegs))
  <1>1. part.asset \in AllOf(i)
    BY DEF PartShape
  <1>2. \A gas \in Nat : carry(gas) \in Nat
    BY <1>1, AssetsNamed, ConvertNat, CostNat
  <1>3. SettlementGas(i.origin) \in Nat /\ RebalanceGas(i.origin, part.originLegs) \in Nat
    BY <1>1, AssetsNamed DEF PartShape, OriginShape
  <1>4. settled \in Nat /\ moved \in Nat
    BY <1>2, <1>3
  <1>5. Carried(i, part, price, rate) =
            [part EXCEPT !.step = "fill", !.settlement = settled, !.rebalance = moved]
    BY DEF Carried
  <1> HIDE DEF settled, moved
  <1> QED
    BY <1>4, <1>5 DEF PartShape

\* A route of no legs costs the payout alone.
LEMMA NothingCosts == Route(<<>>) = <<>> /\ (GasOf["payout"] # None => GasOfRoute(<<>>) = GasOf["payout"])
  <1>1. Route(<<>>) = <<>>
    BY DEF Route
  <1>2. GasOf["payout"] \in Nat \cup {None}
    BY NumbersAssumption DEF NumbersAssumption
  <1> DEFINE gas == [k \in DOMAIN <<>> |-> GasOf[<<>>[k]]]
  <1>3. SwapGas(<<>>) = SumFunction(gas)
    BY DEF SwapGas
  <1>4. DOMAIN gas = {} /\ gas \in [{} -> Int] /\ IsFiniteSet({})
    BY FS_EmptySet
  <1> HIDE DEF gas
  <1>5. SumFunction(gas) = 0
    BY <1>4, SumZero
  <1>6. 0 # None
    BY NoneAssumption DEF NoneAssumption
  <1> QED
    BY <1>1, <1>2, <1>3, <1>5, <1>6 DEF GasOfRoute

\* The search on the destination, and what is made of it.
LEMMA MulDivNat ==
    ASSUME NEW a \in Nat, NEW b \in Nat, NEW d \in Nat \ {0}
    PROVE  mulDiv(a, b, d) \in Nat
  <1>1. a * b \in Nat
    OBVIOUS
  <1>2. \A n \in Nat : n \div d \in Nat
    OBVIOUS
  <1> QED
    BY <1>1, <1>2 DEF mulDiv

\* A path on the destination for an amount.
Filling(pools, i, part, price, rate, path) ==
    /\ LegsShape(i, part.asset, path.legs)
    /\ path.amountOut \in Nat /\ path.gasCost \in Nat
    /\ LegsGive(pools, part.bridged, path.legs, path.amountOut)
    /\ path.gasCost = gasCostIn(price, rate, GasOfRoute(Route(path.legs)))

\* The path of a fill is the payout alone or the path a search found.
LEMMA FillingFound ==
    ASSUME NEW pools, Answers(pools), NEW i \in Intents, NEW part, PartShape(i, part),
           NEW price \in Nat, NEW rate, GoodRate(rate),
           FillPath(pools, i, part, price, rate) # None
    PROVE  Filling(pools, i, part, price, rate, FillPath(pools, i, part, price, rate))
  <1> DEFINE path == FillPath(pools, i, part, price, rate)
             in == Spending(i, part.asset)
  <1>1. /\ i.destination \in Chains /\ part.bridged \in Nat /\ part.bridged # 0
    BY IntentsAssumption DEF IntentsAssumption, PartShape
  <1>2. CASE part.asset # None /\ in = i.tokenOut
    <2>1. /\ GasOf["payout"] # None
          /\ path = [legs |-> <<>>, amountOut |-> part.bridged,
                     gasCost |-> gasCostIn(price, rate, GasOf["payout"])]
      BY <1>2 DEF FillPath, Spending
    <2>2. GasOf["payout"] \in Nat
      BY <2>1, NumbersAssumption DEF NumbersAssumption
    <2>3. gasCostIn(price, rate, GasOf["payout"]) \in Nat
      BY <2>2, CostNat
    <2>4. GasOfRoute(Route(<<>>)) = GasOf["payout"]
      BY <2>1, NothingCosts
    <2>5. /\ path.legs = <<>> /\ path.amountOut = part.bridged
          /\ path.gasCost = gasCostIn(price, rate, GasOf["payout"])
      BY <2>1
    <2> HIDE DEF path
    <2>6. path.gasCost = gasCostIn(price, rate, GasOfRoute(Route(path.legs)))
      BY <2>4, <2>5
    <2> QED
      BY <1>1, <1>2, <2>3, <2>5, <2>6 DEF Filling, LegsShape, LegsGive, path
  <1>3. CASE ~(part.asset # None /\ in = i.tokenOut)
    <2>1. path = findPaths(pools, i.destination, in, i.tokenOut, part.bridged, price, rate, TRUE)
      BY <1>3 DEF FillPath, Spending
    <2> HIDE DEF path
    <2>2. Found(pools, i.destination, in, i.tokenOut, part.bridged, price, rate, TRUE, path)
      <3>1. path # None
        BY DEF path
      <3> HIDE DEF in
      <3> QED
        BY <1>1, <2>1, <3>1, PathFound
    <2>3. /\ Linked(i.destination, in, i.tokenOut, path.legs) /\ Chained(pools, part.bridged, path.legs)
          /\ path.amountOut = Gives(path.legs) /\ path.amountOut \in Nat /\ path.gasCost \in Nat
          /\ path.gasCost = gasCostIn(price, rate, GasOfRoute(Route(path.legs)))
      BY <2>2 DEF Found, Candidate, MeasuredGas
    <2>4. path.legs # <<>>
      BY <2>3 DEF Linked
    <2> QED
      BY <1>3, <2>3, <2>4 DEF Filling, LegsShape, LegsGive, path
  <1> QED
    BY <1>2, <1>3

\* ... and a path with the origin's costs restated is the path of the part.
LEMMA BridgedOK ==
    ASSUME NEW pools, NEW i \in Intents, NEW part, PartShape(i, part),
           NEW price, NEW rate, NEW path, Filling(pools, i, part, price, rate, path)
    PROVE  /\ PathShape(i, Bridged(path, part))
           /\ LegsTrue(pools, i, price, rate, Bridged(path, part))
           /\ Bridged(path, part).asset = part.asset
           /\ Bridged(path, part).originLegs = part.originLegs
           /\ Bridged(path, part).bridged = part.bridged
  <1> DEFINE in(x) == IF path.legs = <<>> THEN x ELSE mulDiv(x, path.amountOut, part.bridged)
             settled == in(part.settlement)
             moved == in(part.rebalance)
             whole == Bridged(path, part)
  <1>1. part.bridged \in Nat \ {0} /\ part.settlement \in Nat /\ part.rebalance \in Nat
    BY DEF PartShape
  <1>2. path.amountOut \in Nat /\ path.gasCost \in Nat
    BY DEF Filling
  <1>3. settled \in Nat /\ moved \in Nat
    BY <1>1, <1>2, MulDivNat
  <1>4. whole = [asset |-> part.asset, originLegs |-> part.originLegs, bridged |-> part.bridged,
                 legs |-> path.legs, amountOut |-> path.amountOut, gasCost |-> path.gasCost,
                 settlement |-> settled, rebalance |-> moved]
    BY DEF Bridged
  <1> HIDE DEF settled, moved, whole
  <1>5. PathShape(i, whole)
    BY <1>1, <1>2, <1>3, <1>4 DEF PathShape, PartShape, Filling
  <1>6. LegsTrue(pools, i, price, rate, whole)
    BY <1>4 DEF LegsTrue, Filling
  <1>7. whole.asset = part.asset /\ whole.originLegs = part.originLegs /\ whole.bridged = part.bridged
    BY <1>4
  <1> QED
    BY <1>5, <1>6, <1>7 DEF whole

-----------------------------------------------------------------------------
(* The pricing as a whole, with nothing moving: of an asset, and of some.  *)

OriginRate(R, i, asset) == R[i.origin][HubOf(i.origin, asset)]
FillRate(R, i) == R[i.destination][i.tokenOut]

OriginBest(pools, prices, R, i, asset) ==
    IF i.tokenIn = HubOf(i.origin, asset) THEN [legs |-> <<>>, amountOut |-> i.amount]
    ELSE findPaths(pools, i.origin, i.tokenIn, HubOf(i.origin, asset), i.amount,
                   prices[i.origin], OriginRate(R, i, asset), FALSE)

ValuedAs(pools, prices, R, i, asset) ==
    IF asset = None THEN Part(None, "fill", <<>>, i.amount)
    ELSE Valuation(i, asset, OriginBest(pools, prices, R, i, asset))

CarriedAs(pools, prices, R, i, asset) ==
    IF asset = None THEN ValuedAs(pools, prices, R, i, asset)
    ELSE Carried(i, ValuedAs(pools, prices, R, i, asset), prices[i.origin], OriginRate(R, i, asset))

FilledAs(pools, prices, R, i, asset) ==
    FillPath(pools, i, CarriedAs(pools, prices, R, i, asset), prices[i.destination], FillRate(R, i))

PathsFor(pools, prices, R, i, asset) ==
    IF ValuedAs(pools, prices, R, i, asset) = None \/ FilledAs(pools, prices, R, i, asset) = None
    THEN {}
    ELSE {Bridged(FilledAs(pools, prices, R, i, asset), CarriedAs(pools, prices, R, i, asset))}

PathsOf(pools, prices, R, i, assets) == UNION {PathsFor(pools, prices, R, i, asset) : asset \in assets}

\* Gas could be priced wherever it had to be.
Begun(R, i, asset) ==
    asset # None /\ i.tokenIn # HubOf(i.origin, asset) => Priceable(OriginRate(R, i, asset))
Fine(pools, prices, R, i, asset) ==
    /\ Begun(R, i, asset)
    /\ ValuedAs(pools, prices, R, i, asset) # None =>
           /\ asset # None => Priceable(OriginRate(R, i, asset))
           /\ Priceable(FillRate(R, i))

RatesKnown(R) == \A c \in Chains : \A t \in Tokens[c] : KnownRate(R[c][t])

\* Every rate that can be read is known.
LEMMA RatesRead ==
    ASSUME Answers(pool), RatesOK
    PROVE  RatesKnown(RatesNow)
  BY ReadOK DEF RatesKnown, RatesNow

\* A known rate that can be priced with is good.
LEMMA RatesGood ==
    ASSUME NEW R, RatesKnown(R), NEW i \in Intents, NEW asset \in AllOf(i)
    PROVE  /\ Priceable(FillRate(R, i)) => GoodRate(FillRate(R, i))
           /\ asset # None /\ Priceable(OriginRate(R, i, asset)) => GoodRate(OriginRate(R, i, asset))
  <1>1. i.origin \in Chains /\ i.destination \in Chains /\ i.tokenOut \in Tokens[i.destination]
    BY IntentsAssumption DEF IntentsAssumption
  <1>2. KnownRate(FillRate(R, i))
    BY <1>1 DEF FillRate, RatesKnown
  <1>3. asset # None => KnownRate(OriginRate(R, i, asset))
    <2>1. \A c \in Chains : Hubs[c] \subseteq Tokens[c]
      BY MarketAssumption DEF MarketAssumption
    <2> QED
      BY <1>1, <2>1, AssetsNamed DEF OriginRate, RatesKnown
  <1> QED
    BY <1>2, <1>3, Good

\* The best path on the origin is one that was found there.
LEMMA OriginBestOK ==
    ASSUME NEW pools, Answers(pools), NEW i \in Intents, NEW asset \in AllOf(i), asset # None,
           NEW price \in Nat, NEW rate, GoodRate(rate), i.tokenIn # HubOf(i.origin, asset)
    PROVE  OriginFound(pools, i, asset,
               findPaths(pools, i.origin, i.tokenIn, HubOf(i.origin, asset), i.amount, price, rate, FALSE))
  <1> DEFINE hub == HubOf(i.origin, asset)
             best == findPaths(pools, i.origin, i.tokenIn, hub, i.amount, price, rate, FALSE)
  <1>1. i.origin \in Chains /\ i.amount \in Nat
    BY IntentsAssumption DEF IntentsAssumption
  <1> HIDE DEF hub
  <1>2. best = None \/ Found(pools, i.origin, i.tokenIn, hub, i.amount, price, rate, FALSE, best)
    BY <1>1, PathFound
  <1> HIDE DEF best
  <1>3. best = None \/ /\ Linked(i.origin, i.tokenIn, hub, best.legs)
                       /\ Chained(pools, i.amount, best.legs)
                       /\ best.amountOut = Gives(best.legs) /\ best.amountOut \in Nat
    BY <1>2 DEF Found, Candidate
  <1>4. OriginFound(pools, i, asset, best)
    BY <1>3 DEF OriginFound, hub
  <1> QED
    BY <1>4 DEF best, hub

\* Where gas could be priced, each stage has its shape and is true of the pools.
LEMMA StagesOK ==
    ASSUME NEW pools, Answers(pools), NEW prices \in [Chains -> Nat], NEW R, RatesKnown(R),
           NEW i \in Intents, NEW asset \in AllOf(i), Begun(R, i, asset),
           ValuedAs(pools, prices, R, i, asset) # None
    PROVE  LET valued == ValuedAs(pools, prices, R, i, asset)
               carried == CarriedAs(pools, prices, R, i, asset)
           IN  /\ PartShape(i, valued) /\ valued.asset = asset
               /\ valued.step = IF asset = None THEN "fill" ELSE "carry"
               /\ OriginTrue(pools, i, asset, valued.originLegs, valued.bridged)
               /\ (asset # None => Priceable(OriginRate(R, i, asset))) =>
                      /\ PartShape(i, carried) /\ carried.asset = asset /\ carried.step = "fill"
                      /\ carried.originLegs = valued.originLegs /\ carried.bridged = valued.bridged
  <1> DEFINE valued == ValuedAs(pools, prices, R, i, asset)
             carried == CarriedAs(pools, prices, R, i, asset)
             rate == OriginRate(R, i, asset)
  <1>1. i.origin \in Chains /\ prices[i.origin] \in Nat
    BY IntentsAssumption DEF IntentsAssumption
  <1>2. CASE asset = None
    <2>1. valued = Part(None, "fill", <<>>, i.amount) /\ carried = valued
      BY <1>2 DEF ValuedAs, CarriedAs
    <2>2. valued.asset = None /\ valued.step = "fill" /\ valued.originLegs = <<>> /\ valued.bridged = i.amount
      BY <2>1 DEF Part
    <2> HIDE DEF valued, carried
    <2> QED
      BY <1>2, <2>1, <2>2, LocalOK DEF valued, carried
  <1>3. CASE asset # None
    <2> DEFINE best == OriginBest(pools, prices, R, i, asset)
    <2>1. valued = Valuation(i, asset, best)
          /\ carried = Carried(i, valued, prices[i.origin], rate)
      BY <1>3 DEF ValuedAs, CarriedAs
    <2>2. OriginFound(pools, i, asset, best)
      <3>1. CASE i.tokenIn = HubOf(i.origin, asset)
        BY <3>1 DEF OriginBest, OriginFound
      <3>2. CASE i.tokenIn # HubOf(i.origin, asset)
        <4>1. GoodRate(rate)
          BY <1>3, <3>2, RatesGood DEF Begun
        <4>2. best = findPaths(pools, i.origin, i.tokenIn, HubOf(i.origin, asset), i.amount,
                               prices[i.origin], rate, FALSE)
          BY <3>2 DEF OriginBest
        <4> HIDE DEF best, rate
        <4> QED
          BY <1>1, <1>3, <3>2, <4>1, <4>2, OriginBestOK
      <3> QED
        BY <3>1, <3>2
    <2> HIDE DEF best
    <2>3. valued # None
      OBVIOUS
    <2> HIDE DEF valued, carried
    <2>4. /\ PartShape(i, valued) /\ valued.asset = asset /\ valued.step = "carry"
          /\ OriginTrue(pools, i, asset, valued.originLegs, valued.bridged)
      BY <1>3, <2>1, <2>2, <2>3, ValuationOK
    <2>5. ASSUME Priceable(rate)
          PROVE  /\ PartShape(i, carried) /\ carried.asset = asset /\ carried.step = "fill"
                 /\ carried.originLegs = valued.originLegs /\ carried.bridged = valued.bridged
      <3>1. GoodRate(rate)
        BY <1>3, <2>5, RatesGood
      <3> HIDE DEF rate
      <3> QED
        BY <1>1, <1>3, <2>1, <2>4, <3>1, CarriedOK
    <2> QED
      BY <1>3, <2>4, <2>5 DEF valued, carried
  <1> QED
    BY <1>2, <1>3

\* ... and so is every path.
LEMMA PathsTrue ==
    ASSUME NEW pools, Answers(pools), NEW prices \in [Chains -> Nat], NEW R, RatesKnown(R),
           NEW i \in Intents, NEW asset \in AllOf(i), Fine(pools, prices, R, i, asset),
           NEW path \in PathsFor(pools, prices, R, i, asset)
    PROVE  PathShape(i, path) /\ PathTrue(pools, i, prices[i.destination], FillRate(R, i), path)
  <1> DEFINE valued == ValuedAs(pools, prices, R, i, asset)
             carried == CarriedAs(pools, prices, R, i, asset)
             filled == FilledAs(pools, prices, R, i, asset)
             price == prices[i.destination]
             rate == FillRate(R, i)
  <1>1. valued # None /\ filled # None /\ path = Bridged(filled, carried)
    BY DEF PathsFor
  <1>2. Begun(R, i, asset) /\ (asset # None => Priceable(OriginRate(R, i, asset))) /\ Priceable(rate)
    BY <1>1 DEF Fine
  <1>3. price \in Nat /\ GoodRate(rate)
    BY <1>2, RatesGood, IntentsAssumption DEF IntentsAssumption
  <1>4. filled = FillPath(pools, i, carried, price, rate)
    BY DEF FilledAs
  <1>5. /\ PartShape(i, carried) /\ carried.asset = asset
        /\ OriginTrue(pools, i, asset, carried.originLegs, carried.bridged)
    BY <1>1, <1>2, StagesOK
  <1> HIDE DEF valued, carried, filled, price, rate
  <1>6. Filling(pools, i, carried, price, rate, filled)
    BY <1>1, <1>3, <1>4, <1>5, FillingFound
  <1>7. /\ PathShape(i, path) /\ LegsTrue(pools, i, price, rate, path)
        /\ path.asset = carried.asset /\ path.originLegs = carried.originLegs
        /\ path.bridged = carried.bridged
    BY <1>1, <1>5, <1>6, BridgedOK
  <1>8. PathTrue(pools, i, price, rate, path)
    BY <1>5, <1>7 DEF PathTrue
  <1> QED
    BY <1>7, <1>8 DEF price, rate

-----------------------------------------------------------------------------
(* The price.                                                              *)

\* A wait is worth a natural number of basis points: the root it is taken from is one.
LEMMA RiskNat ==
    ASSUME NEW i \in Intents
    PROVE  RiskOf(i.origin) \in Nat
  <1> DEFINE v == (WaitMs[i.origin] * 1000000) \div HorizonMs
             root == isqrt(v)
  <1>1. WaitMs[i.origin] \in Nat /\ HorizonMs \in Nat \ {0} /\ RiskBps \in Nat
    BY IntentsAssumption, NumbersAssumption DEF IntentsAssumption, NumbersAssumption
  <1>2. \A n \in Nat, d \in Nat \ {0} : n \div d \in Nat
    OBVIOUS
  <1>3. v \in Nat
    BY <1>1, <1>2
  <1> HIDE DEF v
  <1>4. root \in Nat
    BY <1>3, IsqrtIsRoot DEF IsRoot
  <1> HIDE DEF root
  <1>5. RiskBps * root \in Nat
    BY <1>1, <1>4
  <1>6. RiskOf(i.origin) = (RiskBps * root) \div 1000
    BY DEF RiskOf, scaleRiskBps, root, v
  <1> QED
    BY <1>2, <1>5, <1>6

QuoteShape(i, quote) ==
    PathShape(i, quote.path) /\ quote = PricedWith(quote.path, Fees(quote.path, i.origin))

FeesCount(fees) ==
    {fees.gas, fees.service, fees.app, fees.settlement, fees.rebalance, fees.riskBuffer} \subseteq Nat

\* What a quote is made of are numbers, and they add up to it.
LEMMA QuoteCounts ==
    ASSUME NEW i \in Intents, NEW quote, QuoteShape(i, quote)
    PROVE  /\ FeesCount(quote.fees) /\ quote.path.amountOut \in Nat /\ quote.quoted \in Int
           /\ quote.quoted = QuotedAmount(quote.path, quote.fees)
           /\ quote.quoted <= quote.path.amountOut
           /\ quote.fees.gas = quote.path.gasCost /\ quote.fees.settlement = quote.path.settlement
           /\ quote.fees.rebalance = quote.path.rebalance
  <1> DEFINE path == quote.path
             fees == Fees(path, i.origin)
  <1>1. {path.amountOut, path.gasCost, path.settlement, path.rebalance} \subseteq Nat
    BY DEF QuoteShape, PathShape
  <1>2. BPS_DENOMINATOR \in Nat \ {0} /\ ServiceBps \in Nat /\ AppBps \in Nat
    BY AmountsAssumption, NumbersAssumption DEF AmountsAssumption, NumbersAssumption
  <1>3. RiskOf(i.origin) \in Nat
    BY RiskNat
  <1>4. /\ applyBps(path.amountOut, ServiceBps) \in Nat
        /\ applyBps(path.amountOut, AppBps) \in Nat
        /\ applyBps(path.amountOut, RiskOf(i.origin)) \in Nat
    BY <1>1, <1>2, <1>3, MulDivNat DEF applyBps
  <1>5. /\ fees.gas = path.gasCost /\ fees.settlement = path.settlement
        /\ fees.rebalance = path.rebalance
        /\ fees.service = applyBps(path.amountOut, ServiceBps)
        /\ fees.app = applyBps(path.amountOut, AppBps)
        /\ fees.riskBuffer = applyBps(path.amountOut, RiskOf(i.origin))
    BY DEF Fees
  <1> HIDE DEF fees
  <1>6. quote.fees = fees /\ quote.quoted = QuotedAmount(path, fees)
    BY DEF QuoteShape, PricedWith, fees
  <1>7. FeesCount(fees)
    BY <1>1, <1>4, <1>5 DEF FeesCount
  <1>8. quote.quoted \in Int /\ quote.quoted <= path.amountOut
    BY <1>1, <1>6, <1>7 DEF FeesCount, QuotedAmount
  <1> QED
    BY <1>1, <1>5, <1>6, <1>7, <1>8

\* A quote is the price of its path, and profitable.
LEMMA QuoteMade ==
    ASSUME NEW i \in Intents, NEW path, PathShape(i, path), priceQuote(path, i) # None
    PROVE  QuoteShape(i, priceQuote(path, i)) /\ priceQuote(path, i).path = path
  <1>1. priceQuote(path, i) = PricedWith(path, Fees(path, i.origin))
    BY DEF priceQuote
  <1>2. PricedWith(path, Fees(path, i.origin)).path = path
    BY DEF PricedWith
  <1> QED
    BY <1>1, <1>2 DEF QuoteShape

\* A path has the rank its numbers give it.
LEMMA NetInt ==
    ASSUME NEW i, NEW path, PathShape(i, path)
    PROVE  netAmountOut(path) \in Int
  BY DEF PathShape, netAmountOut

-----------------------------------------------------------------------------
(* What the quoted route gives.                                            *)

\* What a chain gave is what one over its pools gives.
BothChain(c, in, out, legs, others) ==
    \/ legs = <<>> /\ others = <<>>
    \/ Linked(c, in, out, legs) /\ Linked(c, in, out, others)

\* Legs over the same pools give the same.
LEMMA GiveThrough ==
    ASSUME NEW pools, NEW c, NEW in, NEW out, NEW legs, NEW others, NEW amount \in Nat, NEW result,
           LegsGive(pools, amount, legs, result), Route(legs) = Route(others),
           BothChain(c, in, out, legs, others)
    PROVE  Through(pools, others, amount) = result
  <1>1. CASE legs = <<>> /\ others = <<>>
    BY <1>1, ThroughNothing DEF LegsGive
  <1>2. CASE Linked(c, in, out, legs) /\ Linked(c, in, out, others)
    <2>1. legs # <<>>
      BY <1>2 DEF Linked
    <2>2. Chained(pools, amount, legs) /\ result = Gives(legs)
      BY <2>1 DEF LegsGive
    <2> QED
      BY <1>2, <2>2, ThroughRoute
  <1> QED
    BY <1>1, <1>2 DEF BothChain

\* A chain with no leg is the only one over no pool.
LEMMA RouteEmpty ==
    ASSUME NEW c, NEW in, NEW out, NEW legs, Linked(c, in, out, legs)
    PROVE  Route(legs) # Route(<<>>)
  <1>1. legs \in Seq(Leg) /\ Len(legs) \in {1, 2}
    BY DEF Linked
  <1>2. 1 \in DOMAIN Route(legs)
    BY <1>1 DEF Route
  <1>3. Route(<<>>) = <<>>
    BY NothingCosts
  <1>4. 1 \notin DOMAIN <<>>
    OBVIOUS
  <1> QED
    BY <1>2, <1>3, <1>4

\* Over the same route on the origin two paths meet the same asset.
LEMMA SameAsset ==
    ASSUME NEW i \in Intents, NEW a \in AllOf(i), NEW b \in AllOf(i), NEW legs, NEW others,
           OriginShape(i, a, legs), OriginShape(i, b, others), Route(legs) = Route(others)
    PROVE  a = b /\ BothChain(i.origin, i.tokenIn, HubOf(i.origin, a), legs, others)
  <1>1. (a = None) <=> (b = None)
    BY AssetsNamed
  <1>2. CASE a = None
    BY <1>1, <1>2 DEF OriginShape, BothChain
  <1>3. CASE a # None
    <2> DEFINE x == HubOf(i.origin, a)
               y == HubOf(i.origin, b)
    <2>1. b # None /\ Asset[x] = a /\ Asset[y] = b
      BY <1>1, <1>3, AssetsNamed
    <2>2. /\ IF i.tokenIn = x THEN legs = <<>> ELSE Linked(i.origin, i.tokenIn, x, legs)
          /\ IF i.tokenIn = y THEN others = <<>> ELSE Linked(i.origin, i.tokenIn, y, others)
      BY <1>3, <2>1 DEF OriginShape
    <2> HIDE DEF x, y
    <2>3. CASE i.tokenIn = x /\ i.tokenIn = y
      BY <2>1, <2>2, <2>3 DEF BothChain
    <2>4. CASE i.tokenIn = x /\ i.tokenIn # y
      BY <2>2, <2>4, RouteEmpty
    <2>5. CASE i.tokenIn # x /\ i.tokenIn = y
      BY <2>2, <2>5, RouteEmpty
    <2>6. CASE i.tokenIn # x /\ i.tokenIn # y
      <3>1. x = y
        BY <2>2, <2>6, SameTokens
      <3> QED
        BY <2>1, <2>2, <2>6, <3>1 DEF x, BothChain
    <2> QED
      BY <2>3, <2>4, <2>5, <2>6
  <1> QED
    BY <1>2, <1>3

\* ... and on the destination.
LEMMA SameLegs ==
    ASSUME NEW i, NEW a, NEW legs, NEW others,
           LegsShape(i, a, legs), LegsShape(i, a, others)
    PROVE  BothChain(i.destination, Spending(i, a), i.tokenOut, legs, others)
  BY DEF LegsShape, BothChain

\* So a path true of the pools tells what another over its route gives.
LEMMA RouteGives ==
    ASSUME NEW pools, NEW i \in Intents, NEW price, NEW rate, NEW path, NEW other,
           PathShape(i, path), PathShape(i, other), PathTrue(pools, i, price, rate, path),
           Route(path.legs) = Route(other.legs), Route(path.originLegs) = Route(other.originLegs)
    PROVE  /\ path.asset = other.asset
           /\ Carries(i, other.asset, Through(pools, other.originLegs, i.amount)) = path.bridged
           /\ Through(pools, other.legs, path.bridged) = path.amountOut
           /\ gasCostIn(price, rate, GasOfRoute(Route(other.legs))) = path.gasCost
  <1>1. /\ path.asset \in AllOf(i) /\ other.asset \in AllOf(i) /\ path.bridged \in Nat
        /\ OriginShape(i, path.asset, path.originLegs) /\ OriginShape(i, other.asset, other.originLegs)
        /\ LegsShape(i, path.asset, path.legs) /\ LegsShape(i, other.asset, other.legs)
    BY DEF PathShape
  <1>2. /\ path.asset = other.asset
        /\ BothChain(i.origin, i.tokenIn, HubOf(i.origin, path.asset), path.originLegs, other.originLegs)
    BY <1>1, SameAsset
  <1>3. Carries(i, other.asset, Through(pools, other.originLegs, i.amount)) = path.bridged
    <2>1. PICK given \in Nat : /\ LegsGive(pools, i.amount, path.originLegs, given)
                               /\ path.bridged = Carries(i, path.asset, given)
      BY DEF PathTrue, OriginTrue
    <2>2. i.amount \in Nat
      BY IntentsAssumption DEF IntentsAssumption
    <2>3. Through(pools, other.originLegs, i.amount) = given
      BY <1>2, <2>1, <2>2, GiveThrough
    <2> QED
      BY <1>2, <2>1, <2>3
  <1>4. Through(pools, other.legs, path.bridged) = path.amountOut
    <2>1. BothChain(i.destination, Spending(i, path.asset), i.tokenOut, path.legs, other.legs)
      BY <1>1, <1>2, SameLegs
    <2>2. LegsGive(pools, path.bridged, path.legs, path.amountOut)
      BY DEF PathTrue, LegsTrue
    <2> QED
      BY <1>1, <2>1, <2>2, GiveThrough
  <1>5. gasCostIn(price, rate, GasOfRoute(Route(other.legs))) = path.gasCost
    BY DEF PathTrue, LegsTrue
  <1> QED
    BY <1>2, <1>3, <1>4, <1>5

-----------------------------------------------------------------------------
(* The invariant.                                                          *)

TypesOK ==
    /\ gasPrice \in [Chains -> Nat] /\ RatesOK
    /\ available \in [AllTokens -> Int] /\ moves \in Nat

Stages == {"QUOTING", "QUOTE_FAILED", "QUOTED", "INSUFFICIENT_INVENTORY", "FILLING", "REPRICED",
           "REFUNDING", "FILLED", "thrown"}

\* An order, quoted and priced again as it says.
OrderShape(o, now) ==
    /\ o = [st |-> o.st, quote |-> o.quote, intent |-> o.intent, asked |-> o.asked,
            checked |-> o.checked, fresh |-> o.fresh]
    /\ o.st \in Stages /\ o.intent \in Intents
    /\ o.asked \in 0..now /\ o.checked \in 0..now
    /\ o.quote # None => QuoteShape(o.intent, o.quote)
    /\ o.st = "QUOTING" => o.quote = None
    /\ o.st \in {"QUOTED", "FILLING", "REPRICED", "REFUNDING", "FILLED"} => o.quote # None
    /\ o.st \in {"FILLING", "REPRICED", "FILLED"} => o.asked <= o.checked
    /\ o.st \in {"REPRICED", "FILLED"} =>
           QuoteShape(o.intent, o.fresh) /\ StillWorth(o.fresh, o.quote)

OrderOK == order = NoOrder \/ OrderShape(order, moves)

\* The pricing under way,
JobShape(j, i) ==
    /\ j = [why |-> j.why, intent |-> j.intent, price |-> j.price, part |-> j.part,
            paths |-> j.paths, todo |-> j.todo]
    /\ j.intent = i /\ j.price \in [Chains -> Nat] /\ j.todo \subseteq AllOf(i)
    /\ j.part # None => PartShape(i, j.part) /\ j.part.asset \in j.todo
    /\ IsFiniteSet(j.paths) /\ \A path \in j.paths : PathShape(i, path)

JobOK ==
    job.why # None =>
        /\ order # NoOrder /\ JobShape(job, order.intent)
        /\ \/ job.why = "quote" /\ order.st = "QUOTING"
           \/ job.why = "reprice" /\ order.st = "FILLING"

\* ... which, with nothing moved since it began, is a part of the whole.
PartTrue(part, i, pools, prices, R) ==
    /\ Begun(R, i, part.asset)
    /\ ValuedAs(pools, prices, R, i, part.asset) # None
    /\ part.step = "carry" => part = ValuedAs(pools, prices, R, i, part.asset)
    /\ part.step = "fill" =>
           /\ part = CarriedAs(pools, prices, R, i, part.asset)
           /\ part.asset # None => Priceable(OriginRate(R, i, part.asset))

JobTrue(j, i, pools, prices, R) ==
    /\ j.price = prices
    /\ j.part # None => PartTrue(j.part, i, pools, prices, R)
    /\ j.paths = PathsOf(pools, prices, R, i, AllOf(i) \ j.todo)
    /\ \A asset \in AllOf(i) \ j.todo : Fine(pools, prices, R, i, asset)

BeganAt == IF job.why = "quote" THEN order.asked ELSE order.checked
Unmoved == job.why # None /\ BeganAt = moves

JobSame == Unmoved => JobTrue(job, order.intent, pool, gasPrice, RatesNow)

\* The quote and the fresh one, with nothing moved since they were asked for.
IsQuote(quote, i, pools, prices, R) ==
    LET paths == PathsOf(pools, prices, R, i, AllOf(i))
    IN  /\ paths # {} /\ IsFiniteSet(paths)
        /\ quote = priceQuote(MaxBy(paths, netAmountOut), i)
        /\ quote.path = MaxBy(paths, netAmountOut)
        /\ \A asset \in AllOf(i) : Fine(pools, prices, R, i, asset)

QuoteSame ==
    order # NoOrder /\ order.quote # None /\ order.asked = moves
        => IsQuote(order.quote, order.intent, pool, gasPrice, RatesNow)

FreshTrue ==
    order.st \in {"REPRICED", "FILLED"} /\ order.checked = moves
        => PathTrue(pool, order.intent, gasPrice[order.intent.destination],
                    FillRate(RatesNow, order.intent), order.fresh.path)

QInv ==
    TypesOK /\ OrderOK /\ JobOK /\ JobSame /\ QuoteSame /\ FreshTrue /\ UnmovedIsFilled

-----------------------------------------------------------------------------
(* A step of the pricing.                                                  *)

\* One more asset is priced.
LEMMA OneMore ==
    ASSUME NEW pools, NEW prices, NEW R, NEW i, NEW todo, todo \subseteq AllOf(i), NEW asset, asset \in todo
    PROVE  PathsOf(pools, prices, R, i, AllOf(i) \ (todo \ {asset}))
               = PathsOf(pools, prices, R, i, AllOf(i) \ todo) \cup PathsFor(pools, prices, R, i, asset)
  <1>1. AllOf(i) \ (todo \ {asset}) = (AllOf(i) \ todo) \cup {asset}
    OBVIOUS
  <1> QED
    BY <1>1 DEF PathsOf

\* A part is set,
LEMMA PartSet ==
    ASSUME NEW i, NEW j, JobShape(j, i), NEW part, PartShape(i, part), part.asset \in j.todo
    PROVE  /\ JobShape([j EXCEPT !.part = part], i)
           /\ [j EXCEPT !.part = part].why = j.why
           /\ \A pools, prices, R :
                 JobTrue(j, i, pools, prices, R) /\ PartTrue(part, i, pools, prices, R)
                     => JobTrue([j EXCEPT !.part = part], i, pools, prices, R)
  <1> DEFINE k == [j EXCEPT !.part = part]
  <1>1. k = [why |-> j.why, intent |-> j.intent, price |-> j.price, part |-> part,
             paths |-> j.paths, todo |-> j.todo]
    BY DEF JobShape
  <1> HIDE DEF k
  <1>2. JobShape(k, i) /\ k.why = j.why
    BY <1>1 DEF JobShape
  <1>3. \A pools, prices, R :
            JobTrue(j, i, pools, prices, R) /\ PartTrue(part, i, pools, prices, R)
                => JobTrue(k, i, pools, prices, R)
    BY <1>1 DEF JobTrue
  <1> QED
    BY <1>2, <1>3 DEF k

\* an asset is left out,
LEMMA LeftOut ==
    ASSUME NEW i, NEW j, JobShape(j, i), j.part = None, NEW asset \in j.todo
    PROVE  /\ JobShape([j EXCEPT !.todo = @ \ {asset}], i)
           /\ [j EXCEPT !.todo = @ \ {asset}].why = j.why
           /\ \A pools, prices, R :
                 /\ JobTrue(j, i, pools, prices, R) /\ Begun(R, i, asset)
                 /\ ValuedAs(pools, prices, R, i, asset) = None
                 => JobTrue([j EXCEPT !.todo = @ \ {asset}], i, pools, prices, R)
  <1> DEFINE k == [j EXCEPT !.todo = @ \ {asset}]
  <1>1. k = [why |-> j.why, intent |-> j.intent, price |-> j.price, part |-> j.part,
             paths |-> j.paths, todo |-> j.todo \ {asset}]
    BY DEF JobShape
  <1>2. j.todo \subseteq AllOf(i) /\ asset \in j.todo
    BY DEF JobShape
  <1> HIDE DEF k
  <1>3. JobShape(k, i) /\ k.why = j.why
    BY <1>1 DEF JobShape
  <1>4. ASSUME NEW pools, NEW prices, NEW R, JobTrue(j, i, pools, prices, R), Begun(R, i, asset),
               ValuedAs(pools, prices, R, i, asset) = None
        PROVE  JobTrue(k, i, pools, prices, R)
    <2>1. PathsFor(pools, prices, R, i, asset) = {}
      BY <1>4 DEF PathsFor
    <2>2. k.paths = PathsOf(pools, prices, R, i, AllOf(i) \ k.todo)
      <3>1. PathsOf(pools, prices, R, i, AllOf(i) \ (j.todo \ {asset}))
               = PathsOf(pools, prices, R, i, AllOf(i) \ j.todo) \cup PathsFor(pools, prices, R, i, asset)
        <4> DEFINE todo == j.todo
        <4>1. todo \subseteq AllOf(i) /\ asset \in todo
          BY <1>2
        <4> HIDE DEF todo
        <4>2. PathsOf(pools, prices, R, i, AllOf(i) \ (todo \ {asset}))
                 = PathsOf(pools, prices, R, i, AllOf(i) \ todo) \cup PathsFor(pools, prices, R, i, asset)
          BY <4>1, OneMore
        <4> QED
          BY <4>2 DEF todo
      <3>2. j.paths = PathsOf(pools, prices, R, i, AllOf(i) \ j.todo)
        BY <1>4 DEF JobTrue
      <3> QED
        BY <1>1, <2>1, <3>1, <3>2
    <2>3. Fine(pools, prices, R, i, asset)
      BY <1>4 DEF Fine
    <2>4. \A a \in AllOf(i) \ k.todo : Fine(pools, prices, R, i, a)
      BY <1>1, <1>4, <2>3 DEF JobTrue
    <2> QED
      BY <1>1, <1>4, <2>2, <2>4 DEF JobTrue
  <1> QED
    BY <1>3, <1>4 DEF k

\* and a part is finished.
FinishedWith(j, path) ==
    [j EXCEPT !.todo = @ \ {j.part.asset}, !.part = None,
              !.paths = IF path = None THEN @ ELSE @ \cup {Bridged(path, j.part)}]

\* A part whose path is known leaves the pricing as it should be.
LEMMA PartFinished ==
    ASSUME NEW i \in Intents, NEW j, JobShape(j, i), j.part # None, j.part.step = "fill", NEW path,
           path # None => PathShape(i, Bridged(path, j.part))
    PROVE  /\ JobShape(FinishedWith(j, path), i)
           /\ FinishedWith(j, path).why = j.why
           /\ \A pools, prices, R :
                 /\ JobTrue(j, i, pools, prices, R) /\ Priceable(FillRate(R, i))
                 /\ path = FillPath(pools, i, j.part, prices[i.destination], FillRate(R, i))
                 => JobTrue(FinishedWith(j, path), i, pools, prices, R)
  <1> DEFINE asset == j.part.asset
             paths == IF path = None THEN j.paths ELSE j.paths \cup {Bridged(path, j.part)}
             k == FinishedWith(j, path)
  <1>1. k = [why |-> j.why, intent |-> j.intent, price |-> j.price, part |-> None,
             paths |-> paths, todo |-> j.todo \ {asset}]
    <2>1. j = [why |-> j.why, intent |-> j.intent, price |-> j.price, part |-> j.part,
               paths |-> j.paths, todo |-> j.todo]
      BY DEF JobShape
    <2>2. k = [j EXCEPT !.todo = j.todo \ {asset}, !.part = None, !.paths = paths]
      BY <2>1 DEF FinishedWith
    <2> HIDE DEF k, paths, asset
    <2> QED
      BY <2>1, <2>2
  <1>2. j.todo \subseteq AllOf(i) /\ asset \in j.todo
    BY DEF JobShape
  <1>3. IsFiniteSet(paths) /\ \A p \in paths : PathShape(i, p)
    <2>1. IsFiniteSet({Bridged(path, j.part)})
      BY FS_Singleton
    <2>2. IsFiniteSet(j.paths) /\ \A p \in j.paths : PathShape(i, p)
      BY DEF JobShape
    <2> QED
      BY <2>1, <2>2, FS_Union
  <1> HIDE DEF k
  <1>4. JobShape(k, i) /\ k.why = j.why
    <2> HIDE DEF paths
    <2> QED
      BY <1>1, <1>3 DEF JobShape
  <1>5. ASSUME NEW pools, NEW prices, NEW R, JobTrue(j, i, pools, prices, R), Priceable(FillRate(R, i)),
               path = FillPath(pools, i, j.part, prices[i.destination], FillRate(R, i))
        PROVE  JobTrue(k, i, pools, prices, R)
    <2>1. /\ Begun(R, i, asset) /\ ValuedAs(pools, prices, R, i, asset) # None
          /\ j.part = CarriedAs(pools, prices, R, i, asset)
          /\ asset # None => Priceable(OriginRate(R, i, asset))
      BY <1>5 DEF JobTrue, PartTrue
    <2>2. path = FilledAs(pools, prices, R, i, asset)
      BY <1>5, <2>1 DEF FilledAs
    <2>3. paths = j.paths \cup PathsFor(pools, prices, R, i, asset)
      BY <2>1, <2>2 DEF PathsFor
    <2>4. k.paths = PathsOf(pools, prices, R, i, AllOf(i) \ k.todo)
      <3>1. PathsOf(pools, prices, R, i, AllOf(i) \ (j.todo \ {asset}))
               = PathsOf(pools, prices, R, i, AllOf(i) \ j.todo) \cup PathsFor(pools, prices, R, i, asset)
        BY <1>2, OneMore
      <3>2. j.paths = PathsOf(pools, prices, R, i, AllOf(i) \ j.todo)
        BY <1>5 DEF JobTrue
      <3>3. k.paths = paths /\ k.todo = j.todo \ {asset}
        BY <1>1
      <3> HIDE DEF paths, asset
      <3> QED
        BY <2>3, <3>1, <3>2, <3>3
    <2>5. Fine(pools, prices, R, i, asset)
      BY <1>5, <2>1 DEF Fine
    <2>6. \A a \in AllOf(i) \ k.todo : Fine(pools, prices, R, i, a)
      BY <1>1, <1>5, <2>5 DEF JobTrue
    <2> QED
      BY <1>1, <1>5, <2>4, <2>6 DEF JobTrue
  <1> QED
    BY <1>4, <1>5 DEF k

\* The job goes on, and nothing else does.
LEMMA GoesOn ==
    ASSUME QInv, UNCHANGED <<pool, gasPrice, order, available, moves>>, RatesOK', RatesNow' = RatesNow,
           job.why # None, job'.why = job.why, JobShape(job', order.intent),
           Unmoved => JobTrue(job', order.intent, pool, gasPrice, RatesNow)
    PROVE  QInv'
  <1>1. TypesOK'
    BY DEF QInv, TypesOK
  <1>2. OrderOK' /\ JobOK'
    BY DEF QInv, OrderOK, JobOK
  <1>3. JobSame'
    BY DEF QInv, JobSame, Unmoved, BeganAt
  <1>4. QuoteSame' /\ FreshTrue'
    BY DEF QInv, QuoteSame, FreshTrue
  <1>5. UnmovedIsFilled'
    BY DEF QInv, UnmovedIsFilled, Spent, Input
  <1> QED
    BY <1>1, <1>2, <1>3, <1>4, <1>5 DEF QInv

\* The job is thrown away: with nothing moved since the order was asked for, only
\* while it has no quote.
LEMMA ThrownAway ==
    ASSUME QInv, UNCHANGED <<pool, gasPrice, available, moves>>, RatesOK', RatesNow' = RatesNow,
           job.why # None, Throw, order.quote # None => order.asked # moves
    PROVE  QInv'
  <1>1. /\ job' = Idle /\ Idle.why = None /\ order # NoOrder
        /\ order.quote # None => order.asked < moves
        /\ OrderShape(order, moves)
    <2>1. job' = Idle /\ Idle.why = None
      BY DEF Throw, Idle
    <2>2. order # NoOrder
      BY DEF QInv, JobOK
    <2>3. OrderShape(order, moves)
      BY <2>2 DEF QInv, OrderOK
    <2>4. moves \in Nat
      BY DEF QInv, TypesOK
    <2>5. order.asked \in 0..moves
      BY <2>3 DEF OrderShape
    <2> QED
      BY <2>1, <2>2, <2>3, <2>4, <2>5
  <1>2. /\ order' = [st |-> "thrown", quote |-> order.quote, intent |-> order.intent,
                     asked |-> order.asked, checked |-> order.checked, fresh |-> order.fresh]
    BY <1>1 DEF Throw, OrderShape
  <1>3. TypesOK'
    BY DEF QInv, TypesOK
  <1>4. OrderOK' /\ JobOK'
    BY <1>1, <1>2 DEF OrderOK, OrderShape, JobOK, Stages
  <1>5. JobSame' /\ QuoteSame' /\ FreshTrue' /\ UnmovedIsFilled'
    BY <1>1, <1>2 DEF JobSame, Unmoved, QuoteSame, FreshTrue, UnmovedIsFilled
  <1> QED
    BY <1>3, <1>4, <1>5 DEF QInv

\* What is known while something is priced.
PricingNow(i) ==
    /\ order # NoOrder /\ OrderShape(order, moves) /\ i = order.intent /\ i \in Intents
    /\ JobShape(job, i) /\ job.intent = i /\ job.price \in [Chains -> Nat]
    /\ job.todo \subseteq AllOf(i) /\ RatesKnown(RatesNow) /\ gasPrice \in [Chains -> Nat]
    /\ Unmoved => JobTrue(job, i, pool, gasPrice, RatesNow) /\ job.price = gasPrice

\* While a pricing is under way the invariant speaks of it.
LEMMA WhilePriced ==
    ASSUME QInv, Answers(pool), job.why # None
    PROVE  PricingNow(order.intent)
  <1>1. order # NoOrder /\ JobShape(job, order.intent)
    BY DEF QInv, JobOK
  <1>2. OrderShape(order, moves)
    BY <1>1 DEF QInv, OrderOK
  <1>3. order.intent \in Intents
    BY <1>2 DEF OrderShape
  <1>4. RatesKnown(RatesNow) /\ gasPrice \in [Chains -> Nat]
    BY RatesRead DEF QInv, TypesOK
  <1>5. Unmoved => JobTrue(job, order.intent, pool, gasPrice, RatesNow)
    BY DEF QInv, JobSame
  <1>6. Unmoved => job.price = gasPrice
    BY <1>5 DEF JobTrue
  <1>7. /\ job.intent = order.intent /\ job.price \in [Chains -> Nat]
        /\ job.todo \subseteq AllOf(order.intent)
    BY <1>1 DEF JobShape
  <1> QED
    BY <1>1, <1>2, <1>3, <1>4, <1>5, <1>6, <1>7 DEF PricingNow

\* With nothing moved since the quote was asked for, what was fine then is now.
LEMMA RepriceFine ==
    ASSUME QInv, Answers(pool), job.why # None, order.quote # None, order.asked = moves
    PROVE  /\ Unmoved /\ JobTrue(job, order.intent, pool, gasPrice, RatesNow)
           /\ IsQuote(order.quote, order.intent, pool, gasPrice, RatesNow)
           /\ \A asset \in AllOf(order.intent) : Fine(pool, gasPrice, RatesNow, order.intent, asset)
  <1>1. PricingNow(order.intent)
    BY WhilePriced
  <1>2. OrderShape(order, moves) /\ order # NoOrder
    BY <1>1 DEF PricingNow
  <1>3. job.why = "reprice" /\ order.st = "FILLING"
    BY <1>2 DEF QInv, JobOK, OrderShape
  <1>4. order.asked <= order.checked /\ order.checked \in 0..moves /\ moves \in Nat
    BY <1>2, <1>3 DEF OrderShape, QInv, TypesOK
  <1>5. order.checked = moves
    BY <1>4
  <1>6. Unmoved
    BY <1>3, <1>5 DEF Unmoved, BeganAt
  <1>7. JobTrue(job, order.intent, pool, gasPrice, RatesNow)
    BY <1>1, <1>6 DEF PricingNow
  <1>8. IsQuote(order.quote, order.intent, pool, gasPrice, RatesNow)
    BY <1>2 DEF QInv, QuoteSame
  <1> QED
    BY <1>6, <1>7, <1>8 DEF IsQuote

\* Local keeps the invariant.
LEMMA LocalStep ==
    ASSUME QInv, Answers(pool), Local
    PROVE  QInv'
  <1> DEFINE i == order.intent
             part == Part(None, "fill", <<>>, i.amount)
  <1>1. PricingNow(i)
    BY WhilePriced DEF Local
  <1>2. /\ job.why # None /\ job.part = None /\ None \in job.todo
        /\ job' = [job EXCEPT !.part = part]
        /\ UNCHANGED <<pool, gasPrice, rates, order, available, moves>>
    BY <1>1 DEF Local, PricingNow
  <1>3. i \in Intents /\ None \in AllOf(i) /\ JobShape(job, i)
    BY <1>1, <1>2 DEF PricingNow
  <1>4. PartShape(i, part) /\ part.asset = None /\ part.step = "fill"
    BY <1>3, LocalOK DEF Part
  <1>5. part # None
    <2>1. i.amount \in Int /\ <<>> \in Seq(Leg)
      BY <1>3, IntentsAssumption DEF IntentsAssumption
    <2>2. None \notin [asset : Assets \cup {None}, step : {"carry", "fill"}, originLegs : Seq(Leg),
                       bridged : Int, settlement : Int, rebalance : Int]
      BY NoneAssumption DEF NoneAssumption
    <2>3. part \in [asset : Assets \cup {None}, step : {"carry", "fill"}, originLegs : Seq(Leg),
                    bridged : Int, settlement : Int, rebalance : Int]
      BY <2>1 DEF Part
    <2> QED
      BY <2>2, <2>3
  <1>6. PartTrue(part, i, pool, gasPrice, RatesNow)
    BY <1>4, <1>5 DEF PartTrue, Begun, ValuedAs, CarriedAs
  <1> HIDE DEF part
  <1>7. /\ JobShape(job', i) /\ job'.why = job.why
        /\ Unmoved => JobTrue(job', i, pool, gasPrice, RatesNow)
    BY <1>1, <1>2, <1>3, <1>4, <1>6, PartSet DEF PricingNow
  <1>8. RatesOK' /\ RatesNow' = RatesNow
    BY <1>2 DEF QInv, TypesOK, RatesOK, RatesNow, readGasPricing
  <1> QED
    BY <1>2, <1>7, <1>8, GoesOn

\* The deposit is valued.
LEMMA ValuedStep ==
    ASSUME QInv, Answers(pool), UNCHANGED <<pool, gasPrice, order, available, moves>>,
           RatesOK', RatesNow' = RatesNow, job.why # None, job.part = None,
           NEW asset \in job.todo, asset # None, NEW best,
           OriginFound(pool, order.intent, asset, best),
           Unmoved => /\ Begun(RatesNow, order.intent, asset)
                      /\ best = OriginBest(pool, gasPrice, RatesNow, order.intent, asset),
           Valued(asset, Valuation(order.intent, asset, best))
    PROVE  QInv'
  <1> DEFINE i == order.intent
             part == Valuation(i, asset, best)
  <1>1. PricingNow(i)
    BY WhilePriced
  <1>2. i \in Intents /\ asset \in AllOf(i) /\ JobShape(job, i)
    BY <1>1 DEF PricingNow
  <1>3. Unmoved => part = ValuedAs(pool, gasPrice, RatesNow, i, asset)
    BY DEF ValuedAs
  <1>4. CASE part = None
    <2>1. job' = [job EXCEPT !.todo = @ \ {asset}]
      BY <1>4 DEF Valued
    <2>2. /\ JobShape(job', i) /\ job'.why = job.why
          /\ Unmoved => JobTrue(job', i, pool, gasPrice, RatesNow)
      <3> HIDE DEF part
      <3> QED
        BY <1>1, <1>2, <1>3, <1>4, <2>1, LeftOut DEF PricingNow
    <2> QED
      BY <2>2, GoesOn
  <1>5. CASE part # None
    <2>1. job' = [job EXCEPT !.part = part]
      BY <1>5 DEF Valued
    <2>2. PartShape(i, part) /\ part.asset = asset /\ part.step = "carry"
      BY <1>2, <1>5, ValuationOK
    <2> HIDE DEF part
    <2>3. Unmoved => PartTrue(part, i, pool, gasPrice, RatesNow)
      BY <1>3, <1>5, <2>2 DEF PartTrue
    <2>4. /\ JobShape(job', i) /\ job'.why = job.why
          /\ Unmoved => JobTrue(job', i, pool, gasPrice, RatesNow)
      BY <1>1, <1>2, <2>1, <2>2, <2>3, PartSet DEF PricingNow
    <2> QED
      BY <2>4, GoesOn
  <1> QED
    BY <1>4, <1>5

\* The hub of an asset that is still to be priced.
LEMMA HubHere ==
    ASSUME NEW i \in Intents, NEW asset \in AllOf(i), asset # None
    PROVE  /\ i.origin \in Chains /\ HubOf(i.origin, asset) \in Tokens[i.origin]
           /\ RatesNow[i.origin][HubOf(i.origin, asset)] = readGasPricing(i.origin, HubOf(i.origin, asset))
  <1>1. i.origin \in Chains /\ HubOf(i.origin, asset) \in Hubs[i.origin]
    BY AssetsNamed
  <1>2. Hubs[i.origin] \subseteq Tokens[i.origin]
    BY <1>1, MarketAssumption DEF MarketAssumption
  <1> QED
    BY <1>1, <1>2 DEF RatesNow

\* Value keeps the invariant.
LEMMA ValueStep ==
    ASSUME QInv, Answers(pool), NEW asset \in Assets, Value(asset)
    PROVE  QInv'
  <1> DEFINE i == order.intent
             hub == HubOf(i.origin, asset)
             rate == readGasPricing(i.origin, hub)
             whole == [legs |-> <<>>, amountOut |-> i.amount]
             best == findPaths(pool, i.origin, i.tokenIn, hub, i.amount, job.price[i.origin], rate, FALSE)
  <1>1. PricingNow(i)
    BY WhilePriced DEF Value
  <1>2. /\ job.why # None /\ job.part = None /\ asset \in job.todo /\ job.intent = i
        /\ UNCHANGED <<pool, gasPrice, available, moves>>
    BY <1>1 DEF Value, PricingNow
  <1>3. asset # None
    BY NoneAssumption DEF NoneAssumption
  <1>4. i \in Intents /\ asset \in AllOf(i) /\ job.price \in [Chains -> Nat] /\ RatesKnown(RatesNow)
    BY <1>1, <1>2 DEF PricingNow
  <1>5. i.origin \in Chains /\ hub \in Tokens[i.origin] /\ OriginRate(RatesNow, i, asset) = rate
    BY <1>3, <1>4, HubHere DEF OriginRate
  <1>6. CASE i.tokenIn = hub
    <2>1. Valued(asset, Valuation(i, asset, whole)) /\ UNCHANGED <<order, rates>>
      BY <1>2, <1>6 DEF Value
    <2>2. OriginFound(pool, i, asset, whole)
      BY <1>6 DEF OriginFound
    <2>3. Begun(RatesNow, i, asset) /\ whole = OriginBest(pool, gasPrice, RatesNow, i, asset)
      BY <1>6 DEF Begun, OriginBest
    <2>4. RatesOK' /\ RatesNow' = RatesNow
      BY <1>2, <2>1 DEF QInv, TypesOK, RatesOK, RatesNow, readGasPricing
    <2> HIDE DEF whole
    <2> QED
      BY <1>2, <1>3, <2>1, <2>2, <2>3, <2>4, ValuedStep
  <1>7. CASE i.tokenIn # hub
    <2>1. ValueAt(asset, hub, rate) /\ Remember(i.origin, hub)
      BY <1>2, <1>7 DEF Value
    <2>2. RatesOK' /\ RatesNow' = RatesNow
      <3>1. RatesOK
        BY DEF QInv, TypesOK
      <3> HIDE DEF hub, i
      <3> QED
        BY <1>2, <1>5, <2>1, <3>1, RatesStay
    <2>3. CASE ~Priceable(rate)
      <3>1. Throw
        BY <2>1, <2>3 DEF ValueAt
      <3>2. order.quote # None => order.asked # moves
        <4>1. SUFFICES ASSUME order.quote # None, order.asked = moves PROVE FALSE
          OBVIOUS
        <4>2. Fine(pool, gasPrice, RatesNow, i, asset)
          BY <1>2, <1>4, <4>1, RepriceFine
        <4>3. Priceable(OriginRate(RatesNow, i, asset))
          BY <1>3, <1>7, <4>2 DEF Fine, Begun
        <4> QED
          BY <1>5, <2>3, <4>3
      <3> QED
        BY <1>2, <2>2, <3>1, <3>2, ThrownAway
    <2>4. CASE Priceable(rate)
      <3>1. Valued(asset, Valuation(i, asset, best)) /\ UNCHANGED order
        BY <1>2, <2>1, <2>4 DEF ValueAt
      <3>2. OriginFound(pool, i, asset, best)
        <4>1. GoodRate(rate)
          BY <1>3, <1>4, <1>5, <2>4, RatesGood
        <4>2. job.price[i.origin] \in Nat
          BY <1>4, <1>5
        <4> HIDE DEF rate
        <4> QED
          BY <1>3, <1>4, <1>7, <4>1, <4>2, OriginBestOK
      <3>3. ASSUME Unmoved
            PROVE  Begun(RatesNow, i, asset) /\ best = OriginBest(pool, gasPrice, RatesNow, i, asset)
        <4>1. job.price = gasPrice
          BY <1>1, <3>3 DEF PricingNow
        <4>2. Begun(RatesNow, i, asset)
          BY <1>5, <2>4 DEF Begun
        <4>3. OriginBest(pool, gasPrice, RatesNow, i, asset)
                 = findPaths(pool, i.origin, i.tokenIn, hub, i.amount, gasPrice[i.origin],
                             OriginRate(RatesNow, i, asset), FALSE)
          BY <1>7 DEF OriginBest
        <4> QED
          BY <1>5, <4>1, <4>2, <4>3
      <3> HIDE DEF best
      <3> QED
        BY <1>2, <1>3, <2>2, <3>1, <3>2, <3>3, ValuedStep
    <2> QED
      BY <2>3, <2>4
  <1> QED
    BY <1>6, <1>7

\* Carry keeps the invariant.
LEMMA CarryStep ==
    ASSUME QInv, Answers(pool), Carry
    PROVE  QInv'
  <1> DEFINE i == order.intent
             asset == job.part.asset
             hub == HubOf(i.origin, asset)
             rate == readGasPricing(i.origin, hub)
             part == Carried(i, job.part, job.price[i.origin], rate)
  <1>1. PricingNow(i)
    BY WhilePriced DEF Carry
  <1>2. /\ job.why # None /\ job.part # None /\ job.part.step = "carry" /\ job.intent = i
        /\ UNCHANGED <<pool, gasPrice, available, moves>>
        /\ CarryAt(rate) /\ Remember(i.origin, hub)
    BY <1>1 DEF Carry, PricingNow
  <1>3. PartShape(i, job.part) /\ asset \in job.todo
    BY <1>1, <1>2 DEF PricingNow, JobShape
  <1>4. asset # None /\ asset \in AllOf(i)
    BY <1>2, <1>3 DEF PartShape
  <1>5. i \in Intents /\ JobShape(job, i) /\ job.price \in [Chains -> Nat] /\ RatesKnown(RatesNow)
    BY <1>1 DEF PricingNow
  <1>6. i.origin \in Chains /\ hub \in Tokens[i.origin] /\ OriginRate(RatesNow, i, asset) = rate
    <2> HIDE DEF asset, i
    <2> QED
      BY <1>4, <1>5, HubHere DEF OriginRate
  <1>7. RatesOK' /\ RatesNow' = RatesNow
    <2>1. RatesOK
      BY DEF QInv, TypesOK
    <2> HIDE DEF hub, i
    <2> QED
      BY <1>2, <1>6, <2>1, RatesStay
  <1>8. CASE ~Priceable(rate)
    <2>1. Throw
      BY <1>2, <1>8 DEF CarryAt
    <2>2. order.quote # None => order.asked # moves
      <3>1. SUFFICES ASSUME order.quote # None, order.asked = moves PROVE FALSE
        OBVIOUS
      <3>2. Fine(pool, gasPrice, RatesNow, i, asset) /\ JobTrue(job, i, pool, gasPrice, RatesNow)
        BY <1>2, <1>4, <3>1, RepriceFine
      <3>3. ValuedAs(pool, gasPrice, RatesNow, i, asset) # None
        BY <1>2, <3>2 DEF JobTrue, PartTrue
      <3>4. Priceable(OriginRate(RatesNow, i, asset))
        BY <1>4, <3>2, <3>3 DEF Fine
      <3> QED
        BY <1>6, <1>8, <3>4
    <2> QED
      BY <1>2, <1>7, <2>1, <2>2, ThrownAway
  <1>9. CASE Priceable(rate)
    <2>1. job' = [job EXCEPT !.part = part] /\ UNCHANGED order
      BY <1>2, <1>5, <1>9 DEF CarryAt, JobShape
    <2>2. PartShape(i, part) /\ part.asset = asset /\ part.step = "fill"
      <3>1. GoodRate(rate)
        <4> HIDE DEF asset, rate
        <4> QED
          BY <1>4, <1>5, <1>6, <1>9, RatesGood
      <3>2. job.price[i.origin] \in Nat
        BY <1>5, <1>6
      <3> HIDE DEF rate, i
      <3> QED
        BY <1>3, <1>4, <1>5, <3>1, <3>2, CarriedOK
    <2>3. ASSUME Unmoved PROVE PartTrue(part, i, pool, gasPrice, RatesNow)
      <3>1. /\ JobTrue(job, i, pool, gasPrice, RatesNow) /\ job.price = gasPrice
        BY <1>1, <2>3 DEF PricingNow
      <3>2. /\ Begun(RatesNow, i, asset)
            /\ ValuedAs(pool, gasPrice, RatesNow, i, asset) # None
            /\ job.part = ValuedAs(pool, gasPrice, RatesNow, i, asset)
        BY <1>2, <3>1 DEF JobTrue, PartTrue
      <3>3. part = CarriedAs(pool, gasPrice, RatesNow, i, asset)
        BY <1>4, <1>6, <3>1, <3>2 DEF CarriedAs
      <3> HIDE DEF part, rate
      <3> QED
        BY <1>6, <1>9, <2>2, <3>2, <3>3 DEF PartTrue
    <2>4. /\ JobShape(job', i) /\ job'.why = job.why
          /\ Unmoved => JobTrue(job', i, pool, gasPrice, RatesNow)
      <3>1. part.asset \in job.todo
        BY <1>3, <2>2
      <3> HIDE DEF part
      <3> QED
        BY <1>1, <1>5, <2>1, <2>2, <2>3, <3>1, PartSet DEF PricingNow
    <2> QED
      BY <1>2, <1>7, <2>1, <2>4, GoesOn
  <1> QED
    BY <1>8, <1>9

\* Fill keeps the invariant.
LEMMA FillStep ==
    ASSUME QInv, Answers(pool), Fill
    PROVE  QInv'
  <1> DEFINE i == order.intent
             asset == job.part.asset
             rate == readGasPricing(i.destination, i.tokenOut)
             path == FillPath(pool, i, job.part, job.price[i.destination], rate)
  <1>1. PricingNow(i)
    BY WhilePriced DEF Fill
  <1>2. /\ job.why # None /\ job.part # None /\ job.part.step = "fill" /\ job.intent = i
        /\ UNCHANGED <<pool, gasPrice, rates, available, moves>>
        /\ FillAt(rate)
    BY <1>1 DEF Fill, PricingNow
  <1>3. PartShape(i, job.part) /\ asset \in job.todo
    BY <1>1, <1>2 DEF PricingNow, JobShape
  <1>4. i \in Intents /\ JobShape(job, i) /\ job.price \in [Chains -> Nat] /\ RatesKnown(RatesNow)
        /\ asset \in AllOf(i)
    BY <1>1, <1>3 DEF PricingNow, PartShape
  <1>5. i.destination \in Chains /\ FillRate(RatesNow, i) = rate
    BY <1>4, IntentsAssumption DEF IntentsAssumption, FillRate, RatesNow
  <1>6. RatesOK' /\ RatesNow' = RatesNow
    BY <1>2 DEF QInv, TypesOK, RatesOK, RatesNow, readGasPricing
  <1>7. CASE ~Priceable(rate)
    <2>1. Throw
      BY <1>2, <1>7 DEF FillAt
    <2>2. order.quote # None => order.asked # moves
      <3>1. SUFFICES ASSUME order.quote # None, order.asked = moves PROVE FALSE
        OBVIOUS
      <3>2. Fine(pool, gasPrice, RatesNow, i, asset) /\ JobTrue(job, i, pool, gasPrice, RatesNow)
        BY <1>2, <1>4, <3>1, RepriceFine
      <3>3. ValuedAs(pool, gasPrice, RatesNow, i, asset) # None
        BY <1>2, <3>2 DEF JobTrue, PartTrue
      <3>4. Priceable(FillRate(RatesNow, i))
        BY <3>2, <3>3 DEF Fine
      <3> QED
        BY <1>5, <1>7, <3>4
    <2> QED
      BY <1>2, <1>6, <2>1, <2>2, ThrownAway
  <1>8. CASE Priceable(rate)
    <2>1. job' = FinishedWith(job, path) /\ UNCHANGED order
      BY <1>2, <1>8 DEF FillAt, FillWith, FinishedWith
    <2>2. path # None => PathShape(i, Bridged(path, job.part))
      <3>1. GoodRate(rate)
        <4> HIDE DEF asset, rate
        <4> QED
          BY <1>4, <1>5, <1>8, RatesGood
      <3>2. job.price[i.destination] \in Nat
        BY <1>4, <1>5
      <3>3. ASSUME path # None
            PROVE  Filling(pool, i, job.part, job.price[i.destination], rate, path)
        <4> HIDE DEF rate, i
        <4> QED
          BY <1>3, <1>4, <3>1, <3>2, <3>3, FillingFound
      <3> HIDE DEF path, rate
      <3> QED
        BY <1>3, <1>4, <3>3, BridgedOK
    <2>3. Unmoved => path = FillPath(pool, i, job.part, gasPrice[i.destination], FillRate(RatesNow, i))
      BY <1>1, <1>5 DEF PricingNow
    <2>4. /\ JobShape(job', i) /\ job'.why = job.why
          /\ Unmoved => JobTrue(job', i, pool, gasPrice, RatesNow)
      <3> HIDE DEF path
      <3> QED
        BY <1>1, <1>2, <1>4, <1>5, <1>8, <2>1, <2>2, <2>3, PartFinished DEF PricingNow
    <2> QED
      BY <1>2, <1>6, <2>1, <2>4, GoesOn
  <1> QED
    BY <1>7, <1>8

-----------------------------------------------------------------------------
(* A step of the order.                                                    *)

\* What is concluded is the price of the best path.
LEMMA PricedOK ==
    ASSUME QInv, Answers(pool), job.why # None, Priced # None
    PROVE  /\ job.paths # {} /\ IsFiniteSet(job.paths)
           /\ QuoteShape(order.intent, Priced)
           /\ MaxBy(job.paths, netAmountOut) \in job.paths
           /\ Priced.path = MaxBy(job.paths, netAmountOut)
           /\ Priced = priceQuote(MaxBy(job.paths, netAmountOut), order.intent)
  <1> DEFINE i == order.intent
             best == MaxBy(job.paths, netAmountOut)
  <1>1. PricingNow(i)
    BY WhilePriced
  <1>2. i \in Intents /\ IsFiniteSet(job.paths) /\ job.intent = i
        /\ \A path \in job.paths : PathShape(i, path)
    BY <1>1 DEF PricingNow, JobShape
  <1>3. job.paths # {} /\ Priced = Covered(best)
    BY DEF Priced
  <1>4. best \in job.paths
    <2>1. \A path \in job.paths : netAmountOut(path) \in Int
      BY <1>2, NetInt
    <2> QED
      BY <1>2, <1>3, <2>1, BestBridged
  <1> HIDE DEF best
  <1>5. Priced = priceQuote(best, i)
    BY <1>2, <1>3 DEF Covered
  <1>6. QuoteShape(i, Priced) /\ Priced.path = best
    BY <1>2, <1>4, <1>5, QuoteMade
  <1> QED
    BY <1>2, <1>3, <1>4, <1>5, <1>6 DEF best

\* QuoteIntent keeps the invariant: a pricing begins with nothing found.
LEMMA QuoteIntentStep ==
    ASSUME QInv, Answers(pool), NEW i \in Intents, QuoteIntent(i)
    PROVE  QInv'
  <1>1. /\ order = NoOrder /\ Begin("quote", i)
        /\ order' = [st |-> "QUOTING", quote |-> None, intent |-> i, asked |-> moves,
                     checked |-> 0, fresh |-> None]
        /\ UNCHANGED <<pool, gasPrice, rates, available, moves>>
    BY DEF QuoteIntent
  <1>2. job' = [why |-> "quote", intent |-> i, price |-> gasPrice, part |-> None, paths |-> {},
                todo |-> AllOf(i)]
    BY <1>1 DEF Begin, AllOf
  <1>3. moves \in Nat /\ gasPrice \in [Chains -> Nat]
    BY DEF QInv, TypesOK
  <1>4. TypesOK'
    BY <1>1 DEF QInv, TypesOK, RatesOK
  <1>5. order' # NoOrder
    <2>1. order'.st = "QUOTING" /\ NoOrder.st = "none"
      BY <1>1 DEF NoOrder
    <2> QED
      BY <2>1
  <1>6. OrderOK'
    BY <1>1, <1>3 DEF OrderOK, OrderShape, Stages
  <1>7. JobOK'
    <2>1. IsFiniteSet({})
      BY FS_EmptySet
    <2>2. JobShape(job', i)
      BY <1>2, <1>3, <2>1 DEF JobShape
    <2> QED
      BY <1>1, <1>2, <1>5, <2>2 DEF JobOK
  <1>8. JobSame'
    <2>1. \A pools, R : JobTrue(job', i, pools, gasPrice, R)
      BY <1>2 DEF JobTrue, PathsOf
    <2> QED
      BY <1>1, <2>1 DEF JobSame
  <1>9. QuoteSame' /\ FreshTrue' /\ UnmovedIsFilled'
    BY <1>1 DEF QuoteSame, FreshTrue, UnmovedIsFilled
  <1> QED
    BY <1>4, <1>6, <1>7, <1>8, <1>9 DEF QInv

\* What is known of an order.
LEMMA Ordered ==
    ASSUME QInv, order # NoOrder
    PROVE  /\ OrderShape(order, moves) /\ order.intent \in Intents /\ moves \in Nat
           /\ order.asked \in 0..moves /\ order.checked \in 0..moves
           /\ order = [st |-> order.st, quote |-> order.quote, intent |-> order.intent,
                       asked |-> order.asked, checked |-> order.checked, fresh |-> order.fresh]
  BY DEF QInv, OrderOK, OrderShape, TypesOK

\* With nothing moved, everything is priced as it began.
LEMMA QuoteIs ==
    ASSUME QInv, Answers(pool), job.why # None, job.todo = {}, Unmoved, Priced # None
    PROVE  IsQuote(Priced, order.intent, pool, gasPrice, RatesNow)
  <1> DEFINE i == order.intent
             paths == PathsOf(pool, gasPrice, RatesNow, i, AllOf(i))
  <1>1. JobTrue(job, i, pool, gasPrice, RatesNow)
    BY DEF QInv, JobSame
  <1>2. AllOf(i) \ job.todo = AllOf(i)
    OBVIOUS
  <1>3. job.paths = paths /\ \A asset \in AllOf(i) : Fine(pool, gasPrice, RatesNow, i, asset)
    BY <1>1, <1>2 DEF JobTrue
  <1>4. /\ job.paths # {} /\ IsFiniteSet(job.paths)
        /\ Priced.path = MaxBy(job.paths, netAmountOut)
        /\ Priced = priceQuote(MaxBy(job.paths, netAmountOut), i)
    BY PricedOK
  <1> HIDE DEF paths
  <1> QED
    BY <1>3, <1>4 DEF IsQuote, paths

\* Quoted keeps the invariant: with nothing moved, the quote is the price of all paths.
LEMMA QuotedStep ==
    ASSUME QInv, Answers(pool), Quoted
    PROVE  QInv'
  <1> DEFINE i == order.intent
  <1>1. /\ job.why = "quote" /\ job.part = None /\ job.todo = {} /\ job' = Idle
        /\ QuotedAs(Priced) /\ UNCHANGED <<pool, gasPrice, rates, available, moves>>
    BY DEF Quoted, Concluding
  <1>2. job.why # None /\ order # NoOrder
    BY <1>1, NoneAssumption DEF NoneAssumption, QInv, JobOK
  <1>3. /\ OrderShape(order, moves) /\ order.intent \in Intents /\ moves \in Nat
        /\ order = [st |-> order.st, quote |-> order.quote, intent |-> order.intent,
                    asked |-> order.asked, checked |-> order.checked, fresh |-> order.fresh]
    BY <1>2, Ordered
  <1>4. order.st = "QUOTING" /\ order.quote = None
    BY <1>1, <1>2, <1>3 DEF QInv, JobOK, OrderShape
  <1>5. order' = [st |-> IF Priced = None THEN "QUOTE_FAILED" ELSE "QUOTED", quote |-> Priced,
                  intent |-> order.intent, asked |-> order.asked, checked |-> order.checked,
                  fresh |-> order.fresh]
    BY <1>1, <1>3 DEF QuotedAs
  <1>6. Priced # None => QuoteShape(i, Priced)
    BY <1>2, PricedOK
  <1>7. TypesOK'
    BY <1>1 DEF QInv, TypesOK, RatesOK
  <1>8. OrderOK'
    <2>1. OrderShape(order', moves)
      BY <1>3, <1>5, <1>6 DEF OrderShape, Stages
    <2> QED
      BY <1>1, <2>1 DEF OrderOK
  <1>9. JobOK' /\ JobSame'
    BY <1>1 DEF JobOK, JobSame, Unmoved, Idle
  <1>10. QuoteSame'
    <2>1. RatesNow' = RatesNow
      BY <1>1 DEF RatesNow, readGasPricing
    <2>2. ASSUME Priced # None, order.asked = moves
          PROVE  IsQuote(Priced, i, pool, gasPrice, RatesNow)
      <3>1. Unmoved
        BY <1>1, <1>2, <2>2 DEF Unmoved, BeganAt
      <3> QED
        BY <1>1, <1>2, <2>2, <3>1, QuoteIs
    <2> QED
      BY <1>1, <1>5, <2>1, <2>2 DEF QuoteSame
  <1>11. FreshTrue' /\ UnmovedIsFilled'
    BY <1>5 DEF FreshTrue, UnmovedIsFilled
  <1> QED
    BY <1>7, <1>8, <1>9, <1>10, <1>11 DEF QInv

\* What a fill spends is a token of some chain, and an amount.
LEMMA SpentOK ==
    ASSUME NEW i \in Intents, NEW path, PathShape(i, path)
    PROVE  /\ Spends(i, path) \in AllTokens /\ path.bridged \in Nat /\ i.amount \in Nat
           /\ (path.asset = None) => i.origin = i.destination
  <1>1. /\ i.origin \in Chains /\ i.destination \in Chains
        /\ i.tokenIn \in Tokens[i.origin] /\ i.tokenOut \in Tokens[i.destination] /\ i.amount \in Nat
    BY IntentsAssumption DEF IntentsAssumption
  <1>2. i.tokenIn \in AllTokens /\ i.tokenOut \in AllTokens
    BY <1>1 DEF AllTokens
  <1>3. path.legs = <<>> \/ Linked(i.destination, Spending(i, path.asset), i.tokenOut, path.legs)
    BY DEF PathShape, LegsShape
  <1>4. path.legs # <<>> => path.legs[1].in \in AllTokens
    <2> DEFINE legs == path.legs
    <2>1. SUFFICES ASSUME Linked(i.destination, Spending(i, path.asset), i.tokenOut, legs)
                   PROVE  legs[1].in \in AllTokens
      BY <1>3
    <2>2. legs \in Seq(Leg) /\ Len(legs) \in {1, 2}
      BY <2>1 DEF Linked
    <2> HIDE DEF legs
    <2>3. legs[1] \in Leg
      BY <2>2
    <2> QED
      BY <2>3 DEF Leg
  <1>5. path.asset \in AllOf(i) /\ path.bridged \in Nat
    BY DEF PathShape
  <1> QED
    BY <1>1, <1>2, <1>4, <1>5, AssetsNamed DEF Spends

\* Reserve keeps the invariant: the second pricing begins where it stands.
LEMMA ReserveStep ==
    ASSUME QInv, Answers(pool), Reserve
    PROVE  QInv'
  <1> DEFINE i == order.intent
  <1>1. /\ order.st = "QUOTED" /\ job = Idle /\ UNCHANGED <<pool, gasPrice, rates, moves>>
    BY DEF Reserve
  <1>2. order # NoOrder
    BY <1>1 DEF NoOrder
  <1>3. /\ OrderShape(order, moves) /\ order.intent \in Intents /\ moves \in Nat
        /\ order.asked \in 0..moves
        /\ order = [st |-> order.st, quote |-> order.quote, intent |-> order.intent,
                    asked |-> order.asked, checked |-> order.checked, fresh |-> order.fresh]
    BY <1>2, Ordered
  <1>4. QuoteShape(i, order.quote) /\ order.quote # None
    BY <1>1, <1>3 DEF OrderShape
  <1>5. RatesNow' = RatesNow /\ RatesOK'
    BY <1>1 DEF QInv, TypesOK, RatesOK, RatesNow, readGasPricing
  <1>6. Input(order) \in Nat /\ Spent(order) \in AllTokens
    <2>1. PathShape(i, order.quote.path)
      BY <1>4 DEF QuoteShape
    <2> QED
      BY <1>3, <2>1, SpentOK DEF Input, Spent
  <1> DEFINE credited == IF order.quote.path.asset = None
                         THEN [available EXCEPT ![Spent(order)] = @ + Input(order)] ELSE available
  <1>7. credited \in [AllTokens -> Int] /\ available \in [AllTokens -> Int]
    <2>1. available \in [AllTokens -> Int]
      BY DEF QInv, TypesOK
    <2> HIDE DEF Spent, Input
    <2> QED
      BY <1>6, <2>1
  <1>8. CASE credited[Spent(order)] < Input(order)
    <2>1. /\ order' = [order EXCEPT !.st = "INSUFFICIENT_INVENTORY"]
          /\ UNCHANGED <<job, available>>
      BY <1>8 DEF Reserve
    <2>2. order' = [st |-> "INSUFFICIENT_INVENTORY", quote |-> order.quote, intent |-> order.intent,
                    asked |-> order.asked, checked |-> order.checked, fresh |-> order.fresh]
      BY <1>3, <2>1
    <2>3. TypesOK'
      BY <1>1, <1>5, <2>1 DEF QInv, TypesOK
    <2>4. OrderOK'
      BY <1>1, <1>3, <2>2 DEF OrderOK, OrderShape, Stages
    <2>5. JobOK' /\ JobSame'
      BY <1>1, <2>1 DEF JobOK, JobSame, Unmoved, Idle
    <2>6. QuoteSame' /\ FreshTrue' /\ UnmovedIsFilled'
      BY <1>1, <1>2, <1>5, <2>2 DEF QInv, QuoteSame, FreshTrue, UnmovedIsFilled
    <2> QED
      BY <2>3, <2>4, <2>5, <2>6 DEF QInv
  <1>9. CASE ~(credited[Spent(order)] < Input(order))
    <2>1. /\ available' = [credited EXCEPT ![Spent(order)] = @ - Input(order)]
          /\ order' = [order EXCEPT !.st = "FILLING", !.checked = moves]
          /\ Begin("reprice", i)
      BY <1>9 DEF Reserve
    <2>2. order' = [st |-> "FILLING", quote |-> order.quote, intent |-> order.intent,
                    asked |-> order.asked, checked |-> moves, fresh |-> order.fresh]
      BY <1>3, <2>1
    <2>3. job' = [why |-> "reprice", intent |-> i, price |-> gasPrice, part |-> None, paths |-> {},
                  todo |-> AllOf(i)]
      BY <2>1 DEF Begin, AllOf
    <2>4. TypesOK'
      <3>1. available' \in [AllTokens -> Int]
        <4> HIDE DEF credited, Spent, Input
        <4> QED
          BY <1>6, <1>7, <2>1
      <3> QED
        BY <1>1, <1>5, <3>1 DEF QInv, TypesOK
    <2>5. OrderOK'
      BY <1>1, <1>3, <1>4, <2>2 DEF OrderOK, OrderShape, Stages
    <2>6. JobOK'
      <3>1. IsFiniteSet({}) /\ gasPrice \in [Chains -> Nat]
        BY FS_EmptySet DEF QInv, TypesOK
      <3>2. JobShape(job', i)
        BY <2>3, <3>1 DEF JobShape
      <3>3. order' # NoOrder
        <4>1. order'.st = "FILLING" /\ NoOrder.st = "none"
          BY <2>2 DEF NoOrder
        <4> QED
          BY <4>1
      <3> QED
        BY <2>2, <2>3, <3>2, <3>3 DEF JobOK
    <2>7. JobSame'
      <3>1. \A pools, R : JobTrue(job', i, pools, gasPrice, R)
        BY <2>3 DEF JobTrue, PathsOf
      <3> QED
        BY <1>1, <2>2, <3>1 DEF JobSame
    <2>8. QuoteSame' /\ FreshTrue' /\ UnmovedIsFilled'
      BY <1>1, <1>2, <1>5, <2>2 DEF QInv, QuoteSame, FreshTrue, UnmovedIsFilled
    <2> QED
      BY <2>4, <2>5, <2>6, <2>7, <2>8 DEF QInv
  <1> QED
    BY <1>8, <1>9

\* The quote, with nothing moved, is true of the pools.
LEMMA QuoteTrue ==
    ASSUME QInv, Answers(pool), NEW i \in Intents, NEW quote,
           IsQuote(quote, i, pool, gasPrice, RatesNow)
    PROVE  /\ PathShape(i, quote.path)
           /\ PathTrue(pool, i, gasPrice[i.destination], FillRate(RatesNow, i), quote.path)
  <1> DEFINE paths == PathsOf(pool, gasPrice, RatesNow, i, AllOf(i))
  <1>1. RatesKnown(RatesNow) /\ gasPrice \in [Chains -> Nat]
    BY RatesRead DEF QInv, TypesOK
  <1>2. /\ paths # {} /\ IsFiniteSet(paths) /\ quote.path = MaxBy(paths, netAmountOut)
        /\ \A asset \in AllOf(i) : Fine(pool, gasPrice, RatesNow, i, asset)
    BY DEF IsQuote
  <1>3. \A path \in paths :
            /\ PathShape(i, path)
            /\ PathTrue(pool, i, gasPrice[i.destination], FillRate(RatesNow, i), path)
    <2> SUFFICES ASSUME NEW path \in paths
                 PROVE  /\ PathShape(i, path)
                        /\ PathTrue(pool, i, gasPrice[i.destination], FillRate(RatesNow, i), path)
      OBVIOUS
    <2>1. PICK asset \in AllOf(i) : path \in PathsFor(pool, gasPrice, RatesNow, i, asset)
      BY DEF PathsOf
    <2> QED
      BY <1>1, <1>2, <2>1, PathsTrue
  <1> HIDE DEF paths
  <1>4. quote.path \in paths
    <2>1. \A path \in paths : netAmountOut(path) \in Int
      BY <1>3, NetInt
    <2> QED
      BY <1>2, <2>1, BestBridged
  <1> QED
    BY <1>3, <1>4

\* What the fill puts in is what the path was searched for.
LEMMA InputIs ==
    ASSUME NEW pools, NEW o, NEW price, NEW rate, PathShape(o.intent, o.quote.path),
           PathTrue(pools, o.intent, price, rate, o.quote.path)
    PROVE  Input(o) = o.quote.path.bridged
  <1>1. CASE o.quote.path.asset = None
    <2>1. o.quote.path.originLegs = <<>>
      BY <1>1 DEF PathShape, OriginShape
    <2> QED
      BY <1>1, <2>1 DEF PathTrue, OriginTrue, LegsGive, Carries, Input
  <1>2. CASE o.quote.path.asset # None
    BY <1>2 DEF Input
  <1> QED
    BY <1>1, <1>2

\* The order goes to be refunded.
LEMMA Refunds ==
    ASSUME QInv, order # NoOrder, order.st \in {"FILLING", "REPRICED"},
           UNCHANGED <<pool, gasPrice, rates, moves>>, job'.why = None,
           order' = [order EXCEPT !.st = "REFUNDING"], Release,
           order.asked = moves =>
               /\ order.quote.path.asset # None
               /\ available[Spent(order)] < Input(order)
    PROVE  QInv'
  <1> DEFINE i == order.intent
  <1>1. /\ OrderShape(order, moves) /\ order.intent \in Intents /\ moves \in Nat
        /\ order = [st |-> order.st, quote |-> order.quote, intent |-> order.intent,
                    asked |-> order.asked, checked |-> order.checked, fresh |-> order.fresh]
    BY Ordered
  <1>2. QuoteShape(i, order.quote) /\ order.quote # None
    BY <1>1 DEF OrderShape
  <1>3. order' = [st |-> "REFUNDING", quote |-> order.quote, intent |-> order.intent,
                  asked |-> order.asked, checked |-> order.checked, fresh |-> order.fresh]
    BY <1>1
  <1>4. Input(order) \in Nat /\ Spent(order) \in AllTokens
    <2>1. PathShape(i, order.quote.path)
      BY <1>2 DEF QuoteShape
    <2> QED
      BY <1>1, <2>1, SpentOK DEF Input, Spent
  <1>5. available \in [AllTokens -> Int] /\ available' = [available EXCEPT ![Spent(order)] = @ + Input(order)]
    BY DEF QInv, TypesOK, Release
  <1>6. Spent(order') = Spent(order) /\ Input(order') = Input(order)
    BY <1>3 DEF Spent, Input
  <1>7. /\ available' \in [AllTokens -> Int]
        /\ available'[Spent(order)] = available[Spent(order)] + Input(order)
    <2> HIDE DEF Spent, Input
    <2> QED
      BY <1>4, <1>5
  <1>8. RatesNow' = RatesNow /\ RatesOK'
    BY DEF QInv, TypesOK, RatesOK, RatesNow, readGasPricing
  <1>9. TypesOK'
    BY <1>7, <1>8 DEF QInv, TypesOK
  <1>10. OrderOK'
    BY <1>1, <1>2, <1>3 DEF OrderOK, OrderShape, Stages
  <1>11. JobOK' /\ JobSame'
    BY DEF JobOK, JobSame, Unmoved
  <1>12. QuoteSame' /\ FreshTrue'
    BY <1>3, <1>8 DEF QInv, QuoteSame, FreshTrue
  <1>13. UnmovedIsFilled'
    <2>1. SUFFICES ASSUME order.asked = moves
                   PROVE  /\ order.quote.path.asset # None
                          /\ available'[Spent(order)] < 2 * Input(order)
      BY <1>3, <1>6 DEF UnmovedIsFilled
    <2>2. available[Spent(order)] < Input(order) /\ order.quote.path.asset # None
      BY <2>1
    <2>3. available[Spent(order)] \in Int
      BY <1>4, <1>5
    <2> HIDE DEF Spent, Input
    <2> QED
      BY <1>4, <1>7, <2>2, <2>3
  <1> QED
    BY <1>9, <1>10, <1>11, <1>12, <1>13 DEF QInv

\* Repriced keeps the invariant: with nothing moved, the fresh quote is the first one
\* unless the account no longer holds what the fill spends.
LEMMA RepricedStep ==
    ASSUME QInv, Answers(pool), Repriced
    PROVE  QInv'
  <1> DEFINE i == order.intent
  <1>1. /\ job.why = "reprice" /\ job.part = None /\ job.todo = {} /\ job' = Idle
        /\ RepricedAt(Priced) /\ UNCHANGED <<pool, gasPrice, rates, moves>>
    BY DEF Repriced, Concluding
  <1>2. job.why # None /\ order # NoOrder /\ Idle.why = None
    BY <1>1, NoneAssumption DEF NoneAssumption, QInv, JobOK, Idle
  <1>3. /\ OrderShape(order, moves) /\ order.intent \in Intents /\ moves \in Nat
        /\ order = [st |-> order.st, quote |-> order.quote, intent |-> order.intent,
                    asked |-> order.asked, checked |-> order.checked, fresh |-> order.fresh]
    BY <1>2, Ordered
  <1>4. order.st = "FILLING"
    BY <1>1, <1>2 DEF QInv, JobOK
  <1>5. QuoteShape(i, order.quote) /\ order.quote # None /\ order.asked <= order.checked
    BY <1>3, <1>4 DEF OrderShape
  <1>6. RatesNow' = RatesNow /\ RatesOK'
    BY <1>1 DEF QInv, TypesOK, RatesOK, RatesNow, readGasPricing
  <1>7. CASE StillWorth(Priced, order.quote)
    <2>1. Priced # None
      BY <1>7 DEF StillWorth
    <2>2. order' = [st |-> "REPRICED", quote |-> order.quote, intent |-> order.intent,
                    asked |-> order.asked, checked |-> order.checked, fresh |-> Priced]
          /\ UNCHANGED available
      BY <1>1, <1>3, <1>7 DEF RepricedAt
    <2>3. QuoteShape(i, Priced)
      BY <1>2, <2>1, PricedOK
    <2>4. TypesOK'
      BY <1>1, <1>6, <2>2 DEF QInv, TypesOK
    <2>5. OrderOK'
      BY <1>1, <1>3, <1>5, <1>7, <2>2, <2>3 DEF OrderOK, OrderShape, Stages
    <2>6. JobOK' /\ JobSame'
      BY <1>1, <1>2 DEF JobOK, JobSame, Unmoved
    <2>7. QuoteSame' /\ UnmovedIsFilled'
      BY <1>1, <1>2, <1>6, <2>2 DEF QInv, QuoteSame, UnmovedIsFilled
    <2>8. FreshTrue'
      <3>1. SUFFICES ASSUME order.checked = moves
                     PROVE  PathTrue(pool, i, gasPrice[i.destination], FillRate(RatesNow, i), Priced.path)
        BY <1>1, <1>6, <2>2 DEF FreshTrue
      <3>2. Unmoved
        BY <1>1, <1>2, <3>1 DEF Unmoved, BeganAt
      <3>3. IsQuote(Priced, i, pool, gasPrice, RatesNow)
        BY <1>1, <1>2, <2>1, <3>2, QuoteIs
      <3> QED
        BY <1>3, <3>3, QuoteTrue
    <2> QED
      BY <2>4, <2>5, <2>6, <2>7, <2>8 DEF QInv
  <1>8. CASE ~StillWorth(Priced, order.quote)
    <2>1. order' = [order EXCEPT !.st = "REFUNDING"] /\ Release
      BY <1>1, <1>8 DEF RepricedAt
    <2>2. ASSUME order.asked = moves
          PROVE  /\ order.quote.path.asset # None
                 /\ available[Spent(order)] < Input(order)
      <3> DEFINE best == order.quote.path
      <3>1. /\ JobTrue(job, i, pool, gasPrice, RatesNow)
            /\ IsQuote(order.quote, i, pool, gasPrice, RatesNow)
        BY <1>2, <1>5, <2>2, RepriceFine
      <3>2. AllOf(i) \ job.todo = AllOf(i)
        BY <1>1
      <3>3. /\ job.paths # {} /\ best = MaxBy(job.paths, netAmountOut)
            /\ order.quote = priceQuote(best, i)
        BY <3>1, <3>2 DEF JobTrue, IsQuote
      <3>4. job.intent = i
        BY <1>2 DEF QInv, JobOK, JobShape
      <3>5. Priced = Covered(best)
        BY <3>3 DEF Priced
      <3>6. Priced # order.quote
        <4>1. order.quote.quoted \in Int /\ order.quote.fees.riskBuffer \in Nat
          BY <1>3, <1>5, QuoteCounts DEF FeesCount
        <4>2. StillWorth(order.quote, order.quote)
          BY <1>5, <4>1 DEF StillWorth
        <4> QED
          BY <1>8, <4>2
      <3> HIDE DEF best
      <3>7. best.asset # None /\ available[Spends(i, best)] < best.bridged
        BY <3>3, <3>4, <3>5, <3>6 DEF Covered
      <3> QED
        BY <3>7 DEF best, Spent, Input
    <2> QED
      BY <1>1, <1>2, <1>4, <2>1, <2>2, Refunds
  <1> QED
    BY <1>7, <1>8

\* Executed keeps the invariant: with nothing moved, the route gives what it was quoted.
LEMMA ExecutedStep ==
    ASSUME QInv, Answers(pool), Executed
    PROVE  QInv'
  <1> DEFINE i == order.intent
             acquired == Through(pool, order.quote.path.legs, Input(order))
  <1>1. /\ order.st = "REPRICED" /\ ExecutedWith(acquired)
        /\ UNCHANGED <<pool, gasPrice, rates, job, moves>>
    BY DEF Executed
  <1>2. order # NoOrder
    BY <1>1 DEF NoOrder
  <1>3. /\ OrderShape(order, moves) /\ order.intent \in Intents /\ moves \in Nat
        /\ order = [st |-> order.st, quote |-> order.quote, intent |-> order.intent,
                    asked |-> order.asked, checked |-> order.checked, fresh |-> order.fresh]
    BY <1>2, Ordered
  <1>4. QuoteShape(i, order.quote) /\ order.quote # None
    BY <1>1, <1>3 DEF OrderShape
  <1>5. job.why = None
    BY <1>1 DEF QInv, JobOK
  <1>6. RatesNow' = RatesNow /\ RatesOK'
    BY <1>1 DEF QInv, TypesOK, RatesOK, RatesNow, readGasPricing
  <1>7. CASE acquired = None \/ acquired < order.quote.quoted
    <2>1. order' = [order EXCEPT !.st = "REFUNDING"] /\ Release
      BY <1>1, <1>7 DEF ExecutedWith
    <2>2. ASSUME order.asked = moves PROVE FALSE
      <3>1. IsQuote(order.quote, i, pool, gasPrice, RatesNow)
        BY <1>2, <1>4, <2>2 DEF QInv, QuoteSame
      <3>2. /\ PathShape(i, order.quote.path)
            /\ PathTrue(pool, i, gasPrice[i.destination], FillRate(RatesNow, i), order.quote.path)
        BY <1>3, <3>1, QuoteTrue
      <3>3. Input(order) = order.quote.path.bridged
        BY <3>2, InputIs
      <3>4. acquired = order.quote.path.amountOut
        BY <1>3, <3>2, <3>3, RouteGives
      <3> HIDE DEF acquired
      <3>5. /\ order.quote.path.amountOut \in Nat /\ order.quote.quoted \in Int
            /\ order.quote.quoted <= order.quote.path.amountOut
        BY <1>3, <1>4, QuoteCounts
      <3>6. order.quote.path.amountOut # None
        BY <3>5, NoneAssumption DEF NoneAssumption
      <3> QED
        BY <1>7, <3>4, <3>5, <3>6
    <2> QED
      BY <1>1, <1>2, <1>5, <2>1, <2>2, Refunds
  <1>8. CASE ~(acquired = None \/ acquired < order.quote.quoted)
    <2>1. order' = [st |-> "FILLED", quote |-> order.quote, intent |-> order.intent,
                    asked |-> order.asked, checked |-> order.checked, fresh |-> order.fresh]
          /\ UNCHANGED available
      BY <1>1, <1>3, <1>8 DEF ExecutedWith
    <2>2. TypesOK'
      BY <1>1, <1>6, <2>1 DEF QInv, TypesOK
    <2>3. OrderOK'
      BY <1>1, <1>3, <2>1 DEF OrderOK, OrderShape, Stages
    <2>4. JobOK' /\ JobSame'
      BY <1>1, <1>5 DEF JobOK, JobSame, Unmoved
    <2>5. QuoteSame' /\ FreshTrue' /\ UnmovedIsFilled'
      BY <1>1, <1>2, <1>6, <2>1 DEF QInv, QuoteSame, FreshTrue, UnmovedIsFilled
    <2> QED
      BY <2>2, <2>3, <2>4, <2>5 DEF QInv
  <1> QED
    BY <1>7, <1>8

-----------------------------------------------------------------------------
(* Something moves.                                                        *)

\* Nothing that was asked for or checked before is unmoved.
LEMMA MovesOn ==
    ASSUME QInv, moves' = moves + 1, UNCHANGED <<rates, job, order>>,
           gasPrice' \in [Chains -> Nat], available' \in [AllTokens -> Int]
    PROVE  QInv'
  <1>1. moves \in Nat
    BY DEF QInv, TypesOK
  <1>2. TypesOK'
    <2>1. RatesOK'
      <3>1. RatesOK /\ rates' = rates
        BY DEF QInv, TypesOK
      <3> QED
        BY <3>1 DEF RatesOK
    <2>2. moves + 1 \in Nat
      BY <1>1
    <2> QED
      BY <2>1, <2>2 DEF TypesOK
  <1>3. OrderOK'
    <2>1. CASE order = NoOrder
      BY <2>1 DEF OrderOK
    <2>2. CASE order # NoOrder
      <3>1. OrderShape(order, moves)
        BY <2>2, Ordered
      <3>2. 0..moves \subseteq 0..(moves + 1)
        BY <1>1
      <3>3. OrderShape(order, moves + 1)
        BY <3>1, <3>2 DEF OrderShape
      <3> QED
        BY <3>3 DEF OrderOK
    <2> QED
      BY <2>1, <2>2
  <1>4. JobOK'
    BY DEF QInv, JobOK
  <1>5. order # NoOrder => order.asked # moves' /\ order.checked # moves'
    BY <1>1, Ordered
  <1>6. JobSame'
    <2>1. job.why # None => order # NoOrder
      BY DEF QInv, JobOK
    <2> QED
      BY <1>5, <2>1 DEF JobSame, Unmoved, BeganAt
  <1>7. order.st \in {"REPRICED", "FILLED", "REFUNDING", "thrown"} => order # NoOrder
    BY DEF NoOrder
  <1>8. QuoteSame' /\ FreshTrue' /\ UnmovedIsFilled'
    BY <1>5, <1>7 DEF QuoteSame, FreshTrue, UnmovedIsFilled
  <1> QED
    BY <1>2, <1>3, <1>4, <1>6, <1>8 DEF QInv

\* A move of the market keeps the invariant: nothing was unmoved that is not now.
LEMMA MarketStep ==
    ASSUME QInv,
           \/ \E p \in PoolIds : \/ \E a \in Trades, f \in BOOLEAN : Trade(p, a, f)
                                  \/ \E r \in Positions : Mint(p, r)
           \/ \E c \in Chains : GasMoves(c) \/ \E t \in Tokens[c] : Promised(t)
    PROVE  QInv'
  <1>1. gasPrice \in [Chains -> Nat] /\ available \in [AllTokens -> Int]
    BY DEF QInv, TypesOK
  <1>2. CASE \E p \in PoolIds : \/ \E a \in Trades, f \in BOOLEAN : Trade(p, a, f)
                                 \/ \E r \in Positions : Mint(p, r)
    BY <1>1, <1>2, MovesOn DEF Trade, Mint, Move
  <1>3. ASSUME NEW c \in Chains, GasMoves(c) PROVE QInv'
    <2>1. PICK g \in GasPrices[c] : gasPrice' = [gasPrice EXCEPT ![c] = g]
      BY <1>3 DEF GasMoves
    <2>2. g \in Nat
      BY NumbersAssumption DEF NumbersAssumption
    <2>3. gasPrice' \in [Chains -> Nat]
      BY <1>1, <2>1, <2>2
    <2> QED
      BY <1>1, <1>3, <2>3, MovesOn DEF GasMoves, Move
  <1>4. ASSUME NEW c \in Chains, NEW t \in Tokens[c], Promised(t) PROVE QInv'
    <2>1. available' = [available EXCEPT ![t] = 0]
      BY <1>4 DEF Promised
    <2>2. available' \in [AllTokens -> Int]
      <3> DEFINE all == AllTokens
      <3>1. available \in [all -> Int] /\ 0 \in Int
        BY <1>1
      <3> HIDE DEF all
      <3>2. [available EXCEPT ![t] = 0] \in [all -> Int]
        BY <3>1
      <3> QED
        BY <2>1, <3>2 DEF all
    <2> QED
      BY <1>1, <1>4, <2>2, MovesOn DEF Promised, Move
  <1> QED
    BY <1>2, <1>3, <1>4

-----------------------------------------------------------------------------
(* The theorems.                                                           *)

\* The invariant holds at first.
LEMMA QInit ==
    ASSUME Init
    PROVE  QInv
  <1>1. /\ gasPrice = [c \in Chains |-> CHOOSE g \in GasPrices[c] : \A h \in GasPrices[c] : g <= h]
        /\ rates = [c \in Routers |-> [t \in Tokens[c] |-> None]]
        /\ job = Idle /\ order = NoOrder /\ available \in Held /\ moves = 0
    BY DEF Init
  <1>2. gasPrice \in [Chains -> Nat]
    <2>1. ASSUME NEW c \in Chains
          PROVE  (CHOOSE g \in GasPrices[c] : \A h \in GasPrices[c] : g <= h) \in Nat
      <3>1. GasPrices[c] \in SUBSET Nat /\ GasPrices[c] # {}
        BY NumbersAssumption DEF NumbersAssumption
      <3>2. \E g \in GasPrices[c] : \A h \in GasPrices[c] : g <= h
        BY <3>1, Least
      <3> QED
        BY <3>1, <3>2
    <2> QED
      BY <1>1, <2>1
  <1>3. available \in [AllTokens -> Int]
    <2>1. Held \subseteq [AllTokens -> Nat]
      BY NumbersAssumption DEF NumbersAssumption
    <2> QED
      BY <1>1, <2>1
  <1>4. TypesOK
    BY <1>1, <1>2, <1>3 DEF TypesOK, RatesOK, KnownRate
  <1>5. OrderOK /\ JobOK /\ JobSame
    BY <1>1 DEF OrderOK, JobOK, JobSame, Unmoved, Idle
  <1>6. QuoteSame /\ FreshTrue /\ UnmovedIsFilled
    BY <1>1 DEF QuoteSame, FreshTrue, UnmovedIsFilled, NoOrder
  <1> QED
    BY <1>4, <1>5, <1>6 DEF QInv

\* Every step keeps the invariant.
LEMMA QStep ==
    ASSUME QInv, Answers(pool), [Next]_vars
    PROVE  QInv'
  <1>1. ASSUME NEW i \in Intents, QuoteIntent(i) PROVE QInv'
    BY <1>1, QuoteIntentStep
  <1>2. CASE Local
    BY <1>2, LocalStep
  <1>3. ASSUME NEW a \in Assets, Value(a) PROVE QInv'
    BY <1>3, ValueStep
  <1>4. CASE Carry
    BY <1>4, CarryStep
  <1>5. CASE Fill
    BY <1>5, FillStep
  <1>6. CASE Quoted
    BY <1>6, QuotedStep
  <1>7. CASE Reserve
    BY <1>7, ReserveStep
  <1>8. CASE Repriced
    BY <1>8, RepricedStep
  <1>9. CASE Executed
    BY <1>9, ExecutedStep
  <1>10. CASE UNCHANGED vars
    BY <1>10 DEF vars, QInv, TypesOK, RatesOK, OrderOK, JobOK, JobSame, Unmoved, BeganAt, QuoteSame,
                 FreshTrue, UnmovedIsFilled, RatesNow, readGasPricing, Spent, Input
  <1>11. CASE Ended
    BY <1>10, <1>11 DEF Ended
  <1> QED
    BY <1>1, <1>2, <1>3, <1>4, <1>5, <1>6, <1>7, <1>8, <1>9, <1>10, <1>11, MarketStep DEF Next

\* The invariant: what an order was quoted is, until something moves, what its pools,
\* rates and gas prices make it (priceIntent of solver.ts), at every read of a pricing.
THEOREM QInvariant == Spec => []QInv
  <1>1. Init => QInv
    BY QInit
  <1>2. PoolsInv => Answers(pool)
    BY AnswersOK DEF PoolsInv
  <1>3. QInv /\ PoolsInv /\ [Next]_vars => QInv'
    BY <1>2, QStep
  <1> QED
    BY <1>1, <1>3, PoolsStayOK, PTL DEF Spec

\* What a fill makes, of an order as the invariant has it.
LEMMA BufferHolds ==
    ASSUME QInv
    PROVE  FillWithinBuffer
  <1> DEFINE i == order.intent
             c == i.destination
             quote == order.quote
             fresh == order.fresh
             rate == FillRate(RatesNow, i)
  <1>1. SUFFICES ASSUME order.st = "FILLED", order.checked = moves,
                        Route(fresh.path.legs) = Route(quote.path.legs),
                        Route(fresh.path.originLegs) = Route(quote.path.originLegs)
                 PROVE  Worth(order) - CostsNow(order)
                            >= quote.quoted + fresh.fees.service
                                   - (quote.fees.riskBuffer - fresh.fees.riskBuffer)
    BY DEF FillWithinBuffer
  <1>2. order # NoOrder
    BY <1>1 DEF NoOrder
  <1>3. OrderShape(order, moves) /\ i \in Intents
    BY <1>2, Ordered
  <1>4. QuoteShape(i, quote) /\ QuoteShape(i, fresh) /\ StillWorth(fresh, quote)
    BY <1>1, <1>3 DEF OrderShape
  <1>5. PathTrue(pool, i, gasPrice[c], rate, fresh.path)
    BY <1>1 DEF QInv, FreshTrue
  <1>6. PathShape(i, quote.path) /\ PathShape(i, fresh.path)
    BY <1>4 DEF QuoteShape
  <1>7. /\ fresh.path.asset = quote.path.asset
        /\ Carries(i, quote.path.asset, Through(pool, quote.path.originLegs, i.amount)) = fresh.path.bridged
        /\ Through(pool, quote.path.legs, fresh.path.bridged) = fresh.path.amountOut
        /\ gasCostIn(gasPrice[c], rate, GasOfRoute(Route(quote.path.legs))) = fresh.path.gasCost
    <2> HIDE DEF rate, quote, fresh
    <2> QED
      BY <1>1, <1>3, <1>5, <1>6, RouteGives
  <1>8. Worth(order) = fresh.path.amountOut
    BY <1>7 DEF Worth, Carries
  <1>9. rate = ReferenceRate(pool, c, i.tokenOut)
    <2>1. c \in Chains /\ c \notin Routers /\ i.tokenOut \in Tokens[c]
      BY <1>3, IntentsAssumption DEF IntentsAssumption
    <2> QED
      BY <2>1 DEF FillRate, RatesNow, readGasPricing
  <1>10. CostsNow(order) = fresh.path.gasCost + fresh.path.settlement + fresh.path.rebalance + fresh.fees.app
    BY <1>7, <1>9 DEF CostsNow
  <1>11. /\ fresh.quoted = QuotedAmount(fresh.path, fresh.fees) /\ FeesCount(fresh.fees)
         /\ fresh.path.amountOut \in Nat
         /\ fresh.fees.gas = fresh.path.gasCost /\ fresh.fees.settlement = fresh.path.settlement
         /\ fresh.fees.rebalance = fresh.path.rebalance
         /\ FeesCount(quote.fees) /\ quote.quoted \in Int
    BY <1>3, <1>4, QuoteCounts
  <1>12. fresh.quoted >= quote.quoted - quote.fees.riskBuffer
    BY <1>4 DEF StillWorth
  <1> DEFINE a == fresh.path.amountOut
             g == fresh.path.gasCost
             s == fresh.path.settlement
             r == fresh.path.rebalance
             x == fresh.fees.app
             v == fresh.fees.service
             b == fresh.fees.riskBuffer
             q == quote.quoted
             k == quote.fees.riskBuffer
  <1>13. {a, g, s, r, x, v, b, k} \subseteq Nat /\ q \in Int
    BY <1>11 DEF FeesCount
  <1>14. a - g - v - x - s - r - b >= q - k
    BY <1>11, <1>12 DEF QuotedAmount
  <1>15. Worth(order) = a /\ CostsNow(order) = g + s + r + x
    BY <1>8, <1>10
  <1> HIDE DEF a, g, s, r, x, v, b, q, k
  <1>16. a - (g + s + r + x) >= q + v - (k - b)
    BY <1>13, <1>14
  <1> QED
    BY <1>15, <1>16 DEF q, v, k, b

\* A fill whose quoted route is still the best, with nothing moved since it was
\* priced again, makes what the user is paid and the solver's fee, less what the
\* buffer has shrunk by (executor.ts:224, StillWorth).
THEOREM FillKeepsWithinBuffer == Spec => []FillWithinBuffer
  BY QInvariant, BufferHolds, PTL

\* An order nothing has moved for since it was asked is filled, if the account holds
\* twice what the fill spends.
THEOREM UnmovedFilled == Spec => []UnmovedIsFilled
  <1>1. QInv => UnmovedIsFilled
    BY DEF QInv
  <1> QED
    BY <1>1, QInvariant, PTL

=============================================================================
