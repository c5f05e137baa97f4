----------------------------- MODULE FiniteSums -----------------------------
(***************************************************************************)
(* Sums over finite sets, as the library defines them: by a recursion that *)
(* takes out an element it chooses.  A function that sums every subset     *)
(* exists and is the only one, so a sum takes its elements out in any      *)
(* order, and changes by what one of its numbers changes.                  *)
(***************************************************************************)
EXTENDS Integers, Functions, FiniteSetTheorems, WellFoundedInduction, TLAPS

Pick(s) == CHOOSE x \in s : TRUE

\* g sums f over every subset of S.
Sums(g, f, S) ==
    g = [s \in SUBSET S |-> IF s = {} THEN 0 ELSE f[Pick(s)] + g[s \ {Pick(s)}]]

\* The library's sum is the function that sums, when there is one.
LEMMA SumIs ==
    ASSUME NEW f, NEW S, NEW g, Sums(g, f, S), \A h : Sums(h, f, S) => h = g
    PROVE  SumFunctionOnSet(f, S) = g[S]
  BY DEF SumFunctionOnSet, FoldFunctionOnSet, MapThenFoldSet, Sums, Pick

\* A set of numbers has a least one.
LEMMA Least ==
    ASSUME NEW N \in SUBSET Nat, N # {}
    PROVE  \E n \in N : \A m \in N : n <= m
  <1>1. PICK n \in N : \A m \in N : ~ (<<m, n>> \in OpToRel(<, Nat))
    BY WFMin, NatLessThanWellFounded
  <1>2. \A m \in N : ~ (m < n)
    BY <1>1 DEF OpToRel
  <1> QED
    BY <1>2

\* Of some subsets of a finite set, one has no smaller among them.
LEMMA Smallest ==
    ASSUME NEW S, IsFiniteSet(S), NEW B \in SUBSET SUBSET S, B # {}
    PROVE  \E s \in B : /\ IsFiniteSet(s)
                        /\ \A x \in s : s \ {x} \notin B
  <1> DEFINE N == {Cardinality(s) : s \in B}
  <1>1. \A s \in SUBSET S : IsFiniteSet(s) /\ Cardinality(s) \in Nat
    BY FS_Subset, FS_CardinalityType
  <1>2. PICK n \in N : \A m \in N : n <= m
    <2>1. N \in SUBSET Nat /\ N # {}
      BY <1>1
    <2> HIDE DEF N
    <2> QED
      BY <2>1, Least
  <1>3. PICK s \in B : Cardinality(s) = n
    BY <1>2
  <1>4. ASSUME NEW x \in s, s \ {x} \in B PROVE FALSE
    <2>1. Cardinality(s \ {x}) = Cardinality(s) - 1
      BY <1>1, <1>3, FS_RemoveElement
    <2>2. n <= Cardinality(s \ {x})
      BY <1>4, <1>2
    <2> QED
      BY <2>1, <2>2, <1>1, <1>3
  <1> QED
    BY <1>1, <1>3, <1>4

\* What SumFunctionOnSet computes.
Totals(g, f, S) ==
    /\ g \in [SUBSET S -> Int]
    /\ Sums(g, f, S)
    /\ \A s \in SUBSET S : SumFunctionOnSet(f, s) = g[s]

\* A sum over a finite set takes its elements out in any order.
LEMMA AnyOrder ==
    ASSUME NEW S, IsFiniteSet(S), NEW f \in [S -> Int], NEW g, Totals(g, f, S), NEW z \in S
    PROVE  SumFunctionOnSet(f, S) = f[z] + SumFunctionOnSet(f, S \ {z})
  <1> DEFINE B == {s \in SUBSET S : \E x \in s : g[s] # f[x] + g[s \ {x}]}
  <1> g \in [SUBSET S -> Int] /\ Sums(g, f, S)
    BY DEF Totals
  <1>2. \A s \in SUBSET S : s # {} => Pick(s) \in s /\ g[s] = f[Pick(s)] + g[s \ {Pick(s)}]
    BY DEF Sums, Pick
  <1>3. SUFFICES ASSUME B # {} PROVE FALSE
    <2>1. SUFFICES g[S] = f[z] + g[S \ {z}]
      BY DEF Totals
    <2>2. B = {} => g[S] = f[z] + g[S \ {z}]
      OBVIOUS
    <2> QED
      BY <2>2
  <1>4. PICK s \in B : \A y \in s : s \ {y} \notin B
    <2>1. B \in SUBSET SUBSET S
      OBVIOUS
    <2> HIDE DEF B
    <2> QED
      BY <1>3, <2>1, Smallest
  <1>5. PICK x \in s : g[s] # f[x] + g[s \ {x}]
    BY <1>4
  <1> DEFINE c == Pick(s)
  <1>6. s \in SUBSET S /\ c \in s /\ g[s] = f[c] + g[s \ {c}] /\ c # x
    BY <1>2, <1>4, <1>5
  <1>7. g[s \ {c}] = f[x] + g[(s \ {c}) \ {x}]
    BY <1>4, <1>5, <1>6
  <1>8. g[s \ {x}] = f[c] + g[(s \ {c}) \ {x}]
    <2>1. (s \ {x}) \ {c} = (s \ {c}) \ {x}
      OBVIOUS
    <2> QED
      BY <1>4, <1>5, <1>6, <2>1
  <1>9. f[x] \in Int /\ f[c] \in Int /\ g[(s \ {c}) \ {x}] \in Int
    BY <1>4, <1>5, <1>6
  <1>10. g[s] = f[c] + (f[x] + g[(s \ {c}) \ {x}])
    BY <1>6, <1>7
  <1> HIDE DEF B, c
  <1>11. g[s] = f[x] + (f[c] + g[(s \ {c}) \ {x}])
    BY <1>9, <1>10
  <1> QED
    BY <1>5, <1>8, <1>11

\* Two such functions are one where both are defined, if the numbers are.
LEMMA OneSum ==
    ASSUME NEW S, NEW T \in SUBSET S, IsFiniteSet(S), NEW f, NEW e, NEW g, NEW h,
           \A x \in T : f[x] = e[x], Sums(g, f, S), Sums(h, e, T)
    PROVE  \A s \in SUBSET T : g[s] = h[s]
  <1> DEFINE B == {s \in SUBSET T : g[s] # h[s]}
  <1>1. /\ \A s \in SUBSET S : g[s] = IF s = {} THEN 0 ELSE f[Pick(s)] + g[s \ {Pick(s)}]
        /\ \A s \in SUBSET T : h[s] = IF s = {} THEN 0 ELSE e[Pick(s)] + h[s \ {Pick(s)}]
        /\ \A s \in SUBSET T : s # {} => Pick(s) \in s
    BY DEF Sums, Pick
  <1>2. SUFFICES ASSUME B # {} PROVE FALSE
    OBVIOUS
  <1>3. PICK s \in B : \A y \in s : s \ {y} \notin B
    <2>1. B \in SUBSET SUBSET T /\ IsFiniteSet(T)
      BY FS_Subset
    <2> HIDE DEF B
    <2> QED
      BY <1>2, <2>1, Smallest
  <1>4. CASE s = {}
    BY <1>1, <1>3, <1>4
  <1>5. CASE s # {}
    <2> DEFINE c == Pick(s)
    <2>1. c \in s /\ f[c] = e[c] /\ s \ {c} \in SUBSET T /\ s \in SUBSET S
      BY <1>1, <1>3, <1>5
    <2>2. g[s \ {c}] = h[s \ {c}]
      BY <1>3, <2>1
    <2> QED
      BY <1>1, <1>3, <1>5, <2>1, <2>2
  <1> QED
    BY <1>4, <1>5

\* There is one: by the size of the subsets it is defined for.
LEMMA SomeSum ==
    ASSUME NEW S, IsFiniteSet(S), NEW f \in [S -> Int]
    PROVE  \E g \in [SUBSET S -> Int] : Sums(g, f, S)
  <1> DEFINE Upto(n) == {s \in SUBSET S : Cardinality(s) <= n}
             Step(g, s) == IF s = {} THEN 0 ELSE f[Pick(s)] + g[s \ {Pick(s)}]
             Good(n) == \E g \in [Upto(n) -> Int] : \A s \in Upto(n) : g[s] = Step(g, s)
             Bad == {n \in Nat : ~Good(n)}
  <1>1. \A s \in SUBSET S : /\ IsFiniteSet(s) /\ Cardinality(s) \in Nat
                            /\ Cardinality(s) <= Cardinality(S)
                            /\ Cardinality(s) = 0 <=> s = {}
    BY FS_Subset, FS_CardinalityType, FS_EmptySet
  <1>2. \A s \in SUBSET S : s # {} => /\ Pick(s) \in s /\ s \ {Pick(s)} \in SUBSET S
                                     /\ Cardinality(s \ {Pick(s)}) = Cardinality(s) - 1
    BY <1>1, FS_RemoveElement DEF Pick
  <1>3. Bad = {}
    <2>1. SUFFICES ASSUME Bad # {} PROVE FALSE
      OBVIOUS
    <2>2. PICK n \in Nat : ~Good(n) /\ \A m \in Nat : ~Good(m) => n <= m
      <3> HIDE DEF Good
      <3>1. Bad \in SUBSET Nat
        OBVIOUS
      <3>2. PICK n \in Bad : \A m \in Bad : n <= m
        <4> HIDE DEF Bad
        <4> QED
          BY <2>1, <3>1, Least
      <3> QED
        BY <3>2
    <2>3. CASE n = 0
      <3> DEFINE g == [s \in Upto(0) |-> 0]
      <3>1. \A s \in Upto(0) : s = {}
        BY <1>1
      <3>2. g \in [Upto(0) -> Int] /\ \A s \in Upto(0) : g[s] = Step(g, s)
        BY <3>1
      <3> QED
        BY <2>2, <2>3, <3>2
    <2>4. CASE n # 0
      <3>1. n - 1 \in Nat /\ n \in Nat /\ ~Good(n) /\ Good(n - 1)
        <4> HIDE DEF Good
        <4> QED
          BY <2>2, <2>4
      <3>3. PICK g \in [Upto(n - 1) -> Int] : \A s \in Upto(n - 1) : g[s] = Step(g, s)
        BY <3>1
      <3> DEFINE h == [s \in Upto(n) |-> Step(g, s)]
      <3>4. \A s \in Upto(n) : s # {} => s \ {Pick(s)} \in Upto(n - 1) /\ Pick(s) \in S
        BY <1>1, <1>2, <3>1
      <3>5. h \in [Upto(n) -> Int]
        BY <3>3, <3>4
      <3>6. \A s \in Upto(n - 1) : s \in Upto(n) /\ h[s] = g[s]
        <4>1. \A s \in Upto(n - 1) : s \in Upto(n)
          BY <1>1, <3>1
        <4> QED
          BY <4>1, <3>3
      <3>7. \A s \in Upto(n) : h[s] = Step(h, s)
        BY <3>4, <3>6
      <3> QED
        BY <3>1, <3>5, <3>7
    <2> QED
      BY <2>3, <2>4
  <1>4. Cardinality(S) \in Nat /\ Upto(Cardinality(S)) = SUBSET S
    BY <1>1
  <1>5. Good(Cardinality(S))
    BY <1>3, <1>4
  <1>6. PICK g \in [SUBSET S -> Int] : \A s \in SUBSET S : g[s] = Step(g, s)
    BY <1>4, <1>5
  <1> QED
    BY <1>6 DEF Sums

\* Over a finite set there is one, and it is the library's.
LEMMA Summed ==
    ASSUME NEW S, IsFiniteSet(S), NEW f \in [S -> Int]
    PROVE  \E g : Totals(g, f, S)
  <1>1. PICK g \in [SUBSET S -> Int] : Sums(g, f, S)
    BY SomeSum
  <1>2. ASSUME NEW s \in SUBSET S PROVE SumFunctionOnSet(f, s) = g[s]
    <2> DEFINE r == [x \in s |-> f[x]]
    <2>1. IsFiniteSet(s) /\ r \in [s -> Int] /\ \A x \in s : f[x] = r[x]
      BY FS_Subset
    <2>2. PICK h \in [SUBSET s -> Int] : Sums(h, r, s)
      BY <2>1, SomeSum
    <2>3. Sums(h, f, s)
      BY <2>1, <2>2 DEF Sums, Pick
    <2>4. ASSUME NEW k, Sums(k, f, s) PROVE k = h
      <3>1. \A u \in SUBSET s : k[u] = h[u]
        BY <2>1, <2>3, <2>4, OneSum
      <3> QED
        BY <2>3, <2>4, <3>1 DEF Sums
    <2>5. SumFunctionOnSet(f, s) = h[s]
      BY <2>3, <2>4, SumIs
    <2>6. h[s] = g[s]
      BY <1>1, <2>3, OneSum
    <2> QED
      BY <2>5, <2>6
  <1> QED
    BY <1>1, <1>2 DEF Totals

\* A sum of zeroes.
LEMMA SumZero ==
    ASSUME NEW S, IsFiniteSet(S), NEW f \in [S -> Int], \A x \in S : f[x] = 0
    PROVE  SumFunction(f) = 0
  <1> DEFINE z == [s \in SUBSET S |-> 0]
  <1>1. PICK g : Totals(g, f, S)
    BY Summed
  <1>2. Sums(z, f, S)
    BY DEF Sums, Pick
  <1> HIDE DEF z
  <1>3. g[S] = z[S]
    BY <1>1, <1>2, OneSum DEF Totals
  <1> QED
    BY <1>1, <1>3 DEF SumFunction, z, Totals

\* A sum without one of its terms.
LEMMA SumSplit ==
    ASSUME NEW S, IsFiniteSet(S), NEW f \in [S -> Int], NEW x \in S
    PROVE  /\ SumFunctionOnSet(f, S \ {x}) \in Int
           /\ SumFunctionOnSet(f, S) = f[x] + SumFunctionOnSet(f, S \ {x})
  <1>1. PICK g : Totals(g, f, S)
    BY Summed
  <1>2. SumFunctionOnSet(f, S \ {x}) \in Int
    BY <1>1 DEF Totals
  <1> QED
    BY <1>1, <1>2, AnyOrder

\* Functions that agree have one sum.
LEMMA SumAgree ==
    ASSUME NEW S, IsFiniteSet(S), NEW f \in [S -> Int], NEW e \in [S -> Int],
           NEW T \in SUBSET S, \A y \in T : e[y] = f[y]
    PROVE  SumFunctionOnSet(e, T) = SumFunctionOnSet(f, T)
  <1>1. PICK g : Totals(g, f, S)
    BY Summed
  <1>2. PICK h : Totals(h, e, S)
    BY Summed
  <1>3. PICK k \in [SUBSET T -> Int] : Sums(k, f, T)
    <2> DEFINE r == [y \in T |-> f[y]]
    <2>1. IsFiniteSet(T) /\ r \in [T -> Int] /\ \A y \in T : f[y] = r[y]
      BY FS_Subset
    <2>2. PICK k \in [SUBSET T -> Int] : Sums(k, r, T)
      <3> HIDE DEF r
      <3> QED
        BY <2>1, SomeSum
    <2>3. Sums(k, f, T)
      BY <2>1, <2>2 DEF Sums, Pick
    <2> QED
      BY <2>3
  <1>4. g[T] = k[T] /\ h[T] = k[T]
    BY <1>1, <1>2, <1>3, OneSum DEF Totals
  <1> QED
    BY <1>1, <1>2, <1>4 DEF Totals

\* One number changes, and the sum by as much.
LEMMA SumChange ==
    ASSUME NEW S, IsFiniteSet(S), NEW f \in [S -> Int], NEW e \in [S -> Int],
           NEW x \in S, \A y \in S \ {x} : e[y] = f[y]
    PROVE  /\ SumFunction(f) \in Int /\ SumFunction(e) \in Int
           /\ SumFunction(e) = SumFunction(f) - f[x] + e[x]
  <1>1. SumFunctionOnSet(e, S \ {x}) = SumFunctionOnSet(f, S \ {x})
    BY SumAgree
  <1>2. /\ SumFunctionOnSet(f, S \ {x}) \in Int
        /\ SumFunctionOnSet(f, S) = f[x] + SumFunctionOnSet(f, S \ {x})
    BY SumSplit
  <1>3. SumFunctionOnSet(e, S) = e[x] + SumFunctionOnSet(e, S \ {x})
    BY SumSplit
  <1>4. f[x] \in Int /\ e[x] \in Int
    OBVIOUS
  <1>5. SumFunction(f) = SumFunctionOnSet(f, S) /\ SumFunction(e) = SumFunctionOnSet(e, S)
    BY DEF SumFunction
  <1> QED
    BY <1>1, <1>2, <1>3, <1>4, <1>5

\* One number of a sum over a part of S changes.
LEMMA SumMoves ==
    ASSUME NEW S, IsFiniteSet(S), NEW f \in [S -> Int], NEW e \in [S -> Int], NEW x \in S, NEW d \in Int,
           e[x] = f[x] + d, \A y \in S \ {x} : e[y] = f[y], NEW T \in SUBSET S
    PROVE  /\ SumFunctionOnSet(f, T) \in Int
           /\ SumFunctionOnSet(e, T) = SumFunctionOnSet(f, T) + (IF x \in T THEN d ELSE 0)
  <1> DEFINE g == [y \in T |-> f[y]]
             h == [y \in T |-> e[y]]
  <1>2. PICK z : Totals(z, f, S)
    BY Summed
  <1>3. SumFunctionOnSet(f, T) \in Int
    BY <1>2 DEF Totals
  <1>4. CASE x \notin T
    <2>1. \A y \in T : e[y] = f[y]
      BY <1>4
    <2>2. SumFunctionOnSet(e, T) = SumFunctionOnSet(f, T)
      BY <2>1, SumAgree
    <2> QED
      BY <1>3, <1>4, <2>2
  <1>5. CASE x \in T
    <2>0. IsFiniteSet(T) /\ g \in [T -> Int] /\ h \in [T -> Int] /\ h[x] = g[x] + d
          /\ \A y \in T \ {x} : h[y] = g[y]
      BY <1>5, FS_Subset
    <2>1. \A y \in T : g[y] = f[y] /\ h[y] = e[y]
      OBVIOUS
    <2> HIDE DEF g, h
    <2>2. SumFunctionOnSet(f, T) = SumFunctionOnSet(g, T) /\ SumFunctionOnSet(e, T) = SumFunctionOnSet(h, T)
      <3>1. PICK u : Totals(u, f, S)
        BY Summed
      <3>2. PICK v : Totals(v, e, S)
        BY Summed
      <3>3. PICK a : Totals(a, g, T)
        BY <2>0, Summed
      <3>4. PICK b : Totals(b, h, T)
        BY <2>0, Summed
      <3>5. u[T] = a[T]
        BY <2>1, <3>1, <3>3, OneSum DEF Totals
      <3>6. v[T] = b[T]
        BY <2>1, <3>2, <3>4, OneSum DEF Totals
      <3> QED
        BY <3>1, <3>2, <3>3, <3>4, <3>5, <3>6 DEF Totals
    <2>3. SumFunction(g) = SumFunctionOnSet(g, T) /\ SumFunction(h) = SumFunctionOnSet(h, T)
      BY <2>0 DEF SumFunction
    <2>4. /\ SumFunction(g) \in Int /\ SumFunction(h) \in Int
          /\ SumFunction(h) = SumFunction(g) - g[x] + h[x]
      BY <1>5, <2>0, SumChange
    <2>5. g[x] \in Int /\ h[x] = g[x] + d
      BY <1>5, <2>0
    <2>6. SumFunctionOnSet(e, T) = SumFunctionOnSet(f, T) + d
      BY <2>2, <2>3, <2>4, <2>5
    <2> QED
      BY <1>3, <1>5, <2>6
  <1> QED
    BY <1>3, <1>4, <1>5

\* A sum of zeroes.
LEMMA NothingSums ==
    ASSUME NEW S, IsFiniteSet(S), NEW f \in [S -> Int], NEW T \in SUBSET S, \A y \in T : f[y] = 0
    PROVE  SumFunctionOnSet(f, T) = 0
  <1> DEFINE g == [y \in T |-> f[y]]
  <1>1. IsFiniteSet(T) /\ g \in [T -> Int] /\ \A y \in T : g[y] = 0 /\ g[y] = f[y]
    BY FS_Subset
  <1> HIDE DEF g
  <1>2. PICK u : Totals(u, f, S)
    BY Summed
  <1>3. PICK a : Totals(a, g, T)
    BY <1>1, Summed
  <1>4. u[T] = a[T]
    BY <1>1, <1>2, <1>3, OneSum DEF Totals
  <1>5. SumFunction(g) = 0 /\ SumFunction(g) = SumFunctionOnSet(g, T)
    BY <1>1, SumZero DEF SumFunction
  <1> QED
    BY <1>2, <1>3, <1>4, <1>5 DEF Totals

=============================================================================
