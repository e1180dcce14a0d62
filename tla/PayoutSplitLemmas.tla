-------------------------- MODULE PayoutSplitLemmas --------------------------
(***************************************************************************)
(* What the split of a reward computes, for every round: facts about sums  *)
(* over finite sets and about numbering a set along an order, and from     *)
(* them the facts about the operators of PayoutSplit that the theorems     *)
(* about the split, the ledger and the rebuild tool use.                   *)
(*                                                                         *)
(* The library's induction theorems take a predicate, which cannot be      *)
(* instantiated here; induction is therefore over sets: a set of naturals  *)
(* that has 0 and is closed under successor, a set of finite sets that has *)
(* {} and is closed under one more element.  Functions that a recursion    *)
(* defines exist by RecursionExists.                                       *)
(***************************************************************************)
EXTENDS PayoutSplit, TLAPS, FiniteSetTheorems, WellFoundedInduction

-----------------------------------------------------------------------------
(* Products, and induction over data.                                       *)

\* Quotients of naturals are naturals.
LEMMA DivNat == \A a \in Nat, b \in Nat \ {0} : a \div b \in Nat
  OBVIOUS

\* Products of naturals are naturals.
LEMMA MulNat == \A a, b \in Nat : a * b \in Nat
  OBVIOUS

\* A product is no smaller when a factor is not.
LEMMA MulMonotone == \A a, b, c \in Nat : a <= b => c * a <= c * b
<1> SUFFICES ASSUME NEW a \in Nat, NEW b \in Nat, NEW c \in Nat, a <= b
             PROVE  c * a <= c * b
  OBVIOUS
<1>1. b - a \in Nat
  OBVIOUS
<1>2. c * (b - a) \in Nat
  BY <1>1, MulNat
<1>3. c * (b - a) = (c * b) - (c * a)
  OBVIOUS
<1>4. c * a \in Nat /\ c * b \in Nat
  BY MulNat
<1> QED BY <1>2, <1>3, <1>4

\* A set of naturals has a least element.
LEMMA Least ==
    ASSUME NEW T \in SUBSET Nat, T # {}
    PROVE  \E x \in T : \A y \in T : x <= y
<1>1. PICK x \in T : \A y \in T : ~(<<y, x>> \in OpToRel(<, Nat))
  BY WFMin, NatLessThanWellFounded
<1>2. \A y \in T : ~(y < x)
  BY <1>1 DEF OpToRel
<1>3. \A y \in T : y \in Nat
  OBVIOUS
<1> QED BY <1>2, <1>3

\* Among subsets of a finite set there is a minimal one.
LEMMA MinimalSet ==
    ASSUME NEW S, IsFiniteSet(S), NEW C \in SUBSET (SUBSET S), C # {}
    PROVE  \E T \in C : \A x \in T : T \ {x} \notin C
<1> DEFINE N == {Cardinality(T) : T \in C}
<1>1. \A T \in C : IsFiniteSet(T) /\ Cardinality(T) \in Nat
  BY FS_Subset, FS_CardinalityType
<1>2. PICK n \in N : \A m \in N : n <= m
  <2>1. N \in SUBSET Nat /\ N # {}
    BY <1>1
  <2> HIDE DEF N
  <2> QED BY <2>1, Least
<1>3. PICK T \in C : n = Cardinality(T)
  OBVIOUS
<1>4. \A x \in T : Cardinality(T \ {x}) = n - 1
  BY <1>1, <1>3, FS_RemoveElement
<1>5. n \in Nat
  BY <1>1, <1>3
<1> QED BY <1>2, <1>4, <1>5

\* Induction over the subsets of a finite set.
LEMMA SetInduction ==
    ASSUME NEW S, IsFiniteSet(S), NEW C,
           {} \in C,
           \A T \in SUBSET S, x \in S : T \in C /\ x \notin T => T \cup {x} \in C
    PROVE  S \in C
<1> DEFINE D == {T \in SUBSET S : T \notin C}
<1> SUFFICES ASSUME D # {} PROVE FALSE
  OBVIOUS
<1>1. PICK T \in D : \A x \in T : T \ {x} \notin D
  <2>1. D \in SUBSET (SUBSET S)
    OBVIOUS
  <2> HIDE DEF D
  <2> QED BY <2>1, MinimalSet
<1>2. PICK x : x \in T
  OBVIOUS
<1>3. T \ {x} \in C
  BY <1>1, <1>2
<1>4. T = (T \ {x}) \cup {x}
  BY <1>2
<1> QED BY <1>2, <1>3, <1>4

\* Induction over the naturals.
LEMMA NatInduct ==
    ASSUME NEW T, 0 \in T, \A n \in Nat : n \in T => n + 1 \in T
    PROVE  Nat \subseteq T
<1> SUFFICES ASSUME Nat \ T # {} PROVE FALSE
  OBVIOUS
<1>1. PICK x \in Nat \ T : \A y \in Nat \ T : x <= y
  BY Least
<1>2. x # 0 /\ x - 1 \in Nat /\ x - 1 \in T
  BY <1>1
<1> QED BY <1>1, <1>2

\* f starts with base and goes on with step[n, x] after its n-th value x.
Iterates(f, base, step) == f[0] = base /\ \A n \in Nat : f[n + 1] = step[<<n, f[n]>>]

\* A value to begin with and a step to the next one determine a sequence of values.
LEMMA RecursionExists ==
    ASSUME NEW S, NEW base \in S, NEW step, \A n \in Nat, x \in S : step[<<n, x>>] \in S
    PROVE  \E f \in [Nat -> S] : Iterates(f, base, step)
<1> DEFINE Prefix(g, n) == /\ g \in [0..n -> S] /\ g[0] = base
                           /\ \A k \in 0..(n - 1) : g[k + 1] = step[<<k, g[k]>>]
           T == {n \in Nat : \E g : Prefix(g, n)}
<1>1. 0 \in T
  <2> DEFINE g == [k \in 0..0 |-> base]
  <2>1. Prefix(g, 0)
    OBVIOUS
  <2> HIDE DEF g, Prefix
  <2> QED BY <2>1
<1>2. ASSUME NEW n \in Nat, n \in T PROVE n + 1 \in T
  <2>1. PICK g : Prefix(g, n)
    BY <1>2
  <2> DEFINE h == [k \in 0..(n + 1) |-> IF k <= n THEN g[k] ELSE step[<<n, g[n]>>]]
  <2>2. step[<<n, g[n]>>] \in S
    BY <2>1
  <2>3. h \in [0..(n + 1) -> S] /\ h[0] = base
    BY <2>1, <2>2
  <2>4. \A k \in 0..n : h[k] = g[k]
    OBVIOUS
  <2>5. h[n + 1] = step[<<n, g[n]>>]
    OBVIOUS
  <2>6. ASSUME NEW k \in 0..n PROVE h[k + 1] = step[<<k, h[k]>>]
    <3> HIDE DEF h
    <3>1. CASE k = n
      BY <2>4, <2>5, <3>1
    <3>2. CASE k < n
      <4>1. k \in 0..(n - 1) /\ k + 1 \in 0..n
        BY <3>2
      <4> QED BY <2>1, <2>4, <4>1
    <3> QED BY <3>1, <3>2
  <2>7. Prefix(h, n + 1)
    <3> HIDE DEF h
    <3> QED BY <2>3, <2>6
  <2> HIDE DEF h, Prefix
  <2> QED BY <2>7
<1>3. Nat \subseteq T
  <2> HIDE DEF T
  <2> QED BY <1>1, <1>2, NatInduct
<1> DEFINE G == [n \in Nat |-> CHOOSE g : Prefix(g, n)]
<1>4. \A n \in Nat : Prefix(G[n], n)
  <2> HIDE DEF Prefix
  <2> QED BY <1>3
<1> HIDE DEF G
<1> DEFINE U == {k \in Nat : \A n \in Nat : k <= n => G[n][k] = G[k][k]}
<1>5. 0 \in U
  BY <1>4
<1>6. ASSUME NEW k \in Nat, k \in U PROVE k + 1 \in U
  <2> SUFFICES ASSUME NEW n \in Nat, k + 1 <= n PROVE G[n][k + 1] = G[k + 1][k + 1]
    OBVIOUS
  <2>1. k \in 0..(n - 1) /\ k \in 0..((k + 1) - 1) /\ k <= n /\ k <= k + 1
    OBVIOUS
  <2>2. G[n][k + 1] = step[<<k, G[n][k]>>]
    BY <1>4, <2>1
  <2>3. G[k + 1][k + 1] = step[<<k, G[k + 1][k]>>]
    BY <1>4, <2>1
  <2>4. G[n][k] = G[k][k] /\ G[k + 1][k] = G[k][k]
    BY <1>6, <2>1
  <2> QED BY <2>2, <2>3, <2>4
<1>7. Nat \subseteq U
  <2> HIDE DEF U
  <2> QED BY <1>5, <1>6, NatInduct
<1> DEFINE f == [n \in Nat |-> G[n][n]]
<1>8. f \in [Nat -> S] /\ f[0] = base
  BY <1>4
<1>9. ASSUME NEW n \in Nat PROVE f[n + 1] = step[<<n, f[n]>>]
  <2>1. n \in 0..((n + 1) - 1) /\ n <= n + 1
    OBVIOUS
  <2>2. G[n + 1][n + 1] = step[<<n, G[n + 1][n]>>]
    BY <1>4, <2>1
  <2>3. G[n + 1][n] = G[n][n]
    BY <1>7, <2>1
  <2> QED BY <2>2, <2>3
<1> HIDE DEF f
<1> QED BY <1>8, <1>9 DEF Iterates

-----------------------------------------------------------------------------
(* Sums over finite sets.                                                   *)

\* What the recursion of SumFunctionOnSet makes of the set s, if g has the sums of the
\* smaller sets.
SumStep(f, g, s) ==
    IF s = {} THEN 0 ELSE LET x == CHOOSE x \in s : TRUE IN f[x] + g[s \ {x}]

\* g has the sums of f over the subsets of S.
IsSumOver(f, S, g) == g = [s \in SUBSET S |-> SumStep(f, g, s)]
SumOver(f, S) == CHOOSE g : IsSumOver(f, S, g)

\* The recursion that sums f over the subsets of a finite set has a solution...
LEMMA SumExists ==
    ASSUME NEW f, NEW S, IsFiniteSet(S)
    PROVE  \E g : IsSumOver(f, S, g)
<1> DEFINE Sub(n) == {s \in SUBSET S : Cardinality(s) <= n}
           Solves(g, n) == g = [s \in Sub(n) |-> SumStep(f, g, s)]
           T == {n \in Nat : \E g : Solves(g, n)}
<1>1. \A s \in SUBSET S : Cardinality(s) \in Nat /\ (Cardinality(s) = 0 <=> s = {})
  BY FS_Subset, FS_CardinalityType, FS_EmptySet
<1>2. \A s \in SUBSET S : s # {} =>
        LET x == CHOOSE x \in s : TRUE
        IN  s \ {x} \in SUBSET S /\ Cardinality(s \ {x}) = Cardinality(s) - 1
  BY FS_Subset, FS_RemoveElement
<1>3. 0 \in T
  <2> DEFINE g == [s \in Sub(0) |-> 0]
  <2>1. \A s \in Sub(0) : s = {}
    BY <1>1
  <2>2. \A s \in Sub(0) : SumStep(f, g, s) = 0
    BY <2>1 DEF SumStep
  <2>3. [s \in Sub(0) |-> SumStep(f, g, s)] = [s \in Sub(0) |-> 0]
    BY <2>2
  <2>4. Solves(g, 0)
    BY <2>3
  <2> QED BY <2>4
<1>4. ASSUME NEW n \in Nat, n \in T PROVE n + 1 \in T
  <2>1. PICK g : Solves(g, n)
    BY <1>4
  <2> DEFINE h == [s \in Sub(n + 1) |-> SumStep(f, g, s)]
  <2>2. \A s \in Sub(n) : s \in Sub(n + 1) /\ h[s] = SumStep(f, g, s) /\ g[s] = SumStep(f, g, s)
    BY <1>1, <2>1
  <2>3. ASSUME NEW s \in Sub(n + 1) PROVE SumStep(f, h, s) = SumStep(f, g, s)
    <3>1. CASE s = {}
      BY <3>1 DEF SumStep
    <3>2. CASE s # {}
      <4> DEFINE x == CHOOSE x \in s : TRUE
      <4>1. s \ {x} \in Sub(n)
        BY <1>1, <1>2, <3>2
      <4>2. h[s \ {x}] = g[s \ {x}]
        BY <2>2, <4>1
      <4> QED BY <3>2, <4>2 DEF SumStep
    <3> QED BY <3>1, <3>2
  <2>4. [s \in Sub(n + 1) |-> SumStep(f, h, s)] = h
    BY <2>3
  <2>5. Solves(h, n + 1)
    BY <2>4
  <2>6. \E k : Solves(k, n + 1)
    <3> HIDE DEF h, Solves
    <3> QED BY <2>5
  <2> HIDE DEF Solves
  <2> QED BY <2>6
<1>5. Cardinality(S) \in T
  <2> HIDE DEF T
  <2>1. Nat \subseteq T
    BY <1>3, <1>4, NatInduct
  <2> QED BY <2>1, FS_CardinalityType
<1>6. Sub(Cardinality(S)) = SUBSET S
  BY FS_Subset
<1>7. PICK g : Solves(g, Cardinality(S))
  BY <1>5
<1>8. g = [s \in SUBSET S |-> SumStep(f, g, s)]
  BY <1>6, <1>7
<1> QED BY <1>8 DEF IsSumOver

\* ... and only one.
LEMMA SumUnique ==
    ASSUME NEW f, NEW S, IsFiniteSet(S), NEW R \in SUBSET S, NEW g, NEW h,
           IsSumOver(f, S, g), IsSumOver(f, R, h)
    PROVE  g[R] = h[R]
<1> DEFINE C == {s \in SUBSET R : g[s] # h[s]}
<1> SUFFICES ASSUME C # {} PROVE FALSE
  OBVIOUS
<1>1. PICK s \in C : \A y \in s : s \ {y} \notin C
  <2>1. C \in SUBSET (SUBSET S)
    OBVIOUS
  <2> HIDE DEF C
  <2> QED BY <2>1, MinimalSet
<1>2. g[s] = SumStep(f, g, s) /\ h[s] = SumStep(f, h, s)
  BY DEF IsSumOver
<1>3. \A y \in s : g[s \ {y}] = h[s \ {y}]
  BY <1>1
<1> QED BY <1>2, <1>3 DEF SumStep

\* The recursion defines the sum.
LEMMA SumSolves ==
    ASSUME NEW f, NEW S, IsFiniteSet(S)
    PROVE  IsSumOver(f, S, SumOver(f, S))
BY SumExists DEF SumOver

\* The library's sum is this one.
LEMMA SumIsFold ==
    ASSUME NEW f, NEW S
    PROVE  SumFunctionOnSet(f, S) = SumOver(f, S)[S]
BY DEF SumFunctionOnSet, FoldFunctionOnSet, MapThenFoldSet, SumOver, IsSumOver, SumStep
\* The sum over no elements.
LEMMA SumEmpty == \A f : SumFunctionOnSet(f, {}) = 0
<1>1. ASSUME NEW f PROVE SumFunctionOnSet(f, {}) = 0
  <2>1. IsSumOver(f, {}, SumOver(f, {}))
    BY SumSolves, FS_EmptySet
  <2>2. SumOver(f, {})[{}] = SumStep(f, SumOver(f, {}), {})
    BY <2>1 DEF IsSumOver
  <2> QED BY <2>2, SumIsFold DEF SumStep
<1> QED BY <1>1

\* A sum takes some element of its set first.
LEMMA SumChosen ==
    ASSUME NEW S, IsFiniteSet(S), S # {}, NEW f
    PROVE  \E x \in S : SumFunctionOnSet(f, S) = f[x] + SumFunctionOnSet(f, S \ {x})
<1> DEFINE x == CHOOSE x \in S : TRUE
<1>1. /\ SumFunctionOnSet(f, S) = SumOver(f, S)[S]
      /\ SumFunctionOnSet(f, S \ {x}) = SumOver(f, S \ {x})[S \ {x}]
  BY SumIsFold
<1>2. IsSumOver(f, S, SumOver(f, S))
  BY SumSolves
<1>3. IsSumOver(f, S \ {x}, SumOver(f, S \ {x}))
  BY SumSolves, FS_RemoveElement
<1>4. S \ {x} \in SUBSET S
  OBVIOUS
<1>5. SumOver(f, S)[S \ {x}] = SumOver(f, S \ {x})[S \ {x}]
  <2> DEFINE R == S \ {x}
             g == SumOver(f, S)
             h == SumOver(f, R)
  <2>1. IsSumOver(f, S, g) /\ IsSumOver(f, R, h) /\ R \in SUBSET S
    BY <1>2, <1>3, <1>4
  <2> HIDE DEF x, R, g, h
  <2>2. g[R] = h[R]
    BY <2>1, SumUnique
  <2> QED BY <2>2 DEF R, g, h
<1>6. SumOver(f, S)[S] = SumStep(f, SumOver(f, S), S)
  BY <1>2 DEF IsSumOver
<1> QED BY <1>1, <1>5, <1>6 DEF SumStep

\* A sum of integers is an integer.
LEMMA SumType ==
    ASSUME NEW S, IsFiniteSet(S), NEW f, \A x \in S : f[x] \in Int
    PROVE  SumFunctionOnSet(f, S) \in Int
<1> DEFINE C == {T \in SUBSET S : SumFunctionOnSet(f, T) \notin Int}
<1> SUFFICES ASSUME C # {} PROVE FALSE
  OBVIOUS
<1>1. PICK T \in C : \A x \in T : T \ {x} \notin C
  <2>1. C \in SUBSET (SUBSET S)
    OBVIOUS
  <2> HIDE DEF C
  <2> QED BY <2>1, MinimalSet
<1>2. \A x \in T : SumFunctionOnSet(f, T \ {x}) \in Int
  BY <1>1
<1>3. T # {}
  BY SumEmpty
<1>4. IsFiniteSet(T)
  BY FS_Subset
<1>5. PICK x \in T : SumFunctionOnSet(f, T) = f[x] + SumFunctionOnSet(f, T \ {x})
  BY <1>3, <1>4, SumChosen
<1> QED BY <1>2, <1>5

\* Any element of the set can be taken out of a sum.
LEMMA SumRemove ==
    ASSUME NEW S, IsFiniteSet(S), NEW f, \A x \in S : f[x] \in Int, NEW y \in S
    PROVE  SumFunctionOnSet(f, S) = f[y] + SumFunctionOnSet(f, S \ {y})
<1> DEFINE Sum(T) == SumFunctionOnSet(f, T)
           C == {T \in SUBSET S : \E z \in T : Sum(T) # f[z] + Sum(T \ {z})}
<1> SUFFICES ASSUME C # {} PROVE FALSE
  OBVIOUS
<1>1. PICK T \in C : \A z \in T : T \ {z} \notin C
  <2>1. C \in SUBSET (SUBSET S)
    OBVIOUS
  <2> HIDE DEF C
  <2> QED BY <2>1, MinimalSet
<1>2. \A U \in SUBSET S : IsFiniteSet(U) /\ Sum(U) \in Int
  BY FS_Subset, SumType
<1>3. PICK z \in T : Sum(T) # f[z] + Sum(T \ {z})
  OBVIOUS
<1>4. PICK x \in T : Sum(T) = f[x] + Sum(T \ {x})
  BY <1>2, <1>3, SumChosen
<1>5. x # z
  BY <1>3, <1>4
<1>6. Sum(T \ {x}) = f[z] + Sum((T \ {x}) \ {z})
  BY <1>1, <1>5
<1>7. Sum(T \ {z}) = f[x] + Sum((T \ {z}) \ {x})
  BY <1>1, <1>5
<1>8. (T \ {x}) \ {z} = (T \ {z}) \ {x}
  OBVIOUS
<1>9. f[x] \in Int /\ f[z] \in Int /\ Sum((T \ {x}) \ {z}) \in Int
  BY <1>2
<1> HIDE DEF Sum
<1> QED BY <1>3, <1>4, <1>6, <1>7, <1>8, <1>9

\* One more element adds its value.
LEMMA SumAdd ==
    ASSUME NEW S, IsFiniteSet(S), NEW y, y \notin S, NEW f,
           \A x \in S \cup {y} : f[x] \in Int
    PROVE  SumFunctionOnSet(f, S \cup {y}) = f[y] + SumFunctionOnSet(f, S)
<1>1. (S \cup {y}) \ {y} = S
  OBVIOUS
<1>2. IsFiniteSet(S \cup {y})
  BY FS_AddElement
<1> QED BY <1>1, <1>2, SumRemove

\* If every value of g is at least k times that of f and c more, so is the sum.
LEMMA SumAtLeast ==
    ASSUME NEW S, IsFiniteSet(S), NEW f, NEW g, NEW k \in Int, NEW c \in Int,
           \A x \in S : f[x] \in Int /\ g[x] \in Int /\ k * f[x] + c <= g[x]
    PROVE  k * SumFunctionOnSet(f, S) + c * Cardinality(S) <= SumFunctionOnSet(g, S)
<1> DEFINE F(T) == SumFunctionOnSet(f, T)
           G(T) == SumFunctionOnSet(g, T)
           C == {T \in SUBSET S : k * F(T) + c * Cardinality(T) <= G(T)}
<1>1. \A T \in SUBSET S : /\ IsFiniteSet(T) /\ Cardinality(T) \in Nat
                          /\ F(T) \in Int /\ G(T) \in Int
  BY FS_Subset, FS_CardinalityType, SumType
<1>2. {} \in C
  <2>1. F({}) = 0 /\ G({}) = 0 /\ Cardinality({}) = 0
    BY SumEmpty, FS_EmptySet
  <2> QED BY <2>1
<1>3. ASSUME NEW T \in SUBSET S, NEW x \in S, T \in C, x \notin T PROVE T \cup {x} \in C
  <2>1. F(T \cup {x}) = f[x] + F(T) /\ G(T \cup {x}) = g[x] + G(T)
    BY <1>1, <1>3, SumAdd
  <2>2. Cardinality(T \cup {x}) = Cardinality(T) + 1
    BY <1>1, <1>3, FS_AddElement
  <2>3. k * F(T) + c * Cardinality(T) <= G(T)
    BY <1>3
  <2> DEFINE ft == F(T)  gt == G(T)  n == Cardinality(T)
  <2>4. ft \in Int /\ gt \in Int /\ n \in Int /\ k * ft + c * n <= gt
    BY <1>1, <2>3
  <2>5. k * (f[x] + ft) + c * (n + 1) <= g[x] + gt
    <3> HIDE DEF ft, gt, n
    <3>1. k * (f[x] + ft) = k * f[x] + k * ft /\ c * (n + 1) = c * n + c
      BY <2>4
    <3>2. k * f[x] \in Int /\ k * ft \in Int /\ c * n \in Int
      BY <2>4
    <3> QED BY <2>4, <3>1, <3>2
  <2> QED BY <2>1, <2>2, <2>5
<1>4. S \in C
  <2> HIDE DEF C
  <2> QED BY <1>2, <1>3, SetInduction
<1> QED BY <1>4

\* If every value of g is at most k times that of f and c more, so is the sum.
LEMMA SumAtMost ==
    ASSUME NEW S, IsFiniteSet(S), NEW f, NEW g, NEW k \in Int, NEW c \in Int,
           \A x \in S : f[x] \in Int /\ g[x] \in Int /\ g[x] <= k * f[x] + c
    PROVE  SumFunctionOnSet(g, S) <= k * SumFunctionOnSet(f, S) + c * Cardinality(S)
<1> DEFINE F(T) == SumFunctionOnSet(f, T)
           G(T) == SumFunctionOnSet(g, T)
           C == {T \in SUBSET S : G(T) <= k * F(T) + c * Cardinality(T)}
<1>1. \A T \in SUBSET S : /\ IsFiniteSet(T) /\ Cardinality(T) \in Nat
                          /\ F(T) \in Int /\ G(T) \in Int
  BY FS_Subset, FS_CardinalityType, SumType
<1>2. {} \in C
  <2>1. F({}) = 0 /\ G({}) = 0 /\ Cardinality({}) = 0
    BY SumEmpty, FS_EmptySet
  <2> QED BY <2>1
<1>3. ASSUME NEW T \in SUBSET S, NEW x \in S, T \in C, x \notin T PROVE T \cup {x} \in C
  <2>1. F(T \cup {x}) = f[x] + F(T) /\ G(T \cup {x}) = g[x] + G(T)
    BY <1>1, <1>3, SumAdd
  <2>2. Cardinality(T \cup {x}) = Cardinality(T) + 1
    BY <1>1, <1>3, FS_AddElement
  <2>3. G(T) <= k * F(T) + c * Cardinality(T)
    BY <1>3
  <2> DEFINE ft == F(T)  gt == G(T)  n == Cardinality(T)
  <2>4. ft \in Int /\ gt \in Int /\ n \in Int /\ gt <= k * ft + c * n
    BY <1>1, <2>3
  <2>5. g[x] + gt <= k * (f[x] + ft) + c * (n + 1)
    <3> HIDE DEF ft, gt, n
    <3>1. k * (f[x] + ft) = k * f[x] + k * ft /\ c * (n + 1) = c * n + c
      BY <2>4
    <3>2. k * f[x] \in Int /\ k * ft \in Int /\ c * n \in Int
      BY <2>4
    <3> QED BY <2>4, <3>1, <3>2
  <2> QED BY <2>1, <2>2, <2>5
<1>4. S \in C
  <2> HIDE DEF C
  <2> QED BY <1>2, <1>3, SetInduction
<1> QED BY <1>4

\* One more on the members of A adds up to their number.
LEMMA SumCount ==
    ASSUME NEW S, IsFiniteSet(S), NEW A \in SUBSET S, NEW f, NEW g,
           \A x \in S : f[x] \in Int /\ g[x] = f[x] + (IF x \in A THEN 1 ELSE 0)
    PROVE  SumFunctionOnSet(g, S) = SumFunctionOnSet(f, S) + Cardinality(A)
<1> DEFINE F(T) == SumFunctionOnSet(f, T)
           G(T) == SumFunctionOnSet(g, T)
           C == {T \in SUBSET S : G(T) = F(T) + Cardinality(A \cap T)}
<1>0. \A x \in S : f[x] \in Int /\ g[x] \in Int
  OBVIOUS
<1>1. ASSUME NEW T \in SUBSET S PROVE IsFiniteSet(T) /\ F(T) \in Int /\ G(T) \in Int
  <2>1. IsFiniteSet(T)
    BY FS_Subset
  <2> QED BY <1>0, <2>1, SumType
<1>2. ASSUME NEW T \in SUBSET S PROVE IsFiniteSet(A \cap T) /\ Cardinality(A \cap T) \in Nat
  BY <1>1, FS_Intersection, FS_CardinalityType
<1>3. {} \in C
  <2>1. F({}) = 0 /\ G({}) = 0 /\ A \cap {} = {} /\ Cardinality({}) = 0
    BY SumEmpty, FS_EmptySet
  <2> QED BY <2>1
<1>4. ASSUME NEW T \in SUBSET S, NEW x \in S, T \in C, x \notin T PROVE T \cup {x} \in C
  <2>1. F(T \cup {x}) = f[x] + F(T) /\ G(T \cup {x}) = g[x] + G(T)
    BY <1>0, <1>1, <1>4, SumAdd
  <2>2. Cardinality(A \cap (T \cup {x})) = Cardinality(A \cap T) + (IF x \in A THEN 1 ELSE 0)
    <3>1. CASE x \in A
      <4>1. A \cap (T \cup {x}) = (A \cap T) \cup {x} /\ x \notin A \cap T
        BY <1>4, <3>1
      <4>2. Cardinality((A \cap T) \cup {x}) = Cardinality(A \cap T) + 1
        BY <1>2, <4>1, FS_AddElement
      <4> QED BY <3>1, <4>1, <4>2
    <3>2. CASE x \notin A
      <4>1. A \cap (T \cup {x}) = A \cap T
        BY <3>2
      <4> QED BY <1>2, <3>2, <4>1
    <3> QED BY <3>1, <3>2
  <2>3. G(T) = F(T) + Cardinality(A \cap T)
    BY <1>4
  <2>4. G(T \cup {x}) = F(T \cup {x}) + Cardinality(A \cap (T \cup {x}))
    <3> DEFINE e == IF x \in A THEN 1 ELSE 0
    <3>1. f[x] \in Int /\ e \in Int /\ g[x] = f[x] + e
      OBVIOUS
    <3>2. Cardinality(A \cap (T \cup {x})) = Cardinality(A \cap T) + e
      BY <2>2
    <3>3. F(T) \in Int /\ Cardinality(A \cap T) \in Int
      BY <1>1, <1>2
    <3> HIDE DEF F, G, C, e
    <3> QED BY <2>1, <2>3, <3>1, <3>2, <3>3
  <2> QED BY <2>4
<1>5. S \in C
  <2> HIDE DEF C
  <2> QED BY <1>3, <1>4, SetInduction
<1>6. A \cap S = A
  OBVIOUS
<1> QED BY <1>5, <1>6

\* A function with f's values has f's sum.
LEMMA SumEqual ==
    ASSUME NEW S, IsFiniteSet(S), NEW f, NEW g, \A x \in S : f[x] \in Int /\ g[x] = f[x]
    PROVE  SumFunctionOnSet(g, S) = SumFunctionOnSet(f, S)
<1>1. \A x \in S : f[x] \in Int /\ g[x] = f[x] + (IF x \in {} THEN 1 ELSE 0)
  OBVIOUS
<1>2. SumFunctionOnSet(g, S) = SumFunctionOnSet(f, S) + Cardinality({})
  <2>1. {} \in SUBSET S
    OBVIOUS
  <2> QED BY <1>1, <2>1, SumCount
<1>3. SumFunctionOnSet(f, S) \in Int
  BY SumType
<1> QED BY <1>2, <1>3, FS_EmptySet

\* A sum of naturals is a natural.
LEMMA SumNat ==
    ASSUME NEW S, IsFiniteSet(S), NEW f, \A x \in S : f[x] \in Nat
    PROVE  SumFunctionOnSet(f, S) \in Nat
<1> DEFINE C == {T \in SUBSET S : SumFunctionOnSet(f, T) \in Nat}
<1>1. {} \in C
  BY SumEmpty
<1>2. ASSUME NEW T \in SUBSET S, NEW x \in S, T \in C, x \notin T PROVE T \cup {x} \in C
  <2>1. IsFiniteSet(T) /\ \A y \in T \cup {x} : f[y] \in Int
    BY FS_Subset
  <2>2. SumFunctionOnSet(f, T \cup {x}) = f[x] + SumFunctionOnSet(f, T)
    BY <1>2, <2>1, SumAdd
  <2>3. f[x] \in Nat /\ SumFunctionOnSet(f, T) \in Nat
    BY <1>2
  <2>4. SumFunctionOnSet(f, T \cup {x}) \in Nat
    BY <2>2, <2>3
  <2> QED BY <2>4
<1>3. S \in C
  <2> HIDE DEF C
  <2> QED BY <1>1, <1>2, SetInduction
<1> QED BY <1>3

\* Multiplying every value by k multiplies the sum.
LEMMA SumScaled ==
    ASSUME NEW S, IsFiniteSet(S), NEW f, NEW g, NEW k \in Int,
           \A x \in S : f[x] \in Int /\ g[x] = k * f[x]
    PROVE  SumFunctionOnSet(g, S) = k * SumFunctionOnSet(f, S)
<1> DEFINE z == 0
           F == SumFunctionOnSet(f, S)
           G == SumFunctionOnSet(g, S)
<1>1. /\ z \in Int /\ \A x \in S : f[x] \in Int /\ g[x] \in Int
      /\ \A x \in S : k * f[x] + z <= g[x] /\ g[x] <= k * f[x] + z
  OBVIOUS
<1>2. F \in Int /\ G \in Int /\ Cardinality(S) \in Int /\ k * F \in Int
  <2>1. F \in Int /\ G \in Int /\ Cardinality(S) \in Nat
    BY <1>1, SumType, FS_CardinalityType
  <2> HIDE DEF F, G
  <2> QED BY <2>1
<1>3. k * F + z * Cardinality(S) <= G /\ G <= k * F + z * Cardinality(S)
  <2> HIDE DEF z
  <2>1. k * F + z * Cardinality(S) <= G
    BY <1>1, SumAtLeast
  <2>2. G <= k * F + z * Cardinality(S)
    BY <1>1, SumAtMost
  <2> QED BY <2>1, <2>2
<1>4. G = k * F
  <2> HIDE DEF F, G
  <2>1. z * Cardinality(S) = 0
    BY <1>2
  <2> HIDE DEF z
  <2> QED BY <1>2, <1>3, <2>1
<1> QED BY <1>4

\* Only the elements with a value count in a sum.
LEMMA SumSupport ==
    ASSUME NEW S, IsFiniteSet(S), NEW f, \A x \in S : f[x] \in Int,
           NEW T \in SUBSET S, \A x \in S \ T : f[x] = 0
    PROVE  SumFunctionOnSet(f, S) = SumFunctionOnSet(f, T)
<1> DEFINE Sum(U) == SumFunctionOnSet(f, U)
           C == {U \in SUBSET S : Sum(U) = Sum(U \cap T)}
<1>1. \A U \in SUBSET S : IsFiniteSet(U) /\ Sum(U) \in Int
  BY FS_Subset, SumType
<1>2. {} \in C
  <2>1. {} \cap T = {}
    OBVIOUS
  <2> QED BY <2>1
<1>3. ASSUME NEW U \in SUBSET S, NEW x \in S, U \in C, x \notin U PROVE U \cup {x} \in C
  <2>1. Sum(U \cup {x}) = f[x] + Sum(U) /\ Sum(U) = Sum(U \cap T)
    BY <1>1, <1>3, SumAdd
  <2>2. CASE x \in T
    <3>1. (U \cup {x}) \cap T = (U \cap T) \cup {x} /\ U \cap T \in SUBSET S
      BY <2>2
    <3>2. Sum((U \cap T) \cup {x}) = f[x] + Sum(U \cap T)
      BY <1>1, <1>3, <3>1, SumAdd
    <3> QED BY <2>1, <3>1, <3>2
  <2>3. CASE x \notin T
    <3>1. (U \cup {x}) \cap T = U \cap T /\ f[x] = 0
      BY <2>3
    <3>2. Sum(U) \in Int
      BY <1>1
    <3>3. Sum(U \cup {x}) = Sum(U)
      <4> HIDE DEF Sum
      <4> QED BY <2>1, <3>1, <3>2
    <3> QED BY <2>1, <3>1, <3>3
  <2> QED BY <2>2, <2>3
<1>4. S \in C
  <2> HIDE DEF C
  <2> QED BY <1>2, <1>3, SetInduction
<1>5. S \cap T = T
  OBVIOUS
<1> QED BY <1>4, <1>5

\* Adding to one value adds as much to the sum.
LEMMA SumUpdate ==
    ASSUME NEW S, IsFiniteSet(S), NEW f \in [S -> Int], NEW y \in S, NEW k \in Int
    PROVE  SumFunctionOnSet([f EXCEPT ![y] = @ + k], S) = SumFunctionOnSet(f, S) + k
<1> DEFINE g == [f EXCEPT ![y] = @ + k]
           R == S \ {y}
<1>1. g \in [S -> Int] /\ g[y] = f[y] + k /\ \A x \in R : f[x] \in Int /\ g[x] = f[x]
  OBVIOUS
<1>2. \A x \in S : f[x] \in Int /\ g[x] \in Int
  BY <1>1
<1>3. IsFiniteSet(R)
  BY FS_RemoveElement
<1> HIDE DEF g
<1>4. SumFunctionOnSet(f, S) = f[y] + SumFunctionOnSet(f, R)
  BY <1>2, SumRemove
<1>5. SumFunctionOnSet(g, S) = g[y] + SumFunctionOnSet(g, R)
  BY <1>2, SumRemove
<1> HIDE DEF R
<1>6. SumFunctionOnSet(g, R) = SumFunctionOnSet(f, R) /\ SumFunctionOnSet(f, R) \in Int
  BY <1>1, <1>3, SumEqual, SumType
<1>7. SumFunctionOnSet(g, S) = SumFunctionOnSet(f, S) + k
  BY <1>1, <1>2, <1>4, <1>5, <1>6
<1> QED BY <1>7 DEF g

-----------------------------------------------------------------------------
(* Ranks.                                                                   *)

\* rank numbers the elements of S along the strict total order R.
Ranks(S, R, rank) ==
    /\ \A x \in S : rank[x] = Cardinality({y \in S : <<y, x>> \in R})
    /\ \A x \in S : <<x, x>> \notin R
    /\ \A x, y, z \in S : <<x, y>> \in R /\ <<y, z>> \in R => <<x, z>> \in R
    /\ \A x, y \in S : x # y => <<x, y>> \in R \/ <<y, x>> \in R

\* In a finite set each number below the set's size is given once, so that as many
\* elements as r have a number below r; and what comes first has the smaller number.
LEMMA RankCount ==
    ASSUME NEW S, IsFiniteSet(S), NEW R, NEW rank, Ranks(S, R, rank)
    PROVE  /\ \A x \in S : rank[x] \in 0..(Cardinality(S) - 1)
           /\ \A x, y \in S : <<x, y>> \in R => rank[x] < rank[y]
           /\ \A r \in 0..Cardinality(S) : Cardinality({x \in S : rank[x] < r}) = r
<1> USE DEF Ranks
<1> DEFINE n == Cardinality(S)
           Below(x) == {y \in S : <<y, x>> \in R}
<1>1. n \in Nat /\ \A T \in SUBSET S : IsFiniteSet(T) /\ Cardinality(T) \in Nat
  BY FS_Subset, FS_CardinalityType
<1>2. ASSUME NEW x \in S PROVE rank[x] \in 0..(n - 1)
  <2>1. Below(x) \subseteq S \ {x}
    OBVIOUS
  <2>2. Cardinality(S \ {x}) = n - 1 /\ IsFiniteSet(S \ {x})
    BY FS_RemoveElement
  <2>3. Cardinality(Below(x)) <= n - 1
    <3> HIDE DEF Below
    <3> QED BY <2>1, <2>2, FS_Subset
  <2>4. Cardinality(Below(x)) \in Nat
    BY <1>1
  <2>5. rank[x] = Cardinality(Below(x))
    OBVIOUS
  <2> HIDE DEF Below, n
  <2> QED BY <1>1, <2>3, <2>4, <2>5
<1>3. ASSUME NEW x \in S, NEW y \in S, <<x, y>> \in R PROVE rank[x] < rank[y]
  <2>1. Below(x) \subseteq Below(y) /\ x \in Below(y) /\ x \notin Below(x)
    BY <1>3
  <2>2. IsFiniteSet(Below(y)) /\ Cardinality(Below(x)) \in Nat /\ Cardinality(Below(y)) \in Nat
    BY <1>1
  <2>3. rank[x] = Cardinality(Below(x)) /\ rank[y] = Cardinality(Below(y))
    OBVIOUS
  <2> HIDE DEF Below
  <2>4. /\ Cardinality(Below(x)) <= Cardinality(Below(y))
        /\ Cardinality(Below(y)) = Cardinality(Below(x)) => Below(y) = Below(x)
    BY <2>1, <2>2, FS_Subset
  <2> QED BY <2>1, <2>2, <2>3, <2>4
<1>4. ASSUME NEW x \in S, NEW y \in S, rank[x] = rank[y] PROVE x = y
  <2>1. rank[x] \in Int /\ ~(rank[x] < rank[y]) /\ ~(rank[y] < rank[x])
    BY <1>2, <1>4
  <2> QED BY <1>3, <2>1
<1> DEFINE f == [x \in S |-> rank[x]]
<1>5. f \in Injection(S, 0..(n - 1))
  BY <1>2, <1>4 DEF Injection, IsInjective
<1>6. IsFiniteSet(0..(n - 1)) /\ Cardinality(0..(n - 1)) = n
  <2> DEFINE m == n - 1
  <2>1. 0 \in Int /\ m \in Int /\ n = m + 1 /\ ~(0 > m /\ m # -1)
    BY <1>1
  <2> HIDE DEF m, n
  <2>2. IsFiniteSet(0..m) /\ Cardinality(0..m) = IF 0 > m THEN 0 ELSE m - 0 + 1
    BY <2>1, FS_Interval
  <2>3. IsFiniteSet(0..m) /\ Cardinality(0..m) = n
    BY <2>1, <2>2
  <2> QED BY <2>3 DEF m
<1>7. f \in Surjection(S, 0..(n - 1))
  <2> HIDE DEF f
  <2> QED BY <1>5, <1>6, FS_Injection
<1>8. \A i \in 0..(n - 1) : \E x \in S : rank[x] = i
  BY <1>7 DEF Surjection
<1>9. ASSUME NEW r \in 0..n PROVE Cardinality({x \in S : rank[x] < r}) = r
  <2> DEFINE A == {x \in S : rank[x] < r}
             h == [x \in A |-> rank[x]]
  <2>1. h \in Injection(A, 0..(r - 1))
    BY <1>1, <1>2, <1>4 DEF Injection, IsInjective
  <2>2. h \in Surjection(A, 0..(r - 1))
    <3>1. ASSUME NEW i \in 0..(r - 1) PROVE \E x \in A : h[x] = i
      BY <1>1, <1>8
    <3>2. h \in [A -> 0..(r - 1)]
      BY <2>1 DEF Injection
    <3> QED BY <3>1, <3>2 DEF Surjection
  <2>3. ExistsBijection(A, 0..(r - 1))
    BY <2>1, <2>2 DEF ExistsBijection, Bijection
  <2>4. IsFiniteSet(A)
    BY <1>1
  <2>5. Cardinality(0..(r - 1)) = Cardinality(A)
    <3> HIDE DEF A
    <3> QED BY <2>3, <2>4, FS_Bijection
  <2>6. Cardinality(0..(r - 1)) = r
    BY <1>1, FS_Interval
  <2> QED BY <2>5, <2>6
<1> QED BY <1>2, <1>3, <1>9

\* Some members of a set that is numbered along an order have a first and a last among
\* them.
LEMMA FirstAndLast ==
    ASSUME NEW S, IsFiniteSet(S), NEW R, NEW rank, Ranks(S, R, rank),
           NEW D \in SUBSET S, D # {}
    PROVE  /\ \E x \in D : \A y \in D : y # x => <<x, y>> \in R
           /\ \E x \in D : \A y \in D : y # x => <<y, x>> \in R
<1> DEFINE n == Cardinality(S)
<1>1. /\ n \in Nat
      /\ \A x \in S : rank[x] \in 0..(n - 1)
      /\ \A x, y \in S : <<x, y>> \in R => rank[x] < rank[y]
      /\ \A x, y \in S : x # y => <<x, y>> \in R \/ <<y, x>> \in R
  BY RankCount, FS_CardinalityType DEF Ranks
<1> HIDE DEF n
<1>2. \E x \in D : \A y \in D : rank[x] <= rank[y]
  <2> DEFINE N == {rank[x] : x \in D}
  <2>1. N \in SUBSET Nat /\ N # {}
    BY <1>1
  <2>2. \E m \in N : \A k \in N : m <= k
    <3> HIDE DEF N
    <3> QED BY <2>1, Least
  <2> QED BY <2>2
<1>3. \E x \in D : \A y \in D : n - rank[x] <= n - rank[y]
  <2> DEFINE N == {n - rank[x] : x \in D}
  <2>1. N \in SUBSET Nat /\ N # {}
    BY <1>1
  <2>2. \E m \in N : \A k \in N : m <= k
    <3> HIDE DEF N
    <3> QED BY <2>1, Least
  <2> QED BY <2>2
<1>4. \E x \in D : \A y \in D : y # x => <<x, y>> \in R
  <2>1. PICK x \in D : \A y \in D : rank[x] <= rank[y]
    BY <1>2
  <2>2. ASSUME NEW y \in D, y # x PROVE <<x, y>> \in R
    <3>1. rank[x] \in Int /\ rank[y] \in Int /\ ~(rank[y] < rank[x])
      BY <1>1, <2>1
    <3> QED BY <1>1, <2>2, <3>1
  <2> QED BY <2>2
<1>5. \E x \in D : \A y \in D : y # x => <<y, x>> \in R
  <2>1. PICK x \in D : \A y \in D : n - rank[x] <= n - rank[y]
    BY <1>3
  <2>2. ASSUME NEW y \in D, y # x PROVE <<y, x>> \in R
    <3>1. rank[x] \in Int /\ rank[y] \in Int /\ ~(rank[x] < rank[y])
      BY <1>1, <2>1
    <3> QED BY <1>1, <2>2, <3>1
  <2> QED BY <2>2
<1> QED BY <1>4, <1>5

-----------------------------------------------------------------------------
(* The split of a round.                                                    *)

\* Quotients of naturals, and what is left of the dividend.
LEMMA Quotient ==
    ASSUME NEW a \in Nat, NEW b \in Nat \ {0}
    PROVE  /\ a \div b \in Nat
           /\ b * (a \div b) <= a /\ a < b * (a \div b) + b
           /\ a % b = 0 => a = b * (a \div b)
  OBVIOUS

\* A round as the service keeps it: the total is the sum of the workers' parts
\* (applyShareToRoundLocked adds to both).
Round(W, work, total) ==
    /\ W \subseteq Int /\ IsFiniteSet(W)
    /\ work \in [W -> Nat]
    /\ total = SumFunctionOnSet(work, W)

\* The contributors are finitely many, and theirs is all the work.
LEMMA RoundContributors ==
    ASSUME NEW W, NEW work, NEW total, Round(W, work, total)
    PROVE  /\ Contributors(work) \subseteq W /\ IsFiniteSet(Contributors(work))
           /\ Cardinality(Contributors(work)) \in Nat
           /\ total \in Int /\ total = SumFunctionOnSet(work, Contributors(work))
           /\ total = 0 <=> Contributors(work) = {}
           /\ total >= 0
<1> DEFINE C == Contributors(work)
<1>1. C \subseteq W /\ IsFiniteSet(W) /\ DOMAIN work = W
  BY DEF Round, Contributors
<1>2. IsFiniteSet(C) /\ Cardinality(C) \in Nat
  BY <1>1, FS_Subset, FS_CardinalityType
<1>3. /\ \A x \in W : work[x] \in Int
      /\ \A x \in C : work[x] \in Int /\ work[x] >= 1
      /\ \A x \in W \ C : work[x] = 0
  BY DEF Round, Contributors
<1>4. total = SumFunctionOnSet(work, C) /\ total \in Int
  <2>1. total = SumFunctionOnSet(work, W)
    BY DEF Round
  <2> HIDE DEF C
  <2>2. SumFunctionOnSet(work, W) \in Int
    BY <1>1, <1>3, SumType
  <2>3. SumFunctionOnSet(work, W) = SumFunctionOnSet(work, C)
    BY <1>1, <1>3, SumSupport
  <2> QED BY <2>1, <2>2, <2>3
<1>5. Cardinality(C) <= total
  <2> DEFINE k == 0
             c == 1
             Sum == SumFunctionOnSet(work, C)
  <2>1. /\ k \in Int /\ c \in Int
        /\ \A x \in C : work[x] \in Int /\ k * work[x] + c <= work[x]
    BY <1>3
  <2>2. k * Sum + c * Cardinality(C) <= Sum
    <3> HIDE DEF k, c, C
    <3> QED BY <1>2, <2>1, SumAtLeast
  <2> HIDE DEF Sum, C
  <2> QED BY <1>2, <1>4, <2>2 DEF Sum
<1>6. C = {} => total = 0
  BY <1>4, SumEmpty
<1>7. C # {} => Cardinality(C) # 0
  BY <1>2, FS_EmptySet
<1> HIDE DEF C
<1>8. total >= 0 /\ (total = 0 <=> C = {})
  BY <1>2, <1>4, <1>5, <1>6, <1>7
<1> QED BY <1>1, <1>2, <1>4, <1>8 DEF C

\* A worker's floor is less than an atom below its part, or exactly one if its product
\* was a whole number and rounded down.
LEMMA FloorBounds ==
    ASSUME NEW W, NEW work \in [W -> Nat], NEW total \in Nat \ {0}, NEW d \in Nat \ {0},
           NEW low \in SUBSET MayFallShort(work, total, d), NEW w \in Contributors(work)
    PROVE  LET fl == FloorShare(work, total, d, low, w)
           IN  /\ fl \in Nat
               /\ work[w] * d \in Nat \ {0}
               /\ total * fl <= work[w] * d
               /\ w \notin low => work[w] * d < total * fl + total
               /\ w \in low => work[w] * d = total * fl + total
<1> DEFINE a == work[w] * d
           q == a \div total
           fl == FloorShare(work, total, d, low, w)
<1>1. a \in Nat \ {0}
  <2>1. work[w] \in Nat \ {0}
    BY DEF Contributors
  <2> QED BY <2>1
<1>2. w \in low => a % total = 0
  BY DEF MayFallShort
<1> HIDE DEF a
<1>3. /\ q \in Nat /\ total * q <= a /\ a < total * q + total
      /\ w \in low => a = total * q
  BY <1>1, <1>2, Quotient
<1> HIDE DEF q
<1>4. CASE w \in low
  <2>1. fl = q - 1
    BY <1>4 DEF FloorShare, a, q
  <2>2. q # 0
    BY <1>1, <1>3, <1>4
  <2>3. total * fl = total * q - total /\ fl \in Nat
    BY <1>3, <2>1, <2>2
  <2>4. total * q \in Nat
    BY <1>1, <1>3, <1>4
  <2> HIDE DEF fl
  <2>5. total * fl <= a /\ a = total * fl + total
    BY <1>1, <1>3, <1>4, <2>3, <2>4
  <2> QED BY <1>1, <1>4, <2>3, <2>5 DEF a, fl
<1>5. CASE w \notin low
  <2>1. fl = q - 0 /\ q \in Nat
    BY <1>3, <1>5 DEF FloorShare, a, q
  <2>2. fl = q
    BY <2>1
  <2> HIDE DEF fl
  <2> QED BY <1>1, <1>3, <1>5, <2>2 DEF a, fl
<1> QED BY <1>4, <1>5

\* A factor that is positive can be cancelled.
LEMMA Cancel ==
    ASSUME NEW a \in Int, NEW b \in Int, NEW k \in Nat \ {0}, k * a <= k * b
    PROVE  a <= b
  OBVIOUS

\* The floors leave at least nothing and at most one atom per contributor.
LEMMA RemainderBounds ==
    ASSUME NEW W, NEW work, NEW total \in Nat \ {0}, Round(W, work, total),
           NEW d \in Nat \ {0}, NEW low \in SUBSET MayFallShort(work, total, d)
    PROVE  Remainder(work, total, d, low) \in 0..Cardinality(Contributors(work))
<1> DEFINE C == Contributors(work)
           fl == [w \in C |-> FloorShare(work, total, d, low, w)]
           part == [w \in C |-> work[w] * d]
           F == SumFunctionOnSet(fl, C)
           P == SumFunctionOnSet(part, C)
           n == Cardinality(C)
           z == 0
<1>1. C \subseteq W /\ IsFiniteSet(C) /\ n \in Nat /\ total = SumFunctionOnSet(work, C)
  BY RoundContributors
<1>2. work \in [W -> Nat]
  BY DEF Round
<1>3. ASSUME NEW w \in C
      PROVE  /\ fl[w] \in Int /\ part[w] \in Int /\ work[w] \in Int /\ part[w] = d * work[w]
             /\ total * fl[w] + z <= part[w] /\ part[w] <= total * fl[w] + total
  <2> DEFINE q == FloorShare(work, total, d, low, w)
             a == work[w] * d
  <2>1. /\ q \in Nat /\ a \in Nat /\ total * q <= a
        /\ w \notin low => a < total * q + total
        /\ w \in low => a = total * q + total
    BY <1>2, FloorBounds
  <2>2. fl[w] = q /\ part[w] = a /\ work[w] \in Nat
    BY <1>1, <1>2
  <2> HIDE DEF q, a
  <2>3. total * q \in Int
    BY <2>1
  <2>4. total * q + z <= a /\ a <= total * q + total
    BY <2>1, <2>3
  <2>5. a = d * work[w]
    BY <2>2 DEF a
  <2> HIDE DEF fl, part, z
  <2> QED BY <2>1, <2>2, <2>4, <2>5
<1>4. F \in Int /\ P \in Int
  <2> HIDE DEF fl, part, C, z
  <2> QED BY <1>1, <1>3, SumType
<1>5. P = d * total
  <2> HIDE DEF fl, part, C, z
  <2> QED BY <1>1, <1>3, SumScaled
<1>6. total * F + z * n <= P
  <2>1. /\ total \in Int /\ z \in Int
        /\ \A w \in C : fl[w] \in Int /\ part[w] \in Int /\ total * fl[w] + z <= part[w]
    BY <1>3
  <2> HIDE DEF fl, part, C, z
  <2> QED BY <1>1, <2>1, SumAtLeast
<1>7. P <= total * F + total * n
  <2>1. /\ total \in Int
        /\ \A w \in C : fl[w] \in Int /\ part[w] \in Int /\ part[w] <= total * fl[w] + total
    BY <1>3
  <2> HIDE DEF fl, part, C
  <2> QED BY <1>1, <2>1, SumAtMost
<1>8. Remainder(work, total, d, low) = d - F
  BY DEF Remainder, SumFunction
<1> HIDE DEF C, F, P, n
<1>9. total * F <= total * d
  BY <1>1, <1>4, <1>5, <1>6
<1>10. total * d <= total * (F + n)
  <2>1. total * (F + n) = total * F + total * n
    BY <1>1, <1>4
  <2> QED BY <1>5, <1>7, <2>1
<1>11. F <= d /\ d <= F + n
  BY <1>1, <1>4, <1>9, <1>10, Cancel
<1> QED BY <1>1, <1>4, <1>8, <1>11 DEF n, C

\* The entries of a round add up to the distributable amount, whichever products were
\* rounded down and along whichever order the remainder is handed out.
LEMMA SplitConserves ==
    ASSUME NEW W, NEW work, NEW total \in Nat \ {0}, Round(W, work, total),
           NEW d \in Nat \ {0}, NEW low \in SUBSET MayFallShort(work, total, d),
           NEW R, NEW rank, Ranks(Contributors(work), R, rank)
    PROVE  SumFunctionOnSet(CalculatePayouts(work, rank, total, d, low), Contributors(work)) = d
<1> DEFINE C == Contributors(work)
           fl == [w \in C |-> FloorShare(work, total, d, low, w)]
           r == Remainder(work, total, d, low)
           A == {w \in C : rank[w] < r}
           split == CalculatePayouts(work, rank, total, d, low)
<1>1. C \subseteq W /\ IsFiniteSet(C) /\ W = DOMAIN work /\ work \in [W -> Nat]
  BY RoundContributors DEF Round
<1>2. r \in 0..Cardinality(C)
  BY RemainderBounds
<1>3. (\A w \in C : rank[w] \in Int) /\ Cardinality(A) = r
  <2>1. /\ \A w \in C : rank[w] \in 0..(Cardinality(C) - 1)
        /\ \A i \in 0..Cardinality(C) : Cardinality({w \in C : rank[w] < i}) = i
    <3> HIDE DEF C
    <3> QED BY <1>1, RankCount DEF C
  <2> HIDE DEF C, r
  <2> QED BY <1>2, <2>1
<1>4. \A w \in C : fl[w] \in Int
  BY <1>1, FloorBounds
<1>5. \A w \in C : split[w] = fl[w] + (IF w \in A THEN 1 ELSE 0)
  <2>1. ASSUME NEW w \in C
        PROVE  split[w] = FloorShare(work, total, d, low, w) + Extra(r, rank[w])
    BY <1>1, <2>1 DEF CalculatePayouts, PayoutWorkers
  <2>2. \A w \in C : Extra(r, rank[w]) = IF w \in A THEN 1 ELSE 0
    BY <1>2, <1>3 DEF Extra
  <2> HIDE DEF split, A, r
  <2> QED BY <2>1, <2>2
<1>6. SumFunctionOnSet(split, C) = SumFunctionOnSet(fl, C) + Cardinality(A)
  <2>1. A \in SUBSET C
    OBVIOUS
  <2> HIDE DEF split, fl, A, C
  <2> QED BY <1>1, <1>4, <1>5, <2>1, SumCount
<1>7. r = d - SumFunctionOnSet(fl, C)
  BY DEF Remainder, SumFunction
<1>8. SumFunctionOnSet(fl, C) \in Int
  <2> HIDE DEF fl, C
  <2> QED BY <1>1, <1>4, SumType
<1> HIDE DEF split, fl, A, C, r
<1>9. SumFunctionOnSet(split, C) = d
  BY <1>3, <1>6, <1>7, <1>8
<1> QED BY <1>9 DEF split, C

\* The order of a live round's list.
LiveOrder(work, shares) ==
    {e \in Contributors(work) \X Contributors(work) : Before(work, shares, e[1], e[2])}

\* A live round's list is sorted along a strict total order (applyShareToRoundLocked).
LEMMA LiveRanks ==
    ASSUME NEW W, NEW work \in [W -> Nat], NEW shares \in [W -> Nat], W \subseteq Int
    PROVE  Ranks(Contributors(work), LiveOrder(work, shares), LiveRank(work, shares))
<1> DEFINE C == Contributors(work)
           R == LiveOrder(work, shares)
<1>1. \A x \in C : x \in Int /\ x \in W /\ work[x] \in Int /\ shares[x] \in Int
  BY DEF Contributors
<1>2. \A x, y \in C : <<x, y>> \in R <=> Before(work, shares, x, y)
  BY DEF LiveOrder
<1>3. \A x \in C : LiveRank(work, shares)[x] = Cardinality({y \in C : <<y, x>> \in R})
  <2>1. ASSUME NEW x \in C
        PROVE  {y \in C : <<y, x>> \in R} = {y \in C : Before(work, shares, y, x)}
    BY <1>2
  <2> QED BY <1>1, <2>1 DEF LiveRank
<1>4. \A x \in C : <<x, x>> \notin R
  BY <1>1, <1>2 DEF Before
<1>5. \A x, y, z \in C : <<x, y>> \in R /\ <<y, z>> \in R => <<x, z>> \in R
  BY <1>1, <1>2 DEF Before
<1>6. \A x, y \in C : x # y => <<x, y>> \in R \/ <<y, x>> \in R
  BY <1>1, <1>2 DEF Before
<1> QED BY <1>3, <1>4, <1>5, <1>6 DEF Ranks

\* The order of a rebuilt round's list.
RebuiltOrder(work) ==
    {e \in Contributors(work) \X Contributors(work) : e[1] < e[2]}

\* A rebuilt round's list is sorted along a strict total order too.
LEMMA RebuiltRanks ==
    ASSUME NEW W, NEW work \in [W -> Nat], W \subseteq Int
    PROVE  Ranks(Contributors(work), RebuiltOrder(work), RebuiltRank(work))
<1> DEFINE C == Contributors(work)
           R == RebuiltOrder(work)
<1>1. \A x \in C : x \in Int /\ x \in W
  BY DEF Contributors
<1>2. \A x, y \in C : <<x, y>> \in R <=> x < y
  BY DEF RebuiltOrder
<1>3. \A x \in C : RebuiltRank(work)[x] = Cardinality({y \in C : <<y, x>> \in R})
  <2>1. ASSUME NEW x \in C
        PROVE  {y \in C : <<y, x>> \in R} = {y \in C : y < x}
    BY <1>2
  <2> QED BY <1>1, <2>1 DEF RebuiltRank
<1>4. \A x \in C : <<x, x>> \notin R
  BY <1>1, <1>2
<1>5. \A x, y, z \in C : <<x, y>> \in R /\ <<y, z>> \in R => <<x, z>> \in R
  BY <1>1, <1>2
<1>6. \A x, y \in C : x # y => <<x, y>> \in R \/ <<y, x>> \in R
  BY <1>1, <1>2
<1> QED BY <1>3, <1>4, <1>5, <1>6 DEF Ranks

\* What a worker is paid: its floor and at most one atom of the remainder.
LEMMA SplitParts ==
    ASSUME NEW W, NEW work \in [W -> Nat], NEW total \in Nat \ {0}, NEW d \in Nat \ {0},
           NEW low, NEW rank
    PROVE  LET split == CalculatePayouts(work, rank, total, d, low)
               r == Remainder(work, total, d, low)
           IN  /\ \A w \in Contributors(work) :
                     split[w] = FloorShare(work, total, d, low, w) + Extra(r, rank[w])
               /\ \A w \in W \ Contributors(work) : split[w] = 0 /\ work[w] = 0
BY DEF CalculatePayouts, PayoutWorkers, Contributors

\* What a worker is paid is within one atom of its part.
LEMMA SplitWithin ==
    ASSUME NEW W, NEW work \in [W -> Nat], NEW total \in Nat \ {0}, NEW d \in Nat \ {0},
           NEW low \in SUBSET MayFallShort(work, total, d), NEW rank, NEW w \in W
    PROVE  LET off == CalculatePayouts(work, rank, total, d, low)[w] * total - work[w] * d
           IN  /\ off \in Int /\ off <= total
               /\ off > 0 - total \/ (w \in low /\ off = 0 - total)
<1> DEFINE split == CalculatePayouts(work, rank, total, d, low)[w]
           r == Remainder(work, total, d, low)
           fl == FloorShare(work, total, d, low, w)
           a == work[w] * d
           e == Extra(r, rank[w])
           off == split * total - a
<1>1. CASE w \in Contributors(work)
  <2>1. split = fl + e /\ e \in 0..1
    BY <1>1, SplitParts DEF Extra
  <2>2. /\ fl \in Nat /\ a \in Nat /\ total * fl <= a
        /\ w \notin low => a < total * fl + total
        /\ w \in low => a = total * fl + total
    BY <1>1, FloorBounds
  <2> HIDE DEF split, fl, a, e, off
  <2>3. split * total = total * fl + e * total /\ total * fl \in Int
    BY <2>1, <2>2
  <2>4. e * total = 0 \/ e * total = total
    BY <2>1
  <2>5. off = (total * fl + e * total) - a
    BY <2>3 DEF off
  <2>6. /\ off \in Int /\ off <= total
        /\ off > 0 - total \/ (w \in low /\ off = 0 - total)
    BY <2>2, <2>3, <2>4, <2>5
  <2> QED BY <2>6 DEF off, split, a
<1>2. CASE w \notin Contributors(work)
  <2>1. split = 0 /\ work[w] = 0
    BY <1>2, SplitParts
  <2>2. off = 0
    BY <2>1
  <2> QED BY <2>2
<1> QED BY <1>1, <1>2

\* More work is never paid less, if it comes first in the list.
LEMMA SplitOrdered ==
    ASSUME NEW W, NEW work \in [W -> Nat], NEW total \in Nat \ {0}, NEW d \in Nat \ {0},
           NEW low \in SUBSET MayFallShort(work, total, d), NEW rank,
           NEW v \in Contributors(work), NEW w \in Contributors(work),
           work[v] > work[w], rank[v] \in Int, rank[w] \in Int, rank[v] < rank[w],
           Remainder(work, total, d, low) \in Int
    PROVE  LET split == CalculatePayouts(work, rank, total, d, low)
           IN  split[v] >= split[w]
<1> DEFINE r == Remainder(work, total, d, low)
           fv == FloorShare(work, total, d, low, v)
           fw == FloorShare(work, total, d, low, w)
           a == work[v] * d
           b == work[w] * d
<1>1. /\ fv \in Nat /\ a \in Nat
      /\ v \notin low => a < total * fv + total
      /\ v \in low => a = total * fv + total
  BY FloorBounds
<1>2. fw \in Nat /\ b \in Nat /\ total * fw <= b
  BY FloorBounds
<1>3. b < a
  <2>1. work[v] \in Nat /\ work[w] \in Nat
    BY DEF Contributors
  <2> QED BY <2>1
<1>4. Extra(r, rank[v]) \in Nat /\ Extra(r, rank[w]) \in Nat
      /\ Extra(r, rank[w]) <= Extra(r, rank[v])
  <2> HIDE DEF r
  <2> QED BY DEF Extra, r
<1>5. fw <= fv
  <2> HIDE DEF fv, fw, a, b
  <2>1. total * fv \in Int /\ total * fw \in Int /\ total * (fv + 1) = total * fv + total
    BY <1>1, <1>2
  <2>2. total * fw < total * (fv + 1)
    BY <1>1, <1>2, <1>3, <2>1
  <2>3. ~(total * (fv + 1) <= total * fw)
    BY <2>1, <2>2
  <2>4. ~(fv + 1 <= fw)
    BY <1>1, <1>2, <2>3
  <2> QED BY <1>1, <1>2, <2>4
<1>6. /\ CalculatePayouts(work, rank, total, d, low)[v] = fv + Extra(r, rank[v])
      /\ CalculatePayouts(work, rank, total, d, low)[w] = fw + Extra(r, rank[w])
  BY SplitParts
<1> HIDE DEF fv, fw, r
<1> QED BY <1>1, <1>2, <1>4, <1>5, <1>6
=============================================================================
