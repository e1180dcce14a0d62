-------------------------- MODULE PayoutSplitProofs --------------------------
(***************************************************************************)
(* Theorems about the split of every round a pool can come to, for every   *)
(* value of MCPayoutSplit's constants.                                     *)
(***************************************************************************)
EXTENDS MCPayoutSplit, PayoutSplitLemmas

\* The inductive invariant: the total is the sum of the workers' work, to which it adds
\* that workers and shares are counted in naturals.
RoundInv ==
    /\ Round(Worker, work, total)
    /\ shares \in [Worker -> Nat]

LEMMA RoundInit == Init => RoundInv
<1> SUFFICES ASSUME Init PROVE RoundInv
  OBVIOUS
<1> USE SplitAssumption DEF Init
<1>1. work \in [Worker -> Nat] /\ shares \in [Worker -> Nat] /\ total = 0
  OBVIOUS
<1>2. SumFunctionOnSet(work, Worker) = 0
  <2> DEFINE none == {}
  <2>1. /\ IsFiniteSet(Worker) /\ none \in SUBSET Worker
        /\ \A w \in Worker : work[w] \in Int
        /\ \A w \in Worker \ none : work[w] = 0
    OBVIOUS
  <2>2. SumFunctionOnSet(work, none) = 0
    BY SumEmpty
  <2> HIDE DEF none, Init
  <2>3. SumFunctionOnSet(work, Worker) = SumFunctionOnSet(work, none)
    BY <2>1, SumSupport
  <2> QED BY <2>2, <2>3
<1> QED BY <1>1, <1>2 DEF RoundInv, Round

LEMMA RoundStep == RoundInv /\ [Next]_vars => RoundInv'
<1> SUFFICES ASSUME RoundInv, [Next]_vars PROVE RoundInv'
  OBVIOUS
<1>1. CASE UNCHANGED vars
  BY <1>1 DEF vars, RoundInv, Round
<1>2. ASSUME NEW w \in Worker, NEW size \in ShareWork, ApplyShare(w, size)
      PROVE  RoundInv'
  <2>1. work \in [Worker -> Nat] /\ shares \in [Worker -> Nat] /\ size \in Nat
    BY SplitAssumption DEF RoundInv, Round
  <2>2. work' \in [Worker -> Nat] /\ shares' \in [Worker -> Nat]
    BY <1>2, <2>1 DEF ApplyShare
  <2>3. SumFunctionOnSet(work', Worker) = SumFunctionOnSet(work, Worker) + size
    <3>1. work \in [Worker -> Int] /\ size \in Int
      BY <2>1
    <3>2. work' = [work EXCEPT ![w] = @ + size]
      BY <1>2 DEF ApplyShare
    <3> QED BY <3>1, <3>2, SumUpdate, SplitAssumption
  <2> QED BY <1>2, <2>2, <2>3 DEF ApplyShare, RoundInv, Round
<1> QED BY <1>1, <1>2 DEF Next

LEMMA RoundInvariant == Spec => []RoundInv
  BY RoundInit, RoundStep, PTL DEF Spec

\* The facts about one split of a state's round that every theorem below starts from.
LEMMA SplitOfState ==
    ASSUME RoundInv, NEW s \in Splits
    PROVE  /\ total \in Nat \ {0} /\ s[1] \in Nat \ {0}
           /\ s[2] \in SUBSET MayFallShort(work, total, s[1])
           /\ work \in [Worker -> Nat]
           /\ Ranks(Contributors(work), LiveOrder(work, shares), LiveRank(work, shares))
           /\ Remainder(work, total, s[1], s[2]) \in 0..Cardinality(Contributors(work))
<1>1. /\ total # 0 /\ s[1] \in 1..MaxDistributable
      /\ s[2] \in SUBSET MayFallShort(work, total, s[1])
  BY DEF Splits, Amounts
<1>2. Round(Worker, work, total) /\ work \in [Worker -> Nat] /\ shares \in [Worker -> Nat]
  BY DEF RoundInv, Round
<1>3. total \in Nat \ {0} /\ s[1] \in Nat \ {0}
  <2>1. total \in Int /\ total >= 0
    BY <1>2, RoundContributors
  <2> QED BY <1>1, <2>1, SplitAssumption
<1>4. Remainder(work, total, s[1], s[2]) \in 0..Cardinality(Contributors(work))
  BY <1>1, <1>2, <1>3, RemainderBounds
<1>5. Ranks(Contributors(work), LiveOrder(work, shares), LiveRank(work, shares))
  BY <1>2, LiveRanks DEF Round
<1> QED BY <1>1, <1>2, <1>3, <1>4, <1>5

\* Whatever round the pool comes to, whatever there is to distribute and whichever
\* products are rounded down, the remainder loop ends in its first pass
\* (calculatePayouts): floors that add up to more than the reward, or leave more than
\* one atom per worker, do not exist.
THEOREM RemainderFitsOnePass == Spec => []SinglePass
<1>1. RoundInv => SinglePass
  BY SplitOfState DEF SinglePass
<1> QED BY <1>1, RoundInvariant, PTL

\* The entries of every round add up to what there is to distribute (calculatePayouts):
\* the ranks of the list's workers number them, so that exactly as many collect an atom
\* as the floors leave.
THEOREM SplitIsConserved == Spec => []Conserved
<1>1. ASSUME RoundInv, NEW s \in Splits
      PROVE  SumFunctionOnSet(Split(s), Contributors(work)) = s[1]
  BY <1>1, SplitOfState, SplitConserves DEF Split, RoundInv
<1>2. RoundInv => Conserved
  BY <1>1 DEF Conserved
<1> QED BY <1>2, RoundInvariant, PTL

\* No worker of any round is paid more than one atom above its part of the reward, nor
\* an atom or more below it unless its product is rounded down (calculatePayouts).
THEOREM SplitIsFair == Spec => []WithinOneAtom
<1>1. ASSUME RoundInv, NEW s \in Splits, NEW w \in Worker
      PROVE  LET off == Split(s)[w] * total - work[w] * s[1]
             IN  /\ off <= total
                 /\ off > 0 - total \/ (w \in s[2] /\ off = 0 - total)
  BY <1>1, SplitOfState, SplitWithin DEF Split
<1>2. RoundInv => WithinOneAtom
  BY <1>1 DEF WithinOneAtom
<1> QED BY <1>2, RoundInvariant, PTL

\* In no round is a worker paid less than one that contributed less
\* (applyShareToRoundLocked sorts the list; calculatePayouts hands the remainder out
\* from its head).
THEOREM SplitKeepsOrder == Spec => []MoreWorkNeverPaysLess
<1>1. ASSUME RoundInv, NEW s \in Splits, NEW v \in Contributors(work),
             NEW w \in Contributors(work), work[v] > work[w]
      PROVE  Split(s)[v] >= Split(s)[w]
  <2> DEFINE rank == LiveRank(work, shares)
             C == Contributors(work)
  <2>1. /\ total \in Nat \ {0} /\ s[1] \in Nat \ {0} /\ work \in [Worker -> Nat]
        /\ s[2] \in SUBSET MayFallShort(work, total, s[1])
        /\ Remainder(work, total, s[1], s[2]) \in Int
        /\ Ranks(C, LiveOrder(work, shares), rank)
    BY <1>1, SplitOfState
  <2>2. <<v, w>> \in LiveOrder(work, shares)
    BY <1>1 DEF LiveOrder, Before
  <2>3. rank[v] \in Int /\ rank[w] \in Int /\ rank[v] < rank[w]
    <3>1. IsFiniteSet(C)
      BY <1>1, RoundContributors DEF RoundInv
    <3>2. /\ \A x \in C : rank[x] \in 0..(Cardinality(C) - 1)
          /\ \A x, y \in C : <<x, y>> \in LiveOrder(work, shares) => rank[x] < rank[y]
      <4> HIDE DEF C, rank
      <4> QED BY <2>1, <3>1, RankCount
    <3> QED BY <2>2, <3>2
  <2> HIDE DEF rank
  <2>4. LET split == CalculatePayouts(work, rank, total, s[1], s[2])
        IN  split[v] >= split[w]
    BY <1>1, <2>1, <2>3, SplitOrdered
  <2> QED BY <2>4 DEF Split, rank
<1>2. RoundInv => MoreWorkNeverPaysLess
  BY <1>1 DEF MoreWorkNeverPaysLess
<1> QED BY <1>2, RoundInvariant, PTL

-----------------------------------------------------------------------------
(* VarDiff.                                                                 *)

\* Twice as many shares as wanted, or more; half as many, or less.
TooFast(d, pace) == pace * d < Target \div 2
TooSlow(d, pace) == pace * d > Target * 2

\* The difficulty after one share more.
Adjusted(d, pace) ==
    AdjustDifficulty(d, pace * d, Target, LeastDifficulty, MostDifficulty)

InRange(d) == d \in Nat /\ LeastDifficulty <= d /\ d <= MostDifficulty

\* What a share makes of the difficulty.
LEMMA AdjustedIs ==
    ASSUME NEW d \in Nat, NEW pace \in Nat
    PROVE  /\ InRange(Adjusted(d, pace))
           /\ d > 0 =>
                /\ TooFast(d, pace) => Adjusted(d, pace) =
                      AtMost(AtLeast(d * 2, LeastDifficulty), MostDifficulty)
                /\ TooSlow(d, pace) => Adjusted(d, pace) =
                      AtMost(AtLeast(d \div 2, LeastDifficulty), MostDifficulty)
                /\ ~TooFast(d, pace) /\ ~TooSlow(d, pace) => Adjusted(d, pace) =
                      AtMost(AtLeast(d, LeastDifficulty), MostDifficulty)
<1> DEFINE elapsed == pace * d
           c == IF d = 0 THEN LeastDifficulty ELSE d
           new == Stepped(c, elapsed, Target)
<1>1. elapsed \in Nat
  BY MulNat
<1>2. Target \in Nat \ {0} /\ c \in Nat
  BY VarDiffAssumption
<1>3. Adjusted(d, pace) = AtMost(AtLeast(new, LeastDifficulty), MostDifficulty)
  <2> HIDE DEF new
  <2> QED BY <1>2 DEF Adjusted, AdjustDifficulty, new
<1> HIDE DEF c
<1>4. /\ elapsed < Target \div 2 => new = c * 2
      /\ elapsed > Target * 2 => new = c \div 2
      /\ ~(elapsed < Target \div 2) /\ ~(elapsed > Target * 2) => new = c
  <2> HIDE DEF elapsed
  <2>1. ~(elapsed < Target \div 2 /\ elapsed > Target * 2)
    BY <1>1, <1>2
  <2> QED BY <2>1 DEF Stepped
<1>5. new \in Nat
  <2>1. c * 2 \in Nat /\ c \div 2 \in Nat
    BY <1>2
  <2> HIDE DEF new, elapsed
  <2> QED BY <1>2, <1>4, <2>1
<1>6. InRange(Adjusted(d, pace))
  <2> HIDE DEF new
  <2> QED BY <1>3, <1>5, VarDiffAssumption DEF InRange, AtMost, AtLeast
<1>7. d > 0 => c = d
  BY DEF c
<1> HIDE DEF new
<1> QED BY <1>3, <1>4, <1>6, <1>7 DEF TooFast, TooSlow

\* A worker that is too fast gets twice the difficulty or the most there is, and is not
\* too slow then.
LEMMA FasterWorker ==
    ASSUME NEW d, InRange(d), NEW pace \in Nat, TooFast(d, pace)
    PROVE  /\ Adjusted(d, pace) = MostDifficulty \/ Adjusted(d, pace) = 2 * d
           /\ ~TooSlow(Adjusted(d, pace), pace)
<1> DEFINE new == Adjusted(d, pace)
           e == pace * d
<1>1. d \in Nat /\ d > 0 /\ Target \in Nat \ {0} /\ e \in Nat
  BY VarDiffAssumption, MulNat DEF InRange
<1>2. new = AtMost(AtLeast(d * 2, LeastDifficulty), MostDifficulty)
  BY <1>1, AdjustedIs
<1>3. (new = MostDifficulty \/ new = 2 * d) /\ new <= 2 * d /\ new \in Nat
  <2> HIDE DEF new
  <2> QED BY <1>1, <1>2, VarDiffAssumption DEF InRange, AtMost, AtLeast
<1> HIDE DEF new
<1>4. pace * new <= pace * (2 * d)
  <2>1. 2 * d \in Nat
    BY <1>1
  <2> QED BY <1>3, <2>1, MulMonotone
<1>5. pace * (2 * d) = 2 * e
  BY <1>1
<1>6. e < Target \div 2
  BY DEF TooFast
<1> HIDE DEF e
<1>7. pace * new \in Nat
  BY <1>3, MulNat
<1>8. ~TooSlow(new, pace)
  BY <1>1, <1>4, <1>5, <1>6, <1>7 DEF TooSlow
<1> QED BY <1>3, <1>8 DEF new

\* One that is too slow gets half the difficulty or the least there is, and is not too
\* fast then.
LEMMA SlowerWorker ==
    ASSUME NEW d, InRange(d), NEW pace \in Nat, TooSlow(d, pace)
    PROVE  /\ \/ Adjusted(d, pace) = LeastDifficulty
              \/ Adjusted(d, pace) \in Nat /\ 2 * Adjusted(d, pace) <= d
           /\ ~TooFast(Adjusted(d, pace), pace)
<1> DEFINE new == Adjusted(d, pace)
           k == d \div 2
<1>1. d \in Nat /\ d > 0 /\ Target \in Nat \ {0} /\ k \in Nat
  BY VarDiffAssumption DEF InRange
<1>2. new = AtMost(AtLeast(k, LeastDifficulty), MostDifficulty)
  BY <1>1, AdjustedIs
<1>3. 2 * k <= d /\ d <= 2 * k + 1
  BY <1>1
<1> HIDE DEF new, k
<1>4. (new = LeastDifficulty \/ new = k) /\ k <= new /\ new >= 1 /\ new \in Nat
  BY <1>1, <1>2, <1>3, VarDiffAssumption DEF InRange, AtMost, AtLeast
<1>5. d <= 3 * new
  BY <1>1, <1>3, <1>4
<1>6. pace * d <= pace * (3 * new)
  <2>1. 3 * new \in Nat
    BY <1>4
  <2> QED BY <1>1, <1>5, <2>1, MulMonotone
<1> DEFINE e == pace * new
<1>7. pace * (3 * new) = 3 * e /\ e \in Nat
  BY <1>4, MulNat
<1>8. pace * d > Target * 2 /\ pace * d \in Nat
  BY <1>1, MulNat DEF TooSlow
<1>9. ~(e < Target \div 2)
  <2> DEFINE f == pace * d
             g == pace * (3 * new)
  <2>1. f <= g /\ g = 3 * e /\ e \in Nat /\ f > Target * 2 /\ f \in Nat
    BY <1>6, <1>7, <1>8
  <2> HIDE DEF e, f, g
  <2> QED BY <1>1, <2>1
<1>10. new = LeastDifficulty \/ 2 * new <= d
  BY <1>3, <1>4
<1> QED BY <1>4, <1>9, <1>10 DEF TooFast, new

\* Any other keeps its difficulty.
LEMMA SuitedWorker ==
    ASSUME NEW d, InRange(d), NEW pace \in Nat, ~TooFast(d, pace), ~TooSlow(d, pace)
    PROVE  Adjusted(d, pace) = d
<1>1. d \in Nat /\ d > 0
  BY VarDiffAssumption DEF InRange
<1>2. Adjusted(d, pace) = AtMost(AtLeast(d, LeastDifficulty), MostDifficulty)
  BY <1>1, AdjustedIs
<1> QED BY <1>1, <1>2, VarDiffAssumption DEF InRange, AtMost, AtLeast

\* The powers of two.
LEMMA PowerOfTwoIs ==
    /\ PowerOfTwo[0] = 1
    /\ \A n \in Nat : PowerOfTwo[n] \in Nat \ {0} /\ PowerOfTwo[n + 1] = 2 * PowerOfTwo[n]
<1> DEFINE step == [e \in Nat \X Nat |-> 2 * e[2]]
           Solves(g) == g = [n \in Nat |-> IF n = 0 THEN 1 ELSE 2 * g[n - 1]]
           T == {n \in Nat : PowerOfTwo[n] \in Nat \ {0}}
<1>1. \E g : Solves(g)
  <2> DEFINE S == Nat
             base == 1
  <2>1. base \in S /\ \A n \in Nat, x \in S : step[<<n, x>>] = 2 * x /\ step[<<n, x>>] \in S
    OBVIOUS
  <2> HIDE DEF S, base, step
  <2>2. PICK f \in [Nat -> S] : Iterates(f, base, step)
    BY <2>1, RecursionExists
  <2>3. ASSUME NEW n \in Nat PROVE f[n] = IF n = 0 THEN 1 ELSE 2 * f[n - 1]
    <3>1. CASE n = 0
      BY <2>2, <3>1 DEF Iterates, base
    <3>2. CASE n # 0
      <4>1. n - 1 \in Nat /\ (n - 1) + 1 = n
        BY <3>2
      <4>2. f[(n - 1) + 1] = step[<<n - 1, f[n - 1]>>] /\ f[n - 1] \in S
        BY <2>2, <4>1 DEF Iterates
      <4> QED BY <2>1, <3>2, <4>1, <4>2
    <3> QED BY <3>1, <3>2
  <2>4. Solves(f)
    BY <2>2, <2>3
  <2> HIDE DEF Solves
  <2> QED BY <2>4
<1>2. Solves(PowerOfTwo)
  BY <1>1 DEF PowerOfTwo
<1>3. PowerOfTwo[0] = 1
  BY <1>2
<1>4. \A n \in Nat : PowerOfTwo[n + 1] = 2 * PowerOfTwo[n]
  <2> SUFFICES ASSUME NEW n \in Nat PROVE PowerOfTwo[n + 1] = 2 * PowerOfTwo[n]
    OBVIOUS
  <2>1. n + 1 \in Nat /\ n + 1 # 0 /\ (n + 1) - 1 = n
    OBVIOUS
  <2> QED BY <1>2, <2>1
<1>5. Nat \subseteq T
  <2>1. 0 \in T /\ \A n \in Nat : n \in T => n + 1 \in T
    BY <1>3, <1>4
  <2> HIDE DEF T
  <2> QED BY <2>1, NatInduct
<1> QED BY <1>3, <1>4, <1>5

\* The course of a worker's difficulty, share after share.
LEMMA CourseIs ==
    ASSUME NEW start \in Nat, NEW pace \in Nat
    PROVE  LET c == Course(start, pace, Target, LeastDifficulty, MostDifficulty, Shares)
           IN  /\ c[0] = start
               /\ \A n \in 1..Shares : c[n] = Adjusted(c[n - 1], pace)
<1> DEFINE IsCourse(c) ==
               c = [n \in 0..Shares |->
                      IF n = 0 THEN start
                      ELSE AdjustDifficulty(c[n - 1], pace * c[n - 1], Target,
                                            LeastDifficulty, MostDifficulty)]
           step == [e \in Nat \X Nat |-> Adjusted(e[2], pace)]
           course == Course(start, pace, Target, LeastDifficulty, MostDifficulty, Shares)
<1>1. \E c : IsCourse(c)
  <2> DEFINE S == Nat
  <2>1. \A n \in Nat, d \in Nat : Adjusted(d, pace) \in Nat
    BY AdjustedIs DEF InRange
  <2>2. /\ start \in S
        /\ \A n \in Nat, d \in S : step[<<n, d>>] = Adjusted(d, pace) /\ step[<<n, d>>] \in S
    BY <2>1
  <2> HIDE DEF S, step
  <2>3. PICK f \in [Nat -> S] : Iterates(f, start, step)
    BY <2>2, RecursionExists
  <2> DEFINE c == [n \in 0..Shares |-> f[n]]
  <2>4. ASSUME NEW n \in 0..Shares
        PROVE  c[n] = IF n = 0 THEN start ELSE Adjusted(c[n - 1], pace)
    <3>1. CASE n = 0
      BY <2>3, <3>1 DEF Iterates
    <3>2. CASE n # 0
      <4>1. n - 1 \in Nat /\ n - 1 \in 0..Shares /\ (n - 1) + 1 = n
        BY <3>2, VarDiffAssumption
      <4>2. f[(n - 1) + 1] = step[<<n - 1, f[n - 1]>>] /\ f[n - 1] \in S
        BY <2>3, <4>1 DEF Iterates
      <4>3. c[n] = f[n] /\ c[n - 1] = f[n - 1]
        BY <4>1
      <4> HIDE DEF c
      <4> QED BY <2>2, <3>2, <4>1, <4>2, <4>3
    <3> QED BY <3>1, <3>2
  <2>5. DOMAIN c = 0..Shares /\ c = [n \in 0..Shares |-> c[n]]
    OBVIOUS
  <2> HIDE DEF c
  <2>6. IsCourse(c)
    BY <2>4, <2>5 DEF Adjusted
  <2> HIDE DEF IsCourse
  <2> QED BY <2>6
<1>2. IsCourse(course)
  BY <1>1 DEF Course
<1> HIDE DEF course
<1>3. course[0] = start
  BY <1>2, VarDiffAssumption
<1>4. ASSUME NEW n \in 1..Shares PROVE course[n] = Adjusted(course[n - 1], pace)
  <2>1. n \in 0..Shares /\ n # 0
    BY VarDiffAssumption
  <2> QED BY <1>2, <2>1 DEF Adjusted
<1> QED BY <1>3, <1>4 DEF course

\* How far a worker that is still too fast, or too slow, has come after n shares.
ComesNear(d, pace, n) ==
    /\ InRange(d)
    /\ TooFast(d, pace) => d = MostDifficulty \/ LeastDifficulty * PowerOfTwo[n] <= d
    /\ TooSlow(d, pace) => d = LeastDifficulty \/ d * PowerOfTwo[n] <= MostDifficulty

LEMMA ComesNearer ==
    ASSUME NEW n \in Nat, NEW pace \in Nat, NEW d, ComesNear(d, pace, n)
    PROVE  ComesNear(Adjusted(d, pace), pace, n + 1)
<1> DEFINE new == Adjusted(d, pace)
           power == PowerOfTwo[n]
<1>1. InRange(d) /\ d \in Nat /\ InRange(new)
  BY AdjustedIs DEF ComesNear, InRange
<1>2. power \in Nat \ {0} /\ PowerOfTwo[n + 1] = 2 * power
  BY PowerOfTwoIs
<1>3. /\ TooFast(d, pace) => d = MostDifficulty \/ LeastDifficulty * power <= d
      /\ TooSlow(d, pace) => d = LeastDifficulty \/ d * power <= MostDifficulty
  BY DEF ComesNear
<1>4. /\ TooFast(d, pace) => (new = MostDifficulty \/ new = 2 * d) /\ ~TooSlow(new, pace)
      /\ TooSlow(d, pace) => /\ new = LeastDifficulty \/ (new \in Nat /\ 2 * new <= d)
                             /\ ~TooFast(new, pace)
      /\ ~TooFast(d, pace) /\ ~TooSlow(d, pace) => new = d
  BY <1>1, FasterWorker, SlowerWorker, SuitedWorker
<1> HIDE DEF new, power
<1>5. /\ LeastDifficulty \in Nat \ {0} /\ MostDifficulty \in Nat
      /\ new \in Nat /\ LeastDifficulty <= new /\ new <= MostDifficulty
      /\ LeastDifficulty <= d /\ d <= MostDifficulty
  BY <1>1, VarDiffAssumption DEF InRange
<1>6. ASSUME TooFast(new, pace)
      PROVE  new = MostDifficulty \/ LeastDifficulty * (2 * power) <= new
  <2>1. TooFast(d, pace) /\ (new = MostDifficulty \/ new = 2 * d)
    BY <1>4, <1>6
  <2>2. d = MostDifficulty => new = MostDifficulty
    BY <1>5, <2>1
  <2>3. LeastDifficulty * (2 * power) = 2 * (LeastDifficulty * power)
        /\ LeastDifficulty * power \in Nat
    BY <1>2, <1>5, MulNat
  <2> QED BY <1>1, <1>3, <2>1, <2>2, <2>3
<1>7. ASSUME TooSlow(new, pace)
      PROVE  new = LeastDifficulty \/ new * (2 * power) <= MostDifficulty
  <2>1. TooSlow(d, pace) /\ (new = LeastDifficulty \/ 2 * new <= d)
    BY <1>4, <1>7
  <2>2. d = LeastDifficulty => new = LeastDifficulty
    BY <1>5, <2>1
  <2>3. new * (2 * power) = power * (2 * new) /\ power * d = d * power
        /\ 2 * new \in Nat /\ d * power \in Nat /\ power * (2 * new) \in Nat
    BY <1>1, <1>2, <1>5, MulNat
  <2>4. 2 * new <= d => power * (2 * new) <= power * d
    BY <1>1, <1>2, <2>3, MulMonotone
  <2> QED BY <1>3, <1>5, <2>1, <2>2, <2>3, <2>4
<1>8. ComesNear(new, pace, n + 1)
  BY <1>1, <1>2, <1>6, <1>7 DEF ComesNear
<1> QED BY <1>8 DEF new

\* After enough shares the difficulty suits the worker and does not change.
LEMMA ComesToRest ==
    ASSUME NEW pace \in Nat, NEW d, ComesNear(d, pace, Shares - 2)
    PROVE  Adjusted(d, pace) = d /\ Suits(d, pace)
<1> DEFINE new == Adjusted(d, pace)
           power == PowerOfTwo[Shares - 2]
<1>1. InRange(d) /\ d \in Nat /\ InRange(new)
  BY AdjustedIs DEF ComesNear, InRange
<1>2. power \in Nat \ {0} /\ MostDifficulty <= LeastDifficulty * power
  <2>1. Shares - 2 \in Nat
    BY VarDiffAssumption
  <2> QED BY <2>1, PowerOfTwoIs, VarDiffAssumption
<1>3. /\ TooFast(d, pace) => d = MostDifficulty \/ LeastDifficulty * power <= d
      /\ TooSlow(d, pace) => d = LeastDifficulty \/ d * power <= MostDifficulty
  BY DEF ComesNear
<1>4. /\ TooFast(d, pace) => (new = MostDifficulty \/ new = 2 * d) /\ ~TooSlow(new, pace)
      /\ TooSlow(d, pace) => /\ new = LeastDifficulty \/ (new \in Nat /\ 2 * new <= d)
                             /\ ~TooFast(new, pace)
      /\ ~TooFast(d, pace) /\ ~TooSlow(d, pace) => new = d
  BY <1>1, FasterWorker, SlowerWorker, SuitedWorker
<1> HIDE DEF new, power
<1>5. /\ LeastDifficulty \in Nat \ {0} /\ MostDifficulty \in Nat /\ Target \in Nat \ {0}
      /\ new \in Nat /\ LeastDifficulty <= new /\ new <= MostDifficulty
      /\ LeastDifficulty <= d /\ d <= MostDifficulty
  BY <1>1, VarDiffAssumption DEF InRange
<1> DEFINE least == LeastDifficulty * power
           own == d * power
<1>6. least \in Nat /\ own \in Nat
  BY <1>1, <1>2, <1>5, MulNat
<1>7. d > LeastDifficulty => own > least
  <2>1. d > LeastDifficulty => power * (LeastDifficulty + 1) <= power * d
    BY <1>1, <1>2, <1>5, MulMonotone
  <2>2. power * (LeastDifficulty + 1) = least + power /\ power * d = own
    BY <1>1, <1>2, <1>5
  <2> HIDE DEF least, own
  <2> QED BY <1>2, <1>6, <2>1, <2>2
<1> HIDE DEF least, own
<1>8. MostDifficulty <= least
      /\ (TooFast(d, pace) => d = MostDifficulty \/ least <= d)
      /\ (TooSlow(d, pace) => d = LeastDifficulty \/ own <= MostDifficulty)
  BY <1>2, <1>3 DEF least, own
<1>9. ASSUME TooFast(d, pace) PROVE new = d /\ d = MostDifficulty /\ ~TooSlow(d, pace)
  <2>1. d = MostDifficulty
    BY <1>1, <1>5, <1>6, <1>8, <1>9
  <2>2. new = d
    BY <1>4, <1>5, <1>9, <2>1
  <2>3. ~TooSlow(d, pace)
    BY <1>4, <1>9, <2>2
  <2> QED BY <2>1, <2>2, <2>3
<1>10. ASSUME TooSlow(d, pace) PROVE new = d /\ d = LeastDifficulty /\ ~TooFast(d, pace)
  <2>1. d = LeastDifficulty
    BY <1>1, <1>5, <1>6, <1>7, <1>8, <1>10
  <2>2. new = d
    BY <1>4, <1>5, <1>10, <2>1
  <2>3. ~TooFast(d, pace)
    BY <1>4, <1>10, <2>2
  <2> QED BY <2>1, <2>2, <2>3
<1>11. /\ new = d
       /\ ~TooFast(d, pace) \/ d = MostDifficulty
       /\ ~TooSlow(d, pace) \/ d = LeastDifficulty
  BY <1>4, <1>9, <1>10
<1>12. Suits(d, pace)
  <2>1. d * pace = pace * d /\ pace * d \in Nat /\ Target \div 2 \in Nat
    BY <1>1, <1>5, MulNat
  <2> QED BY <1>5, <1>11, <2>1 DEF Suits, TooFast, TooSlow
<1> QED BY <1>11, <1>12 DEF new

\* Share after share, a worker whose difficulty does not suit it comes nearer.
LEMMA CourseComesNear ==
    ASSUME NEW start \in Nat, NEW pace \in Nat, NEW m \in Nat, m + 1 \in 1..Shares
    PROVE  ComesNear(Course(start, pace, Target, LeastDifficulty, MostDifficulty,
                            Shares)[m + 1], pace, m)
<1> DEFINE c == Course(start, pace, Target, LeastDifficulty, MostDifficulty, Shares)
           T == {n \in Nat : n + 1 \in 1..Shares => ComesNear(c[n + 1], pace, n)}
<1>1. c[0] = start /\ \A n \in 1..Shares : c[n] = Adjusted(c[n - 1], pace)
  BY CourseIs
<1> HIDE DEF c
<1>2. 0 \in T
  <2>1. 0 + 1 = 1 /\ 1 \in 1..Shares /\ 1 - 1 = 0
    BY VarDiffAssumption
  <2>2. c[1] = Adjusted(start, pace)
    BY <1>1, <2>1
  <2>3. InRange(c[1]) /\ c[1] \in Nat
    BY <2>2, AdjustedIs DEF InRange
  <2> DEFINE d == c[1]
             none == 0
  <2>4. PowerOfTwo[none] = 1 /\ LeastDifficulty * 1 <= d /\ d * 1 <= MostDifficulty
    BY <2>3, PowerOfTwoIs, VarDiffAssumption DEF InRange
  <2>5. InRange(d)
    BY <2>3
  <2> HIDE DEF d, none
  <2>6. ComesNear(d, pace, none)
    BY <2>4, <2>5 DEF ComesNear
  <2> QED BY <2>1, <2>6 DEF d, none
<1>3. ASSUME NEW n \in Nat, n \in T PROVE n + 1 \in T
  <2>1. SUFFICES ASSUME (n + 1) + 1 \in 1..Shares
                 PROVE  ComesNear(c[(n + 1) + 1], pace, n + 1)
    OBVIOUS
  <2>2. n + 1 \in 1..Shares /\ ((n + 1) + 1) - 1 = n + 1
    BY <2>1, VarDiffAssumption
  <2> DEFINE d == c[n + 1]
  <2>3. ComesNear(d, pace, n)
    BY <1>3, <2>2
  <2>4. c[(n + 1) + 1] = Adjusted(d, pace)
    BY <1>1, <2>1, <2>2
  <2> HIDE DEF d
  <2>5. ComesNear(Adjusted(d, pace), pace, n + 1)
    BY <2>3, ComesNearer
  <2> QED BY <2>4, <2>5
<1>4. Nat \subseteq T
  <2> HIDE DEF T
  <2> QED BY <1>2, <1>3, NatInduct
<1> QED BY <1>4 DEF c

\* Whatever difficulty a worker starts with, if it finds its shares at a steady pace, the
\* pool's difficulty for it suits the pace after the given shares and has stopped changing
\* by then: adjustDifficulty doubles or halves it towards the target, within the least and
\* the most, and never swings between two values (RecordShare, adjustDifficulty).
THEOREM VarDiffAlwaysSettles == Spec => []VarDiffSettles
<1>1. ASSUME NEW start \in StartDifficulty, NEW pace \in Pace
      PROVE  LET d == Course(start, pace, Target, LeastDifficulty, MostDifficulty, Shares)
             IN  Suits(d[Shares], pace) /\ d[Shares] = d[Shares - 1]
  <2> DEFINE c == Course(start, pace, Target, LeastDifficulty, MostDifficulty, Shares)
             m == Shares - 2
  <2>1. start \in Nat /\ pace \in Nat
    BY VarDiffAssumption
  <2>2. m \in Nat /\ m + 1 = Shares - 1 /\ m + 1 \in 1..Shares /\ Shares \in 1..Shares
    BY VarDiffAssumption
  <2> HIDE DEF m
  <2>3. ComesNear(c[m + 1], pace, m)
    BY <2>1, <2>2, CourseComesNear
  <2>4. c[Shares] = Adjusted(c[Shares - 1], pace)
    BY <2>1, <2>2, CourseIs
  <2> HIDE DEF c
  <2> DEFINE d == c[Shares - 1]
  <2>5. ComesNear(d, pace, Shares - 2)
    BY <2>2, <2>3 DEF m
  <2> HIDE DEF d
  <2>6. Adjusted(d, pace) = d /\ Suits(d, pace)
    BY <2>1, <2>5, ComesToRest
  <2>7. c[Shares] = c[Shares - 1] /\ Suits(c[Shares], pace)
    BY <2>4, <2>6 DEF d
  <2> QED BY <2>7 DEF c
<1>2. VarDiffSettles
  BY <1>1 DEF VarDiffSettles
<1> QED BY <1>2, PTL
=============================================================================
