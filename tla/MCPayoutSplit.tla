---------------------------- MODULE MCPayoutSplit ----------------------------
(***************************************************************************)
(* Evaluates PayoutSplit over every small round: the rounds are the states *)
(* reached by adding one accepted share at a time, as the pool does, and   *)
(* each state is split for every distributable amount and every rounding.  *)
(***************************************************************************)
EXTENDS PayoutSplit, VarDiff

CONSTANTS Worker, ShareWork, MaxWork, MaxDistributable

ASSUME SplitAssumption ==
    /\ Worker \subseteq Nat /\ IsFiniteSet(Worker)
    /\ ShareWork \subseteq Nat \ {0} /\ MaxWork \in Nat /\ MaxDistributable \in Nat

CONSTANTS StartDifficulty, Pace, Target, LeastDifficulty, MostDifficulty, Shares  \* VarDiff's

PowerOfTwo[n \in Nat] == IF n = 0 THEN 1 ELSE 2 * PowerOfTwo[n - 1]

\* New leaves the target and the least difficulty positive and the most no smaller; the
\* shares are enough to double the least until it is the most, and two more.
ASSUME VarDiffAssumption ==
    /\ StartDifficulty \subseteq Nat /\ Pace \subseteq Nat /\ Target \in Nat \ {0}
    /\ LeastDifficulty \in Nat \ {0} /\ MostDifficulty \in Nat
    /\ LeastDifficulty <= MostDifficulty
    /\ Shares \in Nat /\ Shares >= 2
    /\ MostDifficulty <= LeastDifficulty * PowerOfTwo[Shares - 2]

VARIABLES work, shares, total

vars == <<work, shares, total>>

Init ==
    /\ work = [w \in Worker |-> 0]
    /\ shares = [w \in Worker |-> 0]
    /\ total = 0

\* applyShareToRoundLocked: one accepted share of worker w.
ApplyShare(w, size) ==
    /\ total + size <= MaxWork
    /\ work' = [work EXCEPT ![w] = @ + size]
    /\ shares' = [shares EXCEPT ![w] = @ + 1]
    /\ total' = total + size

Next == \E w \in Worker, size \in ShareWork : ApplyShare(w, size)

Spec == Init /\ [][Next]_vars

Amounts == 1..MaxDistributable

\* Every rounding of every split of this state's round.
Splits == IF total = 0 THEN {}
          ELSE {s \in Amounts \X SUBSET Contributors(work) :
                    s[2] \subseteq MayFallShort(work, total, s[1])}

\* The workers' amounts as the pool computes them from this state.
Split(s) == CalculatePayouts(work, LiveRank(work, shares), total, s[1], s[2])

\* Whatever the float products round to, every atom of the distributable reward
\* is handed out and none twice: the entries of a round add up to it
\* (calculatePayouts, the remainder loop).
Conserved ==
    \A s \in Splits : SumFunctionOnSet(Split(s), Contributors(work)) = s[1]

\* The floors never add up to more than the reward, and what they leave is no more
\* than one atom per worker: the remainder loop ends in its first pass, so that
\* nobody gains two leftover atoms (calculatePayouts, the reset of its index).
SinglePass ==
    \A s \in Splits :
        Remainder(work, total, s[1], s[2]) \in 0..Cardinality(Contributors(work))

\* Reference definition: a worker's part is work/total of the reward.  What it is
\* paid is at most one atom above its part (the largest worker collects a leftover
\* atom even when its own part was whole) and, unless its product was rounded
\* down, less than one atom below it.
WithinOneAtom ==
    \A s \in Splits : \A w \in Worker :
        LET off == Split(s)[w] * total - work[w] * s[1]
        IN  /\ off <= total
            /\ off > 0 - total \/ (w \in s[2] /\ off = 0 - total)

\* No worker is paid less than one that contributed less, whichever products were
\* rounded down: leftover atoms go to the head of the list, which is sorted by work
\* (applyShareToRoundLocked, the trailing sort; calculatePayouts).
MoreWorkNeverPaysLess ==
    \A s \in Splits : \A v, w \in Contributors(work) :
        work[v] > work[w] => Split(s)[v] >= Split(s)[w]

\* Reference definition: a difficulty at which a worker of this pace finds a share in
\* half the wanted time or more and twice that or less, or that can go no further.
Suits(d, pace) ==
    /\ d * pace >= Target \div 2 \/ d = MostDifficulty
    /\ d * pace <= Target * 2 \/ d = LeastDifficulty

\* Whatever difficulty a worker has, also one from a ledger of other flags, it comes to
\* one that suits its pace within a few shares and then stays: VarDiff does not swing
\* between two difficulties (adjustDifficulty).
VarDiffSettles ==
    \A start \in StartDifficulty, pace \in Pace :
        LET d == Course(start, pace, Target, LeastDifficulty, MostDifficulty, Shares)
        IN  /\ Suits(d[Shares], pace)
            /\ d[Shares] = d[Shares - 1]
=============================================================================
