----------------------------- MODULE PayoutSplit -----------------------------
(***************************************************************************)
(* How a solved round's distributable reward is split over the workers     *)
(* that contributed to it: calculatePayouts, as internal/service has it    *)
(* and cmd/pacpool-rebuild repeats it, with the order each keeps.          *)
(*                                                                         *)
(* Worker names are numbers, so that comparing two names is comparing two  *)
(* numbers.  A round is given by work[w] (accepted work), shares[w]        *)
(* (accepted shares), total (the round's AcceptedWork) and the             *)
(* distributable amount d, in atoms.  Shares are floors of float64         *)
(* products: low is the set of workers whose exact share is a whole number *)
(* the float product falls just short of, so that its floor is one less.   *)
(* Left out is a product so close below a whole number that float64 rounds *)
(* it up to it, which takes numbers beyond float64's precision: its floor  *)
(* is one more, by less than a float's error of the amount.                *)
(***************************************************************************)
EXTENDS Integers, FiniteSets, FiniteSetsExt

\* The workers a round lists: those with accepted work.
Contributors(work) == {w \in DOMAIN work : work[w] > 0}

MutantAscending(work, shares, v, w) == work[v] < work[w] \/ (work[v] = work[w] /\ v < w)

\* The order of a live round's workers: more work first, then more shares,
\* then the smaller name.
Before(work, shares, v, w) ==
    \/ work[v] > work[w]
    \/ work[v] = work[w] /\ shares[v] > shares[w]
    \/ work[v] = work[w] /\ shares[v] = shares[w] /\ v < w

\* The index, from 0, of each worker in a live round's list.
LiveRank(work, shares) ==
    [w \in DOMAIN work |->
        Cardinality({v \in Contributors(work) : Before(work, shares, v, w)})]

\* The same in a rebuilt round, whose workers are sorted by name alone.
RebuiltRank(work) ==
    [w \in DOMAIN work |-> Cardinality({v \in Contributors(work) : v < w})]

\* Only a whole product can be rounded below its floor.
MayFallShort(work, total, d) ==
    {w \in Contributors(work) : (work[w] * d) % total = 0}

MutantRoundsUp(work, total, d, low, w) ==
    ((work[w] * d + total - 1) \div total) - (IF w \in low THEN 1 ELSE 0)

\* int64(math.Floor(...)) of the worker's part.
FloorShare(work, total, d, low, w) ==
    ((work[w] * d) \div total) - (IF w \in low THEN 1 ELSE 0)

Remainder(work, total, d, low) ==
    d - SumFunction([w \in Contributors(work) |-> FloorShare(work, total, d, low, w)])

MutantExtraOneTooMany(remainder, i) == IF remainder >= i THEN 1 ELSE 0
MutantExtraToFirst(remainder, i) == IF i = 0 THEN remainder ELSE 0

\* What the worker at index i of the list gains from the loop that hands the
\* remainder out one atom at a time from the head.  The loop can start over when
\* it reaches the end, but never has to: the remainder is at most one atom per
\* worker (SinglePass, checked in MCPayoutSplit).
Extra(remainder, i) == IF remainder > i THEN 1 ELSE 0

\* The workers with a payout entry: none when there is nothing to distribute.
PayoutWorkers(work, total, d) ==
    IF d > 0 /\ total > 0 THEN Contributors(work) ELSE {}

CalculatePayouts(work, rank, total, d, low) ==
    [w \in DOMAIN work |->
        IF w \in PayoutWorkers(work, total, d)
        THEN FloorShare(work, total, d, low, w)
             + Extra(Remainder(work, total, d, low), rank[w])
        ELSE 0]
=============================================================================
