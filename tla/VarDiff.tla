-------------------------------- MODULE VarDiff --------------------------------
(***************************************************************************)
(* The difficulty the pool sets a worker after each accepted share, from   *)
(* the time since the one before (RecordShare, adjustDifficulty).  A       *)
(* difficulty is an even number of some unit, so that halving one that is  *)
(* not below the least is exact, and so is time.                           *)
(***************************************************************************)
EXTENDS Naturals

AtLeast(d, low) == IF d < low THEN low ELSE d
AtMost(d, high) == IF d > high THEN high ELSE d

MutantNarrowBand(d, elapsed, target) ==
    CASE elapsed < target -> d * 2
      [] elapsed > target -> d \div 2
      [] OTHER -> d

\* Twice as many shares as wanted double the difficulty, half as many halve it.
Stepped(d, elapsed, target) ==
    CASE elapsed < target \div 2 -> d * 2
      [] elapsed > target * 2 -> d \div 2
      [] OTHER -> d

AdjustDifficulty(current, elapsed, target, low, high) ==
    LET d == IF current = 0 THEN low ELSE current
    IN  IF target = 0 THEN d
        ELSE AtMost(AtLeast(Stepped(d, elapsed, target), low), high)

\* The difficulties of a worker whose machines need pace units of time for a share of
\* difficulty 1, share after share: what RecordShare makes of it.
Course(start, pace, target, low, high, shares) ==
    LET course[n \in 0..shares] ==
            IF n = 0 THEN start
            ELSE AdjustDifficulty(course[n - 1], pace * course[n - 1], target, low, high)
    IN  course
=============================================================================
