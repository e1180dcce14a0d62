-------------------------- MODULE LedgerRebuildProofs --------------------------
(***************************************************************************)
(* That pacpool-rebuild makes the ledger again: theorems about             *)
(* LedgerRebuild, for every value of its constants.                        *)
(*                                                                         *)
(* A replay is followed line by line (RecursionExists, Replays).  What it  *)
(* finds in the log, whatever became of the snapshot, is                   *)
(* BlocksAreRecovered.  The other two theorems compare it with the ledger: *)
(* as long as the history is faithful, the ledger Follows the replay of    *)
(* the log and then of the events that wait, in the order of their ages    *)
(* (Tracks).  An event that is appended out of its turn changes nothing,   *)
(* since two shares commute.  The two have the same weights only if every  *)
(* event has the weight its share was credited with (weighed); without it  *)
(* they are Alike: the same workers, shares and totals.                    *)
(***************************************************************************)
EXTENDS LedgerRebuild, PayoutLedgerProofs

-----------------------------------------------------------------------------
(* What the tool makes of one line.                                         *)

\* The subsidy of every height is a natural number of atoms (minerRewardAtHeight).
LEMMA SubsidyType == \A n \in Nat : SubsidyAfter[n] \in Nat
<1> DEFINE step == [e \in Nat \X Nat |-> (e[2] * 100) \div 101]
           Solves(g) == g = [n \in Nat |-> IF n = 0 THEN BaseSubsidy
                                           ELSE (g[n - 1] * 100) \div 101]
           T == {n \in Nat : SubsidyAfter[n] \in Nat}
<1>1. \A x \in Nat : (x * 100) \div 101 \in Nat
  OBVIOUS
<1>2. \E g : Solves(g)
  <2>1. \A n \in Nat, x \in Nat : step[<<n, x>>] = (x * 100) \div 101
    OBVIOUS
  <2>2. \A n \in Nat, x \in Nat : step[<<n, x>>] \in Nat
    BY <1>1, <2>1
  <2> HIDE DEF step
  <2>3. PICK f \in [Nat -> Nat] :
          f[0] = BaseSubsidy /\ \A n \in Nat : f[n + 1] = step[<<n, f[n]>>]
    <3> DEFINE S == Nat
               base == BaseSubsidy
    <3>1. base \in S
      BY SubsidyAssumption
    <3>2. \A n \in Nat, x \in S : step[<<n, x>>] \in S
      BY <2>2
    <3> HIDE DEF S, base
    <3>3. \E f \in [Nat -> S] : Iterates(f, base, step)
      BY <3>1, <3>2, RecursionExists
    <3> QED BY <3>3 DEF S, base, Iterates
  <2>4. ASSUME NEW n \in Nat
        PROVE  f[n] = IF n = 0 THEN BaseSubsidy ELSE (f[n - 1] * 100) \div 101
    <3>1. CASE n = 0
      BY <2>3, <3>1
    <3>2. CASE n # 0
      <4>1. n - 1 \in Nat /\ (n - 1) + 1 = n
        BY <3>2
      <4>2. f[(n - 1) + 1] = step[<<n - 1, f[n - 1]>>] /\ f[n - 1] \in Nat
        BY <2>3, <4>1
      <4>3. step[<<n - 1, f[n - 1]>>] = (f[n - 1] * 100) \div 101
        BY <2>1, <4>1, <4>2
      <4> QED BY <3>2, <4>1, <4>2, <4>3
    <3> QED BY <3>1, <3>2
  <2>5. Solves(f)
    BY <2>4
  <2> HIDE DEF Solves
  <2> QED BY <2>5
<1>3. Solves(SubsidyAfter)
  BY <1>2 DEF SubsidyAfter
<1>4. SubsidyAfter[0] \in Nat
  BY <1>3, SubsidyAssumption
<1>5. ASSUME NEW n \in Nat, SubsidyAfter[n] \in Nat PROVE SubsidyAfter[n + 1] \in Nat
  <2>1. SubsidyAfter[n + 1] = (SubsidyAfter[(n + 1) - 1] * 100) \div 101
    BY <1>3
  <2>2. (n + 1) - 1 = n
    OBVIOUS
  <2> QED BY <1>1, <1>5, <2>1, <2>2
<1>6. Nat \subseteq T
  <2>1. 0 \in T /\ \A n \in Nat : n \in T => n + 1 \in T
    BY <1>4, <1>5
  <2> HIDE DEF T
  <2> QED BY <2>1, NatInduct
<1> QED BY <1>6

\* So is the reward the tool takes.
LEMMA RewardType == \A height \in Nat : MinerRewardAtHeight(height) \in Nat
<1> SUFFICES ASSUME NEW height \in Nat, height # 0 PROVE MinerRewardAtHeight(height) \in Nat
  BY DEF MinerRewardAtHeight
<1>1. height \div ReductionInterval \in Nat
  BY SubsidyAssumption, DivNat
<1> DEFINE subsidy == SubsidyAfter[height \div ReductionInterval]
<1>2. subsidy \in Nat /\ MinerRewardPct \in Nat
  BY <1>1, SubsidyType, SubsidyAssumption
<1> HIDE DEF subsidy
<1>3. subsidy * MinerRewardPct \in Nat /\ 100 \in Nat \ {0}
  BY <1>2, MulNat
<1>4. (subsidy * MinerRewardPct) \div 100 \in Nat
  BY <1>3
<1> QED BY <1>4 DEF MinerRewardAtHeight, subsidy

-----------------------------------------------------------------------------
(* One line of the log.                                                     *)

\* The ledger after the share in a line, if there is one.
Counted(l, e) == IF e.difficulty > 0 THEN ApplyShare(l, e.worker, e.difficulty) ELSE l

\* It differs in the current round only.
LEMMA CountedType ==
    ASSUME NEW l \in Ledger, NEW e \in Event
    PROVE  /\ Counted(l, e) \in Ledger
           /\ Counted(l, e).next = l.next
           /\ Counted(l, e).current.id = l.current.id
           /\ Counted(l, e).recent = l.recent
           /\ Counted(l, e).payments = l.payments
<1>1. e.worker \in Worker /\ e.difficulty \in Nat
  BY DEF Event
<1>2. CASE e.difficulty > 0
  <2> DEFINE k == ApplyShare(l, e.worker, e.difficulty)
         w == e.worker
         work == e.difficulty
         round == [id |-> l.current.id,
                   work |-> [l.current.work EXCEPT ![w] = @ + work],
                   shares |-> [l.current.shares EXCEPT ![w] = @ + 1],
                   total |-> l.current.total + work]
  <2>0. w \in Worker /\ work \in Nat /\ k = ApplyShare(l, w, work)
    BY <1>1
  <2>1. /\ k \in Ledger /\ k.next = l.next /\ k.recent = l.recent /\ k.payments = l.payments
        /\ k.current.id = l.current.id
    <3> HIDE DEF k, w, work
    <3>1. /\ k \in Ledger /\ k.next = l.next /\ k.recent = l.recent
          /\ k.payments = l.payments /\ k.current = round
      BY <2>0, ApplyShareType
    <3> QED BY <3>1
  <2>2. Counted(l, e) = k
    BY <1>2 DEF Counted
  <2> HIDE DEF k
  <2> QED BY <2>1, <2>2
<1>3. CASE ~(e.difficulty > 0)
  BY <1>3 DEF Counted
<1> QED BY <1>2, <1>3

\* The round the tool makes of a block is a round, without marks (finalizeRound).
LEMMA RebuiltRoundType ==
    ASSUME NEW round \in CurrentRound, NEW block \in Nat, NEW height \in Nat
    PROVE  /\ RebuiltRound(round, block, height) \in SolvedRound
           /\ RebuiltRound(round, block, height).id = round.id
           /\ RebuiltRound(round, block, height).block = block
           /\ RebuiltRound(round, block, height).height = height
           /\ RebuiltRound(round, block, height).settled = {}
           /\ ~RebuiltRound(round, block, height).paid
<1> DEFINE d == Distributable(MinerRewardAtHeight(height))
           rank == RebuiltRank(round.work)
           amount == CalculatePayouts(round.work, rank, round.total, d, {})
           entries == PayoutWorkers(round.work, round.total, d)
<1>1. /\ round.work \in [Worker -> Nat] /\ round.total \in Nat /\ round.id \in Nat
  BY DEF CurrentRound
<1>2. amount \in [Worker -> Nat]
  <2>1. d \in Nat
    BY RewardType, DistributableType
  <2> HIDE DEF d, rank
  <2> QED BY <1>1, <2>1, SplitType
<1>3. entries \in SUBSET Worker
  BY <1>1 DEF PayoutWorkers, Contributors
<1>4. RebuiltRound(round, block, height) =
        [id |-> round.id, block |-> block, height |-> height, entries |-> entries,
         amount |-> amount, settled |-> {}, paid |-> FALSE]
  BY DEF RebuiltRound
<1> HIDE DEF amount, entries
<1> QED BY <1>1, <1>2, <1>3, <1>4 DEF SolvedRound

\* The tool's ledger k after line e (replayLedger).
Replays(l, e, minRound, k) ==
    LET round == RebuiltRound(Counted(l, e).current, e.block, e.height)
        kept == e.height >= StartHeight /\ l.current.id >= minRound
    IN  /\ e.height = 0 => k = Counted(l, e)
        /\ e.height # 0 =>
              /\ round \in SolvedRound
              /\ k = [next |-> l.next + 1, current |-> NewRound(l.next + 1),
                      recent |-> IF kept THEN <<round>> \o l.recent ELSE l.recent,
                      payments |-> l.payments]

LEMMA ReplayEventType ==
    ASSUME NEW l \in Ledger, NEW e \in Event, NEW m
    PROVE  ReplayEvent(l, e, m) \in Ledger /\ Replays(l, e, m, ReplayEvent(l, e, m))
<1> DEFINE counted == Counted(l, e)
           round == RebuiltRound(counted.current, e.block, e.height)
           kept == e.height >= StartHeight /\ l.current.id >= m
           recent == IF kept THEN <<round>> \o l.recent ELSE l.recent
<1>1. /\ counted \in Ledger /\ counted.next = l.next /\ counted.current.id = l.current.id
      /\ counted.recent = l.recent /\ counted.payments = l.payments
      /\ counted.current \in CurrentRound
  BY CountedType DEF Ledger
<1>2. /\ l.next \in Nat /\ l.recent \in Seq(SolvedRound) /\ l.payments \in Seq(Payment)
      /\ e.block \in Nat /\ e.height \in Nat
  BY DEF Ledger, Event
<1> HIDE DEF counted
<1>3. round \in SolvedRound /\ round.id = l.current.id
  BY <1>1, <1>2, RebuiltRoundType
<1>4. recent \in Seq(SolvedRound)
  <2> HIDE DEF round
  <2> QED BY <1>2, <1>3
<1>5. CASE e.height = 0
  <2>1. ReplayEvent(l, e, m) = counted
    BY <1>5 DEF ReplayEvent, Counted, counted
  <2> QED BY <1>1, <1>5, <2>1 DEF Replays, counted
<1>6. CASE e.height # 0
  <2> DEFINE new == [next |-> l.next + 1, current |-> NewRound(l.next + 1),
                     recent |-> recent, payments |-> l.payments]
  <2>1. counted = [next |-> counted.next, current |-> counted.current,
                   recent |-> counted.recent, payments |-> counted.payments]
    BY <1>1 DEF Ledger
  <2>2. ReplayEvent(l, e, m) =
          [counted EXCEPT !.recent = IF e.height >= StartHeight /\ round.id >= m
                                     THEN <<round>> \o @ ELSE @,
                          !.next = @ + 1,
                          !.current = NewRound(counted.next + 1)]
    BY <1>6 DEF ReplayEvent, Counted, counted
  <2>3. ReplayEvent(l, e, m) =
          [counted EXCEPT !.recent = recent, !.next = l.next + 1,
                          !.current = NewRound(l.next + 1)]
    <3> HIDE DEF round
    <3> QED BY <1>1, <1>3, <2>2
  <2>4. ReplayEvent(l, e, m) = new
    <3> HIDE DEF recent
    <3> QED BY <1>1, <2>1, <2>3
  <2>5. NewRound(l.next + 1) \in CurrentRound
    BY <1>2, NewRoundType
  <2>6. new \in Ledger
    <3> HIDE DEF recent
    <3> QED BY <1>2, <1>4, <2>5 DEF Ledger
  <2>7. Replays(l, e, m, new)
    BY <1>3, <1>6 DEF Replays, counted
  <2> HIDE DEF new
  <2> QED BY <2>4, <2>6, <2>7
<1> QED BY <1>5, <1>6

-----------------------------------------------------------------------------
(* The whole log.                                                           *)

\* The ledgers that the tool has after 0, 1, ... lines.
IsReplay(f, lines, m) ==
    f = [k \in 0..Len(lines) |->
            IF k = 0 THEN EmptyLedger ELSE ReplayEvent(f[k - 1], lines[k], m)]

ReplayOf(lines, m) == CHOOSE f : IsReplay(f, lines, m)

LEMMA ReplayExists ==
    ASSUME NEW lines \in Seq(Event), NEW m
    PROVE  \E f : IsReplay(f, lines, m) /\ f \in [0..Len(lines) -> Ledger]
<1> DEFINE n == Len(lines)
           S == Ledger
           base == EmptyLedger
           step == [e \in Nat \X Ledger |->
                      IF e[1] + 1 \in 1..n THEN ReplayEvent(e[2], lines[e[1] + 1], m) ELSE e[2]]
<1>1. n \in Nat /\ \A k \in 1..n : lines[k] \in Event
  OBVIOUS
<1>2. base \in S
  BY EmptyLedgerSound DEF Sound
<1>3. \A k \in Nat, l \in S :
        step[<<k, l>>] = IF k + 1 \in 1..n THEN ReplayEvent(l, lines[k + 1], m) ELSE l
  OBVIOUS
<1>4. \A k \in Nat, l \in S : step[<<k, l>>] \in S
  BY <1>1, <1>3, ReplayEventType
<1> HIDE DEF S, base, step
<1>5. PICK g \in [Nat -> S] : Iterates(g, base, step)
  BY <1>2, <1>4, RecursionExists
<1> DEFINE f == [k \in 0..n |-> g[k]]
<1>6. f \in [0..n -> Ledger]
  BY <1>1, <1>5 DEF S
<1>7. ASSUME NEW k \in 0..n
      PROVE  f[k] = IF k = 0 THEN EmptyLedger ELSE ReplayEvent(f[k - 1], lines[k], m)
  <2>1. CASE k = 0
    BY <1>1, <1>5, <2>1 DEF Iterates, base
  <2>2. CASE k # 0
    <3>1. k - 1 \in Nat /\ k - 1 \in 0..n /\ (k - 1) + 1 = k /\ k \in 1..n
      BY <1>1, <2>2
    <3>2. g[(k - 1) + 1] = step[<<k - 1, g[k - 1]>>] /\ g[k - 1] \in S
      BY <1>5, <3>1 DEF Iterates
    <3>3. step[<<k - 1, g[k - 1]>>] =
            IF (k - 1) + 1 \in 1..n THEN ReplayEvent(g[k - 1], lines[(k - 1) + 1], m)
            ELSE g[k - 1]
      BY <1>3, <3>1, <3>2
    <3>4. f[k] = g[k] /\ f[k - 1] = g[k - 1]
      BY <3>1
    <3> HIDE DEF f
    <3> QED BY <2>2, <3>1, <3>2, <3>3, <3>4
  <2> QED BY <2>1, <2>2
<1>8. IsReplay(f, lines, m)
  BY <1>7 DEF IsReplay
<1> HIDE DEF f
<1> QED BY <1>6, <1>8

LEMMA ReplayProperties ==
    ASSUME NEW lines \in Seq(Event), NEW m
    PROVE  LET f == ReplayOf(lines, m)
               n == Len(lines)
           IN  /\ ReplayLedger(lines, m) = f[n]
               /\ n \in Nat /\ f[0] = EmptyLedger
               /\ \A k \in 1..n : f[k] = ReplayEvent(f[k - 1], lines[k], m)
               /\ \A k \in 0..n : f[k] \in Ledger
<1> DEFINE f == ReplayOf(lines, m)
           n == Len(lines)
           T == {k \in Nat : k \in 0..n => f[k] \in Ledger}
<1>1. IsReplay(f, lines, m)
  BY ReplayExists DEF ReplayOf
<1>2. ReplayLedger(lines, m) = f[n]
  BY DEF ReplayLedger, ReplayOf, IsReplay
<1> HIDE DEF f
<1>3. n \in Nat /\ \A k \in 1..n : lines[k] \in Event
  OBVIOUS
<1>4. f[0] = EmptyLedger
  BY <1>1, <1>3 DEF IsReplay
<1>5. \A k \in 1..n : f[k] = ReplayEvent(f[k - 1], lines[k], m)
  BY <1>1, <1>3 DEF IsReplay
<1>6. 0 \in T
  BY <1>4, EmptyLedgerSound DEF Sound
<1>7. ASSUME NEW k \in Nat, k \in T PROVE k + 1 \in T
  <2> SUFFICES ASSUME k + 1 \in 0..n PROVE f[k + 1] \in Ledger
    OBVIOUS
  <2>1. k + 1 \in 1..n /\ (k + 1) - 1 = k /\ k \in 0..n
    BY <1>3
  <2>2. f[k + 1] = ReplayEvent(f[k], lines[k + 1], m)
    BY <1>5, <2>1
  <2>3. f[k] \in Ledger
    BY <1>7, <2>1
  <2> QED BY <1>3, <2>1, <2>2, <2>3, ReplayEventType
<1>8. Nat \subseteq T
  <2> HIDE DEF T
  <2> QED BY <1>6, <1>7, NatInduct
<1>9. \A k \in 0..n : f[k] \in Ledger
  BY <1>3, <1>8
<1> HIDE DEF n
<1> QED BY <1>2, <1>3, <1>4, <1>5, <1>9 DEF f, n

-----------------------------------------------------------------------------
(* Which blocks a replay finds.                                             *)

\* What the pool writes: a share with no block, or a block with no difficulty.
Line == {e \in Event : \/ e.difficulty > 0 /\ e.block = 0 /\ e.height = 0
                       \/ e.difficulty = 0 /\ e.block > 0}

\* Of the first k lines: those that close a round; those from line c on that a start
\* counts; and the workers with shares after the last that closes one.
Closing(lines, k) == {j \in 1..k : lines[j].height > 0}
CountedFrom(lines, c, k) == {j \in 1..k : c <= j /\ lines[j].height > 0
                                                  /\ lines[j].height >= StartHeight}
Since(lines, k) == {lines[j].worker : j \in {j \in 1..k :
                        lines[j].difficulty > 0 /\ \A b \in Closing(lines, k) : b < j}}

\* Round r is that of the block in line c.
RoundOfBlock(lines, c, r) ==
    /\ r.block = lines[c].block
    /\ r.id = Cardinality(Closing(lines, c - 1)) + 1
    /\ r.entries = IF Distributable(MinerRewardAtHeight(lines[c].height)) > 0
                   THEN Since(lines, c - 1) ELSE {}

\* The tool's ledger after k lines: every block counted is in its place.
FoundBlocks(lines, k, l) ==
    /\ l.next = Cardinality(Closing(lines, k)) + 1 /\ l.current.id = l.next
    /\ l.payments = <<>>
    /\ Contributors(l.current.work) = Since(lines, k)
    /\ l.current.total = 0 => Since(lines, k) = {}
    /\ \A c \in CountedFrom(lines, 1, k) :
          /\ Cardinality(CountedFrom(lines, c, k)) \in DOMAIN l.recent
          /\ RoundOfBlock(lines, c, l.recent[Cardinality(CountedFrom(lines, c, k))])

LEMMA LineSets ==
    ASSUME NEW lines \in Seq(Line), NEW k \in Nat, NEW c
    PROVE  /\ IsFiniteSet(Closing(lines, k)) /\ Cardinality(Closing(lines, k)) \in Nat
           /\ IsFiniteSet(CountedFrom(lines, c, k))
           /\ Cardinality(CountedFrom(lines, c, k)) \in Nat
<1>1. IsFiniteSet(1..k)
  BY FS_Interval
<1>2. Closing(lines, k) \subseteq 1..k /\ CountedFrom(lines, c, k) \subseteq 1..k
  BY DEF Closing, CountedFrom
<1>3. IsFiniteSet(Closing(lines, k)) /\ IsFiniteSet(CountedFrom(lines, c, k))
  BY <1>1, <1>2, FS_Subset
<1> QED BY <1>3, FS_CardinalityType

\* A line that closes no round.
LEMMA OpenLine ==
    ASSUME NEW lines \in Seq(Line), NEW k \in Nat, k + 1 \in 1..Len(lines),
           lines[k + 1].height = 0
    PROVE  /\ Closing(lines, k + 1) = Closing(lines, k)
           /\ \A c : CountedFrom(lines, c, k + 1) = CountedFrom(lines, c, k)
           /\ Since(lines, k + 1) = IF lines[k + 1].difficulty > 0
                                    THEN Since(lines, k) \cup {lines[k + 1].worker}
                                    ELSE Since(lines, k)
<1> DEFINE Newer(n) == {j \in 1..n : lines[j].difficulty > 0 /\ \A b \in Closing(lines, n) : b < j}
<1>1. Closing(lines, k + 1) = Closing(lines, k)
  BY DEF Closing
<1>2. \A c : CountedFrom(lines, c, k + 1) = CountedFrom(lines, c, k)
  BY DEF CountedFrom
<1>3. \A b \in Closing(lines, k) : b < k + 1
  BY DEF Closing
<1>4. Newer(k + 1) = IF lines[k + 1].difficulty > 0 THEN Newer(k) \cup {k + 1} ELSE Newer(k)
  BY <1>1, <1>3
<1>5. Since(lines, k) = {lines[j].worker : j \in Newer(k)}
      /\ Since(lines, k + 1) = {lines[j].worker : j \in Newer(k + 1)}
  BY DEF Since
<1> HIDE DEF Newer
<1> QED BY <1>1, <1>2, <1>4, <1>5

\* A line that closes one.
LEMMA ClosingLine ==
    ASSUME NEW lines \in Seq(Line), NEW k \in Nat, k + 1 \in 1..Len(lines),
           lines[k + 1].height # 0
    PROVE  /\ Cardinality(Closing(lines, k + 1)) = Cardinality(Closing(lines, k)) + 1
           /\ Since(lines, k + 1) = {}
           /\ lines[k + 1].height < StartHeight =>
                 \A c : CountedFrom(lines, c, k + 1) = CountedFrom(lines, c, k)
           /\ lines[k + 1].height >= StartHeight =>
                 /\ \A c \in 1..k : Cardinality(CountedFrom(lines, c, k + 1)) =
                                    Cardinality(CountedFrom(lines, c, k)) + 1
                 /\ Cardinality(CountedFrom(lines, k + 1, k + 1)) = 1
<1>1. lines[k + 1].height > 0
  BY DEF Line, Event
<1>2. Closing(lines, k + 1) = Closing(lines, k) \cup {k + 1} /\ k + 1 \notin Closing(lines, k)
  BY <1>1 DEF Closing
<1>3. Cardinality(Closing(lines, k + 1)) = Cardinality(Closing(lines, k)) + 1
  BY <1>2, LineSets, FS_AddElement
<1>4. Since(lines, k + 1) = {}
  BY <1>2 DEF Since
<1>5. lines[k + 1].height < StartHeight =>
        \A c : CountedFrom(lines, c, k + 1) = CountedFrom(lines, c, k)
  <2> SUFFICES ASSUME lines[k + 1].height < StartHeight, NEW c
               PROVE  CountedFrom(lines, c, k + 1) = CountedFrom(lines, c, k)
    OBVIOUS
  <2>1. lines[k + 1].height \in Nat /\ StartHeight \in Nat
    BY OptionAssumption DEF Line, Event
  <2>2. ~(lines[k + 1].height >= StartHeight)
    BY <2>1
  <2>3. \A j \in 1..(k + 1) : j # k + 1 => j \in 1..k
    OBVIOUS
  <2> QED BY <2>2, <2>3 DEF CountedFrom
<1>6. ASSUME lines[k + 1].height >= StartHeight
      PROVE  /\ \A c \in 1..k : Cardinality(CountedFrom(lines, c, k + 1)) =
                                Cardinality(CountedFrom(lines, c, k)) + 1
             /\ Cardinality(CountedFrom(lines, k + 1, k + 1)) = 1
  <2>1. ASSUME NEW c \in 1..k
        PROVE  Cardinality(CountedFrom(lines, c, k + 1)) =
                 Cardinality(CountedFrom(lines, c, k)) + 1
    <3>1. /\ CountedFrom(lines, c, k + 1) = CountedFrom(lines, c, k) \cup {k + 1}
          /\ k + 1 \notin CountedFrom(lines, c, k)
      BY <1>1, <1>6 DEF CountedFrom
    <3> QED BY <3>1, LineSets, FS_AddElement
  <2>2. CountedFrom(lines, k + 1, k + 1) = {k + 1}
    BY <1>1, <1>6 DEF CountedFrom
  <2> QED BY <2>1, <2>2, FS_Singleton
<1> QED BY <1>3, <1>4, <1>5, <1>6

\* The workers of a round after one more share.
LEMMA ContributorsOfShare ==
    ASSUME NEW l \in Ledger, NEW w \in Worker, NEW work \in Nat, work > 0
    PROVE  /\ Contributors(ApplyShare(l, w, work).current.work) =
                Contributors(l.current.work) \cup {w}
           /\ ApplyShare(l, w, work).current.total # 0
<1> DEFINE new == ApplyShare(l, w, work)
           round == [id |-> l.current.id,
                     work |-> [l.current.work EXCEPT ![w] = @ + work],
                     shares |-> [l.current.shares EXCEPT ![w] = @ + 1],
                     total |-> l.current.total + work]
<1>1. new.current = round
  BY ApplyShareType
<1>2. l.current.work \in [Worker -> Nat] /\ l.current.total \in Nat
  BY DEF Ledger, CurrentRound
<1> HIDE DEF new
<1>3. new.current.work = [l.current.work EXCEPT ![w] = @ + work]
      /\ new.current.total = l.current.total + work
  BY <1>1
<1> HIDE DEF round
<1>4. DOMAIN new.current.work = Worker /\ DOMAIN l.current.work = Worker
  BY <1>2, <1>3
<1>5. \A v \in Worker : new.current.work[v] > 0 <=> (l.current.work[v] > 0 \/ v = w)
  BY <1>2, <1>3
<1>6. Contributors(new.current.work) = Contributors(l.current.work) \cup {w}
  BY <1>4, <1>5 DEF Contributors
<1> QED BY <1>2, <1>3, <1>6 DEF new

LEMMA NewRoundEmpty ==
    ASSUME NEW id
    PROVE  /\ Contributors(NewRound(id).work) = {} /\ NewRound(id).total = 0
           /\ NewRound(id).id = id
  BY DEF NewRound, Contributors

\* One more line.
LEMMA FoundBlocksStep ==
    ASSUME NEW lines \in Seq(Line), NEW k \in Nat, k + 1 \in 1..Len(lines),
           NEW l \in Ledger, FoundBlocks(lines, k, l),
           NEW new \in Ledger, Replays(l, lines[k + 1], 1, new)
    PROVE  FoundBlocks(lines, k + 1, new)
<1> DEFINE e == lines[k + 1]
<1>1. e \in Line /\ e \in Event /\ e.worker \in Worker /\ e.difficulty \in Nat
      /\ e.height \in Nat /\ e.block \in Nat
  BY DEF Line, Event
<1>2. \A c : /\ Cardinality(Closing(lines, k)) \in Nat
             /\ Cardinality(CountedFrom(lines, c, k)) \in Nat
  BY LineSets
<1>3. l.recent \in Seq(SolvedRound)
  BY DEF Ledger
<1>4. CASE e.height = 0
  <2>1. /\ Closing(lines, k + 1) = Closing(lines, k)
        /\ \A c : CountedFrom(lines, c, k + 1) = CountedFrom(lines, c, k)
        /\ Since(lines, k + 1) = IF e.difficulty > 0
                                 THEN Since(lines, k) \cup {e.worker} ELSE Since(lines, k)
    BY <1>4, OpenLine
  <2>2. new = Counted(l, e)
    BY <1>4 DEF Replays
  <2>3. /\ new.next = l.next /\ new.current.id = l.current.id /\ new.recent = l.recent
        /\ new.payments = l.payments
    BY <1>1, <2>2, CountedType
  <2>4. /\ Contributors(new.current.work) = Since(lines, k + 1)
        /\ new.current.total = 0 => Since(lines, k + 1) = {}
    <3>1. CASE e.difficulty > 0
      <4>1. /\ Contributors(ApplyShare(l, e.worker, e.difficulty).current.work) =
                 Contributors(l.current.work) \cup {e.worker}
            /\ ApplyShare(l, e.worker, e.difficulty).current.total # 0
        <5> DEFINE w == e.worker
                   work == e.difficulty
        <5>1. w \in Worker /\ work \in Nat /\ work > 0
          BY <1>1, <3>1
        <5> HIDE DEF w, work
        <5>2. /\ Contributors(ApplyShare(l, w, work).current.work) =
                   Contributors(l.current.work) \cup {w}
              /\ ApplyShare(l, w, work).current.total # 0
          BY <5>1, ContributorsOfShare
        <5> QED BY <5>2 DEF w, work
      <4>2. new = ApplyShare(l, e.worker, e.difficulty)
        BY <2>2, <3>1 DEF Counted
      <4> QED BY <2>1, <3>1, <4>1, <4>2 DEF FoundBlocks
    <3>2. CASE ~(e.difficulty > 0)
      BY <2>1, <2>2, <3>2 DEF Counted, FoundBlocks
    <3> QED BY <3>1, <3>2
  <2>5. \A c \in CountedFrom(lines, 1, k) : RoundOfBlock(lines, c,
            l.recent[Cardinality(CountedFrom(lines, c, k))])
    BY DEF FoundBlocks
  <2> HIDE DEF e
  <2> QED BY <2>1, <2>3, <2>4, <2>5 DEF FoundBlocks
<1>5. CASE e.height # 0
  <2> DEFINE round == RebuiltRound(Counted(l, e).current, e.block, e.height)
             kept == e.height >= StartHeight /\ l.current.id >= 1
             recent == IF kept THEN <<round>> \o l.recent ELSE l.recent
  <2>1. /\ Cardinality(Closing(lines, k + 1)) = Cardinality(Closing(lines, k)) + 1
        /\ Since(lines, k + 1) = {}
        /\ e.height < StartHeight =>
              \A c : CountedFrom(lines, c, k + 1) = CountedFrom(lines, c, k)
        /\ e.height >= StartHeight =>
              /\ \A c \in 1..k : Cardinality(CountedFrom(lines, c, k + 1)) =
                                 Cardinality(CountedFrom(lines, c, k)) + 1
              /\ Cardinality(CountedFrom(lines, k + 1, k + 1)) = 1
    BY <1>5, ClosingLine
  <2>2. /\ round \in SolvedRound
        /\ new = [next |-> l.next + 1, current |-> NewRound(l.next + 1),
                  recent |-> recent, payments |-> l.payments]
    BY <1>5 DEF Replays
  <2>3. Counted(l, e) = l
    BY <1>1, <1>5 DEF Counted, Line
  <2>4. /\ l.current \in CurrentRound /\ l.next \in Nat
    BY DEF Ledger
  <2>5. RoundOfBlock(lines, k + 1, round)
    <3>1. /\ round.block = e.block /\ round.id = l.current.id
      BY <1>1, <2>3, <2>4, RebuiltRoundType
    <3>2. round.entries = PayoutWorkers(l.current.work, l.current.total,
                              Distributable(MinerRewardAtHeight(e.height)))
      BY <2>3 DEF RebuiltRound
    <3>3. l.current.total \in Nat
      BY <2>4 DEF CurrentRound
    <3>4. (k + 1) - 1 = k
      OBVIOUS
    <3>5. round.entries = IF Distributable(MinerRewardAtHeight(e.height)) > 0
                          THEN Since(lines, k) ELSE {}
      <4> DEFINE d == Distributable(MinerRewardAtHeight(e.height))
      <4>1. round.entries = IF d > 0 /\ l.current.total > 0
                            THEN Contributors(l.current.work) ELSE {}
        BY <3>2 DEF PayoutWorkers
      <4>2. /\ Contributors(l.current.work) = Since(lines, k)
            /\ l.current.total = 0 => Since(lines, k) = {}
        BY DEF FoundBlocks
      <4>3. l.current.total > 0 <=> l.current.total # 0
        BY <3>3
      <4> HIDE DEF d, round
      <4>4. round.entries = IF d > 0 THEN Since(lines, k) ELSE {}
        BY <4>1, <4>2, <4>3
      <4> QED BY <4>4 DEF d
    <3> HIDE DEF round
    <3> QED BY <3>1, <3>4, <3>5 DEF RoundOfBlock, FoundBlocks
  <2>6. kept <=> e.height >= StartHeight
    <3>1. l.current.id = Cardinality(Closing(lines, k)) + 1
      BY DEF FoundBlocks
    <3>2. Cardinality(Closing(lines, k)) \in Nat
      BY <1>2
    <3> QED BY <3>1, <3>2
  <2>7. ASSUME NEW c \in CountedFrom(lines, 1, k + 1)
        PROVE  /\ Cardinality(CountedFrom(lines, c, k + 1)) \in DOMAIN recent
               /\ RoundOfBlock(lines, c, recent[Cardinality(CountedFrom(lines, c, k + 1))])
    <3>1. CASE e.height >= StartHeight
      <4> HIDE DEF round
      <4>1. recent = <<round>> \o l.recent
        BY <2>6, <3>1
      <4>2. /\ DOMAIN recent = 1..(Len(l.recent) + 1) /\ recent[1] = round
            /\ \A i \in 1..Len(l.recent) : recent[i + 1] = l.recent[i]
        BY <1>3, <2>2, <4>1
      <4> HIDE DEF recent
      <4>3. CASE c = k + 1
        BY <1>3, <2>1, <2>5, <3>1, <4>2, <4>3
      <4>4. CASE c # k + 1
        <5>1. c \in 1..k /\ c \in CountedFrom(lines, 1, k)
          BY <4>4 DEF CountedFrom
        <5>2. /\ Cardinality(CountedFrom(lines, c, k)) \in DOMAIN l.recent
              /\ RoundOfBlock(lines, c, l.recent[Cardinality(CountedFrom(lines, c, k))])
          BY <5>1 DEF FoundBlocks
        <5>3. Cardinality(CountedFrom(lines, c, k)) \in 1..Len(l.recent)
          BY <1>3, <5>2
        <5> QED BY <1>3, <2>1, <3>1, <4>2, <5>1, <5>2, <5>3
      <4> QED BY <4>3, <4>4
    <3>2. CASE ~(e.height >= StartHeight)
      <4>1. e.height < StartHeight
        BY <1>1, <3>2, OptionAssumption
      <4>2. recent = l.recent
        BY <2>6, <3>2
      <4> HIDE DEF recent, round
      <4> QED BY <2>1, <4>1, <4>2 DEF FoundBlocks
    <3> QED BY <3>1, <3>2
  <2> HIDE DEF recent, round
  <2>8. /\ new.next = l.next + 1 /\ new.current = NewRound(l.next + 1)
        /\ new.recent = recent /\ new.payments = l.payments
    BY <2>2
  <2>9. /\ Contributors(new.current.work) = {} /\ new.current.total = 0
        /\ new.current.id = l.next + 1
    BY <2>8, NewRoundEmpty
  <2>10. new.next = Cardinality(Closing(lines, k + 1)) + 1
    BY <1>2, <2>1, <2>8 DEF FoundBlocks
  <2>11. new.current.id = new.next /\ new.payments = <<>>
    BY <2>8, <2>9 DEF FoundBlocks
  <2> QED BY <2>1, <2>7, <2>8, <2>9, <2>10, <2>11 DEF FoundBlocks
<1> QED BY <1>4, <1>5

\* The whole log.
LEMMA FoundBlocksAll ==
    ASSUME NEW lines \in Seq(Line)
    PROVE  /\ ReplayLedger(lines, 1) \in Ledger
           /\ FoundBlocks(lines, Len(lines), ReplayLedger(lines, 1))
<1> DEFINE f == ReplayOf(lines, 1)
           n == Len(lines)
           T == {k \in Nat : k \in 0..n => FoundBlocks(lines, k, f[k])}
<1>1. lines \in Seq(Event)
  BY DEF Line
<1>2. /\ ReplayLedger(lines, 1) = f[n] /\ n \in Nat /\ f[0] = EmptyLedger
      /\ \A k \in 1..n : f[k] = ReplayEvent(f[k - 1], lines[k], 1)
      /\ \A k \in 0..n : f[k] \in Ledger
  BY <1>1, ReplayProperties
<1> HIDE DEF f
<1>3. 0 \in T
  <2>1. Closing(lines, 0) = {} /\ CountedFrom(lines, 1, 0) = {} /\ Since(lines, 0) = {}
    BY DEF Closing, CountedFrom, Since
  <2>2. Cardinality(Closing(lines, 0)) = 0
    BY <2>1, FS_EmptySet
  <2>3. /\ EmptyLedger.next = 1 /\ EmptyLedger.current = NewRound(1)
        /\ EmptyLedger.payments = <<>>
    BY DEF EmptyLedger
  <2>4. FoundBlocks(lines, 0, EmptyLedger)
    BY <2>1, <2>2, <2>3, NewRoundEmpty DEF FoundBlocks
  <2> QED BY <1>2, <2>4
<1>4. ASSUME NEW k \in Nat, k \in T PROVE k + 1 \in T
  <2> SUFFICES ASSUME k + 1 \in 0..n PROVE FoundBlocks(lines, k + 1, f[k + 1])
    OBVIOUS
  <2>1. k + 1 \in 1..n /\ (k + 1) - 1 = k /\ k \in 0..n
    BY <1>2
  <2>2. f[k + 1] = ReplayEvent(f[k], lines[k + 1], 1) /\ f[k] \in Ledger
        /\ f[k + 1] \in Ledger /\ lines[k + 1] \in Event
    BY <1>1, <1>2, <2>1
  <2>3. Replays(f[k], lines[k + 1], 1, f[k + 1])
    BY <2>2, ReplayEventType
  <2>4. FoundBlocks(lines, k, f[k])
    BY <1>4, <2>1
  <2> QED BY <2>1, <2>2, <2>3, <2>4, FoundBlocksStep
<1>5. Nat \subseteq T
  <2> HIDE DEF T
  <2> QED BY <1>3, <1>4, NatInduct
<1>6. FoundBlocks(lines, n, f[n])
  BY <1>2, <1>5
<1> QED BY <1>2, <1>6

-----------------------------------------------------------------------------
(* The snapshot the tool writes.                                            *)

\* Round r has got its marks, as round new, from the payment records of ledger l.
Remarked(l, r, new) ==
    /\ new \in SolvedRound
    /\ new.id = r.id /\ new.block = r.block /\ new.height = r.height
    /\ new.entries = r.entries /\ new.amount = r.amount
    /\ new.settled = Explained(l, r)
    /\ new.paid <=> /\ \E k \in DOMAIN l.payments : r.id \in l.payments[k].rounds
                    /\ FullyPaid(new)

LEMMA ApplyRetainedRemarks ==
    ASSUME NEW l, NEW r \in SolvedRound
    PROVE  Remarked(l, r, ApplyRetainedPayments(l, r))
<1> DEFINE marks == Explained(l, r)
           marked == [r EXCEPT !.settled = marks]
           listed == \E k \in DOMAIN l.payments : r.id \in l.payments[k].rounds
           flag == listed /\ FullyPaid(marked)
           new == [marked EXCEPT !.paid = flag]
<1>1. ApplyRetainedPayments(l, r) = new
  BY DEF ApplyRetainedPayments
<1>2. marks \subseteq r.entries
  BY DEF Explained
<1>3. r = [id |-> r.id, block |-> r.block, height |-> r.height, amount |-> r.amount,
           entries |-> r.entries, settled |-> r.settled, paid |-> r.paid]
      /\ r.id \in Nat /\ r.block \in Nat /\ r.height \in Nat
      /\ r.amount \in [Worker -> Nat] /\ r.entries \in SUBSET Worker
  BY DEF SolvedRound
<1> HIDE DEF marks
<1>4. marked = [id |-> r.id, block |-> r.block, height |-> r.height, amount |-> r.amount,
                entries |-> r.entries, settled |-> marks, paid |-> r.paid]
  BY <1>3
<1>5. flag \in BOOLEAN
  BY DEF FullyPaid
<1>6. flag <=> listed /\ FullyPaid(marked)
  OBVIOUS
<1> HIDE DEF marked, flag
<1>7. new = [id |-> r.id, block |-> r.block, height |-> r.height, amount |-> r.amount,
             entries |-> r.entries, settled |-> marks, paid |-> flag]
  BY <1>4
<1> HIDE DEF new
<1>8. /\ new.id = r.id /\ new.block = r.block /\ new.height = r.height
      /\ new.entries = r.entries /\ new.amount = r.amount /\ new.settled = marks
      /\ new.paid = flag
  BY <1>7
<1>9. marked.entries = r.entries /\ marked.amount = r.amount /\ marked.settled = marks
  BY <1>4
<1>10. new \in SolvedRound
  BY <1>2, <1>3, <1>5, <1>7 DEF SolvedRound
<1>11. FullyPaid(new) <=> FullyPaid(marked)
  BY <1>8, <1>9 DEF FullyPaid
<1>12. new.paid <=> listed /\ FullyPaid(new)
  BY <1>6, <1>8, <1>11
<1> QED BY <1>1, <1>8, <1>10, <1>12 DEF Remarked, marks

\* Ledger new is what the tool makes of its replay and of the snapshot l.
Restores(l, replayed, new) ==
    /\ Sound(new)
    /\ new.next = replayed.next /\ new.current = replayed.current
    /\ new.payments = l.payments
    /\ Len(new.recent) = IF Len(replayed.recent) < MaxRecentRounds
                         THEN Len(replayed.recent) ELSE MaxRecentRounds
    /\ \A i \in DOMAIN new.recent :
          i \in DOMAIN replayed.recent /\ Remarked(l, replayed.recent[i], new.recent[i])

LEMMA RebuiltRestores ==
    ASSUME NEW lines \in Seq(Event), NEW l, Sound(l)
    PROVE  /\ ReplayLedger(lines, RebuildMinRound(l.payments)) \in Ledger
           /\ Restores(l, ReplayLedger(lines, RebuildMinRound(l.payments)), Rebuilt(lines, l))
<1> DEFINE m == RebuildMinRound(l.payments)
           replayed == ReplayLedger(lines, m)
           base == [replayed EXCEPT !.payments = l.payments]
           n == IF Len(base.recent) < MaxRecentRounds THEN Len(base.recent)
                ELSE MaxRecentRounds
           recent == [i \in 1..n |-> ApplyRetainedPayments(base, base.recent[i])]
           new == [base EXCEPT !.recent = recent]
<1>1. Rebuilt(lines, l) = new
  BY DEF Rebuilt
<1> HIDE DEF m
<1>2. replayed \in Ledger
  <2> DEFINE f == ReplayOf(lines, m)
             k == Len(lines)
  <2>1. replayed = f[k] /\ k \in Nat /\ \A j \in 0..k : f[j] \in Ledger
    BY ReplayProperties
  <2> HIDE DEF f, k, replayed
  <2> QED BY <2>1
<1> HIDE DEF replayed
<1>3. l \in Ledger /\ Len(l.payments) <= MaxPayments
  BY DEF Sound, WithinLimits
<1>4. /\ base \in Ledger /\ base.next = replayed.next /\ base.current = replayed.current
      /\ base.recent = replayed.recent /\ base.payments = l.payments
  BY <1>2, <1>3 DEF Ledger
<1> HIDE DEF base
<1>5. /\ base.recent \in Seq(SolvedRound) /\ Len(base.recent) \in Nat
      /\ n \in Nat /\ n <= Len(base.recent) /\ n <= MaxRecentRounds
  BY <1>4, OptionAssumption DEF Ledger
<1>6. \A i \in 1..n : i \in DOMAIN base.recent /\ base.recent[i] \in SolvedRound
  BY <1>5
<1>7. \A i \in 1..n : Remarked(base, base.recent[i], recent[i])
  BY <1>6, ApplyRetainedRemarks
<1>8. recent \in Seq(SolvedRound) /\ Len(recent) = n /\ DOMAIN recent = 1..n
  <2>1. \A i \in 1..n : recent[i] \in SolvedRound
    BY <1>7 DEF Remarked
  <2>2. recent \in [1..n -> SolvedRound]
    BY <2>1
  <2> HIDE DEF recent, n
  <2> QED BY <1>5, <2>2
<1> HIDE DEF recent
<1>9. /\ new \in Ledger /\ new.next = base.next /\ new.current = base.current
      /\ new.recent = recent /\ new.payments = base.payments
  BY <1>4, <1>8 DEF Ledger
<1> HIDE DEF new
<1>10. Sound(new)
  BY <1>3, <1>4, <1>5, <1>8, <1>9 DEF Sound, WithinLimits
<1>11. \A r, k : Remarked(base, r, k) => Remarked(l, r, k)
  BY <1>4 DEF Remarked, Explained
<1>12. \A i \in DOMAIN new.recent :
          i \in DOMAIN replayed.recent /\ Remarked(l, replayed.recent[i], new.recent[i])
  BY <1>4, <1>6, <1>7, <1>8, <1>9, <1>11
<1>13. Len(new.recent) = IF Len(replayed.recent) < MaxRecentRounds
                         THEN Len(replayed.recent) ELSE MaxRecentRounds
  BY <1>4, <1>8, <1>9
<1>14. Restores(l, replayed, new)
  <2> HIDE DEF n
  <2> QED BY <1>4, <1>9, <1>10, <1>12, <1>13 DEF Restores
<1> QED BY <1>1, <1>2, <1>14 DEF replayed, m

-----------------------------------------------------------------------------
(* Types of the log's part.                                                 *)

\* The log is a list of lines; a process has one event to append at most.
LogOK ==
    /\ log \in Seq(Line)
    /\ DOMAIN event = Process
    /\ \A p \in Process : \A e, o \in event[p] : e = o /\ e.line \in Line

LEMMA AppendedType ==
    ASSUME LogOK, NEW p \in Process
    PROVE  /\ Appended(p) \in Seq(Line)
           /\ event[p] = {} => Appended(p) = log
           /\ \A e \in event[p] : Appended(p) = Append(log, e.line)
<1> DEFINE lines == {e.line : e \in event[p]}
<1>1. Appended(p) = log \o SetToSeq(lines) /\ log \in Seq(Line)
  BY DEF Appended, LogOK
<1>2. CASE event[p] = {}
  <2>1. lines = {}
    BY <1>2
  <2>2. Cardinality(lines) = 0
    BY <2>1, FS_EmptySet
  <2>3. <<>> \in [1..0 -> {}] /\ IsInjective(<<>>)
    BY DEF IsInjective
  <2>4. SetToSeq(lines) \in [1..0 -> {}]
    <3> HIDE DEF lines
    <3> QED BY <2>1, <2>2, <2>3 DEF SetToSeq
  <2>5. SetToSeq(lines) = <<>>
    BY <2>4
  <2> HIDE DEF lines
  <2> QED BY <1>1, <1>2, <2>5
<1>3. CASE event[p] # {}
  <2>1. PICK e \in event[p] : TRUE
    BY <1>3
  <2>2. lines = {e.line} /\ e.line \in Line /\ \A o \in event[p] : o = e
    BY <2>1 DEF LogOK
  <2> DEFINE x == e.line
             s == <<x>>
  <2>3. Cardinality(lines) = 1
    <3>1. Cardinality({x}) = 1
      BY FS_Singleton
    <3> QED BY <2>2, <3>1
  <2> HIDE DEF lines, x
  <2>4. s \in [1..1 -> {x}] /\ IsInjective(s)
    BY DEF IsInjective
  <2>5. SetToSeq(lines) \in [1..1 -> {x}]
    <3> HIDE DEF s
    <3>1. lines = {x}
      BY <2>2 DEF x
    <3> QED BY <2>3, <2>4, <3>1 DEF SetToSeq
  <2>6. SetToSeq(lines) = <<x>>
    BY <2>5
  <2>7. x \in Line
    BY <2>2 DEF x
  <2>8. Appended(p) = log \o <<x>>
    BY <1>1, <2>6
  <2>9. Appended(p) = Append(log, x) /\ Append(log, x) \in Seq(Line)
    BY <1>1, <2>7, <2>8
  <2>10. \A o \in event[p] : o.line = x
    BY <2>2 DEF x
  <2> QED BY <1>3, <2>9, <2>10
<1> QED BY <1>2, <1>3

RebuildInv == TypeInv /\ LogOK

LEMMA RebuildInvInit == RebuildInit => RebuildInv
<1> SUFFICES ASSUME RebuildInit PROVE RebuildInv
  OBVIOUS
<1>1. TypeInv
  BY TypeInit DEF RebuildInit
<1>2. LogOK
  BY DEF RebuildInit, LogOK
<1> QED BY <1>1, <1>2 DEF RebuildInv

\* Every step but the rebuild is one of the ledger's.
LEMMA RebuildStepParts ==
    ASSUME [RebuildNext]_rebuildVars
    PROVE  [Next]_vars \/ Rebuild
<1>1. CASE UNCHANGED rebuildVars
  BY <1>1 DEF rebuildVars
<1>2. ASSUME NEW s \in Session, NEW w \in Worker, NEW work \in ShareWork,
             NEW difficulty \in WorkerDifficulty, ShareWithEvent(s, w, work, difficulty)
      PROVE  Next
  BY <1>2 DEF ShareWithEvent, Next, SessionStep
<1>3. ASSUME NEW s \in Session, NEW w \in Worker, NEW height \in Height,
             NEW reward \in Reward, BlockWithEvent(s, w, height, reward)
      PROVE  Next
  BY <1>3 DEF BlockWithEvent, Next, SessionStep
<1>4. ASSUME NEW c \in Caller, PayoutStep(c) PROVE Next
  BY <1>4 DEF PayoutStep, Next, CallerStep
<1>5. ASSUME NEW o \in Operator, OperatorStep(o) PROVE Next
  BY <1>5 DEF Next
<1>6. ASSUME NEW p \in Process, PersistWithEvent(p) \/ PersistFailsWithEvent(p) PROVE Next
  BY <1>6 DEF PersistWithEvent, PersistFailsWithEvent, Next, PersistStep
<1>7. CASE RestartWithEvents
  BY <1>7 DEF RestartWithEvents, Next
<1> QED BY <1>1, <1>2, <1>3, <1>4, <1>5, <1>6, <1>7 DEF RebuildNext

LEMMA RebuildTypeStep ==
    ASSUME RebuildInv, [RebuildNext]_rebuildVars
    PROVE  TypeInv'
<1>1. CASE [Next]_vars
  BY <1>1, TypeStep DEF RebuildInv
<1>2. CASE Rebuild
  <2> USE DEF RebuildInv
  <2>1. log \in Seq(Event) /\ Sound(disk)
    BY DEF LogOK, Line, TypeInv, Copies
  <2>2. Sound(Rebuilt(log, disk))
    BY <2>1, RebuiltRestores DEF Restores
  <2>3. /\ disk' = Rebuilt(log, disk) /\ ledger' = disk' /\ UNCHANGED unsaved
        /\ UNCHANGED <<payoutMu, run, handPaid, found, paid>>
        /\ ledgerError' = FALSE /\ autoError' = ""
        /\ faults' = [faults EXCEPT !["crash"] = @ + 1]
    BY <1>2 DEF Rebuild, historyVars
  <2>4. \A l \in Copies' : l \in Copies \/ l = Rebuilt(log, disk)
    BY <2>3 DEF Copies
  <2>5. \A l \in Copies' : Sound(l)
    BY <2>2, <2>4 DEF TypeInv
  <2>6. ControlOK /\ HistoryOK /\ found \in Nat /\ unsaved \in [Process -> SUBSET Ledger]
    BY TypeParts
  <2>7. faults' \in [FaultKind -> Nat]
    BY <2>3, <2>6, FaultsType DEF ControlOK
  <2>8. ControlOK' /\ HistoryOK' /\ found' \in Nat /\ unsaved' \in [Process -> SUBSET Ledger]
    BY <2>3, <2>6, <2>7 DEF ControlOK, HistoryOK
  <2>9. (\A l \in Copies : Sound(l))'
    BY <2>5 DEF Sound, WithinLimits
  <2> QED BY <2>8, <2>9 DEF TypeInv, TypeOK, ControlOK, HistoryOK, Copies, Sound
<1> QED BY <1>1, <1>2, RebuildStepParts

LEMMA LogStep ==
    ASSUME RebuildInv, [RebuildNext]_rebuildVars
    PROVE  LogOK'
<1> USE DEF RebuildInv
<1>1. CASE UNCHANGED <<log, event>>
  BY <1>1 DEF LogOK
<1>2. ASSUME NEW p \in Process, NEW e, e.line \in Line, log' = log,
             event' = [event EXCEPT ![p] = {e}]
      PROVE  LogOK'
  BY <1>2 DEF LogOK
<1>3. ASSUME NEW s \in Session, NEW w \in Worker, NEW work \in ShareWork,
             NEW difficulty \in WorkerDifficulty, ShareWithEvent(s, w, work, difficulty)
      PROVE  LogOK'
  <2> DEFINE age == IF Ages = {} THEN 1 ELSE Max(Ages) + 1
             line == [worker |-> w, difficulty |-> difficulty, block |-> 0, height |-> 0]
             e == [line |-> line, age |-> age]
  <2>1. event' = [event EXCEPT ![s] = {e}] /\ log' = log /\ s \in Process
    BY <1>3 DEF ShareWithEvent, Note, Process
  <2>2. line \in Line
    BY WorkerDifficultyAssumption DEF Line, Event
  <2> HIDE DEF age, line
  <2>3. e.line \in Line
    BY <2>2
  <2> HIDE DEF e
  <2> QED BY <1>2, <2>1, <2>3
<1>4. ASSUME NEW s \in Session, NEW w \in Worker, NEW height \in Height,
             NEW reward \in Reward, BlockWithEvent(s, w, height, reward)
      PROVE  LogOK'
  <2> DEFINE age == IF Ages = {} THEN 1 ELSE Max(Ages) + 1
             line == [worker |-> w, difficulty |-> 0, block |-> found + 1, height |-> height]
             e == [line |-> line, age |-> age]
  <2>1. event' = [event EXCEPT ![s] = {e}] /\ log' = log /\ s \in Process
    BY <1>4 DEF BlockWithEvent, Note, Process
  <2>2. found + 1 \in Nat /\ found + 1 > 0
    <3>1. found \in Nat
      BY DEF TypeInv, TypeOK
    <3> HIDE DEF age, line
    <3> QED BY <3>1
  <2>3. line \in Line
    BY <2>2, AmountAssumption DEF Line, Event
  <2> HIDE DEF age, line
  <2>4. e.line \in Line
    BY <2>3
  <2> HIDE DEF e
  <2> QED BY <1>2, <2>1, <2>4
<1>5. ASSUME NEW p \in Process, PersistWithEvent(p) \/ PersistFailsWithEvent(p)
      PROVE  LogOK'
  <2>1. log' \in {log, Appended(p)} /\ event' = [event EXCEPT ![p] = {}]
    BY <1>5 DEF PersistWithEvent, PersistFailsWithEvent
  <2>2. log' \in Seq(Line)
    BY <2>1, AppendedType DEF LogOK
  <2> QED BY <2>1, <2>2 DEF LogOK
<1>6. CASE RestartWithEvents
  <2>1. log' \in Seq(Line)
    BY <1>6, AppendedType DEF RestartWithEvents, LogOK
  <2>2. event' = [p \in Process |-> {}]
    BY <1>6 DEF RestartWithEvents
  <2> QED BY <2>1, <2>2 DEF LogOK
<1>7. CASE Rebuild
  BY <1>1, <1>7 DEF Rebuild, Replayable
<1>8. CASE UNCHANGED rebuildVars
  BY <1>1, <1>8 DEF rebuildVars
<1> QED BY <1>1, <1>3, <1>4, <1>5, <1>6, <1>7, <1>8 DEF RebuildNext, Replayable

LEMMA RebuildInvariant == RebuildSpec => []RebuildInv
<1>1. RebuildInit => RebuildInv
  BY RebuildInvInit
<1>2. RebuildInv /\ [RebuildNext]_rebuildVars => RebuildInv'
  BY RebuildTypeStep, LogStep DEF RebuildInv
<1> QED BY <1>1, <1>2, PTL DEF RebuildSpec

\* Whatever happened to the snapshot, as long as nothing has been paid the tool finds
\* every block of the log it has room for, and owes it to the workers with shares in the
\* log since the block before (RebuildRecoversBlocks: replayLedger, persistShareUpdate).
THEOREM BlocksAreRecovered == RebuildSpec => []RebuildRecoversBlocks
<1>1. ASSUME RebuildInv, disk.payments = <<>>
      PROVE  RebuildRecoversBlocks
  <2> DEFINE n == Len(log)
             replayed == ReplayLedger(log, 1)
             l == Rebuilt(log, disk)
  <2>1. log \in Seq(Line) /\ log \in Seq(Event) /\ Sound(disk) /\ n \in Nat
    BY <1>1 DEF RebuildInv, LogOK, Line, TypeInv, Copies
  <2>2. RebuildMinRound(disk.payments) = 1
    BY <1>1 DEF RebuildMinRound
  <2>3. replayed \in Ledger /\ Restores(disk, replayed, l)
    BY <2>1, <2>2, RebuiltRestores
  <2>4. FoundBlocks(log, n, replayed)
    BY <2>1, FoundBlocksAll
  <2> HIDE DEF replayed, l
  <2>5. DOMAIN log = 1..n
    BY <2>1
  <2> HIDE DEF n
  <2> DEFINE closing == {k \in DOMAIN log : log[k].height > 0}
             counted == {k \in closing : log[k].height >= StartHeight}
             Earlier(k) == {j \in closing : j < k}
             SinceBlock(k) == {log[j].worker : j \in {j \in 1..(k - 1) :
                                log[j].difficulty > 0 /\ \A b \in Earlier(k) : b < j}}
             Fits(k) == Cardinality({j \in counted : k <= j}) <= MaxRecentRounds
             Listed(k, r) == /\ r.block = log[k].block
                             /\ r.id = Cardinality(Earlier(k)) + 1
                             /\ r.entries =
                                   IF Distributable(MinerRewardAtHeight(log[k].height)) > 0
                                   THEN SinceBlock(k) ELSE {}
  <2>6. ASSUME NEW k \in counted, Fits(k)
        PROVE  \E i \in DOMAIN l.recent : Listed(k, l.recent[i])
    <3> DEFINE i == Cardinality(CountedFrom(log, k, n))
    <3>1. k \in 1..n /\ k - 1 \in 0..n /\ k \in CountedFrom(log, 1, n)
      BY <2>1, <2>5 DEF CountedFrom
    <3>2. {j \in counted : k <= j} = CountedFrom(log, k, n)
      BY <2>5 DEF CountedFrom
    <3>3. Earlier(k) = Closing(log, k - 1)
      BY <2>1, <2>5, <3>1 DEF Closing
    <3>4. SinceBlock(k) = Since(log, k - 1)
      BY <3>3 DEF Since
    <3>5. i \in DOMAIN replayed.recent /\ RoundOfBlock(log, k, replayed.recent[i])
      BY <2>4, <3>1 DEF FoundBlocks
    <3>6. i <= MaxRecentRounds
      BY <2>6, <3>2
    <3> HIDE DEF i
    <3>7. i \in 1..Len(replayed.recent) /\ Len(replayed.recent) \in Nat
      BY <2>3, <3>5 DEF Ledger
    <3>8. i \in DOMAIN l.recent
      <4>1. l.recent \in Seq(SolvedRound)
        BY <2>3 DEF Restores, Sound, Ledger
      <4>2. Len(l.recent) = IF Len(replayed.recent) < MaxRecentRounds
                            THEN Len(replayed.recent) ELSE MaxRecentRounds
        BY <2>3 DEF Restores
      <4> QED BY <3>6, <3>7, <4>1, <4>2, OptionAssumption
    <3>9. Remarked(disk, replayed.recent[i], l.recent[i])
      BY <2>3, <3>8 DEF Restores
    <3>10. Listed(k, l.recent[i])
      <4> HIDE DEF Earlier, SinceBlock
      <4> QED BY <3>3, <3>4, <3>5, <3>9 DEF RoundOfBlock, Remarked
    <3> HIDE DEF Listed
    <3> QED BY <3>8, <3>10
  <2> QED BY <2>6 DEF RebuildRecoversBlocks, l
<1>2. RebuildInv => RebuildRecoversBlocks
  BY <1>1 DEF RebuildRecoversBlocks
<1> QED BY <1>2, RebuildInvariant, PTL

-----------------------------------------------------------------------------
(* What the pool files for a block, and what the tool makes of it.          *)

\* A round with payouts has one that amounts to something.
SomeAmount(r) == r.entries # {} => \E w \in r.entries : r.amount[w] > 0

\* Round r of the ledger and round q of a replay are of one block.  If they weigh the shares
\* the same, no amount differs by more than an atom.
Matches(r, q, same) ==
    /\ q.block = r.block /\ q.height = r.height /\ q.entries = r.entries
    /\ SumFunctionOnSet(q.amount, q.entries) = SumFunctionOnSet(r.amount, r.entries)
    /\ same => \A w \in r.entries : q.amount[w] - r.amount[w] \in -1..1
    /\ SomeAmount(r)

\* Current rounds of the same workers and shares, weighed the same or not.
Alike(a, b, same) ==
    /\ a.id = b.id /\ a.shares = b.shares
    /\ Contributors(a.work) = Contributors(b.work)
    /\ a.total > 0 <=> b.total > 0
    /\ same => a = b

\* Amounts that add up to something are not all nothing.
LEMMA SumSomeAmount ==
    ASSUME NEW S, IsFiniteSet(S), NEW f, \A x \in S : f[x] \in Nat,
           SumFunctionOnSet(f, S) > 0
    PROVE  \E x \in S : f[x] > 0
<1> SUFFICES ASSUME \A x \in S : f[x] = 0 PROVE FALSE
  OBVIOUS
<1> DEFINE T == {}
<1>1. \A x \in S : f[x] \in Int
  OBVIOUS
<1>2. T \in SUBSET S /\ \A x \in S \ T : f[x] = 0
  OBVIOUS
<1> HIDE DEF T
<1>3. SumFunctionOnSet(f, S) = SumFunctionOnSet(f, T)
  BY <1>1, <1>2, SumSupport
<1>4. SumFunctionOnSet(f, T) = 0
  BY SumEmpty DEF T
<1> QED BY <1>3, <1>4

\* Of like rounds and the same reward, the two splits list the same workers and have the
\* same total; of the same round they differ by an atom at most
\* (finalizeRoundPayoutLocked; finalizeRound).
LEMMA SplitsMatch ==
    ASSUME NEW round \in CurrentRound, Round(Worker, round.work, round.total),
           NEW other \in CurrentRound, Round(Worker, other.work, other.total),
           NEW same, Alike(round, other, same), NEW block \in Nat, NEW height \in Nat
    PROVE  LET r == SolvedRoundOf(round, block, height, MinerRewardAtHeight(height))
               q == RebuiltRound(other, block, height)
           IN  Matches(r, q, same) /\ SomeAmount(q)
<1> DEFINE work == round.work
           shares == round.shares
           total == round.total
           weight == other.work
           sum == other.total
           d == Distributable(MinerRewardAtHeight(height))
           live == LiveRank(work, shares)
           sorted == RebuiltRank(weight)
           A == CalculatePayouts(work, live, total, d, {})
           B == CalculatePayouts(weight, sorted, sum, d, {})
           E == PayoutWorkers(work, total, d)
           r == SolvedRoundOf(round, block, height, MinerRewardAtHeight(height))
           q == RebuiltRound(other, block, height)
<1>0. /\ Contributors(weight) = Contributors(work)
      /\ total > 0 <=> sum > 0
      /\ same => work = weight /\ total = sum
  BY DEF Alike
<1>1. /\ r.block = block /\ r.height = height /\ r.entries = E /\ r.amount = A
      /\ q.block = block /\ q.height = height
      /\ q.entries = PayoutWorkers(weight, sum, d) /\ q.amount = B
  BY DEF SolvedRoundOf, RebuiltRound
<1> HIDE DEF r, q
<1>2. /\ work \in [Worker -> Nat] /\ shares \in [Worker -> Nat] /\ total \in Nat
      /\ weight \in [Worker -> Nat] /\ sum \in Nat
  BY DEF CurrentRound
<1>3. d \in Nat
  BY RewardType, DistributableType
<1>4. A \in [Worker -> Nat] /\ B \in [Worker -> Nat]
  BY <1>2, <1>3, SplitType
<1>5. Round(Worker, work, total) /\ Round(Worker, weight, sum)
  OBVIOUS
<1>6. Worker \subseteq Int
  BY NamesAssumption
<1> HIDE DEF work, shares, total, weight, sum, d, live, sorted
<1>7. /\ E = IF d > 0 /\ total > 0 THEN Contributors(work) ELSE {}
      /\ q.entries = E
  BY <1>0, <1>1 DEF PayoutWorkers
<1> HIDE DEF A, B, E
<1>8. CASE d > 0 /\ total > 0
  <2> DEFINE low == {}
             LO == LiveOrder(work, shares)
             RO == RebuiltOrder(weight)
  <2>1. /\ total \in Nat \ {0} /\ sum \in Nat \ {0} /\ d \in Nat \ {0}
        /\ low \in SUBSET MayFallShort(work, total, d)
        /\ low \in SUBSET MayFallShort(weight, sum, d)
    BY <1>0, <1>2, <1>3, <1>8
  <2>2. Ranks(Contributors(work), LO, live)
    BY <1>2, <1>6, LiveRanks DEF live
  <2>3. Ranks(Contributors(weight), RO, sorted)
    BY <1>2, <1>6, RebuiltRanks DEF sorted
  <2>4. /\ E = Contributors(work) /\ E = Contributors(weight)
        /\ IsFiniteSet(E) /\ E \subseteq Worker
    BY <1>0, <1>5, <1>7, <1>8, RoundContributors
  <2>5. A = CalculatePayouts(work, live, total, d, low)
        /\ B = CalculatePayouts(weight, sorted, sum, d, low)
    BY DEF A, B
  <2> HIDE DEF low, LO, RO
  <2>6. SumFunctionOnSet(A, E) = d
    <3>1. SumFunctionOnSet(CalculatePayouts(work, live, total, d, low), Contributors(work)) = d
      BY <1>5, <2>1, <2>2, SplitConserves
    <3> QED BY <2>4, <2>5, <3>1
  <2>7. SumFunctionOnSet(B, E) = d
    <3>1. SumFunctionOnSet(CalculatePayouts(weight, sorted, sum, d, low), Contributors(weight)) = d
      BY <1>5, <2>1, <2>3, SplitConserves
    <3> QED BY <2>4, <2>5, <3>1
  <2>8. ASSUME same, NEW w \in E PROVE B[w] - A[w] \in -1..1
    <3> DEFINE rest == Remainder(work, total, d, low)
               fl == FloorShare(work, total, d, low, w)
               xa == Extra(rest, live[w])
               xb == Extra(rest, sorted[w])
    <3>0. w \in Contributors(work)
      BY <2>4
    <3>1. A[w] = fl + xa
      <4>1. CalculatePayouts(work, live, total, d, low)[w] = fl + xa
        BY <1>2, <2>1, <3>0, SplitParts
      <4> QED BY <2>5, <4>1
    <3>2. B[w] = fl + xb
      <4>1. CalculatePayouts(work, sorted, total, d, low)[w] = fl + xb
        BY <1>2, <2>1, <3>0, SplitParts
      <4>2. B = CalculatePayouts(work, sorted, total, d, low)
        BY <1>0, <2>5, <2>8
      <4> QED BY <4>1, <4>2
    <3>3. xa \in {0, 1} /\ xb \in {0, 1}
      BY DEF Extra
    <3>4. fl \in Int
      <4>1. fl \in Nat
        BY <1>2, <2>1, <2>4, FloorBounds
      <4> QED BY <4>1
    <3> HIDE DEF rest, fl, xa, xb
    <3> QED BY <3>1, <3>2, <3>3, <3>4
  <2>9. \A w \in E : A[w] \in Nat /\ B[w] \in Nat
    BY <1>4, <2>4
  <2>10. \E w \in E : A[w] > 0
    BY <1>8, <2>4, <2>6, <2>9, SumSomeAmount
  <2>11. \E w \in E : B[w] > 0
    BY <1>8, <2>4, <2>7, <2>9, SumSomeAmount
  <2>12. Matches(r, q, same) /\ SomeAmount(q)
    BY <1>1, <1>7, <2>6, <2>7, <2>8, <2>10, <2>11 DEF Matches, SomeAmount
  <2> QED BY <2>12 DEF r, q
<1>9. CASE ~(d > 0 /\ total > 0)
  <2>1. E = {}
    BY <1>7, <1>9
  <2>2. SumFunctionOnSet(A, E) = 0 /\ SumFunctionOnSet(B, E) = 0
    BY <2>1, SumEmpty
  <2>3. Matches(r, q, same) /\ SomeAmount(q)
    BY <1>1, <1>7, <2>1, <2>2 DEF Matches, SomeAmount
  <2> QED BY <2>3 DEF r, q
<1> QED BY <1>8, <1>9

-----------------------------------------------------------------------------
(* Replays line by line, and from a later round on.                         *)

\* A replay of no lines, and of one line more.
LEMMA ReplayAppend ==
    ASSUME NEW lines \in Seq(Event), NEW e \in Event, NEW m
    PROVE  /\ ReplayLedger(lines, m) \in Ledger
           /\ ReplayLedger(Append(lines, e), m) = ReplayEvent(ReplayLedger(lines, m), e, m)
<1> DEFINE more == Append(lines, e)
           n == Len(lines)
           f == ReplayOf(lines, m)
           g == ReplayOf(more, m)
           T == {k \in Nat : k \in 0..n => g[k] = f[k]}
<1>1. more \in Seq(Event) /\ Len(more) = n + 1 /\ n \in Nat /\ more[n + 1] = e
      /\ \A k \in 1..n : more[k] = lines[k]
  OBVIOUS
<1>2. /\ ReplayLedger(lines, m) = f[n] /\ f[0] = EmptyLedger
      /\ \A k \in 1..n : f[k] = ReplayEvent(f[k - 1], lines[k], m)
      /\ \A k \in 0..n : f[k] \in Ledger
  BY ReplayProperties
<1> HIDE DEF more
<1>3. /\ ReplayLedger(more, m) = g[n + 1] /\ g[0] = EmptyLedger
      /\ \A k \in 1..(n + 1) : g[k] = ReplayEvent(g[k - 1], more[k], m)
  <2>1. /\ ReplayLedger(more, m) = g[Len(more)] /\ g[0] = EmptyLedger
        /\ \A k \in 1..Len(more) : g[k] = ReplayEvent(g[k - 1], more[k], m)
    BY <1>1, ReplayProperties
  <2> HIDE DEF g, n
  <2> QED BY <1>1, <2>1
<1> HIDE DEF f, g, n
<1>4. 0 \in T
  BY <1>2, <1>3
<1>5. ASSUME NEW k \in Nat, k \in T PROVE k + 1 \in T
  <2> SUFFICES ASSUME k + 1 \in 0..n PROVE g[k + 1] = f[k + 1]
    OBVIOUS
  <2>1. k + 1 \in 1..n /\ k + 1 \in 1..(n + 1) /\ (k + 1) - 1 = k /\ k \in 0..n
    BY <1>1
  <2>2. g[k] = f[k] /\ more[k + 1] = lines[k + 1]
    BY <1>1, <1>5, <2>1
  <2> QED BY <1>2, <1>3, <2>1, <2>2
<1>6. Nat \subseteq T
  <2> HIDE DEF T
  <2> QED BY <1>4, <1>5, NatInduct
<1>7. g[n] = f[n]
  BY <1>1, <1>6
<1>8. n + 1 \in 1..(n + 1) /\ (n + 1) - 1 = n /\ n \in 0..n
  BY <1>1
<1> QED BY <1>1, <1>2, <1>3, <1>7, <1>8 DEF more

LEMMA ReplayNothing == \A m : ReplayLedger(<<>>, m) = EmptyLedger
<1> SUFFICES ASSUME NEW m PROVE ReplayLedger(<<>>, m) = EmptyLedger
  OBVIOUS
<1> DEFINE lines == <<>>
           f == ReplayOf(lines, m)
<1>1. lines \in Seq(Event) /\ Len(lines) = 0
  OBVIOUS
<1> HIDE DEF lines
<1>2. ReplayLedger(lines, m) = f[Len(lines)] /\ f[0] = EmptyLedger
  BY <1>1, ReplayProperties
<1> QED BY <1>1, <1>2 DEF lines

\* The parts of a ledger.
LEMMA LedgerParts ==
    ASSUME NEW l \in Ledger
    PROVE  /\ l.next \in Nat /\ l.current \in CurrentRound /\ l.current.id \in Nat
           /\ l.recent \in Seq(SolvedRound) /\ Len(l.recent) \in Nat
           /\ DOMAIN l.recent = 1..Len(l.recent)
           /\ \A i \in DOMAIN l.recent : l.recent[i] \in SolvedRound /\ l.recent[i].id \in Nat
<1>1. l.next \in Nat /\ l.current \in CurrentRound /\ l.recent \in Seq(SolvedRound)
  BY DEF Ledger
<1>2. l.current.id \in Nat
  BY <1>1 DEF CurrentRound
<1>3. Len(l.recent) \in Nat /\ DOMAIN l.recent = 1..Len(l.recent)
  BY <1>1
<1>4. \A i \in DOMAIN l.recent : l.recent[i] \in SolvedRound
  BY <1>1, <1>3
<1>5. \A r \in SolvedRound : r.id \in Nat
  BY DEF SolvedRound
<1> QED BY <1>1, <1>2, <1>3, <1>4, <1>5

\* What a share does to the current round depends on that round alone.
LEMMA SameCounted ==
    ASSUME NEW l \in Ledger, NEW k \in Ledger, l.current = k.current, NEW e \in Event
    PROVE  Counted(l, e).current = Counted(k, e).current
<1> DEFINE w == e.worker
           work == e.difficulty
           After(c) == [id |-> c.id, work |-> [c.work EXCEPT ![w] = @ + work],
                        shares |-> [c.shares EXCEPT ![w] = @ + 1], total |-> c.total + work]
<1>1. w \in Worker /\ work \in Nat
  BY DEF Event
<1>2. CASE e.difficulty > 0
  <2>1. Counted(l, e) = ApplyShare(l, w, work) /\ Counted(k, e) = ApplyShare(k, w, work)
    BY <1>2 DEF Counted
  <2> HIDE DEF w, work
  <2>2. ApplyShare(l, w, work).current = After(l.current)
    BY <1>1, ApplyShareType
  <2>3. ApplyShare(k, w, work).current = After(k.current)
    BY <1>1, ApplyShareType
  <2> HIDE DEF After
  <2> QED BY <2>1, <2>2, <2>3
<1>3. CASE ~(e.difficulty > 0)
  BY <1>3 DEF Counted
<1> QED BY <1>2, <1>3

\* A replay numbers its rounds as the pool does, but for those it does not keep.
LEMMA ReplayNumbered ==
    ASSUME NEW l \in Ledger, Numbered(l), NEW e \in Event, NEW m, NEW new \in Ledger,
           Replays(l, e, m, new)
    PROVE  Numbered(new)
<1>1. /\ l.next \in Nat /\ l.recent \in Seq(SolvedRound) /\ l.current \in CurrentRound
      /\ \A i \in DOMAIN l.recent : l.recent[i].id \in Nat
  BY LedgerParts
<1>2. CASE e.height = 0
  <2>1. /\ new.next = l.next /\ new.current.id = l.current.id /\ new.recent = l.recent
    BY <1>2, CountedType DEF Replays
  <2> QED BY <2>1 DEF Numbered
<1>3. CASE e.height # 0
  <2> DEFINE round == RebuiltRound(Counted(l, e).current, e.block, e.height)
             kept == e.height >= StartHeight /\ l.current.id >= m
             recent == IF kept THEN <<round>> \o l.recent ELSE l.recent
  <2>1. /\ round \in SolvedRound
        /\ new = [next |-> l.next + 1, current |-> NewRound(l.next + 1),
                  recent |-> recent, payments |-> l.payments]
    BY <1>3 DEF Replays
  <2>2. round.id = l.next
    <3>1. Counted(l, e).current \in CurrentRound /\ Counted(l, e).current.id = l.current.id
      BY CountedType DEF Ledger
    <3>2. e.block \in Nat /\ e.height \in Nat
      BY DEF Event
    <3>3. round.id = l.current.id
      BY <3>1, <3>2, RebuiltRoundType
    <3> QED BY <3>3 DEF Numbered
  <2> HIDE DEF round
  <2>3. /\ \A i \in DOMAIN recent : recent[i].id < l.next + 1
        /\ \A i, j \in DOMAIN recent : i < j => recent[i].id > recent[j].id
    <3>1. CASE kept
      <4>1. /\ DOMAIN recent = 1..(Len(l.recent) + 1) /\ recent[1] = round
            /\ \A i \in 2..(Len(l.recent) + 1) : recent[i] = l.recent[i - 1]
                                                 /\ i - 1 \in DOMAIN l.recent
        BY <1>1, <2>1, <3>1
      <4> HIDE DEF recent
      <4>2. Len(l.recent) \in Nat
        BY <1>1
      <4>3. \A i \in DOMAIN l.recent : l.recent[i].id < l.next
        BY DEF Numbered
      <4>4. ASSUME NEW i \in DOMAIN recent PROVE recent[i].id < l.next + 1
        <5>1. CASE i = 1
          BY <1>1, <2>2, <4>1, <5>1
        <5>2. CASE i # 1
          <6>1. i \in 2..(Len(l.recent) + 1)
            BY <4>1, <4>2, <5>2
          <6> QED BY <1>1, <4>1, <4>3, <6>1
        <5> QED BY <5>1, <5>2
      <4>5. ASSUME NEW i \in DOMAIN recent, NEW j \in DOMAIN recent, i < j
            PROVE  recent[i].id > recent[j].id
        <5>1. j \in 2..(Len(l.recent) + 1) /\ recent[j] = l.recent[j - 1]
              /\ j - 1 \in DOMAIN l.recent
          BY <4>1, <4>2, <4>5
        <5>2. CASE i = 1
          BY <1>1, <2>2, <4>1, <4>3, <5>1, <5>2
        <5>3. CASE i # 1
          <6>1. i \in 2..(Len(l.recent) + 1) /\ recent[i] = l.recent[i - 1]
                /\ i - 1 \in DOMAIN l.recent /\ i - 1 < j - 1
            BY <4>1, <4>2, <4>5, <5>3
          <6> QED BY <5>1, <6>1 DEF Numbered
        <5> QED BY <5>2, <5>3
      <4> QED BY <4>4, <4>5
    <3>2. CASE ~kept
      <4>1. recent = l.recent
        BY <3>2
      <4> HIDE DEF recent, kept
      <4>2. \A i \in DOMAIN l.recent : l.recent[i].id < l.next
        BY DEF Numbered
      <4>3. \A i \in DOMAIN l.recent : l.recent[i].id < l.next + 1
        BY <1>1, <4>2
      <4> QED BY <4>1, <4>3 DEF Numbered
    <3> QED BY <3>1, <3>2
  <2> HIDE DEF recent
  <2>4. new.next = l.next + 1 /\ new.current.id = l.next + 1 /\ new.recent = recent
    BY <2>1, NewRoundEmpty
  <2> QED BY <2>3, <2>4 DEF Numbered
<1> QED BY <1>2, <1>3

\* Ledger new is ledger l without the rounds before the m-th.
LeavesOut(l, m, new) ==
    /\ Numbered(l)
    /\ new.next = l.next /\ new.current = l.current /\ new.payments = l.payments
    /\ Len(new.recent) <= Len(l.recent)
    /\ \A i \in DOMAIN new.recent :
          i \in DOMAIN l.recent /\ new.recent[i] = l.recent[i] /\ new.recent[i].id >= m
    /\ \A i \in DOMAIN l.recent : l.recent[i].id >= m => i \in DOMAIN new.recent

LEMMA LeavesOutStep ==
    ASSUME NEW m \in Nat, NEW l \in Ledger, NEW k \in Ledger, LeavesOut(l, m, k),
           NEW e \in Event, NEW new \in Ledger, NEW other \in Ledger,
           Replays(l, e, 0, new), Replays(k, e, m, other)
    PROVE  LeavesOut(new, m, other)
<1>1. /\ l.next \in Nat /\ l.recent \in Seq(SolvedRound) /\ l.current \in CurrentRound
      /\ k.recent \in Seq(SolvedRound) /\ Len(l.recent) \in Nat /\ Len(k.recent) \in Nat
      /\ DOMAIN l.recent = 1..Len(l.recent) /\ DOMAIN k.recent = 1..Len(k.recent)
      /\ \A i \in DOMAIN l.recent : l.recent[i].id \in Nat
      /\ l.current.id \in Nat
  BY LedgerParts
<1>2. Numbered(new)
  BY ReplayNumbered DEF LeavesOut
<1>3. Counted(l, e).current = Counted(k, e).current
  BY SameCounted DEF LeavesOut
<1>4. CASE e.height = 0
  <2>1. new = Counted(l, e) /\ other = Counted(k, e)
    BY <1>4 DEF Replays
  <2>2. /\ new.next = l.next /\ new.recent = l.recent /\ new.payments = l.payments
        /\ other.next = k.next /\ other.recent = k.recent /\ other.payments = k.payments
    BY <2>1, CountedType
  <2> QED BY <1>2, <1>3, <2>1, <2>2 DEF LeavesOut
<1>5. CASE e.height # 0
  <2> DEFINE round == RebuiltRound(Counted(l, e).current, e.block, e.height)
             known == e.height >= StartHeight
             id == l.current.id
  <2>1. /\ round \in SolvedRound
        /\ new = [next |-> l.next + 1, current |-> NewRound(l.next + 1),
                  recent |-> IF known /\ id >= 0 THEN <<round>> \o l.recent ELSE l.recent,
                  payments |-> l.payments]
    BY <1>5 DEF Replays
  <2>2. k.next = l.next /\ k.current = l.current /\ k.payments = l.payments
    BY DEF LeavesOut
  <2>3. other = [next |-> k.next + 1, current |-> NewRound(k.next + 1),
                 recent |-> IF known /\ id >= m THEN <<round>> \o k.recent ELSE k.recent,
                 payments |-> k.payments]
    BY <1>3, <1>5, <2>2 DEF Replays
  <2>4. round.id = id
    <3>1. Counted(l, e).current \in CurrentRound /\ Counted(l, e).current.id = l.current.id
      BY CountedType DEF Ledger
    <3>2. e.block \in Nat /\ e.height \in Nat
      BY DEF Event
    <3> QED BY <3>1, <3>2, RebuiltRoundType
  <2>5. id \in Nat /\ id = l.next /\ \A i \in DOMAIN l.recent : l.recent[i].id < id
    BY <1>1 DEF LeavesOut, Numbered
  <2> HIDE DEF round, known, id
  <2>6. /\ new.next = l.next + 1 /\ new.current = NewRound(l.next + 1)
        /\ new.payments = l.payments
        /\ new.recent = IF known THEN <<round>> \o l.recent ELSE l.recent
        /\ other.next = l.next + 1 /\ other.current = NewRound(l.next + 1)
        /\ other.payments = l.payments
        /\ other.recent = IF known /\ id >= m THEN <<round>> \o k.recent ELSE k.recent
    BY <2>1, <2>2, <2>3, <2>5
  <2>7. /\ Len(k.recent) <= Len(l.recent)
        /\ \A i \in DOMAIN k.recent :
              i \in DOMAIN l.recent /\ k.recent[i] = l.recent[i] /\ k.recent[i].id >= m
        /\ \A i \in DOMAIN l.recent : l.recent[i].id >= m => i \in DOMAIN k.recent
    BY DEF LeavesOut
  <2>8. /\ Len(other.recent) <= Len(new.recent)
        /\ \A i \in DOMAIN other.recent :
              i \in DOMAIN new.recent /\ other.recent[i] = new.recent[i]
              /\ other.recent[i].id >= m
        /\ \A i \in DOMAIN new.recent : new.recent[i].id >= m => i \in DOMAIN other.recent
    <3>1. CASE ~known
      BY <2>6, <2>7, <3>1
    <3>2. CASE known /\ id >= m
      <4> DEFINE a == <<round>> \o l.recent
                 b == <<round>> \o k.recent
      <4>1. /\ Len(a) = Len(l.recent) + 1 /\ DOMAIN a = 1..(Len(l.recent) + 1) /\ a[1] = round
            /\ \A i \in 2..(Len(l.recent) + 1) : a[i] = l.recent[i - 1]
                                                 /\ i - 1 \in DOMAIN l.recent
        BY <1>1, <2>1
      <4>2. /\ Len(b) = Len(k.recent) + 1 /\ DOMAIN b = 1..(Len(k.recent) + 1) /\ b[1] = round
            /\ \A i \in 2..(Len(k.recent) + 1) : b[i] = k.recent[i - 1]
                                                 /\ i - 1 \in DOMAIN k.recent
        BY <1>1, <2>1
      <4>3. new.recent = a /\ other.recent = b
        BY <2>6, <3>2
      <4> HIDE DEF a, b
      <4>4. Len(b) <= Len(a)
        BY <1>1, <2>7, <4>1, <4>2
      <4>5. ASSUME NEW i \in DOMAIN b PROVE i \in DOMAIN a /\ b[i] = a[i] /\ b[i].id >= m
        <5>1. CASE i = 1
          BY <1>1, <2>4, <3>2, <4>1, <4>2, <5>1
        <5>2. CASE i # 1
          <6>1. /\ i \in 2..(Len(k.recent) + 1) /\ i \in 2..(Len(l.recent) + 1)
                /\ i \in 1..(Len(l.recent) + 1)
            BY <1>1, <2>7, <4>2, <5>2
          <6>2. /\ b[i] = k.recent[i - 1] /\ i - 1 \in DOMAIN k.recent
                /\ a[i] = l.recent[i - 1] /\ i \in DOMAIN a
            BY <4>1, <4>2, <6>1
          <6>3. k.recent[i - 1] = l.recent[i - 1] /\ k.recent[i - 1].id >= m
            BY <2>7, <6>2
          <6> QED BY <6>2, <6>3
        <5> QED BY <5>1, <5>2
      <4>6. ASSUME NEW i \in DOMAIN a, a[i].id >= m PROVE i \in DOMAIN b
        <5>1. CASE i = 1
          BY <1>1, <4>2, <5>1
        <5>2. CASE i # 1
          <6>1. i \in 2..(Len(l.recent) + 1)
            BY <1>1, <4>1, <5>2
          <6>2. i - 1 \in DOMAIN k.recent
            BY <2>7, <4>1, <4>6, <6>1
          <6> QED BY <1>1, <4>2, <6>1, <6>2
        <5> QED BY <5>1, <5>2
      <4> QED BY <4>3, <4>4, <4>5, <4>6
    <3>3. CASE known /\ ~(id >= m)
      <4> DEFINE a == <<round>> \o l.recent
      <4>1. /\ Len(a) = Len(l.recent) + 1 /\ DOMAIN a = 1..(Len(l.recent) + 1) /\ a[1] = round
            /\ \A i \in 2..(Len(l.recent) + 1) : a[i] = l.recent[i - 1]
                                                 /\ i - 1 \in DOMAIN l.recent
        BY <1>1, <2>1
      <4>2. new.recent = a /\ other.recent = k.recent
        BY <2>6, <3>3
      <4> HIDE DEF a
      <4>3. DOMAIN k.recent = {}
        <5> SUFFICES ASSUME NEW i \in DOMAIN k.recent PROVE FALSE
          OBVIOUS
        <5>1. l.recent[i].id >= m /\ l.recent[i].id < id /\ l.recent[i].id \in Nat
          BY <1>1, <2>5, <2>7
        <5> QED BY <2>5, <3>3, <5>1
      <4>4. \A i \in DOMAIN a : ~(a[i].id >= m)
        <5> SUFFICES ASSUME NEW i \in DOMAIN a PROVE ~(a[i].id >= m)
          OBVIOUS
        <5>1. CASE i = 1
          BY <2>4, <3>3, <4>1, <5>1
        <5>2. CASE i # 1
          <6>1. i \in 2..(Len(l.recent) + 1)
            BY <1>1, <4>1, <5>2
          <6>2. a[i].id < id /\ a[i].id \in Nat
            BY <1>1, <2>5, <4>1, <6>1
          <6> QED BY <2>5, <3>3, <6>2
        <5> QED BY <5>1, <5>2
      <4>5. Len(k.recent) <= Len(a)
        BY <1>1, <2>7, <4>1
      <4> QED BY <4>2, <4>3, <4>4, <4>5
    <3> QED BY <3>1, <3>2, <3>3
  <2> QED BY <1>2, <2>6, <2>8 DEF LeavesOut
<1> QED BY <1>4, <1>5

\* A replay from the m-th round on is the whole replay without the rounds before.
LEMMA ReplayLeavesOut ==
    ASSUME NEW lines \in Seq(Event), NEW m \in Nat
    PROVE  LeavesOut(ReplayLedger(lines, 0), m, ReplayLedger(lines, m))
<1> DEFINE none == 0
           f == ReplayOf(lines, none)
           g == ReplayOf(lines, m)
           n == Len(lines)
           T == {k \in Nat : k \in 0..n => LeavesOut(f[k], m, g[k])}
<1> HIDE DEF none
<1>1. /\ ReplayLedger(lines, none) = f[n] /\ n \in Nat /\ f[0] = EmptyLedger
      /\ \A k \in 1..n : f[k] = ReplayEvent(f[k - 1], lines[k], none)
      /\ \A k \in 0..n : f[k] \in Ledger
  BY ReplayProperties
<1>2. /\ ReplayLedger(lines, m) = g[n] /\ g[0] = EmptyLedger
      /\ \A k \in 1..n : g[k] = ReplayEvent(g[k - 1], lines[k], m)
      /\ \A k \in 0..n : g[k] \in Ledger
  BY ReplayProperties
<1>3. \A k \in 1..n : lines[k] \in Event
  OBVIOUS
<1> HIDE DEF f, g, n
<1>4. 0 \in T
  <2>1. Numbered(EmptyLedger)
    BY EmptyLedgerKept DEF Kept, Consistent
  <2>2. EmptyLedger.recent = <<>>
    BY DEF EmptyLedger
  <2>3. LeavesOut(EmptyLedger, m, EmptyLedger)
    BY <2>1, <2>2 DEF LeavesOut
  <2> QED BY <1>1, <1>2, <2>3
<1>5. ASSUME NEW k \in Nat, k \in T PROVE k + 1 \in T
  <2> SUFFICES ASSUME k + 1 \in 0..n PROVE LeavesOut(f[k + 1], m, g[k + 1])
    OBVIOUS
  <2>1. k + 1 \in 1..n /\ (k + 1) - 1 = k /\ k \in 0..n
    BY <1>1
  <2> DEFINE l == f[k]
             o == g[k]
             e == lines[k + 1]
             new == f[k + 1]
             other == g[k + 1]
  <2>2. /\ l \in Ledger /\ o \in Ledger /\ e \in Event /\ LeavesOut(l, m, o)
        /\ new \in Ledger /\ other \in Ledger
        /\ new = ReplayEvent(l, e, none) /\ other = ReplayEvent(o, e, m)
    BY <1>1, <1>2, <1>3, <1>5, <2>1
  <2> HIDE DEF l, o, e, new, other
  <2>3. Replays(l, e, none, new) /\ Replays(o, e, m, other)
    BY <2>2, ReplayEventType
  <2>4. Replays(l, e, 0, new)
    BY <2>3 DEF none
  <2>5. LeavesOut(new, m, other)
    BY <2>2, <2>3, <2>4, LeavesOutStep
  <2> QED BY <2>5 DEF new, other
<1>6. Nat \subseteq T
  <2> HIDE DEF T
  <2> QED BY <1>4, <1>5, NatInduct
<1>7. LeavesOut(f[n], m, g[n])
  BY <1>1, <1>6
<1> QED BY <1>1, <1>2, <1>7 DEF none

-----------------------------------------------------------------------------
(* A ledger that is what a replay says.                                     *)

\* The total of the current round is the sum of the workers' parts.
AddsUp(l) == Round(Worker, l.current.work, l.current.total)

\* Ledger l has the numbers of replay k and a like current round, matches its rounds, and
\* has no round to pay that the replay has not; in the list of l, which marks nothing
\* but the limit cuts off, a round is no nearer to the head than in that of k.
Follows(l, k, same) ==
    /\ Numbered(k) /\ AddsUp(k)
    /\ l.next = k.next /\ Alike(l.current, k.current, same)
    /\ \A j \in DOMAIN k.recent : SomeAmount(k.recent[j])
    /\ \A i \in DOMAIN l.recent, j \in DOMAIN k.recent :
          l.recent[i].id = k.recent[j].id => j <= i /\ Matches(l.recent[i], k.recent[j], same)
    /\ \A i \in DOMAIN l.recent : Eligible(l.recent[i]) =>
          \E j \in DOMAIN k.recent : l.recent[i].id = k.recent[j].id

\* A new round's does.
LEMMA NewRoundAddsUp ==
    \A id \in Nat : Round(Worker, NewRound(id).work, NewRound(id).total)
<1> SUFFICES ASSUME NEW id \in Nat PROVE Round(Worker, NewRound(id).work, NewRound(id).total)
  OBVIOUS
<1> DEFINE work == NewRound(id).work
           T == {}
<1>1. work = [w \in Worker |-> 0] /\ NewRound(id).total = 0
  BY DEF NewRound
<1> HIDE DEF work, T
<1>2. Worker \subseteq Int /\ IsFiniteSet(Worker)
  BY NamesAssumption, FiniteAssumption
<1>3. \A x \in Worker : work[x] \in Int /\ work[x] = 0
  BY <1>1
<1>4. T \in SUBSET Worker /\ \A x \in Worker \ T : work[x] = 0
  BY <1>3 DEF T
<1>5. SumFunctionOnSet(work, Worker) = SumFunctionOnSet(work, T)
  BY <1>2, <1>3, <1>4, SumSupport
<1>6. SumFunctionOnSet(work, T) = 0
  BY SumEmpty DEF T
<1>7. work \in [Worker -> Nat]
  BY <1>1
<1> QED BY <1>1, <1>2, <1>5, <1>6, <1>7 DEF Round, work

LEMMA EmptyFollows == \A same : Follows(EmptyLedger, EmptyLedger, same) /\ AddsUp(EmptyLedger)
<1> SUFFICES ASSUME NEW same
             PROVE  Follows(EmptyLedger, EmptyLedger, same) /\ AddsUp(EmptyLedger)
  OBVIOUS
<1>1. Numbered(EmptyLedger)
  BY EmptyLedgerKept DEF Kept, Consistent
<1>2. EmptyLedger.recent = <<>> /\ EmptyLedger.current = NewRound(1)
  BY DEF EmptyLedger
<1>3. AddsUp(EmptyLedger)
  BY <1>2, NewRoundAddsUp DEF AddsUp
<1>4. Follows(EmptyLedger, EmptyLedger, same)
  BY <1>1, <1>2, <1>3 DEF Follows, Alike
<1> QED BY <1>3, <1>4

LEMMA ShareAddsUp ==
    ASSUME NEW l \in Ledger, AddsUp(l), NEW w \in Worker, NEW size \in Nat
    PROVE  AddsUp(ApplyShare(l, w, size))
<1> DEFINE a == ApplyShare(l, w, size)
           work == l.current.work
           round == [id |-> l.current.id,
                     work |-> [l.current.work EXCEPT ![w] = @ + size],
                     shares |-> [l.current.shares EXCEPT ![w] = @ + 1],
                     total |-> l.current.total + size]
<1>1. work \in [Worker -> Nat] /\ work \in [Worker -> Int] /\ l.current.total \in Nat
  BY DEF Ledger, CurrentRound
<1>2. a.current = round
  BY ApplyShareType
<1> HIDE DEF a
<1>3. a.current.work = [work EXCEPT ![w] = @ + size]
      /\ a.current.total = l.current.total + size
  BY <1>2
<1> HIDE DEF work, round
<1>4. Worker \subseteq Int /\ IsFiniteSet(Worker) /\ l.current.total = SumFunctionOnSet(work, Worker)
  BY DEF AddsUp, Round, work
<1>5. SumFunctionOnSet([work EXCEPT ![w] = @ + size], Worker) =
        SumFunctionOnSet(work, Worker) + size
  <2>1. size \in Int
    OBVIOUS
  <2> QED BY <1>1, <1>4, <2>1, SumUpdate
<1>6. [work EXCEPT ![w] = @ + size] \in [Worker -> Nat]
  BY <1>1
<1> QED BY <1>3, <1>4, <1>5, <1>6 DEF AddsUp, Round, a

\* A share of like rounds, credited with work and logged with a difficulty.
LEMMA ShareAlike ==
    ASSUME NEW l \in Ledger, NEW k \in Ledger, NEW same, Alike(l.current, k.current, same),
           NEW w \in Worker, NEW work \in Nat, work > 0, NEW size \in Nat, size > 0,
           NEW now, now => same /\ work = size
    PROVE  Alike(ApplyShare(l, w, work).current, ApplyShare(k, w, size).current, now)
<1> DEFINE a == ApplyShare(l, w, work)
           b == ApplyShare(k, w, size)
<1>1. /\ a.current = [id |-> l.current.id,
                      work |-> [l.current.work EXCEPT ![w] = @ + work],
                      shares |-> [l.current.shares EXCEPT ![w] = @ + 1],
                      total |-> l.current.total + work]
      /\ b.current = [id |-> k.current.id,
                      work |-> [k.current.work EXCEPT ![w] = @ + size],
                      shares |-> [k.current.shares EXCEPT ![w] = @ + 1],
                      total |-> k.current.total + size]
  BY ApplyShareType
<1>2. /\ Contributors(a.current.work) = Contributors(l.current.work) \cup {w}
      /\ Contributors(b.current.work) = Contributors(k.current.work) \cup {w}
  BY ContributorsOfShare
<1>3. l.current.total \in Nat /\ k.current.total \in Nat
  BY DEF Ledger, CurrentRound
<1> HIDE DEF a, b
<1>4. a.current.id = b.current.id /\ a.current.shares = b.current.shares
  BY <1>1 DEF Alike
<1>5. a.current.total > 0 /\ b.current.total > 0
  BY <1>1, <1>3
<1>6. now => a.current = b.current
  BY <1>1 DEF Alike
<1>7. Contributors(a.current.work) = Contributors(b.current.work)
  BY <1>2 DEF Alike
<1> QED BY <1>4, <1>5, <1>6, <1>7 DEF Alike, a, b

LEMMA FollowsShare ==
    ASSUME NEW l \in Ledger, NEW k \in Ledger, NEW same, Follows(l, k, same), NEW e \in Event,
           e.difficulty > 0, e.height = 0, NEW work \in Nat, work > 0,
           NEW now, now => same /\ work = e.difficulty
    PROVE  /\ Follows(ApplyShare(l, e.worker, work), ReplayEvent(k, e, 0), now)
           /\ AddsUp(l) => AddsUp(ApplyShare(l, e.worker, work))
<1> DEFINE w == e.worker
           size == e.difficulty
           a == ApplyShare(l, w, work)
           b == ReplayEvent(k, e, 0)
<1>1. w \in Worker /\ size \in Nat /\ size > 0
  BY DEF Event
<1>2. b \in Ledger /\ Replays(k, e, 0, b)
  <2> DEFINE none == 0
  <2> HIDE DEF none
  <2>1. ReplayEvent(k, e, none) \in Ledger /\ Replays(k, e, none, ReplayEvent(k, e, none))
    BY ReplayEventType
  <2> QED BY <2>1 DEF none
<1> HIDE DEF b
<1>3. b = ApplyShare(k, w, size)
  BY <1>2 DEF Replays, Counted
<1> HIDE DEF w, size
<1>4. /\ a.next = l.next /\ a.recent = l.recent
      /\ b.next = k.next /\ b.recent = k.recent
  BY <1>1, <1>3, ApplyShareType
<1>5. Alike(a.current, b.current, now)
  <2>1. Alike(l.current, k.current, same) /\ (now => same /\ work = size)
    BY DEF Follows, size
  <2> HIDE DEF a
  <2> QED BY <1>1, <1>3, <2>1, ShareAlike DEF a
<1>6. Numbered(b)
  <2> DEFINE none == 0
  <2>1. Replays(k, e, none, b) /\ Numbered(k)
    BY <1>2 DEF Follows
  <2> HIDE DEF none
  <2> QED BY <1>2, <2>1, ReplayNumbered
<1>7. AddsUp(b)
  <2>1. AddsUp(k)
    BY DEF Follows
  <2> QED BY <1>1, <1>3, <2>1, ShareAddsUp
<1>8. \A r, q : Matches(r, q, same) => Matches(r, q, now)
  BY DEF Matches
<1> HIDE DEF a
<1>9. Follows(a, b, now)
  BY <1>4, <1>5, <1>6, <1>7, <1>8 DEF Follows
<1>10. AddsUp(l) => AddsUp(a)
  BY <1>1, ShareAddsUp DEF a
<1> QED BY <1>9, <1>10 DEF a, b, w

LEMMA FollowsMark ==
    ASSUME NEW l, Sound(l), NEW k \in Ledger, NEW same, Follows(l, k, same),
           NEW to \in SUBSET Address
    PROVE  /\ Follows(MarkPaid(l, to), k, same)
           /\ AddsUp(l) => AddsUp(MarkPaid(l, to))
<1> DEFINE new == MarkPaid(l, to)
<1>1. /\ new.next = l.next /\ new.current = l.current /\ DOMAIN new.recent = DOMAIN l.recent
      /\ \A i \in DOMAIN l.recent : new.recent[i] = MarkRound(l.recent[i], to)
  BY MarkPaidSound
<1> HIDE DEF new
<1>2. \A i \in DOMAIN l.recent : l.recent[i] \in SolvedRound
  BY RoundsOfLedger
<1>3. \A i \in DOMAIN l.recent :
        LET r == l.recent[i] IN
        /\ new.recent[i].id = r.id /\ new.recent[i].block = r.block
        /\ new.recent[i].height = r.height /\ new.recent[i].entries = r.entries
        /\ new.recent[i].amount = r.amount
  BY <1>1, <1>2, MarkRoundType
<1>4. \A i \in DOMAIN l.recent : Eligible(new.recent[i]) <=> Eligible(l.recent[i])
  BY <1>3 DEF Eligible
<1>5. \A i \in DOMAIN l.recent : \A q :
        Matches(l.recent[i], q, same) => Matches(new.recent[i], q, same)
  BY <1>3 DEF Matches, SomeAmount
<1>6. Follows(new, k, same)
  BY <1>1, <1>3, <1>4, <1>5 DEF Follows
<1> QED BY <1>1, <1>6 DEF AddsUp, new

\* A block whose reward is that of its height (RecordSolvedBlock; replayLedger).
LEMMA FollowsBlock ==
    ASSUME NEW l, Sound(l), Numbered(l), AddsUp(l), NEW k \in Ledger, NEW same,
           Follows(l, k, same),
           NEW e \in Event, e.difficulty = 0, e.height > 0
    PROVE  LET new == CloseRound(l, e.block, e.height, MinerRewardAtHeight(e.height))
           IN  Follows(new, ReplayEvent(k, e, 0), same) /\ AddsUp(new)
<1> DEFINE block == e.block
           height == e.height
           reward == MinerRewardAtHeight(height)
           a == CloseRound(l, block, height, reward)
           b == ReplayEvent(k, e, 0)
           r == SolvedRoundOf(l.current, block, height, reward)
           q == RebuiltRound(k.current, block, height)
           kept == e.height >= StartHeight /\ k.current.id >= 0
<1>1. b \in Ledger /\ Replays(k, e, 0, b)
  <2> DEFINE none == 0
  <2> HIDE DEF none
  <2>1. ReplayEvent(k, e, none) \in Ledger /\ Replays(k, e, none, ReplayEvent(k, e, none))
    BY ReplayEventType
  <2> QED BY <2>1 DEF none
<1>2. Numbered(b)
  <2> DEFINE none == 0
  <2>1. Replays(k, e, none, b) /\ Numbered(k)
    BY <1>1 DEF Follows
  <2> HIDE DEF none, b
  <2> QED BY <1>1, <2>1, ReplayNumbered
<1>3. /\ block \in Nat /\ height \in Nat /\ height > 0 /\ reward \in Nat
      /\ l \in Ledger /\ l.current \in CurrentRound /\ l.next \in Nat
      /\ l.current.id = l.next
  BY RewardType DEF Event, Sound, Ledger, Numbered
<1>4. /\ Alike(l.current, k.current, same) /\ k.next = l.next /\ k.current.id = l.current.id
      /\ k.current \in CurrentRound
  BY DEF Follows, Alike, Ledger
<1>5. Counted(k, e) = k
  BY DEF Counted
<1>6. /\ q \in SolvedRound /\ q.id = l.next
      /\ b = [next |-> l.next + 1, current |-> NewRound(l.next + 1),
              recent |-> IF kept THEN <<q>> \o k.recent ELSE k.recent,
              payments |-> k.payments]
  <2>1. e.height # 0
    BY <1>3
  <2>2. RebuiltRound(Counted(k, e).current, e.block, e.height) = q
    BY <1>4, <1>5
  <2>3. q \in SolvedRound /\ q.id = l.current.id
    BY <1>3, <1>4, RebuiltRoundType
  <2> HIDE DEF q, b
  <2> QED BY <1>1, <1>3, <1>4, <2>1, <2>2, <2>3 DEF Replays
<1>7. /\ Filed(l, a, r) /\ r.block = block
  <2> HIDE DEF block, height, reward
  <2> QED BY <1>3, CloseRoundFiles
<1>8. a.current = NewRound(l.next + 1) /\ a.next = l.next + 1
  <2>1. l = [next |-> l.next, current |-> l.current, recent |-> l.recent,
             payments |-> l.payments]
    BY <1>3 DEF Ledger
  <2> DEFINE recent == Push(r, l.recent, MaxRecentRounds)
             current == NewRound(l.next + 1)
             next == l.next + 1
  <2>2. a = [l EXCEPT !.recent = recent, !.next = next, !.current = current]
    BY <2>1 DEF CloseRound
  <2> HIDE DEF recent, current, next, a
  <2>3. a = [next |-> next, current |-> current, recent |-> recent, payments |-> l.payments]
    BY <2>1, <2>2
  <2> QED BY <2>3 DEF current, next
<1>9. AddsUp(a)
  <2>1. l.next + 1 \in Nat
    BY <1>3
  <2> HIDE DEF a
  <2> QED BY <1>8, <2>1, NewRoundAddsUp DEF AddsUp
<1>10. Matches(r, q, same) /\ SomeAmount(q)
  <2>1. /\ Round(Worker, l.current.work, l.current.total)
        /\ Round(Worker, k.current.work, k.current.total)
    BY DEF AddsUp, Follows
  <2> HIDE DEF block, height
  <2> QED BY <1>3, <1>4, <2>1, SplitsMatch
<1>11. r.height = height
  BY DEF SolvedRoundOf
<1> HIDE DEF a, b, r, q
<1>12. /\ b.next = l.next + 1 /\ b.current = NewRound(l.next + 1)
       /\ b.recent = IF kept THEN <<q>> \o k.recent ELSE k.recent
  BY <1>6
<1>13. kept <=> height >= StartHeight
  <2>1. k.current.id \in Nat
    BY LedgerParts
  <2> QED BY <2>1
<1>14. /\ k.recent \in Seq(SolvedRound) /\ Len(k.recent) \in Nat
       /\ DOMAIN k.recent = 1..Len(k.recent) /\ k.next \in Nat
       /\ \A j \in DOMAIN k.recent : k.recent[j].id \in Nat
  BY LedgerParts
<1>15. \A i \in DOMAIN l.recent : l.recent[i].id < l.next /\ l.recent[i].id \in Nat
  BY <1>3, LedgerParts DEF Numbered
<1>16. \A j \in DOMAIN k.recent : k.recent[j].id < l.next
  BY <1>4 DEF Follows, Numbered
<1>17. /\ r.id = l.next
       /\ \A i \in DOMAIN a.recent :
             /\ i \in Nat \ {0}
             /\ i = 1 => a.recent[i] = r
             /\ i > 1 => i - 1 \in DOMAIN l.recent /\ a.recent[i] = l.recent[i - 1]
  BY <1>7 DEF Filed
<1>18. /\ \A j \in DOMAIN k.recent : SomeAmount(k.recent[j])
       /\ \A i \in DOMAIN l.recent, j \in DOMAIN k.recent :
             l.recent[i].id = k.recent[j].id => j <= i /\ Matches(l.recent[i], k.recent[j], same)
       /\ \A i \in DOMAIN l.recent : Eligible(l.recent[i]) =>
             \E j \in DOMAIN k.recent : l.recent[i].id = k.recent[j].id
  BY DEF Follows
<1>19. Eligible(r) => height >= StartHeight
  BY <1>3, <1>11 DEF Eligible
<1> HIDE DEF height, kept
<1>20. /\ \A j \in DOMAIN b.recent : SomeAmount(b.recent[j])
       /\ \A i \in DOMAIN a.recent, j \in DOMAIN b.recent :
             a.recent[i].id = b.recent[j].id => j <= i /\ Matches(a.recent[i], b.recent[j], same)
       /\ \A i \in DOMAIN a.recent : Eligible(a.recent[i]) =>
             \E j \in DOMAIN b.recent : a.recent[i].id = b.recent[j].id
  <2>1. CASE kept
    <3> DEFINE s == <<q>> \o k.recent
    <3>1. /\ DOMAIN s = 1..(Len(k.recent) + 1) /\ s[1] = q
          /\ \A j \in 2..(Len(k.recent) + 1) : s[j] = k.recent[j - 1]
                                               /\ j - 1 \in DOMAIN k.recent
          /\ \A j \in DOMAIN k.recent : j + 1 \in DOMAIN s /\ s[j + 1] = k.recent[j]
      BY <1>6, <1>14
    <3>2. b.recent = s
      BY <1>12, <2>1
    <3> HIDE DEF s
    <3>3. ASSUME NEW j \in DOMAIN s
          PROVE  \/ j = 1 /\ s[j] = q
                 \/ /\ j \in Nat /\ j > 1
                    /\ j - 1 \in DOMAIN k.recent /\ s[j] = k.recent[j - 1]
      <4>1. CASE j = 1
        BY <3>1, <4>1
      <4>2. CASE j # 1
        <5>1. j \in 2..(Len(k.recent) + 1)
          BY <1>14, <3>1, <4>2
        <5> QED BY <3>1, <5>1
      <4> QED BY <4>1, <4>2
    <3>4. \A j \in DOMAIN s : SomeAmount(s[j])
      BY <1>10, <1>18, <3>3
    <3>5. ASSUME NEW i \in DOMAIN a.recent, NEW j \in DOMAIN s, a.recent[i].id = s[j].id
          PROVE  j <= i /\ Matches(a.recent[i], s[j], same)
      <4>1. CASE i = 1
        <5>1. a.recent[i] = r /\ s[j].id = l.next
          BY <1>17, <3>5, <4>1
        <5>2. j = 1 /\ s[j] = q
          <6>1. CASE j > 1
            <7>1. s[j].id < l.next /\ s[j].id \in Nat
              BY <1>14, <1>16, <3>3, <6>1
            <7> QED BY <1>3, <5>1, <7>1
          <6> QED BY <3>3, <6>1
        <5> QED BY <1>10, <4>1, <5>1, <5>2
      <4>2. CASE i # 1
        <5>1. i \in Nat /\ i > 1 /\ i - 1 \in DOMAIN l.recent /\ a.recent[i] = l.recent[i - 1]
          BY <1>17, <4>2
        <5>2. a.recent[i].id < l.next /\ a.recent[i].id \in Nat
          BY <1>15, <5>1
        <5>3. /\ j \in Nat /\ j > 1
              /\ j - 1 \in DOMAIN k.recent /\ s[j] = k.recent[j - 1]
          <6>1. s[j] # q
            BY <1>3, <1>6, <3>5, <5>2
          <6> QED BY <3>3, <6>1
        <5>4. j - 1 <= i - 1 /\ Matches(l.recent[i - 1], k.recent[j - 1], same)
          BY <1>18, <3>5, <5>1, <5>3
        <5> QED BY <5>1, <5>3, <5>4
      <4> QED BY <4>1, <4>2
    <3>6. ASSUME NEW i \in DOMAIN a.recent, Eligible(a.recent[i])
          PROVE  \E j \in DOMAIN s : a.recent[i].id = s[j].id
      <4>1. CASE i = 1
        <5>1. 1 \in DOMAIN s
          BY <1>14, <3>1
        <5> QED BY <1>6, <1>17, <3>1, <4>1, <5>1
      <4>2. CASE i # 1
        <5>1. i - 1 \in DOMAIN l.recent /\ a.recent[i] = l.recent[i - 1]
          BY <1>17, <4>2
        <5>2. PICK j \in DOMAIN k.recent : l.recent[i - 1].id = k.recent[j].id
          BY <1>18, <3>6, <5>1
        <5> QED BY <3>1, <5>1, <5>2
      <4> QED BY <4>1, <4>2
    <3> QED BY <3>2, <3>4, <3>5, <3>6
  <2>2. CASE ~kept
    <3>1. b.recent = k.recent
      BY <1>12, <2>2
    <3>2. ASSUME NEW i \in DOMAIN a.recent, NEW j \in DOMAIN k.recent,
                 a.recent[i].id = k.recent[j].id
          PROVE  j <= i /\ Matches(a.recent[i], k.recent[j], same)
      <4>1. i # 1
        <5> SUFFICES ASSUME i = 1 PROVE FALSE
          OBVIOUS
        <5> QED BY <1>3, <1>14, <1>16, <1>17, <3>2
      <4>2. i \in Nat /\ i > 1 /\ i - 1 \in DOMAIN l.recent /\ a.recent[i] = l.recent[i - 1]
        BY <1>17, <4>1
      <4>3. j <= i - 1 /\ Matches(l.recent[i - 1], k.recent[j], same)
        BY <1>18, <3>2, <4>2
      <4>4. j \in Nat
        BY <1>14
      <4> QED BY <4>2, <4>3, <4>4
    <3>3. ASSUME NEW i \in DOMAIN a.recent, Eligible(a.recent[i])
          PROVE  \E j \in DOMAIN k.recent : a.recent[i].id = k.recent[j].id
      <4>1. i # 1
        BY <1>13, <1>17, <1>19, <2>2, <3>3
      <4>2. i - 1 \in DOMAIN l.recent /\ a.recent[i] = l.recent[i - 1]
        BY <1>17, <4>1
      <4> QED BY <1>18, <3>3, <4>2
    <3> QED BY <1>18, <3>1, <3>2, <3>3
  <2> QED BY <2>1, <2>2
<1>21. AddsUp(b)
  <2>1. l.next + 1 \in Nat
    BY <1>3
  <2> QED BY <1>12, <2>1, NewRoundAddsUp DEF AddsUp
<1>22. Alike(a.current, b.current, same)
  BY <1>8, <1>12 DEF Alike
<1>23. Follows(a, b, same)
  BY <1>2, <1>8, <1>12, <1>20, <1>21, <1>22 DEF Follows
<1> QED BY <1>9, <1>23 DEF a, b, reward, height, block

-----------------------------------------------------------------------------
(* The ledger after a rebuild.                                              *)

\* The first round a payment record lists is one.
LEMMA MinRoundType ==
    ASSUME NEW l, Sound(l)
    PROVE  RebuildMinRound(l.payments) \in Nat
<1> DEFINE listed == UNION {l.payments[k].rounds : k \in DOMAIN l.payments}
<1>1. listed \in SUBSET Nat
  <2>1. \A k \in DOMAIN l.payments : l.payments[k] \in Payment
    BY PaymentsOfLedger
  <2>2. \A k \in DOMAIN l.payments : l.payments[k].rounds \subseteq Nat
    BY <2>1 DEF Payment
  <2> QED BY <2>2
<1> HIDE DEF listed
<1>2. listed # {} => Min(listed) \in listed
  BY <1>1, Least DEF Min
<1> QED BY <1>1, <1>2 DEF RebuildMinRound, listed

\* What the tool makes follows the whole log, and its marks are consistent with the
\* payment records it makes them from.
LEMMA RestoredFollows ==
    ASSUME NEW l, Sound(l), NEW m \in Nat, NEW whole \in Ledger, NEW some \in Ledger,
           LeavesOut(whole, m, some), NEW new, Restores(l, some, new),
           AddsUp(whole), \A j \in DOMAIN whole.recent : SomeAmount(whole.recent[j]),
           \A k \in DOMAIN l.payments : \A id \in l.payments[k].rounds : id < whole.next,
           NEW same
    PROVE  Follows(new, whole, same) /\ AddsUp(new) /\ Consistent(new)
<1>1. /\ Numbered(whole)
      /\ some.next = whole.next /\ some.current = whole.current
      /\ \A i \in DOMAIN some.recent :
            i \in DOMAIN whole.recent /\ some.recent[i] = whole.recent[i]
  BY DEF LeavesOut
<1>2. /\ Sound(new) /\ new.next = whole.next /\ new.current = whole.current
      /\ new.payments = l.payments
      /\ \A i \in DOMAIN new.recent :
            i \in DOMAIN whole.recent /\ Remarked(l, whole.recent[i], new.recent[i])
  BY <1>1 DEF Restores
<1>3. /\ DOMAIN whole.recent = 1..Len(whole.recent) /\ Len(whole.recent) \in Nat
      /\ \A i \in DOMAIN whole.recent : whole.recent[i].id \in Nat
  BY LedgerParts
<1>4. /\ whole.current.id = whole.next
      /\ \A i \in DOMAIN whole.recent : whole.recent[i].id < whole.next
      /\ \A i, j \in DOMAIN whole.recent : i < j => whole.recent[i].id > whole.recent[j].id
  BY <1>1 DEF Numbered
<1>5. \A i \in DOMAIN new.recent :
        /\ new.recent[i].id = whole.recent[i].id /\ new.recent[i].block = whole.recent[i].block
        /\ new.recent[i].height = whole.recent[i].height
        /\ new.recent[i].entries = whole.recent[i].entries
        /\ new.recent[i].amount = whole.recent[i].amount
        /\ new.recent[i].settled = Explained(l, whole.recent[i])
        /\ new.recent[i] \in SolvedRound
  BY <1>2 DEF Remarked
<1>6. Numbered(new)
  BY <1>2, <1>4, <1>5 DEF Numbered
<1>7. \A i \in DOMAIN new.recent :
        new.recent[i].settled = Explained(new, new.recent[i])
  <2>1. \A i \in DOMAIN new.recent :
          Explained(new, new.recent[i]) = Explained(l, whole.recent[i])
    BY <1>2, <1>5 DEF Explained
  <2> QED BY <1>5, <2>1
<1>8. Recorded(new)
  BY <1>2, <1>7 DEF Recorded
<1>9. ASSUME NEW i \in DOMAIN new.recent PROVE Flagged(new.recent[i])
  <2> DEFINE r == new.recent[i]
             q == whole.recent[i]
             listed == \E k \in DOMAIN l.payments : q.id \in l.payments[k].rounds
  <2>1. r.paid <=> listed /\ FullyPaid(r)
    BY <1>2 DEF Remarked
  <2>2. r.settled = Explained(l, q)
    BY <1>5
  <2>3. Explained(l, q) # {} => listed
    BY DEF Explained
  <2> HIDE DEF r, q, listed
  <2>4. Flagged(r)
    BY <2>1, <2>2, <2>3 DEF Flagged
  <2> QED BY <2>4 DEF r
<1>10. Consistent(new)
  BY <1>6, <1>8, <1>9 DEF Consistent
<1>11. ASSUME NEW i \in DOMAIN new.recent, NEW j \in DOMAIN whole.recent,
              new.recent[i].id = whole.recent[j].id
       PROVE  j <= i /\ Matches(new.recent[i], whole.recent[j], same)
  <2>1. i \in 1..Len(whole.recent) /\ j \in 1..Len(whole.recent)
        /\ i \in DOMAIN whole.recent
    BY <1>2, <1>3
  <2>2. whole.recent[i].id = whole.recent[j].id
        /\ whole.recent[i].id \in Nat /\ whole.recent[j].id \in Nat
    BY <1>3, <1>5, <1>11, <2>1
  <2>3. ~(i < j) /\ ~(j < i)
    BY <1>4, <2>1, <2>2
  <2>4. i = j
    BY <1>3, <2>1, <2>3
  <2>5. \A w \in new.recent[i].entries :
          whole.recent[i].amount[w] - new.recent[i].amount[w] \in -1..1
    <3> SUFFICES ASSUME NEW w \in new.recent[i].entries
                 PROVE  whole.recent[i].amount[w] - new.recent[i].amount[w] \in -1..1
      OBVIOUS
    <3>1. new.recent[i].amount[w] \in Nat
      BY <1>5 DEF SolvedRound
    <3> QED BY <1>5, <3>1
  <2>6. SomeAmount(new.recent[i])
    BY <1>5, <2>1 DEF SomeAmount
  <2>7. Matches(new.recent[i], whole.recent[i], same)
    BY <1>5, <2>5, <2>6 DEF Matches
  <2> QED BY <2>1, <2>4, <2>7
<1>12. \A i \in DOMAIN new.recent : Eligible(new.recent[i]) =>
          \E j \in DOMAIN whole.recent : new.recent[i].id = whole.recent[j].id
  BY <1>2, <1>5
<1>13. Follows(new, whole, same)
  <2>1. Alike(new.current, whole.current, same)
    BY <1>2 DEF Alike
  <2> QED BY <1>1, <1>2, <1>11, <1>12, <2>1 DEF Follows
<1>14. AddsUp(new)
  BY <1>2 DEF AddsUp
<1> QED BY <1>10, <1>13, <1>14

-----------------------------------------------------------------------------
(* The events that wait, and what they will make of the replay.             *)

\* Process q[k] is the k-th oldest of n that wait to append, with its event x[k].
Order(events, n, q, x) ==
    /\ \A k \in 1..n : /\ q[k] \in Process /\ events[q[k]] = {x[k]}
                       /\ x[k].age \in Nat /\ x[k].line \in Line
    /\ \A j, k \in 1..n : j < k => x[j].age < x[k].age
    /\ \A p \in Process : events[p] # {} => \E k \in 1..n : p = q[k]

\* The replay h[0] of the lines goes on, in that order, with h[1], ..., h[n].
Chain(lines, n, x, h) ==
    /\ h[0] = ReplayLedger(lines, 0)
    /\ \A k \in 0..n : h[k] \in Ledger
    /\ \A k \in 1..n : h[k] = ReplayEvent(h[k - 1], x[k].line, 0)

\* The order in which two shares are counted makes no difference.
LEMMA SharesCommute ==
    ASSUME NEW l \in Ledger, NEW e \in Event, NEW o \in Event,
           e.difficulty > 0, e.height = 0, o.difficulty > 0, o.height = 0
    PROVE  ReplayEvent(ReplayEvent(l, e, 0), o, 0) = ReplayEvent(ReplayEvent(l, o, 0), e, 0)
<1> DEFINE w == e.worker
           a == e.difficulty
           v == o.worker
           b == o.difficulty
<1>1. w \in Worker /\ v \in Worker /\ a \in Nat /\ b \in Nat
  BY DEF Event
<1>2. \A k : ReplayEvent(k, e, 0) = ApplyShare(k, w, a) /\ ReplayEvent(k, o, 0) = ApplyShare(k, v, b)
  BY DEF ReplayEvent
<1> HIDE DEF w, a, v, b
<1>3. /\ l = [next |-> l.next, current |-> l.current, recent |-> l.recent,
              payments |-> l.payments]
      /\ l.current \in CurrentRound
      /\ l.current.work \in [Worker -> Nat] /\ l.current.shares \in [Worker -> Nat]
      /\ l.current.total \in Nat
  BY DEF Ledger, CurrentRound
<1> DEFINE c == l.current
           Twice(y, s, z, t) ==
             [next |-> l.next,
              current |-> [id |-> c.id,
                           work |-> [[c.work EXCEPT ![y] = @ + s] EXCEPT ![z] = @ + t],
                           shares |-> [[c.shares EXCEPT ![y] = @ + 1] EXCEPT ![z] = @ + 1],
                           total |-> (c.total + s) + t],
              recent |-> l.recent, payments |-> l.payments]
<1>4. ASSUME NEW y \in Worker, NEW s \in Nat, NEW z \in Worker, NEW t \in Nat
      PROVE  ApplyShare(ApplyShare(l, y, s), z, t) = Twice(y, s, z, t)
  <2> DEFINE k == ApplyShare(l, y, s)
             r == [id |-> c.id, work |-> [c.work EXCEPT ![y] = @ + s],
                   shares |-> [c.shares EXCEPT ![y] = @ + 1], total |-> c.total + s]
             r2 == [id |-> r.id, work |-> [r.work EXCEPT ![z] = @ + t],
                    shares |-> [r.shares EXCEPT ![z] = @ + 1], total |-> r.total + t]
             n == ApplyShare(k, z, t)
  <2>1. /\ k \in Ledger /\ k.next = l.next /\ k.current = r /\ k.recent = l.recent
        /\ k.payments = l.payments
    BY ApplyShareType
  <2> HIDE DEF k, r
  <2>2. /\ n \in Ledger /\ n.next = k.next /\ n.recent = k.recent /\ n.payments = k.payments
        /\ n.current = [id |-> k.current.id, work |-> [k.current.work EXCEPT ![z] = @ + t],
                        shares |-> [k.current.shares EXCEPT ![z] = @ + 1],
                        total |-> k.current.total + t]
    BY <2>1, ApplyShareType
  <2>3. n.current = r2
    BY <2>1, <2>2
  <2> HIDE DEF n, r2
  <2>4. n = [next |-> l.next, current |-> r2, recent |-> l.recent, payments |-> l.payments]
    BY <2>1, <2>2, <2>3 DEF Ledger
  <2> QED BY <2>4 DEF n, k, r, r2
<1>5. Twice(w, a, v, b) = Twice(v, b, w, a)
  <2>1. [[c.work EXCEPT ![w] = @ + a] EXCEPT ![v] = @ + b] =
        [[c.work EXCEPT ![v] = @ + b] EXCEPT ![w] = @ + a]
    BY <1>1, <1>3
  <2>2. [[c.shares EXCEPT ![w] = @ + 1] EXCEPT ![v] = @ + 1] =
        [[c.shares EXCEPT ![v] = @ + 1] EXCEPT ![w] = @ + 1]
    BY <1>1, <1>3
  <2>3. (c.total + a) + b = (c.total + b) + a
    BY <1>1, <1>3
  <2> QED BY <2>1, <2>2, <2>3
<1>6. ApplyShare(ApplyShare(l, w, a), v, b) = Twice(w, a, v, b)
      /\ ApplyShare(ApplyShare(l, v, b), w, a) = Twice(v, b, w, a)
  <2> HIDE DEF Twice
  <2> QED BY <1>1, <1>4
<1> HIDE DEF Twice
<1> QED BY <1>2, <1>5, <1>6

\* Event e is younger than n others.
Youngest(x, n, e) ==
    e.line \in Line /\ e.age \in Nat /\ \A k \in 1..n : x[k].age < e.age

\* The list y goes on where x ends.
Extends(y, x, n) == \A k \in 1..n : y[k] = x[k]

\* A new event is the youngest.
LEMMA YoungestAge ==
    ASSUME NEW n \in Nat, NEW q, NEW x, Order(event, n, q, x)
    PROVE  LET age == IF Ages = {} THEN 1 ELSE Max(Ages) + 1
           IN  age \in Nat /\ \A k \in 1..n : x[k].age < age
<1>1. /\ \A k \in 1..n : q[k] \in Process /\ event[q[k]] = {x[k]} /\ x[k].age \in Nat
      /\ \A j, k \in 1..n : j < k => x[j].age < x[k].age
      /\ \A p \in Process : event[p] # {} => \E k \in 1..n : p = q[k]
  BY DEF Order
<1>2. Ages = {x[k].age : k \in 1..n}
  <2>1. ASSUME NEW k \in 1..n PROVE x[k].age \in Ages
    <3>1. x[k] \in UNION {event[p] : p \in Process}
      BY <1>1
    <3> QED BY <3>1 DEF Ages
  <2>2. ASSUME NEW a \in Ages PROVE \E k \in 1..n : a = x[k].age
    <3>1. PICK p \in Process : \E e \in event[p] : a = e.age
      BY DEF Ages
    <3>2. PICK k \in 1..n : p = q[k]
      BY <1>1, <3>1
    <3>3. event[p] = {x[k]}
      BY <1>1, <3>2
    <3> QED BY <3>1, <3>3
  <2> QED BY <2>1, <2>2
<1>3. CASE n = 0
  <2>1. Ages = {}
    BY <1>2, <1>3
  <2> QED BY <1>3, <2>1
<1>4. CASE n # 0
  <2>1. n \in 1..n
    BY <1>4
  <2>2. x[n].age \in Ages /\ \A a \in Ages : x[n].age >= a
    <3> SUFFICES ASSUME NEW k \in 1..n PROVE x[n].age >= x[k].age
      BY <1>2, <2>1
    <3>1. k = n \/ k < n
      OBVIOUS
    <3>2. x[n].age \in Nat /\ x[k].age \in Nat
      BY <1>1, <2>1
    <3> QED BY <1>1, <2>1, <3>1, <3>2
  <2>3. Max(Ages) \in Ages /\ \A a \in Ages : Max(Ages) >= a
    BY <2>2 DEF Max
  <2>4. Max(Ages) \in Nat
    BY <1>1, <1>2, <2>3
  <2>5. \A k \in 1..n : x[k].age < Max(Ages) + 1
    <3> SUFFICES ASSUME NEW k \in 1..n PROVE x[k].age < Max(Ages) + 1
      OBVIOUS
    <3>1. x[k].age \in Ages /\ x[k].age \in Nat
      BY <1>1, <1>2
    <3> QED BY <2>3, <2>4, <3>1
  <2> QED BY <2>2, <2>4, <2>5
<1> QED BY <1>3, <1>4

\* It joins the others at the end.
LEMMA OrderAdd ==
    ASSUME NEW events, DOMAIN events = Process, NEW n \in Nat, NEW q, NEW x,
           Order(events, n, q, x), NEW s \in Process, events[s] = {},
           NEW e, Youngest(x, n, e)
    PROVE  \E r, y : /\ Order([events EXCEPT ![s] = {e}], n + 1, r, y)
                     /\ y[n + 1] = e /\ Extends(y, x, n)
<1> DEFINE new == [events EXCEPT ![s] = {e}]
           r == [k \in 1..(n + 1) |-> IF k = n + 1 THEN s ELSE q[k]]
           y == [k \in 1..(n + 1) |-> IF k = n + 1 THEN e ELSE x[k]]
<1>1. /\ \A k \in 1..n : /\ q[k] \in Process /\ events[q[k]] = {x[k]}
                         /\ x[k].age \in Nat /\ x[k].line \in Line
      /\ \A j, k \in 1..n : j < k => x[j].age < x[k].age
      /\ \A p \in Process : events[p] # {} => \E k \in 1..n : p = q[k]
  BY DEF Order
<1>2. /\ r[n + 1] = s /\ y[n + 1] = e /\ n + 1 \in 1..(n + 1)
      /\ \A k \in 1..n : r[k] = q[k] /\ y[k] = x[k] /\ k \in 1..(n + 1)
      /\ \A k \in 1..(n + 1) : k # n + 1 => k \in 1..n
  OBVIOUS
<1>3. new[s] = {e} /\ \A p \in Process : p # s => new[p] = events[p]
  OBVIOUS
<1> HIDE DEF new, r, y
<1>4. ASSUME NEW k \in 1..(n + 1)
      PROVE  r[k] \in Process /\ new[r[k]] = {y[k]} /\ y[k].age \in Nat /\ y[k].line \in Line
  <2>1. CASE k = n + 1
    BY <1>2, <1>3, <2>1 DEF Youngest
  <2>2. CASE k # n + 1
    <3>1. k \in 1..n /\ r[k] = q[k] /\ y[k] = x[k]
      BY <1>2, <2>2
    <3>2. q[k] # s
      BY <1>1, <3>1
    <3> QED BY <1>1, <1>3, <3>1, <3>2
  <2> QED BY <2>1, <2>2
<1>5. ASSUME NEW j \in 1..(n + 1), NEW k \in 1..(n + 1), j < k PROVE y[j].age < y[k].age
  <2>1. j \in 1..n /\ y[j] = x[j]
    BY <1>2, <1>5
  <2>2. CASE k = n + 1
    BY <1>2, <2>1, <2>2 DEF Youngest
  <2>3. CASE k # n + 1
    BY <1>1, <1>2, <1>5, <2>1, <2>3
  <2> QED BY <2>2, <2>3
<1>6. ASSUME NEW p \in Process, new[p] # {} PROVE \E k \in 1..(n + 1) : p = r[k]
  <2>1. CASE p = s
    BY <1>2, <2>1
  <2>2. CASE p # s
    <3>1. PICK k \in 1..n : p = q[k]
      BY <1>1, <1>3, <1>6, <2>2
    <3> QED BY <1>2, <3>1
  <2> QED BY <2>1, <2>2
<1>7. Order(new, n + 1, r, y)
  BY <1>4, <1>5, <1>6 DEF Order
<1> QED BY <1>2, <1>7 DEF new, Extends

LEMMA ChainAdd ==
    ASSUME NEW lines, NEW n \in Nat, NEW x, NEW h, Chain(lines, n, x, h),
           NEW y, Extends(y, x, n), y[n + 1].line \in Event
    PROVE  \E g : /\ Chain(lines, n + 1, y, g)
                  /\ g[n + 1] = ReplayEvent(h[n], y[n + 1].line, 0)
<1> DEFINE last == ReplayEvent(h[n], y[n + 1].line, 0)
           g == [k \in 0..(n + 1) |-> IF k = n + 1 THEN last ELSE h[k]]
<1>1. /\ h[0] = ReplayLedger(lines, 0) /\ \A k \in 0..n : h[k] \in Ledger
      /\ \A k \in 1..n : h[k] = ReplayEvent(h[k - 1], x[k].line, 0)
  BY DEF Chain
<1>2. last \in Ledger
  <2> DEFINE none == 0
             e == y[n + 1].line
  <2>1. h[n] \in Ledger /\ e \in Event
    BY <1>1
  <2> HIDE DEF none, e
  <2>2. ReplayEvent(h[n], e, none) \in Ledger
    BY <2>1, ReplayEventType
  <2> QED BY <2>2 DEF none, e
<1>3. last = ReplayEvent(h[n], y[n + 1].line, 0)
  OBVIOUS
<1> HIDE DEF last
<1>4. /\ g[n + 1] = last /\ \A k \in 0..n : g[k] = h[k]
      /\ \A k \in 1..(n + 1) : k - 1 \in 0..n /\ (k # n + 1 => k \in 1..n /\ k \in 0..n)
      /\ \A k \in 0..(n + 1) : k # n + 1 => k \in 0..n
      /\ 0 \in 0..n /\ (n + 1) - 1 = n /\ n \in 0..n
  OBVIOUS
<1> HIDE DEF g
<1>5. \A k \in 0..(n + 1) : g[k] \in Ledger
  BY <1>1, <1>2, <1>4
<1>6. ASSUME NEW k \in 1..(n + 1) PROVE g[k] = ReplayEvent(g[k - 1], y[k].line, 0)
  <2>1. CASE k = n + 1
    BY <1>3, <1>4, <2>1
  <2>2. CASE k # n + 1
    <3>1. k \in 1..n /\ g[k] = h[k] /\ g[k - 1] = h[k - 1] /\ y[k] = x[k]
      BY <1>4, <2>2 DEF Extends
    <3> QED BY <1>1, <3>1
  <2> QED BY <2>1, <2>2
<1>7. g[0] = ReplayLedger(lines, 0)
  BY <1>1, <1>4
<1>8. Chain(lines, n + 1, y, g)
  BY <1>5, <1>6, <1>7 DEF Chain
<1> QED BY <1>3, <1>4, <1>8

\* The list s without its i-th of n elements.
Without(s, i, n) == [k \in 1..(n - 1) |-> IF k < i THEN s[k] ELSE s[k + 1]]

LEMMA OrderRemove ==
    ASSUME NEW events, DOMAIN events = Process, NEW n \in Nat, NEW q, NEW x,
           Order(events, n, q, x), NEW i \in 1..n
    PROVE  Order([events EXCEPT ![q[i]] = {}], n - 1, Without(q, i, n), Without(x, i, n))
<1> DEFINE p == q[i]
           new == [events EXCEPT ![p] = {}]
           r == Without(q, i, n)
           y == Without(x, i, n)
           At(k) == IF k < i THEN k ELSE k + 1
<1>1. /\ \A k \in 1..n : /\ q[k] \in Process /\ events[q[k]] = {x[k]}
                         /\ x[k].age \in Nat /\ x[k].line \in Line
      /\ \A j, k \in 1..n : j < k => x[j].age < x[k].age
      /\ \A o \in Process : events[o] # {} => \E k \in 1..n : o = q[k]
  BY DEF Order
<1>2. \A k \in 1..(n - 1) : At(k) \in 1..n /\ At(k) # i /\ r[k] = q[At(k)] /\ y[k] = x[At(k)]
  BY DEF Without
<1>3. \A j, k \in 1..(n - 1) : j < k => At(j) < At(k)
  OBVIOUS
<1>4. \A k \in 1..n : k # i => \E j \in 1..(n - 1) : k = At(j)
  <2> SUFFICES ASSUME NEW k \in 1..n, k # i PROVE \E j \in 1..(n - 1) : k = At(j)
    OBVIOUS
  <2>1. CASE k < i
    <3>1. k \in 1..(n - 1) /\ k = At(k)
      BY <2>1
    <3> HIDE DEF At
    <3> QED BY <3>1
  <2>2. CASE ~(k < i)
    <3>1. k - 1 \in 1..(n - 1) /\ k = At(k - 1)
      BY <2>2
    <3> HIDE DEF At
    <3> QED BY <3>1
  <2> QED BY <2>1, <2>2
<1>5. p \in Process /\ new[p] = {} /\ \A o \in Process : o # p => new[o] = events[o]
  BY <1>1
<1> HIDE DEF r, y, At, new
<1>6. \A k \in 1..n : k # i => q[k] # p
  <2> SUFFICES ASSUME NEW k \in 1..n, k # i, q[k] = q[i] PROVE FALSE
    OBVIOUS
  <2>1. x[k] = x[i]
    <3>1. events[q[k]] = {x[k]} /\ events[q[i]] = {x[i]}
      BY <1>1
    <3> QED BY <3>1
  <2>2. x[k].age < x[i].age \/ x[i].age < x[k].age
    <3>1. k < i \/ i < k
      OBVIOUS
    <3> QED BY <1>1, <3>1
  <2>3. x[i].age \in Nat
    BY <1>1
  <2> QED BY <2>1, <2>2, <2>3
<1>7. ASSUME NEW k \in 1..(n - 1)
      PROVE  r[k] \in Process /\ new[r[k]] = {y[k]} /\ y[k].age \in Nat /\ y[k].line \in Line
  <2> DEFINE j == At(k)
  <2>1. j \in 1..n /\ j # i /\ r[k] = q[j] /\ y[k] = x[j]
    BY <1>2
  <2> HIDE DEF j, p
  <2>2. q[j] # p /\ q[j] \in Process /\ events[q[j]] = {x[j]}
        /\ x[j].age \in Nat /\ x[j].line \in Line
    BY <1>1, <1>6, <2>1
  <2> QED BY <1>5, <2>1, <2>2
<1>8. \A j, k \in 1..(n - 1) : j < k => y[j].age < y[k].age
  BY <1>1, <1>2, <1>3
<1>9. ASSUME NEW o \in Process, new[o] # {} PROVE \E k \in 1..(n - 1) : o = r[k]
  <2>1. o # p /\ events[o] # {}
    BY <1>5, <1>9
  <2>2. PICK k \in 1..n : o = q[k]
    BY <1>1, <2>1
  <2>3. k # i
    BY <2>1, <2>2
  <2>4. PICK j \in 1..(n - 1) : k = At(j)
    BY <1>4, <2>3
  <2> QED BY <1>2, <2>2, <2>4
<1>10. Order(new, n - 1, r, y)
  BY <1>7, <1>8, <1>9 DEF Order
<1> QED BY <1>10 DEF new, r, y

\* An event that is appended out of its turn leads to the same ledger, if it is a share
\* and so are all that are older.
LEMMA ChainRemove ==
    ASSUME NEW lines \in Seq(Line), NEW n \in Nat, NEW x, NEW h, Chain(lines, n, x, h),
           \A k \in 1..n : x[k].line \in Line, NEW i \in 1..n,
           \A k \in 1..n : k < i => x[k].line.block = 0 /\ x[i].line.block = 0
    PROVE  \E g : /\ Chain(Append(lines, x[i].line), n - 1, Without(x, i, n), g)
                  /\ g[n - 1] = h[n]
<1> DEFINE e == x[i].line
           more == Append(lines, e)
           y == Without(x, i, n)
           Early(k) == ReplayEvent(h[k], e, 0)
           g == [k \in 0..(n - 1) |-> IF k < i THEN Early(k) ELSE h[k + 1]]
<1>1. /\ h[0] = ReplayLedger(lines, 0) /\ \A k \in 0..n : h[k] \in Ledger
      /\ \A k \in 1..n : h[k] = ReplayEvent(h[k - 1], x[k].line, 0)
  BY DEF Chain
<1>2. e \in Line /\ e \in Event /\ lines \in Seq(Event)
      /\ \A k \in 1..n : x[k].line \in Event
  BY DEF Line
<1>3. \A k \in 0..n : Early(k) \in Ledger
  <2> DEFINE none == 0
  <2> HIDE DEF none, e
  <2>1. \A k \in 0..n : ReplayEvent(h[k], e, none) \in Ledger
    BY <1>1, <1>2, ReplayEventType
  <2> QED BY <2>1 DEF none
<1>4. ReplayLedger(more, 0) = Early(0)
  <2> DEFINE none == 0
  <2> HIDE DEF none, e
  <2>1. ReplayLedger(Append(lines, e), none) = ReplayEvent(ReplayLedger(lines, none), e, none)
    BY <1>2, ReplayAppend
  <2> QED BY <1>1, <2>1 DEF none
<1>5. Early(i - 1) = h[i]
  BY <1>1
<1>6. ASSUME NEW k \in 1..n, k < i PROVE Early(k) = ReplayEvent(Early(k - 1), x[k].line, 0)
  <2> DEFINE o == x[k].line
             l == h[k - 1]
  <2>1. /\ e.difficulty > 0 /\ e.height = 0 /\ o.difficulty > 0 /\ o.height = 0
        /\ o \in Event
    <3>1. e.block = 0 /\ o.block = 0 /\ o \in Line
      BY <1>6
    <3>2. \A d \in Line : d.block = 0 => d.difficulty > 0 /\ d.height = 0 /\ d \in Event
      BY DEF Line, Event
    <3> HIDE DEF e, o
    <3> QED BY <1>2, <3>1, <3>2
  <2>2. l \in Ledger /\ h[k] = ReplayEvent(l, o, 0)
    <3>1. k - 1 \in 0..n
      OBVIOUS
    <3> QED BY <1>1, <3>1
  <2> HIDE DEF e, o, l
  <2>3. ReplayEvent(ReplayEvent(l, o, 0), e, 0) = ReplayEvent(ReplayEvent(l, e, 0), o, 0)
    BY <1>2, <2>1, <2>2, SharesCommute
  <2> QED BY <2>2, <2>3 DEF o, l
<1> HIDE DEF Early, e
<1>7. /\ \A k \in 0..(n - 1) : g[k] = IF k < i THEN Early(k) ELSE h[k + 1]
      /\ \A k \in 1..(n - 1) : y[k] = IF k < i THEN x[k] ELSE x[k + 1]
  BY DEF Without
<1> HIDE DEF g, y, more
<1>8. ASSUME NEW k \in 0..(n - 1) PROVE g[k] \in Ledger
  <2>1. k \in 0..n /\ k + 1 \in 0..n
    OBVIOUS
  <2> QED BY <1>1, <1>3, <1>7, <2>1
<1>9. ASSUME NEW k \in 1..(n - 1) PROVE g[k] = ReplayEvent(g[k - 1], y[k].line, 0)
  <2>1. k \in 0..(n - 1) /\ k - 1 \in 0..(n - 1) /\ k \in 1..n /\ k + 1 \in 1..n
        /\ (k + 1) - 1 = k /\ (k - 1) + 1 = k
    OBVIOUS
  <2>2. CASE k < i
    <3>1. g[k] = Early(k) /\ g[k - 1] = Early(k - 1) /\ y[k] = x[k]
      BY <1>7, <2>1, <2>2
    <3> QED BY <1>6, <2>1, <2>2, <3>1
  <2>3. CASE k = i
    <3>1. g[k] = h[k + 1] /\ g[k - 1] = Early(k - 1) /\ y[k] = x[k + 1]
      BY <1>7, <2>1, <2>3
    <3>2. g[k - 1] = h[k]
      BY <1>5, <2>3, <3>1
    <3>3. h[k + 1] = ReplayEvent(h[(k + 1) - 1], x[k + 1].line, 0)
      BY <1>1, <2>1
    <3> QED BY <2>1, <3>1, <3>2, <3>3
  <2>4. CASE k > i
    <3>1. g[k] = h[k + 1] /\ g[k - 1] = h[(k - 1) + 1] /\ y[k] = x[k + 1]
      BY <1>7, <2>1, <2>4
    <3>2. h[k + 1] = ReplayEvent(h[(k + 1) - 1], x[k + 1].line, 0)
      BY <1>1, <2>1
    <3> QED BY <2>1, <3>1, <3>2
  <2> QED BY <2>2, <2>3, <2>4
<1>10. g[0] = ReplayLedger(more, 0)
  <2>1. 0 \in 0..(n - 1) /\ 0 < i
    OBVIOUS
  <2> QED BY <1>4, <1>7, <2>1
<1>11. g[n - 1] = h[n]
  <2>1. n - 1 \in 0..(n - 1) /\ (n - 1) + 1 = n
    OBVIOUS
  <2>2. CASE i = n
    BY <1>5, <1>7, <2>1, <2>2
  <2>3. CASE i # n
    BY <1>7, <2>1, <2>3
  <2> QED BY <2>2, <2>3
<1>12. Chain(more, n - 1, y, g)
  BY <1>8, <1>9, <1>10 DEF Chain
<1> QED BY <1>11, <1>12 DEF more, y, e

-----------------------------------------------------------------------------
(* While the history is faithful, the ledger follows its log.               *)

\* Ledger l follows the replay of the lines and then of the events that wait, by age.
Tracks(l, events, lines, same) ==
    \E n, q, x, h : /\ n \in Nat /\ Order(events, n, q, x) /\ Chain(lines, n, x, h)
                    /\ Follows(l, h[n], same)

LEMMA TracksAdd ==
    ASSUME LogOK, NEW l, NEW same, Tracks(l, event, log, same), NEW s \in Process, event[s] = {},
           NEW line \in Line, NEW new, NEW now,
           \A k \in Ledger :
              Follows(l, k, same) => Follows(new, ReplayEvent(k, line, 0), now)
    PROVE  LET age == IF Ages = {} THEN 1 ELSE Max(Ages) + 1
           IN  Tracks(new, [event EXCEPT ![s] = {[line |-> line, age |-> age]}], log, now)
<1> DEFINE age == IF Ages = {} THEN 1 ELSE Max(Ages) + 1
           e == [line |-> line, age |-> age]
           events == [event EXCEPT ![s] = {e}]
<1>1. PICK n, q, x, h : /\ n \in Nat /\ Order(event, n, q, x) /\ Chain(log, n, x, h)
                        /\ Follows(l, h[n], same)
  BY DEF Tracks
<1>2. age \in Nat /\ \A k \in 1..n : x[k].age < age
  BY <1>1, YoungestAge
<1> HIDE DEF age
<1>3. e.line = line /\ Youngest(x, n, e)
  BY <1>2 DEF Youngest
<1>4. DOMAIN event = Process
  BY DEF LogOK
<1> HIDE DEF e
<1>5. PICK r, y : /\ Order([event EXCEPT ![s] = {e}], n + 1, r, y)
                  /\ y[n + 1] = e /\ Extends(y, x, n)
  BY <1>1, <1>3, <1>4, OrderAdd
<1>6. y[n + 1].line \in Event
  BY <1>3, <1>5 DEF Line, Youngest
<1>7. PICK g : /\ Chain(log, n + 1, y, g)
               /\ g[n + 1] = ReplayEvent(h[n], y[n + 1].line, 0)
  BY <1>1, <1>5, <1>6, ChainAdd
<1>8. h[n] \in Ledger
  BY <1>1 DEF Chain
<1>9. Follows(new, g[n + 1], now)
  <2>1. g[n + 1] = ReplayEvent(h[n], line, 0)
    BY <1>3, <1>5, <1>7
  <2> QED BY <1>1, <1>8, <2>1
<1>10. n + 1 \in Nat
  BY <1>1
<1>11. Tracks(new, events, log, now)
  BY <1>5, <1>7, <1>9, <1>10 DEF Tracks
<1> QED BY <1>11 DEF e, age

\* Persisting in any order that keeps shares and blocks apart (persistShareUpdate).
LEMMA TracksAppend ==
    ASSUME LogOK, NEW l, NEW same, Tracks(l, event, log, same), NEW p \in Process,
           \A mine \in event[p], q \in Process : \A other \in event[q] :
              other.age < mine.age => mine.line.block = 0 /\ other.line.block = 0
    PROVE  Tracks(l, [event EXCEPT ![p] = {}], Appended(p), same)
<1>1. PICK n, q, x, h : /\ n \in Nat /\ Order(event, n, q, x) /\ Chain(log, n, x, h)
                        /\ Follows(l, h[n], same)
  BY DEF Tracks
<1>2. DOMAIN event = Process /\ log \in Seq(Line)
  BY DEF LogOK
<1>3. CASE event[p] = {}
  <2>1. \A o \in Process : [event EXCEPT ![p] = {}][o] = event[o]
    BY <1>2, <1>3
  <2>2. Order([event EXCEPT ![p] = {}], n, q, x)
    BY <1>1, <2>1 DEF Order
  <2>3. Appended(p) = log
    BY <1>3, AppendedType
  <2> QED BY <1>1, <2>2, <2>3 DEF Tracks
<1>4. CASE event[p] # {}
  <2>1. PICK i \in 1..n : p = q[i]
    BY <1>1, <1>4 DEF Order
  <2>2. \A k \in 1..n : /\ q[k] \in Process /\ x[k] \in event[q[k]] /\ x[k].line \in Line
                        /\ \A j \in 1..n : j < k => x[j].age < x[k].age
    BY <1>1 DEF Order
  <2>3. \A k \in 1..n : k < i => x[k].line.block = 0 /\ x[i].line.block = 0
    BY <2>1, <2>2
  <2>4. Order([event EXCEPT ![q[i]] = {}], n - 1, Without(q, i, n), Without(x, i, n))
    BY <1>1, <1>2, OrderRemove
  <2>5. PICK g : /\ Chain(Append(log, x[i].line), n - 1, Without(x, i, n), g)
                 /\ g[n - 1] = h[n]
    <3>1. \A k \in 1..n : x[k].line \in Line
      BY <2>2
    <3> QED BY <1>1, <1>2, <2>3, <3>1, ChainRemove
  <2>6. Appended(p) = Append(log, x[i].line)
    BY <2>1, <2>2, AppendedType
  <2>7. n - 1 \in Nat /\ Follows(l, g[n - 1], same)
    BY <1>1, <2>5
  <2> QED BY <2>1, <2>4, <2>5, <2>6, <2>7 DEF Tracks
<1> QED BY <1>3, <1>4

\* When no event waits, the ledger follows the log itself.
LEMMA TracksLog ==
    ASSUME NEW l, NEW events, \A p \in Process : events[p] = {}, NEW lines \in Seq(Event),
           NEW same
    PROVE  Tracks(l, events, lines, same) <=> Follows(l, ReplayLedger(lines, 0), same)
<1>1. ASSUME Tracks(l, events, lines, same) PROVE Follows(l, ReplayLedger(lines, 0), same)
  <2>1. PICK n, q, x, h : /\ n \in Nat /\ Order(events, n, q, x) /\ Chain(lines, n, x, h)
                          /\ Follows(l, h[n], same)
    BY <1>1 DEF Tracks
  <2>2. \A k \in 1..n : FALSE
    BY <2>1 DEF Order
  <2>3. n = 0
    BY <2>1, <2>2
  <2> QED BY <2>1, <2>3 DEF Chain
<1>2. ASSUME Follows(l, ReplayLedger(lines, 0), same) PROVE Tracks(l, events, lines, same)
  <2> DEFINE none == 0
             q == <<>>
             h == [k \in 0..0 |-> ReplayLedger(lines, 0)]
  <2>1. ReplayLedger(lines, 0) \in Ledger
    <3> HIDE DEF none
    <3>1. lines \in Seq(Event) => ReplayLedger(lines, none) \in Ledger
      <4> DEFINE f == ReplayOf(lines, none)
                 n == Len(lines)
      <4>1. ReplayLedger(lines, none) = f[n] /\ n \in Nat /\ \A k \in 0..n : f[k] \in Ledger
        BY ReplayProperties
      <4> HIDE DEF f, n
      <4> QED BY <4>1
    <3> QED BY <3>1 DEF none
  <2>2. Order(events, 0, q, q)
    BY DEF Order
  <2>3. h[0] = ReplayLedger(lines, 0)
    OBVIOUS
  <2> HIDE DEF h, q
  <2>4. Chain(lines, 0, q, h)
    BY <2>1, <2>3 DEF Chain
  <2>5. Follows(l, h[0], same)
    BY <1>2, <2>3
  <2> QED BY <2>2, <2>4, <2>5 DEF Tracks
<1> QED BY <1>1, <1>2

\* An event waits no longer than the snapshot of its process.
SnapshotsWait == \A p \in Process : event[p] # {} => unsaved[p] # {}

\* No copy of the ledger lists a payment of a round that is yet to end.
PaymentsPast ==
    \A l \in Copies : \A k \in DOMAIN l.payments :
        \A id \in l.payments[k].rounds : id < ledger.next

\* What holds as long as the history is faithful.
FaithfulInv ==
    faithful => /\ Consistent(ledger) /\ AddsUp(ledger) /\ PaymentsPast
                /\ Tracks(ledger, event, log, weighed)

\* The inductive invariant of the restoration.
RestoreInv == RebuildInv /\ SnapshotsWait /\ FaithfulInv

LEMMA RestoreInit == RebuildInit => RestoreInv
<1> SUFFICES ASSUME RebuildInit PROVE RestoreInv
  OBVIOUS
<1>1. RebuildInv
  BY RebuildInvInit
<1>2. /\ \A p \in Process : event[p] = {}
      /\ ledger = EmptyLedger /\ log = <<>> /\ \A l \in Copies : l = EmptyLedger
  BY DEF RebuildInit, Init, Copies
<1>3. SnapshotsWait
  BY <1>2 DEF SnapshotsWait
<1>4. Consistent(ledger) /\ AddsUp(ledger) /\ Follows(ledger, EmptyLedger, weighed)
  BY <1>2, EmptyLedgerKept, EmptyFollows DEF Kept
<1>5. PaymentsPast
  <2>1. DOMAIN EmptyLedger.payments = {}
    BY DEF EmptyLedger
  <2> QED BY <1>2, <2>1 DEF PaymentsPast
<1>6. Tracks(ledger, event, log, weighed)
  <2>1. log \in Seq(Event)
    BY <1>1 DEF RebuildInv, LogOK, Line
  <2>2. ReplayLedger(log, 0) = EmptyLedger
    <3> DEFINE none == 0
    <3> HIDE DEF none
    <3>1. ReplayLedger(log, none) = EmptyLedger
      BY <1>2, ReplayNothing
    <3> QED BY <3>1 DEF none
  <2> QED BY <1>2, <1>4, <2>1, <2>2, TracksLog
<1> QED BY <1>1, <1>3, <1>4, <1>5, <1>6 DEF RestoreInv, FaithfulInv

\* What steps do with the snapshots: a new one is that of the new ledger.
LEMMA SnapshotStep ==
    ASSUME TypeInv, [Next]_vars
    PROVE  /\ \A l \in Copies' : l \in Copies \/ l = ledger'
           /\ \/ \A p \in Process : unsaved'[p] = {} => unsaved[p] = {}
              \/ Restart
              \/ \E p \in Process : PersistStep(p)
<1>1. unsaved \in [Process -> SUBSET Ledger]
  BY DEF TypeInv, TypeOK
<1>2. ASSUME UNCHANGED memVars, disk' = disk
      PROVE  /\ \A l \in Copies' : l \in Copies
             /\ \A p \in Process : unsaved'[p] = {} => unsaved[p] = {}
  BY <1>2 DEF memVars, Copies
<1>3. ASSUME NEW p \in Process, NEW l, Update(p, l), disk' = disk
      PROVE  /\ \A k \in Copies' : k \in Copies \/ k = ledger'
             /\ \A q \in Process : unsaved'[q] = {} => unsaved[q] = {}
  <2>1. \A k \in Copies' : k \in Copies \/ k = l
    BY <1>1, <1>3, CopiesAfterUpdate
  <2>2. ledger' = l /\ unsaved' = [unsaved EXCEPT ![p] = {l}]
    BY <1>3 DEF Update
  <2>3. \A q \in Process : unsaved'[q] = {} => unsaved[q] = {}
    BY <1>1, <2>2
  <2> QED BY <2>1, <2>2, <2>3
<1>4. CASE UNCHANGED vars
  BY <1>2, <1>4 DEF vars, memVars
<1>5. ASSUME NEW s \in Session, SessionStep(s) PROVE disk' = disk /\ \E l : Update(s, l)
  BY <1>5 DEF SessionStep, RecordShare, RecordRejectedShare, RecordSolvedBlock
<1>6. ASSUME NEW c \in Caller, CallerStep(c)
      PROVE  disk' = disk /\ (UNCHANGED memVars \/ \E l : Update(c, l))
  BY <1>6 DEF CallerStep, BeginPayout, BalanceFails, NothingToSend, SelectBatch,
              WalletAccepts, WalletRejects, ReplyLost, ExecutePayoutBatch, NothingToMark
<1>7. ASSUME NEW o \in Operator, OperatorStep(o)
      PROVE  disk' = disk /\ (UNCHANGED memVars \/ \E l : Update(o, l))
  BY <1>7 DEF OperatorStep, OperatorPays, ExecutePayouts
<1>8. ASSUME NEW p \in Process, PersistStep(p) PROVE \A l \in Copies' : l \in Copies
  <2>1. /\ ledger' = ledger /\ unsaved' = [unsaved EXCEPT ![p] = {}]
        /\ disk' = disk \/ disk' \in unsaved[p]
    BY <1>8 DEF PersistStep, Persist, PersistFails, Saved
  <2>2. \A q \in Process : unsaved'[q] \subseteq unsaved[q]
    BY <1>1, <2>1
  <2> QED BY <2>1, <2>2 DEF Copies
<1>9. CASE Restart
  <2>1. ledger' = disk /\ disk' = disk /\ \A p \in Process : unsaved'[p] = {}
    BY <1>9 DEF Restart, LoadShareState
  <2> QED BY <1>9, <2>1 DEF Copies
<1> QED BY <1>2, <1>3, <1>4, <1>5, <1>6, <1>7, <1>8, <1>9 DEF Next, Process

\* What the pool has made of the ledger is past it when the ledger has not gone back.
LEMMA PastStep ==
    ASSUME TypeInv, [Next]_vars, PaymentsPast, ledger'.next \in Nat,
           ledger.next <= ledger'.next, Recorded(ledger')
    PROVE  PaymentsPast'
<1>1. ASSUME NEW l \in Copies', NEW k \in DOMAIN l.payments, NEW id \in l.payments[k].rounds
      PROVE  id < ledger'.next
  <2>1. CASE l \in Copies
    <3>1. id < ledger.next
      BY <2>1 DEF PaymentsPast
    <3>2. id \in Nat /\ ledger.next \in Nat
      <4>1. Sound(l) /\ Sound(ledger)
        BY <2>1 DEF TypeInv, Copies
      <4>2. l.payments[k] \in Payment
        BY <4>1, PaymentsOfLedger
      <4> QED BY <4>1, <4>2 DEF Payment, Sound, Ledger
    <3> QED BY <3>1, <3>2
  <2>2. CASE l = ledger'
    BY <2>2 DEF Recorded
  <2> QED BY <2>1, <2>2, SnapshotStep
<1> QED BY <1>1 DEF PaymentsPast

LEMMA SnapshotsWaitStep ==
    ASSUME RestoreInv, [RebuildNext]_rebuildVars
    PROVE  SnapshotsWait'
<1>1. TypeInv /\ LogOK /\ DOMAIN event = Process /\ unsaved \in [Process -> SUBSET Ledger]
      /\ \A p \in Process : event[p] # {} => unsaved[p] # {}
  BY DEF RestoreInv, RebuildInv, LogOK, SnapshotsWait, TypeInv, TypeOK
<1>2. ASSUME NEW s \in Process, NEW l, Update(s, l), NEW set,
             event' = [event EXCEPT ![s] = set]
      PROVE  SnapshotsWait'
  <2>1. unsaved' = [unsaved EXCEPT ![s] = {l}]
    BY <1>2 DEF Update
  <2> QED BY <1>1, <1>2, <2>1 DEF SnapshotsWait
<1>3. ASSUME NEW s \in Session, NEW w \in Worker, NEW work \in ShareWork,
             NEW difficulty \in WorkerDifficulty, ShareWithEvent(s, w, work, difficulty)
      PROVE  SnapshotsWait'
  BY <1>2, <1>3 DEF ShareWithEvent, RecordShare, Note, Process
<1>4. ASSUME NEW s \in Session, NEW w \in Worker, NEW height \in Height,
             NEW reward \in Reward, BlockWithEvent(s, w, height, reward)
      PROVE  SnapshotsWait'
  BY <1>2, <1>4 DEF BlockWithEvent, RecordSolvedBlock, Note, Process
<1>5. ASSUME NEW p \in Process, UNCHANGED memVars \/ \E l : Update(p, l), event' = event
      PROVE  SnapshotsWait'
  <2>1. \A q \in Process : unsaved'[q] = {} => unsaved[q] = {}
    BY <1>1, <1>5 DEF Update, memVars
  <2> QED BY <1>1, <1>5, <2>1 DEF SnapshotsWait
<1>6. ASSUME NEW c \in Caller, PayoutStep(c), UNCHANGED Replayable PROVE SnapshotsWait'
  <2>1. UNCHANGED memVars \/ \E l : Update(c, l)
    BY <1>6 DEF PayoutStep, BeginPayout, NothingToSend, SelectBatch, WalletAccepts,
                ExecutePayoutBatch, NothingToMark
  <2> QED BY <1>5, <1>6, <2>1 DEF Replayable, Process
<1>7. ASSUME NEW o \in Operator, OperatorStep(o), UNCHANGED Replayable PROVE SnapshotsWait'
  <2>1. UNCHANGED memVars \/ \E l : Update(o, l)
    BY <1>7 DEF OperatorStep, OperatorPays, ExecutePayouts
  <2> QED BY <1>5, <1>7, <2>1 DEF Replayable, Process
<1>8. ASSUME NEW p \in Process, PersistWithEvent(p) \/ PersistFailsWithEvent(p)
      PROVE  SnapshotsWait'
  <2>1. /\ event' = [event EXCEPT ![p] = {}] /\ unsaved' = [unsaved EXCEPT ![p] = {}]
    BY <1>8 DEF PersistWithEvent, PersistFailsWithEvent, Persist, PersistFails, Saved
  <2> QED BY <1>1, <2>1 DEF SnapshotsWait
<1>9. CASE RestartWithEvents
  <2>1. event' = [p \in Process |-> {}]
    BY <1>9 DEF RestartWithEvents
  <2> QED BY <2>1 DEF SnapshotsWait
<1>10. CASE UNCHANGED <<unsaved, event>>
  BY <1>10 DEF RestoreInv, SnapshotsWait
<1>11. Rebuild => UNCHANGED <<unsaved, event>>
  BY DEF Rebuild, Replayable
<1>12. UNCHANGED rebuildVars => UNCHANGED <<unsaved, event>>
  BY DEF rebuildVars, vars
<1> QED BY <1>3, <1>4, <1>6, <1>7, <1>8, <1>9, <1>10, <1>11, <1>12 DEF RebuildNext

\* No event waits exactly when there is no age of one.
LEMMA NoEvents == Ages = {} <=> \A p \in Process : event[p] = {}
  BY DEF Ages

\* What holds of the ledger after a step of the pool that has made ledger new of it.
LEMMA FaithfulMade ==
    ASSUME TypeInv, [Next]_vars, PaymentsPast, ledger.next <= ledger'.next,
           Consistent(ledger'), AddsUp(ledger'), Tracks(ledger', event', log', weighed')
    PROVE  FaithfulInv'
<1>1. ledger'.next \in Nat
  BY TypeStep DEF TypeInv, TypeOK, Ledger
<1>2. PaymentsPast'
  BY <1>1, PastStep DEF Consistent
<1> QED BY <1>2 DEF FaithfulInv, Consistent, Numbered, Recorded, Flagged, FullyPaid,
                    Explained, AddsUp, Tracks

\* The parts of the invariant that the steps use.
LEMMA RestoreParts ==
    ASSUME RestoreInv
    PROVE  /\ TypeInv /\ LogOK /\ Sound(ledger) /\ Sound(disk) /\ ledger \in Ledger
           /\ ledger.next \in Nat /\ log \in Seq(Event) /\ found \in Nat
           /\ \A p \in Process : unsaved[p] = {} => event[p] = {}
           /\ faithful => /\ Consistent(ledger) /\ AddsUp(ledger) /\ PaymentsPast
                          /\ Tracks(ledger, event, log, weighed) /\ Numbered(ledger)
<1>1. TypeInv /\ LogOK /\ SnapshotsWait /\ FaithfulInv
  BY DEF RestoreInv, RebuildInv
<1>2. Sound(ledger) /\ Sound(disk) /\ found \in Nat
  BY <1>1 DEF TypeInv, TypeOK, Copies
<1>3. log \in Seq(Event)
  BY <1>1 DEF LogOK, Line
<1> QED BY <1>1, <1>2, <1>3 DEF SnapshotsWait, FaithfulInv, Consistent, Sound, Ledger

\* A share (RecordShare).
LEMMA RestoreShare ==
    ASSUME RestoreInv, NEW s \in Session, NEW w \in Worker, NEW work \in ShareWork,
           NEW difficulty \in WorkerDifficulty, ShareWithEvent(s, w, work, difficulty)
    PROVE  FaithfulInv'
<1> SUFFICES ASSUME faithful' PROVE FaithfulInv'
  BY DEF FaithfulInv
<1> DEFINE line == [worker |-> w, difficulty |-> difficulty, block |-> 0, height |-> 0]
           new == ApplyShare(ledger, w, work)
<1>1. /\ faithful /\ unsaved[s] = {} /\ ledger' = new /\ log' = log /\ s \in Process
      /\ event' = [event EXCEPT ![s] =
            {[line |-> line, age |-> IF Ages = {} THEN 1 ELSE Max(Ages) + 1]}]
      /\ weighed' = (weighed /\ difficulty = work) /\ [Next]_vars
  BY DEF ShareWithEvent, RecordShare, Update, Note, Process, Next, SessionStep
<1>2. /\ TypeInv /\ LogOK /\ Sound(ledger) /\ ledger \in Ledger /\ ledger.next \in Nat
      /\ event[s] = {} /\ Consistent(ledger) /\ AddsUp(ledger) /\ PaymentsPast
      /\ Tracks(ledger, event, log, weighed)
  BY <1>1, RestoreParts
<1>3. line \in Line /\ line \in Event /\ line.difficulty > 0 /\ line.height = 0
      /\ line.worker = w /\ line.difficulty = difficulty /\ work \in Nat /\ work > 0
  BY AmountAssumption, WorkerDifficultyAssumption DEF Line, Event
<1> HIDE DEF line
<1>4. ASSUME NEW k \in Ledger, Follows(ledger, k, weighed)
      PROVE  Follows(new, ReplayEvent(k, line, 0), weighed') /\ AddsUp(new)
  <2>0. weighed' => weighed /\ work = line.difficulty
    BY <1>1, <1>3
  <2>1. /\ Follows(ApplyShare(ledger, line.worker, work), ReplayEvent(k, line, 0), weighed')
        /\ AddsUp(ledger) => AddsUp(ApplyShare(ledger, line.worker, work))
    BY <1>2, <1>3, <1>4, <2>0, FollowsShare
  <2> QED BY <1>2, <1>3, <2>1
<1>5. Consistent(new) /\ new.next = ledger.next
  BY <1>2, <1>3, ApplyShareConsistent, ApplyShareSound
<1> HIDE DEF new
<1>6. Tracks(new, event', log', weighed')
  BY <1>1, <1>2, <1>3, <1>4, TracksAdd
<1>7. AddsUp(new)
  <2>1. PICK n, q, x, h : n \in Nat /\ Chain(log, n, x, h) /\ Follows(ledger, h[n], weighed)
    BY <1>2 DEF Tracks
  <2>2. h[n] \in Ledger
    BY <2>1 DEF Chain
  <2> QED BY <1>4, <2>1, <2>2
<1>8. ledger.next <= ledger'.next /\ Consistent(ledger') /\ AddsUp(ledger')
      /\ Tracks(ledger', event', log', weighed')
  BY <1>1, <1>2, <1>5, <1>6, <1>7
<1> QED BY <1>1, <1>2, <1>8, FaithfulMade

\* A block whose reward is that of its height (RecordSolvedBlock).
LEMMA RestoreBlock ==
    ASSUME RestoreInv, NEW s \in Session, NEW w \in Worker, NEW height \in Height,
           NEW reward \in Reward, BlockWithEvent(s, w, height, reward)
    PROVE  FaithfulInv'
<1> SUFFICES ASSUME faithful' PROVE FaithfulInv'
  BY DEF FaithfulInv
<1> DEFINE block == found + 1
           line == [worker |-> w, difficulty |-> 0, block |-> block, height |-> height]
           new == CloseRound(ledger, block, height, reward)
<1>1. /\ faithful /\ unsaved[s] = {} /\ ledger' = new /\ log' = log /\ s \in Process
      /\ height > 0 /\ reward = MinerRewardAtHeight(height) /\ weighed' = weighed
      /\ event' = [event EXCEPT ![s] =
            {[line |-> line, age |-> IF Ages = {} THEN 1 ELSE Max(Ages) + 1]}]
      /\ [Next]_vars
  BY DEF BlockWithEvent, RecordSolvedBlock, Update, Note, Process, Next, SessionStep
<1>2. /\ TypeInv /\ LogOK /\ Sound(ledger) /\ ledger \in Ledger /\ ledger.next \in Nat
      /\ event[s] = {} /\ Consistent(ledger) /\ AddsUp(ledger) /\ PaymentsPast
      /\ Tracks(ledger, event, log, weighed) /\ Numbered(ledger) /\ found \in Nat
  BY <1>1, RestoreParts
<1>3. block \in Nat /\ block > 0 /\ height \in Nat /\ reward \in Nat
  BY <1>2, AmountAssumption
<1> HIDE DEF block
<1>4. line \in Line /\ line \in Event /\ line.difficulty = 0 /\ line.height > 0
      /\ line.block = block /\ line.height = height
  BY <1>1, <1>3 DEF Line, Event
<1> HIDE DEF line
<1>5. ASSUME NEW k \in Ledger, Follows(ledger, k, weighed)
      PROVE  Follows(new, ReplayEvent(k, line, 0), weighed') /\ AddsUp(new)
  <2>1. LET made == CloseRound(ledger, line.block, line.height, MinerRewardAtHeight(line.height))
        IN  Follows(made, ReplayEvent(k, line, 0), weighed) /\ AddsUp(made)
    BY <1>2, <1>4, <1>5, FollowsBlock
  <2> QED BY <1>1, <1>4, <2>1
<1>6. Consistent(new) /\ new.next = ledger.next + 1
  <2>1. Consistent(CloseRound(ledger, block, height, reward))
    BY <1>2, <1>3, CloseRoundConsistent
  <2>2. CloseRound(ledger, block, height, reward).next = ledger.next + 1
    BY <1>2, <1>3, CloseRoundSound
  <2> QED BY <2>1, <2>2
<1> HIDE DEF new
<1>7. Tracks(new, event', log', weighed')
  BY <1>1, <1>2, <1>4, <1>5, TracksAdd
<1>8. AddsUp(new)
  <2>1. PICK n, q, x, h : n \in Nat /\ Chain(log, n, x, h) /\ Follows(ledger, h[n], weighed)
    BY <1>2 DEF Tracks
  <2>2. h[n] \in Ledger
    BY <2>1 DEF Chain
  <2> QED BY <1>5, <2>1, <2>2
<1>9. ledger.next <= ledger'.next /\ Consistent(ledger') /\ AddsUp(ledger')
      /\ Tracks(ledger', event', log', weighed')
  BY <1>1, <1>2, <1>6, <1>7, <1>8
<1> QED BY <1>1, <1>2, <1>9, FaithfulMade

\* A payment, or a step that leaves ledger and events alone (TryAutoPayout, ExecutePayouts).
LEMMA RestorePayment ==
    ASSUME RestoreInv, [Next]_vars, UNCHANGED Replayable,
           ledger' = ledger \/ \E to \in SUBSET Address : ledger' = MarkPaid(ledger, to)
    PROVE  FaithfulInv'
<1> SUFFICES ASSUME faithful' PROVE FaithfulInv'
  BY DEF FaithfulInv
<1>1. faithful /\ event' = event /\ log' = log /\ weighed' = weighed
  BY DEF Replayable
<1>2. /\ TypeInv /\ Sound(ledger) /\ ledger.next \in Nat
      /\ Consistent(ledger) /\ AddsUp(ledger) /\ PaymentsPast /\ Tracks(ledger, event, log, weighed)
  BY <1>1, RestoreParts
<1>3. CASE ledger' = ledger
  <2>1. ledger.next <= ledger'.next /\ Consistent(ledger') /\ AddsUp(ledger')
        /\ Tracks(ledger', event', log', weighed')
    BY <1>1, <1>2, <1>3
  <2> QED BY <1>2, <2>1, FaithfulMade
<1>4. ASSUME NEW to \in SUBSET Address, ledger' = MarkPaid(ledger, to) PROVE FaithfulInv'
  <2> DEFINE new == MarkPaid(ledger, to)
  <2>1. Consistent(new) /\ new.next = ledger.next
    BY <1>2, MarkPaidConsistent, MarkPaidSound
  <2>2. PICK n, q, x, h : /\ n \in Nat /\ Order(event, n, q, x) /\ Chain(log, n, x, h)
                          /\ Follows(ledger, h[n], weighed)
    BY <1>2 DEF Tracks
  <2>3. h[n] \in Ledger
    BY <2>2 DEF Chain
  <2>4. Follows(new, h[n], weighed) /\ AddsUp(new)
    BY <1>2, <2>2, <2>3, FollowsMark
  <2> HIDE DEF new
  <2>5. Tracks(new, event, log, weighed')
    BY <1>1, <2>2, <2>4 DEF Tracks
  <2>6. ledger' = new
    BY <1>4 DEF new
  <2>7. ledger.next <= ledger'.next /\ Consistent(ledger') /\ AddsUp(ledger')
        /\ Tracks(ledger', event', log', weighed')
    BY <1>1, <1>2, <2>1, <2>4, <2>5, <2>6
  <2> QED BY <1>2, <2>7, FaithfulMade
<1> QED BY <1>3, <1>4

\* A write (persistShareUpdate).
LEMMA RestorePersist ==
    ASSUME RestoreInv, NEW p \in Process, PersistWithEvent(p)
    PROVE  FaithfulInv'
<1> SUFFICES ASSUME faithful' PROVE FaithfulInv'
  BY DEF FaithfulInv
<1>1. /\ faithful /\ ledger' = ledger /\ log' = Appended(p) /\ weighed' = weighed
      /\ event' = [event EXCEPT ![p] = {}]
      /\ \A mine \in event[p], q \in Process : \A other \in event[q] :
            other.age < mine.age => mine.line.block = 0 /\ other.line.block = 0
      /\ [Next]_vars
  BY DEF PersistWithEvent, Persist, Next, PersistStep
<1>2. /\ TypeInv /\ LogOK /\ ledger.next \in Nat
      /\ Consistent(ledger) /\ AddsUp(ledger) /\ PaymentsPast /\ Tracks(ledger, event, log, weighed)
  BY <1>1, RestoreParts
<1>3. Tracks(ledger, [event EXCEPT ![p] = {}], Appended(p), weighed)
  BY <1>1, <1>2, TracksAppend
<1>4. ledger.next <= ledger'.next /\ Consistent(ledger') /\ AddsUp(ledger')
      /\ Tracks(ledger', event', log', weighed')
  BY <1>1, <1>2, <1>3
<1> QED BY <1>1, <1>2, <1>4, FaithfulMade

\* A restart with nothing to lose (New, loadShareState).
LEMMA RestoreRestart ==
    ASSUME RestoreInv, RestartWithEvents
    PROVE  FaithfulInv'
<1> SUFFICES ASSUME faithful' PROVE FaithfulInv'
  BY DEF FaithfulInv
<1>1. /\ faithful /\ disk = ledger /\ Ages = {} /\ ledger' = disk
      /\ log' \in {log} \cup {Appended(p) : p \in Process}
      /\ event' = [p \in Process |-> {}] /\ weighed' = weighed /\ [Next]_vars
  BY DEF RestartWithEvents, Restart, LoadShareState, Next
<1>2. /\ TypeInv /\ LogOK /\ ledger.next \in Nat /\ log \in Seq(Event)
      /\ Consistent(ledger) /\ AddsUp(ledger) /\ PaymentsPast /\ Tracks(ledger, event, log, weighed)
  BY <1>1, RestoreParts
<1>3. \A p \in Process : event[p] = {}
  BY <1>1, NoEvents
<1>4. log' = log
  BY <1>1, <1>2, <1>3, AppendedType
<1>5. \A p \in Process : event'[p] = {}
  BY <1>1
<1>6. Tracks(ledger, event', log, weighed)
  BY <1>2, <1>3, <1>5, TracksLog
<1>7. ledger.next <= ledger'.next /\ Consistent(ledger') /\ AddsUp(ledger')
      /\ Tracks(ledger', event', log', weighed')
  BY <1>1, <1>2, <1>4, <1>6
<1> QED BY <1>1, <1>2, <1>7, FaithfulMade

\* When no event waits, what the tool makes of the files follows the log too.
LEMMA RebuiltFollows ==
    ASSUME RestoreInv, faithful, \A p \in Process : event[p] = {}
    PROVE  LET whole == ReplayLedger(log, 0)
               m == RebuildMinRound(disk.payments)
               some == ReplayLedger(log, m)
               new == Rebuilt(log, disk)
           IN  /\ whole \in Ledger /\ m \in Nat
               /\ LeavesOut(whole, m, some) /\ Restores(disk, some, new)
               /\ Follows(ledger, whole, weighed)
               /\ \A same : Follows(new, whole, same)
               /\ AddsUp(new) /\ Consistent(new)
<1> DEFINE none == 0
           whole == ReplayLedger(log, none)
           m == RebuildMinRound(disk.payments)
           some == ReplayLedger(log, m)
           new == Rebuilt(log, disk)
<1>1. log \in Seq(Event) /\ Sound(disk) /\ PaymentsPast /\ Tracks(ledger, event, log, weighed)
  BY RestoreParts
<1>2. m \in Nat
  BY <1>1, MinRoundType
<1>3. some \in Ledger /\ Restores(disk, some, new)
  BY <1>1, RebuiltRestores
<1>4. Follows(ledger, whole, weighed)
  BY <1>1, TracksLog
<1>5. whole \in Ledger
  <2> DEFINE f == ReplayOf(log, none)
             n == Len(log)
  <2> HIDE DEF none
  <2>1. whole = f[n] /\ n \in Nat /\ \A k \in 0..n : f[k] \in Ledger
    BY <1>1, ReplayProperties
  <2> HIDE DEF f, n, whole
  <2> QED BY <2>1
<1> HIDE DEF m
<1>6. LeavesOut(whole, m, some)
  BY <1>1, <1>2, ReplayLeavesOut
<1> HIDE DEF none, whole, some, new
<1>7. ledger.next = whole.next /\ AddsUp(whole) /\ \A j \in DOMAIN whole.recent : SomeAmount(whole.recent[j])
  BY <1>4 DEF Follows
<1>8. \A k \in DOMAIN disk.payments : \A id \in disk.payments[k].rounds : id < whole.next
  BY <1>1, <1>7 DEF PaymentsPast, Copies
<1>9. (\A same : Follows(new, whole, same)) /\ AddsUp(new) /\ Consistent(new)
  BY <1>1, <1>2, <1>3, <1>5, <1>6, <1>7, <1>8, RestoredFollows
<1> QED BY <1>2, <1>3, <1>4, <1>5, <1>6, <1>9 DEF none, whole, some, new, m

\* The tool (cmd/pacpool-rebuild).
LEMMA RestoreRebuild ==
    ASSUME RestoreInv, Rebuild
    PROVE  FaithfulInv'
<1> SUFFICES ASSUME faithful' PROVE FaithfulInv'
  BY DEF FaithfulInv
<1> DEFINE none == 0
           whole == ReplayLedger(log, none)
           new == Rebuilt(log, disk)
<1>1. /\ faithful /\ log' = log /\ event' = event /\ \A p \in Process : unsaved[p] = {}
      /\ unsaved' = unsaved /\ disk' = new /\ ledger' = new
  BY DEF Rebuild, Replayable
<1>2. /\ \A p \in Process : event[p] = {}
      /\ log \in Seq(Event)
  BY <1>1, RestoreParts
<1>3. /\ whole \in Ledger /\ Follows(new, whole, weighed') /\ AddsUp(new) /\ Consistent(new)
  BY <1>1, <1>2, RebuiltFollows
<1>4. Tracks(new, event, log, weighed')
  BY <1>2, <1>3, TracksLog
<1> HIDE DEF whole, new
<1>6. \A l \in Copies' : l = ledger'
  BY <1>1 DEF Copies
<1>7. PaymentsPast'
  <2>1. \A k \in DOMAIN new.payments : \A id \in new.payments[k].rounds : id < new.next
    BY <1>3 DEF Consistent, Recorded
  <2> QED BY <1>1, <1>6, <2>1 DEF PaymentsPast
<1>8. Consistent(ledger') /\ AddsUp(ledger') /\ Tracks(ledger', event', log', weighed')
  BY <1>1, <1>3, <1>4
<1> QED BY <1>7, <1>8 DEF FaithfulInv, Consistent, Numbered, Recorded, Flagged, FullyPaid,
                          Explained, AddsUp, Tracks

\* The invariant is inductive.
LEMMA RestoreStep ==
    ASSUME RestoreInv, [RebuildNext]_rebuildVars
    PROVE  RestoreInv'
<1>1. RebuildInv' /\ SnapshotsWait'
  BY RebuildTypeStep, LogStep, SnapshotsWaitStep DEF RestoreInv, RebuildInv
<1>2. ASSUME UNCHANGED rebuildVars PROVE FaithfulInv'
  <2>1. UNCHANGED vars /\ UNCHANGED Replayable /\ ledger' = ledger
    BY <1>2 DEF rebuildVars, vars, Replayable
  <2> QED BY <2>1, RestorePayment
<1>3. ASSUME NEW s \in Session, NEW w \in Worker, NEW work \in ShareWork,
             NEW difficulty \in WorkerDifficulty, ShareWithEvent(s, w, work, difficulty)
      PROVE  FaithfulInv'
  BY <1>3, RestoreShare
<1>4. ASSUME NEW s \in Session, NEW w \in Worker, NEW height \in Height,
             NEW reward \in Reward, BlockWithEvent(s, w, height, reward)
      PROVE  FaithfulInv'
  BY <1>4, RestoreBlock
<1>5. ASSUME NEW c \in Caller, PayoutStep(c), UNCHANGED Replayable PROVE FaithfulInv'
  <2>1. Next
    BY <1>5 DEF PayoutStep, Next, CallerStep
  <2>2. run[c].to \in SUBSET Address
    BY RestoreParts DEF TypeInv, TypeOK
  <2>3. ledger' = ledger \/ \E to \in SUBSET Address : ledger' = MarkPaid(ledger, to)
    <3>1. CASE ExecutePayoutBatch(c)
      BY <2>2, <3>1 DEF ExecutePayoutBatch, Update
    <3>2. CASE ~ExecutePayoutBatch(c)
      BY <1>5, <3>2 DEF PayoutStep, BeginPayout, NothingToSend, SelectBatch, WalletAccepts,
                        NothingToMark, memVars
    <3> QED BY <3>1, <3>2
  <2> QED BY <1>5, <2>1, <2>3, RestorePayment
<1>6. ASSUME NEW o \in Operator, OperatorStep(o), UNCHANGED Replayable PROVE FaithfulInv'
  <2>1. Next
    BY <1>6 DEF Next
  <2>2. Payees(ledger) \in SUBSET Address
    BY PayeesType
  <2>3. ledger' = ledger \/ \E to \in SUBSET Address : ledger' = MarkPaid(ledger, to)
    BY <1>6, <2>2 DEF OperatorStep, OperatorPays, ExecutePayouts, Update, memVars
  <2> QED BY <1>6, <2>1, <2>3, RestorePayment
<1>7. ASSUME NEW p \in Process, PersistWithEvent(p) \/ PersistFailsWithEvent(p)
      PROVE  FaithfulInv'
  BY <1>7, RestorePersist DEF PersistFailsWithEvent, FaithfulInv
<1>8. RestartWithEvents => FaithfulInv'
  BY RestoreRestart
<1>9. Rebuild => FaithfulInv'
  BY RestoreRebuild
<1>10. FaithfulInv'
  BY <1>2, <1>3, <1>4, <1>5, <1>6, <1>7, <1>8, <1>9 DEF RebuildNext
<1> QED BY <1>1, <1>10 DEF RestoreInv

LEMMA RestoreInvariant == RebuildSpec => []RestoreInv
<1>1. RebuildInit => RestoreInv
  BY RestoreInit
<1>2. RestoreInv /\ [RebuildNext]_rebuildVars => RestoreInv'
  BY RestoreStep
<1> QED BY <1>1, <1>2, PTL DEF RebuildSpec

-----------------------------------------------------------------------------
(* The theorems.                                                            *)

\* A retained round of the ledger that can be paid is made again, by the tool.
LEMMA RoundMadeAgain ==
    ASSUME NEW l, Sound(l), NEW whole \in Ledger, NEW same, Follows(l, whole, same), NEW m \in Nat,
           NEW some \in Ledger, LeavesOut(whole, m, some), NEW new, Restores(l, some, new),
           NEW i \in DOMAIN l.recent, Eligible(l.recent[i]), l.recent[i].id >= m
    PROVE  \E j \in DOMAIN new.recent :
              /\ j \in DOMAIN whole.recent /\ Matches(l.recent[i], whole.recent[j], same)
              /\ Remarked(l, whole.recent[j], new.recent[j])
              /\ whole.recent[j].id = l.recent[i].id
<1>1. PICK j \in DOMAIN whole.recent : l.recent[i].id = whole.recent[j].id
  BY DEF Follows
<1>2. j <= i /\ Matches(l.recent[i], whole.recent[j], same)
  BY <1>1 DEF Follows
<1>3. j \in DOMAIN some.recent /\ some.recent[j] = whole.recent[j]
  BY <1>1 DEF LeavesOut
<1>4. i \in 1..Len(l.recent) /\ Len(l.recent) \in Nat /\ Len(l.recent) <= MaxRecentRounds
  BY RoundsOfLedger DEF Sound, WithinLimits
<1>5. j \in 1..Len(some.recent) /\ Len(some.recent) \in Nat
  BY <1>3, LedgerParts
<1>6. /\ Len(new.recent) = IF Len(some.recent) < MaxRecentRounds
                           THEN Len(some.recent) ELSE MaxRecentRounds
      /\ Sound(new) /\ \A k \in DOMAIN new.recent : Remarked(l, some.recent[k], new.recent[k])
  BY DEF Restores
<1>7. DOMAIN new.recent = 1..Len(new.recent)
  BY <1>6, RoundsOfLedger
<1>8. j \in DOMAIN new.recent
  BY <1>2, <1>4, <1>5, <1>6, <1>7, OptionAssumption
<1> QED BY <1>1, <1>2, <1>3, <1>6, <1>8

\* From files that agree, pacpool-rebuild makes the pool's rounds again: its numbers, the
\* workers and shares of its current round, and every retained round that can be paid,
\* with its workers and the total it had; where the events weigh the shares as the pool
\* did, the same current round and amounts that differ by an atom at most
\* (RebuildRestoresRounds: replayLedger, finalizeRound, applyRetainedPayments).
THEOREM RoundsAreRestored == RebuildSpec => []RebuildRestoresRounds
<1>1. ASSUME RestoreInv, Rebuildable PROVE RebuildRestoresRounds
  <2> DEFINE none == 0
             whole == ReplayLedger(log, none)
             m == RebuildMinRound(disk.payments)
             some == ReplayLedger(log, m)
             l == Rebuilt(log, disk)
             Total(r) == SumFunctionOnSet(r.amount, r.entries)
  <2>1. /\ faithful /\ disk = ledger /\ \A p \in Process : event[p] = {}
        /\ log \in Seq(Event) /\ Sound(ledger) /\ Sound(disk)
    BY <1>1, RestoreParts, NoEvents DEF Rebuildable
  <2>2. /\ whole \in Ledger /\ m \in Nat
        /\ LeavesOut(whole, m, some) /\ Restores(disk, some, l)
        /\ Follows(ledger, whole, weighed) /\ Follows(l, whole, TRUE)
    BY <1>1, <2>1, RebuiltFollows
  <2>3. some \in Ledger
    BY <2>1, RebuiltRestores
  <2> HIDE DEF whole, some, l
  <2>4. /\ l.next = ledger.next /\ l.current.id = ledger.current.id
        /\ l.current.shares = ledger.current.shares
        /\ Contributors(l.current.work) = Contributors(ledger.current.work)
        /\ weighed => l.current = ledger.current
    BY <2>2 DEF Follows, Alike
  <2>5. ASSUME NEW r \in Retained(ledger), Eligible(r)
        PROVE  \E i \in DOMAIN l.recent :
                  LET rebuilt == l.recent[i]
                  IN  /\ rebuilt.id = r.id /\ rebuilt.block = r.block
                      /\ rebuilt.entries = r.entries /\ Total(rebuilt) = Total(r)
                      /\ weighed => \A w \in r.entries :
                            rebuilt.amount[w] - r.amount[w] \in -1..1
    <3>1. PICK i \in DOMAIN ledger.recent : r = ledger.recent[i] /\ r.id >= m
      BY <2>1 DEF Retained
    <3> HIDE DEF m
    <3>2. PICK j \in DOMAIN l.recent :
              /\ Matches(r, whole.recent[j], weighed) /\ Remarked(ledger, whole.recent[j], l.recent[j])
              /\ whole.recent[j].id = r.id
      BY <2>1, <2>2, <2>3, <2>5, <3>1, RoundMadeAgain
    <3> QED BY <3>2 DEF Matches, Remarked
  <2> QED BY <2>4, <2>5 DEF RebuildRestoresRounds, l
<1>2. RestoreInv => RebuildRestoresRounds
  BY <1>1 DEF RebuildRestoresRounds
<1> QED BY <1>2, RestoreInvariant, PTL

\* The marks of a round the tool has made again are those of round r, of which it is the
\* same: what the payment records say fixes them.
LEMMA MarksMadeAgain ==
    ASSUME NEW l, Recorded(l), Len(l.payments) < MaxPayments,
           NEW k \in DOMAIN l.recent, l.recent[k] \in SolvedRound, Flagged(l.recent[k]),
           SomeAmount(l.recent[k]), NEW q, q.id = l.recent[k].id, q.height = l.recent[k].height,
           q.entries = l.recent[k].entries, NEW new, Remarked(l, q, new)
    PROVE  LET r == l.recent[k]
           IN  /\ new.settled = r.settled
               /\ (\A w \in r.entries : r.amount[w] > 0 <=> new.amount[w] > 0)
                     => new.paid = r.paid
               /\ \A w \in Unpaid(new) : r.amount[w] > 0 => w \in Unpaid(r)
<1> DEFINE r == l.recent[k]
           listed == \E x \in DOMAIN l.payments : q.id \in l.payments[x].rounds
<1>1. r.settled = Explained(l, r)
  BY DEF Recorded
<1> HIDE DEF r
<1>2. /\ q.height = r.height /\ q.entries = r.entries /\ SomeAmount(r) /\ q.id = r.id
      /\ r \in SolvedRound /\ Flagged(r)
  BY DEF r
<1>3. /\ new.height = r.height /\ new.entries = r.entries /\ new.settled = Explained(l, q)
      /\ new.paid <=> listed /\ FullyPaid(new)
      /\ new.paid \in BOOLEAN
  BY <1>2 DEF Remarked, SolvedRound
<1>4. Explained(l, q) = Explained(l, r)
  BY <1>2 DEF Explained
<1>5. new.settled = r.settled
  BY <1>1, <1>3, <1>4
<1>6. r.settled # {} => listed
  BY <1>1, <1>2 DEF Explained
<1> HIDE DEF listed
<1>7. FullyPaid(r) => r.settled # {}
  BY <1>2 DEF FullyPaid, SomeAmount
<1>8. ASSUME \A w \in r.entries : r.amount[w] > 0 <=> new.amount[w] > 0
      PROVE  new.paid = r.paid
  <2>1. FullyPaid(new) <=> FullyPaid(r)
    BY <1>3, <1>5, <1>8 DEF FullyPaid
  <2>2. r.paid <=> FullyPaid(r)
    BY <1>2, <1>7 DEF Flagged
  <2>3. new.paid <=> FullyPaid(r)
    BY <1>3, <1>6, <1>7, <2>1
  <2>4. r.paid \in BOOLEAN
    BY <1>2 DEF SolvedRound
  <2> QED BY <1>3, <2>2, <2>3, <2>4
<1>9. ASSUME NEW w \in Unpaid(new), r.amount[w] > 0 PROVE w \in Unpaid(r)
  <2>1. w \in r.entries \ r.settled /\ Eligible(r) /\ PayTo[w] # NoAddress
    BY <1>3, <1>5 DEF Unpaid, Eligible
  <2>2. ~r.paid
    BY <1>2, <1>9, <2>1 DEF Flagged, FullyPaid
  <2> QED BY <2>1, <2>2 DEF Unpaid
<1> QED BY <1>5, <1>8, <1>9 DEF r

\* From files that agree, pacpool-rebuild restores the marks of every round it makes
\* again, and no payout that amounted to something becomes payable by it
\* (RebuildRestoresMarks: applyRetainedPayments, roundFullyPaid).
THEOREM MarksAreRestored == RebuildSpec => []RebuildRestoresMarks
<1>1. ASSUME RestoreInv, Rebuildable PROVE RebuildRestoresMarks
  <2> DEFINE none == 0
             whole == ReplayLedger(log, none)
             m == RebuildMinRound(disk.payments)
             some == ReplayLedger(log, m)
             l == Rebuilt(log, disk)
  <2>1. /\ faithful /\ disk = ledger /\ \A p \in Process : event[p] = {}
        /\ Len(ledger.payments) < MaxPayments /\ Sound(ledger)
        /\ Recorded(ledger) /\ \A k \in DOMAIN ledger.recent : Flagged(ledger.recent[k])
    BY <1>1, RestoreParts, NoEvents DEF Rebuildable, Consistent
  <2>2. LeavesOut(whole, m, some) /\ Restores(disk, some, l) /\ Follows(ledger, whole, weighed)
    BY <1>1, <2>1, RebuiltFollows
  <2> HIDE DEF whole, some, l, m
  <2>3. ASSUME NEW i \in DOMAIN l.recent, NEW r \in Retained(ledger), l.recent[i].id = r.id
        PROVE  /\ l.recent[i].settled = r.settled
               /\ (\A w \in r.entries : r.amount[w] > 0 <=> l.recent[i].amount[w] > 0)
                     => l.recent[i].paid = r.paid
               /\ \A w \in Unpaid(l.recent[i]) : r.amount[w] > 0 => w \in Unpaid(r)
    <3>1. PICK k \in DOMAIN ledger.recent : r = ledger.recent[k]
      BY DEF Retained
    <3>2. Remarked(ledger, whole.recent[i], l.recent[i]) /\ i \in DOMAIN whole.recent
      BY <2>1, <2>2 DEF LeavesOut, Restores
    <3>3. whole.recent[i].id = r.id
      BY <2>3, <3>2 DEF Remarked
    <3>4. /\ SomeAmount(r) /\ whole.recent[i].height = r.height
          /\ whole.recent[i].entries = r.entries
      <4>1. Matches(r, whole.recent[i], weighed)
        BY <2>2, <3>1, <3>2, <3>3 DEF Follows
      <4> QED BY <4>1 DEF Matches
    <3>5. ledger.recent[k] \in SolvedRound
      BY <2>1, RoundsOfLedger
    <3> QED BY <2>1, <3>1, <3>2, <3>3, <3>4, <3>5, MarksMadeAgain
  <2> QED BY <2>3 DEF RebuildRestoresMarks, l
<1>2. RestoreInv => RebuildRestoresMarks
  BY <1>1 DEF RebuildRestoresMarks
<1> QED BY <1>2, RestoreInvariant, PTL
=============================================================================
