-------------------------- MODULE PayoutLedgerProofs --------------------------
(***************************************************************************)
(* Theorems about PayoutLedger, for every value of its constants.          *)
(***************************************************************************)
EXTENDS PayoutLedger, PayoutSplitLemmas, SequenceTheorems

-----------------------------------------------------------------------------
(* Lists, splits and rounds.                                                *)

\* What Push makes of a list: the new element comes first, the others follow in
\* their order, and the list keeps to its limit.
LEMMA PushProperties ==
    ASSUME NEW S, NEW s \in Seq(S), NEW x \in S, NEW n \in Nat \ {0}
    PROVE  /\ Push(x, s, n) \in Seq(S)
           /\ Len(Push(x, s, n)) <= n /\ Len(Push(x, s, n)) <= Len(s) + 1
           /\ Len(s) < n => Len(Push(x, s, n)) >= Len(s) + 1
           /\ Len(s) >= n => Len(Push(x, s, n)) >= n
           /\ Push(x, s, n)[1] = x
           /\ \A i \in 2..Len(Push(x, s, n)) : Push(x, s, n)[i] = s[i - 1]
<1> DEFINE all == <<x>> \o s
           m == IF Len(all) < n THEN Len(all) ELSE n
<1>1. /\ all \in Seq(S) /\ Len(all) = Len(s) + 1 /\ Len(s) \in Nat
      /\ all[1] = x
      /\ \A i \in 2..Len(all) : all[i] = s[i - 1]
  OBVIOUS
<1>2. m \in 1..Len(all)
  BY <1>1
<1>3. /\ SubSeq(all, 1, m) \in Seq(S)
      /\ Len(SubSeq(all, 1, m)) = m
      /\ \A i \in 1..m : SubSeq(all, 1, m)[i] = all[i]
  <2> HIDE DEF all, m
  <2> QED BY <1>1, <1>2, SubSeqProperties
<1>4. Push(x, s, n) = SubSeq(all, 1, m)
  BY DEF Push
<1> QED
  <2> HIDE DEF all
  <2> QED BY <1>1, <1>2, <1>3, <1>4

\* A round's amounts are naturals (calculatePayouts): the floors are, and the
\* remainder loop only adds.
LEMMA SplitType ==
    ASSUME NEW work \in [Worker -> Nat], NEW rank, NEW total \in Nat, NEW d \in Nat
    PROVE  CalculatePayouts(work, rank, total, d, {}) \in [Worker -> Nat]
<1>1. ASSUME NEW w \in Worker, w \in PayoutWorkers(work, total, d)
      PROVE  FloorShare(work, total, d, {}, w) \in Nat
  <2>1. total \in Nat \ {0}
    BY <1>1 DEF PayoutWorkers
  <2>2. work[w] * d \in Nat
    BY MulNat
  <2>3. (work[w] * d) \div total \in Nat
    BY <2>1, <2>2, DivNat
  <2> QED BY <2>3 DEF FloorShare
<1>2. \A r, i : Extra(r, i) \in {0, 1}
  BY DEF Extra
<1>3. ASSUME NEW w \in Worker, w \in PayoutWorkers(work, total, d), NEW r, NEW i
      PROVE  FloorShare(work, total, d, {}, w) + Extra(r, i) \in Nat
  BY <1>1, <1>2, <1>3
<1> QED
  BY <1>3 DEF CalculatePayouts

\* What a pool fee leaves of a reward is a natural (finalizeRoundPayoutLocked).
LEMMA DistributableType == \A reward \in Nat : Distributable(reward) \in Nat
<1> SUFFICES ASSUME NEW reward \in Nat PROVE Distributable(reward) \in Nat
  OBVIOUS
<1>1. (reward * FeeBPS) \div 10000 \in Nat
  BY OptionAssumption, MulNat, DivNat
<1>2. reward - (reward * FeeBPS) \div 10000 \in Int
  BY <1>1
<1> QED BY <1>2 DEF Distributable

\* A new round is a round (newRoundLocked).
LEMMA NewRoundType == \A id \in Nat : NewRound(id) \in CurrentRound
  BY DEF NewRound, CurrentRound

\* The round that is filed for a block is one (RecordSolvedBlock).
LEMMA SolvedRoundType ==
    ASSUME NEW round \in CurrentRound, NEW block \in Nat, NEW height \in Nat,
           NEW reward \in Nat
    PROVE  /\ SolvedRoundOf(round, block, height, reward) \in SolvedRound
           /\ SolvedRoundOf(round, block, height, reward).id = round.id
           /\ SolvedRoundOf(round, block, height, reward).block = block
           /\ SolvedRoundOf(round, block, height, reward).settled = {}
           /\ ~SolvedRoundOf(round, block, height, reward).paid
<1> DEFINE d == Distributable(reward)
           rank == LiveRank(round.work, round.shares)
           amount == CalculatePayouts(round.work, rank, round.total, d, {})
           entries == PayoutWorkers(round.work, round.total, d)
<1>1. /\ round.work \in [Worker -> Nat] /\ round.total \in Nat /\ round.id \in Nat
  BY DEF CurrentRound
<1>2. amount \in [Worker -> Nat]
  <2>1. d \in Nat
    BY DistributableType
  <2> HIDE DEF d, rank
  <2> QED BY <1>1, <2>1, SplitType
<1>3. entries \in SUBSET Worker
  BY <1>1 DEF PayoutWorkers, Contributors
<1>4. SolvedRoundOf(round, block, height, reward) =
        [id |-> round.id, block |-> block, height |-> height, entries |-> entries,
         amount |-> amount, settled |-> {}, paid |-> FALSE]
  BY DEF SolvedRoundOf
<1> HIDE DEF amount, entries
<1> QED BY <1>1, <1>2, <1>3, <1>4 DEF SolvedRound

-----------------------------------------------------------------------------
(* What the operations on a ledger keep.                                    *)

\* A ledger whose lists keep to their limits.
Sound(l) == l \in Ledger /\ WithinLimits(l)

\* The elements of a sound ledger's list of rounds are rounds.
LEMMA RoundsOfLedger ==
    ASSUME NEW l, Sound(l)
    PROVE  /\ \A i \in DOMAIN l.recent : l.recent[i] \in SolvedRound
           /\ DOMAIN l.recent = 1..Len(l.recent) /\ Len(l.recent) \in Nat
  BY DEF Sound, Ledger

\* The elements of its list of payments are payments.
LEMMA PaymentsOfLedger ==
    ASSUME NEW l, Sound(l)
    PROVE  /\ \A k \in DOMAIN l.payments : l.payments[k] \in Payment
           /\ DOMAIN l.payments = 1..Len(l.payments) /\ Len(l.payments) \in Nat
  BY DEF Sound, Ledger

\* An empty data directory gives a sound ledger (New).
LEMMA EmptyLedgerSound == Sound(EmptyLedger)
  BY NewRoundType, OptionAssumption DEF Sound, EmptyLedger, Ledger, WithinLimits

\* A share changes numbers of the current round only (applyShareToRoundLocked).
LEMMA ApplyShareType ==
    ASSUME NEW l \in Ledger, NEW w \in Worker, NEW work \in Nat
    PROVE  /\ ApplyShare(l, w, work) \in Ledger
           /\ ApplyShare(l, w, work).next = l.next
           /\ ApplyShare(l, w, work).current =
                [id |-> l.current.id,
                 work |-> [l.current.work EXCEPT ![w] = @ + work],
                 shares |-> [l.current.shares EXCEPT ![w] = @ + 1],
                 total |-> l.current.total + work]
           /\ ApplyShare(l, w, work).recent = l.recent
           /\ ApplyShare(l, w, work).payments = l.payments
<1> DEFINE round == [id |-> l.current.id,
                     work |-> [l.current.work EXCEPT ![w] = @ + work],
                     shares |-> [l.current.shares EXCEPT ![w] = @ + 1],
                     total |-> l.current.total + work]
<1>1. /\ l.current = [id |-> l.current.id, work |-> l.current.work,
                     shares |-> l.current.shares, total |-> l.current.total]
      /\ l = [next |-> l.next, current |-> l.current, recent |-> l.recent,
              payments |-> l.payments]
      /\ l.current \in CurrentRound
  BY DEF Ledger, CurrentRound
<1>2. round \in CurrentRound
  BY <1>1 DEF CurrentRound
<1>3. ApplyShare(l, w, work) = [next |-> l.next, current |-> round, recent |-> l.recent,
                               payments |-> l.payments]
  BY <1>1 DEF ApplyShare
<1> HIDE DEF round
<1>4. /\ ApplyShare(l, w, work) \in Ledger
      /\ ApplyShare(l, w, work).next = l.next
      /\ ApplyShare(l, w, work).current = round
      /\ ApplyShare(l, w, work).recent = l.recent
      /\ ApplyShare(l, w, work).payments = l.payments
  BY <1>2, <1>3 DEF Ledger
<1> QED BY <1>4 DEF round

\* It keeps a ledger sound, and its rounds and payments as they are.
LEMMA ApplyShareSound ==
    ASSUME NEW l, Sound(l), NEW w \in Worker, NEW work \in Nat
    PROVE  /\ Sound(ApplyShare(l, w, work))
           /\ ApplyShare(l, w, work).next = l.next
           /\ ApplyShare(l, w, work).current.id = l.current.id
           /\ ApplyShare(l, w, work).recent = l.recent
           /\ ApplyShare(l, w, work).payments = l.payments
<1> DEFINE k == ApplyShare(l, w, work)
           round == [id |-> l.current.id,
                     work |-> [l.current.work EXCEPT ![w] = @ + work],
                     shares |-> [l.current.shares EXCEPT ![w] = @ + 1],
                     total |-> l.current.total + work]
<1>1. l \in Ledger /\ WithinLimits(l)
  BY DEF Sound
<1>2. /\ k \in Ledger /\ k.next = l.next /\ k.current = round
      /\ k.recent = l.recent /\ k.payments = l.payments
  BY <1>1, ApplyShareType
<1> HIDE DEF k
<1>3. k.current.id = l.current.id
  BY <1>2
<1> HIDE DEF round
<1>4. Sound(k)
  BY <1>1, <1>2 DEF Sound, WithinLimits
<1> QED BY <1>2, <1>3, <1>4 DEF k

\* A block files the current round at the head of the list and opens the next one
\* (RecordSolvedBlock).
LEMMA CloseRoundSound ==
    ASSUME NEW l, Sound(l), NEW block \in Nat, NEW height \in Nat, NEW reward \in Nat
    PROVE  /\ Sound(CloseRound(l, block, height, reward))
           /\ CloseRound(l, block, height, reward).next = l.next + 1
           /\ CloseRound(l, block, height, reward).current.id = l.next + 1
           /\ CloseRound(l, block, height, reward).recent =
                Push(SolvedRoundOf(l.current, block, height, reward), l.recent, MaxRecentRounds)
           /\ CloseRound(l, block, height, reward).payments = l.payments
<1> DEFINE round == SolvedRoundOf(l.current, block, height, reward)
           recent == Push(round, l.recent, MaxRecentRounds)
<1>1. /\ l.next \in Nat /\ l.current \in CurrentRound /\ l.recent \in Seq(SolvedRound)
      /\ l.payments \in Seq(Payment)
  BY DEF Sound, Ledger
<1>2. round \in SolvedRound
  BY <1>1, SolvedRoundType
<1>3. /\ recent \in Seq(SolvedRound)
      /\ Len(recent) <= MaxRecentRounds
  <2>1. Len(l.recent) \in Nat /\ MaxRecentRounds \in Nat \ {0}
    BY <1>1, OptionAssumption
  <2> HIDE DEF round
  <2> QED BY <1>1, <1>2, <2>1, PushProperties
<1>4. NewRound(l.next + 1) \in CurrentRound /\ NewRound(l.next + 1).id = l.next + 1
  BY <1>1, NewRoundType DEF NewRound
<1>5. CloseRound(l, block, height, reward) =
        [l EXCEPT !.recent = recent, !.next = l.next + 1, !.current = NewRound(l.next + 1)]
  BY DEF CloseRound
<1> HIDE DEF round, recent
<1>6. CloseRound(l, block, height, reward) =
        [next |-> l.next + 1, current |-> NewRound(l.next + 1), recent |-> recent,
         payments |-> l.payments]
  BY <1>5 DEF Sound, Ledger
<1>7. Len(l.payments) <= MaxPayments
  BY DEF Sound, WithinLimits
<1> QED BY <1>1, <1>3, <1>4, <1>6, <1>7 DEF Sound, Ledger, WithinLimits, round, recent

\* Marking adds to a round's marks and changes nothing else but its Paid flag
\* (executePayoutsLocked).
LEMMA MarkRoundType ==
    ASSUME NEW r \in SolvedRound, NEW to
    PROVE  /\ MarkRound(r, to) \in SolvedRound
           /\ MarkRound(r, to).id = r.id
           /\ MarkRound(r, to).block = r.block
           /\ MarkRound(r, to).height = r.height
           /\ MarkRound(r, to).entries = r.entries
           /\ MarkRound(r, to).amount = r.amount
           /\ MarkRound(r, to).settled = r.settled \cup {w \in Unpaid(r) : PayTo[w] \in to}
           /\ r.paid => MarkRound(r, to).paid
<1> DEFINE new == {w \in Unpaid(r) : PayTo[w] \in to}
           marked == [r EXCEPT !.settled = @ \cup new]
<1>1. r = [id |-> r.id, block |-> r.block, height |-> r.height, amount |-> r.amount,
           entries |-> r.entries, settled |-> r.settled, paid |-> r.paid]
  BY DEF SolvedRound
<1>2. new \subseteq r.entries /\ r.entries \subseteq Worker
  BY DEF SolvedRound, Unpaid
<1>3. r.paid \/ ~Eligible(r) => new = {}
  BY DEF Unpaid
<1>4. FullyPaid(marked) \in BOOLEAN
  BY DEF FullyPaid
<1>5. MarkRound(r, to) = IF r.paid \/ ~Eligible(r) THEN r
                        ELSE [marked EXCEPT !.paid = FullyPaid(marked)]
  BY DEF MarkRound
<1> HIDE DEF new
<1>6. CASE r.paid \/ ~Eligible(r)
  <2>1. MarkRound(r, to) = r /\ new = {}
    BY <1>3, <1>5, <1>6
  <2>2. r.settled \cup new = r.settled
    BY <2>1
  <2> QED BY <2>1, <2>2 DEF new
<1>7. CASE ~(r.paid \/ ~Eligible(r))
  <2> DEFINE done == FullyPaid(marked)
  <2>1. marked = [id |-> r.id, block |-> r.block, height |-> r.height, amount |-> r.amount,
                  entries |-> r.entries, settled |-> r.settled \cup new, paid |-> r.paid]
    BY <1>1
  <2>2. MarkRound(r, to) = [marked EXCEPT !.paid = done]
    BY <1>5, <1>7
  <2>3. done \in BOOLEAN
    BY <1>4
  <2> HIDE DEF marked, done
  <2>4. MarkRound(r, to) =
          [id |-> r.id, block |-> r.block, height |-> r.height, amount |-> r.amount,
           entries |-> r.entries, settled |-> r.settled \cup new, paid |-> done]
    BY <2>1, <2>2
  <2> QED BY <1>2, <1>7, <2>3, <2>4 DEF SolvedRound, new
<1> QED BY <1>6, <1>7

\* A payment marks rounds in place and puts its record in front of the others
\* (executePayoutsLocked).
LEMMA MarkPaidSound ==
    ASSUME NEW l, Sound(l), NEW to \in SUBSET Address
    PROVE  /\ Sound(MarkPaid(l, to))
           /\ MarkPaid(l, to).next = l.next
           /\ MarkPaid(l, to).current = l.current
           /\ DOMAIN MarkPaid(l, to).recent = DOMAIN l.recent
           /\ \A i \in DOMAIN l.recent :
                  MarkPaid(l, to).recent[i] = MarkRound(l.recent[i], to)
           /\ MarkPaid(l, to).payments =
                Push([to |-> to, rounds |-> {l.recent[i].id : i \in Touched(l, to)}],
                     l.payments, MaxPayments)
<1> DEFINE recent == [i \in DOMAIN l.recent |-> MarkRound(l.recent[i], to)]
           payment == [to |-> to, rounds |-> {l.recent[i].id : i \in Touched(l, to)}]
           payments == Push(payment, l.payments, MaxPayments)
<1>1. /\ l.next \in Nat /\ l.current \in CurrentRound /\ l.recent \in Seq(SolvedRound)
      /\ l.payments \in Seq(Payment)
      /\ l = [next |-> l.next, current |-> l.current, recent |-> l.recent,
              payments |-> l.payments]
  BY DEF Sound, Ledger
<1>2. recent \in Seq(SolvedRound) /\ Len(recent) = Len(l.recent)
  <2>1. \A i \in 1..Len(l.recent) : MarkRound(l.recent[i], to) \in SolvedRound
    BY <1>1, MarkRoundType
  <2>2. recent \in [1..Len(l.recent) -> SolvedRound] /\ Len(l.recent) \in Nat
    BY <1>1, <2>1
  <2> QED BY <2>2
<1>3. payment \in Payment
  <2>1. \A i \in DOMAIN l.recent : l.recent[i].id \in Nat
    BY RoundsOfLedger DEF SolvedRound
  <2>2. Touched(l, to) \subseteq DOMAIN l.recent
    BY DEF Touched
  <2> QED BY <2>1, <2>2 DEF Payment
<1>4. payments \in Seq(Payment) /\ Len(payments) <= MaxPayments
  <2>1. Len(l.payments) \in Nat /\ MaxPayments \in Nat \ {0}
    BY <1>1, OptionAssumption
  <2> HIDE DEF payment
  <2> QED BY <1>1, <1>3, <2>1, PushProperties
<1>5. MarkPaid(l, to) = [next |-> l.next, current |-> l.current, recent |-> recent,
                        payments |-> payments]
  <2>1. MarkPaid(l, to) = [l EXCEPT !.recent = recent, !.payments = payments]
    BY DEF MarkPaid
  <2> HIDE DEF recent, payments
  <2> QED BY <1>1, <2>1
<1>6. Len(l.recent) <= MaxRecentRounds
  BY DEF Sound, WithinLimits
<1>7. /\ DOMAIN recent = DOMAIN l.recent
      /\ \A i \in DOMAIN l.recent : recent[i] = MarkRound(l.recent[i], to)
  OBVIOUS
<1>8. Sound(MarkPaid(l, to))
  <2> HIDE DEF recent, payments
  <2> QED BY <1>1, <1>2, <1>4, <1>5, <1>6 DEF Sound, Ledger, WithinLimits
<1>9. MarkPaid(l, to).recent = recent
  <2> HIDE DEF recent, payments
  <2> QED BY <1>5
<1> QED
  <2> HIDE DEF recent, payment
  <2> QED BY <1>5, <1>7, <1>8, <1>9 DEF payment

-----------------------------------------------------------------------------
(* Where copies of the ledger come from.                                    *)

\* What one step can make of a ledger l: n blocks were found before it, m after it.
Successor(l, n, m, k) ==
    \/ \E w \in Worker, work \in ShareWork : k = ApplyShare(l, w, work)
    \/ m > n /\ \E height \in Height, reward \in Reward : k = CloseRound(l, m, height, reward)
    \/ \E to \in SUBSET Address : Touched(l, to) # {} /\ k = MarkPaid(l, to)

\* The copies after a process has left the critical section of mu: those there were
\* and the new one.
LEMMA CopiesAfterUpdate ==
    ASSUME unsaved \in [Process -> SUBSET Ledger], NEW p \in Process, NEW l,
           Update(p, l), disk' = disk
    PROVE  \A k \in Copies' : k \in Copies \/ k = l
<1>1. unsaved' = [unsaved EXCEPT ![p] = {l}] /\ ledger' = l
  BY DEF Update
<1>2. \A q \in Process : unsaved'[q] = {l} \/ unsaved'[q] = unsaved[q]
  BY <1>1
<1> QED BY <1>1, <1>2 DEF Copies

\* The payees of a ledger are addresses.
LEMMA PayeesType == \A l : Payees(l) \in SUBSET Address
  BY DEF Payees

\* The operator's post marks something whenever it writes anything (ExecutePayouts).
LEMMA PayeesTouched ==
    ASSUME NEW l, Payees(l) # {}
    PROVE  Touched(l, Payees(l)) # {}
<1>1. PICK a \in Address : PendingTo(l, a) # {}
  BY DEF Payees
<1>2. a \in Payees(l)
  BY <1>1 DEF Payees
<1>3. PICK i \in DOMAIN l.recent : {w \in Unpaid(l.recent[i]) : PayTo[w] = a} # {}
  BY <1>1 DEF PendingTo, PayoutsOf
<1> QED BY <1>2, <1>3 DEF Touched

\* Every copy after a step is one there was before, or what an operation of the code
\* makes of the ledger in memory.
LEMMA CopiesStep ==
    ASSUME unsaved \in [Process -> SUBSET Ledger],
           \A c \in Caller : run[c].to \in SUBSET Address,
           found \in Nat,
           [Next]_vars
    PROVE  /\ \A k \in Copies' : k \in Copies \/ Successor(ledger, found, found', k)
           /\ found' = found
                \/ (found' = found + 1 /\ \E height \in Height, reward \in Reward :
                        ledger' = CloseRound(ledger, found', height, reward))
<1> DEFINE Same == \A k \in Copies' : k \in Copies
           Made == \A k \in Copies' : k \in Copies \/ Successor(ledger, found, found', k)
<1>1. CASE UNCHANGED vars
  BY <1>1 DEF vars, Copies
<1>2. ASSUME NEW s \in Session, SessionStep(s)
      PROVE  Made /\ (found' = found \/ (found' = found + 1 /\
                \E height \in Height, reward \in Reward :
                    ledger' = CloseRound(ledger, found', height, reward)))
  <2>1. s \in Process
    BY DEF Process
  <2>2. ASSUME NEW w \in Worker, NEW work \in ShareWork, RecordShare(s, w, work)
        PROVE  Made /\ found' = found
    <3> DEFINE l == ApplyShare(ledger, w, work)
    <3>1. Update(s, l) /\ disk' = disk /\ found' = found
      BY <2>2 DEF RecordShare, historyVars
    <3> HIDE DEF l
    <3>2. \A k \in Copies' : k \in Copies \/ k = l
      BY <2>1, <3>1, CopiesAfterUpdate
    <3> QED BY <3>1, <3>2 DEF Successor, l
  <2>3. ASSUME RecordRejectedShare(s)
        PROVE  Made /\ found' = found
    <3>1. Update(s, ledger) /\ disk' = disk /\ found' = found
      BY <2>3 DEF RecordRejectedShare, historyVars
    <3>2. \A k \in Copies' : k \in Copies \/ k = ledger
      BY <2>1, <3>1, CopiesAfterUpdate
    <3> QED BY <3>1, <3>2 DEF Copies
  <2>4. ASSUME NEW height \in Height, NEW reward \in Reward,
               RecordSolvedBlock(s, height, reward)
        PROVE  Made /\ found' = found + 1 /\ ledger' = CloseRound(ledger, found', height, reward)
    <3> DEFINE l == CloseRound(ledger, found', height, reward)
    <3>1. Update(s, l) /\ disk' = disk /\ found' = found + 1
      BY <2>4 DEF RecordSolvedBlock
    <3> HIDE DEF l
    <3>2. \A k \in Copies' : k \in Copies \/ k = l
      BY <2>1, <3>1, CopiesAfterUpdate
    <3>3. ledger' = l
      BY <3>1 DEF Update
    <3>4. found' > found
      BY <3>1
    <3> QED BY <3>1, <3>2, <3>3, <3>4 DEF Successor, l
  <2> QED BY <1>2, <2>2, <2>3, <2>4 DEF SessionStep
<1>3. ASSUME NEW c \in Caller, CallerStep(c)
      PROVE  Made /\ found' = found
  <2>1. c \in Process
    BY DEF Process
  <2>2. CASE ExecutePayoutBatch(c) /\ run[c].to \in SUBSET Address
    <3> DEFINE l == MarkPaid(ledger, run[c].to)
    <3>1. Update(c, l) /\ disk' = disk /\ found' = found /\ Touched(ledger, run[c].to) # {}
      BY <2>2 DEF ExecutePayoutBatch, historyVars
    <3> HIDE DEF l
    <3>2. \A k \in Copies' : k \in Copies \/ k = l
      BY <2>1, <3>1, CopiesAfterUpdate
    <3> QED BY <2>2, <3>1, <3>2 DEF Successor, l
  <2>3. CASE ~ExecutePayoutBatch(c)
    <3>1. UNCHANGED <<memVars, disk, found>>
      BY <1>3, <2>3 DEF CallerStep, BeginPayout, BalanceFails, NothingToSend, SelectBatch,
                       WalletAccepts, WalletRejects, ReplyLost, NothingToMark, historyVars
    <3> QED BY <3>1 DEF Copies, memVars
  <2> QED BY <2>2, <2>3
<1>4. ASSUME NEW o \in Operator, OperatorStep(o)
      PROVE  Made /\ found' = found
  <2>1. o \in Process
    BY DEF Process
  <2>2. CASE UNCHANGED <<memVars, disk, found>>
    BY <2>2 DEF Copies, memVars
  <2>3. CASE ExecutePayouts(o) /\ Payees(ledger) # {}
    <3> DEFINE l == MarkPaid(ledger, Payees(ledger))
    <3>1. Update(o, l) /\ disk' = disk /\ found' = found
      BY <2>3 DEF ExecutePayouts, historyVars
    <3>2. Payees(ledger) \in SUBSET Address /\ Touched(ledger, Payees(ledger)) # {}
      BY <2>3, PayeesType, PayeesTouched
    <3> HIDE DEF l
    <3>3. \A k \in Copies' : k \in Copies \/ k = l
      BY <2>1, <3>1, CopiesAfterUpdate
    <3> QED BY <3>1, <3>2, <3>3 DEF Successor, l
  <2>4. OperatorPays(o) => UNCHANGED <<memVars, disk, found>>
    BY DEF OperatorPays
  <2>5. ExecutePayouts(o) /\ Payees(ledger) = {} => UNCHANGED <<memVars, disk, found>>
    BY DEF ExecutePayouts, historyVars
  <2> QED BY <1>4, <2>2, <2>3, <2>4, <2>5 DEF OperatorStep
<1>5. ASSUME NEW p \in Process, PersistStep(p)
      PROVE  Made /\ found' = found
  <2>1. /\ ledger' = ledger /\ found' = found
        /\ unsaved' = [unsaved EXCEPT ![p] = {}]
        /\ disk' = disk \/ disk' \in unsaved[p]
    BY <1>5 DEF PersistStep, Persist, PersistFails, Saved, historyVars
  <2>2. \A q \in Process : unsaved'[q] \subseteq unsaved[q]
    BY <2>1
  <2> QED BY <2>1, <2>2 DEF Copies
<1>6. CASE Restart
  BY <1>6 DEF Restart, LoadShareState, Copies, historyVars
<1> QED BY <1>1, <1>2, <1>3, <1>4, <1>5, <1>6 DEF Next

-----------------------------------------------------------------------------
(* Types.                                                                   *)

\* The inductive invariant of the types: TypeOK, and every snapshot that waits to be
\* written keeps to the limits too, since it becomes the file and then the ledger.
TypeInv == TypeOK /\ \A l \in Copies : Sound(l)

\* The program starts with an empty ledger in memory and on disk (New).
LEMMA TypeInit == Init => TypeInv
<1> SUFFICES ASSUME Init PROVE TypeInv
  OBVIOUS
<1>1. \A l \in Copies : l = EmptyLedger
  BY DEF Init, Copies
<1>2. \A l \in Copies : Sound(l)
  BY <1>1, EmptyLedgerSound
<1>3. Sound(ledger) /\ Sound(disk)
  BY <1>2 DEF Copies
<1>4. TypeOK
  BY <1>3 DEF Init, TypeOK, Sound, Idle
<1> QED BY <1>2, <1>4 DEF TypeInv

\* The operations of the code make sound ledgers of sound ledgers.
LEMMA SuccessorSound ==
    ASSUME NEW l, Sound(l), NEW n \in Nat, NEW m \in Nat, NEW k, Successor(l, n, m, k)
    PROVE  Sound(k)
<1>1. ASSUME NEW w \in Worker, NEW work \in ShareWork, k = ApplyShare(l, w, work)
      PROVE  Sound(k)
  <2>1. work \in Nat
    BY AmountAssumption
  <2> QED BY <1>1, <2>1, ApplyShareSound
<1>2. ASSUME NEW height \in Height, NEW reward \in Reward, k = CloseRound(l, m, height, reward)
      PROVE  Sound(k)
  <2>1. height \in Nat /\ reward \in Nat
    BY AmountAssumption
  <2> QED BY <1>2, <2>1, CloseRoundSound
<1>3. ASSUME NEW to \in SUBSET Address, k = MarkPaid(l, to)
      PROVE  Sound(k)
  BY <1>3, MarkPaidSound
<1> QED BY <1>1, <1>2, <1>3 DEF Successor

\* No step spoils the shape of any copy of the ledger.
LEMMA CopiesSound ==
    ASSUME TypeInv, [Next]_vars
    PROVE  found' \in Nat /\ \A l \in Copies' : Sound(l)
<1>1. /\ unsaved \in [Process -> SUBSET Ledger]
      /\ \A c \in Caller : run[c].to \in SUBSET Address
      /\ found \in Nat
      /\ \A l \in Copies : Sound(l)
  BY DEF TypeInv, TypeOK
<1>2. /\ \A k \in Copies' : k \in Copies \/ Successor(ledger, found, found', k)
      /\ found' = found \/ found' = found + 1
  BY <1>1, CopiesStep
<1>3. found' \in Nat
  BY <1>1, <1>2
<1>4. Sound(ledger)
  BY <1>1 DEF Copies
<1> QED BY <1>1, <1>2, <1>3, <1>4, SuccessorSound

\* What is pending in a sound ledger are payouts.
LEMMA PendingType ==
    ASSUME NEW l, Sound(l), NEW to
    PROVE  PendingOf(l, to) \in SUBSET Payout
<1>1. \A i \in DOMAIN l.recent : l.recent[i].block \in Nat /\ Unpaid(l.recent[i]) \subseteq Worker
  BY RoundsOfLedger DEF SolvedRound, Unpaid
<1>2. \A a : PendingTo(l, a) \in SUBSET Payout
  BY <1>1 DEF PendingTo, PayoutsOf, Payout
<1> QED BY <1>2 DEF PendingOf

\* The newest round after a block is the one that was filed for it.
LEMMA NewestRound ==
    ASSUME NEW l, Sound(l), NEW block \in Nat, NEW height \in Nat, NEW reward \in Nat
    PROVE  /\ CloseRound(l, block, height, reward).recent[1] =
                    SolvedRoundOf(l.current, block, height, reward)
           /\ SolvedRoundOf(l.current, block, height, reward) \in SolvedRound
<1> DEFINE round == SolvedRoundOf(l.current, block, height, reward)
<1>1. round \in SolvedRound
  BY SolvedRoundType DEF Sound, Ledger
<1>2. l.recent \in Seq(SolvedRound) /\ MaxRecentRounds \in Nat \ {0}
  BY OptionAssumption DEF Sound, Ledger
<1>3. Push(round, l.recent, MaxRecentRounds)[1] = round
  <2> HIDE DEF round
  <2> QED BY <1>1, <1>2, PushProperties
<1> QED BY <1>1, <1>3, CloseRoundSound

\* What a transaction does to the history is a change of its numbers.
LEMMA PayType ==
    ASSUME paid \in [DOMAIN paid -> Nat], NEW items, Pay(items)
    PROVE  DOMAIN paid' = DOMAIN paid /\ paid' \in [DOMAIN paid' -> Nat]
<1>1. paid' = [p \in DOMAIN paid |-> paid[p] + (IF p \in items THEN 1 ELSE 0)]
  BY DEF Pay
<1>2. \A p \in DOMAIN paid : paid[p] + (IF p \in items THEN 1 ELSE 0) \in Nat
  OBVIOUS
<1> QED BY <1>1, <1>2

\* The types a caller's payout, an operator and the counters have.
ControlOK ==
    /\ ledgerError \in BOOLEAN
    /\ payoutMu \subseteq Caller
    /\ run \in [Caller -> [pc : {"idle", "locked", "sending", "sent", "saving"},
                           to : SUBSET Address, items : SUBSET Payout]]
    /\ autoError \in {"", "balance", "waiting", "wallet", "unmarked"}
    /\ handPaid \subseteq Operator
    /\ faults \in [FaultKind -> Nat]

HistoryOK == DOMAIN paid \subseteq Payout /\ paid \in [DOMAIN paid -> Nat]

\* TypeInv, part by part.
LEMMA TypeParts ==
    TypeInv <=> /\ ControlOK /\ HistoryOK /\ found \in Nat
                /\ unsaved \in [Process -> SUBSET Ledger]
                /\ \A l \in Copies : Sound(l)
  BY DEF TypeInv, TypeOK, ControlOK, HistoryOK, Copies, Sound

\* What a process has yet to write is always a ledger the pool has had.
LEMMA UnsavedStep ==
    ASSUME TypeInv, [Next]_vars
    PROVE  unsaved' \in [Process -> SUBSET Ledger]
<1>1. unsaved \in [Process -> SUBSET Ledger] /\ ledger' \in Ledger
  BY CopiesSound, TypeParts DEF Copies, Sound
<1>2. CASE UNCHANGED unsaved
  BY <1>1, <1>2
<1>3. ASSUME NEW p \in Process, NEW l, Update(p, l)
      PROVE  unsaved' \in [Process -> SUBSET Ledger]
  BY <1>1, <1>3 DEF Update
<1>4. ASSUME NEW s \in Session, SessionStep(s)
      PROVE  \E l : Update(s, l)
  BY <1>4 DEF SessionStep, RecordShare, RecordRejectedShare, RecordSolvedBlock
<1>5. ASSUME NEW c \in Caller, CallerStep(c)
      PROVE  UNCHANGED unsaved \/ \E l : Update(c, l)
  BY <1>5 DEF CallerStep, BeginPayout, BalanceFails, NothingToSend, SelectBatch,
              WalletAccepts, WalletRejects, ReplyLost, ExecutePayoutBatch, NothingToMark,
              memVars
<1>6. ASSUME NEW o \in Operator, OperatorStep(o)
      PROVE  UNCHANGED unsaved \/ \E l : Update(o, l)
  BY <1>6 DEF OperatorStep, OperatorPays, ExecutePayouts, memVars
<1>7. ASSUME NEW p \in Process, PersistStep(p)
      PROVE  unsaved' \in [Process -> SUBSET Ledger]
  BY <1>1, <1>7 DEF PersistStep, Persist, PersistFails, Saved
<1>8. CASE Restart
  BY <1>8 DEF Restart
<1> QED
  BY <1>2, <1>3, <1>4, <1>5, <1>6, <1>7, <1>8 DEF Next, vars, Process

\* The history of what was earned and paid keeps its type.
LEMMA HistoryStep ==
    ASSUME TypeInv, [Next]_vars
    PROVE  HistoryOK'
<1>1. HistoryOK /\ Sound(ledger) /\ found \in Nat
  BY TypeParts DEF Copies
<1>2. ASSUME NEW items, Pay(items)
      PROVE  HistoryOK'
  BY <1>1, <1>2, PayType DEF HistoryOK
<1>3. CASE UNCHANGED paid
  BY <1>1, <1>3 DEF HistoryOK
<1>4. ASSUME NEW s \in Session, NEW height \in Height, NEW reward \in Reward,
             RecordSolvedBlock(s, height, reward)
      PROVE  HistoryOK'
  <2> DEFINE round == ledger'.recent[1]
  <2>1. found + 1 \in Nat /\ height \in Nat /\ reward \in Nat
    BY <1>1, AmountAssumption
  <2>2. ledger' = CloseRound(ledger, found + 1, height, reward)
    BY <1>4 DEF RecordSolvedBlock, Update
  <2>3. round \in SolvedRound
    <3>1. CloseRound(ledger, found + 1, height, reward).recent[1] \in SolvedRound
      BY <1>1, <2>1, NewestRound
    <3> QED BY <2>2, <3>1
  <2>4. paid' = [p \in DOMAIN paid \cup PayoutsOf(round, round.entries) |->
                    IF p \in DOMAIN paid THEN paid[p] ELSE 0]
    BY <1>4 DEF RecordSolvedBlock
  <2> HIDE DEF round
  <2>5. PayoutsOf(round, round.entries) \subseteq Payout
    BY <2>3 DEF SolvedRound, PayoutsOf, Payout
  <2> QED BY <1>1, <2>4, <2>5 DEF HistoryOK
<1>5. ASSUME NEW s \in Session, SessionStep(s)
      PROVE  HistoryOK'
  BY <1>3, <1>4, <1>5 DEF SessionStep, RecordShare, RecordRejectedShare, historyVars
<1>6. ASSUME NEW c \in Caller, CallerStep(c)
      PROVE  HistoryOK'
  BY <1>2, <1>3, <1>6 DEF CallerStep, BeginPayout, BalanceFails, NothingToSend, SelectBatch,
                          WalletAccepts, WalletRejects, ReplyLost, ExecutePayoutBatch,
                          NothingToMark, historyVars
<1>7. ASSUME NEW o \in Operator, OperatorStep(o)
      PROVE  HistoryOK'
  BY <1>2, <1>3, <1>7 DEF OperatorStep, OperatorPays, ExecutePayouts, historyVars
<1>8. ASSUME NEW p \in Process, PersistStep(p)
      PROVE  HistoryOK'
  BY <1>3, <1>8 DEF PersistStep, Persist, PersistFails, historyVars
<1>9. CASE Restart
  BY <1>3, <1>9 DEF Restart, historyVars
<1> QED
  BY <1>3, <1>5, <1>6, <1>7, <1>8, <1>9 DEF Next, vars

\* A fault is counted.
LEMMA FaultsType ==
    ASSUME faults \in [FaultKind -> Nat], NEW k \in {"crash", "lost", "write"},
           faults' = [faults EXCEPT ![k] = @ + 1]
    PROVE  faults' \in [FaultKind -> Nat]
<1>1. k \in FaultKind
  BY DEF FaultKind
<1> QED BY <1>1

\* So do the control states of the callers, the lock and the error texts.
LEMMA ControlStep ==
    ASSUME TypeInv, [Next]_vars
    PROVE  ControlOK'
<1>1. ControlOK /\ Sound(ledger)
  BY TypeParts DEF Copies
<1>2. CASE UNCHANGED <<payoutVars, ledgerError, faults>>
  BY <1>1, <1>2 DEF payoutVars, ControlOK
<1>3. ASSUME NEW s \in Session, SessionStep(s)
      PROVE  ControlOK'
  BY <1>2, <1>3 DEF SessionStep, RecordShare, RecordRejectedShare, RecordSolvedBlock
<1>4. ASSUME NEW c \in Caller, CallerStep(c)
      PROVE  ControlOK'
  <2>1. CASE BeginPayout(c)
    BY <1>1, <2>1 DEF BeginPayout, ControlOK
  <2>2. CASE BalanceFails(c)
    BY <1>1, <2>2 DEF BalanceFails, Return, Idle, ControlOK
  <2>3. CASE \E budget \in Budget : NothingToSend(c, budget)
    <3>1. /\ Return(c) /\ autoError' \in {autoError, "waiting"}
          /\ UNCHANGED <<ledgerError, handPaid, faults>>
      BY <2>3 DEF NothingToSend
    <3> QED BY <1>1, <3>1 DEF Return, Idle, ControlOK
  <2>4. ASSUME NEW budget \in Budget, NEW S \in SUBSET Address, SelectBatch(c, S, budget)
        PROVE  ControlOK'
    <3> DEFINE items == PendingOf(ledger, {a \in S : PendingAmount(ledger, a) > 0})
    <3>1. items \in SUBSET Payout
      BY <1>1, PendingType
    <3>2. /\ run' = [run EXCEPT ![c] = [pc |-> "sending", to |-> S, items |-> items]]
          /\ autoError' = "" /\ UNCHANGED <<ledgerError, payoutMu, handPaid, faults>>
      BY <2>4 DEF SelectBatch
    <3> HIDE DEF items
    <3> QED BY <1>1, <3>1, <3>2 DEF ControlOK
  <2>5. CASE WalletAccepts(c)
    BY <1>1, <2>5 DEF WalletAccepts, ControlOK
  <2>6. CASE WalletRejects(c)
    BY <1>1, <2>6 DEF WalletRejects, Return, Idle, ControlOK
  <2>7. CASE ReplyLost(c)
    <3>1. faults' = [faults EXCEPT !["lost"] = @ + 1]
      BY <2>7 DEF ReplyLost
    <3>2. faults' \in [FaultKind -> Nat]
      BY <1>1, <3>1, FaultsType DEF ControlOK
    <3> QED BY <1>1, <2>7, <3>2 DEF ReplyLost, Return, Idle, ControlOK
  <2>8. CASE ExecutePayoutBatch(c)
    BY <1>1, <2>8 DEF ExecutePayoutBatch, ControlOK
  <2>9. CASE NothingToMark(c)
    BY <1>1, <2>9 DEF NothingToMark, Return, Idle, ControlOK
  <2> QED BY <1>4, <2>1, <2>2, <2>3, <2>4, <2>5, <2>6, <2>7, <2>8, <2>9 DEF CallerStep
<1>5. ASSUME NEW o \in Operator, OperatorStep(o)
      PROVE  ControlOK'
  BY <1>1, <1>5 DEF OperatorStep, OperatorPays, ExecutePayouts, ControlOK
<1>6. ASSUME NEW p \in Process, PersistStep(p)
      PROVE  ControlOK'
  <2>1. /\ ledgerError' \in BOOLEAN
        /\ UNCHANGED handPaid
        /\ UNCHANGED faults \/ faults' = [faults EXCEPT !["write"] = @ + 1]
        /\ Saved(p)
    BY <1>6 DEF PersistStep, Persist, PersistFails
  <2>2. faults' \in [FaultKind -> Nat]
    BY <1>1, <2>1, FaultsType DEF ControlOK
  <2>3. CASE p \in Caller
    <3>1. run' = [run EXCEPT ![p] = Idle] /\ payoutMu' = payoutMu \ {p} /\ autoError' = ""
      BY <2>1, <2>3 DEF Saved, Return
    <3> QED BY <1>1, <2>1, <2>2, <3>1 DEF Idle, ControlOK
  <2>4. CASE p \notin Caller
    <3>1. UNCHANGED <<run, payoutMu, autoError>>
      BY <2>1, <2>4 DEF Saved
    <3> QED BY <1>1, <2>1, <2>2, <3>1 DEF ControlOK
  <2> QED BY <2>3, <2>4
<1>7. CASE Restart
  <2>1. faults' = [faults EXCEPT !["crash"] = @ + 1]
    BY <1>7 DEF Restart
  <2>2. faults' \in [FaultKind -> Nat]
    BY <1>1, <2>1, FaultsType DEF ControlOK
  <2> QED BY <1>1, <1>7, <2>2 DEF Restart, Idle, ControlOK
<1> QED
  BY <1>2, <1>3, <1>4, <1>5, <1>6, <1>7 DEF Next, vars, payoutVars

\* TypeInv is inductive.
LEMMA TypeStep == TypeInv /\ [Next]_vars => TypeInv'
<1> SUFFICES ASSUME TypeInv, [Next]_vars PROVE TypeInv'
  OBVIOUS
<1>1. ControlOK' /\ HistoryOK' /\ found' \in Nat /\ unsaved' \in [Process -> SUBSET Ledger]
  BY ControlStep, HistoryStep, CopiesSound, UnsavedStep
<1>2. (\A l \in Copies : Sound(l))'
  BY CopiesSound DEF Sound, WithinLimits
<1> QED BY <1>1, <1>2 DEF TypeInv, TypeOK, ControlOK, HistoryOK, Copies, Sound

\* Every variable keeps its type, and every list of the ledger its limit.
THEOREM TypeCorrect == Spec => []TypeOK
<1>1. Init => TypeInv
  BY TypeInit
<1>2. TypeInv /\ [Next]_vars => TypeInv'
  BY TypeStep
<1>3. TypeInv => TypeOK
  BY DEF TypeInv
<1> QED BY <1>1, <1>2, <1>3, PTL DEF Spec

-----------------------------------------------------------------------------
(* What every copy of the ledger says of its rounds.                        *)

\* Rounds have numbers in the order they were filed, below the next one.
Numbered(l) ==
    /\ l.current.id = l.next
    /\ \A i \in DOMAIN l.recent : l.recent[i].id < l.next
    /\ \A i, j \in DOMAIN l.recent : i < j => l.recent[i].id > l.recent[j].id

\* The Paid flag of a round agrees with its marks.
Flagged(r) == (r.paid => FullyPaid(r)) /\ (r.settled # {} /\ FullyPaid(r) => r.paid)

\* Payment records list earlier rounds only and, as long as none is trimmed, they
\* explain the marks.
Recorded(l) ==
    /\ \A k \in DOMAIN l.payments : \A id \in l.payments[k].rounds : id < l.next
    /\ Len(l.payments) < MaxPayments =>
          \A i \in DOMAIN l.recent : l.recent[i].settled = Explained(l, l.recent[i])

\* What a ledger says of its rounds holds together.
Consistent(l) == Numbered(l) /\ Recorded(l) /\ \A i \in DOMAIN l.recent : Flagged(l.recent[i])

\* The numbers have no gaps, and the blocks, newest first, are among the first n that
\* were found.
Ordered(l, n) ==
    /\ \A i \in DOMAIN l.recent : l.recent[i].id = l.next - i
    /\ \A i, j \in DOMAIN l.recent : i < j => l.recent[i].block > l.recent[j].block
    /\ \A i \in DOMAIN l.recent : l.recent[i].block <= n

Kept(l, n) == Ordered(l, n) /\ Consistent(l)

\* The ledger of an empty data directory satisfies the invariant of the ledger.
LEMMA EmptyLedgerKept == Kept(EmptyLedger, 0)
  BY DEF Kept, Ordered, Consistent, Numbered, Recorded, EmptyLedger, NewRound

\* A share disturbs neither the solved rounds nor the payments (applyShareToRoundLocked).
LEMMA ApplyShareConsistent ==
    ASSUME NEW l, Sound(l), Consistent(l), NEW w \in Worker, NEW work \in Nat
    PROVE  Consistent(ApplyShare(l, w, work))
<1> DEFINE k == ApplyShare(l, w, work)
<1>1. /\ k.next = l.next /\ k.current.id = l.current.id /\ k.recent = l.recent
      /\ k.payments = l.payments
  BY ApplyShareSound
<1> HIDE DEF k
<1>2. \A r : Explained(k, r) = Explained(l, r)
  BY <1>1 DEF Explained
<1>3. Numbered(k)
  BY <1>1 DEF Consistent, Numbered
<1>4. Recorded(k)
  BY <1>1, <1>2 DEF Consistent, Recorded
<1>5. \A i \in DOMAIN k.recent : Flagged(k.recent[i])
  BY <1>1 DEF Consistent
<1> QED BY <1>3, <1>4, <1>5 DEF Consistent, k

LEMMA ApplyShareKept ==
    ASSUME NEW l, Sound(l), NEW n \in Nat, Kept(l, n), NEW w \in Worker, NEW work \in Nat
    PROVE  Kept(ApplyShare(l, w, work), n)
<1> DEFINE k == ApplyShare(l, w, work)
<1>1. k.next = l.next /\ k.recent = l.recent
  BY ApplyShareSound
<1>2. Consistent(k)
  BY ApplyShareConsistent DEF Kept
<1> HIDE DEF k
<1> QED BY <1>1, <1>2 DEF Kept, Ordered, k

\* The rounds of the list after a block: the one filed for it, then those before it.
LEMMA RoundsAfterBlock ==
    ASSUME NEW l, Sound(l), NEW block \in Nat, NEW height \in Nat, NEW reward \in Nat,
           NEW i \in DOMAIN CloseRound(l, block, height, reward).recent
    PROVE  LET r == CloseRound(l, block, height, reward).recent[i]
           IN  /\ i \in Nat \ {0} /\ DOMAIN l.recent = 1..Len(l.recent) /\ Len(l.recent) \in Nat
               /\ i = 1 => r = SolvedRoundOf(l.current, block, height, reward)
               /\ i > 1 => i - 1 \in DOMAIN l.recent /\ r = l.recent[i - 1]
<1> DEFINE round == SolvedRoundOf(l.current, block, height, reward)
           k == CloseRound(l, block, height, reward)
<1>1. Sound(k) /\ k.recent = Push(round, l.recent, MaxRecentRounds)
  BY CloseRoundSound
<1>2. l.recent \in Seq(SolvedRound) /\ MaxRecentRounds \in Nat \ {0}
  BY OptionAssumption DEF Sound, Ledger
<1>3. round \in SolvedRound
  BY NewestRound
<1>4. k.recent \in Seq(SolvedRound)
  BY <1>1 DEF Sound, Ledger
<1> HIDE DEF round, k
<1>5. /\ Len(k.recent) <= Len(l.recent) + 1
      /\ k.recent[1] = round
      /\ \A j \in 2..Len(k.recent) : k.recent[j] = l.recent[j - 1]
  <2> DEFINE new == k.recent
             old == l.recent
  <2>1. new = Push(round, old, MaxRecentRounds) /\ old \in Seq(SolvedRound)
    BY <1>1, <1>2
  <2> HIDE DEF new, old
  <2>2. /\ Len(new) <= Len(old) + 1
        /\ new[1] = round
        /\ \A j \in 2..Len(new) : new[j] = old[j - 1]
    BY <1>2, <1>3, <2>1, PushProperties
  <2> QED BY <2>2 DEF new, old
<1>6. i \in 1..Len(k.recent)
  BY <1>4 DEF k
<1>7. DOMAIN l.recent = 1..Len(l.recent) /\ Len(l.recent) \in Nat /\ Len(k.recent) \in Nat
  BY <1>2, <1>4
<1>8. Len(k.recent) <= Len(l.recent) + 1
  BY <1>2, <1>5, <1>7
<1>9. i > 1 => i - 1 \in 1..Len(l.recent) /\ i \in 2..Len(k.recent)
  BY <1>6, <1>7, <1>8
<1>10. i \in Nat \ {0}
  BY <1>6, <1>7
<1> QED BY <1>5, <1>7, <1>9, <1>10 DEF k, round

\* The ledger k after a block: l with a round of the number l was at put in front of the
\* others, without marks, and the next number.
Filed(l, k, round) ==
    /\ k.next = l.next + 1 /\ k.current.id = l.next + 1 /\ k.payments = l.payments
    /\ round \in SolvedRound /\ round.id = l.next
    /\ round.settled = {} /\ ~round.paid
    /\ \A i \in DOMAIN k.recent :
          /\ i \in Nat \ {0}
          /\ i = 1 => k.recent[i] = round
          /\ i > 1 => i - 1 \in DOMAIN l.recent /\ k.recent[i] = l.recent[i - 1]

\* RecordSolvedBlock files the current round.
LEMMA CloseRoundFiles ==
    ASSUME NEW l, Sound(l), l.current.id = l.next,
           NEW block \in Nat, NEW height \in Nat, NEW reward \in Nat
    PROVE  /\ Filed(l, CloseRound(l, block, height, reward),
                     SolvedRoundOf(l.current, block, height, reward))
           /\ SolvedRoundOf(l.current, block, height, reward).block = block
<1> DEFINE k == CloseRound(l, block, height, reward)
           round == SolvedRoundOf(l.current, block, height, reward)
<1>0. l.next \in Nat /\ l.current \in CurrentRound
  BY DEF Sound, Ledger
<1>1. k.next = l.next + 1 /\ k.current.id = l.next + 1 /\ k.payments = l.payments
  <2>1. k.next = l.next + 1
    BY CloseRoundSound
  <2>2. k.current.id = l.next + 1
    BY CloseRoundSound
  <2>3. k.payments = l.payments
    BY DEF CloseRound, Sound, Ledger
  <2> QED BY <2>1, <2>2, <2>3
<1>2. /\ round.id = l.next /\ round.block = block /\ round.settled = {} /\ ~round.paid
      /\ round \in SolvedRound
  <2>1. /\ round.id = l.current.id /\ round.block = block
        /\ round.settled = {} /\ ~round.paid /\ round \in SolvedRound
    BY <1>0, SolvedRoundType
  <2> HIDE DEF round
  <2> QED BY <1>0, <2>1
<1>3. \A i \in DOMAIN k.recent :
        /\ i \in Nat \ {0}
        /\ i = 1 => k.recent[i] = round
        /\ i > 1 => i - 1 \in DOMAIN l.recent /\ k.recent[i] = l.recent[i - 1]
  BY <1>0, RoundsAfterBlock
<1> HIDE DEF k, round
<1> QED BY <1>1, <1>2, <1>3 DEF Filed, k, round

LEMMA CloseRoundConsistent ==
    ASSUME NEW l, Sound(l), Consistent(l), NEW block \in Nat, NEW height \in Nat,
           NEW reward \in Nat
    PROVE  Consistent(CloseRound(l, block, height, reward))
<1> DEFINE k == CloseRound(l, block, height, reward)
           round == SolvedRoundOf(l.current, block, height, reward)
<1>0. l.next \in Nat /\ l.current.id = l.next
  BY DEF Sound, Ledger, Consistent, Numbered
<1>1. Filed(l, k, round) /\ round.block = block
  BY <1>0, CloseRoundFiles
<1>2. \A i \in DOMAIN l.recent : l.recent[i].id \in Nat /\ l.recent[i].id < l.next
  BY RoundsOfLedger DEF SolvedRound, Consistent, Numbered
<1> HIDE DEF k, round
<1> USE <1>1 DEF Filed
<1>3. \A i \in DOMAIN k.recent : k.recent[i].id < k.next
  <2> SUFFICES ASSUME NEW i \in DOMAIN k.recent PROVE k.recent[i].id < k.next
    OBVIOUS
  <2>1. CASE i = 1
    BY <1>0, <1>1, <2>1
  <2>2. CASE i > 1
    BY <1>0, <1>1, <1>2, <2>2
  <2> QED BY <1>1, <2>1, <2>2
<1>4. \A i, j \in DOMAIN k.recent : i < j => k.recent[i].id > k.recent[j].id
  <2> SUFFICES ASSUME NEW i \in DOMAIN k.recent, NEW j \in DOMAIN k.recent, i < j
               PROVE  k.recent[i].id > k.recent[j].id
    OBVIOUS
  <2>1. j - 1 \in DOMAIN l.recent /\ k.recent[j] = l.recent[j - 1]
    BY <1>1
  <2>2. CASE i = 1
    BY <1>0, <1>1, <1>2, <2>1, <2>2
  <2>3. CASE i > 1
    <3>1. i - 1 \in DOMAIN l.recent /\ k.recent[i] = l.recent[i - 1] /\ i - 1 < j - 1
      BY <1>1, <2>3
    <3> QED BY <2>1, <3>1 DEF Consistent, Numbered
  <2> QED BY <1>1, <2>2, <2>3
<1>5. \A i \in DOMAIN k.recent : Flagged(k.recent[i])
  <2> SUFFICES ASSUME NEW i \in DOMAIN k.recent PROVE Flagged(k.recent[i])
    OBVIOUS
  <2>1. CASE i = 1
    BY <1>1, <2>1 DEF Flagged
  <2>2. CASE i > 1
    BY <1>1, <2>2 DEF Consistent
  <2> QED BY <1>1, <2>1, <2>2
<1>6. \A p \in DOMAIN k.payments : \A id \in k.payments[p].rounds : id < k.next /\ id # l.next
  <2>1. \A p \in DOMAIN l.payments : \A id \in l.payments[p].rounds : id \in Nat /\ id < l.next
    BY PaymentsOfLedger DEF Payment, Consistent, Recorded
  <2> QED BY <1>0, <1>1, <2>1
<1>7. ASSUME Len(k.payments) < MaxPayments, NEW i \in DOMAIN k.recent
      PROVE  k.recent[i].settled = Explained(k, k.recent[i])
  <2>1. CASE i = 1
    <3>1. Explained(k, round) = {}
      BY <1>1, <1>6 DEF Explained
    <3> QED BY <1>1, <2>1, <3>1
  <2>2. CASE i > 1
    <3>1. i - 1 \in DOMAIN l.recent /\ k.recent[i] = l.recent[i - 1]
      BY <1>1, <2>2
    <3>2. \A r : Explained(k, r) = Explained(l, r)
      BY <1>1 DEF Explained
    <3> QED BY <1>1, <1>7, <3>1, <3>2 DEF Consistent, Recorded
  <2> QED BY <1>1, <2>1, <2>2
<1>8. Recorded(k)
  BY <1>6, <1>7 DEF Recorded
<1>9. Numbered(k)
  BY <1>1, <1>3, <1>4 DEF Numbered
<1> QED BY <1>5, <1>8, <1>9 DEF Consistent, k

\* A solved block, with a name newer than every block before it, is filed in order.
LEMMA CloseRoundKept ==
    ASSUME NEW l, Sound(l), NEW n \in Nat, Kept(l, n), NEW block \in Nat, block > n,
           NEW height \in Nat, NEW reward \in Nat
    PROVE  Kept(CloseRound(l, block, height, reward), block)
<1> DEFINE k == CloseRound(l, block, height, reward)
           round == SolvedRoundOf(l.current, block, height, reward)
<1>0. l.next \in Nat /\ l.current.id = l.next /\ Consistent(l)
  BY DEF Sound, Ledger, Kept, Consistent, Numbered
<1>1. /\ Filed(l, CloseRound(l, block, height, reward),
               SolvedRoundOf(l.current, block, height, reward))
      /\ SolvedRoundOf(l.current, block, height, reward).block = block
  BY <1>0, CloseRoundFiles
<1>6. Filed(l, k, round) /\ round.block = block
  BY <1>1
<1>2. Consistent(k)
  BY <1>0, CloseRoundConsistent
<1>3. \A i \in DOMAIN l.recent : /\ i \in Nat
                                /\ l.recent[i].id = l.next - i /\ l.recent[i].block <= n
                                /\ l.recent[i].block \in Nat
  BY RoundsOfLedger DEF Kept, Ordered, SolvedRound
<1> HIDE DEF k, round
<1> USE <1>6 DEF Filed
<1>4. \A i \in DOMAIN k.recent : k.recent[i].id = k.next - i /\ k.recent[i].block <= block
  <2> SUFFICES ASSUME NEW i \in DOMAIN k.recent
               PROVE  k.recent[i].id = k.next - i /\ k.recent[i].block <= block
    OBVIOUS
  <2>1. CASE i = 1
    BY <1>0, <1>1, <2>1
  <2>2. CASE i > 1
    BY <1>0, <1>1, <1>3, <2>2
  <2> QED BY <1>1, <2>1, <2>2
<1>5. \A i, j \in DOMAIN k.recent : i < j => k.recent[i].block > k.recent[j].block
  <2> SUFFICES ASSUME NEW i \in DOMAIN k.recent, NEW j \in DOMAIN k.recent, i < j
               PROVE  k.recent[i].block > k.recent[j].block
    OBVIOUS
  <2>1. j - 1 \in DOMAIN l.recent /\ k.recent[j] = l.recent[j - 1]
    BY <1>1
  <2>2. CASE i = 1
    BY <1>1, <1>3, <2>1, <2>2
  <2>3. CASE i > 1
    <3>1. i - 1 \in DOMAIN l.recent /\ k.recent[i] = l.recent[i - 1] /\ i - 1 < j - 1
      BY <1>1, <2>3
    <3> QED BY <2>1, <3>1 DEF Kept, Ordered
  <2> QED BY <1>1, <2>2, <2>3
<1> QED BY <1>2, <1>4, <1>5 DEF Kept, Ordered, k

\* Marking one round keeps its flag right (executePayoutsLocked).
LEMMA MarkRoundFlagged ==
    ASSUME NEW r \in SolvedRound, Flagged(r), NEW to
    PROVE  Flagged(MarkRound(r, to))
<1> DEFINE marked == [r EXCEPT !.settled = @ \cup {w \in Unpaid(r) : PayTo[w] \in to}]
           m == MarkRound(r, to)
<1>1. m.entries = r.entries /\ m.amount = r.amount
  BY MarkRoundType
<1>2. CASE r.paid \/ ~Eligible(r)
  BY <1>2 DEF MarkRound
<1>3. CASE ~(r.paid \/ ~Eligible(r))
  <2> DEFINE done == FullyPaid(marked)
  <2>1. m = [marked EXCEPT !.paid = done]
    BY <1>3 DEF MarkRound
  <2>2. marked.entries = r.entries /\ marked.amount = r.amount /\ marked.settled = m.settled
    BY MarkRoundType DEF SolvedRound
  <2>3. DOMAIN marked = DOMAIN r /\ "paid" \in DOMAIN r
    BY DEF SolvedRound
  <2>4. m.paid = done
    <3> HIDE DEF marked, done, m
    <3> QED BY <2>1, <2>3
  <2>5. FullyPaid(m) = FullyPaid(marked)
    <3> HIDE DEF marked, m
    <3> QED BY <1>1, <2>2 DEF FullyPaid
  <2> HIDE DEF marked, m
  <2> QED BY <2>4, <2>5 DEF Flagged, m
<1> QED BY <1>2, <1>3

\* A payment keeps the flags, the numbers, and the agreement of records and marks.
LEMMA MarkPaidConsistent ==
    ASSUME NEW l, Sound(l), Consistent(l), NEW to \in SUBSET Address
    PROVE  Consistent(MarkPaid(l, to))
<1> DEFINE k == MarkPaid(l, to)
           record == [to |-> to, rounds |-> {l.recent[i].id : i \in Touched(l, to)}]
<1>1. /\ k.next = l.next /\ k.current = l.current
      /\ DOMAIN k.recent = DOMAIN l.recent
      /\ \A i \in DOMAIN l.recent : k.recent[i] = MarkRound(l.recent[i], to)
      /\ k.payments = Push(record, l.payments, MaxPayments)
      /\ Sound(k)
  BY MarkPaidSound
<1>2. \A i \in DOMAIN l.recent :
        /\ l.recent[i] \in SolvedRound /\ i \in Nat \ {0} /\ Flagged(l.recent[i])
        /\ l.recent[i].id \in Nat /\ l.recent[i].id < l.next
  BY RoundsOfLedger DEF Consistent, Numbered, SolvedRound
<1>15. \A i, j \in DOMAIN l.recent : l.recent[i].id = l.recent[j].id => i = j
  BY <1>2 DEF Consistent, Numbered
<1>3. l.next \in Nat
  BY DEF Sound, Ledger
<1>4. \A i \in DOMAIN l.recent :
        /\ k.recent[i].id = l.recent[i].id
        /\ k.recent[i].entries = l.recent[i].entries
        /\ k.recent[i].settled = l.recent[i].settled
                                  \cup {w \in Unpaid(l.recent[i]) : PayTo[w] \in to}
        /\ Flagged(k.recent[i])
  BY <1>1, <1>2, MarkRoundType, MarkRoundFlagged
<1>5. record.to = to /\ record.rounds = {l.recent[i].id : i \in Touched(l, to)}
  OBVIOUS
<1>6. Touched(l, to) \subseteq DOMAIN l.recent
  BY DEF Touched
<1> HIDE DEF k, record
<1>7. Numbered(k)
  BY <1>1, <1>4 DEF Consistent, Numbered
<1>8. /\ DOMAIN k.payments = 1..Len(k.payments) /\ Len(k.payments) \in Nat
      /\ DOMAIN l.payments = 1..Len(l.payments) /\ Len(l.payments) \in Nat
  BY <1>1, PaymentsOfLedger
<1>9. record \in Payment
  <2>1. record.rounds \subseteq Nat
    BY <1>2, <1>5, <1>6 DEF SolvedRound
  <2> QED BY <2>1 DEF Payment, record
<1>10. /\ k.payments[1] = record
       /\ \A p \in 2..Len(k.payments) : k.payments[p] = l.payments[p - 1]
       /\ Len(k.payments) <= Len(l.payments) + 1
       /\ Len(l.payments) < MaxPayments => Len(k.payments) >= Len(l.payments) + 1
       /\ Len(l.payments) >= MaxPayments => Len(k.payments) >= MaxPayments
       /\ MaxPayments \in Nat
  <2> DEFINE new == k.payments
             old == l.payments
  <2>1. /\ new = Push(record, old, MaxPayments) /\ old \in Seq(Payment)
        /\ MaxPayments \in Nat \ {0}
    BY <1>1, OptionAssumption DEF Sound, Ledger
  <2> HIDE DEF new, old
  <2>2. /\ Len(new) <= Len(old) + 1
        /\ Len(old) < MaxPayments => Len(new) >= Len(old) + 1
        /\ Len(old) >= MaxPayments => Len(new) >= MaxPayments
        /\ new[1] = record
        /\ \A p \in 2..Len(new) : new[p] = old[p - 1]
    BY <1>9, <2>1, PushProperties
  <2> QED BY <2>1, <2>2 DEF new, old
<1>11. \A p \in DOMAIN k.payments :
         p = 1 \/ (p - 1 \in DOMAIN l.payments /\ k.payments[p] = l.payments[p - 1])
  BY <1>8, <1>10
<1>12. \A p \in DOMAIN k.payments : \A id \in k.payments[p].rounds : id < k.next
  <2>1. \A id \in record.rounds : id < l.next
    BY <1>2, <1>3, <1>5, <1>6
  <2>2. \A p \in DOMAIN l.payments : \A id \in l.payments[p].rounds : id < l.next
    BY DEF Consistent, Recorded
  <2> QED BY <1>1, <1>10, <1>11, <2>1, <2>2
<1>13. ASSUME Len(k.payments) < MaxPayments, NEW i \in DOMAIN k.recent
       PROVE  k.recent[i].settled = Explained(k, k.recent[i])
  <2> DEFINE r == l.recent[i]
             Lists(c, w) == \E p \in DOMAIN c.payments :
                               r.id \in c.payments[p].rounds /\ PayTo[w] \in c.payments[p].to
             touched == i \in Touched(l, to)
  <2>1. Len(l.payments) < MaxPayments /\ Len(k.payments) = Len(l.payments) + 1
    BY <1>8, <1>10, <1>13
  <2>2. i \in DOMAIN l.recent
    BY <1>1
  <2>3. r.settled = {w \in r.entries : PayTo[w] # NoAddress /\ Lists(l, w)}
    BY <2>1, <2>2 DEF Consistent, Recorded, Explained
  <2>4. Explained(k, k.recent[i]) = {w \in r.entries : PayTo[w] # NoAddress /\ Lists(k, w)}
    BY <1>4, <2>2 DEF Explained
  <2>5. k.recent[i].settled = r.settled \cup {w \in Unpaid(r) : PayTo[w] \in to}
    BY <1>4, <2>2
  <2>6. r.id \in record.rounds <=> touched
    BY <1>15, <1>5, <1>6, <2>2
  <2>7. \A w : Lists(k, w) <=> Lists(l, w) \/ (touched /\ PayTo[w] \in to)
    <3> SUFFICES ASSUME NEW w
                 PROVE  Lists(k, w) <=> Lists(l, w) \/ (touched /\ PayTo[w] \in to)
      OBVIOUS
    <3> HIDE DEF r, touched
    <3>1. ASSUME NEW p \in DOMAIN k.payments,
                 r.id \in k.payments[p].rounds /\ PayTo[w] \in k.payments[p].to
          PROVE  Lists(l, w) \/ (touched /\ PayTo[w] \in to)
      BY <1>5, <1>10, <1>11, <2>6, <3>1
    <3>2. ASSUME NEW p \in DOMAIN l.payments,
                 r.id \in l.payments[p].rounds /\ PayTo[w] \in l.payments[p].to
          PROVE  Lists(k, w)
      <4>1. p + 1 \in DOMAIN k.payments /\ p + 1 \in 2..Len(k.payments) /\ (p + 1) - 1 = p
        BY <1>8, <2>1
      <4>2. k.payments[p + 1] = l.payments[p]
        BY <1>10, <4>1
      <4> QED BY <3>2, <4>1, <4>2
    <3>3. ASSUME touched, PayTo[w] \in to
          PROVE  Lists(k, w)
      <4>1. 1 \in DOMAIN k.payments
        BY <1>8, <2>1
      <4> QED BY <1>5, <1>10, <2>6, <3>3, <4>1
    <3> QED BY <3>1, <3>2, <3>3
  <2>8. ASSUME NEW w \in r.entries, touched, PayTo[w] \in to, PayTo[w] # NoAddress
        PROVE  w \in r.settled \/ w \in Unpaid(r)
    BY <2>8 DEF Touched, Unpaid
  <2>9. ASSUME NEW w \in Unpaid(r), PayTo[w] \in to
        PROVE  touched /\ w \in r.entries /\ PayTo[w] # NoAddress
    BY <2>2, <2>9 DEF Touched, Unpaid
  <2> HIDE DEF r, Lists, touched
  <2> QED BY <2>3, <2>4, <2>5, <2>7, <2>8, <2>9
<1>14. Recorded(k)
  BY <1>12, <1>13 DEF Recorded
<1> QED BY <1>1, <1>4, <1>7, <1>14 DEF Consistent, k

LEMMA MarkPaidKept ==
    ASSUME NEW l, Sound(l), NEW n \in Nat, Kept(l, n), NEW to \in SUBSET Address
    PROVE  Kept(MarkPaid(l, to), n)
<1> DEFINE k == MarkPaid(l, to)
<1>1. /\ k.next = l.next /\ DOMAIN k.recent = DOMAIN l.recent
      /\ \A i \in DOMAIN l.recent : k.recent[i] = MarkRound(l.recent[i], to)
  BY MarkPaidSound
<1>2. \A i \in DOMAIN l.recent : /\ k.recent[i].id = l.recent[i].id
                                /\ k.recent[i].block = l.recent[i].block
  BY <1>1, RoundsOfLedger, MarkRoundType
<1>3. Consistent(k)
  BY MarkPaidConsistent DEF Kept
<1> HIDE DEF k
<1> QED BY <1>1, <1>2, <1>3 DEF Kept, Ordered, k

\* The inductive invariant: what every copy says of its rounds stays right, whatever
\* the order in which copies are made, written and read back.
LedgerInv == TypeInv /\ \A l \in Copies : Kept(l, found)

\* The invariant of the ledger holds at the start.
LEMMA LedgerInit == Init => LedgerInv
<1> SUFFICES ASSUME Init PROVE LedgerInv
  OBVIOUS
<1>1. found = 0 /\ \A l \in Copies : l = EmptyLedger
  BY DEF Init, Copies
<1> QED BY <1>1, EmptyLedgerKept, TypeInit DEF LedgerInv

\* The operations of the code keep it.
LEMMA SuccessorKept ==
    ASSUME NEW l, Sound(l), NEW n \in Nat, NEW m \in Nat, m = n \/ m = n + 1, Kept(l, n),
           NEW k, Successor(l, n, m, k)
    PROVE  Kept(k, n) \/ Kept(k, m)
<1>1. ASSUME NEW w \in Worker, NEW work \in ShareWork, k = ApplyShare(l, w, work)
      PROVE  Kept(k, n)
  <2>1. work \in Nat
    BY AmountAssumption
  <2> QED BY <1>1, <2>1, ApplyShareKept
<1>2. ASSUME m > n, NEW height \in Height, NEW reward \in Reward,
             k = CloseRound(l, m, height, reward)
      PROVE  Kept(k, m)
  <2>1. height \in Nat /\ reward \in Nat
    BY AmountAssumption
  <2> QED BY <1>2, <2>1, CloseRoundKept
<1>3. ASSUME NEW to \in SUBSET Address, k = MarkPaid(l, to)
      PROVE  Kept(k, n)
  BY <1>3, MarkPaidKept
<1> QED BY <1>1, <1>2, <1>3 DEF Successor

\* What is kept of the first n blocks is kept of more.
LEMMA KeptGrows ==
    ASSUME NEW l, Sound(l), NEW n \in Nat, NEW m \in Nat, n <= m, Kept(l, n)
    PROVE  Kept(l, m)
<1>1. \A i \in DOMAIN l.recent : l.recent[i].block \in Nat
  BY RoundsOfLedger DEF SolvedRound
<1> QED BY <1>1 DEF Kept, Ordered

\* The invariant of the ledger is inductive: one case per kind of successor ledger.
LEMMA LedgerStep == LedgerInv /\ [Next]_vars => LedgerInv'
<1> SUFFICES ASSUME LedgerInv, [Next]_vars PROVE LedgerInv'
  OBVIOUS
<1>1. TypeInv /\ TypeInv'
  BY TypeStep DEF LedgerInv
<1>2. /\ unsaved \in [Process -> SUBSET Ledger] /\ found \in Nat
      /\ \A c \in Caller : run[c].to \in SUBSET Address
      /\ \A l \in Copies : Sound(l) /\ Kept(l, found)
      /\ ledger \in Copies
  BY <1>1 DEF TypeInv, TypeOK, LedgerInv, Copies
<1>3. /\ \A k \in Copies' : k \in Copies \/ Successor(ledger, found, found', k)
      /\ found' = found \/ found' = found + 1
  BY <1>2, CopiesStep
<1>4. found' \in Nat /\ \A k \in Copies' : Sound(k)
  BY <1>1, CopiesSound
<1>5. ASSUME NEW k \in Copies'
      PROVE  Kept(k, found')
  <2>1. Kept(k, found) \/ Kept(k, found')
    BY <1>2, <1>3, <1>4, SuccessorKept
  <2>2. found <= found'
    BY <1>2, <1>3
  <2> QED BY <1>2, <1>4, <2>1, <2>2, KeptGrows
<1>6. (\A l \in Copies : Kept(l, found))'
  BY <1>5
<1> QED BY <1>1, <1>6 DEF LedgerInv

\* Every reachable copy of the ledger satisfies its invariant.
LEMMA LedgerInvariant == Spec => []LedgerInv
  BY LedgerInit, LedgerStep, PTL DEF Spec

\* In every copy of the ledger, also after restarts from old copies, rounds are
\* numbered without gaps or repetition and no block is filed twice.
THEOREM RoundsAlwaysInOrder == Spec => []RoundsInOrder
<1>1. LedgerInv => RoundsInOrder
  BY DEF LedgerInv, Kept, Ordered, Consistent, Numbered, RoundsInOrder
<1> QED BY <1>1, LedgerInvariant, PTL

\* In every copy a round's Paid flag, which hides it from all later payouts, agrees with
\* the marks of its payouts.
THEOREM PaidFlagIsRight == Spec => []PaidWhenSettled
<1>1. LedgerInv => PaidWhenSettled
  BY DEF LedgerInv, Kept, Consistent, Flagged, PaidWhenSettled
<1> QED BY <1>1, LedgerInvariant, PTL

\* In every copy whose payment records are complete, records and marks tell the same
\* story.
THEOREM RecordsExplainMarks == Spec => []PaymentsExplainSettled
<1>1. LedgerInv => PaymentsExplainSettled
  BY DEF LedgerInv, Kept, Consistent, Recorded, PaymentsExplainSettled
<1> QED BY <1>1, LedgerInvariant, PTL

-----------------------------------------------------------------------------
(* Marks stay.                                                              *)

\* A step that is not a restart leaves the ledger in memory alone or is one of the
\* operations on it.
LEMMA LedgerChange ==
    ASSUME TypeInv, [Next]_vars
    PROVE  Restart \/ ledger' = ledger \/ Successor(ledger, found, found', ledger')
<1>1. /\ found \in Nat /\ \A c \in Caller : run[c].to \in SUBSET Address
  BY DEF TypeInv, TypeOK
<1>2. ASSUME NEW s \in Session, SessionStep(s)
      PROVE  ledger' = ledger \/ Successor(ledger, found, found', ledger')
  <2>1. ASSUME NEW height \in Height, NEW reward \in Reward,
               RecordSolvedBlock(s, height, reward)
        PROVE  Successor(ledger, found, found', ledger')
    <3>1. found' = found + 1 /\ ledger' = CloseRound(ledger, found', height, reward)
      BY <2>1 DEF RecordSolvedBlock, Update
    <3>2. found' > found
      BY <1>1, <3>1
    <3> QED BY <3>1, <3>2 DEF Successor
  <2> QED BY <1>2, <2>1 DEF SessionStep, RecordShare, RecordRejectedShare, Update, Successor
<1>3. ASSUME NEW c \in Caller, CallerStep(c)
      PROVE  ledger' = ledger \/ Successor(ledger, found, found', ledger')
  <2>1. CASE ExecutePayoutBatch(c)
    BY <1>1, <2>1 DEF ExecutePayoutBatch, Update, Successor
  <2>2. CASE ~ExecutePayoutBatch(c)
    BY <1>3, <2>2 DEF CallerStep, BeginPayout, BalanceFails, NothingToSend, SelectBatch,
                     WalletAccepts, WalletRejects, ReplyLost, NothingToMark, memVars
  <2> QED BY <2>1, <2>2
<1>4. ASSUME NEW o \in Operator, OperatorStep(o)
      PROVE  ledger' = ledger \/ Successor(ledger, found, found', ledger')
  <2>1. Payees(ledger) # {} => Touched(ledger, Payees(ledger)) # {}
    BY PayeesTouched
  <2>2. Payees(ledger) \in SUBSET Address
    BY PayeesType
  <2> QED BY <1>4, <2>1, <2>2 DEF OperatorStep, OperatorPays, ExecutePayouts, Update,
                                  Successor, memVars
<1>5. ASSUME NEW p \in Process, PersistStep(p)
      PROVE  ledger' = ledger
  BY <1>5 DEF PersistStep, Persist, PersistFails
<1> QED BY <1>2, <1>3, <1>4, <1>5 DEF Next, vars

\* The operations keep marks and amounts.
LEMMA SuccessorSettled ==
    ASSUME NEW l, Sound(l), NEW n \in Nat, NEW m \in Nat, Kept(l, n),
           NEW k, Successor(l, n, m, k),
           NEW i \in DOMAIN l.recent, NEW j \in DOMAIN k.recent,
           l.recent[i].id = k.recent[j].id
    PROVE  /\ l.recent[i].settled \subseteq k.recent[j].settled
           /\ l.recent[i].amount = k.recent[j].amount
<1>1. /\ \A x \in DOMAIN l.recent : /\ l.recent[x].id = l.next - x /\ x \in Nat \ {0}
                                   /\ l.recent[x] \in SolvedRound
      /\ l.next \in Nat /\ l.current \in CurrentRound /\ l.current.id = l.next
  BY RoundsOfLedger DEF Kept, Ordered, Consistent, Numbered, Sound, Ledger
<1>2. ASSUME NEW w \in Worker, NEW work \in ShareWork, k = ApplyShare(l, w, work)
      PROVE  i = j /\ k.recent[j] = l.recent[i]
  <2>1. work \in Nat
    BY AmountAssumption
  <2>2. k.recent = l.recent
    BY <1>2, <2>1, ApplyShareSound
  <2>3. l.next - i = l.next - j /\ i \in Nat /\ j \in Nat
    BY <1>1, <2>2
  <2>4. i = j
    BY <1>1, <2>3
  <2> QED BY <2>2, <2>4
<1>3. ASSUME NEW height \in Height, NEW reward \in Reward, k = CloseRound(l, m, height, reward)
      PROVE  k.recent[j] = l.recent[i]
  <2>1. height \in Nat /\ reward \in Nat
    BY AmountAssumption
  <2>2. /\ j \in Nat \ {0}
        /\ j = 1 => k.recent[j] = SolvedRoundOf(l.current, m, height, reward)
        /\ j > 1 => j - 1 \in DOMAIN l.recent /\ k.recent[j] = l.recent[j - 1]
    <3>1. j \in DOMAIN CloseRound(l, m, height, reward).recent
      BY <1>3
    <3>2. LET r == CloseRound(l, m, height, reward).recent[j]
          IN  /\ j \in Nat \ {0}
              /\ j = 1 => r = SolvedRoundOf(l.current, m, height, reward)
              /\ j > 1 => j - 1 \in DOMAIN l.recent /\ r = l.recent[j - 1]
      BY <2>1, <3>1, RoundsAfterBlock
    <3> QED BY <1>3, <3>2
  <2> DEFINE round == SolvedRoundOf(l.current, m, height, reward)
  <2>3. round.id = l.current.id
    BY Zenon DEF SolvedRoundOf
  <2>4. j > 1
    <3> HIDE DEF round
    <3>1. round.id = l.next
      BY <1>1, <2>3
    <3>2. j = 1 => l.recent[i].id = round.id
      BY <2>2 DEF round
    <3> QED BY <1>1, <2>2, <3>1, <3>2
  <2>5. l.next - i = l.next - (j - 1)
    BY <1>1, <2>2, <2>4
  <2>6. i = j - 1
    BY <1>1, <2>2, <2>5
  <2> QED BY <2>2, <2>4, <2>6
<1>4. ASSUME NEW to \in SUBSET Address, k = MarkPaid(l, to)
      PROVE  k.recent[j] = MarkRound(l.recent[i], to)
  <2>1. /\ DOMAIN k.recent = DOMAIN l.recent
        /\ \A x \in DOMAIN l.recent : k.recent[x] = MarkRound(l.recent[x], to)
    BY <1>4, MarkPaidSound
  <2>2. k.recent[j].id = l.recent[j].id
    BY <1>1, <2>1, MarkRoundType
  <2>3. l.next - i = l.next - j
    BY <1>1, <2>1, <2>2
  <2>4. i = j
    BY <1>1, <2>1, <2>3
  <2> QED BY <2>1, <2>4
<1>5. \A to : /\ MarkRound(l.recent[i], to).amount = l.recent[i].amount
              /\ l.recent[i].settled \subseteq MarkRound(l.recent[i], to).settled
  BY <1>1, MarkRoundType
<1> QED BY <1>2, <1>3, <1>4, <1>5 DEF Successor

\* Whatever sessions, callers and operators do: outside a restart no mark and no amount
\* of a round that is kept is lost.
THEOREM MarksAreFinal == Spec => SettledIsFinal
<1>1. ASSUME LedgerInv, [Next]_vars
      PROVE  KeepsSettled
  <2>1. /\ TypeInv /\ Sound(ledger) /\ Kept(ledger, found) /\ found \in Nat
        /\ faults \in [FaultKind -> Nat]
    BY <1>1 DEF LedgerInv, TypeInv, TypeOK, Copies
  <2>2. found' \in Nat
    BY <1>1, <2>1, CopiesSound
  <2>3. CASE Restart
    <3>1. faults' = [faults EXCEPT !["crash"] = @ + 1] /\ "crash" \in FaultKind
      BY <2>3 DEF Restart, FaultKind
    <3>2. faults'["crash"] # faults["crash"]
      BY <2>1, <3>1
    <3> QED BY <3>2 DEF KeepsSettled
  <2>4. CASE ledger' = ledger
    <3>1. \A x \in DOMAIN ledger.recent : ledger.recent[x].id = ledger.next - x /\ x \in Nat
      BY <2>1, RoundsOfLedger DEF Kept, Ordered
    <3>2. ledger.next \in Nat
      BY <2>1 DEF Sound, Ledger
    <3>3. \A x, y \in DOMAIN ledger.recent : ledger.recent[x].id = ledger.recent[y].id => x = y
      BY <3>1, <3>2
    <3> QED BY <2>4, <3>3 DEF KeepsSettled
  <2>5. CASE Successor(ledger, found, found', ledger')
    BY <2>1, <2>2, <2>5, SuccessorSettled DEF KeepsSettled
  <2> QED BY <1>1, <2>1, <2>3, <2>4, <2>5, LedgerChange
<1>2. LedgerInv /\ [Next]_vars => [KeepsSettled]_vars
  BY <1>1
<1> QED BY <1>2, LedgerInvariant, PTL DEF Spec, SettledIsFinal
=============================================================================
