---------------------------- MODULE PayoutOnceProofs ----------------------------
(***************************************************************************)
(* That no payout is paid twice, what the ledger must know for that, and   *)
(* that exactly one batch can be chosen, which fits: theorems about        *)
(* PayoutLedger, for every value of its constants.                         *)
(***************************************************************************)
EXTENDS PayoutLedgerProofs

-----------------------------------------------------------------------------
(* What is pending.                                                         *)

\* Payout p is pending in ledger l.
IsPending(l, p) ==
    \E i \in DOMAIN l.recent : \E w \in Unpaid(l.recent[i]) :
        p = [block |-> l.recent[i].block, worker |-> w]

\* Workers whose payouts are unpaid have an address in their names.
LEMMA UnpaidType ==
    ASSUME NEW r \in SolvedRound
    PROVE  \A w \in Unpaid(r) : w \in Worker /\ PayTo[w] \in Address
  BY DEF SolvedRound, Unpaid, Address

\* What is pending to some addresses is pending, and to those.
LEMMA PendingOfSome ==
    ASSUME NEW l, NEW to, NEW p \in PendingOf(l, to)
    PROVE  IsPending(l, p) /\ PayTo[p.worker] \in to
<1>1. PICK a \in to : p \in PendingTo(l, a)
  BY DEF PendingOf
<1>2. PICK i \in DOMAIN l.recent :
        p \in PayoutsOf(l.recent[i], {w \in Unpaid(l.recent[i]) : PayTo[w] = a})
  BY <1>1 DEF PendingTo
<1>3. PICK w \in Unpaid(l.recent[i]) :
        PayTo[w] = a /\ p = [block |-> l.recent[i].block, worker |-> w]
  BY <1>2 DEF PayoutsOf
<1>4. p.worker = w
  BY <1>3
<1> QED BY <1>1, <1>3, <1>4 DEF IsPending

\* Whatever is pending is pending to the payees.
LEMMA PendingOfAll ==
    ASSUME NEW l, Sound(l), NEW p
    PROVE  p \in PendingOf(l, Payees(l)) <=> IsPending(l, p)
<1>1. p \in PendingOf(l, Payees(l)) => IsPending(l, p)
  BY PendingOfSome
<1>2. ASSUME IsPending(l, p)
      PROVE  p \in PendingOf(l, Payees(l))
  <2>1. PICK i \in DOMAIN l.recent : \E w \in Unpaid(l.recent[i]) :
                p = [block |-> l.recent[i].block, worker |-> w]
    BY <1>2 DEF IsPending
  <2>2. PICK w \in Unpaid(l.recent[i]) : p = [block |-> l.recent[i].block, worker |-> w]
    BY <2>1
  <2>3. PayTo[w] \in Address
    BY <2>1, RoundsOfLedger, UnpaidType
  <2>4. p \in PayoutsOf(l.recent[i], {v \in Unpaid(l.recent[i]) : PayTo[v] = PayTo[w]})
    BY <2>2 DEF PayoutsOf
  <2>5. p \in PendingTo(l, PayTo[w])
    BY <2>1, <2>4 DEF PendingTo
  <2> QED BY <2>3, <2>5 DEF PendingOf, Payees
<1> QED BY <1>1, <1>2

\* An address that something is pending to has a round to be marked.
LEMMA PendingTouched ==
    ASSUME NEW l, NEW p, IsPending(l, p), NEW to, PayTo[p.worker] \in to
    PROVE  Touched(l, to) # {}
<1>1. PICK i \in DOMAIN l.recent : \E w \in Unpaid(l.recent[i]) :
              p = [block |-> l.recent[i].block, worker |-> w]
  BY DEF IsPending
<1>2. PICK w \in Unpaid(l.recent[i]) : p = [block |-> l.recent[i].block, worker |-> w]
  BY <1>1
<1>3. p.worker = w
  BY <1>2
<1> QED BY <1>1, <1>2, <1>3 DEF Touched

\* What is pending is of a block that was found, and is marked paid nowhere: the rounds
\* of the list are of different blocks.
LEMMA PendingUnsettled ==
    ASSUME NEW l, Sound(l), NEW n \in Nat, Kept(l, n), NEW p, IsPending(l, p)
    PROVE  p.block \in Nat /\ p.block <= n /\ p \notin SettledPayouts(l)
<1>1. PICK i \in DOMAIN l.recent : \E w \in Unpaid(l.recent[i]) :
              p = [block |-> l.recent[i].block, worker |-> w]
  BY DEF IsPending
<1>2. PICK w \in Unpaid(l.recent[i]) : p = [block |-> l.recent[i].block, worker |-> w]
  BY <1>1
<1>3. p.block = l.recent[i].block /\ p.worker = w
  BY <1>2
<1>4. /\ \A x \in DOMAIN l.recent : l.recent[x].block \in Nat /\ x \in Nat
      /\ \A x \in DOMAIN l.recent : l.recent[x].block <= n
      /\ \A x, y \in DOMAIN l.recent : x < y => l.recent[x].block > l.recent[y].block
  BY RoundsOfLedger DEF SolvedRound, Kept, Ordered
<1>5. ASSUME NEW j \in DOMAIN l.recent, p \in PayoutsOf(l.recent[j], l.recent[j].settled)
      PROVE  FALSE
  <2>1. PICK v \in l.recent[j].settled : p = [block |-> l.recent[j].block, worker |-> v]
    BY <1>5 DEF PayoutsOf
  <2>2. p.block = l.recent[j].block /\ p.worker = v
    BY <2>1
  <2> DEFINE b(x) == l.recent[x].block
  <2>3. i = j
    <3>1. b(i) = b(j) /\ b(i) \in Nat /\ i \in Nat /\ j \in Nat
      BY <1>3, <1>4, <2>2
    <3>2. (i < j => b(i) > b(j)) /\ (j < i => b(j) > b(i))
      BY <1>4
    <3> HIDE DEF b
    <3> QED BY <3>1, <3>2
  <2> QED BY <1>3, <2>2, <2>3, <1>2 DEF Unpaid
<1> QED BY <1>3, <1>4, <1>5 DEF SettledPayouts

-----------------------------------------------------------------------------
(* How the operations change what is pending.                               *)

\* A share changes nothing that is pending (RecordShare).
LEMMA ShareKeepsPending ==
    ASSUME NEW l, Sound(l), NEW w \in Worker, NEW work \in Nat
    PROVE  /\ \A p : IsPending(ApplyShare(l, w, work), p) <=> IsPending(l, p)
           /\ SettledPayouts(ApplyShare(l, w, work)) = SettledPayouts(l)
  BY ApplyShareSound DEF IsPending, SettledPayouts

\* A block makes payouts of its own pending, and marks nothing.
LEMMA BlockAddsPending ==
    ASSUME NEW l, Sound(l), NEW block \in Nat, NEW height \in Nat, NEW reward \in Nat
    PROVE  /\ \A p : IsPending(CloseRound(l, block, height, reward), p) =>
                         p.block = block \/ IsPending(l, p)
           /\ SettledPayouts(CloseRound(l, block, height, reward)) \subseteq SettledPayouts(l)
<1> DEFINE k == CloseRound(l, block, height, reward)
           round == SolvedRoundOf(l.current, block, height, reward)
<1>1. \A i \in DOMAIN k.recent :
        \/ k.recent[i] = round
        \/ i - 1 \in DOMAIN l.recent /\ k.recent[i] = l.recent[i - 1]
  <2>1. ASSUME NEW i \in DOMAIN k.recent
        PROVE  /\ i \in Nat \ {0}
               /\ i = 1 => k.recent[i] = round
               /\ i > 1 => i - 1 \in DOMAIN l.recent /\ k.recent[i] = l.recent[i - 1]
    BY RoundsAfterBlock
  <2> HIDE DEF k, round
  <2> QED BY <2>1
<1>2. round.block = block /\ round.settled = {}
  <2>1. l.current \in CurrentRound
    BY DEF Sound, Ledger
  <2> QED BY <2>1, SolvedRoundType
<1> HIDE DEF k, round
<1>3. ASSUME NEW p, IsPending(k, p)
      PROVE  p.block = block \/ IsPending(l, p)
  <2>1. PICK i \in DOMAIN k.recent : \E w \in Unpaid(k.recent[i]) :
                p = [block |-> k.recent[i].block, worker |-> w]
    BY <1>3 DEF IsPending
  <2>2. CASE k.recent[i] = round
    BY <1>2, <2>1, <2>2
  <2>3. CASE i - 1 \in DOMAIN l.recent /\ k.recent[i] = l.recent[i - 1]
    BY <2>1, <2>3 DEF IsPending
  <2> QED BY <1>1, <2>2, <2>3
<1>4. ASSUME NEW p \in SettledPayouts(k)
      PROVE  p \in SettledPayouts(l)
  <2>1. PICK i \in DOMAIN k.recent : p \in PayoutsOf(k.recent[i], k.recent[i].settled)
    BY <1>4 DEF SettledPayouts
  <2>2. CASE k.recent[i] = round
    BY <1>2, <2>1, <2>2 DEF PayoutsOf
  <2>3. CASE i - 1 \in DOMAIN l.recent /\ k.recent[i] = l.recent[i - 1]
    BY <2>1, <2>3 DEF SettledPayouts
  <2> QED BY <1>1, <2>2, <2>3
<1> QED BY <1>3, <1>4 DEF k

\* A payment leaves nothing pending to its addresses, and adds nothing elsewhere.
LEMMA MarksEndPending ==
    ASSUME NEW l, Sound(l), NEW to \in SUBSET Address, NEW p, IsPending(MarkPaid(l, to), p)
    PROVE  IsPending(l, p) /\ PayTo[p.worker] \notin to
<1> DEFINE k == MarkPaid(l, to)
<1>1. /\ DOMAIN k.recent = DOMAIN l.recent
      /\ \A i \in DOMAIN l.recent : k.recent[i] = MarkRound(l.recent[i], to)
  BY MarkPaidSound
<1> HIDE DEF k
<1>2. PICK i \in DOMAIN k.recent : \E w \in Unpaid(k.recent[i]) :
              p = [block |-> k.recent[i].block, worker |-> w]
  BY DEF IsPending, k
<1>3. PICK w \in Unpaid(k.recent[i]) : p = [block |-> k.recent[i].block, worker |-> w]
  BY <1>2
<1> DEFINE r == l.recent[i]
           m == k.recent[i]
<1>4. /\ m.block = r.block /\ m.entries = r.entries /\ m.height = r.height
      /\ m.settled = r.settled \cup {v \in Unpaid(r) : PayTo[v] \in to}
      /\ r.paid => m.paid
  BY <1>1, MarkRoundType, RoundsOfLedger
<1> HIDE DEF m
<1>5. w \in m.entries /\ w \notin m.settled /\ ~m.paid /\ Eligible(m) /\ PayTo[w] # NoAddress
  BY <1>3 DEF Unpaid, m
<1>6. Eligible(r)
  BY <1>4, <1>5 DEF Eligible
<1>7. w \in Unpaid(r)
  BY <1>4, <1>5, <1>6 DEF Unpaid
<1>8. PayTo[w] \notin to
  BY <1>4, <1>5, <1>7
<1>9. p = [block |-> r.block, worker |-> w] /\ p.worker = w
  BY <1>3, <1>4 DEF m
<1> QED BY <1>1, <1>7, <1>8, <1>9 DEF IsPending

-----------------------------------------------------------------------------
(* The payout lock.                                                         *)

\* payoutMu is held by the one caller whose payout is in progress, if any; a caller
\* has a snapshot to write only after it has marked its batch.
LockInv ==
    /\ payoutMu = {c \in Caller : run[c].pc # "idle"}
    /\ \A c, d \in payoutMu : c = d
    /\ \A c \in Caller : unsaved[c] # {} => run[c].pc = "saving"

\* The payouts of a batch go to its addresses, and payouts are only ever earned by
\* blocks that were found.
ItemsInv ==
    /\ \A c \in Caller : run[c].pc \in {"sending", "sent"} =>
          \A p \in run[c].items : PayTo[p.worker] \in run[c].to
    /\ \A p \in DOMAIN paid : p.block <= found

\* At the start nobody holds payoutMu and no batch exists.
LEMMA LockInit == Init => LockInv /\ ItemsInv
<1> SUFFICES ASSUME Init PROVE LockInv /\ ItemsInv
  OBVIOUS
<1>1. \A c \in Caller : c \in Process /\ unsaved[c] = {} /\ run[c].pc = "idle"
  BY DEF Init, Idle, Process
<1> QED BY <1>1 DEF Init, LockInv, ItemsInv

\* A caller that returns gives the lock back.
LEMMA ReturnUnlocks ==
    ASSUME TypeInv, LockInv, NEW c \in Caller, Return(c),
           \A d \in Caller : unsaved'[d] = unsaved[d] \/ (d = c /\ unsaved'[d] = {}),
           unsaved[c] = {} \/ unsaved'[c] = {}
    PROVE  LockInv'
<1>1. run' = [run EXCEPT ![c] = Idle] /\ payoutMu' = payoutMu \ {c}
  BY DEF Return
<1>2. \A d \in Caller : run'[d] = IF d = c THEN Idle ELSE run[d]
  BY <1>1 DEF TypeInv, TypeOK
<1>3. Idle.pc = "idle"
  BY DEF Idle
<1> QED BY <1>1, <1>2, <1>3 DEF LockInv

\* payoutMu is held by the one caller whose TryAutoPayout is past TryLock, and by nobody
\* else.
LEMMA LockStep == TypeInv /\ LockInv /\ [Next]_vars => LockInv'
<1> SUFFICES ASSUME TypeInv, LockInv, [Next]_vars PROVE LockInv'
  OBVIOUS
<1>1. /\ run \in [Caller -> [pc : {"idle", "locked", "sending", "sent", "saving"},
                             to : SUBSET Address, items : SUBSET Payout]]
      /\ unsaved \in [Process -> SUBSET Ledger]
  BY DEF TypeInv, TypeOK
<1>2. \A s \in Session : s \notin Caller
  BY ProcessAssumption
<1>3. \A o \in Operator : o \notin Caller
  BY ProcessAssumption
<1>4. \A c \in Caller : c \in Process
  BY DEF Process
<1>5. ASSUME NEW p, p \notin Caller, NEW l, Update(p, l)
      PROVE  \A c \in Caller : unsaved'[c] = unsaved[c]
  BY <1>1, <1>4, <1>5 DEF Update
<1>6. ASSUME UNCHANGED <<run, payoutMu>>, \A c \in Caller : unsaved'[c] = unsaved[c]
      PROVE  LockInv'
  BY <1>6 DEF LockInv
<1>7. CASE UNCHANGED vars
  BY <1>6, <1>7 DEF vars
<1>8. ASSUME NEW s \in Session, SessionStep(s)
      PROVE  LockInv'
  <2>1. UNCHANGED <<run, payoutMu>> /\ \E l : Update(s, l)
    BY <1>8 DEF SessionStep, RecordShare, RecordRejectedShare, RecordSolvedBlock, payoutVars
  <2> QED BY <1>2, <1>5, <1>6, <2>1
<1>9. ASSUME NEW o \in Operator, OperatorStep(o)
      PROVE  LockInv'
  <2>1. UNCHANGED <<run, payoutMu>> /\ (UNCHANGED unsaved \/ \E l : Update(o, l))
    BY <1>9 DEF OperatorStep, OperatorPays, ExecutePayouts, memVars
  <2> QED BY <1>3, <1>5, <1>6, <2>1
<1>10. ASSUME NEW c \in Caller, CallerStep(c)
       PROVE  LockInv'
  <2>1. CASE BeginPayout(c)
    <3>1. payoutMu = {} /\ payoutMu' = {c} /\ run' = [run EXCEPT ![c].pc = "locked"]
          /\ UNCHANGED unsaved /\ run[c].pc = "idle"
      BY <2>1 DEF BeginPayout, memVars
    <3>2. \A d \in Caller : run'[d].pc = IF d = c THEN "locked" ELSE run[d].pc
      BY <1>1, <3>1
    <3> QED BY <3>1, <3>2 DEF LockInv
  <2>2. ASSUME Return(c), UNCHANGED unsaved, run[c].pc # "saving"
        PROVE  LockInv'
    <3>1. unsaved[c] = {}
      BY <2>2 DEF LockInv
    <3> QED BY <2>2, <3>1, ReturnUnlocks
  <2>3. CASE BalanceFails(c) \/ (\E budget \in Budget : NothingToSend(c, budget))
             \/ WalletRejects(c) \/ ReplyLost(c) \/ NothingToMark(c)
    BY <2>2, <2>3 DEF BalanceFails, NothingToSend, WalletRejects, ReplyLost, NothingToMark,
                      memVars
  <2>4. ASSUME NEW pc \in {"sending", "sent"}, run'[c].pc = pc,
               \A d \in Caller : d # c => run'[d] = run[d],
               UNCHANGED <<payoutMu, unsaved>>, run[c].pc \notin {"idle", "saving"}
        PROVE  LockInv'
    BY <2>4 DEF LockInv
  <2>5. ASSUME NEW budget \in Budget, NEW S \in SUBSET Address, SelectBatch(c, S, budget)
        PROVE  LockInv'
    <3> DEFINE items == PendingOf(ledger, {a \in S : PendingAmount(ledger, a) > 0})
    <3>1. /\ run' = [run EXCEPT ![c] = [pc |-> "sending", to |-> S, items |-> items]]
          /\ UNCHANGED <<payoutMu, unsaved>> /\ run[c].pc = "locked"
      BY <2>5 DEF SelectBatch, memVars
    <3> HIDE DEF items
    <3>2. run'[c].pc = "sending" /\ \A d \in Caller : d # c => run'[d] = run[d]
      BY <1>1, <3>1
    <3> QED BY <2>4, <3>1, <3>2
  <2>6. CASE WalletAccepts(c)
    <3>1. /\ run' = [run EXCEPT ![c].pc = "sent"]
          /\ UNCHANGED <<payoutMu, unsaved>> /\ run[c].pc = "sending"
      BY <2>6 DEF WalletAccepts, memVars
    <3>2. run'[c].pc = "sent" /\ \A d \in Caller : d # c => run'[d] = run[d]
      BY <1>1, <3>1
    <3> QED BY <2>4, <3>1, <3>2
  <2>7. CASE ExecutePayoutBatch(c)
    <3> DEFINE l == MarkPaid(ledger, run[c].to)
    <3>1. /\ run' = [run EXCEPT ![c].pc = "saving"] /\ run[c].pc = "sent"
          /\ UNCHANGED payoutMu /\ unsaved' = [unsaved EXCEPT ![c] = {l}]
      BY <2>7 DEF ExecutePayoutBatch, Update
    <3> HIDE DEF l
    <3>2. /\ run'[c].pc = "saving" /\ \A d \in Caller : d # c => run'[d] = run[d]
          /\ \A d \in Caller : d # c => unsaved'[d] = unsaved[d]
      BY <1>1, <1>4, <3>1
    <3> QED BY <3>1, <3>2 DEF LockInv
  <2> QED BY <1>10, <2>1, <2>3, <2>5, <2>6, <2>7 DEF CallerStep
<1>11. ASSUME NEW p \in Process, PersistStep(p)
       PROVE  LockInv'
  <2>1. unsaved' = [unsaved EXCEPT ![p] = {}] /\ Saved(p)
    BY <1>11 DEF PersistStep, Persist, PersistFails, Saved
  <2>2. \A d \in Caller : unsaved'[d] = IF d = p THEN {} ELSE unsaved[d]
    BY <1>1, <1>4, <2>1
  <2>3. CASE p \in Caller
    BY <2>1, <2>2, <2>3, ReturnUnlocks DEF Saved
  <2>4. CASE p \notin Caller
    BY <1>6, <2>1, <2>2, <2>4 DEF Saved
  <2> QED BY <2>3, <2>4
<1>12. CASE Restart
  <2>1. \A c \in Caller : run'[c].pc = "idle" /\ unsaved'[c] = {}
    BY <1>4, <1>12 DEF Restart, Idle
  <2> QED BY <1>12, <2>1 DEF Restart, LockInv
<1> QED BY <1>7, <1>8, <1>9, <1>10, <1>11, <1>12 DEF Next

-----------------------------------------------------------------------------
(* Batches and the history of payments.                                     *)

\* A block's payouts are earned when it is found: they carry its number, and no
\* transaction has paid them.
LEMMA EarnStep ==
    ASSUME TypeInv, NEW s \in Session, NEW height \in Height, NEW reward \in Reward,
           RecordSolvedBlock(s, height, reward)
    PROVE  /\ DOMAIN paid \subseteq DOMAIN paid'
           /\ \A p \in DOMAIN paid' : p \in DOMAIN paid \/ p.block = found'
           /\ \A p \in DOMAIN paid' : paid'[p] = IF p \in DOMAIN paid THEN paid[p] ELSE 0
           /\ paid' = [p \in DOMAIN paid' |-> IF p \in DOMAIN paid THEN paid[p] ELSE 0]
<1> DEFINE round == ledger'.recent[1]
           filed == SolvedRoundOf(ledger.current, found + 1, height, reward)
<1>1. Sound(ledger) /\ found + 1 \in Nat /\ height \in Nat /\ reward \in Nat
  <2>1. ledger \in Copies
    BY DEF Copies
  <2>2. found \in Nat /\ Sound(ledger)
    BY <2>1 DEF TypeInv, TypeOK
  <2> QED BY <2>2, AmountAssumption
<1>2. found' = found + 1 /\ ledger' = CloseRound(ledger, found + 1, height, reward)
  BY DEF RecordSolvedBlock, Update
<1>3. round = filed
  BY <1>1, <1>2, NewestRound
<1>4. ledger.current \in CurrentRound
  BY <1>1 DEF Sound, Ledger
<1>5. filed.block = found + 1
  BY <1>1, <1>4, SolvedRoundType
<1>6. paid' = [p \in DOMAIN paid \cup PayoutsOf(round, round.entries) |->
                  IF p \in DOMAIN paid THEN paid[p] ELSE 0]
  BY DEF RecordSolvedBlock
<1> HIDE DEF round, filed
<1>7. \A p \in PayoutsOf(round, round.entries) : p.block = found'
  BY <1>2, <1>3, <1>5 DEF PayoutsOf
<1> QED BY <1>6, <1>7

\* What any step does to the history: payouts are earned, or a transaction pays some.
LEMMA PaidStep ==
    ASSUME TypeInv, [Next]_vars
    PROVE  \/ \E s \in Session, height \in Height, reward \in Reward :
                  RecordSolvedBlock(s, height, reward)
           \/ found' = found /\ UNCHANGED paid
           \/ found' = found /\ \E c \in Caller : (WalletAccepts(c) \/ ReplyLost(c)) /\ Pay(run[c].items)
           \/ found' = found /\ \E o \in Operator : OperatorPays(o) /\ Pay(PendingOf(ledger, Payees(ledger)))
<1>1. ASSUME NEW s \in Session, SessionStep(s), ~UNCHANGED <<found, paid>>
      PROVE  \E height \in Height, reward \in Reward : RecordSolvedBlock(s, height, reward)
  BY <1>1 DEF SessionStep, RecordShare, RecordRejectedShare, historyVars
<1>2. ASSUME NEW c \in Caller, CallerStep(c), ~UNCHANGED <<found, paid>>
      PROVE  found' = found /\ (WalletAccepts(c) \/ ReplyLost(c)) /\ Pay(run[c].items)
  BY <1>2 DEF CallerStep, BeginPayout, BalanceFails, NothingToSend, SelectBatch, WalletAccepts,
              WalletRejects, ReplyLost, ExecutePayoutBatch, NothingToMark, historyVars
<1>3. ASSUME NEW o \in Operator, OperatorStep(o), ~UNCHANGED <<found, paid>>
      PROVE  found' = found /\ OperatorPays(o) /\ Pay(PendingOf(ledger, Payees(ledger)))
  BY <1>3 DEF OperatorStep, OperatorPays, ExecutePayouts, historyVars
<1>4. ASSUME NEW p \in Process, PersistStep(p)
      PROVE  UNCHANGED <<found, paid>>
  BY <1>4 DEF PersistStep, Persist, PersistFails, historyVars
<1>5. Restart => UNCHANGED <<found, paid>>
  BY DEF Restart, historyVars
<1>6. UNCHANGED vars => UNCHANGED <<found, paid>>
  BY DEF vars
<1> QED BY <1>1, <1>2, <1>3, <1>4, <1>5, <1>6 DEF Next

\* What any step does to the payout of one caller.
LEMMA RunStep ==
    ASSUME TypeInv, [Next]_vars, NEW c \in Caller, run'[c].pc \in {"sending", "sent"}
    PROVE  \/ run'[c] = run[c]
           \/ \E budget \in Budget, S \in SUBSET Address :
                  /\ SelectBatch(c, S, budget)
                  /\ run'[c].pc = "sending" /\ run'[c].to = S
                  /\ run'[c].items = PendingOf(ledger, {a \in S : PendingAmount(ledger, a) > 0})
           \/ /\ WalletAccepts(c)
              /\ run'[c].pc = "sent" /\ run'[c].to = run[c].to /\ run'[c].items = run[c].items
<1>1. run \in [Caller -> [pc : {"idle", "locked", "sending", "sent", "saving"},
                          to : SUBSET Address, items : SUBSET Payout]]
  BY DEF TypeInv, TypeOK
<1>2. ASSUME NEW d \in Caller, Return(d)
      PROVE  d # c /\ run'[c] = run[c]
  BY <1>1, <1>2 DEF Return, Idle
<1>3. ASSUME NEW d \in Caller, CallerStep(d), d # c
      PROVE  run'[c] = run[c]
  <2>1. \E x : run' = [run EXCEPT ![d] = x]
    BY <1>3 DEF CallerStep, BeginPayout, BalanceFails, NothingToSend, SelectBatch, WalletAccepts,
                WalletRejects, ReplyLost, ExecutePayoutBatch, NothingToMark, Return
  <2> QED BY <1>1, <1>3, <2>1
<1>4. CASE CallerStep(c)
  <2>1. CASE BeginPayout(c)
    BY <1>1, <2>1 DEF BeginPayout
  <2>2. CASE BalanceFails(c) \/ (\E budget \in Budget : NothingToSend(c, budget))
             \/ WalletRejects(c) \/ ReplyLost(c) \/ NothingToMark(c)
    BY <1>2, <2>2 DEF BalanceFails, NothingToSend, WalletRejects, ReplyLost, NothingToMark
  <2>3. ASSUME NEW budget \in Budget, NEW S \in SUBSET Address, SelectBatch(c, S, budget)
        PROVE  /\ run'[c].pc = "sending" /\ run'[c].to = S
               /\ run'[c].items = PendingOf(ledger, {a \in S : PendingAmount(ledger, a) > 0})
    <3> DEFINE items == PendingOf(ledger, {a \in S : PendingAmount(ledger, a) > 0})
    <3>1. run' = [run EXCEPT ![c] = [pc |-> "sending", to |-> S, items |-> items]]
      BY <2>3 DEF SelectBatch
    <3> HIDE DEF items
    <3>2. run'[c] = [pc |-> "sending", to |-> S, items |-> items]
      BY <1>1, <3>1
    <3> QED BY <3>2 DEF items
  <2>4. CASE WalletAccepts(c)
    <3>1. run' = [run EXCEPT ![c].pc = "sent"]
      BY <2>4 DEF WalletAccepts
    <3> QED BY <1>1, <2>4, <3>1
  <2>5. CASE ExecutePayoutBatch(c)
    BY <1>1, <2>5 DEF ExecutePayoutBatch
  <2> QED BY <1>4, <2>1, <2>2, <2>3, <2>4, <2>5 DEF CallerStep
<1>5. ASSUME NEW s \in Session, SessionStep(s)
      PROVE  UNCHANGED run
  BY <1>5 DEF SessionStep, RecordShare, RecordRejectedShare, RecordSolvedBlock, payoutVars
<1>6. ASSUME NEW o \in Operator, OperatorStep(o)
      PROVE  UNCHANGED run
  BY <1>6 DEF OperatorStep, OperatorPays, ExecutePayouts
<1>7. ASSUME NEW p \in Process, PersistStep(p)
      PROVE  run'[c] = run[c]
  BY <1>2, <1>7 DEF PersistStep, Persist, PersistFails, Saved
<1>8. CASE Restart
  BY <1>8 DEF Restart, Idle
<1> QED BY <1>3, <1>4, <1>5, <1>6, <1>7, <1>8 DEF Next, vars

\* What a batch pays goes to the addresses it was chosen for, and was earned.
LEMMA ItemsStep == TypeInv /\ ItemsInv /\ [Next]_vars => ItemsInv'
<1> SUFFICES ASSUME TypeInv, ItemsInv, [Next]_vars PROVE ItemsInv'
  OBVIOUS
<1>1. ASSUME NEW c \in Caller, run'[c].pc \in {"sending", "sent"}, NEW p \in run'[c].items
      PROVE  PayTo[p.worker] \in run'[c].to
  <2>1. CASE run'[c] = run[c]
    BY <1>1, <2>1 DEF ItemsInv
  <2>2. ASSUME NEW S \in SUBSET Address, run'[c].to = S,
               run'[c].items = PendingOf(ledger, {a \in S : PendingAmount(ledger, a) > 0})
        PROVE  PayTo[p.worker] \in run'[c].to
    <3>1. PayTo[p.worker] \in {a \in S : PendingAmount(ledger, a) > 0}
      BY <1>1, <2>2, PendingOfSome
    <3> QED BY <2>2, <3>1
  <2>3. CASE WalletAccepts(c) /\ run'[c].to = run[c].to /\ run'[c].items = run[c].items
    BY <1>1, <2>3 DEF WalletAccepts, ItemsInv
  <2> QED BY <1>1, <2>1, <2>2, <2>3, RunStep
<1>2. \A p \in DOMAIN paid' : p.block <= found'
  <2>1. /\ found \in Nat /\ DOMAIN paid \subseteq Payout /\ paid \in [DOMAIN paid -> Nat]
        /\ \A p \in DOMAIN paid : p.block \in Nat /\ p.block <= found
    BY DEF TypeInv, TypeOK, Payout, ItemsInv
  <2>2. ASSUME NEW s \in Session, NEW height \in Height, NEW reward \in Reward,
               RecordSolvedBlock(s, height, reward)
        PROVE  \A p \in DOMAIN paid' : p.block <= found'
    <3>1. found' = found + 1
      BY <2>2 DEF RecordSolvedBlock
    <3>2. \A p \in DOMAIN paid' : p \in DOMAIN paid \/ p.block = found'
      BY <2>2, EarnStep
    <3> QED BY <2>1, <3>1, <3>2
  <2>3. ASSUME NEW items, Pay(items)
        PROVE  DOMAIN paid' = DOMAIN paid
    BY <2>3 DEF Pay
  <2> QED BY <2>1, <2>2, <2>3, PaidStep
<1> QED BY <1>1, <1>2 DEF ItemsInv

-----------------------------------------------------------------------------
(* What is owed.                                                            *)

\* As long as nothing separates what was sent from what was recorded: what was sent and
\* is still pending is on its way to be marked, by its caller or by an operator.
SentOnItsWay ==
    Undisturbed => \A p \in Sent : IsPending(ledger, p) =>
        handPaid # {} \/ \E c \in Caller : run[c].pc = "sent" /\ p \in run[c].items

\* If nobody pays by hand either, a batch that waits for the wallet has not been paid.
BatchUnpaid ==
    Undisturbed /\ Operator = {} =>
        \A c \in Caller : run[c].pc = "sending" => run[c].items \cap Sent = {}

\* Everything the proofs of this module carry from state to state.
PayoutInv ==
    /\ LedgerInv /\ LockInv /\ ItemsInv
    /\ BatchStillOwed /\ SentOnItsWay /\ BatchUnpaid /\ PaidOnce

\* Types of the state, as the proofs below use them.
LEMMA PayoutTypes ==
    ASSUME LedgerInv
    PROVE  /\ TypeInv /\ Sound(ledger) /\ Kept(ledger, found) /\ found \in Nat
           /\ run \in [Caller -> [pc : {"idle", "locked", "sending", "sent", "saving"},
                                  to : SUBSET Address, items : SUBSET Payout]]
           /\ faults \in [FaultKind -> Nat] /\ handPaid \subseteq Operator
           /\ paid \in [DOMAIN paid -> Nat] /\ DOMAIN paid \subseteq Payout
<1>1. ledger \in Copies
  BY DEF Copies
<1>2. TypeInv /\ TypeOK /\ Sound(ledger) /\ Kept(ledger, found)
  BY <1>1 DEF LedgerInv, TypeInv
<1> QED BY <1>2 DEF TypeOK

\* What was disturbed stays so: faults are only ever counted.
LEMMA UndisturbedBefore ==
    ASSUME TypeInv, [Next]_vars, Undisturbed'
    PROVE  /\ Undisturbed /\ ~Restart /\ \A c \in Caller : ~ReplyLost(c)
           /\ faults'["crash"] = 0 /\ faults'["lost"] = 0
<1>1. /\ faults \in [FaultKind -> Nat] /\ "crash" \in FaultKind /\ "lost" \in FaultKind
      /\ "write" \in FaultKind
  BY DEF TypeInv, TypeOK, FaultKind
<1>2. faults'["crash"] = 0 /\ faults'["lost"] = 0
  BY DEF Undisturbed
<1>3. UNCHANGED faults => Undisturbed
  BY <1>2 DEF Undisturbed
<1>4. ~Restart
  <2>1. Restart => faults'["crash"] = faults["crash"] + 1
    BY <1>1 DEF Restart
  <2> QED BY <1>1, <1>2, <2>1
<1>5. \A c \in Caller : ~ReplyLost(c)
  <2>1. \A c \in Caller : ReplyLost(c) => faults'["lost"] = faults["lost"] + 1
    BY <1>1 DEF ReplyLost
  <2> QED BY <1>1, <1>2, <2>1
<1>6. ASSUME NEW p \in Process, PersistStep(p)
      PROVE  Undisturbed
  <2>1. UNCHANGED faults \/ faults' = [faults EXCEPT !["write"] = @ + 1]
    BY <1>6 DEF PersistStep, Persist, PersistFails
  <2>2. faults'["crash"] = faults["crash"] /\ faults'["lost"] = faults["lost"]
    BY <1>1, <2>1
  <2> QED BY <1>2, <2>2 DEF Undisturbed
<1>7. ASSUME NEW s \in Session, SessionStep(s)
      PROVE  UNCHANGED faults
  BY <1>7 DEF SessionStep, RecordShare, RecordRejectedShare, RecordSolvedBlock
<1>8. ASSUME NEW c \in Caller, CallerStep(c)
      PROVE  UNCHANGED faults
  BY <1>5, <1>8 DEF CallerStep, BeginPayout, BalanceFails, NothingToSend, SelectBatch,
                    WalletAccepts, WalletRejects, ExecutePayoutBatch, NothingToMark
<1>9. ASSUME NEW o \in Operator, OperatorStep(o)
      PROVE  UNCHANGED faults
  BY <1>9 DEF OperatorStep, OperatorPays, ExecutePayouts
<1>10. UNCHANGED vars => UNCHANGED faults
  BY DEF vars
<1> QED BY <1>2, <1>3, <1>4, <1>5, <1>6, <1>7, <1>8, <1>9, <1>10 DEF Next

\* The invariant of the payout run holds at the start.
LEMMA PayoutInit == Init => PayoutInv
<1> SUFFICES ASSUME Init PROVE PayoutInv
  OBVIOUS
<1>1. LedgerInv /\ LockInv /\ ItemsInv
  BY LedgerInit, LockInit
<1>2. DOMAIN paid = {} /\ Sent = {}
  BY DEF Init, Sent
<1>3. \A c \in Caller : run[c].pc = "idle"
  BY DEF Init, Idle
<1> QED BY <1>1, <1>2, <1>3 DEF PayoutInv, BatchStillOwed, SentOnItsWay, BatchUnpaid, PaidOnce

\* A batch stays owed until its own transaction marks it (TryAutoPayout under payoutMu).
LEMMA StillOwedStep ==
    ASSUME PayoutInv, [Next]_vars
    PROVE  BatchStillOwed'
<1> SUFFICES ASSUME Operator = {}, NEW c \in Caller, run'[c].pc \in {"sending", "sent"},
                    NEW p \in run'[c].items, p \in SettledPayouts(ledger)'
             PROVE  FALSE
  BY DEF BatchStillOwed
<1>1. /\ LedgerInv /\ LockInv /\ BatchStillOwed
      /\ TypeInv /\ Sound(ledger) /\ Kept(ledger, found) /\ found \in Nat
      /\ run \in [Caller -> [pc : {"idle", "locked", "sending", "sent", "saving"},
                                  to : SUBSET Address, items : SUBSET Payout]]
  BY PayoutTypes DEF PayoutInv
<1>2. SettledPayouts(ledger)' = SettledPayouts(ledger')
  BY DEF SettledPayouts
<1>3. CASE run'[c] = run[c]
  <2>1. p \notin SettledPayouts(ledger) /\ c \in payoutMu
    BY <1>1, <1>3 DEF BatchStillOwed, LockInv
  <2>2. ledger' # ledger
    BY <1>2, <2>1
  <2>3. ASSUME NEW s \in Session, SessionStep(s)
        PROVE  SettledPayouts(ledger') \subseteq SettledPayouts(ledger)
    <3>1. ASSUME NEW w \in Worker, NEW work \in ShareWork, RecordShare(s, w, work)
          PROVE  SettledPayouts(ledger') \subseteq SettledPayouts(ledger)
      <4>1. ledger' = ApplyShare(ledger, w, work) /\ work \in Nat
        BY <3>1, AmountAssumption DEF RecordShare, Update
      <4> QED BY <1>1, <4>1, ShareKeepsPending
    <3>2. ASSUME NEW height \in Height, NEW reward \in Reward, RecordSolvedBlock(s, height, reward)
          PROVE  SettledPayouts(ledger') \subseteq SettledPayouts(ledger)
      <4>1. /\ ledger' = CloseRound(ledger, found + 1, height, reward)
            /\ found + 1 \in Nat /\ height \in Nat /\ reward \in Nat
        BY <1>1, <3>2, AmountAssumption DEF RecordSolvedBlock, Update
      <4> QED BY <1>1, <4>1, BlockAddsPending
    <3> QED BY <2>2, <2>3, <3>1, <3>2 DEF SessionStep, RecordRejectedShare, Update
  <2>4. ASSUME NEW d \in Caller, ExecutePayoutBatch(d)
        PROVE  FALSE
    <3>1. run[d].pc = "sent" /\ run' = [run EXCEPT ![d].pc = "saving"]
      BY <2>4 DEF ExecutePayoutBatch
    <3>2. d \in payoutMu
      BY <1>1, <3>1 DEF LockInv
    <3>3. d = c
      BY <1>1, <2>1, <3>2 DEF LockInv
    <3> QED BY <1>1, <3>1, <3>3
  <2>5. ASSUME NEW d \in Caller, CallerStep(d)
        PROVE  FALSE
    BY <2>2, <2>4, <2>5 DEF CallerStep, BeginPayout, BalanceFails, NothingToSend, SelectBatch,
                            WalletAccepts, WalletRejects, ReplyLost, NothingToMark, memVars
  <2>6. ASSUME NEW q \in Process, PersistStep(q)
        PROVE  FALSE
    BY <2>2, <2>6 DEF PersistStep, Persist, PersistFails
  <2>7. ~Restart
    <3>1. Restart => run'[c] = Idle
      BY DEF Restart
    <3>2. Idle.pc = "idle"
      BY DEF Idle
    <3> QED BY <3>1, <3>2
  <2> QED BY <1>2, <2>1, <2>2, <2>3, <2>5, <2>6, <2>7 DEF Next, vars
<1>4. ASSUME NEW budget \in Budget, NEW S \in SUBSET Address, SelectBatch(c, S, budget),
             run'[c].items = PendingOf(ledger, {a \in S : PendingAmount(ledger, a) > 0})
      PROVE  FALSE
  <2>1. IsPending(ledger, p)
    BY <1>4, PendingOfSome
  <2>2. ledger' = ledger
    BY <1>4 DEF SelectBatch, memVars
  <2> QED BY <1>1, <1>2, <2>1, <2>2, PendingUnsettled
<1>5. CASE WalletAccepts(c) /\ run'[c].items = run[c].items
  <2>1. ledger' = ledger /\ run[c].pc = "sending"
    BY <1>5 DEF WalletAccepts, memVars
  <2> QED BY <1>1, <1>2, <1>5, <2>1 DEF BatchStillOwed
<1> QED BY <1>1, <1>3, <1>4, <1>5, RunStep

\* What was sent and not yet marked is with the caller that sent it, who marks it, or
\* awaits an operator's post, which marks everything.
LEMMA SentOnItsWayStep ==
    ASSUME PayoutInv, [Next]_vars
    PROVE  SentOnItsWay'
<1> SUFFICES ASSUME Undisturbed', NEW p \in Sent', IsPending(ledger', p), handPaid' = {}
             PROVE  \E c \in Caller : run'[c].pc = "sent" /\ p \in run'[c].items
  BY DEF SentOnItsWay, IsPending
<1>1. /\ LedgerInv /\ LockInv /\ ItemsInv /\ SentOnItsWay
      /\ TypeInv /\ Sound(ledger) /\ Kept(ledger, found) /\ found \in Nat
      /\ run \in [Caller -> [pc : {"idle", "locked", "sending", "sent", "saving"},
                             to : SUBSET Address, items : SUBSET Payout]]
      /\ paid \in [DOMAIN paid -> Nat] /\ DOMAIN paid \subseteq Payout
  BY PayoutTypes DEF PayoutInv
<1>2. Undisturbed /\ ~Restart /\ \A c \in Caller : ~ReplyLost(c)
  BY <1>1, UndisturbedBefore
<1>3. p \in DOMAIN paid' /\ paid'[p] > 0
  BY DEF Sent
<1>4. ASSUME p \in Sent, IsPending(ledger, p), handPaid = {},
             \A c \in Caller : run[c].pc = "sent" => run'[c] = run[c]
      PROVE  \E c \in Caller : run'[c].pc = "sent" /\ p \in run'[c].items
  BY <1>1, <1>2, <1>4 DEF SentOnItsWay
<1>5. ASSUME p \in Sent, IsPending(ledger, p), handPaid = {}, NEW d \in Caller, run[d].pc # "idle"
      PROVE  run[d].pc = "sent" /\ p \in run[d].items
  <2>1. PICK c \in Caller : run[c].pc = "sent" /\ p \in run[c].items
    BY <1>1, <1>2, <1>5 DEF SentOnItsWay
  <2>2. c \in payoutMu /\ d \in payoutMu
    BY <1>1, <1>5, <2>1 DEF LockInv
  <2>3. c = d
    BY <1>1, <2>2 DEF LockInv
  <2> QED BY <2>1, <2>3
<1>6. UNCHANGED paid => p \in Sent
  BY DEF Sent
<1>7. CASE UNCHANGED vars
  BY <1>4, <1>6, <1>7 DEF vars
<1>8. ASSUME NEW s \in Session, SessionStep(s)
      PROVE  \E c \in Caller : run'[c].pc = "sent" /\ p \in run'[c].items
  <2>1. UNCHANGED <<run, handPaid>>
    BY <1>8 DEF SessionStep, RecordShare, RecordRejectedShare, RecordSolvedBlock, payoutVars
  <2>2. ASSUME NEW w \in Worker, NEW work \in ShareWork, RecordShare(s, w, work)
        PROVE  p \in Sent /\ IsPending(ledger, p)
    <3>1. ledger' = ApplyShare(ledger, w, work) /\ work \in Nat /\ UNCHANGED paid
      BY <2>2, AmountAssumption DEF RecordShare, Update, historyVars
    <3> QED BY <1>1, <1>6, <3>1, ShareKeepsPending
  <2>3. ASSUME RecordRejectedShare(s)
        PROVE  p \in Sent /\ IsPending(ledger, p)
    BY <1>6, <2>3 DEF RecordRejectedShare, Update, historyVars
  <2>4. ASSUME NEW height \in Height, NEW reward \in Reward, RecordSolvedBlock(s, height, reward)
        PROVE  p \in Sent /\ IsPending(ledger, p)
    <3>1. p \in DOMAIN paid /\ paid'[p] = paid[p]
      BY <1>1, <1>3, <2>4, EarnStep
    <3>2. p \in Sent /\ p.block <= found /\ p.block \in Nat
      BY <1>1, <1>3, <3>1 DEF Sent, ItemsInv, Payout
    <3>3. /\ ledger' = CloseRound(ledger, found + 1, height, reward)
          /\ found + 1 \in Nat /\ height \in Nat /\ reward \in Nat
      BY <1>1, <2>4, AmountAssumption DEF RecordSolvedBlock, Update
    <3>4. p.block = found + 1 \/ IsPending(ledger, p)
      BY <1>1, <3>3, BlockAddsPending
    <3> QED BY <1>1, <3>2, <3>4
  <2>5. p \in Sent /\ IsPending(ledger, p)
    BY <1>8, <2>2, <2>3, <2>4 DEF SessionStep
  <2> QED BY <1>4, <2>1, <2>5
<1>9. ASSUME NEW o \in Operator, OperatorStep(o)
      PROVE  FALSE
  <2>1. ~OperatorPays(o)
    BY DEF OperatorPays
  <2>2. ASSUME ExecutePayouts(o)
        PROVE  FALSE
    <3>1. CASE Payees(ledger) = {}
      <4>1. IsPending(ledger, p)
        BY <2>2, <3>1 DEF ExecutePayouts, memVars
      <4>2. p \in PendingOf(ledger, Payees(ledger))
        BY <1>1, <4>1, PendingOfAll
      <4> QED BY <3>1, <4>2 DEF PendingOf
    <3>2. CASE Payees(ledger) # {}
      <4>1. IsPending(MarkPaid(ledger, Payees(ledger)), p)
        BY <2>2, <3>2 DEF ExecutePayouts, Update
      <4>2. IsPending(ledger, p) /\ PayTo[p.worker] \notin Payees(ledger)
        BY <1>1, <4>1, PayeesType, MarksEndPending
      <4>3. p \in PendingOf(ledger, Payees(ledger))
        BY <1>1, <4>2, PendingOfAll
      <4> QED BY <4>2, <4>3, PendingOfSome
    <3> QED BY <3>1, <3>2
  <2> QED BY <1>9, <2>1, <2>2 DEF OperatorStep
<1>10. ASSUME NEW d \in Caller, CallerStep(d)
       PROVE  \E c \in Caller : run'[c].pc = "sent" /\ p \in run'[c].items
  <2>1. handPaid = {}
    BY <1>10 DEF CallerStep, BeginPayout, BalanceFails, NothingToSend, SelectBatch, WalletAccepts,
                WalletRejects, ReplyLost, ExecutePayoutBatch, NothingToMark
  <2>2. \A c \in Caller : c # d => run'[c] = run[c]
    <3>1. \E x : run' = [run EXCEPT ![d] = x]
      BY <1>10 DEF CallerStep, BeginPayout, BalanceFails, NothingToSend, SelectBatch, WalletAccepts,
                  WalletRejects, ReplyLost, ExecutePayoutBatch, NothingToMark, Return
    <3> QED BY <1>1, <3>1
  <2>3. ASSUME UNCHANGED <<ledger, paid>>, run[d].pc # "sent"
        PROVE  \E c \in Caller : run'[c].pc = "sent" /\ p \in run'[c].items
    BY <1>4, <1>6, <2>1, <2>2, <2>3
  <2>4. CASE BeginPayout(d) \/ BalanceFails(d) \/ (\E budget \in Budget : NothingToSend(d, budget))
             \/ (\E budget \in Budget, S \in SUBSET Address : SelectBatch(d, S, budget))
             \/ WalletRejects(d)
    BY <2>3, <2>4 DEF BeginPayout, BalanceFails, NothingToSend, SelectBatch, WalletRejects,
                      memVars, historyVars
  <2>5. CASE WalletAccepts(d)
    <3>1. /\ run[d].pc = "sending" /\ Pay(run[d].items) /\ UNCHANGED ledger
          /\ run' = [run EXCEPT ![d].pc = "sent"]
      BY <2>5 DEF WalletAccepts, memVars
    <3>2. run'[d].pc = "sent" /\ run'[d].items = run[d].items
      BY <1>1, <3>1
    <3>3. CASE p \in run[d].items
      BY <3>2, <3>3
    <3>4. CASE p \notin run[d].items
      <4>1. p \in Sent
        BY <1>1, <1>3, <3>1, <3>4 DEF Pay, Sent
      <4> QED BY <1>4, <2>1, <2>2, <3>1, <4>1
    <3> QED BY <3>3, <3>4
  <2>6. CASE ExecutePayoutBatch(d)
    <3>1. /\ run[d].pc = "sent" /\ UNCHANGED paid /\ ledger' = MarkPaid(ledger, run[d].to)
          /\ run[d].to \in SUBSET Address
      BY <1>1, <2>6 DEF ExecutePayoutBatch, Update, historyVars
    <3>2. IsPending(ledger, p) /\ PayTo[p.worker] \notin run[d].to
      BY <1>1, <3>1, MarksEndPending
    <3>3. p \in run[d].items
      BY <1>5, <1>6, <2>1, <3>1, <3>2
    <3> QED BY <1>1, <3>1, <3>2, <3>3 DEF ItemsInv
  <2>7. CASE NothingToMark(d)
    <3>1. /\ run[d].pc = "sent" /\ UNCHANGED <<paid, ledger>> /\ Touched(ledger, run[d].to) = {}
      BY <2>7 DEF NothingToMark, memVars, historyVars
    <3>2. p \in run[d].items
      BY <1>5, <1>6, <2>1, <3>1
    <3>3. PayTo[p.worker] \in run[d].to
      BY <1>1, <3>1, <3>2 DEF ItemsInv
    <3> QED BY <3>1, <3>3, PendingTouched
  <2> QED BY <1>2, <1>10, <2>4, <2>5, <2>6, <2>7 DEF CallerStep
<1>11. ASSUME NEW q \in Process, PersistStep(q)
       PROVE  \E c \in Caller : run'[c].pc = "sent" /\ p \in run'[c].items
  <2>1. UNCHANGED <<ledger, paid, handPaid>> /\ unsaved[q] # {} /\ Saved(q)
    BY <1>11 DEF PersistStep, Persist, PersistFails, historyVars
  <2>2. \A c \in Caller : run[c].pc = "sent" => run'[c] = run[c]
    <3>1. CASE q \in Caller
      <4>1. run[q].pc = "saving" /\ run' = [run EXCEPT ![q] = Idle]
        BY <1>1, <2>1, <3>1 DEF LockInv, Saved, Return
      <4> QED BY <1>1, <4>1
    <3>2. CASE q \notin Caller
      BY <2>1, <3>2 DEF Saved
    <3> QED BY <3>1, <3>2
  <2> QED BY <1>4, <1>6, <2>1, <2>2
<1> QED BY <1>2, <1>7, <1>8, <1>9, <1>10, <1>11 DEF Next

\* A batch that was chosen is of payouts nobody has paid, and stays so until it is sent.
LEMMA BatchUnpaidStep ==
    ASSUME PayoutInv, [Next]_vars
    PROVE  BatchUnpaid'
<1> SUFFICES ASSUME Undisturbed', Operator = {}, NEW c \in Caller, run'[c].pc = "sending",
                    NEW p \in run'[c].items, p \in Sent'
             PROVE  FALSE
  BY DEF BatchUnpaid
<1>1. /\ LedgerInv /\ LockInv /\ SentOnItsWay /\ BatchUnpaid
      /\ TypeInv /\ Sound(ledger) /\ handPaid = {}
      /\ run \in [Caller -> [pc : {"idle", "locked", "sending", "sent", "saving"},
                             to : SUBSET Address, items : SUBSET Payout]]
      /\ paid \in [DOMAIN paid -> Nat]
  BY PayoutTypes DEF PayoutInv
<1>2. Undisturbed /\ \A d \in Caller : ~ReplyLost(d)
  BY <1>1, UndisturbedBefore
<1>3. p \in DOMAIN paid' /\ paid'[p] > 0
  BY DEF Sent
<1>4. CASE run'[c] = run[c]
  <2>1. p \notin Sent /\ run[c].pc = "sending"
    BY <1>1, <1>2, <1>4 DEF BatchUnpaid
  <2>2. ASSUME NEW s \in Session, NEW height \in Height, NEW reward \in Reward,
               RecordSolvedBlock(s, height, reward)
        PROVE  FALSE
    <3>1. paid'[p] = IF p \in DOMAIN paid THEN paid[p] ELSE 0
      BY <1>1, <1>3, <2>2, EarnStep
    <3> QED BY <1>3, <2>1, <3>1 DEF Sent
  <2>3. ASSUME NEW d \in Caller, WalletAccepts(d)
        PROVE  FALSE
    <3>1. run[d].pc = "sending" /\ run' = [run EXCEPT ![d].pc = "sent"]
      BY <2>3 DEF WalletAccepts
    <3>2. c \in payoutMu /\ d \in payoutMu
      BY <1>1, <2>1, <3>1 DEF LockInv
    <3>3. d = c
      BY <1>1, <3>2 DEF LockInv
    <3>4. run'[c].pc = "sent"
      BY <1>1, <3>1, <3>3
    <3> QED BY <3>4
  <2>4. ~UNCHANGED paid
    BY <2>1 DEF Sent
  <2> QED BY <1>1, <1>2, <2>2, <2>3, <2>4, PaidStep
<1>5. ASSUME NEW budget \in Budget, NEW S \in SUBSET Address, SelectBatch(c, S, budget),
             run'[c].items = PendingOf(ledger, {a \in S : PendingAmount(ledger, a) > 0})
      PROVE  FALSE
  <2>1. run[c].pc = "locked" /\ UNCHANGED paid
    BY <1>5 DEF SelectBatch, historyVars
  <2>2. p \in Sent /\ IsPending(ledger, p)
    BY <1>5, <2>1, PendingOfSome DEF Sent
  <2>3. PICK d \in Caller : run[d].pc = "sent"
    BY <1>1, <1>2, <2>2 DEF SentOnItsWay
  <2>4. c \in payoutMu /\ d \in payoutMu
    BY <1>1, <2>1, <2>3 DEF LockInv
  <2>5. c = d
    BY <1>1, <2>4 DEF LockInv
  <2> QED BY <2>1, <2>3, <2>5
<1> QED BY <1>1, <1>4, <1>5, RunStep

\* No step makes a second transaction pay a payout.
LEMMA OnceStep ==
    ASSUME PayoutInv, [Next]_vars
    PROVE  PaidOnce'
<1> SUFFICES ASSUME Undisturbed', Operator = {}, NEW p \in DOMAIN paid'
             PROVE  paid'[p] <= 1
  BY DEF PaidOnce
<1>1. /\ TypeInv /\ BatchUnpaid /\ PaidOnce /\ paid \in [DOMAIN paid -> Nat]
  BY PayoutTypes DEF PayoutInv
<1>2. Undisturbed /\ \A d \in Caller : ~ReplyLost(d)
  BY <1>1, UndisturbedBefore
<1>3. \A q \in DOMAIN paid : paid[q] <= 1 /\ paid[q] \in Nat
  BY <1>1, <1>2 DEF PaidOnce
<1>4. ASSUME NEW s \in Session, NEW height \in Height, NEW reward \in Reward,
             RecordSolvedBlock(s, height, reward)
      PROVE  paid'[p] <= 1
  <2>1. paid'[p] = IF p \in DOMAIN paid THEN paid[p] ELSE 0
    BY <1>1, <1>4, EarnStep
  <2> QED BY <1>3, <2>1
<1>5. ASSUME NEW d \in Caller, WalletAccepts(d), Pay(run[d].items)
      PROVE  paid'[p] <= 1
  <2>1. run[d].items \cap Sent = {}
    BY <1>1, <1>2, <1>5 DEF WalletAccepts, BatchUnpaid
  <2>2. p \in DOMAIN paid /\ paid'[p] = paid[p] + (IF p \in run[d].items THEN 1 ELSE 0)
    BY <1>5 DEF Pay
  <2>3. p \in run[d].items => paid[p] = 0
    BY <1>3, <2>1, <2>2 DEF Sent
  <2> QED BY <1>3, <2>2, <2>3
<1>6. UNCHANGED paid => paid'[p] <= 1
  BY <1>3
<1> QED BY <1>1, <1>2, <1>4, <1>5, <1>6, PaidStep

\* The invariant of the payout run is inductive.
LEMMA PayoutStep == PayoutInv /\ [Next]_vars => PayoutInv'
<1> SUFFICES ASSUME PayoutInv, [Next]_vars PROVE PayoutInv'
  OBVIOUS
<1>1. LedgerInv' /\ LockInv' /\ ItemsInv'
  BY LedgerStep, LockStep, ItemsStep, PayoutTypes DEF PayoutInv
<1>2. BatchStillOwed' /\ SentOnItsWay' /\ BatchUnpaid' /\ PaidOnce'
  BY StillOwedStep, SentOnItsWayStep, BatchUnpaidStep, OnceStep
<1> QED BY <1>1, <1>2 DEF PayoutInv

\* Every reachable state satisfies it.
LEMMA PayoutInvariant == Spec => []PayoutInv
  BY PayoutInit, PayoutStep, PTL DEF Spec

-----------------------------------------------------------------------------
(* The theorems.                                                            *)

\* However many goroutines call TryAutoPayout and whatever sessions do meanwhile: without
\* restarts, lost replies and payments by hand, no payout is paid by two transactions.
THEOREM NeverPaidTwice == Spec => []PaidOnce
<1>1. PayoutInv => PaidOnce
  BY DEF PayoutInv
<1> QED BY <1>1, PayoutInvariant, PTL

\* With operators paying by hand too: when no payout is on its way, nothing that was paid
\* is still pending.
THEOREM NothingPaidIsPending == Spec => []PaidNotPending
<1>1. ASSUME PayoutInv PROVE PaidNotPending
  <2>1. LedgerInv /\ LockInv /\ SentOnItsWay /\ Sound(ledger)
    BY <1>1, PayoutTypes DEF PayoutInv
  <2>2. ASSUME Undisturbed, payoutMu = {}, handPaid = {},
               NEW p \in Sent, p \in PendingOf(ledger, Payees(ledger))
        PROVE  FALSE
    <3>1. IsPending(ledger, p)
      BY <2>1, <2>2, PendingOfAll
    <3>2. PICK c \in Caller : run[c].pc = "sent"
      BY <2>1, <2>2, <3>1 DEF SentOnItsWay
    <3> QED BY <2>1, <2>2, <3>2 DEF LockInv
  <2> QED BY <2>2 DEF PaidNotPending
<1> QED BY <1>1, PayoutInvariant, PTL

\* The payouts of a batch that waits for the wallet or for its marks are marked by nobody
\* else, restarts and lost replies included.
THEOREM BatchesStayOwed == Spec => []BatchStillOwed
<1>1. PayoutInv => BatchStillOwed
  BY DEF PayoutInv
<1> QED BY <1>1, PayoutInvariant, PTL

\* A pool without restarts, lost replies and operators keeps its promise to miners: its
\* behaviours are behaviours of PayoutContract.
THEOREM LedgerKeepsContract ==
    ASSUME Operator = {}, MaxCrashes = 0, MaxLostReplies = 0
    PROVE  Spec => KeepsContract
<1>1. Init => Contract!Init
  BY DEF Init, Contract!Init
<1>2. Init => Undisturbed
  BY DEF Init, Undisturbed, FaultKind
<1>3. ASSUME PayoutInv, Undisturbed, [Next]_vars
      PROVE  Undisturbed'
  <2>1. /\ faults \in [FaultKind -> Nat] /\ "crash" \in FaultKind /\ "lost" \in FaultKind
        /\ "write" \in FaultKind
    BY <1>3, PayoutTypes DEF PayoutInv, FaultKind
  <2>2. ~Restart /\ \A c \in Caller : ~ReplyLost(c)
    BY <1>3 DEF Undisturbed, Restart, ReplyLost, MaxFaults
  <2>3. ASSUME NEW p \in Process, PersistStep(p)
        PROVE  Undisturbed'
    <3>1. UNCHANGED faults \/ faults' = [faults EXCEPT !["write"] = @ + 1]
      BY <2>3 DEF PersistStep, Persist, PersistFails
    <3>2. faults'["crash"] = faults["crash"] /\ faults'["lost"] = faults["lost"]
      BY <2>1, <3>1
    <3> QED BY <1>3, <3>2 DEF Undisturbed
  <2>4. ASSUME NEW s \in Session, SessionStep(s)
        PROVE  UNCHANGED faults
    BY <2>4 DEF SessionStep, RecordShare, RecordRejectedShare, RecordSolvedBlock
  <2>5. ASSUME NEW c \in Caller, CallerStep(c)
        PROVE  UNCHANGED faults
    BY <2>2, <2>5 DEF CallerStep, BeginPayout, BalanceFails, NothingToSend, SelectBatch,
                      WalletAccepts, WalletRejects, ExecutePayoutBatch, NothingToMark
  <2> QED BY <1>3, <2>2, <2>3, <2>4, <2>5 DEF Next, vars, Undisturbed
<1>4. ASSUME PayoutInv, Undisturbed, [Next]_vars
      PROVE  [Contract!Next]_paid
  <2>1. TypeInv /\ BatchUnpaid /\ paid \in [DOMAIN paid -> Nat] /\ HistoryOK'
    BY <1>4, PayoutTypes, HistoryStep DEF PayoutInv
  <2>2. ASSUME NEW s \in Session, NEW height \in Height, NEW reward \in Reward,
               RecordSolvedBlock(s, height, reward)
        PROVE  Contract!Earn
    BY <2>1, <2>2, EarnStep DEF HistoryOK, Contract!Earn
  <2>3. ASSUME NEW d \in Caller, WalletAccepts(d), Pay(run[d].items)
        PROVE  Contract!Transfer
    <3>1. run[d].items \cap Sent = {}
      BY <1>4, <2>1, <2>3 DEF WalletAccepts, BatchUnpaid
    <3>2. /\ DOMAIN paid' = DOMAIN paid
          /\ \A p \in DOMAIN paid : /\ paid'[p] = paid[p] + (IF p \in run[d].items THEN 1 ELSE 0)
                                    /\ paid[p] \in Nat
                                    /\ p \in run[d].items => ~(paid[p] > 0)
      BY <2>1, <2>3, <3>1 DEF Pay, Sent
    <3> QED BY <3>2 DEF Contract!Transfer
  <2>4. \A c \in Caller : ~ReplyLost(c)
    BY <1>4 DEF Undisturbed, ReplyLost, MaxFaults
  <2> QED BY <1>4, <2>1, <2>2, <2>3, <2>4, PaidStep DEF Contract!Next
<1> QED
  BY <1>1, <1>2, <1>3, <1>4, PayoutInvariant, PTL DEF Spec, KeepsContract, Contract!Spec

-----------------------------------------------------------------------------
(* Batches.                                                                 *)

\* a goes into the batch when the addresses S went before it: what pendingPayoutBatch
\* decides of each address, for any amounts and any order R of the list.
Fits(S, R, amt, budget, a) ==
    LET ahead == {b \in S : <<b, a>> \in R}
    IN  /\ amt[a] >= PayoutMin
        /\ Cardinality(ahead) < PayoutBatchLimit
        /\ budget < 0 \/ SumFunctionOnSet(amt, ahead) + amt[a] <= budget

\* S is what a walk of the list P collects.
Walked(P, R, amt, budget, S) == \A a \in P : a \in S <=> Fits(S, R, amt, budget, a)

\* What a walk decides of an address depends on the addresses before it only.
LEMMA FitsBefore ==
    ASSUME NEW S, NEW T, NEW R, NEW amt, NEW budget, NEW a,
           {b \in S : <<b, a>> \in R} = {b \in T : <<b, a>> \in R}
    PROVE  Fits(S, R, amt, budget, a) <=> Fits(T, R, amt, budget, a)
BY DEF Fits

\* Every walk collects something, walking one address further at a time...
LEMMA WalkExists ==
    ASSUME NEW P, IsFiniteSet(P), NEW R, NEW rank, Ranks(P, R, rank), NEW amt, NEW budget
    PROVE  \E S \in SUBSET P : Walked(P, R, amt, budget, S)
<1> DEFINE n == Cardinality(P)
           Leading(k) == {a \in P : rank[a] < k}
           Done(k, S) == S \subseteq Leading(k) /\ Walked(Leading(k), R, amt, budget, S)
           T == {k \in Nat : \E S \in SUBSET P : Done(k, S)}
<1>1. /\ n \in Nat
      /\ \A x \in P : rank[x] \in 0..(n - 1)
      /\ \A x, y \in P : <<x, y>> \in R => rank[x] < rank[y]
      /\ \A x, y \in P : x # y => <<x, y>> \in R \/ <<y, x>> \in R
  BY RankCount, FS_CardinalityType DEF Ranks
<1> HIDE DEF n
<1>2. 0 \in T
  <2>1. Leading(0) = {}
    BY <1>1
  <2>2. Done(0, {})
    BY <2>1 DEF Walked
  <2> HIDE DEF Done
  <2> QED BY <2>2
<1>3. ASSUME NEW k \in Nat, k \in T PROVE k + 1 \in T
  <2>1. PICK S \in SUBSET P : Done(k, S)
    BY <1>3
  <2>2. \A a \in P : a \in Leading(k + 1) <=> a \in Leading(k) \/ rank[a] = k
    BY <1>1
  <2>3. \A x, y \in P : rank[x] = k /\ rank[y] = k => x = y
    <3> SUFFICES ASSUME NEW x \in P, NEW y \in P, rank[x] = k, rank[y] = k, x # y
                 PROVE  FALSE
      OBVIOUS
    <3>1. ~(rank[x] < rank[y]) /\ ~(rank[y] < rank[x])
      OBVIOUS
    <3> QED BY <1>1, <3>1
  <2> DEFINE next == {a \in P : rank[a] = k /\ Fits(S, R, amt, budget, a)}
             U == S \cup next
  <2>4. ASSUME NEW a \in Leading(k + 1) PROVE {b \in U : <<b, a>> \in R} = {b \in S : <<b, a>> \in R}
    <3>1. ASSUME NEW b \in next PROVE <<b, a>> \notin R
      <4>1. a \in P /\ rank[a] < k + 1 /\ b \in P /\ rank[b] = k /\ rank[a] \in Int
        BY <1>1
      <4>2. ~(rank[b] < rank[a])
        BY <4>1
      <4> QED BY <1>1, <4>1, <4>2
    <3> QED BY <3>1
  <2>5. U \in SUBSET P /\ U \subseteq Leading(k + 1)
    BY <2>1, <2>2
  <2>6. ASSUME NEW a \in Leading(k + 1) PROVE a \in U <=> Fits(U, R, amt, budget, a)
    <3>1. Fits(U, R, amt, budget, a) <=> Fits(S, R, amt, budget, a)
      <4> HIDE DEF U, Leading
      <4> QED BY <2>4, FitsBefore
    <3>2. CASE a \in Leading(k)
      <4>1. a \in S <=> Fits(S, R, amt, budget, a)
        BY <2>1, <3>2 DEF Walked
      <4>2. a \notin next
        BY <1>1, <3>2
      <4> QED BY <3>1, <4>1, <4>2
    <3>3. CASE a \notin Leading(k)
      <4>1. rank[a] = k /\ a \in P
        BY <2>2, <3>3
      <4>2. a \notin S
        BY <2>1, <3>3
      <4> QED BY <3>1, <4>1, <4>2
    <3> QED BY <3>2, <3>3
  <2>7. Done(k + 1, U)
    BY <2>5, <2>6 DEF Walked
  <2>8. \E V \in SUBSET P : Done(k + 1, V)
    <3> HIDE DEF U, Done
    <3> QED BY <2>5, <2>7
  <2> HIDE DEF Done
  <2> QED BY <2>8
<1>4. n \in T
  <2> HIDE DEF T
  <2> QED BY <1>1, <1>2, <1>3, NatInduct
<1>5. Leading(n) = P
  BY <1>1
<1>6. PICK S \in SUBSET P : Done(n, S)
  BY <1>4
<1> QED BY <1>5, <1>6

\* ... and two walks of the same list with the same balance collect the same: they would
\* have to part at a first address.
LEMMA WalkUnique ==
    ASSUME NEW P, IsFiniteSet(P), NEW R, NEW rank, Ranks(P, R, rank), NEW amt, NEW budget,
           NEW S \in SUBSET P, NEW T \in SUBSET P,
           Walked(P, R, amt, budget, S), Walked(P, R, amt, budget, T)
    PROVE  S = T
<1> DEFINE D == {a \in P : ~(a \in S <=> a \in T)}
<1> SUFFICES ASSUME D # {} PROVE FALSE
  OBVIOUS
<1>1. PICK a \in D : \A b \in D : b # a => <<a, b>> \in R
  <2>1. D \in SUBSET P
    OBVIOUS
  <2> HIDE DEF D
  <2> QED BY <2>1, FirstAndLast
<1>2. ASSUME NEW b \in P, <<b, a>> \in R PROVE b \notin D
  BY <1>1, <1>2 DEF Ranks
<1>3. {b \in S : <<b, a>> \in R} = {b \in T : <<b, a>> \in R}
  BY <1>2
<1>4. Fits(S, R, amt, budget, a) <=> Fits(T, R, amt, budget, a)
  BY <1>3, FitsBefore
<1> QED BY <1>4 DEF Walked

\* What a walk collects keeps to the limit and to the balance, as its last address shows;
\* and a walk that collects nothing has met nothing it could collect.
LEMMA WalkLimits ==
    ASSUME NEW P, IsFiniteSet(P), NEW R, NEW rank, Ranks(P, R, rank),
           NEW amt, \A a \in P : amt[a] \in Nat, NEW budget \in Int,
           NEW S \in SUBSET P, Walked(P, R, amt, budget, S)
    PROVE  /\ Cardinality(S) <= PayoutBatchLimit
           /\ budget >= 0 => SumFunctionOnSet(amt, S) <= budget
           /\ \A a \in S : amt[a] >= PayoutMin /\ (budget >= 0 => amt[a] <= budget)
           /\ S = {} => \A a \in P : ~(amt[a] >= PayoutMin /\ (budget >= 0 => amt[a] <= budget))
<1> USE OptionAssumption
<1>1. \A T \in SUBSET S : /\ IsFiniteSet(T) /\ Cardinality(T) \in Nat
                          /\ SumFunctionOnSet(amt, T) \in Nat
  <2>1. ASSUME NEW T \in SUBSET S
        PROVE  /\ IsFiniteSet(T) /\ Cardinality(T) \in Nat
               /\ SumFunctionOnSet(amt, T) \in Nat
    <3>1. IsFiniteSet(T) /\ \A x \in T : amt[x] \in Nat
      BY FS_Subset
    <3> QED BY <3>1, SumNat, FS_CardinalityType
  <2> QED BY <2>1
<1>2. SumFunctionOnSet(amt, {}) = 0 /\ Cardinality({}) = 0
  BY SumEmpty, FS_EmptySet
<1>3. CASE S = {}
  <2>1. ASSUME NEW a \in P, amt[a] >= PayoutMin, budget >= 0 => amt[a] <= budget
        PROVE  FALSE
    <3> DEFINE ahead == {b \in S : <<b, a>> \in R}
               taken == SumFunctionOnSet(amt, ahead)
    <3>1. ahead = {}
      BY <1>3
    <3> HIDE DEF ahead
    <3>2. Cardinality(ahead) = 0 /\ taken = 0
      BY <1>2, <3>1
    <3>3. amt[a] \in Nat
      OBVIOUS
    <3>4. Cardinality(ahead) < PayoutBatchLimit
      BY <3>2
    <3>5. budget < 0 \/ taken + amt[a] <= budget
      <4> HIDE DEF taken
      <4> QED BY <2>1, <3>2, <3>3
    <3>6. Fits(S, R, amt, budget, a)
      BY <2>1, <3>4, <3>5 DEF Fits, ahead
    <3> QED BY <1>3, <3>6 DEF Walked
  <2> QED BY <1>2, <1>3, <2>1
<1>4. CASE S # {}
  <2>1. PICK z \in S : \A y \in S : y # z => <<y, z>> \in R
    BY <1>4, FirstAndLast
  <2> DEFINE ahead == {b \in S : <<b, z>> \in R}
  <2>2. ahead = S \ {z}
    BY <2>1 DEF Ranks
  <2>3. Fits(S, R, amt, budget, z)
    BY DEF Walked
  <2>4. /\ Cardinality(S \ {z}) < PayoutBatchLimit
        /\ budget < 0 \/ SumFunctionOnSet(amt, S \ {z}) + amt[z] <= budget
    BY <2>2, <2>3 DEF Fits
  <2>5. Cardinality(S \ {z}) = Cardinality(S) - 1
    BY <1>1, FS_RemoveElement
  <2>6. SumFunctionOnSet(amt, S) = amt[z] + SumFunctionOnSet(amt, S \ {z})
    <3>1. IsFiniteSet(S) /\ \A x \in S : amt[x] \in Int
      BY <1>1
    <3> QED BY <3>1, SumRemove
  <2>7. Cardinality(S) <= PayoutBatchLimit
    BY <1>1, <2>4, <2>5
  <2>8. budget >= 0 => SumFunctionOnSet(amt, S) <= budget
    BY <1>1, <2>4, <2>6
  <2>9. ASSUME NEW a \in S PROVE amt[a] >= PayoutMin /\ (budget >= 0 => amt[a] <= budget)
    <3> DEFINE before == {b \in S : <<b, a>> \in R}
    <3>1. amt[a] >= PayoutMin /\ (budget < 0 \/ SumFunctionOnSet(amt, before) + amt[a] <= budget)
      BY DEF Walked, Fits
    <3>2. SumFunctionOnSet(amt, before) \in Nat /\ amt[a] \in Nat
      BY <1>1
    <3> QED BY <3>1, <3>2
  <2> QED BY <1>4, <2>7, <2>8, <2>9
<1> QED BY <1>3, <1>4

\* What is pending to an address amounts to a natural number of atoms.
LEMMA PendingAmountType ==
    ASSUME NEW l, Sound(l), NEW a
    PROVE  PendingAmount(l, a) \in Nat
<1> DEFINE owed == {e \in (DOMAIN l.recent) \X Worker :
                       e[2] \in Unpaid(l.recent[e[1]]) /\ PayTo[e[2]] = a}
           f == [e \in owed |-> l.recent[e[1]].amount[e[2]]]
<1>1. IsFiniteSet(owed)
  <2>1. IsFiniteSet(DOMAIN l.recent)
    BY RoundsOfLedger, FS_Interval
  <2>2. IsFiniteSet((DOMAIN l.recent) \X Worker)
    BY <2>1, FS_Product, FiniteAssumption
  <2> QED BY <2>2, FS_Subset
<1>2. \A e \in owed : f[e] \in Nat
  BY RoundsOfLedger DEF SolvedRound
<1>3. PendingAmount(l, a) = SumFunctionOnSet(f, owed)
  BY DEF PendingAmount, SumFunction
<1> HIDE DEF owed, f
<1> QED BY <1>1, <1>2, <1>3, SumNat

\* Addresses are finitely many numbers.
LEMMA AddressFinite == Address \subseteq Nat /\ IsFiniteSet(Address)
<1> DEFINE f == [w \in Worker |-> PayTo[w]]
           A == {PayTo[w] : w \in Worker}
<1>1. f \in Surjection(Worker, A)
  BY DEF Surjection
<1>2. IsFiniteSet(A)
  <2> HIDE DEF f, A
  <2> QED BY <1>1, FS_Surjection, FiniteAssumption
<1>3. Address \subseteq A /\ A \subseteq Nat
  BY NamesAssumption DEF Address
<1> QED BY <1>2, <1>3, FS_Subset

\* The order of the list of payees, the amounts in it, and the place of each.
PayeeOrder(l) == {e \in Payees(l) \X Payees(l) : Ahead(l, e[1], e[2])}
PayeeAmount(l) == [a \in Payees(l) |-> PendingAmount(l, a)]
PayeeRank(l) == [a \in Payees(l) |-> Cardinality({b \in Payees(l) : <<b, a>> \in PayeeOrder(l)})]

\* The list of payees is sorted along a strict total order (pendingPayoutsLocked).
LEMMA PayeesRanked ==
    ASSUME NEW l, Sound(l)
    PROVE  Ranks(Payees(l), PayeeOrder(l), PayeeRank(l))
<1> DEFINE P == Payees(l)
           R == PayeeOrder(l)
<1>1. \A a \in P : a \in Int /\ PendingAmount(l, a) \in Int
  <2>1. \A a \in P : a \in Nat
    BY PayeesType, AddressFinite
  <2>2. \A a \in P : PendingAmount(l, a) \in Nat
    BY PendingAmountType
  <2> HIDE DEF P
  <2> QED BY <2>1, <2>2
<1>2. \A a, b \in P : <<a, b>> \in R <=> Ahead(l, a, b)
  BY DEF PayeeOrder
<1>3. \A a \in P : PayeeRank(l)[a] = Cardinality({b \in P : <<b, a>> \in R})
  BY DEF PayeeRank
<1> HIDE DEF P, R
<1>4. \A a \in P : <<a, a>> \notin R
  BY <1>1, <1>2 DEF Ahead
<1>5. \A a, b, c \in P : <<a, b>> \in R /\ <<b, c>> \in R => <<a, c>> \in R
  BY <1>1, <1>2 DEF Ahead
<1>6. \A a, b \in P : a # b => <<a, b>> \in R \/ <<b, a>> \in R
  BY <1>1, <1>2 DEF Ahead
<1> QED BY <1>3, <1>4, <1>5, <1>6 DEF Ranks, P, R

\* A batch is what a walk of the list of payees collects.
LEMMA BatchIsWalked ==
    ASSUME NEW l, Sound(l), NEW S \in SUBSET Payees(l), NEW budget
    PROVE  IsBatch(l, S, budget) <=> Walked(Payees(l), PayeeOrder(l), PayeeAmount(l), budget, S)
<1> DEFINE P == Payees(l)
           R == PayeeOrder(l)
           amt == PayeeAmount(l)
<1>1. ASSUME NEW a \in P
      PROVE  LET ahead == {b \in S : Ahead(l, b, a)}
             IN  Fits(S, R, amt, budget, a) <=>
                    /\ PendingAmount(l, a) >= PayoutMin
                    /\ Cardinality(ahead) < PayoutBatchLimit
                    /\ \/ budget < 0
                       \/ SumFunction([b \in ahead |-> PendingAmount(l, b)])
                              + PendingAmount(l, a) <= budget
  <2> DEFINE ahead == {b \in S : Ahead(l, b, a)}
             f == [b \in ahead |-> PendingAmount(l, b)]
  <2>1. {b \in S : <<b, a>> \in R} = ahead
    BY DEF PayeeOrder
  <2>2. SumFunction(f) = SumFunctionOnSet(f, ahead)
    BY DEF SumFunction
  <2>3. SumFunctionOnSet(f, ahead) = SumFunctionOnSet(amt, ahead)
    <3>1. \A b \in ahead : amt[b] \in Int /\ f[b] = amt[b]
      BY PendingAmountType DEF PayeeAmount
    <3>2. IsFiniteSet(ahead)
      BY PayeesType, AddressFinite, FS_Subset
    <3> HIDE DEF ahead, f, amt
    <3> QED BY <3>1, <3>2, SumEqual
  <2>4. amt[a] = PendingAmount(l, a)
    BY DEF PayeeAmount
  <2> HIDE DEF ahead, f, amt, R
  <2>5. Fits(S, R, amt, budget, a) <=>
           /\ PendingAmount(l, a) >= PayoutMin
           /\ Cardinality(ahead) < PayoutBatchLimit
           /\ budget < 0 \/ SumFunction(f) + PendingAmount(l, a) <= budget
    BY <2>1, <2>2, <2>3, <2>4 DEF Fits
  <2> QED BY <2>5 DEF ahead, f
<1> QED BY <1>1 DEF IsBatch, Walked

\* Whatever the ledger and the balance, there is exactly one batch; it keeps to the limit
\* and to the balance, pays only addresses at the threshold, and is empty only if no
\* address could be paid (pendingPayoutBatch).
THEOREM BatchesAlwaysFit == Spec => []BatchesFit
<1> DEFINE P == Payees(ledger)
           R == PayeeOrder(ledger)
           amt == PayeeAmount(ledger)
           batches(budget) == {S \in SUBSET P : IsBatch(ledger, S, budget)}
           payable(budget) == {a \in P : /\ PendingAmount(ledger, a) >= PayoutMin
                                         /\ budget >= 0 => PendingAmount(ledger, a) <= budget}
<1>1. ASSUME Sound(ledger), NEW budget \in Budget
      PROVE  /\ Cardinality(batches(budget)) = 1
             /\ \A S \in batches(budget) :
                   /\ S \subseteq payable(budget)
                   /\ Cardinality(S) <= PayoutBatchLimit
                   /\ budget >= 0 => SumFunction([a \in S |-> PendingAmount(ledger, a)]) <= budget
                   /\ S = {} => payable(budget) = {}
  <2>1. IsFiniteSet(P) /\ budget \in Int
    BY PayeesType, AddressFinite, FS_Subset, AmountAssumption
  <2>2. Ranks(P, R, PayeeRank(ledger))
    BY <1>1, PayeesRanked
  <2>3. \A a \in P : amt[a] = PendingAmount(ledger, a) /\ amt[a] \in Nat
    BY <1>1, PendingAmountType DEF PayeeAmount
  <2>4. \A S \in SUBSET P : S \in batches(budget) <=> Walked(P, R, amt, budget, S)
    BY <1>1, BatchIsWalked
  <2>5. Cardinality(batches(budget)) = 1
    <3> HIDE DEF P, R, amt, batches
    <3>1. PICK S \in SUBSET P : Walked(P, R, amt, budget, S)
      BY <2>1, <2>2, WalkExists
    <3>2. \A T \in SUBSET P : Walked(P, R, amt, budget, T) => T = S
      BY <2>1, <2>2, <3>1, WalkUnique
    <3>3. batches(budget) = {S}
      BY <2>4, <3>1, <3>2 DEF batches
    <3> QED BY <3>3, FS_Singleton
  <2>6. ASSUME NEW S \in batches(budget)
        PROVE  /\ S \subseteq payable(budget)
               /\ Cardinality(S) <= PayoutBatchLimit
               /\ budget >= 0 => SumFunction([a \in S |-> PendingAmount(ledger, a)]) <= budget
               /\ S = {} => payable(budget) = {}
    <3> DEFINE f == [a \in S |-> PendingAmount(ledger, a)]
    <3>1. S \in SUBSET P /\ Walked(P, R, amt, budget, S)
      BY <2>4
    <3>2. /\ Cardinality(S) <= PayoutBatchLimit
          /\ budget >= 0 => SumFunctionOnSet(amt, S) <= budget
          /\ \A a \in S : amt[a] >= PayoutMin /\ (budget >= 0 => amt[a] <= budget)
          /\ S = {} => \A a \in P : ~(amt[a] >= PayoutMin /\ (budget >= 0 => amt[a] <= budget))
      <4> HIDE DEF P, R, amt
      <4> QED BY <2>1, <2>2, <2>3, <3>1, WalkLimits
    <3>3. SumFunction(f) = SumFunctionOnSet(amt, S)
      <4>1. SumFunction(f) = SumFunctionOnSet(f, S)
        BY DEF SumFunction
      <4>2. \A a \in S : amt[a] \in Int /\ f[a] = amt[a]
        BY <2>3, <3>1
      <4>3. IsFiniteSet(S)
        BY <2>1, <3>1, FS_Subset
      <4> HIDE DEF f, amt
      <4> QED BY <4>1, <4>2, <4>3, SumEqual
    <3> HIDE DEF amt
    <3> QED BY <2>3, <3>1, <3>2, <3>3
  <2> QED BY <2>5, <2>6
<1>2. ASSUME TypeInv PROVE BatchesFit
  <2>1. Sound(ledger)
    BY <1>2 DEF TypeInv, Copies
  <2> QED BY <1>1, <2>1 DEF BatchesFit
<1> QED BY <1>2, TypeInit, TypeStep, PTL DEF Spec
=============================================================================
