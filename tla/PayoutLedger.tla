----------------------------- MODULE PayoutLedger -----------------------------
(***************************************************************************)
(* The pool's share and payout ledger (internal/service/service.go) with   *)
(* its persistence (persistence.go): stratum sessions record shares and    *)
(* solved blocks, callers of TryAutoPayout (the Run loop and the admin     *)
(* API) pay what is pending through a wallet, an operator pays by hand and *)
(* posts the transaction to /payouts/execute, and every change is written  *)
(* to disk after the service mutex has been released.                      *)
(*                                                                         *)
(* Each action is one critical section of Service.mu, one request to the   *)
(* wallet, or one critical section of persistMu.  Between two of them any  *)
(* other process may run, and the program may stop and start again.        *)
(*                                                                         *)
(* Worker names, and the addresses they pay to, are numbers; what the code *)
(* orders by name is ordered by number.                                    *)
(***************************************************************************)
EXTENDS PayoutSplit, Sequences

CONSTANTS
    Worker,           \* worker names that submit shares
    PayTo,            \* the payout address in each worker's name, or NoAddress
    Payable,          \* the addresses the wallet accepts
    Session,          \* stratum connections, each served by a goroutine
    Caller,           \* goroutines that may call TryAutoPayout
    RunLoop,          \* those of them that are Service.Run, which keeps calling
    Operator,         \* operators that pay by hand
    ShareWork,        \* the work a share may carry
    Reward,           \* what NextSubsidy.Miner may be, in atoms
    Height,           \* heights pacd may report for a found block (0: none)
    Budget,           \* SpendableBalance replies; negative: no balance source
    FeeBPS,           \* pool fee, in 1/10000
    PayoutMin,        \* threshold of an address, in atoms
    PayoutBatchLimit, \* addresses in one batch
    StartHeight,      \* payoutStartHeight
    MaxRecentRounds,  \* solved rounds kept
    MaxPayments       \* payment records kept (50 in the code)

NoAddress == 0
Address == {PayTo[w] : w \in Worker} \ {NoAddress}

ASSUME NamesAssumption ==
    /\ Worker \subseteq Nat /\ PayTo \in [Worker -> Nat]
    /\ Payable \subseteq Nat

ASSUME FiniteAssumption == IsFiniteSet(Worker)

ASSUME ProcessAssumption ==
    /\ Session \cap Caller = {} /\ Session \cap Operator = {}
    /\ Caller \cap Operator = {} /\ RunLoop \subseteq Caller

ASSUME AmountAssumption ==
    /\ ShareWork \subseteq Nat \ {0} /\ Reward \subseteq Nat
    /\ Height \subseteq Nat /\ Budget \subseteq Int

ASSUME OptionAssumption ==
    /\ FeeBPS \in Nat /\ PayoutMin \in Nat /\ StartHeight \in Nat
    /\ PayoutBatchLimit \in Nat \ {0}
    /\ MaxRecentRounds \in Nat \ {0} /\ MaxPayments \in Nat \ {0}

CONSTANTS
    MaxBlocks,        \* bound: blocks the pool finds
    MaxWork,          \* bound: work of one round
    MaxCrashes,       \* bound: restarts
    MaxLostReplies,   \* bound: payments whose reply is lost
    MaxWriteErrors    \* bound: failed writes

VARIABLES
    ledger,      \* what Service.mu guards: rounds, next round ID, payments
    disk,        \* share-state.json
    unsaved,     \* per process: the snapshot it has yet to write, if any
    ledgerError, \* whether LastLedgerError is set
    payoutMu,    \* the callers past payoutMu.TryLock
    run,         \* per caller: its TryAutoPayout in progress
    autoError,   \* AutoPayout.LastError
    handPaid,    \* operators that have paid by hand and not posted it yet
    found,       \* number of blocks the pool has found; names the next one
    paid,        \* history: how many transactions have paid each payout earned
    faults       \* history: how often each kind of fault has happened

memVars == <<ledger, unsaved>>
payoutVars == <<payoutMu, run, autoError, handPaid>>
historyVars == <<found, paid>>
vars == <<ledger, disk, unsaved, ledgerError, payoutMu, run, autoError,
          handPaid, found, paid, faults>>

Process == Session \cup Caller \cup Operator
FaultKind == {"crash", "lost", "write"}
MaxFaults == [crash |-> MaxCrashes, lost |-> MaxLostReplies, write |-> MaxWriteErrors]

-----------------------------------------------------------------------------
(* Rounds, payouts and payments.                                            *)

\* One worker's payout of one solved round.
Payout == [block : Nat, worker : Worker]

CurrentRound == [id : Nat, work : [Worker -> Nat], shares : [Worker -> Nat], total : Nat]

SolvedRound == [id : Nat, block : Nat, height : Nat, amount : [Worker -> Nat],
                entries : SUBSET Worker, settled : SUBSET Worker, paid : BOOLEAN]

Payment == [to : SUBSET Address, rounds : SUBSET Nat]

Ledger == [next : Nat, current : CurrentRound, recent : Seq(SolvedRound),
           payments : Seq(Payment)]

\* The payouts of the workers S in round r.
PayoutsOf(r, S) == {[block |-> r.block, worker |-> w] : w \in S}

\* newRoundLocked
NewRound(id) == [id |-> id, work |-> [w \in Worker |-> 0],
                 shares |-> [w \in Worker |-> 0], total |-> 0]

\* The ledger of a data directory without a snapshot (New).
EmptyLedger == [next |-> 1, current |-> NewRound(1), recent |-> <<>>, payments |-> <<>>]

MutantPushUntrimmed(x, s, n) == <<x>> \o s

\* The list s with x put in front, cut to its first n elements.
Push(x, s, n) == LET all == <<x>> \o s
                 IN  SubSeq(all, 1, IF Len(all) < n THEN Len(all) ELSE n)

\* applyShareToRoundLocked
ApplyShare(l, w, work) ==
    LET round == l.current
    IN  [l EXCEPT !.current = [id |-> round.id,
                               work |-> [round.work EXCEPT ![w] = @ + work],
                               shares |-> [round.shares EXCEPT ![w] = @ + 1],
                               total |-> round.total + work]]

\* finalizeRoundPayoutLocked: the reward less the pool fee.
Distributable(reward) ==
    LET d == reward - (reward * FeeBPS) \div 10000 IN IF d < 0 THEN 0 ELSE d

\* The round RecordSolvedBlock files when the current round ends with a block.
SolvedRoundOf(round, block, height, reward) ==
    LET d == Distributable(reward)
        rank == LiveRank(round.work, round.shares)
    IN  [id |-> round.id, block |-> block, height |-> height,
         entries |-> PayoutWorkers(round.work, round.total, d),
         amount |-> CalculatePayouts(round.work, rank, round.total, d, {}),
         settled |-> {}, paid |-> FALSE]

CloseRound(l, block, height, reward) ==
    [l EXCEPT !.recent = Push(SolvedRoundOf(l.current, block, height, reward), @,
                              MaxRecentRounds),
              !.next = @ + 1,
              !.current = NewRound(l.next + 1)]

\* payoutRoundEligible: height 0 stands for a height pacd did not report.
Eligible(r) == StartHeight = 0 \/ r.height >= StartHeight

MutantUnpaidIgnoresMarks(r) ==
    {w \in r.entries : ~r.paid /\ Eligible(r) /\ PayTo[w] # NoAddress}

\* The workers of a round whose payouts can still be paid and marked.
Unpaid(r) ==
    {w \in r.entries \ r.settled : ~r.paid /\ Eligible(r) /\ PayTo[w] # NoAddress}

\* roundFullyPaid
FullyPaid(r) == r.entries # {} /\ \A w \in r.entries : r.amount[w] > 0 => w \in r.settled

\* pendingPayoutsLocked: the unpaid payouts, by address.
PendingTo(l, a) ==
    UNION {PayoutsOf(l.recent[i], {w \in Unpaid(l.recent[i]) : PayTo[w] = a}) :
               i \in DOMAIN l.recent}

Payees(l) == {a \in Address : PendingTo(l, a) # {}}

PendingOf(l, to) == UNION {PendingTo(l, a) : a \in to}

PendingAmount(l, a) ==
    LET owed == {e \in (DOMAIN l.recent) \X Worker :
                    e[2] \in Unpaid(l.recent[e[1]]) /\ PayTo[e[2]] = a}
    IN  SumFunction([e \in owed |-> l.recent[e[1]].amount[e[2]]])

\* The order of pendingPayoutsLocked: larger amounts first, then by name.
Ahead(l, a, b) == \/ PendingAmount(l, a) > PendingAmount(l, b)
                  \/ PendingAmount(l, a) = PendingAmount(l, b) /\ a < b

\* pendingPayoutBatch: the list is walked in order; an address below the threshold
\* or beyond what is left of the budget is passed over, and the walk ends when the
\* batch is full.  S is the set of addresses it collects.
MutantBatchOffByOne(l, S, budget) ==
    \A a \in Payees(l) :
        LET ahead == {b \in S : Ahead(l, b, a)}
        IN  a \in S <=>
              /\ PendingAmount(l, a) >= PayoutMin
              /\ Cardinality(ahead) <= PayoutBatchLimit
              /\ \/ budget < 0
                 \/ SumFunction([b \in ahead |-> PendingAmount(l, b)])
                        + PendingAmount(l, a) <= budget

IsBatch(l, S, budget) ==
    \A a \in Payees(l) :
        LET ahead == {b \in S : Ahead(l, b, a)}
        IN  a \in S <=>
              /\ PendingAmount(l, a) >= PayoutMin
              /\ Cardinality(ahead) < PayoutBatchLimit
              /\ \/ budget < 0
                 \/ SumFunction([b \in ahead |-> PendingAmount(l, b)])
                        + PendingAmount(l, a) <= budget

MutantMarksWholeRound(r, to) ==
    IF r.paid \/ ~Eligible(r) THEN r
    ELSE [r EXCEPT !.settled = @ \cup {w \in Unpaid(r) : PayTo[w] \in to}, !.paid = TRUE]

MutantMarksReplaced(r, to) ==
    IF r.paid \/ ~Eligible(r) THEN r
    ELSE [r EXCEPT !.settled = {w \in Unpaid(r) : PayTo[w] \in to}]

\* executePayoutsLocked, one round: every unpaid payout to a selected address.
MarkRound(r, to) ==
    LET marked == [r EXCEPT !.settled = @ \cup {w \in Unpaid(r) : PayTo[w] \in to}]
    IN  IF r.paid \/ ~Eligible(r) THEN r
        ELSE [marked EXCEPT !.paid = FullyPaid(marked)]

\* The rounds in which it marks something.
Touched(l, to) ==
    {i \in DOMAIN l.recent : \E w \in Unpaid(l.recent[i]) : PayTo[w] \in to}

MutantTouchedAfterMarking(l, to) ==
    LET marked == [i \in DOMAIN l.recent |-> MarkRound(l.recent[i], to)]
    IN  [l EXCEPT !.recent = marked,
                  !.payments = Push([to |-> to,
                                     rounds |-> {l.recent[i].id : i \in
                                        Touched([l EXCEPT !.recent = marked], to)}],
                                    @, MaxPayments)]

\* executePayoutsLocked, the whole ledger, when some round is touched.
MarkPaid(l, to) ==
    [l EXCEPT !.recent = [i \in DOMAIN l.recent |-> MarkRound(l.recent[i], to)],
              !.payments = Push([to |-> to, rounds |-> {l.recent[i].id : i \in Touched(l, to)}],
                                @, MaxPayments)]

-----------------------------------------------------------------------------
(* Initial state, and what stratum sessions do.                             *)

\* No TryAutoPayout in progress.
Idle == [pc |-> "idle", to |-> {}, items |-> {}]

\* Lists keep to their limits.
WithinLimits(l) == Len(l.recent) <= MaxRecentRounds /\ Len(l.payments) <= MaxPayments

\* The types of the variables, and the limits of the lists (MaxRecentRounds, the 50
\* payments of executePayoutsLocked).
TypeOK ==
    /\ ledger \in Ledger /\ disk \in Ledger
    /\ unsaved \in [Process -> SUBSET Ledger]
    /\ WithinLimits(ledger) /\ WithinLimits(disk)
    /\ ledgerError \in BOOLEAN
    /\ payoutMu \subseteq Caller
    /\ run \in [Caller -> [pc : {"idle", "locked", "sending", "sent", "saving"},
                            to : SUBSET Address, items : SUBSET Payout]]
    /\ autoError \in {"", "balance", "waiting", "wallet", "unmarked"}
    /\ handPaid \subseteq Operator
    /\ found \in Nat
    /\ DOMAIN paid \subseteq Payout /\ paid \in [DOMAIN paid -> Nat]
    /\ faults \in [FaultKind -> Nat]

Init ==
    /\ ledger = EmptyLedger /\ disk = EmptyLedger
    /\ unsaved = [p \in Process |-> {}]
    /\ ledgerError = FALSE
    /\ payoutMu = {}
    /\ run = [c \in Caller |-> Idle]
    /\ autoError = ""
    /\ handPaid = {}
    /\ found = 0 /\ paid = [p \in {} |-> 0]
    /\ faults = [k \in FaultKind |-> 0]

\* Process p leaves the critical section of mu with a new ledger l and a copy of
\* it to write.
Update(p, l) == ledger' = l /\ unsaved' = [unsaved EXCEPT ![p] = {l}]

\* RecordShare up to its unlock, for an accepted share (bounded by MaxWork).
RecordShare(s, w, work) ==
    /\ unsaved[s] = {}
    /\ ledger.current.total + work <= MaxWork
    /\ Update(s, ApplyShare(ledger, w, work))
    /\ UNCHANGED <<disk, ledgerError, payoutVars, historyVars, faults>>

\* RecordShare up to its unlock, for a rejected share: no round changes, and the
\* snapshot is written all the same.
RecordRejectedShare(s) ==
    /\ unsaved[s] = {}
    /\ Update(s, ledger)
    /\ UNCHANGED <<disk, ledgerError, payoutVars, historyVars, faults>>

\* RecordSolvedBlock up to its unlock (bounded by MaxBlocks).
RecordSolvedBlock(s, height, reward) ==
    /\ unsaved[s] = {}
    /\ found < MaxBlocks
    /\ found' = found + 1
    /\ Update(s, CloseRound(ledger, found + 1, height, reward))
    /\ LET round == ledger'.recent[1]
       IN  paid' = [p \in DOMAIN paid \cup PayoutsOf(round, round.entries) |->
                       IF p \in DOMAIN paid THEN paid[p] ELSE 0]
    /\ UNCHANGED <<disk, ledgerError, payoutVars, faults>>

-----------------------------------------------------------------------------
(* TryAutoPayout.                                                           *)

MutantKeepsLock(c) == run' = [run EXCEPT ![c] = Idle] /\ UNCHANGED payoutMu

\* Caller c returns, releasing payoutMu.
Return(c) == run' = [run EXCEPT ![c] = Idle] /\ payoutMu' = payoutMu \ {c}

MutantIgnoresLock(c) ==
    /\ run[c].pc = "idle"
    /\ payoutMu' = payoutMu \cup {c}
    /\ run' = [run EXCEPT ![c].pc = "locked"]
    /\ UNCHANGED <<memVars, disk, ledgerError, autoError, handPaid, historyVars, faults>>

\* TryLock succeeds and the payout window is open; otherwise the call returns and
\* nothing changes.
BeginPayout(c) ==
    /\ run[c].pc = "idle" /\ payoutMu = {}
    /\ payoutMu' = {c}
    /\ run' = [run EXCEPT ![c].pc = "locked"]
    /\ UNCHANGED <<memVars, disk, ledgerError, autoError, handPaid, historyVars, faults>>

\* SpendableBalance fails.
BalanceFails(c) ==
    /\ run[c].pc = "locked"
    /\ Return(c) /\ autoError' = "balance"
    /\ UNCHANGED <<memVars, disk, ledgerError, handPaid, historyVars, faults>>

\* pendingPayoutBatch finds nothing to send.
NothingToSend(c, budget) ==
    /\ run[c].pc = "locked"
    /\ IsBatch(ledger, {}, budget)
    /\ Return(c) /\ autoError' = (IF budget < 0 THEN autoError ELSE "waiting")
    /\ UNCHANGED <<memVars, disk, ledgerError, handPaid, historyVars, faults>>

\* pendingPayoutBatch collects the addresses S, and SendPayouts is called with
\* their pending amounts, leaving out amounts of 0.
SelectBatch(c, S, budget) ==
    /\ run[c].pc = "locked"
    /\ S # {} /\ S \subseteq Payees(ledger) /\ IsBatch(ledger, S, budget)
    /\ run' = [run EXCEPT ![c] =
                  [pc |-> "sending", to |-> S,
                   items |-> PendingOf(ledger, {a \in S : PendingAmount(ledger, a) > 0})]]
    /\ autoError' = ""
    /\ UNCHANGED <<memVars, disk, ledgerError, payoutMu, handPaid, historyVars, faults>>

\* A transaction pays the given payouts.
Pay(items) == paid' = [p \in DOMAIN paid |-> paid[p] + (IF p \in items THEN 1 ELSE 0)]

\* The wallet can pay this batch.
Sendable(items) == items # {} /\ \A i \in items : PayTo[i.worker] \in Payable

\* The wallet pays the batch and its reply arrives.
WalletAccepts(c) ==
    /\ run[c].pc = "sending" /\ Sendable(run[c].items)
    /\ Pay(run[c].items)
    /\ run' = [run EXCEPT ![c].pc = "sent"]
    /\ UNCHANGED <<memVars, disk, ledgerError, payoutMu, autoError, handPaid, found, faults>>

\* SendPayouts fails and nothing was paid.
WalletRejects(c) ==
    /\ run[c].pc = "sending"
    /\ Return(c) /\ autoError' = "wallet"
    /\ UNCHANGED <<memVars, disk, ledgerError, handPaid, historyVars, faults>>

\* The wallet pays the batch and SendPayouts still returns an error: a timeout, the
\* admin's request cancelled, a reply that cannot be read or has no txid.
ReplyLost(c) ==
    /\ run[c].pc = "sending" /\ Sendable(run[c].items)
    /\ faults["lost"] < MaxFaults["lost"]
    /\ Pay(run[c].items)
    /\ Return(c) /\ autoError' = "wallet"
    /\ faults' = [faults EXCEPT !["lost"] = @ + 1]
    /\ UNCHANGED <<memVars, disk, ledgerError, handPaid, found>>

\* ExecutePayoutBatch up to its unlock: what is pending now to the addresses of the
\* batch is marked paid.
ExecutePayoutBatch(c) ==
    /\ run[c].pc = "sent" /\ Touched(ledger, run[c].to) # {}
    /\ Update(c, MarkPaid(ledger, run[c].to))
    /\ run' = [run EXCEPT ![c].pc = "saving"]
    /\ UNCHANGED <<disk, ledgerError, payoutMu, autoError, handPaid, historyVars, faults>>

\* ExecutePayoutBatch finds nothing to mark.
NothingToMark(c) ==
    /\ run[c].pc = "sent" /\ Touched(ledger, run[c].to) = {}
    /\ Return(c) /\ autoError' = "unmarked"
    /\ UNCHANGED <<memVars, disk, ledgerError, handPaid, historyVars, faults>>

-----------------------------------------------------------------------------
(* Payouts by hand.                                                         *)

\* An operator reads /payouts and pays every pending amount.
OperatorPays(o) ==
    /\ o \notin handPaid /\ unsaved[o] = {} /\ Payees(ledger) # {}
    /\ Pay(PendingOf(ledger, Payees(ledger)))
    /\ handPaid' = handPaid \cup {o}
    /\ UNCHANGED <<memVars, disk, ledgerError, payoutMu, run, autoError, found, faults>>

\* ExecutePayouts with the operator's txid, up to its unlock: everything pending now
\* is marked paid.
ExecutePayouts(o) ==
    /\ o \in handPaid
    /\ handPaid' = handPaid \ {o}
    /\ IF Payees(ledger) = {} THEN UNCHANGED memVars
                              ELSE Update(o, MarkPaid(ledger, Payees(ledger)))
    /\ UNCHANGED <<disk, ledgerError, payoutMu, run, autoError, historyVars, faults>>

-----------------------------------------------------------------------------
(* Persistence and restarts.                                                *)

\* Process p goes on after persistShareUpdate; a caller then returns from
\* TryAutoPayout through setAutoPayoutSuccess.
Saved(p) ==
    /\ unsaved' = [unsaved EXCEPT ![p] = {}]
    /\ IF p \in Caller THEN Return(p) /\ autoError' = ""
                       ELSE UNCHANGED <<run, payoutMu, autoError>>

\* persistShareUpdate: under persistMu the snapshot p took replaces the file.
Persist(p) ==
    /\ \E snapshot \in unsaved[p] : disk' = snapshot
    /\ Saved(p)
    /\ ledgerError' = FALSE
    /\ UNCHANGED <<ledger, handPaid, historyVars, faults>>

\* persistShareUpdate fails to append or to write: the snapshot is dropped.
PersistFails(p) ==
    /\ unsaved[p] # {}
    /\ faults["write"] < MaxFaults["write"]
    /\ Saved(p)
    /\ ledgerError' = TRUE
    /\ faults' = [faults EXCEPT !["write"] = @ + 1]
    /\ UNCHANGED <<ledger, disk, handPaid, historyVars>>

MutantForgetsNextRound == [disk EXCEPT !.next = @ + 1]

\* loadShareState: what a start makes of the file.
LoadShareState == disk

\* The program stops, at any point, and starts again.
Restart ==
    /\ faults["crash"] < MaxFaults["crash"]
    /\ faults' = [faults EXCEPT !["crash"] = @ + 1]
    /\ ledger' = LoadShareState
    /\ unsaved' = [p \in Process |-> {}]
    /\ ledgerError' = FALSE
    /\ payoutMu' = {} /\ run' = [c \in Caller |-> Idle] /\ autoError' = ""
    /\ UNCHANGED <<disk, handPaid, historyVars>>

-----------------------------------------------------------------------------
SessionStep(s) ==
    \/ \E w \in Worker, work \in ShareWork : RecordShare(s, w, work)
    \/ RecordRejectedShare(s)
    \/ \E height \in Height, reward \in Reward : RecordSolvedBlock(s, height, reward)

CallerStep(c) ==
    \/ BeginPayout(c)
    \/ BalanceFails(c)
    \/ \E budget \in Budget : NothingToSend(c, budget)
    \/ \E budget \in Budget, S \in SUBSET Address : SelectBatch(c, S, budget)
    \/ WalletAccepts(c)
    \/ WalletRejects(c)
    \/ ReplyLost(c)
    \/ ExecutePayoutBatch(c)
    \/ NothingToMark(c)

OperatorStep(o) == OperatorPays(o) \/ ExecutePayouts(o)

PersistStep(p) == Persist(p) \/ PersistFails(p)

Next ==
    \/ \E s \in Session : SessionStep(s)
    \/ \E c \in Caller : CallerStep(c)
    \/ \E o \in Operator : OperatorStep(o)
    \/ \E p \in Process : PersistStep(p)
    \/ Restart

Spec == Init /\ [][Next]_vars

-----------------------------------------------------------------------------
(* Safety.                                                                  *)

\* Every copy of the ledger: in memory, on disk, and waiting to be written.
Copies == {ledger, disk} \cup UNION {unsaved[p] : p \in Process}

\* The payouts marked paid in the rounds a ledger still keeps.
SettledPayouts(l) ==
    UNION {PayoutsOf(l.recent[i], l.recent[i].settled) : i \in DOMAIN l.recent}

\* The payouts some transaction has paid.
Sent == {p \in DOMAIN paid : paid[p] > 0}

\* Nothing has happened that can separate what was sent from what was recorded: no
\* restart and no lost reply.
Undisturbed == faults["crash"] = 0 /\ faults["lost"] = 0

\* Round numbers are handed out without gaps or repetition in every copy of the
\* ledger, and no block is filed twice, also after a restart from an old copy
\* (RecordSolvedBlock, newRoundLocked, loadShareState).
RoundsInOrder ==
    \A l \in Copies :
        /\ l.current.id = l.next
        /\ \A i \in DOMAIN l.recent : l.recent[i].id = l.next - i
        /\ \A i, j \in DOMAIN l.recent : i < j => l.recent[i].block > l.recent[j].block

\* A round's Paid flag, which hides the round from every later payout, is set exactly
\* when payouts of the round have been marked and all that amount to something
\* are (executePayoutsLocked, roundFullyPaid).
PaidWhenSettled ==
    \A l \in Copies : \A i \in DOMAIN l.recent :
        LET r == l.recent[i]
        IN  /\ r.paid => FullyPaid(r)
            /\ r.settled # {} /\ FullyPaid(r) => r.paid

\* What the payment records w settles of round r.
Explained(l, r) ==
    {w \in r.entries : PayTo[w] # NoAddress /\ \E k \in DOMAIN l.payments :
                            r.id \in l.payments[k].rounds /\ PayTo[w] \in l.payments[k].to}

\* As long as no payment record has been trimmed, the records and the marks tell the
\* same story in every copy: a payout is marked exactly when some record lists its
\* round and its address.  pacpool-rebuild restores marks from records and relies
\* on it (executePayoutsLocked; applyRetainedPayments of cmd/pacpool-rebuild).
PaymentsExplainSettled ==
    \A l \in Copies : Len(l.payments) < MaxPayments =>
        \A i \in DOMAIN l.recent : l.recent[i].settled = Explained(l, l.recent[i])

\* A batch chosen under the read lock is sent, and later marked, without a lock.
\* Unless operators pay by hand meanwhile, none of its payouts gets marked
\* before its own transaction marks it (TryAutoPayout, payoutMu).
BatchStillOwed ==
    Operator = {} =>
        \A c \in Caller : run[c].pc \in {"sending", "sent"} =>
            run[c].items \cap SettledPayouts(ledger) = {}

\* Once no payout is on its way, nothing that was paid is still pending, so that
\* nothing will be paid again, by callers or by operators (TryAutoPayout,
\* ExecutePayouts).
PaidNotPending ==
    Undisturbed /\ payoutMu = {} /\ handPaid = {} =>
        Sent \cap PendingOf(ledger, Payees(ledger)) = {}

\* No payout is paid by two transactions, unless the program restarted, a reply of
\* the wallet was lost, or operators pay by hand (TryAutoPayout, payoutMu).
PaidOnce == Undisturbed /\ Operator = {} => \A p \in DOMAIN paid : paid[p] <= 1

\* Whatever the ledger and the balance, exactly one batch can be chosen; it keeps to
\* the limit and to the balance, pays only addresses at the threshold, and is empty
\* only when no such address can be paid from the balance (pendingPayoutBatch).
BatchesFit ==
    \A budget \in Budget :
        LET batches == {S \in SUBSET Payees(ledger) : IsBatch(ledger, S, budget)}
            Total(S) == SumFunction([a \in S |-> PendingAmount(ledger, a)])
            payable == {a \in Payees(ledger) :
                           /\ PendingAmount(ledger, a) >= PayoutMin
                           /\ budget >= 0 => PendingAmount(ledger, a) <= budget}
        IN  /\ Cardinality(batches) = 1
            /\ \A S \in batches :
                   /\ S \subseteq payable
                   /\ Cardinality(S) <= PayoutBatchLimit
                   /\ budget >= 0 => Total(S) <= budget
                   /\ S = {} => payable = {}

\* The payouts marked paid in the rounds that stay in the list keep their marks, and
\* the rounds their amounts, unless the step is a restart.
KeepsSettled ==
    faults'["crash"] = faults["crash"] =>
        \A i \in DOMAIN ledger.recent, j \in DOMAIN ledger'.recent :
            ledger.recent[i].id = ledger'.recent[j].id =>
                /\ ledger.recent[i].settled \subseteq ledger'.recent[j].settled
                /\ ledger.recent[i].amount = ledger'.recent[j].amount

\* Outside a restart, a payout marked paid stays marked, and no amount of a solved
\* round changes, for as long as the round is kept (RecordSolvedBlock,
\* executePayoutsLocked).
SettledIsFinal == [][KeepsSettled]_vars

\* When every snapshot has been written and no error is shown, the disk holds the
\* ledger: a restart then loses nothing (persistShareUpdate, loadShareState).
DiskIsCurrent ==
    (\A p \in Process : unsaved[p] = {}) /\ ~ledgerError => disk = ledger

\* A payout that amounts to something is marked paid only if a transaction has paid
\* it (ExecutePayoutBatch, ExecutePayouts).
MarkedWasSent ==
    \A i \in DOMAIN ledger.recent :
        LET r == ledger.recent[i]
        IN  PayoutsOf(r, {w \in r.settled : r.amount[w] > 0}) \subseteq Sent

\* As long as there is no restart, no lost reply and no payment by hand, the ledger
\* keeps the pool's promise: the payouts of a block are earned once, and each is
\* paid by one transaction at most (TryAutoPayout, RecordSolvedBlock).
Contract == INSTANCE PayoutContract WITH Payout <- Payout, paid <- paid
KeepsContract == Contract!Spec

-----------------------------------------------------------------------------
(* Liveness.                                                                *)

\* The Run loop's ticker keeps calling; calls and writes that were begun go on; and
\* a wallet that keeps being asked is sometimes funded and sometimes pays.
Fairness ==
    /\ \A c \in RunLoop : WF_vars(BeginPayout(c))
    /\ \A c \in Caller :
        /\ SF_vars(\E S \in SUBSET Address : SelectBatch(c, S, -1))
        /\ WF_vars(run[c].pc = "locked" /\ CallerStep(c))
        /\ WF_vars(run[c].pc = "sending" /\ CallerStep(c))
        /\ SF_vars(WalletAccepts(c))
        /\ WF_vars(ExecutePayoutBatch(c) \/ NothingToMark(c))
    /\ \A p \in Process : WF_vars(PersistStep(p))

FairSpec == Spec /\ Fairness

\* An address of the wallet's that has reached the threshold does not stay there: in
\* the end what is pending to it is marked paid, whatever happens to single
\* attempts (TryAutoPayout on the Run loop's ticker).
ThresholdIsPaid ==
    \A a \in Address \cap Payable :
        PendingAmount(ledger, a) >= PayoutMin ~> PendingAmount(ledger, a) < PayoutMin
=============================================================================
