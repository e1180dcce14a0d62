---------------------------- MODULE LedgerRebuild ----------------------------
(***************************************************************************)
(* The ledger with its event log share-events.jsonl, and the tool that     *)
(* rebuilds the ledger from the two files of the data directory            *)
(* (cmd/pacpool-rebuild): it replays the log and restores the marks from   *)
(* the payment records that the snapshot still has.                        *)
(*                                                                         *)
(* An operation makes its event in its critical section of Service.mu and  *)
(* appends it under persistMu, just before it writes its snapshot.  The    *)
(* log therefore has the order of persistMu, not that of the ledger.       *)
(* Events that the tool passes over (executed payouts) are left out, and   *)
(* so are rejected shares, which change neither ledger nor replay.         *)
(***************************************************************************)
EXTENDS PayoutLedger, SequencesExt

CONSTANTS
    BaseSubsidy,       \* baseSubsidy
    MinerRewardPct,    \* minerRewardPct
    ReductionInterval, \* reductionInterval
    WorkerDifficulty   \* the difficulties a worker can have (ws.Difficulty)

CONSTANT MaxEvents   \* bound: events in the log

ASSUME SubsidyAssumption ==
    BaseSubsidy \in Nat /\ MinerRewardPct \in 0..100 /\ ReductionInterval \in Nat \ {0}

\* RecordShare replaces a difficulty that is not positive by the pool's.
ASSUME WorkerDifficultyAssumption == WorkerDifficulty \subseteq Nat \ {0}

VARIABLES
    log,      \* share-events.jsonl
    event,    \* per process: the event it has yet to append, if any, with its age
    faithful, \* history: the log has every share and block of the ledger, once all is
              \* appended, and every reward is that of the block's height
    weighed   \* history: the ledger weighs every share as its event does

rebuildVars == <<vars, log, event, faithful, weighed>>

\* A share has a difficulty and no block; a solved block has no difficulty, and the
\* height pacd reported.
Event == [worker : Worker, difficulty : Nat, block : Nat, height : Nat]

Replayable == <<log, event, faithful, weighed>>

-----------------------------------------------------------------------------
(* The tool.                                                                *)

\* The subsidy after n reductions.
SubsidyAfter[n \in Nat] ==
    IF n = 0 THEN BaseSubsidy ELSE (SubsidyAfter[n - 1] * 100) \div 101

MinerRewardAtHeight(height) ==
    IF height = 0 THEN 0
    ELSE (SubsidyAfter[height \div ReductionInterval] * MinerRewardPct) \div 100

\* finalizeRound: the live round's computation over workers sorted by name, with the
\* reward of the block's height.
RebuiltRound(round, block, height) ==
    LET d == Distributable(MinerRewardAtHeight(height))
    IN  [id |-> round.id, block |-> block, height |-> height,
         entries |-> PayoutWorkers(round.work, round.total, d),
         amount |-> CalculatePayouts(round.work, RebuiltRank(round.work), round.total, d, {}),
         settled |-> {}, paid |-> FALSE]

\* firstRetainedPaymentRound, or 1.
RebuildMinRound(payments) ==
    LET listed == UNION {payments[k].rounds : k \in DOMAIN payments}
    IN  IF listed = {} THEN 1 ELSE Min(listed)

MutantKeepsWork(l, e, minRound) ==
    LET counted == IF e.difficulty > 0 THEN ApplyShare(l, e.worker, e.difficulty) ELSE l
        round == RebuiltRound(counted.current, e.block, e.height)
    IN  IF e.height = 0 THEN counted
        ELSE [counted EXCEPT
                 !.recent = IF e.height >= StartHeight /\ round.id >= minRound
                            THEN <<round>> \o @ ELSE @,
                 !.next = @ + 1,
                 !.current.id = counted.next + 1]

MutantNumbersKeptOnly(l, e, minRound) ==
    LET counted == IF e.difficulty > 0 THEN ApplyShare(l, e.worker, e.difficulty) ELSE l
        round == RebuiltRound(counted.current, e.block, e.height)
        kept == e.height >= StartHeight /\ round.id >= minRound
    IN  IF e.height = 0 THEN counted
        ELSE [counted EXCEPT
                 !.recent = IF kept THEN <<round>> \o @ ELSE @,
                 !.next = IF kept THEN @ + 1 ELSE @,
                 !.current = NewRound(IF kept THEN counted.next + 1 ELSE counted.next)]

\* replayLedger, one line of the log.
ReplayEvent(l, e, minRound) ==
    LET counted == IF e.difficulty > 0 THEN ApplyShare(l, e.worker, e.difficulty) ELSE l
        round == RebuiltRound(counted.current, e.block, e.height)
    IN  IF e.height = 0 THEN counted
        ELSE [counted EXCEPT
                 !.recent = IF e.height >= StartHeight /\ round.id >= minRound
                            THEN <<round>> \o @ ELSE @,
                 !.next = @ + 1,
                 !.current = NewRound(counted.next + 1)]

\* replayLedger; the rounds come out newest first, as rebuild sorts them.
ReplayLedger(lines, minRound) ==
    LET after[k \in 0..Len(lines)] ==
            IF k = 0 THEN EmptyLedger ELSE ReplayEvent(after[k - 1], lines[k], minRound)
    IN  after[Len(lines)]

MutantMarksAllListed(l, r) ==
    LET listed == \E k \in DOMAIN l.payments : r.id \in l.payments[k].rounds
        marked == [r EXCEPT !.settled = IF listed THEN r.entries ELSE {}]
    IN  [marked EXCEPT !.paid = listed /\ FullyPaid(marked)]

\* applyRetainedPayments, one round.
ApplyRetainedPayments(l, r) ==
    LET marked == [r EXCEPT !.settled = Explained(l, r)]
        listed == \E k \in DOMAIN l.payments : r.id \in l.payments[k].rounds
    IN  [marked EXCEPT !.paid = listed /\ FullyPaid(marked)]

\* rebuild: the snapshot it writes.  The tool's limit of rounds has the default of the
\* pool's, and is taken to be the same.
Rebuilt(lines, snapshot) ==
    LET replayed == ReplayLedger(lines, RebuildMinRound(snapshot.payments))
        l == [replayed EXCEPT !.payments = snapshot.payments]
        n == IF Len(l.recent) < MaxRecentRounds THEN Len(l.recent) ELSE MaxRecentRounds
    IN  [l EXCEPT !.recent = [i \in 1..n |-> ApplyRetainedPayments(l, l.recent[i])]]

-----------------------------------------------------------------------------
(* The log beside the ledger.                                               *)

RebuildInit ==
    /\ Init
    /\ log = <<>>
    /\ event = [p \in Process |-> {}]
    /\ faithful = TRUE /\ weighed = TRUE

\* The ages of the events that wait.
Ages == {e.age : e \in UNION {event[p] : p \in Process}}

\* Process p makes an event, the youngest.
Note(p, w, difficulty, block, height) ==
    event' = [event EXCEPT ![p] =
        {[line |-> [worker |-> w, difficulty |-> difficulty, block |-> block,
                    height |-> height],
          age |-> IF Ages = {} THEN 1 ELSE Max(Ages) + 1]}]

\* p's event is written to the log.
Appended(p) == log \o SetToSeq({e.line : e \in event[p]})

\* RecordShare, for an accepted share (bounded by MaxEvents).  The round is credited with
\* the work of the session (shareWorkDifficulty); the event has the difficulty of the
\* worker, which VarDiff may just have moved, and which knows neither a miner's suggestion
\* nor the base of a legacy one.
ShareWithEvent(s, w, work, difficulty) ==
    /\ Len(log) + Cardinality(Ages) < MaxEvents
    /\ RecordShare(s, w, work)
    /\ Note(s, w, difficulty, 0, 0)
    /\ weighed' = (weighed /\ difficulty = work)
    /\ UNCHANGED <<log, faithful>>

\* RecordSolvedBlock (bounded by MaxEvents).  A block of height 0 closes the round here and
\* not in a replay, which splits the reward of the block's height, where the pool splits
\* what the last refresh reported of the next one.
BlockWithEvent(s, w, height, reward) ==
    /\ Len(log) + Cardinality(Ages) < MaxEvents
    /\ RecordSolvedBlock(s, height, reward)
    /\ Note(s, w, 0, found + 1, height)
    /\ faithful' = (faithful /\ height > 0 /\ reward = MinerRewardAtHeight(height))
    /\ UNCHANGED <<log, weighed>>

\* persistShareUpdate, where appendShareEvent comes first.  Two shares may change places
\* in the log, a share and a block may not.
PersistWithEvent(p) ==
    /\ Persist(p)
    /\ log' = Appended(p)
    /\ event' = [event EXCEPT ![p] = {}]
    /\ faithful' = (faithful /\ \A mine \in event[p], q \in Process : \A other \in event[q] :
                        other.age < mine.age => mine.line.block = 0 /\ other.line.block = 0)
    /\ UNCHANGED weighed

\* It fails, with the event already in the log or not.
PersistFailsWithEvent(p) ==
    /\ PersistFails(p)
    /\ log' \in {log, Appended(p)}
    /\ event' = [event EXCEPT ![p] = {}]
    /\ faithful' = FALSE
    /\ UNCHANGED weighed

\* The program stops, possibly between a process's append and its write.
RestartWithEvents ==
    /\ Restart
    /\ log' \in {log} \cup {Appended(p) : p \in Process}
    /\ event' = [p \in Process |-> {}]
    /\ faithful' = (faithful /\ disk = ledger /\ Ages = {})
    /\ UNCHANGED weighed

\* The program is stopped when nothing is under way, pacpool-rebuild runs, and the program
\* starts with what it wrote: from then on the ledger weighs shares as the log does.
Rebuild ==
    /\ faults["crash"] < MaxFaults["crash"]
    /\ faults' = [faults EXCEPT !["crash"] = @ + 1]
    /\ \A p \in Process : unsaved[p] = {}
    /\ payoutMu = {} /\ handPaid = {}
    /\ disk' = Rebuilt(log, disk)
    /\ ledger' = disk'
    /\ ledgerError' = FALSE /\ autoError' = ""
    /\ weighed' = TRUE
    /\ UNCHANGED <<unsaved, payoutMu, run, handPaid, historyVars, log, event, faithful>>

\* TryAutoPayout, without the attempts that fail before anything is paid.
PayoutStep(c) ==
    \/ BeginPayout(c)
    \/ \E budget \in Budget : NothingToSend(c, budget)
    \/ \E budget \in Budget, S \in SUBSET Address : SelectBatch(c, S, budget)
    \/ WalletAccepts(c)
    \/ ExecutePayoutBatch(c)
    \/ NothingToMark(c)

RebuildNext ==
    \/ \E s \in Session, w \in Worker :
        \/ \E work \in ShareWork, difficulty \in WorkerDifficulty :
              ShareWithEvent(s, w, work, difficulty)
        \/ \E height \in Height, reward \in Reward : BlockWithEvent(s, w, height, reward)
    \/ \E c \in Caller : PayoutStep(c) /\ UNCHANGED Replayable
    \/ \E o \in Operator : OperatorStep(o) /\ UNCHANGED Replayable
    \/ \E p \in Process : PersistWithEvent(p) \/ PersistFailsWithEvent(p)
    \/ RestartWithEvents
    \/ Rebuild

RebuildSpec == RebuildInit /\ [][RebuildNext]_rebuildVars

-----------------------------------------------------------------------------
(* Safety.                                                                  *)

\* The files agree with the ledger and with each other, and no payment record has been
\* trimmed: what the tool needs to be run at all.
Rebuildable ==
    /\ faithful /\ Ages = {}
    /\ \A p \in Process : unsaved[p] = {}
    /\ disk = ledger /\ Len(disk.payments) < MaxPayments

\* The rounds of a ledger from the first one a payment record lists.
Retained(l) ==
    {l.recent[i] : i \in {i \in DOMAIN l.recent : l.recent[i].id >= RebuildMinRound(l.payments)}}

\* From files that agree, the tool makes the rounds again that the pool had: the same
\* numbering, the current round with the same workers and shares, and every retained
\* round that can be paid, with its block, its workers and its total.  Where every event
\* has the weight its share was credited with, the current round is the same one, and
\* the other order of the workers and the floors move no amount by more than an atom;
\* where they differ, the parts of the total do (replayLedger, finalizeRound,
\* calculatePayouts of cmd/pacpool-rebuild against service.go).
RebuildRestoresRounds ==
    Rebuildable =>
        LET l == Rebuilt(log, disk)
            Total(r) == SumFunctionOnSet(r.amount, r.entries)
        IN  /\ l.next = ledger.next /\ l.current.id = ledger.current.id
            /\ l.current.shares = ledger.current.shares
            /\ Contributors(l.current.work) = Contributors(ledger.current.work)
            /\ weighed => l.current = ledger.current
            /\ \A r \in Retained(ledger) : Eligible(r) =>
                  \E i \in DOMAIN l.recent :
                      LET rebuilt == l.recent[i]
                      IN  /\ rebuilt.id = r.id /\ rebuilt.block = r.block
                          /\ rebuilt.entries = r.entries /\ Total(rebuilt) = Total(r)
                          /\ weighed => \A w \in r.entries :
                                rebuilt.amount[w] - r.amount[w] \in -1..1

\* From files that agree, every round the tool makes again has the marks it had, whatever
\* the weights in the log.  Its Paid flag, which hides it from payouts, is what it was
\* unless an amount has come to nothing or from nothing; and no payout that amounted to
\* something becomes payable by the rebuild (applyRetainedPayments, roundFullyPaid).
RebuildRestoresMarks ==
    Rebuildable =>
        LET l == Rebuilt(log, disk)
        IN  \A i \in DOMAIN l.recent, r \in Retained(ledger) :
              LET rebuilt == l.recent[i]
              IN  rebuilt.id = r.id =>
                    /\ rebuilt.settled = r.settled
                    /\ (\A w \in r.entries : r.amount[w] > 0 <=> rebuilt.amount[w] > 0)
                          => rebuilt.paid = r.paid
                    /\ \A w \in Unpaid(rebuilt) : r.amount[w] > 0 => w \in Unpaid(r)

\* Nothing in the log is lost while nothing has been paid: whatever happened to the
\* snapshot, the tool finds every block of known height that a start counts and its limit
\* of rounds has room for, and owes it to exactly the workers with shares in the log
\* since the block before it, if the reward of its height leaves anything to owe
\* (replayLedger; appendShareEvent goes before the snapshot in persistShareUpdate).
RebuildRecoversBlocks ==
    disk.payments = <<>> =>
        LET l == Rebuilt(log, disk)
            closing == {k \in DOMAIN log : log[k].height > 0}
            counted == {k \in closing : log[k].height >= StartHeight}
            Earlier(k) == {j \in closing : j < k}
            Since(k) == {log[j].worker : j \in {j \in 1..(k - 1) :
                            log[j].difficulty > 0 /\ \A b \in Earlier(k) : b < j}}
        IN  \A k \in counted : Cardinality({j \in counted : k <= j}) <= MaxRecentRounds =>
              \E i \in DOMAIN l.recent :
                  /\ l.recent[i].block = log[k].block
                  /\ l.recent[i].id = Cardinality(Earlier(k)) + 1
                  /\ l.recent[i].entries =
                        IF Distributable(MinerRewardAtHeight(log[k].height)) > 0
                        THEN Since(k) ELSE {}
=============================================================================
