# A verification of pacpool

pacpool is a solo-operated mining pool for the Pingancoin chain. Miners connect over stratum, the
pool hands them jobs built from templates of a mining upstream (`pacd`), credits their shares to
the current round, and when one of their shares is a block, splits that block's reward over the
round's workers. A payout loop sends what is pending through a wallet and marks it paid; an
operator can do the same by hand. This directory holds TLA+ modules of that program, TLC
configurations that check them on small instances, and theorems about them that TLAPS checks for
every instance. All definitions are translated from the Go code under `src/`.

## 1. The system

### Components

| component | code | state it keeps | operations |
|---|---|---|---|
| payout split | `service.go` `calculatePayouts`, `applyShareToRoundLocked`; the same in `cmd/pacpool-rebuild` | none | split a reward over a round |
| share and payout ledger | `service.go` `RecordShare`, `RecordSolvedBlock`, `TryAutoPayout`, `ExecutePayouts` | current round, recent solved rounds, payment records, next round number, all under `Service.mu`; `payoutMu`, held over a whole automatic payout | record a share, close a round with a block, choose a batch, send it, mark it |
| ledger persistence | `persistence.go` | `share-state.json` (a snapshot of the ledger), `share-events.jsonl` (a log), `LastLedgerError`; `persistMu` | append and write after every change, load at start |
| payout wallet client | `walletclient/client.go` | none | `SendPayouts`, `SpendableBalance` over HTTP |
| stratum server | `stratum/server.go` | current job and table of sessions, under `Server.mu`; per session, under no lock: authorization, worker, difficulty, submits of the job it saw last | template loop, subscribe, authorize, suggest a difficulty, submit |
| refresh and readiness | `service.go` `Refresh`, `CurrentTemplate`, `Snapshot` | last template, chain data, readiness flags | poll upstreams |
| admin settings | `api/admin.go` `handleAdminSettings`, `service.go` `UpdateAdminSettings`, `persistence.go` | fee, threshold, automatic payouts; `runtime-settings.json` | parse, change, save, load |
| chain block cache | `chain_blocks.go` | `chainBlocksByHash`, `loggedChainBlockHashes`, `recent-chain-blocks.jsonl` | collect, mark and keep, append |
| rebuild tool | `cmd/pacpool-rebuild` | none (a batch program; it reads the log and the snapshot, and writes the snapshot) | replay the log, restore marks from payment records |
| API and dashboard | `api/` | none | read status, trigger payouts |
| upstream clients | `upstream/` | none | HTTP reads, one block submit |

### How they interact

One goroutine per stratum session calls `RecordShare` and `RecordSolvedBlock`. One goroutine,
`Service.Run`, alternates `Refresh` and, on a second ticker, `TryAutoPayout`. Every HTTP request
of the admin API runs in a goroutine of its own and may call `TryAutoPayout` or `ExecutePayouts`.
All of them share `Service.mu`. None holds it over an HTTP call or over a write of the ledger:

- `TryAutoPayout` reads what is pending under the read lock, asks the wallet to send it without a
  lock, and then takes the write lock to mark what it finds pending *then* to the addresses of
  the batch. `payoutMu` (`TryLock`) keeps a second automatic payout out; it does not keep out
  `ExecutePayouts`.
- Every operation that changes the ledger copies it under `Service.mu`, releases the mutex, and
  writes the copy under `persistMu`. Two writers can therefore write in the other order.

In the stratum server, one goroutine per session serves its miner's requests one at a time, and
the template loop calls `updateJob` every two seconds. `updateJob` holds `Server.mu` while it
writes to every connection; sessions need that mutex to look up the job, to publish the counters
and to leave. The fields of a session are read and written by both sides without a lock.

`Refresh` asks `pacd` and `pacdata` its questions one after the other, without a lock, and then
applies the answers under `Service.mu`. The template loop picks the template up from there every two
seconds, a session submits the blocks of the job made of it, and `RecordSolvedBlock` takes the
reward of whatever template the service then has. The new blocks of a refresh are appended to their
log by a goroutine of their own.

### What is hard

- Interleavings between choosing, sending and marking a batch, with blocks being found and
  operators paying in between.
- Wallet replies that get lost: the code cannot tell "refused" from "paid, and the reply lost".
- Restarts between any two steps, from a snapshot older than the memory was.
- Writes out of order, and writes that fail.
- Lists that are trimmed while something still depends on what they drop.
- Splits computed in floating point that must still add up.
- Progress of payouts when single attempts fail.
- A session's difficulty, which its goroutine and the template loop change and announce at once.
- Submits that arrive while jobs change; connections that stall under a lock.
- Answers of different ages: the chain grows between the questions of a refresh, and the answers to
  failed questions are those of an earlier one.
- Two files about one ledger, and a tool that makes one of them from the other.
- Settings that change field by field and are written after the unlock.

The hazards, each at its line, are in `PROJECT.json`, with the properties that cover them or the
reason why none does yet.

### What makes each component correct

- *Split*: every atom is handed out once, nobody is more than an atom away from its part, more
  work is never paid less.
- *Ledger*: no block is filed twice, marks are never lost, a round's Paid flag agrees with its
  marks, the payment records explain the marks, no payout is paid twice, what was paid does not
  remain pending, what is marked was sent, what reaches the threshold gets paid.
- *Persistence*: with no error shown, the disk holds the ledger; whatever the file holds is a
  ledger with the properties above.
- *Stratum*: a solution is credited once per session and job; a block is passed to pacd; shares are
  judged by the difficulty the miner was told, and that is the one it asked for; miners have the
  current job; the published counters agree with the sessions; every request ends.
- *Refresh*: no job before mining opens; a template that is not behind what the pool knows of the
  chain; health and readiness that mean what they say; a block pacd accepted is filed once, with
  somebody's work and a reward it earned; miners end up on the tip.
- *Settings*: the file can be loaded, and is what is in force.
- *Chain blocks*: a block is logged once, and what is shown of it is not taken back.
- *Rebuild*: replaying a log that agrees with the ledger gives the rounds the pool had, with their
  numbers, workers, totals and marks, and the amounts if the log has the weights they were split by;
  no block in the log is lost.

## 2. The modules

| module | contents |
|---|---|
| `VarDiff` | the difficulty that follows an accepted share, as operators |
| `PayoutSplit` | the split of a reward and the orders of a round's workers, as operators |
| `MCPayoutSplit` | enumerates rounds share by share and states the properties of the split, and those of courses of difficulties |
| `PayoutSplitLemmas` | sums over sets, the workers' order, the whole parts and their remainder; induction and recursion over data |
| `PayoutSplitProofs` | the theorems about the split and about the course of a worker's difficulty |
| `PayoutContract` | the abstract specification: payouts become owed, each is paid by one transaction at most |
| `PayoutLedger` | the ledger with its callers, the wallet, the disk and restarts; EXTENDS `PayoutSplit`, implements `PayoutContract` |
| `MCPayoutLedger` | values of `PayoutLedger`'s constants for TLC |
| `PayoutLedgerProofs` | the inductive invariant of the ledger, and the theorems that follow from it |
| `PayoutOnceProofs` | the inductive invariant of the payout run; nothing is paid twice; the batches; the refinement |
| `LedgerRebuild` | the ledger with its event log, and the tool that replays it; EXTENDS `PayoutLedger` |
| `MCLedgerRebuild` | values of `LedgerRebuild`'s constants for TLC |
| `LedgerRebuildProofs` | that the tool finds every block in the log, and makes the ledger it belongs to again |
| `StratumServer` | sessions, jobs, difficulties and submits, with the template loop and connections that stall and break |
| `MCStratumServer` | values of `StratumServer`'s constants for TLC |
| `StratumProofs` | the inductive invariant of submits; no solution is credited twice, blocks are passed on, the counters are right; what miners are told of difficulties and jobs |
| `PoolRefresh` | the chain, `Refresh`, the template loop, and solved blocks from the submit to their round; its `cfg` needs no MC module |
| `PoolRefreshProofs` | its inductive invariant and the theorems |
| `RuntimeSettings` | an administrator's form, the settings and their file |
| `ChainBlocks` | the cache of chain blocks and its log |
| `DataDirectory` | the two together in one program that stops and starts; EXTENDS both |
| `MCDataDirectory` | values of its constants for TLC |
| `DataDirectoryProofs` | its inductive invariant and the theorems |

### PayoutLedger and the code

| code | variable | |
|---|---|---|
| `currentRound`, `recentRounds`, `paymentHistory`, `nextRoundID` | `ledger` | one record, because every operation changes it in one critical section of `Service.mu` |
| `share-state.json` | `disk` | the snapshot, of the same shape |
| the snapshot an operation took before it released `Service.mu` | `unsaved[p]` | a set of at most one ledger per process |
| `status.LastLedgerError` | `ledgerError` | whether it is set |
| `payoutMu` | `payoutMu` | the callers past `TryLock` |
| the locals of a `TryAutoPayout` in progress | `run[c]` | where it is, the addresses of its batch, and the payouts the wallet is asked to pay |
| `status.AutoPayout.LastError` | `autoError` | which of the errors |
| outside the program | `handPaid`, `paid`, `found`, `faults` | operators between paying and posting; history variables: transactions per payout, blocks found, faults so far |

`PayoutEntry` is a worker and a round; here it is named by the *block* that closed the round
(`[block, worker]`), because after a restart from an old snapshot two rounds can carry the same
number, while a block is found once. The entries, marks (`settled`, the entries with a `PaidTxID`)
and amounts of a round are its fields.

Each action is one critical section or one request:

| action | code |
|---|---|
| `RecordShare`, `RecordRejectedShare`, `RecordSolvedBlock` | the functions of these names, up to the unlock; the copy to write is part of the action |
| `BeginPayout` | `TryAutoPayout` from its first test to the end of the first lock; every early return there changes nothing |
| `BalanceFails`, `NothingToSend`, `SelectBatch` | its outcomes up to the call of `SendPayouts` |
| `WalletAccepts`, `WalletRejects`, `ReplyLost` | the outcomes of `SendPayouts` |
| `ExecutePayoutBatch`, `NothingToMark` | the marks after a payment |
| `OperatorPays`, `ExecutePayouts` | an operator reads `/payouts` and pays it; posts the transaction to `/payouts/execute` |
| `Persist`, `PersistFails` | `persistShareUpdate` under `persistMu`; a caller then returns through `setAutoPayoutSuccess` |
| `Restart` | the program stops anywhere and starts with `loadShareState` |

### StratumServer and the code

| code | variable | |
|---|---|---|
| `Server.mu` | `mu` | whether `updateJob` holds it; every other critical section is one action |
| `Server.job` | `job` | the number of the job; `stratumJobID` never gives two jobs one ID |
| `Server.sessions` | `sessions` | |
| a `session` object | `sess[s]` | its fields; `suggested` is a history field: what the miner asked for last |
| a session's goroutine | `handler[s]` | where it is and its locals |
| `updateJob` in progress | `updater` | the sessions it has still to visit, the one it is at, and its locals |
| `SetStratumStats` | `published` | the arguments of its last call |
| connections | `conn`, `wire` | open, stalled, broken, closed; the last difficulty and job written |
| `RecordShare` | `accepted` | how many accepted shares it was told of |
| outside the program | `credited`, `judged`, `forwarded`, `raced`, `troubles` | history variables |

| action | code |
|---|---|
| `Connect`, `Disconnect` | `Run`, `addSession`; the end of `session.run`, `removeSession` |
| `OtherRequest`, `Subscribe`, `Reply` | the requests that are only answered |
| `Authorize`, `RaiseDifficulty`, `PublishStats`, `Answer`, `SendDifficulty`, `StoreDifficulty`, `FetchJob`, `NotifyJob` | `mining.authorize`, one access to shared fields or one write after the other; `FetchJob` and `NotifyJob` are a second apart |
| `SuggestDifficulty`, then from `Answer` on | `mining.suggest_difficulty` |
| `SubmitStale`, `Submit`, `Judge`, `BlockRefused`, `Credit`, `SendAccepted` | `handleSubmit` and `sendAccepted` |
| `KeepJob`, `UpdateJob`, `SkipSession`, `VisitSession`, `Resync`, `PushDifficulty`, `KeepDifficulty`, `PushJob`, `UpdateDone` | `updateJob`, from the lock to the unlock; the order of the sessions is any, as that of a Go map |
| `Stall`, `Drain`, `Break` | the miner's side of a connection |

### PoolRefresh and the code

| code | variable | |
|---|---|---|
| pacd and pacdata | `tip`, `miningOpen`, `indexed` | the chain, whether mining is open, and how far the indexer is |
| the locals of `Refresh` | `poll` | its next question and the answers; `began` in it is the chain at its beginning |
| `state.PACD`, `state.Network`, `state.PACData`, `lastTemplate`, `Healthy`, `MiningOpen`, `ReadyForStratum`, `NotReadyReason` | `known` | of an answer, the height |
| `Server.job` | `job` | the height of its block |
| a `handleSubmit` that has found a block | `request[s]` | from `SubmitBlock` to `RecordSolvedBlock` |
| `currentRound.AcceptedShares`, `recentRounds` | `work`, `rounds` | shares that solve no block add nothing that the properties look at |
| outside the program | `began`, `mined`, `lost`, `overlapped`, `faults` | history variables |

| action | code |
|---|---|
| `AskMining`, `AskNetwork`, `AskIndex`, `AskTemplate` | the questions of `Refresh`, each answered or failed |
| `ApplyRefresh` | its critical section |
| `UpdateJob` | `CurrentTemplate` and `updateJob`: one goroutine, no other writes the job |
| `SubmitSolvedBlock`, `PacdAccepts`, `PacdAcceptsUnheard`, `PacdRefuses` | `SubmitBlock` and what becomes of it, a lost reply included |
| `RecordShare`, `RecordSolvedBlock` | the functions of these names, as `handleSubmit` calls them |
| `Restart` | the program stops anywhere; `New` |

The ledger here is only what a block needs to be filed; what happens to rounds afterwards, and what of
them a restart loses, is `PayoutLedger`'s: `Restart` keeps a filed round here as if it had been written at once. Both have `RecordSolvedBlock` as one step.

### DataDirectory and the code

`RuntimeSettings`: `settings` are the service's fields, `settingsFile` is `runtime-settings.json`,
`saving[a]` is what a request copied before it released `Service.mu`. `Update` and `RefuseHalfway`
are the two ways through `UpdateAdminSettings` that change a field; forms that `handleAdminSettings`
or the range of the fee refuses change nothing. `Save` and `SaveFails` are `saveRuntimeSettings`,
`LoadSettings` is `loadRuntimeSettings`. The threshold is parsed with the width of its integer
(`Wrapped`).

`ChainBlocks`: `cached` is `chainBlocksByHash`, `noted` is `loggedChainBlockHashes`, `appends` are
the goroutines with records to append. `Collect` is `collectRecentChainBlocks` (any of its questions
may fail), `Apply` is `applyRecentChainBlocksLocked`, `WriteBatch` and `WriteFails` are
`appendChainBlockRecords`.

### LedgerRebuild and the code

`log` is `share-events.jsonl`, `event[p]` the event a process has made and not yet appended. Each
action of `PayoutLedger` that changes the ledger is taken together with its event
(`ShareWithEvent`, `BlockWithEvent`), each write together with its append (`PersistWithEvent`,
`PersistFailsWithEvent`). `Rebuild` is a stop, a run of the tool and a start. `Rebuilt` is what the
tool writes: `ReplayLedger` over the lines, then `ApplyRetainedPayments` on each round.

### What is abstracted, and why it is sound

- **Names and addresses** are numbers; `sort` by name is the order of numbers. `PayTo` maps a
  worker name to the address in it (`payoutAddressFromWorker`: the part before the first dot);
  0 stands for a name that has none. Several workers may share an address.
- **Amounts** are atoms. `SumFunction` of the community modules replaces the loops that add up. A share's `float64`
  product is exact or, when its exact value is a whole number, possibly just below: `low` in
  `PayoutSplit` is the set of workers it happens to, and every such set is checked. Left out is a
  product so close below a whole number that `float64` rounds it up to it, which takes a product
  beyond its 53 bits: the floor is then an atom more, and `WithinOneAtom` is exceeded by less
  than a float's error of the amount. `PayoutLedger`
  uses the exact product (`low = {}`): its properties do not look at single atoms.
- **Work** is the work credited per share, of any positive value; difficulty, hashrates, VarDiff
  and the per-worker totals are not in the ledger's model, because no payout depends on them.
- **The payout window and the switch of automatic payouts** decide whether a call goes past its
  first lock. A call that does not changes nothing, so they are covered by a `BeginPayout` that may
  or may not happen.
- **The event log** is appended under the same `persistMu` as the snapshot, and `LedgerRebuild` adds
  it to this model; without it, a failure to append is one of the outcomes of `PersistFails`.
- **`EqualFold` and trimming** of addresses are identity on addresses as numbers.
- **The threshold and the fee** are constants of the ledger. A change of the fee applies to rounds
  closed after it and a change of the threshold to batches chosen after it; `RuntimeSettings` says
  when the two change.

In `StratumServer`:

- **A solution** is the text of extranonce, time and nonce as submitted: `handleSubmit` remembers
  shares by that text, so `CreditedOnce` is about texts, and says nothing of two texts that decode
  to the same bytes. `Meets` gives the difficulty its hash meets. Whether a submit fails to parse or
  has a time out of range is left open (`Submit` may refuse any solution after it was remembered).
- **Difficulties** of shares and of the network are numbers of one unit. The code has two base
  targets (`legacy` and others); what they are does not matter to a property here.
- **Templates** are not in the model: `updateJob` may find the template unchanged (`KeepJob`), due
  for a later time (`UpdateJob(FALSE)`) or new (`UpdateJob(TRUE)`), in any order.
- **VarDiff** may give a worker any difficulty at any time (`WorkerDifficulty`).
- **A write** to an open connection succeeds, to a broken one fails, to a stalled one waits until
  the miner reads or goes away. Go's socket buffers are part of "open".
- **A worker's name** is written in one step (a hazard in `PROJECT.json` says what that hides).
- **Rejected shares** are not counted; the work a share is credited with belongs to the ledger's
  model.
- A session object is dropped when its goroutine ends, and its fields are reset then, so that states
  do not differ in what nothing refers to.

In `PoolRefresh`:

- **A block is its height**, because pacd is taken to have one chain that only grows. A block of
  another miner at the height of a job makes pacd refuse the job's block. There are no reorganisations:
  a block the pool has filed stays filed in the code whatever becomes of it, and no function there
  looks at it again.
- **A subsidy is the height it belongs to**; subsidies never grow with the height
  (`minerRewardAtHeight` of the rebuild tool computes them so), so a later height is the smaller or
  the same reward.
- **0** is an answer never had. A fresh pool that has heard of neither the network nor the indexer
  finds the two equal, as the code does (`TemplateBackfill`).

In `RuntimeSettings` and `ChainBlocks`:

- **The form** is the fee in basis points and the two parts of the threshold. `parseFeePercent` is its
  result, since its rounding is not part of a property. Announcements are set and saved with the fee.
- **The file** is written beside the old one and renamed: one step.
- **A record** is its block, whether it has the coinbase's outputs and whether a round is marked on it.
  A failed question leaves out the outputs and all that is read from them. Hashes are heights.

In `LedgerRebuild`:

- **A share is weighed twice.** Its round is credited with the work of the session
  (`stratum/server.go:555`), its event has the difficulty of the worker after any adjustment
  (`service.go:913`), and the tool weighs by the event. They differ as soon as VarDiff moves a
  difficulty, a miner suggests one or a legacy miner connects. `ShareWithEvent` takes both, each of any
  value, and `weighed` records whether they have been the same for every share since the start or the
  last rebuild. `RebuildRestoresRounds` promises numbers, workers, shares and totals always, the current
  round's work and amounts within an atom only if `weighed`: where the weights differ the tool does split
  a reward otherwise than the pool did. `RebuildRestoresMarks` does not depend on the weights.
- **Events of payouts and of rejected shares** change nothing in a replay and are left out.
- **A faithful history** (`faithful`) is one in which the log says what the ledger is: no append has failed,
  no share has changed places with a block, no crash fell between an append and its snapshot, and every
  block of known height was closed with the reward of its height. The last is not always so: the
  pool splits what the last refresh reported, the tool what `minerRewardAtHeight` computes.
- **Payouts that come to nothing, or from nothing**: the tool's other order of workers can give a worker
  an atom it did not have, or take its only one, and other weights can do so with larger amounts.
  `roundFullyPaid` passes over empty payouts, so a round can then be complete in
  the pool and not after a rebuild, or the other way round. `RebuildRestoresMarks` promises the flag
  where no amount has done so, and everywhere that no payout of some amount becomes payable.
- **A torn line**, which a crash inside an append can leave, makes the tool stop; left out.

In `VarDiff`, difficulties and times are whole numbers of a unit, and the differences between halves
that the floor would make are avoided by even starting values.

### Constants and their assumptions

`NamesAssumption`, `ProcessAssumption`, `AmountAssumption` and `OptionAssumption` say what the code
guarantees of its parameters: names and amounts are natural numbers, no process has two roles, work
of a share is positive (`RecordShare` returns or credits at least the session's difficulty), the
batch limit and the list limits are positive (`New` replaces other values by defaults).
`FiniteAssumption` adds that there are finitely many workers, whose amounts are summed, as there are in
a map of the program. `SplitAssumption` (`MCPayoutSplit`) is of the same kind. `VarDiffAssumption` says that
the target and the least difficulty are positive and the most no smaller (`service.go:334`), and that a
course has shares enough to double the least difficulty until it is the most, and two more: with
fewer a course from one end may not have arrived at the other.
`SubsidyAssumption` and `WorkerDifficultyAssumption` (`LedgerRebuild`; `RecordShare` replaces a
difficulty that is not positive), `StartAssumption` (`PoolRefresh`), `FormAssumption`,
`ConfiguredAssumption` (`RuntimeSettings`) and `ChainAssumption` (`ChainBlocks`) are of the same
kind: a form's whole part is not negative because `parseAdminPAC` refuses others. `ConfiguredAssumption`
is about the flags a program is started with: `New` replaces a threshold that is not positive, but
nothing checks the fee, so that it is in range is assumed. `StratumAssumption` says that difficulties are positive, that the pool's is one of them, and that a
solution meets some difficulty. Bounds for TLC have names of their own: `MaxBlocks`, `MaxWork`,
`MaxCrashes`, `MaxLostReplies`, `MaxWriteErrors`, `MaxJobs`, `MaxTroubles`, `MaxEvents`, `MaxTip`,
`MaxFaults`, `MaxHeight`, `MaxMisses`; the theorems hold for
every value of them, so also for none.

## 3. The runs

All bounds are in the `.cfg` files, and every property is named in `PROJECT.json` with the run
that checks it. `CHECK_DEADLOCK` is off in the ledger's runs and the rebuild's, because a bounded run
stops when its blocks, work and faults are used up, and in the one of the split. It is on in the
others: nothing in the stratum server comes to an end while `updateJob` holds the mutex, refreshes
always go on, and so do settings.

| run | question | instance |
|---|---|---|
| `PayoutSplit` | does every split add up, in one pass, within an atom, and without paying more work less? does the difficulty of a worker of steady pace settle where it suits the pace? | 3 workers, shares of 1 or 2, rounds of total work up to 6, rewards of 1 to 12 atoms, every rounding; 6 starting difficulties, 7 paces from faster to slower than the limits allow, 8 shares |
| `PayoutsRace` | can two automatic payouts and the blocks found meanwhile pay anything twice, or take back a mark? does the ledger implement `PayoutContract`? | 2 callers, 1 session, 2 workers, 2 blocks; ample or scarce balance, batches of one address |
| `PayoutsByHand` | do types, marks, flags and records stay consistent when an operator pays beside an automatic payout, also at the edges: rigs of one address, a name without one, rounds below the start height, rewards of nothing or of less than an atom each, trimmed lists? | 1 caller, 1 operator, 3 workers, 2 blocks, 1 solved round and 2 payments kept |
| `ThresholdPaid` | does a restart, a lost reply or a failed write at any point leave rounds out of order? is every address at the threshold paid in the end? | 1 caller on the ticker, 1 session, 2 blocks, one fault of each kind, fairness |
| `TwoWriters` | does the disk hold the ledger whenever no error is shown? refuted | 2 sessions |
| `MarkedUnsent` | is what an automatic payout marks what it sent? refuted | 1 caller, 1 session |
| `StratumSession` | is a solution credited twice, however jobs change? does every block reach pacd? does the miner know the difficulty it is judged by, keep the one it suggested, and have the job? | 1 session, 2 jobs, solutions of a share and of a block, difficulties 1 to 3, suggestions, VarDiff, a stall or a break |
| `StratumRequests` | does every request end? do the published counters agree with the table? | 2 sessions that come and go and authorize under a name, 1 job, 1 trouble, fairness |
| `LostBlock` | the same as `StratumSession`'s question about blocks, with a share difficulty above the network's: refuted | 1 session, 2 jobs |
| `PoolRefresh` | can a job, a template, a health, a reward be older than it claims, or a block be lost or filed with nobody's work? do miners end up on the tip? | 2 sessions, 2 blocks on top of the first, 1 fault (a failed question, a lost reply or a restart) at any point; mining open or not, an address or none; fairness |
| `DataDirectory` | can the file be loaded whatever is typed, and is it what is in force? is a block logged once, with its owner, and never shown with less? | 2 administrators, 5 forms (usual, wrapping to a small and to a negative threshold, signed fraction, fee out of range) with integers of 64 values; 3 blocks, windows of 2, 1 round kept; 2 faults and 1 miss |
| `Rebuild` | does the tool give back the rounds the pool had, with their numbers, workers, totals and marks, whatever weights the log has, and the same amounts where it has the pool's? is every block in the log found again, wherever a write fails or the program stops? | 2 sessions, 1 caller, 2 workers, 3 events, shares of 1 or 2 and events that weigh them 1 or 2, heights 1 and 2 with a start height of 2, 1 restart or rebuild, 1 failed write |

Why the bounds are enough. Two blocks are the least number with which a batch is chosen, then
another block adds to what is pending, and then marks are made; a third adds nothing the second does
not. Two workers of different addresses with a batch limit of one make every batch partial, so that
a round is settled in several payments. A budget below what both addresses are owed makes the walk
pass one over. Two callers are enough for mutual exclusion by one lock. In `PayoutsByHand` the
second block trims the first round, and `PaymentsExplainSettled` is checked up to the record before
a trim.

In the stratum server's runs, sessions affect each other only through the mutex, the job and the
counters; what is said of one session's fields is checked with one session and an `updateJob` that
can be anywhere, and the table and the mutex with two. Two jobs allow a job to be replaced between
any two steps of a request. `StratumRequests` has one name, which the sessions may share, and no suggestions
or solutions: they add states in which a request has more steps of the same kind, and no lock of another kind.
That the counters agree under any number of names is `CountersAgree`.

In `PoolRefresh` one block may be added between any two questions and another at any time after, so
that every answer can be older or newer than every other; theorems say the same for any chain and
any number of faults. Two sessions are enough for two blocks on their way at once. In
`DataDirectory` windows of two of three blocks make every block enter, stay and leave, and one round
kept makes a round leave while its block is in the window. In `Rebuild` three events are a share, a
block and a share or block after it by another session, in both orders of the log; the two shares
can have any of two weights each in the round and in the log, so that the ratio of two workers
differs between them; one fault of each kind falls between any two of their steps. A history that is
no longer `faithful` never is again, and then only `RebuildRecoversBlocks` says something, of
ledgers that have paid nothing: such a history is not followed past the beginning of a payment
(`UnfaithfulPaysNothing`, the one CONSTRAINT of the project). A block of unknown height (0), which
makes a history unfaithful and is passed over by a replay, is left to `BlocksAreRecovered`. The
rewards and subsidies are small numbers that give a payout to one worker and a floor to round.

### Fairness

`ThresholdPaid` uses `FairSpec`:

- `WF(BeginPayout(c))` for callers that are the `Run` loop: its ticker calls `TryAutoPayout` again
  as long as the program runs. Other callers (requests) need never come.
- `WF` on the steps of a call in progress: a goroutine that is not blocked goes on, and the
  wallet client has a timeout of its own, so a request ends with some outcome.
- `WF` on `PersistStep`: a write ends, with success or an error.
- `SF` on choosing a batch with no balance limit, and on `WalletAccepts`: a wallet that is asked
  again and again is now and then funded and now and then pays. The code cannot promise that; it is
  what the operator has to provide, and without it no payout can be expected.

No fairness is assumed of sessions, operators, faults or restarts.

`StratumRequests` uses `FairSpec` of `StratumServer`:

- `SF(HandlerStep(s))`: a goroutine that can go on does, and one that waits for `Server.mu` gets it
  if it is free again and again (Go's `RWMutex` hands the lock to waiting readers after a writer,
  and stops new readers for a waiting writer). Strong, because `updateJob` takes the mutex every two
  seconds, and because a connection may stall again.
- `WF` on the steps of `updateJob`, for the same reason.
- `WF(Drain(s) \/ Break(s))`: a stalled connection ends one way or the other. The code sets no write
  deadline, so this is TCP's doing: without it one miner that never reads blocks everyone, and the
  property says no more than that nothing else does.

`PoolRefresh` uses its own `FairSpec`: `WF(Refresh)` and `WF(UpdateJob)`, since the tickers of `Run`
and `templateLoop` go on and every question ends within the ten seconds of the clients; and
`WF(IndexerAdvances)`, which is what an indexer is for. The chain, the sessions and the faults have
none: `JobCatchesUp` is about the time when the bounded chain and the faults have come to rest.

### Findings

Each is a violation run, with the line of the repository it contradicts in `PROJECT.json`.

1. `TwoWriters`: a snapshot can be overwritten by an older one, with no error shown. A restart
   then loses the share or block only the newer one had.
2. `MarkedUnsent`: what was pending to an address when the *marks* are made is marked, not what
   was pending when the batch was *chosen*. A block found during the wallet call is marked paid
   and never sent.
   `ExecutePayouts` does the same between an operator's reading `/payouts` and the post to
   `/payouts/execute`.
3. `LostBlock`: a hash is compared with the session's target before the network's, so with a
   difficulty above the network's (a suggestion may be any number) a block is refused as a share.

What the properties leave out, because there the code does not do it:

- `updateJob` works out a session's difficulty, writes it and stores it without a lock the session
  takes; a suggestion handled in between is overwritten with the older value, and `fixedDiff` then
  keeps it. `DifficultyAgrees` and `SuggestionSurvives` leave out sessions whose difficulty both sides
  have changed at once (`raced`). `JobsReachMiners` leaves out a job that `authorize` looked up before
  the current one and announces after it.
- The batch is chosen by amount alone and fails as a whole, so one name the wallet refuses, once it
  is at the head, is chosen in every run; in `ThresholdPaid` the wallet refuses no name for good.
- Two sessions with a block each can both credit their shares before the first files its round; the
  second round is then empty, has no reward, and nobody is paid for its block (`overlapped` in
  `RoundsHaveWork`).
- One failed mining status withdraws the template until the next refresh (`TemplateAfter`), while
  the miners go on with their job; a block filed in that time gets the reward of the mining status,
  which may be of a height before the block's own (`RewardIsEarned`, `fromTemplate`).
- The indexer may lag behind a healthy pool: `HealthyIsRecent` is about the mining status, the network's
  height and the template, not about `PACData` and the recent blocks.
- Two settings updates at a time can be written in the other order; a form with a negative threshold
  is refused with its fee applied; a failed save leaves the update in force. `SettingsAreKept` leaves
  these out (`adrift`). A threshold that overflows to a small positive number is accepted.
- A payment record dropped beyond the limit takes with it what the tool needs to mark its payouts;
  rounds before the first retained payment are dropped with whatever was unpaid in them; a block
  of height 0 closes a round in the pool and not in a replay; a share and a block in the other order
  move the share to another round; a crash between an append and its snapshot shifts the numbers of
  the rounds to come. `Rebuildable` leaves these out; `RebuildRecoversBlocks` does not.
- The log may weigh a share by another difficulty than its round (`weighed`, above); the tool then splits
  rewards by other weights than the pool did.

`PaidOnce` is stated for a pool that has not lost a reply and was not restarted: in both of these
cases the code does send a payout again (nothing about a send is written down before it).

## 4. The theorems

TLAPS proves these for every value of the constants, from the named assumptions alone.

| theorem | says |
|---|---|
| `TypeCorrect` | `TypeOK` always holds |
| `RoundsAlwaysInOrder` | `RoundsInOrder`: numbers without gaps or repetition, no block twice, in every copy of the ledger |
| `PaidFlagIsRight` | `PaidWhenSettled`: the Paid flag agrees with the marks, in every copy |
| `RecordsExplainMarks` | `PaymentsExplainSettled`: records and marks agree, in every copy that has trimmed no record |
| `MarksAreFinal` | `SettledIsFinal`: no step but a restart loses a mark or changes an amount |
| `NeverPaidTwice` | `PaidOnce` |
| `NothingPaidIsPending` | `PaidNotPending`, with callers and operators |
| `BatchesStayOwed` | `BatchStillOwed`, with restarts and lost replies |
| `BatchesAlwaysFit` | `BatchesFit`: for any payees, amounts, limit and balance there is exactly one batch, and it keeps to both |
| `LedgerKeepsContract` | `Spec => KeepsContract` for a pool without operators, restarts and lost replies |
| `SharesCreditedOnce` | `CreditedOnce` |
| `BlocksForwarded` | `BlocksAreForwarded`, if no share difficulty is above the network's |
| `CountersAgree` | `StatsAgree` |
| `DifficultyIsTold` | `DifficultyAgrees`, for any number of sessions |
| `SuggestionIsKept` | `SuggestionSurvives` |
| `MinersAreReached` | `JobsReachMiners`, whichever connections stall and break |
| `HeightsAreTheChains` | `TypeOK` of `PoolRefresh`: every height the pool has is one of the chain's |
| `MiningWaitsForOpening` | `NoEarlyJobs` |
| `TemplateIsNotBehind` | `TemplateExtendsBest` |
| `ReadyOrReason` | `ReasonGiven` |
| `HealthMeansRecent` | `HealthyIsRecent`: mining status, network height and template of a healthy pool |
| `RewardsAreEarned` | `RewardIsEarned`: a round has a reward just if it has work, and one that was earned |
| `AcceptedBlocksAreFiled` | `BlocksAreFiled` |
| `FiledRoundsHaveWork` | `RoundsHaveWork` |
| `FileCanBeLoaded` | `FileLoads`, for any forms and any size of the integers |
| `SettingsSurvive` | `SettingsAreKept` |
| `BlocksLoggedOnce` | `LoggedOnce` |
| `OwnersAreKnown` | `OwnerIsKnown` |
| `ShownIsKept` | `NeverShowsLess` |
| `SplitIsConserved` | `Conserved`: the amounts of a round add up to its reward, whatever the products round to |
| `RemainderFitsOnePass` | `SinglePass`: the remainder is no more than an atom per worker |
| `SplitIsFair` | `WithinOneAtom` |
| `SplitKeepsOrder` | `MoreWorkNeverPaysLess` |
| `VarDiffAlwaysSettles` | `VarDiffSettles`, for any target, limits and pace |
| `BlocksAreRecovered` | `RebuildRecoversBlocks`, for every log the pool can have written |
| `RoundsAreRestored` | `RebuildRestoresRounds`, whatever the weights in the log; amounts where they are the pool's |
| `MarksAreRestored` | `RebuildRestoresMarks`, whatever the weights in the log |

### The argument

`PayoutLedgerProofs`. What holds of the ledger in memory does not follow from the ledger in memory:
a restart replaces it by the disk, and the disk comes from a snapshot some process took. So the
invariant `LedgerInv` says `Kept(l, found)` of *every* copy `l`: rounds in order and no block newer
than `found`, records that explain the marks, flags that agree with them. A step either keeps the
set of copies within what it was (`Persist`, `PersistFails`, `Restart`) or adds one `Successor` of
the ledger in memory: after a share, after a block, or after marks. There is one lemma per kind of
successor (`ApplyShareKept`, `CloseRoundKept`, `MarkPaidKept`), each about an arbitrary ledger
with the property, so that the induction over steps has three cases and not fifteen. Two parts of
`Kept` are there for the induction only: that a new block is newer than every block filed, which
the order of the list needs, and that records list only rounds that have a number already,
without which a later round could appear settled the moment it gets its number.

`PayoutOnceProofs`. `PaidOnce` speaks of transactions only. It is made inductive by following a
batch: `LockInv` (payoutMu is held exactly by the caller past `TryLock`), `ItemsInv` (what a batch
pays was earned and goes to its addresses), `BatchStillOwed` (nobody else marks it), `BatchUnpaid`
(while it waits for the wallet nothing of it has been sent) and `SentOnItsWay` (what was sent and is
still pending is about to be marked by the caller that sent it or by an operator). `SentOnItsWay` is
the heart: it says that a choice made from what is *pending* never picks what was *sent*, because
the one caller that can have sent it still holds the lock. The refinement follows from `PaidOnce`
and from `BatchUnpaid`: `WalletAccepts` is a `Transfer` of `PayoutContract`, `RecordSolvedBlock`
an `Earn`, and every other step a stutter.

`StratumProofs`. `CreditedOnce` compares a counter with a set, and is kept by `Credit` only if the
share it adds is new. That is decided earlier, by `Submit`, so the invariant `Counts` carries it over:
a goroutine past the check `Holds` a share of the job its session remembers, remembered with it and
not credited; and what was credited to a session in the table is of an earlier job or `Remembers`ed.
Between `Submit` and `Credit` the job may change any number of times; this does no harm because
`seenJob` changes in `Submit` only, and the same goroutine cannot submit before it has credited.
Most steps are `Calm`: they touch nothing of this, which is one lemma (`CalmKeeps`) instead of thirty
cases. `BlocksForwarded` uses that the goroutine holds a single share when it compares targets.
`StatsAgree` is inductive as it is: a step publishes, or is an authorize that has yet to, or counts nothing.

The theorems of the same module about difficulties and jobs speak of a session that is at rest; their
invariants say where it is between. `Course` follows `updateJob`: it holds the mutex from its first action to its last and
is at one session at a time. `Told` is what makes difficulties agree: a session that was not raced
for is changed by one side at a time (this is what `raced` records, from both sides), and what that
side has written it is about to store. `Keeps` adds that nobody is about to write or store anything
but the suggestion. `Reached` bounds who is behind: only sessions `updateJob` has yet to come to, or
whose connection is broken; a session it passes over as not ready was never given a job, because
only sessions that receive jobs are, and they do so until they close. Each step is about one session
(`OneSession`, `OneUpdate`, `LoopApart`), so every case is about that session alone.

`PoolRefreshProofs`. Nothing about the template follows from the template: it depends on the order of
the questions of the refresh that fetched it. `PollOK` follows a refresh: what it has been told so far is
bounded by the chain as it *now* is, and a template it gets, asked for last, is above everything it
was told before, above everything known already, and not below the job. `ApplyRefresh` turns that
into `KnownOK`, which carries it to the template, the job and the blocks submitted for it;
`RewardIsEarned` then needs no more than `RecordSolvedBlock`, which gives a round without work no reward. `FilingOK` adds to `BlocksAreFiled` that two
requests never hold the same block, which is pacd's doing: it accepts one block per height. `WorkOK`
says why a round is not empty: until two sessions overlap, one session at most is between its share
and its block.

`DataDirectoryProofs`. `SettingsAreKept` speaks of the time when no request is under way; `KeptOK`
is what holds while one is: an update that was alone is the only one to be saved, and what it saves
is what is in force. `FileLoads` needs it of the requests too, that what they have yet to save can be
loaded (`AskedLoads`, from the two tests of `Accepts`, whatever `Wrapped` made of the number).
`LoggedOnce` is inductive as it is. `OwnerIsKnown` needs the records a refresh has collected to be
those cached, also when they are applied: `CollectedOK`.

`PayoutSplitLemmas`. A sum over a set is a recursive function of the set, which exists because it does
for smaller sets (`RecursionExists`, for naturals, and an induction over cardinality, for sets); then a
sum is the same in any order, grows with its terms, and adds over disjoint sets. The order of a
round's workers is a sequence that lists each once, so the first *n* of it are exactly *n* workers.

`PayoutSplitProofs`. Everything follows from two bounds of the floors: their sum is no more than the reward,
and more than the reward less one atom per worker, because a floor loses less than one. A product that
falls short of a whole number loses exactly one, and then its part was whole: this is why the second
bound survives rounding. So the remainder is between none and the number of workers
(`RemainderFitsOnePass`), each worker gets none or one of it, and the amounts add up. `SplitKeepsOrder`
needs the sort besides: if a worker with less work is paid an atom of the remainder, the one
before it is too. `VarDiffAlwaysSettles` has an invariant of a course, `ComesNear`: after *n* shares the
difficulty suits the pace, or is still too low and then at the most or at least the least doubled *n*
times, or is still too high and then at the least or no more than the most halved *n* times. A step cannot
turn too low into too high: a time below half the target is below the whole of it when it is doubled, and twice
the target is where too high begins. This is what rules out swinging, and what `MutantNarrowBand` breaks.

`PayoutOnceProofs`, `BatchesAlwaysFit`. A walk over the payees in order of amount, which passes over those
the balance does not reach, is the one set that contains each payee exactly if those before it leave room
for it (`IsBatch`). That there is one and only one is an induction over the payees in that order. It keeps to
the balance because the last payee it takes does.

`LedgerRebuildProofs`. A replay is a function of the lines that is followed one line at a time. For
`BlocksAreRecovered` the invariant says no more than that the log is a log (`LogOK`: lines of the right
form, and at most one event waits per process); the rest is one induction over its lines (`FoundBlocks`),
in which the closing blocks before a line give its round's number, and the counted ones after it its place
in the list.
The other two compare the replay with the ledger. `Follows(l, k, same)` says that ledger *l* is what replay *k*
is, but for weights and amounts unless *same*, the order of the workers, marks, what the limit of rounds has
cut off, and rounds that owe nobody anything. One step of the ledger and one line of the replay keep it. What is
hard is that the log is not in step with the ledger: events wait, and are appended in another order. `Tracks`
therefore says that the ledger follows the replay of the log *and then of the waiting events in the order
of their age*, which the appending of an event changes by moving its line before those of older events
that still wait. While the history is faithful, it and all the lines it passes are shares, and two shares
commute. Where the weights may differ, what survives is that the same workers have shares (`Alike`): two splits
of the same reward then list the same workers and have the same total, since every split adds up
(`SplitsMatch`); the amounts are within an atom only where `weighed` makes the two rounds equal. The marks
follow from the payment records, because those explain the ledger's marks (`Consistent`) and list no round that
is yet to end (`PaymentsPast`). `Rebuild` is itself a step that must keep all this: what the tool writes
follows the same replay again.

Induction. The induction theorems of the library that take a predicate as a parameter cannot be used with these
provers. Those about sets can (`NatInduct` and its like in `PayoutSplitLemmas`, from the
well-foundedness of the natural numbers): an induction over *n* is stated as one about the set of the *n* with
the property. Recursive functions are shown to exist by `RecursionExists` before their equation is used.

### Model-checked only

- Liveness (`ThresholdIsPaid`, `RequestsEnd`, `JobCatchesUp`): fairness is out of the prover's reach.
- `DiskIsCurrent` and `MarkedWasSent`, and `BlocksAreForwarded` with difficulties above the network's:
  refuted.

`TypeOK` of `StratumServer` and of `DataDirectory` say the types of their variables; the invariants
of the proofs have the parts of them that the theorems need (`SubmitTypes`, `SettingsTypeOK`,
`RecordsOK`), and no run lists them.

## 5. Not modelled yet, and the plan

What is left to model, in this order:

1. `PayoutWindow`: the daily window as a pure function against its definition by times of day.
2. Changes of the settings while payouts run: the threshold and the switch as variables of
   `PayoutLedger`. The switch is read without a lock before `payoutMu` is tried, so a caller past that
   test still sends after it was turned off.
3. `LastLedgerError` as all three writers set and clear it: the block log clears an error of the ledger.

What is left to prove: an abstract specification that also says what a pool promises *with* restarts, lost
replies and operators, where a payout may be paid again, and that `Spec` implements it;
`TypeOK` of `StratumServer` and of `DataDirectory`, should a run come to list them.

Reorganisations of the chain and the race of half-written worker names have no counterpart in what
the code does about them, and are not planned.

Left out for good: stopping the stratum server, the bytes of headers and messages, the dashboard
(`api/web.go`), HTML and JSON rendering, the HTTP requests of the upstream clients, authentication
of the admin API, command line flags.
