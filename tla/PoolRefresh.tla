------------------------------ MODULE PoolRefresh ------------------------------
(***************************************************************************)
(* What the pool knows of the chain and what it does with it: the Run loop *)
(* asks pacd and pacdata one question after the other and then applies the *)
(* answers (Service.Refresh), the stratum server picks the template up as  *)
(* its job (templateLoop), and sessions submit the blocks that solve it,   *)
(* credit the share and file the block (handleSubmit), with the reward of  *)
(* whatever template the pool then has (finalizeRoundPayoutLocked).        *)
(*                                                                         *)
(* Blocks are heights: pacd has one chain, which only grows.  Of pacd's    *)
(* answers a height is kept, that of the next block, which stands for its  *)
(* subsidy too; 0 stands for an answer never had, and for a failed one.    *)
(***************************************************************************)
EXTENDS Naturals, FiniteSets

CONSTANTS
    Session,   \* stratum connections that submit
    StartTip   \* the height of the chain at the start

ASSUME StartAssumption == StartTip \in Nat \ {0}

CONSTANTS
    MaxTip,    \* bound: height of the chain
    MaxFaults  \* bound: questions that fail, replies that are lost, and restarts

VARIABLES
    tip,         \* pacd: the height of the chain
    miningOpen,  \* pacd: what miningIsOpen makes of its answer: open, or no start is set
    indexed,     \* pacdata: the height it has indexed
    miningAddr,  \* whether the pool has a mining address
    poll,        \* Run loop: the Refresh under way and its answers
    known,       \* what Service.mu guards of the answers, and what follows from them
    job,         \* stratum server: height of the current job, 0 for none
    request,     \* per session: the handleSubmit under way
    work,        \* shares of the current round; those that solve no block are left out
    rounds,      \* the rounds filed
    began,       \* history: the chain when the last refresh applied began
    mined,       \* history: the pool's blocks that pacd accepted
    lost,        \* history: those of them that a fault kept from being filed
    overlapped,  \* history: two sessions have had a credited block to file at once
    faults       \* history: how many faults there were

chainVars == <<tip, miningOpen, indexed>>
refreshVars == <<poll, known, began>>
submitVars == <<request, work, rounds, mined, lost, overlapped>>
vars == <<tip, miningOpen, indexed, miningAddr, poll, known, job, request, work, rounds,
          began, mined, lost, overlapped, faults>>

Fault == faults < MaxFaults /\ faults' = faults + 1

Reason == {"", "not open yet", "mining unknown", "no address", "indexer behind", "no template"}

\* The state a refresh leaves, as far as it is read.
Known == [PACD : Nat, Network : Nat, PACData : Nat, lastTemplate : Nat,
          MiningOpen : BOOLEAN, Ready : BOOLEAN, Healthy : BOOLEAN, NotReadyReason : Reason]

\* New
NothingKnown == [PACD |-> 0, Network |-> 0, PACData |-> 0, lastTemplate |-> 0,
                 MiningOpen |-> FALSE, Ready |-> FALSE, Healthy |-> FALSE,
                 NotReadyReason |-> ""]

Question == {"mining", "network", "index", "template", "apply"}

\* A refresh in progress: the next question, and the answers.
Poll == [next : Question, mining : Nat, open : BOOLEAN, network : Nat, index : Nat,
         template : Nat, began : [tip : Nat, open : BOOLEAN]]

NoBeginning == [tip |-> 0, open |-> FALSE]
NoPoll == [next |-> "mining", mining |-> 0, open |-> FALSE, network |-> 0, index |-> 0,
           template |-> 0, began |-> NoBeginning]

Request == [at : {"idle", "submitting", "accepted", "credited"}, block : Nat]
NoRequest == [at |-> "idle", block |-> 0]

\* A filed round: its block, its accepted shares, and where its reward is from.
Round == [block : Nat, work : Nat, reward : Nat, fromTemplate : BOOLEAN]

\* Every height the pool has is one of the chain's.
HeightsOK ==
    /\ indexed <= tip /\ job <= tip + 1
    /\ known.PACD <= tip + 1 /\ known.lastTemplate <= tip + 1
    /\ known.Network <= tip /\ known.PACData <= tip
    /\ mined \subseteq 1..tip /\ lost \subseteq 1..tip

\* The types of the variables, and the heights they have.
TypeOK ==
    /\ tip \in Nat \ {0} /\ indexed \in Nat /\ miningOpen \in BOOLEAN
    /\ miningAddr \in BOOLEAN
    /\ poll \in Poll /\ known \in Known /\ job \in Nat
    /\ request \in [Session -> Request]
    /\ work \in Nat /\ rounds \subseteq Round
    /\ began \in [tip : Nat, open : BOOLEAN]
    /\ overlapped \in BOOLEAN /\ faults \in Nat
    /\ HeightsOK

Init ==
    /\ tip = StartTip /\ indexed = StartTip
    /\ miningOpen \in BOOLEAN /\ miningAddr \in BOOLEAN
    /\ poll = NoPoll /\ known = NothingKnown /\ job = 0
    /\ request = [s \in Session |-> NoRequest]
    /\ work = 0 /\ rounds = {}
    /\ began = NoBeginning /\ mined = {} /\ lost = {} /\ overlapped = FALSE
    /\ faults = 0

-----------------------------------------------------------------------------
(* pacd and pacdata.                                                        *)

\* Another miner finds a block (bounded by MaxTip).
ChainGrows ==
    /\ miningOpen /\ tip < MaxTip
    /\ tip' = tip + 1
    /\ UNCHANGED <<miningOpen, indexed, miningAddr, refreshVars, job, submitVars, faults>>

MiningOpens ==
    /\ ~miningOpen /\ miningOpen' = TRUE
    /\ UNCHANGED <<tip, indexed, miningAddr, refreshVars, job, submitVars, faults>>

IndexerAdvances ==
    /\ indexed < tip /\ indexed' = indexed + 1
    /\ UNCHANGED <<tip, miningOpen, miningAddr, refreshVars, job, submitVars, faults>>

-----------------------------------------------------------------------------
(* Refresh.                                                                 *)

\* The question has been answered, or has failed (bounded by MaxFaults).
Answered == UNCHANGED <<chainVars, miningAddr, known, began, job, submitVars, faults>>
Failed == /\ Fault
          /\ UNCHANGED <<chainVars, miningAddr, known, began, job, submitVars>>

Beginning == [tip |-> tip, open |-> miningOpen]

\* The refresh that begins with an answer of pacd's, or none.
Begun(mining, open) == [next |-> "network", mining |-> mining, open |-> open, network |-> 0,
                        index |-> 0, template |-> 0, began |-> Beginning]

\* MiningInfo, the first question of a refresh.
AskMining ==
    /\ poll.next = "mining"
    /\ \/ poll' = Begun(tip + 1, miningOpen) /\ Answered
       \/ poll' = Begun(0, FALSE) /\ Failed

MutantAsksNextHeight ==
    /\ poll.next = "network"
    /\ \/ poll' = [poll EXCEPT !.next = "index", !.network = tip + 1] /\ Answered
       \/ poll' = [poll EXCEPT !.next = "index"] /\ Failed

\* NetworkInfo
AskNetwork ==
    /\ poll.next = "network"
    /\ \/ poll' = [poll EXCEPT !.next = "index", !.network = tip] /\ Answered
       \/ poll' = [poll EXCEPT !.next = "index"] /\ Failed

\* Status of pacdata, with the recent blocks (ChainBlocks) after it.
AskIndex ==
    /\ poll.next = "index"
    /\ \/ poll' = [poll EXCEPT !.next = "template", !.index = indexed] /\ Answered
       \/ poll' = [poll EXCEPT !.next = "template"] /\ Failed

\* A template is asked for when mining is open, or may be.
WantsTemplate == miningAddr /\ (poll.mining = 0 \/ poll.open)

\* BlockTemplate, when it is wanted.
AskTemplate ==
    /\ poll.next = "template"
    /\ \/ poll' = [poll EXCEPT !.next = "apply", !.template = IF WantsTemplate THEN tip + 1 ELSE 0]
          /\ Answered
       \/ WantsTemplate /\ poll' = [poll EXCEPT !.next = "apply"] /\ Failed

\* A failed question leaves the old answer.
Latest(answer, old) == IF answer # 0 THEN answer ELSE old

MutantAnyTemplate == poll.template
MutantKeepsTemplate == IF poll.open THEN Latest(poll.template, known.lastTemplate) ELSE 0

\* The template a refresh leaves; one fetched while the mining status failed is dropped.
TemplateAfter == IF poll.open THEN poll.template ELSE 0

MutantHealthyWithoutNetwork ==
    /\ poll.mining # 0 /\ poll.index # 0
    /\ miningAddr /\ poll.open => poll.template # 0

HealthyAfter ==
    /\ poll.mining # 0 /\ poll.network # 0 /\ poll.index # 0
    /\ miningAddr /\ poll.open => poll.template # 0

\* TemplateBackfill: the indexer has the best block, as far as the pool knows.
BackfillAfter == Latest(poll.index, known.PACData) = Latest(poll.network, known.Network)

ReadyAfter == miningAddr /\ poll.open /\ TemplateAfter # 0 /\ BackfillAfter

MutantReasonForgetsTemplate ==
    IF poll.mining = 0 THEN "mining unknown"
    ELSE IF ~poll.open THEN "not open yet"
    ELSE IF ~miningAddr THEN "no address"
    ELSE IF ~BackfillAfter THEN "indexer behind"
    ELSE ""

ReasonAfter ==
    IF poll.mining = 0 THEN "mining unknown"
    ELSE IF ~poll.open THEN "not open yet"
    ELSE IF ReadyAfter THEN ""
    ELSE IF ~miningAddr THEN "no address"
    ELSE IF ~BackfillAfter THEN "indexer behind"
    ELSE "no template"

\* The critical section of Refresh.
ApplyRefresh ==
    /\ poll.next = "apply"
    /\ known' = [PACD |-> Latest(poll.mining, known.PACD),
                 Network |-> Latest(poll.network, known.Network),
                 PACData |-> Latest(poll.index, known.PACData),
                 lastTemplate |-> TemplateAfter,
                 MiningOpen |-> poll.open,
                 Ready |-> ReadyAfter,
                 Healthy |-> HealthyAfter,
                 NotReadyReason |-> ReasonAfter]
    /\ poll' = NoPoll /\ began' = poll.began
    /\ UNCHANGED <<chainVars, miningAddr, job, submitVars, faults>>

Refresh == AskMining \/ AskNetwork \/ AskIndex \/ AskTemplate \/ ApplyRefresh

-----------------------------------------------------------------------------
(* The stratum server.                                                      *)

MutantFirstJobOnly ==
    /\ miningAddr /\ known.lastTemplate # 0 /\ job = 0
    /\ job' = known.lastTemplate
    /\ UNCHANGED <<chainVars, miningAddr, refreshVars, submitVars, faults>>

\* templateLoop: the current template becomes the job; without one the job stays.
UpdateJob ==
    /\ miningAddr /\ known.lastTemplate # 0 /\ job # known.lastTemplate
    /\ job' = known.lastTemplate
    /\ UNCHANGED <<chainVars, miningAddr, refreshVars, submitVars, faults>>

\* Session s has a solution of the current job's block and hands it to pacd.
SubmitSolvedBlock(s) ==
    /\ request[s].at = "idle" /\ job # 0 /\ tip < MaxTip
    /\ request' = [request EXCEPT ![s] = [at |-> "submitting", block |-> job]]
    /\ UNCHANGED <<chainVars, miningAddr, refreshVars, job, work, rounds, mined, lost,
                   overlapped, faults>>

\* pacd takes a block that extends its chain.
Extends(s) == request[s].at = "submitting" /\ request[s].block = tip + 1

PacdAccepts(s) ==
    /\ Extends(s)
    /\ tip' = tip + 1 /\ mined' = mined \cup {tip + 1}
    /\ request' = [request EXCEPT ![s].at = "accepted"]
    /\ UNCHANGED <<miningOpen, indexed, miningAddr, refreshVars, job, work, rounds, lost,
                   overlapped, faults>>

\* It takes the block and SubmitBlock still returns an error, so that the share counts
\* as rejected; or the reply names neither height nor hash, and only the share counts.
PacdAcceptsUnheard(s) ==
    /\ Extends(s) /\ Fault
    /\ tip' = tip + 1 /\ mined' = mined \cup {tip + 1} /\ lost' = lost \cup {tip + 1}
    /\ request' = [request EXCEPT ![s] = NoRequest]
    /\ work' \in {work, work + 1}
    /\ UNCHANGED <<miningOpen, indexed, miningAddr, refreshVars, job, rounds, overlapped>>

\* pacd refuses, or cannot be reached: a rejected share.
PacdRefuses(s) ==
    /\ request[s].at = "submitting"
    /\ request' = [request EXCEPT ![s] = NoRequest]
    /\ UNCHANGED <<chainVars, miningAddr, refreshVars, job, work, rounds, mined, lost,
                   overlapped, faults>>

\* RecordShare, for the share that solved the block.
RecordShare(s) ==
    /\ request[s].at = "accepted"
    /\ work' = work + 1
    /\ request' = [request EXCEPT ![s].at = "credited"]
    /\ overlapped' = (overlapped \/ \E t \in Session : request[t].at = "credited")
    /\ UNCHANGED <<chainVars, miningAddr, refreshVars, job, rounds, mined, lost, faults>>

MutantRewardOfStatus == known.PACD

\* finalizeRoundPayoutLocked: nothing for a round without work, else the template's
\* subsidy, or the mining status's.
RewardNow ==
    IF work = 0 THEN 0
    ELSE IF known.lastTemplate # 0 THEN known.lastTemplate ELSE known.PACD

MutantFilesFirst(s) ==
    /\ request[s].at \in {"accepted", "credited"}
    /\ rounds' = rounds \cup {[block |-> request[s].block, work |-> work,
                               reward |-> RewardNow, fromTemplate |-> known.lastTemplate # 0]}
    /\ work' = 0
    /\ request' = [request EXCEPT ![s] = NoRequest]
    /\ UNCHANGED <<chainVars, miningAddr, refreshVars, job, mined, lost, overlapped, faults>>

MutantFilesCurrentOnly(s) ==
    /\ request[s].at = "credited"
    /\ rounds' = IF request[s].block # job THEN rounds
                 ELSE rounds \cup {[block |-> request[s].block, work |-> work,
                                    reward |-> RewardNow,
                                    fromTemplate |-> known.lastTemplate # 0]}
    /\ work' = 0
    /\ request' = [request EXCEPT ![s] = NoRequest]
    /\ UNCHANGED <<chainVars, miningAddr, refreshVars, job, mined, lost, overlapped, faults>>

\* RecordSolvedBlock; the next share starts the next round.
RecordSolvedBlock(s) ==
    /\ request[s].at = "credited"
    /\ rounds' = rounds \cup {[block |-> request[s].block, work |-> work,
                               reward |-> RewardNow, fromTemplate |-> known.lastTemplate # 0]}
    /\ work' = 0
    /\ request' = [request EXCEPT ![s] = NoRequest]
    /\ UNCHANGED <<chainVars, miningAddr, refreshVars, job, mined, lost, overlapped, faults>>

\* The blocks that requests still have to file.
InFlight == {request[s].block : s \in {s \in Session : request[s].at \in {"accepted", "credited"}}}

\* The program stops and starts again.  A filed round is kept as if it had been written at
\* once: when it is, and what a restart before that loses, is PayoutLedger's matter.
Restart ==
    /\ Fault
    /\ poll' = NoPoll /\ known' = NothingKnown /\ began' = NoBeginning /\ job' = 0
    /\ request' = [s \in Session |-> NoRequest]
    /\ lost' = lost \cup InFlight
    /\ UNCHANGED <<chainVars, miningAddr, work, rounds, mined, overlapped>>

-----------------------------------------------------------------------------
ChainStep == ChainGrows \/ MiningOpens \/ IndexerAdvances

SubmitStep(s) ==
    \/ SubmitSolvedBlock(s)
    \/ PacdAccepts(s)
    \/ PacdAcceptsUnheard(s)
    \/ PacdRefuses(s)
    \/ RecordShare(s)
    \/ RecordSolvedBlock(s)

Next ==
    \/ ChainStep
    \/ Refresh
    \/ UpdateJob
    \/ \E s \in Session : SubmitStep(s)
    \/ Restart

Spec == Init /\ [][Next]_vars

-----------------------------------------------------------------------------
(* Safety.                                                                  *)

\* No miner has a job before mining has opened, also while pacd's mining status fails
\* and a template was fetched on suspicion (Refresh; README.md:32-35).
NoEarlyJobs == job # 0 => miningAddr /\ miningOpen

\* The template extends every block that the pool knows of, whichever questions failed
\* and however old the answers that stand in for them: the readiness of the pool is
\* never that of a template behind its own view of the chain (the order of Refresh's
\* questions).
TemplateExtendsBest ==
    known.lastTemplate # 0 =>
        known.lastTemplate > known.Network /\ known.lastTemplate > known.PACData

\* After a refresh the pool is ready or says why it is not, never both and never
\* neither, also when several answers are old (Refresh; the reason is the dashboard's, in
\* stratumNote).
ReasonGiven == known # NothingKnown => (known.Ready <=> known.NotReadyReason = "")

\* A pool that calls itself healthy has the mining status and the network's height of a
\* chain no older than the beginning of its last refresh, and a template that extends
\* that chain if it mines (Refresh, Healthy).  The indexer may lag behind, so nothing is
\* said of PACData and the recent blocks.
HealthyIsRecent ==
    known.Healthy =>
        /\ known.PACD > began.tip /\ known.Network >= began.tip
        /\ miningAddr /\ began.open => known.lastTemplate > began.tip

\* The reward of a round with work is a subsidy that pacd named, and unless the template
\* had been withdrawn when the block was filed it is the block's own or that of a later
\* block, which is never the larger one: the pool does not promise more than it has
\* earned (finalizeRoundPayoutLocked, Refresh, templateLoop).  A round without work,
\* which two overlapping solutions can leave, has no reward.
RewardIsEarned ==
    \A r \in rounds :
        /\ r.reward # 0 <=> r.work > 0
        /\ r.work > 0 /\ r.fromTemplate => r.reward >= r.block

\* Every block of the pool's that pacd has accepted is filed, or about to be, unless its
\* reply was lost or the program stopped in between; and nothing else is filed
\* (handleSubmit: SubmitSolvedBlock, RecordShare, RecordSolvedBlock).
BlocksAreFiled ==
    /\ mined = {r.block : r \in rounds} \cup InFlight \cup lost
    /\ {r.block : r \in rounds} \cap InFlight = {}

\* No block is filed with an empty round, whose reward nobody would get, unless two
\* sessions had a block to file at the same time (RecordShare, RecordSolvedBlock).
RoundsHaveWork == overlapped \/ \A r \in rounds : r.work > 0

-----------------------------------------------------------------------------
(* Liveness.                                                                *)

\* The tickers of Run and templateLoop go on, every question ends within the clients'
\* timeout, and the indexer catches up.
Fairness == WF_vars(Refresh) /\ WF_vars(UpdateJob) /\ WF_vars(IndexerAdvances)

FairSpec == Spec /\ Fairness

\* When mining is open the pool becomes ready and its miners work on the tip of the
\* chain, once questions stop failing and the chain rests (Refresh, templateLoop).
JobCatchesUp ==
    []((miningAddr /\ miningOpen) => <>[](known.Ready /\ job = tip + 1))
=============================================================================
