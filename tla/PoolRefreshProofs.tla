--------------------------- MODULE PoolRefreshProofs ---------------------------
(***************************************************************************)
(* That the safety properties of PoolRefresh hold for any number of        *)
(* sessions, chains of any length and any number of faults.                *)
(*                                                                         *)
(* What a refresh has asked so far is bounded by the chain as it is now,   *)
(* and a template it got is above all it was told before: PollOK.  The job *)
(* and the requests are below the template: KnownOK.  A block accepted is  *)
(* in one place only: FilingOK.  The round of a block about to be filed    *)
(* has the share that found it: WorkOK.                                    *)
(***************************************************************************)
EXTENDS PoolRefresh, TLAPS

\* The answers of the refresh in progress, against the chain, against what was asked
\* before them, and against what is known already.
PollOK ==
    /\ poll.mining <= tip + 1 /\ poll.network <= tip /\ poll.index <= tip
    /\ poll.template <= tip + 1 /\ poll.began.tip <= tip
    /\ poll.open => miningOpen /\ poll.mining # 0
    /\ poll.mining # 0 => poll.mining > poll.began.tip /\ (poll.began.open => poll.open)
    /\ poll.network # 0 => poll.network >= poll.began.tip
    /\ poll.template # 0 =>
          /\ miningAddr /\ poll.next = "apply"
          /\ poll.template > poll.began.tip
          /\ poll.template > poll.network /\ poll.template > poll.index
          /\ poll.template > known.Network /\ poll.template > known.PACData
          /\ poll.template >= known.lastTemplate /\ poll.template >= job

\* The template that is known, the job made of it, and the requests for that job.
KnownOK ==
    /\ known.lastTemplate # 0 =>
          /\ miningAddr /\ miningOpen
          /\ known.lastTemplate > known.Network /\ known.lastTemplate > known.PACData
          /\ known.lastTemplate >= job /\ known.PACD # 0
    /\ job # 0 => miningAddr /\ miningOpen /\ known.PACD # 0
    /\ \A s \in Session : request[s].at # "idle" =>
          0 < request[s].block /\ request[s].block <= job

\* The sessions with an accepted block.
Holding(s) == request[s].at \in {"accepted", "credited"}

\* Every accepted block is in one place.
FilingOK ==
    /\ BlocksAreFiled
    /\ \A s, t \in Session : Holding(s) /\ Holding(t) /\ s # t =>
          request[s].block # request[t].block

\* The current round has the share of the block that is about to be filed, the only one.
WorkOK ==
    overlapped \/
        /\ RoundsHaveWork
        /\ \A s \in Session : request[s].at = "credited" => work > 0
        /\ \A s, t \in Session : request[s].at = "credited" /\ request[t].at = "credited" => s = t

IInv == TypeOK /\ PollOK /\ KnownOK /\ HealthyIsRecent /\ RewardIsEarned /\ FilingOK /\ WorkOK

-----------------------------------------------------------------------------
(* The records of Refresh and of the requests.                              *)

\* An answer is filled in beside the next question.
LEMMA FilledIn ==
    ASSUME NEW r \in Poll, NEW q \in Question, NEW n \in Nat
    PROVE  /\ [r EXCEPT !.next = q] \in Poll
           /\ [r EXCEPT !.next = q, !.network = n] \in Poll
           /\ [r EXCEPT !.next = q, !.index = n] \in Poll
           /\ [r EXCEPT !.next = q, !.template = n] \in Poll
  <1> DEFINE a == [r EXCEPT !.next = q]
  <1>1. a \in Poll
        BY DEF Poll
  <1>2. /\ [r EXCEPT !.next = q, !.network = n] = [a EXCEPT !.network = n]
        /\ [r EXCEPT !.next = q, !.index = n] = [a EXCEPT !.index = n]
        /\ [r EXCEPT !.next = q, !.template = n] = [a EXCEPT !.template = n]
        OBVIOUS
  <1> HIDE DEF a
  <1>3. /\ [a EXCEPT !.network = n] \in Poll
        /\ [a EXCEPT !.index = n] \in Poll
        /\ [a EXCEPT !.template = n] \in Poll
        BY <1>1 DEF Poll
  <1>4. QED
        BY <1>1, <1>2, <1>3 DEF a

\* A question changes only the refresh in progress.
LEMMA Asked ==
    ASSUME TypeOK, AskMining \/ AskNetwork \/ AskIndex \/ AskTemplate
    PROVE  /\ poll' \in Poll
           /\ UNCHANGED <<tip, miningOpen, indexed, miningAddr, known, began, job, request,
                          work, rounds, mined, lost, overlapped>>
           /\ faults' \in Nat
  <1>0. (Answered \/ Failed) /\ (Answered => UNCHANGED faults) /\ (Failed => Fault)
        BY DEF AskMining, AskNetwork, AskIndex, AskTemplate, Answered, Failed
  <1>1. UNCHANGED <<tip, miningOpen, indexed, miningAddr, known, began, job, request,
                    work, rounds, mined, lost, overlapped>>
    <2>1. UNCHANGED <<chainVars, miningAddr, known, began, job, submitVars>>
          BY <1>0 DEF Answered, Failed
    <2>2. QED
          BY <2>1 DEF chainVars, submitVars
  <1>2. faults' \in Nat
        BY <1>0 DEF Fault, TypeOK
  <1>3. poll' \in Poll
    <2>0. /\ poll \in Poll /\ tip \in Nat /\ miningOpen \in BOOLEAN
          /\ {"network", "index", "template", "apply"} \subseteq Question
          /\ tip + 1 \in Nat /\ indexed \in Nat /\ 0 \in Nat
          BY DEF TypeOK, Question
    <2>1. CASE AskMining
      <3>1. ASSUME NEW n \in Nat, NEW o \in BOOLEAN
            PROVE  Begun(n, o) \in Poll
            BY <2>0 DEF Begun, Beginning, Poll
      <3>2. QED
            BY <2>0, <2>1, <3>1 DEF AskMining
    <2>2. CASE AskNetwork
      <3>1. poll' \in {[poll EXCEPT !.next = "index", !.network = tip],
                       [poll EXCEPT !.next = "index"]}
            BY <2>2 DEF AskNetwork
      <3>2. "index" \in Question /\ tip \in Nat
            BY <2>0
      <3>3. /\ [poll EXCEPT !.next = "index", !.network = tip] \in Poll
            /\ [poll EXCEPT !.next = "index"] \in Poll
            BY <2>0, <3>2, FilledIn, Zenon
      <3>4. QED
            BY <3>1, <3>3
    <2>3. CASE AskIndex
      <3>1. poll' \in {[poll EXCEPT !.next = "template", !.index = indexed],
                       [poll EXCEPT !.next = "template"]}
            BY <2>3 DEF AskIndex
      <3>2. "template" \in Question /\ indexed \in Nat
            BY <2>0
      <3>3. /\ [poll EXCEPT !.next = "template", !.index = indexed] \in Poll
            /\ [poll EXCEPT !.next = "template"] \in Poll
            BY <2>0, <3>2, FilledIn, Zenon
      <3>4. QED
            BY <3>1, <3>3
    <2>4. CASE AskTemplate
      <3>1. PICK n \in {0, tip + 1} :
               poll' \in {[poll EXCEPT !.next = "apply", !.template = n],
                          [poll EXCEPT !.next = "apply"]}
            BY <2>4 DEF AskTemplate
      <3>2. "apply" \in Question /\ n \in Nat
            BY <2>0
      <3>3. /\ [poll EXCEPT !.next = "apply", !.template = n] \in Poll
            /\ [poll EXCEPT !.next = "apply"] \in Poll
            BY <2>0, <3>2, FilledIn, Zenon
      <3>4. QED
            BY <3>1, <3>3
    <2>5. QED
          BY <2>1, <2>2, <2>3, <2>4
  <1>4. QED
        BY <1>1, <1>2, <1>3

\* What a question adds to the refresh in progress.
LEMMA AskedPoll ==
    ASSUME TypeOK, PollOK, KnownOK, AskMining \/ AskNetwork \/ AskIndex \/ AskTemplate
    PROVE  PollOK'
  <1>1. /\ poll' \in Poll /\ poll \in Poll /\ known \in Known /\ job \in Nat
        /\ tip \in Nat /\ indexed \in 0..tip /\ job <= tip + 1
        /\ UNCHANGED <<tip, miningOpen, indexed, miningAddr, known, job>>
        BY Asked DEF TypeOK, HeightsOK
  <1>2. CASE AskMining
    <2>1. ASSUME NEW n \in {0, tip + 1}, NEW o \in BOOLEAN, poll' = Begun(n, o),
                 o = (n # 0 /\ miningOpen)
          PROVE  PollOK'
      <3>1. /\ poll'.next = "network" /\ poll'.mining = n /\ poll'.open = o
            /\ poll'.network = 0 /\ poll'.index = 0 /\ poll'.template = 0
            /\ poll'.began = [tip |-> tip, open |-> miningOpen]
            BY <2>1 DEF Begun, Beginning
      <3>2. poll'.began.tip = tip /\ poll'.began.open = miningOpen
            BY <3>1
      <3>3. n \in Nat /\ n <= tip + 1 /\ (n # 0 => n > tip) /\ miningOpen \in BOOLEAN
            BY <1>1, <2>1 DEF TypeOK
      <3>4. (poll'.open => miningOpen /\ n # 0) /\ (miningOpen /\ n # 0 => poll'.open)
            BY <2>1, <3>1, <3>3, Zenon
      <3>5. QED
            BY <1>1, <3>1, <3>2, <3>3, <3>4 DEF PollOK
    <2>2. tip + 1 # 0 /\ miningOpen \in BOOLEAN
          BY <1>1 DEF TypeOK
    <2>3. QED
          BY <1>2, <2>1, <2>2 DEF AskMining
  <1>3. CASE AskNetwork
    <2>1. poll.template = 0
          BY <1>1, <1>3 DEF AskNetwork, PollOK, Poll
    <2>2. /\ poll'.next = "index" /\ poll'.network \in {poll.network, tip}
          /\ poll'.mining = poll.mining /\ poll'.open = poll.open
          /\ poll'.index = poll.index /\ poll'.template = poll.template
          /\ poll'.began = poll.began
          BY <1>1, <1>3 DEF AskNetwork, Poll
    <2>3. QED
          BY <1>1, <2>1, <2>2 DEF PollOK, Poll
  <1>4. CASE AskIndex
    <2>1. poll.template = 0
          BY <1>1, <1>4 DEF AskIndex, PollOK, Poll
    <2>2. /\ poll'.next = "template" /\ poll'.index \in {poll.index, indexed}
          /\ poll'.mining = poll.mining /\ poll'.open = poll.open
          /\ poll'.network = poll.network /\ poll'.template = poll.template
          /\ poll'.began = poll.began
          BY <1>1, <1>4 DEF AskIndex, Poll
    <2>3. QED
          BY <1>1, <2>1, <2>2 DEF PollOK, Poll
  <1>5. CASE AskTemplate
    <2>1. poll.template = 0
          BY <1>1, <1>5 DEF AskTemplate, PollOK, Poll
    <2>2. /\ poll'.next = "apply" /\ poll'.template \in {0, tip + 1}
          /\ poll'.template # 0 => miningAddr
          /\ poll'.mining = poll.mining /\ poll'.open = poll.open
          /\ poll'.network = poll.network /\ poll'.index = poll.index
          /\ poll'.began = poll.began
      <3>1. poll \in Poll
            BY <1>1
      <3>2. \/ poll' = [poll EXCEPT !.next = "apply",
                                   !.template = IF WantsTemplate THEN tip + 1 ELSE 0]
            \/ poll' = [poll EXCEPT !.next = "apply"]
            BY <1>5 DEF AskTemplate
      <3>3. WantsTemplate => miningAddr
            BY DEF WantsTemplate
      <3> HIDE DEF WantsTemplate
      <3>4. QED
            BY <2>1, <3>1, <3>2, <3>3 DEF Poll
    <2>3. /\ known.Network <= tip /\ known.PACData <= tip
          /\ known.lastTemplate <= tip + 1
          BY DEF TypeOK, HeightsOK
    <2>4. QED
          BY <1>1, <2>1, <2>2, <2>3 DEF PollOK, Poll, Known
  <1>6. QED
        BY <1>2, <1>3, <1>4, <1>5

\* What the state shows after a refresh.
LEMMA Applied ==
    ASSUME TypeOK, PollOK, KnownOK, ApplyRefresh
    PROVE  TypeOK' /\ PollOK' /\ KnownOK' /\ HealthyIsRecent'
  <1>1. /\ poll \in Poll /\ known \in Known /\ tip \in Nat /\ job \in Nat
        /\ request \in [Session -> Request]
        BY DEF TypeOK
  <1>2. /\ UNCHANGED <<tip, miningOpen, indexed, miningAddr, job, request, work, rounds,
                       mined, lost, overlapped, faults>>
        /\ poll' = NoPoll /\ began' = poll.began
        BY DEF ApplyRefresh, chainVars, submitVars
  <1>3. /\ known'.PACD = IF poll.mining # 0 THEN poll.mining ELSE known.PACD
        /\ known'.Network = IF poll.network # 0 THEN poll.network ELSE known.Network
        /\ known'.PACData = IF poll.index # 0 THEN poll.index ELSE known.PACData
        /\ known'.lastTemplate = IF poll.open THEN poll.template ELSE 0
        /\ known'.Healthy = HealthyAfter
        BY DEF ApplyRefresh, Latest, TemplateAfter
  <1>4. known' \in Known
    <2>1. ReasonAfter \in Reason
          BY DEF ReasonAfter, Reason
    <2>2. ReadyAfter \in BOOLEAN /\ HealthyAfter \in BOOLEAN
          BY DEF ReadyAfter, HealthyAfter
    <2>3. QED
          BY <1>1, <2>1, <2>2 DEF ApplyRefresh, Known, Poll, Latest, TemplateAfter
  <1>5. NoPoll \in Poll /\ poll.began \in [tip : Nat, open : BOOLEAN]
        BY <1>1 DEF NoPoll, NoBeginning, Poll, Question
  <1>6. TypeOK'
    <2>1. HeightsOK'
          BY <1>1, <1>2, <1>3 DEF TypeOK, HeightsOK, PollOK, Poll, Known
    <2>2. QED
          BY <1>1, <1>2, <1>4, <1>5, <2>1 DEF TypeOK
  <1>7. PollOK'
        BY <1>1, <1>2 DEF PollOK, NoPoll, NoBeginning
  <1>8. KnownOK'
        BY <1>1, <1>2, <1>3 DEF KnownOK, PollOK, Poll, Known
  <1>9. HealthyIsRecent'
        BY <1>1, <1>2, <1>3 DEF HealthyIsRecent, HealthyAfter, PollOK, Poll, Known
  <1>10. QED
        BY <1>6, <1>7, <1>8, <1>9

\* A session's request goes on; the others' stay.
LEMMA Moved ==
    ASSUME request \in [Session -> Request], NEW s \in Session,
           NEW a \in {"idle", "submitting", "accepted", "credited"}
    PROVE  /\ [request EXCEPT ![s].at = a] \in [Session -> Request]
           /\ [request EXCEPT ![s].at = a][s] = [at |-> a, block |-> request[s].block]
           /\ [request EXCEPT ![s] = NoRequest] \in [Session -> Request]
           /\ \A t \in Session : t # s =>
                 /\ [request EXCEPT ![s].at = a][t] = request[t]
                 /\ [request EXCEPT ![s] = NoRequest][t] = request[t]
  BY DEF Request, NoRequest

-----------------------------------------------------------------------------
(* The types, the refresh in progress and what is known.                    *)

\* What is below the tip stays below it when the chain grows.
LEMMA HigherTip ==
    ASSUME NEW a \in Nat, NEW b \in {a, a + 1}, NEW n \in Nat
    PROVE  (n <= a => n <= b) /\ (n <= a + 1 => n <= b + 1)
  OBVIOUS

\* The chain moves.
LEMMA ChainKeeps ==
    ASSUME TypeOK, PollOK, KnownOK, ChainStep
    PROVE  TypeOK' /\ PollOK' /\ KnownOK'
  <1>1. /\ tip \in Nat /\ tip # 0 /\ tip' \in {tip, tip + 1}
        /\ indexed' \in Nat /\ indexed' <= tip'
        BY DEF ChainStep, ChainGrows, MiningOpens, IndexerAdvances, TypeOK, HeightsOK
  <1>2. UNCHANGED <<miningAddr, poll, known, began, job, request, work, rounds, mined, lost,
                    overlapped, faults>>
        BY DEF ChainStep, ChainGrows, MiningOpens, IndexerAdvances, refreshVars, submitVars
  <1>3. miningOpen' \in BOOLEAN /\ (miningOpen => miningOpen')
        BY DEF ChainStep, ChainGrows, MiningOpens, IndexerAdvances, TypeOK
  <1>4. TypeOK'
    <2>1. HeightsOK'
      <3>0. tip \in Nat /\ tip' \in {tip, tip + 1}
            BY <1>1
      <3>1. mined' \subseteq 1..tip' /\ lost' \subseteq 1..tip'
            BY <1>1, <1>2 DEF TypeOK, HeightsOK
      <3>2. /\ job <= tip + 1 /\ known.PACD <= tip + 1 /\ known.lastTemplate <= tip + 1
            /\ known.Network <= tip /\ known.PACData <= tip
            /\ job \in Nat /\ known.PACD \in Nat /\ known.lastTemplate \in Nat
            /\ known.Network \in Nat /\ known.PACData \in Nat
            BY DEF TypeOK, HeightsOK, Known
      <3>3. job' = job /\ known' = known /\ tip' \in Nat /\ tip <= tip'
            BY <1>1, <1>2
      <3>4. /\ job <= tip' + 1 /\ known.PACD <= tip' + 1
            /\ known.lastTemplate <= tip' + 1
            /\ known.Network <= tip' /\ known.PACData <= tip'
        <4>1. job <= tip' + 1
              BY <3>0, <3>2, HigherTip
        <4>2. known.PACD <= tip' + 1
              BY <3>0, <3>2, HigherTip
        <4>3. known.lastTemplate <= tip' + 1
              BY <3>0, <3>2, HigherTip
        <4>4. known.Network <= tip'
              BY <3>0, <3>2, HigherTip
        <4>5. known.PACData <= tip'
              BY <3>0, <3>2, HigherTip
        <4>6. QED
              BY <4>1, <4>2, <4>3, <4>4, <4>5
      <3>5. QED
            BY <1>1, <3>1, <3>3, <3>4 DEF HeightsOK
    <2>2. QED
          BY <1>1, <1>2, <1>3, <2>1 DEF TypeOK
  <1>5. PollOK'
        BY <1>1, <1>2, <1>3 DEF TypeOK, PollOK, Poll
  <1>6. KnownOK'
        BY <1>1, <1>2, <1>3 DEF KnownOK
  <1>7. QED
        BY <1>4, <1>5, <1>6

\* The current template becomes the job.
LEMMA UpdateJobKeeps ==
    ASSUME TypeOK, PollOK, KnownOK, UpdateJob
    PROVE  TypeOK' /\ PollOK' /\ KnownOK'
  <1>1. /\ job' = known.lastTemplate /\ known.lastTemplate # 0
        /\ UNCHANGED <<tip, miningOpen, indexed, miningAddr, poll, known, began, request, work,
                       rounds, mined, lost, overlapped, faults>>
        BY DEF UpdateJob, chainVars, refreshVars, submitVars
  <1>2. /\ tip \in Nat /\ job \in Nat /\ known \in Known /\ poll \in Poll
        /\ request \in [Session -> Request]
        BY DEF TypeOK
  <1>3. TypeOK'
        BY <1>1, <1>2 DEF TypeOK, HeightsOK, Known
  <1>4. PollOK'
        BY <1>1, <1>2 DEF PollOK, Poll, Known
  <1>5. KnownOK'
        BY <1>1, <1>2 DEF KnownOK, Known, Request
  <1>6. QED
        BY <1>3, <1>4, <1>5

\* What a step of a session does to everything but the history: the chain may get its
\* block, and its request moves on.
LEMMA SubmitKeeps ==
    ASSUME TypeOK, PollOK, KnownOK, NEW s \in Session, SubmitStep(s)
    PROVE  TypeOK' /\ PollOK' /\ KnownOK'
  <1>1. /\ tip \in Nat /\ tip # 0 /\ tip' \in {tip, tip + 1}
        /\ UNCHANGED <<miningOpen, indexed, miningAddr, poll, known, began, job>>
        BY DEF SubmitStep, SubmitSolvedBlock, PacdAccepts, PacdAcceptsUnheard, PacdRefuses,
               RecordShare, RecordSolvedBlock, chainVars, refreshVars, TypeOK
  <1>2. /\ known \in Known /\ poll \in Poll /\ job \in Nat
        /\ request \in [Session -> Request] /\ HeightsOK
        BY DEF TypeOK
  <1>3. /\ request' \in [Session -> Request]
        /\ \A t \in Session : request'[t].at # "idle" =>
              \/ request[t].at # "idle" /\ request'[t].block = request[t].block
              \/ job # 0 /\ request'[t].block = job
    <2>1. CASE SubmitSolvedBlock(s)
      <3>1. /\ request' = [request EXCEPT ![s] = [at |-> "submitting", block |-> job]]
            /\ job # 0 /\ [at |-> "submitting", block |-> job] \in Request
            BY <1>2, <2>1 DEF SubmitSolvedBlock, Request
      <3>2. /\ request'[s].block = job
            /\ \A t \in Session : t # s => request'[t] = request[t]
            BY <1>2, <3>1
      <3>3. QED
            BY <1>2, <3>1, <3>2
    <2>2. CASE PacdAccepts(s)
      <3>1. /\ request' = [request EXCEPT ![s].at = "accepted"]
            /\ request[s].at # "idle"
            BY <2>2 DEF PacdAccepts, Extends
      <3>2. [request[s] EXCEPT !.at = "accepted"] = [at |-> "accepted", block |-> request[s].block]
            BY <1>2 DEF Request
      <3>3. /\ request' \in [Session -> Request]
            /\ request'[s].block = request[s].block
            /\ \A t \in Session : t # s => request'[t] = request[t]
            BY <1>2, <3>1, <3>2 DEF Request
      <3>4. QED
            BY <3>1, <3>3
    <2>3. CASE PacdAcceptsUnheard(s)
          BY <1>2, <2>3, Moved DEF PacdAcceptsUnheard, NoRequest
    <2>4. CASE PacdRefuses(s)
          BY <1>2, <2>4, Moved DEF PacdRefuses, NoRequest
    <2>5. CASE RecordShare(s)
      <3>1. /\ request' = [request EXCEPT ![s].at = "credited"]
            /\ request[s].at # "idle"
            BY <2>5 DEF RecordShare
      <3>2. [request[s] EXCEPT !.at = "credited"] = [at |-> "credited", block |-> request[s].block]
            BY <1>2 DEF Request
      <3>3. /\ request' \in [Session -> Request]
            /\ request'[s].block = request[s].block
            /\ \A t \in Session : t # s => request'[t] = request[t]
            BY <1>2, <3>1, <3>2 DEF Request
      <3>4. QED
            BY <3>1, <3>3
    <2>6. CASE RecordSolvedBlock(s)
          BY <1>2, <2>6, Moved DEF RecordSolvedBlock, NoRequest
    <2>7. QED
          BY <2>1, <2>2, <2>3, <2>4, <2>5, <2>6 DEF SubmitStep
  <1>4. /\ work' \in Nat /\ rounds' \subseteq Round /\ mined' \subseteq 1..tip'
        /\ lost' \subseteq 1..tip' /\ overlapped' \in BOOLEAN /\ faults' \in Nat
    <2>0. /\ work \in Nat /\ rounds \subseteq Round /\ mined \subseteq 1..tip
          /\ lost \subseteq 1..tip /\ overlapped \in BOOLEAN /\ faults \in Nat
          BY DEF TypeOK, HeightsOK
    <2>1. CASE SubmitSolvedBlock(s)
          BY <2>0, <2>1 DEF SubmitSolvedBlock, chainVars
    <2>2. CASE PacdAccepts(s)
          BY <1>1, <2>0, <2>2 DEF PacdAccepts
    <2>3. CASE PacdAcceptsUnheard(s)
          BY <1>1, <2>0, <2>3 DEF PacdAcceptsUnheard, Fault
    <2>4. CASE PacdRefuses(s)
          BY <2>0, <2>4 DEF PacdRefuses, chainVars
    <2>5. CASE RecordShare(s)
          BY <2>0, <2>5 DEF RecordShare, chainVars
    <2>6. CASE RecordSolvedBlock(s)
      <3>1. request[s].block \in Nat /\ RewardNow \in Nat
            BY <1>2 DEF RewardNow, Known, Request
      <3>2. [block |-> request[s].block, work |-> work, reward |-> RewardNow,
             fromTemplate |-> known.lastTemplate # 0] \in Round
            BY <2>0, <3>1 DEF Round
      <3>3. QED
            BY <2>0, <2>6, <3>2 DEF RecordSolvedBlock, chainVars
    <2>7. QED
          BY <2>1, <2>2, <2>3, <2>4, <2>5, <2>6 DEF SubmitStep
  <1>5. TypeOK'
    <2>1. HeightsOK'
      <3>1. /\ job <= tip + 1 /\ known.PACD <= tip + 1 /\ known.lastTemplate <= tip + 1
            /\ known.Network <= tip /\ known.PACData <= tip /\ indexed <= tip
            /\ job \in Nat /\ known.PACD \in Nat /\ known.lastTemplate \in Nat
            /\ known.Network \in Nat /\ known.PACData \in Nat /\ indexed \in Nat
            BY DEF TypeOK, HeightsOK, Known
      <3>2. job' = job /\ known' = known /\ indexed' = indexed
            BY <1>1
      <3>3. /\ indexed <= tip' /\ job <= tip' + 1 /\ known.PACD <= tip' + 1
            /\ known.lastTemplate <= tip' + 1
            /\ known.Network <= tip' /\ known.PACData <= tip'
        <4>1. tip \in Nat /\ tip' \in {tip, tip + 1}
              BY <1>1
        <4>2. indexed <= tip'
              BY <4>1, <3>1, HigherTip
        <4>3. job <= tip' + 1
              BY <4>1, <3>1, HigherTip
        <4>4. known.PACD <= tip' + 1
              BY <4>1, <3>1, HigherTip
        <4>5. known.lastTemplate <= tip' + 1
              BY <4>1, <3>1, HigherTip
        <4>6. known.Network <= tip'
              BY <4>1, <3>1, HigherTip
        <4>7. known.PACData <= tip'
              BY <4>1, <3>1, HigherTip
        <4>8. QED
              BY <4>2, <4>3, <4>4, <4>5, <4>6, <4>7
      <3>4. QED
            BY <1>4, <3>2, <3>3 DEF HeightsOK
    <2>2. QED
          BY <1>1, <1>2, <1>3, <1>4, <2>1 DEF TypeOK
  <1>6. PollOK'
        BY <1>1, <1>2 DEF PollOK, Poll
  <1>7. KnownOK'
        BY <1>1, <1>2, <1>3 DEF KnownOK, Request
  <1>8. QED
        BY <1>5, <1>6, <1>7

\* A restart forgets all but the ledger.
LEMMA RestartKeeps ==
    ASSUME TypeOK, BlocksAreFiled, Restart
    PROVE  TypeOK' /\ PollOK' /\ KnownOK' /\ HealthyIsRecent'
  <1>1. /\ poll' = NoPoll /\ known' = NothingKnown /\ began' = NoBeginning /\ job' = 0
        /\ request' = [s \in Session |-> NoRequest] /\ lost' = lost \cup InFlight
        /\ faults' = faults + 1
        /\ UNCHANGED <<tip, miningOpen, indexed, miningAddr, work, rounds, mined, overlapped>>
        BY DEF Restart, Fault, chainVars
  <1>2. NoPoll \in Poll /\ NothingKnown \in Known
        BY DEF NoPoll, NoBeginning, Poll, Question, NothingKnown, Known, Reason
  <1>3. [s \in Session |-> NoRequest] \in [Session -> Request]
        BY DEF NoRequest, Request
  <1>4. InFlight \subseteq 1..tip
        BY DEF BlocksAreFiled, TypeOK, HeightsOK
  <1>5. TypeOK'
    <2>1. HeightsOK'
      <3>1. /\ known'.PACD = 0 /\ known'.lastTemplate = 0 /\ known'.Network = 0
            /\ known'.PACData = 0 /\ job' = 0
            BY <1>1 DEF NothingKnown
      <3>2. /\ tip \in Nat /\ indexed <= tip /\ mined' \subseteq 1..tip'
            /\ lost' \subseteq 1..tip' /\ tip' = tip /\ indexed' = indexed
            BY <1>1, <1>4 DEF TypeOK, HeightsOK
      <3>3. QED
            BY <3>1, <3>2 DEF HeightsOK
    <2>2. QED
          BY <1>1, <1>2, <1>3, <2>1 DEF TypeOK, NoBeginning
  <1>6. PollOK'
        BY <1>1 DEF PollOK, NoPoll, NoBeginning, TypeOK
  <1>7. KnownOK'
        BY <1>1 DEF KnownOK, NothingKnown, NoRequest
  <1>8. HealthyIsRecent'
        BY <1>1 DEF HealthyIsRecent, NothingKnown
  <1>9. QED
        BY <1>5, <1>6, <1>7, <1>8

-----------------------------------------------------------------------------
(* Rewards, filed blocks and the work of a round.                           *)

\* A round with work is filed with a subsidy of a template above its block.
LEMMA RewardKeeps ==
    ASSUME TypeOK, KnownOK, RewardIsEarned, NEW s \in Session, SubmitStep(s)
    PROVE  RewardIsEarned'
  <1>1. CASE RecordSolvedBlock(s)
    <2> DEFINE filed == [block |-> request[s].block, work |-> work, reward |-> RewardNow,
                         fromTemplate |-> known.lastTemplate # 0]
    <2>1. rounds' = rounds \cup {filed} /\ request[s].at # "idle"
          BY <1>1 DEF RecordSolvedBlock
    <2>2. /\ known.lastTemplate \in Nat /\ known.PACD \in Nat /\ job \in Nat
          /\ request[s].block \in Nat /\ work \in Nat
          BY DEF TypeOK, Known, Request
    <2>3. /\ 0 < request[s].block /\ request[s].block <= job
          /\ known.lastTemplate # 0 => known.lastTemplate >= job
          /\ job # 0 => known.PACD # 0
          BY <2>1 DEF KnownOK
    <2>4. /\ RewardNow # 0 <=> work > 0
          /\ work > 0 /\ known.lastTemplate # 0 => RewardNow >= request[s].block
          BY <2>2, <2>3 DEF RewardNow
    <2>5. /\ filed.reward # 0 <=> filed.work > 0
          /\ filed.work > 0 /\ filed.fromTemplate => filed.reward >= filed.block
          BY <2>4
    <2> HIDE DEF filed
    <2>6. QED
          BY <2>1, <2>5 DEF RewardIsEarned
  <1>2. CASE ~RecordSolvedBlock(s)
    <2>1. rounds' = rounds
          BY <1>2 DEF SubmitStep, SubmitSolvedBlock, PacdAccepts, PacdAcceptsUnheard,
                      PacdRefuses, RecordShare
    <2>2. QED
          BY <2>1 DEF RewardIsEarned
  <1>3. QED
        BY <1>1, <1>2

Filed == {r.block : r \in rounds}

\* The blocks in flight are those of the sessions that hold one.
LEMMA InFlightHeld ==
    \A b : b \in InFlight <=> \E s \in Session : Holding(s) /\ request[s].block = b
  BY DEF InFlight, Holding

\* The same afterwards.
LEMMA InFlightHeldNext ==
    \A b : b \in InFlight' <=> \E s \in Session : Holding(s)' /\ request'[s].block = b
  BY DEF InFlight, Holding

\* A step that neither takes nor gives a session an accepted block.
LEMMA SameHolding ==
    ASSUME FilingOK, rounds' = rounds,
           \A t \in Session : /\ Holding(t)' <=> Holding(t)
                              /\ Holding(t) => request'[t].block = request[t].block
    PROVE  /\ InFlight' = InFlight
           /\ mined' \ mined = lost' \ lost /\ mined \subseteq mined' /\ lost \subseteq lost'
                 => FilingOK'
  <1>1. \A b : b \in InFlight' <=> b \in InFlight
        BY InFlightHeld, InFlightHeldNext
  <1>2. InFlight' = InFlight
        BY <1>1
  <1>3. ASSUME mined' \ mined = lost' \ lost, mined \subseteq mined', lost \subseteq lost'
        PROVE  FilingOK'
    <2>1. BlocksAreFiled'
      <3>1. /\ mined = Filed \cup InFlight \cup lost /\ Filed \cap InFlight = {}
            /\ Filed' = Filed
            BY DEF FilingOK, BlocksAreFiled, Filed
      <3>2. mined' = Filed' \cup InFlight' \cup lost' /\ Filed' \cap InFlight' = {}
            BY <1>2, <1>3, <3>1
      <3>3. QED
            BY <3>2 DEF BlocksAreFiled, Filed
    <2>2. QED
          BY <2>1 DEF FilingOK
  <1>4. QED
        BY <1>2, <1>3

\* A block stays in one place: with a session that holds it, in a round, or lost.
LEMMA FilingKeeps ==
    ASSUME TypeOK, FilingOK, NEW s \in Session, SubmitStep(s)
    PROVE  FilingOK'
  <1>1. /\ request \in [Session -> Request] /\ tip \in Nat /\ mined \subseteq 1..tip
        /\ lost \subseteq 1..tip
        BY DEF TypeOK, HeightsOK
  <1>2. CASE SubmitSolvedBlock(s)
    <2>1. /\ request[s].at = "idle" /\ request'[s].at = "submitting"
          /\ \A t \in Session : t # s => request'[t] = request[t]
          /\ UNCHANGED <<rounds, mined, lost>>
          BY <1>1, <1>2 DEF SubmitSolvedBlock
    <2>2. QED
          BY <2>1, SameHolding DEF Holding
  <1>3. CASE PacdAccepts(s)
    <2>1. /\ request[s].at = "submitting" /\ request[s].block = tip + 1
          /\ request'[s] = [at |-> "accepted", block |-> request[s].block]
          /\ \A t \in Session : t # s => request'[t] = request[t]
          /\ mined' = mined \cup {tip + 1} /\ UNCHANGED <<rounds, lost>>
          BY <1>1, <1>3, Moved DEF PacdAccepts, Extends
    <2>2. /\ ~Holding(s) /\ Holding(s)' /\ request'[s].block = tip + 1
          /\ \A t \in Session : t # s => (Holding(t)' <=> Holding(t)) /\ request'[t] = request[t]
          BY <2>1 DEF Holding
    <2>3. \A b : b \in InFlight' <=> b \in InFlight \/ b = tip + 1
          BY <2>2, InFlightHeld, InFlightHeldNext
    <2>4. /\ mined = Filed \cup InFlight \cup lost /\ Filed \cap InFlight = {}
          /\ Filed' = Filed
          BY <2>1 DEF FilingOK, BlocksAreFiled, Filed
    <2>5. tip + 1 \notin mined
          BY <1>1
    <2>6. mined' = Filed' \cup InFlight' \cup lost' /\ Filed' \cap InFlight' = {}
          BY <2>1, <2>3, <2>4, <2>5
    <2>7. \A t \in Session : Holding(t) => request[t].block # tip + 1
          BY <2>4, <2>5, InFlightHeld
    <2>8. \A t, u \in Session : Holding(t)' /\ Holding(u)' /\ t # u =>
             request'[t].block # request'[u].block
          BY <2>2, <2>7 DEF FilingOK
    <2>9. QED
          BY <2>6, <2>8 DEF FilingOK, BlocksAreFiled, Filed
  <1>4. CASE PacdAcceptsUnheard(s)
    <2>1. /\ request[s].at = "submitting" /\ request'[s].at = "idle"
          /\ \A t \in Session : t # s => request'[t] = request[t]
          /\ mined' = mined \cup {tip + 1} /\ lost' = lost \cup {tip + 1} /\ rounds' = rounds
          BY <1>1, <1>4 DEF PacdAcceptsUnheard, Extends, NoRequest
    <2>2. \A t \in Session : /\ Holding(t)' <=> Holding(t)
                             /\ Holding(t) => request'[t].block = request[t].block
          BY <2>1 DEF Holding
    <2>3. tip + 1 \notin mined /\ tip + 1 \notin lost
          BY <1>1
    <2>4. mined' \ mined = lost' \ lost /\ mined \subseteq mined' /\ lost \subseteq lost'
          BY <2>1, <2>3
    <2>5. QED
          BY <2>1, <2>2, <2>4, SameHolding
  <1>5. CASE PacdRefuses(s)
    <2>1. /\ request[s].at = "submitting" /\ request'[s].at = "idle"
          /\ \A t \in Session : t # s => request'[t] = request[t]
          /\ UNCHANGED <<rounds, mined, lost>>
          BY <1>1, <1>5 DEF PacdRefuses, NoRequest
    <2>2. QED
          BY <2>1, SameHolding DEF Holding
  <1>6. CASE RecordShare(s)
    <2>1. /\ request[s].at = "accepted"
          /\ request'[s] = [at |-> "credited", block |-> request[s].block]
          /\ \A t \in Session : t # s => request'[t] = request[t]
          /\ UNCHANGED <<rounds, mined, lost>>
          BY <1>1, <1>6, Moved DEF RecordShare
    <2>2. QED
          BY <2>1, SameHolding DEF Holding
  <1>7. CASE RecordSolvedBlock(s)
    <2>1. /\ request[s].at = "credited" /\ request'[s].at = "idle"
          /\ \A t \in Session : t # s => request'[t] = request[t]
          /\ UNCHANGED <<mined, lost>>
          BY <1>1, <1>7 DEF RecordSolvedBlock, NoRequest
    <2>2. Filed' = Filed \cup {request[s].block}
      <3> DEFINE filed == [block |-> request[s].block, work |-> work, reward |-> RewardNow,
                           fromTemplate |-> known.lastTemplate # 0]
      <3>1. rounds' = rounds \cup {filed}
            BY <1>7 DEF RecordSolvedBlock
      <3>2. filed.block = request[s].block
            OBVIOUS
      <3> HIDE DEF filed
      <3>3. QED
            BY <3>1, <3>2 DEF Filed
    <2>3. /\ Holding(s) /\ ~Holding(s)'
          /\ \A t \in Session : t # s => (Holding(t)' <=> Holding(t)) /\ request'[t] = request[t]
          BY <2>1 DEF Holding
    <2>4. \A b : b \in InFlight' <=> b \in InFlight /\ b # request[s].block
          BY <2>3, InFlightHeld, InFlightHeldNext DEF FilingOK
    <2>5. /\ mined = Filed \cup InFlight \cup lost /\ Filed \cap InFlight = {}
          /\ request[s].block \in InFlight
          BY <2>3, InFlightHeld DEF FilingOK, BlocksAreFiled, Filed
    <2>6. mined' = Filed' \cup InFlight' \cup lost' /\ Filed' \cap InFlight' = {}
          BY <2>1, <2>2, <2>4, <2>5
    <2>7. \A t, u \in Session : Holding(t)' /\ Holding(u)' /\ t # u =>
             request'[t].block # request'[u].block
          BY <2>3 DEF FilingOK
    <2>8. QED
          BY <2>6, <2>7 DEF FilingOK, BlocksAreFiled, Filed
  <1>8. QED
        BY <1>2, <1>3, <1>4, <1>5, <1>6, <1>7 DEF SubmitStep

\* A restart counts what was in flight as lost.
LEMMA FilingRestarts ==
    ASSUME FilingOK, Restart
    PROVE  FilingOK'
  <1>1. /\ request' = [t \in Session |-> NoRequest] /\ lost' = lost \cup InFlight
        /\ UNCHANGED <<rounds, mined>>
        BY DEF Restart
  <1>2. \A t \in Session : ~Holding(t)'
        BY <1>1 DEF Holding, NoRequest
  <1>3. InFlight' = {}
        BY <1>2, InFlightHeldNext
  <1>4. BlocksAreFiled'
        BY <1>1, <1>3 DEF FilingOK, BlocksAreFiled
  <1>5. QED
        BY <1>2, <1>4 DEF FilingOK

\* A round is filed with the share that found its block, unless two found one at once.
LEMMA WorkKeeps ==
    ASSUME TypeOK, WorkOK, NEW s \in Session, SubmitStep(s)
    PROVE  WorkOK'
  <1>1. request \in [Session -> Request] /\ work \in Nat
        BY DEF TypeOK
  <1>2. CASE overlapped
    <2>1. overlapped' \in {overlapped, TRUE} \/ (overlapped => overlapped')
          BY DEF SubmitStep, SubmitSolvedBlock, PacdAccepts, PacdAcceptsUnheard, PacdRefuses,
                 RecordShare, RecordSolvedBlock
    <2>2. QED
          BY <1>2, <2>1 DEF WorkOK
  <1>3. CASE ~overlapped
    <2>1. /\ \A r \in rounds : r.work > 0
          /\ \A t \in Session : request[t].at = "credited" => work > 0
          /\ \A t, u \in Session : request[t].at = "credited" /\ request[u].at = "credited" => t = u
          BY <1>3 DEF WorkOK, RoundsHaveWork
    <2>2. CASE RecordSolvedBlock(s)
      <3> DEFINE filed == [block |-> request[s].block, work |-> work, reward |-> RewardNow,
                           fromTemplate |-> known.lastTemplate # 0]
      <3>1. /\ rounds' = rounds \cup {filed} /\ request[s].at = "credited"
            BY <2>2 DEF RecordSolvedBlock
      <3>2. filed.work > 0
            BY <2>1, <3>1
      <3>3. \A t \in Session : request'[t].at # "credited"
            BY <1>1, <2>1, <2>2, <3>1 DEF RecordSolvedBlock, NoRequest
      <3> HIDE DEF filed
      <3>4. RoundsHaveWork'
            BY <2>1, <3>1, <3>2 DEF RoundsHaveWork
      <3>5. QED
            BY <3>3, <3>4 DEF WorkOK
    <2>3. CASE RecordShare(s)
      <3>1. /\ work' = work + 1 /\ rounds' = rounds
            /\ request'[s].at = "credited"
            /\ \A t \in Session : t # s => request'[t] = request[t]
            /\ overlapped' = (overlapped \/ \E t \in Session : request[t].at = "credited")
            BY <1>1, <2>3, Moved DEF RecordShare
      <3>2. CASE \E t \in Session : request[t].at = "credited"
            BY <3>1, <3>2 DEF WorkOK
      <3>3. CASE ~\E t \in Session : request[t].at = "credited"
        <4>1. work' > 0
              BY <1>1, <3>1
        <4>2. \A t \in Session : request'[t].at = "credited" => t = s
              BY <3>1, <3>3
        <4>3. QED
              BY <2>1, <3>1, <4>1, <4>2 DEF WorkOK, RoundsHaveWork
      <3>4. QED
            BY <3>2, <3>3
    <2>4. CASE SubmitSolvedBlock(s) \/ PacdAccepts(s) \/ PacdAcceptsUnheard(s) \/ PacdRefuses(s)
      <3>1. /\ rounds' = rounds /\ work' \in {work, work + 1}
            /\ request'[s].at # "credited"
            /\ \A t \in Session : t # s => request'[t] = request[t]
        <4>1. CASE SubmitSolvedBlock(s)
              BY <1>1, <4>1 DEF SubmitSolvedBlock
        <4>2. CASE PacdAccepts(s)
              BY <1>1, <4>2, Moved DEF PacdAccepts
        <4>3. CASE PacdAcceptsUnheard(s)
              BY <1>1, <4>3 DEF PacdAcceptsUnheard, NoRequest
        <4>4. CASE PacdRefuses(s)
              BY <1>1, <4>4 DEF PacdRefuses, NoRequest
        <4>5. QED
              BY <2>4, <4>1, <4>2, <4>3, <4>4
      <3>2. \A t \in Session : request'[t].at = "credited" => request[t].at = "credited"
            BY <3>1
      <3>3. work > 0 => work' > 0
            BY <1>1, <3>1
      <3>4. QED
            BY <2>1, <3>1, <3>2, <3>3 DEF WorkOK, RoundsHaveWork
    <2>5. QED
          BY <2>2, <2>3, <2>4 DEF SubmitStep
  <1>4. QED
        BY <1>2, <1>3

\* A restart keeps the rounds and the shares.
LEMMA WorkRestarts ==
    ASSUME WorkOK, Restart
    PROVE  WorkOK'
  <1>1. /\ UNCHANGED <<work, rounds, overlapped>>
        /\ \A t \in Session : request'[t].at # "credited"
        BY DEF Restart, NoRequest
  <1>2. QED
        BY <1>1 DEF WorkOK, RoundsHaveWork

-----------------------------------------------------------------------------
(* The invariant and what follows from it.                                  *)

\* The pool starts with no template, no job, no request and no round.
LEMMA Initially == Init => IInv
  <1> SUFFICES ASSUME Init PROVE IInv
      OBVIOUS
  <1>1. NoPoll \in Poll /\ NothingKnown \in Known
        BY DEF NoPoll, NoBeginning, Poll, Question, NothingKnown, Known, Reason
  <1>2. [s \in Session |-> NoRequest] \in [Session -> Request]
        BY DEF NoRequest, Request
  <1>3. StartTip \in Nat /\ StartTip # 0
        BY StartAssumption
  <1>4. TypeOK
    <2>1. HeightsOK
      <3>1. /\ known.PACD = 0 /\ known.lastTemplate = 0 /\ known.Network = 0
            /\ known.PACData = 0 /\ job = 0 /\ tip = StartTip /\ indexed = StartTip
            /\ mined = {} /\ lost = {}
            BY DEF Init, NothingKnown
      <3>2. QED
            BY <1>3, <3>1 DEF HeightsOK
    <2>2. QED
          BY <1>1, <1>2, <1>3, <2>1 DEF Init, TypeOK, NoBeginning
  <1>5. PollOK
        BY <1>3 DEF Init, PollOK, NoPoll, NoBeginning
  <1>6. KnownOK
        BY DEF Init, KnownOK, NothingKnown, NoRequest
  <1>7. HealthyIsRecent /\ RewardIsEarned
        BY DEF Init, HealthyIsRecent, NothingKnown, RewardIsEarned
  <1>8. \A s \in Session : ~Holding(s)
        BY DEF Init, Holding, NoRequest
  <1>9. InFlight = {}
        BY <1>8, InFlightHeld
  <1>10. FilingOK
        BY <1>8, <1>9 DEF Init, FilingOK, BlocksAreFiled
  <1>11. WorkOK
        BY DEF Init, WorkOK, RoundsHaveWork, NoRequest
  <1>12. QED
        BY <1>4, <1>5, <1>6, <1>7, <1>10, <1>11 DEF IInv

\* Steps that touch neither the requests nor the ledger.
LEMMA LedgerStays ==
    ASSUME RewardIsEarned, FilingOK, WorkOK,
           UNCHANGED <<request, work, rounds, mined, lost, overlapped>>
    PROVE  RewardIsEarned' /\ FilingOK' /\ WorkOK'
  BY DEF RewardIsEarned, FilingOK, WorkOK, BlocksAreFiled, RoundsHaveWork, Holding, InFlight

\* Every step keeps the invariant.
LEMMA Inductive == IInv /\ [Next]_vars => IInv'
  <1> SUFFICES ASSUME IInv, [Next]_vars PROVE IInv'
      OBVIOUS
  <1>0. /\ TypeOK /\ PollOK /\ KnownOK /\ HealthyIsRecent /\ RewardIsEarned
        /\ FilingOK /\ WorkOK /\ BlocksAreFiled
        BY DEF IInv, FilingOK
  <1>1. CASE ChainStep
    <2>1. UNCHANGED <<known, began, miningAddr, request, work, rounds, mined, lost, overlapped>>
          BY <1>1 DEF ChainStep, ChainGrows, MiningOpens, IndexerAdvances, refreshVars, submitVars
    <2>2. HealthyIsRecent'
          BY <1>0, <2>1 DEF HealthyIsRecent
    <2>3. QED
          BY <1>0, <1>1, <2>1, <2>2, ChainKeeps, LedgerStays DEF IInv
  <1>2. CASE AskMining \/ AskNetwork \/ AskIndex \/ AskTemplate
    <2>1. /\ poll' \in Poll /\ faults' \in Nat
          /\ UNCHANGED <<tip, miningOpen, indexed, miningAddr, known, began, job, request,
                         work, rounds, mined, lost, overlapped>>
          BY <1>0, <1>2, Asked
    <2>2. TypeOK'
      <3>1. HeightsOK'
            BY <1>0, <2>1 DEF TypeOK, HeightsOK
      <3>2. QED
            BY <1>0, <2>1, <3>1 DEF TypeOK
    <2>3. PollOK'
          BY <1>0, <1>2, AskedPoll
    <2>4. KnownOK' /\ HealthyIsRecent'
          BY <1>0, <2>1 DEF KnownOK, HealthyIsRecent
    <2>5. QED
          BY <1>0, <2>1, <2>2, <2>3, <2>4, LedgerStays DEF IInv
  <1>3. CASE ApplyRefresh
    <2>1. UNCHANGED <<request, work, rounds, mined, lost, overlapped>>
          BY <1>3 DEF ApplyRefresh, submitVars
    <2>2. QED
          BY <1>0, <1>3, <2>1, Applied, LedgerStays DEF IInv
  <1>4. CASE UpdateJob
    <2>1. UNCHANGED <<known, began, miningAddr, request, work, rounds, mined, lost, overlapped>>
          BY <1>4 DEF UpdateJob, refreshVars, submitVars
    <2>2. HealthyIsRecent'
          BY <1>0, <2>1 DEF HealthyIsRecent
    <2>3. QED
          BY <1>0, <1>4, <2>1, <2>2, UpdateJobKeeps, LedgerStays DEF IInv
  <1>5. ASSUME NEW s \in Session, SubmitStep(s)
        PROVE  IInv'
    <2>1. UNCHANGED <<known, began, miningAddr>>
          BY <1>5 DEF SubmitStep, SubmitSolvedBlock, PacdAccepts, PacdAcceptsUnheard, PacdRefuses,
                      RecordShare, RecordSolvedBlock, refreshVars
    <2>2. HealthyIsRecent'
          BY <1>0, <2>1 DEF HealthyIsRecent
    <2>3. QED
          BY <1>0, <1>5, <2>2, SubmitKeeps, RewardKeeps, FilingKeeps, WorkKeeps DEF IInv
  <1>6. CASE Restart
    <2>1. RewardIsEarned'
          BY <1>0, <1>6 DEF Restart, RewardIsEarned
    <2>2. QED
          BY <1>0, <1>6, <2>1, RestartKeeps, FilingRestarts, WorkRestarts DEF IInv
  <1>7. CASE UNCHANGED vars
    <2>1. UNCHANGED <<tip, miningOpen, indexed, miningAddr, poll, known, job, request, work,
                      rounds, began, mined, lost, overlapped, faults>>
          BY <1>7 DEF vars
    <2>2. TypeOK'
      <3>1. HeightsOK'
            BY <1>0, <2>1 DEF TypeOK, HeightsOK
      <3>2. QED
            BY <1>0, <2>1, <3>1 DEF TypeOK
    <2>3. PollOK' /\ KnownOK' /\ HealthyIsRecent'
          BY <1>0, <2>1 DEF PollOK, KnownOK, HealthyIsRecent
    <2>4. QED
          BY <1>0, <2>1, <2>2, <2>3, LedgerStays DEF IInv
  <1>8. QED
        BY <1>1, <1>2, <1>3, <1>4, <1>5, <1>6, <1>7 DEF Next, Refresh

\* The invariant holds in every state the pool reaches.
LEMMA Invariant == Spec => []IInv
  <1>1. QED
        BY Initially, Inductive, PTL DEF Spec

\* Every height the pool has is one of the chain's, and the variables have their types.
THEOREM HeightsAreTheChains == Spec => []TypeOK
  <1>1. IInv => TypeOK
        BY DEF IInv
  <1>2. QED
        BY <1>1, Invariant, PTL

\* No miner gets a job before mining has opened.
THEOREM MiningWaitsForOpening == Spec => []NoEarlyJobs
  <1>1. IInv => NoEarlyJobs
        BY DEF IInv, KnownOK, NoEarlyJobs
  <1>2. QED
        BY <1>1, Invariant, PTL

\* The template is never behind the pool's own view of the chain.
THEOREM TemplateIsNotBehind == Spec => []TemplateExtendsBest
  <1>1. IInv => TemplateExtendsBest
        BY DEF IInv, KnownOK, TemplateExtendsBest
  <1>2. QED
        BY <1>1, Invariant, PTL

\* A healthy pool shows nothing older than its last refresh.
THEOREM HealthMeansRecent == Spec => []HealthyIsRecent
  <1>1. IInv => HealthyIsRecent
        BY DEF IInv
  <1>2. QED
        BY <1>1, Invariant, PTL

\* A round has a reward just if it has work, a subsidy pacd named: of its block or a later
\* one, unless the template was withdrawn.
THEOREM RewardsAreEarned == Spec => []RewardIsEarned
  <1>1. IInv => RewardIsEarned
        BY DEF IInv
  <1>2. QED
        BY <1>1, Invariant, PTL

\* Every accepted block is filed, about to be, or lost to a fault.
THEOREM AcceptedBlocksAreFiled == Spec => []BlocksAreFiled
  <1>1. IInv => BlocksAreFiled
        BY DEF IInv, FilingOK
  <1>2. QED
        BY <1>1, Invariant, PTL

\* A block is filed with an empty round only when two sessions filed blocks at once.
THEOREM FiledRoundsHaveWork == Spec => []RoundsHaveWork
  <1>1. IInv => RoundsHaveWork
        BY DEF IInv, WorkOK, RoundsHaveWork
  <1>2. QED
        BY <1>1, Invariant, PTL

\* The readiness and the reason that a refresh works out go together.
LEMMA ReasonFits ==
    ASSUME PollOK, poll.open \in BOOLEAN
    PROVE  ReadyAfter <=> ReasonAfter = ""
  <1>1. poll.open => poll.mining # 0
        BY DEF PollOK
  <1>2. CASE ReadyAfter
    <2>1. poll.open = TRUE /\ poll.mining # 0 /\ ReadyAfter = TRUE
          BY <1>1, <1>2 DEF ReadyAfter
    <2>2. ReasonAfter = ""
          BY <2>1, SMT DEF ReasonAfter
    <2>3. QED
          BY <1>2, <2>2
  <1>3. CASE ~ReadyAfter
    <2>1. ReasonAfter # ""
          BY <1>3 DEF ReasonAfter
    <2>2. QED
          BY <1>3, <2>1
  <1>4. QED
        BY <1>2, <1>3

\* After a refresh the pool is ready or says why it is not.
THEOREM ReadyOrReason == Spec => []ReasonGiven
  <1>1. Init => ReasonGiven
        BY DEF Init, ReasonGiven
  <1>2. ASSUME IInv, ReasonGiven, [Next]_vars
        PROVE  ReasonGiven'
    <2>1. CASE ApplyRefresh
      <3>1. poll.open \in BOOLEAN /\ PollOK
            BY <1>2 DEF IInv, TypeOK, Poll
      <3>2. known'.Ready = ReadyAfter /\ known'.NotReadyReason = ReasonAfter
            BY <2>1 DEF ApplyRefresh
      <3>3. ReadyAfter <=> ReasonAfter = ""
            BY <3>1, ReasonFits
      <3>4. known'.Ready <=> known'.NotReadyReason = ""
            BY <3>2, <3>3 DEF ReadyAfter
      <3>5. QED
            BY <3>4 DEF ReasonGiven
    <2>2. CASE Restart
          BY <2>2 DEF Restart, ReasonGiven, NothingKnown
    <2>3. CASE known' = known
          BY <1>2, <2>3 DEF ReasonGiven
    <2>4. ApplyRefresh \/ Restart \/ known' = known
          BY <1>2 DEF Next, Refresh, ChainStep, ChainGrows, MiningOpens, IndexerAdvances,
                      AskMining, AskNetwork, AskIndex, AskTemplate, Answered, Failed, UpdateJob,
                      SubmitStep, SubmitSolvedBlock, PacdAccepts, PacdAcceptsUnheard,
                      PacdRefuses, RecordShare, RecordSolvedBlock, refreshVars, vars
    <2>5. QED
          BY <2>1, <2>2, <2>3, <2>4
  <1>3. QED
        BY <1>1, <1>2, Invariant, PTL DEF Spec
=============================================================================
