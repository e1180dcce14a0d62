---------------------------- MODULE StratumProofs ----------------------------
(***************************************************************************)
(* Theorems about StratumServer, for every value of its constants: what    *)
(* handleSubmit remembers of a session's submits is enough to credit no    *)
(* solution twice, it passes every block it has hashed to pacd, the        *)
(* counters of the dashboard are those of the table of sessions, and       *)
(* miners are told of their difficulty, their suggestion and the job.      *)
(***************************************************************************)
EXTENDS StratumServer, TLAPS, FiniteSetTheorems

-----------------------------------------------------------------------------
(* Types, as far as the theorems need them.                                 *)

Fields == [subscribed : BOOLEAN, authorized : BOOLEAN, worker : Worker \cup {NoWorker},
           difficulty : Difficulty \cup {0}, diffSent : BOOLEAN, fixedDiff : BOOLEAN,
           seenJob : Nat, seenShares : SUBSET Solution,
           suggested : {0} \cup {d \in Difficulty : d >= ShareDiff}]

Place == {"idle", "reply", "raise", "publish", "answer", "send", "store", "fetch",
          "notify", "judge", "credit", "forward", "accept"}

Goroutine == [pc : Place,
              diff : Difficulty \cup {0}, next : {"idle", "fetch"}, job : Nat,
              share : SUBSET Share]

Update == [pc : {"idle", "pick", "resync", "send", "store", "notify"},
           todo : SUBSET Session, at : SUBSET Session,
           diff : Difficulty \cup {0}, resync : BOOLEAN]

\* The part of TypeOK that submits and difficulties depend on.
SubmitTypes ==
    /\ job \in Nat /\ sessions \subseteq Session
    /\ sess \in [Session -> Fields]
    /\ handler \in [Session -> Goroutine]
    /\ updater \in Update
    /\ conn \in [Session -> {"unused", "open", "stalled", "broken", "closed"}]
    /\ credited \subseteq Share /\ accepted \in Nat

\* The difficulties the code works with are difficulties.
LEMMA DifficultyTypes ==
    ASSUME SubmitTypes, NEW s \in Session
    PROVE  /\ CurrentDifficulty(s) \in Difficulty
           /\ \A w \in Worker \cup {NoWorker} : WorkerDifficulty(w) \subseteq Difficulty
           /\ \A d \in Suggestion : /\ Suggested(d) \in Difficulty
                                    /\ Suggested(d) >= ShareDiff
  BY StratumAssumption
     DEF SubmitTypes, Fields, CurrentDifficulty, WorkerDifficulty, Suggested

\* The program starts with these types.
LEMMA SubmitTypesInit == Init => SubmitTypes
  BY StratumAssumption
     DEF Init, SubmitTypes, Fields, Goroutine, Place, Update, NewSession, Waiting, NoUpdate

\* Connections keep them.
LEMMA ConnTypes ==
    ASSUME SubmitTypes, NEW s \in Session, ConnStep(s)
    PROVE  SubmitTypes'
<1>1. NewSession \in Fields
  BY StratumAssumption DEF NewSession, Fields
<1>2. CASE Connect(s)
  BY <1>2 DEF Connect, SubmitTypes, shareVars
<1>3. CASE Disconnect(s)
  BY <1>1, <1>3 DEF Disconnect, SubmitTypes, shareVars
<1>4. CASE Stall(s)
  BY <1>4 DEF Stall, SubmitTypes, tableVars, shareVars
<1>5. CASE Drain(s)
  BY <1>5 DEF Drain, SubmitTypes, tableVars, shareVars
<1>6. CASE Break(s)
  BY <1>6 DEF Break, SubmitTypes, tableVars, shareVars
<1> QED BY <1>2, <1>3, <1>4, <1>5, <1>6 DEF ConnStep

\* A goroutine that moves on, and one that ends its request, is a goroutine.
LEMMA GoroutineTypes ==
    ASSUME SubmitTypes, NEW s \in Session
    PROVE  /\ Ends(s) => handler' \in [Session -> Goroutine]
           /\ \A pc \in Place : Goto(s, pc) => handler' \in [Session -> Goroutine]
<1>1. Waiting \in Goroutine
  BY DEF Waiting, Goroutine, Place
<1>2. handler \in [Session -> Goroutine]
  BY DEF SubmitTypes
<1>3. \A pc \in Place : [handler[s] EXCEPT !.pc = pc] \in Goroutine
  BY <1>2 DEF Goroutine
<1> QED BY <1>1, <1>2, <1>3 DEF Ends, Goto

\* Requests keep them.
LEMMA RequestTypes ==
    ASSUME SubmitTypes, NEW s \in Session, RequestStep(s)
    PROVE  SubmitTypes'
<1>1. CASE OtherRequest(s)
  <2>1. handler' \in [Session -> Goroutine]
    BY <1>1, GoroutineTypes DEF OtherRequest, Place
  <2> QED BY <1>1, <2>1 DEF OtherRequest, SubmitTypes, tableVars, linkVars, shareVars
<1>2. CASE Subscribe(s)
  <2>1. sess' \in [Session -> Fields]
    <3>1. sess \in [Session -> Fields]
      BY DEF SubmitTypes
    <3>2. sess[s] \in Fields
      BY <3>1
    <3>3. [sess[s] EXCEPT !.subscribed = TRUE] \in Fields
      BY <3>2 DEF Fields
    <3>4. sess' = [sess EXCEPT ![s] = [sess[s] EXCEPT !.subscribed = TRUE]]
      BY <1>2 DEF Subscribe
    <3> QED BY <3>1, <3>3, <3>4
  <2>2. handler' \in [Session -> Goroutine]
    BY <1>2, GoroutineTypes DEF Subscribe, Place
  <2> QED BY <1>2, <2>1, <2>2 DEF Subscribe, SubmitTypes, tableVars, linkVars, shareVars
<1>3. ASSUME NEW w \in Worker, Authorize(s, w)
      PROVE  SubmitTypes'
  <2>1. sess' \in [Session -> Fields]
    <3>1. [sess[s] EXCEPT !.worker = w] \in Fields
      BY DEF SubmitTypes, Fields
    <3>2. [[sess[s] EXCEPT !.worker = w] EXCEPT !.authorized = TRUE] \in Fields
      BY <3>1 DEF Fields
    <3> QED BY <1>3, <3>2 DEF Authorize, SubmitTypes
  <2>2. handler' \in [Session -> Goroutine]
    BY <1>3, GoroutineTypes DEF Authorize, Place
  <2> QED BY <1>3, <2>1, <2>2 DEF Authorize, SubmitTypes, tableVars, shareVars
<1>4. ASSUME NEW d \in Suggestion \cup {0}, SuggestDifficulty(s, d)
      PROVE  SubmitTypes'
  <2>1. sess' \in [Session -> Fields]
    <3>1. d # 0 => Suggested(d) \in Difficulty /\ Suggested(d) >= ShareDiff
      BY DifficultyTypes
    <3>2. sess' = IF d = 0 THEN sess
                  ELSE [sess EXCEPT ![s].difficulty = Suggested(d), ![s].fixedDiff = TRUE,
                                    ![s].suggested = Suggested(d)]
      BY <1>4 DEF SuggestDifficulty
    <3>3. CASE d = 0
      BY <3>2, <3>3 DEF SubmitTypes
    <3>4. CASE d # 0
      <4> DEFINE new == Suggested(d)
                 r1 == [sess[s] EXCEPT !.difficulty = new]
                 r2 == [r1 EXCEPT !.fixedDiff = TRUE]
                 r3 == [r2 EXCEPT !.suggested = new]
      <4>1. new \in Difficulty /\ new >= ShareDiff /\ sess[s] \in Fields
        BY <3>1, <3>4 DEF SubmitTypes
      <4>2. sess' = [sess EXCEPT ![s] = r3]
        BY <3>2, <3>4 DEF SubmitTypes
      <4> HIDE DEF new
      <4>3. r1 \in Fields
        BY <4>1 DEF Fields
      <4> HIDE DEF r1
      <4>4. r2 \in Fields
        BY <4>3 DEF Fields
      <4> HIDE DEF r2
      <4>5. r3 \in Fields
        BY <4>1, <4>4 DEF Fields
      <4> HIDE DEF r3
      <4> QED BY <4>2, <4>5 DEF SubmitTypes
    <3> QED BY <3>3, <3>4
  <2>2. handler' \in [Session -> Goroutine]
    BY <1>4, GoroutineTypes DEF SuggestDifficulty, Place
  <2> QED BY <1>4, <2>1, <2>2 DEF SuggestDifficulty, SubmitTypes, tableVars, shareVars
<1>5. CASE SubmitStale(s)
  <2>1. handler' \in [Session -> Goroutine]
    BY <1>5, GoroutineTypes DEF SubmitStale, Place
  <2> QED BY <1>5, <2>1 DEF SubmitStale, SubmitTypes, tableVars, linkVars, shareVars
<1>6. ASSUME NEW x \in Solution, Submit(s, x)
      PROVE  SubmitTypes'
  <2>1. sess' \in [Session -> Fields]
    <3> DEFINE seen == Seen(s) \cup {x}
               r1 == [sess[s] EXCEPT !.seenJob = job]
               r2 == [r1 EXCEPT !.seenShares = seen]
    <3>1. seen \in SUBSET Solution /\ sess[s] \in Fields /\ job \in Nat
      BY DEF Seen, SubmitTypes, Fields
    <3>2. sess' = [sess EXCEPT ![s] = r2]
      BY <1>6 DEF Submit, SubmitTypes
    <3> HIDE DEF seen
    <3>3. r1 \in Fields
      BY <3>1 DEF Fields
    <3> HIDE DEF r1
    <3>4. r2 \in Fields
      BY <3>1, <3>3 DEF Fields
    <3> HIDE DEF r2
    <3> QED BY <3>2, <3>4 DEF SubmitTypes
  <2>2. handler' \in [Session -> Goroutine]
    <3>1. CASE Goto(s, "reply")
      BY <3>1, GoroutineTypes DEF Place
    <3>2. CASE handler' = [handler EXCEPT ![s].pc = "judge",
                             ![s].share = {[session |-> s, job |-> job, solution |-> x]}]
      <4>1. [session |-> s, job |-> job, solution |-> x] \in Share
        BY DEF SubmitTypes, Share
      <4> DEFINE share == {[session |-> s, job |-> job, solution |-> x]}
                 g1 == [handler[s] EXCEPT !.pc = "judge"]
                 g2 == [g1 EXCEPT !.share = share]
      <4>2. share \in SUBSET Share /\ handler[s] \in Goroutine
        BY <4>1 DEF SubmitTypes
      <4>3. handler' = [handler EXCEPT ![s] = g2]
        BY <3>2 DEF SubmitTypes
      <4> HIDE DEF share
      <4>4. g1 \in Goroutine
        BY <4>2 DEF Goroutine, Place
      <4> HIDE DEF g1
      <4>5. g2 \in Goroutine
        BY <4>2, <4>4 DEF Goroutine
      <4> HIDE DEF g2
      <4> QED BY <4>3, <4>5 DEF SubmitTypes
    <3> QED BY <1>6, <3>1, <3>2 DEF Submit
  <2> QED BY <1>6, <2>1, <2>2 DEF Submit, SubmitTypes, tableVars, linkVars, shareVars
<1> QED BY <1>1, <1>2, <1>3, <1>4, <1>5, <1>6 DEF RequestStep

\* What the server does to a session's fields leaves them fields.
LEMMA FieldTypes ==
    ASSUME NEW r \in Fields, NEW d \in Difficulty \cup {0}
    PROVE  [r EXCEPT !.difficulty = d] \in Fields /\ Stored(r, d) \in Fields
<1>1. [r EXCEPT !.difficulty = d] \in Fields
  BY DEF Fields
<1>2. [[r EXCEPT !.difficulty = d] EXCEPT !.diffSent = TRUE] \in Fields
  BY <1>1 DEF Fields
<1> QED BY <1>1, <1>2 DEF Stored

\* The steps of a request keep the types.
LEMMA HandlerTypes ==
    ASSUME SubmitTypes, NEW s \in Session, HandlerStep(s)
    PROVE  SubmitTypes'
<1>0. /\ sess[s] \in Fields /\ handler[s] \in Goroutine
      /\ sess \in [Session -> Fields] /\ handler \in [Session -> Goroutine]
  BY DEF SubmitTypes
<1>1. ASSUME NEW d \in Difficulty, RaiseDifficulty(s, d)
      PROVE  SubmitTypes'
  <2> DEFINE raised == IF ~sess[s].fixedDiff /\ d > sess[s].difficulty
                       THEN d ELSE sess[s].difficulty
  <2>1. raised \in Difficulty \cup {0}
    BY <1>0 DEF Fields
  <2>2. sess' = [sess EXCEPT ![s] = [sess[s] EXCEPT !.difficulty = raised]]
    BY <1>0, <1>1 DEF RaiseDifficulty
  <2> HIDE DEF raised
  <2>3. sess' \in [Session -> Fields]
    BY <1>0, <2>1, <2>2, FieldTypes
  <2>4. handler' \in [Session -> Goroutine]
    BY <1>1, GoroutineTypes DEF RaiseDifficulty, Place
  <2> QED BY <1>1, <2>3, <2>4 DEF RaiseDifficulty, SubmitTypes, tableVars, linkVars, shareVars
<1>2. CASE PublishStats(s)
  <2> DEFINE g1 == [handler[s] EXCEPT !.pc = "answer"]
             g2 == [g1 EXCEPT !.next = "fetch"]
  <2>1. handler' = [handler EXCEPT ![s] = g2]
    BY <1>0, <1>2 DEF PublishStats
  <2>2. g1 \in Goroutine
    BY <1>0 DEF Goroutine, Place
  <2> HIDE DEF g1
  <2>3. g2 \in Goroutine
    BY <2>2 DEF Goroutine
  <2> HIDE DEF g2
  <2>4. handler' \in [Session -> Goroutine]
    BY <1>0, <2>1, <2>3
  <2> QED BY <1>2, <2>4 DEF PublishStats, SubmitTypes, linkVars, shareVars
<1>3. CASE Answer(s)
  <2> DEFINE diff == CurrentDifficulty(s)
             g1 == [handler[s] EXCEPT !.pc = "send"]
             g2 == [g1 EXCEPT !.diff = diff]
  <2>1. diff \in Difficulty
    BY DifficultyTypes
  <2>2. Ends(s) \/ handler' = [handler EXCEPT ![s] = g2]
    BY <1>0, <1>3 DEF Answer
  <2> HIDE DEF diff
  <2>3. g1 \in Goroutine
    BY <1>0 DEF Goroutine, Place
  <2> HIDE DEF g1
  <2>4. g2 \in Goroutine
    BY <2>1, <2>3 DEF Goroutine
  <2> HIDE DEF g2
  <2>5. handler' \in [Session -> Goroutine]
    BY <1>0, <2>2, <2>4, GoroutineTypes
  <2> QED BY <1>3, <2>5 DEF Answer, SubmitTypes, tableVars, linkVars, shareVars
<1>4. CASE SendDifficulty(s)
  <2>1. handler' \in [Session -> Goroutine]
    BY <1>4, GoroutineTypes DEF SendDifficulty, Place
  <2> QED BY <1>4, <2>1 DEF SendDifficulty, SubmitTypes, tableVars, linkVars, shareVars
<1>5. CASE StoreDifficulty(s)
  <2>1. handler' \in [Session -> Goroutine]
    <3>1. handler[s].next \in Place
      BY <1>0 DEF Goroutine, Place
    <3> QED BY <1>5, <3>1, GoroutineTypes DEF StoreDifficulty
  <2>2. sess' \in [Session -> Fields]
    <3>1. handler[s].diff \in Difficulty \cup {0}
      BY <1>0 DEF Goroutine
    <3>2. Stored(sess[s], handler[s].diff) \in Fields
      BY <1>0, <3>1, FieldTypes
    <3> QED BY <1>0, <1>5, <3>2 DEF StoreDifficulty
  <2> QED BY <1>5, <2>1, <2>2 DEF StoreDifficulty, SubmitTypes, tableVars, linkVars, shareVars
<1>6. CASE FetchJob(s)
  <2> DEFINE g1 == [handler[s] EXCEPT !.pc = "notify"]
             g2 == [g1 EXCEPT !.job = job]
  <2>1. Ends(s) \/ handler' = [handler EXCEPT ![s] = g2]
    BY <1>0, <1>6 DEF FetchJob
  <2>2. g1 \in Goroutine
    BY <1>0 DEF Goroutine, Place
  <2> HIDE DEF g1
  <2>3. g2 \in Goroutine
    BY <2>2 DEF Goroutine, SubmitTypes
  <2> HIDE DEF g2
  <2>4. handler' \in [Session -> Goroutine]
    BY <1>0, <2>1, <2>3, GoroutineTypes
  <2> QED BY <1>6, <2>4 DEF FetchJob, SubmitTypes, tableVars, linkVars, shareVars
<1>7. CASE NotifyJob(s) \/ Reply(s)
  BY <1>7, GoroutineTypes
     DEF NotifyJob, Reply, SubmitTypes, tableVars, linkVars, shareVars
<1>8. CASE Judge(s)
  <2>1. handler' \in [Session -> Goroutine]
    BY <1>8, GoroutineTypes DEF Judge, Place
  <2> QED BY <1>8, <2>1 DEF Judge, SubmitTypes, tableVars, linkVars
<1>9. CASE BlockRefused(s)
  <2>1. handler' \in [Session -> Goroutine]
    BY <1>9, GoroutineTypes DEF BlockRefused, Place
  <2> QED BY <1>9, <2>1 DEF BlockRefused, SubmitTypes, tableVars, linkVars, shareVars
<1>10. CASE Credit(s)
  <2>1. handler' \in [Session -> Goroutine]
    BY <1>10, GoroutineTypes DEF Credit, Place
  <2>2. handler[s].share \subseteq Share
    BY <1>0 DEF Goroutine
  <2> QED BY <1>10, <2>1, <2>2 DEF Credit, SubmitTypes, tableVars, linkVars
<1>11. ASSUME NEW d \in Difficulty, SendAccepted(s, d)
       PROVE  SubmitTypes'
  <2> DEFINE g1 == [handler[s] EXCEPT !.pc = "send"]
             g2 == [g1 EXCEPT !.diff = d]
  <2>1. \/ Ends(s) /\ sess' = sess
        \/ /\ handler' = [handler EXCEPT ![s] = g2]
           /\ sess' = [sess EXCEPT ![s] = [sess[s] EXCEPT !.difficulty = d]]
    BY <1>0, <1>11 DEF SendAccepted
  <2>2. g1 \in Goroutine
    BY <1>0 DEF Goroutine, Place
  <2> HIDE DEF g1
  <2>3. g2 \in Goroutine
    BY <2>2 DEF Goroutine
  <2> HIDE DEF g2
  <2>4. handler' \in [Session -> Goroutine]
    BY <1>0, <2>1, <2>3, GoroutineTypes
  <2>5. sess' \in [Session -> Fields]
    BY <1>0, <2>1, FieldTypes
  <2> QED BY <1>11, <2>4, <2>5 DEF SendAccepted, SubmitTypes, tableVars, shareVars
<1> QED BY <1>1, <1>2, <1>3, <1>4, <1>5, <1>6, <1>7, <1>8, <1>9, <1>10, <1>11 DEF HandlerStep

\* updateJob keeps them.
LEMMA UpdateTypes ==
    ASSUME SubmitTypes, NEW s \in Session, UpdateStep(s)
    PROVE  SubmitTypes'
<1>0. /\ sess[s] \in Fields /\ updater \in Update /\ sess \in [Session -> Fields]
      /\ updater.diff \in Difficulty \cup {0}
  BY DEF SubmitTypes, Update
<1>1. CASE SkipSession(s)
  <2>1. updater' \in Update
    BY <1>0, <1>1 DEF SkipSession, Update
  <2> QED BY <1>1, <2>1 DEF SkipSession, SubmitTypes, tableVars, linkVars, shareVars
<1>2. ASSUME NEW d \in Difficulty, VisitSession(s, d)
      PROVE  SubmitTypes'
  <2>1. updater' \in Update
    <3> DEFINE todo == updater.todo \ {s}
               at == {s}
               pc == FirstPush(updater.resync)
               u1 == [updater EXCEPT !.todo = todo]
               u2 == [u1 EXCEPT !.at = at]
               u3 == [u2 EXCEPT !.diff = d]
               u4 == [u3 EXCEPT !.pc = pc]
    <3>1. /\ todo \in SUBSET Session /\ at \in SUBSET Session
          /\ pc \in {"idle", "pick", "resync", "send", "store", "notify"}
      BY <1>0 DEF Update, FirstPush
    <3>2. updater' = u4
      BY <1>2 DEF VisitSession
    <3> HIDE DEF todo, at, pc
    <3>3. u1 \in Update
      BY <1>0, <3>1 DEF Update
    <3> HIDE DEF u1
    <3>4. u2 \in Update
      BY <3>1, <3>3 DEF Update
    <3> HIDE DEF u2
    <3>5. u3 \in Update
      BY <3>4 DEF Update
    <3> HIDE DEF u3
    <3>6. u4 \in Update
      BY <3>1, <3>5 DEF Update
    <3> QED BY <3>2, <3>6
  <2> QED BY <1>2, <2>1 DEF VisitSession, SubmitTypes, tableVars, shareVars
<1>3. ASSUME NEW pc \in {"pick", "send", "store", "notify"}
      PROVE  [updater EXCEPT !.pc = pc] \in Update
  BY <1>0 DEF Update
<1>4. CASE Resync(s)
  <2>1. updater' \in Update
    BY <1>3, <1>4 DEF Resync
  <2>2. sess' \in [Session -> Fields]
    BY <1>0, <1>4, FieldTypes DEF Resync
  <2> QED BY <1>4, <2>1, <2>2 DEF Resync, SubmitTypes, tableVars, linkVars, shareVars
<1>5. CASE PushDifficulty(s)
  <2>1. updater' \in Update
    BY <1>3, <1>5 DEF PushDifficulty
  <2> QED BY <1>5, <2>1 DEF PushDifficulty, SubmitTypes, tableVars, linkVars, shareVars
<1>6. CASE KeepDifficulty(s)
  <2>1. updater' \in Update
    BY <1>3, <1>6 DEF KeepDifficulty
  <2>2. sess' \in [Session -> Fields]
    BY <1>0, <1>6, FieldTypes DEF KeepDifficulty
  <2> QED BY <1>6, <2>1, <2>2 DEF KeepDifficulty, SubmitTypes, tableVars, linkVars, shareVars
<1>7. CASE PushJob(s)
  <2>1. updater' \in Update
    <3> DEFINE u1 == [updater EXCEPT !.pc = "pick"]
    <3>1. u1 \in Update
      BY <1>3
    <3>2. updater' = [u1 EXCEPT !.at = {}]
      BY <1>7 DEF PushJob
    <3> HIDE DEF u1
    <3> QED BY <3>1, <3>2 DEF Update
  <2> QED BY <1>7, <2>1 DEF PushJob, SubmitTypes, tableVars, linkVars, shareVars
<1> QED BY <1>1, <1>2, <1>4, <1>5, <1>6, <1>7 DEF UpdateStep

\* The template loop keeps them.
LEMMA LoopTypes ==
    ASSUME SubmitTypes, LoopStep
    PROVE  SubmitTypes'
<1>1. CASE KeepJob
  BY <1>1 DEF KeepJob, SubmitTypes, linkVars, shareVars
<1>2. ASSUME NEW resync \in BOOLEAN, UpdateJob(resync)
      PROVE  SubmitTypes'
  <2>1. updater' \in Update
    BY <1>2, StratumAssumption DEF UpdateJob, NoUpdate, Update, SubmitTypes
  <2> QED BY <1>2, <2>1 DEF UpdateJob, SubmitTypes, linkVars, shareVars
<1>3. CASE UpdateDone
  <2>1. updater' \in Update
    BY <1>3 DEF UpdateDone, NoUpdate, Update
  <2> QED BY <1>3, <2>1 DEF UpdateDone, SubmitTypes, linkVars, shareVars
<1> QED BY <1>1, <1>2, <1>3 DEF LoopStep

\* The types are inductive.
LEMMA SubmitTypesStep == SubmitTypes /\ [Next]_vars => SubmitTypes'
<1> SUFFICES ASSUME SubmitTypes, [Next]_vars PROVE SubmitTypes'
  OBVIOUS
<1>1. CASE UNCHANGED vars
  BY <1>1 DEF vars, SubmitTypes
<1>2. ASSUME NEW s \in Session, SessionStep(s) PROVE SubmitTypes'
  BY <1>2, ConnTypes, RequestTypes, HandlerTypes, UpdateTypes DEF SessionStep
<1> QED BY <1>1, <1>2, LoopTypes DEF Next

-----------------------------------------------------------------------------
(* No solution is credited twice.                                           *)

\* Where a goroutine holds a share that has not been credited.
Submitting == {"judge", "credit", "forward"}

\* The share the goroutine of s holds is of the job the session remembers, is remembered
\* with it, and has not been credited.
Holds(s) ==
    \E x \in sess[s].seenShares :
        LET share == [session |-> s, job |-> sess[s].seenJob, solution |-> x]
        IN  handler[s].share = {share} /\ share \notin credited

\* Shares credited to s are of earlier jobs, or remembered.
Remembers(s) ==
    \A c \in credited : c.session = s =>
        \/ c.job < sess[s].seenJob
        \/ c.job = sess[s].seenJob /\ c.solution \in sess[s].seenShares

\* What is true of every session between any two steps.
SessionCounts(s) ==
    /\ handler[s].pc # "idle" => s \in sessions
    /\ conn[s] = "unused" => /\ s \notin sessions
                             /\ \A c \in credited : c.session # s
    /\ sess[s].seenJob <= job
    /\ s \in sessions => Remembers(s)
    /\ handler[s].pc \in Submitting => Holds(s)

\* The inductive invariant.
Counts ==
    /\ SubmitTypes
    /\ IsFiniteSet(credited) /\ CreditedOnce
    /\ \A s \in Session : SessionCounts(s)

\* A step that does not touch what session s remembers and holds, except that a
\* goroutine may drop its share.
Spares(s) ==
    /\ sess'[s].seenJob = sess[s].seenJob /\ sess'[s].seenShares = sess[s].seenShares
    /\ handler'[s].pc # "idle" => handler[s].pc # "idle" \/ s \in sessions
    /\ handler'[s].pc \in Submitting =>
        handler[s].pc \in Submitting /\ handler'[s].share = handler[s].share

\* A step that does so for every session.
Calm ==
    /\ UNCHANGED <<sessions, credited, accepted>> /\ job <= job'
    /\ \A s \in Session : Spares(s) /\ (conn'[s] = "unused" <=> conn[s] = "unused")

\* Such a step keeps the invariant.
LEMMA CalmKeeps ==
    ASSUME Counts, SubmitTypes', Calm
    PROVE  Counts'
<1>1. IsFiniteSet(credited)' /\ CreditedOnce'
  BY DEF Counts, Calm, CreditedOnce
<1>2. ASSUME NEW s \in Session
      PROVE  SessionCounts(s)'
  <2>1. SessionCounts(s) /\ Spares(s) /\ (conn'[s] = "unused" <=> conn[s] = "unused")
    BY DEF Counts, Calm
  <2>2. sessions' = sessions /\ credited' = credited
    BY DEF Calm
  <2>3. sess'[s].seenJob <= job'
    <3>1. sess[s].seenJob \in Nat /\ job \in Nat /\ job' \in Nat /\ job <= job'
      BY DEF Counts, SubmitTypes, Fields, Calm
    <3> QED BY <2>1, <3>1 DEF SessionCounts, Spares
  <2>4. (s \in sessions => Remembers(s))'
    BY <2>1, <2>2 DEF SessionCounts, Spares, Remembers
  <2>5. (handler[s].pc \in Submitting => Holds(s))'
    BY <2>1, <2>2 DEF SessionCounts, Spares, Holds
  <2> QED BY <2>1, <2>2, <2>3, <2>4, <2>5 DEF SessionCounts, Spares
<1> QED BY <1>1, <1>2 DEF Counts

\* Steps of a connection that neither open nor close it are calm.
LEMMA CalmConnections ==
    ASSUME SubmitTypes, NEW s \in Session, Stall(s) \/ Drain(s) \/ Break(s)
    PROVE  Calm
  BY DEF SubmitTypes, Stall, Drain, Break, Calm, Spares, tableVars, shareVars

\* Requests other than a submit for the current job are calm.
LEMMA CalmRequests ==
    ASSUME SubmitTypes, NEW s \in Session, RequestStep(s),
           \A x \in Solution : ~Submit(s, x)
    PROVE  Calm
<1>0. sess \in [Session -> Fields] /\ handler \in [Session -> Goroutine] /\ job \in Nat
  BY DEF SubmitTypes
<1> USE DEF Calm, Spares, Takes, Goto, Submitting, Fields, Goroutine
<1>1. CASE OtherRequest(s)
  BY <1>0, <1>1 DEF OtherRequest, tableVars, shareVars, linkVars
<1>2. CASE Subscribe(s)
  BY <1>0, <1>2 DEF Subscribe, tableVars, shareVars, linkVars
<1>3. ASSUME NEW w \in Worker, Authorize(s, w)
      PROVE  Calm
  BY <1>0, <1>3 DEF Authorize, tableVars, shareVars
<1>4. ASSUME NEW d \in Suggestion \cup {0}, SuggestDifficulty(s, d)
      PROVE  Calm
  BY <1>0, <1>4 DEF SuggestDifficulty, tableVars, shareVars
<1>5. CASE SubmitStale(s)
  BY <1>0, <1>5 DEF SubmitStale, tableVars, shareVars, linkVars
<1> QED BY <1>1, <1>2, <1>3, <1>4, <1>5 DEF RequestStep

\* So are the steps of a request but the one that credits a share.
LEMMA CalmHandler ==
    ASSUME SubmitTypes, NEW s \in Session, HandlerStep(s), ~Credit(s)
    PROVE  Calm
<1>0. sess \in [Session -> Fields] /\ handler \in [Session -> Goroutine] /\ job \in Nat
  BY DEF SubmitTypes
<1>d. Waiting.pc = "idle" /\ handler[s].next \in {"idle", "fetch"}
  BY <1>0 DEF Waiting, Goroutine
<1> USE DEF Calm, Spares, Goto, Ends, Submitting
<1>1. ASSUME NEW d \in Difficulty, RaiseDifficulty(s, d)
      PROVE  Calm
  BY <1>0, <1>1 DEF RaiseDifficulty, tableVars, shareVars, linkVars, Fields, Goroutine
<1>2. CASE PublishStats(s)
  BY <1>0, <1>2 DEF PublishStats, shareVars, linkVars, Goroutine
<1>3. CASE Answer(s)
  BY <1>0, <1>d, <1>3 DEF Answer, tableVars, shareVars, linkVars, Goroutine
<1>4. CASE SendDifficulty(s)
  BY <1>0, <1>d, <1>4 DEF SendDifficulty, tableVars, shareVars, linkVars, Goroutine
<1>5. CASE StoreDifficulty(s)
  <2>1. \A t \in Session : /\ sess'[t].seenJob = sess[t].seenJob
                           /\ sess'[t].seenShares = sess[t].seenShares
    BY <1>0, <1>5 DEF StoreDifficulty, Stored, Fields
  <2>2. Ends(s) \/ Goto(s, "idle") \/ Goto(s, "fetch")
    BY <1>d, <1>5 DEF StoreDifficulty
  <2>3. handler[s].pc = "store"
    BY <1>5 DEF StoreDifficulty
  <2>4. \A t \in Session : /\ handler'[t].pc # "idle" => handler[t].pc # "idle"
                           /\ handler'[t].pc \in Submitting => handler'[t] = handler[t]
    BY <1>0, <1>d, <2>2, <2>3 DEF Goroutine
  <2> QED BY <1>0, <1>5, <2>1, <2>4 DEF StoreDifficulty, tableVars, shareVars, linkVars
<1>6. CASE FetchJob(s)
  BY <1>0, <1>d, <1>6 DEF FetchJob, tableVars, shareVars, linkVars, Goroutine
<1>7. CASE NotifyJob(s) \/ Reply(s)
  BY <1>0, <1>d, <1>7 DEF NotifyJob, Reply, tableVars, shareVars, linkVars
<1>8. CASE Judge(s)
  BY <1>0, <1>8 DEF Judge, tableVars, linkVars, Goroutine
<1>9. CASE BlockRefused(s)
  BY <1>0, <1>9 DEF BlockRefused, tableVars, shareVars, linkVars, Goroutine
<1>10. ASSUME NEW d \in Difficulty, SendAccepted(s, d)
       PROVE  Calm
  BY <1>0, <1>d, <1>10 DEF SendAccepted, tableVars, shareVars, Goroutine, Fields
<1> QED BY <1>1, <1>2, <1>3, <1>4, <1>5, <1>6, <1>7, <1>8, <1>9, <1>10 DEF HandlerStep

\* So is all that updateJob does.
LEMMA CalmUpdates ==
    ASSUME SubmitTypes
    PROVE  /\ \A s \in Session : UpdateStep(s) => Calm
           /\ LoopStep => Calm
<1>0. sess \in [Session -> Fields] /\ job \in Nat
  BY DEF SubmitTypes
<1> USE DEF Calm, Spares
<1>1. ASSUME NEW s \in Session, SkipSession(s) \/ PushDifficulty(s) \/ PushJob(s)
      PROVE  Calm
  BY <1>0, <1>1 DEF SkipSession, PushDifficulty, PushJob, tableVars, shareVars, linkVars
<1>2. ASSUME NEW s \in Session, NEW d \in Difficulty, VisitSession(s, d)
      PROVE  Calm
  BY <1>0, <1>2 DEF VisitSession, tableVars, shareVars
<1>3. ASSUME NEW s \in Session, Resync(s)
      PROVE  Calm
  BY <1>0, <1>3 DEF Resync, tableVars, shareVars, linkVars, Fields
<1>4. ASSUME NEW s \in Session, KeepDifficulty(s)
      PROVE  Calm
  <2>1. \A t \in Session : /\ sess'[t].seenJob = sess[t].seenJob
                           /\ sess'[t].seenShares = sess[t].seenShares
    BY <1>0, <1>4 DEF KeepDifficulty, Stored, Fields
  <2> QED BY <1>0, <1>4, <2>1 DEF KeepDifficulty, tableVars, shareVars, linkVars
<1>5. CASE KeepJob
  BY <1>0, <1>5 DEF KeepJob, shareVars, linkVars
<1>6. ASSUME NEW resync \in BOOLEAN, UpdateJob(resync)
      PROVE  Calm
  <2>1. job <= job'
    BY <1>0, <1>6 DEF UpdateJob
  <2> QED BY <1>6, <2>1 DEF UpdateJob, shareVars, linkVars
<1>7. CASE UpdateDone
  BY <1>0, <1>7 DEF UpdateDone, shareVars, linkVars
<1> QED BY <1>1, <1>2, <1>3, <1>4, <1>5, <1>6, <1>7 DEF UpdateStep, LoopStep

\* A connection that comes or goes keeps the invariant: a session starts with nothing
\* credited, and leaves only between two requests.
LEMMA ConnectCounts ==
    ASSUME Counts, SubmitTypes', NEW s \in Session, Connect(s) \/ Disconnect(s)
    PROVE  Counts'
<1>0. /\ sess \in [Session -> Fields] /\ job \in Nat
      /\ conn \in [Session -> {"unused", "open", "stalled", "broken", "closed"}]
  BY DEF Counts, SubmitTypes
<1>1. /\ credited' = credited /\ accepted' = accepted
      /\ handler' = handler /\ job' = job
  BY DEF Connect, Disconnect, shareVars
<1>2. IsFiniteSet(credited)' /\ CreditedOnce'
  BY <1>1 DEF Counts, CreditedOnce
<1>3. ASSUME NEW t \in Session, t # s
      PROVE  SessionCounts(t)'
  <2>1. /\ sess'[t] = sess[t] /\ conn'[t] = conn[t]
        /\ t \in sessions' <=> t \in sessions
    BY <1>0, <1>3 DEF Connect, Disconnect
  <2>2. SessionCounts(t)
    BY DEF Counts
  <2> QED BY <1>1, <2>1, <2>2 DEF SessionCounts, Remembers, Holds
<1>4. SessionCounts(s)'
  <2>1. SessionCounts(s)
    BY DEF Counts
  <2>2. CASE Connect(s)
    <3>1. /\ conn[s] = "unused" /\ conn'[s] = "open"
          /\ sess' = sess /\ s \in sessions'
      BY <1>0, <2>2 DEF Connect
    <3> QED BY <1>1, <2>1, <3>1 DEF SessionCounts, Remembers, Submitting
  <2>3. CASE Disconnect(s)
    <3>1. /\ handler[s].pc = "idle" /\ conn'[s] = "closed"
          /\ sess'[s].seenJob = 0 /\ s \notin sessions'
      BY <1>0, <2>3 DEF Disconnect, NewSession
    <3> QED BY <1>0, <1>1, <3>1 DEF SessionCounts, Submitting
  <2> QED BY <2>2, <2>3
<1> QED BY <1>2, <1>3, <1>4 DEF Counts

\* So does a submit: what is judged next was neither remembered nor credited.
LEMMA SubmitCounts ==
    ASSUME Counts, SubmitTypes', NEW s \in Session, NEW x \in Solution, Submit(s, x)
    PROVE  Counts'
<1>0. /\ sess \in [Session -> Fields] /\ handler \in [Session -> Goroutine] /\ job \in Nat
      /\ credited \subseteq Share /\ sess[s].seenJob \in Nat
  BY DEF Counts, SubmitTypes, Fields
<1>1. /\ credited' = credited /\ accepted' = accepted /\ conn' = conn
      /\ job' = job /\ sessions' = sessions /\ s \in sessions
  BY DEF Submit, Takes, tableVars, shareVars, linkVars
<1>2. IsFiniteSet(credited)' /\ CreditedOnce'
  BY <1>1 DEF Counts, CreditedOnce
<1>3. ASSUME NEW t \in Session, t # s
      PROVE  SessionCounts(t)'
  <2>1. sess'[t] = sess[t] /\ handler'[t] = handler[t]
    BY <1>0, <1>3 DEF Submit, Goto
  <2>2. SessionCounts(t)
    BY DEF Counts
  <2> QED BY <1>1, <2>1, <2>2 DEF SessionCounts, Remembers, Holds
<1>4. SessionCounts(s)'
  <2>1. SessionCounts(s) /\ Remembers(s)
    BY <1>1 DEF Counts, SessionCounts
  <2>2. sess'[s].seenJob = job /\ sess'[s].seenShares = Seen(s) \cup {x}
    BY <1>0 DEF Submit, Fields
  <2>3. \A c \in credited : c.session = s =>
            c.job < job \/ (c.job = job /\ c.solution \in Seen(s))
    <3>1. sess[s].seenJob <= job
      BY <2>1 DEF SessionCounts
    <3> QED BY <1>0, <2>1, <3>1 DEF Remembers, Seen, Share
  <2>4. Remembers(s)'
    BY <1>1, <2>2, <2>3 DEF Remembers
  <2>5. handler'[s].pc \in Submitting => Holds(s)'
    <3> SUFFICES ASSUME handler'[s].pc \in Submitting
                 PROVE  Holds(s)'
      OBVIOUS
    <3> DEFINE share == [session |-> s, job |-> job, solution |-> x]
    <3>1. x \notin Seen(s) /\ handler'[s].share = {share}
      BY <1>0 DEF Submit, Goto, Submitting, Goroutine
    <3>2. share \notin credited
      BY <1>0, <2>3, <3>1
    <3> QED BY <1>1, <2>2, <3>1, <3>2 DEF Holds
  <2>6. sess'[s].seenJob <= job'
    BY <1>0, <1>1, <2>2
  <2> QED BY <1>1, <2>1, <2>4, <2>5, <2>6 DEF SessionCounts
<1> QED BY <1>2, <1>3, <1>4 DEF Counts

\* And a share that is credited is counted.
LEMMA CreditCounts ==
    ASSUME Counts, SubmitTypes', NEW s \in Session, Credit(s)
    PROVE  Counts'
<1>0. /\ sess \in [Session -> Fields] /\ handler \in [Session -> Goroutine]
      /\ accepted \in Nat /\ IsFiniteSet(credited)
  BY DEF Counts, SubmitTypes
<1>1. /\ sess' = sess /\ conn' = conn /\ job' = job /\ sessions' = sessions
      /\ credited' = credited \cup handler[s].share /\ accepted' = accepted + 1
      /\ handler[s].pc \in {"credit", "forward"} /\ handler' = [handler EXCEPT ![s].pc = "accept"]
  BY DEF Credit, Goto, tableVars, linkVars
<1>2. SessionCounts(s) /\ Holds(s) /\ s \in sessions /\ conn[s] # "unused"
  BY <1>1 DEF Counts, SessionCounts, Submitting
<1>3. PICK x \in sess[s].seenShares :
        /\ handler[s].share = {[session |-> s, job |-> sess[s].seenJob, solution |-> x]}
        /\ [session |-> s, job |-> sess[s].seenJob, solution |-> x] \notin credited
  BY <1>2 DEF Holds
<1> DEFINE share == [session |-> s, job |-> sess[s].seenJob, solution |-> x]
<1>4. /\ share.session = s /\ share.job = sess[s].seenJob
      /\ share.solution \in sess[s].seenShares
  OBVIOUS
<1>5. credited' = credited \cup {share} /\ share \notin credited
  BY <1>1, <1>3
<1> HIDE DEF share
<1>6. IsFiniteSet(credited)' /\ CreditedOnce'
  <2>1. IsFiniteSet(credited \cup {share})
    BY <1>0, FS_AddElement
  <2>2. Cardinality(credited \cup {share}) = Cardinality(credited) + 1
    BY <1>0, <1>5, FS_AddElement
  <2> QED BY <1>1, <1>5, <2>1, <2>2 DEF Counts, CreditedOnce
<1>7. ASSUME NEW t \in Session, t # s
      PROVE  SessionCounts(t)'
  <2>1. handler'[t] = handler[t] /\ share.session # t
    BY <1>0, <1>1, <1>4, <1>7
  <2>2. SessionCounts(t)
    BY DEF Counts
  <2>3. Holds(t) => Holds(t)'
    <3> SUFFICES ASSUME Holds(t) PROVE Holds(t)'
      OBVIOUS
    <3>1. PICK y \in sess[t].seenShares :
            /\ handler[t].share = {[session |-> t, job |-> sess[t].seenJob, solution |-> y]}
            /\ [session |-> t, job |-> sess[t].seenJob, solution |-> y] \notin credited
      BY DEF Holds
    <3>2. [session |-> t, job |-> sess[t].seenJob, solution |-> y] # share
      BY <2>1
    <3> QED BY <1>1, <1>5, <2>1, <3>1, <3>2 DEF Holds
  <2>4. Remembers(t) => Remembers(t)'
    BY <1>1, <1>5, <2>1 DEF Remembers
  <2> QED BY <1>1, <1>5, <2>1, <2>2, <2>3, <2>4 DEF SessionCounts
<1>8. SessionCounts(s)'
  <2>1. Remembers(s)'
    BY <1>1, <1>2, <1>4, <1>5 DEF SessionCounts, Remembers
  <2>2. handler'[s].pc = "accept"
    BY <1>0, <1>1 DEF Goroutine
  <2> QED BY <1>1, <1>2, <2>1, <2>2 DEF SessionCounts, Submitting
<1> QED BY <1>6, <1>7, <1>8 DEF Counts

\* The program starts with nothing credited.
LEMMA CountsInit == Init => Counts
<1> SUFFICES ASSUME Init PROVE Counts
  OBVIOUS
<1>1. IsFiniteSet(credited) /\ CreditedOnce
  BY FS_EmptySet DEF Init, CreditedOnce
<1>2. ASSUME NEW s \in Session
      PROVE  SessionCounts(s)
  BY DEF Init, SessionCounts, NewSession, Waiting, Submitting
<1> QED BY <1>1, <1>2, SubmitTypesInit DEF Counts

\* The invariant is inductive.
LEMMA CountsStep == Counts /\ [Next]_vars => Counts'
<1> SUFFICES ASSUME Counts, [Next]_vars PROVE Counts'
  OBVIOUS
<1>1. SubmitTypes /\ SubmitTypes'
  BY SubmitTypesStep DEF Counts
<1>2. CASE UNCHANGED vars
  <2>1. job \in Nat
    BY <1>1 DEF SubmitTypes
  <2>2. Calm
    BY <1>2, <2>1 DEF vars, Calm, Spares
  <2> QED BY <1>1, <2>2, CalmKeeps
<1>3. ASSUME NEW s \in Session, SessionStep(s)
      PROVE  Counts'
  <2>1. CASE ConnStep(s)
    BY <1>1, <2>1, CalmConnections, CalmKeeps, ConnectCounts DEF ConnStep
  <2>2. CASE RequestStep(s)
    BY <1>1, <2>2, CalmRequests, CalmKeeps, SubmitCounts
  <2>3. CASE HandlerStep(s)
    BY <1>1, <2>3, CalmHandler, CalmKeeps, CreditCounts
  <2>4. CASE UpdateStep(s)
    BY <1>1, <2>4, CalmUpdates, CalmKeeps
  <2> QED BY <1>3, <2>1, <2>2, <2>3, <2>4 DEF SessionStep
<1>4. CASE LoopStep
  BY <1>1, <1>4, CalmUpdates, CalmKeeps
<1> QED BY <1>2, <1>3, <1>4 DEF Next

\* The counter of accepted shares counts every solution of a job once per session
\* (handleSubmit, seenJob and seenShares), for any number of miners, jobs and solutions.
THEOREM SharesCreditedOnce == Spec => []CreditedOnce
<1>1. Counts => CreditedOnce
  BY DEF Counts
<1> QED BY <1>1, CountsInit, CountsStep, PTL DEF Spec

-----------------------------------------------------------------------------
(* Solved blocks.                                                           *)

\* Only the comparison of a hash with its targets changes what has been judged and
\* what has been forwarded.
LEMMA OnlyJudge ==
    ASSUME [Next]_vars, \A s \in Session : ~Judge(s)
    PROVE  judged' = judged /\ forwarded' = forwarded
<1> USE DEF shareVars
<1>1. CASE UNCHANGED vars
  BY <1>1 DEF vars
<1>2. ASSUME NEW s \in Session, ConnStep(s)
      PROVE  judged' = judged /\ forwarded' = forwarded
  BY <1>2 DEF ConnStep, Connect, Disconnect, Stall, Drain, Break
<1>3. ASSUME NEW s \in Session, RequestStep(s)
      PROVE  judged' = judged /\ forwarded' = forwarded
  BY <1>3 DEF RequestStep, OtherRequest, Subscribe, Authorize, SuggestDifficulty,
              SubmitStale, Submit
<1>4. ASSUME NEW s \in Session, HandlerStep(s)
      PROVE  judged' = judged /\ forwarded' = forwarded
  BY <1>4 DEF HandlerStep, RaiseDifficulty, PublishStats, Answer, SendDifficulty,
              StoreDifficulty, FetchJob, NotifyJob, Reply, BlockRefused, Credit,
              SendAccepted
<1>5. ASSUME NEW s \in Session, UpdateStep(s)
      PROVE  judged' = judged /\ forwarded' = forwarded
  BY <1>5 DEF UpdateStep, SkipSession, VisitSession, Resync, PushDifficulty,
              KeepDifficulty, PushJob
<1>6. CASE LoopStep
  BY <1>6 DEF LoopStep, KeepJob, UpdateJob, UpdateDone
<1> QED BY <1>1, <1>2, <1>3, <1>4, <1>5, <1>6 DEF Next, SessionStep

\* While no share difficulty is above the network's, a hash that is a block meets its
\* session's target too, and handleSubmit passes every such hash to pacd.
THEOREM BlocksForwarded ==
    ASSUME \A d \in Difficulty : d <= NetworkDiff
    PROVE  Spec => []BlocksAreForwarded
<1> DEFINE Inv == Counts /\ BlocksAreForwarded
<1>1. Init => Inv
  BY CountsInit DEF Init, BlocksAreForwarded
<1>2. Inv /\ [Next]_vars => Inv'
  <2> SUFFICES ASSUME Inv, [Next]_vars PROVE Inv'
    OBVIOUS
  <2>1. Counts'
    BY CountsStep
  <2>2. CASE \A s \in Session : ~Judge(s)
    BY <2>1, <2>2, OnlyJudge DEF BlocksAreForwarded
  <2>3. ASSUME NEW s \in Session, Judge(s)
        PROVE  BlocksAreForwarded'
    <3>1. Holds(s) /\ SubmitTypes
      BY <2>3 DEF Judge, Counts, SessionCounts, Submitting
    <3>2. PICK y \in sess[s].seenShares :
            handler[s].share = {[session |-> s, job |-> sess[s].seenJob, solution |-> y]}
      BY <3>1 DEF Holds
    <3> DEFINE share == [session |-> s, job |-> sess[s].seenJob, solution |-> y]
               good == Reaches({share}, CurrentDifficulty(s))
               block == good /\ Reaches({share}, NetworkDiff)
    <3>3. /\ judged' = judged \cup {share}
          /\ forwarded' = IF block THEN forwarded \cup {share} ELSE forwarded
      BY <2>3, <3>2 DEF Judge
    <3>4. Meets[y] >= NetworkDiff => block
      <4>1. CurrentDifficulty(s) \in Difficulty /\ y \in Solution
        BY <3>1, DifficultyTypes DEF SubmitTypes, Fields
      <4>2. /\ Meets[y] \in Nat /\ NetworkDiff \in Nat
            /\ CurrentDifficulty(s) \in Nat /\ CurrentDifficulty(s) <= NetworkDiff
        BY <4>1, StratumAssumption
      <4> QED BY <4>2 DEF Reaches
    <3>5. share.solution = y
      OBVIOUS
    <3> HIDE DEF share, block
    <3> QED BY <3>3, <3>4, <3>5 DEF BlocksAreForwarded
  <2> QED BY <2>1, <2>2, <2>3
<1>3. Inv => BlocksAreForwarded
  OBVIOUS
<1> QED BY <1>1, <1>2, <1>3, PTL DEF Spec

-----------------------------------------------------------------------------
(* The counters of the dashboard.                                           *)

\* A goroutine that has a change to publish.
Unpublished(s) == handler[s].pc \in {"raise", "publish"}

\* A step that leaves what the counters count as it is, and every goroutine that has a
\* change to publish with it.
Uncounted ==
    /\ UNCHANGED <<job, sessions, published>>
    /\ \A s \in Session :
        /\ sess'[s].authorized = sess[s].authorized /\ sess'[s].worker = sess[s].worker
        /\ Unpublished(s) => Unpublished(s)'

\* Such a step needs nothing published, and one that publishes leaves the counters right.
LEMMA StatsKept ==
    ASSUME SubmitTypes, StatsAgree, Uncounted \/ Publish
    PROVE  StatsAgree'
<1>1. CASE Uncounted
  <2>1. Stats(job', sessions', sess') = Stats(job, sessions, sess)
    <3>1. \A w : {s \in sessions : sess'[s].authorized /\ sess'[s].worker = w}
                   = {s \in sessions : sess[s].authorized /\ sess[s].worker = w}
      BY <1>1 DEF Uncounted, SubmitTypes
    <3> QED BY <1>1, <3>1 DEF Uncounted, Stats
  <2> QED BY <1>1, <2>1 DEF Uncounted, Unpublished, StatsAgree
<1>2. CASE Publish
  BY <1>2 DEF Publish, StatsAgree
<1> QED BY <1>1, <1>2

\* A connection that comes or goes is published; what else happens to it does not count.
LEMMA ConnPublishes ==
    ASSUME NEW s \in Session, ConnStep(s)
    PROVE  Uncounted \/ Publish
<1>1. CASE Connect(s) \/ Disconnect(s)
  BY <1>1 DEF Connect, Disconnect
<1>2. CASE Stall(s) \/ Drain(s) \/ Break(s)
  BY <1>2 DEF Stall, Drain, Break, tableVars, Uncounted, Unpublished
<1> QED BY <1>1, <1>2 DEF ConnStep

\* Of the requests only authorize changes what is counted, and has it published.
LEMMA RequestsCount ==
    ASSUME SubmitTypes, StatsAgree, NEW s \in Session, RequestStep(s)
    PROVE  StatsAgree'
<1>0. sess \in [Session -> Fields] /\ handler \in [Session -> Goroutine]
  BY DEF SubmitTypes
<1> USE DEF Uncounted, Unpublished, Takes, Goto, Fields, Goroutine, tableVars
<1>1. CASE OtherRequest(s) \/ SubmitStale(s)
  BY <1>0, <1>1, StatsKept DEF OtherRequest, SubmitStale
<1>2. CASE Subscribe(s)
  BY <1>0, <1>2, StatsKept DEF Subscribe
<1>3. ASSUME NEW w \in Worker, Authorize(s, w)
      PROVE  StatsAgree'
  BY <1>0, <1>3 DEF Authorize, StatsAgree
<1>4. ASSUME NEW d \in Suggestion \cup {0}, SuggestDifficulty(s, d)
      PROVE  StatsAgree'
  BY <1>0, <1>4, StatsKept DEF SuggestDifficulty
<1>5. ASSUME NEW x \in Solution, Submit(s, x)
      PROVE  StatsAgree'
  BY <1>0, <1>5, StatsKept DEF Submit
<1> QED BY <1>1, <1>2, <1>3, <1>4, <1>5 DEF RequestStep

\* A request has only one step that leaves "raise" and "publish": the one that publishes.
LEMMA HandlerPublishes ==
    ASSUME SubmitTypes, NEW s \in Session, HandlerStep(s)
    PROVE  Uncounted \/ Publish
<1>0. sess \in [Session -> Fields] /\ handler \in [Session -> Goroutine]
  BY DEF SubmitTypes
<1> USE DEF Uncounted, Unpublished, Goto, Ends, tableVars
<1>1. ASSUME NEW d \in Difficulty, RaiseDifficulty(s, d)
      PROVE  Uncounted
  BY <1>0, <1>1 DEF RaiseDifficulty, Fields, Goroutine
<1>2. CASE PublishStats(s)
  BY <1>2 DEF PublishStats
<1>3. CASE Answer(s) \/ SendDifficulty(s) \/ FetchJob(s) \/ NotifyJob(s) \/ Reply(s)
  BY <1>0, <1>3 DEF Answer, SendDifficulty, FetchJob, NotifyJob, Reply, Goroutine
<1>4. CASE StoreDifficulty(s)
  <2>1. \A t \in Session : /\ sess'[t].authorized = sess[t].authorized
                           /\ sess'[t].worker = sess[t].worker
    BY <1>0, <1>4 DEF StoreDifficulty, Stored, Fields
  <2> QED BY <1>0, <1>4, <2>1 DEF StoreDifficulty
<1>5. CASE Judge(s) \/ BlockRefused(s) \/ Credit(s)
  BY <1>0, <1>5 DEF Judge, BlockRefused, Credit, Goroutine
<1>6. ASSUME NEW d \in Difficulty, SendAccepted(s, d)
      PROVE  Uncounted
  <2>1. \A t \in Session : /\ sess'[t].authorized = sess[t].authorized
                           /\ sess'[t].worker = sess[t].worker
    BY <1>0, <1>6 DEF SendAccepted, Fields
  <2>2. \A t \in Session : Unpublished(t) => Unpublished(t)'
    BY <1>0, <1>6 DEF SendAccepted
  <2> QED BY <1>6, <2>1, <2>2 DEF SendAccepted
<1> QED BY <1>1, <1>2, <1>3, <1>4, <1>5, <1>6 DEF HandlerStep

\* updateJob publishes its new job and afterwards touches nothing that counts.
LEMMA UpdatesPublish ==
    ASSUME SubmitTypes
    PROVE  /\ \A s \in Session : UpdateStep(s) => Uncounted
           /\ LoopStep => Uncounted \/ Publish
<1>0. sess \in [Session -> Fields]
  BY DEF SubmitTypes
<1> USE DEF Uncounted, Unpublished, tableVars
<1>1. ASSUME NEW s \in Session, UpdateStep(s)
      PROVE  Uncounted
  <2>1. CASE SkipSession(s) \/ PushDifficulty(s) \/ PushJob(s)
    BY <2>1 DEF SkipSession, PushDifficulty, PushJob
  <2>2. ASSUME NEW d \in Difficulty, VisitSession(s, d)
        PROVE  Uncounted
    BY <2>2 DEF VisitSession
  <2>3. CASE Resync(s)
    BY <1>0, <2>3 DEF Resync, Fields
  <2>4. CASE KeepDifficulty(s)
    <3>1. \A t \in Session : /\ sess'[t].authorized = sess[t].authorized
                             /\ sess'[t].worker = sess[t].worker
      BY <1>0, <2>4 DEF KeepDifficulty, Stored, Fields
    <3> QED BY <2>4, <3>1 DEF KeepDifficulty
  <2> QED BY <1>1, <2>1, <2>2, <2>3, <2>4 DEF UpdateStep
<1>2. LoopStep => Uncounted \/ Publish
  <2>1. KeepJob \/ (\E resync \in BOOLEAN : UpdateJob(resync)) => Publish
    BY DEF KeepJob, UpdateJob
  <2>2. UpdateDone => Uncounted
    BY DEF UpdateDone
  <2> QED BY <2>1, <2>2 DEF LoopStep
<1> QED BY <1>1, <1>2

\* Unless an authorize has yet to publish its change, the counters SetStratumStats was
\* given last agree with the table of sessions (publishStatsLocked and its callers), for
\* any number of sessions that come, go and authorize while jobs are published.
THEOREM CountersAgree == Spec => []StatsAgree
<1> DEFINE Inv == SubmitTypes /\ StatsAgree
<1>1. Init => Inv
  BY SubmitTypesInit DEF Init, StatsAgree
<1>2. Inv /\ [Next]_vars => Inv'
  <2> SUFFICES ASSUME Inv, [Next]_vars PROVE StatsAgree'
    BY SubmitTypesStep
  <2>1. CASE UNCHANGED vars
    BY <2>1, StatsKept DEF vars, Uncounted, Unpublished
  <2>2. ASSUME NEW s \in Session, SessionStep(s)
        PROVE  StatsAgree'
    BY <2>2, StatsKept, ConnPublishes, RequestsCount, HandlerPublishes, UpdatesPublish
       DEF SessionStep
  <2>3. CASE LoopStep
    BY <2>3, StatsKept, UpdatesPublish
  <2> QED BY <2>1, <2>2, <2>3 DEF Next
<1>3. Inv => StatsAgree
  OBVIOUS
<1> QED BY <1>1, <1>2, <1>3, PTL DEF Spec

-----------------------------------------------------------------------------
(* What miners are told.  The three theorems share types, the course of      *)
(* updateJob, and that a step is about one session.                          *)

Sent == [diff : Difficulty \cup {0}, job : Nat, late : BOOLEAN]

\* updateJob holds the mutex while it runs, and is at no more than one session, which
\* is in the table and receives jobs.
Course ==
    /\ mu <=> updater.pc # "idle"
    /\ updater.pc \in {"idle", "pick"} => updater.at = {}
    /\ updater.pc = "idle" => updater.todo = {}
    /\ updater.todo \subseteq sessions /\ updater.at \subseteq sessions
    /\ \A s, t \in updater.at : s = t
    /\ \A s \in updater.at : Receives(s)

\* The types SubmitTypes leaves out.
SentTypes == mu \in BOOLEAN /\ raced \subseteq Session /\ wire \in [Session -> Sent]

\* The inductive invariant below the theorems' own.
Base == Counts /\ SentTypes /\ Course

\* Session t and all that is about it stays as it is.
Same(t) ==
    /\ sess'[t] = sess[t] /\ handler'[t] = handler[t] /\ wire'[t] = wire[t]
    /\ conn'[t] = conn[t]
    /\ t \in sessions' <=> t \in sessions
    /\ t \in raced' <=> t \in raced

\* A miner's step and a step of a goroutine leave every other session alone.
LEMMA OneSession ==
    ASSUME Base, NEW s \in Session, NEW t \in Session, t # s,
           ConnStep(s) \/ RequestStep(s) \/ HandlerStep(s)
    PROVE  Same(t) /\ UNCHANGED <<job, updater>>
<1>0. /\ sess \in [Session -> Fields] /\ handler \in [Session -> Goroutine]
      /\ wire \in [Session -> Sent]
      /\ conn \in [Session -> {"unused", "open", "stalled", "broken", "closed"}]
  BY DEF Base, Counts, SubmitTypes, SentTypes
<1> USE DEF Same, Goto, Ends, NoteRace, tableVars, linkVars
<1>1. CASE ConnStep(s)
  BY <1>0, <1>1 DEF ConnStep, Connect, Disconnect, Stall, Drain, Break
<1>2. CASE RequestStep(s)
  BY <1>0, <1>2 DEF RequestStep, OtherRequest, Subscribe, Authorize, SuggestDifficulty,
                    SubmitStale, Submit
<1>3. CASE HandlerStep(s)
  <2>1. CASE \/ \E d \in Difficulty : RaiseDifficulty(s, d)
             \/ PublishStats(s) \/ Answer(s) \/ SendDifficulty(s) \/ StoreDifficulty(s)
    BY <1>0, <2>1 DEF RaiseDifficulty, PublishStats, Answer, SendDifficulty,
                      StoreDifficulty
  <2>2. CASE \/ FetchJob(s) \/ NotifyJob(s) \/ Reply(s) \/ Judge(s)
             \/ BlockRefused(s) \/ Credit(s)
    BY <1>0, <2>2 DEF FetchJob, NotifyJob, Reply, Judge, BlockRefused, Credit
  <2>3. CASE \E d \in Difficulty : SendAccepted(s, d)
    BY <1>0, <2>3 DEF SendAccepted
  <2> QED BY <1>3, <2>1, <2>2, <2>3 DEF HandlerStep
<1> QED BY <1>1, <1>2, <1>3

\* What updateJob does with a session leaves every other one alone; it is at none but
\* that, and has at most that one less to look at.
LEMMA OneUpdate ==
    ASSUME Base, NEW s \in Session, NEW t \in Session, t # s, UpdateStep(s)
    PROVE  /\ Same(t) /\ job' = job
           /\ t \notin updater.at \/ updater.pc = "pick"
           /\ t \notin updater'.at
           /\ t \in updater.todo => t \in updater'.todo
<1>0. /\ sess \in [Session -> Fields] /\ handler \in [Session -> Goroutine]
      /\ wire \in [Session -> Sent] /\ updater \in Update
  BY DEF Base, Counts, SubmitTypes, SentTypes
<1>c. Course
  BY DEF Base
<1> USE DEF Same, NoteRace, tableVars, linkVars, Update, Course
<1>1. CASE SkipSession(s)
  BY <1>0, <1>c, <1>1 DEF SkipSession
<1>2. ASSUME NEW d \in Difficulty, VisitSession(s, d)
      PROVE  /\ Same(t) /\ job' = job
             /\ t \notin updater.at \/ updater.pc = "pick"
             /\ t \notin updater'.at
             /\ t \in updater.todo => t \in updater'.todo
  BY <1>0, <1>c, <1>2 DEF VisitSession
<1>3. CASE Resync(s)
  BY <1>0, <1>c, <1>3 DEF Resync
<1>4. CASE PushDifficulty(s)
  BY <1>0, <1>c, <1>4 DEF PushDifficulty
<1>5. CASE KeepDifficulty(s)
  BY <1>0, <1>c, <1>5 DEF KeepDifficulty
<1>6. CASE PushJob(s)
  BY <1>0, <1>c, <1>6 DEF PushJob
<1> QED BY <1>1, <1>2, <1>3, <1>4, <1>5, <1>6 DEF UpdateStep

\* Between two sessions updateJob leaves all of them alone.
LEMMA LoopApart ==
    ASSUME NEW t \in Session, UNCHANGED vars \/ LoopStep
    PROVE  /\ Same(t)
           /\ \/ updater' = updater
              \/ updater'.at = {} /\ updater.pc \in {"idle", "pick"}
<1> USE DEF Same, linkVars
<1>1. CASE UNCHANGED vars \/ KeepJob
  BY <1>1 DEF vars, KeepJob
<1>2. ASSUME NEW resync \in BOOLEAN, UpdateJob(resync)
      PROVE  Same(t) /\ updater'.at = {} /\ updater.pc = "idle"
  <2>1. updater'.at = {}
    BY <1>2 DEF UpdateJob, NoUpdate
  <2> QED BY <1>2, <2>1 DEF UpdateJob
<1>3. CASE UpdateDone
  <2>1. updater'.at = {}
    BY <1>3 DEF UpdateDone, NoUpdate
  <2> QED BY <1>3, <2>1 DEF UpdateDone
<1> QED BY <1>1, <1>2, <1>3 DEF LoopStep

\* The program starts so.
LEMMA BaseInit == Init => Base
<1> SUFFICES ASSUME Init PROVE Base
  OBVIOUS
<1>1. SentTypes
  <2>1. Unwritten \in Sent
    BY DEF Unwritten, Sent
  <2> QED BY <2>1 DEF Init, SentTypes
<1>2. Course
  BY DEF Init, Course, NoUpdate
<1> QED BY <1>1, <1>2, CountsInit DEF Base

\* A connection that comes or goes is told nothing.
LEMMA ConnSent ==
    ASSUME Base, NEW s \in Session, ConnStep(s)
    PROVE  SentTypes'
<1>0. SentTypes /\ Unwritten \in Sent
  BY DEF Base, Unwritten, Sent
<1>1. CASE Disconnect(s)
  BY <1>0, <1>1 DEF Disconnect, SentTypes
<1>2. CASE Connect(s) \/ Stall(s) \/ Drain(s) \/ Break(s)
  BY <1>0, <1>2 DEF Connect, Stall, Drain, Break, SentTypes, tableVars
<1> QED BY <1>1, <1>2 DEF ConnStep

\* A goroutine writes difficulties and jobs.
LEMMA HandlerSent ==
    ASSUME Base, NEW s \in Session, RequestStep(s) \/ HandlerStep(s)
    PROVE  SentTypes'
<1>0. /\ handler[s] \in Goroutine /\ job \in Nat
      /\ wire \in [Session -> Sent] /\ raced \subseteq Session /\ mu \in BOOLEAN
  BY DEF Base, Counts, SubmitTypes, SentTypes
<1> USE DEF SentTypes, NoteRace, tableVars, linkVars
<1>1. CASE RequestStep(s)
  BY <1>0, <1>1 DEF RequestStep, OtherRequest, Subscribe, Authorize, SuggestDifficulty,
                    SubmitStale, Submit
<1>2. CASE SendDifficulty(s)
  <2> DEFINE new == handler[s].diff
             r1 == [wire[s] EXCEPT !.diff = new]
  <2>1. new \in Difficulty \cup {0}
    BY <1>0 DEF Goroutine
  <2>2. wire' \in {wire, [wire EXCEPT ![s] = r1]}
    BY <1>0, <1>2 DEF SendDifficulty
  <2> HIDE DEF new
  <2>3. r1 \in Sent
    BY <1>0, <2>1 DEF Sent
  <2> HIDE DEF r1
  <2> QED BY <1>0, <1>2, <2>2, <2>3 DEF SendDifficulty
<1>3. CASE NotifyJob(s)
  <2> DEFINE new == handler[s].job
             late == handler[s].job # job
             r1 == [wire[s] EXCEPT !.job = new]
             r2 == [r1 EXCEPT !.late = late]
  <2>1. new \in Nat /\ late \in BOOLEAN
    BY <1>0 DEF Goroutine
  <2>2. wire' \in {wire, [wire EXCEPT ![s] = r2]}
    BY <1>0, <1>3 DEF NotifyJob
  <2> HIDE DEF new, late
  <2>3. r1 \in Sent
    BY <1>0, <2>1 DEF Sent
  <2> HIDE DEF r1
  <2>4. r2 \in Sent
    BY <2>1, <2>3 DEF Sent
  <2> HIDE DEF r2
  <2> QED BY <1>0, <1>3, <2>2, <2>4 DEF NotifyJob
<1>4. CASE \/ \E d \in Difficulty : RaiseDifficulty(s, d)
           \/ PublishStats(s) \/ Answer(s) \/ StoreDifficulty(s) \/ FetchJob(s)
           \/ Reply(s) \/ Judge(s) \/ BlockRefused(s) \/ Credit(s)
  BY <1>0, <1>4 DEF RaiseDifficulty, PublishStats, Answer, StoreDifficulty, FetchJob,
                    Reply, Judge, BlockRefused, Credit
<1>5. CASE \E d \in Difficulty : SendAccepted(s, d)
  BY <1>0, <1>5 DEF SendAccepted
<1> QED BY <1>1, <1>2, <1>3, <1>4, <1>5 DEF HandlerStep

\* So does updateJob.
LEMMA UpdateSent ==
    ASSUME Base, (\E s \in Session : UpdateStep(s)) \/ LoopStep
    PROVE  SentTypes'
<1>0. /\ updater \in Update /\ job \in Nat
      /\ wire \in [Session -> Sent] /\ raced \subseteq Session /\ mu \in BOOLEAN
  BY DEF Base, Counts, SubmitTypes, SentTypes
<1> USE DEF SentTypes, NoteRace, tableVars, linkVars
<1>1. ASSUME NEW s \in Session, PushDifficulty(s)
      PROVE  SentTypes'
  <2> DEFINE new == updater.diff
             r1 == [wire[s] EXCEPT !.diff = new]
  <2>1. new \in Difficulty \cup {0}
    BY <1>0 DEF Update
  <2>2. wire' \in {wire, [wire EXCEPT ![s] = r1]}
    BY <1>0, <1>1 DEF PushDifficulty
  <2> HIDE DEF new
  <2>3. r1 \in Sent
    BY <1>0, <2>1 DEF Sent
  <2> HIDE DEF r1
  <2> QED BY <1>0, <1>1, <2>2, <2>3 DEF PushDifficulty
<1>2. ASSUME NEW s \in Session, PushJob(s)
      PROVE  SentTypes'
  <2> DEFINE r1 == [wire[s] EXCEPT !.job = job]
             r2 == [r1 EXCEPT !.late = FALSE]
  <2>1. wire' \in {wire, [wire EXCEPT ![s] = r2]}
    BY <1>0, <1>2 DEF PushJob
  <2>2. r1 \in Sent
    BY <1>0 DEF Sent
  <2> HIDE DEF r1
  <2>3. r2 \in Sent
    BY <2>2 DEF Sent
  <2> HIDE DEF r2
  <2> QED BY <1>0, <1>2, <2>1, <2>3 DEF PushJob
<1>3. ASSUME NEW s \in Session,
             \/ SkipSession(s) \/ Resync(s) \/ KeepDifficulty(s)
             \/ \E d \in Difficulty : VisitSession(s, d)
      PROVE  SentTypes'
  BY <1>0, <1>3 DEF SkipSession, Resync, KeepDifficulty, VisitSession
<1>4. CASE LoopStep
  BY <1>0, <1>4 DEF LoopStep, KeepJob, UpdateJob, UpdateDone
<1> QED BY <1>1, <1>2, <1>3, <1>4 DEF UpdateStep

\* A session that receives jobs does so until its connection is closed.
LEMMA ReceivesKept ==
    ASSUME Base, NEW s \in Session, RequestStep(s) \/ HandlerStep(s) \/ UpdateStep(s),
           NEW t \in Session
    PROVE  /\ Receives(t) => Receives(t)'
           /\ sess[t].authorized => sess'[t].authorized
<1>0. sess \in [Session -> Fields]
  BY DEF Base, Counts, SubmitTypes
<1> USE DEF Receives, Fields
<1>1. CASE RequestStep(s)
  <2>1. CASE OtherRequest(s) \/ Subscribe(s) \/ SubmitStale(s)
    BY <1>0, <2>1 DEF OtherRequest, Subscribe, SubmitStale
  <2>2. CASE \E w \in Worker : Authorize(s, w)
    BY <1>0, <2>2 DEF Authorize
  <2>3. CASE \E d \in Suggestion \cup {0} : SuggestDifficulty(s, d)
    BY <1>0, <2>3 DEF SuggestDifficulty
  <2>4. CASE \E x \in Solution : Submit(s, x)
    BY <1>0, <2>4 DEF Submit
  <2> QED BY <1>1, <2>1, <2>2, <2>3, <2>4 DEF RequestStep
<1>2. CASE HandlerStep(s)
  <2>1. CASE \E d \in Difficulty : RaiseDifficulty(s, d)
    BY <1>0, <2>1 DEF RaiseDifficulty
  <2>2. CASE StoreDifficulty(s)
    BY <1>0, <2>2 DEF StoreDifficulty, Stored
  <2>3. CASE \E d \in Difficulty : SendAccepted(s, d)
    BY <1>0, <2>3 DEF SendAccepted
  <2>4. CASE \/ PublishStats(s) \/ Answer(s) \/ SendDifficulty(s) \/ FetchJob(s)
             \/ NotifyJob(s) \/ Reply(s) \/ Judge(s) \/ BlockRefused(s) \/ Credit(s)
    BY <2>4 DEF PublishStats, Answer, SendDifficulty, FetchJob, NotifyJob, Reply, Judge,
                BlockRefused, Credit
  <2> QED BY <1>2, <2>1, <2>2, <2>3, <2>4 DEF HandlerStep
<1>3. CASE UpdateStep(s)
  <2>1. CASE SkipSession(s) \/ (\E d \in Difficulty : VisitSession(s, d)) \/ PushDifficulty(s)
             \/ PushJob(s)
    BY <2>1 DEF SkipSession, VisitSession, PushDifficulty, PushJob
  <2>2. CASE Resync(s)
    BY <1>0, <2>2 DEF Resync
  <2>3. CASE KeepDifficulty(s)
    BY <1>0, <2>3 DEF KeepDifficulty, Stored
  <2> QED BY <1>3, <2>1, <2>2, <2>3 DEF UpdateStep
<1> QED BY <1>1, <1>2, <1>3

\* What a goroutine does keeps the course of updateJob.
LEMMA CourseApart ==
    ASSUME Base, NEW s \in Session, ConnStep(s) \/ RequestStep(s) \/ HandlerStep(s)
    PROVE  Course'
<1>0. sess \in [Session -> Fields] /\ sessions \subseteq Session /\ Course
  BY DEF Base, Counts, SubmitTypes
<1>1. CASE Disconnect(s)
  BY <1>0, <1>1 DEF Disconnect, Course
<1>2. CASE Connect(s) \/ Stall(s) \/ Drain(s) \/ Break(s)
  BY <1>0, <1>2 DEF Connect, Stall, Drain, Break, Course, Receives, tableVars
<1>3. CASE RequestStep(s) \/ HandlerStep(s)
  <2>1. UNCHANGED <<mu, updater, sessions>>
    <3>1. CASE RequestStep(s)
      BY <3>1 DEF RequestStep, OtherRequest, Subscribe, Authorize, SuggestDifficulty,
                  SubmitStale, Submit, tableVars
    <3>2. CASE HandlerStep(s)
      BY <3>2 DEF HandlerStep, RaiseDifficulty, PublishStats, Answer, SendDifficulty,
         StoreDifficulty, FetchJob, NotifyJob, Reply, Judge, BlockRefused, Credit,
         SendAccepted, tableVars
    <3> QED BY <1>3, <3>1, <3>2
  <2> QED BY <1>0, <1>3, <2>1, ReceivesKept DEF Course
<1> QED BY <1>1, <1>2, <1>3 DEF ConnStep

\* So does every step of it.
LEMMA CourseOn ==
    ASSUME Base, (\E s \in Session : UpdateStep(s)) \/ LoopStep
    PROVE  Course'
<1>0. /\ sess \in [Session -> Fields] /\ sessions \subseteq Session
      /\ updater \in Update /\ Course
  BY DEF Base, Counts, SubmitTypes
<1> USE DEF Course, Update, Receives, tableVars
<1>1. ASSUME NEW s \in Session, SkipSession(s)
      PROVE  Course'
  BY <1>0, <1>1 DEF SkipSession
<1>2. ASSUME NEW s \in Session, NEW d \in Difficulty, VisitSession(s, d)
      PROVE  Course'
  BY <1>0, <1>2 DEF VisitSession, FirstPush
<1>3. ASSUME NEW s \in Session, Resync(s)
      PROVE  Course'
  BY <1>0, <1>3 DEF Resync, Fields
<1>4. ASSUME NEW s \in Session, PushDifficulty(s)
      PROVE  Course'
  BY <1>0, <1>4 DEF PushDifficulty
<1>5. ASSUME NEW s \in Session, KeepDifficulty(s)
      PROVE  Course'
  BY <1>0, <1>5 DEF KeepDifficulty, Stored, Fields
<1>6. ASSUME NEW s \in Session, PushJob(s)
      PROVE  Course'
  BY <1>0, <1>6 DEF PushJob
<1>7. CASE KeepJob
  BY <1>0, <1>7 DEF KeepJob
<1>8. ASSUME NEW resync \in BOOLEAN, UpdateJob(resync)
      PROVE  Course'
  BY <1>0, <1>8 DEF UpdateJob, NoUpdate
<1>9. CASE UpdateDone
  BY <1>0, <1>9 DEF UpdateDone, NoUpdate
<1> QED BY <1>1, <1>2, <1>3, <1>4, <1>5, <1>6, <1>7, <1>8, <1>9 DEF UpdateStep, LoopStep

\* The shared part is inductive.
LEMMA BaseStep == Base /\ [Next]_vars => Base'
<1> SUFFICES ASSUME Base, [Next]_vars PROVE Base'
  OBVIOUS
<1>1. Counts'
  BY CountsStep DEF Base
<1>2. SentTypes' /\ Course'
  <2>1. CASE UNCHANGED vars
    BY <2>1 DEF vars, Base, SentTypes, Course, Receives
  <2>2. ASSUME NEW s \in Session, SessionStep(s)
        PROVE  SentTypes' /\ Course'
    BY <2>2, ConnSent, HandlerSent, UpdateSent, CourseApart, CourseOn DEF SessionStep
  <2>3. CASE LoopStep
    BY <2>3, UpdateSent, CourseOn
  <2> QED BY <2>1, <2>2, <2>3 DEF Next
<1> QED BY <1>1, <1>2 DEF Base

-----------------------------------------------------------------------------
(* The difficulty a miner was told.                                         *)

\* updateJob is about to write a difficulty to s, or has just written it.
Pushes(s) == s \in updater.at /\ updater.pc \in {"send", "store"}

\* Only one side at a time changes the difficulty of a session that has not been raced
\* for; what it has written it is about to store; and when neither is at it, the session
\* has the difficulty its miner was told, unless the write failed.
Told(s) ==
    s \notin raced =>
        /\ ~(HandlerChanges(s) /\ UpdaterChanges(s))
        /\ handler[s].pc = "store" => wire[s].diff = handler[s].diff
        /\ s \in updater.at /\ updater.pc = "store" => wire[s].diff = updater.diff
        /\ ~HandlerChanges(s) /\ ~Pushes(s) /\ ~WriteFails(s) /\ wire[s].diff > 0 =>
            sess[s].difficulty = wire[s].diff

\* A step that is about another session.
LEMMA ToldElsewhere ==
    ASSUME NEW s \in Session, Told(s), Same(s),
           updater' = updater \/ (s \notin updater'.at /\ ~Pushes(s))
    PROVE  Told(s)'
  BY DEF Told, Same, HandlerChanges, UpdaterChanges, Pushes, WriteFails

\* A connection that breaks ends what the miner was told.
LEMMA ToldByConn ==
    ASSUME Base, NEW s \in Session, Told(s), ConnStep(s)
    PROVE  Told(s)'
<1>0. /\ sess \in [Session -> Fields] /\ wire \in [Session -> Sent]
      /\ conn \in [Session -> {"unused", "open", "stalled", "broken", "closed"}]
  BY DEF Base, Counts, SubmitTypes, SentTypes
<1> USE DEF Told, HandlerChanges, UpdaterChanges, Pushes, WriteFails
<1>1. CASE Disconnect(s)
  <2>1. updater.at = {} /\ updater' = updater
    BY <1>1 DEF Disconnect, Base, Course
  <2>2. wire'[s].diff = 0 /\ handler'[s].pc = "idle"
    BY <1>0, <1>1 DEF Disconnect, Unwritten
  <2> QED BY <2>1, <2>2
<1>2. CASE Connect(s) \/ Stall(s) \/ Drain(s) \/ Break(s)
  BY <1>0, <1>2 DEF Connect, Stall, Drain, Break, tableVars
<1> QED BY <1>1, <1>2 DEF ConnStep

\* A request that changes the difficulty is a race if updateJob is at the session.
LEMMA ToldByRequest ==
    ASSUME Base, NEW s \in Session, Told(s), RequestStep(s)
    PROVE  Told(s)'
<1>0. sess \in [Session -> Fields] /\ handler \in [Session -> Goroutine]
  BY DEF Base, Counts, SubmitTypes
<1> USE DEF Told, HandlerChanges, UpdaterChanges, Pushes, WriteFails, Takes, Goto, NoteRace,
            Fields, Goroutine, tableVars, linkVars
<1>1. CASE OtherRequest(s) \/ SubmitStale(s)
  BY <1>0, <1>1 DEF OtherRequest, SubmitStale
<1>2. CASE Subscribe(s)
  BY <1>0, <1>2 DEF Subscribe
<1>3. ASSUME NEW w \in Worker, Authorize(s, w)
      PROVE  Told(s)'
  BY <1>0, <1>3 DEF Authorize
<1>4. ASSUME NEW d \in Suggestion \cup {0}, SuggestDifficulty(s, d)
      PROVE  Told(s)'
  <2>1. handler'[s].pc = "answer"
    BY <1>0, <1>4 DEF SuggestDifficulty
  <2> QED BY <1>4, <2>1 DEF SuggestDifficulty
<1>5. ASSUME NEW x \in Solution, Submit(s, x)
      PROVE  Told(s)'
  BY <1>0, <1>5 DEF Submit
<1> QED BY <1>1, <1>2, <1>3, <1>4, <1>5 DEF RequestStep

\* The goroutine stores what it has written.
LEMMA ToldByHandler ==
    ASSUME Base, NEW s \in Session, Told(s), HandlerStep(s)
    PROVE  Told(s)'
<1>0. /\ sess \in [Session -> Fields] /\ handler \in [Session -> Goroutine]
      /\ wire \in [Session -> Sent]
  BY DEF Base, Counts, SubmitTypes, SentTypes
<1> USE DEF Told, HandlerChanges, UpdaterChanges, Pushes, WriteFails, Goto, Ends, Waiting,
            NoteRace, tableVars, linkVars
<1>1. ASSUME NEW d \in Difficulty, RaiseDifficulty(s, d)
      PROVE  Told(s)'
  <2>1. handler'[s].pc = "publish"
    BY <1>0, <1>1 DEF RaiseDifficulty, Goroutine
  <2> QED BY <1>1, <2>1 DEF RaiseDifficulty
<1>2. CASE PublishStats(s) \/ Answer(s)
  BY <1>0, <1>2 DEF PublishStats, Answer, Goroutine
<1>3. CASE SendDifficulty(s)
  BY <1>0, <1>3 DEF SendDifficulty, Goroutine, Sent
<1>4. CASE StoreDifficulty(s)
  <2>1. sess'[s].difficulty = handler[s].diff /\ handler'[s].pc \in {"idle", "fetch"}
    BY <1>0, <1>4 DEF StoreDifficulty, Stored, Fields, Goroutine
  <2> QED BY <1>4, <2>1 DEF StoreDifficulty
<1>5. CASE FetchJob(s) \/ Reply(s) \/ Judge(s) \/ BlockRefused(s) \/ Credit(s)
  BY <1>0, <1>5 DEF FetchJob, Reply, Judge, BlockRefused, Credit, Goroutine
<1>6. CASE NotifyJob(s)
  BY <1>0, <1>6 DEF NotifyJob, Sent
<1>7. ASSUME NEW d \in Difficulty, SendAccepted(s, d)
      PROVE  Told(s)'
  BY <1>0, <1>7 DEF SendAccepted, Goroutine
<1> QED BY <1>1, <1>2, <1>3, <1>4, <1>5, <1>6, <1>7 DEF HandlerStep

\* So does updateJob, which is a race if the goroutine is changing the difficulty.
LEMMA ToldByUpdate ==
    ASSUME Base, NEW s \in Session, Told(s), UpdateStep(s)
    PROVE  Told(s)'
<1>0. /\ sess \in [Session -> Fields] /\ wire \in [Session -> Sent]
      /\ updater \in Update /\ Course
  BY DEF Base, Counts, SubmitTypes, SentTypes
<1> USE DEF Told, HandlerChanges, UpdaterChanges, Pushes, WriteFails, NoteRace, Update,
            tableVars, linkVars
<1>1. CASE SkipSession(s)
  BY <1>0, <1>1 DEF SkipSession
<1>2. ASSUME NEW d \in Difficulty, VisitSession(s, d)
      PROVE  Told(s)'
  BY <1>0, <1>2 DEF VisitSession, FirstPush, Course
<1>3. CASE Resync(s)
  BY <1>0, <1>3 DEF Resync, Fields
<1>4. CASE PushDifficulty(s)
  BY <1>0, <1>4 DEF PushDifficulty, Sent
<1>5. CASE KeepDifficulty(s)
  <2>1. sess'[s].difficulty = updater.diff
    BY <1>0, <1>5 DEF KeepDifficulty, Stored, Fields
  <2> QED BY <1>0, <1>5, <2>1 DEF KeepDifficulty
<1>6. CASE PushJob(s)
  BY <1>0, <1>6 DEF PushJob, Sent
<1> QED BY <1>1, <1>2, <1>3, <1>4, <1>5, <1>6 DEF UpdateStep

\* A miner's difficulty is the one it was told last, unless its goroutine and the
\* template loop have changed it at the same time (sendDifficulty and its callers), for
\* any number of miners and any course of jobs, shares and suggestions.
THEOREM DifficultyIsTold == Spec => []DifficultyAgrees
<1> DEFINE Inv == Base /\ \A t \in Session : Told(t)
<1>1. Init => Inv
  BY BaseInit DEF Init, Told, HandlerChanges, UpdaterChanges, Pushes, NewSession, Waiting,
                  Unwritten, NoUpdate
<1>2. Inv /\ [Next]_vars => Inv'
  <2> SUFFICES ASSUME Inv, [Next]_vars, NEW t \in Session PROVE Told(t)'
    BY BaseStep
  <2>1. CASE UNCHANGED vars \/ LoopStep
    BY <2>1, LoopApart, ToldElsewhere DEF Pushes
  <2>2. ASSUME NEW s \in Session, SessionStep(s)
        PROVE  Told(t)'
    <3>1. CASE s = t
      BY <2>2, <3>1, ToldByConn, ToldByRequest, ToldByHandler, ToldByUpdate DEF SessionStep
    <3>2. CASE s # t /\ UpdateStep(s)
      <4>1. Same(t) /\ t \notin updater'.at /\ ~Pushes(t)
        BY <3>2, OneUpdate DEF Pushes
      <4> QED BY <4>1, ToldElsewhere
    <3>3. CASE s # t /\ ~UpdateStep(s)
      <4>1. Same(t) /\ updater' = updater
        BY <2>2, <3>3, OneSession DEF SessionStep
      <4> QED BY <4>1, ToldElsewhere
    <3> QED BY <3>1, <3>2, <3>3
  <2> QED BY <2>1, <2>2 DEF Next
<1>3. Inv => DifficultyAgrees
  BY DEF DifficultyAgrees, Quiet, Told, HandlerChanges, Pushes, WriteFails
<1> QED BY <1>1, <1>2, <1>3, PTL DEF Spec

-----------------------------------------------------------------------------
(* The difficulty a miner suggested.                                        *)

\* A miner's suggestion that has not been raced for is in force, and nobody is about to
\* write or store another difficulty.
Keeps(s) ==
    s \notin raced /\ sess[s].fixedDiff =>
        /\ sess[s].difficulty = sess[s].suggested /\ sess[s].suggested > 0
        /\ handler[s].pc \in {"send", "store"} => handler[s].diff = sess[s].suggested
        /\ UpdaterChanges(s) => updater.diff = sess[s].suggested

\* A step that is about another session.
LEMMA KeepsElsewhere ==
    ASSUME NEW s \in Session, Keeps(s), Same(s),
           updater' = updater \/ s \notin updater'.at
    PROVE  Keeps(s)'
  BY DEF Keeps, Same, UpdaterChanges

\* The connection of a session has no part in its suggestion, but that it ends with it.
LEMMA KeptByConn ==
    ASSUME Base, NEW s \in Session, Keeps(s), ConnStep(s)
    PROVE  Keeps(s)'
<1>0. sess \in [Session -> Fields]
  BY DEF Base, Counts, SubmitTypes
<1>1. CASE Disconnect(s)
  BY <1>0, <1>1 DEF Disconnect, Keeps, NewSession
<1>2. CASE Connect(s) \/ Stall(s) \/ Drain(s) \/ Break(s)
  BY <1>2 DEF Connect, Stall, Drain, Break, Keeps, UpdaterChanges, tableVars
<1> QED BY <1>1, <1>2 DEF ConnStep

\* A new suggestion replaces the old one, or is raced for.
LEMMA KeptByRequest ==
    ASSUME Base, NEW s \in Session, Keeps(s), RequestStep(s)
    PROVE  Keeps(s)'
<1>0. SubmitTypes /\ sess \in [Session -> Fields] /\ handler \in [Session -> Goroutine]
  BY DEF Base, Counts, SubmitTypes
<1> USE DEF Keeps, UpdaterChanges, Takes, Goto, NoteRace, tableVars, linkVars
<1>1. CASE OtherRequest(s) \/ SubmitStale(s)
  BY <1>0, <1>1 DEF OtherRequest, SubmitStale, Goroutine
<1>2. CASE Subscribe(s)
  BY <1>0, <1>2 DEF Subscribe, Fields, Goroutine
<1>3. ASSUME NEW w \in Worker, Authorize(s, w)
      PROVE  Keeps(s)'
  BY <1>0, <1>3 DEF Authorize, Fields, Goroutine
<1>4. ASSUME NEW d \in Suggestion \cup {0}, SuggestDifficulty(s, d)
      PROVE  Keeps(s)'
  <2>1. handler'[s].pc = "answer" /\ updater' = updater
    BY <1>0, <1>4 DEF SuggestDifficulty, Goroutine
  <2>2. CASE d = 0
    BY <1>4, <2>1, <2>2 DEF SuggestDifficulty
  <2>3. CASE d # 0
    <3> DEFINE new == Suggested(d)
    <3>1. new > 0
      <4>1. new \in Difficulty
        BY <1>0, <2>3, DifficultyTypes
      <4>2. new \in Nat \ {0}
        BY <4>1, StratumAssumption
      <4> QED BY <4>2
    <3>2. sess' = [sess EXCEPT ![s].difficulty = new, ![s].fixedDiff = TRUE,
                               ![s].suggested = new]
      BY <1>4, <2>3 DEF SuggestDifficulty
    <3> HIDE DEF new
    <3>3. sess'[s].difficulty = new /\ sess'[s].suggested = new
      BY <1>0, <3>2 DEF Fields
    <3> QED BY <1>4, <2>1, <3>1, <3>3 DEF SuggestDifficulty
  <2> QED BY <2>2, <2>3
<1>5. ASSUME NEW x \in Solution, Submit(s, x)
      PROVE  Keeps(s)'
  BY <1>0, <1>5 DEF Submit, Fields, Goroutine
<1> QED BY <1>1, <1>2, <1>3, <1>4, <1>5 DEF RequestStep

\* Of all the goroutine does with a difficulty nothing touches a suggestion.
LEMMA KeptByHandler ==
    ASSUME Base, NEW s \in Session, Keeps(s), HandlerStep(s)
    PROVE  Keeps(s)'
<1>0. sess \in [Session -> Fields] /\ handler \in [Session -> Goroutine]
  BY DEF Base, Counts, SubmitTypes
<1> USE DEF Keeps, UpdaterChanges, Goto, Ends, Waiting, NoteRace, tableVars, linkVars
<1>1. ASSUME NEW d \in Difficulty, RaiseDifficulty(s, d)
      PROVE  Keeps(s)'
  BY <1>0, <1>1 DEF RaiseDifficulty, Fields, Goroutine
<1>2. CASE PublishStats(s)
  BY <1>0, <1>2 DEF PublishStats, Goroutine
<1>3. CASE Answer(s)
  BY <1>0, <1>3 DEF Answer, CurrentDifficulty, Goroutine
<1>4. CASE SendDifficulty(s)
  BY <1>0, <1>4 DEF SendDifficulty, Goroutine
<1>5. CASE StoreDifficulty(s)
  <2>1. /\ sess'[s].difficulty = handler[s].diff
        /\ sess'[s].fixedDiff = sess[s].fixedDiff
        /\ sess'[s].suggested = sess[s].suggested
        /\ handler'[s].pc \in {"idle", "fetch"}
    BY <1>0, <1>5 DEF StoreDifficulty, Stored, Fields, Goroutine
  <2> QED BY <1>5, <2>1 DEF StoreDifficulty
<1>6. CASE FetchJob(s) \/ Reply(s) \/ Judge(s) \/ BlockRefused(s) \/ Credit(s) \/ NotifyJob(s)
  BY <1>0, <1>6 DEF FetchJob, Reply, Judge, BlockRefused, Credit, NotifyJob, Goroutine
<1>7. ASSUME NEW d \in Difficulty, SendAccepted(s, d)
      PROVE  Keeps(s)'
  BY <1>0, <1>7 DEF SendAccepted, Fields, Goroutine
<1> QED BY <1>1, <1>2, <1>3, <1>4, <1>5, <1>6, <1>7 DEF HandlerStep

\* Nor does updateJob: it reads the difficulty before it resends it.
LEMMA KeptByUpdate ==
    ASSUME Base, NEW s \in Session, Keeps(s), UpdateStep(s)
    PROVE  Keeps(s)'
<1>0. sess \in [Session -> Fields] /\ updater \in Update /\ Course
  BY DEF Base, Counts, SubmitTypes
<1> USE DEF Keeps, UpdaterChanges, NoteRace, Update, tableVars, linkVars
<1>1. CASE SkipSession(s)
  BY <1>0, <1>1 DEF SkipSession
<1>2. ASSUME NEW d \in Difficulty, VisitSession(s, d)
      PROVE  Keeps(s)'
  BY <1>0, <1>2 DEF VisitSession
<1>3. CASE Resync(s)
  BY <1>0, <1>3 DEF Resync, Fields
<1>4. CASE PushDifficulty(s)
  BY <1>0, <1>4 DEF PushDifficulty
<1>5. CASE KeepDifficulty(s)
  <2>1. /\ sess'[s].difficulty = updater.diff
        /\ sess'[s].fixedDiff = sess[s].fixedDiff
        /\ sess'[s].suggested = sess[s].suggested
    BY <1>0, <1>5 DEF KeepDifficulty, Stored, Fields
  <2> QED BY <1>0, <1>5, <2>1 DEF KeepDifficulty
<1>6. CASE PushJob(s)
  BY <1>0, <1>6 DEF PushJob
<1> QED BY <1>1, <1>2, <1>3, <1>4, <1>5, <1>6 DEF UpdateStep

\* A suggested difficulty survives another authorize, every job and every accepted share,
\* unless updateJob was at work on the session when it was suggested
\* (TestSuggestedDifficultySurvivesAuthorize: authorize, sendAccepted, updateJob).
THEOREM SuggestionIsKept == Spec => []SuggestionSurvives
<1> DEFINE Inv == Base /\ \A t \in Session : Keeps(t)
<1>1. Init => Inv
  BY BaseInit DEF Init, Keeps, NewSession
<1>2. Inv /\ [Next]_vars => Inv'
  <2> SUFFICES ASSUME Inv, [Next]_vars, NEW t \in Session PROVE Keeps(t)'
    BY BaseStep
  <2>1. CASE UNCHANGED vars \/ LoopStep
    BY <2>1, LoopApart, KeepsElsewhere
  <2>2. ASSUME NEW s \in Session, SessionStep(s)
        PROVE  Keeps(t)'
    <3>1. CASE s = t
      BY <2>2, <3>1, KeptByConn, KeptByRequest, KeptByHandler, KeptByUpdate DEF SessionStep
    <3>2. CASE s # t /\ UpdateStep(s)
      BY <3>2, OneUpdate, KeepsElsewhere
    <3>3. CASE s # t /\ ~UpdateStep(s)
      BY <2>2, <3>3, OneSession, KeepsElsewhere DEF SessionStep
    <3> QED BY <3>1, <3>2, <3>3
  <2> QED BY <2>1, <2>2 DEF Next
<1>3. Inv => SuggestionSurvives
  BY DEF SuggestionSurvives, Keeps
<1> QED BY <1>1, <1>2, <1>3, PTL DEF Spec

-----------------------------------------------------------------------------
(* The job a miner has.                                                     *)

\* The job written to s last is no longer the current one, and was when it was written.
Behind(s) == wire[s].job > 0 /\ ~wire[s].late /\ wire[s].job # job

\* Who is announced a job receives jobs, and updateJob has yet to come to everybody who
\* is behind, unless the connection is broken.
Reached(s) ==
    /\ handler[s].pc = "idle" => handler[s].next = "idle"
    /\ handler[s].next = "fetch" \/ handler[s].pc \in {"raise", "publish"} =>
        sess[s].authorized
    /\ handler[s].pc = "fetch" => sess[s].authorized
    /\ handler[s].pc = "notify" => Receives(s)
    /\ wire[s].job > 0 => s \in sessions /\ Receives(s)
    /\ Behind(s) => s \in updater.todo \/ s \in updater.at \/ WriteFails(s)

\* A step that is about another session.
LEMMA ReachedElsewhere ==
    ASSUME NEW s \in Session, Reached(s), Same(s), job' = job,
           s \in updater.todo \/ s \in updater.at => s \in updater'.todo \/ s \in updater'.at
    PROVE  Reached(s)'
  BY DEF Reached, Same, Behind, Receives, WriteFails

\* A connection that breaks is not told of jobs, and one that is gone has none.
LEMMA ReachedByConn ==
    ASSUME Base, NEW s \in Session, Reached(s), ConnStep(s)
    PROVE  Reached(s)'
<1>0. /\ sess \in [Session -> Fields] /\ wire \in [Session -> Sent]
      /\ conn \in [Session -> {"unused", "open", "stalled", "broken", "closed"}]
  BY DEF Base, Counts, SubmitTypes, SentTypes
<1> USE DEF Reached, Behind, Receives, WriteFails
<1>1. CASE Disconnect(s)
  <2>1. wire'[s].job = 0 /\ handler' = handler /\ handler[s].pc = "idle"
    BY <1>0, <1>1 DEF Disconnect, Unwritten
  <2> QED BY <2>1
<1>2. CASE Connect(s) \/ Stall(s) \/ Drain(s) \/ Break(s)
  BY <1>0, <1>2 DEF Connect, Stall, Drain, Break, tableVars
<1> QED BY <1>1, <1>2 DEF ConnStep

\* A request that leads to a job is an authorize.
LEMMA ReachedByRequest ==
    ASSUME Base, NEW s \in Session, Reached(s), RequestStep(s)
    PROVE  Reached(s)'
<1>0. sess \in [Session -> Fields] /\ handler \in [Session -> Goroutine]
  BY DEF Base, Counts, SubmitTypes
<1> USE DEF Reached, Behind, Receives, WriteFails, Takes, Goto, tableVars, linkVars
<1>1. CASE OtherRequest(s) \/ SubmitStale(s)
  BY <1>0, <1>1 DEF OtherRequest, SubmitStale, Goroutine
<1>2. CASE Subscribe(s)
  BY <1>0, <1>2 DEF Subscribe, Fields, Goroutine
<1>3. ASSUME NEW w \in Worker, Authorize(s, w)
      PROVE  Reached(s)'
  <2>1. /\ sess'[s].authorized /\ sess'[s].subscribed = sess[s].subscribed
        /\ handler'[s].pc = "raise"
    BY <1>0, <1>3 DEF Authorize, Fields, Goroutine
  <2> QED BY <1>3, <2>1 DEF Authorize
<1>4. ASSUME NEW d \in Suggestion \cup {0}, SuggestDifficulty(s, d)
      PROVE  Reached(s)'
  <2>1. /\ sess'[s].authorized = sess[s].authorized
        /\ sess'[s].subscribed = sess[s].subscribed
    BY <1>0, <1>4 DEF SuggestDifficulty, Fields
  <2>2. handler'[s].pc = "answer" /\ handler'[s].next = handler[s].next
    BY <1>0, <1>4 DEF SuggestDifficulty, Goroutine
  <2> QED BY <1>4, <2>1, <2>2 DEF SuggestDifficulty
<1>5. ASSUME NEW x \in Solution, Submit(s, x)
      PROVE  Reached(s)'
  BY <1>0, <1>5 DEF Submit, Fields, Goroutine
<1> QED BY <1>1, <1>2, <1>3, <1>4, <1>5 DEF RequestStep

\* authorize announces the current job, or one that it marks as late.
LEMMA ReachedByHandler ==
    ASSUME Base, NEW s \in Session, Reached(s), HandlerStep(s)
    PROVE  Reached(s)'
<1>0. /\ sess \in [Session -> Fields] /\ handler \in [Session -> Goroutine]
      /\ wire \in [Session -> Sent]
  BY DEF Base, Counts, SubmitTypes, SentTypes
<1>w. handler[s].pc # "idle" => s \in sessions
  BY DEF Base, Counts, SessionCounts
<1> USE DEF Reached, Behind, Receives, WriteFails, Goto, Ends, Waiting, tableVars, linkVars
<1>1. ASSUME NEW d \in Difficulty, RaiseDifficulty(s, d)
      PROVE  Reached(s)'
  BY <1>0, <1>1 DEF RaiseDifficulty, Fields, Goroutine
<1>2. CASE PublishStats(s)
  BY <1>0, <1>2 DEF PublishStats, Goroutine
<1>3. CASE Answer(s)
  BY <1>0, <1>3 DEF Answer, Goroutine
<1>4. CASE SendDifficulty(s)
  <2>1. UNCHANGED <<job, sessions, sess, updater, conn>>
    BY <1>4 DEF SendDifficulty
  <2>2. wire'[s].job = wire[s].job /\ wire'[s].late = wire[s].late
    <3> HIDE DEF Goto, Ends, Waiting, WriteFails
    <3> QED BY <1>0, <1>4 DEF SendDifficulty, Sent
  <2>3. \/ handler'[s].pc = "store" /\ handler'[s].next = handler[s].next
        \/ handler'[s].pc = "idle" /\ handler'[s].next = "idle"
    BY <1>0, <1>4 DEF SendDifficulty, Goroutine
  <2>4. handler[s].pc = "send"
    BY <1>4 DEF SendDifficulty
  <2> HIDE DEF Goto, Ends, Waiting
  <2> QED BY <2>1, <2>2, <2>3, <2>4
<1>5. CASE StoreDifficulty(s)
  <2>1. /\ sess'[s].authorized = sess[s].authorized
        /\ sess'[s].subscribed = sess[s].subscribed
        /\ handler'[s].pc \in {"idle", "fetch"}
        /\ handler'[s].pc = "fetch" => handler[s].next = "fetch"
        /\ handler'[s].pc = "idle" => handler'[s].next = "idle"
        /\ handler'[s].next = "fetch" => handler[s].next = "fetch"
    BY <1>0, <1>5 DEF StoreDifficulty, Stored, Fields, Goroutine
  <2> QED BY <1>5, <2>1 DEF StoreDifficulty
<1>6. CASE FetchJob(s)
  BY <1>0, <1>6 DEF FetchJob, Goroutine
<1>7. CASE Reply(s) \/ Judge(s) \/ BlockRefused(s) \/ Credit(s)
  BY <1>0, <1>7 DEF Reply, Judge, BlockRefused, Credit, Goroutine
<1>8. CASE NotifyJob(s)
  <2>1. wire'[s] = wire[s] \/ (wire'[s].late <=> wire'[s].job # job)
    BY <1>0, <1>8 DEF NotifyJob, Sent
  <2>2. handler'[s] = Waiting /\ Receives(s) /\ s \in sessions
    BY <1>0, <1>w, <1>8 DEF NotifyJob
  <2> QED BY <1>8, <2>1, <2>2 DEF NotifyJob
<1>9. ASSUME NEW d \in Difficulty, SendAccepted(s, d)
      PROVE  Reached(s)'
  BY <1>0, <1>9 DEF SendAccepted, Fields, Goroutine
<1> QED BY <1>1, <1>2, <1>3, <1>4, <1>5, <1>6, <1>7, <1>8, <1>9 DEF HandlerStep

\* updateJob passes over sessions without a job only, and announces the current one.
LEMMA ReachedByUpdate ==
    ASSUME Base, NEW s \in Session, Reached(s), UpdateStep(s)
    PROVE  Reached(s)'
<1>0. /\ sess \in [Session -> Fields] /\ wire \in [Session -> Sent]
      /\ updater \in Update /\ Course
  BY DEF Base, Counts, SubmitTypes, SentTypes
<1> USE DEF Reached, Behind, Receives, WriteFails, Update, tableVars, linkVars
<1>1. CASE SkipSession(s)
  BY <1>0, <1>1 DEF SkipSession
<1>2. ASSUME NEW d \in Difficulty, VisitSession(s, d)
      PROVE  Reached(s)'
  BY <1>0, <1>2 DEF VisitSession
<1>3. CASE Resync(s)
  BY <1>0, <1>3 DEF Resync, Fields
<1>4. CASE PushDifficulty(s)
  BY <1>0, <1>4 DEF PushDifficulty, Sent
<1>5. CASE KeepDifficulty(s)
  <2>1. /\ sess'[s].authorized = sess[s].authorized
        /\ sess'[s].subscribed = sess[s].subscribed
    BY <1>0, <1>5 DEF KeepDifficulty, Stored, Fields
  <2> QED BY <1>0, <1>5, <2>1 DEF KeepDifficulty
<1>6. CASE PushJob(s)
  <2>1. s \in sessions /\ Receives(s)
    BY <1>0, <1>6 DEF PushJob, Course
  <2>2. wire'[s].job = job \/ (WriteFails(s) /\ wire' = wire)
    BY <1>0, <1>6 DEF PushJob, Sent
  <2> QED BY <1>0, <1>6, <2>1, <2>2 DEF PushJob
<1> QED BY <1>1, <1>2, <1>3, <1>4, <1>5, <1>6 DEF UpdateStep

\* A new job is put on the list for every session of the table.
LEMMA ReachedByLoop ==
    ASSUME Base, NEW s \in Session, Reached(s), UNCHANGED vars \/ LoopStep
    PROVE  Reached(s)'
<1>0. Course
  BY DEF Base
<1> USE DEF Reached, Behind, Receives, WriteFails, linkVars
<1>1. CASE UNCHANGED vars \/ KeepJob
  BY <1>1 DEF vars, KeepJob
<1>2. ASSUME NEW resync \in BOOLEAN, UpdateJob(resync)
      PROVE  Reached(s)'
  <2>1. updater'.todo = sessions
    BY <1>2 DEF UpdateJob, NoUpdate
  <2> QED BY <1>2, <2>1 DEF UpdateJob
<1>3. CASE UpdateDone
  BY <1>0, <1>3 DEF UpdateDone, Course
<1> QED BY <1>1, <1>2, <1>3 DEF LoopStep

\* Between two updates every miner that was ever given a job has the current one, but for
\* a job that authorize looked up before the update and announced after it (updateJob,
\* mining.authorize), for any number of miners that come, stall and go.
THEOREM MinersAreReached == Spec => []JobsReachMiners
<1> DEFINE Inv == Base /\ \A t \in Session : Reached(t)
<1>1. Init => Inv
  BY BaseInit DEF Init, Reached, Behind, Waiting, Unwritten
<1>2. Inv /\ [Next]_vars => Inv'
  <2> SUFFICES ASSUME Inv, [Next]_vars, NEW t \in Session PROVE Reached(t)'
    BY BaseStep
  <2>1. CASE UNCHANGED vars \/ LoopStep
    BY <2>1, ReachedByLoop
  <2>2. ASSUME NEW s \in Session, SessionStep(s)
        PROVE  Reached(t)'
    <3>1. CASE s = t
      BY <2>2, <3>1, ReachedByConn, ReachedByRequest, ReachedByHandler, ReachedByUpdate
         DEF SessionStep
    <3>2. CASE s # t /\ UpdateStep(s)
      <4>1. t \notin updater.at
        BY <3>2, OneUpdate DEF Base, Course
      <4> QED BY <3>2, <4>1, OneUpdate, ReachedElsewhere
    <3>3. CASE s # t /\ ~UpdateStep(s)
      BY <2>2, <3>3, OneSession, ReachedElsewhere DEF SessionStep
    <3> QED BY <3>1, <3>2, <3>3
  <2> QED BY <2>1, <2>2 DEF Next
<1>3. Inv => JobsReachMiners
  <2> SUFFICES ASSUME Inv, ~mu, NEW s \in Session, Quiet(s), wire[s].job > 0, ~wire[s].late
               PROVE  wire[s].job = job
    BY DEF JobsReachMiners
  <2>1. updater.todo = {} /\ updater.at = {}
    BY DEF Base, Course
  <2> QED BY <2>1 DEF Reached, Behind, Quiet, WriteFails
<1> QED BY <1>1, <1>2, <1>3, PTL DEF Spec
=============================================================================
