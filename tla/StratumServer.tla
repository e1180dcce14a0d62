---------------------------- MODULE StratumServer ----------------------------
(***************************************************************************)
(* The stratum server (internal/stratum/server.go): the template loop      *)
(* publishes jobs to every session while it holds the server's mutex; each *)
(* session's goroutine serves its miner's requests one at a time and       *)
(* shares the session's fields with the template loop without a lock.      *)
(*                                                                         *)
(* Each action is one access to fields both sides use, one critical        *)
(* section of Server.mu, or one write to a connection.  A solution of a    *)
(* job (extranonce, time and nonce as submitted) is a value of Solution;   *)
(* Meets says which difficulty its hash meets.  Difficulties, of shares    *)
(* and of the network, are numbers of one unit.                            *)
(***************************************************************************)
EXTENDS Integers, FiniteSets

CONSTANTS
    Session,      \* connections; a session object is never used again
    Worker,       \* the names miners authorize with
    NoWorker,     \* the empty name, a session's before it has authorized
    Difficulty,   \* share difficulties
    Suggestion,   \* those of them that miners suggest
    ShareDiff,    \* Service.ShareDifficulty
    NetworkDiff,  \* the difficulty of a block
    Solution, Meets

ASSUME StratumAssumption ==
    /\ Difficulty \subseteq Nat \ {0} /\ ShareDiff \in Difficulty
    /\ Suggestion \subseteq Difficulty
    /\ NetworkDiff \in Nat /\ Meets \in [Solution -> Nat]
    /\ IsFiniteSet(Solution)

CONSTANTS
    MaxJobs,      \* bound: jobs published
    MaxTroubles   \* bound: times an open connection stalls or breaks

VARIABLES
    mu,        \* whether updateJob holds Server.mu (other sections are one step)
    job,       \* Server.job: the number of the current job, 0 for none
    sessions,  \* Server.sessions
    sess,      \* the fields of each session
    handler,   \* where each session's goroutine is
    updater,   \* where updateJob is
    published, \* the last SetStratumStats
    conn,      \* the connections: unused, open, stalled, broken or closed
    wire,      \* the last difficulty and job written to each connection
    credited,  \* history: accepted shares, by session, job and solution
    accepted,  \* the number of accepted shares RecordShare has counted
    judged,    \* history: what handleSubmit has hashed
    forwarded, \* history: what it has passed to SubmitSolvedBlock
    raced,     \* history: sessions whose difficulty both sides changed at once
    troubles   \* how often an open connection has stalled or broken

vars == <<mu, job, sessions, sess, handler, updater, published, conn, wire,
          credited, accepted, judged, forwarded, raced, troubles>>
tableVars == <<mu, job, sessions, published>>
shareVars == <<credited, accepted, judged, forwarded>>
linkVars == <<conn, troubles, raced>>

\* A share: who found which solution of which job.
Share == [session : Session, job : Nat, solution : Solution]

\* A session object as Run makes it, with the difficulty its miner last suggested.
NewSession == [subscribed |-> FALSE, authorized |-> FALSE, worker |-> NoWorker,
               difficulty |-> 0, diffSent |-> FALSE, fixedDiff |-> FALSE,
               seenJob |-> 0, seenShares |-> {}, suggested |-> 0]

\* A connection nothing has been written to.
Unwritten == [diff |-> 0, job |-> 0, late |-> FALSE]

\* A goroutine that waits for a request.  Else diff is the difficulty it is about to
\* write, next where it goes on afterwards, job the job it is about to announce, and
\* share what it judges.
Waiting == [pc |-> "idle", diff |-> 0, next |-> "idle", job |-> 0, share |-> {}]

\* No updateJob in progress.  Else todo are the sessions it has still to look at, at the
\* one it is at, and diff the difficulty it has worked out for it.
NoUpdate == [pc |-> "idle", todo |-> {}, at |-> {}, diff |-> 0, resync |-> FALSE]

\* publishStatsLocked
Stats(j, table, fields) ==
    [connected |-> Cardinality(table), jobs |-> IF j > 0 THEN 1 ELSE 0,
     machines |-> [w \in Worker \ {NoWorker} |->
        Cardinality({s \in table : fields[s].authorized /\ fields[s].worker = w})]]

\* The types of the variables; a suggestion is never below the pool's difficulty
\* (suggest_difficulty).
TypeOK ==
    /\ mu \in BOOLEAN /\ job \in Nat /\ sessions \subseteq Session
    /\ sess \in [Session -> [subscribed : BOOLEAN, authorized : BOOLEAN,
                             worker : Worker \cup {NoWorker},
                             difficulty : Difficulty \cup {0}, diffSent : BOOLEAN,
                             fixedDiff : BOOLEAN, seenJob : Nat,
                             seenShares : SUBSET Solution,
                             suggested : {0} \cup {d \in Difficulty : d >= ShareDiff}]]
    /\ handler \in [Session ->
            [pc : {"idle", "reply", "raise", "publish", "answer", "send", "store", "fetch",
                   "notify", "judge", "credit", "forward", "accept"},
             diff : Difficulty \cup {0}, next : {"idle", "fetch"}, job : Nat,
             share : SUBSET Share]]
    /\ updater \in [pc : {"idle", "pick", "resync", "send", "store", "notify"},
                    todo : SUBSET Session, at : SUBSET Session,
                    diff : Difficulty \cup {0}, resync : BOOLEAN]
    /\ published \in [connected : Nat, jobs : {0, 1}, machines : [Worker \ {NoWorker} -> Nat]]
    /\ conn \in [Session -> {"unused", "open", "stalled", "broken", "closed"}]
    /\ wire \in [Session -> [diff : Difficulty \cup {0}, job : Nat, late : BOOLEAN]]
    /\ credited \subseteq Share /\ accepted \in Nat
    /\ judged \subseteq Share /\ forwarded \subseteq Share
    /\ raced \subseteq Session /\ troubles \in Nat

Init ==
    /\ mu = FALSE /\ job = 0 /\ sessions = {}
    /\ sess = [s \in Session |-> NewSession]
    /\ handler = [s \in Session |-> Waiting]
    /\ updater = NoUpdate
    /\ published = Stats(0, {}, sess)
    /\ conn = [s \in Session |-> "unused"]
    /\ wire = [s \in Session |-> Unwritten]
    /\ credited = {} /\ accepted = 0 /\ judged = {} /\ forwarded = {}
    /\ raced = {} /\ troubles = 0

-----------------------------------------------------------------------------
(* Connections.  A write to an open one succeeds, to a broken one fails, and *)
(* to a stalled one waits.                                                   *)

Writable(s) == conn[s] = "open"
WriteFails(s) == conn[s] = "broken"

\* publishStatsLocked, after what the action changes.
Publish == published' = Stats(job', sessions', sess')

\* Run accepts a connection: addSession.
Connect(s) ==
    /\ conn[s] = "unused" /\ ~mu
    /\ conn' = [conn EXCEPT ![s] = "open"]
    /\ sessions' = sessions \cup {s}
    /\ UNCHANGED <<mu, job, sess, handler, updater, wire, shareVars, troubles, raced>>
    /\ Publish

\* The end of session.run: removeSession.  Nothing refers to the session any more.
Disconnect(s) ==
    /\ WriteFails(s) /\ handler[s].pc = "idle" /\ ~mu
    /\ conn' = [conn EXCEPT ![s] = "closed"]
    /\ sessions' = sessions \ {s}
    /\ sess' = [sess EXCEPT ![s] = NewSession] /\ wire' = [wire EXCEPT ![s] = Unwritten]
    /\ raced' = raced \ {s}
    /\ UNCHANGED <<mu, job, handler, updater, shareVars, troubles>>
    /\ Publish

\* The miner stops reading, reads again, or goes away.
Stall(s) ==
    /\ conn[s] = "open" /\ conn' = [conn EXCEPT ![s] = "stalled"]
    /\ troubles < MaxTroubles /\ troubles' = troubles + 1
    /\ UNCHANGED <<tableVars, sess, handler, updater, wire, shareVars, raced>>

Drain(s) ==
    /\ conn[s] = "stalled" /\ conn' = [conn EXCEPT ![s] = "open"]
    /\ UNCHANGED <<tableVars, sess, handler, updater, wire, shareVars, troubles, raced>>

Break(s) ==
    /\ conn[s] \in {"open", "stalled"} /\ conn' = [conn EXCEPT ![s] = "broken"]
    /\ conn[s] = "open" => troubles < MaxTroubles
    /\ troubles' = IF conn[s] = "open" THEN troubles + 1 ELSE troubles
    /\ UNCHANGED <<tableVars, sess, handler, updater, wire, shareVars, raced>>

-----------------------------------------------------------------------------
(* Requests of a miner, in the session's goroutine.                          *)

\* The goroutine of s is changing the difficulty, and so is the template loop.
HandlerChanges(s) == handler[s].pc \in {"raise", "publish", "answer", "send", "store"}
UpdaterChanges(s) == s \in updater.at /\ updater.pc \in {"resync", "send", "store"}

NoteRace(s, meets) == raced' = raced \cup {t \in {s} : meets}

\* The goroutine of s takes up a request.
Takes(s) == s \in sessions /\ handler[s].pc = "idle"

Goto(s, pc) == handler' = [handler EXCEPT ![s].pc = pc]

\* A request is over: handler s is back to waiting.
Ends(s) == handler' = [handler EXCEPT ![s] = Waiting]

\* currentDifficulty
CurrentDifficulty(s) == IF sess[s].difficulty > 0 THEN sess[s].difficulty ELSE ShareDiff

\* Service.WorkerDifficulty: VarDiff moves a worker's difficulty with its shares; a name
\* the service does not know has the pool's.
WorkerDifficulty(w) == IF w = NoWorker THEN {ShareDiff} ELSE Difficulty

\* A request that is only answered (configure, get_version, ...), or a submit refused
\* before the job is looked up: not authorized, or parameters missing.
OtherRequest(s) ==
    /\ Takes(s) /\ Goto(s, "reply")
    /\ UNCHANGED <<tableVars, sess, updater, linkVars, wire, shareVars>>

Subscribe(s) ==
    /\ Takes(s) /\ Goto(s, "reply")
    /\ sess' = [sess EXCEPT ![s].subscribed = TRUE]
    /\ UNCHANGED <<tableVars, updater, linkVars, wire, shareVars>>

\* mining.authorize up to the difficulty.
Authorize(s, w) ==
    /\ Takes(s) /\ Goto(s, "raise")
    /\ sess' = [sess EXCEPT ![s].worker = w, ![s].authorized = TRUE]
    /\ NoteRace(s, UpdaterChanges(s))
    /\ UNCHANGED <<tableVars, updater, conn, troubles, wire, shareVars>>

MutantRaisesSuggested(s, d) ==
    /\ handler[s].pc = "raise" /\ d \in WorkerDifficulty(sess[s].worker)
    /\ sess' = [sess EXCEPT ![s].difficulty = IF d > @ THEN d ELSE @]
    /\ Goto(s, "publish")
    /\ UNCHANGED <<tableVars, updater, linkVars, wire, shareVars>>

\* mining.authorize: the worker's difficulty, unless the miner has suggested one.
RaiseDifficulty(s, d) ==
    /\ handler[s].pc = "raise" /\ d \in WorkerDifficulty(sess[s].worker)
    /\ sess' = [sess EXCEPT ![s].difficulty =
                   IF ~sess[s].fixedDiff /\ d > @ THEN d ELSE @]
    /\ Goto(s, "publish")
    /\ UNCHANGED <<tableVars, updater, linkVars, wire, shareVars>>

MutantAuthorizesSilently(s) ==
    /\ handler[s].pc = "publish" /\ ~mu
    /\ handler' = [handler EXCEPT ![s].pc = "answer", ![s].next = "fetch"]
    /\ UNCHANGED <<tableVars, sess, updater, linkVars, wire, shareVars>>

\* mining.authorize: publishStatsLocked.
PublishStats(s) ==
    /\ handler[s].pc = "publish" /\ ~mu
    /\ handler' = [handler EXCEPT ![s].pc = "answer", ![s].next = "fetch"]
    /\ UNCHANGED <<mu, job, sessions, sess, updater, linkVars, wire, shareVars>>
    /\ Publish

\* A suggestion below the pool's difficulty is raised to it.
Suggested(d) == IF d < ShareDiff THEN ShareDiff ELSE d

\* mining.suggest_difficulty, with a usable value or without one (0).
SuggestDifficulty(s, d) ==
    /\ Takes(s) /\ Goto(s, "answer")
    /\ sess' = IF d = 0 THEN sess
               ELSE [sess EXCEPT ![s].difficulty = Suggested(d), ![s].fixedDiff = TRUE,
                                 ![s].suggested = Suggested(d)]
    /\ NoteRace(s, UpdaterChanges(s))
    /\ UNCHANGED <<tableVars, updater, conn, troubles, wire, shareVars>>

\* The response to authorize and suggest_difficulty, and the difficulty to send next.
Answer(s) ==
    /\ handler[s].pc = "answer"
    /\ \/ /\ Writable(s)
          /\ handler' = [handler EXCEPT ![s].pc = "send", ![s].diff = CurrentDifficulty(s)]
       \/ WriteFails(s) /\ Ends(s)
    /\ UNCHANGED <<tableVars, sess, updater, linkVars, wire, shareVars>>

\* sendDifficulty: the write.
SendDifficulty(s) ==
    /\ handler[s].pc = "send"
    /\ \/ /\ Writable(s) /\ Goto(s, "store")
          /\ wire' = [wire EXCEPT ![s].diff = handler[s].diff]
       \/ WriteFails(s) /\ Ends(s) /\ UNCHANGED wire
    /\ UNCHANGED <<tableVars, sess, updater, linkVars, shareVars>>

MutantStoresFlagOnly(fields, d) == [fields EXCEPT !.diffSent = TRUE]

\* sendDifficulty: what becomes of the session's fields after the write.
Stored(fields, d) == [fields EXCEPT !.difficulty = d, !.diffSent = TRUE]

StoreDifficulty(s) ==
    /\ handler[s].pc = "store"
    /\ sess' = [sess EXCEPT ![s] = Stored(@, handler[s].diff)]
    /\ IF handler[s].next = "idle" THEN Ends(s) ELSE Goto(s, handler[s].next)
    /\ UNCHANGED <<tableVars, updater, linkVars, wire, shareVars>>

\* mining.authorize: the current job, which is announced a second later.
FetchJob(s) ==
    /\ handler[s].pc = "fetch" /\ ~mu
    /\ IF job > 0 /\ sess[s].subscribed
       THEN handler' = [handler EXCEPT ![s].pc = "notify", ![s].job = job]
       ELSE Ends(s)
    /\ UNCHANGED <<tableVars, sess, updater, linkVars, wire, shareVars>>

\* mining.authorize: sendNotify.
NotifyJob(s) ==
    /\ handler[s].pc = "notify" /\ Ends(s)
    /\ \/ /\ Writable(s)
          /\ wire' = [wire EXCEPT ![s].job = handler[s].job, ![s].late = handler[s].job # job]
       \/ WriteFails(s) /\ UNCHANGED wire
    /\ UNCHANGED <<tableVars, sess, updater, linkVars, shareVars>>

\* The response to any other request.
Reply(s) ==
    /\ handler[s].pc = "reply" /\ (Writable(s) \/ WriteFails(s)) /\ Ends(s)
    /\ UNCHANGED <<tableVars, sess, updater, linkVars, wire, shareVars>>

-----------------------------------------------------------------------------
(* mining.submit.                                                            *)

\* A submit for another job than the current one.
SubmitStale(s) ==
    /\ Takes(s) /\ sess[s].authorized /\ sess[s].subscribed /\ ~mu
    /\ Goto(s, "reply")
    /\ UNCHANGED <<tableVars, sess, updater, linkVars, wire, shareVars>>

MutantNothingSeen(s) == {}

\* The solutions of the current job the session has submitted.
Seen(s) == IF sess[s].seenJob = job THEN sess[s].seenShares ELSE {}

\* A submit for the current job, up to the hash: a duplicate is refused; otherwise the
\* solution is remembered, and refused if it does not parse or its time is out of range.
Submit(s, x) ==
    /\ Takes(s) /\ sess[s].authorized /\ sess[s].subscribed /\ ~mu /\ job > 0
    /\ sess' = [sess EXCEPT ![s].seenJob = job, ![s].seenShares = Seen(s) \cup {x}]
    /\ \/ Goto(s, "reply")
       \/ /\ x \notin Seen(s)
          /\ handler' = [handler EXCEPT ![s].pc = "judge",
                            ![s].share = {[session |-> s, job |-> job, solution |-> x]}]
    /\ UNCHANGED <<tableVars, updater, linkVars, wire, shareVars>>

MutantReachesBeyond(share, d) == \A x \in share : Meets[x.solution] > d

\* The hash meets difficulty d.
Reaches(share, d) == \A x \in share : Meets[x.solution] >= d

\* The hash is compared with the session's target and then with the network's; a
\* solution that meets both goes to pacd.
Judge(s) ==
    LET share == handler[s].share
        good == Reaches(share, CurrentDifficulty(s))
        block == good /\ Reaches(share, NetworkDiff)
    IN  /\ handler[s].pc = "judge"
        /\ judged' = judged \cup share
        /\ forwarded' = IF block THEN forwarded \cup share ELSE forwarded
        /\ Goto(s, IF block THEN "forward" ELSE IF good THEN "credit" ELSE "reply")
        /\ UNCHANGED <<tableVars, sess, updater, linkVars, wire, credited, accepted>>

\* SubmitSolvedBlock fails, or pacd does not accept the block.
BlockRefused(s) ==
    /\ handler[s].pc = "forward" /\ Goto(s, "reply")
    /\ UNCHANGED <<tableVars, sess, updater, linkVars, wire, shareVars>>

\* RecordShare with an accepted share, also of a block pacd accepted (whose
\* RecordSolvedBlock is an action of PayoutLedger).
Credit(s) ==
    /\ handler[s].pc \in {"credit", "forward"} /\ Goto(s, "accept")
    /\ credited' = credited \cup handler[s].share
    /\ accepted' = accepted + 1
    /\ UNCHANGED <<tableVars, sess, updater, linkVars, wire, judged, forwarded>>

\* sendAccepted: the response, and the worker's difficulty if it has changed and the
\* miner has not suggested one.
SendAccepted(s, d) ==
    LET adjusts == ~sess[s].fixedDiff /\ d # sess[s].difficulty
    IN  /\ handler[s].pc = "accept" /\ d \in Difficulty
        /\ \/ /\ Writable(s) /\ adjusts
              /\ sess' = [sess EXCEPT ![s].difficulty = d]
              /\ handler' = [handler EXCEPT ![s].pc = "send", ![s].diff = d]
              /\ NoteRace(s, UpdaterChanges(s))
           \/ /\ WriteFails(s) \/ (Writable(s) /\ ~adjusts)
              /\ Ends(s) /\ UNCHANGED <<sess, raced>>
        /\ UNCHANGED <<tableVars, updater, conn, troubles, wire, shareVars>>

-----------------------------------------------------------------------------
(* The template loop: updateJob, under mu from its first action to its last. *)

\* The template is the current job's, or no job can be built from it.
KeepJob ==
    /\ updater.pc = "idle" /\ ~mu
    /\ UNCHANGED <<mu, job, sessions, sess, handler, updater, linkVars, wire, shareVars>>
    /\ Publish

\* A new job: for another template, with difficulties brought up to date (resync), or
\* for the same one with a later time.
UpdateJob(resync) ==
    /\ updater.pc = "idle" /\ ~mu
    /\ job < MaxJobs /\ (job = 0 => resync)
    /\ job' = job + 1 /\ mu' = TRUE
    /\ updater' = [NoUpdate EXCEPT !.pc = "pick", !.todo = sessions, !.resync = resync]
    /\ UNCHANGED <<sessions, sess, handler, linkVars, wire, shareVars>>
    /\ Publish

Receives(s) == sess[s].authorized /\ sess[s].subscribed

\* The next session of the table is not ready for jobs.
SkipSession(s) ==
    /\ updater.pc = "pick" /\ s \in updater.todo /\ ~Receives(s)
    /\ updater' = [updater EXCEPT !.todo = @ \ {s}]
    /\ UNCHANGED <<tableVars, sess, handler, linkVars, wire, shareVars>>

MutantRollsSilently(resync) == IF resync THEN "resync" ELSE "pick"

\* What is done with a session that receives jobs.
FirstPush(resync) == IF resync THEN "resync" ELSE "notify"

\* The next session is: its difficulty is read, or worked out.
VisitSession(s, d) ==
    /\ updater.pc = "pick" /\ s \in updater.todo /\ Receives(s)
    /\ d \in IF sess[s].difficulty > 0 THEN {sess[s].difficulty}
                                       ELSE WorkerDifficulty(sess[s].worker)
    /\ updater' = [updater EXCEPT !.todo = @ \ {s}, !.at = {s}, !.diff = d,
                                  !.pc = FirstPush(updater.resync)]
    /\ NoteRace(s, updater.resync /\ HandlerChanges(s))
    /\ UNCHANGED <<tableVars, sess, handler, conn, troubles, wire, shareVars>>

\* The session is told the difficulty if it was not told one or has another now.
Resync(s) ==
    /\ updater.pc = "resync" /\ s \in updater.at
    /\ IF sess[s].diffSent /\ sess[s].difficulty = updater.diff
       THEN updater' = [updater EXCEPT !.pc = "notify"] /\ UNCHANGED sess
       ELSE /\ updater' = [updater EXCEPT !.pc = "send"]
            /\ sess' = [sess EXCEPT ![s].difficulty = updater.diff]
    /\ UNCHANGED <<tableVars, handler, linkVars, wire, shareVars>>

\* sendDifficulty in the template loop: the write; an error is ignored.
PushDifficulty(s) ==
    /\ updater.pc = "send" /\ s \in updater.at
    /\ \/ /\ Writable(s)
          /\ updater' = [updater EXCEPT !.pc = "store"]
          /\ wire' = [wire EXCEPT ![s].diff = updater.diff]
       \/ WriteFails(s) /\ updater' = [updater EXCEPT !.pc = "notify"] /\ UNCHANGED wire
    /\ UNCHANGED <<tableVars, sess, handler, linkVars, shareVars>>

\* sendDifficulty in the template loop: the session's fields, after the write.
KeepDifficulty(s) ==
    /\ updater.pc = "store" /\ s \in updater.at
    /\ updater' = [updater EXCEPT !.pc = "notify"]
    /\ sess' = [sess EXCEPT ![s] = Stored(@, updater.diff)]
    /\ UNCHANGED <<tableVars, handler, linkVars, wire, shareVars>>

\* sendNotify in the template loop; an error is ignored.
PushJob(s) ==
    /\ updater.pc = "notify" /\ s \in updater.at
    /\ updater' = [updater EXCEPT !.pc = "pick", !.at = {}]
    /\ \/ Writable(s) /\ wire' = [wire EXCEPT ![s].job = job, ![s].late = FALSE]
       \/ WriteFails(s) /\ UNCHANGED wire
    /\ UNCHANGED <<tableVars, sess, handler, linkVars, shareVars>>

MutantKeepsMutex ==
    /\ updater.pc = "pick" /\ updater.todo = {}
    /\ updater' = NoUpdate /\ UNCHANGED mu
    /\ UNCHANGED <<job, sessions, published, sess, handler, linkVars, wire, shareVars>>

\* updateJob returns.
UpdateDone ==
    /\ updater.pc = "pick" /\ updater.todo = {}
    /\ updater' = NoUpdate /\ mu' = FALSE
    /\ UNCHANGED <<job, sessions, published, sess, handler, linkVars, wire, shareVars>>

-----------------------------------------------------------------------------
ConnStep(s) == Connect(s) \/ Disconnect(s) \/ Stall(s) \/ Drain(s) \/ Break(s)

\* The miner of s sends a request.
RequestStep(s) ==
    \/ OtherRequest(s)
    \/ Subscribe(s)
    \/ \E w \in Worker : Authorize(s, w)
    \/ \E d \in Suggestion \cup {0} : SuggestDifficulty(s, d)
    \/ SubmitStale(s)
    \/ \E x \in Solution : Submit(s, x)

\* The goroutine of s goes on with a request.
HandlerStep(s) ==
    \/ \E d \in Difficulty : RaiseDifficulty(s, d)
    \/ PublishStats(s)
    \/ Answer(s)
    \/ SendDifficulty(s)
    \/ StoreDifficulty(s)
    \/ FetchJob(s)
    \/ NotifyJob(s)
    \/ Reply(s)
    \/ Judge(s)
    \/ BlockRefused(s)
    \/ Credit(s)
    \/ \E d \in Difficulty : SendAccepted(s, d)

\* updateJob goes on with session s.
UpdateStep(s) ==
    \/ SkipSession(s)
    \/ \E d \in Difficulty : VisitSession(s, d)
    \/ Resync(s)
    \/ PushDifficulty(s)
    \/ KeepDifficulty(s)
    \/ PushJob(s)

SessionStep(s) == ConnStep(s) \/ RequestStep(s) \/ HandlerStep(s) \/ UpdateStep(s)

LoopStep == KeepJob \/ (\E resync \in BOOLEAN : UpdateJob(resync)) \/ UpdateDone

Next == (\E s \in Session : SessionStep(s)) \/ LoopStep

Spec == Init /\ [][Next]_vars

-----------------------------------------------------------------------------
(* Safety.                                                                   *)

\* The counter of accepted shares counts every solution of a job once per session,
\* however often it is submitted and whatever jobs are published meanwhile
\* (handleSubmit, seenJob and seenShares).
CreditedOnce == accepted = Cardinality(credited)

\* Every hash that is a block is passed to pacd (handleSubmit).  The server compares a
\* hash with the session's share target first.
BlocksAreForwarded ==
    \A x \in judged : Meets[x.solution] >= NetworkDiff => x \in forwarded

\* The counters SetStratumStats was given last agree with the table of sessions, unless
\* an authorize has yet to publish its change (publishStatsLocked and its callers).
StatsAgree ==
    (\A s \in Session : handler[s].pc \notin {"raise", "publish"}) =>
        published = Stats(job, sessions, sess)

\* Neither the goroutine of s nor updateJob is in the middle of something with s, and
\* its connection works.
Quiet(s) == /\ handler[s].pc = "idle" /\ s \notin updater.at
            /\ conn[s] \in {"open", "stalled"}

\* Unless its goroutine and the template loop have changed a session's difficulty at the
\* same time, the server judges its shares by the difficulty its miner was told
\* last (sendDifficulty and its callers).
DifficultyAgrees ==
    \A s \in Session : Quiet(s) /\ s \notin raced /\ wire[s].diff > 0 =>
        sess[s].difficulty = wire[s].diff

\* The difficulty a miner suggested last stays, through another authorize, a job and the
\* worker's own difficulty, unless updateJob was at work on the session at the same time
\* (TestSuggestedDifficultySurvivesAuthorize: authorize, sendAccepted, updateJob).
SuggestionSurvives ==
    \A s \in Session : Quiet(s) /\ s \notin raced /\ sess[s].fixedDiff =>
        sess[s].difficulty = sess[s].suggested

\* Between two updates every miner that was ever given a job has the current one; the
\* only exception is a job that authorize looked up a second before it announced it
\* (updateJob, mining.authorize).
JobsReachMiners ==
    ~mu => \A s \in Session : Quiet(s) /\ wire[s].job > 0 /\ ~wire[s].late => wire[s].job = job

-----------------------------------------------------------------------------
(* Liveness.                                                                 *)

\* Goroutines that are not blocked go on; a lock that is free again and again is
\* obtained; a stalled connection drains or breaks in the end.
Fairness ==
    /\ \A s \in Session :
        /\ SF_vars(HandlerStep(s))
        /\ WF_vars(UpdateStep(s))
        /\ WF_vars(Drain(s) \/ Break(s))
    /\ WF_vars(UpdateDone)

FairSpec == Spec /\ Fairness

\* Every request is finished with, however miners of other sessions behave (session.run,
\* updateJob: nobody keeps mu, and nobody waits for it in a circle).
RequestsEnd == \A s \in Session : handler[s].pc # "idle" ~> handler[s].pc = "idle"
=============================================================================
