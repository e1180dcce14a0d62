------------------------------ MODULE ChainBlocks ------------------------------
(***************************************************************************)
(* The pool's copy of the indexer's newest blocks and its log: a refresh   *)
(* asks pacdata for the blocks and for the coinbase of those it does not   *)
(* know (collectRecentChainBlocks), notes under Service.mu which of them   *)
(* the pool has a round for (applyRecentChainBlocksLocked), and leaves new *)
(* ones to a goroutine that appends them to recent-chain-blocks.jsonl      *)
(* (appendChainBlockRecords), under persistMu: one step.                   *)
(*                                                                         *)
(* A block is its height.  Of a record is kept what the pool adds to it:   *)
(* whether it has the coinbase, and whether a round is known.  The file is *)
(* kept by block and run of the program.                                   *)
(***************************************************************************)
EXTENDS Naturals, Sequences, FiniteSets

CONSTANTS
    Limit,     \* how many blocks a refresh asks for
    MaxRounds  \* MaxRecentRounds

CONSTANTS
    MaxHeight, \* bound: blocks of the chain
    MaxMisses  \* bound: coinbases that cannot be had, and failed appends

ASSUME ChainAssumption == Limit \in Nat \ {0} /\ MaxRounds \in Nat \ {0} /\ MaxHeight \in Nat

VARIABLES
    height,       \* pacdata: the newest block
    recentRounds, \* the blocks of the pool's rounds, newest first
    collected,    \* Run loop: the records a refresh has collected
    cached,       \* chainBlocksByHash
    noted,        \* loggedChainBlockHashes
    appends,      \* goroutines on the way to the file, each with its records
    written,      \* history: the blocks written to the file in this run
    dropped,      \* history: the blocks whose append failed in this run
    missed,       \* history: the blocks whose coinbase could not be had
    misses        \* history: how much of MaxMisses was used

chainVars == <<height, recentRounds, collected, cached, noted, appends, written, dropped,
               missed, misses>>

Block == 1..MaxHeight
Record == [block : Block, coinbase : BOOLEAN, round : BOOLEAN]

\* The newest blocks.
Window == {b \in Block : b <= height /\ b + Limit > height}

Have(b) == \E r \in cached : r.block = b
RecordOf(b) == CHOOSE r \in cached : r.block = b
BlocksOf(records) == {r.block : r \in records}

InRounds(b) == \E i \in DOMAIN recentRounds : recentRounds[i] = b

ChainTypeOK ==
    /\ height \in 0..MaxHeight
    /\ recentRounds \in Seq(Block) /\ Len(recentRounds) <= MaxRounds
    /\ collected \subseteq Record /\ cached \subseteq Record
    /\ noted \subseteq Block /\ written \subseteq Block /\ dropped \subseteq Block
    /\ missed \subseteq Block
    /\ \A batch \in appends : batch \subseteq Record
    /\ misses \in Nat

ChainInit ==
    /\ height = 0 /\ recentRounds = <<>>
    /\ collected = {} /\ cached = {} /\ noted = {} /\ appends = {}
    /\ written = {} /\ dropped = {} /\ missed = {} /\ misses = 0

Miss(n) == misses + n <= MaxMisses /\ misses' = misses + n

\* The indexer has the next block.
BlockIndexed ==
    /\ height < MaxHeight /\ height' = height + 1
    /\ UNCHANGED <<recentRounds, collected, cached, noted, appends, written, dropped, missed,
                   misses>>

\* At most MaxRounds are kept.
Newest(rounds) == SubSeq(rounds, 1, IF Len(rounds) < MaxRounds THEN Len(rounds) ELSE MaxRounds)

\* RecordSolvedBlock, before or after the indexer has the block.
RoundFiled(b) ==
    /\ b \in {height, height + 1} /\ ~InRounds(b)
    /\ recentRounds' = Newest(<<b>> \o recentRounds)
    /\ UNCHANGED <<height, collected, cached, noted, appends, written, dropped, missed, misses>>

MutantFetchesNewest(b, misser) ==
    [block |-> b, coinbase |-> b \notin misser /\ b = height, round |-> FALSE]

\* chainBlockRecordFromIndexedBlock, whose question about the coinbase may fail.
Fetched(b, misser) == [block |-> b, coinbase |-> b \notin misser, round |-> FALSE]

\* collectRecentChainBlocks: a block that is known is not asked for again, also when its
\* coinbase could not be had.
Collect ==
    \E misser \in SUBSET {b \in Window : ~Have(b)} :
        /\ collected = {} /\ Window # {}
        /\ collected' = {IF Have(b) THEN RecordOf(b) ELSE Fetched(b, misser) : b \in Window}
        /\ Miss(Cardinality(misser)) /\ missed' = missed \cup misser
        /\ UNCHANGED <<height, recentRounds, cached, noted, appends, written, dropped>>

MutantForgetsRound(r) == [r EXCEPT !.round = InRounds(r.block)]

\* A round that is known marks the record for good.
Marked(r) == [r EXCEPT !.round = r.round \/ InRounds(r.block)]

Fresh == {Marked(r) : r \in {r \in collected : r.block \notin noted}}

MutantApplyNotesLater ==
    /\ collected # {}
    /\ cached' = {r \in cached : r.block \notin BlocksOf(collected)} \cup {Marked(r) : r \in collected}
    /\ noted' = noted \cup written
    /\ appends' = IF Fresh = {} THEN appends ELSE appends \cup {Fresh}
    /\ collected' = {}
    /\ UNCHANGED <<height, recentRounds, written, dropped, missed, misses>>

\* applyRecentChainBlocksLocked: the records are kept, and those of new blocks logged.
Apply ==
    /\ collected # {}
    /\ cached' = {r \in cached : r.block \notin BlocksOf(collected)} \cup {Marked(r) : r \in collected}
    /\ noted' = noted \cup BlocksOf(collected)
    /\ appends' = IF Fresh = {} THEN appends ELSE appends \cup {Fresh}
    /\ collected' = {}
    /\ UNCHANGED <<height, recentRounds, written, dropped, missed, misses>>

\* appendChainBlockRecords
WriteBatch(batch) ==
    /\ batch \in appends
    /\ written' = written \cup BlocksOf(batch)
    /\ appends' = appends \ {batch}
    /\ UNCHANGED <<height, recentRounds, collected, cached, noted, dropped, missed, misses>>

\* A write fails: the records before it are in the file, the others never will be.
WriteFails(batch) ==
    /\ batch \in appends /\ Miss(1)
    /\ \E n \in BlocksOf(batch) :
        /\ written' = written \cup {b \in BlocksOf(batch) : b > n}
        /\ dropped' = dropped \cup {b \in BlocksOf(batch) : b <= n}
    /\ appends' = appends \ {batch}
    /\ UNCHANGED <<height, recentRounds, collected, cached, noted, missed>>

\* The program starts again: of all this only the rounds and the file are left.
ForgetBlocks ==
    /\ collected' = {} /\ cached' = {} /\ noted' = {} /\ appends' = {}
    /\ written' = {} /\ dropped' = {} /\ missed' = {}
    /\ UNCHANGED <<height, recentRounds, misses>>

BlocksStep ==
    \/ BlockIndexed
    \/ \E b \in Block : RoundFiled(b)
    \/ Collect
    \/ Apply
    \/ \E batch \in appends : WriteBatch(batch) \/ WriteFails(batch)

-----------------------------------------------------------------------------
(* Safety.                                                                  *)

Waiting == UNION {BlocksOf(batch) : batch \in appends}

\* A block the pool has noted is with one goroutine, or written, or dropped by a failed
\* write: it is logged once in a run of the program, whatever the order in which the
\* refreshes' goroutines get to the file (applyRecentChainBlocksLocked).
LoggedOnce ==
    /\ noted = Waiting \cup written \cup dropped
    /\ Waiting \cap (written \cup dropped) = {} /\ written \cap dropped = {}
    /\ \A s, t \in appends : s # t => BlocksOf(s) \cap BlocksOf(t) = {}

\* There is one record of a block, and it has the coinbase, which says who mined the
\* block, unless that could not be had the first time (chainBlockRecordFromIndexedBlock).
OwnerIsKnown ==
    /\ \A r, t \in cached : r.block = t.block => r = t
    /\ \A r \in cached : ~r.coinbase => r.block \in missed

\* What the pool shows of a block it never shows less of in the same run: neither the
\* coinbase nor the pool's round is taken back, also when the round has left recentRounds
\* (collectRecentChainBlocks, applyRecentChainBlocksLocked).
NeverShowsLess ==
    [][cached' # {} => \A r \in cached : \E t \in cached' :
          t.block = r.block /\ (r.coinbase => t.coinbase) /\ (r.round => t.round)]_cached
=============================================================================
