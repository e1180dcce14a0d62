\* Two sessions, a caller and the rebuild tool; heights below the start height and at it,
\* and events that weigh a share as the round does or not.  A write fails, or the program
\* restarts.
\* The bounded run stops when its blocks and faults are used up.
CHECK_DEADLOCK FALSE
SPECIFICATION RebuildSpec
CONSTANTS
    s1 = s1  s2 = s2  c1 = c1
    Worker = {1, 2}
    PayTo <- TwoAddresses
    Payable = {1, 2}
    Session = {s1, s2}
    Caller = {c1}
    RunLoop = {}
    Operator = {}
    ShareWork = {1, 2}
    Reward = {5}
    Height = {1, 2}
    Budget <- Ample
    FeeBPS = 100
    PayoutMin = 2
    PayoutBatchLimit = 1
    StartHeight = 2
    MaxRecentRounds = 2
    MaxPayments = 4
    MaxBlocks = 2
    MaxWork = 3
    MaxCrashes = 1
    MaxLostReplies = 0
    MaxWriteErrors = 1
    MaxEvents = 3
    BaseSubsidy = 6
    MinerRewardPct = 95
    ReductionInterval = 3
    WorkerDifficulty = {1, 2}
SYMMETRY SessionSymmetry
CONSTRAINT UnfaithfulPaysNothing
INVARIANTS
    RebuildRestoresRounds
    RebuildRestoresMarks
    RebuildRecoversBlocks
