\* Two sessions change the ledger.
\* The bounded run stops when its blocks and faults are used up.
CHECK_DEADLOCK FALSE
SPECIFICATION Spec
CONSTANTS
    s1 = s1  s2 = s2  c1 = c1  c2 = c2  o1 = o1
    Worker = {1, 2}
    PayTo <- TwoAddresses
    Payable = {1, 2}
    Session = {s1, s2}
    Caller = {}
    RunLoop = {}
    Operator = {}
    ShareWork = {1}
    Reward = {5}
    Height = {1}
    Budget <- AmpleOrScarce
    FeeBPS = 100
    PayoutMin = 2
    PayoutBatchLimit = 1
    StartHeight = 0
    MaxRecentRounds = 3
    MaxPayments = 3
    MaxBlocks = 2
    MaxWork = 2
    MaxCrashes = 0
    MaxLostReplies = 0
    MaxWriteErrors = 0
INVARIANTS
    DiskIsCurrent
