\* A caller and an operator. Two workers of one address and one without, rounds below the start height, rewards of nothing, trimmed lists.
\* The bounded run stops when its blocks and faults are used up.
CHECK_DEADLOCK FALSE
SPECIFICATION Spec
CONSTANTS
    s1 = s1  s2 = s2  c1 = c1  c2 = c2  o1 = o1
    Worker = {1, 2, 3}
    PayTo <- SharedAddress
    Payable = {1}
    Session = {s1}
    Caller = {c1}
    RunLoop = {c1}
    Operator = {o1}
    ShareWork = {1}
    Reward = {0, 1, 5}
    Height = {0, 1}
    Budget <- Ample
    FeeBPS = 100
    PayoutMin = 2
    PayoutBatchLimit = 1
    StartHeight = 1
    MaxRecentRounds = 1
    MaxPayments = 2
    MaxBlocks = 2
    MaxWork = 2
    MaxCrashes = 0
    MaxLostReplies = 0
    MaxWriteErrors = 0
INVARIANTS
    TypeOK
    PaidWhenSettled
    PaidNotPending
    PaymentsExplainSettled
