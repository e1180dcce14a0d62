\* Two sessions; one question that fails, one restart or one lost reply.
\* The bounded run stops when the chain is full, but for the refreshes.
SPECIFICATION FairSpec
CONSTANTS
    Session = {s1, s2}
    StartTip = 1
    MaxTip = 3
    MaxFaults = 1
INVARIANTS
    TypeOK
    ReasonGiven
    NoEarlyJobs
    TemplateExtendsBest
    HealthyIsRecent
    RewardIsEarned
    BlocksAreFiled
    RoundsHaveWork
PROPERTIES
    JobCatchesUp
