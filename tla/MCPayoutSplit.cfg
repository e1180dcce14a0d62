SPECIFICATION Spec
CONSTANTS
    Worker = {1, 2, 3}
    ShareWork = {1, 2}
    MaxWork = 6
    MaxDistributable = 12
    StartDifficulty = {0, 4, 6, 20, 48, 96}
    Pace = {1, 2, 3, 5, 8, 13, 40}
    Target = 60
    LeastDifficulty = 4
    MostDifficulty = 48
    Shares = 8
INVARIANTS
    Conserved
    SinglePass
    WithinOneAtom
    MoreWorkNeverPaysLess
    VarDiffSettles
CHECK_DEADLOCK FALSE
