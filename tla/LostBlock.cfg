\* A share difficulty above the network's.
SPECIFICATION Spec
CONSTANTS
    s1 = s1  s2 = s2  w1 = w1  x1 = x1  x2 = x2  x3 = x3
    Session = {s1}
    Worker = {w1, NoWorker}
    NoWorker = NoWorker
    Difficulty = {1, 3}
    Suggestion = {}
    ShareDiff = 1
    NetworkDiff = 2
    Solution = {x2, x3}
    Meets <- MeetsInTurn
    MaxJobs = 2
    MaxTroubles = 1
INVARIANTS
    BlocksAreForwarded
