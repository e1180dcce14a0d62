\* One miner's difficulty, jobs and submits, with the template loop at any point.
SPECIFICATION Spec
CONSTANTS
    s1 = s1  s2 = s2  w1 = w1  x1 = x1  x2 = x2  x3 = x3
    Session = {s1}
    Worker = {w1, NoWorker}
    NoWorker = NoWorker
    Difficulty = {1, 2, 3}
    Suggestion = {1, 3}
    ShareDiff = 2
    NetworkDiff = 3
    Solution = {x2, x3}
    Meets <- MeetsInTurn
    MaxJobs = 2
    MaxTroubles = 1
INVARIANTS
    CreditedOnce
    BlocksAreForwarded
    DifficultyAgrees
    SuggestionSurvives
    JobsReachMiners
