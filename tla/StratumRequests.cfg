\* Two miners come and go and authorize under a name; their connections stall and break.
SPECIFICATION FairSpec
CONSTANTS
    s1 = s1  s2 = s2  w1 = w1  x1 = x1  x2 = x2  x3 = x3
    Session = {s1, s2}
    Worker = {w1}
    NoWorker = NoWorker
    Difficulty = {1}
    Suggestion = {}
    ShareDiff = 1
    NetworkDiff = 3
    Solution = {}
    Meets <- MeetsInTurn
    MaxJobs = 1
    MaxTroubles = 1
INVARIANTS
    StatsAgree
PROPERTIES
    RequestsEnd
