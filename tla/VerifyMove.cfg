SPECIFICATION Spec
CONSTANTS
    m1 = m1
    m2 = m2
    repoA = repoA
    Moves = {m1, m2}
    KindOf <- MergeAndNoop
    RepoOf <- RepoAndNone
    Repos = {repoA}
    NoRepo = NoRepo
    NoMove = NoMove
    Calls = {v1, v2}
    Filers = {v1, v2}
    MaxRecords = 3
    MaxRestarts = 1
    MaxRequests = 2
    Names <- TokenName
    NoName = "no capability"
SYMMETRY CallSymmetry
CHECK_DEADLOCK FALSE
INVARIANTS
    SamplesAccounted
    OnlyOverlapLosesSamples
    OnePendingPerCapability
