SPECIFICATION FairSpec
CONSTANTS
    MaxMoves = 2
    MaxReleases = 1
    MaxCuts = 1
    merge = merge
    issue = issue
    Kinds = {merge}
    NoKind = NoKind
    Priorities = {1, 2}
    Requests <- MergeOrAny
    Droids = {d1, d2}
    Nobody = Nobody
INVARIANTS
    HumanGate
    HolderIsOwner
    ClaimAccounted
PROPERTIES
    VerdictOnce
    ImplementsWorkQueue
    EventuallyClaimed
