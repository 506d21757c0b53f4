SPECIFICATION ServersSpec
CONSTANTS
    core = core
    other = other
    prd = prd
    dev = dev
    old = old
    new = new
    v1 = v1
    v2 = v2
    NoValue = NoValue
    Restricted <- AllNew
    Empty = Empty
    Projects <- TwoProjects
    Canonical = core
    Configs <- TwoConfigs
    Names = {old, new}
    Values = {v1, v2}
    WritePlaces <- OnePlace
    InitialStores <- SomeStores
    Calls = {c1, c2}
    GatedTools = {"purge_zone_cache", "restart_service"}
    Jobs = {j1, j2}
    Services = {s1}
    NoService = NoService
    NoJob = NoJob
    Handlers = {c1, c2}
    MaxEdits = 2
SYMMETRY ServerSymmetry
CHECK_DEADLOCK FALSE
INVARIANTS
    ToldTruth
    AuditTrue
    CancelAnswerTrue
    HealthCoversActive
    PoolsLostByRaceOnly
PROPERTIES
    RenameKeepsValue
    DisabledOnlyByOverlap
