SPECIFICATION ToolsSpec
CONSTANTS
    core = core
    other = other
    prd = prd
    dev = dev
    old = old
    new = new
    v1 = v1
    v2 = v2
    NoValue = NoValue
    Restricted <- AllNew
    Empty = Empty
    Projects <- TwoProjects
    Canonical = core
    Configs <- TwoConfigs
    Names = {old, new}
    Values = {v1, v2}
    WritePlaces <- OnePlace
    InitialStores <- SomeStores
    Calls = {}
    GatedTools = {}
CHECK_DEADLOCK FALSE
INVARIANTS
    MatchMeansEqual
