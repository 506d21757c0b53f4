SPECIFICATION ScriptsSpec
CONSTANTS
    Operators = {o1, o2}
    NRules = 2
    MaxRetries = 3
    MaxRuns = 2
    MaxDeletes = 1
    Updaters = {u1, u2}
    NoUpdater = NoUpdater
    MaxTunnels = 3
    MaxLogReads = 2
SYMMETRY ScriptSymmetry
CHECK_DEADLOCK FALSE
INVARIANTS
    ExitZeroMeansConfigured
    ProxyFindsTunnel
PROPERTIES
    OnlyKnownDuplicates
