SPECIFICATION Spec
CONSTANTS
    scout = scout
    s1 = s1
    s2 = s2
    Agents = {scout}
    NoAgent = NoAgent
    MaxIntents = 3
    Consumers = {s1, s2}
    AgentOf <- BothScout
    Limits = {1, 2}
    MaxLosses = 1
    Runs = {r1, r2}
    NoRun = NoRun
    MaxEntries = 2
    MaxEnds = 2
    MaxRows = 3
    Readers = {v1}
CHECK_DEADLOCK FALSE
INVARIANTS
    ConsumedOnce
    IntentsAccounted
    FinishedBundleComplete

    
