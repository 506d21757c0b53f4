SPECIFICATION FairSpec
CONSTANTS
    MaxTasks = 2
    MaxFaults = 1
    r1 = r1
    r2 = r2
    shell = shell
    ocr = ocr
    Runners = {r1, r2}
    Nobody = Nobody
    NoKey = NoKey
    NoKind = NoKind
    Kinds = {shell}
    Keys = {}
    Outcomes = {"succeeded"}
    Requests <- RivalRequests
    Clients = {c1}
    Pollers = {p1, p2}
    Waiters = {}
PROPERTIES
    EventuallySettled
    ClaimReturns
