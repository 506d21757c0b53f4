SPECIFICATION Spec
CONSTANTS
    MaxTasks = 2
    MaxFaults = 2
    r1 = r1
    r2 = r2
    shell = shell
    ocr = ocr
    Runners = {r1, r2}
    Nobody = Nobody
    NoKey = NoKey
    NoKind = NoKind
    Kinds = {shell, ocr}
    Keys = {}
    Outcomes = {"succeeded", "failed"}
    Requests <- MixedRequests
    Clients = {c1}
    Pollers = {p1, p2}
    Waiters = {}
SYMMETRY PollerSymmetry
INVARIANTS
    AtMostOnceDelivery
    HandedOutAccounted
PROPERTIES
    ClaimIsForKeeps
    AckedResultKept
    ImplementsWorkQueue
