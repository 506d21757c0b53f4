SPECIFICATION Spec
CONSTANTS
    MaxTasks = 2
    MaxFaults = 1
    r1 = r1
    r2 = r2
    shell = shell
    ocr = ocr
    Runners = {r1, r2}
    Nobody = Nobody
    NoKey = NoKey
    NoKind = NoKind
    Kinds = {shell}
    Keys = {d1}
    Outcomes = {"succeeded", "failed"}
    Requests <- OneRequest
    Clients = {c1}
    Pollers = {p1}
    Waiters = {w1}
INVARIANTS
    WaitAnswerStaysTrue
    OneLiveTaskPerKey
