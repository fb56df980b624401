SPECIFICATION Spec
CONSTANTS
    Workers = {w1, w2}
    n1 = n1
    n2 = n2
    r1 = r1
    r2 = r2
    Names = {n1, n2}
    Rules = {r1, r2, bad}
    BadRules = bad
    Faults = {}
    Requests <- UpdateRemovedRequests
    InitialFile <- OneGroup
    NoJob = NoJob
    NoThread = NoThread
    Orphan = Orphan
    CounterMod = 4
INVARIANTS
    ReturnedIsStored
