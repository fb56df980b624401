SPECIFICATION FairSpec
CONSTANTS
    n1 = n1
    n2 = n2
    r1 = r1
    r2 = r2
    r3 = r3
    Names = {n1, n2}
    Rules = {r1, r2, r3}
    Faults = {"lock"}
    BadRules = {r3}
    c1 = c1
    c2 = c2
    c3 = c3
    Calls = {c1, c2, c3}
    Scenarios <- SomeScenarios
    InitialFile <- OneGroup
    IdMod = 4
    MaxTroubles = 2
INVARIANTS
    TypeOK
    AnswerIsOwn
    ListIsComplete
    RemovedStaysGone
PROPERTIES
    CallsSeeRegistry
    CallsEnd
    ServesAgain
    StopEnds
