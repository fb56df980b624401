SPECIFICATION FairSpec
CONSTANTS
    n1 = n1
    n2 = n2
    r1 = r1
    Names = {n1, n2}
    Rules = {r1, bad}
    BadRules = bad
    Faults = {"lock", "crash", "write"}
    Foreign <- ForeignPayloads
    Garbled <- GarbledPayloads
    ClientGroups <- OtherGroups
    MaxMoves = 2
    MaxRequests = 3
    InitialFile <- TwoGroups
INVARIANTS
    TypeOK
    BackupIsFaithful
    RestoreIsExact
    ResetRemovesAll
PROPERTIES
    SrrEnds
