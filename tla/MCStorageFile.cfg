SPECIFICATION Spec
CONSTANTS
    n1 = n1
    NoName = NoName
    NoRules = NoRules
    Names = {n1, NoName}
    Rules = {NoRules}
    InitialList <- TwoGroups
    Faults = {"read", "write", "torn", "crash"}
    Radix = 2
    Digits = 2
    MaxId = 3
CONSTRAINT IdBound
INVARIANTS
    TypeOK
    IdsBelowLast
PROPERTIES
    NoCallDuplicates
