SPECIFICATION FairSpec
CONSTANTS
    Elements <- MCElements
    Asset <- MCAsset
    Links <- MCLinks
    RackController <- MCRackController
    Names = {"n"}
    Rules <- MCRules
    Faults = {"db", "write"}
    Inputs <- RuleInputs
    GroupChanges <- Saves
    NoNumber = NoNumber
    Quote = "'"
    MaxDepth = 12
    MaxChanges = 1
    InitialFile <- ThreeGroups
INVARIANTS
    TypeOK
    AnswerIsMeaning
    CheckedRulesResolve
PROPERTIES
    ResolveEnds
