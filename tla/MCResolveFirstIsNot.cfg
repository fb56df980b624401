SPECIFICATION Spec
CONSTANTS
    Elements <- MCElements
    Asset <- MCAsset
    Links <- MCLinks
    RackController <- MCRackController
    Names = {"n"}
    Rules <- MCRules
    Faults = {}
    Inputs <- FirstIsNot
    GroupChanges <- Saves
    NoNumber = NoNumber
    Quote = "'"
    MaxDepth = 12
    MaxChanges = 0
    InitialFile <- ThreeGroups
INVARIANTS
    AnswerIsMeaning
