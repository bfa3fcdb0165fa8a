CONSTANTS
    Facts <- OnlyFirst
    Recovered <- OnlyFirst
    NoEvent = NoEvent
    NoFact = NoFact
    NoDecision = NoDecision
    MaxUnderway = 2
SPECIFICATION FairSpec
INVARIANTS
    MarkersFollowProof
    RefusedStaysOut
    ResultIsOnRecord
    OnlyHasteContradicts
PROPERTY RecoveryCompletes
CHECK_DEADLOCK FALSE
