CONSTANTS
    Facts <- EveryRoute
    NoEvent = NoEvent
    NoFact = NoFact
    NoDecision = NoDecision
    SettleFirst = TRUE
    MaxFrames = 3
SPECIFICATION Spec
INVARIANTS
    OneRowPerSubject
    StableAuthority
    AnchoredVerdicts
PROPERTIES
    ImplementsAuthority
