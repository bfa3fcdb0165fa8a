CONSTANTS
    Facts <- OneEvent
    NoEvent = NoEvent
    NoFact = NoFact
    NoDecision = NoDecision
    SettleFirst = FALSE
    MaxFrames = 3
SPECIFICATION Spec
INVARIANT OneRowPerSubject
