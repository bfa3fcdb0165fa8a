CONSTANTS
    Facts = {f1, f2}
    NoFact = NoFact
    MaxLost = 1
    MaxDropped = 1
SPECIFICATION FairSpec
INVARIANTS
    AcknowledgedIsWritten
    RefusedNeverAppears
PROPERTIES
    PendingSettles
CHECK_DEADLOCK FALSE
