CONSTANTS
    Keys = {k1, k2}
    Sources = {s1, s2}
    NoRecord = NoRecord
    NoKey = NoKey
    SettleFirst = TRUE
    MaxTime = 2
    MaxFrames = 3
SPECIFICATION Spec
INVARIANTS
    OneMarkerPerKey
    MarkerIsStable
PROPERTIES
    NewMarkersAreLatest
    LateMarkersAreInDoubt
    DoubtEndsWithItsMarker
    ImplementsLedger
