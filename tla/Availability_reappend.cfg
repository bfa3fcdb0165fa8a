CONSTANTS
    Keys = {k1, k2}
    Sources = {s1}
    NoRecord = NoRecord
    NoKey = NoKey
    SettleFirst = FALSE
    MaxTime = 2
    MaxFrames = 2
SPECIFICATION Spec
INVARIANT OneMarkerPerKey
SYMMETRY KeySymmetry
