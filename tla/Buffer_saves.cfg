\* Two layouts; three sets and three points are enough for a set before, at and after
\* each change.
CONSTANTS
    Layouts = {c1, c2}
    CbufLen = 2
    MaxPts = 3
    MaxSets = 3
    MaxOps = 4
SPECIFICATION Spec
SYMMETRY LayoutSymmetry
INVARIANTS
    SetsInOrder
    SavedIsWritten
    NothingLostUnasked
    NoOldTimes
