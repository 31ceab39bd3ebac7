SPECIFICATION PlotFairSpec
CONSTANTS
    Places = {1, 2, 3}
    Windows <- MCWindows
    Slice = 3
    Chunk = 2
    SetChunk = 1
    Nowhere = Nowhere
    MaxPts = 4
    MaxSets = 2
INVARIANTS ReadsInside LinesJoined
PROPERTY ShowsTheBuffer
CHECK_DEADLOCK FALSE
