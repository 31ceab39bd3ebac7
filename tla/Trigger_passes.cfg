SPECIFICATION FairSpec
CONSTANTS
    NTrig = 2
    NLine = 2
    Programs <- MCPrograms
    Edits <- MCEdits
    MaxOps = 2
INVARIANTS PassInOrder ButtonsFollow
PROPERTY PassEnds
