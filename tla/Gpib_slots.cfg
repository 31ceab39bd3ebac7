\* Two slots, two writes each.
CONSTANTS
    NSlot = 2
    MaxWrites = 2
SPECIFICATION FairSpec
INVARIANTS
    NoOldReading
    OwnReading
PROPERTY WriteArrives
