SPECIFICATION Spec
CONSTANTS
    MaxHistory = 2
    Nodes = {"comedi0", "comedi1"}
    Limits <- MCLimits
    SysDefault <- MCSysDefault
    Missing = Missing
    NoBoard = NoBoard
    MaxOps = 4
INVARIANTS BoardsFollow SavedIsLoaded
PROPERTIES ConnectsInSetup ZoomsReturn LimitsOrdered
CHECK_DEADLOCK FALSE
