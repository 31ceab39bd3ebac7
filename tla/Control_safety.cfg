\* Every reply goes to the command it belongs to, aborts included.
CONSTANTS
    MaxRequests = 2
    MaxKills = 1
    Commands <- AllCommands
    AbortAllowed = TRUE
    Leaves = {"setup", "quit"}
SPECIFICATION Spec
INVARIANTS
    RightReply
    DirtyHasCommand
