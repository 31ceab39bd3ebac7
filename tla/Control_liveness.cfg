\* Prompt commands are answered in turn across switches between panels, aborts included.
CONSTANTS
    MaxRequests = 3
    MaxKills = 1
    Commands <- PromptCommands
    AbortAllowed = TRUE
    Leaves = {}
SPECIFICATION FairSpec
PROPERTY RepliesInTurn
