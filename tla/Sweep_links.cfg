\* Two sweeps, their links, and every caller of request_sweep_dir.
CONSTANTS
    N = 2
    MaxOps = 3
SPECIFICATION FairSpec
INVARIANTS
    LinkedInStep
    NothingLeftPending
    ButtonsShowDir
PROPERTY
    CallsEnd
