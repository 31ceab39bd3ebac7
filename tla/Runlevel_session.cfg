\* What a session comes to: page changes, scans and failing acquisitions in one panel.
CONSTANTS
    Panels = {p0}
    Setup = Setup
    Quit = Quit
SPECIFICATION FairSpec
PROPERTIES
    ScanEnds
    StopCompletes
