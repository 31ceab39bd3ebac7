\* Page changes, scans, failing acquisitions, timescales of any panel.
CONSTANTS
    Panels = {p0, p1}
    Setup = Setup
    Quit = Quit
SYMMETRY PanelSymmetry
SPECIFICATION Spec
INVARIANTS
    TypeOK
    RunlevelsCoupled
    BoardIdleOutsideSession
    CallbacksBlockedDuringScan
    ScanBufferLive
PROPERTY StopLeftByFailureOnly
