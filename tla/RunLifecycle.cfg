SPECIFICATION RetriedSpec
CONSTANTS
    Procs = {p1, p2}
    MaxRuns = 2
    MaxFaults = 3
INVARIANTS
    TypeOK
    OnlyOwnRunActive
    RecordsAgree
PROPERTIES
    ClosedRunIsFrozen
    NothingLeftBehind
