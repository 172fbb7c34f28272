SPECIFICATION Spec
CONSTANTS
    N = 2
    Burst <- Pair
    Scores = {1, 2}
    Modes <- UserModes
    MaxVersion = 2
    MaxFaults = 2
    Window = 2
    Refine = FALSE
    EditsDuringRun = FALSE
INVARIANTS
    TypeOK
    DoneMatchesSidecar
    ReuseIsUnchanged
    FinishedIsSettled
    OutcomeAccountsForFiles
    RerunIsNoOp
PROPERTIES
    NoSelfLock
    DryRunPure
    LedgerSpec
