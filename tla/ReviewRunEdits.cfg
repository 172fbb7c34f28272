SPECIFICATION Spec
CONSTANTS
    N = 2
    Burst <- Pair
    Scores = {1, 2}
    Modes <- Real
    MaxVersion = 2
    MaxFaults = 0
    Window = 2
    Refine = FALSE
    EditsDuringRun = TRUE
INVARIANT ReuseIsUnchanged
