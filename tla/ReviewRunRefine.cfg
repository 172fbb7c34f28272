SPECIFICATION Spec
CONSTANTS
    N = 2
    Burst <- Pair
    Scores = {1, 2, 3}
    Modes <- Real
    MaxVersion = 2
    MaxFaults = 0
    Window = 2
    Refine = TRUE
    EditsDuringRun = FALSE
INVARIANT FinishedIsSettled
