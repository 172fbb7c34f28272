SPECIFICATION RetriedSpec
CONSTANTS
    N = 3
    Burst <- PairPlus
    Scores = {1, 2}
    Modes <- Real
    MaxVersion = 1
    MaxFaults = 1
    Window = 2
    Refine = FALSE
    EditsDuringRun = FALSE
PROPERTIES
    RunEnds
    Converges
