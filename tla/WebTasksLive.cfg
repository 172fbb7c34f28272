SPECIFICATION FairSpec
CONSTANTS
    MaxTasks = 1
    MaxFaults = 2
INVARIANTS
    VerdictIsTrue
PROPERTIES
    VerdictIsFinal
    CancelIsHeard
    TaskEnds
