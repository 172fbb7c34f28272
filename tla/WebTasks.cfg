SPECIFICATION Spec
CONSTANTS
    MaxTasks = 2
    MaxFaults = 1
INVARIANTS
    TypeOK
    OverMeansGone
    OneWorker
    NoWorkerForgotten
