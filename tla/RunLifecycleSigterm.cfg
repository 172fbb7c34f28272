SPECIFICATION Spec
CONSTANTS
    Procs = {p1, p2}
    MaxRuns = 2
    MaxFaults = 1
INVARIANT SigtermIsDurablyCancelled
