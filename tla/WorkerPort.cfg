\* One host that may die and launch again, one worker, one failed write.
SPECIFICATION Spec
CONSTANTS
    Host = {h1}
    TrainingSteps = 2
    Cadence = 2
    MaxLaunches = 2
    MaxWorkers = 1
    MaxFaults = 1
INVARIANTS DeliveredInOrder TerminalMatchesResponse EvidenceEndures
CHECK_DEADLOCK FALSE
