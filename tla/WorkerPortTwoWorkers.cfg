\* A host dies and launches again before its worker has written a word.
SPECIFICATION Spec
CONSTANTS
    Host = {h1}
    TrainingSteps = 1
    Cadence = 1
    MaxLaunches = 2
    MaxWorkers = 2
    MaxFaults = 0
INVARIANT NoFalseCompletion
PROPERTIES LaunchReturns
CHECK_DEADLOCK FALSE
