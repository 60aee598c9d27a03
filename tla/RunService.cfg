\* Two runs, one artifact id, two steps, one failing call.
SPECIFICATION Spec
CONSTANTS
    Run = {r1, r2}
    NoRun = NoRun
    ArtifactId = {a1}
    Payload = {x, y}
    TrainingSteps = 2
    Cadence = 2
    MaxFaults = 1
INVARIANTS CompletedReopens CheckpointsBacked RecoversInterrupted
PROPERTIES ImplementsLifecycle LaunchedEnds
CHECK_DEADLOCK FALSE
