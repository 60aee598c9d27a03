\* Two threads, two runs and three steps; the runs share one accelerator.
SPECIFICATION Spec
CONSTANTS
    r1 = r1
    r2 = r2
    Thread = {p, q}
    Run = {r1, r2}
    Remote = {r2}
    Needs <- MCNeeds
    Capacity <- MCCapacity
    Steps = 3
    Cadence = 2
    MaxExecutions = 2
INVARIANTS TrainsWithinCapacity StopsWhereAsked OutcomeInLedger LeasesAccounted
CHECK_DEADLOCK FALSE
