\* A built-in and an own source, two statuses, three reviews, captures, decisions,
\* sessions and exports in all, one failure or restart.
SPECIFICATION Spec
CONSTANTS
    Source = {"fixture", "own"}
    Fixture = "fixture"
    None = "none"
    Status = {"selected", "rejected"}
    MaxRecords = 3
    MaxFaults = 1
INVARIANTS
    StagesResume
    EstimatesCurrent
PROPERTY UseFollowsSelection
CHECK_DEADLOCK FALSE
