SPECIFICATION Spec
CONSTANTS
    Service = {s1, s2}
    Stream = {"experiment-lifecycle", "local-use", "project-lifecycle"}
    MaxCalls = 2
    MaxTampers = 1
    Text <- MCText
    Characters <- MCCharacters
    Hash <- MCHash
    Source <- MCSource
    Preparation <- MCPreparation
    Import <- MCImport
    ProjectRequest <- MCProjectRequest
    FreezeRequest <- MCFreezeRequest
    CloneRequest <- MCCloneRequest
    UseRequest <- MCUseRequest
    Seed <- MCSeed
SYMMETRY MCSymmetry
INVARIANTS
    RecordsClosed
    OutcomesBacked
    OneUseAcknowledged
    VerifiedBytesOnly
    PreparedIsValid
    ReimportStable
CHECK_DEADLOCK FALSE
