SPECIFICATION FairSpec
CONSTANTS
    d1 = d1
    r1 = r1
    r2 = r2
    Doc = {d1}
    Request = {r1, r2}
    MaxJobs = 2
    MaxAttempts = 2
    AttemptCeiling = 3
    Faults <- AllFaults
    MaxFaults = 2
INVARIANTS
    RowHasItsFile
    WaitingHasAJob
    CompletedIsSearchable
    DeletedLeavesNothing
PROPERTIES
    CompletedRevertsForAReason
    EveryDocumentSettles
CHECK_DEADLOCK FALSE
