SPECIFICATION ClocksSpec
CONSTANTS
    Callers = {c1, c2}
    Threshold = 2
    ResetAfter = 3
    MaxRetries = 2
    Timeout = 2
    Deadline = 4
    BaseDelay = 1
    MaxDelay = 2
    RunTimeout = 6
    SpineLimit = 6
    CallLimit = 2
    SavesFail = TRUE
    w1 = w1
    w2 = w2
    s1 = s1
    s2 = s2
    Worker = {w1, w2}
    Slot = {s1, s2}
    Pod <- OneSlotEach
    MaxJobs = 3
    ReadBatch = 2
    FleetTimeout = 2
    MinIdle = 7
INVARIANTS
    CallIsBounded
    OpenSendsOnlyRetries
    OutcomeIsQuiet
    EnrichmentIsAbsorbed
    NoLiveWorkIsStolen
PROPERTIES
    OpensOnFailuresInARow
    RecoveryIsNoticed
    EveryRunEnds
CHECK_DEADLOCK FALSE
