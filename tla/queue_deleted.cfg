SPECIFICATION FairSpec
CONSTANTS
    MaxAttempts = 2
    AttemptCeiling = 3
    w1 = w1
    w2 = w2
    s1 = s1
    s2 = s2
    d1 = d1
    d2 = d2
    Worker = {w1, w2}
    Slot = {s1, s2}
    Pod <- TwoPods
    Doc = {d1}
    Malformed = malformed
    MaxJobs = 1
    ReadBatch = 2
    Disturbances = {"delete"}
    MaxDisturbances = 1
PROPERTIES EveryJobIsSettled
