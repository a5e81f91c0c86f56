SPECIFICATION Spec
CONSTANTS
    MaxAttempts = 2
    AttemptCeiling = 3
    w1 = w1 
    w2 = w2
    s1 = s1
    s2 = s2
    d1 = d1
    d2 = d2
    Worker = {w1, w2}
    Slot = {s1, s2}
    Pod <- TwoPods
    Doc = {d1, d2}
    Malformed = malformed
    MaxJobs = 2
    ReadBatch = 2
    Disturbances = {"crash", "stop", "reply_lost", "ack_lost", "count_lost", "ledger_error", "delete", "malformed"}
    MaxDisturbances = 2
INVARIANTS AckedIsSettled DocMirrorsJob
PROPERTIES CompletedIsFinal ImplementsContract
SYMMETRY PodSymmetry
