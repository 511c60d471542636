\* One batch, two workers, a replica that sweeps and is interrupted twice; no
\* symmetry for liveness.
CONSTANTS
    b1 = b1
    r1 = r1
    Batches = {b1}
    ScoreBatches = {}
    Requests = {r1}
    ReqBatch <- MCReqBatch
    Workers = {w1, w2}
    Recons = {c1}
    Coordinated = {b1}
    Nobody = Nobody
    MaxAttempts = 1
    MaxStalls = 0
    FaultKinds = {"error", "crash"}
    MaxFaults = 2
    Sweeps = {s1}
    MaxMishaps = 2
SPECIFICATION RetentionFairSpec
PROPERTY IntentsDrain
PROPERTY FeedUnblocks
PROPERTY ExecutingConverges
\* The system is at rest once every batch is settled.
CHECK_DEADLOCK FALSE
