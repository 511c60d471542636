\* One trace batch, two replicas that sweep, every kind of fault.
CONSTANTS
    b1 = b1
    r1 = r1
    Batches = {b1}
    ScoreBatches = {}
    Requests = {r1}
    ReqBatch <- MCReqBatch
    Workers = {w1}
    Recons = {c1}
    Coordinated = {b1}
    Nobody = Nobody
    MaxAttempts = 1
    MaxStalls = 0
    FaultKinds = {"error", "crash", "redisLoss", "pause"}
    MaxFaults = 2
    Sweeps = {s1, s2}
    MaxMishaps = 1
SPECIFICATION RetentionSpec
SYMMETRY Symmetry
INVARIANT GoneWithEvidence
PROPERTY ImplementsIngest
\* The system is at rest once every batch is settled.
CHECK_DEADLOCK FALSE
