\* A worker that lost its job to Redis, or was paused, after a quarantine.
CONSTANTS
    Batches = {b1}
    ScoreBatches = {}
    Requests = {r1}
    ReqBatch <- MCReqBatch
    Workers = {w1, w2}
    Recons = {c1}
    Coordinated = {b1}
    Nobody = Nobody
    MaxAttempts = 1
    MaxStalls = 1
    FaultKinds = {"error", "crash", "redisLoss", "pause"}
    MaxFaults = 3
SPECIFICATION Spec
SYMMETRY Symmetry
INVARIANT NoStrandedTrace
\* The system is at rest once every batch is settled.
CHECK_DEADLOCK FALSE
