\* One evaluator score whose batch is quarantined while a retry stages it.
CONSTANTS
    Batches = {b1}
    ScoreBatches = {b1}
    Requests = {r1, r2}
    ReqBatch <- MCReqBatch
    Workers = {w1}
    Recons = {c1}
    Coordinated = {b1}
    Nobody = Nobody
    MaxAttempts = 1
    MaxStalls = 1
    FaultKinds = {"error", "crash"}
    MaxFaults = 2
SPECIFICATION Spec
SYMMETRY Symmetry
INVARIANT StagedScoreRetryable
\* The system is at rest once every batch is settled.
CHECK_DEADLOCK FALSE
