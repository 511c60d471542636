CONSTANTS
    b1 = b1
    b2 = b2
    s1 = s1
    r1 = r1
    r2 = r2
    q1 = q1
    q2 = q2
    Batches = {b1, b2, s1}
    ScoreBatches = {s1}
    Requests = {r1, r2, q1, q2}
    ReqBatch <- MCReqBatch
    Coordinated = {b1, s1}
    Workers = {w1, w2}
    Recons = {c1, c2}
    Nobody = Nobody
    MaxAttempts = 2
    MaxStalls = 1
    FaultKinds = {"error", "crash", "redisLoss", "pause"}
    MaxFaults = 3
SPECIFICATION PathsSpec
SYMMETRY Symmetry
INVARIANT TypeOK
INVARIANT WorkHasRaw
INVARIANT UnpublishedRowsBlockFeed
INVARIANT RetiredStaysGone
PROPERTY NeverForgotten
CHECK_DEADLOCK FALSE
