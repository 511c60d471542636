\* An expired trace whose scores changed, read while it is removed.
CONSTANTS
    b1 = b1
    b2 = b2
    o1 = o1
    o2 = o2
    w1 = w1
    w2 = w2
    None = None
    Batches = {}
    BatchKeys <- MCNoBatches
    Traces = {1}
    Obs = {o1, o2}
    Workers = {w1}
    ExpiresAt <- MCExpires
    MaxClock = 2
    MishapKinds = {"failure", "edit", "pause", "retention"}
    MaxMishaps = 3
    DistinctReceipts = TRUE
    Partitions = TRUE
    RowLevel = FALSE
    StrayObservations = FALSE
    Trees = {1, 2}
    TreeObs <- MCTreeObs
    ScoreSets = {1, 2}
    Limit = 1
    Quiet = 0
    Consumers = {"detail"}
    Legacy = {}
SPECIFICATION Spec
INVARIANT ReadsComplete
\* The system is at rest once every batch is settled.
CHECK_DEADLOCK FALSE
