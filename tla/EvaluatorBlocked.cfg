\* An observation, a retention pass that finds nothing expired, and then the root.
CONSTANTS
    b1 = b1
    b2 = b2
    o1 = o1
    o2 = o2
    w1 = w1
    w2 = w2
    None = None
    Batches = {b1, b2}
    BatchKeys <- MCBatchKeys
    Traces = {1, 2}
    Obs = {o1}
    Workers = {}
    ExpiresAt <- MCNothingExpires
    MaxClock = 2
    MishapKinds = {"retention"}
    MaxMishaps = 1
    DistinctReceipts = TRUE
    Partitions = TRUE
    RowLevel = FALSE
    StrayObservations = FALSE
    Trees = {1}
    TreeObs <- MCOneTree
    ScoreSets = {1}
    Limit = 1
    Quiet = 0
    Consumers = {"live"}
    Legacy = {1, 2}
SPECIFICATION Spec
INVARIANT NewerIsBeingPublished
\* The system is at rest once every batch is settled.
CHECK_DEADLOCK FALSE
