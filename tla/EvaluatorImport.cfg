\* One imported trace, two processes, a retention pass, an exact-version reader.
CONSTANTS
    b1 = b1
    b2 = b2
    o1 = o1
    o2 = o2
    w1 = w1
    w2 = w2
    None = None
    Batches = {}
    BatchKeys <- MCNoBatches
    Traces = {1}
    Obs = {o1, o2}
    Workers = {w1, w2}
    ExpiresAt <- MCExpires
    MaxClock = 2
    MishapKinds = {"failure", "edit", "pause", "retention"}
    MaxMishaps = 3
    DistinctReceipts = TRUE
    Partitions = FALSE
    RowLevel = TRUE
    StrayObservations = FALSE
    Trees = {1, 2}
    TreeObs <- MCTreeObs
    ScoreSets = {1, 2}
    Limit = 1
    Quiet = 0
    Consumers = {"detail"}
    Legacy = {}
SPECIFICATION Spec
SYMMETRY Symmetry
INVARIANT ImportedTreeExact
INVARIANT NoSilentChange
\* The system is at rest once every batch is settled.
CHECK_DEADLOCK FALSE
