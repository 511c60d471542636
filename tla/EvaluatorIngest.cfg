\* Two batches of one trace, another that nobody writes, a retention pass, each
\* kind of reader.
CONSTANTS
    b1 = b1
    b2 = b2
    o1 = o1
    o2 = o2
    w1 = w1
    w2 = w2
    None = None
    Batches = {b1, b2}
    BatchKeys <- MCBatchKeys
    Traces = {1, 2}
    Obs = {o1}
    Workers = {}
    ExpiresAt <- MCExpires
    MaxClock = 2
    MishapKinds = {"failure", "retention"}
    MaxMishaps = 2
    DistinctReceipts = TRUE
    Partitions = TRUE
    RowLevel = FALSE
    StrayObservations = FALSE
    Trees = {1}
    TreeObs <- MCOneTree
    ScoreSets = {1}
    Limit = 1
    Quiet = 0
    Consumers = {"scan", "live", "detail"}
    Legacy = {1, 2}
SPECIFICATION FeedSpec
INVARIANT TypeOK
INVARIANT VersionNamesOneTree
INVARIANT NothingSkipped
INVARIANT ReadsWhole
INVARIANT LegacyOffered
PROPERTY PrunesOnlyGone
\* The system is at rest once every batch is settled.
CHECK_DEADLOCK FALSE
