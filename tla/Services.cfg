CONSTANTS
    OldKeys = 2
    BatchSize = 1
    Recons = {c1, c2}
    Stored = Stored
    MaxEvents = 3
    MaxBatchSize = 2
    MaxQueuedEvents = 2
    MaxRetries = 1
    HookRecords = {TRUE, FALSE}
    MaxChunks = 3
    NumParts = 2
    Shapes = {"whole", "stream", "apart", "iterable", "opaque"}
    Replicas = {w1, w2}
    Slots = {1, 2}
    Names = {1, 2}
    Cap = 1
    ScanSize = 1
    MaxWrites = 2
    MaxRebuilds = 1
    MaxLapses = 1
    Nobody = Nobody
    Provider = {"langfuse", "langsmith"}
    Pullers = {w1, w2}
    MaxSource = 3
    Stamps = {1, 2}
    PageSize = 1
    MaxPages = 2
    Unmappable = {2}
    MaxSetbacks = 1
    Processors = {p1, p2}
    Casts <- MCCasts
    Targets <- MCTargets
    PoolSize = 6
SPECIFICATION ServicesSpec
INVARIANT ServicesTypeOK
INVARIANT NothingSkipped
INVARIANT ListedWithItsSpan
INVARIANT EachEventOnce
INVARIANT RecordedOnce
INVARIANT NothingPassed
INVARIANT NobodyWaitsForever
PROPERTY NoIntentStarves
PROPERTY HiddenKept
PROPERTY LaterVersionStays
PROPERTY ComesToRest
CHECK_DEADLOCK FALSE
