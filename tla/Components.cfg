\* A record in three batches; a rule over two traces; two browsers of one owner;
\* one credential; three uploads of the same bytes; a plan of three raw objects;
\* a walk over four traces in pages of two.
CONSTANTS
    MaxBatches = 3
    Days = {1, 2}
    Contents <- MCContents
    MaxFailures = 1
    MaxPurges = 1
    Traces = {1, 2}
    MaxChanges = 2
    PageSizes = {1, 2}
    Workers = {w1, w2}
    Kinds = {"export", "otlp", "webhook", "handoff"}
    MaxPerRun = 2
    MaxExamined = 1
    Matching = {1, 2}
    MaxTroubles = 1
    Browsers = {w1, w2}
    Passwords = {1, 2}
    MaxCodes = 3
    MaxSessions = 2
    MaxRefusals = 1
    Requests = {r1, r2}
    Revokers = {v1, v2}
    MaxLosses = 1
    Uploads = {u1, u2, u3}
    Viewers = {v1}
    Types = {"png", "jpeg"}
    Accepted = {1, 2, 3}
    Owned <- MCOwned
    DayOf <- MCDayOf
    Registered = {1, 2, 3}
    CutoffDay <- MCCutoffDay
    Bookkeeping = {0}
    Limits = {2}
    ProjectLimits = {2}
    TraceIds = {1, 2, 3, 4}
    Clock = {1, 2}
    Styles = {"cursor", "asc", "desc"}
    ListLimit = 2
    MaxEdits = 2
SPECIFICATION ComponentsSpec
SYMMETRY Symmetry
INVARIANT ComponentsTypeOK
INVARIANT MergedAsReceived
INVARIANT OneRow
INVARIANT SentOnce
INVARIANT PassedIsSent
INVARIANT CodesRedeemedOnce
INVARIANT RevokedIsRefused
INVARIANT OneAsset
INVARIANT PlanHolds
INVARIANT GivenOnce
PROPERTY PositionForward
CHECK_DEADLOCK FALSE
