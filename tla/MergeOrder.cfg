\* A create and an update of one LangFuse record, one failed attempt.
CONSTANTS
    MaxBatches = 2
    Days = {1, 2}
    Contents <- MCCreateAndUpdate
    MaxFailures = 1
    MaxPurges = 0
SPECIFICATION MergeSpec
INVARIANT OrderDoesNotMatter
\* The system is at rest once every batch is settled.
CHECK_DEADLOCK FALSE
