SPECIFICATION Spec
CONSTANTS
    Keys = {k1, k2}
    Versions = {v1, v2}
    Strategy <- MCStrategy
    Conflict <- MCConflict
    BackfillFrom <- MCBackfillFrom
    Exclude <- MCExclude
    Room <- MCRoom
    JsonlRoom = 1
    Required = {"sqlite", "jsonl"}
    Sufficient = {}
    MaxTime = 2
    MaxUploads = 3
    MaxFailures = 1
INVARIANTS TypeOK AckedArchived
PROPERTIES ArchiveCompleted LimitEnforced
CHECK_DEADLOCK FALSE
