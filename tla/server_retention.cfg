SPECIFICATION Spec
CONSTANTS
    Keys = {k1, k2, k3}
    Versions = {v1}
    Strategy <- MCStrategy
    Conflict <- MCConflict
    BackfillFrom <- MCBackfillFrom
    Exclude <- MCExclude
    Room <- MCRoom
    JsonlRoom = 1
    Required = {"sqlite", "jsonl"}
    Sufficient = {}
    MaxTime = 2
    MaxUploads = 3
    MaxFailures = 0
PROPERTIES NewestRetained
CHECK_DEADLOCK FALSE
