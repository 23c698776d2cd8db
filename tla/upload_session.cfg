CONSTANTS
    Recovered <- MCRecovered
    MaxRecords = 2
    Offset = 5
    Places = {"here", "there"}
    Fallback = "here"
    Answering <- MCAnswering
    ReadTimeout = 1
    DiscoveryRetry = 2
    TimeRetry = 2
    Strategies = {"keep_first", "reject"}
    MaxTime = 3
    MaxFaults = 1
SPECIFICATION Spec
INVARIANTS StampsTrue
PROPERTIES Drains Retries ReadyEnds
CHECK_DEADLOCK FALSE
