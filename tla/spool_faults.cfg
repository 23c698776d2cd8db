SPECIFICATION Spec
CONSTANTS
    short = short
    long = long
    ShortWords = 1
    LongWords = 8
    Capacity = 2
    RegionWords = 24
    SectorWords = 12
    Payloads = {short, long}
    PayloadWords <- MCPayloadWords
    Radix = 5
    Faults = {"idle", "write", "compact", "driver"}
    MaxFaults = 2
    MaxAppends = 3
INVARIANTS TypeOK RecoveredExactly TailErased
PROPERTIES OnlyOldestLeave EventuallyReady
CHECK_DEADLOCK FALSE
