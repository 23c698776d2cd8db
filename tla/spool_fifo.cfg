SPECIFICATION Spec
CONSTANTS
    short = short
    long = long
    ShortWords = 1
    LongWords = 8
    Capacity = 3
    RegionWords = 24
    SectorWords = 12
    Payloads = {short, long}
    PayloadWords <- MCPayloadWords
    Radix = 6
    Faults = {"idle"}
    MaxFaults = 3
    MaxAppends = 8
INVARIANTS LogReplays SequenceOrder
PROPERTY ImplementsFifo
CHECK_DEADLOCK FALSE
