SPECIFICATION Spec
CONSTANTS
    short = short
    long = long
    ShortWords = 1
    LongWords = 3
    Capacity = 3
    RegionWords = 24
    SectorWords = 12
    Payloads = {short, long}
    PayloadWords <- MCPayloadWords
    Radix = 6
    Faults = {"idle"}
    MaxFaults = 2
    MaxAppends = 3

PROPERTY SequenceMonotonic
CHECK_DEADLOCK FALSE
