SPECIFICATION SpecService
CONSTANTS
    Clients = {"wifi", "ble"}
    ChannelCapacity = 2
    MayForget = TRUE
    MaxMeasurements = 3
    MaxTroubles = 2
    Capacity = 2
    RegionWords = 64
    Payloads <- MCPayloads
    PayloadWords <- MCPayloadWords
    Radix = 3
INVARIANTS TypeService OneOutstanding MeasurementOrder CurrentBootExact PendingCountExact
PROPERTIES AckRemovesHeld Answered
CHECK_DEADLOCK FALSE
