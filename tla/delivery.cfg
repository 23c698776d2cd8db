SPECIFICATION Spec
CONSTANTS
    Clients = {"wifi", "ble"}
    ChannelCapacity = 2
    MayForget = TRUE
    MaxMeasurements = 2
    MaxTroubles = 1
    MaxMishaps = 1
    Fragments = 2
    Capacity = 1
    RegionWords = 64
    Payloads <- MCPayloads
    PayloadWords <- MCPayloadWords
    Radix = 3
PROPERTIES RemovedOnlyDelivered ImplementsService EventuallyDrained
CHECK_DEADLOCK FALSE
