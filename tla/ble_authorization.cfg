SPECIFICATION Spec
CONSTANTS
    Peers = {a, b, c}
    Capacity = 2
    AutoPair = TRUE
    HoldPolls = 1
    ClearPolls = 3
    WindowPolls = 2
    MaxPairings = 3
    MaxResets = 1
    MaxFaults = 1
INVARIANTS TypeOK AccessFromWindow RestoresForce SavedUsable OfferedWhenEmpty
PROPERTIES OpensOncePerPress WindowCloses
