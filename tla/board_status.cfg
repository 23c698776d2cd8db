CONSTANTS
    Boots <- MCBoots
    Results <- MCResults
    Runtimes <- MCRuntimes
    RequestCapacity = 1
    BootTicks = 3
    TriggerTicks = 2
    MaxEvents = 2
SPECIFICATION Spec
INVARIANTS OverlayExact AppendFailureSeen
PROPERTIES MeasuringGoesOn StatusSettles
CHECK_DEADLOCK FALSE
