SPECIFICATION Spec
CONSTANTS
    Devices <- MCDevices
    Fragile <- MCFragile
    Saved <- MCSaved
    MaxNode = 2
    MaxPrimary = 2
    Rules = FALSE
    None = None
    lamp = lamp
    detector = detector
INVARIANTS
    ProxyReachesDevice
    NoneForgotten
PROPERTIES
    SetUpOnce
    NodeJoins
CHECK_DEADLOCK FALSE
