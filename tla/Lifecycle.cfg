SPECIFICATION LifecycleSpec
CONSTANTS
    Users = {u1, u2}
    DeviceOrder <- MCOne
    Kinds = {"command", "reload", "load", "close", "save", "shutdown"}
    MaxMade = 3
    MaxRequests = 2
    MaxBoots = 2
    PeriodicSave = TRUE
    Signals = TRUE
    Crashes = TRUE
    LoadMayFail = TRUE
    EarlyRequests = FALSE
    Rules = TRUE
    None = None
    lamp = lamp
INVARIANTS
    LifecycleTypeOK
    MappedOwnsPin
    NoneLost
PROPERTIES
    RestartRestores
    RequestsReturn
    ShutdownEnds
CHECK_DEADLOCK FALSE
