SPECIFICATION FairSpec
CONSTANTS
    Sensors = {s1}
    ReadingTemps <- MCReadingTemps
    RequestTemps <- MCRequestTemps
    LoadRequests <- MCLoadRequests
    PoolThreads = 3
    MaxPending = 2
    NoParam = NoParam
INVARIANTS
    RelaysMatchMode
    LocksHaveTask
PROPERTIES
    OnlyStaleTaskStopsFan
    CoolingStarts
    SetpointStops
