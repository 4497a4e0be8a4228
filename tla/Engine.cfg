SPECIFICATION EngineSpec
CONSTANTS
    h1 = h1
    h2 = h2
    h3 = h3
    i1 = i1
    i2 = i2
    clock = clock
    sensor = sensor
    p1 = p1
    n1 = n1
    n2 = n2
    r1 = r1
    None = None
    Ids = {i1, i2}
    Devices = {sensor, clock}
    Profiles = {p1}
    Handlers = {h1, h2, h3}
    id <- MCId
    deps <- MCDeps
    prof <- MCProf
    Lists <- MCLists
    MayReplace = FALSE
    MayRestart = TRUE
    Params = {"value", "time"}
    MaxValue = 2
    ranges <- MCRanges
    requireAll = {h1, h3}
    States <- MCStates
    FirstState <- MCFirst
    Reporters = {n1, n2}
    Requests = {r1}
INVARIANTS
    IndexExact
    SurvivesRestart
    ActiveAsRegistered
    DanglingOnlyIfInterrupted


SYMMETRY MCSymmetry
