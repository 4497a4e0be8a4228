\* Good and bad requests, adders that may overlap, and a close, after which everything
\* may stop.
SPECIFICATION EchoLiveSpec
CONSTANTS
    Switches = {s1, s2}
    Adders = {a1, a2}
    Requests = {"on", "bad"}
    MaxRequests = 2
    MayClose = TRUE
INVARIANTS
    AnnouncedIsRegistered
PROPERTIES
    RequestsServed
    AddReturns
CHECK_DEADLOCK FALSE
