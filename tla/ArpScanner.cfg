SPECIFICATION TalkativeSpec
CONSTANTS
    Addresses = {a, b}
    Lives <- MCLives
    MaySetupFail = TRUE
    MayBeDirty = TRUE
    None = None
PROPERTIES
    BlindForever
    RegisteredIsDetected
CHECK_DEADLOCK FALSE
