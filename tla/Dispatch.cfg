SPECIFICATION HFairSpec
CONSTANTS
    motion = motion
    lamp = lamp
    fan = fan
    siren = siren
    e1 = e1
    e2 = e2
    None = None
    Heard = {lamp, fan, siren}
    Users = {u1}
    Devices = {motion, lamp, fan, siren}
    Polled = {motion, lamp}
    Async = {motion}
    Values <- MCValues
    Initial <- AllOff
    Events = {e1, e2}
    when <- ChainWhen
    onChange = {}
    requireAll = {e2}
    unTrigger = {e1}
    profile <- ChainProfile
    inverted <- ChainInverted
    Commands <- LampCommands
    Triggered = {e2}
INVARIANTS
    TypeOK
    ActiveIffMet
    CacheFresh
    NoDeadlock
    OutputsFollow
PROPERTIES
    CacheCatchesUp
