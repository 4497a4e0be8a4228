CONSTANTS
  d1 = d1
  d2 = d2
  d3 = d3
  None = None
  Daemons <- Three
  Kills = 1
  Crashes = 1
SPECIFICATION Spec
INVARIANTS
    OneServer
    OneOwner
PROPERTIES
    StartServes
CHECK_DEADLOCK FALSE
