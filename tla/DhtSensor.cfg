CONSTANTS
  a = a
  b = b
  Sensors <- MCTwo
  PinOf <- MCPins
  Absent = {}
  MaxFailures = 1
  MaxNoise = 1
  BitsPerByte = 2
  Frames <- MCFrames
  Slight <- MCSlight
  Gross <- MCGross
SPECIFICATION FairSpec
INVARIANTS
    BoostIsBounded
    ReportsSent
PROPERTIES
    ReadAgain
CHECK_DEADLOCK FALSE
