CONSTANTS
  lamp = lamp
  fan = fan
  None = None
  Outlets <- Two
  CodeOf <- Codes
  Length = 3
  Sends = 2
  Frames = 2
  MaxRequests = 3
SPECIFICATION Spec
INVARIANTS
    BitsOfRequests
    SocketFollows
CHECK_DEADLOCK FALSE
