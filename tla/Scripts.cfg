CONSTANTS
  c1 = c1
  c2 = c2
  Slots <- MCOneSlot
  Clients <- MCClients
  Programs <- MCPrograms
  Calls <- MCCalls
  MaxCalls <- MCMaxCalls
SPECIFICATION ScriptLiveSpec
INVARIANTS
    NoFault
PROPERTIES
    CallsReturn
CHECK_DEADLOCK FALSE
