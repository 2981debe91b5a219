SPECIFICATION ExternalSpec
CONSTANTS
  a1 = a1
  a2 = a2
  Callers = {a1, a2}
  Transports = {"stdio", "http", "sse"}
  MaxCalls = 2
  MaxExtras = 1
  MaxUnread = 1
  MaxPrograms = 2
  MaxChunks = 2
  MaxRestarts = 1
INVARIANTS
  
  LogHoldsOutput
PROPERTIES
  CallsEnd
  CommandIsRecorded
CHECK_DEADLOCK FALSE
