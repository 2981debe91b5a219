SPECIFICATION LogSpec
CONSTANTS
  MaxSegments = 3
  MaxAppends = 5
  MaxDeaths = 2
INVARIANT LogStaysReadable
CHECK_DEADLOCK FALSE
