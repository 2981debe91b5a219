SPECIFICATION LockSpec
CONSTANTS
  Processes = {"sa1", "sa2"}
  Stores = 1
  MaxOpens = 2
  MaxMishaps = 0
INVARIANT OneOwner
CHECK_DEADLOCK FALSE
