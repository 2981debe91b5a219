SPECIFICATION FairSpec
CONSTANTS
  n1 = n1
  n2 = n2
  n3 = n3
  ghost = ghost
  Nodes = {n1, n2, n3}
  Ids = {n1, n2, n3, ghost}
  MaxAttempts = 2
  Definitions <- MCDefinitions
INVARIANTS
  TriggerRespected
  RequestIsRegistered

  
CHECK_DEADLOCK FALSE
