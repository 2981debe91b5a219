SPECIFICATION FairSpec
CONSTANTS
  parent = parent
  child = child
  t1 = t1
  NoAgent = NoAgent
  Client = Client
  Agents = {parent, child}
  Tasks = {t1}
  Parent <- MCParent
  Owner <- MCOwner
  MaxWaits = 1
  MaxInterrupts = 1
  MaxCrashes = 1
PROPERTIES
  OwnTaskWaitEnds
  ChildFinishReachesParent
CHECK_DEADLOCK FALSE
