SPECIFICATION FairSpec
CONSTANTS
  parent = parent
  child = child
  t1 = t1
  NoAgent = NoAgent
  Client = Client
  Agents = {parent, child}
  Tasks = {t1}
  Parent <- MCParent
  Owner <- MCOwner
  MaxWaits = 2
  MaxInterrupts = 0
  MaxCrashes = 1
PROPERTIES
  OnlySatisfactionEndsWait
  TimedWaitEnds
CHECK_DEADLOCK FALSE
