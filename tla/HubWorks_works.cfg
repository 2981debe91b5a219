SPECIFICATION FairSpec
CONSTANTS
  root = root
  child = child
  c1 = c1
  c2 = c2
  NoAgent = NoAgent
  Agents = {root, child}
  Root = root
  Transferable = {child}
  Clients = {c1}
  MaxSubmits = 1
  MaxWorks = 3
  MaxEvents = 2
  MaxTools = 2
  MaxDepth = 1
  MaxAgents = 2
INVARIANT ReportIsForItsOrder
 
CHECK_DEADLOCK FALSE
