SPECIFICATION FairSpec
CONSTANTS
  a1 = a1
  a2 = a2
  c1 = c1
  c2 = c2
  t1 = t1
  t2 = t2
  NoAgent = NoAgent
  Agents = {a1}
  Callers = {c1}
  Tasks = {t1, t2}
  Permits = 1
  MaxMail = 2
  MaxReloads = 1
PROPERTIES
  
  ExecutorLive
CHECK_DEADLOCK FALSE
