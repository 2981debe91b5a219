SPECIFICATION Spec
CONSTANTS
  a1 = a1
  c1 = c1
  c2 = c2
  t1 = t1
  t2 = t2
  a2 = a2
  NoAgent = NoAgent
  Agents = {a1}
  Callers = {c1, c2}
  Tasks = {t1, t2}
  Permits = 2
  MaxMail = 2
  MaxReloads = 0
SYMMETRY MCSymmetry
INVARIANTS
  SingleFlight
  
  
  NoMailSkipped
CHECK_DEADLOCK FALSE
