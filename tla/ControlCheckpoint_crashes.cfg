SPECIFICATION FairSpec
CONSTANTS
  c1 = c1
  c2 = c2
  Clients = {c1}
  MaxCalls = 3
  MaxWorks = 2
  MaxCrashes = 2
PROPERTIES
  AnsweredAgentResumes
  
INVARIANTS
  OneResultPerCall
  QuestionIsAnswerable
  ActiveWorkIsOpen
CHECK_DEADLOCK FALSE
