SPECIFICATION TurnSpec
CONSTANTS
  Trigger = 5
  KeepRecent = 2
  MinMessages = 3
  MaxRetries = 2
  MaxConsecutive = 1
  WarnEvery = 2
  RemindEvery = 3
  MaxMail = 2
  MaxRuns = 2
  MaxSteps = 3
INVARIANTS
  RequestIsWellFormed
  MailIsKept
PROPERTIES
  QuantumEnds
CHECK_DEADLOCK FALSE
