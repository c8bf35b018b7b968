SPECIFICATION FairSpec
CONSTANTS
  MaxSessions = 2
  MaxCalls = 2
  MaxReplies = 2
  MaxRounds = 1
  MaxFailures = 1
  Overlapping = FALSE
INVARIANTS
  TypeOK
  OnlyConsentedToolsRun
  BudgetIsKept
  RestIsTrue
PROPERTIES
  NoLateCheckpoint
  CallsReturn
CHECK_DEADLOCK FALSE
