SPECIFICATION FairSpec
CONSTANTS
  MaxSessions = 1
  MaxCalls = 2
  MaxReplies = 2
  MaxRounds = 1
  MaxFailures = 2
  Overlapping = FALSE
PROPERTIES
  NeverStuck
CHECK_DEADLOCK FALSE
