SPECIFICATION Spec
CONSTANTS
  MaxSessions = 1
  MaxCalls = 2
  MaxReplies = 2
  MaxRounds = 1
  MaxFailures = 1
  Overlapping = TRUE
INVARIANTS
  OneRunAtATime
CHECK_DEADLOCK FALSE
