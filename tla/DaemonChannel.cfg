SPECIFICATION FairSpec
CONSTANTS
  slow = slow
  start = start
  query = query
  Calls = {slow, start, query}
  Starts = {slow, start}
  Slow = {slow}
  NoCall = NoCall
  PoolSize = 4
  Polls = 2
  MaxDeaths = 2
  MaxFailures = 1
INVARIANTS
  TypeOK
  PromptCallsSucceed
  SentAgainOnce
PROPERTIES
  CallsReturn
CHECK_DEADLOCK FALSE
