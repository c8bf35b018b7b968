SPECIFICATION FairSpec
CONSTANTS
  p1 = p1
  Pids = {p1}
  MaxIds = 2
  MaxQueue = 2
  MaxHits = 2
INVARIANTS
  TypeOK
  RemovedLeavesNothing
  EnabledIsWatched
PROPERTIES
  CallsReturn
  AccessPauses
