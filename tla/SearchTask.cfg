SPECIFICATION FairSpec
CONSTANTS
  p1 = p1
  u1 = u1
  Pids = {p1}
  NoPid = NoPid
  Units = {u1}
  Modes = {"standard", "fuzzy", "auto"}
  MaxGen = 3
INVARIANTS
  TypeOK
  NoPartialPublish
  CountMatchesEntries
  SnapshotNotOvertaken
  RunningHasWorker
PROPERTIES
  ImplementsScanSlot
CHECK_DEADLOCK FALSE
