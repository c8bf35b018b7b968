SPECIFICATION FairSpec
CONSTANTS
  p1 = p1
  u1 = u1
  heap = heap
  data = data
  Pids = {p1}
  NoPid = NoPid
  Units = {u1}
  Addrs = {heap, data}
  Static = {data}
  MaxDepth = 2
  MaxStarts = 2
INVARIANTS
  TypeOK
  OnlyCompleteResults
  LayersFormChain
  OneUnstoppedThread
PROPERTIES
  ImplementsScanSlot
CHECK_DEADLOCK FALSE
