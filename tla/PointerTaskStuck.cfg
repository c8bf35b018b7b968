SPECIFICATION Spec
CONSTANTS
  p1 = p1
  u1 = u1
  heap = heap
  data = data
  Pids = {p1}
  NoPid = NoPid
  Units = {u1}
  Addrs = {heap, data}
  Static = {data}
  MaxDepth = 2
  MaxStarts = 1
INVARIANTS
  RunningHasThread
CHECK_DEADLOCK FALSE
