SPECIFICATION FairSpec
CONSTANTS
  p1 = p1
  p2 = p2
  a1 = a1
  v1 = v1
  v2 = v2
  c1 = c1
  Pids = {p1, p2}
  NoPid = NoPid
  Addrs = {a1}
  Values = {v1, v2}
  Callers = {c1}
INVARIANTS
  TypeOK
  OneEntryPerPlace
PROPERTIES
  OnlyDeadArePruned
  FrozenIsRewritten
  UnfreezeTakesEffect
