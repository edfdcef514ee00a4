SPECIFICATION FairSpec
CONSTANTS
  c1 = c1
  c2 = c2
  c3 = c3
  c4 = c4
  p1 = p1
  p2 = p2
  k1 = k1
  k2 = k2
  k3 = k3
  None = None
  Proc = {p1}
  Call = {c1, c2}
  Key = {k1, k2, k3}
  PoolMax = 2
  ProcOf <- OneProcess
  KeyOf <- OwnKeys
  ModeOf <- AllHolders
  ParentOf <- Nested
  MayTimeout = FALSE
  MayRefuse = FALSE
  MaxDeaths = 0
PROPERTY EveryCallEnds
CHECK_DEADLOCK FALSE
