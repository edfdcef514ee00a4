SPECIFICATION Spec
CONSTANTS
  c1 = c1
  c2 = c2
  c3 = c3
  c4 = c4
  p1 = p1
  p2 = p2
  k1 = k1
  k2 = k2
  k3 = k3
  None = None
  Proc = {p1, p2}
  Call = {c1, c2, c3, c4}
  Key = {k1}
  PoolMax = 2
  ProcOf <- TwoReplicas
  KeyOf <- OneKey
  ModeOf <- Kinds
  ParentOf <- NoParents
  MayTimeout = TRUE
  MayRefuse = TRUE
  MaxDeaths = 2
INVARIANT OverlapIsReported
