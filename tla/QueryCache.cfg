SPECIFICATION FairSpec
CONSTANTS
  p = p
  q = q
  k = k
  i1 = i1
  i2 = i2
  u = u
  Page = {p, q, k}
  CountPage = {k}
  Tenants = {i1, i2}
  Users = {u}
  Order <- MCOrder
  Reader = {r1, r2}
  Changer = {w1}
  None = None
  ListTtl = 1
  CountTtl = 3
  Slack = 1
  MaxReads = 2
  MaxChanges = 1
  MaxFaults = 1
INVARIANTS
  PageReachable
  StaleExplained
PROPERTIES
  StaleGoes
CHECK_DEADLOCK FALSE
