SPECIFICATION FairSpec
CONSTANTS
  Hooks = {h1, h2}
  Unlogged = {h2}
  Deployments = {TRUE, FALSE}
  Passes = {p1, p2}
  Replayers = {r1}
  RetryAttempts = 1
  Batch = 1
  DlqMax = 1
  MaxReplays = 1
  MaxFaults = 1
  Faults = {"crash", "cacheError"}
INVARIANTS KeptOnce DlqBounded AttemptsBounded
PROPERTY EveryPayloadSettles
