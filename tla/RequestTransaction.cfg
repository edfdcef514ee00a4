SPECIFICATION FairSpec
CONSTANTS
  r1 = r1
  r2 = r2
  j1 = j1
  j2 = j2
  j3 = j3
  w1 = w1
  Request = {r1, r2}
  Job = {j1, j2, j3}
  Work = {w1}
  JobOf <- Jobs
  WorkOf <- Works
  PoolMax = 1
INVARIANT JobsOnlyAfterCommit
INVARIANT ToldTheTruth
INVARIANT NoJobLost
INVARIANT NoSecondConnection
PROPERTY EveryRequestEnds
