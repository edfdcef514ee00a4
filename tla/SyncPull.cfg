CONSTANTS
  Row <- MCRow
  None = None
  Unopened = Unopened
  Limit = 1
  Retention = 1
  MaxTime = 3
  MaxCommits = 2
  MaxFaults = 1
SPECIFICATION FairSpec
INVARIANTS CursorIsFinal RowsBehind DeletesBehind
PROPERTY Converges
CHECK_DEADLOCK FALSE
