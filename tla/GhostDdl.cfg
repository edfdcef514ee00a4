SPECIFICATION Spec
CONSTANTS
  Row = {1, 2, 3}
  Value = {"v", "w"}
  None = None
  Stored <- MCStored
  Instance = {a, b}
  BatchSize = 1
  MaxWrites = 2
  MaxRuns = 2
  MaxFaults = 2
  MaxCrashes = 1
INVARIANTS
  NothingMissed
  RefusalHasACause
  OldCopyIsReclaimed
PROPERTIES
  ImplementsLiveTable
CHECK_DEADLOCK FALSE
