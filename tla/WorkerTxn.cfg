SPECIFICATION FairSpec
CONSTANTS
  None = None
  MaxOps = 6
  MaxDepth = 2
  MaxFaults = 1
INVARIANTS
  TypeOK
  RunsAsItself
  AnswerTells
  SavepointsMatch
  NothingAfterEnd
PROPERTIES
  RequestEnds
CHECK_DEADLOCK FALSE
