SPECIFICATION Spec
CONSTANTS
  d = d
  b1 = b1
  a = a
  b = b
  None = None
  Flow = {c, d, x}
  AiTask = {x}
  Unusable = {d}
  Firm <- MCFirm
  Process = {a, b}
  Tick = {a1, b1}
  Home <- MCHome
  MaxEras = 2
  MaxFaults = 1
INVARIANTS
  NoOverlap
  OneRunPerDue
  AiOncePerDue
PROPERTIES
  EveryDueIsTaken
CHECK_DEADLOCK FALSE
