SPECIFICATION BeatFairSpec
CONSTANTS
  p1 = p1
  p2 = p2
  p3 = p3
  Instance = {p1, p2, p3}
  LiveFor = 3
  GoneAfter = 4
  Grace = 1
  MaxOutage = 4
  MaxInsert = 4
  MayCrash = TRUE
INVARIANT NoBlackout
PROPERTY NewestWins
PROPERTY EventuallyOneAnswers
