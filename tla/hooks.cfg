CONSTANTS
  t1 = t1
  p1 = p1
  p2 = p2
  NULL = NULL
  Tools = {t1}
  Mutating = {t1}
  Parsers = {p1, p2}
  FlushInterval = 1
  MaxFaults = 2
  MaxLines = 2
SPECIFICATION FairSpec
INVARIANTS TypeOK DoneLinesLanded RepeatNeedsFailure EditsReported
PROPERTY EveryLineLands
