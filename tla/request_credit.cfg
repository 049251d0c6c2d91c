CONSTANTS
  p1 = p1
  p2 = p2
  NULL = NULL
  NoFile = NoFile
  TableRows <- TheRows
  Lines <- TwoCredits
  MaxFaults = 0
SPECIFICATION Spec
INVARIANT OwnCredit
CHECK_DEADLOCK FALSE
