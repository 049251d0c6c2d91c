CONSTANTS
  p1 = p1
  p2 = p2
  NULL = NULL
  NoFile = NoFile
  TableRows <- TheRows
  Lines <- TheLines
  MaxFaults = 1
SPECIFICATION FairSpec
INVARIANTS
  TypeOK
  OwnTiming
PROPERTIES
  Ingests
  EveryRecordLands
