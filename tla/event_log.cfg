CONSTANTS
  old = old
  huge = huge
  one = one
  NoFile = NoFile
  NoRow = NoRow
  NoIdent = NoIdent
  NoSize = NoSize
  Ids = {old, huge, one}
  Old = {old}
  Oversized = {huge}
  HeadLines = 1
  TailLines = 2
  ReadLines = 1
  RotateLines = 1
  MaxChunks = 2
  Start = "synced"
  Tunnelling = TRUE
  MaxAppends = 2
  MaxTears = 1
  MaxFaults = 1
SPECIFICATION FairSpec
INVARIANTS TypeOK CursorNeverSkips SkipIsSafe
PROPERTY EveryRecordProjected
CHECK_DEADLOCK FALSE
