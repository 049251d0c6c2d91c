CONSTANTS
  old = old
  huge = huge
  one = one
  NoFile = NoFile
  NoRow = NoRow
  NoIdent = NoIdent
  NoSize = NoSize
  Ids = {old, huge, one}
  Old = {old}
  Oversized = {huge}
  HeadLines = 1
  TailLines = 2
  ReadLines = 1
  RotateLines = 1
  MaxChunks = 2
  Start = "synced"
  Tunnelling = TRUE
  MaxAppends = 2
  MaxTears = 0
  MaxFaults = 0
SPECIFICATION FairSpec
INVARIANT RotationKeepsRecent
CHECK_DEADLOCK FALSE
