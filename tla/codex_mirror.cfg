CONSTANTS
  fresh = fresh
  aged = aged
  r1 = r1
  NoFile = NoFile
  Sessions = {fresh, aged}
  Recent = {fresh}
  Responses = {r1}
  FullEvery = 2
  MaxLines <- TheLines
  MaxFaults = 0
SPECIFICATION Spec
INVARIANT NeverDoubleCounted
