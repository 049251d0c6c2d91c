CONSTANTS
  parser = parser
  core = core
  Helpers = {parser}
  Core = core
  MaxPerWindow = 1
  MaxStarts = 1
  MaxRestarts = 1
  MaxStops = 1
  MaxFaults = 2
  MaxRecords = 4
  MaxOthers = 0
SPECIFICATION Spec
INVARIANT NoChildForgotten
CHECK_DEADLOCK FALSE
