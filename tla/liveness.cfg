CONSTANTS
  parser = parser
  core = core
  NumAdapters = 2
  Concurrency = 2
  FreshnessMs = 1
  RunRetentionMs = 1
  Toggleable = {1}
  Optional = {}
  MaxRuns = 3
  MaxClock = 2
  MaxSaveFailures = 0
  MaxActs = 2
  MaxMail = 1
  Scopes = {1, 2}
  MaxSyncs = 2
  MaxTurns = 3
  MaxFaults = 1
SPECIFICATION Spec
INVARIANTS
  TypeOK
  NoOverlap
PROPERTIES
  NothingTakenBack
  Settles
CHECK_DEADLOCK FALSE
