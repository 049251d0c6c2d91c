CONSTANTS
  Timed = {timed}
  Logged = {logged, unsound}
  Foreign = {foreign}
  Unsound = {unsound}
  MaxLog = 4
  MaxRewinds = 1
  Sightings <- TheSightings
  OldSightings <- TheOldSightings
  Claude = {"s"}
  Never = Never
  Cutoff <- TheCutoffs
  MaxFaults = 1
  LegacyContents <- TheLegacyContents
  OldEvents <- TheOldEvents
  NewEvents <- TheNewEvents
  Absent = Absent
  MaxStops = 2
  Days = {0, 1}
  MaxTokens = 2
  Limits = {"tokens", "none", "api"}
  NoPlan = "none"
  ApiLimit = "api"
  Windows = {1, 2}
  Files = {"old", "new"}
  MaxReadings = 3
  Events <- TheEvents
  Queries <- TheQueries
  DayLength = 2
  Limit = 1
  ReportCutoff = 2
  MaxClock = 3
  Unknown = "unknown"
  NoPage = NoPage
  AllVendors = "all"
  OfficialSession = 0
SPECIFICATION Spec
INVARIANTS
  TypeOK
  TablesAgree
  NewsLands
  CountedOnce
  NothingLost
PROPERTY
  Settles
CHECK_DEADLOCK FALSE
