SPECIFICATION Spec
CONSTANTS
    NumAdapters = 3
    Concurrency = 1
    Toggleable = {}
    Optional = {3}
    FreshnessMs = 1
    RunRetentionMs = 1
    MaxRuns = 3
    MaxClock = 2
    MaxSaveFailures = 1
INVARIANTS
    TypeOK
    RunStateAgreement
    NoIdleSlot
    NoOrphanRow
PROPERTIES
    TerminalStable
    RetainedRows
