CONSTANTS
  core = core
  other = other
  NoLock = NoLock
  Tasks <- TheTasks
  Procs <- TheProcs
  ProcOf <- TheProcOf
  Abortable = {"manual"}
  MaxCrashes = 1
  MaxFaults = 1
SPECIFICATION FairSpec
INVARIANTS TypeOK OneUndisturbedOwner
PROPERTY StaleLockIsBroken
