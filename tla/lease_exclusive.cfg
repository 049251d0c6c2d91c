CONSTANTS
  core = core
  other = other
  NoLock = NoLock
  Tasks <- TheTasks
  Procs <- TheProcs
  ProcOf <- TheProcOf
  Abortable = {"manual"}
  MaxCrashes = 0
  MaxFaults = 0
SPECIFICATION FairSpec
INVARIANT OneHolder
