---------------------------- MODULE WriterLease ----------------------------
(***************************************************************************)
(* The writer lease of the canonical event log: the lock file that         *)
(* acquireCanonicalLease creates with an exclusive open, fills with the    *)
(* owner's pid in a second step, and that tryReclaimStaleWriterLock reads   *)
(* and unlinks when the pid it finds is not alive                          *)
(* (apps/core/src/raw-ingest.ts), with the retry loop of                    *)
(* withCanonicalWriterLease (event-log-projector.ts).  A task is one call   *)
(* of withCanonicalWriterLease: an adapter's sync, or a light refresh       *)
(* tick.  Several tasks run in one Core process, and a second Core may run  *)
(* on the same data directory.  Every await on the file system is a step;   *)
(* what the code does after it, up to the next await, belongs to it.        *)
(*                                                                         *)
(* The append queue of a lease object is left out: no caller outside the    *)
(* tests appends through it.                                               *)
(***************************************************************************)
EXTENDS Naturals, FiniteSets

CONSTANTS
  Tasks,        \* calls of withCanonicalWriterLease that may run at a time
  Procs,        \* processes
  ProcOf,       \* the process each task runs in
  Abortable,    \* tasks whose signal somebody may abort
  MaxCrashes,   \* bound: crashes of each process
  MaxFaults,    \* bound: file system calls that fail
  NoLock        \* the lock file does not exist

ASSUME LeaseAssumption ==
  /\ ProcOf \in [Tasks -> Procs]
  /\ Abortable \subseteq Tasks
  /\ MaxCrashes \in Nat
  /\ MaxFaults \in Nat
  /\ NoLock \notin [creator : Tasks, epoch : Nat, named : BOOLEAN]

VARIABLES
  pc,       \* where each task stands in acquiring, using and releasing
  lock,     \* the lock file: who created it, in which life, pid written yet
  aborted,  \* tasks whose signal has been aborted
  epoch,    \* how often each process has crashed: a pid is a process's life
  faults,   \* file system calls that have failed
  stolen    \* history: owners whose lock file somebody else has unlinked

vars == <<pc, lock, aborted, epoch, faults, stolen>>

Steps == {"idle", "opening", "reading", "breaking", "reopening", "waiting",
          "writing", "holding", "releasing"}

\* Tasks whose exclusive open succeeded and whose handle is still open.
Owners == {t \in Tasks : pc[t] \in {"writing", "holding", "releasing"}}

Holders == {t \in Tasks : pc[t] = "holding"}

Locks == [creator : Tasks, epoch : 0 .. MaxCrashes, named : BOOLEAN]

\* The path still leads to the file that t's exclusive open created.
LockIsOf(t) ==
  lock # NoLock /\ lock.creator = t /\ lock.epoch = epoch[ProcOf[t]]

\* isProcessAlive: the life of the process that created the lock goes on.
CreatorAlive == lock.epoch = epoch[ProcOf[lock.creator]]

\* A correction one might make in haste: an empty file is never reclaimed.
ReclaimableOnlyNamed == lock.named /\ ~CreatorAlive

\* tryReclaimStaleWriterLock gives the lock up for dead when its content is
\* not a record with a pid (the file is still empty) or its pid is gone.
Reclaimable == ~lock.named \/ ~CreatorAlive

\* One AbortController kept for every sync.
SignalsAfterShared(t) == aborted

\* Each sync gets a signal of its own, so none starts out aborted.
SignalsAfter(t) == aborted \ {t}

\* open(path, "w").
OpenedAnyway(t) == TRUE

\* open(path, "wx").
Opened(t) == lock = NoLock

FreshLock(t) == [creator |-> t, epoch |-> epoch[ProcOf[t]], named |-> FALSE]

\* The owner, if any, whose lock an unlink by t takes away.
Robbed(t) == {u \in Owners \ {t} : LockIsOf(u)}

Init ==
  /\ pc = [t \in Tasks |-> "idle"]
  /\ lock = NoLock
  /\ aborted = {}
  /\ epoch = [p \in Procs |-> 0]
  /\ faults = 0
  /\ stolen = {}

-----------------------------------------------------------------------------

\* A sync starts and asks for the lease.
Begin(t) ==
  /\ pc[t] = "idle"
  /\ pc' = [pc EXCEPT ![t] = "opening"]
  /\ UNCHANGED <<lock, aborted, epoch, faults, stolen>>

\* The first exclusive open.  EEXIST leads to the stale lock test.
Open(t) ==
  /\ pc[t] = "opening"
  /\ \/ /\ Opened(t)
        /\ lock' = FreshLock(t)
        /\ pc' = [pc EXCEPT ![t] = "writing"]
     \/ /\ ~Opened(t)
        /\ pc' = [pc EXCEPT ![t] = "reading"]
        /\ UNCHANGED lock
  /\ UNCHANGED <<aborted, epoch, faults, stolen>>

\* acquireCanonicalLease returns false: the caller throws if its signal is
\* aborted and otherwise sleeps before it tries again.
Refused(t) ==
  /\ pc' = [pc EXCEPT ![t] = IF t \in aborted THEN "idle" ELSE "waiting"]
  /\ aborted' = IF t \in aborted THEN SignalsAfter(t) ELSE aborted

\* The lock file is read and judged.
Read(t) ==
  /\ pc[t] = "reading"
  /\ \/ /\ lock = NoLock
        /\ pc' = [pc EXCEPT ![t] = "reopening"]
        /\ UNCHANGED aborted
     \/ /\ lock # NoLock
        /\ Reclaimable
        /\ pc' = [pc EXCEPT ![t] = "breaking"]
        /\ UNCHANGED aborted
     \/ /\ lock # NoLock
        /\ ~Reclaimable
        /\ Refused(t)
  /\ UNCHANGED <<lock, epoch, faults, stolen>>

\* The lock judged stale is unlinked, whichever file the path names by now.
Break(t) ==
  /\ pc[t] = "breaking"
  /\ lock' = NoLock
  /\ stolen' = stolen \union Robbed(t)
  /\ pc' = [pc EXCEPT ![t] = "reopening"]
  /\ UNCHANGED <<aborted, epoch, faults>>

\* The second and last exclusive open of one acquisition.
Reopen(t) ==
  /\ pc[t] = "reopening"
  /\ \/ /\ Opened(t)
        /\ lock' = FreshLock(t)
        /\ pc' = [pc EXCEPT ![t] = "writing"]
        /\ UNCHANGED aborted
     \/ /\ ~Opened(t)
        /\ Refused(t)
        /\ UNCHANGED lock
  /\ UNCHANGED <<epoch, faults, stolen>>

\* The pid goes into the file behind the handle, which may no longer be the
\* file behind the path.
Write(t) ==
  /\ pc[t] = "writing"
  /\ lock' = IF LockIsOf(t) THEN [lock EXCEPT !.named = TRUE] ELSE lock
  /\ pc' = [pc EXCEPT ![t] = "holding"]
  /\ UNCHANGED <<aborted, epoch, faults, stolen>>

\* The operation ends, by returning or by throwing, and the lease is released.
Finish(t) ==
  /\ pc[t] = "holding"
  /\ pc' = [pc EXCEPT ![t] = "releasing"]
  /\ UNCHANGED <<lock, aborted, epoch, faults, stolen>>

\* The handle is closed and the path unlinked, without a look at its content.
Release(t) ==
  /\ pc[t] = "releasing"
  /\ lock' = NoLock
  /\ stolen' = (stolen \ {t}) \union Robbed(t)
  /\ pc' = [pc EXCEPT ![t] = "idle"]
  /\ aborted' = SignalsAfter(t)
  /\ UNCHANGED <<epoch, faults>>

\* The retry timer fires.
Retry(t) ==
  /\ pc[t] = "waiting"
  /\ pc' = [pc EXCEPT ![t] = "opening"]
  /\ UNCHANGED <<lock, aborted, epoch, faults, stolen>>

\* A signal is aborted: a sleeping task throws at once, any other notices it
\* when it is next refused.
Abort(t) ==
  /\ t \in Abortable
  /\ pc[t] # "idle"
  /\ t \notin aborted
  /\ \/ /\ pc[t] = "waiting"
        /\ pc' = [pc EXCEPT ![t] = "idle"]
        /\ aborted' = SignalsAfter(t)
     \/ /\ pc[t] # "waiting"
        /\ aborted' = aborted \union {t}
        /\ UNCHANGED pc
  /\ UNCHANGED <<lock, epoch, faults, stolen>>

\* The pid cannot be written: the path is unlinked and the sync throws.
WriteFails(t) ==
  /\ pc[t] = "writing"
  /\ faults < MaxFaults
  /\ faults' = faults + 1
  /\ pc' = [pc EXCEPT ![t] = "releasing"]
  /\ UNCHANGED <<lock, aborted, epoch, stolen>>

\* An unlink fails with something other than ENOENT: a reclaim gives up, a
\* release throws and leaves the file behind.
UnlinkFails(t) ==
  /\ faults < MaxFaults
  /\ faults' = faults + 1
  /\ \/ /\ pc[t] = "breaking"
        /\ Refused(t)
        /\ UNCHANGED stolen
     \/ /\ pc[t] = "releasing"
        /\ pc' = [pc EXCEPT ![t] = "idle"]
        /\ aborted' = SignalsAfter(t)
        /\ stolen' = stolen \ {t}
  /\ UNCHANGED <<lock, epoch>>

\* A process dies and may be started again: its tasks are gone, its lock file
\* is not, and its old pid names nobody.
Crash(p) ==
  LET dead == {t \in Tasks : ProcOf[t] = p} IN
  /\ epoch[p] < MaxCrashes
  /\ epoch' = [epoch EXCEPT ![p] = @ + 1]
  /\ pc' = [t \in Tasks |-> IF t \in dead THEN "idle" ELSE pc[t]]
  /\ aborted' = aborted \ dead
  /\ stolen' = stolen \ dead
  /\ UNCHANGED <<lock, faults>>

FileStep(t) ==
  \/ Open(t) \/ Read(t) \/ Break(t) \/ Reopen(t) \/ Write(t)
  \/ Finish(t) \/ Release(t) \/ Retry(t)

Fault(t) == WriteFails(t) \/ UnlinkFails(t)

Next ==
  \/ \E t \in Tasks : Begin(t) \/ FileStep(t) \/ Abort(t) \/ Fault(t)
  \/ \E p \in Procs : Crash(p)

\* Every file system call returns, every operation under the lease ends and
\* every retry timer fires; nobody has to start a sync, abort one or crash.
FairSpec == Init /\ [][Next]_vars /\ \A t \in Tasks : WF_vars(FileStep(t))

-----------------------------------------------------------------------------

TypeOK ==
  /\ pc \in [Tasks -> Steps]
  /\ lock \in Locks \union {NoLock}
  /\ aborted \subseteq {t \in Abortable : pc[t] \notin {"idle", "waiting"}}
  /\ epoch \in [Procs -> 0 .. MaxCrashes]
  /\ faults \in 0 .. MaxFaults
  /\ stolen \subseteq Owners

\* Two tasks own the lease together only after somebody unlinked the lock
\* file of one of them while it was open: the exclusive open is the only way
\* in, through every crash, reclaim, failed write and failed unlink of
\* acquireCanonicalLease and its release.
OneUndisturbedOwner ==
  \A t, u \in Owners \ stolen : t = u

\* A lock whose process is gone does not stop its waiters for good: while a
\* task waits in withCanonicalWriterLease, the lock left behind is broken.
LeftBehind == lock # NoLock /\ ~CreatorAlive

StaleLockIsBroken ==
  \A t \in Tasks :
    (pc[t] = "waiting" /\ LeftBehind) ~> (~LeftBehind \/ pc[t] = "idle")

\* Design document, section 11.1: the canonical log "has exactly one writer
\* lease at a time".
OneHolder == \A t, u \in Holders : t = u

=============================================================================
