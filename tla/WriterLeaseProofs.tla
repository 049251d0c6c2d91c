------------------------- MODULE WriterLeaseProofs -------------------------
(***************************************************************************)
(* Machine-checked proofs about WriterLease, for every set of tasks and     *)
(* processes and every bound on crashes and faults.                        *)
(***************************************************************************)
EXTENDS WriterLease, TLAPS

Spec == Init /\ [][Next]_vars

\* An owner nobody has robbed is named by the file the path leads to.
UndisturbedLock == \A t \in Owners \ stolen : LockIsOf(t)

IInv == TypeOK /\ UndisturbedLock

USE LeaseAssumption DEF LeaseAssumption

\* A lock file just created belongs to its creator.
LEMMA FreshLockIsALock ==
  ASSUME TypeOK, NEW t \in Tasks
  PROVE  FreshLock(t) \in Locks
BY DEF TypeOK, FreshLock, Locks

\* Writing the pid leaves the file's creator and life alone.
LEMMA NamedLockIsALock ==
  ASSUME TypeOK, NEW t \in Tasks, Write(t)
  PROVE  /\ lock' \in Locks \union {NoLock}
         /\ \A u \in Tasks : LockIsOf(u) => LockIsOf(u)'
<1>1. CASE ~LockIsOf(t)
  BY <1>1 DEF TypeOK, Write, LockIsOf
<1>2. CASE LockIsOf(t)
  <2>1. lock \in Locks /\ lock # NoLock
    BY <1>2 DEF TypeOK, LockIsOf
  <2>2. lock' = [lock EXCEPT !.named = TRUE]
    BY <1>2 DEF Write
  <2>3. /\ lock' \in Locks
        /\ lock'.creator = lock.creator /\ lock'.epoch = lock.epoch
    BY <2>1, <2>2 DEF Locks
  <2>4. lock' # NoLock
    <3>1. lock' \in [creator : Tasks, epoch : Nat, named : BOOLEAN]
      BY <2>3 DEF Locks
    <3> QED
      BY <3>1
  <2> QED
    BY <2>3, <2>4 DEF Write, LockIsOf
<1> QED
  BY <1>1, <1>2

\* The file an exclusive open creates is not the absent one.
LEMMA FreshLockExists ==
  ASSUME TypeOK, NEW t \in Tasks, lock' = FreshLock(t), epoch' = epoch
  PROVE  LockIsOf(t)'
<1>1. FreshLock(t) \in [creator : Tasks, epoch : Nat, named : BOOLEAN]
  BY DEF TypeOK, FreshLock
<1> QED
  BY <1>1 DEF LockIsOf, FreshLock

\* The invariant holds when no task has asked for the lease.
LEMMA InitIInv == Init => IInv
BY DEF Init, IInv, TypeOK, UndisturbedLock, Owners, Steps

\* Every step of a task, and every crash, keeps the types.
LEMMA StepTypeOK ==
  ASSUME TypeOK, Next
  PROVE  TypeOK'
<1> USE DEF TypeOK, Steps, Owners
<1>1. ASSUME NEW t \in Tasks, Begin(t) PROVE TypeOK'
  BY <1>1 DEF Begin
<1>2. ASSUME NEW t \in Tasks, Open(t) PROVE TypeOK'
  BY FreshLockIsALock, <1>2 DEF Open
<1>3. ASSUME NEW t \in Tasks, Read(t) PROVE TypeOK'
  BY <1>3 DEF Read, Refused, SignalsAfter
<1>4. ASSUME NEW t \in Tasks, Break(t) PROVE TypeOK'
  BY <1>4 DEF Break, Robbed
<1>5. ASSUME NEW t \in Tasks, Reopen(t) PROVE TypeOK'
  BY FreshLockIsALock, <1>5 DEF Reopen, Refused, SignalsAfter
<1>6. ASSUME NEW t \in Tasks, Write(t) PROVE TypeOK'
  <2>1. lock' \in Locks \union {NoLock}
    BY <1>6, NamedLockIsALock DEF Write
  <2> QED
    BY <1>6, <2>1 DEF Write
<1>7. ASSUME NEW t \in Tasks, Finish(t) PROVE TypeOK'
  BY <1>7 DEF Finish
<1>8. ASSUME NEW t \in Tasks, Release(t) PROVE TypeOK'
  BY <1>8 DEF Release, Robbed, SignalsAfter
<1>9. ASSUME NEW t \in Tasks, Retry(t) PROVE TypeOK'
  BY <1>9 DEF Retry
<1>10. ASSUME NEW t \in Tasks, Abort(t) PROVE TypeOK'
  BY <1>10 DEF Abort, SignalsAfter
<1>11. ASSUME NEW t \in Tasks, WriteFails(t) PROVE TypeOK'
  BY <1>11 DEF WriteFails
<1>12. ASSUME NEW t \in Tasks, UnlinkFails(t) PROVE TypeOK'
  BY <1>12 DEF UnlinkFails, Refused, SignalsAfter
<1>13. ASSUME NEW p \in Procs, Crash(p) PROVE TypeOK'
  BY <1>13 DEF Crash
<1> QED
  BY <1>1, <1>2, <1>3, <1>4, <1>5, <1>6, <1>7, <1>8, <1>9, <1>10, <1>11, <1>12, <1>13 DEF Next, FileStep, Fault

\* Only somebody else's unlink separates an owner from its lock file, and the
\* history variable records each one.
LEMMA StepUndisturbed ==
  ASSUME IInv, Next
  PROVE  UndisturbedLock'
<1> USE DEF IInv, TypeOK, Steps, Owners, UndisturbedLock, LockIsOf
<1>1. ASSUME NEW t \in Tasks, Begin(t) PROVE UndisturbedLock'
  BY <1>1 DEF Begin
<1>2. ASSUME NEW t \in Tasks, Open(t) PROVE UndisturbedLock'
  BY <1>2, FreshLockExists DEF Open, Opened
<1>3. ASSUME NEW t \in Tasks, Read(t) PROVE UndisturbedLock'
  BY <1>3 DEF Read, Refused
<1>4. ASSUME NEW t \in Tasks, Break(t) PROVE UndisturbedLock'
  BY <1>4 DEF Break, Robbed
<1>5. ASSUME NEW t \in Tasks, Reopen(t) PROVE UndisturbedLock'
  BY <1>5, FreshLockExists DEF Reopen, Opened, Refused
<1>6. ASSUME NEW t \in Tasks, Write(t) PROVE UndisturbedLock'
  <2>1. Owners' = Owners /\ stolen' = stolen
    BY <1>6 DEF Write
  <2>2. \A u \in Tasks : LockIsOf(u) => LockIsOf(u)'
    BY <1>6, NamedLockIsALock
  <2> HIDE DEF LockIsOf
  <2> QED
    BY <2>1, <2>2
<1>7. ASSUME NEW t \in Tasks, Finish(t) PROVE UndisturbedLock'
  BY <1>7 DEF Finish
<1>8. ASSUME NEW t \in Tasks, Release(t) PROVE UndisturbedLock'
  BY <1>8 DEF Release, Robbed
<1>9. ASSUME NEW t \in Tasks, Retry(t) PROVE UndisturbedLock'
  BY <1>9 DEF Retry
<1>10. ASSUME NEW t \in Tasks, Abort(t) PROVE UndisturbedLock'
  BY <1>10 DEF Abort
<1>11. ASSUME NEW t \in Tasks, WriteFails(t) PROVE UndisturbedLock'
  BY <1>11 DEF WriteFails
<1>12. ASSUME NEW t \in Tasks, UnlinkFails(t) PROVE UndisturbedLock'
  BY <1>12 DEF UnlinkFails, Refused
<1>13. ASSUME NEW p \in Procs, Crash(p) PROVE UndisturbedLock'
  BY <1>13 DEF Crash
<1> QED
  BY <1>1, <1>2, <1>3, <1>4, <1>5, <1>6, <1>7, <1>8, <1>9, <1>10, <1>11, <1>12, <1>13 DEF Next, FileStep, Fault

\* Stuttering keeps the invariant.
LEMMA StutterIInv == IInv /\ UNCHANGED vars => IInv'
BY DEF IInv, TypeOK, UndisturbedLock, LockIsOf, Owners, vars

\* The invariant holds in every reachable state of acquireCanonicalLease.
THEOREM LeaseInvariance == Spec => []IInv
<1>1. IInv /\ Next => IInv'
  BY StepTypeOK, StepUndisturbed DEF IInv
<1>2. IInv /\ [Next]_vars => IInv'
  BY <1>1, StutterIInv
<1> QED
  BY InitIInv, <1>2, PTL DEF Spec

\* The lease's variables keep their types.
THEOREM LeaseTypes == Spec => []TypeOK
<1>1. IInv => TypeOK
  BY DEF IInv
<1> QED
  BY LeaseInvariance, <1>1, PTL

\* The exclusive open lets one owner in at a time: two tasks own the lease of
\* the canonical log together only after an unlink robbed one of them.
THEOREM ExclusiveUntilRobbed == Spec => []OneUndisturbedOwner
<1>1. IInv => OneUndisturbedOwner
  BY DEF IInv, UndisturbedLock, OneUndisturbedOwner, LockIsOf
<1> QED
  BY LeaseInvariance, <1>1, PTL

=============================================================================
