-------------------------- MODULE CodexSyncProofs --------------------------
(***************************************************************************)
(* Proofs about CodexSync, for every set of sessions and responses, every   *)
(* length of the rollouts and any number of faults: its invariant, and that *)
(* it implements Ingestion.                                                 *)
(***************************************************************************)
EXTENDS CodexSync, TLAPS

\* The types, with the rollout that a sync has in hand.
Typed == TypeOK /\ (pc \in {"reading", "appending"} => file \in Sessions)

\* Nothing is taken for appended that was not.
Known == ledger \union seen \union InLog \subseteq written

Key(s, l) == [session |-> s, line |-> l]

\* The first n lines of the rollout f of a session yield no event beyond the
\* given keys.
Backed(f, s, n, keys) ==
  /\ n <= Len(f)
  /\ \A i \in 1 .. n : f[i] \in Extracted(f) => Key(s, f[i]) \in keys

Covers(m) == \A s \in Sessions : Backed(rollout[s], s, m[s], written)

\* The marks of the sync, and of the sync before it, are backed by appends; so
\* will be the mark of the rollout in hand, once its pending events are seen.
Reached ==
  /\ Covers(cursor) /\ Covers(marks)
  /\ pc = "reading" => size <= Len(rollout[file])
  /\ pc = "appending" => Backed(rollout[file], file, size, pending)

\* A key that the ledger, or the sync at work, does not know has one copy for
\* every fault at most; and the ledger is what the sync knows unless it says
\* that it changed it.
Counted ==
  /\ \A k \in Keys : copies[k] <= 1 + faults
  /\ pc # "idle" => \A k \in Keys \ seen : copies[k] <= faults
  /\ pc = "idle" /\ ledger # {} => \A k \in Keys \ ledger : copies[k] <= faults
  /\ pc # "idle" /\ ~changed => seen = ledger
  /\ pc \in {"idle", "reconciling"} => ~changed

IInv == Typed /\ Known /\ Counted /\ Reached

USE CodexAssumption DEF CodexAssumption

-----------------------------------------------------------------------------
(* Facts about the operators. *)

\* The tick counter stays below FullEvery.
LEMMA TickBound ==
  ASSUME ticks \in 0 .. FullEvery - 1
  PROVE  NextTick \in 0 .. FullEvery - 1
BY DEF NextTick

\* What is read from a rollout are lines of it.
LEMMA ExtractedLines ==
  ASSUME NEW f \in Seq(Lines)
  PROVE  Extracted(f) \subseteq Lines
BY DEF Extracted

\* A line that stops being an event when another is added never becomes one
\* again: extraction takes fewer of the old lines, never more.
LEMMA ExtractedShrinks ==
  ASSUME NEW f \in Seq(Lines), NEW l \in Lines, NEW i \in 1 .. Len(f)
  PROVE  /\ Append(f, l)[i] = f[i]
         /\ f[i] \in Extracted(Append(f, l)) => f[i] \in Extracted(f)
<1> DEFINE g == Append(f, l)
<1>1. /\ DOMAIN f = 1 .. Len(f) /\ DOMAIN g = 1 .. Len(f) + 1
      /\ \A j \in DOMAIN f : g[j] = f[j]
  OBVIOUS
<1>2. {f[j] : j \in DOMAIN f} \subseteq {g[j] : j \in DOMAIN g}
  BY <1>1
<1>3. {x \in {f[j] : j \in DOMAIN f} : x.kind = "count"}
        \subseteq {x \in {g[j] : j \in DOMAIN g} : x.kind = "count"}
  BY <1>2
<1>4. f[i] \in {f[j] : j \in DOMAIN f}
  BY <1>1
<1> HIDE DEF g
<1>5. f[i] \in Extracted(g) => f[i] \in Extracted(f)
  BY <1>3, <1>4 DEF Extracted
<1> QED
  BY <1>1, <1>5 DEF g

-----------------------------------------------------------------------------
(* Types. *)

LEMMA NoMarksType == NoMarks \in [Sessions -> Nat]
BY DEF NoMarks

LEMMA InitTypes == Init => Typed
<1> SUFFICES ASSUME Init PROVE Typed
  OBVIOUS
<1>1. rollout \in [Sessions -> Seq(Lines)]
  BY DEF Init
<1>2. copies \in [Keys -> Nat]
  BY DEF Init
<1>3. torn \in BOOLEAN /\ changed \in BOOLEAN
  BY Zenon DEF Init
<1>4. faults \in 0 .. MaxFaults /\ ticks \in 0 .. FullEvery - 1
  BY DEF Init
<1> QED
  BY <1>1, <1>2, <1>3, <1>4, NoMarksType DEF Init, Typed, TypeOK

LEMMA LoadTypes ==
  ASSUME Typed, NEW full \in BOOLEAN, Load(full), ticks' \in 0 .. FullEvery - 1
  PROVE  Typed'
<1>1. LoadedLedger \subseteq Keys
  BY DEF LoadedLedger, InLog, Typed, TypeOK
<1> QED
  BY <1>1 DEF Load, Typed, TypeOK

LEMMA NextTypes == Typed /\ [Next]_vars => Typed'
<1> SUFFICES ASSUME Typed, [Next]_vars PROVE Typed'
  OBVIOUS
<1>1. ASSUME NEW s \in Sessions, NEW l \in Lines, CodexWrites(s, l) PROVE Typed'
  <2>1. rollout' \in [Sessions -> Seq(Lines)]
    BY <1>1 DEF CodexWrites, Typed, TypeOK
  <2> QED
    BY <1>1, <2>1 DEF CodexWrites, Typed, TypeOK, disk, memory
<1>2. CASE OtherTears
  BY <1>2 DEF OtherTears, Typed, TypeOK, memory
<1>3. CASE LightTick
  BY <1>3, LoadTypes, TickBound DEF LightTick, Typed, TypeOK
<1>4. CASE BusyTick
  BY <1>4, TickBound DEF BusyTick, Typed, TypeOK, disk, memory
<1>5. CASE CoordinatorRun
  BY <1>5, LoadTypes DEF CoordinatorRun, Typed, TypeOK
<1>6. CASE Reconcile
  <2>1. Of(InLog, Revisited) \subseteq Keys
    BY DEF Of, InLog
  <2>2. HealedMarks(Ghosts) \in [Sessions -> Nat]
    BY DEF HealedMarks, Typed, TypeOK
  <2>3. changed' \in BOOLEAN
    BY <1>6, Zenon DEF Reconcile, Typed, TypeOK
  <2> QED
    BY <1>6, <2>1, <2>2, <2>3 DEF Reconcile, Typed, TypeOK, disk
<1>7. ASSUME NEW s \in Sessions, Stat(s) PROVE Typed'
  <2>1. Len(rollout[s]) \in Nat
    BY DEF Typed, TypeOK
  <2>2. CASE UNCHANGED <<pc, file, size>>
    BY <1>7, <2>2 DEF Stat, Typed, TypeOK, disk
  <2>3. CASE file' = s /\ size' = Len(rollout[s]) /\ pc' = "reading"
    BY <1>7, <2>1, <2>3 DEF Stat, Typed, TypeOK, disk
  <2> QED
    BY <1>7, <2>2, <2>3 DEF Stat
<1>8. CASE Read
  <2>1. pending' \subseteq Keys
    <3>1. file \in Sessions /\ rollout[file] \in Seq(Lines)
      BY <1>8 DEF Read, Typed, TypeOK
    <3>2. Extracted(rollout[file]) \subseteq Lines
      BY <3>1, ExtractedLines
    <3> QED
      BY <1>8, <3>1, <3>2 DEF Read, Keys
  <2> QED
    BY <1>8, <2>1 DEF Read, Typed, TypeOK, disk
<1>9. CASE Unparsable
  BY <1>9 DEF Unparsable, Typed, TypeOK, disk
<1>10. ASSUME NEW k \in Keys, AppendEvent(k) PROVE Typed'
  <2>1. torn' \in BOOLEAN /\ changed' \in BOOLEAN
    BY <1>10, Zenon DEF AppendEvent
  <2>2. copies' \in [Keys -> Nat]
    BY <1>10 DEF AppendEvent, Typed, TypeOK
  <2> QED
    BY <1>10, <2>1, <2>2 DEF AppendEvent, Typed, TypeOK
<1>11. CASE FileDone
  BY <1>11 DEF FileDone, Mark, Typed, TypeOK, disk
<1>12. CASE WriteCursor
  BY <1>12 DEF WriteCursor, Typed, TypeOK
<1>13. CASE PersistLedger
  <2>1. changed' \in BOOLEAN
    BY <1>13, Zenon DEF PersistLedger, Forget
  <2>2. ledger' \subseteq Keys
    BY <1>13 DEF PersistLedger, SavedLedger, Typed, TypeOK
  <2> QED
    BY <1>13, <2>1, <2>2, NoMarksType DEF PersistLedger, Forget, Typed, TypeOK
<1>14. CASE Fail
  <2>1. changed' \in BOOLEAN
    BY <1>14, Zenon DEF Fail, Forget
  <2>2. torn' \in BOOLEAN
    BY <1>14, Zenon DEF Fail, Typed, TypeOK
  <2>3. cursor' \in [Sessions -> Nat] /\ ledger' \subseteq Keys
    BY <1>14, NoMarksType DEF Fail, Typed, TypeOK
  <2> QED
    BY <1>14, <2>1, <2>2, <2>3, NoMarksType DEF Fail, Forget, Typed, TypeOK
<1>15. CASE UNCHANGED vars
  BY <1>15 DEF vars, disk, memory, Typed, TypeOK
<1> QED
  BY <1>1, <1>2, <1>3, <1>4, <1>5, <1>6, <1>7, <1>8, <1>9, <1>10, <1>11, <1>12,
     <1>13, <1>14, <1>15 DEF Next, SyncStep

\* Type correctness: every variable keeps its type, and no more faults happen
\* than the bound allows.
THEOREM CodexTypes == Spec => []TypeOK
<1>1. Typed => TypeOK
  BY DEF Typed
<1> QED
  BY <1>1, InitTypes, NextTypes, PTL DEF Spec

-----------------------------------------------------------------------------
(* Known. *)

LEMMA InitKnown == Init => Known
BY DEF Init, Known, InLog

LEMMA LoadKnown ==
  ASSUME Known, NEW full \in BOOLEAN, Load(full)
  PROVE  Known'
BY DEF Known, Load, LoadedLedger, InLog

\* An append is the only step that adds to the log, and it is recorded; the
\* sync learns of a key from the log, from the ledger or by that append.
LEMMA NextKnown == Typed /\ Known /\ [Next]_vars => Known'
<1> SUFFICES ASSUME Typed, Known, [Next]_vars PROVE Known'
  OBVIOUS
<1>1. ASSUME UNCHANGED <<copies, written, ledger, seen>> PROVE Known'
  BY <1>1 DEF Known, InLog
<1>2. ASSUME NEW s \in Sessions, NEW l \in Lines, CodexWrites(s, l) PROVE Known'
  BY <1>1, <1>2 DEF CodexWrites, disk, memory
<1>3. CASE OtherTears \/ BusyTick
  BY <1>1, <1>3 DEF OtherTears, BusyTick, disk, memory
<1>4. CASE LightTick \/ CoordinatorRun
  BY <1>4, LoadKnown DEF LightTick, CoordinatorRun
<1>5. CASE Reconcile
  BY <1>5 DEF Reconcile, Known, InLog, Of, disk
<1>6. ASSUME NEW s \in Sessions, Stat(s) PROVE Known'
  BY <1>1, <1>6 DEF Stat, disk
<1>7. CASE Read \/ Unparsable \/ FileDone \/ WriteCursor
  BY <1>1, <1>7 DEF Read, Unparsable, FileDone, WriteCursor, disk
<1>8. ASSUME NEW k \in Keys, AppendEvent(k) PROVE Known'
  BY <1>8 DEF AppendEvent, Known, InLog, Typed, TypeOK
<1>9. CASE PersistLedger
  BY <1>9 DEF PersistLedger, SavedLedger, Forget, Known, InLog
<1>10. CASE Fail
  BY <1>10 DEF Fail, Forget, Known, InLog
<1>11. CASE UNCHANGED vars
  BY <1>1, <1>11 DEF vars, disk, memory
<1> QED
  BY <1>2, <1>3, <1>4, <1>5, <1>6, <1>7, <1>8, <1>9, <1>10, <1>11 DEF Next, SyncStep

-----------------------------------------------------------------------------
(* Copies. *)

LEMMA InitCounted == Init => Counted
BY DEF Init, Counted

LEMMA LoadCounted ==
  ASSUME Typed, Counted, NEW full \in BOOLEAN, Load(full)
  PROVE  Counted'
<1>1. \A k \in Keys \ LoadedLedger : copies[k] <= faults
  BY DEF Counted, Load, LoadedLedger, InLog, Typed, TypeOK
<1> QED
  BY <1>1 DEF Counted, Load

\* Steps that leave the log and what is known of it alone.
LEMMA StillCounted ==
  ASSUME Typed, Counted, UNCHANGED <<copies, ledger, seen, changed>>, pc # "idle", pc' \notin {"idle", "reconciling"},
         faults' \in Nat, faults' >= faults
  PROVE  Counted'
BY DEF Counted, Typed, TypeOK

\* Only a failure between an append and the saved ledger lets a key be appended
\* again, and it adds one to the faults.
LEMMA NextCounted == Typed /\ Counted /\ [Next]_vars => Counted'
<1> SUFFICES ASSUME Typed, Counted, [Next]_vars PROVE Counted'
  OBVIOUS
<1>1. ASSUME NEW s \in Sessions, NEW l \in Lines, CodexWrites(s, l) PROVE Counted'
  BY <1>1 DEF CodexWrites, Counted, disk, memory
<1>2. CASE OtherTears
  BY <1>2 DEF OtherTears, Counted, memory, Typed, TypeOK
<1>3. CASE BusyTick
  BY <1>3 DEF BusyTick, Counted, disk, memory
<1>4. CASE LightTick \/ CoordinatorRun
  BY <1>4, LoadCounted DEF LightTick, CoordinatorRun
<1>5. CASE Reconcile
  <2>1. \A k \in Keys \ seen' : copies[k] <= faults
    BY <1>5 DEF Reconcile, Counted, Ghosts, InLog, Of, Typed, TypeOK
  <2>2. ~changed' => seen' = seen /\ ~changed
    BY <1>5, Zenon DEF Reconcile, Counted, Of
  <2> QED
    BY <1>5, <2>1, <2>2 DEF Reconcile, Counted, disk
<1>6. ASSUME NEW s \in Sessions, Stat(s) PROVE Counted'
  BY <1>6, StillCounted DEF Stat, disk, Typed, TypeOK
<1>7. CASE Read \/ FileDone \/ WriteCursor
  BY <1>7, StillCounted DEF Read, FileDone, WriteCursor, AllVisited, disk, Typed, TypeOK
<1>8. CASE Unparsable
  BY <1>8, StillCounted DEF Unparsable, disk, Typed, TypeOK
<1>9. ASSUME NEW k \in Keys, AppendEvent(k) PROVE Counted'
  <2>1. \A j \in Keys : copies'[j] <= 1 + faults
    BY <1>9 DEF AppendEvent, Unseen, Counted, Typed, TypeOK
  <2>2. \A j \in Keys \ seen' : copies'[j] <= faults
    BY <1>9 DEF AppendEvent, Counted, Typed, TypeOK
  <2> QED
    BY <1>9, <2>1, <2>2 DEF AppendEvent, Counted
<1>10. CASE PersistLedger
  <2>1. ledger' = seen
    BY <1>10 DEF PersistLedger, SavedLedger, Counted
  <2> QED
    BY <1>10, <2>1 DEF PersistLedger, Forget, Counted
<1>11. CASE Fail
  BY <1>11 DEF Fail, Forget, Counted, Typed, TypeOK
<1>12. CASE UNCHANGED vars
  BY <1>12 DEF vars, disk, memory, Counted
<1> QED
  BY <1>1, <1>2, <1>3, <1>4, <1>5, <1>6, <1>7, <1>8, <1>9, <1>10, <1>11, <1>12
     DEF Next, SyncStep

\* An event is in the log once, and once more for every fault at most, for any
\* number of sessions, events and faults (syncCodexRollouts with the ledger's
\* fallback and reconciliation).
THEOREM CodexCopies == Spec => []CopiesBounded
<1>1. Counted => CopiesBounded
  BY DEF Counted, CopiesBounded
<1> QED
  BY <1>1, InitTypes, InitCounted, NextTypes, NextCounted, PTL DEF Spec

-----------------------------------------------------------------------------
(* Marks. *)

\* What a rollout's lines were backed by, they are backed by when it grows.
LEMMA BackedAppend ==
  ASSUME NEW f \in Seq(Lines), NEW l \in Lines, NEW s, NEW keys, NEW n \in Nat,
         Backed(f, s, n, keys)
  PROVE  Backed(Append(f, l), s, n, keys)
<1>1. n <= Len(f) /\ n <= Len(Append(f, l))
  BY DEF Backed
<1>2. ASSUME NEW i \in 1 .. n, Append(f, l)[i] \in Extracted(Append(f, l))
      PROVE  Key(s, Append(f, l)[i]) \in keys
  <2>1. i \in 1 .. Len(f)
    BY <1>1
  <2>2. Append(f, l)[i] = f[i] /\ f[i] \in Extracted(f)
    BY <1>2, <2>1, ExtractedShrinks
  <2> QED
    BY <2>2 DEF Backed
<1> QED
  BY <1>1, <1>2 DEF Backed

\* Marks of 0 are backed by nothing.
LEMMA CoversNoMarks ==
  ASSUME Typed
  PROVE  Covers(NoMarks)
BY DEF Covers, Backed, NoMarks, Typed, TypeOK

LEMMA InitReached == Init => Reached
<1> SUFFICES ASSUME Init PROVE Reached
  OBVIOUS
<1>1. Typed
  BY InitTypes
<1> QED
  BY <1>1, CoversNoMarks DEF Init, Reached

LEMMA WriteReached ==
  ASSUME Typed, Reached, NEW s \in Sessions, NEW l \in Lines, CodexWrites(s, l)
  PROVE  Reached'
<1>1. ASSUME NEW t \in Sessions, NEW n \in Nat, NEW keys, Backed(rollout[t], t, n, keys)
      PROVE  Backed(rollout'[t], t, n, keys)
  <2>1. rollout[t] \in Seq(Lines)
    BY DEF Typed, TypeOK
  <2>2. rollout'[t] = IF t = s THEN Append(rollout[t], l) ELSE rollout[t]
    BY DEF CodexWrites, Typed, TypeOK
  <2> QED
    BY <1>1, <2>1, <2>2, BackedAppend
<1>2. UNCHANGED <<written, cursor, marks, pc, file, size, pending>>
  BY DEF CodexWrites, disk, memory
<1>3. Covers(cursor)'
  BY <1>1, <1>2 DEF Reached, Covers, Typed, TypeOK
<1>4. Covers(marks)'
  BY <1>1, <1>2 DEF Reached, Covers, Typed, TypeOK
<1>5. ASSUME pc = "reading" PROVE size <= Len(rollout'[file])
  <2>1. file \in Sessions /\ rollout[file] \in Seq(Lines) /\ size <= Len(rollout[file])
    BY <1>5 DEF Reached, Typed, TypeOK
  <2>2. rollout'[file] = IF file = s THEN Append(rollout[file], l) ELSE rollout[file]
    BY <2>1 DEF CodexWrites, Typed, TypeOK
  <2> QED
    BY <2>1, <2>2 DEF Typed, TypeOK
<1>6. ASSUME pc = "appending" PROVE Backed(rollout'[file], file, size, pending)
  BY <1>1, <1>6 DEF Reached, Typed, TypeOK
<1> QED
  BY <1>2, <1>3, <1>4, <1>5, <1>6 DEF Reached

\* The mark of a rollout is the size it had before it was read, and is set when
\* nothing of what was read is unseen: no line below it is without its append.
LEMMA NextReached == Typed /\ Known /\ Reached /\ [Next]_vars => Reached'
<1> SUFFICES ASSUME Typed, Known, Reached, [Next]_vars PROVE Reached'
  OBVIOUS
<1>0. Covers(NoMarks)
  BY CoversNoMarks
<1>1. ASSUME rollout' = rollout, written' = written,
             \/ cursor' = cursor
             \/ cursor' = marks
             \/ cursor' = NoMarks,
             \/ marks' = marks
             \/ marks' = cursor
             \/ marks' = NoMarks,
             pc' \notin {"reading", "appending"}
      PROVE  Reached'
  BY <1>0, <1>1 DEF Reached, Covers
<1>2. ASSUME UNCHANGED <<rollout, written, cursor, marks, pc, file, size, pending>>
      PROVE  Reached'
  BY <1>2 DEF Reached, Covers
<1>3. ASSUME NEW s \in Sessions, NEW l \in Lines, CodexWrites(s, l) PROVE Reached'
  BY <1>3, WriteReached
<1>4. CASE OtherTears \/ BusyTick
  BY <1>2, <1>4 DEF OtherTears, BusyTick, disk, memory
<1>5. CASE LightTick \/ CoordinatorRun
  BY <1>1, <1>5 DEF LightTick, CoordinatorRun, Load
<1>6. CASE Reconcile
  <2>1. \A s \in Sessions : marks'[s] = marks[s] \/ marks'[s] = 0
    BY <1>6 DEF Reconcile, HealedMarks, Typed, TypeOK
  <2>2. UNCHANGED <<rollout, written, cursor>> /\ pc' = "files"
    BY <1>6 DEF Reconcile, disk
  <2>3. ASSUME NEW s \in Sessions PROVE Backed(rollout[s], s, marks'[s], written)
    <3>1. Backed(rollout[s], s, marks[s], written) /\ Backed(rollout[s], s, 0, written)
      BY <1>0 DEF Reached, Covers, NoMarks
    <3> QED
      BY <2>1, <3>1
  <2> QED
    BY <2>2, <2>3 DEF Reached, Covers
<1>7. ASSUME NEW s \in Sessions, Stat(s) PROVE Reached'
  <2>1. UNCHANGED <<rollout, written, cursor, marks>>
    BY <1>7 DEF Stat, disk
  <2>2. Covers(cursor)' /\ Covers(marks)'
    BY <2>1 DEF Reached, Covers
  <2>3. pc' # "appending" /\ (pc' = "reading" => size' = Len(rollout'[file']))
    BY <1>7, <2>1 DEF Stat
  <2>4. rollout \in [Sessions -> Seq(Lines)]
    BY DEF Typed, TypeOK
  <2> QED
    BY <1>7, <2>1, <2>2, <2>3, <2>4 DEF Reached, Stat
<1>8. CASE Read
  <2>1. UNCHANGED <<rollout, written, cursor, marks, file, size>> /\ pc = "reading"
        /\ pc' = "appending"
    BY <1>8 DEF Read, disk
  <2>2. file \in Sessions /\ rollout[file] \in Seq(Lines) /\ size <= Len(rollout[file])
    BY <2>1 DEF Reached, Typed, TypeOK
  <2>3. ASSUME NEW x \in Extracted(rollout[file]) PROVE Key(file, x) \in pending'
    BY <1>8, <2>2, <2>3, ExtractedLines DEF Read, Key
  <2>4. Backed(rollout[file], file, size, pending')
    BY <2>2, <2>3 DEF Backed
  <2> QED
    BY <2>1, <2>4 DEF Reached, Covers
<1>9. CASE Unparsable
  BY <1>1, <1>9 DEF Unparsable, disk
<1>10. ASSUME NEW k \in Keys, AppendEvent(k) PROVE Reached'
  <2>1. UNCHANGED <<rollout, cursor, marks, pc, file, size, pending>> /\ pc = "appending"
        /\ written \subseteq written'
    BY <1>10 DEF AppendEvent
  <2>2. Covers(cursor)' /\ Covers(marks)'
    BY <2>1 DEF Reached, Covers, Backed
  <2> QED
    BY <2>1, <2>2 DEF Reached
<1>11. CASE FileDone
  <2>1. UNCHANGED <<rollout, written, cursor>> /\ pc = "appending" /\ pc' = "files"
        /\ marks' = [marks EXCEPT ![file] = size] /\ pending \subseteq seen
    BY <1>11 DEF FileDone, Mark, Unseen, disk
  <2>2. Backed(rollout[file], file, size, written)
    BY <2>1 DEF Reached, Backed, Known
  <2>3. \A s \in Sessions : Backed(rollout[s], s, marks'[s], written)
    BY <2>1, <2>2 DEF Reached, Covers, Typed, TypeOK
  <2> QED
    BY <2>1, <2>3 DEF Reached, Covers
<1>12. CASE WriteCursor
  BY <1>1, <1>12 DEF WriteCursor
<1>13. CASE PersistLedger
  BY <1>1, <1>13 DEF PersistLedger, Forget
<1>14. CASE Fail
  BY <1>1, <1>14 DEF Fail, Forget
<1>15. CASE UNCHANGED vars
  BY <1>2, <1>15 DEF vars, disk, memory
<1> QED
  BY <1>3, <1>4, <1>5, <1>6, <1>7, <1>8, <1>9, <1>10, <1>11, <1>12, <1>13, <1>14,
     <1>15 DEF Next, SyncStep

\* The inductive invariant.
THEOREM CodexInvariance == Spec => []IInv
<1>1. Init => IInv
  BY InitTypes, InitKnown, InitCounted, InitReached DEF IInv
<1>2. IInv /\ [Next]_vars => IInv'
  BY NextTypes, NextKnown, NextCounted, NextReached DEF IInv
<1> QED
  BY <1>1, <1>2, PTL DEF Spec

\* The cursor never moves past a line whose event was not appended, for any
\* number of rollouts, lines and faults and every interleaving of Codex with
\* the sync (syncCodexRollouts, lines 231 to 285).
THEOREM CodexCursor == Spec => []CursorBehindLog
<1>1. IInv => CursorBehindLog
  BY DEF IInv, Reached, Covers, Backed, Key, CursorBehindLog
<1> QED
  BY <1>1, CodexInvariance, PTL

-----------------------------------------------------------------------------
(* The adapter does what Ingestion promises. *)

\* What is in the log, or about to be, are lines of the rollouts.
InSource == written \subseteq Source /\ (pc = "appending" => pending \subseteq Source)

LEMMA InitInSource == Init => InSource
BY DEF Init, InSource

\* Codex only adds to the rollouts.
LEMMA SourceGrows ==
  ASSUME Typed, NEW s \in Sessions, NEW l \in Lines, CodexWrites(s, l)
  PROVE  /\ Source \subseteq Source'
         /\ \A t \in Sessions : \A i \in DOMAIN rollout[t] : rollout'[t][i] = rollout[t][i]
<1>1. \A t \in Sessions : rollout[t] \in Seq(Lines)
  BY DEF Typed, TypeOK
<1>2. \A t \in Sessions : rollout'[t] = IF t = s THEN Append(rollout[t], l) ELSE rollout[t]
  BY DEF CodexWrites, Typed, TypeOK
<1>3. ASSUME NEW t \in Sessions, NEW i \in DOMAIN rollout[t]
      PROVE  i \in DOMAIN rollout'[t] /\ rollout'[t][i] = rollout[t][i]
  <2>1. CASE t = s
    <3>1. rollout'[t] = Append(rollout[t], l) /\ rollout[t] \in Seq(Lines)
      BY <1>1, <1>2, <2>1
    <3> QED
      BY <3>1, <1>3
  <2>2. CASE t # s
    BY <1>2, <1>3, <2>2
  <2> QED
    BY <2>1, <2>2
<1>4. Source \subseteq Source'
  <2> SUFFICES ASSUME NEW k \in Source PROVE k \in Source'
    OBVIOUS
  <2>1. k \in Keys /\ k.session \in Sessions
    BY DEF Source, Keys
  <2>2. PICK i \in DOMAIN rollout[k.session] : rollout[k.session][i] = k.line
    BY DEF Source
  <2>3. i \in DOMAIN rollout'[k.session] /\ rollout'[k.session][i] = k.line
    BY <1>3, <2>1, <2>2
  <2> QED
    BY <2>1, <2>3 DEF Source
<1> QED
  BY <1>3, <1>4

LEMMA NextInSource == Typed /\ InSource /\ [Next]_vars => InSource'
<1> SUFFICES ASSUME Typed, InSource, [Next]_vars PROVE InSource'
  OBVIOUS
<1>1. ASSUME rollout' = rollout, written' = written, pc' # "appending" PROVE InSource'
  BY <1>1 DEF InSource, Source
<1>2. ASSUME UNCHANGED <<rollout, written, pc, pending>> PROVE InSource'
  BY <1>2 DEF InSource, Source
<1>3. ASSUME NEW s \in Sessions, NEW l \in Lines, CodexWrites(s, l) PROVE InSource'
  BY <1>3, SourceGrows DEF CodexWrites, disk, memory, InSource
<1>4. CASE OtherTears \/ BusyTick
  BY <1>2, <1>4 DEF OtherTears, BusyTick, disk, memory
<1>5. CASE LightTick \/ CoordinatorRun
  BY <1>1, <1>5 DEF LightTick, CoordinatorRun, Load
<1>6. CASE Reconcile \/ FileDone \/ Unparsable
  BY <1>1, <1>6 DEF Reconcile, FileDone, Unparsable, disk
<1>7. ASSUME NEW s \in Sessions, Stat(s) PROVE InSource'
  BY <1>1, <1>7 DEF Stat, disk
<1>8. CASE Read
  <2>1. file \in Sessions /\ rollout[file] \in Seq(Lines) /\ rollout' = rollout
        /\ written' = written /\ pending' = [session : {file}, line : Extracted(rollout[file])]
    BY <1>8 DEF Read, disk, Typed, TypeOK
  <2>2. \A l \in Extracted(rollout[file]) : l \in Lines /\ \E i \in DOMAIN rollout[file] : rollout[file][i] = l
    BY <2>1, ExtractedLines DEF Extracted
  <2>3. pending' \subseteq Source
    BY <2>1, <2>2 DEF Source, Keys
  <2> QED
    BY <2>1, <2>3 DEF InSource, Source
<1>9. ASSUME NEW k \in Keys, AppendEvent(k) PROVE InSource'
  BY <1>9 DEF AppendEvent, Unseen, InSource, Source
<1>10. CASE WriteCursor \/ PersistLedger \/ Fail
  BY <1>1, <1>10 DEF WriteCursor, PersistLedger, Fail, Forget
<1>11. CASE UNCHANGED vars
  BY <1>2, <1>11 DEF vars, disk, memory
<1> QED
  BY <1>3, <1>4, <1>5, <1>6, <1>7, <1>8, <1>9, <1>10, <1>11 DEF Next, SyncStep

\* The cursor stands for what has landed, when its marks are backed.
LEMMA DoneLanded ==
  ASSUME Covers(cursor)
  PROVE  Done \subseteq written
<1> SUFFICES ASSUME NEW k \in Done PROVE k \in written
  OBVIOUS
<1>1. k \in Keys /\ k.session \in Sessions
  BY DEF Done, Keys
<1>2. PICK i \in 1 .. cursor[k.session] :
        rollout[k.session][i] = k.line /\ k.line \in Extracted(rollout[k.session])
  BY DEF Done
<1>3. Key(k.session, k.line) \in written
  BY <1>1, <1>2 DEF Covers, Backed
<1> QED
  BY <1>1, <1>3 DEF Key, Keys

LEMMA DoneLandedAfter ==
  ASSUME Covers(cursor)'
  PROVE  Done' \subseteq written'
<1> SUFFICES ASSUME NEW k \in Done' PROVE k \in written'
  OBVIOUS
<1>1. k \in Keys /\ k.session \in Sessions
  BY DEF Done, Keys
<1>2. PICK i \in 1 .. cursor'[k.session] :
        rollout'[k.session][i] = k.line /\ k.line \in Extracted(rollout'[k.session])
  BY DEF Done
<1>3. Key(k.session, k.line) \in written'
  BY <1>1, <1>2 DEF Covers, Backed
<1> QED
  BY <1>1, <1>3 DEF Key, Keys

Repeated == {k \in Keys : copies[k] > 1}

LEMMA InitRefines == Init => I!Init
<1> SUFFICES ASSUME Init PROVE I!Init
  OBVIOUS
<1>1. Source = {} /\ Done = {} /\ Repeated = {}
  BY DEF Init, Source, Done, Keys, NoMarks, Repeated
<1> QED
  BY <1>1 DEF Init, I!Init, Repeated

\* Each step of the adapter is one of Ingestion, or changes nothing that
\* Ingestion sees.
LEMMA NextRefines ==
  IInv /\ IInv' /\ InSource /\ [Next]_vars => [I!Next]_(I!vars)
<1> SUFFICES ASSUME IInv, IInv', InSource, [Next]_vars PROVE I!Next \/ UNCHANGED I!vars
  OBVIOUS
<1>t. Typed /\ Known /\ Counted /\ Reached /\ faults \in Nat /\ faults' \in Nat
  <2>1. Typed /\ Known /\ Counted /\ Reached /\ Typed'
    BY DEF IInv
  <2>2. faults \in 0 .. MaxFaults /\ faults' \in 0 .. MaxFaults
    BY <2>1 DEF Typed, TypeOK
  <2>3. \A n \in 0 .. MaxFaults : n \in Nat
    OBVIOUS
  <2> QED
    BY <2>1, <2>2, <2>3
<1>s. ASSUME UNCHANGED <<rollout, copies, written, cursor, faults>> PROVE UNCHANGED I!vars
  BY <1>s DEF I!vars, Source, Done
<1>f. ASSUME UNCHANGED <<rollout, copies, written>>, faults' = faults + 1,
             cursor' = cursor \/ cursor' = NoMarks
      PROVE  I!Next
  <2>1. Done' \subseteq Done
    <3>1. CASE cursor' = cursor
      BY <1>f, <3>1 DEF Done
    <3>2. CASE cursor' = NoMarks
      <4>1. \A k \in Keys : 1 .. cursor'[k.session] = {}
        BY <3>2 DEF NoMarks, Keys
      <4> QED
        BY <4>1 DEF Done
    <3> QED
      BY <1>f, <3>1, <3>2
  <2>2. (faults' > 0) = TRUE
    BY <1>t, <1>f
  <2>3. I!Fail
    BY <1>f, <2>1, <2>2 DEF I!Fail, Source
  <2> QED
    BY <2>3 DEF I!Next
<1>1. ASSUME NEW s \in Sessions, NEW l \in Lines, CodexWrites(s, l) PROVE I!Next
  <2>1. UNCHANGED <<copies, written, cursor, faults>>
    BY <1>1 DEF CodexWrites, disk
  <2>2. Source \subseteq Source' /\ Source' \subseteq Keys
    BY <1>t, <1>1, SourceGrows DEF Source
  <2>3. Done' \subseteq Done
    <3> SUFFICES ASSUME NEW k \in Done' PROVE k \in Done
      OBVIOUS
    <3>1. k \in Keys /\ k.session \in Sessions
      BY DEF Done, Keys
    <3>2. PICK i \in 1 .. cursor[k.session] :
            rollout'[k.session][i] = k.line /\ k.line \in Extracted(rollout'[k.session])
      BY <2>1 DEF Done
    <3> DEFINE f == rollout[k.session]
    <3>3. f \in Seq(Lines) /\ cursor[k.session] \in Nat /\ cursor[k.session] <= Len(f)
      BY <1>t, <3>1 DEF Typed, TypeOK, Reached, Covers, Backed
    <3>4. i \in 1 .. Len(f)
      BY <3>3
    <3>5. rollout'[k.session] = IF k.session = s THEN Append(f, l) ELSE f
      BY <1>t, <1>1, <3>1 DEF CodexWrites, Typed, TypeOK
    <3>6. f[i] = k.line
      BY <1>t, <1>1, <3>1, <3>2, <3>3, <3>4, SourceGrows
    <3>7. f[i] \in Extracted(f)
      <4> HIDE DEF f
      <4>1. CASE k.session = s
        <5>1. Append(f, l)[i] = f[i]
          BY <3>3, <3>4
        <5> QED
          BY <3>2, <3>3, <3>4, <3>5, <3>6, <4>1, <5>1, ExtractedShrinks
      <4>2. CASE k.session # s
        BY <3>2, <3>5, <3>6, <4>2
      <4> QED
        BY <4>1, <4>2
    <3> QED
      BY <3>1, <3>2, <3>6, <3>7 DEF Done
  <2>4. I!Write
    BY <2>1, <2>2, <2>3 DEF I!Write
  <2> QED
    BY <2>4 DEF I!Next
<1>2. CASE OtherTears \/ Unparsable
  BY <1>f, <1>2 DEF OtherTears, Unparsable, disk
<1>3. CASE LightTick \/ CoordinatorRun \/ BusyTick
  BY <1>s, <1>3 DEF LightTick, CoordinatorRun, Load, BusyTick, disk
<1>4. CASE Reconcile \/ Read \/ FileDone
  BY <1>s, <1>4 DEF Reconcile, Read, FileDone, disk
<1>5. ASSUME NEW s \in Sessions, Stat(s) PROVE UNCHANGED I!vars
  BY <1>s, <1>5 DEF Stat, disk
<1>6. ASSUME NEW k \in Keys, AppendEvent(k) PROVE I!Next \/ UNCHANGED I!vars
  <2>1. UNCHANGED <<rollout, cursor, faults>> /\ written' = written \cup {k}
        /\ k \in Source /\ k \notin seen /\ pc = "appending"
    BY <1>6 DEF AppendEvent, Unseen, InSource
  <2>2. Source' = Source /\ Done' = Done /\ (faults' > 0) = (faults > 0)
    BY <2>1 DEF Source, Done
  <2>3. \/ copies' = copies
        \/ copies' = [copies EXCEPT ![k] = copies[k] + 1]
    BY <1>6 DEF AppendEvent
  <2>4. copies \in [Keys -> Nat] /\ copies[k] <= faults
    BY <1>t, <2>1 DEF Typed, TypeOK, Counted
  <2>5. Repeated' = Repeated \/ (Repeated' = Repeated \cup {k} /\ copies[k] = 1)
    <3>1. CASE copies' = copies
      BY <3>1 DEF Repeated
    <3>2. CASE copies' = [copies EXCEPT ![k] = copies[k] + 1]
      <4>1. \A j \in Keys : copies'[j] = IF j = k THEN copies[k] + 1 ELSE copies[j]
        BY <2>4, <3>2
      <4>2. copies[k] \in Nat
        BY <2>4
      <4>3. CASE copies[k] = 0
        BY <4>1, <4>3 DEF Repeated
      <4>4. CASE copies[k] = 1
        BY <4>1, <4>4 DEF Repeated
      <4>5. CASE copies[k] > 1
        <5>1. copies[k] + 1 > 1
          BY <4>2, <4>5
        <5> QED
          BY <4>1, <4>5, <5>1 DEF Repeated
      <4> QED
        BY <4>2, <4>3, <4>4, <4>5
    <3> QED
      BY <2>3, <3>1, <3>2
  <2>6. CASE k \notin written
    <3>1. copies[k] = 0
      <4>1. k \notin InLog
        BY <1>t, <2>6 DEF Known
      <4> QED
        BY <2>4, <4>1 DEF InLog
    <3>2. Repeated' = Repeated
      BY <2>5, <3>1
    <3>3. I!Land
      BY <2>1, <2>2, <2>6, <3>2 DEF I!Land, Repeated
    <3> QED
      BY <3>3 DEF I!Next
  <2>7. CASE k \in written /\ Repeated' = Repeated
    <3>1. written' = written
      BY <2>1, <2>7
    <3> QED
      BY <2>1, <2>2, <2>7, <3>1 DEF I!vars, Repeated
  <2>8. CASE k \in written /\ Repeated' = Repeated \cup {k} /\ copies[k] = 1
    <3>1. written' = written /\ faults > 0
      BY <1>t, <2>1, <2>4, <2>8
    <3>2. I!Repeat
      BY <2>1, <2>2, <2>8, <3>1 DEF I!Repeat, Repeated
    <3> QED
      BY <3>2 DEF I!Next
  <2> QED
    BY <2>5, <2>6, <2>7, <2>8
<1>7. CASE WriteCursor
  <2>1. UNCHANGED <<rollout, copies, written, faults>>
    BY <1>7 DEF WriteCursor
  <2>2. Covers(cursor)'
    BY DEF IInv, Reached
  <2>3. Done' \subseteq written
    BY <2>1, <2>2, DoneLandedAfter
  <2>4. I!Commit
    BY <2>1, <2>3 DEF I!Commit, Source
  <2> QED
    BY <2>4 DEF I!Next
<1>8. CASE PersistLedger
  BY <1>s, <1>8 DEF PersistLedger
<1>9. CASE Fail
  BY <1>f, <1>9 DEF Fail
<1>10. CASE UNCHANGED vars
  BY <1>s, <1>10 DEF vars, disk
<1> QED
  BY <1>1, <1>2, <1>3, <1>4, <1>5, <1>6, <1>7, <1>8, <1>9, <1>10 DEF Next, SyncStep

\* The Codex adapter implements Ingestion: whatever Codex writes, other writers
\* tear and the sync suffers, a cursor is only saved for events that have landed,
\* and an event is repeated only after a failure.
THEOREM CodexIngests == Spec => I!Spec
<1>1. Spec => [](IInv /\ InSource)
  <2>1. IInv => Typed
    BY DEF IInv
  <2> QED
    BY <2>1, CodexInvariance, InitInSource, NextInSource, PTL DEF Spec
<1> QED
  BY <1>1, InitRefines, NextRefines, PTL DEF Spec, I!Spec

\* What Ingestion promises, said of the Codex adapter.
THEOREM CodexPromise == Spec => []I!Promise
<1>1. IInv /\ InSource => I!Promise
  <2> SUFFICES ASSUME IInv, InSource PROVE I!Promise
    OBVIOUS
  <2>1. Done \subseteq written
    BY DoneLanded DEF IInv, Reached
  <2>2. written \subseteq Source
    BY DEF InSource
  <2>3. ASSUME NEW k \in Keys, copies[k] > 1 PROVE k \in written /\ faults > 0
    <3>1. copies[k] \in Nat /\ copies[k] <= 1 + faults /\ faults \in Nat
      BY DEF IInv, Typed, TypeOK, Counted
    <3>2. k \in InLog /\ faults > 0
      BY <2>3, <3>1 DEF InLog
    <3> QED
      BY <3>2 DEF IInv, Known
  <2> QED
    BY <2>1, <2>2, <2>3 DEF I!Promise
<1>2. Spec => [](IInv /\ InSource)
  <2>1. IInv => Typed
    BY DEF IInv
  <2> QED
    BY <2>1, CodexInvariance, InitInSource, NextInSource, PTL DEF Spec
<1> QED
  BY <1>1, <1>2, PTL
=============================================================================
