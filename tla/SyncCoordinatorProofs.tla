----------------------- MODULE SyncCoordinatorProofs -----------------------
(***************************************************************************)
(* Theorems about SyncCoordinator, for every number of adapters, slots,    *)
(* runs, clock ticks and failing saves.                                    *)
(*                                                                         *)
(* The inductive invariant IInv says who owns a run: an executing run is   *)
(* the activeRunId of its adapter and holds a slot, a queued run is the    *)
(* pendingRunId of an adapter that has no active run.  It is only claimed  *)
(* before shutdown; after it no run starts, so what is true of the         *)
(* executing runs then stays true while they settle.                       *)
(*                                                                         *)
(* Two more invariants rest on it.  RowInv ties the runs in memory to the  *)
(* rows of the table, also when saves fail: outcomes and retained rows are *)
(* stable because of it.  ViewInv, as long as no save has failed, says     *)
(* that adapters, slots, queue and rows all name the same runs.            *)
(***************************************************************************)
EXTENDS SyncCoordinator, FiniteSetTheorems, WellFoundedInduction, TLAPS

USE CoordinatorAssumption DEF CoordinatorAssumption

-----------------------------------------------------------------------------
(* A non-empty set of naturals has a least element. *)
LEMMA LeastNatural ==
    ASSUME NEW T, T \subseteq Nat, T # {}
    PROVE  \E x \in T : \A y \in T : ~(y < x)
<1>1. \E x \in T : \A y \in T : <<y, x>> \notin OpToRel(<, Nat)
  BY NatLessThanWellFounded, WFMin, Zenon
<1>2. PICK x \in T : \A y \in T : <<y, x>> \notin OpToRel(<, Nat)
  BY <1>1
<1>3. ASSUME NEW y \in T PROVE ~(y < x)
  BY <1>2, <1>3 DEF OpToRel
<1> QED BY <1>3

(* A non-empty set of run ids has a greatest element. *)
LEMMA GreatestRunId ==
    ASSUME NEW S, S \subseteq RunIds, S # {}
    PROVE  \E m \in S : \A r \in S : r <= m
<1> DEFINE T == {MaxRuns - m : m \in S}
<1>1. T \subseteq Nat /\ T # {}
  <2>1. ASSUME NEW m \in S PROVE MaxRuns - m \in Nat
    <3>1. MaxRuns \in Nat /\ m \in 1 .. MaxRuns
      BY CoordinatorAssumption DEF RunIds
    <3> QED BY ONLY <3>1
  <2> QED BY ONLY <2>1, S # {}
<1>2. PICK x \in T : \A y \in T : ~(y < x)
  <2> HIDE DEF T
  <2> QED BY <1>1, LeastNatural
<1>3. PICK m \in S : x = MaxRuns - m
  OBVIOUS
<1>4. ASSUME NEW r \in S PROVE r <= m
  <2>1. MaxRuns - r \in T
    OBVIOUS
  <2>2. ~(MaxRuns - r < MaxRuns - m)
    BY <1>2, <1>3, <2>1
  <2> QED BY <2>2 DEF RunIds
<1> QED BY <1>4

(* A set of runs is finite, and a part of it is no larger. *)
LEMMA RunSets ==
    ASSUME NEW S \in SUBSET RunIds
    PROVE  /\ IsFiniteSet(S)
           /\ Cardinality(S) \in Nat
           /\ \A Q \in SUBSET S : Cardinality(Q) <= Cardinality(S)
<1>1. IsFiniteSet(RunIds)
  BY FS_Interval DEF RunIds
<1>2. IsFiniteSet(S)
  BY <1>1, FS_Subset
<1>3. Cardinality(S) \in Nat
  BY <1>2, FS_CardinalityType
<1>4. \A Q \in SUBSET S : Cardinality(Q) <= Cardinality(S)
  BY <1>2, FS_Subset
<1> QED BY <1>2, <1>3, <1>4

(* One more run adds at most one to the size of a set of runs. *)
LEMMA OneMoreRun ==
    ASSUME NEW S \in SUBSET RunIds, NEW r \in RunIds
    PROVE  Cardinality(S \cup {r}) <= Cardinality(S) + 1
<1>1. IsFiniteSet(S) /\ Cardinality(S) \in Nat
  BY RunSets
<1>2. Cardinality(S \cup {r})
         = IF r \in S THEN Cardinality(S) ELSE Cardinality(S) + 1
  BY <1>1, FS_AddElement, Zenon
<1> QED BY <1>1, <1>2

(* refreshFreshness touches no adapter's accepted runs. *)
LEMMA RefreshKeepsRuns ==
    ASSUME TypeOK
    PROVE  /\ RefreshFreshness \in [Adapters -> StateRec]
           /\ \A a \in Adapters :
                /\ RefreshFreshness[a].activeRunId = st[a].activeRunId
                /\ RefreshFreshness[a].pendingRunId = st[a].pendingRunId
BY DEF TypeOK, RefreshFreshness, StateRec, AdapterStatus

-----------------------------------------------------------------------------
(* The initial values have their types. *)
LEMMA ConstantTypes ==
    /\ 1 \in Adapters
    /\ InitialState \in StateRec
    /\ \A on \in BOOLEAN :
          /\ RegisteredState(on) \in StateRec
          /\ RegisteredState(on).activeRunId = 0
          /\ RegisteredState(on).pendingRunId = 0
    /\ \A a \in Adapters : NoRun(a) \in RunRec
    /\ NoRow \in RowRec
    /\ IdleTurn \in TurnRec
    /\ \A rest \in SUBSET Adapters :
          [kind |-> "accept", rest |-> rest] \in TurnRec
    /\ [kind |-> "drain", rest |-> {}] \in TurnRec
<1>1. 1 \in Adapters /\ 0 \in Times /\ 0 \in 0 .. MaxRuns
  BY DEF Adapters, Times
<1>2. InitialState \in StateRec
  BY <1>1 DEF InitialState, StateRec, AdapterStatus
<1>3. \A a \in Adapters : NoRun(a) \in RunRec
  BY <1>1, <1>2 DEF NoRun, RunRec, RunStatus
<1>4. NoRow \in RowRec
  BY <1>1 DEF NoRow, RowRec, RunStatus
<1>5. /\ IdleTurn \in TurnRec
      /\ \A rest \in SUBSET Adapters :
            [kind |-> "accept", rest |-> rest] \in TurnRec
      /\ [kind |-> "drain", rest |-> {}] \in TurnRec
  BY DEF IdleTurn, TurnRec
<1>6. \A on \in BOOLEAN :
         /\ RegisteredState(on) \in StateRec
         /\ RegisteredState(on).activeRunId = 0
         /\ RegisteredState(on).pendingRunId = 0
  BY <1>1 DEF RegisteredState, InitialState, StateRec, AdapterStatus
<1> QED BY <1>1, <1>2, <1>3, <1>4, <1>5, <1>6

(* TypeOK holds initially. *)
LEMMA InitType == Init => TypeOK
<1> SUFFICES ASSUME Init PROVE TypeOK
  OBVIOUS
<1>0. enabled \in [Adapters -> BOOLEAN]
  BY DEF Init, Registered
<1>1. /\ st \in [Adapters -> StateRec]
      /\ runs \in [RunIds -> RunRec]
      /\ persisted \in [RunIds -> RowRec]
      /\ persistedRuns \in [RunIds -> RowRec]
      /\ turn \in TurnRec
  BY <1>0, ConstantTypes DEF Init
<1>2. queuedRunIds \in Seq(RunIds)
  BY DEF Init
<1>3. activeRunIds \in SUBSET RunIds /\ executing \in SUBSET RunIds
  BY DEF Init
<1>4. shuttingDown \in BOOLEAN /\ up \in BOOLEAN
  BY DEF Init
<1>5. /\ runSeq \in 0 .. MaxRuns
      /\ clock \in Times
      /\ saveFailures \in 0 .. MaxSaveFailures
  BY DEF Init, Times
<1> QED BY <1>0, <1>1, <1>2, <1>3, <1>4, <1>5 DEF TypeOK

(* The records the actions write have their types. *)
LEMMA RecordTypes ==
    ASSUME TypeOK, NEW r \in RunIds, NEW a \in Adapters
    PROVE  /\ NewRun(a) \in RunRec
           /\ StartedRun(a) \in RunRec
           /\ \A status \in Terminal : Completed(r, status) \in RunRec
           /\ \A s \in StateRec : Syncing(s, r) \in StateRec
           /\ \A run \in RunRec : Row(run) \in RowRec
<1>1. NewRun(a) \in RunRec /\ StartedRun(a) \in RunRec
  <2>1. RefreshFreshness[a] \in StateRec /\ 0 \in Times
    BY RefreshKeepsRuns DEF Times
  <2> QED BY <2>1 DEF NewRun, StartedRun, RunRec, RunStatus, InFlight
<1>2. \A status \in Terminal : Completed(r, status) \in RunRec
  BY ConstantTypes DEF TypeOK, Completed, RunRec, RunStatus
<1>3. \A s \in StateRec : Syncing(s, r) \in StateRec
  <2>1. r \in 0 .. MaxRuns /\ 0 \in 0 .. MaxRuns
    BY DEF RunIds
  <2>2. "syncing" \in AdapterStatus
    BY DEF AdapterStatus
  <2> QED BY <2>1, <2>2 DEF Syncing, StateRec
<1>4. \A run \in RunRec : Row(run) \in RowRec
  BY DEF Row, RunRec, RowRec
<1> QED BY <1>1, <1>2, <1>3, <1>4

(* The run id AcceptsNew hands out is a run id. *)
LEMMA NextIdType ==
    ASSUME TypeOK, NEW a \in Adapters, AcceptsNew(a)
    PROVE  runSeq + 1 \in RunIds /\ runSeq' \in 0 .. MaxRuns
BY DEF TypeOK, AcceptsNew, RunIds

(* NextAccept and Finally leave turn, and Finally the run sets, well typed.*)
LEMMA TurnTypes ==
    ASSUME TypeOK
    PROVE  /\ \A a \in Adapters : NextAccept(a) => turn' \in TurnRec
           /\ \A r \in RunIds : Finally(r) =>
                /\ turn' \in TurnRec
                /\ activeRunIds' \in SUBSET RunIds
                /\ executing' \in SUBSET RunIds
<1>1. ASSUME NEW a \in Adapters, NextAccept(a) PROVE turn' \in TurnRec
  <2>1. CASE turn.rest = {a}
    BY <1>1, <2>1, ConstantTypes DEF NextAccept
  <2>2. CASE turn.rest # {a}
    BY <1>1, <2>2 DEF TypeOK, NextAccept, TurnRec
  <2> QED BY <2>1, <2>2
<1>2. \A r \in RunIds : Finally(r) => turn' \in TurnRec
  BY ConstantTypes DEF Finally
<1>3. \A r \in RunIds : Finally(r) => /\ activeRunIds' \in SUBSET RunIds
                                      /\ executing' \in SUBSET RunIds
  BY DEF TypeOK, Finally
<1> QED BY <1>1, <1>2, <1>3

(* The first run id of a new process is a run id or 0. *)
LEMMA FirstRunSeqType == FirstRunSeq \in 0 .. MaxRuns
<1>1. CASE Loaded = {}
  BY <1>1 DEF FirstRunSeq
<1>2. CASE Loaded # {}
  <2>1. Loaded \subseteq RunIds
    BY DEF Loaded
  <2>2. \E m \in Loaded : \A r \in Loaded : r <= m
    BY <1>2, <2>1, GreatestRunId
  <2>3. FirstRunSeq \in Loaded
    BY <1>2, <2>2 DEF FirstRunSeq
  <2> QED BY <2>1, <2>3 DEF RunIds
<1> QED BY <1>1, <1>2

-----------------------------------------------------------------------------
(* Every step of the coordinator keeps TypeOK. *)
LEMMA TypeStep == TypeOK /\ [Next]_vars => TypeOK'
<1> SUFFICES ASSUME TypeOK, [Next]_vars PROVE TypeOK'
  OBVIOUS
<1> USE DEF env
<1>1. ASSUME NEW targets \in SUBSET Adapters, ManualSync(targets)
      PROVE  TypeOK'
  <2>1. turn' \in TurnRec
    BY <1>1, ConstantTypes DEF ManualSync
  <2> QED BY <1>1, <2>1 DEF TypeOK, ManualSync
<1>2. ASSUME NEW a \in Adapters, AcceptRefused(a) PROVE TypeOK'
  BY <1>2, RefreshKeepsRuns, ConstantTypes DEF TypeOK, AcceptRefused
<1>3. ASSUME NEW a \in Adapters, AcceptCoalesced(a) PROVE TypeOK'
  BY <1>3, RefreshKeepsRuns, TurnTypes DEF TypeOK, AcceptCoalesced
<1>4. ASSUME NEW a \in Adapters, AcceptStarted(a) PROVE TypeOK'
  <2> DEFINE r == runSeq + 1
  <2>1. r \in RunIds /\ runSeq' \in 0 .. MaxRuns
    BY <1>4, NextIdType DEF AcceptStarted
  <2>2. /\ StartedRun(a) \in RunRec
        /\ Row(StartedRun(a)) \in RowRec
        /\ \A t \in StateRec : Syncing(t, r) \in StateRec
    BY <2>1, RecordTypes
  <2>3. runs' \in [RunIds -> RunRec] /\ persisted' \in [RunIds -> RowRec]
    BY <1>4, <2>1, <2>2 DEF TypeOK, AcceptStarted
  <2>4. st' \in [Adapters -> StateRec]
    BY <1>4, <2>1, <2>2, RefreshKeepsRuns DEF AcceptStarted
  <2>5. /\ activeRunIds' \in SUBSET RunIds
        /\ executing' \in SUBSET RunIds
        /\ turn' \in TurnRec
    BY <1>4, <2>1, TurnTypes DEF TypeOK, AcceptStarted
  <2> QED BY <1>4, <2>1, <2>3, <2>4, <2>5 DEF TypeOK, AcceptStarted
<1>5. ASSUME NEW a \in Adapters, AcceptQueued(a) PROVE TypeOK'
  <2> DEFINE r == runSeq + 1
  <2>1. r \in RunIds /\ runSeq' \in 0 .. MaxRuns
    BY <1>5, NextIdType DEF AcceptQueued
  <2>2. NewRun(a) \in RunRec /\ Row(NewRun(a)) \in RowRec
    BY <2>1, RecordTypes
  <2>3. runs' \in [RunIds -> RunRec] /\ persisted' \in [RunIds -> RowRec]
    BY <1>5, <2>1, <2>2 DEF TypeOK, AcceptQueued
  <2>4. st' \in [Adapters -> StateRec]
    <3>1. r \in 0 .. MaxRuns /\ "queued" \in AdapterStatus
      BY <2>1 DEF RunIds, AdapterStatus
    <3> HIDE DEF r
    <3> QED BY <1>5, <3>1, RefreshKeepsRuns DEF AcceptQueued, StateRec, r
  <2>5. queuedRunIds' \in Seq(RunIds) /\ turn' \in TurnRec
    BY <1>5, <2>1, TurnTypes DEF TypeOK, AcceptQueued, Enqueue
  <2> QED BY <1>5, <2>1, <2>3, <2>4, <2>5 DEF TypeOK, AcceptQueued
<1>6. ASSUME NEW a \in Adapters, AcceptSaveFails(a) PROVE TypeOK'
  <2>1. runSeq + 1 \in RunIds /\ runSeq' \in 0 .. MaxRuns
    BY <1>6, NextIdType DEF AcceptSaveFails
  <2>2. runs' \in [RunIds -> RunRec]
    BY <1>6, <2>1, RecordTypes DEF TypeOK, AcceptSaveFails
  <2>3. saveFailures' \in 0 .. MaxSaveFailures
    BY <1>6 DEF TypeOK, AcceptSaveFails, SaveFails
  <2> QED BY <1>6, <2>1, <2>2, <2>3, RefreshKeepsRuns, ConstantTypes
          DEF TypeOK, AcceptSaveFails, SaveFails
<1>7. ASSUME NEW a \in Adapters, AcceptStartSaveFails(a) PROVE TypeOK'
  <2> DEFINE r == runSeq + 1
  <2>1. r \in RunIds /\ runSeq' \in 0 .. MaxRuns
    BY <1>7, NextIdType DEF AcceptStartSaveFails
  <2>2. /\ StartedRun(a) \in RunRec
        /\ Row(NewRun(a)) \in RowRec
        /\ \A t \in StateRec : Syncing(t, r) \in StateRec
    BY <2>1, RecordTypes
  <2>3. runs' \in [RunIds -> RunRec] /\ persisted' \in [RunIds -> RowRec]
    BY <1>7, <2>1, <2>2 DEF TypeOK, AcceptStartSaveFails
  <2>4. st' \in [Adapters -> StateRec]
    BY <1>7, <2>1, <2>2, RefreshKeepsRuns DEF AcceptStartSaveFails
  <2>5. saveFailures' \in 0 .. MaxSaveFailures
    BY <1>7 DEF TypeOK, AcceptStartSaveFails, SaveFails
  <2> QED BY <1>7, <2>1, <2>3, <2>4, <2>5, ConstantTypes
          DEF TypeOK, AcceptStartSaveFails, SaveFails
<1>8. ASSUME NEW r \in RunIds, Timeout(r) PROVE TypeOK'
  <2>1. [runs[r] EXCEPT !.aborted = TRUE] \in RunRec
    BY DEF TypeOK, RunRec
  <2>2. runs' \in [RunIds -> RunRec]
    BY <1>8, <2>1 DEF TypeOK, Timeout
  <2> QED BY <1>8, <2>2 DEF TypeOK, Timeout
<1>9. ASSUME NEW r \in RunIds, SettleIgnored(r) PROVE TypeOK'
  BY <1>9, TurnTypes DEF TypeOK, SettleIgnored
<1>10. ASSUME NEW r \in RunIds, SettleSuccess(r) PROVE TypeOK'
  <2>1. /\ Completed(r, "succeeded") \in RunRec
        /\ Row(Completed(r, "succeeded")) \in RowRec
    BY ConstantTypes, RecordTypes DEF Terminal
  <2>2. runs' \in [RunIds -> RunRec] /\ persisted' \in [RunIds -> RowRec]
    BY <1>10, <2>1 DEF TypeOK, SettleSuccess
  <2>3. [status |-> "ready", activeRunId |-> 0, pendingRunId |-> 0,
         lastSuccessfulAt |-> clock] \in StateRec
    BY DEF TypeOK, StateRec, AdapterStatus
  <2>4. st' \in [Adapters -> StateRec]
    BY <1>10, <2>3 DEF TypeOK, SettleSuccess
  <2> QED BY <1>10, <2>2, <2>4, TurnTypes DEF TypeOK, SettleSuccess
<1>11. ASSUME NEW r \in RunIds, SettleFailure(r) PROVE TypeOK'
  <2>1. /\ Completed(r, "failed") \in RunRec
        /\ Row(Completed(r, "failed")) \in RowRec
    BY ConstantTypes, RecordTypes DEF Terminal
  <2>2. runs' \in [RunIds -> RunRec] /\ persisted' \in [RunIds -> RowRec]
    BY <1>11, <2>1 DEF TypeOK, SettleFailure
  <2>3. \A status \in {"error", "stale"}, a \in Adapters :
           [status |-> status, activeRunId |-> 0, pendingRunId |-> 0,
            lastSuccessfulAt |-> st[a].lastSuccessfulAt] \in StateRec
    BY DEF TypeOK, StateRec, AdapterStatus
  <2>4. runs[r].adapter \in Adapters /\ Completed(r, "failed").adapter = runs[r].adapter
    BY DEF TypeOK, RunRec, Completed
  <2>5. st' \in [Adapters -> StateRec]
    BY <1>11, <2>3, <2>4 DEF TypeOK, SettleFailure
  <2> QED BY <1>11, <2>2, <2>5, TurnTypes DEF TypeOK, SettleFailure
<1>12. ASSUME NEW r \in RunIds, SettleSaveFails(r) PROVE TypeOK'
  <2>1. /\ Completed(r, "succeeded") \in RunRec
        /\ Completed(r, "failed") \in RunRec
    BY ConstantTypes, RecordTypes DEF Terminal
  <2>2. runs' \in [RunIds -> RunRec]
    BY <1>12, <2>1 DEF TypeOK, SettleSaveFails
  <2>3. saveFailures' \in 0 .. MaxSaveFailures
    BY <1>12 DEF TypeOK, SettleSaveFails, SaveFails
  <2> QED BY <1>12, <2>2, <2>3, TurnTypes
          DEF TypeOK, SettleSaveFails, SaveFails
<1>13. ASSUME DrainStart PROVE TypeOK'
  <2> DEFINE r == Head(queuedRunIds)
             run == [runs[r] EXCEPT !.status = "syncing"]
  <2>1. r \in RunIds /\ queuedRunIds' \in Seq(RunIds)
    BY <1>13 DEF TypeOK, DrainStart
  <2>2. run \in RunRec /\ run.adapter \in Adapters
    BY <2>1 DEF TypeOK, RunRec, RunStatus, InFlight
  <2>3. /\ Row(run) \in RowRec
        /\ \A t \in StateRec : Syncing(t, r) \in StateRec
    BY <2>1, <2>2, ConstantTypes, RecordTypes
  <2>4. runs' = [runs EXCEPT ![r] = run]
    BY <1>13 DEF DrainStart
  <2>5. persisted' = [persisted EXCEPT ![r] = Row(run)]
    BY <1>13 DEF DrainStart
  <2>6. st' = [st EXCEPT ![run.adapter] = Syncing(@, r)]
    BY <1>13 DEF DrainStart
  <2> HIDE DEF r, run
  <2>7. /\ runs' \in [RunIds -> RunRec]
        /\ persisted' \in [RunIds -> RowRec]
        /\ st' \in [Adapters -> StateRec]
    BY <2>1, <2>2, <2>3, <2>4, <2>5, <2>6 DEF TypeOK
  <2>8. activeRunIds' \in SUBSET RunIds /\ executing' \in SUBSET RunIds
    BY <1>13, <2>1 DEF TypeOK, DrainStart, r
  <2> QED BY <1>13, <2>1, <2>7, <2>8 DEF TypeOK, DrainStart
<1>14. ASSUME DrainDone PROVE TypeOK'
  BY <1>14, ConstantTypes DEF TypeOK, DrainDone
<1>15. ASSUME Shutdown PROVE TypeOK'
  <2>1. \A r \in RunIds : /\ Completed(r, "aborted") \in RunRec
                          /\ Row(Completed(r, "aborted")) \in RowRec
    BY ConstantTypes, RecordTypes DEF Terminal
  <2>2. runs' \in [RunIds -> RunRec] /\ persisted' \in [RunIds -> RowRec]
    BY <1>15, <2>1 DEF TypeOK, Shutdown, AbortRuns
  <2>3. st' \in [Adapters -> StateRec]
    <3> DEFINE ofA(a) == {r \in {q \in Accepted : runs[q].status \in InFlight} :
                             runs[r].adapter = a}
    <3>1. \A a \in Adapters : ofA(a) # {} =>
             Restored(a, CHOOSE r \in ofA(a) : TRUE) \in StateRec
      <4>1. \A a \in Adapters : ofA(a) \subseteq RunIds
        BY DEF TypeOK, Accepted, Queued
      <4>2. \A r \in RunIds, a \in Adapters : Restored(a, r) \in StateRec
        BY DEF TypeOK, Restored, RunRec
      <4> HIDE DEF ofA
      <4> QED BY <4>1, <4>2
    <3>2. st' = [a \in Adapters |->
                   IF ofA(a) = {} THEN st[a]
                   ELSE Restored(a, CHOOSE r \in ofA(a) : TRUE)]
      BY <1>15 DEF Shutdown, AbortRuns
    <3> HIDE DEF ofA
    <3> QED BY <3>1, <3>2 DEF TypeOK
  <2> QED BY <1>15, <2>2, <2>3 DEF TypeOK, Shutdown
<1>16. ASSUME NEW r \in RunIds, ShutdownSaveFails(r) PROVE TypeOK'
  <2>1. runs' \in [RunIds -> RunRec]
    BY <1>16, ConstantTypes, RecordTypes
       DEF TypeOK, ShutdownSaveFails, Terminal
  <2>2. saveFailures' \in 0 .. MaxSaveFailures
    BY <1>16 DEF TypeOK, ShutdownSaveFails, SaveFails
  <2> QED BY <1>16, <2>1, <2>2 DEF TypeOK, ShutdownSaveFails, SaveFails
<1>17. ASSUME GetStatus PROVE TypeOK'
  <2>1. /\ runs' \in [RunIds -> RunRec]
        /\ persistedRuns' \in [RunIds -> RowRec]
        /\ persisted' \in [RunIds -> RowRec]
    <3>1. \A r \in RunIds : NoRun(runs[r].adapter) \in RunRec
      BY ConstantTypes DEF TypeOK, RunRec
    <3> QED BY <1>17, <3>1, ConstantTypes DEF TypeOK, GetStatus
  <2> QED BY <1>17, <2>1, RefreshKeepsRuns DEF TypeOK, GetStatus
<1>18. ASSUME NEW a \in Adapters, NEW on \in BOOLEAN, SetEnabled(a, on)
       PROVE  TypeOK'
  <2>1. enabled' \in [Adapters -> BOOLEAN]
    BY <1>18, Zenon DEF TypeOK, SetEnabled
  <2>2. st' \in [Adapters -> StateRec]
    <3>1. PICK status \in AdapterStatus :
             st' = [st EXCEPT ![a].status = status]
      BY <1>18 DEF SetEnabled, AdapterStatus
    <3> QED BY <3>1 DEF TypeOK, StateRec
  <2> QED BY <1>18, <2>1, <2>2 DEF TypeOK, SetEnabled
<1>19. ASSUME NEW a \in Adapters, MarkBackgroundSuccess(a) PROVE TypeOK'
  <2>1. st' \in [Adapters -> StateRec]
    BY <1>19 DEF TypeOK, MarkBackgroundSuccess, StateRec, AdapterStatus
  <2> QED BY <1>19, <2>1 DEF TypeOK, MarkBackgroundSuccess
<1>20. CASE Tick
  BY <1>20 DEF TypeOK, Tick, mem, Times
<1>21. CASE Die /\ clock' = clock /\ saveFailures' \in 0 .. MaxSaveFailures
  <2>0. enabled' \in [Adapters -> BOOLEAN]
    BY <1>21 DEF Die, Registered
  <2>1. /\ st' \in [Adapters -> StateRec]
        /\ runs' \in [RunIds -> RunRec]
        /\ persistedRuns' \in [RunIds -> RowRec]
        /\ turn' \in TurnRec
    BY <1>21, <2>0, ConstantTypes DEF Die
  <2>2. queuedRunIds' \in Seq(RunIds)
    BY <1>21 DEF Die
  <2>3. shuttingDown' \in BOOLEAN /\ up' \in BOOLEAN
    BY <1>21 DEF Die
  <2>4. /\ activeRunIds' \in SUBSET RunIds
        /\ executing' \in SUBSET RunIds
        /\ runSeq' \in 0 .. MaxRuns
    BY <1>21 DEF Die
  <2> QED BY <1>21, <2>0, <2>1, <2>2, <2>3, <2>4 DEF TypeOK, Die
<1>22. CASE Crash
  BY <1>21, <1>22 DEF TypeOK, Crash
<1>23. CASE SaveFailureKills
  BY <1>21, <1>23 DEF TypeOK, SaveFailureKills, SaveFails
<1>24. CASE Restart
  <2>1. \A r \in RunIds : LoadedRow(r) \in RowRec
    BY DEF TypeOK, LoadedRow, RowRec, RunStatus, Terminal
  <2>2. /\ persisted' \in [RunIds -> RowRec]
        /\ persistedRuns' \in [RunIds -> RowRec]
    BY <1>24, <2>1, ConstantTypes DEF TypeOK, Restart
  <2> QED BY <1>24, <2>2, FirstRunSeqType DEF TypeOK, Restart
<1>25. CASE UNCHANGED vars
  BY <1>25 DEF TypeOK, vars, mem
<1>26. \A a \in Adapters : Trigger(a) => TypeOK'
  BY <1>1 DEF Trigger
<1>27. TriggerAll => TypeOK'
  BY <1>1 DEF TriggerAll
<1>28. \A a \in Toggleable : a \in Adapters
  BY DEF Adapters
<1> QED
  BY <1>2, <1>3, <1>4, <1>5, <1>6, <1>7, <1>8, <1>9, <1>10, <1>11, <1>12,
     <1>13, <1>14, <1>15, <1>16, <1>17, <1>18, <1>19, <1>20, <1>22, <1>23,
     <1>24, <1>25, <1>26, <1>27, <1>28
     DEF Next, Accept, Settle, DrainQueue

(* Every variable of the coordinator keeps its type. *)
THEOREM TypeCorrect == Spec => []TypeOK
BY InitType, TypeStep, PTL DEF Spec

-----------------------------------------------------------------------------
(* The inductive invariant. *)
SlotsBounded == Cardinality(activeRunIds) <= Concurrency

ExecutingHoldsSlot == ~shuttingDown => executing \subseteq activeRunIds

ExecutingOwned ==
    ~shuttingDown =>
        \A r \in executing : st[runs[r].adapter].activeRunId = r

QueueOwned ==
    \A i \in DOMAIN queuedRunIds :
        LET owner == st[runs[queuedRunIds[i]].adapter] IN
        owner.pendingRunId = queuedRunIds[i] /\ owner.activeRunId = 0

QueueDistinct ==
    \A i, j \in DOMAIN queuedRunIds :
        queuedRunIds[i] = queuedRunIds[j] => i = j

IdsHandedOut ==
    /\ \A r \in executing : r <= runSeq
    /\ \A i \in DOMAIN queuedRunIds : queuedRunIds[i] <= runSeq

ShutdownIsQuiet ==
    shuttingDown => turn.kind = "idle" /\ queuedRunIds = << >>

WaitersSeeFullSlots ==
    (turn.kind # "drain" /\ queuedRunIds # << >>) => ~SlotFree

DeadIsEmpty ==
    ~up => executing = {} /\ queuedRunIds = << >> /\ ~shuttingDown

IInv ==
    /\ TypeOK
    /\ SlotsBounded
    /\ ExecutingHoldsSlot
    /\ ExecutingOwned
    /\ QueueOwned
    /\ QueueDistinct
    /\ IdsHandedOut
    /\ ShutdownIsQuiet
    /\ WaitersSeeFullSlots
    /\ DeadIsEmpty
    /\ ExecutingLimit
    /\ NoOverlap

LEMMA InitIInv == Init => IInv
<1> SUFFICES ASSUME Init PROVE IInv
  OBVIOUS
<1>1. TypeOK
  BY InitType
<1>2. Cardinality({}) = 0
  BY FS_EmptySet
<1>3. SlotsBounded /\ ExecutingLimit
  BY <1>2 DEF Init, SlotsBounded, ExecutingLimit
<1>4. /\ ExecutingHoldsSlot /\ ExecutingOwned /\ QueueOwned /\ QueueDistinct
      /\ IdsHandedOut /\ ShutdownIsQuiet /\ WaitersSeeFullSlots
      /\ DeadIsEmpty /\ NoOverlap
  BY DEF Init, ExecutingHoldsSlot, ExecutingOwned, QueueOwned, QueueDistinct,
         IdsHandedOut, ShutdownIsQuiet, WaitersSeeFullSlots, DeadIsEmpty,
         NoOverlap
<1> QED BY <1>1, <1>3, <1>4 DEF IInv

(* The ids in the queue are run ids of adapters. *)
LEMMA QueueTypes ==
    ASSUME TypeOK
    PROVE  /\ \A i \in DOMAIN queuedRunIds : queuedRunIds[i] \in RunIds
           /\ \A r \in RunIds : runs[r].adapter \in Adapters
           /\ \A r \in RunIds : r \in Int /\ r # 0
<1>1. \A i \in DOMAIN queuedRunIds : queuedRunIds[i] \in RunIds
  BY DEF TypeOK
<1>2. \A r \in RunIds : runs[r].adapter \in Adapters
  BY DEF TypeOK, RunRec
<1> QED BY <1>1, <1>2 DEF RunIds

(* A step that leaves the owners of the accepted runs alone keeps IInv. *)
LEMMA QuietStep ==
    ASSUME IInv, TypeOK',
           UNCHANGED <<queuedRunIds, activeRunIds, executing, shuttingDown>>,
           \A a \in Adapters : /\ st'[a].activeRunId = st[a].activeRunId
                               /\ st'[a].pendingRunId = st[a].pendingRunId,
           \A r \in RunIds :
               r <= runSeq => runs'[r].adapter = runs[r].adapter,
           runSeq <= runSeq',
           shuttingDown => turn'.kind = "idle",
           turn.kind # "drain" \/ turn'.kind = "drain" \/ ~SlotFree
                \/ queuedRunIds = << >>,
           up' = up
    PROVE  IInv'
<1>1. SlotsBounded' /\ ExecutingLimit' /\ ExecutingHoldsSlot'
  BY DEF IInv, SlotsBounded, ExecutingLimit, ExecutingHoldsSlot
<1>2. /\ \A r \in executing : r \in RunIds /\ r <= runSeq
      /\ \A i \in DOMAIN queuedRunIds : queuedRunIds[i] \in RunIds
                                        /\ queuedRunIds[i] <= runSeq
  BY QueueTypes DEF IInv, TypeOK, IdsHandedOut
<1>3. ExecutingOwned' /\ NoOverlap'
  BY <1>2, QueueTypes DEF IInv, ExecutingOwned, NoOverlap
<1>4. QueueOwned'
  BY <1>2, QueueTypes DEF IInv, QueueOwned
<1>5. QueueDistinct' /\ ShutdownIsQuiet' /\ DeadIsEmpty'
  BY DEF IInv, QueueDistinct, ShutdownIsQuiet, DeadIsEmpty
<1>6. IdsHandedOut'
  BY <1>2 DEF IInv, TypeOK, IdsHandedOut, RunIds
<1>7. WaitersSeeFullSlots'
  BY DEF IInv, WaitersSeeFullSlots, SlotFree
<1> QED BY <1>1, <1>3, <1>4, <1>5, <1>6, <1>7 DEF IInv

(* A step that starts run r of adapter a, which has no active run, on a    *)
(* free slot keeps IInv, if no run that stays queued is of that adapter.   *)
LEMMA StartStep ==
    ASSUME IInv, TypeOK', NEW r \in RunIds, NEW a \in Adapters,
           ~shuttingDown, UNCHANGED shuttingDown, up' = up,
           SlotFree, st[a].activeRunId = 0, up,
           runs'[r].adapter = a, st'[a].activeRunId = r,
           \A q \in RunIds :
               q <= runSeq /\ q # r => runs'[q].adapter = runs[q].adapter,
           \A b \in Adapters \ {a} :
               st'[b].activeRunId = st[b].activeRunId,
           activeRunIds' = activeRunIds \cup {r},
           executing' \in {executing, executing \cup {r}},
           QueueOwned', QueueDistinct', IdsHandedOut', WaitersSeeFullSlots'
    PROVE  IInv'
<1>1. SlotsBounded'
  <2>1. activeRunIds \in SUBSET RunIds /\ activeRunIds' \in SUBSET RunIds
    BY DEF IInv, TypeOK
  <2>2. /\ Cardinality(activeRunIds) \in Nat
        /\ Cardinality(activeRunIds') \in Nat
        /\ Cardinality(activeRunIds \cup {r}) <= Cardinality(activeRunIds) + 1
    BY <2>1, RunSets, OneMoreRun
  <2> QED BY <2>2 DEF SlotsBounded, SlotFree
<1>2. ExecutingHoldsSlot'
  BY DEF IInv, ExecutingHoldsSlot
<1>3. ExecutingLimit'
  <2>1. executing' \subseteq activeRunIds' /\ activeRunIds' \in SUBSET RunIds
    BY <1>2 DEF ExecutingHoldsSlot, TypeOK
  <2>2. /\ Cardinality(executing') <= Cardinality(activeRunIds')
        /\ Cardinality(activeRunIds') \in Nat
        /\ Cardinality(executing') \in Nat
    <3>1. executing' \in SUBSET RunIds
      BY <2>1
    <3> QED BY <2>1, <3>1, RunSets
  <2> QED BY <1>1, <2>2 DEF SlotsBounded, ExecutingLimit
<1>4. \A q \in executing : q \in RunIds /\ q <= runSeq
                           /\ st[runs[q].adapter].activeRunId = q
  BY DEF IInv, TypeOK, IdsHandedOut, ExecutingOwned
<1>5. \A q \in executing : runs[q].adapter # a /\ runs[q].adapter \in Adapters
  BY <1>4, QueueTypes DEF IInv
<1>6. ExecutingOwned'
  <2>1. ASSUME NEW q \in executing' PROVE st'[runs'[q].adapter].activeRunId = q
    <3>1. CASE q = r
      BY <3>1
    <3>2. CASE q # r
      <4>1. q \in executing
        BY <2>1, <3>2
      <4> QED BY <1>4, <1>5, <3>2, <4>1
    <3> QED BY <3>1, <3>2
  <2> QED BY <2>1 DEF ExecutingOwned
<1>7. NoOverlap'
  <2>1. ASSUME NEW p \in executing', NEW q \in executing', p # q
        PROVE  runs'[p].adapter # runs'[q].adapter
    BY <1>6, <2>1 DEF ExecutingOwned
  <2> QED BY <2>1 DEF NoOverlap
<1>8. ShutdownIsQuiet' /\ DeadIsEmpty'
  BY DEF ShutdownIsQuiet, DeadIsEmpty
<1> QED BY <1>1, <1>2, <1>3, <1>6, <1>7, <1>8 DEF IInv

(* A step in which executing run r settles keeps IInv, whatever it writes  *)
(* to the state of that run's adapter.                                     *)
LEMMA SettleStep ==
    ASSUME IInv, TypeOK', NEW r \in executing, Finally(r),
           UNCHANGED <<queuedRunIds, shuttingDown, runSeq, up>>,
           \A q \in RunIds : runs'[q].adapter = runs[q].adapter,
           \A b \in Adapters \ {runs[r].adapter} : st'[b] = st[b]
    PROVE  IInv'
<1>1. r \in RunIds /\ executing' = executing \ {r}
      /\ activeRunIds' = activeRunIds \ {r}
  BY DEF IInv, TypeOK, Finally
<1>2. SlotsBounded' /\ ExecutingLimit'
  <2>1. /\ Cardinality(activeRunIds') <= Cardinality(activeRunIds)
        /\ Cardinality(activeRunIds') \in Nat
        /\ Cardinality(activeRunIds) \in Nat
    BY <1>1, RunSets DEF IInv, TypeOK
  <2>2. /\ Cardinality(executing') <= Cardinality(executing)
        /\ Cardinality(executing') \in Nat
        /\ Cardinality(executing) \in Nat
    BY <1>1, RunSets DEF IInv, TypeOK
  <2> QED BY <2>1, <2>2 DEF IInv, SlotsBounded, ExecutingLimit
<1>3. ExecutingHoldsSlot'
  BY <1>1 DEF IInv, ExecutingHoldsSlot
<1>4. ExecutingOwned' /\ NoOverlap'
  <2>1. \A q \in executing' : /\ q \in executing /\ q # r
                              /\ q \in RunIds
                              /\ runs'[q].adapter = runs[q].adapter
                              /\ runs[q].adapter \in Adapters
    BY <1>1, QueueTypes DEF IInv, TypeOK
  <2>2. NoOverlap'
    BY <2>1 DEF IInv, NoOverlap
  <2>3. ExecutingOwned'
    <3>1. \A q \in executing' : runs[q].adapter # runs[r].adapter
      BY <2>1 DEF IInv, NoOverlap
    <3> QED BY <2>1, <3>1 DEF IInv, ExecutingOwned
  <2> QED BY <2>2, <2>3
<1>5. QueueOwned'
  <2>1. CASE shuttingDown
    BY <2>1 DEF IInv, ShutdownIsQuiet, QueueOwned
  <2>2. CASE ~shuttingDown
    <3>1. st[runs[r].adapter].activeRunId = r /\ r # 0
      BY <1>1, <2>2, QueueTypes DEF IInv, ExecutingOwned
    <3>2. \A i \in DOMAIN queuedRunIds :
             /\ queuedRunIds[i] \in RunIds
             /\ runs[queuedRunIds[i]].adapter \in Adapters
             /\ runs[queuedRunIds[i]].adapter # runs[r].adapter
      BY <3>1, QueueTypes DEF IInv, QueueOwned
    <3> QED BY <3>2 DEF IInv, QueueOwned
  <2> QED BY <2>1, <2>2
<1>6. QueueDistinct' /\ IdsHandedOut' /\ DeadIsEmpty'
  BY <1>1 DEF IInv, QueueDistinct, IdsHandedOut, DeadIsEmpty
<1>7. ShutdownIsQuiet' /\ WaitersSeeFullSlots'
  BY DEF IInv, ShutdownIsQuiet, WaitersSeeFullSlots, Finally, IdleTurn
<1> QED BY <1>2, <1>3, <1>4, <1>5, <1>6, <1>7 DEF IInv

(* The step that begins shutdown keeps IInv: nothing starts from then on. *)
LEMMA ShutdownStep ==
    ASSUME IInv, TypeOK', Idle, shuttingDown', queuedRunIds' = << >>,
           activeRunIds' \subseteq activeRunIds,
           UNCHANGED <<executing, runSeq, turn, up>>,
           \A q \in RunIds : runs'[q].adapter = runs[q].adapter
    PROVE  IInv'
<1>1. SlotsBounded'
  <2>1. /\ Cardinality(activeRunIds') <= Cardinality(activeRunIds)
        /\ Cardinality(activeRunIds') \in Nat
        /\ Cardinality(activeRunIds) \in Nat
    BY RunSets DEF IInv, TypeOK
  <2> QED BY <2>1 DEF IInv, SlotsBounded
<1>2. ExecutingLimit' /\ NoOverlap'
  BY DEF IInv, TypeOK, ExecutingLimit, NoOverlap
<1>3. QueueOwned' /\ QueueDistinct' /\ WaitersSeeFullSlots'
  BY DEF QueueOwned, QueueDistinct, WaitersSeeFullSlots
<1>4. IdsHandedOut' /\ DeadIsEmpty' /\ ShutdownIsQuiet'
  BY DEF IInv, IdsHandedOut, DeadIsEmpty, ShutdownIsQuiet, Idle
<1>5. ExecutingHoldsSlot' /\ ExecutingOwned'
  BY DEF ExecutingHoldsSlot, ExecutingOwned
<1> QED BY <1>1, <1>2, <1>3, <1>4, <1>5 DEF IInv

(* A process that runs nothing and has nothing queued satisfies IInv. *)
LEMMA EmptyStep ==
    ASSUME TypeOK', SlotsBounded', executing' = {}, queuedRunIds' = << >>,
           shuttingDown' = FALSE
    PROVE  IInv'
<1>1. ExecutingLimit' /\ NoOverlap'
  BY FS_EmptySet DEF ExecutingLimit, NoOverlap
<1>2. QueueOwned' /\ QueueDistinct' /\ WaitersSeeFullSlots'
  BY DEF QueueOwned, QueueDistinct, WaitersSeeFullSlots
<1>3. IdsHandedOut' /\ DeadIsEmpty' /\ ShutdownIsQuiet'
  BY DEF IdsHandedOut, DeadIsEmpty, ShutdownIsQuiet
<1>4. ExecutingHoldsSlot' /\ ExecutingOwned'
  BY DEF ExecutingHoldsSlot, ExecutingOwned
<1> QED BY <1>1, <1>2, <1>3, <1>4 DEF IInv

(* Every step of the coordinator keeps IInv. *)
LEMMA InvariantStep == IInv /\ [Next]_vars => IInv'
<1> SUFFICES ASSUME IInv, [Next]_vars PROVE IInv'
  OBVIOUS
<1> USE DEF env
<1>0. TypeOK /\ TypeOK'
  BY TypeStep DEF IInv
<1>a. \A a \in Adapters :
        /\ RefreshFreshness[a].activeRunId = st[a].activeRunId
        /\ RefreshFreshness[a].pendingRunId = st[a].pendingRunId
  BY <1>0, RefreshKeepsRuns
<1>b. runSeq \in Nat /\ RefreshFreshness \in [Adapters -> StateRec]
  BY <1>0, RefreshKeepsRuns DEF TypeOK
<1>1. ASSUME NEW targets \in SUBSET Adapters, ManualSync(targets)
      PROVE  IInv'
  BY <1>0, <1>1, <1>b, QuietStep DEF ManualSync, Idle
<1>2. ASSUME NEW a \in Adapters, AcceptRefused(a) PROVE IInv'
  BY <1>0, <1>2, <1>a, <1>b, QuietStep
     DEF AcceptRefused, Accepting, IdleTurn
<1>c. ASSUME NEW a \in Adapters, Accepting(a)
      PROVE  ~shuttingDown /\ turn.kind # "drain" /\ up
  BY <1>c DEF IInv, ShutdownIsQuiet, Accepting
<1>3. ASSUME NEW a \in Adapters, AcceptCoalesced(a) PROVE IInv'
  BY <1>0, <1>3, <1>a, <1>b, <1>c, QuietStep DEF AcceptCoalesced
<1>d. ASSUME NEW a \in Adapters, AcceptsNew(a)
      PROVE  /\ runSeq + 1 \in RunIds /\ runSeq' = runSeq + 1
             /\ st[a].activeRunId = 0 /\ st[a].pendingRunId = 0
             /\ ~shuttingDown /\ turn.kind # "drain" /\ up
             /\ runSeq + 1 \notin executing
             /\ \A i \in DOMAIN queuedRunIds :
                   /\ queuedRunIds[i] \in RunIds
                   /\ queuedRunIds[i] <= runSeq
                   /\ queuedRunIds[i] # 0
                   /\ runs[queuedRunIds[i]].adapter # a
                   /\ runs[queuedRunIds[i]].adapter \in Adapters
  <2>1. runSeq + 1 \in RunIds /\ runSeq' = runSeq + 1
    BY <1>0, <1>d, NextIdType DEF AcceptsNew
  <2>2. st[a].activeRunId = 0 /\ st[a].pendingRunId = 0
    BY <1>d DEF AcceptsNew, HasAcceptedRun
  <2>3. ~shuttingDown /\ turn.kind # "drain" /\ up
    BY <1>c, <1>d DEF AcceptsNew
  <2>4. runSeq + 1 \notin executing
    BY <1>b DEF IInv, IdsHandedOut
  <2>5. \A i \in DOMAIN queuedRunIds :
           /\ queuedRunIds[i] \in RunIds
           /\ queuedRunIds[i] <= runSeq
           /\ queuedRunIds[i] # 0
           /\ runs[queuedRunIds[i]].adapter \in Adapters
    BY <1>0, QueueTypes DEF IInv, IdsHandedOut
  <2>6. \A i \in DOMAIN queuedRunIds : runs[queuedRunIds[i]].adapter # a
    BY <2>2, <2>5 DEF IInv, QueueOwned
  <2> QED BY <2>1, <2>2, <2>3, <2>4, <2>5, <2>6
<1>4. ASSUME NEW a \in Adapters, AcceptsNew(a), SlotFree, up' = up,
             runs' = [runs EXCEPT ![runSeq + 1] = StartedRun(a)],
             st' = [RefreshFreshness EXCEPT ![a] = Syncing(@, runSeq + 1)],
             activeRunIds' = activeRunIds \cup {runSeq + 1},
             executing' \in {executing, executing \cup {runSeq + 1}},
             UNCHANGED <<queuedRunIds, shuttingDown>>
      PROVE  IInv'
  <2> DEFINE r == runSeq + 1
  <2>1. queuedRunIds = << >>
    BY <1>4, <1>d DEF IInv, WaitersSeeFullSlots
  <2>2. QueueOwned' /\ QueueDistinct' /\ WaitersSeeFullSlots'
    BY <1>4, <2>1 DEF QueueOwned, QueueDistinct, WaitersSeeFullSlots
  <2>3. IdsHandedOut'
    BY <1>4, <1>b, <1>d, <2>1 DEF IInv, TypeOK, IdsHandedOut, RunIds
  <2>4. runs'[r].adapter = a
    BY <1>0, <1>4, <1>d DEF TypeOK, StartedRun, NewRun
  <2>5. \A q \in RunIds : q # r => runs'[q].adapter = runs[q].adapter
    BY <1>0, <1>4, <1>d DEF TypeOK
  <2>6. st'[a].activeRunId = r
    BY <1>4, <1>b DEF Syncing, StateRec
  <2>7. \A b \in Adapters \ {a} :
           /\ st'[b].activeRunId = st[b].activeRunId
           /\ st'[b].pendingRunId = st[b].pendingRunId
    BY <1>4, <1>a, <1>b
  <2> HIDE DEF r
  <2> QED BY <1>0, <1>4, <1>d, <2>2, <2>3, <2>4, <2>5, <2>6, <2>7, StartStep
          DEF r
<1>4a. ASSUME NEW a \in Adapters, AcceptStarted(a) PROVE IInv'
  BY <1>4, <1>4a DEF AcceptStarted
<1>5. ASSUME NEW a \in Adapters, AcceptQueued(a) PROVE IInv'
  <2> DEFINE r == runSeq + 1
  <2>1. /\ r \in RunIds /\ runSeq' = r /\ ~shuttingDown /\ r \notin executing
        /\ st[a].activeRunId = 0 /\ up
        /\ \A i \in DOMAIN queuedRunIds :
              /\ queuedRunIds[i] \in RunIds
              /\ queuedRunIds[i] <= runSeq
              /\ runs[queuedRunIds[i]].adapter # a
              /\ runs[queuedRunIds[i]].adapter \in Adapters
    BY <1>5, <1>d DEF AcceptQueued
  <2>2. /\ runs'[r].adapter = a
        /\ \A q \in RunIds : q # r => runs'[q].adapter = runs[q].adapter
    BY <1>0, <1>5, <2>1 DEF AcceptQueued, TypeOK, NewRun
  <2>3. /\ st'[a].pendingRunId = r /\ st'[a].activeRunId = 0
        /\ \A b \in Adapters : st'[b].activeRunId = st[b].activeRunId
        /\ \A b \in Adapters \ {a} : st'[b].pendingRunId = st[b].pendingRunId
    BY <1>5, <1>a, <1>b, <2>1 DEF AcceptQueued, StateRec
  <2>4. /\ UNCHANGED <<activeRunIds, executing, shuttingDown, up>>
        /\ ~SlotFree
    BY <1>5 DEF AcceptQueued
  <2>5. /\ DOMAIN queuedRunIds' = 1 .. (Len(queuedRunIds) + 1)
        /\ DOMAIN queuedRunIds = 1 .. Len(queuedRunIds)
        /\ Len(queuedRunIds) \in Nat
        /\ queuedRunIds'[Len(queuedRunIds) + 1] = r
        /\ \A i \in DOMAIN queuedRunIds : queuedRunIds'[i] = queuedRunIds[i]
    BY <1>0, <1>5, <2>1 DEF AcceptQueued, Enqueue, TypeOK
  <2>6. \A i \in DOMAIN queuedRunIds' :
           \/ i = Len(queuedRunIds) + 1 /\ queuedRunIds'[i] = r
           \/ i \in DOMAIN queuedRunIds /\ queuedRunIds'[i] = queuedRunIds[i]
    BY <2>5
  <2>7. \A q \in executing : q \in RunIds /\ q # r /\ q <= runSeq
                             /\ runs[q].adapter \in Adapters
    BY <1>0, <2>1, QueueTypes DEF IInv, TypeOK, IdsHandedOut
  <2>8. SlotsBounded' /\ ExecutingLimit' /\ ExecutingHoldsSlot'
    BY <2>4 DEF IInv, SlotsBounded, ExecutingLimit, ExecutingHoldsSlot
  <2>9. ExecutingOwned' /\ NoOverlap'
    BY <2>2, <2>3, <2>4, <2>7 DEF IInv, ExecutingOwned, NoOverlap
  <2>10. QueueOwned'
    <3>1. ASSUME NEW i \in DOMAIN queuedRunIds'
          PROVE  /\ st'[runs'[queuedRunIds'[i]].adapter].pendingRunId
                       = queuedRunIds'[i]
                 /\ st'[runs'[queuedRunIds'[i]].adapter].activeRunId = 0
      <4>1. CASE queuedRunIds'[i] = r
        BY <2>2, <2>3, <4>1
      <4>2. CASE i \in DOMAIN queuedRunIds /\ queuedRunIds'[i] = queuedRunIds[i]
        <5>1. /\ queuedRunIds[i] \in RunIds /\ queuedRunIds[i] # r
              /\ runs[queuedRunIds[i]].adapter \in Adapters \ {a}
          BY <1>b, <2>1, <4>2
        <5> QED BY <2>2, <2>3, <4>2, <5>1 DEF IInv, QueueOwned
      <4> QED BY <2>6, <4>1, <4>2
    <3> QED BY <3>1 DEF QueueOwned
  <2>11. QueueDistinct'
    <3>1. \A i \in DOMAIN queuedRunIds : queuedRunIds[i] # r
      BY <1>b, <2>1 DEF RunIds
    <3> QED BY <2>6, <3>1 DEF IInv, QueueDistinct
  <2>12. IdsHandedOut'
    <3>1. \A i \in DOMAIN queuedRunIds' : queuedRunIds'[i] <= r
      BY <1>b, <2>1, <2>6 DEF RunIds
    <3>2. \A q \in executing' : q <= r
      BY <1>b, <2>4, <2>7 DEF RunIds
    <3> QED BY <2>1, <3>1, <3>2 DEF IdsHandedOut
  <2>13. ShutdownIsQuiet' /\ WaitersSeeFullSlots' /\ DeadIsEmpty'
    BY <2>1, <2>4 DEF ShutdownIsQuiet, WaitersSeeFullSlots, DeadIsEmpty, SlotFree
  <2> QED BY <1>0, <2>8, <2>9, <2>10, <2>11, <2>12, <2>13 DEF IInv
<1>6. ASSUME NEW a \in Adapters, AcceptSaveFails(a) PROVE IInv'
  <2>1. \A r \in RunIds : r <= runSeq => runs'[r].adapter = runs[r].adapter
    BY <1>0, <1>6, <1>b DEF AcceptSaveFails, TypeOK, RunIds
  <2>2. runSeq <= runSeq' /\ turn'.kind = "idle"
    BY <1>6, <1>b DEF AcceptSaveFails, AcceptsNew, IdleTurn
  <2>3. turn.kind # "drain"
    BY <1>6, <1>c DEF AcceptSaveFails, AcceptsNew
  <2>4. ~shuttingDown
    BY <1>6, <1>c DEF AcceptSaveFails, AcceptsNew
  <2>5. /\ UNCHANGED <<queuedRunIds, activeRunIds, executing, shuttingDown>>
        /\ up' = up /\ st' = RefreshFreshness
    BY <1>6 DEF AcceptSaveFails
  <2> QED BY <1>0, <1>a, <2>1, <2>2, <2>3, <2>4, <2>5, QuietStep
<1>7. ASSUME NEW a \in Adapters, AcceptStartSaveFails(a) PROVE IInv'
  BY <1>4, <1>7 DEF AcceptStartSaveFails
<1>8. ASSUME NEW r \in RunIds, Timeout(r) PROVE IInv'
  <2>1. \A q \in RunIds : runs'[q].adapter = runs[q].adapter
    BY <1>0, <1>8 DEF Timeout, TypeOK, RunRec
  <2> QED BY <1>0, <1>8, <1>b, <2>1, QuietStep
          DEF Timeout, Idle
<1>9. ASSUME NEW r \in RunIds, Settle(r) PROVE IInv'
  <2>1. \A status : /\ Completed(r, status).adapter = runs[r].adapter
    BY DEF Completed
  <2>2. /\ r \in executing /\ Finally(r)
        /\ UNCHANGED <<queuedRunIds, shuttingDown, runSeq, up>>
    BY <1>9 DEF Settle, SettleIgnored, SettleSuccess, SettleFailure,
                SettleSaveFails
  <2>3. runs' = runs
        \/ \E status : runs' = [runs EXCEPT ![r] = Completed(r, status)]
    BY <1>9 DEF Settle, SettleIgnored, SettleSuccess, SettleFailure,
                SettleSaveFails
  <2>4. \A q \in RunIds : runs'[q].adapter = runs[q].adapter
    BY <1>0, <2>1, <2>3 DEF TypeOK
  <2>5. \A b \in Adapters \ {runs[r].adapter} : st'[b] = st[b]
    BY <1>0, <1>9, <2>1
       DEF TypeOK, Settle, SettleIgnored, SettleSuccess, SettleFailure,
           SettleSaveFails
  <2> QED BY <1>0, <2>2, <2>4, <2>5, SettleStep
<1>13. ASSUME DrainStart PROVE IInv'
  <2> DEFINE r == Head(queuedRunIds)
             a == runs[r].adapter
  <2>1. /\ r = queuedRunIds[1] /\ 1 \in DOMAIN queuedRunIds
        /\ DOMAIN queuedRunIds = 1 .. Len(queuedRunIds)
        /\ Len(queuedRunIds) \in Nat
        /\ queuedRunIds' = Tail(queuedRunIds)
        /\ DOMAIN queuedRunIds' = 1 .. (Len(queuedRunIds) - 1)
        /\ \A i \in DOMAIN queuedRunIds' :
              i + 1 \in DOMAIN queuedRunIds
              /\ queuedRunIds'[i] = queuedRunIds[i + 1]
    BY <1>0, <1>13 DEF DrainStart, TypeOK
  <2>2. /\ r \in RunIds /\ a \in Adapters /\ r <= runSeq
        /\ st[a].pendingRunId = r /\ st[a].activeRunId = 0
    BY <1>0, <2>1, QueueTypes DEF IInv, QueueOwned, IdsHandedOut
  <2>3. /\ ~shuttingDown /\ up /\ SlotFree
        /\ UNCHANGED <<shuttingDown, runSeq, turn, up>>
        /\ turn.kind = "drain"
        /\ activeRunIds' = activeRunIds \cup {r}
        /\ executing' = executing \cup {r}
    BY <1>13 DEF DrainStart, Draining, IInv, ShutdownIsQuiet
  <2>4. /\ \A q \in RunIds : runs'[q].adapter = runs[q].adapter
    BY <1>0, <1>13 DEF DrainStart, TypeOK, RunRec
  <2>5. /\ st'[a].activeRunId = r
        /\ \A b \in Adapters \ {a} : st'[b] = st[b]
    <3>1. st' = [st EXCEPT ![a] = Syncing(@, r)]
      BY <1>0, <1>13, <2>2 DEF DrainStart, TypeOK, RunRec
    <3> HIDE DEF r, a
    <3> QED BY <1>0, <2>2, <3>1 DEF TypeOK, Syncing, StateRec
  <2> HIDE DEF r, a
  <2>6. \A i \in DOMAIN queuedRunIds' :
           /\ queuedRunIds'[i] \in RunIds
           /\ queuedRunIds'[i] <= runSeq
           /\ runs[queuedRunIds'[i]].adapter \in Adapters \ {a}
           /\ st[runs[queuedRunIds'[i]].adapter].pendingRunId
                 = queuedRunIds'[i]
           /\ st[runs[queuedRunIds'[i]].adapter].activeRunId = 0
    <3>1. ASSUME NEW i \in DOMAIN queuedRunIds'
          PROVE  /\ queuedRunIds[i + 1] \in RunIds
                 /\ queuedRunIds[i + 1] <= runSeq
                 /\ runs[queuedRunIds[i + 1]].adapter \in Adapters
                 /\ st[runs[queuedRunIds[i + 1]].adapter].pendingRunId
                       = queuedRunIds[i + 1]
                 /\ st[runs[queuedRunIds[i + 1]].adapter].activeRunId = 0
                 /\ queuedRunIds[i + 1] # r
      BY <1>0, <2>1, QueueTypes
         DEF IInv, QueueOwned, QueueDistinct, IdsHandedOut
    <3> QED BY <2>1, <2>2, <3>1
  <2>7. QueueOwned'
    BY <2>4, <2>5, <2>6 DEF QueueOwned
  <2>8. QueueDistinct'
    BY <2>1 DEF IInv, QueueDistinct
  <2>9. IdsHandedOut'
    BY <2>2, <2>3, <2>6 DEF IInv, IdsHandedOut
  <2>10. WaitersSeeFullSlots'
    BY <2>3 DEF WaitersSeeFullSlots
  <2>11. runs'[r].adapter = a
    BY <2>2, <2>4 DEF a
  <2> QED BY <1>0, <2>2, <2>3, <2>4, <2>5, <2>7, <2>8, <2>9, <2>10, <2>11,
             StartStep
<1>14. ASSUME DrainDone PROVE IInv'
  BY <1>0, <1>14, <1>b, QuietStep DEF DrainDone, IdleTurn
<1>15. ASSUME Shutdown PROVE IInv'
  <2>1. \A q \in RunIds : runs'[q].adapter = runs[q].adapter
    BY <1>15 DEF Shutdown, AbortRuns, Completed
  <2> QED BY <1>0, <1>15, <2>1, ShutdownStep DEF Shutdown
<1>16. ASSUME NEW r \in RunIds, ShutdownSaveFails(r) PROVE IInv'
  <2>1. \A q \in RunIds : runs'[q].adapter = runs[q].adapter
    BY <1>0, <1>16 DEF ShutdownSaveFails, Completed, TypeOK
  <2> QED BY <1>0, <1>16, <2>1, ShutdownStep DEF ShutdownSaveFails
<1>17. ASSUME GetStatus PROVE IInv'
  <2>1. \A q \in RunIds : runs'[q].adapter = runs[q].adapter
    BY <1>17 DEF GetStatus, NoRun
  <2> QED BY <1>0, <1>17, <1>a, <1>b, <2>1, QuietStep DEF GetStatus, Idle
<1>18. ASSUME NEW a \in Adapters, NEW on \in BOOLEAN, SetEnabled(a, on)
       PROVE  IInv'
  <2>1. \A b \in Adapters : /\ st'[b].activeRunId = st[b].activeRunId
                            /\ st'[b].pendingRunId = st[b].pendingRunId
    BY <1>0, <1>18 DEF SetEnabled, TypeOK, StateRec
  <2> QED BY <1>0, <1>18, <1>b, <2>1, QuietStep DEF SetEnabled, Idle
<1>19. ASSUME NEW a \in Adapters, MarkBackgroundSuccess(a) PROVE IInv'
  <2>1. \A b \in Adapters : /\ st'[b].activeRunId = st[b].activeRunId
                            /\ st'[b].pendingRunId = st[b].pendingRunId
    BY <1>0, <1>19 DEF MarkBackgroundSuccess, TypeOK, StateRec
  <2>2. /\ UNCHANGED <<queuedRunIds, activeRunIds, executing, shuttingDown>>
        /\ UNCHANGED <<runs, runSeq, turn, up>>
        /\ turn.kind = "idle"
    BY <1>19 DEF MarkBackgroundSuccess, Idle
  <2> QED BY <1>0, <1>b, <2>1, <2>2, QuietStep
<1>20. CASE Tick
  BY <1>0, <1>20, <1>b, QuietStep DEF Tick, mem, Idle
<1>21. CASE Die
  <2>1. SlotsBounded'
    BY <1>21, FS_EmptySet DEF Die, SlotsBounded
  <2> QED BY <1>0, <1>21, <2>1, EmptyStep DEF Die
<1>24. CASE Restart
  <2>1. /\ executing' = {} /\ queuedRunIds' = << >> /\ shuttingDown' = FALSE
        /\ activeRunIds' = activeRunIds
    BY <1>0, <1>24 DEF Restart, IInv, DeadIsEmpty, TypeOK
  <2>2. SlotsBounded'
    BY <2>1 DEF IInv, SlotsBounded
  <2> QED BY <1>0, <2>1, <2>2, EmptyStep
<1>25. CASE UNCHANGED vars
  BY <1>0, <1>25, <1>b, QuietStep DEF IInv, vars, mem, ShutdownIsQuiet
<1>26. \A a \in Adapters : Trigger(a) => IInv'
  BY <1>1 DEF Trigger
<1>27. TriggerAll => IInv'
  BY <1>1 DEF TriggerAll
<1>28. \A a \in Toggleable : a \in Adapters
  BY DEF Adapters
<1> QED
  BY <1>2, <1>3, <1>4a, <1>5, <1>6, <1>7, <1>8, <1>9, <1>13, <1>14, <1>15,
     <1>16, <1>17, <1>18, <1>19, <1>20, <1>21, <1>24, <1>25, <1>26, <1>27,
     <1>28
     DEF Next, Accept, DrainQueue, Crash, SaveFailureKills

(* The inductive invariant holds in every reachable state. *)
THEOREM Invariance == Spec => []IInv
BY InitIInv, InvariantStep, PTL DEF Spec

(* At most Concurrency adapters run at once, for every number of slots. *)
THEOREM ExecutingLimitHolds == Spec => []ExecutingLimit
<1>1. IInv => ExecutingLimit
  BY DEF IInv
<1> QED BY <1>1, Invariance, PTL

(* No adapter runs twice at a time, also when saves fail. *)
THEOREM NoOverlapHolds == Spec => []NoOverlap
<1>1. IInv => NoOverlap
  BY DEF IInv
<1> QED BY <1>1, Invariance, PTL

(* No run waits beside a free slot once the handler in progress has ended. *)
THEOREM NoIdleSlotHolds == Spec => []NoIdleSlot
<1>1. IInv => NoIdleSlot
  BY DEF IInv, WaitersSeeFullSlots, NoIdleSlot, Idle
<1> QED BY <1>1, Invariance, PTL

-----------------------------------------------------------------------------
(* What ties the runs in memory to the rows of the table, also when saves  *)
(* fail.  The first four parts say which runs can still change: a run that *)
(* holds a slot or waits is not ended, and its id is an old one.           *)
QueueIsQueued ==
    \A i \in DOMAIN queuedRunIds : runs[queuedRunIds[i]].status = "queued"

ActiveIsSyncing ==
    ~shuttingDown => \A r \in activeRunIds : runs[r].status = "syncing"

RunsHandedOut ==
    \A r \in RunIds : runs[r].status # "none" => r <= runSeq

CompletedHasEnded ==
    \A r \in RunIds : runs[r].completedAt # 0 => runs[r].status \in Terminal

DeadKnowsNoRuns ==
    ~up => \A r \in RunIds : runs[r].status = "none" /\ persistedRuns[r] = NoRow

(* A row that was loaded is of a run this process does not have. *)
LoadedRowsStay ==
    \A r \in RunIds :
        persistedRuns[r] # NoRow =>
            /\ r <= runSeq
            /\ runs[r].status = "none"
            /\ persisted[r] \in {persistedRuns[r], NoRow}

(* A row that must be kept: of an ended run, within the retention time. *)
Kept(row) ==
    /\ row.status \in Terminal
    /\ clock - row.completedAt < RunRetentionMs

(* Such a row is one that was loaded, or of a run that ended in memory     *)
(* with the same outcome; its id is not handed out again.                  *)
KeptRowsAgree ==
    up => \A r \in RunIds :
            Kept(persisted[r]) =>
                /\ r <= runSeq
                /\ runs[r].status \notin InFlight
                /\ runs[r].status \in Terminal => persisted[r] = Row(runs[r])

RowInv ==
    /\ QueueIsQueued
    /\ ActiveIsSyncing
    /\ RunsHandedOut
    /\ CompletedHasEnded
    /\ DeadKnowsNoRuns
    /\ LoadedRowsStay
    /\ KeptRowsAgree

(* What holds besides as long as no save has failed: each adapter's state  *)
(* refers to the runs that hold a slot or wait, and these back to it.      *)
ActiveIsReferred ==
    ~shuttingDown =>
        \A a \in Adapters :
            st[a].activeRunId # 0 =>
                /\ st[a].activeRunId \in executing \cap activeRunIds
                /\ runs[st[a].activeRunId].adapter = a
                /\ st[a].pendingRunId = 0

PendingIsReferred ==
    ~shuttingDown =>
        \A a \in Adapters :
            st[a].pendingRunId # 0 =>
                /\ st[a].pendingRunId \in Queued
                /\ runs[st[a].pendingRunId].adapter = a

SlotIsReferred ==
    ~shuttingDown => \A r \in activeRunIds : st[runs[r].adapter].activeRunId = r

NothingAfterShutdown ==
    shuttingDown => activeRunIds = {} /\ \A a \in Adapters : ~HasAcceptedRun(a)

(* An adapter without a run does not look busy, nor did it when the run it *)
(* has now was accepted, which is the state an abort restores.             *)
QuietStates ==
    \A a \in Adapters : ~HasAcceptedRun(a) => st[a].status \notin InFlight

QuietState(s) ==
    s.activeRunId = 0 /\ s.pendingRunId = 0 /\ s.status \notin InFlight

QuietSnapshots == \A r \in RunIds : QuietState(runs[r].restoreState)

(* A row in flight has not ended, and is of a run that holds a slot or     *)
(* waits.                                                                  *)
UnfinishedRows ==
    \A r \in RunIds : persisted[r].status \in InFlight => persisted[r].completedAt = 0

OpenRows ==
    up => \A r \in RunIds :
            persisted[r].status \in InFlight =>
                r \in Accepted /\ persisted[r].status = runs[r].status

Views ==
    /\ ActiveIsReferred
    /\ PendingIsReferred
    /\ SlotIsReferred
    /\ NothingAfterShutdown
    /\ QuietStates
    /\ QuietSnapshots
    /\ UnfinishedRows
    /\ OpenRows

ViewInv == saveFailures = 0 => Views

-----------------------------------------------------------------------------
(* What a step does to run r and its row, other than pruning: nothing, or  *)
(* one of the three moves of a run.                                        *)
RunUnmoved(r) ==
    /\ runs'[r].status = runs[r].status
    /\ runs'[r].completedAt = runs[r].completedAt
    /\ persisted'[r] = persisted[r]

RunCreated(r) ==
    /\ r = runSeq + 1 /\ r <= runSeq'
    /\ runs'[r].status \in InFlight /\ runs'[r].completedAt = 0
    /\ persisted'[r] = persisted[r] \/ persisted'[r].status \in InFlight

RunStarted(r) ==
    /\ runs[r].status \in InFlight
    /\ runs'[r].status \in InFlight /\ runs'[r].completedAt = 0
    /\ persisted'[r].status \in InFlight

RunEnded(r) ==
    /\ runs[r].status \in InFlight
    /\ runs'[r].status \in Terminal
    /\ persisted'[r] \in {persisted[r], Row(runs'[r])}

RunMoves(r) ==
    RunUnmoved(r) \/ RunCreated(r) \/ RunStarted(r) \/ RunEnded(r)

(* The two action properties, for one step. *)
KeepsOutcomes ==
    \A r \in RunIds :
        runs[r].status \in Terminal => runs'[r].status \in {runs[r].status, "none"}

KeepsRows == \A r \in RunIds : Kept(persisted[r]) => persisted'[r] = persisted[r]

(* The parts of RowInv about single runs, and the two properties. *)
RunParts ==
    /\ RunsHandedOut' /\ CompletedHasEnded' /\ DeadKnowsNoRuns'
    /\ LoadedRowsStay' /\ KeptRowsAgree'
    /\ KeepsOutcomes /\ KeepsRows

(* A row that need not be kept is never to be kept again. *)
LEMMA KeptOnlyAges ==
    ASSUME TypeOK, TypeOK', clock <= clock', NEW row \in RowRec, Kept(row)'
    PROVE  Kept(row)
<1>1. PICK c \in Times : c = clock'
  BY DEF TypeOK
<1>2. row.status \in Terminal /\ c - row.completedAt < RunRetentionMs
  BY <1>1 DEF Kept
<1>3. clock \in Int /\ c \in Int /\ row.completedAt \in Int /\ clock <= c
  BY <1>1 DEF TypeOK, Times, RowRec
<1>4. clock - row.completedAt < RunRetentionMs
  <2>1. RunRetentionMs \in Nat
    OBVIOUS
  <2> QED BY ONLY <1>2, <1>3, <2>1
<1> QED BY <1>2, <1>4 DEF Kept

(* Runs that move keep what RowInv says of them. *)
LEMMA MovesKeepRows ==
    ASSUME IInv, RowInv, TypeOK', up, up', persistedRuns' = persistedRuns,
           runSeq <= runSeq', clock <= clock',
           \A r \in RunIds : RunMoves(r)
    PROVE  RunParts
<1>0. TypeOK
  BY DEF IInv
<1>1. PICK n \in 0 .. MaxRuns : n = runSeq' /\ runSeq <= n
  BY DEF TypeOK
<1>2. ASSUME NEW r \in RunIds
      PROVE  /\ r \in Int /\ n \in Int /\ runSeq \in Int
             /\ r <= runSeq => r <= n
             /\ r = runSeq + 1 => ~(r <= runSeq)
  BY <1>0, <1>1 DEF TypeOK, RunIds
<1>3. ASSUME NEW r \in RunIds
      PROVE  /\ Terminal \cap InFlight = {} /\ "none" \notin Terminal \cup InFlight
             /\ runs[r].status \in Terminal \cup InFlight \cup {"none"}
             /\ persisted[r] \in RowRec /\ persisted'[r] \in RowRec
             /\ runs'[r].completedAt \in Times
  BY <1>0 DEF TypeOK, RunRec, RunStatus, Terminal, InFlight
<1>4. ASSUME NEW r \in RunIds, Kept(persisted[r])
      PROVE  /\ r <= runSeq
             /\ runs[r].status \notin InFlight
             /\ runs[r].status \in Terminal => persisted[r] = Row(runs[r])
  BY <1>4 DEF RowInv, KeptRowsAgree
<1>5. RunsHandedOut'
  <2>1. ASSUME NEW r \in RunIds, runs'[r].status # "none" PROVE r <= runSeq'
    <3>1. CASE RunCreated(r)
      BY <3>1 DEF RunCreated
    <3>2. CASE runs[r].status # "none"
      BY <1>1, <1>2, <3>2 DEF RowInv, RunsHandedOut
    <3> QED BY <1>3, <2>1, <3>1, <3>2
            DEF RunMoves, RunUnmoved, RunStarted, RunEnded
  <2> QED BY <2>1 DEF RunsHandedOut
<1>6. CompletedHasEnded'
  <2>1. ASSUME NEW r \in RunIds, runs'[r].completedAt # 0
        PROVE  runs'[r].status \in Terminal
    <3>1. CASE RunUnmoved(r)
      BY <2>1, <3>1 DEF RunUnmoved, RowInv, CompletedHasEnded
    <3>2. CASE ~RunUnmoved(r)
      BY <2>1, <3>2 DEF RunMoves, RunCreated, RunStarted, RunEnded
    <3> QED BY <3>1, <3>2
  <2> QED BY <2>1 DEF CompletedHasEnded
<1>7. DeadKnowsNoRuns'
  BY DEF DeadKnowsNoRuns
<1>8. LoadedRowsStay'
  <2>1. ASSUME NEW r \in RunIds, persistedRuns[r] # NoRow
        PROVE  /\ r <= runSeq'
               /\ runs'[r].status = "none"
               /\ persisted'[r] \in {persistedRuns[r], NoRow}
    <3>1. /\ r <= runSeq /\ runs[r].status = "none"
          /\ persisted[r] \in {persistedRuns[r], NoRow}
      BY <2>1 DEF RowInv, LoadedRowsStay
    <3>2. RunUnmoved(r)
      BY <1>2, <1>3, <3>1 DEF RunMoves, RunCreated, RunStarted, RunEnded
    <3> QED BY <1>1, <1>2, <3>1, <3>2 DEF RunUnmoved
  <2> QED BY <2>1 DEF LoadedRowsStay
<1>9. KeptRowsAgree'
  <2>1. ASSUME NEW r \in RunIds, Kept(persisted[r])'
        PROVE  /\ r <= runSeq'
               /\ runs'[r].status \notin InFlight
               /\ runs'[r].status \in Terminal => persisted'[r] = Row(runs'[r])
    <3>0. persisted'[r].status \in Terminal
      BY <2>1 DEF Kept
    <3>1. persisted'[r] = persisted[r] => Kept(persisted[r])
      <4>1. PICK row \in RowRec : row = persisted'[r]
        BY <1>3
      <4>2. Kept(row)'
        BY <2>1, <4>1 DEF Kept
      <4>3. Kept(row)
        BY <1>0, <4>2, KeptOnlyAges
      <4> QED BY <4>1, <4>3
    <3>2. CASE RunUnmoved(r)
      <4>1. Kept(persisted[r])
        BY <3>1, <3>2 DEF RunUnmoved
      <4> QED BY <1>1, <1>2, <1>4, <3>2, <4>1 DEF RunUnmoved, Row
    <3>3. ~RunCreated(r)
      BY <1>2, <1>3, <1>4, <3>0, <3>1 DEF RunCreated
    <3>4. ~RunStarted(r)
      BY <1>3, <3>0 DEF RunStarted
    <3>5. CASE RunEnded(r)
      <4>1. ~Kept(persisted[r])
        BY <1>4, <3>5 DEF RunEnded
      <4>2. persisted'[r] = Row(runs'[r])
        BY <3>1, <3>5, <4>1 DEF RunEnded
      <4>3. r <= runSeq'
        BY <1>3, <3>5, <1>5 DEF RunEnded, RunsHandedOut
      <4> QED BY <1>3, <3>5, <4>2, <4>3 DEF RunEnded
    <3> QED BY <3>2, <3>3, <3>4, <3>5 DEF RunMoves
  <2> QED BY <2>1 DEF KeptRowsAgree
<1>10. KeepsOutcomes
  <2>1. ASSUME NEW r \in RunIds, runs[r].status \in Terminal
        PROVE  RunUnmoved(r)
    <3>1. r <= runSeq
      BY <1>3, <2>1 DEF RowInv, RunsHandedOut
    <3> QED BY <1>2, <1>3, <2>1, <3>1
            DEF RunMoves, RunCreated, RunStarted, RunEnded
  <2> QED BY <2>1 DEF KeepsOutcomes, RunUnmoved
<1>11. KeepsRows
  <2>1. ASSUME NEW r \in RunIds, Kept(persisted[r]) PROVE RunUnmoved(r)
    BY <1>2, <1>4, <2>1 DEF RunMoves, RunCreated, RunStarted, RunEnded
  <2> QED BY <2>1 DEF KeepsRows, RunUnmoved
<1> QED BY <1>5, <1>6, <1>7, <1>8, <1>9, <1>10, <1>11 DEF RunParts

(* The initial state has no rows to speak of. *)
LEMMA InitRowInv == Init => RowInv
BY DEF Init, RowInv, QueueIsQueued, ActiveIsSyncing, RunsHandedOut,
       CompletedHasEnded, DeadKnowsNoRuns, LoadedRowsStay, KeptRowsAgree,
       NoRun, NoRow, Kept, Terminal

(* The run ids in the queue, and what a run that holds a slot or waits is. *)
LEMMA OpenRuns ==
    ASSUME IInv, RowInv
    PROVE  /\ \A i \in DOMAIN queuedRunIds :
                /\ queuedRunIds[i] \in RunIds
                /\ runs[queuedRunIds[i]].status = "queued"
           /\ \A r \in Accepted :
                /\ r \in RunIds
                /\ ~shuttingDown => runs[r].status \in InFlight
           /\ ~shuttingDown => \A r \in executing : r \in activeRunIds
<1>1. \A i \in DOMAIN queuedRunIds :
          /\ queuedRunIds[i] \in RunIds
          /\ runs[queuedRunIds[i]].status = "queued"
  BY QueueTypes DEF IInv, RowInv, QueueIsQueued
<1>2. \A r \in Accepted : r \in RunIds /\ (~shuttingDown => runs[r].status \in InFlight)
  BY <1>1 DEF IInv, TypeOK, RowInv, ActiveIsSyncing, Accepted, Queued, InFlight
<1> QED BY <1>1, <1>2 DEF IInv, ExecutingHoldsSlot

(* A new run is created beside the others. *)
LEMMA NewRunMoves ==
    ASSUME IInv, RowInv, TypeOK', NEW a \in Adapters, AcceptsNew(a),
           NEW run, run.status \in InFlight, run.completedAt = 0,
           runs' = [runs EXCEPT ![runSeq + 1] = run],
           \/ persisted' = persisted
           \/ \E row : /\ row.status \in InFlight
                       /\ persisted' = [persisted EXCEPT ![runSeq + 1] = row],
           up' = up, persistedRuns' = persistedRuns, clock' = clock,
           shuttingDown' = shuttingDown
    PROVE  /\ RunParts
           /\ runs'[runSeq + 1] = run
           /\ \A r \in RunIds : r # runSeq + 1 => runs'[r] = runs[r]
           /\ \A r \in Accepted : r # runSeq + 1
<1>0. TypeOK /\ runSeq + 1 \in RunIds /\ runSeq' = runSeq + 1 /\ up
  BY NextIdType DEF IInv, AcceptsNew, Accepting
<1>1. runs'[runSeq + 1] = run /\ \A r \in RunIds : r # runSeq + 1 => runs'[r] = runs[r]
  BY <1>0 DEF TypeOK
<1>2. /\ \A r \in RunIds : r # runSeq + 1 => persisted'[r] = persisted[r]
      /\ \/ persisted'[runSeq + 1] = persisted[runSeq + 1]
         \/ persisted'[runSeq + 1].status \in InFlight
  BY <1>0 DEF TypeOK
<1>3. runSeq \in Int /\ runSeq + 1 <= runSeq' /\ runSeq <= runSeq'
  BY <1>0 DEF TypeOK
<1>4. ASSUME NEW r \in RunIds PROVE RunMoves(r)
  <2>1. CASE r = runSeq + 1
    BY <1>1, <1>2, <1>3, <2>1 DEF RunMoves, RunCreated
  <2>2. CASE r # runSeq + 1
    BY <1>1, <1>2, <2>2 DEF RunMoves, RunUnmoved
  <2> QED BY <2>1, <2>2
<1>5. clock <= clock'
  BY <1>0 DEF TypeOK, Times
<1>6. RunParts
  BY <1>0, <1>3, <1>4, <1>5, MovesKeepRows
<1>7. \A r \in Accepted : r # runSeq + 1
  <2>1. ASSUME NEW r \in Accepted PROVE r <= runSeq
    <3>1. r \in RunIds /\ runs[r].status # "none"
      <4>1. ~shuttingDown
        BY DEF AcceptsNew, Accepting, IInv, ShutdownIsQuiet
      <4> QED BY <4>1, OpenRuns DEF InFlight
    <3> QED BY <3>1 DEF RowInv, RunsHandedOut
  <2> QED BY <1>3, <2>1
<1> QED BY <1>1, <1>6, <1>7

(* One run changes, from in flight to in flight or to an end. *)
LEMMA OneRunMoves ==
    ASSUME IInv, RowInv, TypeOK', up, up', NEW r \in RunIds, NEW run,
           runs[r].status \in InFlight,
           \/ /\ run.status \in Terminal
              /\ persisted' \in {persisted, [persisted EXCEPT ![r] = Row(run)]}
           \/ /\ run.status \in InFlight /\ run.completedAt = 0
              /\ \/ /\ persisted' = persisted
                    /\ run.status = runs[r].status
                 \/ persisted' = [persisted EXCEPT ![r] = Row(run)],
           runs' = [runs EXCEPT ![r] = run],
           UNCHANGED <<persistedRuns, runSeq, clock>>
    PROVE  /\ RunParts
           /\ runs'[r] = run
           /\ \A q \in RunIds : q # r => runs'[q] = runs[q]
<1>0. TypeOK
  BY DEF IInv
<1>1. runs'[r] = run /\ \A q \in RunIds : q # r => runs'[q] = runs[q]
  BY <1>0 DEF TypeOK
<1>2. \A q \in RunIds : q # r => persisted'[q] = persisted[q]
  BY <1>0 DEF TypeOK
<1>3. persisted'[r] \in {persisted[r], Row(run)}
  BY <1>0 DEF TypeOK
<1>4. runs[r].completedAt = 0
  BY DEF RowInv, CompletedHasEnded, InFlight, Terminal
<1>5. RunMoves(r)
  <2>1. CASE run.status \in Terminal
    BY <1>1, <1>3, <2>1 DEF RunMoves, RunEnded
  <2>2. CASE /\ run.status \notin Terminal /\ run.completedAt = 0
             /\ persisted' = persisted /\ run.status = runs[r].status
    BY <1>1, <1>4, <2>2 DEF RunMoves, RunUnmoved
  <2>3. CASE /\ run.status \notin Terminal
             /\ persisted' = [persisted EXCEPT ![r] = Row(run)]
    <3>1. persisted'[r] = Row(run)
      BY <1>0, <2>3 DEF TypeOK
    <3> QED BY <1>1, <2>3, <3>1 DEF RunMoves, RunStarted, Row
  <2> QED BY <2>1, <2>2, <2>3
<1>6. \A q \in RunIds : RunMoves(q)
  BY <1>1, <1>2, <1>5 DEF RunMoves, RunUnmoved
<1>7. clock <= clock' /\ runSeq <= runSeq'
  BY <1>0 DEF TypeOK, Times
<1> QED BY <1>1, <1>6, <1>7, MovesKeepRows

(* No run and no row changes. *)
LEMMA StillRows ==
    ASSUME IInv, RowInv, TypeOK', up, up' = up,
           UNCHANGED <<runs, persisted, persistedRuns, runSeq>>,
           clock <= clock'
    PROVE  RunParts
<1>1. \A r \in RunIds : RunMoves(r)
  BY DEF RunMoves, RunUnmoved
<1>2. runSeq <= runSeq'
  BY DEF IInv, TypeOK
<1> QED BY <1>1, <1>2, MovesKeepRows

(* RowInv' from its parts. *)
LEMMA PartsMakeRowInv ==
    ASSUME RunParts, QueueIsQueued', ActiveIsSyncing'
    PROVE  RowInv' /\ KeepsOutcomes /\ KeepsRows
BY DEF RunParts, RowInv

(* pruneRuns removes expired runs and rows only. *)
LEMMA PruneKeepsRows ==
    ASSUME IInv, RowInv, TypeOK', GetStatus
    PROVE  RowInv' /\ KeepsOutcomes /\ KeepsRows
<1>0. /\ TypeOK /\ up
      /\ UNCHANGED <<queuedRunIds, activeRunIds, shuttingDown, runSeq, clock, up>>
  BY DEF IInv, GetStatus, Idle, env
<1>1. \A r \in RunIds :
         /\ Expired(runs[r]) => runs'[r].status = "none" /\ runs'[r].completedAt = 0
         /\ ~Expired(runs[r]) => runs'[r] = runs[r]
         /\ Expired(persistedRuns[r]) => persistedRuns'[r] = NoRow
         /\ ~Expired(persistedRuns[r]) => persistedRuns'[r] = persistedRuns[r]
         /\ Expired(runs[r]) \/ Expired(persistedRuns[r]) => persisted'[r] = NoRow
         /\ ~Expired(runs[r]) /\ ~Expired(persistedRuns[r])
               => persisted'[r] = persisted[r]
  BY DEF GetStatus, NoRun
<1>2. \A r \in RunIds : Expired(runs[r]) => runs[r].status \in Terminal
  BY DEF Expired, RowInv, CompletedHasEnded
<1>3. ASSUME NEW row, row.completedAt \in Times, Expired(row) PROVE ~Kept(row)
  BY <1>0, <1>3 DEF Expired, Kept, TypeOK, Times
<1>3a. \A r \in RunIds : persisted[r].completedAt \in Times
  BY <1>0 DEF TypeOK, RowRec
<1>4. ASSUME NEW r \in RunIds, Kept(persisted[r])
      PROVE  ~Expired(runs[r]) /\ ~Expired(persistedRuns[r])
  <2>1. ASSUME Expired(runs[r]) PROVE FALSE
    <3>1. persisted[r] = Row(runs[r])
      BY <1>0, <1>2, <1>4, <2>1 DEF RowInv, KeptRowsAgree
    <3>2. Expired(persisted[r])
      BY <2>1, <3>1 DEF Expired, Row
    <3> QED BY <1>3, <1>3a, <1>4, <3>2
  <2>2. ASSUME Expired(persistedRuns[r]) PROVE FALSE
    <3>1. persistedRuns[r] # NoRow
      BY <2>2 DEF Expired, NoRow
    <3>2. persisted[r] = persistedRuns[r]
      BY <1>4, <3>1 DEF RowInv, LoadedRowsStay, Kept, NoRow, Terminal
    <3> QED BY <1>3, <1>3a, <1>4, <2>2, <3>2
  <2> QED BY <2>1, <2>2
<1>5. ASSUME NEW r \in RunIds, Kept(persisted'[r])
      PROVE  ~Expired(runs[r]) /\ ~Expired(persistedRuns[r])
  BY <1>1, <1>5 DEF Kept, NoRow, Terminal
<1>6. KeepsOutcomes
  BY <1>1 DEF KeepsOutcomes
<1>7. KeepsRows
  BY <1>1, <1>4 DEF KeepsRows
<1>8. QueueIsQueued' /\ ActiveIsSyncing'
  <2>1. \A r \in RunIds : runs[r].status \in InFlight => runs'[r] = runs[r]
    BY <1>1, <1>2 DEF Terminal, InFlight
  <2>2. QueueIsQueued'
    BY <1>0, <2>1, OpenRuns DEF QueueIsQueued, InFlight
  <2>3. ActiveIsSyncing'
    BY <1>0, <2>1 DEF TypeOK, RowInv, ActiveIsSyncing, InFlight
  <2> QED BY <2>2, <2>3
<1>9. RunsHandedOut' /\ CompletedHasEnded' /\ DeadKnowsNoRuns'
  BY <1>0, <1>1 DEF RowInv, RunsHandedOut, CompletedHasEnded, DeadKnowsNoRuns
<1>10. LoadedRowsStay'
  BY <1>0, <1>1 DEF RowInv, LoadedRowsStay
<1>11. KeptRowsAgree'
  <2>1. \A r \in RunIds : Kept(persisted[r])' => Kept(persisted'[r])
    BY <1>0 DEF Kept
  <2> QED BY <1>0, <1>1, <1>5, <2>1 DEF RowInv, KeptRowsAgree, Row
<1> QED BY <1>6, <1>7, <1>8, <1>9, <1>10, <1>11 DEF RowInv

(* A process that ends leaves the table behind, and nothing else. *)
LEMMA DieKeepsRows ==
    ASSUME IInv, RowInv, TypeOK', Die
    PROVE  RowInv' /\ KeepsOutcomes /\ KeepsRows
<1>1. /\ persisted' = persisted /\ up' = FALSE
      /\ \A r \in RunIds : /\ runs'[r].status = "none" /\ runs'[r].completedAt = 0
                           /\ persistedRuns'[r] = NoRow
      /\ activeRunIds' = {} /\ queuedRunIds' = << >>
  BY DEF Die, NoRun
<1>2. KeepsOutcomes /\ KeepsRows
  BY <1>1 DEF KeepsOutcomes, KeepsRows
<1> QED BY <1>1, <1>2
        DEF RowInv, QueueIsQueued, ActiveIsSyncing, RunsHandedOut,
            CompletedHasEnded, DeadKnowsNoRuns, LoadedRowsStay, KeptRowsAgree

(* Every loaded row has an id the next process does not hand out. *)
LEMMA LoadedIdsArePast ==
    ASSUME TypeOK
    PROVE  \A r \in Loaded : r <= FirstRunSeq
<1>1. Loaded \subseteq RunIds
  BY DEF Loaded
<1>2. CASE Loaded = {}
  BY <1>2
<1>3. CASE Loaded # {}
  <2>1. \E m \in Loaded : \A r \in Loaded : r <= m
    BY <1>1, <1>3, GreatestRunId
  <2> QED BY <1>3, <2>1 DEF FirstRunSeq
<1> QED BY <1>2, <1>3

(* A restart changes the rows of unfinished runs only. *)
LEMMA RestartKeepsRows ==
    ASSUME IInv, RowInv, TypeOK', Restart
    PROVE  RowInv' /\ KeepsOutcomes /\ KeepsRows
<1>0. /\ TypeOK /\ ~up
      /\ UNCHANGED <<runs, queuedRunIds, activeRunIds, shuttingDown, clock>>
      /\ runSeq' = FirstRunSeq
      /\ queuedRunIds = << >> /\ ~shuttingDown
  BY DEF IInv, Restart, DeadIsEmpty
<1>1. \A r \in RunIds : runs[r].status = "none"
  BY <1>0 DEF RowInv, DeadKnowsNoRuns
<1>2. \A r \in RunIds :
         /\ r \in Loaded => persisted'[r] = LoadedRow(r) /\ persistedRuns'[r] = LoadedRow(r)
         /\ r \notin Loaded => persisted'[r] = persisted[r] /\ persistedRuns'[r] = NoRow
  BY DEF Restart
<1>3. ASSUME NEW r \in RunIds, Kept(persisted[r]) PROVE r \in Loaded
  <2>1. PICK c \in Times : c = persisted[r].completedAt
    BY <1>0 DEF TypeOK, RowRec
  <2>2. clock \in Int /\ c \in Int /\ clock - c < RunRetentionMs /\ RunRetentionMs \in Nat
    BY <1>0, <1>3, <2>1 DEF TypeOK, Times, Kept
  <2>3. c >= clock - RunRetentionMs
    BY ONLY <2>2
  <2> QED BY <1>3, <2>1, <2>3 DEF Loaded, Kept, Terminal
<1>4. KeepsOutcomes
  BY <1>1 DEF KeepsOutcomes, Terminal
<1>5. KeepsRows
  BY <1>2, <1>3 DEF KeepsRows, LoadedRow, Kept, InFlight, Terminal
<1>6. QueueIsQueued' /\ RunsHandedOut' /\ CompletedHasEnded' /\ DeadKnowsNoRuns'
  BY <1>0, <1>1 DEF RowInv, QueueIsQueued, RunsHandedOut, CompletedHasEnded,
                    DeadKnowsNoRuns, Restart
<1>7. ActiveIsSyncing'
  BY <1>0 DEF RowInv, ActiveIsSyncing
<1>8. LoadedRowsStay'
  BY <1>0, <1>1, <1>2, LoadedIdsArePast DEF LoadedRowsStay
<1>9. KeptRowsAgree'
  <2>1. ASSUME NEW r \in RunIds, Kept(persisted[r])' PROVE r \in Loaded
    <3>1. r \notin Loaded => Kept(persisted[r])
      BY <1>0, <1>2, <2>1 DEF Kept
    <3> QED BY <1>3, <3>1
  <2> QED BY <1>0, <1>1, <2>1, LoadedIdsArePast
          DEF KeptRowsAgree, InFlight, Terminal
<1> QED BY <1>4, <1>5, <1>6, <1>7, <1>8, <1>9 DEF RowInv

(* Every step keeps RowInv, the outcomes and the rows that must be kept. *)
LEMMA RowStep == IInv /\ RowInv /\ [Next]_vars => RowInv' /\ KeepsOutcomes /\ KeepsRows
<1> SUFFICES ASSUME IInv, RowInv, [Next]_vars
             PROVE  RowInv' /\ KeepsOutcomes /\ KeepsRows
  OBVIOUS
<1> DEFINE Goal == RowInv' /\ KeepsOutcomes /\ KeepsRows
<1> USE DEF env
<1>0. TypeOK /\ TypeOK'
  BY TypeStep DEF IInv
<1>a. clock <= clock
  BY <1>0 DEF TypeOK, Times
<1>b. /\ DOMAIN queuedRunIds = 1 .. Len(queuedRunIds)
      /\ Len(queuedRunIds) \in Nat
  BY <1>0 DEF TypeOK
<1>1. ASSUME UNCHANGED <<runs, persisted, persistedRuns, runSeq, up,
                         queuedRunIds, activeRunIds, shuttingDown>>,
             up, clock <= clock'
      PROVE  Goal
  <2>1. RunParts
    BY <1>0, <1>1, StillRows
  <2>2. QueueIsQueued' /\ ActiveIsSyncing'
    BY <1>1 DEF RowInv, QueueIsQueued, ActiveIsSyncing
  <2> QED BY <2>1, <2>2, PartsMakeRowInv
<1>2. ASSUME NEW targets \in SUBSET Adapters, ManualSync(targets) PROVE Goal
  BY <1>1, <1>2, <1>a DEF ManualSync, Idle
<1>3. ASSUME NEW a \in Adapters, AcceptRefused(a) \/ AcceptCoalesced(a)
      PROVE  Goal
  BY <1>1, <1>3, <1>a DEF AcceptRefused, AcceptCoalesced, Accepting
<1>4. ASSUME NEW a \in Adapters, AcceptsNew(a),
             runs' = [runs EXCEPT ![runSeq + 1] = StartedRun(a)],
             \/ persisted' = [persisted EXCEPT ![runSeq + 1] = Row(StartedRun(a))]
             \/ persisted' = [persisted EXCEPT ![runSeq + 1] = Row(NewRun(a))],
             activeRunIds' = activeRunIds \cup {runSeq + 1},
             UNCHANGED <<queuedRunIds, shuttingDown, persistedRuns, up, clock>>
      PROVE  Goal
  <2>1. /\ StartedRun(a).status = "syncing" /\ StartedRun(a).completedAt = 0
        /\ Row(StartedRun(a)).status \in InFlight
        /\ Row(NewRun(a)).status \in InFlight
    BY DEF StartedRun, NewRun, Row, InFlight
  <2>2. /\ RunParts /\ runs'[runSeq + 1] = StartedRun(a)
        /\ \A r \in RunIds : r # runSeq + 1 => runs'[r] = runs[r]
        /\ \A r \in Accepted : r # runSeq + 1
    <3>1. "syncing" \in InFlight
      BY DEF InFlight
    <3> HIDE DEF Goal
    <3> QED BY <1>0, <1>4, <2>1, <3>1, NewRunMoves
  <2>3. QueueIsQueued'
    BY <1>4, <2>2, OpenRuns DEF QueueIsQueued, Accepted, Queued
  <2>4. ActiveIsSyncing'
    BY <1>4, <2>1, <2>2, OpenRuns DEF RowInv, ActiveIsSyncing, Accepted
  <2> QED BY <2>2, <2>3, <2>4, PartsMakeRowInv
<1>5. ASSUME NEW a \in Adapters, AcceptStarted(a) \/ AcceptStartSaveFails(a)
      PROVE  Goal
  <2>1. CASE AcceptStarted(a)
    BY <1>4, <2>1 DEF AcceptStarted
  <2>2. CASE AcceptStartSaveFails(a)
    BY <1>4, <2>2 DEF AcceptStartSaveFails, SaveFails
  <2> QED BY <1>5, <2>1, <2>2
<1>6. ASSUME NEW a \in Adapters, AcceptQueued(a) \/ AcceptSaveFails(a)
      PROVE  Goal
  <2>1. /\ NewRun(a).status = "queued" /\ NewRun(a).completedAt = 0
        /\ Row(NewRun(a)).status \in InFlight /\ "queued" \in InFlight
    BY DEF NewRun, Row, InFlight
  <2>2. /\ AcceptsNew(a) /\ runs' = [runs EXCEPT ![runSeq + 1] = NewRun(a)]
        /\ \/ persisted' = persisted
           \/ persisted' = [persisted EXCEPT ![runSeq + 1] = Row(NewRun(a))]
        /\ UNCHANGED <<activeRunIds, shuttingDown, persistedRuns, up, clock>>
        /\ queuedRunIds' \in {queuedRunIds, Append(queuedRunIds, runSeq + 1)}
    BY <1>6 DEF AcceptQueued, AcceptSaveFails, SaveFails, Enqueue
  <2>3. /\ RunParts /\ runs'[runSeq + 1] = NewRun(a)
        /\ \A r \in RunIds : r # runSeq + 1 => runs'[r] = runs[r]
        /\ \A r \in Accepted : r # runSeq + 1
    BY <1>0, <2>1, <2>2, NewRunMoves
  <2>4. \A i \in DOMAIN queuedRunIds : runs'[queuedRunIds[i]].status = "queued"
    BY <2>3, OpenRuns DEF Accepted, Queued
  <2>5. \A i \in DOMAIN queuedRunIds' :
           \/ i \in DOMAIN queuedRunIds /\ queuedRunIds'[i] = queuedRunIds[i]
           \/ queuedRunIds'[i] = runSeq + 1
    <3>1. runSeq + 1 \in RunIds /\ queuedRunIds \in Seq(RunIds)
      BY <1>0, <2>2, NextIdType DEF TypeOK
    <3> QED BY <1>b, <2>2, <3>1
  <2>6. QueueIsQueued'
    BY <2>1, <2>3, <2>4, <2>5 DEF QueueIsQueued
  <2>7. ActiveIsSyncing'
    BY <2>2, <2>3, OpenRuns DEF RowInv, ActiveIsSyncing, Accepted
  <2> QED BY <2>3, <2>6, <2>7, PartsMakeRowInv
<1>7. ASSUME NEW r \in RunIds, Timeout(r) PROVE Goal
  <2> DEFINE run == [runs[r] EXCEPT !.aborted = TRUE]
  <2>1. /\ run.status = runs[r].status /\ run.completedAt = runs[r].completedAt
        /\ runs'[r] = run /\ \A q \in RunIds : q # r => runs'[q] = runs[q]
        /\ UNCHANGED <<persisted, persistedRuns, runSeq, up, clock>>
        /\ UNCHANGED <<queuedRunIds, activeRunIds, shuttingDown>> /\ up
    BY <1>0, <1>7 DEF Timeout, Idle, TypeOK, RunRec
  <2>2. \A q \in RunIds : RunMoves(q)
    BY <2>1 DEF RunMoves, RunUnmoved
  <2>3. RunParts
    <3>1. runSeq <= runSeq' /\ clock <= clock'
      BY <1>0, <2>1 DEF TypeOK, Times
    <3> QED BY <1>0, <2>1, <2>2, <3>1, MovesKeepRows
  <2> HIDE DEF run
  <2>4. \A q \in RunIds : runs'[q].status = runs[q].status
    BY <2>1
  <2>5. QueueIsQueued'
    BY <2>1, <2>4, OpenRuns DEF QueueIsQueued
  <2>6. ActiveIsSyncing'
    BY <1>0, <2>1, <2>4 DEF TypeOK, RowInv, ActiveIsSyncing
  <2> QED BY <2>3, <2>5, <2>6, PartsMakeRowInv
<1>8. ASSUME NEW r \in RunIds, SettleIgnored(r) PROVE Goal
  <2>1. RunParts
    BY <1>0, <1>8, <1>a, StillRows DEF SettleIgnored, Idle
  <2>2. QueueIsQueued' /\ ActiveIsSyncing'
    BY <1>8 DEF SettleIgnored, Finally, RowInv, QueueIsQueued, ActiveIsSyncing
  <2> QED BY <2>1, <2>2, PartsMakeRowInv
<1>9. ASSUME NEW r \in RunIds,
             SettleSuccess(r) \/ SettleFailure(r) \/ SettleSaveFails(r)
      PROVE  Goal
  <2>1. /\ runs[r].status = "syncing" /\ ~shuttingDown /\ up
        /\ UNCHANGED <<persistedRuns, runSeq, up, clock, queuedRunIds, shuttingDown>>
        /\ activeRunIds' = activeRunIds \ {r}
    BY <1>9 DEF SettleSuccess, SettleFailure, SettleSaveFails, Idle,
                OutcomeApplies, Finally, SaveFails
  <2>2. PICK status \in Terminal :
           /\ runs' = [runs EXCEPT ![r] = Completed(r, status)]
           /\ persisted' \in {persisted,
                              [persisted EXCEPT ![r] = Row(Completed(r, status))]}
    BY <1>9 DEF SettleSuccess, SettleFailure, SettleSaveFails, Terminal
  <2>3. Completed(r, status).status = status /\ "syncing" \in InFlight
    BY DEF Completed, InFlight
  <2>4. /\ RunParts /\ runs'[r] = Completed(r, status)
        /\ \A q \in RunIds : q # r => runs'[q] = runs[q]
    BY <1>0, <2>1, <2>2, <2>3, OneRunMoves
  <2>5. QueueIsQueued'
    BY <2>1, <2>4, OpenRuns DEF QueueIsQueued
  <2>6. ActiveIsSyncing'
    BY <2>1, <2>4, OpenRuns DEF RowInv, ActiveIsSyncing, Accepted
  <2> QED BY <2>4, <2>5, <2>6, PartsMakeRowInv
<1>10. ASSUME DrainStart PROVE Goal
  <2> DEFINE r == Head(queuedRunIds)
             run == [runs[r] EXCEPT !.status = "syncing"]
  <2>1. /\ r = queuedRunIds[1] /\ 1 \in DOMAIN queuedRunIds /\ r \in RunIds
        /\ \A i \in DOMAIN queuedRunIds' :
              /\ i + 1 \in DOMAIN queuedRunIds /\ i + 1 # 1
              /\ queuedRunIds'[i] = queuedRunIds[i + 1]
    <3>1. queuedRunIds # << >> /\ queuedRunIds' = Tail(queuedRunIds)
      BY <1>10 DEF DrainStart
    <3> QED BY <1>0, <1>b, <3>1 DEF TypeOK
  <2>2. /\ runs' = [runs EXCEPT ![r] = run]
        /\ persisted' = [persisted EXCEPT ![r] = Row(run)]
        /\ UNCHANGED <<persistedRuns, runSeq, up, clock, shuttingDown>> /\ up
        /\ activeRunIds' = activeRunIds \cup {r}
    BY <1>10 DEF DrainStart, Draining
  <2>3. runs[r].status = "queued" /\ runs[r].completedAt = 0
    BY <1>10, <2>1 DEF DrainStart, RowInv, CompletedHasEnded, Terminal
  <2>4. run.status = "syncing" /\ run.completedAt = 0
    BY <1>0, <2>1, <2>3 DEF TypeOK, RunRec
  <2> HIDE DEF run
  <2>5. /\ RunParts /\ runs'[r] = run
        /\ \A q \in RunIds : q # r => runs'[q] = runs[q]
    <3>1. "queued" \in InFlight /\ "syncing" \in InFlight
      BY DEF InFlight
    <3>2. /\ r \in RunIds /\ runs[r].status \in InFlight /\ run.status \in InFlight
          /\ up /\ up'
      BY <2>1, <2>2, <2>3, <2>4, <3>1
    <3> HIDE DEF r
    <3> QED BY <1>0, <2>2, <2>4, <3>2, OneRunMoves
  <2>6. QueueIsQueued'
    <3>1. \A i \in DOMAIN queuedRunIds : i # 1 => queuedRunIds[i] # r
      BY <2>1 DEF IInv, QueueDistinct
    <3> HIDE DEF r
    <3> QED BY <2>1, <2>5, <3>1, OpenRuns DEF QueueIsQueued
  <2>7. ActiveIsSyncing'
    BY <2>2, <2>4, <2>5, OpenRuns DEF RowInv, ActiveIsSyncing, Accepted
  <2> QED BY <2>5, <2>6, <2>7, PartsMakeRowInv
<1>11. ASSUME DrainDone PROVE Goal
  BY <1>1, <1>11, <1>a DEF DrainDone, Draining
<1>12. ASSUME Shutdown PROVE Goal
  <2> DEFINE live == {r \in Accepted : runs[r].status \in InFlight}
  <2>1. /\ UNCHANGED <<persistedRuns, runSeq, up, clock>> /\ up
        /\ activeRunIds' = {} /\ queuedRunIds' = << >>
    BY <1>12 DEF Shutdown, Idle
  <2>2. \A r \in RunIds :
           /\ r \in live => /\ runs'[r] = Completed(r, "aborted")
                            /\ persisted'[r] = Row(Completed(r, "aborted"))
           /\ r \notin live => runs'[r] = runs[r] /\ persisted'[r] = persisted[r]
    BY <1>12 DEF Shutdown, AbortRuns
  <2>3. ASSUME NEW r \in RunIds PROVE RunMoves(r)
    <3>1. CASE r \in live
      <4>1. runs[r].status \in InFlight
        BY <3>1
      <4>a. runs'[r] = Completed(r, "aborted")
        <5> HIDE DEF live
        <5> QED BY <2>2, <3>1
      <4>2. runs'[r].status = "aborted"
        BY <4>a DEF Completed
      <4> QED BY <2>2, <3>1, <4>1, <4>2 DEF RunMoves, RunEnded, Terminal
    <3>2. CASE r \notin live
      BY <2>2, <3>2 DEF RunMoves, RunUnmoved
    <3> QED BY <3>1, <3>2
  <2>4. RunParts
    <3>1. runSeq <= runSeq' /\ clock <= clock'
      BY <1>0, <2>1 DEF TypeOK, Times
    <3> QED BY <1>0, <2>1, <2>3, <3>1, MovesKeepRows
  <2>5. QueueIsQueued' /\ ActiveIsSyncing'
    BY <2>1 DEF QueueIsQueued, ActiveIsSyncing
  <2> QED BY <2>4, <2>5, PartsMakeRowInv
<1>13. ASSUME NEW r \in RunIds, ShutdownSaveFails(r) PROVE Goal
  <2>1. /\ UNCHANGED <<persistedRuns, runSeq, up, clock, persisted>> /\ up
        /\ shuttingDown' = TRUE /\ queuedRunIds' = << >> /\ ~shuttingDown
        /\ runs' = [runs EXCEPT ![r] = Completed(r, "aborted")]
    BY <1>13 DEF ShutdownSaveFails, Idle, SaveFails
  <2>2. r \in Accepted
    <3>1. queuedRunIds # << >> => /\ Head(queuedRunIds) = queuedRunIds[1]
                                  /\ 1 \in DOMAIN queuedRunIds
      BY <1>0, <1>b DEF TypeOK
    <3> QED BY <1>13, <3>1 DEF ShutdownSaveFails, Accepted, Queued
  <2>3. runs[r].status \in InFlight
    BY <2>1, <2>2, OpenRuns
  <2>4. /\ RunParts
    BY <1>0, <2>1, <2>3, OneRunMoves DEF Completed, Terminal
  <2>5. QueueIsQueued' /\ ActiveIsSyncing'
    BY <2>1 DEF QueueIsQueued, ActiveIsSyncing
  <2> QED BY <2>4, <2>5, PartsMakeRowInv
<1>14. ASSUME GetStatus PROVE Goal
  BY <1>0, <1>14, PruneKeepsRows
<1>15. ASSUME NEW a \in Adapters, NEW on \in BOOLEAN, SetEnabled(a, on)
       PROVE  Goal
  BY <1>1, <1>15, <1>a DEF SetEnabled, Idle
<1>16. ASSUME NEW a \in Adapters, MarkBackgroundSuccess(a) PROVE Goal
  BY <1>1, <1>16, <1>a DEF MarkBackgroundSuccess, Idle
<1>17. ASSUME Tick PROVE Goal
  <2>1. clock <= clock'
    BY <1>0, <1>17 DEF Tick, TypeOK, Times
  <2> QED BY <1>1, <1>17, <2>1 DEF Tick, mem, Idle
<1>18. ASSUME Die PROVE Goal
  BY <1>0, <1>18, DieKeepsRows
<1>19. ASSUME Restart PROVE Goal
  BY <1>0, <1>19, RestartKeepsRows
<1>20. ASSUME UNCHANGED vars PROVE Goal
  <2>1. UNCHANGED <<runs, persisted, persistedRuns, runSeq, up,
                    queuedRunIds, activeRunIds, shuttingDown, clock>>
    BY <1>20 DEF vars, mem
  <2>2. RowInv'
    BY <2>1 DEF RowInv, QueueIsQueued, ActiveIsSyncing, RunsHandedOut,
       CompletedHasEnded, DeadKnowsNoRuns, LoadedRowsStay, KeptRowsAgree, Kept
  <2>3. KeepsOutcomes /\ KeepsRows
    BY <2>1 DEF KeepsOutcomes, KeepsRows
  <2> QED BY <2>2, <2>3
<1>21. \A a \in Adapters : Trigger(a) => Goal
  BY <1>2 DEF Trigger
<1>22. TriggerAll => Goal
  BY <1>2 DEF TriggerAll
<1>23. \A a \in Toggleable : a \in Adapters
  BY DEF Adapters
<1> HIDE DEF Goal
<1>24. \A a \in Adapters : Accept(a) => Goal
  BY <1>3, <1>5, <1>6 DEF Accept
<1>25. \A r \in RunIds : Settle(r) => Goal
  BY <1>8, <1>9 DEF Settle
<1>26. DrainQueue \/ Crash \/ SaveFailureKills => Goal
  BY <1>10, <1>11, <1>18 DEF DrainQueue, Crash, SaveFailureKills
<1>27. Goal
  BY <1>7, <1>12, <1>13, <1>14, <1>15, <1>16, <1>17, <1>19, <1>20, <1>21, <1>22,
     <1>23, <1>24, <1>25, <1>26
     DEF Next
<1> QED BY <1>27 DEF Goal

-----------------------------------------------------------------------------

(* The initial state satisfies ViewInv. *)
LEMMA InitViewInv == Init => ViewInv
<1> SUFFICES ASSUME Init PROVE Views
  BY DEF ViewInv
<1>1. \A a \in Adapters : /\ st[a].activeRunId = 0 /\ st[a].pendingRunId = 0
                          /\ st[a].status \notin InFlight
  BY DEF Init, RegisteredState, InitialState, InFlight
<1>2. /\ activeRunIds = {} /\ executing = {} /\ queuedRunIds = << >>
      /\ ~shuttingDown
      /\ \A r \in RunIds : runs[r] = NoRun(1) /\ persisted[r].status = "none"
  BY DEF Init, NoRow
<1>3. ActiveIsReferred /\ PendingIsReferred /\ SlotIsReferred /\ QuietStates
  BY <1>1, <1>2 DEF ActiveIsReferred, PendingIsReferred, SlotIsReferred, QuietStates
<1>4. NothingAfterShutdown /\ UnfinishedRows /\ OpenRows
  BY <1>1, <1>2 DEF NothingAfterShutdown, UnfinishedRows, OpenRows, InFlight
<1>5. QuietSnapshots
  BY <1>2 DEF QuietSnapshots, QuietState, NoRun, InitialState, InFlight
<1> QED BY <1>3, <1>4, <1>5 DEF Views

(* With ViewInv and the other invariants the properties hold. *)
LEMMA ViewsAgree == IInv /\ RowInv /\ ViewInv => RunStateAgreement /\ NoOrphanRow
<1> SUFFICES ASSUME IInv, RowInv, Views PROVE RunStateAgreement /\ NoOrphanRow
  BY DEF ViewInv, RunStateAgreement, NoOrphanRow
<1>1. NoOrphanRow
  BY DEF Views, OpenRows, NoOrphanRow
<1>2. ASSUME shuttingDown, NEW a \in Adapters
      PROVE  ~HasAcceptedRun(a) /\ st[a].status \notin InFlight
  BY <1>2 DEF Views, NothingAfterShutdown, QuietStates
<1>3. ASSUME ~shuttingDown, NEW a \in Adapters, st[a].activeRunId # 0
      PROVE  /\ st[a].activeRunId \in executing \cap activeRunIds
             /\ runs[st[a].activeRunId].adapter = a
             /\ runs[st[a].activeRunId].status = "syncing"
             /\ st[a].pendingRunId = 0
  BY <1>3 DEF Views, ActiveIsReferred, RowInv, ActiveIsSyncing
<1>4. ASSUME ~shuttingDown, NEW a \in Adapters, st[a].pendingRunId # 0
      PROVE  /\ st[a].pendingRunId \in Queued
             /\ runs[st[a].pendingRunId].adapter = a
             /\ runs[st[a].pendingRunId].status = "queued"
  BY <1>4 DEF Views, PendingIsReferred, RowInv, QueueIsQueued, Queued
<1>5. ASSUME ~shuttingDown
      PROVE  \A r \in executing \cup activeRunIds : st[runs[r].adapter].activeRunId = r
  BY <1>5 DEF Views, SlotIsReferred, IInv, ExecutingHoldsSlot
<1>6. \A r \in Queued : st[runs[r].adapter].pendingRunId = r
  BY DEF Queued, IInv, QueueOwned
<1> QED BY <1>1, <1>2, <1>3, <1>4, <1>5, <1>6 DEF RunStateAgreement

(* A step that leaves the accepted runs and their owners alone. *)
LEMMA QuietViews ==
    ASSUME IInv, RowInv, Views,
           UNCHANGED <<queuedRunIds, activeRunIds, executing, shuttingDown, up>>,
           \A a \in Adapters :
               /\ st'[a].activeRunId = st[a].activeRunId
               /\ st'[a].pendingRunId = st[a].pendingRunId
               /\ st'[a].status \in InFlight => st[a].status \in InFlight,
           \A r \in RunIds :
               /\ runs'[r].adapter = runs[r].adapter
               /\ runs[r].status \in InFlight => runs'[r].status = runs[r].status
               /\ persisted'[r].status \in InFlight => persisted'[r] = persisted[r],
           QuietSnapshots'
    PROVE  Views'
<1>1. /\ \A r \in activeRunIds : r \in RunIds
      /\ \A r \in Queued : r \in RunIds
      /\ Queued' = Queued /\ Accepted' = Accepted
  BY QueueTypes DEF IInv, TypeOK, Queued, Accepted
<1>2. ActiveIsReferred'
  BY <1>1 DEF Views, ActiveIsReferred
<1>3. PendingIsReferred'
  BY <1>1 DEF Views, PendingIsReferred
<1>4. SlotIsReferred'
  BY <1>1, QueueTypes DEF Views, SlotIsReferred, IInv
<1>5. NothingAfterShutdown' /\ QuietStates'
  BY DEF Views, NothingAfterShutdown, QuietStates, HasAcceptedRun
<1>6. UnfinishedRows'
  BY DEF Views, UnfinishedRows
<1>7. OpenRows'
  BY <1>1 DEF Views, OpenRows
<1> QED BY <1>2, <1>3, <1>4, <1>5, <1>6, <1>7 DEF Views

(* A step that starts run r of adapter a, which has no active run. *)
LEMMA StartViews ==
    ASSUME IInv, RowInv, Views, NEW r \in RunIds, NEW a \in Adapters,
           ~shuttingDown, UNCHANGED shuttingDown, up, up',
           r \notin activeRunIds, st[a].activeRunId = 0,
           activeRunIds' = activeRunIds \cup {r},
           executing' = executing \cup {r},
           r \in Queued => runs[r].adapter = a,
           Queued' = Queued \ {r},
           runs'[r].adapter = a, runs'[r].status = "syncing",
           QuietState(runs'[r].restoreState),
           \A q \in RunIds : q # r => runs'[q] = runs[q],
           st'[a].activeRunId = r, st'[a].pendingRunId = 0,
           \A b \in Adapters \ {a} :
               /\ st'[b].activeRunId = st[b].activeRunId
               /\ st'[b].pendingRunId = st[b].pendingRunId
               /\ st'[b].status \in InFlight => st[b].status \in InFlight,
           persisted'[r].status = "syncing", persisted'[r].completedAt = 0,
           \A q \in RunIds : q # r => persisted'[q] = persisted[q]
    PROVE  Views'
<1>1. /\ \A q \in activeRunIds : q \in RunIds
      /\ \A q \in Queued : q \in RunIds
      /\ \A q \in RunIds : q # 0 /\ runs[q].adapter \in Adapters
  BY QueueTypes DEF IInv, TypeOK, Queued
<1>2. ActiveIsReferred'
  <2>1. ASSUME NEW b \in Adapters, st'[b].activeRunId # 0
        PROVE  /\ st'[b].activeRunId \in executing' \cap activeRunIds'
               /\ runs'[st'[b].activeRunId].adapter = b
               /\ st'[b].pendingRunId = 0
    <3>1. CASE b = a
      BY <3>1
    <3>2. CASE b # a
      <4>1. /\ st[b].activeRunId \in executing \cap activeRunIds
            /\ runs[st[b].activeRunId].adapter = b
            /\ st[b].pendingRunId = 0
        BY <2>1, <3>2 DEF Views, ActiveIsReferred
      <4> QED BY <1>1, <3>2, <4>1
    <3> QED BY <3>1, <3>2
  <2> QED BY <2>1 DEF ActiveIsReferred
<1>3. PendingIsReferred'
  <2>1. ASSUME NEW b \in Adapters, st'[b].pendingRunId # 0
        PROVE  /\ st'[b].pendingRunId \in Queued'
               /\ runs'[st'[b].pendingRunId].adapter = b
    <3>1. b # a /\ st[b].pendingRunId # 0
      BY <2>1
    <3>2. /\ st[b].pendingRunId \in Queued
          /\ runs[st[b].pendingRunId].adapter = b
      BY <3>1 DEF Views, PendingIsReferred
    <3> QED BY <1>1, <3>1, <3>2
  <2> QED BY <2>1 DEF PendingIsReferred
<1>4. SlotIsReferred'
  <2>1. ASSUME NEW q \in activeRunIds' PROVE st'[runs'[q].adapter].activeRunId = q
    <3>1. CASE q = r
      BY <3>1
    <3>2. CASE q # r
      <4>1. q \in activeRunIds /\ st[runs[q].adapter].activeRunId = q
        BY <2>1, <3>2 DEF Views, SlotIsReferred
      <4>2. runs[q].adapter \in Adapters \ {a}
        BY <1>1, <4>1
      <4> QED BY <1>1, <3>2, <4>1, <4>2
    <3> QED BY <3>1, <3>2
  <2> QED BY <2>1 DEF SlotIsReferred
<1>5. NothingAfterShutdown'
  BY DEF NothingAfterShutdown
<1>6. QuietStates'
  BY <1>1 DEF Views, QuietStates, HasAcceptedRun
<1>7. QuietSnapshots'
  BY DEF Views, QuietSnapshots, QuietState
<1>8. UnfinishedRows'
  BY DEF Views, UnfinishedRows
<1>9. OpenRows'
  <2>1. Accepted' = Accepted \cup {r}
    BY DEF Accepted
  <2> QED BY <2>1 DEF Views, OpenRows
<1> QED BY <1>2, <1>3, <1>4, <1>5, <1>6, <1>7, <1>8, <1>9 DEF Views

(* The step that queues a new run r of adapter a, which has no run. *)
LEMMA QueueViews ==
    ASSUME IInv, RowInv, Views, NEW a \in Adapters, AcceptQueued(a), QuietState(RefreshFreshness[a])
    PROVE  Views'
<1> DEFINE r == runSeq + 1
<1>1. /\ r \in RunIds /\ ~shuttingDown /\ up
      /\ st[a].activeRunId = 0 /\ st[a].pendingRunId = 0
  BY NextIdType DEF IInv, ShutdownIsQuiet, AcceptQueued, AcceptsNew, Accepting, HasAcceptedRun
<1>2. /\ UNCHANGED <<activeRunIds, executing, shuttingDown, up>>
      /\ queuedRunIds' = Append(queuedRunIds, r)
      /\ st' = [RefreshFreshness EXCEPT ![a].pendingRunId = r, ![a].status = "queued"]
      /\ runs' = [runs EXCEPT ![r] = NewRun(a)]
      /\ persisted' = [persisted EXCEPT ![r] = Row(NewRun(a))]
  BY DEF AcceptQueued, Enqueue, env
<1>3. /\ NewRun(a).adapter = a /\ NewRun(a).status = "queued"
      /\ QuietState(NewRun(a).restoreState)
      /\ Row(NewRun(a)).status = "queued" /\ Row(NewRun(a)).completedAt = 0
  BY DEF NewRun, Row
<1>4. Queued' = Queued \cup {r}
  <2>1. queuedRunIds \in Seq(RunIds)
    BY DEF IInv, TypeOK
  <2>2. /\ DOMAIN queuedRunIds' = 1 .. (Len(queuedRunIds) + 1)
        /\ DOMAIN queuedRunIds = 1 .. Len(queuedRunIds)
        /\ Len(queuedRunIds) \in Nat
        /\ queuedRunIds'[Len(queuedRunIds) + 1] = r
        /\ \A i \in DOMAIN queuedRunIds : queuedRunIds'[i] = queuedRunIds[i]
    BY <1>1, <1>2, <2>1
  <2>3. /\ \A i \in DOMAIN queuedRunIds' :
              i \in DOMAIN queuedRunIds \/ i = Len(queuedRunIds) + 1
        /\ \A i \in DOMAIN queuedRunIds : i \in DOMAIN queuedRunIds'
        /\ Len(queuedRunIds) + 1 \in DOMAIN queuedRunIds'
    BY <2>2
  <2> HIDE DEF r
  <2> QED BY <2>2, <2>3 DEF Queued
<1>5. /\ \A q \in activeRunIds \cup Queued : q \in RunIds /\ q # r
      /\ \A q \in RunIds : q # 0 /\ runs[q].adapter \in Adapters
  <2>1. \A q \in Accepted : q \in RunIds /\ runs[q].status # "none"
    BY <1>1, OpenRuns DEF InFlight
  <2>2. \A q \in Accepted : q <= runSeq
    BY <2>1 DEF RowInv, RunsHandedOut
  <2>3. runSeq \in Int
    BY DEF IInv, TypeOK
  <2> QED BY <2>1, <2>2, <2>3, QueueTypes DEF Accepted, IInv
<1>6. /\ runs'[r] = NewRun(a) /\ persisted'[r] = Row(NewRun(a))
      /\ \A q \in RunIds : q # r => runs'[q] = runs[q] /\ persisted'[q] = persisted[q]
  BY <1>1, <1>2 DEF IInv, TypeOK
<1>7. /\ st'[a].pendingRunId = r /\ st'[a].activeRunId = 0
      /\ \A b \in Adapters \ {a} :
            /\ st'[b].activeRunId = st[b].activeRunId
            /\ st'[b].pendingRunId = st[b].pendingRunId
            /\ st'[b].status \in InFlight => st[b].status \in InFlight
  <2>1. /\ RefreshFreshness \in [Adapters -> StateRec]
        /\ \A b \in Adapters :
              /\ RefreshFreshness[b].activeRunId = st[b].activeRunId
              /\ RefreshFreshness[b].pendingRunId = st[b].pendingRunId
              /\ RefreshFreshness[b].status \in InFlight => st[b].status \in InFlight
    BY RefreshKeepsRuns DEF IInv, TypeOK, RefreshFreshness, InFlight
  <2> HIDE DEF r
  <2>2. \A b \in Adapters \ {a} : st'[b] = RefreshFreshness[b]
    BY <1>2, <2>1
  <2>3. st'[a].pendingRunId = r /\ st'[a].activeRunId = RefreshFreshness[a].activeRunId
    BY <1>2, <2>1 DEF StateRec
  <2> QED BY <1>1, <2>1, <2>2, <2>3
<1> HIDE DEF r
<1>8. ActiveIsReferred'
  <2>1. ASSUME NEW b \in Adapters, st'[b].activeRunId # 0
        PROVE  /\ st'[b].activeRunId \in executing \cap activeRunIds
               /\ runs'[st'[b].activeRunId].adapter = b
               /\ st'[b].pendingRunId = 0
    <3>1. b # a /\ st[b].activeRunId # 0
      BY <1>7, <2>1
    <3>2. /\ st[b].activeRunId \in executing \cap activeRunIds
          /\ runs[st[b].activeRunId].adapter = b
          /\ st[b].pendingRunId = 0
      BY <1>1, <3>1 DEF Views, ActiveIsReferred
    <3> QED BY <1>5, <1>6, <1>7, <3>1, <3>2
  <2> QED BY <1>2, <2>1 DEF ActiveIsReferred
<1>9. PendingIsReferred'
  <2>1. ASSUME NEW b \in Adapters, st'[b].pendingRunId # 0
        PROVE  /\ st'[b].pendingRunId \in Queued'
               /\ runs'[st'[b].pendingRunId].adapter = b
    <3>1. CASE b = a
      BY <1>3, <1>4, <1>6, <1>7, <3>1
    <3>2. CASE b # a
      <4>1. /\ st[b].pendingRunId \in Queued
            /\ runs[st[b].pendingRunId].adapter = b
        BY <1>1, <1>7, <2>1, <3>2 DEF Views, PendingIsReferred
      <4> QED BY <1>4, <1>5, <1>6, <1>7, <3>2, <4>1
    <3> QED BY <3>1, <3>2
  <2> QED BY <2>1 DEF PendingIsReferred
<1>10. SlotIsReferred'
  <2>1. ASSUME NEW q \in activeRunIds PROVE st'[runs'[q].adapter].activeRunId = q
    <3>1. st[runs[q].adapter].activeRunId = q /\ q \in RunIds /\ q # r
      BY <1>1, <1>5 DEF Views, SlotIsReferred
    <3>2. runs[q].adapter \in Adapters \ {a}
      BY <1>1, <1>5, <3>1
    <3> QED BY <1>6, <1>7, <3>1, <3>2
  <2> QED BY <1>2, <2>1 DEF SlotIsReferred
<1>11. NothingAfterShutdown'
  BY <1>1, <1>2 DEF NothingAfterShutdown
<1>12. QuietStates'
  <2>1. r # 0
    BY <1>1, <1>5
  <2> QED BY <1>7, <2>1 DEF Views, QuietStates, HasAcceptedRun
<1>13. QuietSnapshots'
  BY <1>3, <1>6 DEF Views, QuietSnapshots, QuietState
<1>14. UnfinishedRows'
  BY <1>3, <1>6 DEF Views, UnfinishedRows
<1>15. OpenRows'
  <2>1. Accepted' = Accepted \cup {r}
    BY <1>2, <1>4 DEF Accepted
  <2> QED BY <1>1, <1>3, <1>6, <2>1 DEF Views, OpenRows
<1> QED BY <1>8, <1>9, <1>10, <1>11, <1>12, <1>13, <1>14, <1>15 DEF Views

(* The step in which a run settles with an outcome that is saved. *)
LEMMA SettleViews ==
    ASSUME IInv, RowInv, Views, NEW r \in executing, NEW status \in Terminal,
           ~shuttingDown, UNCHANGED <<shuttingDown, up, queuedRunIds>>, up,
           activeRunIds' = activeRunIds \ {r},
           executing' = executing \ {r},
           runs' = [runs EXCEPT ![r] = Completed(r, status)],
           persisted' = [persisted EXCEPT ![r] = Row(Completed(r, status))],
           NEW s, QuietState(s), st' = [st EXCEPT ![runs[r].adapter] = s]
    PROVE  Views'
<1> DEFINE a == runs[r].adapter
<1>1. r \in RunIds /\ r \in activeRunIds /\ a \in Adapters /\ st[a].activeRunId = r
  BY QueueTypes, OpenRuns DEF IInv, TypeOK, ExecutingOwned
<1>2. /\ \A q \in activeRunIds \cup Queued : q \in RunIds
      /\ \A q \in RunIds : q # 0 /\ runs[q].adapter \in Adapters
      /\ Queued' = Queued
  BY QueueTypes DEF IInv, TypeOK, Queued
<1>3. /\ runs'[r] = Completed(r, status) /\ persisted'[r] = Row(Completed(r, status))
      /\ \A q \in RunIds : q # r => runs'[q] = runs[q] /\ persisted'[q] = persisted[q]
  BY <1>1 DEF IInv, TypeOK
<1>4. /\ Completed(r, status).adapter = a
      /\ QuietState(Completed(r, status).restoreState)
      /\ Row(Completed(r, status)).status \notin InFlight
  BY DEF Completed, QuietState, InitialState, Row, InFlight, Terminal
<1>5. st'[a] = s /\ \A b \in Adapters \ {a} : st'[b] = st[b]
  BY <1>1 DEF IInv, TypeOK
<1> HIDE DEF a
<1>5a. s.activeRunId = 0 /\ s.pendingRunId = 0 /\ s.status \notin InFlight
  BY DEF QuietState
<1>6. ActiveIsReferred'
  <2>1. ASSUME NEW b \in Adapters, st'[b].activeRunId # 0
        PROVE  /\ st'[b].activeRunId \in executing' \cap activeRunIds'
               /\ runs'[st'[b].activeRunId].adapter = b
               /\ st'[b].pendingRunId = 0
    <3>1. b # a
      BY <1>5, <1>5a, <2>1
    <3>2. /\ st[b].activeRunId \in executing \cap activeRunIds
          /\ runs[st[b].activeRunId].adapter = b
          /\ st[b].pendingRunId = 0
      BY <1>5, <2>1, <3>1 DEF Views, ActiveIsReferred
    <3>3. st[b].activeRunId # r
      BY <3>1, <3>2 DEF a
    <3> QED BY <1>2, <1>3, <1>5, <3>1, <3>2, <3>3
  <2> QED BY <2>1 DEF ActiveIsReferred
<1>7. PendingIsReferred'
  <2>1. ASSUME NEW b \in Adapters, st'[b].pendingRunId # 0
        PROVE  /\ st'[b].pendingRunId \in Queued
               /\ runs'[st'[b].pendingRunId].adapter = b
    <3>1. b # a
      BY <1>5, <1>5a, <2>1
    <3>2. /\ st[b].pendingRunId \in Queued
          /\ runs[st[b].pendingRunId].adapter = b
      BY <1>5, <2>1, <3>1 DEF Views, PendingIsReferred
    <3>3. st[b].pendingRunId # r
      BY <3>1, <3>2 DEF a
    <3> QED BY <1>2, <1>3, <1>5, <3>1, <3>2, <3>3
  <2> QED BY <1>2, <2>1 DEF PendingIsReferred
<1>8. SlotIsReferred'
  <2>1. ASSUME NEW q \in activeRunIds, q # r PROVE st'[runs'[q].adapter].activeRunId = q
    <3>1. st[runs[q].adapter].activeRunId = q /\ q \in RunIds
      BY <1>2 DEF Views, SlotIsReferred
    <3>2. runs[q].adapter \in Adapters \ {a}
      BY <1>1, <1>2, <2>1, <3>1
    <3> QED BY <1>3, <1>5, <2>1, <3>1, <3>2
  <2> QED BY <2>1 DEF SlotIsReferred
<1>9. NothingAfterShutdown'
  BY DEF NothingAfterShutdown
<1>10. QuietStates'
  BY <1>5, <1>5a DEF Views, QuietStates, HasAcceptedRun
<1>11. QuietSnapshots'
  BY <1>3, <1>4 DEF Views, QuietSnapshots, QuietState
<1>12. UnfinishedRows'
  BY <1>3, <1>4 DEF Views, UnfinishedRows
<1>13. OpenRows'
  <2>1. \A q \in Accepted : q # r => q \in Accepted'
    BY <1>2 DEF Accepted
  <2> QED BY <1>3, <1>4, <2>1 DEF Views, OpenRows
<1> QED BY <1>6, <1>7, <1>8, <1>9, <1>10, <1>11, <1>12, <1>13 DEF Views

(* Shutdown: every adapter with a run gets back the state from before it. *)
LEMMA ShutdownViews ==
    ASSUME IInv, RowInv, Views, Shutdown
    PROVE  Views'
<1> DEFINE live == {r \in Accepted : runs[r].status \in InFlight}
           ofA(a) == {r \in live : runs[r].adapter = a}
<1>1. /\ ~shuttingDown /\ shuttingDown' /\ activeRunIds' = {} /\ queuedRunIds' = << >>
      /\ up /\ up'
  BY DEF Shutdown, Idle, env
<1>2. /\ \A r \in Accepted : r \in RunIds /\ r \in live
      /\ \A r \in RunIds : r # 0
  BY <1>1, OpenRuns, QueueTypes DEF IInv
<1>3. \A r \in RunIds :
         /\ r \in live => /\ runs'[r] = Completed(r, "aborted")
                          /\ persisted'[r] = Row(Completed(r, "aborted"))
         /\ r \notin live => runs'[r] = runs[r] /\ persisted'[r] = persisted[r]
  BY DEF Shutdown, AbortRuns
<1>4. \A a \in Adapters :
         /\ ofA(a) = {} => st'[a] = st[a]
         /\ ofA(a) # {} => \E r \in live : st'[a] = runs[r].restoreState
  <2>1. \A a \in Adapters :
           /\ ofA(a) = {} => st'[a] = st[a]
           /\ ofA(a) # {} => st'[a] = runs[CHOOSE r \in ofA(a) : TRUE].restoreState
    BY DEF Shutdown, AbortRuns, Restored
  <2>2. \A a \in Adapters : ofA(a) \subseteq live
    OBVIOUS
  <2> HIDE DEF ofA, live
  <2> QED BY <2>1, <2>2
<1>5. \A r \in live : QuietState(runs[r].restoreState)
  BY <1>2 DEF Views, QuietSnapshots
<1>6. ASSUME NEW a \in Adapters
      PROVE  ~(st'[a].activeRunId # 0 \/ st'[a].pendingRunId # 0) /\ st'[a].status \notin InFlight
  <2>1. CASE ofA(a) # {}
    <3> HIDE DEF ofA, live
    <3> QED BY <1>4, <1>5, <2>1 DEF QuietState
  <2>2. CASE ofA(a) = {}
    <3>1. st[a].activeRunId = 0
      BY <1>1, <1>2, <2>2 DEF Views, ActiveIsReferred, Accepted
    <3>2. st[a].pendingRunId = 0
      BY <1>1, <1>2, <2>2 DEF Views, PendingIsReferred, Accepted
    <3> HIDE DEF ofA, live
    <3> QED BY <1>4, <2>2, <3>1, <3>2 DEF Views, QuietStates, HasAcceptedRun
  <2> QED BY <2>1, <2>2
<1>7. ActiveIsReferred' /\ PendingIsReferred' /\ SlotIsReferred'
  BY <1>1 DEF ActiveIsReferred, PendingIsReferred, SlotIsReferred
<1>8. NothingAfterShutdown' /\ QuietStates'
  BY <1>1, <1>6 DEF NothingAfterShutdown, QuietStates, HasAcceptedRun
<1>9. \A r : /\ QuietState(Completed(r, "aborted").restoreState)
             /\ Row(Completed(r, "aborted")).status \notin InFlight
  BY DEF Completed, QuietState, InitialState, Row, InFlight
<1> HIDE DEF live
<1>10. QuietSnapshots' /\ UnfinishedRows'
  BY <1>3, <1>9 DEF Views, QuietSnapshots, QuietState, UnfinishedRows
<1>11. \A r \in RunIds : persisted'[r].status \notin InFlight
  BY <1>1, <1>2, <1>3, <1>9 DEF Views, OpenRows
<1>12. OpenRows'
  BY <1>11 DEF OpenRows
<1> QED BY <1>7, <1>8, <1>10, <1>12 DEF Views

(* A process that ends or starts knows nothing of runs. *)
LEMMA DieViews == ASSUME Views, Die PROVE Views'
<1>1. \A a \in Adapters : /\ st'[a].activeRunId = 0 /\ st'[a].pendingRunId = 0
                          /\ st'[a].status \notin InFlight
  BY DEF Die, RegisteredState, InitialState, InFlight
<1>2. /\ activeRunIds' = {} /\ ~shuttingDown' /\ ~up' /\ persisted' = persisted
      /\ \A r \in RunIds : runs'[r] = NoRun(1)
  BY DEF Die
<1>3. ActiveIsReferred' /\ PendingIsReferred' /\ SlotIsReferred' /\ QuietStates'
  BY <1>1, <1>2 DEF ActiveIsReferred, PendingIsReferred, SlotIsReferred, QuietStates
<1>4. NothingAfterShutdown' /\ UnfinishedRows' /\ OpenRows'
  BY <1>2 DEF NothingAfterShutdown, Views, UnfinishedRows, OpenRows
<1>5. QuietSnapshots'
  BY <1>2 DEF QuietSnapshots, QuietState, NoRun, InitialState, InFlight
<1> QED BY <1>3, <1>4, <1>5 DEF Views

LEMMA RestartViews == ASSUME IInv, Views, Restart PROVE Views'
<1>1. UNCHANGED <<st, runs, queuedRunIds, activeRunIds, executing, shuttingDown>>
  BY DEF Restart
<1>2. ASSUME NEW r \in RunIds PROVE persisted'[r].status \notin InFlight
  <2>1. CASE persisted[r].status \in InFlight
    <3>1. r \in Loaded
      BY <2>1 DEF Views, UnfinishedRows, Loaded, InFlight
    <3>2. persisted'[r] = [status |-> "aborted", completedAt |-> clock]
      BY <2>1, <3>1 DEF Restart, LoadedRow
    <3> QED BY <3>2 DEF InFlight
  <2>2. CASE persisted[r].status \notin InFlight
    BY <2>2 DEF Restart, LoadedRow
  <2> QED BY <2>1, <2>2
<1>3. UnfinishedRows' /\ OpenRows'
  BY <1>2 DEF UnfinishedRows, OpenRows
<1>4. ActiveIsReferred' /\ PendingIsReferred' /\ SlotIsReferred'
  BY <1>1 DEF Views, ActiveIsReferred, PendingIsReferred, SlotIsReferred, Queued
<1>5. NothingAfterShutdown' /\ QuietStates' /\ QuietSnapshots'
  BY <1>1 DEF Views, NothingAfterShutdown, QuietStates, QuietSnapshots, HasAcceptedRun
<1> QED BY <1>3, <1>4, <1>5 DEF Views

(* Every step keeps ViewInv. *)
LEMMA ViewStep == IInv /\ RowInv /\ ViewInv /\ [Next]_vars => ViewInv'
<1> SUFFICES ASSUME IInv, RowInv, ViewInv, [Next]_vars, saveFailures' = 0
             PROVE  Views'
  BY DEF ViewInv
<1> USE DEF env
<1>0. TypeOK /\ TypeOK'
  BY TypeStep DEF IInv
<1>a. ~SaveFails
  BY <1>0 DEF SaveFails, TypeOK
<1>b. saveFailures = 0
  BY <1>a
     DEF Next, vars, mem, Trigger, TriggerAll, ManualSync, Accept, AcceptRefused,
         AcceptCoalesced, AcceptStarted, AcceptQueued, AcceptSaveFails,
         AcceptStartSaveFails, Timeout, Settle, SettleIgnored, SettleSuccess,
         SettleFailure, SettleSaveFails, DrainQueue, DrainStart, DrainDone,
         Shutdown, ShutdownSaveFails, GetStatus, SetEnabled,
         MarkBackgroundSuccess, Tick, Crash, SaveFailureKills, Restart
<1>c. Views
  BY <1>b DEF ViewInv
<1>d. \A a \in Adapters :
         /\ RefreshFreshness[a].activeRunId = st[a].activeRunId
         /\ RefreshFreshness[a].pendingRunId = st[a].pendingRunId
         /\ RefreshFreshness[a].status \in InFlight => st[a].status \in InFlight
  BY <1>0 DEF TypeOK, StateRec, RefreshFreshness, InFlight
<1>e. RefreshFreshness \in [Adapters -> StateRec]
  BY <1>0, RefreshKeepsRuns
<1>1. ASSUME UNCHANGED <<runs, persisted, queuedRunIds, activeRunIds, executing,
                         shuttingDown, up>>,
             \A a \in Adapters :
               /\ st'[a].activeRunId = st[a].activeRunId
               /\ st'[a].pendingRunId = st[a].pendingRunId
               /\ st'[a].status \in InFlight => st[a].status \in InFlight
      PROVE  Views'
  <2>1. QuietSnapshots'
    BY <1>1, <1>c DEF Views, QuietSnapshots
  <2> QED BY <1>1, <1>c, <2>1, QuietViews
<1>2. ASSUME NEW targets \in SUBSET Adapters, ManualSync(targets) PROVE Views'
  BY <1>1, <1>2 DEF ManualSync
<1>3. ASSUME NEW a \in Adapters, AcceptRefused(a) \/ AcceptCoalesced(a)
      PROVE  Views'
  <2>1. /\ st' = RefreshFreshness
        /\ UNCHANGED <<runs, persisted, queuedRunIds, activeRunIds, executing,
                       shuttingDown, up>>
    BY <1>3 DEF AcceptRefused, AcceptCoalesced
  <2> QED BY <1>1, <1>d, <2>1
<1>4. ASSUME NEW a \in Adapters, AcceptsNew(a)
      PROVE  /\ QuietState(RefreshFreshness[a])
             /\ st[a].activeRunId = 0
             /\ runSeq + 1 \in RunIds /\ ~shuttingDown /\ up
             /\ runSeq + 1 \notin Accepted
  <2>1. st[a].activeRunId = 0 /\ st[a].pendingRunId = 0 /\ ~HasAcceptedRun(a)
    BY <1>4 DEF AcceptsNew, HasAcceptedRun
  <2>2. st[a].status \notin InFlight
    BY <1>c, <2>1 DEF Views, QuietStates
  <2>3. QuietState(RefreshFreshness[a])
    BY <1>d, <2>1, <2>2 DEF QuietState
  <2>4. runSeq + 1 \in RunIds /\ ~shuttingDown /\ up
    BY <1>0, <1>4, NextIdType DEF IInv, ShutdownIsQuiet, AcceptsNew, Accepting
  <2>5. \A q \in Accepted : q <= runSeq
    BY <2>4, OpenRuns DEF RowInv, RunsHandedOut, InFlight
  <2>6. runSeq \in Int
    BY <1>0 DEF TypeOK
  <2> QED BY <2>1, <2>3, <2>4, <2>5, <2>6
<1>5. ASSUME NEW a \in Adapters, AcceptStarted(a) PROVE Views'
  <2> DEFINE r == runSeq + 1
  <2>0. AcceptsNew(a)
    BY <1>5 DEF AcceptStarted
  <2>1. /\ r \in RunIds /\ ~shuttingDown /\ up /\ r \notin activeRunIds
        /\ r \notin Queued /\ st[a].activeRunId = 0
    BY <1>4, <2>0 DEF Accepted
  <2>2. /\ UNCHANGED <<queuedRunIds, shuttingDown, up>>
        /\ runs' = [runs EXCEPT ![r] = StartedRun(a)]
        /\ persisted' = [persisted EXCEPT ![r] = Row(StartedRun(a))]
        /\ st' = [RefreshFreshness EXCEPT ![a] = Syncing(@, r)]
        /\ activeRunIds' = activeRunIds \cup {r}
        /\ executing' = executing \cup {r}
    BY <1>5 DEF AcceptStarted
  <2>3. /\ StartedRun(a).adapter = a /\ StartedRun(a).status = "syncing"
        /\ StartedRun(a).restoreState = RefreshFreshness[a]
        /\ Row(StartedRun(a)).status = "syncing" /\ Row(StartedRun(a)).completedAt = 0
    BY DEF StartedRun, NewRun, Row
  <2> HIDE DEF r
  <2>4. /\ runs'[r] = StartedRun(a) /\ persisted'[r] = Row(StartedRun(a))
        /\ \A q \in RunIds : q # r => runs'[q] = runs[q] /\ persisted'[q] = persisted[q]
    BY <1>0, <2>1, <2>2 DEF TypeOK
  <2>5. /\ st'[a].activeRunId = r /\ st'[a].pendingRunId = 0
        /\ \A b \in Adapters \ {a} : st'[b] = RefreshFreshness[b]
    BY <1>e, <2>2 DEF Syncing, StateRec
  <2>6. Queued' = Queued \ {r}
    BY <2>1, <2>2 DEF Queued
  <2>7. QuietState(runs'[r].restoreState)
    BY <1>4, <2>0, <2>3, <2>4
  <2> QED BY <1>c, <1>d, <2>1, <2>2, <2>3, <2>4, <2>5, <2>6, <2>7, StartViews
<1>6. ASSUME NEW a \in Adapters, AcceptQueued(a) PROVE Views'
  BY <1>4, <1>6, <1>c, QueueViews DEF AcceptQueued
<1>7. ASSUME NEW r \in RunIds, Timeout(r) PROVE Views'
  <2>1. /\ UNCHANGED <<persisted, queuedRunIds, activeRunIds, executing,
                       shuttingDown, up, st>>
        /\ \A q \in RunIds : /\ runs'[q].adapter = runs[q].adapter
                             /\ runs'[q].status = runs[q].status
                             /\ runs'[q].restoreState = runs[q].restoreState
    BY <1>0, <1>7 DEF Timeout, TypeOK, RunRec
  <2>2. QuietSnapshots'
    BY <1>c, <2>1 DEF Views, QuietSnapshots
  <2> QED BY <1>c, <2>1, <2>2, QuietViews
<1>8. ASSUME NEW r \in RunIds, SettleIgnored(r) PROVE Views'
  <2>1. /\ UNCHANGED <<st, runs, persisted, queuedRunIds, shuttingDown, up>>
        /\ activeRunIds' = activeRunIds \ {r}
        /\ r \in executing /\ ~OutcomeApplies(r)
    BY <1>8 DEF SettleIgnored, Finally
  <2>2. shuttingDown
    BY <2>1, OpenRuns DEF OutcomeApplies, RowInv, ActiveIsSyncing
  <2>3. activeRunIds = {} /\ activeRunIds' = {}
    BY <1>c, <2>1, <2>2 DEF Views, NothingAfterShutdown
  <2>4. ActiveIsReferred' /\ PendingIsReferred' /\ SlotIsReferred'
    BY <2>1, <2>2 DEF ActiveIsReferred, PendingIsReferred, SlotIsReferred
  <2>5. NothingAfterShutdown' /\ QuietStates' /\ QuietSnapshots' /\ UnfinishedRows'
    BY <1>c, <2>1, <2>3 DEF Views, NothingAfterShutdown, QuietStates,
                            QuietSnapshots, UnfinishedRows, HasAcceptedRun
  <2>6. OpenRows'
    BY <1>c, <2>1, <2>3 DEF Views, OpenRows, Accepted, Queued
  <2> QED BY <2>4, <2>5, <2>6 DEF Views
<1>9. ASSUME NEW r \in RunIds, SettleSuccess(r) \/ SettleFailure(r) PROVE Views'
  <2>1. /\ r \in executing /\ ~shuttingDown /\ up
        /\ UNCHANGED <<shuttingDown, up, queuedRunIds>>
        /\ activeRunIds' = activeRunIds \ {r}
        /\ executing' = executing \ {r}
    BY <1>9 DEF SettleSuccess, SettleFailure, Idle, OutcomeApplies, Finally
  <2>2. PICK status \in Terminal :
           /\ runs' = [runs EXCEPT ![r] = Completed(r, status)]
           /\ persisted' = [persisted EXCEPT ![r] = Row(Completed(r, status))]
    BY <1>9 DEF SettleSuccess, SettleFailure, Terminal
  <2>3. PICK s : QuietState(s) /\ st' = [st EXCEPT ![runs[r].adapter] = s]
    <3>1. CASE SettleSuccess(r)
      <4> DEFINE s == [status |-> "ready", activeRunId |-> 0, pendingRunId |-> 0,
                       lastSuccessfulAt |-> clock]
      <4>1. QuietState(s)
        BY DEF QuietState, InFlight
      <4>2. st' = [st EXCEPT ![runs[r].adapter] = s]
        BY <3>1 DEF SettleSuccess, Completed
      <4> HIDE DEF s
      <4> QED BY <4>1, <4>2
    <3>2. CASE SettleFailure(r)
      <4> DEFINE a == runs[r].adapter
                 s == [status |-> IF runs[r].restoreState.lastSuccessfulAt = 0
                                  THEN "error" ELSE "stale",
                       activeRunId |-> 0, pendingRunId |-> 0,
                       lastSuccessfulAt |-> st[a].lastSuccessfulAt]
      <4>1. QuietState(s)
        BY DEF QuietState, InFlight
      <4>2. st' = [st EXCEPT ![a] = s]
        BY <3>2 DEF SettleFailure, Completed
      <4> HIDE DEF s
      <4> QED BY <4>1, <4>2
    <3> QED BY <1>9, <3>1, <3>2
  <2> QED BY <1>c, <2>1, <2>2, <2>3, SettleViews
<1>10. ASSUME DrainStart PROVE Views'
  <2> DEFINE r == Head(queuedRunIds)
             run == [runs[r] EXCEPT !.status = "syncing"]
             a == runs[r].adapter
  <2>1. /\ r = queuedRunIds[1] /\ 1 \in DOMAIN queuedRunIds
        /\ DOMAIN queuedRunIds = 1 .. Len(queuedRunIds)
        /\ Len(queuedRunIds) \in Nat
        /\ queuedRunIds' = Tail(queuedRunIds)
        /\ DOMAIN queuedRunIds' = 1 .. (Len(queuedRunIds) - 1)
        /\ \A i \in DOMAIN queuedRunIds' : queuedRunIds'[i] = queuedRunIds[i + 1]
    BY <1>0, <1>10 DEF DrainStart, TypeOK
  <2>2. /\ UNCHANGED shuttingDown /\ up /\ up'
        /\ runs' = [runs EXCEPT ![r] = run]
        /\ persisted' = [persisted EXCEPT ![r] = Row(run)]
        /\ st' = [st EXCEPT ![run.adapter] = Syncing(@, r)]
        /\ activeRunIds' = activeRunIds \cup {r}
        /\ executing' = executing \cup {r}
        /\ turn.kind = "drain"
    BY <1>10 DEF DrainStart, Draining
  <2>3. ~shuttingDown
    BY <2>2 DEF IInv, ShutdownIsQuiet
  <2>4. /\ r \in RunIds /\ a \in Adapters /\ r \in Queued /\ runs[r].status = "queued"
        /\ st[a].activeRunId = 0 /\ runs[r].completedAt = 0
    BY <2>1, OpenRuns, QueueTypes
       DEF Queued, IInv, QueueOwned, RowInv, CompletedHasEnded, Terminal
  <2>5. r \notin activeRunIds
    BY <2>3, <2>4 DEF RowInv, ActiveIsSyncing
  <2>6. /\ run.adapter = a /\ run.status = "syncing" /\ run.completedAt = 0
        /\ run.restoreState = runs[r].restoreState
    BY <1>0, <2>4 DEF TypeOK, RunRec
  <2>7. QuietState(run.restoreState)
    BY <1>c, <2>4, <2>6 DEF Views, QuietSnapshots
  <2>8. Queued' = Queued \ {r}
    <3>1. \A i \in DOMAIN queuedRunIds : queuedRunIds[i] = r => i = 1
      BY <2>1 DEF IInv, QueueDistinct
    <3>2. \A i \in DOMAIN queuedRunIds' : i + 1 \in DOMAIN queuedRunIds /\ i + 1 # 1
      BY <2>1
    <3>3. \A i \in DOMAIN queuedRunIds : i # 1 =>
             i - 1 \in DOMAIN queuedRunIds' /\ queuedRunIds'[i - 1] = queuedRunIds[i]
      BY <2>1
    <3>4. Queued' \subseteq Queued \ {r}
      <4> HIDE DEF r
      <4> QED BY <2>1, <3>1, <3>2 DEF Queued
    <3>5. Queued \ {r} \subseteq Queued'
      <4>1. ASSUME NEW i \in DOMAIN queuedRunIds, queuedRunIds[i] # r
            PROVE  queuedRunIds[i] \in Queued'
        <5>1. i # 1
          BY <2>1, <4>1
        <5> QED BY <3>3, <5>1 DEF Queued
      <4> QED BY <4>1 DEF Queued
    <3> QED BY <3>4, <3>5
  <2> HIDE DEF r, run, a
  <2>9. /\ runs'[r] = run /\ persisted'[r] = Row(run)
        /\ \A q \in RunIds : q # r => runs'[q] = runs[q] /\ persisted'[q] = persisted[q]
    BY <1>0, <2>2, <2>4 DEF TypeOK
  <2>10. /\ st'[a].activeRunId = r /\ st'[a].pendingRunId = 0
         /\ \A b \in Adapters \ {a} : st'[b] = st[b]
    BY <1>0, <2>2, <2>4, <2>6 DEF TypeOK, Syncing, StateRec
  <2>11. Row(run).status = "syncing" /\ Row(run).completedAt = 0
    BY <2>6 DEF Row
  <2>12. r \in Queued => runs[r].adapter = a
    BY DEF a
  <2> QED BY <1>c, <2>2, <2>3, <2>4, <2>5, <2>6, <2>7, <2>8, <2>9, <2>10, <2>11,
             <2>12, StartViews
<1>11. ASSUME DrainDone PROVE Views'
  BY <1>1, <1>11 DEF DrainDone
<1>12. ASSUME Shutdown PROVE Views'
  BY <1>12, <1>c, ShutdownViews
<1>13. ASSUME GetStatus PROVE Views'
  <2>1. /\ UNCHANGED <<queuedRunIds, activeRunIds, executing, shuttingDown, up>>
        /\ st' = RefreshFreshness
    BY <1>13 DEF GetStatus
  <2>2. \A r \in RunIds :
           /\ ~Expired(runs[r]) => runs'[r] = runs[r]
           /\ Expired(runs[r]) => runs'[r] = NoRun(runs[r].adapter)
           /\ persisted'[r] \in {persisted[r], NoRow}
    BY <1>13 DEF GetStatus
  <2>3. \A r \in RunIds : Expired(runs[r]) => runs[r].status \notin InFlight
    BY DEF Expired, RowInv, CompletedHasEnded, Terminal, InFlight
  <2>a. /\ \A a : NoRun(a).adapter = a /\ QuietState(NoRun(a).restoreState)
        /\ NoRow.status \notin InFlight
    BY DEF NoRun, NoRow, InFlight, QuietState, InitialState
  <2>4. ASSUME NEW r \in RunIds
        PROVE  /\ runs'[r].adapter = runs[r].adapter
               /\ runs[r].status \in InFlight => runs'[r].status = runs[r].status
               /\ persisted'[r].status \in InFlight => persisted'[r] = persisted[r]
               /\ QuietState(runs'[r].restoreState)
    <3>1. CASE Expired(runs[r])
      BY <2>2, <2>3, <2>a, <3>1
    <3>2. CASE ~Expired(runs[r])
      BY <1>c, <2>2, <2>a, <3>2 DEF Views, QuietSnapshots
    <3> QED BY <3>1, <3>2
  <2>5. QuietSnapshots'
    BY <2>4 DEF QuietSnapshots, QuietState
  <2> QED BY <1>c, <1>d, <2>1, <2>4, <2>5, QuietViews
<1>14. ASSUME NEW a \in Adapters, NEW on \in BOOLEAN, SetEnabled(a, on)
       PROVE  Views'
  <2>1. PICK status \in {"disabled", "idle", "ready", "stale"} :
           st' = [st EXCEPT ![a].status = status]
    BY <1>14 DEF SetEnabled
  <2>1a. status \notin InFlight
    BY DEF InFlight
  <2>2. \A b \in Adapters :
           /\ st'[b].activeRunId = st[b].activeRunId
           /\ st'[b].pendingRunId = st[b].pendingRunId
           /\ st'[b].status \in InFlight => st[b].status \in InFlight
    BY <1>0, <2>1, <2>1a DEF TypeOK, StateRec
  <2> QED BY <1>1, <1>14, <2>2 DEF SetEnabled
<1>15. ASSUME NEW a \in Adapters, MarkBackgroundSuccess(a) PROVE Views'
  <2>1. \A b \in Adapters :
           /\ st'[b].activeRunId = st[b].activeRunId
           /\ st'[b].pendingRunId = st[b].pendingRunId
           /\ st'[b].status \in InFlight => st[b].status \in InFlight
    BY <1>0, <1>15 DEF MarkBackgroundSuccess, TypeOK, StateRec, InFlight
  <2> QED BY <1>1, <1>15, <2>1 DEF MarkBackgroundSuccess
<1>16. ASSUME Tick \/ UNCHANGED vars PROVE Views'
  BY <1>1, <1>16 DEF Tick, vars, mem
<1>17. ASSUME Die PROVE Views'
  BY <1>17, <1>c, DieViews
<1>18. ASSUME Restart PROVE Views'
  BY <1>18, <1>c, RestartViews
<1>19. \A a \in Adapters : Trigger(a) => Views'
  BY <1>2 DEF Trigger
<1>20. TriggerAll => Views'
  BY <1>2 DEF TriggerAll
<1>21. \A a \in Adapters : Accept(a) => Views'
  BY <1>3, <1>5, <1>6, <1>a DEF Accept, AcceptSaveFails, AcceptStartSaveFails
<1>22. \A r \in RunIds : Settle(r) => Views'
  BY <1>8, <1>9, <1>a DEF Settle, SettleSaveFails
<1>23. DrainQueue \/ Crash \/ SaveFailureKills => Views'
  BY <1>10, <1>11, <1>17 DEF DrainQueue, Crash, SaveFailureKills
<1>24. \A r \in RunIds : ~ShutdownSaveFails(r)
  BY <1>a DEF ShutdownSaveFails
<1>25. \A a \in Toggleable : a \in Adapters
  BY DEF Adapters
<1> QED
  BY <1>7, <1>12, <1>13, <1>14, <1>15, <1>16, <1>18, <1>19, <1>20, <1>21,
     <1>22, <1>23, <1>24, <1>25
     DEF Next

(* The two invariants hold in every reachable state. *)
THEOREM RowInvariance == Spec => []RowInv
BY Invariance, InitRowInv, RowStep, PTL DEF Spec

THEOREM ViewInvariance == Spec => []ViewInv
BY Invariance, RowInvariance, InitViewInv, ViewStep, PTL DEF Spec

(* While no save has failed, the three views of accepted work agree, and   *)
(* after shutdown no adapter looks busy.                                   *)
THEOREM RunStateAgreementHolds == Spec => []RunStateAgreement
BY Invariance, RowInvariance, ViewInvariance, ViewsAgree, PTL

(* While no save has failed, every row in flight is of a run this process  *)
(* still has to finish.                                                    *)
THEOREM NoOrphanRowHolds == Spec => []NoOrphanRow
BY Invariance, RowInvariance, ViewInvariance, ViewsAgree, PTL

(* The outcome of a run is never replaced by another one. *)
THEOREM TerminalStableHolds == Spec => TerminalStable
<1>1. IInv /\ RowInv /\ [Next]_vars =>
         [\A r \in RunIds :
             runs[r].status \in Terminal =>
                 runs'[r].status \in {runs[r].status, "none"}]_vars
  BY RowStep DEF KeepsOutcomes
<1> QED BY <1>1, Invariance, RowInvariance, PTL DEF Spec, TerminalStable

(* The row of a run that has ended stays as it is within the retention     *)
(* time, also when saves fail, the process dies or ids are reused.         *)
THEOREM RetainedRowsHolds == Spec => RetainedRows
<1>1. IInv /\ RowInv /\ [Next]_vars =>
         [\A r \in RunIds :
             /\ persisted[r].status \in Terminal
             /\ clock - persisted[r].completedAt < RunRetentionMs
             => persisted'[r] = persisted[r]]_vars
  BY RowStep DEF KeepsRows, Kept
<1> QED BY <1>1, Invariance, RowInvariance, PTL DEF Spec, RetainedRows

=============================================================================
