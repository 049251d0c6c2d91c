-------------------------- MODULE SyncCoordinator --------------------------
(***************************************************************************)
(* The synchronization coordinator of Core                                 *)
(* (apps/core/src/sync-coordinator.ts) with its run table in SQLite        *)
(* (sync-run-store.ts).                                                    *)
(*                                                                         *)
(* Core is one Node process: a handler runs to completion before the next  *)
(* one starts.  Handlers are actions; the two handlers that loop (the      *)
(* acceptance of several adapters in one request and the drain of the      *)
(* queue) take one step per iteration, and `turn' keeps every other        *)
(* handler out until the loop ends.                                        *)
(*                                                                         *)
(* Abstracted: the counters of a sync result and of failures, timestamps   *)
(* other than those that decide freshness and retention, error texts,      *)
(* nextScheduledAt.  The clock is monotonic.  Adapters are numbered in     *)
(* registration order; 0 stands for null.                                  *)
(***************************************************************************)
EXTENDS Integers, Sequences, FiniteSets

CONSTANTS
    NumAdapters,     \* registered adapter instances
    Concurrency,     \* normalizeConcurrency(maxConcurrency)
    FreshnessMs,     \* how long a success counts as fresh, in clock units
    RunRetentionMs,  \* how long a completed run stays queryable
    Toggleable,      \* adapters a caller of setEnabled may toggle
    Optional,        \* adapters that may be registered disabled
    MaxRuns,         \* bound: run ids handed out
    MaxClock,        \* bound: clock ticks
    MaxSaveFailures  \* bound: saves that throw (busy or full disk)

ASSUME CoordinatorAssumption ==
    /\ NumAdapters \in Nat \ {0}
    /\ Concurrency \in Nat \ {0}
    /\ FreshnessMs \in Nat
    /\ RunRetentionMs \in Nat
    /\ Toggleable \subseteq 1 .. NumAdapters
    /\ Optional \subseteq 1 .. NumAdapters
    /\ MaxRuns \in Nat
    /\ MaxClock \in Nat \ {0}
    /\ MaxSaveFailures \in Nat

Adapters == 1 .. NumAdapters
RunIds   == 1 .. MaxRuns
Times    == 0 .. MaxClock

VARIABLES
    enabled,       \* adapter.enabled
    st,            \* states: SyncAdapterState per adapter
    runs,          \* runs: InternalRun per run id, status "none" when absent
    queuedRunIds,
    activeRunIds,
    executing,     \* runs whose adapter.sync promise has not settled
    shuttingDown,
    runSeq,        \* defaultRunSequence
    turn,          \* the loop the current handler is in, if any
    persistedRuns, \* rows loaded by the constructor
    persisted,     \* the sync_runs table
    clock,
    up,            \* the process is running
    saveFailures   \* saves that have thrown

env  == <<clock, up, saveFailures>>
mem  == <<enabled, st, runs, queuedRunIds, activeRunIds, executing,
          shuttingDown, runSeq, turn, persistedRuns>>
vars == <<mem, persisted, env>>

-----------------------------------------------------------------------------
Terminal      == {"succeeded", "failed", "aborted"}
InFlight      == {"queued", "syncing"}
RunStatus     == InFlight \cup Terminal \cup {"none"}
AdapterStatus == {"idle", "queued", "syncing", "ready", "stale", "error",
                  "disabled"}

StateRec == [status : AdapterStatus, activeRunId : 0 .. MaxRuns,
             pendingRunId : 0 .. MaxRuns, lastSuccessfulAt : Times]

RunRec == [status : RunStatus, adapter : Adapters, completedAt : Times,
           aborted : BOOLEAN, restoreState : StateRec]

RowRec == [status : RunStatus, completedAt : Times]

TurnRec == [kind : {"idle", "accept", "drain"}, rest : SUBSET Adapters]

InitialState == [status |-> "idle", activeRunId |-> 0, pendingRunId |-> 0,
                 lastSuccessfulAt |-> 0]

(* register: what the adapters' own enabled flags are. *)
Registered == {e \in [Adapters -> BOOLEAN] : \A a \in Adapters \ Optional : e[a]}
RegisteredState(on) ==
    [InitialState EXCEPT !.status = IF on THEN "idle" ELSE "disabled"]

NoRun(a) == [status |-> "none", adapter |-> a, completedAt |-> 0,
             aborted |-> FALSE, restoreState |-> InitialState]

NoRow == [status |-> "none", completedAt |-> 0]

IdleTurn == [kind |-> "idle", rest |-> {}]

Row(run) == [status |-> run.status, completedAt |-> run.completedAt]

-----------------------------------------------------------------------------
(* The process is between two handlers. *)
Idle == up /\ turn.kind = "idle"

(* A save throws. *)
SaveFails ==
    /\ saveFailures < MaxSaveFailures
    /\ saveFailures' = saveFailures + 1
    /\ UNCHANGED clock

IsFresh(at) == clock - at < FreshnessMs

(* refreshFreshness: a ready adapter whose success has aged becomes stale. *)
RefreshFreshness ==
    [a \in Adapters |->
        IF /\ st[a].status = "ready"
           /\ st[a].lastSuccessfulAt # 0
           /\ ~IsFresh(st[a].lastSuccessfulAt)
        THEN [st[a] EXCEPT !.status = "stale"]
        ELSE st[a]]

(* The completed entries of a run map that pruneRuns drops. *)
ExpiredEarly(entry) ==
    entry.completedAt # 0 /\ clock - entry.completedAt >= RunRetentionMs - 1
Expired(entry) ==
    entry.completedAt # 0 /\ clock - entry.completedAt >= RunRetentionMs

HasAcceptedRunPendingOnly(a) == st[a].pendingRunId # 0
HasAcceptedRun(a) == st[a].activeRunId # 0 \/ st[a].pendingRunId # 0

SlotFree == Cardinality(activeRunIds) < Concurrency

(* What startRun writes to the adapter's state. *)
SyncingKeepsPending(s, r) ==
    [s EXCEPT !.status = "syncing", !.activeRunId = r]
Syncing(s, r) ==
    [s EXCEPT !.status = "syncing", !.activeRunId = r, !.pendingRunId = 0]

-----------------------------------------------------------------------------
Init ==
    /\ enabled \in Registered
    /\ st = [a \in Adapters |-> RegisteredState(enabled[a])]
    /\ runs = [r \in RunIds |-> NoRun(1)]
    /\ queuedRunIds = << >>
    /\ activeRunIds = {}
    /\ executing = {}
    /\ shuttingDown = FALSE
    /\ runSeq = 0
    /\ turn = IdleTurn
    /\ persistedRuns = [r \in RunIds |-> NoRow]
    /\ persisted = [r \in RunIds |-> NoRow]
    /\ clock = 1
    /\ up = TRUE
    /\ saveFailures = 0

-----------------------------------------------------------------------------
(* Requests.  manualSync, startInitialSync and the periodic tick accept    *)
(* every adapter that is not disabled, trigger accepts one.                *)
ManualSync(targets) ==
    /\ Idle
    /\ ~shuttingDown                       \* assertOpen
    /\ targets # {}
    /\ runSeq + Cardinality(targets) <= MaxRuns    \* bound
    /\ turn' = [kind |-> "accept", rest |-> targets]
    /\ UNCHANGED <<enabled, st, runs, queuedRunIds, activeRunIds, executing,
                   shuttingDown, runSeq, persistedRuns, persisted, env>>

Trigger(a) == ManualSync({a})

TriggerAll == ManualSync({a \in Adapters : st[a].status # "disabled"})

(* accept(a) is the next call of the running request: the adapters of a    *)
(* request are taken in registration order.                                *)
Accepting(a) ==
    /\ up
    /\ turn.kind = "accept"
    /\ a \in turn.rest
    /\ \A b \in turn.rest : a <= b

NextAccept(a) ==
    turn' = IF turn.rest = {a} THEN IdleTurn
            ELSE [turn EXCEPT !.rest = @ \ {a}]

(* ADAPTER_DISABLED is thrown out of the request, after the refresh. *)
AcceptRefused(a) ==
    /\ Accepting(a)
    /\ ~enabled[a] \/ st[a].status = "disabled"
    /\ st' = RefreshFreshness
    /\ turn' = IdleTurn
    /\ UNCHANGED <<enabled, runs, queuedRunIds, activeRunIds, executing,
                   shuttingDown, runSeq, persistedRuns, persisted, env>>

AcceptCoalesced(a) ==
    /\ Accepting(a)
    /\ enabled[a] /\ st[a].status # "disabled"
    /\ HasAcceptedRun(a)
    /\ st' = RefreshFreshness
    /\ NextAccept(a)
    /\ UNCHANGED <<enabled, runs, queuedRunIds, activeRunIds, executing,
                   shuttingDown, runSeq, persistedRuns, persisted, env>>

(* The adapter has no accepted run: a run with the next id is created.     *)
AcceptsNew(a) ==
    /\ Accepting(a)
    /\ enabled[a] /\ st[a].status # "disabled"
    /\ ~HasAcceptedRun(a)
    /\ runSeq < MaxRuns
    /\ runSeq' = runSeq + 1

NewRun(a) == [status |-> "queued", adapter |-> a, completedAt |-> 0,
              aborted |-> FALSE, restoreState |-> RefreshFreshness[a]]

StartedRun(a) == [NewRun(a) EXCEPT !.status = "syncing"]

AcceptStarted(a) ==
    LET r == runSeq + 1 IN
    /\ AcceptsNew(a)
    /\ SlotFree
    /\ runs' = [runs EXCEPT ![r] = StartedRun(a)]
    /\ persisted' = [persisted EXCEPT ![r] = Row(StartedRun(a))]
    /\ st' = [RefreshFreshness EXCEPT ![a] = Syncing(@, r)]
    /\ activeRunIds' = activeRunIds \cup {r}
    /\ executing' = executing \cup {r}
    /\ NextAccept(a)
    /\ UNCHANGED <<enabled, queuedRunIds, shuttingDown, persistedRuns, env>>

Enqueue(r) == Append(queuedRunIds, r)

AcceptQueued(a) ==
    LET r == runSeq + 1 IN
    /\ AcceptsNew(a)
    /\ ~SlotFree
    /\ runs' = [runs EXCEPT ![r] = NewRun(a)]
    /\ persisted' = [persisted EXCEPT ![r] = Row(NewRun(a))]
    /\ queuedRunIds' = Enqueue(r)
    /\ st' = [RefreshFreshness EXCEPT ![a].pendingRunId = r,
                                      ![a].status = "queued"]
    /\ NextAccept(a)
    /\ UNCHANGED <<enabled, activeRunIds, executing, shuttingDown,
                   persistedRuns, env>>

(* The save of the queued run throws: the run stays in the map, nothing    *)
(* refers to it, and the rest of the request is abandoned.                 *)
AcceptSaveFails(a) ==
    /\ SaveFails
    /\ AcceptsNew(a)
    /\ runs' = [runs EXCEPT ![runSeq + 1] = NewRun(a)]
    /\ st' = RefreshFreshness
    /\ turn' = IdleTurn
    /\ UNCHANGED <<enabled, queuedRunIds, activeRunIds, executing,
                   shuttingDown, persistedRuns, persisted, up>>

(* The save of the started run throws: the run is marked active but        *)
(* execute is never called.                                                *)
AcceptStartSaveFails(a) ==
    LET r == runSeq + 1 IN
    /\ SaveFails
    /\ AcceptsNew(a)
    /\ SlotFree
    /\ runs' = [runs EXCEPT ![r] = StartedRun(a)]
    /\ persisted' = [persisted EXCEPT ![r] = Row(NewRun(a))]
    /\ st' = [RefreshFreshness EXCEPT ![a] = Syncing(@, r)]
    /\ activeRunIds' = activeRunIds \cup {r}
    /\ turn' = IdleTurn
    /\ UNCHANGED <<enabled, queuedRunIds, executing, shuttingDown,
                   persistedRuns, up>>

-----------------------------------------------------------------------------
(* DEFAULT_SYNC_RUN_TIMEOUT_MS elapses: the signal is aborted, no more. *)
Timeout(r) ==
    /\ Idle
    /\ r \in executing
    /\ ~runs[r].aborted
    /\ runs' = [runs EXCEPT ![r].aborted = TRUE]
    /\ UNCHANGED <<enabled, st, queuedRunIds, activeRunIds, executing,
                   shuttingDown, runSeq, turn, persistedRuns, persisted, env>>

(* The finally block of execute: the slot is freed and the queue drained. *)
FinallyNoDrain(r) ==
    /\ activeRunIds' = activeRunIds \ {r}
    /\ executing' = executing \ {r}
    /\ turn' = IdleTurn
Finally(r) ==
    /\ activeRunIds' = activeRunIds \ {r}
    /\ executing' = executing \ {r}
    /\ turn' = IF shuttingDown THEN IdleTurn
               ELSE [kind |-> "drain", rest |-> {}]

(* The outcome of a settled run is applied: the tests of execute and the   *)
(* guard of completeSuccess and completeFailure.                           *)
OutcomeAppliesAlways(r) == TRUE
OutcomeApplies(r) == ~shuttingDown /\ runs[r].status = "syncing"

(* The adapter's promise settles after the run was aborted by shutdown. *)
SettleIgnored(r) ==
    /\ Idle
    /\ r \in executing
    /\ ~OutcomeApplies(r)
    /\ Finally(r)
    /\ UNCHANGED <<enabled, st, runs, queuedRunIds, shuttingDown, runSeq,
                   persistedRuns, persisted, env>>

(* Nothing reads the signal and the snapshot of a run that has ended. *)
Completed(r, status) ==
    [status |-> status, adapter |-> runs[r].adapter, completedAt |-> clock,
     aborted |-> TRUE, restoreState |-> InitialState]

(* completeSuccess. *)
SettleSuccess(r) ==
    LET run == Completed(r, "succeeded") IN
    /\ Idle
    /\ r \in executing
    /\ OutcomeApplies(r) /\ ~runs[r].aborted
    /\ runs' = [runs EXCEPT ![r] = run]
    /\ persisted' = [persisted EXCEPT ![r] = Row(run)]
    /\ st' = [st EXCEPT ![run.adapter] =
                [status |-> "ready", activeRunId |-> 0, pendingRunId |-> 0,
                 lastSuccessfulAt |-> clock]]
    /\ Finally(r)
    /\ UNCHANGED <<enabled, queuedRunIds, shuttingDown, runSeq,
                   persistedRuns, env>>

(* completeFailure: the promise rejects, resolves to an invalid result, or *)
(* settles either way after the timeout aborted the signal.                *)
SettleFailure(r) ==
    LET run == Completed(r, "failed") IN
    /\ Idle
    /\ r \in executing
    /\ OutcomeApplies(r)
    /\ runs' = [runs EXCEPT ![r] = run]
    /\ persisted' = [persisted EXCEPT ![r] = Row(run)]
    /\ st' = [st EXCEPT ![run.adapter] =
                [status |-> IF runs[r].restoreState.lastSuccessfulAt = 0
                            THEN "error" ELSE "stale",
                 activeRunId |-> 0, pendingRunId |-> 0,
                 lastSuccessfulAt |-> @.lastSuccessfulAt]]
    /\ Finally(r)
    /\ UNCHANGED <<enabled, queuedRunIds, shuttingDown, runSeq,
                   persistedRuns, env>>

(* The save throws inside the try block: in completeSuccess, or in the     *)
(* completeFailure of a run that resolved after its timeout.  The catch    *)
(* block finds the run no longer syncing and leaves the adapter as it is.  *)
SettleSaveFails(r) ==
    LET outcome == IF runs[r].aborted THEN "failed" ELSE "succeeded" IN
    /\ SaveFails
    /\ Idle
    /\ r \in executing
    /\ OutcomeApplies(r)
    /\ runs' = [runs EXCEPT ![r] = Completed(r, outcome)]
    /\ Finally(r)
    /\ UNCHANGED <<enabled, st, queuedRunIds, shuttingDown, runSeq,
                   persistedRuns, persisted, up>>

-----------------------------------------------------------------------------
Draining ==
    /\ up
    /\ turn.kind = "drain"

(* One iteration of drainQueue starts the oldest queued run. *)
DrainStart ==
    LET r   == Head(queuedRunIds)
        run == [runs[r] EXCEPT !.status = "syncing"] IN
    /\ Draining
    /\ queuedRunIds # << >>
    /\ SlotFree
    /\ runs[r].status = "queued"
    /\ queuedRunIds' = Tail(queuedRunIds)
    /\ runs' = [runs EXCEPT ![r] = run]
    /\ persisted' = [persisted EXCEPT ![r] = Row(run)]
    /\ st' = [st EXCEPT ![run.adapter] = Syncing(@, r)]
    /\ activeRunIds' = activeRunIds \cup {r}
    /\ executing' = executing \cup {r}
    /\ UNCHANGED <<enabled, shuttingDown, runSeq, turn, persistedRuns, env>>

DrainDone ==
    /\ Draining
    /\ queuedRunIds = << >> \/ ~SlotFree
    /\ turn' = IdleTurn
    /\ UNCHANGED <<enabled, st, runs, queuedRunIds, activeRunIds, executing,
                   shuttingDown, runSeq, persistedRuns, persisted, env>>

-----------------------------------------------------------------------------
Queued   == {queuedRunIds[i] : i \in DOMAIN queuedRunIds}
Accepted == activeRunIds \cup Queued

(* The state restoreState puts back when run r of adapter a is aborted. *)
Restored(a, r) == runs[r].restoreState

(* abortRun on the runs of S, and the abort of their signals. *)
AbortRuns(S) ==
    LET live   == {r \in S : runs[r].status \in InFlight}
        ofA(a) == {r \in live : runs[r].adapter = a} IN
    /\ runs' = [r \in RunIds |->
                  IF r \in live
                  THEN Completed(r, "aborted") ELSE runs[r]]
    /\ persisted' = [r \in RunIds |->
                       IF r \in live THEN Row(Completed(r, "aborted"))
                       ELSE persisted[r]]
    /\ st' = [a \in Adapters |->
                IF ofA(a) = {} THEN st[a]
                ELSE Restored(a, CHOOSE r \in ofA(a) : TRUE)]

Shutdown ==
    /\ Idle
    /\ ~shuttingDown
    /\ shuttingDown' = TRUE
    /\ AbortRuns(Accepted)
    /\ queuedRunIds' = << >>
    /\ activeRunIds' = {}
    /\ UNCHANGED <<enabled, executing, runSeq, turn, persistedRuns, env>>

(* The save in the first abortRun throws out of shutdown: that run is      *)
(* aborted in memory only, the queue is gone, every other run goes on.     *)
ShutdownSaveFails(r) ==
    /\ SaveFails
    /\ Idle
    /\ ~shuttingDown
    /\ IF queuedRunIds # << >> THEN r = Head(queuedRunIds)
       ELSE r \in activeRunIds
    /\ shuttingDown' = TRUE
    /\ runs' = [runs EXCEPT ![r] = Completed(r, "aborted")]
    /\ queuedRunIds' = << >>
    /\ UNCHANGED <<enabled, st, activeRunIds, executing, runSeq, turn,
                   persistedRuns, persisted, up>>

-----------------------------------------------------------------------------
(* getStatus refreshes freshness and prunes expired runs from both maps    *)
(* and from the table; getRun and getRuns only prune.  An expired run that *)
(* still executes is kept alive by execute's closure.                      *)
GetStatus ==
    /\ Idle
    /\ st' = RefreshFreshness
    /\ runs' = [r \in RunIds |-> IF Expired(runs[r])
                                 THEN NoRun(runs[r].adapter) ELSE runs[r]]
    /\ persistedRuns' = [r \in RunIds |->
            IF Expired(persistedRuns[r]) THEN NoRow ELSE persistedRuns[r]]
    /\ persisted' = [r \in RunIds |->
            IF Expired(runs[r]) \/ Expired(persistedRuns[r])
            THEN NoRow ELSE persisted[r]]
    /\ UNCHANGED <<enabled, queuedRunIds, activeRunIds, executing,
                   shuttingDown, runSeq, turn, env>>

SetEnabled(a, on) ==
    /\ Idle
    /\ on \/ ~HasAcceptedRun(a)            \* ADAPTER_BUSY
    /\ enabled' = [enabled EXCEPT ![a] = on]
    /\ st' = [st EXCEPT ![a].status =
                IF ~on THEN "disabled"
                ELSE IF st[a].lastSuccessfulAt = 0 THEN "idle"
                ELSE IF IsFresh(st[a].lastSuccessfulAt) THEN "ready"
                ELSE "stale"]
    /\ UNCHANGED <<runs, queuedRunIds, activeRunIds, executing, shuttingDown,
                   runSeq, turn, persistedRuns, persisted, env>>

(* A light refresh outside the coordinator succeeded. *)
MarksBackground(a) ==
    ~HasAcceptedRun(a) /\ st[a].status \notin {"syncing", "disabled"}

MarkBackgroundSuccess(a) ==
    /\ Idle
    /\ MarksBackground(a)
    /\ st' = [st EXCEPT ![a].status = "ready",
                        ![a].lastSuccessfulAt = clock]
    /\ UNCHANGED <<enabled, runs, queuedRunIds, activeRunIds, executing,
                   shuttingDown, runSeq, turn, persistedRuns, persisted, env>>

-----------------------------------------------------------------------------
Tick ==
    /\ Idle
    /\ clock < MaxClock
    /\ clock' = clock + 1
    /\ UNCHANGED <<mem, persisted, up, saveFailures>>

(* The process ends, at any point of a handler or after a shutdown; the    *)
(* state a next process starts from is written here.                       *)
Die ==
    /\ up
    /\ up' = FALSE
    /\ enabled' \in Registered
    /\ st' = [a \in Adapters |-> RegisteredState(enabled'[a])]
    /\ runs' = [r \in RunIds |-> NoRun(1)]
    /\ queuedRunIds' = << >>
    /\ activeRunIds' = {}
    /\ executing' = {}
    /\ shuttingDown' = FALSE
    /\ runSeq' = 0
    /\ turn' = IdleTurn
    /\ persistedRuns' = [r \in RunIds |-> NoRow]
    /\ UNCHANGED persisted

Crash == Die /\ UNCHANGED <<clock, saveFailures>>

(* The save throws in completeFailure called from the catch block, or in   *)
(* the startRun of the drain: execute rejects, nobody handles the          *)
(* rejection and Node ends the process.                                    *)
SaveFailureKills ==
    /\ SaveFails
    /\ \/ Idle /\ \E r \in executing : OutcomeApplies(r)
       \/ Draining /\ queuedRunIds # << >> /\ SlotFree
    /\ Die

(* The rows load returns: not yet completed, or completed since the cutoff.*)
Loaded == {r \in RunIds : /\ persisted[r].status # "none"
                          /\ \/ persisted[r].completedAt = 0
                             \/ persisted[r].completedAt >=
                                    clock - RunRetentionMs}

(* load marks the runs the last process left in flight as aborted. *)
LoadedRowAsStored(r) == persisted[r]
LoadedRow(r) == IF persisted[r].status \in InFlight
                THEN [status |-> "aborted", completedAt |-> clock]
                ELSE persisted[r]

(* Run ids go on after the largest loaded one. *)
FirstRunSeqPast ==
    IF Loaded = {} THEN 0
    ELSE 1 + (CHOOSE m \in Loaded : \A r \in Loaded : r <= m)
FirstRunSeq == IF Loaded = {} THEN 0
               ELSE CHOOSE m \in Loaded : \A r \in Loaded : r <= m

Restart ==
    /\ ~up
    /\ up' = TRUE
    /\ persisted' = [r \in RunIds |->
            IF r \in Loaded THEN LoadedRow(r) ELSE persisted[r]]
    /\ persistedRuns' = [r \in RunIds |->
            IF r \in Loaded THEN LoadedRow(r) ELSE NoRow]
    /\ runSeq' = FirstRunSeq
    /\ UNCHANGED <<enabled, st, runs, queuedRunIds, activeRunIds, executing,
                   shuttingDown, turn, clock, saveFailures>>

-----------------------------------------------------------------------------
Accept(a) ==
    \/ AcceptRefused(a)
    \/ AcceptCoalesced(a)
    \/ AcceptStarted(a)
    \/ AcceptQueued(a)
    \/ AcceptSaveFails(a)
    \/ AcceptStartSaveFails(a)

Settle(r) ==
    \/ SettleIgnored(r)
    \/ SettleSuccess(r)
    \/ SettleFailure(r)
    \/ SettleSaveFails(r)

DrainQueue == DrainStart \/ DrainDone

Next ==
    \/ \E a \in Adapters : Trigger(a)
    \/ TriggerAll
    \/ \E a \in Adapters : Accept(a)
    \/ \E r \in RunIds : Timeout(r)
    \/ \E r \in RunIds : Settle(r)
    \/ DrainQueue
    \/ Shutdown
    \/ \E r \in RunIds : ShutdownSaveFails(r)
    \/ GetStatus
    \/ \E a \in Toggleable, on \in BOOLEAN : SetEnabled(a, on)
    \/ \E a \in Adapters : MarkBackgroundSuccess(a)
    \/ Tick
    \/ Crash
    \/ SaveFailureKills
    \/ Restart

Spec == Init /\ [][Next]_vars

(* The event loop ends every synchronous loop and gets to every settled    *)
(* promise, however many requests come in between, and a dead process is   *)
(* started again.  That adapters settle at all is the environment's part.  *)
HandlersFinish ==
    /\ WF_vars(\E a \in Adapters : Accept(a))
    /\ WF_vars(DrainQueue)
    /\ WF_vars(Restart)

FairSpec ==
    /\ Spec
    /\ HandlersFinish
    /\ SF_vars(\E r \in RunIds : Settle(r))

-----------------------------------------------------------------------------
(* Every variable holds a value of the shape the code gives it. *)
TypeOK ==
    /\ enabled \in [Adapters -> BOOLEAN]
    /\ st \in [Adapters -> StateRec]
    /\ runs \in [RunIds -> RunRec]
    /\ queuedRunIds \in Seq(RunIds)
    /\ activeRunIds \in SUBSET RunIds
    /\ executing \in SUBSET RunIds
    /\ shuttingDown \in BOOLEAN
    /\ runSeq \in 0 .. MaxRuns
    /\ turn \in TurnRec
    /\ persistedRuns \in [RunIds -> RowRec]
    /\ persisted \in [RunIds -> RowRec]
    /\ clock \in Times
    /\ up \in BOOLEAN
    /\ saveFailures \in 0 .. MaxSaveFailures

(* At most Concurrency adapters run at once, whatever the interleaving of  *)
(* requests, settlements, drains and failed saves (accept, drainQueue).    *)
ExecutingLimit == Cardinality(executing) <= Concurrency

(* One adapter never runs twice at a time: a second request coalesces onto *)
(* the accepted run instead of starting another (accept).                  *)
NoOverlap ==
    \A r, s \in executing : r # s => runs[r].adapter # runs[s].adapter

(* Until a save fails, the three views of accepted work                    *)
(* agree: an adapter's activeRunId is the syncing run of that adapter in   *)
(* activeRunIds, its pendingRunId the queued one in queuedRunIds, and      *)
(* every accepted run is referred to by its adapter; and once shutdown has *)
(* restored the adapters, no late settlement, request or status call makes *)
(* one look busy again (accept, completeSuccess, abortRun, restoreState).  *)
RunStateAgreement ==
    /\ (saveFailures = 0 /\ shuttingDown /\ up) =>
        \A a \in Adapters : ~HasAcceptedRun(a) /\ st[a].status \notin InFlight
    /\ (saveFailures = 0 /\ ~shuttingDown) =>
        /\ \A a \in Adapters :
            LET act == st[a].activeRunId
                pen == st[a].pendingRunId IN
            /\ act # 0 => /\ act \in executing \cap activeRunIds
                          /\ runs[act].adapter = a
                          /\ runs[act].status = "syncing"
                          /\ pen = 0
            /\ pen # 0 => /\ pen \in Queued
                          /\ runs[pen].adapter = a
                          /\ runs[pen].status = "queued"
        /\ \A r \in executing \cup activeRunIds :
                st[runs[r].adapter].activeRunId = r
        /\ \A r \in Queued : st[runs[r].adapter].pendingRunId = r

(* Between two handlers no run waits while a slot is free: every path that *)
(* frees a slot drains the queue before the process does anything else.    *)
NoIdleSlot == (Idle /\ queuedRunIds # << >>) => ~SlotFree

(* A run that has ended keeps its outcome in memory until it is pruned or  *)
(* the process ends: a promise that settles after shutdown aborted its run *)
(* changes nothing.                                                        *)
TerminalStable ==
    [][\A r \in RunIds :
          runs[r].status \in Terminal =>
              runs'[r].status \in {runs[r].status, "none"}]_vars

(* A row that says queued or syncing always belongs to a run the live      *)
(* process will finish: crashes, restarts and shutdowns leave no row       *)
(* in flight that nobody owns (sync-run-store.ts load, abortRun).          *)
NoOrphanRow ==
    (up /\ saveFailures = 0) =>
        \A r \in RunIds :
            persisted[r].status \in InFlight =>
                r \in Accepted /\ persisted[r].status = runs[r].status

(* The row of a completed run is neither changed nor removed within the    *)
(* retention time, by pruning, by restarts or by a new run that reuses its *)
(* id: completed runs stay queryable.                                      *)
RetainedRows ==
    [][\A r \in RunIds :
          /\ persisted[r].status \in Terminal
          /\ clock - persisted[r].completedAt < RunRetentionMs
          => persisted'[r] = persisted[r]]_vars

(* If every adapter's promise settles and no save fails, every accepted    *)
(* run ends: its row leaves the in-flight states, through queueing,        *)
(* coalescing, timeouts, shutdown, crashes and restarts.                   *)
Pending(r) == persisted[r].status \in InFlight
EveryAcceptedRunEnds == \A r \in RunIds : []<>(~Pending(r) \/ saveFailures > 0)

=============================================================================
