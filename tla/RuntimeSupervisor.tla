------------------------- MODULE RuntimeSupervisor -------------------------
(***************************************************************************)
(* The runtime supervisor of the Desktop                                   *)
(* (apps/desktop/src/runtime/runtime-supervisor.ts): it launches the hook  *)
(* watcher, the hook parser and Core, waits until they are ready, restarts *)
(* those that die, and stops them all on quit.                             *)
(*                                                                         *)
(* The Desktop is one Node process.  An event (a process exits, a timer    *)
(* fires, a health check answers) is a step; the continuations of resolved *)
(* promises run before the next event, so events wait for Quiet.  A launch *)
(* of a child makes a record; records are numbered per child, 0 stands for *)
(* none, and the number of a record that nothing refers to is used again.  *)
(*                                                                         *)
(* Abstracted: wall-clock time (a timer may fire at any later step; a      *)
(* readiness check is made twice before its deadline passes; a failure     *)
(* leaves the window at any step), the delay picked from                   *)
(* consecutiveFailures, last exits, error texts (only whether there is     *)
(* one), child output and its log files.                                   *)
(***************************************************************************)
EXTENDS Integers, Sequences, FiniteSets

CONSTANTS
    Helpers,        \* watcher and parser: no readiness check is configured
    Core,           \* the child with a health endpoint
    MaxPerWindow,   \* MAX_RESTARTS_PER_WINDOW
    MaxStarts,      \* bound: calls of start()
    MaxRestarts,    \* bound: calls of restart(name)
    MaxStops,       \* bound: calls of stop()
    MaxFaults,      \* bound: crashes, failing spawns, failures that leave the window
    MaxRecords,     \* bound: records of one child that are referred to at once
    MaxOthers       \* bound: times somebody else's Core comes or goes

ASSUME SupervisorAssumption ==
    /\ IsFiniteSet(Helpers)
    /\ Core \notin Helpers
    /\ {MaxPerWindow, MaxRecords} \subseteq Nat \ {0}
    /\ {MaxStarts, MaxRestarts, MaxStops, MaxFaults, MaxOthers} \subseteq Nat

Names   == Helpers \union {Core}
Records == 1 .. MaxRecords

VARIABLES
    own,        \* tracker.ownership
    failures,   \* automatic restarts inside the failure window
    latched,    \* tracker.latched
    err,        \* tracker.errorSummary # null
    stable,     \* the record tracker.stableTimer was set for
    timer,      \* restartTimers: the record the pending timer was set for
    cur,        \* children: the current record
    rec,        \* the records, with their process and their readiness loop
    stopping,
    state,
    op,         \* the lifecycle operation that is running
    queue,      \* the operations behind it, and those it was called with
    extUp,      \* somebody else's Core answers the health check
    left        \* what is left of the bounds

trackers == <<own, failures, latched, err, stable>>
records  == <<cur, rec>>
vars == <<own, failures, latched, err, stable, timer, cur, rec,
          stopping, state, op, queue, extUp, left>>

Idle  == [kind |-> "idle", phase |-> "none"]
Calls == [kind : {"start", "stop"}] \union [kind : {"restart"}, child : Names]
Ops   == {Idle} \union [kind : {"start"}, phase : {"external"}]
                \union [kind : {"restart"}, phase : {"stop", "external"}, child : Names]
                \union [kind : {"stop"}, phase : {"stop"}]
                \union [kind : {"start", "restart"}, phase : {"ready"},
                        of : SUBSET (Names \X Records)]

\* A record that nothing refers to.
Unborn == [st |-> "stopped", intentional |-> FALSE, exited |-> TRUE,
           alive |-> FALSE, wait |-> "done"]

\* createRecord, and the readiness loop at its first check.
NewRecord == [st |-> "starting", intentional |-> FALSE, exited |-> FALSE,
              alive |-> TRUE, wait |-> "check"]

Exited(c) == cur[c] # 0 => rec[c][cur[c]].exited
Alive(c)  == \E g \in Records : rec[c][g].alive

\* Nothing refers to the record: not children, a timer, a readiness loop, a
\* process or the running operation.
Free(c, g) == /\ g \notin {cur[c], timer[c], stable[c]}
              /\ rec[c][g].wait = "done" /\ ~rec[c][g].alive
              /\ op.phase = "ready" => <<c, g>> \notin op.of
Fresh(c)   == CHOOSE g \in Records : Free(c, g)

\* The records of c without its current one: if a readiness loop still holds
\* that, only what the loop reads is kept.
Dropped(c) == IF cur[c] = 0 THEN rec[c]
              ELSE [rec[c] EXCEPT ![cur[c]] =
                      [rec[c][cur[c]] EXCEPT !.st = "stopped", !.intentional = FALSE]]

-----------------------------------------------------------------------------
(* Derived state. *)

ChildState(c, o, n, r, e) ==
    IF o[c] = "external" THEN "ready"
    ELSE IF n[c] = 0 THEN "stopped"
    ELSE IF r[c][n[c]].exited /\ e[c] THEN "degraded"
    ELSE r[c][n[c]].st

\* refreshState, of the stopping flag, ownership, children, records, errors.
Refreshed(s, o, n, r, e) ==
    LET seen == {ChildState(c, o, n, r, e) : c \in Names} IN
    IF s \/ seen = {"stopped"} THEN "stopped"
    ELSE IF "degraded" \in seen THEN "degraded"
    ELSE IF "starting" \in seen THEN "starting"
    ELSE IF seen = {"ready"} THEN "ready" ELSE "degraded"

RefreshState == state' = Refreshed(stopping', own', cur', rec', err')

(* Continuations that run before the next event. *)

HelperReady(c, g) == c \in Helpers /\ rec[c][g].wait = "check"

\* Mutant: the child's exit is not awaited.
StopSent(c, g) == rec[c][g].wait = "stop"

\* stopChild has returned to the readiness loop.
StopSeen(c, g) == rec[c][g].wait = "stop" /\ rec[c][g].exited
OpGoesOn ==
    \/ op = Idle /\ queue # <<>>
    \/ op.kind = "stop" /\ \A c \in Names : Exited(c)
    \/ op.kind = "restart" /\ op.phase = "stop" /\ Exited(op.child)
    \/ op.phase = "ready" /\ \A p \in op.of : rec[p[1]][p[2]].wait = "done"

Quiet == /\ ~OpGoesOn
         /\ \A c \in Names, g \in Records : ~HelperReady(c, g) /\ ~StopSeen(c, g)

-----------------------------------------------------------------------------
(* The helpers of the supervisor. *)

\* Mutant: one restart too many.
WindowFullLate(n) == n > MaxPerWindow

WindowFull(n) == n >= MaxPerWindow
GivenUp(c)    == latched[c]

\* What scheduleRestart does when it may: latch the child or set its timer.
LatchOrWait(allowed, c, g, pending, recent) ==
    /\ latched' = [latched EXCEPT ![c] = @ \/ (allowed /\ WindowFull(recent))]
    /\ timer' = [timer EXCEPT ![c] =
                   IF allowed /\ ~WindowFull(recent) THEN g ELSE pending]

\* Mutant: stopping is not looked at.
ScheduleRestartAlways(c, g, pending, recent) ==
    LatchOrWait(pending = 0 /\ ~GivenUp(c) /\ own[c] # "external",
                c, g, pending, recent)

\* scheduleRestart: at most one timer per child, and none once latched.
ScheduleRestart(c, g, pending, recent) ==
    LatchOrWait(~stopping /\ pending = 0 /\ ~GivenUp(c) /\ own[c] # "external",
                c, g, pending, recent)

Expected(c, g) == rec[c][g].intentional \/ stopping

\* An exit of a record that is marked already, or not the current one.
Known(c, g) == rec[c][g].exited \/ cur[c] # g

Marked(c, g) ==
    [rec[c][g] EXCEPT !.alive = FALSE,
                      !.exited = @ \/ ~Known(c, g),
                      !.st = IF Known(c, g) THEN @ ELSE
                             IF Expected(c, g) THEN "stopped" ELSE "degraded"]

\* markUnexpectedExit, for an exit or (failed) an error event.  The process is
\* gone; a known exit changes nothing else.
MarkExit(c, g, failed) ==
    /\ UNCHANGED <<cur, stopping>>
    /\ rec' = [rec EXCEPT ![c][g] = Marked(c, g)]
    /\ IF Known(c, g) THEN UNCHANGED <<trackers, timer, state>>
       ELSE /\ stable' = [stable EXCEPT ![c] = 0]
            /\ UNCHANGED <<own, failures>>
            /\ IF Expected(c, g)
               THEN UNCHANGED <<latched, err, timer>> /\ RefreshState
               ELSE /\ err' = [err EXCEPT ![c] = failed]
                    /\ ScheduleRestart(c, g, timer[c], failures[c])
                    /\ state' = "degraded"

\* launchChild of every child of S, without a throw.
Launch(S) ==
    /\ \A c \in S : \E g \in Records : Free(c, g)
    /\ cur' = [c \in Names |-> IF c \in S THEN Fresh(c) ELSE cur[c]]
    /\ rec' = [c \in Names |-> IF c \in S
                               THEN [Dropped(c) EXCEPT ![Fresh(c)] = NewRecord]
                               ELSE rec[c]]

\* stopChild of the records in children of the children in S: SIGTERM.
Terminate(S) ==
    rec' = [c \in Names |->
              IF c \in S /\ ~Exited(c)
              THEN [rec[c] EXCEPT ![cur[c]] =
                      [rec[c][cur[c]] EXCEPT !.intentional = TRUE]]
              ELSE rec[c]]

\* resetFailureState of the children in S.
Reset(S) ==
    /\ stable'   = [c \in Names |-> IF c \in S THEN 0 ELSE stable[c]]
    /\ failures' = [c \in Names |-> IF c \in S THEN 0 ELSE failures[c]]
    /\ latched'  = [c \in Names |-> latched[c] /\ c \notin S]
    /\ err'      = [c \in Names |-> err[c] /\ c \notin S]

Spend(b) == left[b] > 0 /\ left' = [left EXCEPT ![b] = @ - 1]

-----------------------------------------------------------------------------
(* start, restart, stop: queued behind one another by runLifecycleOperation. *)

Call(b, call) ==
    /\ Quiet
    /\ Spend(b)
    /\ queue' = Append(queue, call)
    /\ UNCHANGED <<trackers, timer, records, stopping, state, op, extUp>>

\* The Desktop calls start() before its windows can ask for a restart.
CallStart      == Call("start", [kind |-> "start"])
CallRestart(c) == left.start < MaxStarts
                  /\ Call("restart", [kind |-> "restart", child |-> c])
CallStop       == Call("stop", [kind |-> "stop"])

Next1(kind) == op = Idle /\ queue # <<>> /\ Head(queue).kind = kind

AllReady == \A c \in Names : cur[c] # 0 => rec[c][cur[c]].st = "ready"
                                           /\ ~rec[c][cur[c]].exited

BeginStart ==
    /\ Next1("start")
    /\ IF state = "ready" /\ AllReady
       THEN /\ queue' = Tail(queue)
            /\ UNCHANGED <<trackers, records, stopping, op>>
            /\ RefreshState
       ELSE /\ stopping' = FALSE
            /\ Reset(IF state = "stopped" THEN Names ELSE {})
            /\ state' = "starting"
            /\ op' = [kind |-> "start", phase |-> "external"]
            /\ UNCHANGED <<own, records, queue>>
    /\ UNCHANGED <<timer, extUp, left>>

\* What the health check may answer: somebody's Core, or one of ours, or no one.
HealthAnswers == {FALSE} \union (IF extUp \/ Alive(Core) THEN {TRUE} ELSE {})

\* startInternal after its health check.  A spawn that throws leaves the child
\* without a new record.
StartLaunches ==
    /\ Quiet
    /\ op.kind = "start" /\ op.phase = "external"
    /\ \E healthy \in HealthAnswers, threw \in SUBSET Names :
         LET external == healthy /\ (cur[Core] = 0 \/ own[Core] = "external")
             missing  == {c \in Names : Exited(c) /\ ~(c = Core /\ external)}
             ok       == missing \ threw
         IN
         /\ threw \subseteq missing
         /\ IF threw = {} THEN UNCHANGED left ELSE Spend("fault")
         /\ own' = [c \in Names |->
                      IF c \in missing THEN "managed"
                      ELSE IF c = Core /\ external THEN "external"
                      ELSE IF c = Core /\ own[c] = "external" THEN "none" ELSE own[c]]
         /\ err' = [c \in Names |-> \/ c \in threw
                                    \/ err[c] /\ ~(c = Core /\ external)]
         /\ Launch(ok)
         /\ op' = [kind |-> "start", phase |-> "ready",
                   of |-> {<<c, Fresh(c)>> : c \in ok}]
    /\ UNCHANGED <<failures, latched, stable, timer, stopping, state, queue, extUp>>

\* The readiness loops the operation awaits have ended.
LaunchDone ==
    /\ op.phase = "ready"
    /\ \A p \in op.of : rec[p[1]][p[2]].wait = "done"
    /\ op' = Idle
    /\ queue' = Tail(queue)
    /\ UNCHANGED <<trackers, timer, records, stopping, extUp, left>>
    /\ RefreshState

\* Mutant: resetFailureState without clearRestartTimer.
ForgetKeepsTimer(c) == Reset({c}) /\ UNCHANGED timer

\* clearRestartTimer and resetFailureState.
Forget(c) == Reset({c}) /\ timer' = [timer EXCEPT ![c] = 0]

BeginRestart ==
    /\ Next1("restart")
    /\ LET c == Head(queue).child IN
       /\ stopping' = FALSE
       /\ Forget(c)
       /\ Terminate({c})
       /\ op' = [kind |-> "restart", phase |-> "stop", child |-> c]
    /\ UNCHANGED <<own, cur, state, queue, extUp, left>>

\* launchChild of restartInternal, or its catch.
Relaunch(c) ==
    /\ own' = [own EXCEPT ![c] = "managed"]
    /\ state' = "starting"
    /\ \/ /\ Launch({c})
          /\ op' = [kind |-> "restart", phase |-> "ready",
                    of |-> {<<c, Fresh(c)>>}]
          /\ UNCHANGED <<err, left>>
       \/ /\ Spend("fault")
          /\ op' = [kind |-> "restart", phase |-> "ready", of |-> {}]
          /\ err' = [err EXCEPT ![c] = TRUE]
          /\ cur' = [cur EXCEPT ![c] = 0]
          /\ rec' = [rec EXCEPT ![c] = Dropped(c)]
    /\ UNCHANGED <<failures, latched, stable, timer, stopping, queue, extUp>>

Stopped(c) == Exited(c)

\* The old record is gone: children.delete, then the health check of Core.
RestartStopped ==
    /\ op.kind = "restart" /\ op.phase = "stop"
    /\ Stopped(op.child)
    /\ IF op.child = Core
       THEN /\ cur' = [cur EXCEPT ![Core] = 0]
            /\ rec' = [rec EXCEPT ![Core] = Dropped(Core)]
            /\ op' = [op EXCEPT !.phase = "external"]
            /\ UNCHANGED <<trackers, timer, stopping, state, queue, extUp, left>>
       ELSE Relaunch(op.child)

RestartExternal ==
    /\ Quiet
    /\ op.kind = "restart" /\ op.phase = "external"
    /\ \E healthy \in HealthAnswers :
         IF healthy
         THEN /\ own' = [own EXCEPT ![Core] = "external"]
              /\ op' = Idle
              /\ queue' = Tail(queue)
              /\ UNCHANGED <<failures, latched, err, stable, timer, records,
                             stopping, extUp, left>>
              /\ RefreshState
         ELSE Relaunch(Core)

BeginStop ==
    /\ Next1("stop")
    /\ stopping' = TRUE
    /\ timer' = [c \in Names |-> 0]
    /\ state' = "stopped"
    /\ Terminate(Names)
    /\ op' = [kind |-> "stop", phase |-> "stop"]
    /\ UNCHANGED <<trackers, cur, queue, extUp, left>>

StopDone ==
    /\ op.kind = "stop"
    /\ \A c \in Names : Exited(c)
    /\ stable' = [c \in Names |-> 0]
    /\ own' = [c \in Names |-> IF own[c] = "external" THEN "none" ELSE own[c]]
    /\ op' = Idle
    /\ queue' = Tail(queue)
    /\ UNCHANGED <<failures, latched, err, timer, records, stopping, extUp, left>>
    /\ RefreshState

\* getStatus, of the status view.
GetStatus ==
    /\ Quiet
    /\ UNCHANGED <<trackers, timer, records, stopping, op, queue, extUp, left>>
    /\ RefreshState

-----------------------------------------------------------------------------
(* waitForReady, one loop per record. *)

\* A check that answers yes is believed, whatever happened meanwhile.
IsReady(c, g) ==
    /\ rec' = [rec EXCEPT ![c][g] =
       [rec[c][g] EXCEPT !.st = IF cur[c] = g THEN "ready" ELSE @, !.wait = "done"]]
    /\ err' = [err EXCEPT ![c] = FALSE]
    /\ stable' = [stable EXCEPT ![c] = g]
    /\ UNCHANGED <<own, failures, latched, timer, cur, stopping>>
    /\ RefreshState

\* No answer: sleep and look again, or at the deadline terminate the child.
NotReady(c, g) ==
    /\ IF rec[c][g].wait = "check"
       THEN /\ rec' = [rec EXCEPT ![c][g] = [rec[c][g] EXCEPT !.wait = "sleep"]]
            /\ UNCHANGED err
       ELSE /\ rec' = [rec EXCEPT ![c][g] =
               [rec[c][g] EXCEPT !.wait = "stop",
                                 !.intentional = @ \/ ~rec[c][g].exited]]
            /\ err' = [err EXCEPT ![c] = TRUE]
    /\ UNCHANGED <<own, failures, latched, stable, timer, cur, stopping,
                   state>>

HelperChecked(c, g) ==
    /\ HelperReady(c, g)
    /\ IsReady(c, g)
    /\ UNCHANGED <<op, queue, extUp, left>>

CoreChecked(g) ==
    /\ Quiet
    /\ rec[Core][g].wait \in {"check", "last"}
    /\ \E healthy \in HealthAnswers :
         IF healthy THEN IsReady(Core, g) ELSE NotReady(Core, g)
    /\ UNCHANGED <<op, queue, extUp, left>>

\* The head of the loop after its sleep; the next check is the last in time.
\* When the loop of an automatic restart ends the state is refreshed.
Awake(c, g) == IF rec[c][g].exited \/ cur[c] # g THEN "done" ELSE "last"

LooksAgain(g) ==
    /\ Quiet
    /\ rec[Core][g].wait = "sleep"
    /\ rec' = [rec EXCEPT ![Core][g] =
                 [rec[Core][g] EXCEPT !.wait = Awake(Core, g)]]
    /\ UNCHANGED <<trackers, timer, cur, stopping, op, queue, extUp, left>>
    /\ IF Awake(Core, g) = "done" /\ ~(op.phase = "ready" /\ <<Core, g>> \in op.of)
       THEN RefreshState ELSE UNCHANGED state

\* The readiness deadline, after its stopChild returned.
ReadinessFails(c, g) ==
    /\ StopSeen(c, g)
    /\ rec' = [rec EXCEPT ![c][g] =
       [rec[c][g] EXCEPT !.st = IF cur[c] = g THEN "degraded" ELSE @, !.wait = "done"]]
    /\ ScheduleRestart(c, g, timer[c], failures[c])
    /\ UNCHANGED <<own, failures, err, stable, cur, stopping, op, queue,
                   extUp, left>>
    /\ RefreshState

-----------------------------------------------------------------------------
(* The children's processes. *)

\* An exit nobody asked for, or an error event: only the error text differs.
Crash(c, g) ==
    /\ Quiet
    /\ rec[c][g].alive /\ ~rec[c][g].intentional
    /\ Spend("fault")
    /\ MarkExit(c, g, FALSE)
    /\ UNCHANGED <<op, queue, extUp>>

\* The error event of a spawn that failed comes before the continuations of the
\* timer callback that spawned, and after those of a lifecycle operation.
SpawnFails(c, g) ==
    /\ HelperReady(c, g)
    /\ op.phase = "ready" => <<c, g>> \notin op.of
    /\ rec[c][g].alive
    /\ Spend("fault")
    /\ MarkExit(c, g, TRUE)
    /\ UNCHANGED <<op, queue, extUp>>

Obey(c, g) ==
    /\ Quiet
    /\ rec[c][g].alive /\ rec[c][g].intentional
    /\ MarkExit(c, g, FALSE)
    /\ UNCHANGED <<op, queue, extUp, left>>

\* CHILD_SHUTDOWN_TIMEOUT_MS after the SIGTERM: the process tree is killed.
ForceKill(c, g) ==
    /\ Quiet
    /\ rec[c][g].alive /\ rec[c][g].intentional /\ ~rec[c][g].exited
    /\ rec' = [rec EXCEPT ![c][g] =
       [rec[c][g] EXCEPT !.alive = FALSE, !.exited = TRUE, !.st = "stopped"]]
    /\ UNCHANGED <<trackers, timer, cur, stopping, state, op, queue, extUp,
                   left>>

-----------------------------------------------------------------------------
(* Timers and the environment. *)

RestartTimer(c) ==
    LET g == timer[c] IN
    /\ Quiet
    /\ g # 0
    /\ IF stopping \/ cur[c] # g \/ GivenUp(c)
       THEN /\ timer' = [timer EXCEPT ![c] = 0]
            /\ UNCHANGED <<trackers, records, stopping, state, left>>
       ELSE /\ UNCHANGED <<stable, stopping>>
            /\ \/ /\ WindowFull(failures[c])
                  /\ latched' = [latched EXCEPT ![c] = TRUE]
                  /\ timer' = [timer EXCEPT ![c] = 0]
                  /\ UNCHANGED <<own, failures, err, records, left>>
               \/ /\ ~WindowFull(failures[c])
                  /\ failures' = [failures EXCEPT ![c] = @ + 1]
                  /\ Launch({c})
                  /\ own' = [own EXCEPT ![c] = "managed"]
                  /\ timer' = [timer EXCEPT ![c] = 0]
                  /\ UNCHANGED <<latched, err, left>>
               \/ /\ ~WindowFull(failures[c])
                  /\ Spend("fault")
                  /\ failures' = [failures EXCEPT ![c] = @ + 1]
                  /\ err' = [err EXCEPT ![c] = TRUE]
                  /\ ScheduleRestart(c, g, 0, failures[c] + 1)
                  /\ UNCHANGED <<own, records>>
            /\ RefreshState
    /\ UNCHANGED <<op, queue, extUp>>

\* STABLE_RUN_RESET_MS after a record became ready.
StableRun(c) ==
    LET g == stable[c] IN
    /\ Quiet
    /\ g # 0
    /\ stable' = [stable EXCEPT ![c] = 0]
    /\ IF cur[c] = g /\ ~rec[c][g].exited /\ rec[c][g].st = "ready"
       THEN /\ failures' = [failures EXCEPT ![c] = 0]
            /\ latched' = [latched EXCEPT ![c] = FALSE]
       ELSE UNCHANGED <<failures, latched>>
    /\ UNCHANGED <<own, err, timer, records, stopping, state, op, queue, extUp, left>>

Expire(c) ==
    /\ Quiet
    /\ failures[c] > 0
    /\ Spend("fault")
    /\ failures' = [failures EXCEPT ![c] = @ - 1]
    /\ UNCHANGED <<own, latched, err, stable, timer, records, stopping, state, op,
                   queue, extUp>>

OtherCore ==
    /\ Quiet
    /\ Spend("other")
    /\ extUp' = ~extUp
    /\ UNCHANGED <<trackers, timer, records, stopping, state, op, queue>>

-----------------------------------------------------------------------------
Init ==
    /\ own = [c \in Names |-> "none"]
    /\ failures = [c \in Names |-> 0]
    /\ latched = [c \in Names |-> FALSE]
    /\ err = [c \in Names |-> FALSE]
    /\ stable = [c \in Names |-> 0]
    /\ timer = [c \in Names |-> 0]
    /\ cur = [c \in Names |-> 0]
    /\ rec = [c \in Names |-> [g \in Records |-> Unborn]]
    /\ stopping = FALSE
    /\ state = "stopped"
    /\ op = Idle
    /\ queue = <<>>
    /\ extUp = FALSE
    /\ left = [start |-> MaxStarts, restart |-> MaxRestarts, stop |-> MaxStops,
               fault |-> MaxFaults, other |-> MaxOthers]

\* What the event loop, the timers and the health checks bring about.
Progress ==
    \/ BeginStart \/ StartLaunches \/ LaunchDone
    \/ BeginRestart \/ RestartStopped \/ RestartExternal
    \/ BeginStop \/ StopDone
    \/ \E g \in Records : CoreChecked(g) \/ LooksAgain(g)
    \/ \E c \in Names, g \in Records :
         HelperChecked(c, g) \/ ReadinessFails(c, g) \/ ForceKill(c, g)
    \/ \E c \in Names : RestartTimer(c)

Happens ==
    \/ CallStart \/ CallStop \/ GetStatus \/ OtherCore
    \/ \E c \in Names : CallRestart(c) \/ StableRun(c) \/ Expire(c)
    \/ \E c \in Names, g \in Records :
         Crash(c, g) \/ SpawnFails(c, g) \/ Obey(c, g)

Next == Progress \/ Happens

Spec == Init /\ [][Next]_vars

\* A started operation, a timer and a health check all come to their end.
FairSpec == Spec /\ WF_vars(Progress)

-----------------------------------------------------------------------------
(* Properties. *)

Left == [{"start", "restart", "stop", "fault", "other"} -> Nat]

\* The variables keep their types; no more automatic restarts are counted than
\* the window permits.
TypeOK ==
    /\ own \in [Names -> {"none", "managed", "external"}]
    /\ failures \in [Names -> 0 .. MaxPerWindow]
    /\ latched \in [Names -> BOOLEAN]
    /\ err \in [Names -> BOOLEAN]
    /\ {stable, timer, cur} \subseteq [Names -> {0} \union Records]
    /\ rec \in [Names -> [Records ->
         [st : {"starting", "ready", "degraded", "stopped"}, intentional : BOOLEAN,
          exited : BOOLEAN, alive : BOOLEAN,
          wait : {"check", "sleep", "last", "stop", "done"}]]]
    /\ stopping \in BOOLEAN
    /\ state \in {"starting", "ready", "degraded", "stopped"}
    /\ op \in Ops
    /\ queue \in Seq(Calls)
    /\ extUp \in BOOLEAN
    /\ left \in Left

\* Restarts, stale timers and readiness deadlines never put two processes of
\* one child side by side: two parsers would append every event twice.
OneProcessPerChild ==
    \A c \in Names, g, h \in Records :
       rec[c][g].alive /\ rec[c][h].alive => g = h

\* When stop() has returned, no child lives and no timer may start one, until
\* the next start() or restart().
StoppedMeansQuiet ==
    stopping /\ op.kind # "stop" =>
       \A c \in Names : ~Alive(c) /\ timer[c] = 0

\* While somebody else's Core is in use the supervisor runs none of its own.
ExternalCoreIsAlone == own[Core] = "external" => ~Alive(Core)

\* A latched child is launched by start() or restart() only, whatever timers
\* were set before it was latched.
LatchedStaysDown ==
    [][\A c \in Names : latched[c] /\ ~Alive(c) /\ Alive(c)' =>
          op.kind \in {"start", "restart"}]_vars

\* Nobody has called stop() yet.
NoStop == left.stop = MaxStops

\* The supervisor has lost a child that died by itself: it is not latched, its
\* restart timer is not set, and no operation is coming.
Forgotten(c) ==
    /\ cur[c] # 0
    /\ rec[c][cur[c]].exited /\ ~rec[c][cur[c]].intentional
    /\ NoStop /\ ~latched[c] /\ queue = <<>>
    /\ timer[c] # cur[c]

\* With one call of start(), a watcher or parser that died is never forgotten:
\* the timers that restarts and failed spawns leave behind do not block it.
NoHelperForgotten == \A c \in Helpers : ~Forgotten(c)

\* The restart policy of the design, of Core too: what dies is restarted with
\* a delay until it is latched.
NoChildForgotten == \A c \in Names : ~Forgotten(c)

\* Every start, restart and stop ends, whatever it is queued behind: readiness
\* deadlines pass, and children that ignore SIGTERM are killed.
Busy == op # Idle \/ queue # <<>>
OperationsEnd == []<>~Busy

\* A watcher or parser that died comes back, unless it is latched, its explicit
\* restart could not spawn it, or stop() was called.
StaysDead(c) == cur[c] # 0 /\ Exited(c) /\ ~Alive(c) /\ ~latched[c] /\ NoStop
HelperComesBack == []<>(\A c \in Helpers : ~StaysDead(c))
=============================================================================
