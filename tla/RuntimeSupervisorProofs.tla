---------------------- MODULE RuntimeSupervisorProofs ----------------------
(***************************************************************************)
(* Machine-checked proofs about RuntimeSupervisor, for every set of        *)
(* helpers and every bound.                                                *)
(*                                                                         *)
(* IInv ties processes, timers and operations to the current records; the  *)
(* action properties follow from it.  HelperInv, at the end, says that the *)
(* one timer of a helper is that of its current record, as long as start() *)
(* is called once and stop() is not.                                       *)
(***************************************************************************)
EXTENDS RuntimeSupervisor, TLAPS

USE SupervisorAssumption DEF SupervisorAssumption

RecType == [st : {"starting", "ready", "degraded", "stopped"}, intentional : BOOLEAN,
            exited : BOOLEAN, alive : BOOLEAN,
            wait : {"check", "sleep", "last", "stop", "done"}]
Slots == {0} \union Records

-----------------------------------------------------------------------------
(* What the helpers do to the records and the timers. *)

\* Processes may end and records may be marked; no process appears, and none is
\* taken for gone while it lives.
Fades ==
    /\ cur' = cur
    /\ rec' \in [Names -> [Records -> RecType]]
    /\ \A c \in Names, g \in Records :
         /\ rec'[c][g].alive => rec[c][g].alive
         /\ rec[c][g].exited => rec'[c][g].exited
         /\ rec'[c][g].alive /\ rec'[c][g].exited => rec[c][g].exited

\* Changing one record to one that has faded is a fading step.
LEMMA OneFades ==
  ASSUME NEW c \in Names, NEW g \in Records, NEW r \in RecType,
         rec \in [Names -> [Records -> RecType]], cur' = cur,
         rec' = [rec EXCEPT ![c][g] = r],
         r.alive => rec[c][g].alive,
         rec[c][g].exited => r.exited,
         r.alive /\ r.exited => rec[c][g].exited
  PROVE  Fades
BY DEF Fades

\* The records without the current one keep their processes and exits.
LEMMA DroppedEffect ==
  ASSUME rec \in [Names -> [Records -> RecType]], cur \in [Names -> Slots], NEW c \in Names
  PROVE  /\ Dropped(c) \in [Records -> RecType]
         /\ \A g \in Records : /\ Dropped(c)[g].alive = rec[c][g].alive
                               /\ Dropped(c)[g].exited = rec[c][g].exited
<1>1. CASE cur[c] = 0
  BY <1>1 DEF Dropped
<1>2. CASE cur[c] # 0
  <2>1. cur[c] \in Records
    BY <1>2 DEF Slots
  <2>2. rec[c] \in [Records -> RecType] /\ rec[c][cur[c]] \in RecType
    BY <2>1
  <2> DEFINE old == [rec[c][cur[c]] EXCEPT !.st = "stopped", !.intentional = FALSE]
  <2>3. /\ old \in RecType
        /\ old.alive = rec[c][cur[c]].alive
        /\ old.exited = rec[c][cur[c]].exited
    BY <2>2 DEF RecType
  <2>4. Dropped(c) = [rec[c] EXCEPT ![cur[c]] = old]
    BY <1>2 DEF Dropped
  <2> HIDE DEF old
  <2> QED
    BY ONLY <2>1, <2>2, <2>3, <2>4
<1> QED
  BY <1>1, <1>2

\* A launch gives a child a fresh record with a process and leaves its other
\* records as they are.
LEMMA LaunchEffect ==
  ASSUME rec \in [Names -> [Records -> RecType]], cur \in [Names -> Slots],
         NEW S \in SUBSET Names, Launch(S)
  PROVE  /\ cur' \in [Names -> Slots]
         /\ rec' \in [Names -> [Records -> RecType]]
         /\ \A c \in Names \ S : cur'[c] = cur[c] /\ rec'[c] = rec[c]
         /\ \A c \in S :
              /\ cur'[c] \in Records
              /\ Free(c, cur'[c])
              /\ \A g \in Records \ {cur'[c]} : /\ rec'[c][g].alive = rec[c][g].alive
                                                /\ rec'[c][g].exited = rec[c][g].exited
              /\ rec'[c][cur'[c]] = NewRecord
<1>1. NewRecord \in RecType
  BY DEF NewRecord, RecType
<1>2. ASSUME NEW c \in S
      PROVE  Fresh(c) \in Records /\ Free(c, Fresh(c))
  <2>1. \E g \in Records : Free(c, g)
    BY <1>2 DEF Launch
  <2> QED
    BY ONLY <2>1, Zenon DEF Fresh
<1>3. ASSUME NEW c \in Names
      PROVE  /\ Dropped(c) \in [Records -> RecType]
             /\ \A g \in Records : /\ Dropped(c)[g].alive = rec[c][g].alive
                                   /\ Dropped(c)[g].exited = rec[c][g].exited
  BY DroppedEffect
<1>4. ASSUME NEW c \in S
      PROVE  /\ cur'[c] = Fresh(c)
             /\ rec'[c] = [Dropped(c) EXCEPT ![Fresh(c)] = NewRecord]
  BY <1>4 DEF Launch
<1>5. \A c \in Names \ S : cur'[c] = cur[c] /\ rec'[c] = rec[c]
  BY DEF Launch
<1>6. cur' \in [Names -> Slots]
  BY <1>2 DEF Launch, Slots
<1>7. rec' \in [Names -> [Records -> RecType]]
  <2>1. \A c \in S : [Dropped(c) EXCEPT ![Fresh(c)] = NewRecord] \in [Records -> RecType]
    BY <1>1, <1>3
  <2> QED
    BY <2>1 DEF Launch
<1>8. ASSUME NEW c \in S
      PROVE  /\ cur'[c] \in Records
             /\ Free(c, cur'[c])
             /\ \A g \in Records \ {cur'[c]} : /\ rec'[c][g].alive = rec[c][g].alive
                                               /\ rec'[c][g].exited = rec[c][g].exited
             /\ rec'[c][cur'[c]] = NewRecord
  <2> HIDE DEF NewRecord, RecType
  <2>1. c \in Names
    OBVIOUS
  <2>2. Fresh(c) \in Records /\ Free(c, Fresh(c))
    BY <1>2
  <2>3. Dropped(c) \in [Records -> RecType]
    BY <1>3, <2>1
  <2>4. /\ cur'[c] = Fresh(c)
        /\ rec'[c] = [Dropped(c) EXCEPT ![Fresh(c)] = NewRecord]
    BY <1>4
  <2>5. \A g \in Records \ {Fresh(c)} : rec'[c][g] = Dropped(c)[g]
    BY ONLY <2>2, <2>3, <2>4
  <2>6. rec'[c][Fresh(c)] = NewRecord
    BY ONLY <2>2, <2>3, <2>4
  <2>7. \A g \in Records : /\ Dropped(c)[g].alive = rec[c][g].alive
                            /\ Dropped(c)[g].exited = rec[c][g].exited
    BY <1>3, <2>1
  <2> QED
    BY ONLY <2>2, <2>4, <2>5, <2>6, <2>7
<1> QED
  BY ONLY <1>5, <1>6, <1>7, <1>8

\* Timers are kept, dropped, or set for a record that has exited.
TimersFade ==
    \A c \in Names :
       /\ timer'[c] \in Slots
       /\ \/ timer'[c] \in {0, timer[c]}
          \/ timer'[c] \in Records /\ rec'[c][timer'[c]].exited /\ ~stopping

\* scheduleRestart keeps the types, and sets a timer for the given record only,
\* and only while the supervisor is not stopping.
LEMMA ScheduleEffect ==
  ASSUME timer \in [Names -> Slots], latched \in [Names -> BOOLEAN],
         NEW c \in Names, NEW g \in Records, NEW pending \in Slots, NEW recent \in Nat,
         ScheduleRestart(c, g, pending, recent)
  PROVE  /\ timer' \in [Names -> Slots]
         /\ latched' \in [Names -> BOOLEAN]
         /\ \A d \in Names \ {c} : timer'[d] = timer[d]
         /\ timer'[c] = pending \/ (timer'[c] = g /\ ~stopping)
BY DEF ScheduleRestart, LatchOrWait, Slots

\* An exit marks its record, or changes nothing but the process.
LEMMA ExitEffect ==
  ASSUME rec \in [Names -> [Records -> RecType]], cur \in [Names -> Slots],
         timer \in [Names -> Slots], latched \in [Names -> BOOLEAN],
         stable \in [Names -> Slots], err \in [Names -> BOOLEAN],
         failures \in [Names -> 0 .. MaxPerWindow],
         NEW c \in Names, NEW g \in Records, NEW failed \in BOOLEAN,
         MarkExit(c, g, failed)
  PROVE  /\ Fades
         /\ TimersFade
         /\ timer' \in [Names -> Slots]
         /\ latched' \in [Names -> BOOLEAN]
         /\ stable' \in [Names -> Slots]
         /\ err' \in [Names -> BOOLEAN]
         /\ own' = own /\ failures' = failures /\ stopping' = stopping
<1> DEFINE known == Known(c, g)
           r == Marked(c, g)
<1>1. rec' = [rec EXCEPT ![c][g] = r] /\ cur' = cur /\ stopping' = stopping
  BY DEF MarkExit
<1>2. rec[c][g] \in RecType
  OBVIOUS
<1>3. /\ r \in RecType
      /\ r.alive = FALSE
      /\ rec[c][g].exited => r.exited
      /\ ~known => r.exited
  BY <1>2 DEF RecType, Marked
<1> HIDE DEF r, known
<1>4. Fades
  BY ONLY <1>1, <1>3, OneFades, rec \in [Names -> [Records -> RecType]],
          c \in Names, g \in Records
<1>5. rec'[c][g] = r
  BY <1>1
<1>6. CASE known
  <2>1. UNCHANGED <<trackers, timer>>
    BY <1>6 DEF MarkExit, known
  <2> QED
    BY <1>1, <1>4, <2>1 DEF trackers, TimersFade
<1>7. CASE ~known /\ Expected(c, g)
  <2>1. UNCHANGED <<own, failures, latched, err, timer>> /\ stable' = [stable EXCEPT ![c] = 0]
    BY <1>7 DEF MarkExit, known
  <2> QED
    BY <1>1, <1>4, <2>1 DEF TimersFade, Slots
<1>8. CASE ~known /\ ~Expected(c, g)
  <2>1. /\ UNCHANGED <<own, failures>>
        /\ stable' = [stable EXCEPT ![c] = 0]
        /\ err' = [err EXCEPT ![c] = failed]
        /\ ScheduleRestart(c, g, timer[c], failures[c])
    BY <1>8 DEF MarkExit, known
  <2>2. timer[c] \in Slots /\ failures[c] \in Nat
    OBVIOUS
  <2>3. /\ timer' \in [Names -> Slots]
        /\ latched' \in [Names -> BOOLEAN]
        /\ \A d \in Names \ {c} : timer'[d] = timer[d]
        /\ timer'[c] = timer[c] \/ (timer'[c] = g /\ ~stopping)
    BY <2>1, <2>2, ScheduleEffect
  <2>4. rec'[c][g].exited
    BY <1>3, <1>5, <1>8
  <2>5. TimersFade
    BY <2>3, <2>4 DEF TimersFade
  <2>6. stable' \in [Names -> Slots] /\ err' \in [Names -> BOOLEAN]
    BY <2>1 DEF Slots
  <2> QED
    BY <1>1, <1>4, <2>1, <2>3, <2>5, <2>6
<1> QED
  BY <1>6, <1>7, <1>8

-----------------------------------------------------------------------------
(* The parts of the inductive invariant. *)

TrackersOK ==
    /\ own \in [Names -> {"none", "managed", "external"}]
    /\ failures \in [Names -> 0 .. MaxPerWindow]
    /\ latched \in [Names -> BOOLEAN]
    /\ err \in [Names -> BOOLEAN]
    /\ stable \in [Names -> Slots]

RecordsOK ==
    /\ timer \in [Names -> Slots]
    /\ cur \in [Names -> Slots]
    /\ rec \in [Names -> [Records -> RecType]]

ControlOK ==
    /\ stopping \in BOOLEAN
    /\ state \in {"starting", "ready", "degraded", "stopped"}
    /\ extUp \in BOOLEAN
    /\ left \in Left

\* The operation that is running stays at the head of the queue until it ends.
OperationOK ==
    /\ op \in Ops
    /\ queue \in Seq(Calls)
    /\ op # Idle => queue # <<>>

Typed == TrackersOK /\ RecordsOK /\ ControlOK /\ OperationOK

LEMMA TypeParts == Typed => TypeOK
BY DEF Typed, TypeOK, TrackersOK, RecordsOK, ControlOK, OperationOK, Slots, RecType

\* A process is that of the current record, which has not exited.
LiveIsCurrent ==
    \A c \in Names, g \in Records :
       rec[c][g].alive => g = cur[c] /\ ~rec[c][g].exited

\* A restart timer is set for a record that has exited.
TimerOfTheDead == \A c \in Names : timer[c] # 0 => rec[c][timer[c]].exited

\* While somebody else's Core is in use, or is looked for by a restart, Core has
\* no record; no helper is ever external.
ExternalHasNone ==
    /\ own[Core] = "external" => cur[Core] = 0
    /\ op.kind = "restart" /\ op.phase = "external" => cur[Core] = 0
    /\ \A c \in Helpers : own[c] # "external"

\* After stop() began no timer is set, and once it is done all children are gone.
StoppingIsFinal ==
    stopping => /\ \A c \in Names : timer[c] = 0
                /\ op.kind = "stop" \/ (op = Idle /\ \A c \in Names : Exited(c))

Modes == ExternalHasNone /\ StoppingIsFinal

IInv == Typed /\ LiveIsCurrent /\ TimerOfTheDead /\ Modes

-----------------------------------------------------------------------------
(* Operations and their queue. *)

LEMMA OpShape ==
  ASSUME op \in Ops
  PROVE  /\ op.kind = "restart" /\ op.phase \in {"stop", "external"} => op.child \in Names
         /\ op.phase = "ready" => op.of \in SUBSET (Names \X Records)
         /\ op.kind = "restart" /\ op.phase = "stop" =>
              [op EXCEPT !.phase = "external"] =
                [kind |-> "restart", phase |-> "external", child |-> op.child]
BY DEF Ops, Idle

LEMMA CallShape ==
  ASSUME NEW call \in Calls, call.kind = "restart"
  PROVE  call.child \in Names
BY DEF Calls

LEMMA NextCall ==
  ASSUME queue \in Seq(Calls), queue # <<>>
  PROVE  Head(queue) \in Calls /\ Tail(queue) \in Seq(Calls)
OBVIOUS

\* Ending the operation that is running.
LEMMA EndOp ==
  ASSUME OperationOK, op # Idle, op' = Idle, queue' = Tail(queue)
  PROVE  OperationOK'
BY NextCall DEF OperationOK, Ops

\* Going on with it, or beginning the one at the head of the queue.
LEMMA GoOn ==
  ASSUME OperationOK, queue # <<>>, op' \in Ops, queue' = queue
  PROVE  OperationOK'
BY DEF OperationOK

\* refreshState yields a state of the runtime.
LEMMA RefreshedState ==
  RefreshState => state' \in {"starting", "ready", "degraded", "stopped"}
BY DEF RefreshState, Refreshed

LEMMA SpendEffect ==
  ASSUME left \in Left, NEW b \in {"start", "restart", "stop", "fault", "other"}, Spend(b)
  PROVE  left' \in Left
BY DEF Left, Spend

-----------------------------------------------------------------------------
(* The initial state. *)

LEMMA InitIInv == Init => IInv
<1> SUFFICES ASSUME Init PROVE IInv
  OBVIOUS
<1>1. TrackersOK
  BY DEF Init, TrackersOK, Slots
<1>2. RecordsOK
  <2>1. Unborn \in RecType
    BY DEF Unborn, RecType
  <2> QED
    BY <2>1 DEF Init, RecordsOK, Slots
<1>3. ControlOK
  <2>1. left \in Left
    BY DEF Init, Left
  <2> QED
    BY <2>1 DEF Init, ControlOK
<1>4. OperationOK
  <2>1. Idle \in Ops
    BY DEF Ops
  <2>2. <<>> \in Seq(Calls)
    OBVIOUS
  <2> QED
    BY <2>1, <2>2 DEF Init, OperationOK
<1>5. LiveIsCurrent /\ TimerOfTheDead
  BY DEF Init, LiveIsCurrent, TimerOfTheDead, Unborn
<1>6. ExternalHasNone
  BY DEF Init, ExternalHasNone, Idle, Names
<1>7. StoppingIsFinal
  BY DEF Init, StoppingIsFinal
<1> QED
  BY <1>1, <1>2, <1>3, <1>4, <1>5, <1>6, <1>7, TypeParts DEF IInv, Typed, Modes

-----------------------------------------------------------------------------
(* The step of each child. *)

\* No process of the child appears, and its current record stays.
FadesOf(c) ==
    /\ cur'[c] = cur[c]
    /\ \A g \in Records :
         /\ rec'[c][g].alive => rec[c][g].alive
         /\ rec[c][g].exited => rec'[c][g].exited
         /\ rec'[c][g].alive /\ rec'[c][g].exited => rec[c][g].exited

\* The child is launched: it had exited, and the new record was free.
StartsOf(c) ==
    /\ Exited(c)
    /\ cur'[c] \in Records
    /\ Free(c, cur'[c])
    /\ \A g \in Records \ {cur'[c]} : /\ rec'[c][g].alive = rec[c][g].alive
                                      /\ rec'[c][g].exited = rec[c][g].exited
    /\ rec'[c][cur'[c]] = NewRecord

\* The child loses its record, which had exited.
GoesOf(c) ==
    /\ Exited(c)
    /\ cur'[c] = 0
    /\ \A g \in Records : /\ rec'[c][g].alive = rec[c][g].alive
                          /\ rec'[c][g].exited = rec[c][g].exited

Moves == \A c \in Names : FadesOf(c) \/ StartsOf(c) \/ GoesOf(c)

\* Steps of this kind keep one process per child and timers of the dead.
LEMMA MovesKeep ==
  ASSUME RecordsOK, LiveIsCurrent, TimerOfTheDead, Moves, TimersFade
  PROVE  LiveIsCurrent' /\ TimerOfTheDead'
<1>1. ASSUME NEW c \in Names, FadesOf(c)
      PROVE  /\ \A g \in Records :
                  rec'[c][g].alive => g = cur'[c] /\ ~rec'[c][g].exited
             /\ timer'[c] # 0 => rec'[c][timer'[c]].exited
  BY <1>1 DEF FadesOf, LiveIsCurrent, TimerOfTheDead, TimersFade, RecordsOK, Slots
<1>2. ASSUME NEW c \in Names, StartsOf(c) \/ GoesOf(c)
      PROVE  /\ \A g \in Records :
                  rec'[c][g].alive => g = cur'[c] /\ ~rec'[c][g].exited
             /\ timer'[c] # 0 => rec'[c][timer'[c]].exited
  <2>0. Exited(c)
    BY <1>2 DEF StartsOf, GoesOf
  <2>1. \A g \in Records : ~rec[c][g].alive
    BY <2>0 DEF LiveIsCurrent, Exited, Records
  <2>2. CASE StartsOf(c)
    <3>1. /\ cur'[c] \in Records /\ cur'[c] # timer[c]
          /\ \A g \in Records \ {cur'[c]} : /\ rec'[c][g].alive = rec[c][g].alive
                                            /\ rec'[c][g].exited = rec[c][g].exited
          /\ ~rec'[c][cur'[c]].exited
      BY <2>2 DEF StartsOf, Free, NewRecord
    <3>2. \A g \in Records : rec'[c][g].alive => g = cur'[c] /\ ~rec'[c][g].exited
      BY <2>1, <3>1
    <3>3. timer[c] \in Slots /\ (timer[c] # 0 => rec[c][timer[c]].exited)
      BY DEF RecordsOK, TimerOfTheDead
    <3>4. timer'[c] # 0 => rec'[c][timer'[c]].exited
      BY <3>1, <3>3 DEF TimersFade, Slots
    <3> QED
      BY <3>2, <3>4
  <2>3. CASE GoesOf(c)
    BY <2>1, <2>3 DEF GoesOf, TimerOfTheDead, TimersFade, RecordsOK, Slots
  <2> QED
    BY <1>2, <2>2, <2>3
<1>3. \A c \in Names : FadesOf(c) \/ StartsOf(c) \/ GoesOf(c)
  BY DEF Moves
<1> QED
  BY <1>1, <1>2, <1>3 DEF LiveIsCurrent, TimerOfTheDead

LEMMA FadesMoves == Fades => Moves
BY DEF Fades, Moves, FadesOf

LEMMA StillMoves == UNCHANGED records => Moves
BY DEF records, Moves, FadesOf

LEMMA StillTimers == RecordsOK /\ UNCHANGED timer => TimersFade
BY DEF RecordsOK, TimersFade

LEMMA LaunchMoves ==
  ASSUME RecordsOK, NEW S \in SUBSET Names, Launch(S), \A c \in S : Exited(c)
  PROVE  /\ Moves
         /\ cur' \in [Names -> Slots] /\ rec' \in [Names -> [Records -> RecType]]
         /\ \A c \in Names \ S : cur'[c] = cur[c]
         /\ \A c \in S : cur'[c] \in Records
<1>1. /\ rec \in [Names -> [Records -> RecType]] /\ cur \in [Names -> Slots]
  BY DEF RecordsOK
<1>2. /\ cur' \in [Names -> Slots]
      /\ rec' \in [Names -> [Records -> RecType]]
      /\ \A c \in Names \ S : cur'[c] = cur[c] /\ rec'[c] = rec[c]
      /\ \A c \in S :
           /\ cur'[c] \in Records
           /\ Free(c, cur'[c])
           /\ \A g \in Records \ {cur'[c]} : /\ rec'[c][g].alive = rec[c][g].alive
                                             /\ rec'[c][g].exited = rec[c][g].exited
           /\ rec'[c][cur'[c]] = NewRecord
  BY <1>1, LaunchEffect
<1>3. \A c \in S : StartsOf(c)
  BY <1>2 DEF StartsOf
<1>4. \A c \in Names \ S : FadesOf(c)
  BY <1>2 DEF FadesOf
<1> QED
  BY <1>2, <1>3, <1>4 DEF Moves

-----------------------------------------------------------------------------
(* Every step keeps the types, moves each child in one of the three ways, and  *)
(* sets timers of the dead only.                                               *)

Effect == Typed' /\ Moves /\ TimersFade

\* Steps that change no record and no timer.
LEMMA QuietEffect ==
  ASSUME Typed, Typed', UNCHANGED <<timer, records>>
  PROVE  Effect
BY StillMoves, StillTimers DEF Effect, Typed

LEMMA ResetEffect ==
  ASSUME TrackersOK, NEW S \in SUBSET Names, Reset(S)
  PROVE  /\ stable' \in [Names -> Slots]
         /\ failures' \in [Names -> 0 .. MaxPerWindow]
         /\ latched' \in [Names -> BOOLEAN]
         /\ err' \in [Names -> BOOLEAN]
<1>1. stable' \in [Names -> Slots]
  BY DEF Reset, TrackersOK, Slots
<1>2. failures' \in [Names -> 0 .. MaxPerWindow]
  BY DEF Reset, TrackersOK
<1>3. latched' \in [Names -> BOOLEAN]
  BY Zenon DEF Reset, TrackersOK
<1>4. err' \in [Names -> BOOLEAN]
  BY Zenon DEF Reset, TrackersOK
<1> QED
  BY <1>1, <1>2, <1>3, <1>4

LEMMA CallEffect ==
  ASSUME Typed, NEW call \in Calls, NEW b \in {"start", "restart", "stop"}, Call(b, call)
  PROVE  Effect
<1>1. left' \in Left
  BY SpendEffect DEF Call, Typed, ControlOK
<1>2. queue' \in Seq(Calls)
  BY DEF Call, Typed, OperationOK
<1>3. Typed'
  BY <1>1, <1>2 DEF Call, Typed, TrackersOK, RecordsOK, ControlOK, OperationOK, trackers, records
<1> QED
  BY <1>3, QuietEffect DEF Call

LEMMA CallsEffect ==
  ASSUME Typed, CallStart \/ CallStop \/ \E c \in Names : CallRestart(c)
  PROVE  Effect
<1>1. CASE CallStart
  <2>1. [kind |-> "start"] \in Calls
    BY DEF Calls
  <2> QED
    BY <1>1, <2>1, CallEffect DEF CallStart
<1>2. CASE CallStop
  <2>1. [kind |-> "stop"] \in Calls
    BY DEF Calls
  <2> QED
    BY <1>2, <2>1, CallEffect DEF CallStop
<1>3. ASSUME NEW c \in Names, CallRestart(c) PROVE Effect
  <2>1. [kind |-> "restart", child |-> c] \in Calls
    BY DEF Calls
  <2> QED
    BY <1>3, <2>1, CallEffect DEF CallRestart
<1> QED
  BY <1>1, <1>2, <1>3

LEMMA BeginStartEffect == ASSUME Typed, BeginStart PROVE Effect
<1>1. state' \in {"starting", "ready", "degraded", "stopped"}
  BY RefreshedState DEF BeginStart
<1>2. OperationOK'
  <2>1. CASE queue' = Tail(queue) /\ op' = op
    BY <2>1, NextCall DEF BeginStart, Next1, Typed, OperationOK
  <2>2. CASE queue' = queue /\ op' = [kind |-> "start", phase |-> "external"]
    <3>1. op' \in Ops
      BY <2>2 DEF Ops
    <3> QED
      BY <2>2, <3>1, GoOn DEF BeginStart, Next1, Typed
  <2> QED
    BY <2>1, <2>2 DEF BeginStart
<1>3. TrackersOK'
  <2>1. UNCHANGED trackers \/ (UNCHANGED own /\ \E S \in SUBSET Names : Reset(S))
    BY DEF BeginStart
  <2> QED
    BY <2>1, ResetEffect DEF Typed, TrackersOK, trackers
<1>4. RecordsOK' /\ UNCHANGED <<timer, records>>
  BY DEF BeginStart, Typed, RecordsOK, records
<1>5. ControlOK'
  BY <1>1 DEF BeginStart, Typed, ControlOK
<1> QED
  BY <1>2, <1>3, <1>4, <1>5, QuietEffect DEF Typed

LEMMA LaunchDoneEffect == ASSUME Typed, LaunchDone PROVE Effect
<1>1. state' \in {"starting", "ready", "degraded", "stopped"}
  BY RefreshedState DEF LaunchDone
<1>2. OperationOK'
  BY EndOp DEF LaunchDone, Typed, Idle
<1>3. Typed'
  BY <1>1, <1>2 DEF LaunchDone, Typed, TrackersOK, RecordsOK, ControlOK, OperationOK, trackers, records
<1> QED
  BY <1>3, QuietEffect DEF LaunchDone

LEMMA StopDoneEffect == ASSUME Typed, StopDone PROVE Effect
<1>1. state' \in {"starting", "ready", "degraded", "stopped"}
  BY RefreshedState DEF StopDone
<1>2. OperationOK'
  BY EndOp DEF StopDone, Typed, Idle
<1>3. TrackersOK'
  <2>1. stable' \in [Names -> Slots]
    BY DEF StopDone, Slots
  <2>2. own' \in [Names -> {"none", "managed", "external"}]
    BY DEF StopDone, Typed, TrackersOK
  <2> QED
    BY <2>1, <2>2 DEF StopDone, Typed, TrackersOK
<1>4. RecordsOK' /\ UNCHANGED <<timer, records>>
  BY DEF StopDone, Typed, RecordsOK, records
<1>5. ControlOK'
  BY <1>1 DEF StopDone, Typed, ControlOK
<1> QED
  BY <1>2, <1>3, <1>4, <1>5, QuietEffect DEF Typed

LEMMA GetStatusEffect == ASSUME Typed, GetStatus PROVE Effect
<1>1. state' \in {"starting", "ready", "degraded", "stopped"}
  BY RefreshedState DEF GetStatus
<1>2. Typed'
  BY <1>1 DEF GetStatus, Typed, TrackersOK, RecordsOK, ControlOK, OperationOK, trackers, records
<1> QED
  BY <1>2, QuietEffect DEF GetStatus

LEMMA StableRunEffect == ASSUME Typed, NEW c \in Names, StableRun(c) PROVE Effect
<1>1. TrackersOK'
  <2>1. failures' \in [Names -> 0 .. MaxPerWindow]
    BY DEF StableRun, Typed, TrackersOK
  <2>2. latched' \in [Names -> BOOLEAN]
    BY DEF StableRun, Typed, TrackersOK
  <2>3. stable' \in [Names -> Slots]
    BY DEF StableRun, Typed, TrackersOK, Slots
  <2> QED
    BY <2>1, <2>2, <2>3 DEF StableRun, Typed, TrackersOK
<1>2. Typed'
  BY <1>1 DEF StableRun, Typed, RecordsOK, ControlOK, OperationOK, records
<1> QED
  BY <1>2, QuietEffect DEF StableRun

LEMMA ExpireEffect == ASSUME Typed, NEW c \in Names, Expire(c) PROVE Effect
<1>1. left' \in Left
  BY SpendEffect DEF Expire, Typed, ControlOK
<1>2. TrackersOK'
  <2>1. failures[c] \in 0 .. MaxPerWindow /\ failures[c] - 1 \in 0 .. MaxPerWindow
    BY DEF Expire, Typed, TrackersOK
  <2>2. failures' \in [Names -> 0 .. MaxPerWindow]
    BY <2>1 DEF Expire, Typed, TrackersOK
  <2> QED
    BY <2>2 DEF Expire, Typed, TrackersOK
<1>3. Typed'
  BY <1>1, <1>2 DEF Expire, Typed, RecordsOK, ControlOK, OperationOK, records
<1> QED
  BY <1>3, QuietEffect DEF Expire

LEMMA OtherCoreEffect == ASSUME Typed, OtherCore PROVE Effect
<1>1. left' \in Left
  BY SpendEffect DEF OtherCore, Typed, ControlOK
<1>2. Typed'
  BY <1>1 DEF OtherCore, Typed, TrackersOK, RecordsOK, ControlOK, OperationOK, trackers, records
<1> QED
  BY <1>2, QuietEffect DEF OtherCore

\* Steps in which processes end and records are marked.
LEMMA FadingEffect ==
  ASSUME Typed, Fades, TimersFade, timer' \in [Names -> Slots],
         TrackersOK', ControlOK', OperationOK'
  PROVE  Effect
<1>1. RecordsOK'
  BY DEF Fades, Typed, RecordsOK
<1> QED
  BY <1>1, FadesMoves DEF Effect, Typed

LEMMA IsReadyEffect ==
  ASSUME Typed, NEW c \in Names, NEW g \in Records, IsReady(c, g),
         UNCHANGED <<op, queue, extUp, left>>
  PROVE  Effect
<1> DEFINE r == [rec[c][g] EXCEPT !.st = IF cur[c] = g THEN "ready" ELSE rec[c][g].st,
                                  !.wait = "done"]
<1>1. rec[c][g] \in RecType
  BY DEF Typed, RecordsOK
<1>2. r \in RecType /\ r.alive = rec[c][g].alive /\ r.exited = rec[c][g].exited
  BY <1>1 DEF RecType
<1>3. rec' = [rec EXCEPT ![c][g] = r] /\ cur' = cur
  BY DEF IsReady
<1> HIDE DEF r
<1>4. Fades
  BY <1>2, <1>3, OneFades DEF Typed, RecordsOK
<1>5. TimersFade /\ timer' \in [Names -> Slots]
  BY StillTimers DEF IsReady, Typed, RecordsOK
<1>6. TrackersOK'
  <2>1. stable' \in [Names -> Slots]
    BY DEF IsReady, Typed, TrackersOK, Slots
  <2>2. err' \in [Names -> BOOLEAN]
    BY DEF IsReady, Typed, TrackersOK
  <2> QED
    BY <2>1, <2>2 DEF IsReady, Typed, TrackersOK
<1>7. ControlOK'
  BY RefreshedState DEF IsReady, Typed, ControlOK
<1>8. OperationOK'
  BY DEF Typed, OperationOK
<1> QED
  BY <1>4, <1>5, <1>6, <1>7, <1>8, FadingEffect

LEMMA NotReadyEffect ==
  ASSUME Typed, NEW c \in Names, NEW g \in Records, NotReady(c, g),
         UNCHANGED <<op, queue, extUp, left>>
  PROVE  Effect
<1> DEFINE r == IF rec[c][g].wait = "check"
                THEN [rec[c][g] EXCEPT !.wait = "sleep"]
                ELSE [rec[c][g] EXCEPT !.wait = "stop",
                        !.intentional = rec[c][g].intentional \/ ~rec[c][g].exited]
<1>1. rec[c][g] \in RecType
  BY DEF Typed, RecordsOK
<1>2. r \in RecType /\ r.alive = rec[c][g].alive /\ r.exited = rec[c][g].exited
  <2>1. CASE rec[c][g].wait = "check"
    BY <1>1, <2>1 DEF RecType
  <2>2. CASE rec[c][g].wait # "check"
    BY <1>1, <2>2 DEF RecType
  <2> QED
    BY <2>1, <2>2
<1>3. rec' = [rec EXCEPT ![c][g] = r] /\ cur' = cur
  BY DEF NotReady
<1> HIDE DEF r
<1>4. Fades
  BY <1>2, <1>3, OneFades DEF Typed, RecordsOK
<1>5. TimersFade /\ timer' \in [Names -> Slots]
  BY StillTimers DEF NotReady, Typed, RecordsOK
<1>6. TrackersOK'
  <2>1. err' \in [Names -> BOOLEAN]
    BY DEF NotReady, Typed, TrackersOK
  <2> QED
    BY <2>1 DEF NotReady, Typed, TrackersOK
<1>7. ControlOK'
  BY DEF NotReady, Typed, ControlOK
<1>8. OperationOK'
  BY DEF Typed, OperationOK
<1> QED
  BY <1>4, <1>5, <1>6, <1>7, <1>8, FadingEffect

LEMMA HelperCheckedEffect ==
  ASSUME Typed, NEW c \in Names, NEW g \in Records, HelperChecked(c, g)
  PROVE  Effect
BY IsReadyEffect DEF HelperChecked

LEMMA CoreCheckedEffect ==
  ASSUME Typed, NEW g \in Records, CoreChecked(g)
  PROVE  Effect
<1>1. Core \in Names
  BY DEF Names
<1>2. IsReady(Core, g) \/ NotReady(Core, g)
  BY DEF CoreChecked
<1> QED
  BY <1>1, <1>2, IsReadyEffect, NotReadyEffect DEF CoreChecked

LEMMA LooksAgainEffect ==
  ASSUME Typed, NEW g \in Records, LooksAgain(g)
  PROVE  Effect
<1> DEFINE r == [rec[Core][g] EXCEPT !.wait = Awake(Core, g)]
<1>0. Core \in Names
  BY DEF Names
<1>1. rec[Core][g] \in RecType
  BY <1>0 DEF Typed, RecordsOK
<1>2. r \in RecType /\ r.alive = rec[Core][g].alive /\ r.exited = rec[Core][g].exited
  BY <1>1 DEF RecType, Awake
<1>3. rec' = [rec EXCEPT ![Core][g] = r] /\ cur' = cur
  BY DEF LooksAgain
<1> HIDE DEF r
<1>4. Fades
  BY <1>0, <1>2, <1>3, OneFades DEF Typed, RecordsOK
<1>5. TimersFade /\ timer' \in [Names -> Slots]
  BY StillTimers DEF LooksAgain, Typed, RecordsOK
<1>6. TrackersOK'
  BY DEF LooksAgain, Typed, TrackersOK, trackers
<1>7. ControlOK'
  BY RefreshedState DEF LooksAgain, Typed, ControlOK
<1>8. OperationOK'
  BY DEF LooksAgain, Typed, OperationOK
<1> QED
  BY <1>4, <1>5, <1>6, <1>7, <1>8, FadingEffect

LEMMA ReadinessFailsEffect ==
  ASSUME Typed, NEW c \in Names, NEW g \in Records, ReadinessFails(c, g)
  PROVE  Effect
<1> DEFINE r == [rec[c][g] EXCEPT !.st = IF cur[c] = g THEN "degraded" ELSE rec[c][g].st,
                                  !.wait = "done"]
<1>1. rec[c][g] \in RecType
  BY DEF Typed, RecordsOK
<1>2. r \in RecType /\ r.alive = rec[c][g].alive /\ r.exited = rec[c][g].exited
  BY <1>1 DEF RecType
<1>3. rec' = [rec EXCEPT ![c][g] = r] /\ cur' = cur
  BY DEF ReadinessFails
<1>4. rec[c][g].exited
  BY DEF ReadinessFails, StopSeen
<1> HIDE DEF r
<1>5. Fades
  BY <1>2, <1>3, OneFades DEF Typed, RecordsOK
<1>6. timer[c] \in Slots /\ failures[c] \in Nat
  BY DEF Typed, RecordsOK, TrackersOK
<1>7. /\ timer' \in [Names -> Slots]
      /\ latched' \in [Names -> BOOLEAN]
      /\ \A d \in Names \ {c} : timer'[d] = timer[d]
      /\ timer'[c] = timer[c] \/ (timer'[c] = g /\ ~stopping)
  BY <1>6, ScheduleEffect DEF ReadinessFails, Typed, RecordsOK, TrackersOK
<1>8. rec'[c][g].exited
  BY <1>2, <1>3, <1>4 DEF Typed, RecordsOK
<1>9. TimersFade
  BY <1>7, <1>8 DEF TimersFade
<1>10. TrackersOK'
  BY <1>7 DEF ReadinessFails, Typed, TrackersOK
<1>11. ControlOK'
  BY RefreshedState DEF ReadinessFails, Typed, ControlOK
<1>12. OperationOK'
  BY DEF ReadinessFails, Typed, OperationOK
<1> QED
  BY <1>5, <1>7, <1>9, <1>10, <1>11, <1>12, FadingEffect

LEMMA MarkExitEffect ==
  ASSUME Typed, NEW c \in Names, NEW g \in Records, NEW failed \in BOOLEAN,
         MarkExit(c, g, failed), left' \in Left, UNCHANGED <<op, queue, extUp>>
  PROVE  Effect
<1>1. /\ Fades
      /\ TimersFade
      /\ timer' \in [Names -> Slots]
      /\ latched' \in [Names -> BOOLEAN]
      /\ stable' \in [Names -> Slots]
      /\ err' \in [Names -> BOOLEAN]
      /\ own' = own /\ failures' = failures /\ stopping' = stopping
  BY ExitEffect DEF Typed, RecordsOK, TrackersOK
<1>2. TrackersOK'
  BY <1>1 DEF Typed, TrackersOK
<1>3. state' = state \/ RefreshState \/ state' = "degraded"
  BY DEF MarkExit
<1>4. ControlOK'
  BY <1>1, <1>3, RefreshedState DEF Typed, ControlOK
<1>5. OperationOK'
  BY DEF Typed, OperationOK
<1> QED
  BY <1>1, <1>2, <1>4, <1>5, FadingEffect

LEMMA CrashEffect ==
  ASSUME Typed, NEW c \in Names, NEW g \in Records, Crash(c, g)
  PROVE  Effect
<1>1. left' \in Left
  BY SpendEffect DEF Crash, Typed, ControlOK
<1> QED
  BY <1>1, MarkExitEffect DEF Crash

LEMMA SpawnFailsEffect ==
  ASSUME Typed, NEW c \in Names, NEW g \in Records, SpawnFails(c, g)
  PROVE  Effect
<1>1. left' \in Left
  BY SpendEffect DEF SpawnFails, Typed, ControlOK
<1> QED
  BY <1>1, MarkExitEffect DEF SpawnFails

LEMMA ObeyEffect ==
  ASSUME Typed, NEW c \in Names, NEW g \in Records, Obey(c, g)
  PROVE  Effect
BY MarkExitEffect DEF Obey, Typed, ControlOK

LEMMA ForceKillEffect ==
  ASSUME Typed, NEW c \in Names, NEW g \in Records, ForceKill(c, g)
  PROVE  Effect
<1> DEFINE r == [rec[c][g] EXCEPT !.alive = FALSE, !.exited = TRUE, !.st = "stopped"]
<1>1. rec[c][g] \in RecType
  BY DEF Typed, RecordsOK
<1>2. r \in RecType /\ ~r.alive /\ r.exited
  BY <1>1 DEF RecType
<1>3. rec' = [rec EXCEPT ![c][g] = r] /\ cur' = cur
  BY DEF ForceKill
<1> HIDE DEF r
<1>4. Fades
  BY <1>2, <1>3, OneFades DEF Typed, RecordsOK
<1>5. TimersFade /\ timer' \in [Names -> Slots]
  BY StillTimers DEF ForceKill, Typed, RecordsOK
<1>6. TrackersOK'
  BY DEF ForceKill, Typed, TrackersOK, trackers
<1>7. ControlOK'
  BY DEF ForceKill, Typed, ControlOK
<1>8. OperationOK'
  BY DEF ForceKill, Typed, OperationOK
<1> QED
  BY <1>4, <1>5, <1>6, <1>7, <1>8, FadingEffect

\* SIGTERM changes the intent only.
LEMMA TerminateFades ==
  ASSUME Typed, NEW S \in SUBSET Names, Terminate(S), cur' = cur
  PROVE  Fades
<1> DEFINE told(c) == [rec[c][cur[c]] EXCEPT !.intentional = TRUE]
<1>1. /\ rec \in [Names -> [Records -> RecType]]
      /\ cur \in [Names -> Slots]
  BY DEF Typed, RecordsOK
<1>2. ASSUME NEW c \in Names, ~Exited(c)
      PROVE  /\ cur[c] \in Records /\ told(c) \in RecType
             /\ told(c).alive = rec[c][cur[c]].alive
             /\ told(c).exited = rec[c][cur[c]].exited
  <2>1. cur[c] \in Records
    BY <1>1, <1>2 DEF Exited, Slots
  <2>2. rec[c][cur[c]] \in RecType
    BY <1>1, <2>1
  <2> QED
    BY <2>1, <2>2 DEF RecType
<1>3. rec' = [c \in Names |-> IF c \in S /\ ~Exited(c)
                              THEN [rec[c] EXCEPT ![cur[c]] = told(c)] ELSE rec[c]]
  BY DEF Terminate
<1> HIDE DEF told
<1>4. rec' \in [Names -> [Records -> RecType]]
  BY <1>1, <1>2, <1>3
<1>5. ASSUME NEW c \in Names, NEW g \in Records
      PROVE  rec'[c][g].alive = rec[c][g].alive /\ rec'[c][g].exited = rec[c][g].exited
  <2>1. CASE c \in S /\ ~Exited(c)
    BY <1>1, <1>2, <1>3, <2>1
  <2>2. CASE ~(c \in S /\ ~Exited(c))
    BY <1>3, <2>2
  <2> QED
    BY <2>1, <2>2
<1> QED
  BY <1>4, <1>5 DEF Fades

LEMMA BeginRestartEffect == ASSUME Typed, BeginRestart PROVE Effect
<1> DEFINE c == Head(queue).child
<1>0. queue # <<>> /\ Head(queue).kind = "restart"
  BY DEF BeginRestart, Next1
<1>1. c \in Names
  BY <1>0, NextCall, CallShape DEF Typed, OperationOK
<1>2. /\ stopping' = FALSE
      /\ Reset({c}) /\ timer' = [timer EXCEPT ![c] = 0]
      /\ Terminate({c})
      /\ op' = [kind |-> "restart", phase |-> "stop", child |-> c]
      /\ UNCHANGED <<own, cur, state, queue, extUp, left>>
  BY DEF BeginRestart, Forget
<1> HIDE DEF c
<1>3. Fades
  BY <1>1, <1>2, TerminateFades
<1>4. TimersFade /\ timer' \in [Names -> Slots]
  BY <1>1, <1>2 DEF TimersFade, Typed, RecordsOK, Slots
<1>5. TrackersOK'
  BY <1>1, <1>2, ResetEffect DEF Typed, TrackersOK
<1>6. ControlOK'
  BY <1>2 DEF Typed, ControlOK
<1>7. OperationOK'
  <2>1. op' \in Ops
    BY <1>1, <1>2 DEF Ops
  <2> QED
    BY <1>0, <1>2, <2>1, GoOn DEF Typed
<1> QED
  BY <1>3, <1>4, <1>5, <1>6, <1>7, FadingEffect

LEMMA BeginStopEffect == ASSUME Typed, BeginStop PROVE Effect
<1>1. Fades
  BY TerminateFades DEF BeginStop
<1>2. TimersFade /\ timer' \in [Names -> Slots]
  BY DEF BeginStop, TimersFade, Slots
<1>3. TrackersOK'
  BY DEF BeginStop, Typed, TrackersOK, trackers
<1>4. ControlOK'
  BY DEF BeginStop, Typed, ControlOK
<1>5. OperationOK'
  <2>1. op' \in Ops
    BY DEF BeginStop, Ops
  <2> QED
    BY <2>1, GoOn DEF BeginStop, Next1, Typed
<1> QED
  BY <1>1, <1>2, <1>3, <1>4, <1>5, FadingEffect

LEMMA ReadyOp ==
  ASSUME NEW kind \in {"start", "restart"}, NEW X \in SUBSET (Names \X Records)
  PROVE  [kind |-> kind, phase |-> "ready", of |-> X] \in Ops
BY DEF Ops

\* A child that has exited is dropped.
LEMMA DropMoves ==
  ASSUME RecordsOK, NEW c \in Names, Exited(c),
         cur' = [cur EXCEPT ![c] = 0], rec' = [rec EXCEPT ![c] = Dropped(c)]
  PROVE  Moves /\ cur' \in [Names -> Slots] /\ rec' \in [Names -> [Records -> RecType]]
<1>1. /\ Dropped(c) \in [Records -> RecType]
      /\ \A g \in Records : /\ Dropped(c)[g].alive = rec[c][g].alive
                            /\ Dropped(c)[g].exited = rec[c][g].exited
  BY DroppedEffect DEF RecordsOK
<1>2. cur' \in [Names -> Slots] /\ rec' \in [Names -> [Records -> RecType]]
  BY <1>1 DEF RecordsOK, Slots
<1>3. GoesOf(c)
  BY <1>1 DEF GoesOf, RecordsOK
<1>4. ASSUME NEW d \in Names \ {c} PROVE FadesOf(d)
  BY DEF FadesOf, RecordsOK
<1> QED
  BY <1>2, <1>3, <1>4 DEF Moves

LEMMA RelaunchEffect ==
  ASSUME Typed, NEW c \in Names, Exited(c), op # Idle, Relaunch(c)
  PROVE  Effect
<1>1. TrackersOK'
  <2>1. own' \in [Names -> {"none", "managed", "external"}]
    BY DEF Relaunch, Typed, TrackersOK
  <2>2. err' \in [Names -> BOOLEAN]
    BY DEF Relaunch, Typed, TrackersOK
  <2> QED
    BY <2>1, <2>2 DEF Relaunch, Typed, TrackersOK
<1>2. left' \in Left
  BY SpendEffect DEF Relaunch, Typed, ControlOK
<1>3. ControlOK'
  BY <1>2 DEF Relaunch, Typed, ControlOK
<1>4. TimersFade /\ timer' \in [Names -> Slots]
  BY StillTimers DEF Relaunch, Typed, RecordsOK
<1>5. CASE Launch({c}) /\ op' = [kind |-> "restart", phase |-> "ready", of |-> {<<c, Fresh(c)>>}]
  <2>1. /\ Moves
        /\ cur' \in [Names -> Slots] /\ rec' \in [Names -> [Records -> RecType]]
        /\ cur'[c] \in Records
    BY <1>5, LaunchMoves DEF Typed
  <2>2. cur'[c] = Fresh(c)
    BY <1>5 DEF Launch
  <2>3. op' \in Ops
    BY <1>5, <2>1, <2>2, ReadyOp
  <2>4. OperationOK'
    BY <2>3, GoOn DEF Relaunch, Typed, OperationOK
  <2> QED
    BY <1>1, <1>3, <1>4, <2>1, <2>4 DEF Effect, Typed, RecordsOK
<1>6. CASE /\ op' = [kind |-> "restart", phase |-> "ready", of |-> {}]
           /\ cur' = [cur EXCEPT ![c] = 0]
           /\ rec' = [rec EXCEPT ![c] = Dropped(c)]
  <2>1. Moves /\ cur' \in [Names -> Slots] /\ rec' \in [Names -> [Records -> RecType]]
    BY <1>6, DropMoves DEF Typed
  <2>2. op' \in Ops
    BY <1>6, ReadyOp
  <2>3. OperationOK'
    BY <2>2, GoOn DEF Relaunch, Typed, OperationOK
  <2> QED
    BY <1>1, <1>3, <1>4, <2>1, <2>3 DEF Effect, Typed, RecordsOK
<1> QED
  BY <1>5, <1>6 DEF Relaunch

LEMMA RestartStoppedEffect == ASSUME Typed, RestartStopped PROVE Effect
<1>1. op.child \in Names /\ Exited(op.child) /\ op # Idle
  BY OpShape DEF RestartStopped, Stopped, Typed, OperationOK, Idle
<1>2. CASE op.child # Core
  BY <1>1, <1>2, RelaunchEffect DEF RestartStopped
<1>3. CASE op.child = Core
  <2>1. /\ cur' = [cur EXCEPT ![Core] = 0]
        /\ rec' = [rec EXCEPT ![Core] = Dropped(Core)]
        /\ op' = [op EXCEPT !.phase = "external"]
        /\ UNCHANGED <<trackers, timer, stopping, state, queue, extUp, left>>
    BY <1>3 DEF RestartStopped
  <2>2. Moves /\ cur' \in [Names -> Slots] /\ rec' \in [Names -> [Records -> RecType]]
    BY <1>1, <1>3, <2>1, DropMoves DEF Typed
  <2>3. op' \in Ops
    BY <1>1, <2>1, OpShape DEF RestartStopped, Typed, OperationOK, Ops
  <2>4. OperationOK'
    BY <1>1, <2>1, <2>3, GoOn DEF Typed, OperationOK
  <2>5. TrackersOK' /\ ControlOK'
    BY <2>1 DEF Typed, TrackersOK, ControlOK, trackers
  <2>6. TimersFade /\ timer' \in [Names -> Slots]
    BY <2>1, StillTimers DEF Typed, RecordsOK
  <2> QED
    BY <2>2, <2>4, <2>5, <2>6 DEF Effect, Typed, RecordsOK
<1> QED
  BY <1>2, <1>3

LEMMA RestartExternalEffect ==
  ASSUME Typed, ExternalHasNone, RestartExternal
  PROVE  Effect
<1>1. Core \in Names /\ Exited(Core) /\ op # Idle
  BY DEF RestartExternal, ExternalHasNone, Exited, Names, Idle
<1>2. CASE Relaunch(Core)
  BY <1>1, <1>2, RelaunchEffect
<1>3. CASE /\ own' = [own EXCEPT ![Core] = "external"]
           /\ op' = Idle
           /\ queue' = Tail(queue)
           /\ UNCHANGED <<failures, latched, err, stable, timer, records,
                          stopping, extUp, left>>
           /\ RefreshState
  <2>1. OperationOK'
    BY <1>1, <1>3, EndOp DEF Typed
  <2>2. ControlOK'
    BY <1>3, RefreshedState DEF Typed, ControlOK
  <2>3. TrackersOK' /\ RecordsOK'
    BY <1>3 DEF Typed, TrackersOK, RecordsOK, records
  <2> QED
    BY <1>3, <2>1, <2>2, <2>3, QuietEffect DEF Typed
<1> QED
  BY <1>2, <1>3 DEF RestartExternal

LEMMA StartLaunchesEffect == ASSUME Typed, StartLaunches PROVE Effect
<1>1. PICK healthy \in HealthAnswers, threw \in SUBSET Names :
         LET external == healthy /\ (cur[Core] = 0 \/ own[Core] = "external")
             missing  == {c \in Names : Exited(c) /\ ~(c = Core /\ external)}
             ok       == missing \ threw
         IN
         /\ threw \subseteq missing
         /\ IF threw = {} THEN UNCHANGED left ELSE Spend("fault")
         /\ own' = [c \in Names |->
                      IF c \in missing THEN "managed"
                      ELSE IF c = Core /\ external THEN "external"
                      ELSE IF c = Core /\ own[c] = "external" THEN "none" ELSE own[c]]
         /\ err' = [c \in Names |-> \/ c \in threw
                                    \/ err[c] /\ ~(c = Core /\ external)]
         /\ Launch(ok)
         /\ op' = [kind |-> "start", phase |-> "ready",
                   of |-> {<<c, Fresh(c)>> : c \in ok}]
  BY DEF StartLaunches
<1> DEFINE external == healthy /\ (cur[Core] = 0 \/ own[Core] = "external")
           missing  == {c \in Names : Exited(c) /\ ~(c = Core /\ external)}
           ok       == missing \ threw
<1>2. ok \in SUBSET Names /\ (\A c \in ok : Exited(c))
  OBVIOUS
<1>3. own' \in [Names -> {"none", "managed", "external"}]
  BY <1>1 DEF Typed, TrackersOK
<1>4. err' \in [Names -> BOOLEAN]
  BY <1>1, Zenon DEF Typed, TrackersOK
<1>5. Launch(ok) /\ op' = [kind |-> "start", phase |-> "ready",
                           of |-> {<<c, Fresh(c)>> : c \in ok}]
  BY <1>1
<1>6. left' \in Left
  BY <1>1, SpendEffect DEF Typed, ControlOK
<1> HIDE DEF ok, missing, external
<1>7. /\ Moves
      /\ cur' \in [Names -> Slots] /\ rec' \in [Names -> [Records -> RecType]]
      /\ \A c \in ok : cur'[c] \in Records
  BY <1>2, <1>5, LaunchMoves DEF Typed
<1>8. \A c \in ok : cur'[c] = Fresh(c)
  BY <1>2, <1>5 DEF Launch
<1>9. OperationOK'
  <2>1. {<<c, Fresh(c)>> : c \in ok} \in SUBSET (Names \X Records)
    BY <1>2, <1>7, <1>8
  <2>2. op' \in Ops
    BY <1>5, <2>1, ReadyOp
  <2>3. op # Idle
    BY DEF StartLaunches, Idle
  <2> QED
    BY <2>2, <2>3, GoOn DEF StartLaunches, Typed, OperationOK
<1>10. TrackersOK'
  BY <1>3, <1>4 DEF StartLaunches, Typed, TrackersOK
<1>11. ControlOK'
  BY <1>6 DEF StartLaunches, Typed, ControlOK
<1>12. TimersFade /\ timer' \in [Names -> Slots]
  BY StillTimers DEF StartLaunches, Typed, RecordsOK
<1> QED
  BY <1>7, <1>9, <1>10, <1>11, <1>12 DEF Effect, Typed, RecordsOK

\* What a restart timer does when it fires: nothing but forget itself, latch
\* the child, launch it, or find that the spawn throws.
TimerIsStale(c) ==
    /\ timer' = [timer EXCEPT ![c] = 0]
    /\ UNCHANGED <<trackers, records, stopping, state, left>>

TimerLatches(c) ==
    /\ latched' = [latched EXCEPT ![c] = TRUE]
    /\ timer' = [timer EXCEPT ![c] = 0]
    /\ UNCHANGED <<own, failures, err, stable, stopping, records, left>>
    /\ RefreshState

TimerLaunches(c) ==
    /\ cur[c] = timer[c] /\ timer[c] # 0 /\ ~stopping /\ ~latched[c]
    /\ ~WindowFull(failures[c])
    /\ failures' = [failures EXCEPT ![c] = failures[c] + 1]
    /\ Launch({c})
    /\ own' = [own EXCEPT ![c] = "managed"]
    /\ timer' = [timer EXCEPT ![c] = 0]
    /\ UNCHANGED <<latched, err, stable, stopping, left>>
    /\ RefreshState

TimerThrows(c) ==
    /\ cur[c] = timer[c] /\ timer[c] # 0 /\ ~stopping
    /\ ~WindowFull(failures[c])
    /\ Spend("fault")
    /\ failures' = [failures EXCEPT ![c] = failures[c] + 1]
    /\ err' = [err EXCEPT ![c] = TRUE]
    /\ ScheduleRestart(c, timer[c], 0, failures[c] + 1)
    /\ UNCHANGED <<own, stable, stopping, records>>
    /\ RefreshState

LEMMA RestartTimerCases ==
  ASSUME NEW c \in Names, RestartTimer(c)
  PROVE  /\ TimerIsStale(c) \/ TimerLatches(c) \/ TimerLaunches(c) \/ TimerThrows(c)
         /\ timer[c] # 0
         /\ UNCHANGED <<op, queue, extUp>>
BY DEF RestartTimer, TimerIsStale, TimerLatches, TimerLaunches, TimerThrows, GivenUp

\* A spawn that throws in the timer sets the timer again, or latches the child.
LEMMA ThrowTypes ==
  ASSUME Typed, TimerOfTheDead, NEW c \in Names, TimerThrows(c), UNCHANGED extUp,
         timer[c] \in Records, failures[c] \in 0 .. MaxPerWindow
  PROVE  TrackersOK' /\ ControlOK' /\ timer' \in [Names -> Slots] /\ TimersFade
<1>1. failures[c] + 1 \in 0 .. MaxPerWindow /\ failures[c] + 1 \in Nat
  BY DEF TimerThrows, WindowFull
<1>2. ScheduleRestart(c, timer[c], 0, failures[c] + 1) /\ 0 \in Slots
  BY DEF TimerThrows, Slots
<1>3. /\ timer' \in [Names -> Slots]
      /\ latched' \in [Names -> BOOLEAN]
      /\ \A d \in Names \ {c} : timer'[d] = timer[d]
      /\ timer'[c] = 0 \/ (timer'[c] = timer[c] /\ ~stopping)
  BY <1>1, <1>2, ScheduleEffect DEF Typed, RecordsOK, TrackersOK
<1>4. TimersFade
  BY <1>3 DEF TimersFade
<1>5. failures' \in [Names -> 0 .. MaxPerWindow]
  BY <1>1 DEF TimerThrows, Typed, TrackersOK
<1>6. err' \in [Names -> BOOLEAN]
  BY DEF TimerThrows, Typed, TrackersOK
<1>7. TrackersOK'
  BY <1>3, <1>5, <1>6 DEF TimerThrows, Typed, TrackersOK
<1>8. left' \in Left
  BY SpendEffect DEF TimerThrows, Typed, ControlOK
<1>9. ControlOK'
  BY <1>8, RefreshedState DEF TimerThrows, Typed, ControlOK
<1> QED
  BY <1>3, <1>4, <1>7, <1>9

LEMMA RestartTimerEffect ==
  ASSUME Typed, TimerOfTheDead, NEW c \in Names, RestartTimer(c)
  PROVE  Effect
<1>1. /\ TimerIsStale(c) \/ TimerLatches(c) \/ TimerLaunches(c) \/ TimerThrows(c)
      /\ timer[c] # 0
      /\ UNCHANGED <<op, queue, extUp>>
  BY RestartTimerCases
<1>2. OperationOK'
  BY <1>1 DEF Typed, OperationOK
<1>3. timer[c] \in Records /\ failures[c] \in 0 .. MaxPerWindow
  BY <1>1 DEF Typed, RecordsOK, TrackersOK, Slots
<1>4. CASE TimerIsStale(c) \/ TimerLatches(c)
  <2>1. RecordsOK' /\ TimersFade
    BY <1>4 DEF TimerIsStale, TimerLatches, Typed, RecordsOK, TimersFade, Slots, records
  <2>2. TrackersOK' /\ ControlOK'
    <3>1. CASE TimerIsStale(c)
      BY <1>1, <3>1 DEF TimerIsStale, trackers, Typed, TrackersOK, ControlOK
    <3>2. CASE TimerLatches(c)
      BY <1>1, <3>2, RefreshedState DEF TimerLatches, Typed, TrackersOK, ControlOK
    <3> QED
      BY <1>4, <3>1, <3>2
  <2> QED
    BY <1>2, <1>4, <2>1, <2>2, StillMoves DEF Effect, Typed, TimerIsStale, TimerLatches
<1>5. CASE TimerLaunches(c)
  <2>1. Exited(c)
    BY <1>5 DEF TimerLaunches, TimerOfTheDead, Exited
  <2>2. /\ Moves
        /\ cur' \in [Names -> Slots] /\ rec' \in [Names -> [Records -> RecType]]
    BY <1>5, <2>1, LaunchMoves DEF TimerLaunches, Typed
  <2>3. timer' \in [Names -> Slots] /\ TimersFade
    BY <1>5 DEF TimerLaunches, Typed, RecordsOK, TimersFade, Slots
  <2>4. failures[c] + 1 \in 0 .. MaxPerWindow
    BY <1>3, <1>5 DEF TimerLaunches, WindowFull
  <2>5. TrackersOK'
    <3>1. failures' \in [Names -> 0 .. MaxPerWindow]
      BY <1>5, <2>4 DEF TimerLaunches, Typed, TrackersOK
    <3> QED
      BY <1>5, <3>1 DEF TimerLaunches, Typed, TrackersOK
  <2>6. ControlOK'
    BY <1>1, <1>5, RefreshedState DEF TimerLaunches, Typed, ControlOK
  <2> QED
    BY <1>2, <2>2, <2>3, <2>5, <2>6 DEF Effect, Typed, RecordsOK
<1>6. CASE TimerThrows(c)
  <2>1. TrackersOK' /\ ControlOK' /\ timer' \in [Names -> Slots] /\ TimersFade
    BY <1>1, <1>3, <1>6, ThrowTypes
  <2> QED
    BY <1>2, <1>6, <2>1, StillMoves DEF Effect, TimerThrows, Typed, RecordsOK, records
<1> QED
  BY <1>1, <1>4, <1>5, <1>6

-----------------------------------------------------------------------------
(* The invariants on the external Core and on what stop() leaves.             *)

\* Steps that leave ownership, current records, operation and stopping alone.
LEMMA StillModes ==
  ASSUME Typed, Modes, Moves, TimersFade, UNCHANGED <<own, cur, op, stopping>>
  PROVE  Modes'
<1>1. ExternalHasNone'
  BY DEF Modes, ExternalHasNone
<1>2. ASSUME NEW c \in Names, Exited(c) PROVE Exited(c)'
  <2>1. CASE FadesOf(c)
    BY <1>2, <2>1 DEF FadesOf, Exited, Typed, RecordsOK, Slots
  <2>2. CASE StartsOf(c)
    BY <2>2 DEF StartsOf, Free
  <2>3. CASE GoesOf(c)
    BY <2>3 DEF GoesOf, Exited
  <2> QED
    BY <2>1, <2>2, <2>3 DEF Moves
<1>3. stopping => \A c \in Names : timer[c] = 0 => timer'[c] = 0
  BY DEF TimersFade
<1>4. StoppingIsFinal'
  <2>1. CASE stopping
    <3>1. \A c \in Names : timer'[c] = 0
      BY <1>3, <2>1 DEF Modes, StoppingIsFinal
    <3>2. op.kind = "stop" \/ (op = Idle /\ \A c \in Names : Exited(c))
      BY <2>1 DEF Modes, StoppingIsFinal
    <3>3. op'.kind = "stop" \/ (op' = Idle /\ \A c \in Names : Exited(c)')
      BY <1>2, <3>2
    <3> QED
      BY <3>1, <3>3 DEF StoppingIsFinal
  <2>2. CASE ~stopping
    BY <2>2 DEF StoppingIsFinal
  <2> QED
    BY <2>1, <2>2
<1> QED
  BY <1>1, <1>4 DEF Modes

LEMMA BeginStartModes == ASSUME Typed, Modes, Effect, BeginStart PROVE Modes'
<1>1. CASE UNCHANGED <<trackers, records, stopping, op>>
  BY <1>1, StillModes DEF Effect, trackers, records
<1>2. CASE stopping' = FALSE /\ op' = [kind |-> "start", phase |-> "external"]
           /\ UNCHANGED <<own, records>>
  BY <1>2 DEF Modes, ExternalHasNone, StoppingIsFinal, records
<1> QED
  BY <1>1, <1>2 DEF BeginStart

LEMMA StartLaunchesModes == ASSUME Typed, Modes, StartLaunches PROVE Modes'
<1>1. PICK healthy \in HealthAnswers, threw \in SUBSET Names :
         LET external == healthy /\ (cur[Core] = 0 \/ own[Core] = "external")
             missing  == {c \in Names : Exited(c) /\ ~(c = Core /\ external)}
             ok       == missing \ threw
         IN
         /\ own' = [c \in Names |->
                      IF c \in missing THEN "managed"
                      ELSE IF c = Core /\ external THEN "external"
                      ELSE IF c = Core /\ own[c] = "external" THEN "none" ELSE own[c]]
         /\ Launch(ok)
         /\ op' = [kind |-> "start", phase |-> "ready",
                   of |-> {<<c, Fresh(c)>> : c \in ok}]
  BY DEF StartLaunches
<1> DEFINE external == healthy /\ (cur[Core] = 0 \/ own[Core] = "external")
           missing  == {c \in Names : Exited(c) /\ ~(c = Core /\ external)}
           ok       == missing \ threw
<1>2. Core \in Names /\ Core \notin Helpers
  BY DEF Names
<1>3. ASSUME own'[Core] = "external"
      PROVE  cur'[Core] = 0
  <2>1. Core \notin missing
    BY <1>1, <1>2, <1>3
  <2>2. external
    BY <1>1, <1>2, <1>3, <2>1
  <2>3. cur[Core] = 0
    BY <2>2 DEF Modes, ExternalHasNone
  <2>4. cur'[Core] = cur[Core]
    BY <1>1, <1>2, <2>1 DEF Launch
  <2> QED
    BY <2>3, <2>4
<1>4. ASSUME NEW c \in Helpers PROVE own'[c] # "external"
  <2>1. c \in Names /\ c # Core /\ own[c] # "external"
    BY <1>2 DEF Names, Modes, ExternalHasNone
  <2> QED
    BY <1>1, <2>1
<1>5. ~stopping /\ stopping' = stopping
  BY DEF StartLaunches, Modes, StoppingIsFinal, Idle
<1>6. op'.phase = "ready"
  BY <1>1
<1> QED
  BY <1>3, <1>4, <1>5, <1>6 DEF Modes, ExternalHasNone, StoppingIsFinal

LEMMA LaunchDoneModes == ASSUME Typed, Modes, Effect, LaunchDone PROVE Modes'
<1>1. ~stopping
  BY DEF LaunchDone, Typed, OperationOK, Modes, StoppingIsFinal, Ops, Idle
<1>2. op' = Idle /\ UNCHANGED <<own, cur, stopping>>
  BY DEF LaunchDone, trackers, records
<1> QED
  BY <1>1, <1>2 DEF Modes, ExternalHasNone, StoppingIsFinal, Idle

LEMMA BeginRestartModes == ASSUME Typed, Modes, BeginRestart PROVE Modes'
BY DEF BeginRestart, Modes, ExternalHasNone, StoppingIsFinal

LEMMA RelaunchModes ==
  ASSUME Typed, Modes, NEW c \in Names, c = Core \/ c \in Helpers, Relaunch(c), ~stopping,
         op # Idle
  PROVE  Modes'
<1>1. /\ own' = [own EXCEPT ![c] = "managed"]
      /\ stopping' = stopping
      /\ op'.phase = "ready"
      /\ Launch({c}) \/ cur' = [cur EXCEPT ![c] = 0]
  BY DEF Relaunch
<1>2. \A d \in Names \ {c} : cur'[d] = cur[d]
  BY <1>1 DEF Launch, Typed, RecordsOK
<1>3. Core \in Names /\ Helpers \subseteq Names
  BY DEF Names
<1>4. own'[Core] = "external" => cur'[Core] = 0
  BY <1>1, <1>2, <1>3 DEF Typed, TrackersOK, Modes, ExternalHasNone
<1>5. \A d \in Helpers : own'[d] # "external"
  BY <1>1, <1>3 DEF Typed, TrackersOK, Modes, ExternalHasNone
<1> QED
  BY <1>1, <1>4, <1>5 DEF Modes, ExternalHasNone, StoppingIsFinal

LEMMA RestartStoppedModes == ASSUME Typed, Modes, RestartStopped PROVE Modes'
<1>1. op.child \in Names /\ op # Idle /\ ~stopping
  BY OpShape DEF RestartStopped, Typed, OperationOK, Modes, StoppingIsFinal, Idle
<1>2. CASE op.child = Core
  <2>1. Core \in Names
    BY DEF Names
  <2>2. cur'[Core] = 0 /\ own' = own /\ stopping' = stopping
    BY <1>2, <2>1 DEF RestartStopped, Typed, RecordsOK, trackers
  <2> QED
    BY <1>1, <2>2 DEF Modes, ExternalHasNone, StoppingIsFinal
<1>3. CASE op.child # Core
  BY <1>1, <1>3, RelaunchModes DEF RestartStopped, Names
<1> QED
  BY <1>2, <1>3

LEMMA RestartExternalModes == ASSUME Typed, Modes, RestartExternal PROVE Modes'
<1>1. op # Idle /\ ~stopping /\ cur[Core] = 0 /\ Core \in Names
  BY DEF RestartExternal, Modes, ExternalHasNone, StoppingIsFinal, Idle, Names
<1>2. CASE Relaunch(Core)
  BY <1>1, <1>2, RelaunchModes
<1>3. CASE own' = [own EXCEPT ![Core] = "external"] /\ op' = Idle
           /\ UNCHANGED <<records, stopping>>
  <2>1. \A d \in Helpers : own'[d] = own[d]
    BY <1>3 DEF Typed, TrackersOK, Names
  <2> QED
    BY <1>1, <1>3, <2>1 DEF Modes, ExternalHasNone, StoppingIsFinal, Idle, records
<1> QED
  BY <1>2, <1>3 DEF RestartExternal

LEMMA BeginStopModes == ASSUME Typed, Modes, BeginStop PROVE Modes'
<1>1. \A c \in Names : timer'[c] = 0
  BY DEF BeginStop
<1>2. op'.kind = "stop" /\ UNCHANGED <<own, cur>>
  BY DEF BeginStop, trackers
<1> QED
  BY <1>1, <1>2 DEF Modes, ExternalHasNone, StoppingIsFinal

LEMMA StopDoneModes == ASSUME Typed, Modes, StopDone PROVE Modes'
<1>1. \A c \in Names : Exited(c)'
  BY DEF StopDone, Exited, records
<1>2. /\ op' = Idle /\ UNCHANGED <<cur, stopping, timer>>
      /\ \A c \in Names : own'[c] # "external"
  BY DEF StopDone, records, Typed, TrackersOK
<1>3. Core \in Names /\ Helpers \subseteq Names
  BY DEF Names
<1> QED
  BY <1>1, <1>2, <1>3 DEF Modes, ExternalHasNone, StoppingIsFinal, Idle

LEMMA RestartTimerModes ==
  ASSUME Typed, Modes, Effect, NEW c \in Names, RestartTimer(c)
  PROVE  Modes'
<1>1. /\ TimerIsStale(c) \/ TimerLatches(c) \/ TimerLaunches(c) \/ TimerThrows(c)
      /\ UNCHANGED <<op, queue, extUp>>
  BY RestartTimerCases
<1>2. CASE TimerIsStale(c) \/ TimerLatches(c) \/ TimerThrows(c)
  BY <1>1, <1>2, StillModes
     DEF Effect, TimerIsStale, TimerLatches, TimerThrows, trackers, records
<1>3. CASE TimerLaunches(c)
  <2>1. /\ own' = [own EXCEPT ![c] = "managed"] /\ ~stopping /\ stopping' = stopping
        /\ cur[c] # 0
        /\ \A d \in Names \ {c} : cur'[d] = cur[d]
    BY <1>3 DEF TimerLaunches, Launch
  <2>2. Core \in Names /\ Helpers \subseteq Names
    BY DEF Names
  <2>3. c = Core => ~(op.kind = "restart" /\ op.phase = "external")
    BY <2>1 DEF Modes, ExternalHasNone
  <2>4. own'[Core] = "external" => cur'[Core] = 0
    BY <2>1, <2>2 DEF Typed, TrackersOK, Modes, ExternalHasNone
  <2>5. \A d \in Helpers : own'[d] # "external"
    BY <2>1, <2>2 DEF Typed, TrackersOK, Modes, ExternalHasNone
  <2>6. op'.kind = "restart" /\ op'.phase = "external" => cur'[Core] = 0
    BY <1>1, <2>1, <2>2, <2>3 DEF Modes, ExternalHasNone
  <2> QED
    BY <2>1, <2>4, <2>5, <2>6 DEF Modes, ExternalHasNone, StoppingIsFinal
<1> QED
  BY <1>1, <1>2, <1>3

-----------------------------------------------------------------------------
(* Induction. *)

LEMMA StepEffect == IInv /\ Next => Effect
<1> SUFFICES ASSUME IInv, Next PROVE Effect
  OBVIOUS
<1>1. Typed /\ TimerOfTheDead /\ ExternalHasNone
  BY DEF IInv, Modes
<1>2. CASE CallStart \/ CallStop \/ \E c \in Names : CallRestart(c)
  BY <1>1, <1>2, CallsEffect
<1>3. CASE BeginStart \/ StartLaunches \/ LaunchDone \/ BeginRestart
           \/ RestartStopped \/ RestartExternal \/ BeginStop \/ StopDone
  BY <1>1, <1>3, BeginStartEffect, StartLaunchesEffect, LaunchDoneEffect,
     BeginRestartEffect, RestartStoppedEffect, RestartExternalEffect,
     BeginStopEffect, StopDoneEffect
<1>4. CASE \E g \in Records : CoreChecked(g) \/ LooksAgain(g)
  BY <1>1, <1>4, CoreCheckedEffect, LooksAgainEffect
<1>5. CASE \E c \in Names, g \in Records :
             HelperChecked(c, g) \/ ReadinessFails(c, g) \/ ForceKill(c, g)
  BY <1>1, <1>5, HelperCheckedEffect, ReadinessFailsEffect, ForceKillEffect
<1>6. CASE \E c \in Names, g \in Records :
             Crash(c, g) \/ SpawnFails(c, g) \/ Obey(c, g)
  BY <1>1, <1>6, CrashEffect, SpawnFailsEffect, ObeyEffect
<1>7. CASE \E c \in Names : RestartTimer(c)
  BY <1>1, <1>7, RestartTimerEffect
<1>8. CASE GetStatus \/ OtherCore \/ \E c \in Names : StableRun(c) \/ Expire(c)
  BY <1>1, <1>8, GetStatusEffect, OtherCoreEffect, StableRunEffect, ExpireEffect
<1> QED
  BY <1>2, <1>3, <1>4, <1>5, <1>6, <1>7, <1>8 DEF Next, Progress, Happens

\* The steps that neither begin nor end an operation nor launch a child.
LEMMA OthersStill ==
  ASSUME \/ CallStart \/ CallStop \/ GetStatus \/ OtherCore
         \/ \E c \in Names : CallRestart(c) \/ StableRun(c) \/ Expire(c)
         \/ \E g \in Records : CoreChecked(g) \/ LooksAgain(g)
         \/ \E c \in Names, g \in Records :
              \/ HelperChecked(c, g) \/ ReadinessFails(c, g) \/ ForceKill(c, g)
              \/ Crash(c, g) \/ SpawnFails(c, g) \/ Obey(c, g)
  PROVE  UNCHANGED <<own, cur, op, stopping>>
<1>1. CASE CallStart \/ CallStop \/ \E c \in Names : CallRestart(c)
  BY <1>1 DEF CallStart, CallStop, CallRestart, Call, trackers, records
<1>2. CASE GetStatus \/ OtherCore \/ \E c \in Names : StableRun(c) \/ Expire(c)
  BY <1>2 DEF GetStatus, OtherCore, StableRun, Expire, trackers, records
<1>3. ASSUME NEW g \in Records, CoreChecked(g) \/ LooksAgain(g)
      PROVE  UNCHANGED <<own, cur, op, stopping>>
  <2>1. CASE CoreChecked(g)
    BY <2>1 DEF CoreChecked, IsReady, NotReady
  <2>2. CASE LooksAgain(g)
    BY <2>2 DEF LooksAgain, trackers
  <2> QED
    BY <1>3, <2>1, <2>2
<1>4. ASSUME NEW c \in Names, NEW g \in Records,
             \/ HelperChecked(c, g) \/ ReadinessFails(c, g) \/ ForceKill(c, g)
      PROVE  UNCHANGED <<own, cur, op, stopping>>
  BY <1>4 DEF HelperChecked, IsReady, ReadinessFails, ForceKill, trackers
<1>5. ASSUME NEW c \in Names, NEW g \in Records,
             \/ Crash(c, g) \/ SpawnFails(c, g) \/ Obey(c, g)
      PROVE  UNCHANGED <<own, cur, op, stopping>>
  BY <1>5 DEF Crash, SpawnFails, Obey, MarkExit, trackers
<1> QED
  BY <1>1, <1>2, <1>3, <1>4, <1>5

LEMMA StepModes == IInv /\ Next => Modes'
<1> SUFFICES ASSUME IInv, Next PROVE Modes'
  OBVIOUS
<1>1. Typed /\ Modes /\ Effect
  BY StepEffect DEF IInv
<1>2. CASE BeginStart \/ StartLaunches \/ LaunchDone \/ BeginRestart
           \/ RestartStopped \/ RestartExternal \/ BeginStop \/ StopDone
  BY <1>1, <1>2, BeginStartModes, StartLaunchesModes, LaunchDoneModes,
     BeginRestartModes, RestartStoppedModes, RestartExternalModes,
     BeginStopModes, StopDoneModes
<1>3. CASE \E c \in Names : RestartTimer(c)
  BY <1>1, <1>3, RestartTimerModes
<1>4. CASE ~(\E c \in Names : RestartTimer(c)) /\
           ~(\/ BeginStart \/ StartLaunches \/ LaunchDone \/ BeginRestart
             \/ RestartStopped \/ RestartExternal \/ BeginStop \/ StopDone)
  <2>1. UNCHANGED <<own, cur, op, stopping>>
    BY <1>4, OthersStill DEF Next, Progress, Happens
  <2> QED
    BY <1>1, <2>1, StillModes DEF Effect
<1> QED
  BY <1>2, <1>3, <1>4

LEMMA StepIInv == IInv /\ Next => IInv'
<1> SUFFICES ASSUME IInv, Next PROVE IInv'
  OBVIOUS
<1>1. Effect /\ Modes'
  BY StepEffect, StepModes
<1>2. LiveIsCurrent' /\ TimerOfTheDead'
  BY <1>1, MovesKeep DEF Effect, IInv, Typed
<1> QED
  BY <1>1, <1>2 DEF Effect, IInv

LEMMA StutterIInv == IInv /\ UNCHANGED vars => IInv'
BY DEF IInv, Typed, TrackersOK, RecordsOK, ControlOK, OperationOK, LiveIsCurrent,
       TimerOfTheDead, Modes, ExternalHasNone, StoppingIsFinal, Exited,
       vars, trackers, records

\* The inductive invariant holds in every reachable state of the supervisor.
THEOREM SupervisorInvariance == Spec => []IInv
<1>1. IInv /\ [Next]_vars => IInv'
  BY StepIInv, StutterIInv
<1> QED
  BY InitIInv, <1>1, PTL DEF Spec

-----------------------------------------------------------------------------
(* The properties of the runs. *)

\* The supervisor's variables keep their types, and the failure window never
\* counts more than MAX_RESTARTS_PER_WINDOW automatic restarts.
THEOREM SupervisorTypes == Spec => []TypeOK
<1>1. IInv => TypeOK
  BY TypeParts DEF IInv
<1> QED
  BY SupervisorInvariance, <1>1, PTL

\* However starts, restarts, crashes, deadlines and timers interleave, no child
\* has two processes at once.
THEOREM OneProcess == Spec => []OneProcessPerChild
<1>1. IInv => OneProcessPerChild
  BY DEF IInv, LiveIsCurrent, OneProcessPerChild
<1> QED
  BY SupervisorInvariance, <1>1, PTL

\* Once stop() has returned nothing lives and no timer is pending.
THEOREM QuietAfterStop == Spec => []StoppedMeansQuiet
<1>1. ASSUME IInv PROVE StoppedMeansQuiet
  <2> SUFFICES ASSUME stopping, op.kind # "stop", NEW c \in Names
               PROVE  ~Alive(c) /\ timer[c] = 0
    BY DEF StoppedMeansQuiet
  <2>1. timer[c] = 0 /\ Exited(c)
    BY <1>1 DEF IInv, Modes, StoppingIsFinal
  <2>2. \A g \in Records : ~rec[c][g].alive
    BY <1>1, <2>1 DEF IInv, LiveIsCurrent, Exited, Records
  <2> QED
    BY <2>1, <2>2 DEF Alive
<1> QED
  BY SupervisorInvariance, <1>1, PTL

\* No Core of ours runs while somebody else's is in use.
THEOREM ExternalAlone == Spec => []ExternalCoreIsAlone
<1>1. ASSUME IInv PROVE ExternalCoreIsAlone
  <2> SUFFICES ASSUME own[Core] = "external" PROVE ~Alive(Core)
    BY DEF ExternalCoreIsAlone
  <2>1. cur[Core] = 0
    BY <1>1 DEF IInv, Modes, ExternalHasNone
  <2>2. \A g \in Records : ~rec[Core][g].alive
    BY <1>1, <2>1 DEF IInv, LiveIsCurrent, Records, Names
  <2> QED
    BY <2>2 DEF Alive
<1> QED
  BY SupervisorInvariance, <1>1, PTL

\* A process appears only by a launch.
LEMMA OnlyLaunches ==
  ASSUME Effect, NEW c \in Names, ~Alive(c), cur'[c] = cur[c]
  PROVE  ~Alive(c)'
<1>1. ~StartsOf(c)
  BY DEF StartsOf, Free
<1>2. \A g \in Records : rec'[c][g].alive => rec[c][g].alive
  BY <1>1 DEF Effect, Moves, FadesOf, GoesOf
<1> QED
  BY <1>2 DEF Alive

\* A step that launches a latched child belongs to a start or a restart.
LEMMA LatchHolds ==
  ASSUME IInv, Next, NEW c \in Names, latched[c], ~Alive(c), Alive(c)'
  PROVE  op.kind \in {"start", "restart"}
<1>1. Effect
  BY StepEffect
<1>2. cur'[c] # cur[c]
  BY <1>1, OnlyLaunches
<1>3. ASSUME NEW d \in Names, RestartTimer(d) PROVE FALSE
  <2>1. TimerIsStale(d) \/ TimerLatches(d) \/ TimerLaunches(d) \/ TimerThrows(d)
    BY <1>3, RestartTimerCases
  <2>2. CASE TimerLaunches(d)
    BY <1>2, <2>2 DEF TimerLaunches, Launch
  <2>3. CASE TimerIsStale(d) \/ TimerLatches(d) \/ TimerThrows(d)
    BY <1>2, <2>3 DEF TimerIsStale, TimerLatches, TimerThrows, records
  <2> QED
    BY <2>1, <2>2, <2>3
<1>4. CASE BeginStart \/ LaunchDone \/ BeginRestart \/ BeginStop \/ StopDone
  BY <1>2, <1>4 DEF BeginStart, LaunchDone, BeginRestart, BeginStop, StopDone, records
<1>5. CASE StartLaunches \/ RestartStopped \/ RestartExternal
  BY <1>5 DEF StartLaunches, RestartStopped, RestartExternal
<1> QED
  BY <1>2, <1>3, <1>4, <1>5, OthersStill DEF Next, Progress, Happens

\* A latched child is launched by an explicit start or restart only; the timers
\* that were pending when it was latched launch nothing.
THEOREM LatchStays == Spec => LatchedStaysDown
<1>1. IInv /\ Next => \A c \in Names : latched[c] /\ ~Alive(c) /\ Alive(c)' =>
                         op.kind \in {"start", "restart"}
  BY LatchHolds
<1>2. UNCHANGED vars => \A c \in Names : latched[c] /\ ~Alive(c) /\ Alive(c)' =>
                           op.kind \in {"start", "restart"}
  BY DEF vars, records, Alive
<1>3. IInv /\ [Next]_vars =>
        [\A c \in Names : latched[c] /\ ~Alive(c) /\ Alive(c)' =>
           op.kind \in {"start", "restart"}]_vars
  BY <1>1, <1>2
<1> QED
  BY SupervisorInvariance, <1>3, PTL DEF Spec, LatchedStaysDown

-----------------------------------------------------------------------------
(* A watcher or parser that died is remembered.                              *)
(*                                                                           *)
(* As long as stop() is not called, the restart timer of a helper is that of *)
(* its current record: the first start() finds no record and no timer, a     *)
(* restart() clears the timer before it replaces the record, and a timer     *)
(* that fires is cleared in the same step.  So when the current record dies  *)
(* no older timer is in the way.                                             *)

\* No readiness check is configured for a helper, so none of them times out.
HelperWaits == \A c \in Helpers, g \in Records : rec[c][g].wait \in {"check", "done"}

\* What is left of the bounds only shrinks.
BoundsShrink == left.stop <= MaxStops /\ left.start <= MaxStarts

\* stop() is neither running nor coming.
NobodyStops ==
    /\ ~stopping /\ op.kind # "stop"
    /\ \A i \in 1 .. Len(queue) : queue[i].kind # "stop"

Untouched == \A c \in Helpers : cur[c] = 0 /\ timer[c] = 0

\* Until the one start() launches them the helpers have no records, and it is
\* the first operation of all.
StartComesFirst ==
    /\ \A i \in 2 .. Len(queue) : queue[i].kind = "restart"
    /\ left.start # 0 => queue = <<>> /\ op = Idle /\ Untouched
    /\ op = Idle /\ queue # <<>> /\ Head(queue).kind = "start" => Untouched
    /\ op.kind = "start" /\ op.phase = "external" => Untouched

\* The restart of the child waits for the exit of its old record.
Restarting(c) == op.kind = "restart" /\ op.phase = "stop" /\ op.child = c

\* The current record died, and nobody had asked for it.
Dead(c) == cur[c] # 0 /\ rec[c][cur[c]].exited /\ ~rec[c][cur[c]].intentional

\* The record will be replaced, or is on its way out.
Leaving(c) == cur[c] # 0 => rec[c][cur[c]].exited \/ rec[c][cur[c]].intentional

\* The timer is that of the current record, and a dead child has it, is latched
\* or is being restarted.
Tended(c) ==
    /\ timer[c] \in {0, cur[c]}
    /\ Restarting(c) => timer[c] = 0 /\ Leaving(c)
    /\ Dead(c) => Restarting(c) \/ latched[c] \/ timer[c] = cur[c]

Undisturbed == NobodyStops /\ StartComesFirst /\ \A c \in Helpers : Tended(c)

HelperInv == HelperWaits /\ BoundsShrink /\ (NoStop => Undisturbed)

LEMMA InitHelperInv == Init => HelperInv
<1> SUFFICES ASSUME Init PROVE HelperInv
  OBVIOUS
<1>1. HelperWaits
  BY DEF Init, HelperWaits, Unborn, Names
<1>2. BoundsShrink
  BY DEF Init, BoundsShrink
<1>3. NobodyStops
  BY DEF Init, NobodyStops, Idle
<1>4. Untouched
  BY DEF Init, Untouched, Names
<1>5. StartComesFirst
  BY <1>4 DEF Init, StartComesFirst, Idle
<1>6. \A c \in Helpers : Tended(c)
  BY <1>4 DEF Init, Tended, Untouched, Dead, Restarting, Idle
<1> QED
  BY <1>1, <1>2, <1>3, <1>5, <1>6 DEF HelperInv, Undisturbed

-----------------------------------------------------------------------------
(* What a step does to one helper. *)

\* Nothing that matters: the record and the timer stay, the child does not die.
Rests(c) ==
    /\ cur'[c] = cur[c] /\ timer'[c] = timer[c]
    /\ Dead(c)' => Dead(c) /\ (latched[c] => latched'[c])
    /\ Leaving(c) => Leaving(c)'
    /\ Restarting(c)' <=> Restarting(c)

\* The current record dies, and the timer is set or the child latched.
Falls(c) ==
    /\ cur'[c] = cur[c] /\ cur[c] # 0
    /\ ~Leaving(c)
    /\ timer'[c] = cur[c] \/ (timer'[c] = 0 /\ latched'[c])
    /\ op' = op

\* restart() begins.
Told(c) ==
    /\ cur'[c] = cur[c] /\ timer'[c] = 0
    /\ Leaving(c)'
    /\ Restarting(c)'

\* The child has a new record, or none.
Renewed(c) ==
    /\ timer'[c] = 0
    /\ cur'[c] # 0 => rec'[c][cur'[c]] = NewRecord
    /\ ~Restarting(c)'

\* The restart timer fires, and the spawn throws, or the child is latched.
Rings(c) ==
    /\ timer[c] # 0 /\ cur'[c] = cur[c]
    /\ (latched'[c] /\ timer'[c] = 0) \/ timer'[c] = timer[c]
    /\ op' = op

Treated(c) == Rests(c) \/ Falls(c) \/ Told(c) \/ Renewed(c) \/ Rings(c)

\* None of the five leaves a helper that died unattended.
LEMMA TreatedTended ==
  ASSUME NEW c \in Helpers, Tended(c), Treated(c)
  PROVE  Tended(c)'
<1>1. CASE Rests(c)
  BY <1>1 DEF Rests, Tended, Dead
<1>2. CASE Falls(c)
  BY <1>2 DEF Falls, Tended, Dead, Restarting
<1>3. CASE Told(c)
  BY <1>3 DEF Told, Tended
<1>4. CASE Renewed(c)
  BY <1>4 DEF Renewed, Tended, Dead, NewRecord
<1>5. CASE Rings(c)
  BY <1>5 DEF Rings, Tended, Dead, Restarting
<1> QED
  BY <1>1, <1>2, <1>3, <1>4, <1>5 DEF Treated

\* A record and a timer that stay as they are.
LEMMA SameRests ==
  ASSUME NEW c \in Helpers, cur'[c] = cur[c], timer'[c] = timer[c],
         latched[c] => latched'[c],
         cur[c] # 0 => /\ rec'[c][cur[c]].exited = rec[c][cur[c]].exited
                       /\ rec'[c][cur[c]].intentional = rec[c][cur[c]].intentional,
         Restarting(c)' <=> Restarting(c)
  PROVE  Rests(c)
BY DEF Rests, Dead, Leaving

LEMMA StillRests ==
  ASSUME NEW c \in Helpers, UNCHANGED <<latched, timer, records>>, Restarting(c)' <=> Restarting(c)
  PROVE  Rests(c)
BY SameRests DEF records

\* The operations.

LEMMA HelperIsNoCore == \A c \in Helpers : c \in Names /\ c # Core
BY DEF Names

LEMMA CallsRest ==
  ASSUME CallStart \/ CallStop \/ (\E d \in Names : CallRestart(d)), NEW c \in Helpers
  PROVE  Rests(c)
<1>1. UNCHANGED <<trackers, timer, records, op>>
  BY DEF CallStart, CallStop, CallRestart, Call
<1> QED
  BY <1>1, StillRests DEF trackers, Restarting

LEMMA BeginStartTreats ==
  ASSUME StartComesFirst, BeginStart, NEW c \in Helpers
  PROVE  Rests(c) \/ Renewed(c)
<1>1. CASE UNCHANGED <<trackers, records, op>>
  BY <1>1, StillRests DEF BeginStart, trackers, Restarting
<1>2. CASE op' = [kind |-> "start", phase |-> "external"] /\ UNCHANGED records
  <2>1. cur[c] = 0 /\ timer[c] = 0
    BY DEF StartComesFirst, Untouched, BeginStart, Next1
  <2>2. cur'[c] = 0 /\ timer'[c] = 0 /\ ~Restarting(c)'
    BY <1>2, <2>1 DEF BeginStart, records, Restarting
  <2> QED
    BY <2>2 DEF Renewed
<1> QED
  BY <1>1, <1>2 DEF BeginStart

LEMMA StartLaunchesRenews ==
  ASSUME Typed, StartComesFirst, StartLaunches, NEW c \in Helpers
  PROVE  Renewed(c)
<1>1. PICK S \in SUBSET Names :
        Launch(S) /\ op' = [kind |-> "start", phase |-> "ready",
                            of |-> {<<d, Fresh(d)>> : d \in S}]
  BY DEF StartLaunches
<1>2. cur[c] = 0 /\ timer[c] = 0
  BY DEF StartComesFirst, Untouched, StartLaunches
<1>3. timer'[c] = 0 /\ ~Restarting(c)'
  BY <1>1, <1>2 DEF StartLaunches, Restarting
<1>4. /\ \A d \in Names \ S : cur'[d] = cur[d]
      /\ \A d \in S : rec'[d][cur'[d]] = NewRecord
  BY <1>1, LaunchEffect DEF Typed, RecordsOK
<1> QED
  BY <1>2, <1>3, <1>4, HelperIsNoCore DEF Renewed

LEMMA LaunchDoneRests ==
  ASSUME LaunchDone, NEW c \in Helpers
  PROVE  Rests(c)
<1>1. UNCHANGED <<trackers, timer, records>> /\ op' = Idle /\ op.phase = "ready"
  BY DEF LaunchDone
<1>2. ~Restarting(c)' /\ ~Restarting(c)
  BY <1>1 DEF Restarting, Idle
<1> QED
  BY <1>1, <1>2, StillRests DEF trackers

\* The SIGTERM of a restart: the current record of that child has exited, or is
\* now on its way out.
LEMMA BeginRestartTreats ==
  ASSUME Typed, BeginRestart, NEW c \in Helpers
  PROVE  Rests(c) \/ Told(c)
<1> DEFINE d == Head(queue).child
<1>0. /\ queue # <<>> /\ Head(queue).kind = "restart" /\ op = Idle /\ c \in Names
      /\ rec \in [Names -> [Records -> RecType]] /\ cur \in [Names -> Slots]
      /\ timer \in [Names -> Slots] /\ latched \in [Names -> BOOLEAN]
  BY HelperIsNoCore DEF BeginRestart, Next1, Typed, RecordsOK, TrackersOK
<1>1. d \in Names
  BY <1>0, NextCall, CallShape DEF Typed, OperationOK
<1>2. /\ Reset({d}) /\ timer' = [timer EXCEPT ![d] = 0]
      /\ Terminate({d})
      /\ op' = [kind |-> "restart", phase |-> "stop", child |-> d]
      /\ cur' = cur
  BY DEF BeginRestart, Forget
<1> HIDE DEF d
<1>3. CASE c = d
  <2>1. timer'[c] = 0 /\ cur'[c] = cur[c] /\ Restarting(c)'
    BY <1>0, <1>1, <1>2, <1>3 DEF Restarting
  <2>2. ASSUME cur[c] # 0
        PROVE  rec'[c][cur[c]].exited \/ rec'[c][cur[c]].intentional
    <3>1. cur[c] \in Records /\ rec[c][cur[c]] \in RecType
      BY <1>0, <2>2 DEF Slots
    <3>2. CASE Exited(c)
      BY <1>0, <1>2, <2>2, <3>2 DEF Terminate, Exited
    <3>3. CASE ~Exited(c)
      <4>1. rec'[c][cur[c]] = [rec[c][cur[c]] EXCEPT !.intentional = TRUE]
        BY <1>0, <1>2, <1>3, <3>1, <3>3 DEF Terminate
      <4> QED
        BY <3>1, <4>1 DEF RecType
    <3> QED
      BY <3>2, <3>3
  <2> QED
    BY <2>1, <2>2 DEF Told, Leaving
<1>4. CASE c # d
  <2>1. /\ cur'[c] = cur[c] /\ timer'[c] = timer[c] /\ rec'[c] = rec[c]
        /\ latched[c] => latched'[c]
        /\ ~Restarting(c)' /\ ~Restarting(c)
    BY <1>0, <1>1, <1>2, <1>4 DEF Terminate, Reset, Restarting, Idle
  <2> QED
    BY <2>1, SameRests
<1> QED
  BY <1>3, <1>4

\* The second half of a restart of d, of which c may be the child.
LEMMA RelaunchTreats ==
  ASSUME Typed, NEW d \in Names, Relaunch(d), NEW c \in Helpers,
         c = d => timer[c] = 0, c # d => ~Restarting(c)
  PROVE  Rests(c) \/ Renewed(c)
<1>0. /\ c \in Names /\ cur \in [Names -> Slots] /\ rec \in [Names -> [Records -> RecType]]
  BY HelperIsNoCore DEF Typed, RecordsOK
<1>1. /\ UNCHANGED <<latched, timer>> /\ op'.phase = "ready"
      /\ \/ Launch({d})
         \/ cur' = [cur EXCEPT ![d] = 0] /\ rec' = [rec EXCEPT ![d] = Dropped(d)]
  BY DEF Relaunch
<1>2. ~Restarting(c)'
  BY <1>1 DEF Restarting
<1>3. ASSUME Launch({d})
      PROVE  /\ c = d => rec'[c][cur'[c]] = NewRecord
             /\ c # d => cur'[c] = cur[c] /\ rec'[c] = rec[c]
  BY <1>0, <1>3, LaunchEffect
<1>4. CASE c = d
  BY <1>0, <1>1, <1>2, <1>3, <1>4 DEF Renewed
<1>5. CASE c # d
  <2>1. cur'[c] = cur[c] /\ rec'[c] = rec[c]
    BY <1>0, <1>1, <1>3, <1>5
  <2> QED
    BY <1>1, <1>2, <1>5, <2>1, SameRests
<1> QED
  BY <1>4, <1>5

LEMMA RestartStoppedTreats ==
  ASSUME Typed, RestartStopped, NEW c \in Helpers, Tended(c)
  PROVE  Rests(c) \/ Renewed(c)
<1>0. op.kind = "restart" /\ op.phase = "stop" /\ op.child \in Names
  BY OpShape DEF RestartStopped, Typed, OperationOK
<1>1. CASE op.child # Core
  <2>1. Relaunch(op.child)
    BY <1>1 DEF RestartStopped
  <2>2. c = op.child => timer[c] = 0
    BY <1>0 DEF Tended, Restarting
  <2>3. c # op.child => ~Restarting(c)
    BY DEF Restarting
  <2> QED
    BY <1>0, <2>1, <2>2, <2>3, RelaunchTreats
<1>2. CASE op.child = Core
  <2>1. /\ cur' = [cur EXCEPT ![Core] = 0]
        /\ rec' = [rec EXCEPT ![Core] = Dropped(Core)]
        /\ op' = [op EXCEPT !.phase = "external"]
        /\ UNCHANGED <<trackers, timer>>
    BY <1>2 DEF RestartStopped
  <2>2. cur'[c] = cur[c] /\ rec'[c] = rec[c] /\ c # Core
    BY <2>1, HelperIsNoCore DEF Typed, RecordsOK
  <2>3. op' = [kind |-> "restart", phase |-> "external", child |-> op.child]
    BY <1>0, <2>1, OpShape DEF Typed, OperationOK
  <2>4. ~Restarting(c)' /\ ~Restarting(c)
    BY <1>2, <2>2, <2>3 DEF Restarting
  <2> QED
    BY <2>1, <2>2, <2>4, SameRests DEF trackers
<1> QED
  BY <1>1, <1>2

LEMMA RestartExternalTreats ==
  ASSUME Typed, RestartExternal, NEW c \in Helpers
  PROVE  Rests(c) \/ Renewed(c)
<1>0. op.phase = "external" /\ Core \in Names /\ ~Restarting(c) /\ c # Core
  BY HelperIsNoCore DEF RestartExternal, Names, Restarting
<1>1. CASE Relaunch(Core)
  BY <1>0, <1>1, RelaunchTreats
<1>2. CASE op' = Idle /\ UNCHANGED <<latched, timer, records>>
  BY <1>0, <1>2, StillRests DEF Restarting, Idle
<1> QED
  BY <1>1, <1>2 DEF RestartExternal

\* The readiness loops.

\* One record of some child is changed, not in what a helper depends on.
LEMMA OneRecordRests ==
  ASSUME Typed, NEW d \in Names, NEW g \in Records, NEW r, NEW c \in Helpers,
         rec' = [rec EXCEPT ![d][g] = r], cur' = cur,
         timer'[c] = timer[c], latched[c] => latched'[c], op' = op,
         c # d \/ (r.exited = rec[d][g].exited /\ r.intentional = rec[d][g].intentional)
  PROVE  Rests(c)
<1>1. c \in Names /\ rec \in [Names -> [Records -> RecType]] /\ cur[c] \in Slots
  BY HelperIsNoCore DEF Typed, RecordsOK
<1>2. ASSUME cur[c] # 0
      PROVE  /\ rec'[c][cur[c]].exited = rec[c][cur[c]].exited
             /\ rec'[c][cur[c]].intentional = rec[c][cur[c]].intentional
  BY <1>1, <1>2 DEF Slots
<1> QED
  BY <1>2, SameRests DEF Restarting

LEMMA IsReadyRests ==
  ASSUME Typed, NEW d \in Names, NEW g \in Records, IsReady(d, g), op' = op,
         NEW c \in Helpers
  PROVE  Rests(c)
<1> DEFINE r == [rec[d][g] EXCEPT !.st = IF cur[d] = g THEN "ready" ELSE rec[d][g].st,
                                  !.wait = "done"]
<1>1. rec[d][g] \in RecType
  BY DEF Typed, RecordsOK
<1>2. r.exited = rec[d][g].exited /\ r.intentional = rec[d][g].intentional
  BY <1>1 DEF RecType
<1>3. rec' = [rec EXCEPT ![d][g] = r] /\ UNCHANGED <<cur, timer, latched>>
  BY DEF IsReady
<1> HIDE DEF r
<1> QED
  BY <1>2, <1>3, OneRecordRests

LEMMA HelperCheckedRests ==
  ASSUME Typed, NEW d \in Names, NEW g \in Records, HelperChecked(d, g), NEW c \in Helpers
  PROVE  Rests(c)
BY IsReadyRests DEF HelperChecked

LEMMA CoreLoopRests ==
  ASSUME Typed, NEW g \in Records, CoreChecked(g) \/ LooksAgain(g), NEW c \in Helpers
  PROVE  Rests(c)
<1>0. Core \in Names /\ c # Core
  BY HelperIsNoCore DEF Names
<1>1. CASE CoreChecked(g)
  <2>1. op' = op /\ (IsReady(Core, g) \/ NotReady(Core, g))
    BY <1>1 DEF CoreChecked
  <2>2. ASSUME NotReady(Core, g) PROVE Rests(c)
    <3>1. /\ UNCHANGED <<cur, timer, latched>>
          /\ \E r : rec' = [rec EXCEPT ![Core][g] = r]
      BY <2>2 DEF NotReady
    <3> QED
      BY <1>0, <2>1, <3>1, OneRecordRests
  <2> QED
    BY <1>0, <2>1, <2>2, IsReadyRests
<1>2. CASE LooksAgain(g)
  <2>1. /\ UNCHANGED <<cur, timer, latched, op>>
        /\ \E r : rec' = [rec EXCEPT ![Core][g] = r]
    BY <1>2 DEF LooksAgain, trackers
  <2> QED
    BY <1>0, <2>1, OneRecordRests
<1> QED
  BY <1>1, <1>2

\* scheduleRestart only latches, and only the given child, and so for its timer.
LEMMA ScheduleLeaves ==
  ASSUME timer \in [Names -> Slots], latched \in [Names -> BOOLEAN],
         NEW c \in Names, NEW d \in Names, NEW g, NEW pending, NEW recent,
         ScheduleRestart(d, g, pending, recent)
  PROVE  /\ c # d => timer'[c] = timer[c]
         /\ latched[c] => latched'[c]
BY DEF ScheduleRestart, LatchOrWait

\* A readiness deadline is Core's.
LEMMA ReadinessFailsRests ==
  ASSUME Typed, HelperWaits, NEW d \in Names, NEW g \in Records, ReadinessFails(d, g),
         NEW c \in Helpers
  PROVE  Rests(c)
<1>1. c # d /\ c \in Names
  BY HelperIsNoCore DEF ReadinessFails, StopSeen, HelperWaits
<1>2. timer'[c] = timer[c] /\ (latched[c] => latched'[c])
  BY <1>1, ScheduleLeaves DEF ReadinessFails, Typed, RecordsOK, TrackersOK
<1>3. /\ UNCHANGED <<cur, op>>
      /\ \E r : rec' = [rec EXCEPT ![d][g] = r]
  BY DEF ReadinessFails
<1> QED
  BY <1>1, <1>2, <1>3, OneRecordRests

\* The processes.

\* A process that ends as it was told to.
LEMMA ForceKillRests ==
  ASSUME Typed, NEW d \in Names, NEW g \in Records, ForceKill(d, g), NEW c \in Helpers
  PROVE  Rests(c)
<1> DEFINE r == [rec[d][g] EXCEPT !.alive = FALSE, !.exited = TRUE, !.st = "stopped"]
<1>0. /\ c \in Names /\ rec \in [Names -> [Records -> RecType]] /\ cur[c] \in Slots
      /\ rec[d][g] \in RecType
  BY HelperIsNoCore DEF Typed, RecordsOK
<1>1. /\ rec' = [rec EXCEPT ![d][g] = r] /\ UNCHANGED <<cur, timer, latched, op>>
      /\ rec[d][g].intentional
  BY DEF ForceKill, trackers
<1>2. r.exited /\ r.intentional
  BY <1>0, <1>1 DEF RecType
<1> HIDE DEF r
<1>3. CASE c = d /\ cur[c] = g
  <2>1. rec'[c][cur[c]] = r
    BY <1>0, <1>1, <1>3
  <2>2. Leaving(c)' /\ ~Dead(c)'
    BY <1>1, <1>2, <2>1 DEF Leaving, Dead
  <2> QED
    BY <1>1, <2>2 DEF Rests, Restarting
<1>4. CASE c # d
  BY <1>1, <1>4, OneRecordRests
<1>5. CASE c = d /\ cur[c] # g
  <2>1. cur[c] # 0 => rec'[c][cur[c]] = rec[c][cur[c]]
    BY <1>0, <1>1, <1>5 DEF Slots
  <2> QED
    BY <1>1, <2>1, SameRests DEF Restarting
<1> QED
  BY <1>3, <1>4, <1>5

\* markUnexpectedExit of a record of the helper.
LEMMA MarkExitTreats ==
  ASSUME Typed, TimerOfTheDead, ExternalHasNone, ~stopping,
         NEW d \in Names, NEW g \in Records, NEW failed, MarkExit(d, g, failed), op' = op,
         NEW c \in Helpers, Tended(c)
  PROVE  Rests(c) \/ Falls(c)
<1> DEFINE r == Marked(d, g)
<1>0. /\ c \in Names /\ rec \in [Names -> [Records -> RecType]] /\ cur[c] \in Slots
      /\ rec[d][g] \in RecType /\ timer \in [Names -> Slots]
      /\ latched \in [Names -> BOOLEAN]
  BY HelperIsNoCore DEF Typed, RecordsOK, TrackersOK
<1>1. rec' = [rec EXCEPT ![d][g] = r] /\ cur' = cur
  BY DEF MarkExit
<1>2. /\ r.intentional = rec[d][g].intentional
      /\ Known(d, g) => r.exited = rec[d][g].exited
  BY <1>0 DEF RecType, Marked
<1>3. CASE Known(d, g)
  <2>1. UNCHANGED <<trackers, timer>>
    BY <1>3 DEF MarkExit
  <2> HIDE DEF r
  <2> QED
    BY <1>1, <1>2, <1>3, <2>1, OneRecordRests DEF trackers
<1>4. CASE ~Known(d, g) /\ c # d
  <2>1. UNCHANGED <<latched, timer>> \/ ScheduleRestart(d, g, timer[d], failures[d])
    BY <1>4 DEF MarkExit
  <2>2. timer'[c] = timer[c] /\ (latched[c] => latched'[c])
    BY <1>0, <1>4, <2>1, ScheduleLeaves
  <2> HIDE DEF r
  <2> QED
    BY <1>1, <1>4, <2>2, OneRecordRests
<1>5. CASE ~Known(d, g) /\ c = d /\ rec[d][g].intentional
  <2>1. UNCHANGED <<latched, timer>>
    BY <1>5 DEF MarkExit, Expected
  <2> HIDE DEF r
  <2>2. rec'[c][cur[c]] = r
    BY <1>0, <1>1, <1>5 DEF Known
  <2>3. Leaving(c)' /\ ~Dead(c)'
    BY <1>1, <1>2, <1>5, <2>2 DEF Leaving, Dead
  <2> QED
    BY <1>1, <2>1, <2>3 DEF Rests, Restarting
<1>6. CASE ~Known(d, g) /\ c = d /\ ~rec[d][g].intentional
  <2>1. ScheduleRestart(c, g, timer[c], failures[c])
    BY <1>6 DEF MarkExit, Expected
  <2>2. cur[c] = g /\ g # 0 /\ ~rec[c][g].exited
    BY <1>6 DEF Known, Records
  <2>3. timer[c] = 0
    BY <1>0, <2>2 DEF Tended, TimerOfTheDead
  <2>4. timer'[c] = g \/ (timer'[c] = 0 /\ latched'[c])
    BY <1>0, <2>1, <2>3 DEF ScheduleRestart, LatchOrWait, GivenUp, ExternalHasNone
  <2> QED
    BY <1>1, <1>6, <2>2, <2>4 DEF Falls, Leaving
<1> QED
  BY <1>3, <1>4, <1>5, <1>6

LEMMA ExitsTreat ==
  ASSUME Typed, TimerOfTheDead, ExternalHasNone, ~stopping,
         NEW d \in Names, NEW g \in Records, Crash(d, g) \/ SpawnFails(d, g) \/ Obey(d, g),
         NEW c \in Helpers, Tended(c)
  PROVE  Rests(c) \/ Falls(c)
<1>1. op' = op /\ \E failed \in BOOLEAN : MarkExit(d, g, failed)
  BY DEF Crash, SpawnFails, Obey
<1> QED
  BY <1>1, MarkExitTreats

\* The timers.

LEMMA StableRunRests ==
  ASSUME Typed, NEW d \in Names, StableRun(d), NEW c \in Helpers
  PROVE  Rests(c)
<1>0. c \in Names /\ latched \in [Names -> BOOLEAN]
  BY HelperIsNoCore DEF Typed, TrackersOK
<1>1. UNCHANGED <<timer, records, op>>
  BY DEF StableRun
<1>2. CASE c = d
  <2>1. Dead(c)' => Dead(c) /\ (latched[c] => latched'[c])
    BY <1>0, <1>1, <1>2 DEF StableRun, Dead, records
  <2> QED
    BY <1>1, <2>1 DEF Rests, Leaving, Restarting, records
<1>3. CASE c # d
  <2>1. latched'[c] = latched[c]
    BY <1>0, <1>3 DEF StableRun
  <2> QED
    BY <1>1, <2>1, SameRests DEF Restarting, records
<1> QED
  BY <1>2, <1>3

LEMMA OutsideRests ==
  ASSUME GetStatus \/ OtherCore \/ \E d \in Names : Expire(d), NEW c \in Helpers
  PROVE  Rests(c)
<1>1. UNCHANGED <<latched, timer, records, op>>
  BY DEF GetStatus, OtherCore, Expire, trackers
<1> QED
  BY <1>1, StillRests DEF Restarting

LEMMA RestartTimerTreats ==
  ASSUME Typed, ExternalHasNone, ~stopping, NEW d \in Names, RestartTimer(d),
         NEW c \in Helpers, Tended(c)
  PROVE  Rests(c) \/ (timer[c] # 0 /\ (Renewed(c) \/ Rings(c)))
<1>0. /\ c \in Names /\ timer \in [Names -> Slots] /\ latched \in [Names -> BOOLEAN]
      /\ rec \in [Names -> [Records -> RecType]] /\ cur \in [Names -> Slots]
  BY HelperIsNoCore DEF Typed, RecordsOK, TrackersOK
<1>1. /\ TimerIsStale(d) \/ TimerLatches(d) \/ TimerLaunches(d) \/ TimerThrows(d)
      /\ timer[d] # 0
      /\ op' = op
  BY RestartTimerCases
<1>2. TimerIsStale(d) => latched[d] \/ cur[d] # timer[d] \/ TimerLatches(d) \/ TimerThrows(d)
                         \/ TimerLaunches(d)
  BY DEF RestartTimer, GivenUp, TimerLatches, TimerLaunches, TimerThrows
<1>3. CASE c # d
  <2>1. timer'[c] = timer[c] /\ (latched[c] => latched'[c])
    <3>1. CASE TimerIsStale(d) \/ TimerLatches(d) \/ TimerLaunches(d)
      BY <1>0, <1>3, <3>1 DEF TimerIsStale, TimerLatches, TimerLaunches, trackers
    <3>2. CASE TimerThrows(d)
      BY <1>0, <1>3, <3>2, ScheduleLeaves DEF TimerThrows
    <3> QED
      BY <1>1, <3>1, <3>2
  <2>2. cur'[c] = cur[c] /\ rec'[c] = rec[c]
    <3>1. CASE TimerLaunches(d)
      BY <1>0, <1>3, <3>1, LaunchEffect DEF TimerLaunches
    <3>2. CASE TimerIsStale(d) \/ TimerLatches(d) \/ TimerThrows(d)
      BY <3>2 DEF TimerIsStale, TimerLatches, TimerThrows, records
    <3> QED
      BY <1>1, <3>1, <3>2
  <2> QED
    BY <1>1, <2>1, <2>2, SameRests DEF Restarting
<1>4. CASE c = d
  <2>1. cur[c] = timer[c] /\ ~Restarting(c)
    BY <1>1, <1>4 DEF Tended
  <2>2. CASE TimerLaunches(c)
    <3>1. rec'[c][cur'[c]] = NewRecord
      BY <1>0, <2>2, LaunchEffect DEF TimerLaunches
    <3> QED
      BY <1>0, <1>1, <2>1, <2>2, <3>1 DEF Renewed, TimerLaunches, Restarting
  <2>3. CASE TimerThrows(c)
    <3>1. /\ cur' = cur
          /\ ScheduleRestart(c, timer[c], 0, failures[c] + 1)
      BY <2>3 DEF TimerThrows, records
    <3>2. (latched'[c] /\ timer'[c] = 0) \/ timer'[c] = timer[c]
      BY <1>0, <3>1 DEF ScheduleRestart, LatchOrWait, GivenUp, ExternalHasNone
    <3> QED
      BY <1>1, <1>4, <3>1, <3>2 DEF Rings
  <2>4. CASE TimerLatches(c)
    BY <1>0, <1>1, <1>4, <2>4 DEF Rings, TimerLatches, records
  <2>5. CASE TimerIsStale(c) /\ latched[c]
    BY <1>0, <1>1, <1>4, <2>5 DEF Rings, TimerIsStale, trackers, records
  <2> QED
    BY <1>1, <1>2, <1>4, <2>1, <2>2, <2>3, <2>4, <2>5
<1> QED
  BY <1>3, <1>4

-----------------------------------------------------------------------------
(* The readiness loops of the helpers. *)

WaitsKept ==
    \A c \in Helpers, g \in Records :
       rec'[c][g].wait \in {rec[c][g].wait, "check", "done"}

LEMMA OneRecordWaits ==
  ASSUME Typed, NEW d \in Names, NEW g \in Records, NEW r, rec' = [rec EXCEPT ![d][g] = r],
         d = Core \/ r.wait \in {rec[d][g].wait, "done"}
  PROVE  WaitsKept
<1> SUFFICES ASSUME NEW c \in Helpers, NEW h \in Records
             PROVE  rec'[c][h].wait \in {rec[c][h].wait, "check", "done"}
  BY DEF WaitsKept
<1>1. c \in Names /\ c # Core /\ rec \in [Names -> [Records -> RecType]]
  BY HelperIsNoCore DEF Typed, RecordsOK
<1>2. CASE c = d /\ h = g
  BY <1>1, <1>2
<1>3. CASE ~(c = d /\ h = g)
  <2>1. rec'[c][h] = rec[c][h]
    BY <1>1, <1>3
  <2> QED
    BY <2>1
<1> QED
  BY <1>2, <1>3

LEMMA DroppedWaits ==
  ASSUME Typed, NEW c \in Names
  PROVE  /\ Dropped(c) \in [Records -> RecType]
         /\ \A g \in Records : Dropped(c)[g].wait = rec[c][g].wait
<1>0. rec[c] \in [Records -> RecType] /\ cur[c] \in Slots
  BY DEF Typed, RecordsOK
<1>1. Dropped(c) \in [Records -> RecType]
  BY DroppedEffect DEF Typed, RecordsOK
<1>2. CASE cur[c] = 0
  BY <1>1, <1>2 DEF Dropped
<1>3. CASE cur[c] # 0
  <2>1. cur[c] \in Records /\ rec[c][cur[c]] \in RecType
    BY <1>0, <1>3 DEF Slots
  <2> DEFINE old == [rec[c][cur[c]] EXCEPT !.st = "stopped", !.intentional = FALSE]
  <2>2. old.wait = rec[c][cur[c]].wait
    BY <2>1 DEF RecType
  <2>3. Dropped(c) = [rec[c] EXCEPT ![cur[c]] = old]
    BY <1>3 DEF Dropped
  <2> HIDE DEF old
  <2>4. \A g \in Records : Dropped(c)[g].wait = rec[c][g].wait
    BY ONLY <1>0, <2>1, <2>2, <2>3
  <2> QED
    BY <1>1, <2>4
<1> QED
  BY <1>2, <1>3

LEMMA LaunchWaits ==
  ASSUME Typed, NEW S \in SUBSET Names, Launch(S)
  PROVE  WaitsKept
<1> SUFFICES ASSUME NEW c \in Helpers, NEW h \in Records
             PROVE  rec'[c][h].wait \in {rec[c][h].wait, "check", "done"}
  BY DEF WaitsKept
<1>1. c \in Names
  BY HelperIsNoCore
<1>2. /\ Dropped(c) \in [Records -> RecType]
      /\ \A g \in Records : Dropped(c)[g].wait = rec[c][g].wait
  BY <1>1, DroppedWaits
<1>3. rec'[c] = [Dropped(c) EXCEPT ![Fresh(c)] = NewRecord] \/ rec'[c] = rec[c]
  BY <1>1 DEF Launch
<1>4. NewRecord.wait = "check"
  BY DEF NewRecord
<1> HIDE DEF NewRecord
<1> QED
  BY <1>2, <1>3, <1>4

LEMMA DropWaits ==
  ASSUME Typed, NEW d \in Names, rec' = [rec EXCEPT ![d] = Dropped(d)]
  PROVE  WaitsKept
<1>1. \A g \in Records : Dropped(d)[g].wait = rec[d][g].wait
  BY DroppedWaits
<1>2. \A c \in Helpers : c \in Names
  BY HelperIsNoCore
<1>3. rec \in [Names -> [Records -> RecType]]
  BY DEF Typed, RecordsOK
<1> QED
  BY <1>1, <1>2, <1>3 DEF WaitsKept

LEMMA TerminateWaits ==
  ASSUME Typed, NEW S \in SUBSET Names, Terminate(S)
  PROVE  WaitsKept
<1> SUFFICES ASSUME NEW c \in Helpers, NEW h \in Records
             PROVE  rec'[c][h].wait = rec[c][h].wait
  BY DEF WaitsKept
<1>1. c \in Names /\ rec[c] \in [Records -> RecType] /\ cur[c] \in Slots
  BY HelperIsNoCore DEF Typed, RecordsOK
<1>2. CASE c \in S /\ ~Exited(c)
  <2>1. cur[c] \in Records /\ rec[c][cur[c]] \in RecType
    BY <1>1, <1>2 DEF Exited, Slots
  <2> DEFINE told == [rec[c][cur[c]] EXCEPT !.intentional = TRUE]
  <2>2. told.wait = rec[c][cur[c]].wait
    BY <2>1 DEF RecType
  <2>3. rec'[c] = [rec[c] EXCEPT ![cur[c]] = told]
    BY <1>1, <1>2 DEF Terminate
  <2> HIDE DEF told
  <2> QED
    BY ONLY <1>1, <2>1, <2>2, <2>3, h \in Records
<1>3. CASE ~(c \in S /\ ~Exited(c))
  BY <1>1, <1>3 DEF Terminate
<1> QED
  BY <1>2, <1>3

LEMMA RelaunchWaits ==
  ASSUME Typed, NEW c \in Names, Relaunch(c)
  PROVE  WaitsKept
BY LaunchWaits, DropWaits DEF Relaunch

LEMMA OperationsWait ==
  ASSUME Typed, \/ BeginStart \/ StartLaunches \/ LaunchDone \/ BeginRestart
                \/ RestartStopped \/ RestartExternal \/ BeginStop \/ StopDone
  PROVE  WaitsKept
<1>0. Core \in Names
  BY DEF Names
<1>1. CASE BeginStart \/ LaunchDone \/ StopDone
  BY <1>1 DEF BeginStart, LaunchDone, StopDone, records, WaitsKept
<1>2. CASE StartLaunches
  <2>1. PICK S \in SUBSET Names : Launch(S)
    BY <1>2 DEF StartLaunches
  <2> QED
    BY <2>1, LaunchWaits
<1>3. CASE BeginRestart
  <2>1. Head(queue).child \in Names /\ Terminate({Head(queue).child})
    BY <1>3, NextCall, CallShape DEF BeginRestart, Next1, Typed, OperationOK
  <2> QED
    BY <2>1, TerminateWaits
<1>4. CASE BeginStop
  BY <1>4, TerminateWaits DEF BeginStop
<1>5. CASE RestartStopped
  <2>1. op.child \in Names
    BY <1>5, OpShape DEF RestartStopped, Typed, OperationOK
  <2> QED
    BY <1>5, <2>1, RelaunchWaits, DropWaits DEF RestartStopped
<1>6. CASE RestartExternal
  <2>1. Relaunch(Core) \/ UNCHANGED records
    BY <1>6 DEF RestartExternal
  <2>2. UNCHANGED records => WaitsKept
    BY DEF records, WaitsKept
  <2> QED
    BY <1>0, <2>1, <2>2, RelaunchWaits
<1> QED
  BY <1>1, <1>2, <1>3, <1>4, <1>5, <1>6

LEMMA LoopsWait ==
  ASSUME Typed, NEW g \in Records, CoreChecked(g) \/ LooksAgain(g)
  PROVE  WaitsKept
<1>0. Core \in Names
  BY DEF Names
<1>1. \E r : rec' = [rec EXCEPT ![Core][g] = r]
  BY DEF CoreChecked, IsReady, NotReady, LooksAgain
<1> QED
  BY <1>0, <1>1, OneRecordWaits

LEMMA ProcessesWait ==
  ASSUME Typed, NEW d \in Names, NEW g \in Records,
         \/ HelperChecked(d, g) \/ ReadinessFails(d, g) \/ ForceKill(d, g)
         \/ Crash(d, g) \/ SpawnFails(d, g) \/ Obey(d, g)
  PROVE  WaitsKept
<1>0. rec[d][g] \in RecType
  BY DEF Typed, RecordsOK
<1>1. CASE HelperChecked(d, g) \/ ReadinessFails(d, g)
  <2>1. PICK st : rec' = [rec EXCEPT ![d][g] = [rec[d][g] EXCEPT !.st = st, !.wait = "done"]]
    BY <1>1 DEF HelperChecked, IsReady, ReadinessFails
  <2>2. [rec[d][g] EXCEPT !.st = st, !.wait = "done"].wait = "done"
    BY <1>0 DEF RecType
  <2> QED
    BY <2>1, <2>2, OneRecordWaits
<1>2. CASE ForceKill(d, g)
  <2>1. rec' = [rec EXCEPT ![d][g] =
                  [rec[d][g] EXCEPT !.alive = FALSE, !.exited = TRUE, !.st = "stopped"]]
    BY <1>2 DEF ForceKill
  <2>2. [rec[d][g] EXCEPT !.alive = FALSE, !.exited = TRUE, !.st = "stopped"].wait
          = rec[d][g].wait
    BY <1>0 DEF RecType
  <2> QED
    BY <2>1, <2>2, OneRecordWaits
<1>3. CASE Crash(d, g) \/ SpawnFails(d, g) \/ Obey(d, g)
  <2>1. rec' = [rec EXCEPT ![d][g] = Marked(d, g)]
    BY <1>3 DEF Crash, SpawnFails, Obey, MarkExit
  <2>2. Marked(d, g).wait = rec[d][g].wait
    BY <1>0 DEF RecType, Marked
  <2> QED
    BY <2>1, <2>2, OneRecordWaits
<1> QED
  BY <1>1, <1>2, <1>3

LEMMA TimersWait ==
  ASSUME Typed, NEW d \in Names, RestartTimer(d)
  PROVE  WaitsKept
<1>1. UNCHANGED records \/ Launch({d})
  BY RestartTimerCases DEF TimerIsStale, TimerLatches, TimerLaunches, TimerThrows
<1>2. UNCHANGED records => WaitsKept
  BY DEF records, WaitsKept
<1> QED
  BY <1>1, <1>2, LaunchWaits

LEMMA OutsideWaits ==
  ASSUME \/ CallStart \/ CallStop \/ GetStatus \/ OtherCore
         \/ \E d \in Names : CallRestart(d) \/ StableRun(d) \/ Expire(d)
  PROVE  WaitsKept
<1>1. UNCHANGED records
  BY DEF CallStart, CallStop, CallRestart, Call, GetStatus, OtherCore, StableRun, Expire
<1> QED
  BY <1>1 DEF records, WaitsKept

LEMMA StepWaits == Typed /\ HelperWaits /\ Next => HelperWaits'
<1> SUFFICES ASSUME Typed, HelperWaits, Next PROVE WaitsKept
  BY DEF HelperWaits, WaitsKept
<1>1. CASE BeginStart \/ StartLaunches \/ LaunchDone \/ BeginRestart
           \/ RestartStopped \/ RestartExternal \/ BeginStop \/ StopDone
  BY <1>1, OperationsWait
<1>2. CASE \E g \in Records : CoreChecked(g) \/ LooksAgain(g)
  BY <1>2, LoopsWait
<1>3. CASE \E d \in Names, g \in Records :
             \/ HelperChecked(d, g) \/ ReadinessFails(d, g) \/ ForceKill(d, g)
             \/ Crash(d, g) \/ SpawnFails(d, g) \/ Obey(d, g)
  BY <1>3, ProcessesWait
<1>4. CASE \E d \in Names : RestartTimer(d)
  BY <1>4, TimersWait
<1>5. CASE \/ CallStart \/ CallStop \/ GetStatus \/ OtherCore
           \/ \E d \in Names : CallRestart(d) \/ StableRun(d) \/ Expire(d)
  BY <1>5, OutsideWaits
<1> QED
  BY <1>1, <1>2, <1>3, <1>4, <1>5 DEF Next, Progress, Happens

-----------------------------------------------------------------------------
(* The queue of operations. *)

LEMMA LeftSpent ==
  ASSUME Next
  PROVE  \/ UNCHANGED left
         \/ \E b \in {"start", "restart", "stop", "fault", "other"} : Spend(b)
<1>1. CASE \/ CallStart \/ CallStop \/ GetStatus \/ OtherCore
           \/ \E d \in Names : CallRestart(d) \/ StableRun(d) \/ Expire(d)
  BY <1>1 DEF CallStart, CallStop, CallRestart, Call, GetStatus, OtherCore, StableRun, Expire
<1>2. CASE BeginStart \/ StartLaunches \/ LaunchDone \/ BeginRestart
           \/ RestartStopped \/ RestartExternal \/ BeginStop \/ StopDone
  BY <1>2 DEF BeginStart, StartLaunches, LaunchDone, BeginRestart, RestartStopped,
              RestartExternal, Relaunch, BeginStop, StopDone
<1>3. CASE \E g \in Records : CoreChecked(g) \/ LooksAgain(g)
  BY <1>3 DEF CoreChecked, LooksAgain
<1>4. CASE \E d \in Names, g \in Records :
             \/ HelperChecked(d, g) \/ ReadinessFails(d, g) \/ ForceKill(d, g)
             \/ Crash(d, g) \/ SpawnFails(d, g) \/ Obey(d, g)
  BY <1>4 DEF HelperChecked, ReadinessFails, ForceKill, Crash, SpawnFails, Obey
<1>5. CASE \E d \in Names : RestartTimer(d)
  BY <1>5 DEF RestartTimer
<1> QED
  BY <1>1, <1>2, <1>3, <1>4, <1>5 DEF Next, Progress, Happens

\* Nothing gives back what was spent; in particular who has called stop() has.
LEMMA StepBounds ==
  ASSUME Typed, BoundsShrink, Next
  PROVE  /\ BoundsShrink'
         /\ left'.start \in Nat /\ left'.start <= left.start
         /\ NoStop' => NoStop /\ ~CallStop
<1>1. left \in Left
  BY DEF Typed, ControlOK
<1>2. CASE UNCHANGED left
  <2>1. ~CallStop
    BY <1>1, <1>2 DEF CallStop, Call, Spend, Left
  <2> QED
    BY <1>1, <1>2, <2>1 DEF BoundsShrink, NoStop, Left
<1>3. ASSUME NEW b \in {"start", "restart", "stop", "fault", "other"}, Spend(b)
      PROVE  /\ left'.start \in Nat /\ left'.start <= left.start
             /\ left'.stop \in Nat /\ left'.stop <= left.stop
             /\ CallStop => left'.stop < left.stop
  BY <1>1, <1>3 DEF CallStop, Call, Spend, Left
<1>4. {MaxStarts, MaxStops} \subseteq Nat /\ {left.start, left.stop} \subseteq Nat
  BY <1>1 DEF Left
<1>5. ASSUME left'.start \in Nat, left'.start <= left.start,
             left'.stop \in Nat, left'.stop <= left.stop,
             CallStop => left'.stop < left.stop
      PROVE  BoundsShrink' /\ (NoStop' => NoStop /\ ~CallStop)
  <2>1. PICK p, q : p = left'.start /\ q = left'.stop
    OBVIOUS
  <2>2. p <= MaxStarts /\ q <= MaxStops
    <3>1. p \in Nat /\ q \in Nat /\ p <= left.start /\ q <= left.stop
          /\ left.stop <= MaxStops /\ left.start <= MaxStarts
      BY <1>5, <2>1 DEF BoundsShrink
    <3> QED
      BY ONLY <1>4, <3>1
  <2>3. q = MaxStops => left.stop = MaxStops
    <3>1. q \in Nat /\ q <= left.stop /\ left.stop <= MaxStops
      BY <1>5, <2>1 DEF BoundsShrink
    <3> QED
      BY ONLY <1>4, <3>1
  <2>4. CallStop => q # MaxStops
    <3>1. q \in Nat /\ (CallStop => q < left.stop) /\ left.stop <= MaxStops
      BY <1>5, <2>1 DEF BoundsShrink
    <3> HIDE DEF CallStop
    <3> QED
      BY ONLY <1>4, <3>1
  <2>5. BoundsShrink' = (q <= MaxStops /\ p <= MaxStarts) /\ (NoStop' <=> q = MaxStops)
    BY <2>1 DEF BoundsShrink, NoStop
  <2> QED
    BY <2>2, <2>3, <2>4, <2>5 DEF NoStop
<1> QED
  BY <1>2, <1>3, <1>5, LeftSpent

\* An operation ends and leaves the queue.
Ends ==
    /\ queue # <<>> /\ queue' = Tail(queue)
    /\ op' = Idle /\ left' = left

\* start() waits for its health check.
StartsUp ==
    /\ op = Idle /\ queue # <<>> /\ Head(queue).kind = "start" /\ queue' = queue
    /\ op' = [kind |-> "start", phase |-> "external"] /\ left' = left

\* An operation begins or goes on, and has passed the health check of start().
GoesFurther ==
    /\ queue # <<>> /\ queue' = queue
    /\ op' # Idle /\ op'.kind \in {"start", "restart"}
    /\ op'.kind = "restart" \/ op'.phase = "ready"

LEMMA OperationSteps ==
  ASSUME Typed, NobodyStops,
         \/ BeginStart \/ StartLaunches \/ LaunchDone \/ BeginRestart
         \/ RestartStopped \/ RestartExternal \/ BeginStop \/ StopDone
  PROVE  /\ Ends \/ StartsUp \/ GoesFurther
         /\ ~stopping'
<1>0. op # Idle => queue # <<>>
  BY DEF Typed, OperationOK
<1>1. ~BeginStop /\ ~StopDone
  <2>1. queue # <<>> => queue[1].kind # "stop"
    BY DEF NobodyStops, Typed, OperationOK
  <2> QED
    BY <2>1 DEF BeginStop, Next1, StopDone, NobodyStops
<1>2. CASE BeginStart
  BY <1>2 DEF BeginStart, Next1, Ends, StartsUp, NobodyStops
<1>3. CASE StartLaunches
  <2>1. op # Idle
    BY <1>3 DEF StartLaunches, Idle
  <2> QED
    BY <1>0, <1>3, <2>1 DEF StartLaunches, GoesFurther, NobodyStops, Idle
<1>4. CASE LaunchDone
  <2>1. op # Idle
    BY <1>4 DEF LaunchDone, Idle
  <2> QED
    BY <1>0, <1>4, <2>1 DEF LaunchDone, Ends, NobodyStops
<1>5. CASE BeginRestart
  BY <1>5 DEF BeginRestart, Next1, GoesFurther, Idle
<1>6. ASSUME NEW c, Relaunch(c), op # Idle PROVE GoesFurther /\ ~stopping'
  BY <1>0, <1>6 DEF Relaunch, GoesFurther, NobodyStops, Idle
<1>7. CASE RestartStopped
  <2>1. op # Idle
    BY <1>7 DEF RestartStopped, Idle
  <2>2. CASE op.child = Core
    <3>1. op' = [kind |-> "restart", phase |-> "external", child |-> op.child]
      BY <1>7, <2>2, OpShape DEF RestartStopped, Typed, OperationOK
    <3>2. queue' = queue /\ stopping' = stopping
      BY <1>7, <2>2 DEF RestartStopped
    <3> QED
      BY <1>0, <2>1, <3>1, <3>2 DEF GoesFurther, Idle, NobodyStops
  <2> QED
    BY <1>6, <1>7, <2>1, <2>2 DEF RestartStopped
<1>8. CASE RestartExternal
  <2>1. op # Idle
    BY <1>8 DEF RestartExternal, Idle
  <2> QED
    BY <1>0, <1>6, <1>8, <2>1 DEF RestartExternal, Ends, NobodyStops
<1> QED
  BY <1>1, <1>2, <1>3, <1>4, <1>5, <1>7, <1>8

\* The queue of a step that ends an operation.
LEMMA TailQueue ==
  ASSUME queue \in Seq(Calls), queue # <<>>, queue' = Tail(queue)
  PROVE  \A i \in 1 .. Len(queue') : queue'[i] = queue[i + 1] /\ i + 1 \in 2 .. Len(queue)
OBVIOUS

LEMMA StepNobodyStops ==
  ASSUME Typed, NobodyStops, Next, ~CallStop
  PROVE  NobodyStops'
<1>0. queue \in Seq(Calls)
  BY DEF Typed, OperationOK
<1>1. CASE \/ BeginStart \/ StartLaunches \/ LaunchDone \/ BeginRestart
           \/ RestartStopped \/ RestartExternal \/ BeginStop \/ StopDone
  <2>1. (Ends \/ StartsUp \/ GoesFurther) /\ ~stopping'
    BY <1>1, OperationSteps
  <2>2. CASE Ends
    BY <1>0, <2>1, <2>2, TailQueue DEF Ends, NobodyStops, Idle
  <2>3. CASE StartsUp \/ GoesFurther
    BY <2>1, <2>3 DEF StartsUp, GoesFurther, NobodyStops
  <2> QED
    BY <2>1, <2>2, <2>3
<1>2. ASSUME NEW call \in Calls, call.kind # "stop", queue' = Append(queue, call),
             op' = op, stopping' = stopping
      PROVE  NobodyStops'
  BY <1>0, <1>2 DEF NobodyStops
<1>3. CASE CallStart
  BY <1>2, <1>3 DEF CallStart, Call, Calls
<1>4. ASSUME NEW c \in Names, CallRestart(c) PROVE NobodyStops'
  BY <1>2, <1>4 DEF CallRestart, Call, Calls
<1>5. ASSUME UNCHANGED <<queue, op, stopping>> PROVE NobodyStops'
  BY <1>5 DEF NobodyStops
<1>6. CASE GetStatus \/ OtherCore \/ \E c \in Names : StableRun(c) \/ Expire(c) \/ RestartTimer(c)
  BY <1>5, <1>6 DEF GetStatus, OtherCore, StableRun, Expire, RestartTimer
<1>7. CASE \E g \in Records : CoreChecked(g) \/ LooksAgain(g)
  BY <1>5, <1>7 DEF CoreChecked, IsReady, NotReady, LooksAgain
<1>8. CASE \E c \in Names, g \in Records :
             \/ HelperChecked(c, g) \/ ReadinessFails(c, g) \/ ForceKill(c, g)
             \/ Crash(c, g) \/ SpawnFails(c, g) \/ Obey(c, g)
  BY <1>5, <1>8
     DEF HelperChecked, IsReady, ReadinessFails, ForceKill, Crash, SpawnFails, Obey, MarkExit
<1> QED
  BY <1>1, <1>3, <1>4, <1>6, <1>7, <1>8 DEF Next, Progress, Happens

\* The steps that leave the queue and the operation alone launch a helper only
\* when its restart timer was set.
LEMMA OthersTreat ==
  ASSUME IInv, HelperWaits, ~stopping, NEW c \in Helpers, Tended(c),
         \/ GetStatus \/ OtherCore
         \/ \E d \in Names : StableRun(d) \/ Expire(d) \/ RestartTimer(d)
         \/ \E g \in Records : CoreChecked(g) \/ LooksAgain(g)
         \/ \E d \in Names, g \in Records :
              \/ HelperChecked(d, g) \/ ReadinessFails(d, g) \/ ForceKill(d, g)
              \/ Crash(d, g) \/ SpawnFails(d, g) \/ Obey(d, g)
  PROVE  Rests(c) \/ Falls(c) \/ (timer[c] # 0 /\ (Renewed(c) \/ Rings(c)))
<1>0. Typed /\ TimerOfTheDead /\ ExternalHasNone
  BY DEF IInv, Modes
<1>1. CASE GetStatus \/ OtherCore \/ \E d \in Names : Expire(d)
  BY <1>1, OutsideRests
<1>2. CASE \E d \in Names : StableRun(d)
  BY <1>0, <1>2, StableRunRests
<1>3. CASE \E d \in Names : RestartTimer(d)
  BY <1>0, <1>3, RestartTimerTreats
<1>4. CASE \E g \in Records : CoreChecked(g) \/ LooksAgain(g)
  BY <1>0, <1>4, CoreLoopRests
<1>5. CASE \E d \in Names, g \in Records :
             HelperChecked(d, g) \/ ReadinessFails(d, g) \/ ForceKill(d, g)
  BY <1>0, <1>5, HelperCheckedRests, ReadinessFailsRests, ForceKillRests
<1>6. CASE \E d \in Names, g \in Records :
             Crash(d, g) \/ SpawnFails(d, g) \/ Obey(d, g)
  BY <1>0, <1>6, ExitsTreat
<1> QED
  BY <1>1, <1>2, <1>3, <1>4, <1>5, <1>6

LEMMA StepTreats ==
  ASSUME IInv, HelperWaits, Undisturbed, Next, ~CallStop, NEW c \in Helpers
  PROVE  Treated(c)
<1>0. Typed /\ StartComesFirst /\ NobodyStops /\ ~stopping /\ Tended(c)
  BY DEF IInv, Undisturbed, NobodyStops
<1>1. CASE CallStart \/ \E d \in Names : CallRestart(d)
  BY <1>1, CallsRest DEF Treated
<1>2. CASE BeginStop \/ StopDone
  <2>1. queue # <<>> => queue[1].kind # "stop"
    BY <1>0 DEF NobodyStops, Typed, OperationOK
  <2> QED
    BY <1>0, <1>2, <2>1 DEF BeginStop, Next1, StopDone, NobodyStops
<1>3. CASE BeginStart \/ StartLaunches \/ LaunchDone \/ BeginRestart
           \/ RestartStopped \/ RestartExternal
  BY <1>0, <1>3, BeginStartTreats, StartLaunchesRenews, LaunchDoneRests,
     BeginRestartTreats, RestartStoppedTreats, RestartExternalTreats DEF Treated
<1>4. CASE \/ GetStatus \/ OtherCore
           \/ \E d \in Names : StableRun(d) \/ Expire(d) \/ RestartTimer(d)
           \/ \E g \in Records : CoreChecked(g) \/ LooksAgain(g)
           \/ \E d \in Names, g \in Records :
                \/ HelperChecked(d, g) \/ ReadinessFails(d, g) \/ ForceKill(d, g)
                \/ Crash(d, g) \/ SpawnFails(d, g) \/ Obey(d, g)
  BY <1>0, <1>4, OthersTreat DEF Treated
<1> QED
  BY <1>1, <1>2, <1>3, <1>4 DEF Next, Progress, Happens

\* A call goes to the end of the queue; start() is called once, before any
\* restart().
LEMMA CallsKeepOrder ==
  ASSUME MaxStarts <= 1, Typed, BoundsShrink, StartComesFirst,
         CallStart \/ \E d \in Names : CallRestart(d)
  PROVE  StartComesFirst'
<1>0. /\ left \in Left /\ queue \in Seq(Calls) /\ left.start \in Nat /\ MaxStarts \in Nat
      /\ left.start <= MaxStarts
  BY DEF Typed, ControlOK, OperationOK, Left, BoundsShrink
<1>1. op' = op /\ UNCHANGED <<cur, timer>>
  BY DEF CallStart, CallRestart, Call, records
<1>2. Untouched' <=> Untouched
  BY <1>1 DEF Untouched
<1>3. CASE CallStart
  <2>1. left.start = 1 /\ left'.start = 0
    <3>1. left.start > 0 /\ left' = [left EXCEPT !.start = @ - 1]
      BY <1>3 DEF CallStart, Call, Spend
    <3>2. left.start = 1
      BY ONLY <1>0, <3>1, MaxStarts <= 1
    <3> QED
      BY <1>0, <3>1, <3>2 DEF Left
  <2>2. queue = <<>> /\ Untouched
    BY <2>1 DEF StartComesFirst
  <2>3. queue' = Append(queue, [kind |-> "start"]) /\ Len(queue') = 1
    BY <1>0, <1>3, <2>2 DEF CallStart, Call
  <2> QED
    BY <1>1, <1>2, <2>1, <2>2, <2>3 DEF StartComesFirst
<1>4. ASSUME NEW d \in Names, CallRestart(d) PROVE StartComesFirst'
  <2>1. left.start = 0 /\ left'.start = 0
    <3>1. left.start < MaxStarts /\ left' = [left EXCEPT !.restart = @ - 1]
      BY <1>4 DEF CallRestart, Call, Spend
    <3>2. left.start = 0
      BY ONLY <1>0, <3>1, MaxStarts <= 1
    <3> QED
      BY <1>0, <3>1, <3>2 DEF Left
  <2>2. queue' = Append(queue, [kind |-> "restart", child |-> d])
    BY <1>4 DEF CallRestart, Call
  <2> DEFINE call == [kind |-> "restart", child |-> d]
  <2>3. call.kind = "restart"
    OBVIOUS
  <2> HIDE DEF call
  <2>4. /\ Len(queue') = Len(queue) + 1
        /\ \A i \in 1 .. Len(queue) : queue'[i] = queue[i]
        /\ queue'[Len(queue) + 1] = call
    BY <1>0, <2>2 DEF call
  <2>5. \A i \in 2 .. Len(queue') : queue'[i].kind = "restart"
    BY <1>0, <2>3, <2>4 DEF StartComesFirst
  <2>6. Head(queue') = IF queue = <<>> THEN call ELSE Head(queue)
    BY <1>0, <2>2 DEF call
  <2>7. op' = Idle /\ queue' # <<>> /\ Head(queue').kind = "start" => Untouched
    BY <1>1, <2>3, <2>6 DEF StartComesFirst
  <2> QED
    BY <1>1, <1>2, <2>1, <2>5, <2>7 DEF StartComesFirst
<1> QED
  BY <1>3, <1>4

LEMMA StepStartComesFirst ==
  ASSUME MaxStarts <= 1, IInv, HelperWaits, BoundsShrink, Undisturbed, Next, ~CallStop
  PROVE  StartComesFirst'
<1>0. /\ Typed /\ StartComesFirst /\ NobodyStops /\ ~stopping
      /\ queue \in Seq(Calls)
      /\ left'.start \in Nat /\ left'.start <= left.start /\ left.start \in Nat
  BY StepBounds DEF IInv, Undisturbed, NobodyStops, Typed, OperationOK, ControlOK, Left
<1>1. left.start = 0 => left'.start = 0
  <2>1. PICK p : p = left'.start
    OBVIOUS
  <2> QED
    BY <1>0, <2>1
<1>2. CASE CallStart \/ \E d \in Names : CallRestart(d)
  BY <1>0, <1>2, CallsKeepOrder
<1>3. CASE \/ BeginStart \/ StartLaunches \/ LaunchDone \/ BeginRestart
           \/ RestartStopped \/ RestartExternal \/ BeginStop \/ StopDone
  <2>1. Ends \/ StartsUp \/ GoesFurther
    BY <1>0, <1>3, OperationSteps
  <2>2. left.start = 0
    BY <1>0, <2>1 DEF Ends, StartsUp, GoesFurther, StartComesFirst
  <2>3. CASE Ends
    <3>1. \A i \in 1 .. Len(queue') : queue'[i].kind = "restart"
      BY <1>0, <2>3, TailQueue DEF Ends, StartComesFirst
    <3>2. queue' # <<>> => Head(queue').kind = "restart"
      <4>1. queue' \in Seq(Calls)
        BY <1>0, <2>3 DEF Ends
      <4> QED
        BY <3>1, <4>1
    <3> QED
      BY <1>1, <2>2, <2>3, <3>1, <3>2 DEF Ends, StartComesFirst, Idle
  <2>4. CASE StartsUp
    <3>1. Untouched
      BY <1>0, <2>4 DEF StartsUp, StartComesFirst
    <3>2. BeginStart
      BY <1>3, <2>4 DEF StartsUp, Idle, StartLaunches, LaunchDone, RestartStopped,
                        RestartExternal, BeginRestart, BeginStop, Next1, StopDone
    <3>3. Untouched'
      BY <3>1, <3>2 DEF BeginStart, Untouched, records
    <3> QED
      BY <1>0, <1>1, <2>2, <2>4, <3>3 DEF StartsUp, StartComesFirst
  <2>5. CASE GoesFurther
    BY <1>0, <1>1, <2>2, <2>5 DEF GoesFurther, StartComesFirst
  <2> QED
    BY <2>1, <2>3, <2>4, <2>5
<1>4. CASE \/ GetStatus \/ OtherCore
           \/ \E d \in Names : StableRun(d) \/ Expire(d) \/ RestartTimer(d)
           \/ \E g \in Records : CoreChecked(g) \/ LooksAgain(g)
           \/ \E d \in Names, g \in Records :
                \/ HelperChecked(d, g) \/ ReadinessFails(d, g) \/ ForceKill(d, g)
                \/ Crash(d, g) \/ SpawnFails(d, g) \/ Obey(d, g)
  <2>1. \A c \in Helpers : Rests(c) \/ Falls(c) \/ (timer[c] # 0 /\ (Renewed(c) \/ Rings(c)))
    BY <1>0, <1>4, OthersTreat DEF Undisturbed
  <2>2. Untouched => Untouched'
    BY <2>1 DEF Untouched, Rests, Falls
  <2>3. UNCHANGED <<queue, op>>
    BY <1>4 DEF GetStatus, OtherCore, StableRun, Expire, RestartTimer, CoreChecked,
                LooksAgain, HelperChecked, ReadinessFails, ForceKill, Crash, SpawnFails, Obey
  <2> QED
    BY <1>0, <1>1, <2>2, <2>3 DEF StartComesFirst
<1> QED
  BY <1>2, <1>3, <1>4 DEF Next, Progress, Happens

LEMMA StepHelperInv ==
  ASSUME MaxStarts <= 1, IInv, HelperInv, Next
  PROVE  HelperInv'
<1>0. Typed /\ HelperWaits /\ BoundsShrink
  BY DEF IInv, HelperInv
<1>1. HelperWaits' /\ BoundsShrink' /\ (NoStop' => NoStop /\ ~CallStop)
  BY <1>0, StepWaits, StepBounds
<1>2. ASSUME NoStop' PROVE Undisturbed'
  <2>1. Undisturbed /\ ~CallStop
    BY <1>1, <1>2 DEF HelperInv
  <2>2. NobodyStops'
    BY <1>0, <2>1, StepNobodyStops DEF Undisturbed
  <2>3. StartComesFirst'
    BY <1>0, <2>1, StepStartComesFirst
  <2>4. ASSUME NEW c \in Helpers PROVE Tended(c)'
    BY <1>0, <2>1, StepTreats, TreatedTended DEF Undisturbed
  <2> QED
    BY <2>2, <2>3, <2>4 DEF Undisturbed
<1> QED
  BY <1>1, <1>2 DEF HelperInv

LEMMA StutterHelperInv == HelperInv /\ UNCHANGED vars => HelperInv'
BY DEF HelperInv, HelperWaits, BoundsShrink, NoStop, Undisturbed, NobodyStops,
       StartComesFirst, Untouched, Tended, Restarting, Leaving, Dead, vars, trackers, records

\* A watcher or parser that died by itself is latched, or its restart timer is
\* that of its last record, or an operation is still coming: whatever restarts,
\* failed spawns and health checks happened before, as long as start() is called
\* once, which is what the Desktop does, and stop() is not.
THEOREM HelpersRemembered ==
  ASSUME MaxStarts <= 1
  PROVE  Spec => []NoHelperForgotten
<1>1. IInv /\ HelperInv /\ [Next]_vars => HelperInv'
  BY StepHelperInv, StutterHelperInv
<1>2. ASSUME IInv, HelperInv PROVE NoHelperForgotten
  <2> SUFFICES ASSUME NEW c \in Helpers, Forgotten(c) PROVE FALSE
    BY DEF NoHelperForgotten
  <2>1. Tended(c) /\ op = Idle
    BY <1>2 DEF Forgotten, HelperInv, Undisturbed, IInv, Typed, OperationOK
  <2> QED
    BY <2>1 DEF Forgotten, Tended, Dead, Restarting, Idle
<1> QED
  BY SupervisorInvariance, InitHelperInv, <1>1, <1>2, PTL DEF Spec
=============================================================================
