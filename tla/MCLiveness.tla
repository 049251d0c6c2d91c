----------------------------- MODULE MCLiveness -----------------------------
(***************************************************************************)
(* What must not get stuck, checked side by side: Core's sync coordinator,  *)
(* the supervisor that runs Core and its helpers, the widget of the desktop *)
(* and the queries of the dashboard.  They share nothing here; which names  *)
(* the one that moves.                                                      *)
(***************************************************************************)
EXTENDS Integers, Sequences, FiniteSets

CONSTANTS
  parser, core,                                       \* processes of the supervisor
  NumAdapters, Concurrency, FreshnessMs, RunRetentionMs, Toggleable, Optional,
  MaxRuns, MaxClock, MaxSaveFailures,                 \* the coordinator's
  MaxActs, MaxMail,                                   \* the widget's
  Scopes, MaxSyncs, MaxTurns, MaxFaults               \* the queries'

VARIABLES
  which, enabled,
  st, runs, queuedRunIds, activeRunIds, executing, shuttingDown, runSeq, turn,
  persistedRuns, persisted, clock, up, saveFailures,
  own, failures, latched, err, stable, timer, cur, rec, stopping, state, op, queue, extUp, left,
  w, native, cursor, button, mail, acts,
  cache, selected, visible, always, waits, held, loose, version, turns, faults

ofCoordinator ==
  <<st, runs, queuedRunIds, activeRunIds, executing, shuttingDown, runSeq, turn,
    persistedRuns, persisted, clock, up, saveFailures>>
ofRuntime ==
  <<own, failures, latched, err, stable, timer, cur, rec, stopping, state, op, queue, extUp, left>>
ofWidget == <<w, native, cursor, button, mail, acts>>
ofQueries == <<cache, selected, visible, always, waits, held, loose, version, turns, faults>>
vars == <<which, enabled, ofCoordinator, ofRuntime, ofWidget, ofQueries>>

\* Proof modules are the components with their theorems.
C == INSTANCE SyncCoordinatorProofs
S == INSTANCE RuntimeSupervisor WITH
  Helpers <- {parser}, Core <- core, MaxPerWindow <- 1, MaxStarts <- 1, MaxRestarts <- 1,
  MaxStops <- 1, MaxFaults <- 1, MaxRecords <- 4, MaxOthers <- 0
W == INSTANCE Widget
Q == INSTANCE QueryClient

ASSUME PartsAreSound ==
  /\ NumAdapters \in Nat \ {0} /\ Concurrency \in Nat \ {0}
  /\ FreshnessMs \in Nat /\ RunRetentionMs \in Nat
  /\ Toggleable \subseteq 1..NumAdapters /\ Optional \subseteq 1..NumAdapters
  /\ MaxRuns \in Nat /\ MaxClock \in Nat \ {0} /\ MaxSaveFailures \in Nat
  /\ W!WidgetAssumption /\ Q!QueryAssumption

NoCoordinator ==
  /\ st = 0 /\ runs = 0 /\ queuedRunIds = 0 /\ activeRunIds = 0 /\ executing = 0
  /\ shuttingDown = 0 /\ runSeq = 0 /\ turn = 0 /\ persistedRuns = 0 /\ persisted = 0
  /\ clock = 0 /\ up = 0 /\ saveFailures = 0
NoRuntime ==
  /\ own = 0 /\ failures = 0 /\ latched = 0 /\ err = 0 /\ stable = 0 /\ timer = 0 /\ cur = 0
  /\ rec = 0 /\ stopping = 0 /\ state = 0 /\ op = 0 /\ queue = 0 /\ extUp = 0 /\ left = 0
NoWidget == w = 0 /\ native = 0 /\ cursor = 0 /\ button = 0 /\ mail = 0 /\ acts = 0
NoQueries ==
  /\ cache = 0 /\ selected = 0 /\ visible = 0 /\ always = 0 /\ waits = 0 /\ held = 0
  /\ loose = 0 /\ version = 0 /\ turns = 0 /\ faults = 0

Init ==
  \/ which = "coordinator" /\ C!Init /\ NoRuntime /\ NoWidget /\ NoQueries
  \/ which = "runtime" /\ S!Init /\ NoCoordinator /\ NoWidget /\ NoQueries /\ enabled = 0
  \/ which = "widget" /\ W!Init /\ NoCoordinator /\ NoRuntime /\ NoQueries
  \/ which = "queries" /\ Q!Init /\ NoCoordinator /\ NoRuntime /\ NoWidget

Coordinator(step) ==
  which = "coordinator" /\ step /\ UNCHANGED <<which, ofRuntime, ofWidget, ofQueries>>
Runtime(step) ==
  which = "runtime" /\ step /\ UNCHANGED <<which, enabled, ofCoordinator, ofWidget, ofQueries>>
Widget(step) ==
  which = "widget" /\ step /\ UNCHANGED <<which, ofCoordinator, ofRuntime, ofQueries>>
Queries(step) ==
  which = "queries" /\ step /\ UNCHANGED <<which, ofCoordinator, ofRuntime, ofWidget>>

CoordinatorMoves ==
  which = "coordinator" /\ C!Next /\ UNCHANGED <<which, ofRuntime, ofWidget, ofQueries>>
RuntimeMoves ==
  which = "runtime" /\ S!Next /\ UNCHANGED <<which, enabled, ofCoordinator, ofWidget, ofQueries>>
WidgetMoves ==
  which = "widget" /\ W!Next /\ UNCHANGED <<which, ofCoordinator, ofRuntime, ofQueries>>
QueriesMove ==
  which = "queries" /\ Q!Next /\ UNCHANGED <<which, ofCoordinator, ofRuntime, ofWidget>>

Next == CoordinatorMoves \/ RuntimeMoves \/ WidgetMoves \/ QueriesMove

\* The fairness of each part; the modules say why it is justified.
Spec ==
  /\ Init /\ [][Next]_vars
  /\ WF_vars(Coordinator(\E a \in C!Adapters : C!Accept(a)))
  /\ WF_vars(Coordinator(C!DrainQueue)) /\ WF_vars(Coordinator(C!Restart))
  /\ SF_vars(Coordinator(\E r \in C!RunIds : C!Settle(r)))
  /\ WF_vars(Runtime(S!Progress))
  /\ WF_vars(Widget(W!Receive)) /\ WF_vars(Widget(W!Poll))
  /\ WF_vars(Widget(W!OpenTimer)) /\ WF_vars(Widget(W!CloseTimer))
  /\ WF_vars(Queries(Q!Answer)) /\ WF_vars(Queries(Q!Elapses))

-----------------------------------------------------------------------------
\* Types, of what other runs do not check already: the widget, whose window shows
\* what its state says, and the queries.
TypeOK ==
  CASE which = "widget" -> W!TypeOK [] which = "queries" -> Q!TypeOK [] OTHER -> TRUE

\* No adapter executes two runs at a time; no key has two requests that both count,
\* and what is shown as up to date belongs to the selected scope.
NoOverlap ==
  CASE which = "coordinator" -> C!NoOverlap [] which = "queries" -> Q!OneRequest [] OTHER -> TRUE

\* No late answer replaces a newer one, and no late timer, message or drag takes
\* back a pin (QueryClient and Widget).
NothingTakenBack ==
  [][CASE which = "queries" -> Q!NewerStays [] which = "widget" -> W!PinnedStays [] OTHER -> TRUE]_vars

\* Every accepted run of the coordinator ends; every operation of the supervisor
\* ends, and a helper that died comes back; a widget that the cursor left retracts; a
\* view that can poll shows the newest figures of its scope.
Settles ==
  \A r \in C!RunIds :
    []<>(CASE which = "coordinator" -> ~C!Pending(r)
           [] which = "runtime" -> ~S!Busy /\ ~S!StaysDead(parser)
           [] which = "widget" -> ~W!StuckOpen
           [] which = "queries" -> Q!Current)

\* "any | hide command | window hidden without changing mode": no timer shows what
\* a command has hidden (Widget).
HiddenStays ==
  [][Widget(W!Poll) \/ Widget(W!OpenTimer) \/ Widget(W!CloseTimer) => w'.visible = w.visible]_vars
=============================================================================
