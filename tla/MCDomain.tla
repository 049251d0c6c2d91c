------------------------------- MODULE MCDomain -------------------------------
(***************************************************************************)
(* What Core keeps and answers, checked side by side: the projected usage,  *)
(* the tools, the tools with the retention that trims their events, the     *)
(* migrations, the two kinds of account usage, and the reports.  No part    *)
(* reads what another one writes here; which names the one that moves.      *)
(***************************************************************************)
EXTENDS Integers, Sequences, FiniteSets

CONSTANTS
  Timed, Logged, Foreign, Unsound, MaxLog, MaxRewinds,      \* the usage's
  Sightings, OldSightings, Claude, Never, Cutoff, MaxFaults, \* the tools' and their retention's
  LegacyContents, OldEvents, NewEvents, Absent, MaxStops,   \* the migrations'
  Days, MaxTokens, Limits, NoPlan, ApiLimit, Windows, Files, MaxReadings,
                                                            \* the account usage's
  Events, Queries, DayLength, Limit, ReportCutoff, MaxClock,
  Unknown, NoPage, AllVendors, OfficialSession              \* the reports'

VARIABLES
  which,
  log, cursor, reached, rewinds, stored, usage, fingerprint, observed, diagnostics,
  events, aliases, calls,
  month, due, pc, cut, archive, trimmed, late, seen, resumed, faults,
  at, marks, alien, legacy, canonical, columns, sessions, pending, invalid, count, stops,
  day, spent, local, official, loop, sync, running,
  clock, logs, scans, api, told,
  reader

ofUsage == <<log, cursor, reached, rewinds, fingerprint, observed, diagnostics>>
ofRetention == <<month, due, pc, cut, archive, trimmed, late, seen, resumed, faults>>
ofMigration ==
  <<at, marks, alien, legacy, canonical, columns, sessions, pending, invalid, count, stops>>
ofCursor == <<day, spent, local, official, loop, sync, running>>
ofKeys == <<logs, scans, api, told>>
vars ==
  <<which, ofUsage, ofRetention, ofMigration, ofCursor, ofKeys, reader,
    stored, usage, events, aliases, calls, clock>>

Sighting(id, session, use, call, from, type, when) ==
  [id |-> id, session |-> session, use |-> use, call |-> call, name |-> "Read",
   from |-> from, type |-> type, at |-> when]

\* A Claude session with a use that hooks and transcript see under one id, and
\* a later one whose start the hooks saw without an id; a session of another
\* vendor with a use that was first taken for failed.
TheSightings ==
  { Sighting(1, "s", "a", "a", "hook", "called", 10),
    Sighting(2, "s", "a", "a", "transcript", "called", 11),
    Sighting(3, "s", "a", "a", "hook", "succeeded", 12),
    Sighting(4, "s", "a", "a", "transcript", "succeeded", 12),
    Sighting(5, "s", "b", "b", "transcript", "called", 30),
    Sighting(6, "s", "b", "derived", "hook", "called", 33),
    Sighting(7, "s", "b", "b", "transcript", "failed", 60),
    Sighting(8, "o", "c", "c", "other", "called", 1),
    Sighting(9, "o", "c", "c", "other", "succeeded", 6),
    Sighting(10, "o", "c", "c", "other", "failed", 7) }

\* Sessions that go on after the cutoff.
TheOldSightings ==
  { Sighting(1, "s", "a", "a", "transcript", "called", 10),
    Sighting(2, "s", "a", "a", "hook", "succeeded", 11),
    Sighting(3, "s", "b", "b", "transcript", "called", 30),
    Sighting(4, "s", "b", "b", "transcript", "failed", 31),
    Sighting(5, "o", "c", "c", "other", "called", 12),
    Sighting(6, "o", "c", "c", "other", "failed", 30) }

\* Rows of the release before there were vendors, and of the last one before the
\* canonical tables; of these at most one is missing.
Row(table, id, vendor, adapter, from, fresh, cache) ==
  [table |-> table, id |-> id, session |-> "s", vendor |-> vendor, adapter |-> adapter,
   from |-> from, fresh |-> fresh, cache |-> cache]
FirstRows ==
  { Row("sessions", "s", Absent, Absent, "", 0, 0),
    Row("tool_events", "t", Absent, Absent, "", 0, 0),
    Row("token_usage_events", "c", Absent, Absent, "claude-transcript", 2, 1) }
LaterRows ==
  { Row("sessions", "s", "codex", "codex-rollout", "", 0, 0),
    Row("tool_events", "t", "codex", "codex-rollout", "", 0, 0),
    Row("token_usage_events", "c", "codex", "codex-rollout", "codex-rollout", 2, 1),
    Row("token_usage_events", "l", "codex", "codex-logs", "codex-rollout", 2, 1),
    Row("token_usage_events", "z", "opencode", "zcode-db", "opencode-message", 2, 1),
    Row("token_usage_events", "o", "opencode", "opencode-db", "opencode-message", -1, 1) }

Past(id, vendor, adapter, start) ==
  [id |-> id, session |-> "s", vendor |-> vendor, adapter |-> adapter, start |-> start]

Event(id, session, vendor, when, from, model, tokens) ==
  [id |-> id, session |-> session, vendor |-> vendor, at |-> when, from |-> from,
   model |-> model, tokens |-> tokens]
Query(kind, session, mode, to, vendor) ==
  [kind |-> kind, session |-> session, mode |-> mode, from |-> 0, to |-> to, vendor |-> vendor]

TheCutoffs == <<10, 20>>
TheLegacyContents == {{}, FirstRows, LaterRows} \cup {LaterRows \ {r} : r \in LaterRows}
TheOldEvents == {Past(1, "zcode", "zcode-db", FALSE), Past(2, "codex", "codex-rollout", TRUE)}
TheNewEvents == {Past(1, "zcode", "zcode-db", FALSE), Past(3, "zcode", "zcode-db", FALSE)}
TheEvents ==
  { Event(1, 1, "claude", 0, "prompt", "", 0), Event(2, 1, "claude", 1, "request", "m", 1),
    Event(3, 2, "claude", 0, "request", "unknown", 2), Event(4, 1, "claude", 2, "snapshot", "m", 4),
    Event(5, 3, "cursor", 1, "generation", "m", 3) }
TheQueries ==
  { Query("sessions", 0, "lifetime", 0, "all"), Query("sessions", 0, "custom", 2, "all"),
    Query("sessions", 0, "calendar", 0, "claude"), Query("timeline", 1, "lifetime", 0, "all") }

U == INSTANCE UsageProjection
T == INSTANCE ToolProjection
D == INSTANCE DetailRetention WITH Sightings <- OldSightings
M == INSTANCE DomainMigration
A == INSTANCE AccountUsage
R == INSTANCE Reports WITH Cutoff <- ReportCutoff, NoCursor <- NoPage

ASSUME PartsAreSound ==
  /\ U!UsageAssumption /\ T!ToolAssumption /\ D!RetentionAssumption /\ M!MigrationAssumption
  /\ A!AccountAssumption /\ R!ReportsAssumption

\* The uses of tools here are such that the pairing can tell them apart.
ASSUME UsesAreApart == T!UsesApart /\ D!UsesApart

NoUsage ==
  /\ log = 0 /\ cursor = 0 /\ reached = 0 /\ rewinds = 0
  /\ fingerprint = 0 /\ observed = 0 /\ diagnostics = 0
NoRetention ==
  /\ month = 0 /\ due = 0 /\ pc = 0 /\ cut = 0 /\ archive = 0 /\ trimmed = 0
  /\ late = 0 /\ seen = 0 /\ resumed = 0 /\ faults = 0
NoMigration ==
  /\ at = 0 /\ marks = 0 /\ alien = 0 /\ legacy = 0 /\ canonical = 0 /\ columns = 0
  /\ sessions = 0 /\ pending = 0 /\ invalid = 0 /\ count = 0 /\ stops = 0
NoCursor ==
  /\ day = 0 /\ spent = 0 /\ local = 0 /\ official = 0
  /\ loop = 0 /\ sync = 0 /\ running = 0
NoKeys == logs = 0 /\ scans = 0 /\ api = 0 /\ told = 0
NoTools == events = 0 /\ aliases = 0 /\ calls = 0

Init ==
  \/ /\ which = "usage" /\ U!Init
     /\ NoTools /\ NoRetention /\ NoMigration /\ NoCursor /\ NoKeys /\ clock = 0 /\ reader = 0
  \/ /\ which = "tools" /\ T!Init
     /\ NoUsage /\ NoRetention /\ NoMigration /\ NoCursor /\ NoKeys
     /\ stored = 0 /\ usage = 0 /\ clock = 0 /\ reader = 0
  \/ /\ which = "retention" /\ D!Start
     /\ NoUsage /\ NoMigration /\ NoCursor /\ NoKeys
     /\ stored = 0 /\ usage = 0 /\ clock = 0 /\ reader = 0
  \/ /\ which = "migration" /\ M!Init
     /\ NoUsage /\ NoRetention /\ NoCursor /\ NoKeys
     /\ stored = 0 /\ aliases = 0 /\ clock = 0 /\ reader = 0
  \/ /\ which = "cursor" /\ A!CursorInit
     /\ NoUsage /\ NoTools /\ NoRetention /\ NoMigration /\ NoKeys
     /\ stored = 0 /\ usage = 0 /\ clock = 0 /\ reader = 0
  \/ /\ which = "keys" /\ A!KeyInit
     /\ NoUsage /\ NoTools /\ NoRetention /\ NoMigration /\ NoCursor /\ usage = 0 /\ reader = 0
  \/ /\ which = "reports" /\ R!Init
     /\ NoUsage /\ NoRetention /\ NoMigration /\ NoCursor /\ NoKeys
     /\ stored = 0 /\ aliases = 0 /\ calls = 0

UsageMoves ==
  /\ which = "usage" /\ U!Next
  /\ UNCHANGED <<which, ofRetention, ofMigration, ofCursor, ofKeys, reader, events, aliases, calls, clock>>
ToolsMove ==
  /\ which = "tools" /\ T!Next
  /\ UNCHANGED <<which, ofUsage, ofRetention, ofMigration, ofCursor, ofKeys, reader, stored, usage, clock>>
Retention(step) ==
  /\ which = "retention" /\ step
  /\ UNCHANGED <<which, ofUsage, ofMigration, ofCursor, ofKeys, reader, stored, usage, clock>>
Migration(step) ==
  /\ which = "migration" /\ step
  /\ UNCHANGED <<which, ofUsage, ofRetention, ofCursor, ofKeys, reader, stored, aliases, clock>>
CursorMoves ==
  /\ which = "cursor" /\ A!CursorNext
  /\ UNCHANGED <<which, ofUsage, ofRetention, ofMigration, ofKeys, reader,
                 stored, usage, events, aliases, calls, clock>>
KeysMove ==
  /\ which = "keys" /\ A!KeyNext
  /\ UNCHANGED <<which, ofUsage, ofRetention, ofMigration, ofCursor, reader,
                 usage, events, aliases, calls>>
ReportsMove ==
  /\ which = "reports" /\ R!Next
  /\ UNCHANGED <<which, ofUsage, ofRetention, ofMigration, ofCursor, ofKeys, stored, aliases, calls>>

Next ==
  \/ UsageMoves \/ ToolsMove \/ Retention(D!Steps) \/ Migration(M!Next)
  \/ CursorMoves \/ KeysMove \/ ReportsMove

Spec ==
  /\ Init /\ [][Next]_vars
  /\ WF_vars(Retention(D!RunStep)) /\ WF_vars(Retention(D!Day))
  /\ WF_vars(Migration(M!Launch)) /\ WF_vars(Migration(M!Migrate))

-----------------------------------------------------------------------------

\* Types of the tables, the archive files and the state of the runs, loops and
\* readers.
TypeOK ==
  CASE which = "usage" -> U!TypeOK
    [] which = "tools" -> T!TypeOK
    [] which = "retention" -> D!RetentionTypeOK
    [] which = "migration" -> M!TypeOK
    [] which = "cursor" -> A!CursorTypeOK
    [] which = "keys" -> A!KeyTypeOK
    [] which = "reports" -> R!TypeOK

\* The tables that say the same agree: those of a request's usage, the counts and
\* starts that migrations and projector keep, and the totals that the reports
\* make of them (UsageProjection, DomainMigration and Reports).
TablesAgree ==
  CASE which = "usage" -> U!TablesAgree
    [] which = "migration" -> M!MigratedTablesAgree
    [] which = "reports" -> R!TotalsAgree
    [] OTHER -> TRUE

\* Late news of a request is patched in and not taken for a conflict, and of a
\* quota the newest reading is shown (UsageProjection and AccountUsage).
NewsLands ==
  CASE which = "usage" -> U!NewsLands /\ U!NoFalseConflict
    [] which = "keys" -> A!NewestShown
    [] OTHER -> TRUE

\* Each thing counts once: a use of a tool in any order of its events and after
\* they were trimmed, a legacy row however often its migration was tried, a
\* token of Cursor that its server counts as well, a row of a listing
\* (ToolProjection, DetailRetention, DomainMigration, AccountUsage, Reports).
CountedOnce ==
  CASE which = "tools" -> T!EveryUseOnce
    [] which = "retention" -> D!FactsOutliveDetail
    [] which = "migration" -> M!BackfilledOnce
    [] which = "cursor" -> A!DayReported
    [] which = "reports" -> R!PagesOnce
    [] OTHER -> TRUE

\* Nothing is lost: deleted events are in an archive, no database of Core's is
\* refused, and a listing shows all that did not move (DetailRetention,
\* DomainMigration, Reports).
NothingLost ==
  CASE which = "retention" -> D!TrimmedIsArchived
    [] which = "migration" -> M!OnlyDamagedRefused
    [] which = "reports" -> R!PagesComplete
    [] OTHER -> TRUE

\* Old events go, again and again; and however often Core is killed while it
\* migrates, it gets up in the end (DetailRetention and DomainMigration).
Settles ==
  []<>(CASE which = "retention" -> D!OldDetail(month) = {}
         [] which = "migration" -> at = M!Up \/ M!Damaged
         [] OTHER -> TRUE)

\* A sentence of the specification that the code does not keep (Reports).
SessionsAddUp == which = "reports" => R!SessionsAddUp
=============================================================================
