--------------------------- MODULE DomainMigration ---------------------------
(***************************************************************************)
(* How Core takes over the database it finds (apps/core/src/app.ts,         *)
(* legacy-schema.ts, domain-migrations.ts, domain-backfill.ts and           *)
(* domain-reconciliation.ts).  The legacy tables are brought up to date     *)
(* statement by statement; then each migration is one transaction with its  *)
(* marker.  Core can be killed between any two of them and is started       *)
(* again.  What is up then takes new events and loses trimmed ones.         *)
(*                                                                         *)
(* Abstracted: of a legacy row its identity, its origin and its input       *)
(* tokens (the other counters are copied); indexes; a vendor's default      *)
(* source instance is named by the vendor.                                  *)
(***************************************************************************)
EXTENDS Integers, FiniteSets, FiniteSetsExt

CONSTANTS
  LegacyContents,  \* contents of the legacy tables, as sets of rows
                   \* [table, id, session, vendor, adapter, from, fresh, cache]
  OldEvents,       \* what older canonical releases have projected, and
  NewEvents,       \* what may be projected: [id, session, vendor, adapter, start]
  MaxStops         \* bound: times Core ends

\* The vendor and the adapter of a row that is from before these columns.
CONSTANT Absent

\* Rows are named by table and id.  Only ZCode's adapter writes as zcode-db, and
\* the releases that had no name for ZCode took it for OpenCode's; only Claude's
\* writes as claude-transcript.
Tables == {"sessions", "tool_events", "token_usage_events", "code_edits"}
LegacyRow(r) ==
  /\ DOMAIN r = {"table", "id", "session", "vendor", "adapter", "from", "fresh", "cache"}
  /\ r.table \in Tables /\ r.fresh \in Int /\ r.cache \in Int
  /\ r.adapter = "zcode-db" => r.vendor \in {"opencode", "zcode"}
  /\ r.vendor = "codex" => r.adapter # "claude-transcript"
MigrationAssumption ==
  /\ MaxStops \in Nat /\ IsFiniteSet(OldEvents) /\ Absent \notin {"claude-code", "codex", "zcode"}
  /\ \A e \in OldEvents : e.start \in BOOLEAN /\ \A f \in OldEvents : e.id = f.id => e = f
  /\ \A e \in OldEvents \cup NewEvents : e.adapter = "zcode-db" => e.vendor = "zcode"
  /\ \A rows \in LegacyContents :
       /\ IsFiniteSet(rows) /\ \A r \in rows : LegacyRow(r)
       /\ \A r, q \in rows : r.table = q.table /\ r.id = q.id => r = q

Latest == 9
CodexMarker == -1

\* Where buildApp is, besides the migration 0 to 9 that is next.
Up == Latest + 1
Upgrading == -1
Off == -2
Refused == -3

Columns == {"timing", "service_tier", "credit"}

\* usage_source: what its input means and which adapters may say it.
Registry(from) ==
  CASE from = "claude-transcript" -> [gross |-> FALSE, adapters |-> {"claude-transcript"}]
    [] from = "opencode-message" -> [gross |-> TRUE, adapters |-> {"opencode-db", "zcode-db", "mimo-db"}]
    [] from = "codex-rollout" -> [gross |-> TRUE, adapters |-> {"codex-rollout"}]
    [] OTHER -> [gross |-> FALSE, adapters |-> {}]

VARIABLES
  at,          \* the migration that is next, or Up, Upgrading, Off or Refused
  marks,       \* versions in schema_migrations
  alien,       \* a table of someone else's is in the file
  legacy,      \* the rows of the legacy tables, with their input tokens
  canonical,   \* the canonical tables exist
  columns,     \* later columns of usage_events that exist
  events, sessions, calls, usage, pending, invalid,
  count,       \* projection_watermarks.event_count, with its triggers
  stops

tables == <<events, sessions, calls, usage, pending, invalid, count, columns, canonical>>
vars == <<at, marks, alien, legacy, tables, stops>>

-----------------------------------------------------------------------------
(* The databases that can be found. *)

\* What the row's release wrote as input: gross sources with the cache; codex
\* only since it left its marker.
Written(r, marked) ==
  r.fresh + (IF Registry(r.from).gross /\ (r.vendor # "codex" \/ marked) THEN r.cache ELSE 0)

\* An event and its session as release v of the canonical schema left them.
StoredBy(v, e) ==
  [id |-> <<"event", e.id>>, session |-> e.session, source |-> e.vendor, adapter |-> e.adapter,
   vendor |-> IF e.vendor = "zcode" /\ v < 3 THEN "opencode" ELSE e.vendor]
SessionBy(v, e) ==
  [source |-> e.vendor, session |-> e.session, adapter |-> Absent,
   vendor |-> IF e.vendor = "zcode" /\ v < 3 THEN "opencode" ELSE e.vendor,
   started |-> e.start \/ v >= 7]

FoundLegacy ==
  /\ marks \in {{}, {CodexMarker}}
  /\ \E rows \in LegacyContents :
       legacy = {[row |-> r, input |-> Written(r, CodexMarker \in marks)] : r \in rows}
  /\ alien \in BOOLEAN
  /\ canonical = FALSE /\ columns = {} /\ count = 0
  /\ events = {} /\ sessions = {}

FoundCanonical ==
  \E v \in 1..(Latest + 1) :
    /\ marks = 0..v
    /\ legacy = {} /\ alien = FALSE /\ canonical = TRUE
    /\ columns = (IF v >= 6 THEN {"timing"} ELSE {})
                   \cup (IF v >= 8 THEN {"service_tier"} ELSE {})
                   \cup (IF v >= 9 THEN {"credit"} ELSE {})
    /\ events = {StoredBy(v, e) : e \in OldEvents}
    /\ sessions = {SessionBy(v, e) : e \in OldEvents}
    /\ count = IF v >= 4 THEN Cardinality(OldEvents) ELSE 0

Init ==
  /\ at = Off /\ stops = 0
  /\ FoundLegacy \/ FoundCanonical
  /\ calls = {} /\ usage = {} /\ pending = {} /\ invalid = {}

-----------------------------------------------------------------------------
(* Before the migrations. *)

Launch ==
  /\ at = Off
  /\ at' = Upgrading
  /\ UNCHANGED <<marks, alien, legacy, tables, stops>>

\* initializeLegacySchema: the columns that a table lacks get their defaults.
DefaultAdapter(table) ==
  IF table = "token_usage_events" THEN "claude-transcript" ELSE "claude-hook"
UpToDate(l, some) ==
  IF l.row.vendor = Absent /\ l.row.table \in some
  THEN [l EXCEPT !.row.vendor = "claude-code", !.row.adapter = DefaultAdapter(l.row.table)]
  ELSE l

LegacySchema ==
  /\ at = Upgrading
  /\ at' = 0
  /\ legacy' = {UpToDate(l, Tables) : l \in legacy}
  /\ UNCHANGED <<marks, alien, tables, stops>>

\* validateMigrationVersions and validateDatabaseShape.
Acceptable ==
  /\ \A v \in marks : v <= Latest
  /\ ~alien
  /\ canonical => 1 \in marks

Baseline ==
  /\ at = 0
  /\ IF Acceptable
     THEN at' = 1 /\ marks' = marks \cup {0}
     ELSE at' = Refused /\ UNCHANGED marks
  /\ UNCHANGED <<alien, legacy, tables, stops>>

-----------------------------------------------------------------------------
(* Migration 1: the canonical tables and what the legacy tables tell. *)

In(table) == {l \in legacy : l.row.table = table}
EventId(l) == <<l.row.table, l.row.id>>

Registered(l) == l.row.adapter \in Registry(l.row.from).adapters

\* upsertLegacyUsage: codex input is without its cache until the marker is set.
StoredAlways(l) == l.input + (IF l.row.vendor = "codex" THEN l.row.cache ELSE 0)
StoredInput(l) ==
  l.input + (IF l.row.vendor = "codex" /\ CodexMarker \notin marks THEN l.row.cache ELSE 0)
Displayed(l) == StoredInput(l) - (IF Registry(l.row.from).gross THEN l.row.cache ELSE 0)

LegacyEvent(l) ==
  [id |-> EventId(l), session |-> l.row.session, source |-> l.row.vendor,
   vendor |-> l.row.vendor, adapter |-> l.row.adapter]
LegacySession(l) ==
  [source |-> l.row.vendor, session |-> l.row.session, adapter |-> l.row.adapter,
   vendor |-> l.row.vendor, started |-> TRUE]
LegacyUsage(l) ==
  [id |-> EventId(l), source |-> l.row.vendor, vendor |-> l.row.vendor, displayed |-> Displayed(l)]

UsageRows == In("token_usage_events")
BackfilledEvents == {LegacyEvent(l) : l \in legacy}
BackfilledSessions == {LegacySession(l) : l \in In("sessions")}
BackfilledCalls == {<<l.row.vendor, l.row.session, l.row.id>> : l \in In("tool_events")}
Pending == {EventId(l) : l \in {m \in UsageRows : ~Registered(m)}}
Invalid == {EventId(l) : l \in {m \in UsageRows : Registered(m) /\ Displayed(m) < 0}}
BackfilledUsage == {LegacyUsage(l) : l \in {m \in UsageRows : Registered(m) /\ Displayed(m) >= 0}}

\* reconcileLegacyMigration: the counts, the buckets, the calls, and the sum of
\* the usage against one made from the legacy rows, but for codex.
Buckets(l) == {b \in 1..3 : EventId(l) \in <<{u.id : u \in BackfilledUsage}, Pending, Invalid>>[b]}
Independent(u) ==
  LET l == CHOOSE m \in UsageRows : EventId(m) = u.id
  IN  IF l.row.vendor = "codex" THEN u.displayed
      ELSE l.input - (IF Registry(l.row.from).gross THEN l.row.cache ELSE 0)

Reconciled ==
  /\ Cardinality(BackfilledEvents) = Cardinality(legacy)
  /\ \A l \in UsageRows : Cardinality(Buckets(l)) = 1
  /\ Cardinality(BackfilledCalls) = Cardinality(In("tool_events"))
  /\ MapThenSumSet(LAMBDA u : u.displayed, BackfilledUsage)
       = MapThenSumSet(LAMBDA u : Independent(u), BackfilledUsage)

\* One transaction: tables, rows and marker, or nothing of it.
CreateCanonical ==
  /\ at = 1 /\ 1 \notin marks
  /\ IF Reconciled
     THEN /\ events' = BackfilledEvents /\ sessions' = BackfilledSessions
          /\ calls' = BackfilledCalls
          /\ usage' = BackfilledUsage /\ pending' = Pending /\ invalid' = Invalid
          /\ canonical' = TRUE /\ columns' = Columns
          /\ marks' = marks \cup {1} \cup
               (IF \E l \in UsageRows : l.row.vendor = "codex" THEN {CodexMarker} ELSE {})
          /\ at' = 2
     ELSE /\ at' = Refused
          /\ UNCHANGED <<marks, events, sessions, calls, usage, pending, invalid, canonical, columns>>
  /\ UNCHANGED <<alien, legacy, count, stops>>

-----------------------------------------------------------------------------
(* Migrations 2 to 9.  A migration whose marker is there is passed over.     *)

Skip ==
  /\ at \in 1..Latest /\ at \in marks
  /\ at' = at + 1
  /\ UNCHANGED <<marks, alien, legacy, tables, stops>>

Apply(v) ==
  /\ at = v /\ v \notin marks
  /\ marks' = marks \cup {v}
  /\ at' = v + 1
  /\ UNCHANGED <<alien, calls, pending, invalid, canonical, stops>>

AddIndexes ==
  /\ Apply(2) \/ Apply(5)
  /\ UNCHANGED <<legacy, events, sessions, usage, count, columns>>

\* 003: rows of the adapter zcode-db, and usage of the source zcode.
OfZcode(x) == IF x.adapter = "zcode-db" /\ x.vendor = "opencode" THEN [x EXCEPT !.vendor = "zcode"] ELSE x
SplitZcode ==
  /\ Apply(3)
  /\ events' = {OfZcode(e) : e \in events}
  /\ sessions' = {OfZcode(s) : s \in sessions}
  /\ legacy' = {[l EXCEPT !.row = OfZcode(@)] : l \in legacy}
  /\ usage' = {IF u.source = "zcode" /\ u.vendor = "opencode" THEN [u EXCEPT !.vendor = "zcode"] ELSE u :
                u \in usage}
  /\ UNCHANGED <<count, columns>>

\* 004: the count and the triggers that keep it.
CountEvents ==
  /\ Apply(4)
  /\ count' = Cardinality(events)
  /\ UNCHANGED <<legacy, events, sessions, usage, columns>>

\* 006, 008 and 009: a column, unless the table was created with it.
ColumnOf(v) == CASE v = 6 -> "timing" [] v = 8 -> "service_tier" [] v = 9 -> "credit"
AddColumn ==
  \E v \in {6, 8, 9} :
    /\ Apply(v)
    /\ columns' = columns \cup {ColumnOf(v)}
    /\ UNCHANGED <<legacy, events, sessions, usage, count>>

\* 007: a session without a start gets that of its earliest event.
EventsOf(s) == {e \in events : e.source = s.source /\ e.session = s.session}
SeedStart ==
  /\ Apply(7)
  /\ sessions' = {[s EXCEPT !.started = @ \/ EventsOf(s) # {}] : s \in sessions}
  /\ UNCHANGED <<legacy, events, usage, count, columns>>

-----------------------------------------------------------------------------
(* Core is up: the projector inserts events with their session, and the      *)
(* retention deletes events.                                                *)

Counted(n) == IF 4 \in marks THEN count + n ELSE count

SameSession(s, e) == s.source = e.vendor /\ s.session = e.session
Started(e) ==
  [source |-> e.vendor, session |-> e.session, vendor |-> e.vendor, started |-> TRUE,
   adapter |-> IF \E s \in sessions : SameSession(s, e)
               THEN (CHOOSE s \in sessions : SameSession(s, e)).adapter ELSE Absent]

Project(e) ==
  /\ at = Up
  /\ <<"event", e.id>> \notin {x.id : x \in events}
  /\ events' = events \cup {StoredBy(Latest, e)}
  /\ count' = Counted(1)
  /\ sessions' = {s \in sessions : ~SameSession(s, e)} \cup {Started(e)}
  /\ UNCHANGED <<at, marks, alien, legacy, calls, usage, pending, invalid, columns, canonical, stops>>

Trim(e) ==
  /\ at = Up
  /\ events' = events \ {e}
  /\ count' = Counted(-1)
  /\ UNCHANGED <<at, marks, alien, legacy, sessions, calls, usage, pending, invalid, columns, canonical, stops>>

\* Core ends or is killed; the statements for the legacy tables may then be
\* done for some of them.
Stop ==
  /\ at # Off /\ stops < MaxStops
  /\ stops' = stops + 1
  /\ at' = Off
  /\ \E some \in (IF at = Upgrading THEN SUBSET Tables ELSE {{}}) :
       legacy' = {UpToDate(l, some) : l \in legacy}
  /\ UNCHANGED <<marks, alien, tables>>

Migrate ==
  LegacySchema \/ Baseline \/ CreateCanonical \/ Skip \/ AddIndexes \/ SplitZcode \/ CountEvents
    \/ AddColumn \/ SeedStart

Next ==
  \/ Launch \/ Migrate \/ Stop
  \/ \E e \in NewEvents : Project(e)
  \/ \E e \in events : Trim(e)

Spec == Init /\ [][Next]_vars /\ WF_vars(Launch) /\ WF_vars(Migrate)

-----------------------------------------------------------------------------

TypeOK ==
  /\ at \in Refused..Up
  /\ marks \subseteq CodexMarker..(Latest + 1)
  /\ alien \in BOOLEAN /\ canonical \in BOOLEAN
  /\ columns \subseteq Columns
  /\ count \in Nat /\ stops \in 0..MaxStops

\* The database is of a later release, or not one of Core's.
Damaged == alien \/ Latest + 1 \in marks

\* No database that a release left, killed wherever it was, is refused: neither
\* for its shape nor by the reconciliation; and Core is never up on one that is
\* not its own (domain-migrations.ts, validateDatabaseShape; app.ts, buildApp).
OnlyDamagedRefused == (at = Refused => Damaged) /\ (at = Up => ~Damaged)

\* Each legacy usage row is in one of three tables, with its own input however
\* often the migration was tried and whether or not codex had been converted
\* before; each tool row is one call (domain-backfill.ts, upsertLegacyUsage).
BackfilledOnce ==
  canonical /\ legacy # {} =>
    /\ \A l \in UsageRows :
         /\ \A u \in usage : u.id = EventId(l) => u.displayed = l.row.fresh
         /\ Cardinality({b \in 1..3 : EventId(l) \in <<{u.id : u \in usage}, pending, invalid>>[b]}) = 1
         /\ (EventId(l) \in invalid) = (l.row.fresh < 0 /\ Registered(l))
    /\ Cardinality(usage) + Cardinality(pending) + Cardinality(invalid) = Cardinality(UsageRows)
    /\ Cardinality(calls) = Cardinality(In("tool_events"))

\* The kept count is the number of events, and a session of a running Core that
\* has events has a start (migrations 004 and 007 with the projector's own
\* fallback).
MigratedTablesAgree ==
  /\ 4 \in marks => count = Cardinality(events)
  /\ at = Up =>
       /\ 0..Latest \subseteq marks /\ columns = Columns
       /\ \A s \in sessions : EventsOf(s) # {} => s.started
       /\ \A e \in events : e.adapter = "zcode-db" => e.vendor = "zcode"

\* In the end Core is up, unless the database is not its own.
EndsUp == <>[](at = Up \/ Damaged)
=============================================================================
