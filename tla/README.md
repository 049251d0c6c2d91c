# agent-metrics in TLA+

Specifications of the parts of agent-metrics whose correctness depends on the
order of things: the synchronization of sources in Core, the lock and the log
they write to, the adapters that read foreign files and databases while those
are being written, the tables that Core makes of the log and the reports it
makes of the tables, and, on the desktop, the supervisor of the processes, the
widget and the dashboard's queries. Each specification is checked by TLC on small
instances; the safety properties of fourteen of them are proved with TLAPS for every
value of their constants.

- [The system](#the-system)
- [Modules and code](#modules-and-code)
- [Runs](#runs): what is checked, with which bounds
- [Fairness](#fairness)
- [Findings](#findings): where code and documents disagree
- [Proofs](#proofs)
- [What is not modelled](#what-is-not-modelled)
- [Plan](#plan)

`PROJECT.json` lists components, runs, mutants, hazards, theorems and, under
`map`, the lines each definition was translated from.

## The system

Vendors' agents leave traces: hook calls (Claude Code), rollout files (Codex),
SQLite databases (OpenCode, ZCode, MiMo, Cursor), JSONL transcripts (Claude, Kimi
Code, DSH, WorkBuddy) and logs (CodeBuddy). Collectors and adapters turn them into
normalized events and append these to one file, the *canonical log*
`events.jsonl`. Core projects the log into SQLite and serves queries. The Desktop
starts Core, the hook watcher and the hook parser as child processes and shows
what Core answers.

    Claude hooks -> collect (a process per hook) -> raw log -> hook parser --+
                                                                            |
    rollouts, databases, transcripts -> adapters (in Core) --- lease ------>|
                                          ^                                 v
          coordinator, light refresh -----+            events.jsonl (+ rotation)
                                                             |
                                     reader and projector (in Core), cursor
                                                             |
    vendors' account APIs -> account usage loops ---+        v
                                                    +-> SQLite <- retention,
                                                         |        migrations
                                                         v
    Desktop supervisor -> {watcher, parser, Core}     reports -> dashboard, widget

### Components

For each component: its state, its operations, what is hard, and what makes it
correct. The module that models it is named in brackets.

**Sync coordinator** [SyncCoordinator]. `apps/core/src/sync-coordinator.ts`,
`sync-run-store.ts`, `sync-utils.ts`. State: a state and an enabled flag per
adapter, a map of runs, the queue, the set of active runs, the table `sync_runs`.
Operations: trigger, manualSync, initial and periodic sync, setEnabled, getStatus
(which refreshes freshness and prunes), markBackgroundSuccess, shutdown;
internally accept, start, settle, drain. Hard: requests that meet in the queue,
answers after a timeout or a shutdown, saves that throw in the middle, crashes with
rows in flight. Correct if no adapter overlaps itself, the slot limit holds and no
slot is lost, the views of accepted work agree, ended runs keep their outcome, no
row stays in flight without an owner, and every accepted run ends.

**Canonical writer lease** [WriterLease]. `raw-ingest.ts` lines 355-570,
`event-log-projector.ts` lines 600-690. State: the lock file and, per caller, a
place in the protocol. Operations: exclusive open, write of the pid, read of
another's lock, unlink of a stale one, release, retry after a delay, abort. Hard:
the file is created and named in two steps; the unlink acts on a path. Correct if
one task holds it at a time and a dead owner's lock does not stop everyone.

**Event log, reader and projector** [EventLog]. `raw-ingest.ts`,
`raw-primitives.ts`, `event-log-projector.ts`. State: the file; the row in
`ingestion_state` with offset, identity and prefix hash; the projected rows; the
signature of the last complete drain. Hard: appends cut short, files that are
replaced, signatures taken before or after a read, rollbacks and deaths. Correct
if reading never resumes behind a line that was not dealt with, the shortcut skips
nothing, and each record is projected in the end.

**Log rotation and cursor repair** [EventLog]. `event-log-rotation.ts`,
`event-log-projector.ts` lines 556-598, `server.ts`. Before Core serves: trim,
rename away, rename in, undo, repair the cursor, while the hook parser keeps
appending. Correct if recent records survive in the log or are already projected.

**Hook collector and parser** [HookPipeline]. `apps/cli/src/hooks`. State: the raw
log, a snapshot file per tool call, the parser's lock and its state file with the
number of lines done. Hard: raw lines read while they are written, two parsers
after a lock was broken, a death between the events and the state, edits of calls
that overlap. Correct if a line that counts as done has its events, a line is
repeated only after a failure, edits are reported, and no line waits for ever.

**Codex adapter and event ledger** [CodexSync, CodexRollout, LedgerAdapter].
`packages/adapters-codex`, `packages/shared-utils/src/ledger.ts`. State on disk: a
cursor (a signature per rollout) and the ledger of appended keys; none in memory
between calls. It reads files that Codex is still writing, from their first line
each time. Hard: growth during a sync, deaths between append, cursor and ledger,
torn lines, a lost ledger; and that the first form in which an event is appended is
the one that stays. Correct if the cursor stays behind the log, repetitions are
bounded by failures, each event lands, and its timing is that of its own response.

**Source light refresh** [CodexSync, WriterLease]. `source-light-refresh.ts`,
`app.ts` lines 398-460. A tick counter and an in-flight flag. Each tick skips if the
coordinator has work; every n-th reconciles.

**The other adapters.** Claude transcripts [TranscriptSync], Kimi Code
[KimicodeSync] and DSH [DshSync] keep a position and a parse state per file;
OpenCode, ZCode and MiMo [OpenCodeSync] a time over a database that is written
between their SELECTs; Cursor [CursorSync] reads four places after each other that
supplement each other. WorkBuddy and the CodeBuddy log [RequestLogs] see the same
requests and consult each other's ledger. Correct if they do what [Ingestion]
says: the saved cursor stands for events that have landed, only what was written
lands, and nothing is repeated unless something failed; if the records that a sync
can find land again and again; and if timing goes to the usage it belongs to.

**Domain projection of usage** [UsageProjection]. `domain-projection.ts`. The rows
of `normalized_events`, `event_observations`, `usage_events`, `event_diagnostics`.
Hard: usage arrives bare, with timing, credit, cache split or model in any order,
and again after a rewind. Correct if the tables tell the same of each request,
late news is patched in and conflicts are recorded for real ones only.

**Tool call merging** [ToolProjection]. `domain-projection.ts`, `tool-aliases.ts`.
A use is seen by hooks and transcript, under equal or different ids, in any order.
Correct if each use has one row whatever the order.

**Detail retention** [DetailRetention, beside ToolProjection].
`detail-retention.ts`: archive, delete in a transaction, state file. Hard: rows
inserted between archive and delete, deaths between the steps. Correct if every
deleted row is in an archive, facts outlive their detail, and trimming goes on.

**Migrations, backfill, reconciliation** [DomainMigration]. `legacy-schema.ts`,
`domain-migrations.ts`, `domain-backfill.ts`, `domain-reconciliation.ts`. Databases
of every release; Core killed between any two statements or transactions. Correct
if each legacy row is counted once, only damaged databases are refused, and the
start comes to its end.

**Account usage loops** [AccountUsage]. `cursor-official-refresh.ts`,
`cursor-account-usage.ts`, `official-key-usage*.ts`, `key-usage-refresh.ts`. Two
writers of Cursor's days that do not know of each other, around midnight; readings
of quotas from logs, APIs and a scan at startup. Correct if a token is not reported
twice and the newest reading is the one shown.

**Queries** [Reports]. `query-support.ts`, `time-scope.ts`,
`canonical-queries.ts`, `aggregate-queries.ts`, `session-queries.ts`. Totals of a
window and listings in pages while the tables change. Correct if the totals agree
and a listing misses nothing and repeats nothing.

**Desktop runtime supervisor** [RuntimeSupervisor].
`apps/desktop/src/runtime/runtime-supervisor.ts`. State per child: current record,
tracker (ownership, failure window, latch, error, stable timer), restart timer; a
queue of lifecycle operations. Hard: continuations of replaced records, operations
queued behind long waits, children that ignore SIGTERM. Correct if a child never
has two processes, nothing survives stop, and what dies comes back or is latched.

**Widget** [Widget]. `main-v2.ts`, `widget-state.ts`, `WidgetPage.tsx`. Collapsed,
expanded or pinned; told of the pointer by the renderer, by native input and by a
poll, each of which may miss, repeat or delay an event. Correct if a widget the
cursor left retracts and no late event takes back a pin.

**Queries of the dashboard** [QueryClient]. `query-client.ts`, `query-hooks.ts`. A
cache with an entry per key, polling chains, requests that are shared, cancelled,
timed out, overtaken. Correct if one request per key counts, no answer takes back a
newer one, and a view that can poll becomes current again and again.

**Not modelled**: hook settings watcher, routes and server wiring, schemas, source
parsers as such, desktop windows and settings, data root migration, the legacy
supervisor, the pages' rendering, tools; see [below](#what-is-not-modelled).

### How the modules meet

Components that share state are checked together: CodexSync has the light refresh
and the coordinator's sync as two callers of one adapter; RequestLogs two adapters
with two ledgers; HookPipeline collectors and parsers; DetailRetention extends
ToolProjection, so that projector and retention work on the same tables; EventLog
has writers, rotation, repair and projector on one file; DomainMigration goes on as
the projector after the last migration. Elsewhere a module takes its neighbour
as an environment that does whatever the neighbour may do:

| boundary | on the one side | on the other side |
|---|---|---|
| coordinator and adapters | SyncCoordinator: a promise that settles at any time, or never | CodexSync: `CoordinatorRun`, at any time |
| adapters and lease | WriterLease: a task that begins at any time | adapters: one call at a time |
| adapters and log | adapters: appends to `copies` | EventLog: `AppendLine`, by anybody, at any time |
| torn appends | CodexSync: `OtherTears` | EventLog: `TearLine` |
| parser and transcripts | HookPipeline: a call that may throw | TranscriptSync: two syncs that overlap |
| log and tables | EventLog: a batch and its cursor in one transaction | UsageProjection: `Advance` over a part of the log, `Rewind` |
| tables and reports | UsageProjection, ToolProjection: rows | Reports: `Project`, `Trim`, `Official` at any time |
| supervisor and Core | RuntimeSupervisor: a process that crashes, obeys or ignores SIGTERM, answers or does not | SyncCoordinator and EventLog: `Crash`, `Die`, then a start |
| Core and dashboard | QueryClient: an answer of some version between question and now | Reports |

The adapters assume that the lease is exclusive, which WriterLease shows to fail in
one interleaving (demonstration 1 under [Findings](#findings)); what two adapters do
in that case is not modelled.

## Modules and code

A JavaScript handler, or a continuation up to its next `await`, runs without
interruption: it is one action. A loop of a synchronous handler takes one step per
iteration under a variable that keeps other handlers out. Code that awaits the
file system is cut at each await where another process, or another handler, can
get in between. A better-sqlite3 transaction is one step.

Inside the modules some operators come in pairs: `ReplacesOlder` and
`ReplacesAny`, say. The second is the first with a plausible mistake; it is used
nowhere, and `PROJECT.json` names, for every property, the mistake that breaks it.

**SyncCoordinator.** One action per handler of the class. `Accept` is one adapter's
turn inside a request; `turn` keeps other handlers out until all have had theirs.
`execute` is `Timeout`, `SettleSuccess`, `SettleFailure`, `SettleIgnored` and the
variants in which `persistence.save` throws; `DrainStart` and `DrainDone` are the
drain. `Crash` and `Restart` keep the table alone; `LoadedRow` is what the store's
`load` does to rows in flight. Abstracted: counters of results, wording, timestamps
that decide nothing; times are a bounded clock.

**WriterLease.** One action per file system call: `Open`, `Read`, `Break`,
`Reopen`, `Write`, `Release`, then `Retry`. A pid is a process and the number of
its life, so that a crashed owner's pid names nobody. `stolen` is a history
variable: owners whose file somebody else has unlinked.

**EventLog.** A line is a record id and whether it parses; offsets count lines, and
sizes count two per line and one for a torn end. `Identity` and `PrefixTail` stand
for the two 4 KiB hashes with the lines themselves. A birth time may be inherited
by a file made anew at the same path (`Tunnelling`, as NTFS does it for some
seconds). `ReadChunk` is one read by the ingest, `Commit` the transaction and what
follows it. `Boot`, `Trim`, `MoveAway`, `Install` and `Repair` are the steps of a
start. A line longer than a read is an `Oversized` record; it counts as reported,
like a malformed line or one that fails the schema.

**HookPipeline.** `ToolStep` is what a collector does for one hook; a line longer
than one write is seen half written (`RestOfLine`). A pass of a parser is `LoadState`,
`ReadRaw`, then per line `AppendEvent`, `Compare`, `Unlink` and `AppendEdit`, and now
and then `SaveBegins` and `SaveEnds`; `Throw` and `Die` come at any of them, and the
lock ages. One file
stands for those of a workspace, and its content is the set of calls that changed
it.

**CodexSync.** A line of a rollout is an item, a `token_count` or a
`token_usage_record`. The steps follow `syncCodexRollouts`: `Load`, `Reconcile`,
`Stat`, `Read`, `AppendEvent`, `FileDone`, `WriteCursor`, `PersistLedger`; `Fail` at
any of them is a throw or a death, which leave the same files behind, and which may
also tear the line being appended or lose the file being replaced. `copies` counts
the intact lines of each key in the log. The signature is the size alone: the
code also compares the mtime, which makes it read files again that did not grow and
skip none that did.

**CodexRollout.** What one parse of a rollout makes of its lines, as a function of
the lines: turns, models, calls that wait for their output, the windows of first
token and decoding. Since each sync parses from the first line and the ledger
keeps what landed before, the model shows what is lost or frozen by cutting the
file at any line.

**Ingestion, LedgerAdapter and the adapters on it.** LedgerAdapter has the steps
that adapters share: load of cursor and ledger (with the fallback to the log),
append under the ledger, save of cursor and ledger, throws and deaths. KimicodeSync,
DshSync, CodexRollout, OpenCodeSync and CursorSync extend it with their read;
TranscriptSync has its own lock and overlapping syncs; RequestLogs two adapters. A
source is a script of what the vendor's program writes, record by record, next to
the sync. Ingestion is the abstract promise: `written`, `landed`, `repeated`,
`done`, and whether something `failed`. Each adapter defines these as state
functions, and MCAdapters substitutes them (`I == INSTANCE Ingestion WITH ...`).

**UsageProjection.** A row is the set of attributes (facts) a request has been told
of; the semantic fingerprint is that set, as it covers all attributes. `Emit` is a
source that tells news, `Advance` a batch in a transaction, `Rewind` the cursor
that starts anew. `TimingNews`, `CreditNews`, `CacheNews` are the guards of the
three patches, `Healed` the model that comes later, `Refuse` the conflict.

**ToolProjection, DetailRetention.** A sighting is an event of a use with the id it
is seen under, its side, type and time. `RowOf` recomputes an ordinary call;
`AliasesOf` pairs, `Rebuilt` rebuilds a Claude session, as in `tool-aliases.ts`.
DetailRetention adds `Run`, `OpenArchive`, `ArchiveRow`, `FinishArchive`, `Delete`,
`WriteState`, `Fail`.

**DomainMigration.** `at` is the next statement or migration; each migration is one
action with its marker (`Apply`), `Stop` and `Launch` come between any two. The backfill's
three outcomes for usage and the reconciliation's counts are functions of the rows.

**AccountUsage.** Two parts with variables of their own: the days of Cursor's
official rows (`LoopAsk`, `LoopAnswer`, `LoopWrite`, `SyncAsk`, `SyncAnswer`,
`Close`) and the readings of quotas (`StartScan`, `ReadFile`, `EndScan`, `AskApi`,
`AnswerApi`, `Persist`).

**Reports.** Windows, the shadowing of Cursor's local rows by official ones, four
totals and two paged listings as functions of the tables (`Ordered` is the SQL's
ORDER BY: each row stands behind those that precede it); a reader that asks for
page after page while `Project`, `Official`, `Trim` and `Tick` happen.

**RuntimeSupervisor.** The Desktop is one Node process: events wait until the
continuations of settled promises have run (`Quiet`). A launch makes a record; the
number of a record that nothing refers to any more is used again, so a bounded set
of numbers covers any history. A readiness loop makes two checks before its
deadline instead of one every 100 ms. Timers fire at any later step. The runs begin
with the `start()` that `main-v2.ts` makes.

**Widget.** `w` is what the main process knows; each handler is an operator from `w`
to the next `w`, given the zone the cursor is in by then. `mail` are the renderer's
messages under way. The zones are those the modes tell apart; where the window
stands is left out, that it moves under the cursor is not.

**QueryClient.** `cache` is the client: entries, loaders that have not come back, the
key the hook listens to and the state the hook has by that. A request keeps its
entry's generation as long as `live` says. `waits`, `held` and `loose` count the
hook's polling chains by what they wait for. What Core would answer is a version.

MCAdapters, MCDomain and MCLiveness put modules that share nothing side by side:
`which` names the one that moves and the variables of the others are 0. One run then
asks one question, such as "does each adapter implement Ingestion?", of all of them.

## Runs

Bounds are CONSTANTS; each module names its own. "Fault" is whatever a module counts
under `MaxFaults`. The twelve runs:

| run | checks | instance |
|---|---|---|
| `coordinator` | types, agreement of the views, no idle slot, rows in flight, stable outcomes, retention | 3 adapters, one of which may be registered disabled, 1 slot, 3 run ids, clock to 2, one failing save |
| `lease` | types, one undisturbed owner, stale locks are broken | 2 tasks in one process and 1 in another, a crash of each, one failing call |
| `event_log` | types, the cursor never skips, the shortcut is safe, every record is projected | 3 records (old, oversized, ordinary), 2 appends, 1 torn append, 1 fault, hashes of 1 and 2 lines |
| `runtime` | types, one process per child, quiet after stop, no helper is forgotten | a helper and Core, one start, one restart, one stop, 2 faults, a window of 1 restart, a foreign Core that comes or goes once |
| `codex` | types, the cursor stays behind the log, bounded copies, every event lands | a recent rollout of 2 lines and an old one of 1, every 2nd tick reconciles, 1 fault |
| `codex_mirror` | finding 1 | no faults |
| `hooks` | types, done lines have landed, repetitions need a failure, edits are reported, every line lands | 1 tool call that changes a file, 2 parsers, a flush after each line, 2 faults |
| `adapters` | types, own timing, each adapter implements Ingestion, every record lands | eight adapters, scripts of 3 to 15 lines, 1 fault |
| `domain` | types, tables agree, late news lands, each thing counts once, nothing is lost, trimming and migrations end | seven parts, see below |
| `tool_alias` | finding 2 | two uses of one tool, five seconds apart |
| `liveness` | types, no overlap, nothing newer or pinned is taken back, everything settles | coordinator: 2 adapters (one toggled), 2 slots, 3 run ids; supervisor: 1 fault; widget: 2 acts of the user, 1 message under way; queries: 2 scopes, 2 versions, 3 turns, 1 fault |
| `widget_hidden` | finding 3 | the same |

Six configurations beside the runs show what an excepted case leads to. Each names one
invariant that TLC violates, so they are demonstrations and part of no verdict:
`lease_exclusive`, `event_log_rebuild`, `event_log_rotation`, `runtime_restart`,
`request_credit`, `report_totals`.

What the runs show beyond their names:

- *Coordinator.* Three adapters on one slot are the smallest system with a run
  executing, one that waits and one that coalesces or overtakes; three run ids let a
  run end and its slot be handed on twice. A crash costs no bound, so restarts happen
  at every point, with any mix of rows. `RunStateAgreement` stops at the first
  failed save, after which the code leaves an adapter pinned to an ended run
  (`sync-coordinator.ts:516`); the step is modelled, and `NoIdleSlot`, `NoOrphanRow`
  and `TerminalStable` hold through it.
- *Lease.* The three tasks cover contention within a process, where the pid is alive,
  and between processes, where it may not be. `OneUndisturbedOwner` is what the
  exclusive open gives; that the design's one holder is more is demonstration 1.
- *Event log.* With a hash over one line and a tail of two, a file that rotation has
  replaced can agree with the cursor in identity, in the tail or in size, but must not
  in all. The torn append glues itself to the next record. A fault is a death of
  Core, a rolled back commit, a trim or a rename that fails.
- *Supervisor.* Two faults let a child die in its restart, or a timer outlive its
  record; a window of one restart makes the latch reachable with them. One helper
  stands for both: they are treated alike, have no readiness check, and share only the
  queue, in which Core is the other party.
- *Codex.* Two lines let a rollout grow between stat, read and mark; the old rollout
  is one that reconciliation passes over. `CopiesBounded` counts faults, so one fault
  must not cost two copies. `EveryEventLands` claims nothing once two faults have
  happened: a line torn by another writer *and* a death between the saved cursor and
  the saved ledger lose an event. The ledger never had the key, so reconciliation
  sees no ghost, and the cursor says the file was read.
- *Hooks.* Two faults are a lock that is broken and a death, or two failures of one
  pass. Lines that were taken half written are excepted everywhere: the code loses
  their events (`parser.ts:237`).
- *Adapters.* Each script has the records whose order matters to that adapter: a
  prompt without a timestamp between two timed ones; a call, its step and its result;
  a rollout of two turns with a mirrored and a repeated report; two parts of a row
  that is updated; two requests with one credit. The sync may be cut at every record,
  by a death, a throw or simply the end of what is written so far. The fault is
  followed by an unlimited number of further syncs.
- *Domain.* Usage: one request with timing, one with credit and cache split, one of
  another vendor, one whose split does not add up; a log of 4 events, 1 rewind. Tools:
  a Claude session of two uses, seen by hooks and transcript under the same and under
  different ids, and another vendor's. Retention: two cutoffs, sessions that go on after
  them, 1 fault. Migrations: databases with the rows of the first and the last release
  before the canonical tables, and those with one row less, killed twice. Cursor: two
  days, two tokens a day. Quotas: two files, an API, limits with two windows. Reports: five
  events of three sessions, four queries, pages of one row, a clock to 3.
- *Liveness.* One message of the renderer under way at a time; a late pair of a drag's
  begin and end, which pins the widget although design line 1363 says a drag must
  not, needs two and is not reached. Two scopes and three turns let a view go, come back and be
  hidden while its request is out.

`NewsLands` is for news of one kind at a time. `NothingLost` is for histories without
rows that are old when they are inserted between archive and delete. `CountedOnce`
leaves out listings between whose pages the retention trims, and a Claude session
that goes on after its events were trimmed. Each of these exceptions is a place
where the code does lose or repeat something; the hazards in `PROJECT.json` name the line.

The invariants of the proofs contain the properties that are proved; they were
themselves checked on these instances before being proved.

## Fairness

- *Coordinator*: weak fairness of the loops and of a start after a crash, because
  handlers run to completion and the Desktop restarts Core; strong fairness of each
  run's settlement. The latter assumes that adapters settle: nothing in the
  coordinator makes them, since its timeout only aborts a signal. A promise becomes
  settled and its continuation may have to wait for other handlers again and again,
  hence strong.
- *Lease*: weak fairness of each task's file step: calls of the file system return
  and retry timers fire. Nobody has to begin.
- *Event log*: weak fairness of the start and of the sync steps: Core is started again
  and syncs periodically (`app.ts` lines 363-372) and on requests. Nobody has to append.
- *Supervisor*: weak fairness of `Progress`: operations, timers and readiness checks
  come to an end. Exits are not fair: a child may ignore SIGTERM for ever, and is then
  killed.
- *Codex*: weak fairness of the sync's steps and of ticks, strong fairness of a
  reconciling tick that is not suppressed: an interval timer of 30 s, and a coordinator
  that is not at work at every tick that would reconcile.
- *Hooks*: weak fairness of each parser's steps (`follow.ts` calls the pass again
  whatever it throws), of the rest of a line being written, and of the ageing of a lock
  that its owner has left.
- *Adapters*: weak fairness of the sync's steps (periodic, and on requests), of the
  ageing of an abandoned lock; strong fairness of each of the two request adapters'
  starts, as each waits for the lease the other one holds.
- *Domain*: weak fairness of a retention run's steps, of the next day, of the start of
  Core and of its migrations. Nobody has to project.
- *Widget*: weak fairness of the receipt of messages, of the poll (an interval timer) and
  of both timers. The user does nothing of necessity.
- *Queries*: weak fairness of answers and timeouts. A request may fail or time out as
  often as `MaxFaults` allows.

## Findings

Found by a run:

1. **Usage counted twice** (`codex_mirror`, `codex.ts:655`). Whether mirrored usage is
   used is decided for each read of a rollout; a sync between the mirror and its
   `token_count` appends the one and the next sync the other. The comment at
   `codex.ts:43`: "so the two never double count".
2. **Tool uses paired crosswise** (`tool_alias`, `tool-aliases.ts:64`). A hook call
   whose native id the transcript knows is still paired by time with another call of
   the same tool. The design, line 417: matching native ids normalize directly.
3. **A hidden widget comes back** (`widget_hidden`, `main-v2.ts:328`). Hidden while it
   is expanded, it is collapsed by the poll and the close timer, and that shows it.
   The design, line 1349: "window hidden without changing mode".

Shown by the configurations beside the runs:

1. *Two holders of the lease* (`lease_exclusive`, `raw-ingest.ts:535`). A sync creates
   the lock file; another reads it before the pid is in it, takes the empty file for a
   dead owner's, unlinks it and creates its own. Section 11.1 of the architecture
   document: the log "has exactly one writer lease at a time".
2. *A new database beside an old log* (`event_log_rebuild`, `event-log-projector.ts:593`).
   Without an `ingestion_state` row the cursor repair at start takes the end of the log
   as the place up to which it was read. `docs/manual/data-retention.md:122` says that
   rebuilding brings everything back.
3. *A record lost in a rotation* (`event_log_rotation`, `event-log-rotation.ts:154`).
   The hook parser takes no lease and may append between the trim and the rename; the
   record is then in the archive only.
4. *Core is not restarted* (`runtime_restart`, `runtime-supervisor.ts:534`). A readiness
   loop of a replaced record sets a restart timer that keeps out the one of the current
   record, and then does nothing.
5. *A credit on the wrong request* (`request_credit`, `codebuddy-log-sync.ts:201`). The
   tail that is read again begins between a usage line and its billing line; credits
   pair by order. `codebuddy-log.ts:73`: "the paired credit must be attached to that
   same record".
6. *Totals that do not add up* (`report_totals`, `query-support.ts:31`). The
   acceptance invariant of the design (line 598) wants the sessions' totals to equal the
   overview's, and line 946 half-open intervals; session lists count shadowed rows of
   Cursor and end a window with `<`, the overview drops them and ends it with `<=`.

Read in the code while modelling, without a run of their own:

- *Coordinator.* An adapter that never settles stays `syncing` after its timeout
  (`sync-coordinator.ts:466`), although `sync-utils.ts:18` calls the timeout a hard cap. A
  save that throws in `completeSuccess` leaves adapter and run apart, although section
  12.2 has them commit together.
- *Usage.* An event with two kinds of news at once, credit and cache split of a request
  that was projected bare, fails all three patches and is lost as a conflict. After a
  rewind, patched requests are reported as conflicts once more. Lines that were counted
  by a legacy database are projected again after a rewind, beside their `legacy:` rows.
- *Tools.* A Claude session that goes on after its old events were trimmed is rebuilt
  from what is left: rows of old calls are deleted for good, although
  `data-retention.md:23` keeps them. The start and the finish of a hook call without a
  native id derive different ids.
- *Retention.* Old rows that are inserted between archive and delete are deleted without
  being archived; a second run in the same month truncates the archive of the first.
  Usage of trimmed events stays in the overview while its sessions leave the listings.
- *Migrations.* A legacy row with an empty `event_id` or adapter makes backfill and
  reconciliation disagree, so that each start is refused. Legacy ZCode usage stays under
  OpenCode after migration 003; a projected ZCode session without a source adapter is
  renamed only by its next event.
- *Account usage.* A failed request for "today" wipes the day's official rows and
  `persistCursorAccountUsage` has no time guard. The key usage tick does not look at
  `stopped` after its awaits. `official-key-usage-zcode.ts:98` wants an empty state to be
  rendered; `toKeyUsageResponse` drops it.
- *Reports.* An official day counts wholly in a window that has a part of it; its
  `cursor-official:<day>` session has no `domain_sessions` row. The widget counts tools
  by their start, the overview by their end if there is one. The overview counts session
  ids, which two vendors may share. Pages of calendar and rolling scopes are refused
  (`INVALID_CURSOR`) once the clock has moved.
- *Codex.* A `token_count` that repeats a total shortens the decoding window of the next.
- *Widget.* Late begin and end messages of the renderer after a native drag pin it.
  Unpinning sends "expanded", which is not persisted, so that a relaunch or a renderer
  crash brings a pinned widget up. A drag that a crash or the end of the window cuts
  short leaves its flags set until the next press. Any settings patch shows a hidden
  widget again. The poll's repair branch is dead code.
- *Queries.* Visible, hidden and visible again during one request starts a second
  polling chain, whose handle overwrites the first. A refresh after a sync joins a request
  that was asked before it ended. A normalized key sorts arrays.
- *Data root migration.* The directory is made before it is copied into, which makes the
  branch that copies the whole root dead. Rewriting `events.jsonl` and raw hooks with
  `writeFile` can lose lines appended meanwhile.

## Proofs

The proof modules extend the modules they are about; the specification they prove
about is the one TLC checks, without its fairness. Each theorem has the usual three
parts: the initial states satisfy an inductive invariant, each action preserves it,
and it implies the property.

| module | proved | assumptions |
|---|---|---|
| SyncCoordinatorProofs | `TypeOK`, `ExecutingLimit`, `NoOverlap`, `NoIdleSlot`, `RunStateAgreement`, `NoOrphanRow`, `TerminalStable`, `RetainedRows` | `CoordinatorAssumption` |
| WriterLeaseProofs | `TypeOK`, `OneUndisturbedOwner` | `LeaseAssumption` |
| EventLogProofs | `TypeOK`, `CursorNeverSkips`, `SkipIsSafe` | `EventLogAssumption`, `SentinelAssumption`, a database with a full cursor, no inherited birth times |
| CodexSyncProofs | `TypeOK`, `CursorBehindLog`, `CopiesBounded`; that CodexSync implements Ingestion, and Ingestion's `Promise` | `CodexAssumption` |
| RuntimeSupervisorProofs | `TypeOK`, `OneProcessPerChild`, `StoppedMeansQuiet`, `ExternalCoreIsAlone`, `LatchedStaysDown`, `NoHelperForgotten` | `SupervisorAssumption`; for the last one at most one call of `start()` |
| HookPipelineProofs | `TypeOK`, `DoneLinesLanded`, `RepeatNeedsFailure`, `EditsReported` | `HookAssumption` |
| LivenessProofs | `TypeOK`, `NoOverlap`, `NothingTakenBack` of MCLiveness; `OneRequest`, `NewerStays` of QueryClient; `PinnedStays` of Widget | those of the parts (`PartsAreSound` in MCLiveness) |
| DomainProofs | `TypeOK`, `TablesAgree`, `NewsLands`, `CountedOnce`, `NothingLost` of MCDomain, that is, `U!TablesAgree`, `U!NewsLands`, `U!NoFalseConflict`, `T!EveryUseOnce`, `D!FactsOutliveDetail`, `D!TrimmedIsArchived`, `M!MigratedTablesAgree`, `M!BackfilledOnce`, `M!OnlyDamagedRefused`, `A!DayReported`, `A!NewestShown`, `R!TotalsAgree`, `R!PagesOnce`, `R!PagesComplete` of its parts | those of the parts (`PartsAreSound` in MCDomain) and `UsesAreApart` |

What the assumptions of the domain's parts say: `UsageAssumption`, that a request's
events come from one vendor's adapters; `ToolAssumption`, that events of tools are finitely many,
with times and ids of their own; `RetentionAssumption`, that there is a cutoff;
`MigrationAssumption`, that a legacy database has unique ids and is what some release
wrote (`LegacyRow`); `ReportsAssumption`, that ids are unique and a session is of one
source. None bounds how many requests, rows, events, sessions or queries there are.

`UsesApart` (ToolProjection) is what the pairing of hooks and transcripts needs. A use has
a start, an end and one id per observer; if the ids differ, hook and transcript have seen
it within five seconds of each other; and no other use of the same tool in that session
is seen by the other observer within five seconds. The time in it is the code's own
window, `MAX_ALIAS_DISTANCE_MS`, and without the last part the code does pair crosswise
(finding 2). MCDomain's instance satisfies it, with uses under equal and under
different ids; the theorem says that then every order and repetition of the events, and
every trimming, leaves one row that tells the truth.

The hypotheses that are no assumption of a module: `main-v2.ts` calls `start()` once
(line 1061), and with a second call while a child is down a helper can be forgotten,
so the theorem, like the run, is about one call. Inherited birth times are what NTFS does for some seconds (`event_log` has
them switched on), and a database that begins without a full cursor does skip lines
(demonstration 2).

The invariants, and why they are needed:

- *SyncCoordinator.* `ExecutingLimit` follows from: every executing run holds a slot,
  slots are bounded, and ids are handed out once. `NoOverlap` needs that the adapter of
  an executing or queued run refers to it, which is what makes a second request
  coalesce; `NoIdleSlot` that whoever frees a slot starts a drain before the process goes on. Two more
  invariants rest on that one. `RowInv` holds whatever saves fail: runs that wait or hold a
  slot have not ended, and a row within the retention time is one that was loaded or that
  of the run as it ended in memory; the action properties `TerminalStable` and
  `RetainedRows` follow for each move a step can make of a run. `ViewInv` holds until a save
  fails, and is needed with all its parts at once: adapters refer to the runs that hold a
  slot or wait and these refer back, an adapter without a run does not look busy and
  neither does the state that an abort would restore, and a row in flight is of a run in
  flight.
- *WriterLease.* An owner that nobody has robbed is named by the file at the path; two
  such owners are then one.
- *EventLog.* Whatever matches the cursor's identity and birth has the cursor's lines as
  a prefix, because files only grow at their end and a birth belongs to one file; what
  is in front of a cursor is accounted for when it is written, in the same step. With
  inherited birth times the first part is no longer inductive: that case is left to TLC
  (`event_log` has it switched on). The shortcut needs `SkipInv`: the signatures were taken
  in the order stat of the sync, stat of the ingest, read, and the live log only grew since;
  so a log that still has the size of the first is what the last read saw, to its end or to
  an oversized line.
- *CodexSync.* Four parts. What ledger, sync and log know was appended. A key that
  neither ledger nor sync know has at most one copy per fault. Every mark, saved or in
  memory, covers only lines that were appended. While a rollout is in hand, the events of
  the lines below its signature are among the pending ones; a lemma shows that lines
  added later only ever remove events of older lines, never add any. The refinement takes
  the lines of the rollouts for `written`, the keys appended for `landed`, and for `done` the
  events of the lines below the saved marks; a lost cursor takes from `done`, a second copy
  adds to `repeated`, and steps that touch neither rollouts, log nor cursor are stutters.
- *RuntimeSupervisor.* A living process is that of its child's current record; a restart
  timer belongs to a record that has exited; an external Core has no record; while the
  supervisor is stopping there is no timer and no launch. The latch is then a property of
  each step. `HelperInv`, for helpers and until stop() is called: the timer of a helper is
  that of its current record, and a record that died has it, is latched or is being
  replaced. It needs that the first start() comes before every other operation and finds no
  record, that restart() clears the timer, and that no readiness check of a helper can time
  out; Core has one, and can be forgotten (demonstration 4).
- *HookPipeline.* The saved state, the state each pass works on, the one it is writing
  and the line it has in hand all stand for lines whose events are in the log or that were
  taken half written. Two passes that overlap may replace each other's state, by one
  that is sound as well. As long as nothing has failed more holds. `Calm`: one pass at a
  time, a saved state that never runs ahead of it, and one copy of each line done and of the
  one in hand. `Traced`: the change of a call is in its snapshot until the pass compares,
  then in the pass's hand, then in its edit event, whatever other calls do to the file.
- *UsageProjection.* A row and its fingerprint come together. A patch changes rows,
  fingerprint and stored event in one transaction, and its guard has compared all the rest.
  That news lands needs the order of the log: `Grows`, a later event of a request says all
  that an earlier one said, and two differ in late facts alone. What is stored is then the
  last event that was projected (`Follows`), so that an event of a replay adds nothing, and
  a new one differs by its news, which one of the three patches takes. For other vendors the
  first event stays and its row is healed.
- *ToolProjection.* `CallsFollow`: each row is what the events that are stored make of it
  (`RowFor`), since a Claude session is rebuilt as a whole and an ordinary call from all its
  events; so the order in which they came is forgotten. What they make of it is then a
  matter of the operators: under `UsesApart` the two ids of a use that was seen whole are
  each other's only candidates (`WholeUseIsPaired`), all its events count under one id
  (`CountedUnder`), and the first and last of them are the operators' choices.
- *DetailRetention.* `ArchiveInv`: while no row came late, what was deleted is in an
  archive of an earlier cutoff or in the current one, which is complete from the end
  of the archiving to the deletion. `FactsFollow`: outside sessions that went on after they
  were trimmed, each row follows all events that were ever seen, stored or trimmed.
- *DomainMigration.* Three parts. A marker is never there without the ones before it
  and their columns (`MarksInv`); the counts, starts and vendors that migrations 3, 4 and
  7 put right stay right as the projection goes on (`RowsInv`); and the
  backfilled rows are those of the legacy rows as they were when they were read, whatever
  the statements that bring legacy tables up to date do to them in a later start
  (`InputsInv`).
- *AccountUsage.* What is stored of a day, and an answer that is under way, never exceeds
  what was spent (`WithinSpent`), and the shadowing leaves one of the local and the official
  tokens. Of a quota, a reading that was told is stored, or a newer one (`ToldIsStored`).
- *Reports.* A listing's lines are different rows in the order of the listing (`InOrder`),
  all rows still to come are behind the cursor (`RestBehind`), and a session that was shown
  has not got older (`NoneOlder`), so it cannot be met again behind the cursor. `TotalsInv`:
  as long as nothing changes, what was told of a session is its sum. The totals need
  arithmetic of sums over sets: any element may be taken out (`SumWithout`), and sets
  without a common element add up to the sum of their union (`SumOfFamily`); the groups of
  an overview and the sessions of a listing are such families.
- *QueryClient.* Of a key one request counts, and it was asked when the entry's data was
  as old as it is now: `Sound`, shown for each operation of the client as a lemma about
  caches. The polling chains are no more than the turns that started them.
- *Widget.* `WidgetInv`: the window shows what the state says (`SoundWidget`), and no
  message is under way without a window. No step but those of the user's own controls leaves
  the pinned mode.
- *Parts side by side.* In MCDomain and MCLiveness the part that moves keeps its own
  invariant and `which` does not change (`PartsInv`).

Induction over numbers and finite sets is done with the lemma `Induction` of DomainProofs:
the set of numbers for which something holds contains 0 and all successors, hence is Nat.
The library's induction theorems, which take an operator, cannot be used. With it the
folds of the community modules are within reach: a fold is a function that solves
its recursion, and two solutions agree on every finite set (`SumIsThere`, `SumIsOne`).

Left to TLC alone: all liveness, and what rests on ENABLED; the properties of MCAdapters,
whose adapters' parse states are recursive functions of the lines read (KimicodeSync,
DshSync, CodexRollout); the event log with inherited birth times or without a full cursor.

## What is not modelled

- *Contents.* Of the parsers the modules have what depends on the order of lines
  (turns, anchors, windows of timing, calls that wait for results); the translation of
  fields, pricing, metrics and schemas is left out, as a field has no place in an ordering
  property.
- *Views*: costs, rates, tool rankings, the legacy session list; the pages' rendering.
- *Wiring and I/O*: routes, security headers, main window, tray, settings files, log
  files of the children, packaging. Where their order matters it is a hazard: quitting
  before `start()` has been called (`main-v2.ts:1061`) is not covered. Closing
  Core while a light tick is in flight (`app.ts:352`) is not covered either.
- *Hook settings watcher*: it shares Claude's settings file with a program outside the
  repository, whose reads and writes the code says nothing of.
- *Data root migration*: sequential, before the children start.
- *Dead or superseded code*: the append queue of a lease object and the spool helpers
  in `raw-ingest.ts`, which only their tests call, and the legacy supervisor.
- *In the modelled parts*: a remove that throws in `pruneRuns`; the status view's
  error text after a failed spawn (`runtime-supervisor.ts:522`); compressed archives;
  legacy cursors without identity, which `EventLog` can start with (`Start = "legacy"`)
  and which no run uses: rotation before repair then skips records (`server.ts:67`);
  account data of Cursor beyond the day's rows; several files or databases of one
  adapter, which are read one after the other.

## Plan

Written: all of the above. Next, in this order:

1. The refinement of Ingestion as a theorem for OpenCodeSync and TranscriptSync, with
   lemmas about LedgerAdapter's steps that the other adapters can use as far as they go.
2. An abstract lease, a mutex whose owner may be robbed, that WriterLease implements.
3. The quit path of `main-v2.ts` beside RuntimeSupervisor.
