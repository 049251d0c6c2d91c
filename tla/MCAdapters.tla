------------------------------ MODULE MCAdapters ------------------------------
(***************************************************************************)
(* The source adapters, each as an implementation of Ingestion.  They share *)
(* no state but the log and the writer lease, which lets one of them work   *)
(* at a time, so that one run checks them side by side: which names the one *)
(* that moves, and the variables of the others stay as they are.           *)
(***************************************************************************)
EXTENDS Integers, Sequences

CONSTANTS TableRows, Lines, NoFile, NULL, MaxFaults, p1, p2

VARIABLES
  which,
  size, most, archived, manifest, told,
  clock, version, updated, hashes, prompts, answers, measured, composer, context, lines,
  copies, notes, anchors, counted, again, credits,
  cursor, ledger, cursors, ledgers, lock,
  pc, mem, seen, next, out, changed, stage, got, known, fallback, who, others,
  faults

files == <<size, most, archived, manifest, told>>
tables == <<clock, version, updated, hashes, prompts, answers, measured, composer, context, lines>>
log == <<copies, notes, anchors, counted, again, credits>>
saved == <<cursor, ledger, cursors, ledgers, lock>>
memory == <<pc, mem, seen, next, out, changed, stage, got, known, fallback, who, others>>
vars == <<which, files, tables, log, saved, memory, faults>>

-----------------------------------------------------------------------------
(* The sources. *)

KeyOf(kind, id) == [kind |-> kind, id |-> id]
KeysOf(kinds, ids) == [kind : kinds, id : ids]
Record(type, id) == [type |-> type, id |-> id]
Numbered(type, id, seq) == [type |-> type, id |-> id, seq |-> seq]
Part(kind, of) == [kind |-> kind, of |-> of]
Line(type, request) == [type |-> type, turn |-> 1, request |-> request]

\* A timed prompt, a prompt without a timestamp, an answer that calls a tool.
TranscriptScript ==
  << [user |-> TRUE, timed |-> TRUE, keys |-> <<KeyOf("prompt", 1)>>, usage |-> 0],
     [user |-> TRUE, timed |-> FALSE, keys |-> << >>, usage |-> 0],
     [user |-> FALSE, timed |-> TRUE, keys |-> <<KeyOf("called", 1)>>, usage |-> 1] >>

KimiScript ==
  << Record("call", 1), Record("step", 1), Record("result", 1), Record("usage", 0) >>
KimiKeys ==
  KeysOf({"started", "ended"}, {0}) \cup KeysOf({"called", "succeeded", "edit", "assistant"}, {1})
    \cup KeysOf({"usage"}, {4})

DshScript ==
  << Numbered("session", 0, 0), Numbered("tool/call", 1, 1), Numbered("step/start", 0, 2),
     Numbered("assistant/chunk", 0, 3), Numbered("tool/result", 1, 4),
     Numbered("assistant/message", 1, 5) >>
DshKeys ==
  KeysOf({"started"}, {0})
    \cup KeysOf({"called", "succeeded", "edit", "assistant", "usage"}, {1})

Rollout(type, id, when, says) == [type |-> type, id |-> id, at |-> when, says |-> says]

\* Two turns: a response whose usage is mirrored and then reported twice, with a
\* call in between; and, soon after it, a turn with another model and a report
\* after a long wait.
RolloutScript ==
  << Rollout("session_meta", 0, 0, 0), Rollout("turn_context", 0, 0, 1),
     Rollout("task_started", 0, 1, 0), Rollout("token_usage_record", 1, 2, 1),
     Rollout("thread_settings_applied", 0, 2, 1),
     Rollout("call", 1, 2, 0), Rollout("token_count", 10, 2, 1),
     Rollout("output", 1, 3, 1), Rollout("token_count", 10, 4, 1),
     Rollout("patch_apply_end", 0, 4, 1), Rollout("turn_context", 0, 6, 2),
     Rollout("task_started", 0, 6, 5), Rollout("token_count", 20, 7, 1),
     Rollout("agent_message", 0, 7, 0), Rollout("token_count", 30, 12, 1) >>
RolloutKeys ==
  KeysOf({"started"}, {0}) \cup KeysOf({"record", "called", "failed"}, {1})
    \cup KeysOf({"usage"}, {10, 20, 30}) \cup KeysOf({"patch", "edit"}, {-10})
    \cup KeysOf({"assistant"}, {-14})

TheRows == << Part("assistant", 0), Part("step-finish", 1) >>
RowKeys == KeysOf({"assistant", "usage"}, {1})

RequestKeys == KeysOf({"started"}, {0}) \cup KeysOf({"called", "succeeded", "edit"}, {1})
TurnKeys ==
  KeysOf({"started"}, {0}) \cup KeysOf({"prompt"}, {1, 3}) \cup KeysOf({"assistant", "usage"}, {1, 4})

TheLines == << Line("end", 1), Line("credit", 1), Line("end", 2) >>
TwoCredits == Append(TheLines, Line("credit", 2))

-----------------------------------------------------------------------------
(* The adapters.  Cursor's is checked twice: with requests only, and with a *)
(* turn only.                                                               *)

T == INSTANCE TranscriptSync WITH Script <- TranscriptScript, Syncers <- {p1, p2}
K == INSTANCE KimicodeSync WITH Script <- KimiScript, Keys <- KimiKeys
D == INSTANCE DshSync WITH Script <- DshScript, Keys <- DshKeys
X == INSTANCE CodexRollout WITH
  Script <- RolloutScript, Keys <- RolloutKeys, MaxDecodeGap <- 3, MaxFirstToken <- 4
O == INSTANCE OpenCodeSync WITH Rows <- TableRows, Keys <- RowKeys, MaxClock <- 2
CR == INSTANCE CursorSync WITH Keys <- RequestKeys, Requests <- {1}, Turns <- {}, MaxClock <- 2
CT == INSTANCE CursorSync WITH Keys <- TurnKeys, Requests <- {}, Turns <- {1}, MaxClock <- 1
R == INSTANCE RequestLogs WITH Overlap <- 1

ASSUME ScriptsAreSources ==
  /\ T!TranscriptAssumption /\ K!KimicodeAssumption /\ D!DshAssumption /\ O!OpenCodeAssumption
  /\ X!RolloutAssumption /\ CR!CursorAssumption /\ CT!CursorAssumption /\ R!RequestLogsAssumption

Pick(t, k, d, x, o, cr, ct, r) ==
  CASE which = "transcript" -> t [] which = "kimicode" -> k [] which = "dsh" -> d
    [] which = "codex rollout" -> x [] which = "opencode" -> o [] which = "cursor requests" -> cr [] which = "cursor turns" -> ct
    [] which = "request logs" -> r

\* What an adapter does not use.
NotT == <<archived, told, tables, notes, counted, again, credits, cursors, ledgers,
          seen, next, out, changed, stage, got, known, fallback, who, others>>
NotD == <<archived, manifest, told, tables, anchors, counted, again, credits, cursors, ledgers,
          lock, mem, stage, got, known, fallback, who, others>>
NotX == <<most, archived, manifest, told, tables, anchors, counted, again, credits, cursors, ledgers,
          lock, mem, stage, got, known, fallback, who, others>>
NotK == <<manifest, told, tables, anchors, counted, again, credits, cursors, ledgers,
          lock, mem, stage, got, known, fallback, who, others>>
NotO == <<files, hashes, prompts, answers, measured, composer, context, lines, anchors,
          counted, again, credits, cursors, ledgers, lock, mem, known, fallback, who, others>>
NotC == <<files, version, updated, anchors, counted, again, credits, cursors, ledgers,
          lock, mem, got, who, others>>
NotR == <<most, archived, manifest, tables, copies, notes, anchors, cursor, ledger, lock,
          mem, changed, stage, got, known, fallback>>

Zero(a) == a = 0
NoRows == Zero(version) /\ Zero(updated) /\ Zero(got)
NoTurns ==
  /\ Zero(hashes) /\ Zero(prompts) /\ Zero(answers) /\ Zero(measured) /\ Zero(composer)
  /\ Zero(context) /\ Zero(lines) /\ Zero(known) /\ Zero(fallback)
NoSyncers == Zero(manifest) /\ Zero(anchors) /\ Zero(lock) /\ Zero(mem)
NoPair ==
  Zero(told) /\ Zero(counted) /\ Zero(again) /\ Zero(credits) /\ Zero(cursors) /\ Zero(ledgers)
    /\ Zero(who) /\ Zero(others)
NoFiles == Zero(size) /\ Zero(most) /\ Zero(archived)

InitOf(a) ==
  CASE a = "transcript" ->
         /\ T!Init /\ NoRows /\ NoTurns /\ NoPair
         /\ Zero(archived) /\ Zero(clock) /\ Zero(notes) /\ Zero(seen) /\ Zero(next)
         /\ Zero(out) /\ Zero(changed) /\ Zero(stage)
    [] a = "kimicode" -> K!Init /\ NoRows /\ NoTurns /\ NoSyncers /\ NoPair /\ Zero(clock) /\ Zero(stage)
    [] a = "dsh" ->
         D!Init /\ NoRows /\ NoTurns /\ NoSyncers /\ NoPair /\ Zero(clock) /\ Zero(stage) /\ Zero(archived)
    [] a = "codex rollout" ->
         /\ X!Init /\ NoRows /\ NoTurns /\ NoSyncers /\ NoPair
         /\ Zero(clock) /\ Zero(stage) /\ Zero(most) /\ Zero(archived)
    [] a = "opencode" -> O!Init /\ NoTurns /\ NoSyncers /\ NoPair /\ NoFiles
    [] a = "cursor requests" -> CR!Init /\ NoRows /\ NoSyncers /\ NoPair /\ NoFiles
    [] a = "cursor turns" -> CT!Init /\ NoRows /\ NoSyncers /\ NoPair /\ NoFiles
    [] a = "request logs" ->
         /\ R!Init /\ NoRows /\ NoTurns /\ NoSyncers
         /\ Zero(most) /\ Zero(archived) /\ Zero(clock) /\ Zero(copies) /\ Zero(notes)
         /\ Zero(cursor) /\ Zero(ledger) /\ Zero(changed) /\ Zero(stage)

Adapters ==
  {"transcript", "kimicode", "dsh", "codex rollout", "opencode", "cursor requests", "cursor turns",
   "request logs"}

Init == which \in Adapters /\ InitOf(which)

TranscriptMoves == which = "transcript" /\ T!Next /\ UNCHANGED <<which, NotT>>
KimicodeMoves == which = "kimicode" /\ K!Next /\ UNCHANGED <<which, NotK>>
DshMoves == which = "dsh" /\ D!Next /\ UNCHANGED <<which, NotD>>
RolloutMoves == which = "codex rollout" /\ X!Next /\ UNCHANGED <<which, NotX>>
OpenCodeMoves == which = "opencode" /\ O!Next /\ UNCHANGED <<which, NotO>>
CursorRequestsMove == which = "cursor requests" /\ CR!Next /\ UNCHANGED <<which, NotC>>
CursorTurnsMove == which = "cursor turns" /\ CT!Next /\ UNCHANGED <<which, NotC>>
RequestLogsMove == which = "request logs" /\ R!Next /\ UNCHANGED <<which, NotR>>

Next ==
  \/ TranscriptMoves \/ KimicodeMoves \/ DshMoves \/ RolloutMoves \/ OpenCodeMoves
  \/ CursorRequestsMove \/ CursorTurnsMove \/ RequestLogsMove

\* Every adapter syncs again and again; a lock that its owner has left ages.
\* The two adapters of the request logs both get their turn.
Sync ==
  /\ UNCHANGED which
  /\ \/ which = "kimicode" /\ K!SyncStep /\ UNCHANGED NotK
     \/ which = "dsh" /\ D!SyncStep /\ UNCHANGED NotD
     \/ which = "codex rollout" /\ X!SyncStep /\ UNCHANGED NotX
     \/ which = "opencode" /\ O!SyncStep /\ UNCHANGED NotO
     \/ which = "cursor requests" /\ CR!SyncStep /\ UNCHANGED NotC
     \/ which = "cursor turns" /\ CT!SyncStep /\ UNCHANGED NotC
     \/ which = "request logs" /\ R!SyncStep /\ UNCHANGED NotR
     \/ /\ which = "transcript" /\ UNCHANGED NotT
        /\ (T!LockAges /\ T!Abandoned) \/ T!SyncStep(p1) \/ T!SyncStep(p2)
Start(a) == which = "request logs" /\ R!Start(a) /\ UNCHANGED <<which, NotR>>

Spec == Init /\ [][Next]_vars
FairSpec ==
  /\ Spec /\ WF_vars(Sync)
  /\ \A a \in {"transcript", "cli"} : SF_vars(Start(a))

-----------------------------------------------------------------------------
(* Properties. *)

\* Types of the adapter's files and of what its sync remembers.
TypeOK ==
  Pick(T!TypeOK, K!TypeOK, D!TypeOK, X!TypeOK, O!TypeOK, CR!TypeOK, CT!TypeOK, R!TypeOK)

\* A usage event takes its latency and timing from the record that belongs to
\* it, however the syncs cut the file (see OwnAnchor, OwnTiming and OwnWindow).
OwnTiming == Pick(T!OwnAnchor, K!OwnTiming, D!OwnTiming, X!OwnWindow, TRUE, TRUE, TRUE, TRUE)

\* What each adapter does is what Ingestion promises.
I == INSTANCE Ingestion WITH
  Events <- T!Keys \cup KimiKeys \cup DshKeys \cup RolloutKeys \cup RowKeys \cup RequestKeys \cup TurnKeys \cup R!Events,
  written <- Pick(T!Written, K!Written, D!Written, X!Written, O!Written, CR!Written, CT!Written, R!Written),
  landed <- Pick(T!Landed, K!Landed, D!Landed, X!Landed, O!Landed, CR!Landed, CT!Landed, R!Landed),
  repeated <- Pick(T!Repeated, K!Repeated, D!Repeated, X!Repeated, O!Repeated, CR!Repeated, CT!Repeated, R!Repeated),
  done <- Pick(T!Done, K!Done, D!Done, X!Done, O!Done, CR!Done, CT!Done, R!Done),
  failed <- (faults > 0)
Ingests == I!Spec

\* Again and again the events of all that is in the source are in the log.
EveryRecordLands ==
  []<>(Pick(T!Due \subseteq T!Landed, K!Due \subseteq K!Landed, D!Due \subseteq D!Landed, X!Due \subseteq X!Landed,
            O!Due \subseteq O!Landed, CR!Due \subseteq CR!Landed, CT!Due \subseteq CT!Landed,
            R!Due \subseteq R!Landed))

\* codebuddy-log.ts:73: "the paired credit must be attached to that same record".
OwnCredit == which = "request logs" => R!OwnCredit
=============================================================================
