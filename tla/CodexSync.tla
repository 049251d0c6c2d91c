------------------------------ MODULE CodexSync ------------------------------
(***************************************************************************)
(* The Codex adapter (packages/adapters-codex/src/codex-sync.ts): it reads  *)
(* the rollout files that Codex writes, appends an event to the canonical   *)
(* log for every line it has not yet seen, and keeps two files of its own:  *)
(* a cursor, with the signature each rollout had when it was read, and the  *)
(* ledger of the events it has appended (packages/shared-utils/src/         *)
(* ledger.ts).  It is called by the light refresh loop                      *)
(* (apps/core/src/source-light-refresh.ts) and by coordinator runs, one at  *)
(* a time: both hold the writer lease.                                      *)
(*                                                                         *)
(* A sync keeps nothing in memory between two calls, so a call that throws  *)
(* and a process that dies leave the same state behind.                     *)
(*                                                                         *)
(* Abstracted: what an event says besides its ledger key; the order in      *)
(* which the events of one file are appended; lines that Codex is still     *)
(* writing, which are skipped and change the file's size when they are      *)
(* complete; rotation of the log, whose retention is longer than the days   *)
(* that count as recent.                                                    *)
(***************************************************************************)
EXTENDS Naturals, Sequences, FiniteSets

CONSTANTS
  Sessions,      \* one rollout file each
  Recent,        \* sessions within RECENT_ROLLOUT_RECONCILE_DAYS
  Responses,     \* model responses of a session
  FullEvery,     \* fullReconcileEveryTicks
  MaxLines,      \* bound: lines of each rollout
  MaxFaults,     \* bound: syncs that throw or die, files that cannot be
                 \* parsed, appends of others that are cut short
  NoFile         \* no rollout is being read

ASSUME CodexAssumption ==
  /\ Recent \subseteq Sessions
  /\ NoFile \notin Sessions
  /\ FullEvery \in Nat \ {0}
  /\ MaxLines \in [Sessions -> Nat]
  /\ MaxFaults \in Nat

\* A rollout line that yields an event: a message or tool call, the usage of a
\* response as token_count reports it, or its token_usage_record mirror.
Lines == [kind : {"item", "count", "record"}, of : Responses]

\* ledgerKeyFor.
Keys == [session : Sessions, line : Lines]

VARIABLES
  rollout,    \* the rollout files
  copies,     \* the log: how many intact lines each key has
  torn,       \* the log ends in an incomplete line
  written,    \* history: keys whose append came through
  cursor,     \* the cursor file: the size each rollout was read at, or 0
  ledger,     \* the ledger file; no keys when it is missing
  ticks,      \* tickCount, modulo FullEvery
  pc,         \* where the sync stands
  seen,       \* seenEventIds
  marks,      \* nextRolloutFiles
  todo,       \* rolloutFiles not yet visited
  file, size, \* the rollout being read and its signature
  pending,    \* keys of its events that are still to be looked at
  changed,    \* ledgerChanged
  faults

disk   == <<copies, torn, written, cursor, ledger>>
memory == <<pc, seen, marks, todo, file, size, pending, changed>>
vars   == <<rollout, disk, ticks, memory, faults>>

NoMarks == [s \in Sessions |-> 0]

\* What readLedgerKeys finds in the log: malformed lines are skipped.
InLog == {k \in Keys : copies[k] > 0}

Of(keys, sessions) == {k \in keys : k.session \in sessions}

\* extractCodexEventsFromRollout takes mirrored usage only from a rollout
\* without any token_count.
Extracted(f) ==
  LET all == {f[i] : i \in DOMAIN f}
      counts == {l \in all : l.kind = "count"}
  IN  IF counts = {} THEN all ELSE {l \in all : l.kind # "record"}

Init ==
  /\ rollout = [s \in Sessions |-> << >>]
  /\ copies = [k \in Keys |-> 0] /\ torn = FALSE /\ written = {}
  /\ cursor = NoMarks /\ ledger = {} /\ ticks = 0
  /\ pc = "idle" /\ seen = {} /\ marks = NoMarks /\ todo = {}
  /\ file = NoFile /\ size = 0 /\ pending = {} /\ changed = FALSE
  /\ faults = 0

-----------------------------------------------------------------------------
(* Codex, and the other writers of the log. *)

\* Codex appends a line.  The mirror of a response comes before its
\* token_count; a token_count is repeated while its total stays the same.
CodexWrites(s, l) ==
  /\ Len(rollout[s]) < MaxLines[s]
  /\ \A i \in DOMAIN rollout[s] :
       /\ rollout[s][i] = l => l.kind = "count"
       /\ l.kind = "record" => rollout[s][i] # [kind |-> "count", of |-> l.of]
  /\ rollout' = [rollout EXCEPT ![s] = Append(@, l)]
  /\ UNCHANGED <<disk, ticks, memory, faults>>

\* Another writer dies in the middle of an append.
OtherTears ==
  /\ faults < MaxFaults
  /\ faults' = faults + 1
  /\ torn' = TRUE
  /\ UNCHANGED <<rollout, copies, written, cursor, ledger, ticks, memory>>

-----------------------------------------------------------------------------
(* The callers. *)

\* loadCursor, loadEventLedgerWithFallback and the listing of the rollouts: an
\* empty ledger is rebuilt from the log and saved.
LoadedLedger == IF ledger = {} THEN InLog ELSE ledger

Load(full) ==
  /\ pc = "idle"
  /\ ledger' = LoadedLedger
  /\ seen' = LoadedLedger
  /\ marks' = cursor
  /\ todo' = {s \in Sessions : rollout[s] # << >>}
  /\ pc' = IF full THEN "reconciling" ELSE "files"
  /\ UNCHANGED <<rollout, copies, torn, written, cursor, file, size, pending,
                 changed, faults>>

NextTickLate == (ticks + 1) % (FullEvery + 1)
NextTick == (ticks + 1) % FullEvery

\* A tick of the light refresh loop; every FullEvery-th one reconciles.
LightTick ==
  /\ ticks' = NextTick
  /\ Load(NextTick = 0)

\* A tick that finds the coordinator at work does nothing, and counts.
BusyTick ==
  /\ pc = "idle"
  /\ FullEvery > 1
  /\ ticks' = NextTick
  /\ UNCHANGED <<rollout, disk, memory, faults>>

\* A run of the coordinator, at start or by hand, always reconciles.
CoordinatorRun == Load(TRUE) /\ UNCHANGED ticks

-----------------------------------------------------------------------------
(* syncCodexRollouts. *)

Revisited == Recent \intersect todo

\* recentCursorHit: without a recent file in the cursor there is nothing to heal.
Hit == \E s \in Revisited : marks[s] # 0

\* Keys of recent sessions that the ledger has and the log has not.
Ghosts == Of(seen, Revisited) \ InLog

\* The cursor forgets every recent rollout once a ghost is found.
HealedMarksNone(ghosts) == marks
HealedMarks(ghosts) ==
  [s \in Sessions |-> IF s \in Revisited /\ ghosts # {} THEN 0 ELSE marks[s]]

\* reconcileLedgerSessionsWithEventLog and what syncCodexRollouts makes of it.
Reconcile ==
  /\ pc = "reconciling"
  /\ pc' = "files"
  /\ \/ /\ Hit
        /\ seen' = (seen \ Ghosts) \union Of(InLog, Revisited)
        /\ marks' = HealedMarks(Ghosts)
        /\ changed' = (Ghosts # {} \/ Of(InLog, Revisited) \ seen # {})
     \/ ~Hit /\ UNCHANGED <<seen, marks, changed>>
  /\ UNCHANGED <<rollout, disk, ticks, todo, file, size, pending, faults>>

\* rolloutFiles is sorted.
NextFile == CHOOSE s \in todo : TRUE

\* The signature of the next file is taken; the file is left out when it is
\* the one in the cursor.
Stat(s) ==
  /\ pc = "files"
  /\ todo # {} /\ s = NextFile
  /\ todo' = todo \ {s}
  /\ \/ /\ marks[s] = Len(rollout[s])
        /\ UNCHANGED <<pc, file, size>>
     \/ /\ marks[s] # Len(rollout[s])
        /\ file' = s
        /\ size' = Len(rollout[s])
        /\ pc' = "reading"
  /\ UNCHANGED <<rollout, disk, ticks, seen, marks, pending, changed, faults>>

\* The file is read, with whatever was added since its signature was taken.
Read ==
  /\ pc = "reading"
  /\ pending' = [session : {file}, line : Extracted(rollout[file])]
  /\ pc' = "appending"
  /\ UNCHANGED <<rollout, disk, ticks, seen, marks, todo, file, size, changed,
                 faults>>

\* Its events cannot be extracted: the file is skipped, without a mark.
Unparsable ==
  /\ pc = "reading"
  /\ faults < MaxFaults
  /\ faults' = faults + 1
  /\ pc' = "files" /\ file' = NoFile /\ size' = 0
  /\ UNCHANGED <<rollout, disk, ticks, seen, marks, todo, pending, changed>>

\* Ledger keys of the events still to be appended.
Unseen == pending \ seen

\* appendJsonLine: behind an incomplete line the event becomes part of that
\* line, and neither is intact.
AppendEvent(k) ==
  /\ pc = "appending"
  /\ k \in Unseen
  /\ copies' = IF torn THEN copies ELSE [copies EXCEPT ![k] = @ + 1]
  /\ torn' = FALSE
  /\ written' = written \union {k}
  /\ seen' = seen \union {k}
  /\ changed' = TRUE
  /\ UNCHANGED <<rollout, cursor, ledger, ticks, pc, marks, todo, file, size,
                 pending, faults>>

\* The signature that is kept is the one taken before the file was read.
MarkLate == Len(rollout[file])
Mark == size

FileDone ==
  /\ pc = "appending"
  /\ Unseen = {}
  /\ marks' = [marks EXCEPT ![file] = Mark]
  /\ pc' = "files" /\ file' = NoFile /\ size' = 0 /\ pending' = {}
  /\ UNCHANGED <<rollout, disk, ticks, seen, todo, changed, faults>>

AllVisited == pc = "files" /\ todo = {}

WriteCursor ==
  /\ AllVisited
  /\ cursor' = marks
  /\ pc' = "saving"
  /\ UNCHANGED <<rollout, copies, torn, written, ledger, ticks, seen, marks,
                 todo, file, size, pending, changed, faults>>

\* What is left of a call that has returned, thrown or died.
Forget ==
  /\ pc' = "idle" /\ seen' = {} /\ marks' = NoMarks /\ todo' = {}
  /\ file' = NoFile /\ size' = 0 /\ pending' = {} /\ changed' = FALSE

SavedLedgerNever == ledger
SavedLedger == IF changed THEN seen ELSE ledger

PersistLedger ==
  /\ pc = "saving"
  /\ ledger' = SavedLedger
  /\ Forget
  /\ UNCHANGED <<rollout, copies, torn, written, cursor, ticks, faults>>

\* The call throws or the process dies.  An append may leave an incomplete
\* line; writeJsonFileAtomic, whose second attempt removes the old file before
\* it renames, may leave none.
Fail ==
  /\ pc # "idle"
  /\ faults < MaxFaults
  /\ faults' = faults + 1
  /\ torn' \in {torn, torn \/ (pc = "appending" /\ Unseen # {})}
  /\ cursor' \in {cursor, IF AllVisited THEN NoMarks ELSE cursor}
  /\ ledger' \in {ledger, IF pc = "saving" /\ changed THEN {} ELSE ledger}
  /\ Forget
  /\ UNCHANGED <<rollout, copies, written, ticks>>

-----------------------------------------------------------------------------

SyncStep ==
  \/ Reconcile \/ Read \/ FileDone \/ WriteCursor \/ PersistLedger
  \/ \E s \in Sessions : Stat(s)
  \/ \E k \in Keys : AppendEvent(k)

Next ==
  \/ \E s \in Sessions, l \in Lines : CodexWrites(s, l)
  \/ OtherTears
  \/ LightTick \/ BusyTick \/ CoordinatorRun
  \/ SyncStep
  \/ Unparsable
  \/ Fail

Spec == Init /\ [][Next]_vars

\* A sync that neither throws nor dies gets to its end, and the coordinator is
\* not at work at every tick that would reconcile.
FairSpec ==
  /\ Spec
  /\ WF_vars(SyncStep)
  /\ WF_vars(LightTick)
  /\ SF_vars(LightTick /\ NextTick = 0)

-----------------------------------------------------------------------------

TypeOK ==
  /\ rollout \in [Sessions -> Seq(Lines)]
  /\ copies \in [Keys -> Nat] /\ torn \in BOOLEAN
  /\ written \subseteq Keys /\ ledger \subseteq Keys
  /\ seen \subseteq Keys /\ pending \subseteq Keys
  /\ cursor \in [Sessions -> Nat] /\ marks \in [Sessions -> Nat]
  /\ ticks \in 0 .. FullEvery - 1
  /\ pc \in {"idle", "reconciling", "files", "reading", "appending", "saving"}
  /\ todo \subseteq Sessions
  /\ file \in Sessions \union {NoFile} /\ size \in Nat
  /\ changed \in BOOLEAN
  /\ faults \in 0 .. MaxFaults

\* The cursor never moves past a line whose event was not appended, however
\* Codex writes while a sync stats, reads and appends, and wherever it fails
\* (syncCodexRollouts: "Avoids cursor advancing past a crashed mid-file write").
\* Mirrored usage is not an event any more once its rollout has a token_count.
CursorBehindLog ==
  \A s \in Sessions : \A i \in 1 .. cursor[s] :
    rollout[s][i] \in Extracted(rollout[s]) =>
      [session |-> s, line |-> rollout[s][i]] \in written

\* An event is in the log once, and once more for every sync that failed
\* between an append and the saved ledger: a lost ledger is rebuilt, and
\* healing never appends what is there.
CopiesBounded == \A k \in Keys : copies[k] <= 1 + faults

\* Lines of a recent rollout that yield an event whatever else is written.
Due(k) ==
  /\ k.session \in Recent
  /\ k.line.kind # "record"
  /\ \E i \in DOMAIN rollout[k.session] : rollout[k.session][i] = k.line

\* Every event of a recent rollout gets an intact line: one torn line, failed
\* sync, lost cursor or ledger, and busy ticks, only delay it.  (Two failures can
\* lose an event: see the README.)
EveryEventLands == \A k \in Keys : Due(k) ~> (copies[k] > 0 \/ faults > 1)

\* What Ingestion sees of the adapter: the lines that Codex has written are due,
\* an event has landed when its append came through, and the cursor stands for
\* the lines below its marks that still yield an event.
Source ==
  {k \in Keys : \E i \in DOMAIN rollout[k.session] : rollout[k.session][i] = k.line}
Done ==
  {k \in Keys : \E i \in 1 .. cursor[k.session] :
     /\ rollout[k.session][i] = k.line
     /\ k.line \in Extracted(rollout[k.session])}

I == INSTANCE Ingestion WITH
  Events <- Keys, written <- Source, landed <- written,
  repeated <- {k \in Keys : copies[k] > 1}, done <- Done, failed <- (faults > 0)

\* codex.ts, line 42: mirror rows are only consumed when the file has no
\* token_count, "so the two never double count".
NeverDoubleCounted ==
  \A s \in Sessions, r \in Responses :
    ~(/\ copies[[session |-> s, line |-> [kind |-> "record", of |-> r]]] > 0
      /\ copies[[session |-> s, line |-> [kind |-> "count", of |-> r]]] > 0)

=============================================================================
