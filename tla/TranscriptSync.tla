---------------------------- MODULE TranscriptSync ----------------------------
(***************************************************************************)
(* The Claude transcript adapter (packages/adapters-claude/src/             *)
(* transcript-sync.ts, transcript.ts).  Parsers of the hook log and the     *)
(* desktop call syncKnownClaudeTranscripts at the same time; a lock file    *)
(* beside the manifest, broken once it is 30 s old, keeps them apart.  A    *)
(* sync reads what was added to a transcript since its cursor, appends the  *)
(* events whose keys it has not seen and saves the cursor, then the ledger. *)
(*                                                                         *)
(* Abstracted: one transcript, given as the script of what Claude writes to *)
(* it; what an event says besides its key and the user row that anchors its *)
(* latency; the session contexts, which are computed from the whole file    *)
(* and returned; lines of the event log that are torn (see CodexSync).      *)
(***************************************************************************)
EXTENDS Naturals, Sequences, FiniteSets, Functions

CONSTANTS
  Script,    \* the transcript, row by row
  Syncers,   \* processes that sync
  MaxFaults, \* bound: deaths, throws, cuts, locks that age under their owner
  NULL

\* What a row yields: a user row its prompt and the tools that finished, an
\* assistant row the tools that it calls, its answer and the usage of its message.
Kinds == {"prompt", "finished", "called", "assistant", "usage"}
Rows == [user : BOOLEAN,    \* isClaudeUserTranscriptRecord
         timed : BOOLEAN,   \* it has a usable timestamp
         keys : Seq([kind : Kinds \ {"usage"}, id : Nat]),
         usage : Nat]       \* the message whose usage it repeats, or 0
Locks == [owner : Syncers, stale : BOOLEAN]

TranscriptAssumption ==
  /\ Script \in Seq(Rows)
  /\ \A i \in DOMAIN Script :
       /\ ~ Script[i].timed => Script[i].keys = << >> /\ Script[i].usage = 0
       /\ Script[i].user => Script[i].usage = 0
  /\ MaxFaults \in Nat
  /\ NULL \notin Locks

VARIABLES
  size,       \* the transcript's length in half rows: a row is seen half written
  most,       \* history: the longest it has been
  manifest,   \* the manifest names the transcript
  copies,     \* the log: how often each key is there: 0, 1 or more
  anchors,    \* the log: the user rows that anchor the usage of each message
  cursor,     \* the cursor file: an offset; the remainder goes with it
  ledger,     \* the ledger file
  lock, pc, mem,
  faults

disk == <<copies, anchors, cursor, ledger>>
vars == <<size, most, manifest, disk, lock, pc, mem, faults>>

UsageKey(m) == [kind |-> "usage", id |-> m]

\* buildLedgerKey, over the rows of the script.
KeysOf(r) == Range(r.keys) \cup (IF r.usage = 0 THEN {} ELSE {UsageKey(r.usage)})
KeysUpTo(n) == UNION {KeysOf(Script[i]) : i \in 1..n}
Keys == KeysUpTo(Len(Script))
Messages == {Script[i].usage : i \in DOMAIN Script} \ {0}

\* What a sync remembers: its cursor, the length it read, and the events that it
\* found there.
NoSync == [seen |-> {}, changed |-> FALSE, from |-> 0, end |-> 0, out |-> << >>]

Init ==
  /\ size = 0 /\ most = 0 /\ manifest = FALSE
  /\ copies = [k \in Keys |-> 0] /\ anchors = [m \in Messages |-> {}]
  /\ cursor = 0 /\ ledger = {} /\ lock = NULL
  /\ pc = [p \in Syncers |-> "idle"] /\ mem = [p \in Syncers |-> NoSync]
  /\ faults = 0

-----------------------------------------------------------------------------
(* Claude, and the hook parser's record of the transcript's path. *)

ClaudeWrites ==
  /\ size < 2 * Len(Script)
  /\ size' = size + 1
  /\ most' = IF size' > most THEN size' ELSE most
  /\ UNCHANGED <<manifest, disk, lock, pc, mem, faults>>

\* The file is replaced by an older copy.
Cut ==
  /\ faults < MaxFaults /\ faults' = faults + 1
  /\ \E n \in 0..size : 2 * n < size /\ size' = 2 * n
  /\ UNCHANGED <<most, manifest, disk, lock, pc, mem>>

\* recordClaudeTranscriptReference with lockTimeoutMs 0: it gives up when the
\* lock is there, stale or not, and otherwise takes and leaves it at once.
RecordReference ==
  /\ lock = NULL
  /\ manifest' = TRUE
  /\ UNCHANGED <<size, most, disk, lock, pc, mem, faults>>

-----------------------------------------------------------------------------
(* withTranscriptStateLock. *)

Goto(p, from, to) == pc[p] = from /\ pc' = [pc EXCEPT ![p] = to]
Keep(p, m) == mem' = [mem EXCEPT ![p] = m]
Working(p) == pc[p] \notin {"idle", "breaking"}

TakeLock(p) ==
  /\ lock = NULL
  /\ lock' = [owner |-> p, stale |-> FALSE]
  /\ Goto(p, "idle", "load")
  /\ UNCHANGED <<size, most, manifest, disk, mem, faults>>

\* isStaleTranscriptLock, then the rm, which removes whatever lock is there.  A
\* lock that is not stale is waited for, and after 5 s the sync is given up.
FindStale(p) ==
  /\ lock # NULL /\ lock.stale
  /\ Goto(p, "idle", "breaking")
  /\ UNCHANGED <<size, most, manifest, disk, lock, mem, faults>>

BreakLock(p) ==
  /\ Goto(p, "breaking", "idle")
  /\ lock' = NULL
  /\ UNCHANGED <<size, most, manifest, disk, mem, faults>>

Abandoned == lock # NULL /\ ~ Working(lock.owner)

\* STALE_TRANSCRIPT_LOCK_MS pass; a fault when its owner is still at work.
LockAges ==
  /\ lock # NULL /\ ~ lock.stale
  /\ lock' = [lock EXCEPT !.stale = TRUE]
  /\ \/ Abandoned /\ faults' = faults
     \/ ~ Abandoned /\ faults < MaxFaults /\ faults' = faults + 1
  /\ UNCHANGED <<size, most, manifest, disk, pc, mem>>

Unlock(p) ==
  /\ Goto(p, "unlock", "idle")
  /\ lock' = NULL
  /\ UNCHANGED <<size, most, manifest, disk, mem, faults>>

-----------------------------------------------------------------------------
(* syncKnownClaudeTranscripts. *)

\* discoverClaudeTranscriptReferences: a transcript below the roots is found
\* once one of its rows says which session it is of.
Discovered == \E i \in 1 .. size \div 2 : Script[i].timed

\* The manifest is merged and saved; without an entry there is nothing to do.
LoadManifest(p) ==
  /\ manifest' = (manifest \/ Discovered)
  /\ Goto(p, "load", IF manifest \/ Discovered THEN "cursor" ELSE "unlock")
  /\ UNCHANGED <<size, most, disk, lock, mem, faults>>

LoadCursor(p) ==
  /\ Goto(p, "cursor", "ledger")
  /\ Keep(p, [NoSync EXCEPT !.from = cursor])
  /\ UNCHANGED <<size, most, manifest, disk, lock, faults>>

\* loadTranscriptLedgerKeysFromEventLog: the events of tools are not looked for.
InLog == {k \in Keys : copies[k] > 0 /\ k.kind \notin {"called", "finished"}}

Seen == InLog \cup ledger

LoadSeen(p) ==
  /\ Goto(p, "ledger", "read")
  /\ Keep(p, [mem[p] EXCEPT !.seen = Seen, !.changed = ~ (ledger \subseteq InLog)])
  /\ UNCHANGED <<size, most, manifest, disk, lock, faults>>

-----------------------------------------------------------------------------
(* syncTranscriptReference. *)

Event(k, anchor) == [key |-> k, anchor |-> anchor]

\* The batch so far: the last user row, the usage that is held back and the
\* events in the order in which they are appended.
NoRows == [anchor |-> 0, pending |-> << >>, out |-> << >>]

\* The window of the message whose usage is held back closes on the next user
\* row and on the usage of another message.
Opens(b, r) == r.usage # 0 /\ r.usage \notin {b.pending[i].key.id : i \in DOMAIN b.pending}
Closes(b, r) == r.user \/ Opens(b, r)

AnchorKept(b, i) == IF Script[i].user /\ Script[i].timed THEN i ELSE b.anchor

\* A user row without a usable timestamp clears the anchor.
Anchor(b, i) == IF Script[i].user THEN (IF Script[i].timed THEN i ELSE 0) ELSE b.anchor

WithRow(b, i) ==
  LET r == Script[i]
      open == IF Closes(b, r) THEN << >> ELSE b.pending
  IN  [anchor |-> Anchor(b, i),
       pending |-> IF Opens(b, r) THEN <<Event(UsageKey(r.usage), Anchor(b, i))>> ELSE open,
       out |-> b.out \o (IF Closes(b, r) THEN b.pending ELSE << >>)
                     \o [n \in DOMAIN r.keys |-> Event(r.keys[n], 0)]]

\* The rows between two offsets; the batch may end in an open window.
Batch(from, to) ==
  LET scan[i \in from .. to] == IF i = from THEN NoRows ELSE WithRow(scan[i - 1], i)
  IN  scan[to].out \o scan[to].pending

\* A cursor behind the end of the file starts over; the remainder is the first
\* half of the row at the offset.
Start(from) == IF from > size THEN 0 ELSE from \div 2

ReadFile(p) ==
  /\ Goto(p, "read", "rows")
  /\ Keep(p, [mem[p] EXCEPT !.end = size, !.out = Batch(Start(mem[p].from), size \div 2)])
  /\ UNCHANGED <<size, most, manifest, disk, lock, faults>>

\* The events that are still to be appended.
Unseen(m) == SelectSeq(m.out, LAMBDA e : e.key \notin m.seen)

AppendEvent(p) ==
  LET e == Head(Unseen(mem[p]))
  IN  /\ pc[p] = "rows" /\ Unseen(mem[p]) # << >>
      /\ Keep(p, [mem[p] EXCEPT !.seen = @ \cup {e.key}, !.changed = TRUE])
      /\ copies' = [copies EXCEPT ![e.key] = IF @ = 0 THEN 1 ELSE 2]
      /\ anchors' = IF e.key.kind = "usage"
                      THEN [anchors EXCEPT ![e.key.id] = @ \cup {e.anchor}]
                      ELSE anchors
      /\ UNCHANGED <<size, most, manifest, cursor, ledger, lock, pc, faults>>

AllDone(m) == Unseen(m) = << >>

NextCursor(m) == m.end

SaveCursor(p) ==
  /\ AllDone(mem[p])
  /\ Goto(p, "rows", "saving")
  /\ cursor' = IF NextCursor(mem[p]) # mem[p].from THEN NextCursor(mem[p]) ELSE cursor
  /\ Keep(p, [NoSync EXCEPT !.seen = mem[p].seen, !.changed = mem[p].changed])
  /\ UNCHANGED <<size, most, manifest, copies, anchors, ledger, lock, faults>>

SaveLedger(p) ==
  /\ Goto(p, "saving", "unlock")
  /\ ledger' = IF mem[p].changed THEN mem[p].seen ELSE ledger
  /\ Keep(p, NoSync)
  /\ UNCHANGED <<size, most, manifest, copies, anchors, cursor, lock, faults>>

-----------------------------------------------------------------------------
(* A file operation throws, or the process dies.  writeJsonFileAtomic, whose *)
(* second attempt removes the old file before it renames, may leave none.    *)

Lose(p) ==
  /\ faults < MaxFaults /\ faults' = faults + 1
  /\ manifest' \in {manifest, manifest /\ pc[p] # "load"}
  /\ cursor' \in {cursor, IF pc[p] = "rows" /\ AllDone(mem[p]) THEN 0 ELSE cursor}
  /\ ledger' \in {ledger, IF pc[p] = "saving" THEN {} ELSE ledger}
  /\ UNCHANGED <<size, most, copies, anchors, lock>>

Throw(p) ==
  /\ pc[p] \in {"load", "rows", "saving"}
  /\ Lose(p)
  /\ pc' = [pc EXCEPT ![p] = "unlock"] /\ Keep(p, NoSync)

Die(p) ==
  /\ Working(p)
  /\ Lose(p)
  /\ pc' = [pc EXCEPT ![p] = "idle"] /\ Keep(p, NoSync)

SyncStep(p) ==
  \/ TakeLock(p) \/ FindStale(p) \/ BreakLock(p) \/ Unlock(p)
  \/ LoadManifest(p) \/ LoadCursor(p) \/ LoadSeen(p) \/ ReadFile(p)
  \/ AppendEvent(p) \/ SaveCursor(p) \/ SaveLedger(p)

Next ==
  \/ ClaudeWrites \/ Cut \/ RecordReference \/ LockAges
  \/ \E p \in Syncers : SyncStep(p) \/ Throw(p) \/ Die(p)

Spec == Init /\ [][Next]_vars

\* Every caller syncs again and again.
Fairness ==
  /\ WF_vars(LockAges /\ Abandoned)
  /\ \A p \in Syncers : WF_vars(SyncStep(p))

-----------------------------------------------------------------------------
(* What Ingestion sees of it. *)

Landed == {k \in Keys : copies[k] > 0}
Repeated == {k \in Keys : copies[k] > 1}
Due == KeysUpTo(size \div 2)
Written == KeysUpTo(most \div 2)
Done == KeysUpTo(cursor \div 2)
Failed == faults > 0

-----------------------------------------------------------------------------
(* Properties. *)

Places == {"load", "cursor", "ledger", "read", "rows", "saving", "unlock"}
Offsets == 0 .. 2 * Len(Script)
Events == [key : Keys, anchor : 0..Len(Script)]

\* Types of the files and of what the syncs remember.
TypeOK ==
  /\ size \in Offsets /\ most \in Offsets /\ manifest \in BOOLEAN
  /\ copies \in [Keys -> 0..2] /\ anchors \in [Messages -> SUBSET (0..Len(Script))]
  /\ cursor \in Offsets /\ ledger \in SUBSET Keys
  /\ lock \in Locks \cup {NULL}
  /\ pc \in [Syncers -> Places \cup {"idle", "breaking"}]
  /\ mem \in [Syncers -> [seen : SUBSET Keys, changed : BOOLEAN, from : Offsets,
                          end : Offsets, out : Seq(Events)]]
  /\ faults \in 0..MaxFaults

\* The last user row before row i, or 0 when it has no timestamp.
Prompt(i) ==
  LET before == {j \in 1 .. i - 1 : Script[j].user}
  IN  {j \in before : Script[j].timed /\ \A q \in before : q <= j}

\* transcript-sync.ts:214: the usage of a message is never recorded with a
\* foreign anchor: the latency counts from the user row right before one of its
\* rows, or is unknown.  Two syncs, a message that is read in two batches and a
\* user row without a timestamp do not change that.
OwnAnchor ==
  \A m \in Messages :
    anchors[m] \subseteq
      {0} \cup UNION {Prompt(i) : i \in {j \in DOMAIN Script : Script[j].usage = m}}

\* Again and again the event of every complete row is in the log.
AllLanded == Due \subseteq Landed
=============================================================================
