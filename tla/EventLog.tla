------------------------------ MODULE EventLog ------------------------------
(***************************************************************************)
(* The canonical event log and its projection into SQLite.  Writers append  *)
(* lines to events.jsonl: Core's adapters, and the hook parser of the CLI,   *)
(* a process of its own that takes no lease.  A starting Core rotates a log  *)
(* that has grown too large (event-log-rotation.ts) and repairs a cursor     *)
(* without identity; a running Core reads the lines behind its committed     *)
(* cursor (raw-ingest.ts) and projects them, moving the cursor in the same   *)
(* transaction (event-log-projector.ts).                                    *)
(*                                                                         *)
(* Offsets count complete lines.  A file is known by its birth and its      *)
(* first HeadLines lines, a cursor's place in it by the last TailLines       *)
(* lines before the offset: the two 4 KiB hashes of the code.  A line is a   *)
(* record's id and whether it is valid JSON.                                *)
(***************************************************************************)
EXTENDS Naturals, Sequences, FiniteSets, SequencesExt

CONSTANTS
  Ids,          \* records that writers append, each possibly more than once
  Old,          \* records whose timestamp is outside the retention window
  Oversized,    \* records longer than one read (maxBytes)
  HeadLines,    \* lines that enter a file's identity
  TailLines,    \* lines that enter a cursor's prefix hash
  ReadLines,    \* lines of one read
  RotateLines,  \* a log longer than this is rotated at start
  MaxChunks,    \* reads of one sync before it gives up
  Start,        \* the database at first: "synced", "legacy" or "fresh"
  Tunnelling,   \* a file recreated at a path may get the old one's birth time
  MaxAppends,   \* bound: appended lines
  MaxTears,     \* bound: appends cut short by the death of their writer
  MaxFaults,    \* bound: deaths of Core and failing calls
  NoFile, NoRow, NoIdent, NoSize

ASSUME EventLogAssumption ==
  /\ Old \subseteq Ids /\ Oversized \subseteq Ids
  /\ HeadLines \in Nat /\ TailLines \in Nat \ {0}
  /\ ReadLines \in Nat \ {0} /\ RotateLines \in Nat /\ MaxChunks \in Nat \ {0}
  /\ Start \in {"synced", "legacy", "fresh"} /\ Tunnelling \in BOOLEAN
  /\ MaxAppends \in Nat /\ MaxTears \in Nat /\ MaxFaults \in Nat
  /\ Start = "fresh" => MaxTears = 0  \* a repair's offset is the end of a line

Line == [id : Ids, valid : BOOLEAN]

Files == [birth : Nat, lines : Seq(Line), torn : BOOLEAN]

Identities == [birth : Nat, head : Seq(Line), more : BOOLEAN]

CursorRows == [off : Nat, ident : Identities, tail : Seq(Line)]

\* A row older than the columns for identity and hash: an offset alone.
LegacyRow == [off |-> 1, ident |-> NoIdent, tail |-> << >>]

ASSUME SentinelAssumption ==
  /\ NoSize \notin Nat
  /\ NoFile \notin Files
  /\ NoIdent \notin Identities
  /\ NoRow \notin CursorRows \union {LegacyRow}

VARIABLES
  file,       \* the live events.jsonl, or NoFile
  archive,    \* lines of the logs that rotation has moved away
  births,     \* the latest birth time given to a file
  projected,  \* database: records that have been projected
  diagnosed,  \* database: records of malformed lines reported
  row,        \* database: the ingestion_state row, or NoRow
  pc,         \* what Core is doing
  trimmed,    \* Core: the temporary file of a rotation
  original,   \* Core: the log a rotation has moved away
  drained,    \* Core: lastFullyDrainedSignature
  size,       \* Core: the signatures taken by the sync and by its ingest
  chunk,      \* Core: the lines read and the cursor after them
  chunks,     \* Core: reads of the current sync
  appends, tears, faults   \* counts behind the bounds

disk == <<file, archive, births>>
db == <<projected, diagnosed, row>>
core == <<pc, trimmed, original, drained, size, chunk, chunks>>
counts == <<appends, tears, faults>>
vars == <<disk, db, core, counts>>

Smaller(a, b) == IF a < b THEN a ELSE b

\* stat().size: a torn last line makes the file longer than its lines.
Size(f) == 2 * Len(f.lines) + (IF f.torn THEN 1 ELSE 0)

\* computeFileIdentityFromHandle: while the file is shorter than the hashed
\* head, every append changes its identity.
Identity(f) ==
  [birth |-> f.birth,
   head  |-> SubSeq(f.lines, 1, Smaller(HeadLines, Len(f.lines))),
   more  |-> Len(f.lines) < HeadLines /\ f.torn]

\* The lines whose hash a cursor at off carries.
PrefixTail(f, off) ==
  SubSeq(f.lines, (off - Smaller(TailLines, off)) + 1, off)

CursorPastNext(f, off) ==
  [off |-> off + 1, ident |-> Identity(f), tail |-> PrefixTail(f, off)]
CursorAt(f, off) ==
  [off |-> off, ident |-> Identity(f), tail |-> PrefixTail(f, off)]

\* readIncrementalCursor returns null for these.
NoCursor == row = NoRow \/ row.ident = NoIdent

\* cursorMatchesFile.
MatchesSizeOnly(f) == row.off <= Len(f.lines)
Matches(f) ==
  /\ row.ident = Identity(f)
  /\ row.off <= Len(f.lines)
  /\ row.tail = PrefixTail(f, row.off)

\* readEventLogIncremental resets to the start when the cursor does not match.
StartOffset(f) == IF ~NoCursor /\ Matches(f) THEN row.off ELSE 0

\* A read from start completes the lines up to end: the read is full, the
\* file ends, or the next line alone is longer than a read.
Completes(f, start, end) ==
  /\ end \in start .. Smaller(Len(f.lines), start + ReadLines)
  /\ \A i \in start + 1 .. end : f.lines[i].id \notin Oversized
  /\ end < Smaller(Len(f.lines), start + ReadLines) =>
       f.lines[end + 1].id \in Oversized

\* Birth times a newly created file may get.
NewBirths == IF Tunnelling THEN {births, births + 1} ELSE {births + 1}

NoChunk == [lines |-> << >>, next |-> NoRow]

NoSizes == [sync |-> 0, ingest |-> 0]

FirstLog(id) ==
  [birth |-> 0, lines |-> << [id |-> id, valid |-> TRUE] >>, torn |-> FALSE]

\* Nothing written and nothing read yet, or a log whose one record has been
\* projected.
Fresh == file = NoFile /\ projected = {} /\ row = NoRow

Synced(id) ==
  /\ file = FirstLog(id)
  /\ projected = {id}
  /\ row = IF Start = "legacy" THEN LegacyRow ELSE CursorAt(FirstLog(id), 1)

Init ==
  /\ IF Start = "fresh" THEN Fresh ELSE \E id \in Ids \ Oversized : Synced(id)
  /\ archive = {} /\ births = 0 /\ diagnosed = {}
  /\ pc = "down" /\ trimmed = << >> /\ original = NoFile
  /\ drained = NoSize /\ size = NoSizes
  /\ chunk = NoChunk /\ chunks = 0
  /\ appends = 0 /\ tears = 0 /\ faults = 0

-----------------------------------------------------------------------------
(* Writers. *)

\* appendJsonLine creates a missing file.  Behind a torn line the new record
\* becomes part of it, and the line is malformed.
Appended(f, id) ==
  [f EXCEPT !.lines = Append(@, [id |-> id, valid |-> ~f.torn]), !.torn = FALSE]

EmptyFile(b) == [birth |-> b, lines |-> << >>, torn |-> FALSE]

\* The live file as a writer may open it for appending.
Openable == IF file # NoFile THEN {file} ELSE {EmptyFile(b) : b \in NewBirths}

LatestBirth(f) == IF f.birth > births THEN f.birth ELSE births

AppendLine(id) ==
  /\ appends < MaxAppends
  /\ appends' = appends + 1
  /\ \E f \in Openable :
       file' = Appended(f, id) /\ births' = LatestBirth(f)
  /\ UNCHANGED <<archive, db, core, tears, faults>>

\* A writer dies in the middle of an append.
TearLine ==
  /\ tears < MaxTears
  /\ tears' = tears + 1
  /\ \E f \in Openable :
       file' = [f EXCEPT !.torn = TRUE] /\ births' = LatestBirth(f)
  /\ UNCHANGED <<archive, db, core, appends, faults>>

-----------------------------------------------------------------------------
(* A starting Core: rotation, then cursor repair. *)

Boot ==
  /\ pc = "down"
  /\ pc' = "rotating"
  /\ UNCHANGED <<disk, db, trimmed, original, drained, size, chunk, chunks, counts>>

TooLarge == file # NoFile /\ Size(file) > 2 * RotateLines

NotRotated ==
  /\ pc = "rotating"
  /\ ~TooLarge
  /\ pc' = "repairing"
  /\ UNCHANGED <<disk, db, trimmed, original, drained, size, chunk, chunks, counts>>

\* Lines a rotation copies: those inside the retention window.  Whether a
\* timestamp can still be found in a malformed line, or in a torn one, which
\* gets a newline then, is left open.
Kept(f, keepMalformed) ==
  {i \in DOMAIN f.lines :
     f.lines[i].id \notin Old /\ (f.lines[i].valid \/ keepMalformed)}

\* trimEventLogFile writes them, in order, to a temporary file.
Trim(keepMalformed) ==
  /\ pc = "rotating"
  /\ TooLarge
  /\ LET kept == Kept(file, keepMalformed)
     IN  \E at \in [1 .. Cardinality(kept) -> kept] :
           /\ \A i, j \in DOMAIN at : i < j => at[i] < at[j]
           /\ trimmed' = [i \in DOMAIN at |-> file.lines[at[i]]]
  /\ pc' = "trimmed"
  /\ UNCHANGED <<disk, db, original, drained, size, chunk, chunks, counts>>

\* The first rename takes away the log as it is now.
MoveAway ==
  /\ pc = "trimmed"
  /\ file # NoFile
  /\ archive' = archive \union ToSet(file.lines)
  /\ original' = file
  /\ file' = NoFile
  /\ pc' = "archived"
  /\ UNCHANGED <<births, db, trimmed, drained, size, chunk, chunks, counts>>

\* The second rename replaces whatever a writer may have created meanwhile.
Install ==
  /\ pc = "archived"
  /\ \E b \in NewBirths :
       /\ file' = [birth |-> b, lines |-> trimmed, torn |-> FALSE]
       /\ births' = b
  /\ trimmed' = << >> /\ original' = NoFile
  /\ pc' = "repairing"
  /\ UNCHANGED <<archive, db, drained, size, chunk, chunks, counts>>

\* repairBrokenIngestionCursor: without a row the cursor goes to the end of
\* the file, with a legacy row to its offset.
RepairOffset(f) ==
  IF row = NoRow THEN Len(f.lines) ELSE Smaller(row.off, Len(f.lines))

Repair ==
  /\ pc = "repairing"
  /\ row' = IF file # NoFile /\ NoCursor
            THEN CursorAt(file, RepairOffset(file)) ELSE row
  /\ pc' = "idle"
  /\ UNCHANGED <<disk, projected, diagnosed, trimmed, original, drained, size,
                 chunk, chunks, counts>>

-----------------------------------------------------------------------------
(* A running Core: createEventLogSynchronizer around ingestEventLog. *)

\* A sync compares the file's signature with the last one it drained.
StartSync ==
  /\ pc = "idle"
  /\ \/ /\ file = NoFile
        /\ drained' = NoSize
        /\ UNCHANGED <<pc, size, chunks>>
     \/ /\ file # NoFile
        /\ Size(file) # drained
        /\ size' = [size EXCEPT !.sync = Size(file)]
        /\ chunks' = 0
        /\ pc' = "ingesting"
        /\ UNCHANGED drained
  /\ UNCHANGED <<disk, db, trimmed, original, chunk, counts>>

\* ingestEventLog takes a signature of its own before it reads.
TakeSize ==
  /\ pc = "ingesting"
  /\ file # NoFile
  /\ size' = [size EXCEPT !.ingest = Size(file)]
  /\ pc' = "reading"
  /\ UNCHANGED <<disk, db, trimmed, original, drained, chunk, chunks, counts>>

ReadChunk ==
  /\ pc = "reading"
  /\ file # NoFile
  /\ LET start == StartOffset(file)
     IN  \E end \in start .. Len(file.lines) :
           /\ Completes(file, start, end)
           /\ chunk' = [lines |-> SubSeq(file.lines, start + 1, end),
                        next |-> CursorAt(file, end)]
  /\ pc' = "read"
  /\ UNCHANGED <<disk, db, trimmed, original, drained, size, chunks, counts>>

AtEndAlways == TRUE
AtEnd == chunk.lines = << >> \/ 2 * chunk.next.off >= size.ingest

\* The signature a drained sync remembers: the one taken before it read.
DrainedSizeAfter == IF file = NoFile THEN NoSize ELSE Size(file)
DrainedSize == size.sync

ValidIds == {line.id : line \in {l \in ToSet(chunk.lines) : l.valid}}

MalformedIds == {line.id : line \in {l \in ToSet(chunk.lines) : ~l.valid}}

\* The malformed lines go unreported.
ReportedNone == diagnosed
Reported == diagnosed \union MalformedIds

SyncEnds ==
  pc' = "idle" /\ chunks' = 0 /\ size' = NoSizes /\ chunk' = NoChunk

\* persistProjectionBatch, one transaction, and the loop around it.
Commit ==
  /\ pc = "read"
  /\ projected' = projected \union ValidIds
  /\ diagnosed' = Reported
  /\ row' = chunk.next
  /\ drained' = IF AtEnd THEN DrainedSize ELSE drained
  /\ \/ /\ AtEnd \/ chunks + 1 >= MaxChunks
        /\ SyncEnds
     \/ /\ ~AtEnd /\ chunks + 1 < MaxChunks
        /\ pc' = "ingesting"
        /\ chunks' = chunks + 1
        /\ size' = [size EXCEPT !.ingest = 0]
        /\ chunk' = NoChunk
  /\ UNCHANGED <<disk, trimmed, original, counts>>

-----------------------------------------------------------------------------
(* Failures. *)

\* The transaction is rolled back and the sync throws.
CommitFails ==
  /\ pc = "read"
  /\ SyncEnds
  /\ UNCHANGED <<disk, trimmed, original, drained>>

\* Trimming fails: the temporary file is removed and Core starts without
\* rotation.
TrimFails ==
  /\ pc = "rotating"
  /\ pc' = "repairing"
  /\ UNCHANGED <<disk, trimmed, original, drained, size, chunk, chunks>>

\* The second rename fails: the original is renamed back.
InstallFails ==
  /\ pc = "archived"
  /\ file' = original
  /\ trimmed' = << >> /\ original' = NoFile
  /\ pc' = "repairing"
  /\ UNCHANGED <<archive, births, drained, size, chunk, chunks>>

\* Core dies; a temporary file it leaves is never used again.
Die ==
  /\ pc # "down"
  /\ pc' = "down"
  /\ trimmed' = << >> /\ original' = NoFile
  /\ drained' = NoSize
  /\ chunk' = NoChunk /\ chunks' = 0 /\ size' = NoSizes
  /\ UNCHANGED disk

Failure ==
  /\ faults < MaxFaults
  /\ faults' = faults + 1
  /\ CommitFails \/ TrimFails \/ InstallFails \/ Die
  /\ UNCHANGED <<db, appends, tears>>

StartStep ==
  \/ Boot \/ NotRotated \/ MoveAway \/ Install \/ Repair
  \/ \E keep \in BOOLEAN : Trim(keep)

SyncStep == StartSync \/ TakeSize \/ ReadChunk \/ Commit

Next ==
  \/ \E id \in Ids : AppendLine(id)
  \/ TearLine
  \/ StartStep
  \/ SyncStep
  \/ Failure

Spec == Init /\ [][Next]_vars

\* Core is started again after a death, its start goes on, and it syncs
\* periodically; nobody has to append.
FairSpec == Spec /\ WF_vars(StartStep) /\ WF_vars(SyncStep)

-----------------------------------------------------------------------------

Rows ==
  {NoRow, LegacyRow} \union
  {r \in CursorRows : Len(r.tail) = Smaller(r.off, TailLines)}

TypeOK ==
  /\ file \in Files \union {NoFile} /\ original \in Files \union {NoFile}
  /\ archive \subseteq Line /\ births \in Nat
  /\ projected \subseteq Ids /\ diagnosed \subseteq Ids
  /\ row \in Rows
  /\ pc \in {"down", "rotating", "trimmed", "archived", "repairing", "idle",
             "ingesting", "reading", "read"}
  /\ trimmed \in Seq(Line)
  /\ drained \in Nat \union {NoSize}
  /\ size \in [sync : Nat, ingest : Nat]
  /\ chunk \in [lines : Seq(Line), next : Rows]
  /\ chunks \in 0 .. MaxChunks
  /\ appends \in 0 .. MaxAppends /\ tears \in 0 .. MaxTears
  /\ faults \in 0 .. MaxFaults

\* A line has been dealt with: its record is projected, or its malformed text
\* reported.
Accounted(line) ==
  IF line.valid THEN line.id \in projected ELSE line.id \in diagnosed

\* Nothing in front of a cursor that the reader would resume from is left
\* out: the transaction, the identity and the prefix hash make reading resume
\* only behind lines that were projected or reported, through torn lines,
\* rotations, rolled back batches and deaths of Core.
CursorNeverSkips ==
  (file # NoFile /\ ~NoCursor /\ Matches(file)) =>
    \A i \in 1 .. row.off : Accounted(file.lines[i])

\* Lines a reader can get to: no oversized line before them.
InReach(i) ==
  \A j \in 1 .. i : file.lines[j].id \notin Oversized

\* When a sync would skip the file because its signature is the last drained
\* one, no line within reach is waiting (createEventLogSynchronizer).
SkipIsSafe ==
  (pc = "idle" /\ file # NoFile /\ Size(file) = drained) =>
    \A i \in DOMAIN file.lines : InReach(i) => Accounted(file.lines[i])

\* The live log holds the record, valid and within reach.
Waiting(id) ==
  /\ file # NoFile
  /\ \E i \in DOMAIN file.lines :
       InReach(i) /\ file.lines[i] = [id |-> id, valid |-> TRUE]

\* Every record in reach in the live log is projected, unless a rotation
\* takes it away first: resets, full batches, the chunk limit, rollbacks and
\* deaths only delay it.
EveryRecordProjected ==
  \A id \in Ids : Waiting(id) ~> (id \in projected \/ ~Waiting(id))

\* data-retention.md, line 122: rebuilding the database from the log brings
\* everything back.  What lies in front of the cursor has been dealt with,
\* also when the database is new and the log is not.
RebuildIsComplete == CursorNeverSkips

\* README, "Event Log Retention": rotation keeps the records inside the
\* retention window.
Starting == pc \in {"down", "rotating", "trimmed", "archived"}
RotationKeepsRecent ==
  ~Starting =>
    \A line \in archive :
      (line.valid /\ line.id \notin Old) =>
        line.id \in projected \/ (file # NoFile /\ line \in ToSet(file.lines))

=============================================================================
