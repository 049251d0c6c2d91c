--------------------------- MODULE EventLogProofs ---------------------------
(***************************************************************************)
(* Machine-checked proofs about EventLog, for every set of records, every   *)
(* length of reads and hashes and every bound, when file systems give each  *)
(* new file a birth time of its own (~Tunnelling) and the database begins    *)
(* with a full cursor (Start = "synced").                                  *)
(*                                                                         *)
(* IInv is about what is in front of a cursor.  SkipInv, at the end, is    *)
(* about the signature of the file that lets a sync be skipped.            *)
(***************************************************************************)
EXTENDS EventLog, SequenceTheorems, FiniteSetTheorems, TLAPS

USE EventLogAssumption, SentinelAssumption
    DEF EventLogAssumption, SentinelAssumption

\* A row from which reading may resume.
Resumable(r) == r # NoRow /\ r.ident # NoIdent

\* A line has been dealt with in a database that holds the records done and
\* the reports made.
Dealt(line, done, told) ==
  IF line.valid THEN line.id \in done ELSE line.id \in told

\* Everything in front of row r in file f has been dealt with, or is in the
\* set pending.
Covers(r, f, pending, done, told) ==
  (f # NoFile /\ Resumable(r) /\ r.ident.birth = f.birth) =>
    /\ r.off <= Len(f.lines)
    /\ \A i \in 1 .. r.off :
         Dealt(f.lines[i], done, told) \/ f.lines[i] \in pending

\* Birth times of files and rows lie in the past, and no two files share one.
BirthsInOrder ==
  /\ file # NoFile => file.birth <= births
  /\ original # NoFile => original.birth <= births
  /\ (file # NoFile /\ original # NoFile) => file.birth # original.birth
  /\ Resumable(row) => row.ident.birth <= births
  /\ Resumable(chunk.next) => chunk.next.ident.birth <= births

PhasesInOrder ==
  /\ Resumable(row)
  /\ original # NoFile => pc = "archived"
  /\ IF pc = "read" THEN Resumable(chunk.next) ELSE chunk = NoChunk
  /\ pc \in {"trimmed", "ingesting", "reading", "read"} => file # NoFile
  /\ pc = "archived" => original # NoFile

IInv ==
  /\ TypeOK
  /\ BirthsInOrder
  /\ PhasesInOrder
  /\ Covers(row, file, {}, projected, diagnosed)
  /\ Covers(row, original, {}, projected, diagnosed)
  /\ Covers(chunk.next, file, ToSet(chunk.lines), projected, diagnosed)

\* A cursor taken from a file is a row, names the file's birth and keeps the
\* offset it was taken at.
LEMMA CursorAtIsARow ==
  ASSUME NEW f \in Files, NEW off \in 0 .. Len(f.lines)
  PROVE  /\ CursorAt(f, off) \in Rows
         /\ Resumable(CursorAt(f, off))
         /\ CursorAt(f, off).off = off
         /\ CursorAt(f, off).ident.birth = f.birth
<1> DEFINE h == Smaller(HeadLines, Len(f.lines))
           t == Smaller(TailLines, off)
<1>1. f.lines \in Seq(Line) /\ f.birth \in Nat /\ f.torn \in BOOLEAN
  BY DEF Files
<1>2. Len(f.lines) \in Nat
  BY <1>1, LenProperties
<1>3. h \in 0 .. Len(f.lines) /\ t \in 0 .. off
  BY <1>2 DEF Smaller
<1>4. SubSeq(f.lines, 1, h) \in Seq(Line)
  BY <1>1, <1>2, <1>3, SubSeqProperties
<1>5. /\ SubSeq(f.lines, (off - t) + 1, off) \in Seq(Line)
      /\ Len(SubSeq(f.lines, (off - t) + 1, off)) = t
  BY <1>1, <1>2, <1>3, SubSeqProperties
<1>6. Identity(f) \in Identities /\ Identity(f).birth = f.birth
  BY <1>1, <1>4 DEF Identity, Identities
<1>7. /\ CursorAt(f, off) \in CursorRows
      /\ Len(CursorAt(f, off).tail) = Smaller(CursorAt(f, off).off, TailLines)
  BY <1>5, <1>6, <1>2 DEF CursorAt, CursorRows, PrefixTail, Smaller
<1>8. CursorAt(f, off) # NoRow /\ CursorAt(f, off).ident # NoIdent
  BY <1>7, <1>6 DEF CursorRows, Identities, Line, CursorAt
<1> QED
  BY <1>6, <1>7, <1>8 DEF Rows, Resumable, CursorAt

\* A file with its lines replaced and its torn end closed.
LEMMA FileExcept ==
  ASSUME NEW f \in Files, NEW lines \in Seq(Line)
  PROVE  LET g == [f EXCEPT !.lines = lines, !.torn = FALSE]
         IN  g \in Files /\ g.birth = f.birth /\ g.lines = lines
BY DEF Files

\* An appended line leaves those before it in place.
LEMMA AppendedFile ==
  ASSUME NEW f \in Files, NEW id \in Ids
  PROVE  /\ Appended(f, id) \in Files /\ Appended(f, id) # NoFile
         /\ Appended(f, id).birth = f.birth
         /\ Len(f.lines) <= Len(Appended(f, id).lines)
         /\ \A i \in 1 .. Len(f.lines) : Appended(f, id).lines[i] = f.lines[i]
<1> DEFINE x == [id |-> id, valid |-> ~f.torn]
           g == Appended(f, id)
<1>1. f.lines \in Seq(Line) /\ f.torn \in BOOLEAN /\ f.birth \in Nat
  BY DEF Files
<1>2. x \in Line
  BY <1>1 DEF Line
<1>3. /\ Append(f.lines, x) \in Seq(Line)
      /\ Len(Append(f.lines, x)) = Len(f.lines) + 1
      /\ \A i \in 1 .. Len(f.lines) : Append(f.lines, x)[i] = f.lines[i]
  <2> HIDE DEF x
  <2> QED
    BY <1>1, <1>2, AppendProperties
<1>4. Len(f.lines) \in Nat
  BY <1>1, LenProperties
<1>5. g = [f EXCEPT !.lines = Append(f.lines, x), !.torn = FALSE]
  BY DEF Appended
<1> HIDE DEF x, g
<1>6. g \in Files /\ g.birth = f.birth /\ g.lines = Append(f.lines, x)
  BY <1>3, <1>5, FileExcept
<1>7. g # NoFile
  BY <1>6
<1>8. /\ Len(f.lines) <= Len(g.lines)
      /\ \A i \in 1 .. Len(f.lines) : g.lines[i] = f.lines[i]
  BY <1>3, <1>4, <1>6
<1> QED
  BY <1>6, <1>7, <1>8 DEF g

\* A torn append leaves every complete line in place.
LEMMA TornFile ==
  ASSUME NEW f \in Files
  PROVE  /\ [f EXCEPT !.torn = TRUE] \in Files /\ [f EXCEPT !.torn = TRUE] # NoFile
         /\ [f EXCEPT !.torn = TRUE].birth = f.birth
         /\ [f EXCEPT !.torn = TRUE].lines = f.lines
BY DEF Files

\* What covers a file also covers it after more lines were appended.
LEMMA CoversGrows ==
  ASSUME NEW r \in Rows, NEW f \in Files, NEW g \in Files,
         NEW P, NEW done, NEW told,
         Covers(r, f, P, done, told),
         g.birth = f.birth,
         Len(f.lines) <= Len(g.lines),
         \A i \in 1 .. Len(f.lines) : g.lines[i] = f.lines[i]
  PROVE  Covers(r, g, P, done, told)
<1>1. f # NoFile /\ Len(f.lines) \in Nat /\ Len(g.lines) \in Nat
  BY LenProperties DEF Files
<1>2. SUFFICES ASSUME Resumable(r), r.ident.birth = g.birth
               PROVE  /\ r.off <= Len(g.lines)
                      /\ \A i \in 1 .. r.off :
                           Dealt(g.lines[i], done, told) \/ g.lines[i] \in P
  BY DEF Covers
<1>3. r.off \in Nat
  BY <1>2 DEF Rows, Resumable, CursorRows, LegacyRow
<1>4. /\ r.off <= Len(f.lines)
      /\ \A i \in 1 .. r.off : Dealt(f.lines[i], done, told) \/ f.lines[i] \in P
  BY <1>1, <1>2 DEF Covers
<1>5. \A i \in 1 .. r.off : g.lines[i] = f.lines[i]
  BY <1>1, <1>3, <1>4
<1> QED
  BY <1>1, <1>3, <1>4, <1>5

\* The invariant holds of a log whose one record has been projected.
LEMMA InitIInv == Start = "synced" /\ Init => IInv
<1> SUFFICES ASSUME Start = "synced", Init PROVE IInv
  OBVIOUS
<1>1. PICK id \in Ids : Synced(id)
  BY DEF Init
<1> DEFINE line == [id |-> id, valid |-> TRUE]
           f == FirstLog(id)
<1>2. f \in Files /\ f.birth = 0 /\ f.lines = << line >> /\ Len(f.lines) = 1
  <2>1. << line >> \in Seq(Line)
    BY DEF Line
  <2> QED
    BY <2>1 DEF FirstLog, Files
<1>3. file = f /\ row = CursorAt(f, 1) /\ projected = {id}
  BY <1>1 DEF Synced
<1>4. row \in Rows /\ Resumable(row) /\ row.off = 1 /\ row.ident.birth = 0
  BY <1>2, <1>3, CursorAtIsARow
<1>5. f.lines[1] = line
  BY <1>2
<1> HIDE DEF f
<1>6. NoChunk \in [lines : Seq(Line), next : Rows] /\ ~Resumable(NoChunk.next)
  BY EmptySeq DEF NoChunk, Rows, Resumable
<1>7. TypeOK
  <2>1. << >> \in Seq(Line)
    BY EmptySeq
  <2> QED
    BY <1>2, <1>3, <1>4, <1>6, <2>1 DEF Init, TypeOK, NoSizes
<1>8. BirthsInOrder /\ PhasesInOrder
  BY <1>2, <1>3, <1>4, <1>6 DEF Init, BirthsInOrder, PhasesInOrder
<1>9. Covers(row, file, {}, projected, diagnosed)
  <2>1. \A i \in 1 .. 1 : i = 1
    OBVIOUS
  <2>2. Dealt(line, projected, diagnosed)
    BY <1>3 DEF Dealt
  <2> HIDE DEF line
  <2>3. row.off <= Len(file.lines) /\ row.off = 1
    <3>1. Len(file.lines) = 1
      BY ONLY <1>2, <1>3
    <3> QED
      BY ONLY <1>4, <3>1
  <2>4. \A i \in 1 .. row.off : Dealt(file.lines[i], projected, diagnosed)
    BY <1>3, <1>5, <2>1, <2>2, <2>3
  <2> QED
    BY <2>3, <2>4 DEF Covers
<1>10. /\ Covers(row, original, {}, projected, diagnosed)
       /\ Covers(chunk.next, file, ToSet(chunk.lines), projected, diagnosed)
  BY <1>6 DEF Init, Covers
<1> QED
  BY <1>7, <1>8, <1>9, <1>10 DEF IInv

\* A writer's step gives the live path a file that continues the one it led
\* to, or a new one that no row knows.
LEMMA WriterStep ==
  ASSUME ~Tunnelling, IInv, NEW f \in Openable, NEW g \in Files,
         g # NoFile, g.birth = f.birth,
         Len(f.lines) <= Len(g.lines),
         \A i \in 1 .. Len(f.lines) : g.lines[i] = f.lines[i],
         file' = g, births' = LatestBirth(f),
         UNCHANGED <<archive, db, core, faults>>,
         appends' \in 0 .. MaxAppends, tears' \in 0 .. MaxTears
  PROVE  IInv'
<1> USE DEF IInv, db, core
<1>1. births \in Nat /\ row \in Rows /\ chunk.next \in Rows
  BY DEF TypeOK
<1>2. TypeOK'
  <2>1. births' \in Nat
    BY DEF LatestBirth, Openable, TypeOK, Files, EmptyFile, NewBirths
  <2> QED
    BY <2>1 DEF TypeOK
<1>3. CASE file # NoFile
  <2>1. f = file /\ f \in Files /\ births' = births
    BY <1>1, <1>3 DEF Openable, LatestBirth, TypeOK, BirthsInOrder, Files
  <2>2. BirthsInOrder' /\ PhasesInOrder'
    BY <2>1, <1>3 DEF BirthsInOrder, PhasesInOrder, Resumable
  <2>3. /\ Covers(row, g, {}, projected, diagnosed)
        /\ Covers(chunk.next, g, ToSet(chunk.lines), projected, diagnosed)
    BY <1>1, <2>1, CoversGrows
  <2> QED
    BY <1>2, <2>2, <2>3
<1>4. CASE file = NoFile
  <2>1. f.birth = births + 1 /\ births' = births + 1
    BY <1>1, <1>4 DEF Openable, LatestBirth, EmptyFile, NewBirths
  <2>2. /\ Resumable(row) => row.ident.birth # g.birth /\ row.ident.birth <= births'
        /\ Resumable(chunk.next) =>
             chunk.next.ident.birth # g.birth /\ chunk.next.ident.birth <= births'
    <3>1. \A r \in Rows : Resumable(r) => r.ident.birth \in Nat
      BY DEF Rows, CursorRows, Identities, LegacyRow, Resumable
    <3>2. \A b \in Nat : b <= births => b # births + 1 /\ b <= births + 1
      BY <1>1
    <3>3. \A r \in {row, chunk.next} :
            Resumable(r) => r.ident.birth \in Nat /\ r.ident.birth <= births
      BY <1>1, <3>1 DEF BirthsInOrder
    <3> QED
      BY <2>1, <3>2, <3>3
  <2>3. BirthsInOrder' /\ PhasesInOrder'
    <3>1. original # NoFile => original.birth <= births' /\ original.birth # g.birth
      BY <1>1, <2>1 DEF BirthsInOrder, TypeOK, Files
    <3>2. g.birth <= births'
      BY <1>1, <2>1
    <3> QED
      BY <2>2, <3>1, <3>2 DEF BirthsInOrder, PhasesInOrder, Resumable
  <2>4. /\ Covers(row, g, {}, projected, diagnosed)
        /\ Covers(chunk.next, g, ToSet(chunk.lines), projected, diagnosed)
    BY <2>2 DEF Covers
  <2> QED
    BY <1>2, <2>3, <2>4
<1> QED
  BY <1>3, <1>4

\* Whatever a writer opens is a file.
LEMMA OpenableIsAFile == TypeOK => \A f \in Openable : f \in Files
<1> SUFFICES ASSUME TypeOK, NEW f \in Openable PROVE f \in Files
  OBVIOUS
<1>1. CASE file # NoFile
  BY <1>1 DEF TypeOK, Openable
<1>2. CASE file = NoFile
  <2>1. PICK b \in NewBirths : f = EmptyFile(b)
    BY <1>2 DEF Openable
  <2>2. b \in Nat
    BY DEF TypeOK, NewBirths
  <2>3. << >> \in Seq(Line)
    BY EmptySeq
  <2> QED
    BY <2>1, <2>2, <2>3 DEF EmptyFile, Files
<1> QED
  BY <1>1, <1>2

\* The writers' actions preserve the invariant.
LEMMA AppendLineStep ==
  ASSUME ~Tunnelling, IInv, NEW id \in Ids, AppendLine(id)
  PROVE  IInv'
<1>1. PICK f \in Openable :
        file' = Appended(f, id) /\ births' = LatestBirth(f)
  BY DEF AppendLine
<1>2. f \in Files
  BY OpenableIsAFile DEF IInv
<1>3. /\ appends' \in 0 .. MaxAppends /\ tears' \in 0 .. MaxTears
      /\ UNCHANGED <<archive, db, core, faults>>
  <2>1. appends \in 0 .. MaxAppends /\ tears \in 0 .. MaxTears
    BY DEF IInv, TypeOK
  <2>2. \A n \in 0 .. MaxAppends : n < MaxAppends => n + 1 \in 0 .. MaxAppends
    OBVIOUS
  <2>3. appends < MaxAppends /\ appends' = appends + 1 /\ UNCHANGED <<archive, db, core, tears, faults>>
    BY DEF AppendLine
  <2> QED
    BY <2>1, <2>2, <2>3
<1> QED
  BY <1>1, <1>2, <1>3, AppendedFile, WriterStep

\* A torn append preserves it too.
LEMMA TearLineStep ==
  ASSUME ~Tunnelling, IInv, TearLine
  PROVE  IInv'
<1>1. PICK f \in Openable :
        file' = [f EXCEPT !.torn = TRUE] /\ births' = LatestBirth(f)
  BY DEF TearLine
<1>2. f \in Files /\ Len(f.lines) \in Nat
  BY OpenableIsAFile, LenProperties DEF IInv, Files
<1>3. /\ appends' \in 0 .. MaxAppends /\ tears' \in 0 .. MaxTears
      /\ UNCHANGED <<archive, db, core, faults>>
  <2>1. appends \in 0 .. MaxAppends /\ tears \in 0 .. MaxTears
    BY DEF IInv, TypeOK
  <2>2. \A n \in 0 .. MaxTears : n < MaxTears => n + 1 \in 0 .. MaxTears
    OBVIOUS
  <2>3. tears < MaxTears /\ tears' = tears + 1 /\ UNCHANGED <<archive, db, core, appends, faults>>
    BY DEF TearLine
  <2> QED
    BY <2>1, <2>2, <2>3
<1> DEFINE g == [f EXCEPT !.torn = TRUE]
<1>4. g \in Files /\ g # NoFile /\ g.birth = f.birth /\ g.lines = f.lines
  BY <1>2, TornFile
<1> HIDE DEF g
<1>5. Len(f.lines) <= Len(g.lines) /\ \A i \in 1 .. Len(f.lines) : g.lines[i] = f.lines[i]
  BY <1>2, <1>4
<1>6. file' = g
  BY <1>1 DEF g
<1> QED
  BY <1>1, <1>3, <1>4, <1>5, <1>6, WriterStep

-----------------------------------------------------------------------------
(* Core's steps. *)

\* A step that leaves files, births and database alone and reads nothing new
\* has only types and phases to keep.
LEMMA QuietStep ==
  ASSUME IInv, UNCHANGED <<file, births, db>>,
         original' \in {original, NoFile}, chunk' \in {chunk, NoChunk},
         TypeOK', PhasesInOrder'
  PROVE  IInv'
<1> USE DEF IInv, db
<1>1. chunk' = NoChunk => ~Resumable(chunk.next)'
  BY DEF NoChunk, Resumable
<1>2. BirthsInOrder'
  BY <1>1 DEF BirthsInOrder, Resumable
<1>3. Covers(row, original, {}, projected, diagnosed)'
  BY DEF Covers, Resumable
<1>4. Covers(chunk.next, file, ToSet(chunk.lines), projected, diagnosed)'
  BY <1>1 DEF Covers, Resumable
<1> QED
  BY <1>2, <1>3, <1>4

\* No chunk is a chunk.
LEMMA NoChunkType == NoChunk \in [lines : Seq(Line), next : Rows]
BY EmptySeq DEF NoChunk, Rows

\* A trimmed log is a sequence of lines of the log.
LEMMA TrimmedType ==
  ASSUME TypeOK, file # NoFile, NEW keep \in BOOLEAN, Trim(keep)
  PROVE  trimmed' \in Seq(Line)
<1> DEFINE kept == Kept(file, keep)
<1>1. file.lines \in Seq(Line) /\ Len(file.lines) \in Nat
      /\ DOMAIN file.lines = 1 .. Len(file.lines)
  BY LenProperties DEF TypeOK, Files
<1>2. kept \subseteq 1 .. Len(file.lines)
  BY <1>1 DEF Kept
<1>3. IsFiniteSet(kept) /\ Cardinality(kept) \in Nat
  <2> HIDE DEF kept
  <2>1. IsFiniteSet(1 .. Len(file.lines))
    BY <1>1, FS_Interval
  <2>2. IsFiniteSet(kept)
    BY <1>2, <2>1, FS_Subset
  <2> QED
    BY <2>2, FS_CardinalityType
<1>4. PICK at \in [1 .. Cardinality(kept) -> kept] :
        trimmed' = [i \in DOMAIN at |-> file.lines[at[i]]]
  BY DEF Trim
<1>5. DOMAIN at = 1 .. Cardinality(kept)
  OBVIOUS
<1>6. \A i \in 1 .. Cardinality(kept) : file.lines[at[i]] \in Line
  BY <1>1, <1>2, ElementOfSeq
<1>7. trimmed' \in [1 .. Cardinality(kept) -> Line]
  BY <1>4, <1>5, <1>6
<1> QED
  BY <1>3, <1>7, SeqDef

\* Steps of a starting Core that touch no file.
LEMMA StartingStep ==
  ASSUME IInv, Boot \/ NotRotated \/ \E keep \in BOOLEAN : Trim(keep)
  PROVE  IInv'
<1> USE DEF IInv, TypeOK, PhasesInOrder
<1>1. CASE Boot
  BY <1>1, QuietStep DEF Boot, disk, db, counts
<1>2. CASE NotRotated
  BY <1>2, QuietStep DEF NotRotated, disk, db, counts
<1>3. ASSUME NEW keep \in BOOLEAN, Trim(keep) PROVE IInv'
  <2>1. trimmed' \in Seq(Line)
    BY <1>3, TrimmedType DEF Trim, TooLarge
  <2> QED
    BY <1>3, <2>1, QuietStep DEF Trim, TooLarge, disk, db, counts
<1> QED
  BY <1>1, <1>2, <1>3

\* The first rename: what covered the live log covers the moved one.
LEMMA MoveAwayStep ==
  ASSUME IInv, MoveAway
  PROVE  IInv'
<1> USE DEF IInv, MoveAway, db, counts
<1>1. ToSet(file.lines) \subseteq Line
  <2>1. file.lines \in Seq(Line)
    BY DEF TypeOK, Files
  <2> QED
    BY <2>1, ElementOfSeq, LenProperties DEF ToSet
<1>2. TypeOK'
  BY <1>1 DEF TypeOK
<1>3. BirthsInOrder' /\ PhasesInOrder'
  BY DEF BirthsInOrder, PhasesInOrder, Resumable
<1>4. /\ Covers(row, original, {}, projected, diagnosed)'
      /\ Covers(row, file, {}, projected, diagnosed)'
      /\ Covers(chunk.next, file, ToSet(chunk.lines), projected, diagnosed)'
  BY DEF Covers, Resumable
<1> QED
  BY <1>2, <1>3, <1>4

\* The second rename: the trimmed log has a birth that no row names.
LEMMA InstallStep ==
  ASSUME ~Tunnelling, IInv, Install
  PROVE  IInv'
<1> USE DEF IInv, Install, db, counts
<1> DEFINE g == [birth |-> births + 1, lines |-> trimmed, torn |-> FALSE]
<1>1. file' = g /\ births' = births + 1 /\ births \in Nat
  BY DEF NewBirths, TypeOK
<1>2. g \in Files /\ g.birth = births + 1
  BY <1>1 DEF TypeOK, Files
<1> HIDE DEF g
<1>3. TypeOK'
  <2>1. trimmed' \in Seq(Line)
    BY EmptySeq
  <2>2. file' \in Files
    BY ONLY <1>1, <1>2
  <2>3. births' \in Nat
    BY ONLY <1>1
  <2> QED
    BY <2>1, <2>2, <2>3 DEF TypeOK
<1>4. /\ Resumable(row) => row.ident.birth # g.birth /\ row.ident.birth <= births'
      /\ Resumable(chunk.next) =>
           chunk.next.ident.birth # g.birth /\ chunk.next.ident.birth <= births'
  <2>1. \A r \in Rows : Resumable(r) => r.ident.birth \in Nat
    BY DEF Rows, CursorRows, Identities, LegacyRow, Resumable
  <2>2. row \in Rows /\ chunk.next \in Rows
    BY DEF TypeOK
  <2>3. \A m, n \in Nat : m <= n => m # n + 1 /\ m <= n + 1
    OBVIOUS
  <2> QED
    BY <1>1, <1>2, <2>1, <2>2, <2>3 DEF BirthsInOrder
<1>5. BirthsInOrder' /\ PhasesInOrder'
  BY <1>1, <1>2, <1>4 DEF BirthsInOrder, PhasesInOrder, Resumable
<1>6. /\ Covers(row, g, {}, projected, diagnosed)
      /\ Covers(chunk.next, g, ToSet(chunk.lines), projected, diagnosed)
  BY <1>4 DEF Covers
<1>7. Covers(row, original, {}, projected, diagnosed)'
  BY DEF Covers
<1> QED
  BY <1>1, <1>3, <1>5, <1>6, <1>7

\* A cursor with identity needs no repair.
LEMMA RepairStep ==
  ASSUME IInv, Repair
  PROVE  IInv'
<1> USE DEF IInv, Repair, disk, db, counts
<1>1. row' = row
  BY DEF NoCursor, PhasesInOrder, Resumable
<1>2. TypeOK' /\ PhasesInOrder'
  BY <1>1 DEF TypeOK, PhasesInOrder, Resumable
<1> QED
  BY <1>1, <1>2, QuietStep

\* Steps of a sync before it reads.
LEMMA PreparingStep ==
  ASSUME IInv, StartSync \/ TakeSize
  PROVE  IInv'
<1> USE DEF IInv, TypeOK, PhasesInOrder
<1>1. file # NoFile => Size(file) \in Nat
  <2> SUFFICES ASSUME file # NoFile PROVE Size(file) \in Nat
    OBVIOUS
  <2>1. Len(file.lines) \in Nat
    BY LenProperties DEF Files
  <2>2. (IF file.torn THEN 1 ELSE 0) \in Nat
    OBVIOUS
  <2>3. \A m, n \in Nat : 2 * m + n \in Nat
    OBVIOUS
  <2> QED
    BY ONLY <2>1, <2>2, <2>3 DEF Size
<1>2. CASE StartSync
  <2>1. drained' \in Nat \union {NoSize}
    BY ONLY TypeOK, <1>2 DEF StartSync, TypeOK
  <2>2. size' \in [sync : Nat, ingest : Nat]
    BY ONLY TypeOK, <1>1, <1>2 DEF StartSync, TypeOK
  <2>3. chunks' \in 0 .. MaxChunks
    BY <1>2 DEF StartSync
  <2>4. pc' = pc \/ (pc' = "ingesting" /\ file # NoFile /\ pc = "idle")
    BY <1>2 DEF StartSync
  <2> QED
    BY <1>2, <2>1, <2>2, <2>3, <2>4, QuietStep DEF StartSync, disk, db, counts
<1>3. CASE TakeSize
  BY <1>1, <1>3, QuietStep DEF TakeSize, disk, db, counts
<1> QED
  BY <1>2, <1>3

\* A read takes up behind a covered offset, or at the start: what lies in
\* front of the cursor it yields is covered or among the lines read.
LEMMA ReadChunkStep ==
  ASSUME IInv, ReadChunk
  PROVE  IInv'
<1> USE DEF IInv
<1> DEFINE start == StartOffset(file)
<1>1. file \in Files /\ file.lines \in Seq(Line) /\ Len(file.lines) \in Nat
  BY LenProperties DEF ReadChunk, TypeOK, Files
<1>2. start \in 0 .. Len(file.lines)
  BY <1>1 DEF StartOffset, Matches, NoCursor, TypeOK, Rows, CursorRows, LegacyRow
<1>3. PICK end \in start .. Len(file.lines) :
        chunk' = [lines |-> SubSeq(file.lines, start + 1, end),
                  next |-> CursorAt(file, end)]
  BY DEF ReadChunk
<1> DEFINE read == SubSeq(file.lines, start + 1, end)
           r == CursorAt(file, end)
<1>4. \A i \in 1 .. start : Dealt(file.lines[i], projected, diagnosed)
  <2>1. CASE start = 0
    BY <2>1
  <2>2. CASE start # 0
    <3>1. start = row.off /\ Resumable(row) /\ row.ident.birth = file.birth
      BY <2>2 DEF StartOffset, NoCursor, Matches, Resumable, Identity
    <3> QED
      BY <1>1, <3>1 DEF Covers
  <2> QED
    BY <2>1, <2>2
<1> HIDE DEF start
<1>5. /\ read \in Seq(Line)
      /\ Len(read) = end - start
      /\ \A i \in 1 .. end - start : read[i] = file.lines[start + i]
  BY <1>1, <1>2, SubSeqProperties
<1>6. \A i \in start + 1 .. end : file.lines[i] \in ToSet(read)
  <2> SUFFICES ASSUME NEW i \in start + 1 .. end
               PROVE  file.lines[i] \in ToSet(read)
    OBVIOUS
  <2>1. i - start \in 1 .. end - start /\ start + (i - start) = i
    BY <1>2
  <2>2. DOMAIN read = 1 .. end - start
    BY <1>5, LenProperties
  <2> HIDE DEF read
  <2> QED
    BY <1>5, <2>1, <2>2 DEF ToSet
<1>7. r \in Rows /\ Resumable(r) /\ r.off = end /\ r.ident.birth = file.birth
  BY <1>1, <1>2, CursorAtIsARow
<1>8. chunk' = [lines |-> read, next |-> r]
  BY <1>3
<1> HIDE DEF read, r
<1>9. TypeOK'
  BY <1>5, <1>7, <1>8 DEF ReadChunk, TypeOK, disk, db, counts
<1>10. BirthsInOrder' /\ PhasesInOrder'
  BY <1>7, <1>8 DEF ReadChunk, disk, db, counts, BirthsInOrder, PhasesInOrder, Resumable
<1>11. Covers(r, file, ToSet(read), projected, diagnosed)
  BY <1>1, <1>2, <1>4, <1>6, <1>7 DEF Covers
<1>12. Covers(chunk.next, file, ToSet(chunk.lines), projected, diagnosed)'
  BY <1>8, <1>11 DEF ReadChunk, disk, db
<1>13. /\ Covers(row, file, {}, projected, diagnosed)'
       /\ Covers(row, original, {}, projected, diagnosed)'
  BY DEF ReadChunk, disk, db
<1> QED
  BY <1>9, <1>10, <1>12, <1>13

\* The transaction deals with every line it read and moves the cursor behind
\* them.
LEMMA CommitStep ==
  ASSUME IInv, Commit
  PROVE  IInv'
<1> USE DEF IInv
<1>1. /\ chunk.lines \in Seq(Line) /\ chunk.next \in Rows
      /\ ToSet(chunk.lines) \subseteq Line
  <2>1. chunk.lines \in Seq(Line) /\ chunk.next \in Rows
    BY DEF TypeOK
  <2> QED
    BY <2>1, ElementOfSeq, LenProperties DEF ToSet
<1>2. /\ projected' = projected \union ValidIds
      /\ diagnosed' = diagnosed \union MalformedIds
      /\ row' = chunk.next
      /\ original = NoFile /\ file # NoFile
  BY DEF Commit, Reported, PhasesInOrder
<1>3. ValidIds \subseteq Ids /\ MalformedIds \subseteq Ids
  BY <1>1 DEF ValidIds, MalformedIds, Line
<1>4. chunk' = NoChunk /\ UNCHANGED <<file, archive, births, trimmed, original>>
  BY DEF Commit, SyncEnds, disk
<1>5. /\ drained' \in Nat \union {NoSize} /\ size' \in [sync : Nat, ingest : Nat]
      /\ chunks' \in 0 .. MaxChunks /\ pc' \in {"idle", "ingesting"}
  <2>1. TypeOK /\ Commit
    OBVIOUS
  <2>2. drained' \in Nat \union {NoSize}
    BY ONLY <2>1 DEF Commit, DrainedSize, TypeOK
  <2>3. size' \in [sync : Nat, ingest : Nat]
    BY ONLY <2>1 DEF Commit, SyncEnds, NoSizes, TypeOK
  <2>4. chunks' \in 0 .. MaxChunks
    <3>1. MaxChunks \in Nat \ {0}
      OBVIOUS
    <3> QED
      BY ONLY <2>1, <3>1 DEF Commit, SyncEnds, TypeOK
  <2>5. pc' \in {"idle", "ingesting"}
    BY DEF Commit, SyncEnds
  <2> QED
    BY <2>2, <2>3, <2>4, <2>5
<1>6. UNCHANGED <<appends, tears, faults>>
  BY DEF Commit, counts
<1>7. TypeOK'
  BY <1>1, <1>2, <1>3, <1>4, <1>5, <1>6, NoChunkType DEF TypeOK
<1>8. Resumable(row') /\ pc' # "read"
  BY <1>2, <1>5 DEF Commit, PhasesInOrder
<1>9. PhasesInOrder'
  BY <1>2, <1>4, <1>5, <1>8 DEF PhasesInOrder, Resumable
<1>10. ~Resumable(NoChunk.next)
  BY DEF NoChunk, Resumable
<1>11. BirthsInOrder'
  BY <1>2, <1>4, <1>10 DEF BirthsInOrder, Resumable
<1>12. \A line \in ToSet(chunk.lines) : Dealt(line, projected', diagnosed')
  BY <1>2 DEF Dealt, ValidIds, MalformedIds
<1>13. \A line : Dealt(line, projected, diagnosed) => Dealt(line, projected', diagnosed')
  BY <1>2 DEF Dealt
<1>14. Covers(chunk.next, file, {}, projected', diagnosed')
  BY <1>12, <1>13 DEF Covers
<1>15. Covers(row, file, {}, projected, diagnosed)'
  BY <1>2, <1>4, <1>14
<1>16. /\ Covers(row, original, {}, projected, diagnosed)'
       /\ Covers(chunk.next, file, ToSet(chunk.lines), projected, diagnosed)'
  BY <1>2, <1>4, <1>10 DEF Covers
<1> QED
  BY <1>7, <1>9, <1>11, <1>15, <1>16

\* Failures undo or forget; the log renamed back is the one that was covered.
LEMMA FailureStep ==
  ASSUME IInv, Failure
  PROVE  IInv'
<1> USE DEF IInv
<1>1. faults' \in 0 .. MaxFaults /\ UNCHANGED <<projected, diagnosed, row, appends, tears>>
  BY DEF Failure, TypeOK, db
<1>2. CASE CommitFails
  BY <1>1, <1>2, QuietStep, NoChunkType
     DEF CommitFails, SyncEnds, NoSizes, disk, db, TypeOK, PhasesInOrder
<1>3. CASE TrimFails
  BY <1>1, <1>3, QuietStep DEF TrimFails, disk, db, TypeOK, PhasesInOrder
<1>4. CASE Die
  <2>1. trimmed' \in Seq(Line)
    BY <1>4, EmptySeq DEF Die
  <2>2. TypeOK' /\ PhasesInOrder'
    BY <1>1, <1>4, <2>1, NoChunkType DEF Die, NoSizes, disk, TypeOK, PhasesInOrder
  <2> QED
    BY <1>1, <1>4, <2>2, QuietStep DEF Die, disk, db
<1>5. CASE InstallFails
  <2>1. trimmed' \in Seq(Line)
    BY <1>5, EmptySeq DEF InstallFails
  <2>2. original # NoFile /\ chunk = NoChunk
    BY <1>5 DEF InstallFails, PhasesInOrder
  <2>3. TypeOK' /\ PhasesInOrder'
    BY <1>1, <1>5, <2>1, <2>2 DEF InstallFails, TypeOK, PhasesInOrder
  <2>4. BirthsInOrder'
    BY <1>1, <1>5, <2>2 DEF InstallFails, BirthsInOrder, Resumable
  <2>5. /\ Covers(row, file, {}, projected, diagnosed)'
        /\ Covers(row, original, {}, projected, diagnosed)'
        /\ Covers(chunk.next, file, ToSet(chunk.lines), projected, diagnosed)'
    BY <1>1, <1>5, <2>2 DEF InstallFails, Covers, NoChunk, Resumable
  <2> QED
    BY <2>3, <2>4, <2>5
<1> QED
  BY <1>2, <1>3, <1>4, <1>5 DEF Failure

-----------------------------------------------------------------------------

\* Every step preserves the invariant.
LEMMA NextIInv == ~Tunnelling /\ IInv /\ [Next]_vars => IInv'
<1> SUFFICES ASSUME ~Tunnelling, IInv, [Next]_vars PROVE IInv'
  OBVIOUS
<1>1. CASE \E id \in Ids : AppendLine(id)
  BY <1>1, AppendLineStep
<1>2. CASE TearLine
  BY <1>2, TearLineStep
<1>3. CASE StartStep
  BY <1>3, StartingStep, MoveAwayStep, InstallStep, RepairStep DEF StartStep
<1>4. CASE SyncStep
  BY <1>4, PreparingStep, ReadChunkStep, CommitStep DEF SyncStep
<1>5. CASE Failure
  BY <1>5, FailureStep
<1>6. CASE UNCHANGED vars
  <2>1. TypeOK'
    BY <1>6 DEF IInv, TypeOK, vars, disk, db, core, counts
  <2>2. PhasesInOrder'
    BY <1>6 DEF IInv, PhasesInOrder, Resumable, vars, disk, db, core
  <2> QED
    BY <1>6, <2>1, <2>2, QuietStep DEF vars, disk, db, core
<1> QED
  BY <1>1, <1>2, <1>3, <1>4, <1>5, <1>6 DEF Next

\* Whenever the cursor matches the live log, what lies in front of it has
\* been dealt with.
LEMMA CoveredCursor == IInv => CursorNeverSkips
<1> SUFFICES ASSUME IInv, file # NoFile, ~NoCursor, Matches(file),
                    NEW i \in 1 .. row.off
             PROVE  Accounted(file.lines[i])
  BY DEF CursorNeverSkips
<1>1. Resumable(row) /\ row.ident.birth = file.birth
  BY DEF NoCursor, Resumable, Matches, Identity
<1>2. Dealt(file.lines[i], projected, diagnosed)
  BY <1>1 DEF IInv, Covers
<1> QED
  BY <1>2 DEF Dealt, Accounted

\* The invariant holds of every behaviour of a log whose database has a full
\* cursor, on a file system that gives new files new births.
THEOREM EventLogInvariance ==
  ASSUME Start = "synced", ~Tunnelling
  PROVE  Spec => []IInv
<1>1. Init => IInv
  BY InitIInv
<1>2. IInv /\ [Next]_vars => IInv'
  BY NextIInv
<1> QED
  BY <1>1, <1>2, PTL DEF Spec

\* Type correctness of the log, its rotation and its projection.
THEOREM EventLogTypes ==
  ASSUME Start = "synced", ~Tunnelling
  PROVE  Spec => []TypeOK
<1>1. IInv => TypeOK
  BY DEF IInv
<1> QED
  BY <1>1, EventLogInvariance, PTL

\* Reading never resumes behind a line that was neither projected nor
\* reported: no crash, torn append, rollback or rotation makes the projector
\* of event-log-projector.ts skip a record.
THEOREM ReadingNeverSkips ==
  ASSUME Start = "synced", ~Tunnelling
  PROVE  Spec => []CursorNeverSkips
<1> QED
  BY CoveredCursor, EventLogInvariance, PTL

-----------------------------------------------------------------------------
(* A sync that is skipped misses nothing.                                    *)
(*                                                                           *)
(* The signature of a drained sync was taken before it read, and the live    *)
(* log only grows while Core runs.  So a log that still has that signature   *)
(* is the log the last read saw, to its end or to an oversized line.         *)

Running == {"idle", "ingesting", "reading", "read"}

\* No line within reach is waiting.
AllDealt ==
  \A i \in 1 .. Len(file.lines) :
    InReach(i) => Dealt(file.lines[i], projected, diagnosed)

\* The last drained signature is one the live log had, and if it has it still
\* nothing is waiting.
DrainedWasAll ==
  drained # NoSize =>
    /\ pc \in Running /\ file # NoFile
    /\ drained <= Size(file)
    /\ drained = Size(file) => AllDealt

\* The signatures were taken in order, and the log has only grown since.
SizesInOrder ==
  /\ pc \in {"ingesting", "reading", "read"} => size.sync <= Size(file)
  /\ pc \in {"reading", "read"} => size.sync <= size.ingest /\ size.ingest <= Size(file)

\* Nothing more can be read behind off.
NoMore(f, off) ==
  off >= Len(f.lines) \/ f.lines[off + 1].id \in Oversized

\* What was read belongs to the live log; a read that found nothing was at its
\* end, or before a line that is longer than a read.
ReadIsLive ==
  pc = "read" =>
    /\ chunk.next.ident.birth = file.birth
    /\ chunk.lines = << >> /\ size.ingest = Size(file) => NoMore(file, chunk.next.off)

SkipInv == DrainedWasAll /\ SizesInOrder /\ ReadIsLive

LEMMA InitSkipInv == Start = "synced" /\ Init => SkipInv
BY DEF Init, SkipInv, DrainedWasAll, SizesInOrder, ReadIsLive

LEMMA SizeOfAFile ==
  ASSUME NEW f \in Files
  PROVE  /\ Size(f) \in Nat /\ Len(f.lines) \in Nat
         /\ Size(f) = 2 * Len(f.lines) + (IF f.torn THEN 1 ELSE 0)
         /\ Size(f) <= 2 * Len(f.lines) + 1
<1>1. Len(f.lines) \in Nat /\ (IF f.torn THEN 1 ELSE 0) \in {0, 1}
  BY LenProperties DEF Files
<1>2. \A n \in Nat, t \in {0, 1} : 2 * n + t \in Nat /\ 2 * n + t <= 2 * n + 1
  OBVIOUS
<1>3. Size(f) = 2 * Len(f.lines) + (IF f.torn THEN 1 ELSE 0)
  BY DEF Size
<1> QED
  BY ONLY <1>1, <1>2, <1>3

\* The live log continues as the same file, and a longer one unless its lines
\* are the same.
Grows ==
  file # NoFile =>
    /\ file' \in Files /\ file' # NoFile
    /\ file'.birth = file.birth
    /\ Size(file) <= Size(file')
    /\ Size(file') = Size(file) => file'.lines = file.lines

LEMMA AppendGrows ==
  ASSUME TypeOK, NEW id \in Ids, AppendLine(id)
  PROVE  Grows
<1> SUFFICES ASSUME file # NoFile
             PROVE  /\ file' \in Files /\ file' # NoFile /\ file'.birth = file.birth
                    /\ Size(file) < Size(file')
  <2>1. ASSUME NEW f \in Files, NEW g \in Files, Size(f) < Size(g)
        PROVE  Size(f) <= Size(g) /\ Size(g) # Size(f)
    <3>1. Size(f) \in Nat /\ Size(g) \in Nat
      BY SizeOfAFile
    <3> QED
      BY ONLY <2>1, <3>1
  <2>2. file # NoFile => file \in Files
    BY DEF TypeOK
  <2> QED
    BY <2>1, <2>2 DEF Grows
<1>1. file \in Files /\ file' = Appended(file, id)
  BY DEF TypeOK, AppendLine, Openable
<1>2. Appended(file, id) \in Files /\ Appended(file, id) # NoFile
      /\ Appended(file, id).birth = file.birth
  BY <1>1, AppendedFile
<1>3. Len(Appended(file, id).lines) = Len(file.lines) + 1
  <2> DEFINE x == [id |-> id, valid |-> ~file.torn]
  <2>1. file.lines \in Seq(Line) /\ x \in Line
    BY <1>1 DEF Files, Line
  <2>2. Appended(file, id).lines = Append(file.lines, x)
    BY <1>1 DEF Appended, Files
  <2> HIDE DEF x
  <2> QED
    BY <2>1, <2>2, AppendProperties
<1> DEFINE g == Appended(file, id)
<1> HIDE DEF g
<1>4. g \in Files /\ Len(g.lines) = Len(file.lines) + 1
  BY <1>2, <1>3 DEF g
<1>5. Size(file) < Size(g)
  <2>1. Size(g) \in Nat /\ Size(file) \in Nat /\ Len(file.lines) \in Nat
        /\ Size(file) <= 2 * Len(file.lines) + 1
        /\ Size(g) = 2 * Len(g.lines) + (IF g.torn THEN 1 ELSE 0)
    BY <1>1, <1>4, SizeOfAFile
  <2>2. PICK t \in {0, 1} : Size(g) = 2 * Len(g.lines) + t
    BY <2>1
  <2>3. \A n, x, y \in Nat, u \in {0, 1} :
          x <= 2 * n + 1 /\ y = 2 * (n + 1) + u => x < y
    OBVIOUS
  <2> QED
    BY ONLY <1>4, <2>1, <2>2, <2>3
<1> QED
  BY <1>1, <1>2, <1>5 DEF g

LEMMA TearGrows ==
  ASSUME TypeOK, TearLine
  PROVE  Grows
<1> SUFFICES ASSUME file # NoFile
             PROVE  /\ file' \in Files /\ file' # NoFile /\ file'.birth = file.birth
                    /\ Size(file) <= Size(file') /\ file'.lines = file.lines
  BY DEF Grows
<1> DEFINE g == [file EXCEPT !.torn = TRUE]
<1>1. file \in Files /\ file' = g
  BY DEF TypeOK, TearLine, Openable
<1>2. g \in Files /\ g # NoFile /\ g.birth = file.birth /\ g.lines = file.lines
  BY <1>1, TornFile
<1>3. g.torn
  BY <1>1 DEF Files
<1> HIDE DEF g
<1>4. Size(file) <= Size(g)
  BY <1>1, <1>2, <1>3, SizeOfAFile
<1> QED
  BY <1>1, <1>2, <1>4

\* What writers do leaves the invariant alone.
LEMMA GrowingSkips ==
  ASSUME TypeOK, PhasesInOrder, SkipInv, Grows, UNCHANGED <<db, core>>
  PROVE  SkipInv'
<1>0. /\ UNCHANGED <<projected, diagnosed, pc, drained, size, chunk>>
      /\ pc \in {"ingesting", "reading", "read"} => file # NoFile
      /\ drained \in Nat \union {NoSize} /\ size.sync \in Nat /\ size.ingest \in Nat
  BY DEF db, core, PhasesInOrder, TypeOK
<1>1. CASE file = NoFile
  BY <1>0, <1>1 DEF SkipInv, DrainedWasAll, SizesInOrder, ReadIsLive
<1>2. CASE file # NoFile
  <2> PICK g \in Files : g = file'
    BY <1>2 DEF Grows
  <2>1. /\ g # NoFile /\ g.birth = file.birth
        /\ Size(file) \in Nat /\ Size(g) \in Nat /\ Size(file) <= Size(g)
        /\ Size(g) = Size(file) => g.lines = file.lines
    BY <1>2, SizeOfAFile DEF Grows, TypeOK
  <2>2. ASSUME NEW s \in Nat, s <= Size(file)
        PROVE  s <= Size(g) /\ (s = Size(g) => s = Size(file) /\ Size(g) = Size(file))
    BY ONLY <2>1, <2>2
  <2>3. g.lines = file.lines /\ AllDealt => AllDealt'
    BY <1>0 DEF AllDealt, InReach
  <2>4. DrainedWasAll'
    <3> SUFFICES ASSUME drained # NoSize
                 PROVE  drained <= Size(g) /\ (drained = Size(g) => AllDealt')
      BY <1>0, <1>2, <2>1 DEF SkipInv, DrainedWasAll
    <3>1. drained \in Nat /\ drained <= Size(file) /\ (drained = Size(file) => AllDealt)
      BY <1>0 DEF SkipInv, DrainedWasAll
    <3> QED
      BY <2>1, <2>2, <2>3, <3>1
  <2>5. SizesInOrder'
    BY <1>0, <2>2 DEF SkipInv, SizesInOrder
  <2>6. ReadIsLive'
    <3> SUFFICES ASSUME pc = "read"
                 PROVE  /\ chunk.next.ident.birth = g.birth
                        /\ chunk.lines = << >> /\ size.ingest = Size(g)
                             => NoMore(g, chunk.next.off)
      BY <1>0 DEF ReadIsLive
    <3>1. size.ingest <= Size(file)
      BY DEF SkipInv, SizesInOrder
    <3> QED
      BY <1>0, <2>1, <2>2, <3>1 DEF SkipInv, ReadIsLive, NoMore
  <2> QED
    BY <2>4, <2>5, <2>6 DEF SkipInv
<1> QED
  BY <1>1, <1>2

\* A starting Core remembers no signature and has read nothing.
LEMMA StartingSkips ==
  ASSUME SkipInv, pc \notin Running, drained' = drained,
         pc' \notin {"ingesting", "reading", "read"}
  PROVE  SkipInv'
BY DEF SkipInv, DrainedWasAll, SizesInOrder, ReadIsLive, Running

LEMMA StartStepSkips ==
  ASSUME SkipInv, StartStep
  PROVE  SkipInv'
<1>1. /\ pc \notin Running /\ drained' = drained
      /\ pc' \notin {"ingesting", "reading", "read"}
  BY DEF StartStep, Boot, NotRotated, MoveAway, Install, Repair, Trim, Running
<1> QED
  BY <1>1, StartingSkips

LEMMA StartSyncSkips ==
  ASSUME TypeOK, SkipInv, StartSync
  PROVE  SkipInv'
<1>0. /\ UNCHANGED <<file, projected, diagnosed>> /\ pc = "idle"
      /\ AllDealt => AllDealt'
  BY DEF StartSync, disk, db, AllDealt, InReach
<1>1. CASE file = NoFile
  <2>1. drained' = NoSize /\ pc' = pc
    BY <1>1 DEF StartSync
  <2> QED
    BY <1>0, <2>1 DEF SkipInv, DrainedWasAll, SizesInOrder, ReadIsLive
<1>2. CASE file # NoFile
  <2>1. drained' = drained /\ pc' = "ingesting" /\ size'.sync = Size(file)
    BY <1>2 DEF StartSync, TypeOK
  <2>2. Size(file) \in Nat
    BY <1>2, SizeOfAFile DEF TypeOK
  <2>3. DrainedWasAll'
    BY <1>0, <1>2, <2>1 DEF SkipInv, DrainedWasAll, Running
  <2>4. SizesInOrder' /\ ReadIsLive'
    BY <1>0, <2>1, <2>2 DEF SizesInOrder, ReadIsLive
  <2> QED
    BY <2>3, <2>4 DEF SkipInv
<1> QED
  BY <1>1, <1>2

LEMMA TakeSizeSkips ==
  ASSUME TypeOK, SkipInv, TakeSize
  PROVE  SkipInv'
<1>0. /\ UNCHANGED <<file, projected, diagnosed, drained>> /\ pc = "ingesting"
      /\ pc' = "reading" /\ file # NoFile
      /\ size'.ingest = Size(file) /\ size'.sync = size.sync
      /\ AllDealt => AllDealt'
  BY DEF TakeSize, disk, db, AllDealt, InReach, TypeOK
<1>1. Size(file) \in Nat
  BY <1>0, SizeOfAFile DEF TypeOK
<1>2. DrainedWasAll'
  BY <1>0 DEF SkipInv, DrainedWasAll, Running
<1>3. SizesInOrder' /\ ReadIsLive'
  BY <1>0, <1>1 DEF SkipInv, SizesInOrder, ReadIsLive
<1> QED
  BY <1>2, <1>3 DEF SkipInv

\* A read that completes no line was at the end of the log or before an
\* oversized line.
LEMMA ReadChunkSkips ==
  ASSUME IInv, SkipInv, ReadChunk
  PROVE  SkipInv'
<1>0. /\ UNCHANGED <<file, projected, diagnosed, drained, size>> /\ pc = "reading"
      /\ pc' = "read" /\ file # NoFile
      /\ AllDealt => AllDealt'
  BY DEF ReadChunk, disk, db, AllDealt, InReach
<1>1. DrainedWasAll' /\ SizesInOrder'
  BY <1>0 DEF SkipInv, DrainedWasAll, SizesInOrder, Running
<1>2. /\ file \in Files /\ file.lines \in Seq(Line) /\ Len(file.lines) \in Nat
  BY <1>0, LenProperties DEF IInv, TypeOK, Files
<1> DEFINE start == StartOffset(file)
<1>3. start \in 0 .. Len(file.lines)
  BY <1>2 DEF StartOffset, Matches, NoCursor, IInv, TypeOK, Rows, CursorRows, LegacyRow
<1> HIDE DEF start
<1>4. PICK end \in start .. Len(file.lines) :
        /\ Completes(file, start, end)
        /\ chunk' = [lines |-> SubSeq(file.lines, start + 1, end),
                     next |-> CursorAt(file, end)]
  BY DEF ReadChunk, start
<1>5. /\ CursorAt(file, end).off = end
      /\ CursorAt(file, end).ident.birth = file.birth
  BY <1>2, <1>3, CursorAtIsARow
<1>6. Len(SubSeq(file.lines, start + 1, end)) = end - start
  BY <1>2, <1>3, SubSeqProperties
<1>7. ASSUME SubSeq(file.lines, start + 1, end) = << >>
      PROVE  NoMore(file, end)
  <2>1. end = start
    BY <1>3, <1>6, <1>7
  <2>2. ASSUME end < Len(file.lines) PROVE file.lines[end + 1].id \in Oversized
    <3>1. end < Smaller(Len(file.lines), start + ReadLines)
      BY <1>2, <1>3, <2>1, <2>2 DEF Smaller
    <3> QED
      BY <1>4, <3>1 DEF Completes
  <2> QED
    BY <1>2, <1>3, <2>2 DEF NoMore
<1>8. ReadIsLive'
  BY <1>0, <1>4, <1>5, <1>7 DEF ReadIsLive
<1> QED
  BY <1>1, <1>8 DEF SkipInv

\* When the log still has the size it had before the read, the last read of a
\* sync has brought everything within reach.
LEMMA CommitSkips ==
  ASSUME IInv, IInv', SkipInv, Commit
  PROVE  SkipInv'
<1>0. /\ file' = file /\ file # NoFile /\ row' = chunk.next /\ pc = "read"
      /\ projected \subseteq projected' /\ diagnosed \subseteq diagnosed'
      /\ pc' \in {"idle", "ingesting"}
      /\ drained' = IF AtEnd THEN size.sync ELSE drained
      /\ pc' = "ingesting" => size'.sync = size.sync
  BY DEF Commit, SyncEnds, Reported, DrainedSize, disk, IInv, PhasesInOrder, TypeOK
<1>1. /\ Size(file) \in Nat /\ Len(file.lines) \in Nat
      /\ Size(file) = 2 * Len(file.lines) + (IF file.torn THEN 1 ELSE 0)
      /\ size.sync \in Nat /\ size.ingest \in Nat
      /\ size.sync <= size.ingest /\ size.ingest <= Size(file)
  BY <1>0, SizeOfAFile DEF IInv, TypeOK, SkipInv, SizesInOrder
<1>2. AllDealt => AllDealt'
  BY <1>0 DEF AllDealt, InReach, Dealt
<1>3. chunk.next.off \in Nat /\ Resumable(chunk.next) /\ chunk.next.ident.birth = file.birth
  BY <1>0 DEF IInv, PhasesInOrder, TypeOK, Rows, CursorRows, LegacyRow, Resumable, SkipInv, ReadIsLive
<1>4. \A i \in 1 .. chunk.next.off : Dealt(file.lines[i], projected', diagnosed')
  BY <1>0, <1>3 DEF IInv, Covers
<1>5. ASSUME AtEnd, size.sync = Size(file) PROVE AllDealt'
  <2>1. size.ingest = Size(file)
    BY <1>1, <1>5, \A x, y, z \in Nat : x <= y /\ y <= z /\ x = z => y = z
  <2>2. NoMore(file, chunk.next.off)
    <3>1. CASE chunk.lines = << >>
      BY <1>0, <2>1, <3>1 DEF SkipInv, ReadIsLive
    <3>2. CASE 2 * chunk.next.off >= size.ingest
      <4>1. chunk.next.off >= Len(file.lines)
        <5>1. PICK t \in {0, 1} : Size(file) = 2 * Len(file.lines) + t
          BY <1>1
        <5>2. \A x, n \in Nat, u \in {0, 1} : 2 * x >= 2 * n + u => x >= n
          OBVIOUS
        <5> QED
          BY ONLY <1>1, <1>3, <2>1, <3>2, <5>1, <5>2
      <4> QED
        BY <4>1 DEF NoMore
    <3> QED
      BY <1>5, <3>1, <3>2 DEF AtEnd
  <2>3. ASSUME NEW i \in 1 .. Len(file.lines), InReach(i)
        PROVE  Dealt(file.lines[i], projected', diagnosed')
    <3>1. i <= chunk.next.off
      <4> SUFFICES ASSUME i > chunk.next.off PROVE FALSE
        BY <1>3
      <4>1. chunk.next.off + 1 \in 1 .. i /\ chunk.next.off < Len(file.lines)
        BY <1>1, <1>3
      <4>2. file.lines[chunk.next.off + 1].id \notin Oversized
        BY <2>3, <4>1 DEF InReach
      <4> QED
        BY <1>1, <1>3, <2>2, <4>1, <4>2 DEF NoMore
    <3> QED
      BY <1>3, <1>4, <3>1
  <2> QED
    BY <1>0, <2>3 DEF AllDealt, InReach
<1>6. size.sync <= Size(file)
  BY <1>1, \A x, y, z \in Nat : x <= y /\ y <= z => x <= z
<1>7. DrainedWasAll'
  <2>1. pc' \in Running
    BY <1>0 DEF Running
  <2>2. CASE AtEnd
    <3>1. drained' = size.sync /\ size.sync <= Size(file)
      BY <1>0, <1>6, <2>2
    <3> QED
      BY <1>0, <1>5, <2>1, <2>2, <3>1 DEF DrainedWasAll
  <2>3. CASE ~AtEnd
    BY <1>0, <1>2, <2>1, <2>3 DEF SkipInv, DrainedWasAll
  <2> QED
    BY <2>2, <2>3
<1>8. SizesInOrder' /\ ReadIsLive'
  BY <1>0, <1>6 DEF SizesInOrder, ReadIsLive
<1> QED
  BY <1>7, <1>8 DEF SkipInv

\* A rollback keeps the signature of the last drained sync; a death forgets it.
LEMMA FailureSkips ==
  ASSUME SkipInv, Failure
  PROVE  SkipInv'
<1>0. UNCHANGED <<projected, diagnosed>>
  BY DEF Failure, db
<1>1. CASE CommitFails
  <2>1. /\ file' = file /\ pc' = "idle" /\ drained' = drained
        /\ AllDealt => AllDealt'
    BY <1>0, <1>1 DEF CommitFails, SyncEnds, disk, AllDealt, InReach
  <2> QED
    BY <2>1 DEF SkipInv, DrainedWasAll, SizesInOrder, ReadIsLive, Running
<1>2. CASE TrimFails \/ InstallFails
  <2>1. pc \notin Running /\ drained' = drained /\ pc' = "repairing"
    BY <1>2 DEF TrimFails, InstallFails, Running
  <2> QED
    BY <2>1, StartingSkips
<1>3. CASE Die
  BY <1>3 DEF Die, SkipInv, DrainedWasAll, SizesInOrder, ReadIsLive
<1> QED
  BY <1>1, <1>2, <1>3 DEF Failure

LEMMA NextSkipInv == IInv /\ IInv' /\ SkipInv /\ [Next]_vars => SkipInv'
<1> SUFFICES ASSUME IInv, IInv', SkipInv, [Next]_vars PROVE SkipInv'
  OBVIOUS
<1>0. TypeOK /\ PhasesInOrder
  BY DEF IInv
<1>1. ASSUME NEW id \in Ids, AppendLine(id) PROVE SkipInv'
  <2>1. UNCHANGED <<db, core>>
    BY <1>1 DEF AppendLine
  <2> QED
    BY <1>0, <1>1, <2>1, AppendGrows, GrowingSkips
<1>2. CASE TearLine
  <2>1. UNCHANGED <<db, core>>
    BY <1>2 DEF TearLine
  <2> QED
    BY <1>0, <1>2, <2>1, TearGrows, GrowingSkips
<1>3. CASE StartStep
  BY <1>3, StartStepSkips
<1>4. CASE SyncStep
  BY <1>0, <1>4, StartSyncSkips, TakeSizeSkips, ReadChunkSkips, CommitSkips DEF SyncStep
<1>5. CASE Failure
  BY <1>5, FailureSkips
<1>6. CASE UNCHANGED vars
  <2>1. UNCHANGED <<file, projected, diagnosed, pc, drained, size, chunk>>
    BY <1>6 DEF vars, disk, db, core
  <2>2. AllDealt => AllDealt'
    BY <2>1 DEF AllDealt, InReach
  <2> QED
    BY <2>1, <2>2 DEF SkipInv, DrainedWasAll, SizesInOrder, ReadIsLive
<1> QED
  BY <1>1, <1>2, <1>3, <1>4, <1>5, <1>6 DEF Next

\* A sync is skipped only when every line within the reader's reach has been
\* projected or reported: however writers append or die between the stat, the
\* reads and the commits of createEventLogSynchronizer, the signature it
\* remembers is never newer than what it read.
THEOREM SkippingIsSafe ==
  ASSUME Start = "synced", ~Tunnelling
  PROVE  Spec => []SkipIsSafe
<1>1. IInv /\ [Next]_vars => IInv'
  BY NextIInv
<1>2. IInv /\ SkipInv => SkipIsSafe
  <2> SUFFICES ASSUME IInv, SkipInv, pc = "idle", file # NoFile, Size(file) = drained,
                      NEW i \in DOMAIN file.lines, InReach(i)
               PROVE  Accounted(file.lines[i])
    BY DEF SkipIsSafe
  <2>1. Size(file) \in Nat /\ i \in 1 .. Len(file.lines)
    <3>1. file \in Files /\ file.lines \in Seq(Line)
      BY DEF IInv, TypeOK, Files
    <3> QED
      BY <3>1, SizeOfAFile, LenProperties
  <2>2. Dealt(file.lines[i], projected, diagnosed)
    BY <2>1 DEF SkipInv, DrainedWasAll, AllDealt
  <2> QED
    BY <2>2 DEF Dealt, Accounted
<1> QED
  BY EventLogInvariance, InitSkipInv, NextSkipInv, <1>1, <1>2, PTL DEF Spec

=============================================================================
