----------------------------- MODULE KimicodeSync -----------------------------
(***************************************************************************)
(* The Kimi Code adapter (packages/adapters-kimicode): it reads the bytes   *)
(* that were added to a wire file since its cursor, which also keeps the    *)
(* text of an incomplete line and a part of the parse state.                *)
(*                                                                         *)
(* Abstracted: one session with one wire file, given as the script of what  *)
(* Kimi Code writes to it; models and providers; an event's note says which *)
(* step it takes its timing from, or, for a tool's outcome, whether the     *)
(* call was known.                                                         *)
(***************************************************************************)
EXTENDS LedgerAdapter

CONSTANT Script    \* the records of the wire file

\* A call and its result have the id of their tool call, a step the id of its
\* message; a compaction is a usage.record with the scope "session".
Types == {"prompt", "call", "result", "failure", "step", "usage", "compaction"}
Records == [type : Types, id : Nat]

KimicodeAssumption == Script \in Seq(Records)

VARIABLES
  size,       \* the wire file's length in half lines: a line is seen half written
  most,       \* history: the longest it has been
  archived    \* state.json says that the session is archived

vars == <<size, most, archived, adapter>>

Key(kind, id) == [kind |-> kind, id |-> id]

\* The state of a parse: the step whose timing the next usage takes, or 0, and
\* the tool calls that were seen, with the events so far.
FreshParse == [timing |-> 0, starts |-> {}, out |-> << >>]

\* normalizeToolResult: without its call, an outcome has no name, no duration,
\* and no edit.
Outcome(s, r) ==
  IF r.id \in s.starts
    THEN <<Event(Key("succeeded", r.id), 1), Event(Key("edit", r.id), 1)>>
    ELSE <<Event(Key("succeeded", r.id), 0)>>

\* normalizeKimicodeWireRecord for the record at line i.
Parse(s, i) ==
  LET r == Script[i]
      emit(events) == s.out \o events
  IN  CASE r.type = "prompt" -> [s EXCEPT !.out = emit(<<Event(Key("prompt", i), 0)>>)]
        [] r.type = "call" -> [s EXCEPT !.starts = @ \cup {r.id},
                                        !.out = emit(<<Event(Key("called", r.id), 0)>>)]
        [] r.type = "result" -> [s EXCEPT !.out = emit(Outcome(s, r))]
        [] r.type = "failure" -> [s EXCEPT !.out = emit(<<Event(Key("failed", r.id),
                                              IF r.id \in s.starts THEN 1 ELSE 0)>>)]
        [] r.type = "step" -> [s EXCEPT !.timing = i,
                                        !.out = emit(<<Event(Key("assistant", r.id), 0)>>)]
        [] r.type = "usage" -> [s EXCEPT !.timing = 0,
                                         !.out = emit(<<Event(Key("usage", i), s.timing)>>)]
        [] OTHER -> [s EXCEPT !.out = emit(<<Event(Key("usage", i), 0)>>)]

\* The lines from..to, parsed from the state s on.
ParseLines(s, from, to) ==
  LET scan[i \in from .. to] == IF i = from THEN s ELSE Parse(scan[i - 1], i)
  IN  scan[to]

SessionEvents(ended) ==
  <<Event(Key("started", 0), 0)>>
    \o (IF ended THEN <<Event(Key("ended", 0), 0)>> ELSE << >>)

\* The cursor: an offset with the remainder, the parse state that is saved with
\* it, and whether the session is in cursorState.sessions.
FirstCursor == [offset |-> 0, timing |-> 0, session |-> FALSE]
Cursors == [offset : 0 .. 2 * Len(Script), timing : 0..Len(Script), session : BOOLEAN]

Init == size = 0 /\ most = 0 /\ archived = FALSE /\ AdapterInit

-----------------------------------------------------------------------------
(* Kimi Code. *)

WriteHalf ==
  /\ size < 2 * Len(Script)
  /\ size' = size + 1 /\ most' = IF size + 1 > most THEN size + 1 ELSE most
  /\ UNCHANGED <<archived, adapter>>

Archive ==
  /\ ~ archived /\ size > 0
  /\ archived' = TRUE
  /\ UNCHANGED <<size, most, adapter>>

\* The file is replaced by an older copy.
Cut ==
  /\ Fault
  /\ \E n \in 0..size : 2 * n < size /\ size' = 2 * n
  /\ UNCHANGED <<most, archived, log, cursor, ledger, memory>>

-----------------------------------------------------------------------------
(* syncKimicodeSessions. *)

Load == LoadLedger(FirstCursor) /\ UNCHANGED <<size, most, archived>>

\* The offset, and the state, that syncWireFile starts with.
From == IF next.offset > size THEN 0 ELSE next.offset
SavedTiming == IF next.offset > size THEN 0 ELSE next.timing

\* syncWireFile, after the session events of a session that is new.  A file of
\* the same length is skipped.
ReadWire ==
  LET parsed == ParseLines([FreshParse EXCEPT !.timing = SavedTiming], From \div 2, size \div 2)
  IN  /\ TakeEvents((IF next.session THEN << >> ELSE SessionEvents(archived)) \o parsed.out,
                    [offset |-> size, timing |-> parsed.timing, session |-> TRUE])
      /\ UNCHANGED <<size, most, archived>>

AppendOrSave == AdapterStep /\ UNCHANGED <<size, most, archived>>
SyncFails == Fail /\ UNCHANGED <<size, most, archived>>

SyncStep == Load \/ ReadWire \/ AppendOrSave

Next == WriteHalf \/ Archive \/ Cut \/ SyncStep \/ SyncFails

Spec == Init /\ [][Next]_vars

-----------------------------------------------------------------------------
(* What Ingestion sees of it.  An edit is due only when the call and the      *)
(* result are read together, the end of a session only when it is first seen. *)

KeysOf(i) ==
  LET r == Script[i]
  IN  CASE r.type = "prompt" -> {Key("prompt", i)}
        [] r.type = "call" -> {Key("called", r.id)}
        [] r.type = "result" -> {Key("succeeded", r.id), Key("edit", r.id)}
        [] r.type = "failure" -> {Key("failed", r.id)}
        [] r.type = "step" -> {Key("assistant", r.id)}
        [] OTHER -> {Key("usage", i)}
KeysUpTo(n) == UNION {KeysOf(i) : i \in 1..n}
Certain(n) == {k \in KeysUpTo(n) : k.kind # "edit"}

Written == KeysUpTo(most \div 2) \cup {Key("started", 0)}
             \cup {k \in {Key("ended", 0)} : archived}
Done ==
  IF cursor = NoFile THEN {}
  ELSE Certain(cursor.offset \div 2) \cup {k \in {Key("started", 0)} : cursor.session}
Due == Certain(size \div 2)

TypeOK ==
  /\ size \in 0 .. 2 * Len(Script) /\ most \in 0 .. 2 * Len(Script)
  /\ archived \in BOOLEAN
  /\ AdapterTypeOK(Cursors, 0..Len(Script))

\* kimicode-sync.ts:317: the timing of a usage record is that of the step
\* before it, as if the whole file were read at once, although the syncs may
\* cut the file between the two.
OwnTiming ==
  LET w == ParseLines(FreshParse, 0, Len(Script)).out
  IN  \A i \in DOMAIN w : w[i].key.kind = "usage" => notes[w[i].key] \subseteq {w[i].note}
=============================================================================
