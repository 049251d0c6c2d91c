------------------------------- MODULE DshSync -------------------------------
(***************************************************************************)
(* The DeepSeek Harness adapter (packages/adapters-dsh): a session log that *)
(* has grown is decoded and parsed from its first line on, so that the      *)
(* parse state is complete, and events of records up to the last sequence   *)
(* number in the cursor are dropped.                                        *)
(*                                                                         *)
(* Abstracted: one session log, the newest version of its name, given as    *)
(* the script of what the harness writes; the zstd frames, of which an      *)
(* incomplete one counts as an incomplete line; models and providers.  An   *)
(* event's note says from which chunk its timing is taken, or, for a tool's *)
(* outcome, whether the call was known.                                     *)
(***************************************************************************)
EXTENDS LedgerAdapter

CONSTANT Script    \* the records of the session log

\* A record has a sequence number, or 0.
Types == {"session", "user/message", "tool/call", "tool/result", "tool/error",
          "step/start", "assistant/chunk", "assistant/message", "step/end"}
Records == [type : Types, id : Nat, seq : Nat]

DshAssumption ==
  /\ Script \in Seq(Records)
  /\ \A i, j \in DOMAIN Script :
       i < j /\ Script[i].seq > 0 /\ Script[j].seq > 0 => Script[i].seq < Script[j].seq
  /\ \A i \in DOMAIN Script : Script[i].type = "session" => i = 1

VARIABLES
  size,    \* the log's length in half lines: a line is seen half written
  most     \* history: the longest it has been

vars == <<size, most, adapter>>

Key(kind, id) == [kind |-> kind, id |-> id]

\* createDshParseState: the step that is open, its first chunk, and the tool
\* calls that were seen.
FreshParse == [step |-> 0, chunk |-> 0, starts |-> {}, last |-> 0, out |-> << >>]

\* What normalizeDshLogRecord yields for the record at line i.
EventsOf(s, i) ==
  LET r == Script[i]
      known == IF r.id \in s.starts THEN 1 ELSE 0
  IN  CASE r.type = "user/message" -> <<Event(Key("prompt", r.id), 0)>>
        [] r.type = "tool/call" -> <<Event(Key("called", r.id), 0)>>
        [] r.type = "tool/result" ->
             <<Event(Key("succeeded", r.id), known)>>
               \o (IF known = 1 THEN <<Event(Key("edit", r.id), 1)>> ELSE << >>)
        [] r.type = "tool/error" -> <<Event(Key("failed", r.id), known)>>
        [] r.type = "assistant/message" ->
             <<Event(Key("assistant", r.id), 0), Event(Key("usage", r.id), s.chunk)>>
        [] OTHER -> << >>

\* What it remembers of it: rememberAssistantChunk only looks at an open step.
Remember(s, i) ==
  LET r == Script[i]
  IN  CASE r.type = "tool/call" -> [s EXCEPT !.starts = @ \cup {r.id}]
        [] r.type = "step/start" -> [s EXCEPT !.step = i, !.chunk = 0]
        [] r.type = "step/end" -> [s EXCEPT !.step = 0, !.chunk = 0]
        [] r.type = "assistant/chunk" /\ s.step > 0 /\ s.chunk = 0 -> [s EXCEPT !.chunk = i]
        [] OTHER -> s

\* A line of syncSessionLog.  The header is handled apart; a record at or below
\* the last sequence number is parsed for what it says of later ones.
ParseLine(s, i, lastSeq) ==
  LET r == Script[i]
      old == r.seq > 0 /\ r.seq <= lastSeq
  IN  [Remember(s, i) EXCEPT !.last = IF r.seq > @ THEN r.seq ELSE @,
                             !.out = @ \o (IF old THEN << >> ELSE EventsOf(s, i))]

ParseFile(to, lastSeq) ==
  LET scan[i \in 0..to] == IF i = 0 THEN [FreshParse EXCEPT !.last = lastSeq]
                           ELSE ParseLine(scan[i - 1], i, lastSeq)
  IN  scan[to]

HeaderRead == size \div 2 > 0 /\ Script[1].type = "session"

\* The cursor: cursorState.files and cursorState.sessions.
FirstCursor == [size |-> 0, last |-> 0, session |-> FALSE]
Cursors == [size : 0 .. 2 * Len(Script), last : Nat, session : BOOLEAN]

Init == size = 0 /\ most = 0 /\ AdapterInit

-----------------------------------------------------------------------------
(* The harness. *)

WriteHalf ==
  /\ size < 2 * Len(Script)
  /\ size' = size + 1 /\ most' = IF size + 1 > most THEN size + 1 ELSE most
  /\ UNCHANGED adapter

\* The log is replaced by an older copy.
Cut ==
  /\ Fault
  /\ \E n \in 0..size : 2 * n < size /\ size' = 2 * n
  /\ UNCHANGED <<most, log, cursor, ledger, memory>>

-----------------------------------------------------------------------------
(* syncDshSessions. *)

Load == LoadLedger(FirstCursor) /\ UNCHANGED <<size, most>>

\* An empty log, or one as long as before, is skipped.
SkipLog ==
  /\ pc = "reading" /\ size = next.size
  /\ TakeEvents(<< >>, next)
  /\ UNCHANGED <<size, most>>

LastSeq == IF size < next.size THEN 0 ELSE next.last

ReadLog ==
  LET parsed == ParseFile(size \div 2, LastSeq)
      header == IF HeaderRead /\ ~ next.session THEN <<Event(Key("started", 0), 0)>> ELSE << >>
  IN  /\ pc = "reading" /\ size # next.size
      /\ IF size = 0 THEN TakeEvents(<< >>, next)
         ELSE TakeEvents(header \o parsed.out,
                [size |-> size, last |-> parsed.last, session |-> next.session \/ HeaderRead])
      /\ UNCHANGED <<size, most>>

AppendOrSave == AdapterStep /\ UNCHANGED <<size, most>>
SyncFails == Fail /\ UNCHANGED <<size, most>>

SyncStep == Load \/ SkipLog \/ ReadLog \/ AppendOrSave

Next == WriteHalf \/ Cut \/ SyncStep \/ SyncFails

Spec == Init /\ [][Next]_vars

-----------------------------------------------------------------------------
(* What Ingestion sees of it. *)

KeysOf(i) ==
  LET r == Script[i]
  IN  CASE r.type = "session" -> {Key("started", 0)}
        [] r.type = "user/message" -> {Key("prompt", r.id)}
        [] r.type = "tool/call" -> {Key("called", r.id)}
        [] r.type = "tool/result" -> {Key("succeeded", r.id), Key("edit", r.id)}
        [] r.type = "tool/error" -> {Key("failed", r.id)}
        [] r.type = "assistant/message" -> {Key("assistant", r.id), Key("usage", r.id)}
        [] OTHER -> {}
KeysUpTo(n) == UNION {KeysOf(i) : i \in 1..n}

Written == KeysUpTo(most \div 2)
Done == IF cursor = NoFile THEN {} ELSE KeysUpTo(cursor.size \div 2)
Due == KeysUpTo(size \div 2)

TypeOK ==
  /\ size \in 0 .. 2 * Len(Script) /\ most \in 0 .. 2 * Len(Script)
  /\ AdapterTypeOK(Cursors, 0..Len(Script))

\* dsh-sync.ts:216: what an event says, its timing and the call that belongs to
\* a tool's outcome, does not depend on where the syncs have cut the file.
OwnTiming ==
  LET w == ParseFile(Len(Script), 0).out
  IN  \A i \in DOMAIN w : notes[w[i].key] \subseteq {w[i].note}
=============================================================================
