----------------------------- MODULE CodexRollout -----------------------------
(***************************************************************************)
(* What the Codex adapter reads out of a rollout                            *)
(* (packages/adapters-codex/src/codex.ts, extractCodexEventsFromRollout):   *)
(* every sync that finds the file grown parses it from its first line, so   *)
(* that the events of a line are formed again and again, from ever longer   *)
(* files, and only the first form of each lands.                           *)
(*                                                                         *)
(* Abstracted: which rollouts are read, healed and marked (see CodexSync);  *)
(* the path, which names the session; models that only the logs database    *)
(* knows, providers, token counts and line counts of edits; names of tools; *)
(* lines without a timestamp.                                              *)
(***************************************************************************)
EXTENDS LedgerAdapter, Integers, SequencesExt

CONSTANTS
  Script,         \* the lines of the rollout, as Codex writes them
  MaxDecodeGap,   \* MAX_DECODE_GAP_MS
  MaxFirstToken   \* MAX_FIRST_TOKEN_LATENCY_MS

\* id is that of a call, item or response, 0 when it has none, and the total of
\* a token_count.  says is the model, the tier, the exit code, the started_at of
\* a turn, or 0; of usage, whether it has tokens; of a change, whether it has files.
Types ==
  {"session_meta", "turn_context", "thread_settings_applied", "token_usage_record", "call",
   "output", "user_message", "agent_message", "web_search_end", "exec_command_end",
   "patch_apply_end", "item_completed", "task_started", "token_count"}
RolloutLines == [type : Types, id : Nat, at : Nat, says : Nat]

RolloutAssumption ==
  /\ Script \in Seq(RolloutLines)
  /\ Script # << >> /\ Head(Script).type = "session_meta"
  /\ \A i \in DOMAIN Script : Script[i].type = "output" =>
       \E j \in 1 .. i - 1 : Script[j].type = "call" /\ Script[j].id = Script[i].id
  /\ MaxDecodeGap \in Nat /\ MaxFirstToken \in Nat

VARIABLE size     \* the file's length in lines; one that is half written yields no record

vars == <<size, adapter>>

Key(kind, id) == [kind |-> kind, id |-> id]

\* buildEventKey: without an id the line's own number stands for it.
KeyAt(kind, i) == Key(kind, IF Script[i].id = 0 THEN -i ELSE Script[i].id)

\* What a usage event says of itself; a time that is not known is no time.
Plain == [model |-> 0, tier |-> 0, decode |-> {}, first |-> {}]
Found(key, note, i) == [key |-> key, note |-> note, at |-> Script[i].at, line |-> i]

-----------------------------------------------------------------------------
(* The parse. *)

Fresh ==
  [model |-> 0, tier |-> 0, last |-> {}, turn |-> {}, reported |-> FALSE, calls |-> {},
   mirrored |-> << >>, counted |-> FALSE, out |-> << >>]

\* The time since from, when that is not known to be too long.
Since(from, to, longest) == {to - t : t \in {u \in from : u <= to /\ to - u <= longest}}

Emits(s, i, key) == [s EXCEPT !.out = Append(@, Found(key, Plain, i))]

\* An item that succeeds or fails has one key for both.
ItemEnded(s, i, kind) == Emits(s, i, KeyAt(kind, i))
PatchEnded(s, i) ==
  LET ended == ItemEnded(s, i, "patch")
  IN  IF Script[i].says = 0 THEN ended ELSE Emits(ended, i, KeyAt("edit", i))
ChangeEnded(s, i) == IF Script[i].says = 0 THEN s ELSE Emits(s, i, KeyAt("change", i))

Called(s, i) ==
  [Emits(s, i, Key("called", Script[i].id)) EXCEPT !.calls = @ \cup {Script[i].id}]

\* interpretToolOutputText: an output without an exit code says 0, none at all 1.
Fails(i) == Script[i].says # 0

\* An outcome needs its call, and uses it up.
Returned(s, i) ==
  LET id == Script[i].id
  IN  IF id \notin s.calls THEN s
      ELSE [Emits(s, i, Key(IF Fails(i) THEN "failed" ELSE "succeeded", id))
              EXCEPT !.calls = @ \ {id}]

Answered(s, i) ==
  [s EXCEPT !.out = Append(@, Found(KeyAt("assistant", i), [Plain EXCEPT !.model = s.model], i))]

\* buildMirroredUsageEvent: its timing is not known.
Mirrored(s, i) ==
  IF Script[i].says = 0 THEN s
  ELSE [s EXCEPT !.mirrored = Append(@, Found(Key("record", Script[i].id),
                                   [Plain EXCEPT !.model = s.model, !.tier = s.tier], i))]

\* The turn's start, by its started_at or by the line's own time; the wait before
\* it is nobody's decoding.
TurnStarted(s, i) ==
  [s EXCEPT !.turn = {IF Script[i].says = 0 THEN Script[i].at ELSE Script[i].says},
            !.reported = FALSE, !.last = {}]

\* token_count: the event's key is the total, so that a repeated report has it too.
Counted(s, i) ==
  LET now == Script[i].at
      note == [model |-> s.model, tier |-> s.tier, decode |-> Since(s.last, now, MaxDecodeGap),
               first |-> IF s.reported THEN {} ELSE Since(s.turn, now, MaxFirstToken)]
  IN  IF Script[i].says = 0 THEN s
      ELSE [s EXCEPT !.last = {now}, !.reported = TRUE, !.counted = TRUE,
                     !.out = Append(@, Found(Key("usage", Script[i].id), note, i))]

Parse(s, i) ==
  LET type == Script[i].type
  IN  CASE type = "session_meta" -> Emits(s, i, Key("started", 0))
        [] type = "turn_context" -> [s EXCEPT !.model = Script[i].says]
        [] type = "thread_settings_applied" -> [s EXCEPT !.tier = Script[i].says]
        [] type = "token_usage_record" -> Mirrored(s, i)
        [] type = "call" -> Called(s, i)
        [] type = "output" -> Returned(s, i)
        [] type = "user_message" -> Emits(s, i, KeyAt("prompt", i))
        [] type = "agent_message" -> Answered(s, i)
        [] type = "web_search_end" -> ItemEnded(s, i, "search")
        [] type = "exec_command_end" -> ItemEnded(s, i, "exec")
        [] type = "patch_apply_end" -> PatchEnded(s, i)
        [] type = "item_completed" -> ChangeEnded(s, i)
        [] type = "task_started" -> TurnStarted(s, i)
        [] type = "token_count" -> Counted(s, i)

\* getEventSortPriority and compareCodexEvents; the sort is stable.
Priority(kind) ==
  CASE kind = "started" -> 0 [] kind = "prompt" -> 1 [] kind = "called" -> 2
    [] kind = "assistant" -> 3 [] kind \in {"edit", "change"} -> 5
    [] kind \in {"usage", "record"} -> 6 [] OTHER -> 4
Rank(e) == <<e.at, Priority(e.key.kind), e.line>>
Precedes(d, e) ==
  \E n \in 1..3 : Rank(d)[n] < Rank(e)[n] /\ \A m \in 1 .. n - 1 : Rank(d)[m] = Rank(e)[m]

The(one) == CHOOSE s \in one : TRUE

\* extractCodexEventsFromRollout, of a file with the first n lines: the mirrored
\* usage is taken when there is no other.
Extract(n) ==
  LET parse[i \in 0..n] ==
        IF i = 0 THEN Fresh ELSE The({Parse(before, i) : before \in {parse[i - 1]}})
      s == parse[n]
      events == s.out \o (IF s.counted THEN << >> ELSE s.mirrored)
      sorted == SortSeq(events, Precedes)
  IN  [i \in DOMAIN sorted |-> Event(sorted[i].key, sorted[i].note)]

-----------------------------------------------------------------------------

Init == size = 0 /\ AdapterInit

CodexWrites ==
  /\ size < Len(Script)
  /\ size' = size + 1
  /\ UNCHANGED adapter

Load == LoadLedger(0) /\ UNCHANGED size

\* A rollout whose signature is that of the cursor is left out.
ReadRollout ==
  /\ TakeEvents(IF next = size THEN << >> ELSE Extract(size), size)
  /\ UNCHANGED size

AppendOrSave == AdapterStep /\ UNCHANGED size
SyncFails == Fail /\ UNCHANGED size

SyncStep == Load \/ ReadRollout \/ AppendOrSave

Next == CodexWrites \/ SyncStep \/ SyncFails

Spec == Init /\ [][Next]_vars

-----------------------------------------------------------------------------
(* What Ingestion sees of it: mirrored usage is due while there is no other. *)

Reports(j) == Script[j].type = "token_count" /\ Script[j].says > 0

Kinds(i) ==
  LET says == Script[i].says > 0
      yields ==
        [session_meta |-> {}, turn_context |-> {}, thread_settings_applied |-> {},
         task_started |-> {}, token_usage_record |-> IF says THEN {"record"} ELSE {},
         token_count |-> IF says THEN {"usage"} ELSE {}, call |-> {"called"},
         output |-> {IF Fails(i) THEN "failed" ELSE "succeeded"}, user_message |-> {"prompt"},
         agent_message |-> {"assistant"}, web_search_end |-> {"search"},
         exec_command_end |-> {"exec"}, patch_apply_end |-> {"patch"} \cup (IF says THEN {"edit"} ELSE {}),
         item_completed |-> IF says THEN {"change"} ELSE {}]
  IN  yields[Script[i].type]
KeysUpTo(n) == {Key("started", 0)} \cup UNION {{KeyAt(kind, i) : kind \in Kinds(i)} : i \in 1..n}
Certain(n) == {k \in KeysUpTo(n) : k.kind = "record" => \A j \in 1..n : ~ Reports(j)}

Written == KeysUpTo(size)
Done == IF cursor \in {NoFile, 0} THEN {} ELSE Certain(cursor)
Due == {k \in Certain(size) : size > 0}

Notes ==
  [model : Nat, tier : Nat, decode : SUBSET (0..MaxDecodeGap), first : SUBSET (0..MaxFirstToken)]
TypeOK ==
  /\ size \in 0 .. Len(Script)
  /\ AdapterTypeOK(0 .. Len(Script), Notes)

Between(i, j, type) == \E m \in i + 1 .. j - 1 : Script[m].type = type

\* codex.ts, lines 534-535: "the wait between turns ... must never be attributed to
\* decoding", and line 615: only the first report of a turn observes the first
\* token.  However often the rollout was read while it grew, the usage that
\* landed has the window from the report before it, in the same turn, and the
\* latency of its own turn.
OwnWindow ==
  \A j \in DOMAIN Script : Reports(j) =>
    \A note \in notes[Key("usage", Script[j].id)] :
      \E k \in DOMAIN Script :
        /\ Reports(k) /\ Script[k].id = Script[j].id
        /\ \A gap \in note.decode :
             \E i \in 1 .. k - 1 :
               /\ Reports(i) /\ Script[i].at + gap = Script[k].at
               /\ ~ Between(i, k, "task_started")
               /\ \A m \in i + 1 .. k - 1 : ~ Reports(m)
        /\ note.first # {} =>
             \E i \in 1 .. k - 1 :
               /\ Script[i].type = "task_started"
               /\ \A m \in i + 1 .. k - 1 : ~ Reports(m)
        /\ \A i \in 1 .. k - 1 :
             Script[i].type = "turn_context" /\ ~ Between(i, k, "turn_context")
               => note.model = Script[i].says
=============================================================================
