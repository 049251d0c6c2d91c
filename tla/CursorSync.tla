------------------------------ MODULE CursorSync ------------------------------
(***************************************************************************)
(* The Cursor adapter (packages/adapters-cursor/src/cursor-sync.ts).  One   *)
(* sync reads four places after each other, while Cursor goes on writing to *)
(* them: the tracking database, from the cursor's time on, and as a whole   *)
(* the workspace database, the global database and the agent transcript.    *)
(* Other than the rest it saves the ledger before the cursor.               *)
(*                                                                         *)
(* Abstracted: one conversation, and one workspace; models, paths and edit  *)
(* statistics; conversation_summaries, which only add a session; the order  *)
(* by time in which the events of a sync are appended; the cursor's other   *)
(* three times, which nothing reads.  An event's note says how many rows    *)
(* an edit was read from, and whether usage is the composer's context total.*)
(***************************************************************************)
EXTENDS LedgerAdapter, FiniteSets

CONSTANTS
  Requests,  \* composer requests
  Turns,     \* a prompt and its answer each; in the transcript line 2t-1 and 2t
  MaxClock   \* bound: times

CursorAssumption == Turns \subseteq Nat \ {0} /\ IsFiniteSet(Turns) /\ MaxClock \in Nat

VARIABLES
  clock,
  hashes,    \* ai_code_hashes: the times of a request's rows
  prompts,   \* aiService.prompts: when the turn began, or 0
  answers,   \* aiService.generations: when it was answered, or 0
  measured,  \* turns whose generation has token counts
  composer,  \* composer.composerHeaders: when it was updated last, or 0
  context,   \* composerData has a total of used tokens
  lines,     \* the transcript's complete lines
  stage, known, fallback   \* the sync: what it reads next, what it knows of the
                           \* session (0, or 1: no createdAt, or 2), extractComposerUsageFallbacks

sources == <<clock, hashes, prompts, answers, measured, composer, context, lines>>
reading == <<stage, known, fallback>>
vars    == <<sources, reading, adapter>>

Key(kind, id) == [kind |-> kind, id |-> id]
Times == 1..MaxClock
LastLine == 2 * Cardinality(Turns)

\* A generation is named after its turn, or after its line in the transcript.
FromLine(n) == LastLine + n

Init ==
  /\ clock = 1
  /\ hashes = [r \in Requests |-> {}]
  /\ prompts = [t \in Turns |-> 0] /\ answers = [t \in Turns |-> 0]
  /\ measured = {} /\ composer = 0 /\ context = FALSE /\ lines = 0
  /\ stage = "tracking" /\ known = 0 /\ fallback = FALSE
  /\ AdapterInit

-----------------------------------------------------------------------------
(* Cursor. *)

Tick ==
  /\ clock < MaxClock /\ clock' = clock + 1
  /\ UNCHANGED <<hashes, prompts, answers, measured, composer, context, lines, reading, adapter>>

TrackRequest(r) ==
  /\ clock \notin hashes[r] /\ hashes' = [hashes EXCEPT ![r] = @ \cup {clock}]
  /\ UNCHANGED <<clock, prompts, answers, measured, composer, context, lines, reading, adapter>>

StorePrompt(t) ==
  /\ prompts[t] = 0 /\ prompts' = [prompts EXCEPT ![t] = clock]
  /\ UNCHANGED <<clock, hashes, answers, measured, composer, context, lines, reading, adapter>>

\* The answer is stored first, its token counts may follow.
StoreAnswer(t) ==
  /\ \/ answers[t] = 0 /\ answers' = [answers EXCEPT ![t] = clock] /\ measured' = measured
     \/ answers[t] > 0 /\ t \notin measured /\ measured' = measured \cup {t} /\ answers' = answers
  /\ UNCHANGED <<clock, hashes, prompts, composer, context, lines, reading, adapter>>

UpdateComposer ==
  /\ composer < clock /\ composer' = clock
  /\ context' \in {context, TRUE}
  /\ UNCHANGED <<clock, hashes, prompts, answers, measured, lines, reading, adapter>>

WriteLine ==
  /\ lines < LastLine /\ lines' = lines + 1
  /\ UNCHANGED <<clock, hashes, prompts, answers, measured, composer, context, reading, adapter>>

CursorIde ==
  \/ Tick \/ UpdateComposer \/ WriteLine
  \/ \E r \in Requests : TrackRequest(r)
  \/ \E t \in Turns : StorePrompt(t) \/ StoreAnswer(t)

-----------------------------------------------------------------------------
(* syncCursorArtifacts. *)

Load == LoadLedger(0) /\ UNCHANGED <<sources, reading>>

\* All the events of a function from rows to sequences of them, in some order.
EventsFor(events) ==
  LET collect[T \in SUBSET DOMAIN events] ==
        IF T = {} THEN << >> ELSE LET x == CHOOSE x \in T : TRUE IN events[x] \o collect[T \ {x}]
  IN  collect[DOMAIN events]

MostKnown(S) == CHOOSE n \in S : \A m \in S : m <= n

\* What one place yields: events, a level of knowledge of the session, and the
\* times that enter its updatedAt, of which the cursor becomes the latest.
Read(this, then, events, level, times) ==
  /\ pc = "reading" /\ stage = this /\ stage' = then
  /\ out' = out \o events
  /\ known' = MostKnown({known, level})
  /\ next' = MostKnown({next} \cup times)
  /\ UNCHANGED <<sources, log, cursor, ledger, pc, seen, changed, faults>>

RowsAfter(r) == {t \in hashes[r] : t > next}
RowsSince(r) == {t \in hashes[r] : t >= next}

\* A request is called and has succeeded as soon as it has a row.
ReadTracking ==
  LET found == {r \in Requests : RowsSince(r) # {}}
      events == [r \in found |-> <<Event(Key("called", r), 0), Event(Key("succeeded", r), 0),
                                  Event(Key("edit", r), Cardinality(RowsSince(r)))>>]
  IN  /\ Read("tracking", "workspace", EventsFor(events),
              IF found = {} THEN 0 ELSE 2, UNION {RowsSince(r) : r \in found})
      /\ UNCHANGED fallback

\* extractPrompts and extractGenerations.
ReadWorkspace ==
  LET asked == {t \in Turns : prompts[t] > 0}
      answered == {t \in Turns : answers[t] > 0}
      prompt == [t \in asked |-> <<Event(Key("prompt", t), 0)>>]
      answer == [t \in answered |-> <<Event(Key("assistant", t), 0)>>
                    \o (IF t \in measured THEN <<Event(Key("usage", t), 0)>> ELSE << >>)]
  IN  /\ Read("workspace", "global", EventsFor(prompt) \o EventsFor(answer),
              IF asked # {} THEN 2 ELSE IF answered # {} THEN 1 ELSE 0,
              {prompts[t] : t \in asked} \cup {answers[t] : t \in answered})
      /\ UNCHANGED fallback

\* extractComposers, and extractComposerUsageFallbacks.
ReadGlobal ==
  /\ Read("global", "transcripts", << >>, IF composer > 0 THEN 2 ELSE 0,
          {t \in {composer} : t > 0})
  /\ fallback' = context

Has(kind, events) == \E n \in DOMAIN events : events[n].key.kind = kind

\* extractCursorTranscripts: for a session that lacks prompts or generations,
\* both are taken from the transcript.  The arrays that it looks in, for those
\* that are there already, are its own, and empty.
FromTranscript ==
  LET line(n) == <<Event(IF n % 2 = 1 THEN Key("prompt", FromLine(n))
                                      ELSE Key("assistant", FromLine(n)), 0)>>
      scan[n \in 0..lines] == IF n = 0 THEN << >> ELSE scan[n - 1] \o line(n)
  IN  IF known > 0 /\ ~ (Has("prompt", out) /\ Has("assistant", out)) THEN scan[lines] ELSE << >>

\* applyComposerUsageFallbacks: the last answer without usage gets the total.
WithFallback(events) ==
  LET bare == {n \in DOMAIN events :
                 /\ events[n].key.kind = "assistant"
                 /\ \A m \in DOMAIN events : events[m].key # Key("usage", events[n].key.id)}
  IN  IF fallback /\ bare # {}
        THEN Append(events, Event(Key("usage", events[MostKnown(bare)].key.id), 1))
        ELSE events

\* buildCursorEvents: a session starts once its createdAt is known.
ReadTranscript ==
  LET events == WithFallback(out \o FromTranscript)
      started == IF known = 2 THEN <<Event(Key("started", 0), 0)>> ELSE << >>
  IN  /\ stage = "transcripts" /\ stage' = "tracking"
      /\ TakeEvents(started \o events, next)
      /\ known' = 0 /\ fallback' = FALSE
      /\ UNCHANGED sources

SaveLedgerFirst ==
  /\ pc = "appending" /\ Unseen = << >> /\ pc' = "saving"
  /\ ledger' = IF changed THEN seen ELSE ledger
  /\ out' = << >>
  /\ UNCHANGED <<log, cursor, seen, next, changed, faults>>

SaveCursorLast ==
  /\ pc = "saving"
  /\ cursor' = next
  /\ Forget
  /\ UNCHANGED <<log, ledger, faults>>

AppendOrSave ==
  /\ AppendEvent \/ SaveLedgerFirst \/ SaveCursorLast
  /\ UNCHANGED <<sources, reading>>

\* The sync throws or dies; the file being written may be missing afterwards.
SyncFails ==
  /\ pc # "idle" /\ Fault
  /\ ledger' \in {ledger, IF pc = "appending" /\ Unseen = << >> /\ changed THEN {} ELSE ledger}
  /\ cursor' \in {cursor, IF pc = "saving" THEN NoFile ELSE cursor}
  /\ Forget
  /\ stage' = "tracking" /\ known' = 0 /\ fallback' = FALSE
  /\ UNCHANGED <<sources, log>>

SyncStep ==
  Load \/ ReadTracking \/ ReadWorkspace \/ ReadGlobal \/ ReadTranscript \/ AppendOrSave

Next == CursorIde \/ SyncStep \/ SyncFails

Spec == Init /\ [][Next]_vars

-----------------------------------------------------------------------------
(* What Ingestion sees of it. *)

KeysOfRequest(r) == {Key("called", r), Key("succeeded", r), Key("edit", r)}
Stored ==
  {Key("prompt", t) : t \in {u \in Turns : prompts[u] > 0}}
    \cup {Key("assistant", t) : t \in {u \in Turns : answers[u] > 0}}
    \cup {Key("usage", t) : t \in measured}

\* A transcript is read for a session that is known from elsewhere, and is not
\* due; the composer's total may be written to any answer.
InTranscript ==
  {Key("prompt", FromLine(n)) : n \in {m \in 1..lines : m % 2 = 1}}
    \cup {Key("assistant", FromLine(n)) : n \in {m \in 1..lines : m % 2 = 0}}
Totals ==
  {Key("usage", k.id) : k \in {a \in Stored \cup InTranscript : context /\ a.kind = "assistant"}}

Written ==
  Stored \cup InTranscript \cup Totals \cup {Key("started", 0)}
    \cup UNION {KeysOfRequest(r) : r \in {q \in Requests : hashes[q] # {}}}

\* The cursor is only a time from which on the tracking database is read, and
\* rows may be older that a sync had not read: it stands for no record.
Done == {}

\* The requests that the next sync will find are due.
Tracked ==
  {r \in Requests : \E t \in hashes[r] : cursor = NoFile \/ t >= cursor}
Due == Stored \cup UNION {KeysOfRequest(r) : r \in Tracked}

TypeOK ==
  /\ clock \in Times
  /\ hashes \in [Requests -> SUBSET Times]
  /\ prompts \in [Turns -> 0..MaxClock] /\ answers \in [Turns -> 0..MaxClock]
  /\ measured \in SUBSET Turns /\ composer \in 0..MaxClock /\ context \in BOOLEAN
  /\ lines \in 0..LastLine
  /\ stage \in {"tracking", "workspace", "global", "transcripts"}
  /\ known \in 0..2 /\ fallback \in BOOLEAN
  /\ AdapterTypeOK(0..MaxClock, 0..MaxClock)
=============================================================================
