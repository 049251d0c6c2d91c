--------------------------- MODULE UsageProjection ---------------------------
(***************************************************************************)
(* What Core makes of token.usage.recorded events                           *)
(* (apps/core/src/domain-projection.ts).  A source tells of a request more  *)
(* than once: the credit, the cache split and the timing of its usage, and  *)
(* with a later release of an adapter its model, may come after the usage   *)
(* itself.  Each time it writes an event of the same identity to the        *)
(* canonical log.  The projector takes the log in batches of one            *)
(* transaction each, and from the start again when the log's identity has   *)
(* changed; it must end with one row that says all that was told.           *)
(*                                                                         *)
(* Abstracted: an attribute is there or not, its value never changes; the   *)
(* semantic fingerprint of an event is the set of attributes it has, as it  *)
(* covers all of them and leaves out the adapter.                           *)
(***************************************************************************)
EXTENDS Naturals, Sequences, Functions

CONSTANTS
  Timed,      \* requests whose events come from adapter workbuddy-jsonl
  Logged,     \* requests that codebuddy-log reports, under the same vendor
  Foreign,    \* requests of any other vendor
  Unsound,    \* requests whose cache split exceeds their gross input
  MaxLog,     \* bound: events in the log
  MaxRewinds  \* bound: times the log is projected from the start again

\* A request is of one vendor.
UsageAssumption == (Timed \cup Logged) \cap Foreign = {}

Requests == Timed \cup Logged \cup Foreign

\* What can be missing from an event.
Timing == {"first", "decode"}
Facts == Timing \cup {"credit", "cache", "model"}

\* What may become known of a request only after its first event.
LateFacts(r) ==
  (IF r \in Timed THEN Timing ELSE {}) \cup (IF r \in Logged THEN {"credit", "cache"} ELSE {})
    \cup (IF r \in Foreign THEN {"model"} ELSE {})

VARIABLES
  log,           \* the canonical log: events [of, facts]
  cursor,        \* events of the log that are projected
  reached,       \* history: how far the cursor has ever been
  rewinds,
  stored,        \* normalized_events: the facts of the stored event, per request
  usage,         \* usage_events: the facts of the row, per request
  fingerprint,   \* usage_events.semantic_fingerprint
  observed,      \* event_observations.semantic_fingerprint
  diagnostics    \* event_diagnostics: [code, of, facts]

tables == <<stored, usage, fingerprint, observed, diagnostics>>
vars == <<log, cursor, reached, rewinds, tables>>

LogEvents == [of : Requests, facts : SUBSET Facts]

\* The row of a request that has none.
None == {"none"}
Rows == {None} \cup SUBSET Facts

Init ==
  /\ log = << >> /\ cursor = 0 /\ reached = 0 /\ rewinds = 0
  /\ stored = [r \in Requests |-> None] /\ usage = stored
  /\ fingerprint = stored /\ observed = stored
  /\ diagnostics = {}

-----------------------------------------------------------------------------
(* The sources. *)

\* The places of a request's events in the log.
Of(r) == {i \in 1 .. Len(log) : log[i].of = r}

\* What the adapter has told of a request: its model at least, where the
\* adapter always had it.
Told(r) ==
  {f \in Facts : \E e \in Range(log) : e.of = r /\ f \in e.facts}
    \cup (IF r \in Foreign THEN {} ELSE {"model"})

\* The adapter writes the request, or writes it again with what is new: a
\* billing line, the cache split, timing, or a model that only a later release
\* of the adapter finds.
Emit(r, news) ==
  /\ Len(log) < MaxLog
  /\ news \cap Told(r) = {}
  /\ news # {} \/ Of(r) = {}
  /\ log' = Append(log, [of |-> r, facts |-> Told(r) \cup news])
  /\ UNCHANGED <<cursor, reached, rewinds, tables>>

-----------------------------------------------------------------------------
(* projectOne, for the next event of the log.  A batch is one transaction    *)
(* with its cursor, and nothing else writes these tables, so that a batch   *)
(* is as good as its events one by one.                                     *)

Advance ==
  /\ cursor' = cursor + 1
  /\ reached' = IF reached = cursor THEN cursor + 1 ELSE reached
  /\ UNCHANGED <<log, rewinds>>

\* displayedInputTokens throws on a gross input below its cache split.
Accountable(r, facts) == r \notin Unsound \/ "cache" \notin facts

Diagnose(code, r, facts) ==
  diagnostics' = diagnostics \cup {[code |-> code, of |-> r, facts |-> facts]}

\* Each of the three patches is for one kind of news about an event that is
\* the same otherwise; they are for usage of the vendor workbuddy.
TimingNews(r, facts) == r \in Timed /\ stored[r] \ Timing = facts \ Timing
CreditNews(r, facts) == "credit" \in facts \ stored[r] /\ facts \ {"credit"} = stored[r]
CacheNews(r, facts) ==
  /\ "cache" \in facts \ stored[r] /\ facts \ {"cache"} = stored[r]
  /\ Accountable(r, facts)

Patchable(r, facts) ==
  /\ r \in Timed \cup Logged
  /\ TimingNews(r, facts) \/ CreditNews(r, facts) \/ CacheNews(r, facts)

\* The stored event after the patch: known timing is kept.
Merged(r, facts) == stored[r] \cup facts

\* A new event, or the stored one: projectUsage ignores a row that is there.
Record(r, facts) ==
  /\ stored[r] \in {None, facts}
  /\ stored' = [stored EXCEPT ![r] = facts]
  /\ observed' = [observed EXCEPT ![r] = IF @ = None THEN facts ELSE @]
  /\ \/ /\ Accountable(r, facts)
        /\ usage' = [usage EXCEPT ![r] = IF @ = None THEN facts ELSE @]
        /\ fingerprint' = [fingerprint EXCEPT ![r] = IF @ = None THEN facts ELSE @]
        /\ UNCHANGED diagnostics
     \/ /\ ~Accountable(r, facts)
        /\ Diagnose("INVALID_USAGE", r, facts)
        /\ UNCHANGED <<usage, fingerprint>>

\* The row takes over what is new, where there is a row.
RowCreditOnly(r, facts) == usage[r] \cup (facts \cap {"credit"})
Row(r, facts) == usage[r] \cup facts

Patch(r, facts) ==
  /\ stored[r] \notin {None, facts}
  /\ Patchable(r, facts)
  /\ stored' = [stored EXCEPT ![r] = Merged(r, facts)]
  /\ observed' = [observed EXCEPT ![r] = Merged(r, facts)]
  /\ fingerprint' = [fingerprint EXCEPT ![r] = IF @ = None THEN None ELSE Merged(r, facts)]
  /\ usage' = [usage EXCEPT ![r] = IF @ = None THEN None ELSE Row(r, Merged(r, facts))]
  /\ UNCHANGED diagnostics

\* healUsageModelId: a row without a model takes that of the event.
Healed(row, facts) == IF row = None THEN None ELSE row \cup (facts \cap {"model"})

\* Any other event with the identity of a stored one is a conflict.
Refuse(r, facts) ==
  /\ stored[r] \notin {None, facts}
  /\ ~Patchable(r, facts)
  /\ usage' = [usage EXCEPT ![r] = Healed(@, facts)]
  /\ Diagnose("IDENTITY_CONFLICT", r, facts)
  /\ UNCHANGED <<stored, fingerprint, observed>>

Project(e) ==
  /\ Advance
  /\ Record(e.of, e.facts) \/ Patch(e.of, e.facts) \/ Refuse(e.of, e.facts)

\* The log has another identity than the cursor: it is read from the start.
Rewind ==
  /\ rewinds < MaxRewinds /\ cursor > 0
  /\ rewinds' = rewinds + 1
  /\ cursor' = 0
  /\ UNCHANGED <<log, reached, tables>>

Next ==
  \/ \E r \in Requests : \E news \in SUBSET LateFacts(r) : Emit(r, news)
  \/ cursor < Len(log) /\ Project(log[cursor + 1])
  \/ Rewind

Spec == Init /\ [][Next]_vars

-----------------------------------------------------------------------------

TypeOK ==
  /\ log \in Seq(LogEvents)
  /\ reached \in 0..Len(log) /\ cursor \in 0..reached /\ rewinds \in Nat
  /\ stored \in [Requests -> Rows] /\ usage \in [Requests -> Rows]
  /\ fingerprint \in [Requests -> Rows] /\ observed \in [Requests -> Rows]
  /\ diagnostics \in
       SUBSET [code : {"IDENTITY_CONFLICT", "INVALID_USAGE"}, of : Requests, facts : SUBSET Facts]

\* The three tables tell the same of a request, whatever patches and refusals
\* it went through: the row has the facts of the stored event, but for a model
\* that was healed, and both fingerprints are those of the stored event; only
\* usage that breaks the accounting has no row
\* (domain-projection.ts, projectOne and the reconcile functions).
TablesAgree ==
  \A r \in Requests :
    /\ observed[r] = stored[r]
    /\ usage[r] # None =>
         /\ fingerprint[r] = stored[r]
         /\ usage[r] \ {"model"} = stored[r] \ {"model"}
         /\ stored[r] \cap {"model"} \subseteq usage[r]
    /\ usage[r] = None /\ stored[r] # None =>
         \E d \in diagnostics : d.code = "INVALID_USAGE" /\ d.of = r

\* No event of the request brings news of two kinds at once.
Kind(f) == IF f \in Timing THEN "timing" ELSE f
News(r, i) == {f \in log[i].facts : \A j \in Of(r) : j < i => f \notin log[j].facts}
OneAtATime(r) ==
  \A i, first \in Of(r) :
    first < i => \A f, g \in News(r, i) : Kind(f) = Kind(g)

\* News that comes one kind at a time is never lost: once an event is
\* projected the row says all it says, however events are batched, and also
\* after the log was projected again ("the projector patches the existing row",
\* codebuddy-log-sync.ts).
NewsLands ==
  \A r \in Requests \ Unsound :
    OneAtATime(r) =>
      \A i \in Of(r) : i <= reached => usage[r] # None /\ log[i].facts \subseteq usage[r]

\* And nothing is taken for a conflict that is a patch, while the log is read
\* but once; the model of other vendors is the exception.
NoFalseConflict ==
  \A d \in diagnostics :
    d.code = "IDENTITY_CONFLICT" /\ rewinds = 0 =>
      d.of \in Foreign \cup Unsound \/ ~OneAtATime(d.of)
=============================================================================
