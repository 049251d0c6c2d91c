--------------------------- MODULE ToolProjection ---------------------------
(***************************************************************************)
(* What Core makes of tool events (apps/core/src/domain-projection.ts,      *)
(* recomputeToolCall, and apps/core/src/tool-aliases.ts).  A use of a tool  *)
(* is seen several times: as a start and an end, and in a Claude session by *)
(* the hooks and by the transcript, whose events arrive in any order, in    *)
(* any batches, and again.  tool_calls must have one row for it.            *)
(*                                                                         *)
(* A row of an ordinary session is recomputed from the events of its call.  *)
(* In a Claude session every projected event first pairs the calls that the *)
(* hooks saw under another id than the transcript, then rebuilds all rows.  *)
(*                                                                         *)
(* Abstracted: arguments and durations; the diagnostics about ambiguous     *)
(* and contradicting calls, which nothing reads back; a batch is taken      *)
(* event by event, as its last rebuild sees all of them.                    *)
(***************************************************************************)
EXTENDS Integers, FiniteSets

CONSTANTS
  Sightings,  \* the tool events there can be, see TypeOK
  Claude,     \* sessions of vendor claude-code
  Never       \* no timestamp

\* A sighting carries what the projector reads and, for the properties, the
\* use of a tool that it is a sighting of and whether its id is the native one.
SightingsOK ==
  \A e \in Sightings :
    /\ e.type \in {"called", "succeeded", "failed"} /\ e.at \in Nat
    /\ e.from \in {"hook", "transcript", "other"}
    /\ \A f \in Sightings : e.id = f.id => e = f
ToolAssumption == SightingsOK /\ IsFiniteSet(Sightings) /\ \A e \in Sightings : e.id \in Nat

VARIABLES
  events,   \* normalized_events: tool events that are stored
  aliases,  \* tool_call_aliases: [session, observed, canonical]
  calls     \* tool_calls: its rows, by session and tool_call_id

tools == <<events, aliases, calls>>

Key(session, call) == [session |-> session, call |-> call]
Keys == {Key(e.session, e.call) : e \in Sightings}

-----------------------------------------------------------------------------
(* The row of a call, from its events. *)

Before(e, f) == e.at < f.at \/ (e.at = f.at /\ e.id < f.id)
First(S) == CHOOSE e \in S : \A f \in S \ {e} : Before(e, f)
Last(S) == CHOOSE e \in S : \A f \in S \ {e} : Before(f, e)

Starts(S) == {e \in S : e.type = "called"}
Ends(S) == S \ Starts(S)

\* Ends under the name of the start, if there are any, and among them the
\* first success or else the last failure.
NamedEnds(S) ==
  LET named == {e \in Ends(S) : \A f \in Starts(S) : f = First(Starts(S)) => e.name = f.name}
  IN  IF named = {} THEN Ends(S) ELSE named
End(S) ==
  LET good == {e \in NamedEnds(S) : e.type = "succeeded"}
  IN  IF good # {} THEN First(good) ELSE Last(NamedEnds(S))

NoRow == [status |-> "none", started |-> Never, finished |-> Never]

RowOf(S, firstOfType) ==
  IF S = {} THEN NoRow
  ELSE [status |-> IF Ends(S) = {} THEN "started" ELSE End(S).type,
        started |-> IF Starts(S) = {} THEN Never ELSE First(Starts(S)).at,
        finished |-> IF Ends(S) = {} THEN Never ELSE IF firstOfType THEN First({e \in S : e.type = End(S).type}).at
                     ELSE End(S).at]

\* findEventTimestamp takes the first event of the same type.
OrdinaryRow(S) == RowOf(S, TRUE)
ClaudeRow(S) == RowOf(S, FALSE)

-----------------------------------------------------------------------------
(* recomputeClaudeToolAliases, for the events S of a session. *)

\* A node is a call as hook or transcript saw it.
Node(S, from, call) == {e \in S : e.from = from /\ e.call = call}
Ids(S, from) == {e.call : e \in {f \in S : f.from = from}}

\* nodesAreClose.
AliasDistance == 5
Close(A, B) == \E a \in A, b \in B : b.at - a.at \in -AliasDistance..AliasDistance

\* A call of the hooks and one of the transcript that could be the same.
Alike(H, T) == (\E h \in H, t \in T : h.name = t.name) /\ Close(H, T)

\* The calls of the transcript that a call of the hooks could be.
CandidatesSelf(S, hook) ==
  {t \in Ids(S, "transcript") : Alike(Node(S, "hook", hook), Node(S, "transcript", t))}
Candidates(S, hook) ==
  {t \in Ids(S, "transcript") \ {hook} :
     Alike(Node(S, "hook", hook), Node(S, "transcript", t))}

\* A pair counts when neither side could be paired otherwise.
Paired(S, hook, call) ==
  /\ Candidates(S, hook) = {call}
  /\ \A h \in Ids(S, "hook") : call \in Candidates(S, h) => h = hook

AliasesOf(session, S) ==
  {[session |-> session, observed |-> p[1], canonical |-> p[2]] :
     p \in {q \in Ids(S, "hook") \X Ids(S, "transcript") : Paired(S, q[1], q[2])}}

\* The id under which an event is counted.
Canonical(pairs, e) ==
  IF \E p \in pairs : p.session = e.session /\ p.observed = e.call
  THEN (CHOOSE p \in pairs : p.session = e.session /\ p.observed = e.call).canonical
  ELSE e.call

Rebuilt(pairs, S, call) == ClaudeRow({e \in S : Canonical(pairs, e) = call})

\* What the pairing can tell apart: a use has a start, an end, one name, and one id
\* per observer; two ids that are seen close to each other, and no other use of
\* that name in the session as close.
SeenWhole(e) ==
  /\ e.session \in Claude => e.from \in {"hook", "transcript"}
  /\ \E f \in Sightings : f.use = e.use /\ f.type = "called"
  /\ \E f \in Sightings : f.use = e.use /\ f.type # "called"
SeenNear(use) ==
  \E h \in Sightings, t \in Sightings :
    /\ h.use = use /\ h.from = "hook" /\ t.use = use /\ t.from = "transcript" /\ Close({h}, {t})
ToldApart(e, f) ==
  /\ e.session = f.session /\ e.call = f.call => e.use = f.use
  /\ e.use = f.use => e.session = f.session /\ e.name = f.name
  /\ e.use = f.use /\ e.call # f.call =>
       e.session \in Claude /\ e.from # f.from /\ SeenNear(e.use)
  /\ e.use # f.use /\ e.session = f.session /\ e.name = f.name
       /\ e.from = "hook" /\ f.from = "transcript" => ~Close({e}, {f})
UsesApart == \A e \in Sightings : SeenWhole(e) /\ \A f \in Sightings : ToldApart(e, f)

-----------------------------------------------------------------------------

Init == events = {} /\ aliases = {} /\ calls = [k \in Keys |-> NoRow]

InSession(S, session) == {e \in S : e.session = session}

\* An event that is stored already is projected like a new one.
ProjectClaude(e) ==
  LET S == InSession(events \cup {e}, e.session)
      pairs == AliasesOf(e.session, S)
  IN  /\ e.session \in Claude
      /\ aliases' = {p \in aliases : p.session # e.session} \cup pairs
      /\ calls' = [k \in Keys |->
                     IF k.session = e.session THEN Rebuilt(pairs, S, k.call) ELSE calls[k]]

ProjectOrdinary(e) ==
  /\ e.session \notin Claude
  /\ calls' = [calls EXCEPT ![Key(e.session, e.call)] =
                 OrdinaryRow({f \in events \cup {e} : f.session = e.session /\ f.call = e.call})]
  /\ UNCHANGED aliases

ProjectTool(e) ==
  /\ events' = events \cup {e}
  /\ ProjectClaude(e) \/ ProjectOrdinary(e)

Next == \E e \in Sightings : ProjectTool(e)

Spec == Init /\ [][Next]_tools

-----------------------------------------------------------------------------

TypeOK ==
  /\ SightingsOK
  /\ events \subseteq Sightings
  /\ \A p \in aliases : p.session \in Claude /\ p.observed # p.canonical
  /\ \A k \in Keys : calls[k].status \in {"none", "started", "succeeded", "failed"}

Uses == {e.use : e \in Sightings}
Of(use) == {e \in Sightings : e.use = use}

\* The rows that stand for a use, and what such a row must say.
RowsOf(use) == {k \in {Key(e.session, e.call) : e \in Of(use)} : calls[k].status # "none"}
Tells(row, use) ==
  /\ row.started = First(Starts(Of(use))).at
  /\ row.status = IF \E e \in Of(use) : e.type = "succeeded" THEN "succeeded" ELSE "failed"

\* A use of which everything was projected has exactly one row, with its own
\* start and outcome, whatever the order, the repetitions and the ids under
\* which the hooks saw it (tool-aliases.ts; "start candidates and terminal
\* candidates are independently ordered ... regardless of ingestion order").
CountedOnce(use) ==
  /\ Cardinality(RowsOf(use)) = 1
  /\ \A k \in RowsOf(use) : Tells(calls[k], use)
EveryUseOnce == \A use \in Uses : Of(use) \subseteq events => CountedOnce(use)

\* Specification 2026-07-17, line 417: "matching trimmed native IDs normalize
\* directly to native:<id>".
NativeIdsConverge ==
  \A p \in aliases :
    ~\E e, f \in events :
       /\ e.session = p.session /\ f.session = p.session
       /\ e.from = "hook" /\ f.from = "transcript"
       /\ e.call = p.observed /\ f.call = p.observed
=============================================================================
