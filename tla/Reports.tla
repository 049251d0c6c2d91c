------------------------------ MODULE Reports ------------------------------
(***************************************************************************)
(* What Core answers from the projected tables (apps/core/src:              *)
(* query-support.ts, time-scope.ts, canonical-queries.ts,                   *)
(* aggregate-queries.ts, session-queries.ts and core-routes.ts): totals of  *)
(* a window, and listings in pages, between which events are projected and  *)
(* trimmed and the clock goes on.                                           *)
(*                                                                         *)
(* Abstracted: tokens are one counter; costs, rates and tool rankings are   *)
(* left out; a source instance is its vendor; a cursor is its content.      *)
(***************************************************************************)
EXTENDS Integers, Sequences, FiniteSets, FiniteSetsExt

CONSTANTS
  Events,      \* what adapters emit: [id, session, vendor, model, at, from, tokens]
  Queries,     \* what a reader asks: [kind, session, mode, from, to, vendor]
  DayLength,   \* ticks of a day
  Limit,       \* rows of a page
  Cutoff,      \* where the retention cuts
  MaxClock     \* bound: how long is played

\* The model of a row without one, a listing that has not begun, every vendor,
\* and the session of the rows that Cursor's server counted.
CONSTANTS Unknown, NoCursor, AllVendors, OfficialSession

\* Ids are unique, and a session is of one source instance (domain-schema.ts: its key).
ReportsAssumption ==
  /\ IsFiniteSet(Events) /\ Limit \in Nat \ {0} /\ MaxClock \in Nat
  /\ NoCursor \notin [at : Nat, key : Nat]
  /\ \A q \in Queries : q.to \in Int
  /\ \A e \in Events :
       /\ e.at \in Nat /\ e.id \in Nat /\ e.session \in Nat /\ e.tokens \in Nat
       /\ e.session # OfficialSession
       /\ \A f \in Events :
            (e.id = f.id => e = f) /\ (e.session = f.session => e.vendor = f.vendor)

VARIABLES
  clock,
  events,   \* normalized_events
  usage,    \* usage_events
  reader    \* a reader with its query, its cursor and the pages it got

vars == <<clock, events, usage, reader>>

Nobody == [step |-> "idle"]

Init ==
  /\ clock = 0
  /\ events = {} /\ usage = {}
  /\ reader = Nobody

-----------------------------------------------------------------------------
(* Windows. *)

\* resolveTimeScope: a calendar or rolling day ends now.
Scope(q) ==
  [bounded |-> q.mode # "lifetime",
   from |-> CASE q.mode = "calendar" -> (clock \div DayLength) * DayLength
              [] q.mode = "rolling" -> clock - DayLength
              [] OTHER -> q.from,
   to |-> IF q.mode \in {"calendar", "rolling"} THEN clock ELSE q.to]

\* buildOccurrenceWindow, and buildTimeWindow, which includes the end.
Within(scope, t) == scope.bounded => scope.from <= t /\ t < scope.to
WithinOrAtEnd(scope, t) == scope.bounded => scope.from <= t /\ t <= scope.to

OfVendor(q, x) == q.vendor \in {AllVendors, x.vendor}

Tokens(rows) == MapThenSumSet(LAMBDA u : u.tokens, rows)

-----------------------------------------------------------------------------
(* Totals. *)

\* dropCursorGenerationShadowedByOfficial, among the rows of the window.
DayOf(t) == t \div DayLength
Unshadowed(rows) ==
  {u \in rows : u.from = "generation" =>
     \A o \in rows : o.from = "official" => DayOf(o.at) # DayOf(u.at)}

\* selectTokenUsageRows, with isAdditiveUsage.
UsageOf(q) ==
  Unshadowed({u \in usage : u.from # "snapshot" /\ OfVendor(q, u) /\ WithinOrAtEnd(Scope(q), u.at)})
Overview(q) == Tokens(UsageOf(q))

\* selectTokensByModel, selectSourceBreakdown, selectTokenTrend: groups of rows.
Grouped(groups) == MapThenSumSet(LAMBDA g : Tokens(g), groups)
ByModel(q) ==
  {{u \in UsageOf(q) : u.vendor = v.vendor /\ u.model = v.model} : v \in UsageOf(q)}
BySource(q) == {{u \in UsageOf(q) : u.vendor = v.vendor} : v \in UsageOf(q)}
Trend(q) == {{u \in UsageOf(q) : DayOf(u.at) = DayOf(v.at)} : v \in UsageOf(q)}

\* selectWidgetSnapshot: today, without the end.
Today == [mode |-> "calendar", from |-> 0, to |-> 0, vendor |-> AllVendors]
Widget == Tokens(Unshadowed({u \in usage : u.from # "snapshot" /\ Within(Scope(Today), u.at)}))

-----------------------------------------------------------------------------
(* Pages. *)

\* selectCanonicalSessions: the sessions with events in the window, by their
\* last one; toSessionRows: their tokens in it.
SessionEvents(all, q, scope, s) ==
  {e \in all : e.session = s /\ OfVendor(q, e) /\ Within(scope, e.at)}
SessionRows(all, q, scope) ==
  {[at |-> Max({e.at : e \in SessionEvents(all, q, scope, s)}), key |-> s] :
     s \in {t \in {e.session : e \in all} : SessionEvents(all, q, scope, t) # {}}}
SessionTokens(scope, s) ==
  Tokens({u \in usage : u.session = s /\ u.from # "snapshot" /\ Within(scope, u.at)})

\* selectCanonicalSessionDetail: the events of one session.
TimelineRows(all, q, scope) ==
  {[at |-> e.at, key |-> e.id] : e \in {x \in all : x.session = q.session /\ Within(scope, x.at)}}

RowsOf(all, q, scope) ==
  IF q.kind = "sessions" THEN SessionRows(all, q, scope) ELSE TimelineRows(all, q, scope)

\* buildSessionCursorCondition and buildTimelineCursorCondition, which are the
\* orders of the two listings.
Precedes(q, a, b) ==
  \/ IF q.kind = "sessions" THEN a.at > b.at ELSE a.at < b.at
  \/ a.at = b.at /\ a.key < b.key
Behind(q, cursor, row) == cursor # NoCursor => Precedes(q, cursor, row)

\* ORDER BY: in the i-th place is the row that i - 1 others precede.
Ordered(q, rows) ==
  [i \in 1..Cardinality(rows) |->
     CHOOSE r \in rows : Cardinality({x \in rows : Precedes(q, x, r)}) = i - 1]

\* A page, and the cursor for the next one if there is a row more.
Page(q, scope, cursor) ==
  LET rows == Ordered(q, {r \in RowsOf(events, q, scope) : Behind(q, cursor, r)})
      page == SubSeq(rows, 1, Min({Limit, Len(rows)}))
  IN  [rows |-> page, next |-> IF Len(rows) > Limit THEN page[Limit] ELSE NoCursor]

Told(q, scope, rows) ==
  [i \in DOMAIN rows |->
     [at |-> rows[i].at, key |-> rows[i].key,
      tokens |-> IF q.kind = "sessions" THEN SessionTokens(scope, rows[i].key) ELSE 0]]

StepAfter(page) == IF page.next = NoCursor THEN "done" ELSE "more"

\* The first page; steady is history: the rows that were there then and have not
\* moved since.
FirstPage(q) ==
  /\ reader.step = "idle"
  /\ LET scope == Scope(q)
         page == Page(q, scope, NoCursor)
     IN  reader' = [step |-> StepAfter(page), query |-> q, scope |-> scope, cursor |-> page.next,
                    shown |-> Told(q, scope, page.rows), steady |-> RowsOf(events, q, scope), changes |-> {}]
  /\ UNCHANGED <<clock, events, usage>>

\* readPageCursor: a cursor is good for the filter it was made for, of which the
\* bounds of the window are a part.
NextPage ==
  /\ reader.step = "more"
  /\ LET q == reader.query
         page == Page(q, Scope(q), reader.cursor)
     IN  IF Scope(q) = reader.scope
         THEN reader' = [reader EXCEPT !.step = StepAfter(page), !.cursor = page.next,
                                       !.shown = @ \o Told(q, Scope(q), page.rows)]
         ELSE reader' = [reader EXCEPT !.step = "refused"]
  /\ UNCHANGED <<clock, events, usage>>

Leave ==
  /\ reader.step \in {"done", "refused"}
  /\ reader' = Nobody
  /\ UNCHANGED <<clock, events, usage>>

-----------------------------------------------------------------------------
(* What goes on meanwhile. *)

Tick ==
  /\ clock < MaxClock
  /\ clock' = clock + 1
  /\ UNCHANGED <<events, usage, reader>>

\* What the change does to the rows that the reader should see.
Notice(change) ==
  IF reader.step # "idle"
  THEN reader' = [reader EXCEPT !.changes = @ \cup {change},
                                !.steady = @ \cap RowsOf(events', reader.query, reader.scope)]
  ELSE UNCHANGED reader

\* The projector; an event may be older than others that are there.
Project(e) ==
  /\ e.at <= clock /\ e.id \notin {x.id : x \in events}
  /\ e.id \notin {u.id : u \in usage}
  /\ events' = events \cup {e}
  /\ usage' = IF e.from = "prompt" THEN usage ELSE usage \cup {e}
  /\ Notice("news")
  /\ UNCHANGED clock

\* persistCursorOfficialDayTokens: the rows of a day have no session and no
\* event.
Official(tokens) ==
  /\ usage' = {u \in usage : u.from # "official" \/ DayOf(u.at) # DayOf(clock)} \cup
       {[id |-> -1 - DayOf(clock), session |-> OfficialSession, vendor |-> "cursor",
         model |-> "m", at |-> clock, from |-> "official", tokens |-> tokens]}
  /\ UNCHANGED <<clock, events>>
  /\ Notice("news")

\* The retention deletes old events of usage; usage itself stays.
Trim ==
  /\ clock > Cutoff
  /\ events' = {e \in events : e.at >= Cutoff \/ e.from = "prompt"}
  /\ events' # events
  /\ Notice("trimmed")
  /\ UNCHANGED <<clock, usage>>

Next ==
  \/ Tick \/ Trim
  \/ \E e \in Events : Project(e)
  \/ \E n \in {5} : Official(n)
  \/ \E q \in Queries : FirstPage(q)
  \/ NextPage \/ Leave

-----------------------------------------------------------------------------

TypeOK ==
  /\ clock \in 0..MaxClock
  /\ events \subseteq Events
  /\ reader.step \in {"idle", "more", "done", "refused"}
  /\ reader.step # "idle" => reader.query \in Queries /\ Len(reader.shown) <= Limit * (1 + Cardinality(Events))

ShownKeys == {reader.shown[i].key : i \in DOMAIN reader.shown}

\* A listing shows nothing twice, whatever is projected between its pages, as
\* long as the retention does not run meanwhile (canonical-queries.ts, cursor
\* conditions).
PagesOnce ==
  reader.step # "idle" /\ "trimmed" \notin reader.changes => Cardinality(ShownKeys) = Len(reader.shown)

\* A listing that came to its end has shown every row that was there at its
\* beginning and has not moved.
PagesComplete ==
  reader.step = "done" => {r.key : r \in reader.steady} \subseteq ShownKeys

\* Usage on which listing and overview agree: not at the very end of the window,
\* not of the server, and of events that are still there.
Comparable(q, scope) ==
  \A u \in usage : OfVendor(q, u) /\ WithinOrAtEnd(scope, u.at) =>
    /\ Within(scope, u.at)
    /\ u.from # "official"
    /\ \E e \in events : e.id = u.id

ListTotal == MapThenSumSet(LAMBDA i : reader.shown[i].tokens, DOMAIN reader.shown)

\* The groups of the overview add up to it, and so do the sessions of a listing
\* that was read to its end while nothing changed; the widget's total is that
\* of the overview for the same day, if nothing is of this very moment
\* (specification, section 9.6, acceptance invariant).
TotalsAgree ==
  /\ \A q \in Queries \cup {Today} :
       /\ Grouped(ByModel(q)) = Overview(q)
       /\ Grouped(BySource(q)) = Overview(q)
       /\ Grouped(Trend(q)) = Overview(q)
  /\ (\A u \in usage : u.at # clock) => Widget = Overview(Today)
  /\ (reader.step = "done" /\ reader.query.kind = "sessions" /\ reader.changes = {}
       /\ Comparable(reader.query, reader.scope) /\ Scope(reader.query) = reader.scope) => ListTotal = Overview(reader.query)

\* The same without Comparable, as the acceptance invariant has it: "For a fixed
\* filtered additive usage dataset, the sum of model, source-vendor, provider,
\* and composite-session totals MUST each equal the Overview total".
SessionsAddUp ==
  (reader.step = "done" /\ reader.query.kind = "sessions" /\ reader.changes = {}
     /\ Scope(reader.query) = reader.scope) => ListTotal = Overview(reader.query)
=============================================================================
