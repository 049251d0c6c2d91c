---------------------------- MODULE QueryClient ----------------------------
(***************************************************************************)
(* How a page of the dashboard keeps its figures up to date                 *)
(* (apps/dashboard/src/query-client.ts and query-hooks.ts): a cache with    *)
(* one entry per query key, and the hook of a view, whose key changes with  *)
(* the scope the user selects.  Requests are shared while one is under way, *)
(* given up when they take too long or are not needed any more, and         *)
(* repeated by chains of polls.  What Core would answer is a version that   *)
(* its syncs raise.                                                         *)
(*                                                                          *)
(* A request keeps its entry's generation for as long as live says; the     *)
(* answer of one that lost it comes late.  Promises settle with the step    *)
(* that settles them: what awaits them runs before any other event.         *)
(***************************************************************************)
EXTENDS Integers

CONSTANTS
  Scopes,     \* the keys the view's query can have
  MaxSyncs,   \* bound: versions of what Core answers
  MaxTurns,   \* bound: selections, visibility changes, refreshes, unmounts
  MaxFaults   \* bound: requests that fail or time out

VARIABLES
  cache,      \* the client: its entries, the loaders that have not come back,
              \* the key the hook listens to, and the state the hook has by that
  selected, enabled, visible,
  always,     \* pollWhileHidden
  waits,      \* polling chains of the hook that await the promise of its key
  held,       \* the timeout that the hook's handle names is pending
  loose,      \* pending timeouts whose handle was overwritten
  version, turns, faults

hook == <<selected, enabled, visible, always>>
chains == <<waits, held, loose>>
vars == <<cache, hook, chains, version, turns, faults>>

Nothing == 0
QueryAssumption ==
  Nothing \notin Scopes /\ MaxSyncs \in Nat \ {0} /\ MaxTurns \in Nat /\ MaxFaults \in Nat

Statuses == {"idle", "loading", "ready", "stale", "error"}
Requests == [scope : Scopes, from : 1..MaxSyncs, live : BOOLEAN]
Live(c, s) == {r \in c.requests : r.scope = s /\ r.live}
GaveUp(rs) == {[r EXCEPT !.live = FALSE] : r \in rs}
CanPoll == cache.hears # Nothing /\ enabled /\ (always \/ visible)

\* The hook's listener: without data of its own a state leaves the old data shown.
Listened(current, s, entry) ==
  IF entry.data = 0 /\ current.data # 0 /\ entry.status # "error"
  THEN [current EXCEPT !.status = "stale"]
  ELSE [status |-> entry.status, data |-> entry.data, scope |-> s]

Notify(c, s) ==
  IF c.hears = s THEN [c EXCEPT !.shown = Listened(@, s, c.entries[s])] ELSE c

\* A state without an answer: none while there is no data yet, else some.
Put(c, s, none, some) ==
  Notify([c EXCEPT !.entries[s].status = IF c.entries[s].data = 0 THEN none ELSE some], s)

\* fetch: a request that is under way is joined.
Fetch(c, s) ==
  IF Live(c, s) # {} THEN c
  ELSE Put([c EXCEPT !.requests = @ \cup {[scope |-> s, from |-> version, live |-> TRUE]}],
           s, "loading", c.entries[s].status)

Cancel(c, s) ==
  IF Live(c, s) = {} THEN c
  ELSE Put([c EXCEPT !.requests = (@ \ Live(c, s)) \cup GaveUp(Live(c, s))], s, "idle", "stale")

Invalidate(c, s) == Put(c, s, "idle", "stale")
Subscribe(c, s) == Notify([c EXCEPT !.hears = s], s)
Unsubscribe(c) == [c EXCEPT !.hears = Nothing]
Dispose(c) ==
  [c EXCEPT !.hears = Nothing, !.requests = GaveUp(@),
            !.entries = [s \in Scopes |-> [status |-> "idle", data |-> 0]]]

-----------------------------------------------------------------------------
\* schedule, by every chain that awaited the request of s.
Schedules(s) ==
  IF s # cache.hears THEN UNCHANGED chains
  ELSE /\ waits' = 0
       /\ IF CanPoll /\ waits > 0
          THEN held' = TRUE /\ loose' = loose + waits - (IF held THEN 0 ELSE 1)
          ELSE UNCHANGED <<held, loose>>

Empty ==
  [entries |-> [s \in Scopes |-> [status |-> "idle", data |-> 0]], requests |-> {},
   hears |-> Nothing, shown |-> [status |-> "idle", data |-> 0, scope |-> Nothing]]

Init ==
  /\ version = 1 /\ turns = 0 /\ faults = 0
  /\ selected \in Scopes /\ always \in BOOLEAN /\ enabled = TRUE /\ visible = TRUE
  /\ cache = Fetch(Subscribe(Empty, selected), selected)
  /\ waits = 1 /\ held = FALSE /\ loose = 0

(* The client. *)

Answered(r, v) ==
  Notify([cache EXCEPT !.requests = @ \ {r},
                       !.entries[r.scope] = [status |-> "ready", data |-> v]], r.scope)

AnswersAlways(r) ==
  /\ \E v \in r.from..version : cache' = Answered(r, v)
  /\ IF r.live THEN Schedules(r.scope) ELSE UNCHANGED chains
  /\ UNCHANGED <<hook, version, turns, faults>>

Answers(r) ==
  /\ IF r.live
     THEN /\ \E v \in r.from..version : cache' = Answered(r, v)
          /\ Schedules(r.scope)
     ELSE cache' = [cache EXCEPT !.requests = @ \ {r}] /\ UNCHANGED chains
  /\ UNCHANGED <<hook, version, turns, faults>>

\* The loader throws, or the timeout gives it up and its answer comes late.
Fails(r) ==
  /\ r.live /\ faults < MaxFaults /\ faults' = faults + 1
  /\ \E late \in {{}, GaveUp({r})} :
       cache' = Put([cache EXCEPT !.requests = (@ \ {r}) \cup late], r.scope, "error", "stale")
  /\ Schedules(r.scope)
  /\ UNCHANGED <<hook, version, turns>>

(* The hook.  The closure of an effect that was cleaned up does nothing any *)
(* more when its promise settles or its timeout elapses.                    *)

Elapses ==
  /\ \/ held /\ held' = FALSE /\ UNCHANGED loose
     \/ loose > 0 /\ loose' = loose - 1 /\ UNCHANGED held
  /\ IF CanPoll THEN cache' = Fetch(cache, selected) /\ waits' = waits + 1
     ELSE UNCHANGED <<cache, waits>>
  /\ UNCHANGED <<hook, version, turns, faults>>

Turn == turns < MaxTurns /\ turns' = turns + 1

Selects ==
  /\ Turn /\ cache.hears # Nothing
  /\ \E s \in Scopes \ {selected} :
       LET c == Subscribe(Cancel(Unsubscribe(cache), selected), s)
       IN selected' = s /\ cache' = IF CanPoll THEN Fetch(c, s) ELSE c
  /\ waits' = (IF CanPoll THEN 1 ELSE 0) /\ held' = FALSE /\ loose' = 0
  /\ UNCHANGED <<enabled, visible, always, version, faults>>

Enables ==
  /\ Turn /\ cache.hears # Nothing
  /\ enabled' = ~enabled
  /\ LET loads == enabled' /\ (always \/ visible)
     IN /\ cache' = IF loads THEN Fetch(cache, selected) ELSE
                      IF enabled THEN Cancel(cache, selected) ELSE cache
        /\ waits' = (IF loads THEN 1 ELSE 0) /\ held' = FALSE /\ loose' = 0
  /\ UNCHANGED <<selected, visible, always, version, faults>>

\* visibilitychange, with the listener of an enabled hook.
TurnsVisible ==
  /\ Turn
  /\ visible' = ~visible
  /\ IF always \/ ~enabled \/ cache.hears = Nothing THEN UNCHANGED <<cache, chains>>
     ELSE /\ held' = FALSE /\ UNCHANGED loose
          /\ IF visible THEN UNCHANGED <<cache, waits>>
             ELSE cache' = Fetch(cache, selected) /\ waits' = waits + 1
  /\ UNCHANGED <<selected, enabled, always, version, faults>>

\* The page's sync has ended: it refreshes the key it was started with, or
\* invalidates it when that went wrong.
Refreshes ==
  /\ Turn
  /\ \E s \in Scopes : cache' \in {Fetch(cache, s), Invalidate(cache, s)}
  /\ UNCHANGED <<hook, chains, version, faults>>

Unmounts ==
  /\ Turn /\ cache.hears # Nothing
  /\ cache' = Dispose(cache)
  /\ waits' = 0 /\ held' = FALSE /\ loose' = 0
  /\ UNCHANGED <<hook, version, faults>>

\* Core takes in something new.
Syncs ==
  /\ version < MaxSyncs /\ version' = version + 1
  /\ UNCHANGED <<cache, hook, chains, turns, faults>>

Answer == \E r \in cache.requests : Answers(r)
Next ==
  \/ Answer \/ (\E r \in cache.requests : Fails(r)) \/ Elapses
  \/ Selects \/ Enables \/ TurnsVisible \/ Refreshes \/ Unmounts \/ Syncs

\* Core answers, and timeouts elapse.
Spec == Init /\ [][Next]_vars /\ WF_vars(Answer) /\ WF_vars(Elapses)

-----------------------------------------------------------------------------
TypeOK ==
  /\ cache.entries \in [Scopes -> [status : Statuses, data : 0..MaxSyncs]]
  /\ cache.requests \subseteq Requests
  /\ cache.hears \in {Nothing, selected} /\ selected \in Scopes
  /\ {enabled, visible, always, held} \subseteq BOOLEAN
  /\ version \in 1..MaxSyncs /\ turns \in 0..MaxTurns /\ faults \in 0..MaxFaults
  /\ waits \in 0..MaxTurns + 1 /\ loose \in 0..MaxTurns + 1

\* One request at a time per key, also when several chains, the user's sync and
\* a new selection ask at once; and what is shown as up to date was fetched for
\* the scope that is selected.
OneRequest ==
  /\ \A q, r \in cache.requests : q.live /\ r.live /\ q.scope = r.scope => q = r
  /\ cache.hears # Nothing /\ cache.shown.status = "ready" => cache.shown.scope = selected

\* No answer takes back a newer one: neither that of a request that was given
\* up, cancelled or overtaken, nor one that a page gets after it was left.
NewerStays ==
  \A s \in Scopes :
    cache'.entries[s].data < cache.entries[s].data => cache'.hears = Nothing

\* A view that can poll shows the newest figures of its scope again and again,
\* whatever was cancelled, hidden, timed out or refreshed before.
Current ==
  CanPoll => /\ cache.shown.status = "ready" /\ cache.shown.data = version
             /\ cache.shown.scope = selected
StaysCurrent == []<>Current
=============================================================================
