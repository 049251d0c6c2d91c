--------------------------- MODULE LivenessProofs ---------------------------
(***************************************************************************)
(* Theorems about the queries of the dashboard, about the widget, and about *)
(* the composition that runs them beside the coordinator, for every value   *)
(* of the constants.                                                        *)
(*                                                                          *)
(* SoundCache says when a cache cannot be spoilt by an answer: of a key     *)
(* there is one request that counts, and it was asked when the entry's data *)
(* was as old as it is now.  The operations of the client are lemmas about  *)
(* caches; QueryInv says that the cache is sound and that the hook's chains *)
(* are no more than the turns that started them.                            *)
(*                                                                          *)
(* SoundWidget says the same of the widget: its window is shown as visible  *)
(* says, a drag has an origin, and a closed window has neither timers nor   *)
(* an origin.  Each handler of the main process is a lemma: it keeps a      *)
(* widget sound, and says which mode it leaves behind.                      *)
(***************************************************************************)
EXTENDS MCLiveness, TLAPS

Data == 0..MaxSyncs
Entries == [Scopes -> [status : Q!Statuses, data : Data]]
Caches ==
  [entries : Entries, requests : SUBSET Q!Requests, hears : Scopes \cup {Q!Nothing},
   shown : [status : Q!Statuses, data : Data, scope : Scopes \cup {Q!Nothing}]]

SoundCache(c) ==
  /\ c \in Caches
  /\ \A q, r \in c.requests : q.live /\ r.live /\ q.scope = r.scope => q = r
  /\ c.hears # Q!Nothing /\ c.shown.status = "ready" => c.shown.scope = c.hears
  /\ \A r \in c.requests : r.live => c.entries[r.scope].data <= r.from
  /\ \A s \in Scopes : c.entries[s].data <= version

\* The entries of d have the data of those of c, and the same key is listened to.
SameData(c, d) ==
  (\A s \in Scopes : d.entries[s].data = c.entries[s].data) /\ d.hears = c.hears

-----------------------------------------------------------------------------
(* The operations of the client. *)

\* What a hook keeps of a state of its key is either of that key or stale.
LEMMA ListenedState ==
  ASSUME Q!QueryAssumption, NEW s \in Scopes,
         NEW current \in [status : Q!Statuses, data : Data, scope : Scopes \cup {Q!Nothing}],
         NEW entry \in [status : Q!Statuses, data : Data]
  PROVE  /\ Q!Listened(current, s, entry)
              \in [status : Q!Statuses, data : Data, scope : Scopes \cup {Q!Nothing}]
         /\ Q!Listened(current, s, entry).status = "ready" => Q!Listened(current, s, entry).scope = s
BY DEF Q!Listened, Q!Statuses

LEMMA NotifySound ==
  ASSUME Q!QueryAssumption, NEW c, SoundCache(c), NEW s \in Scopes
  PROVE  /\ SoundCache(Q!Notify(c, s)) /\ SameData(c, Q!Notify(c, s))
         /\ Q!Notify(c, s).requests = c.requests
<1>1. CASE c.hears = s
  <2> DEFINE l == Q!Listened(c.shown, s, c.entries[s])
  <2>1. /\ l \in [status : Q!Statuses, data : Data, scope : Scopes \cup {Q!Nothing}]
        /\ l.status = "ready" => l.scope = s
    BY ListenedState DEF SoundCache, Caches, Entries
  <2>2. Q!Notify(c, s) = [c EXCEPT !.shown = l]
    BY <1>1 DEF Q!Notify
  <2> HIDE DEF l
  <2> QED
    BY <1>1, <2>1, <2>2 DEF SoundCache, Caches, SameData
<1>2. CASE c.hears # s
  BY <1>2 DEF Q!Notify, SameData
<1> QED
  BY <1>1, <1>2

LEMMA PutSound ==
  ASSUME Q!QueryAssumption, NEW c, SoundCache(c), NEW s \in Scopes,
         NEW none \in Q!Statuses, NEW some \in Q!Statuses
  PROVE  /\ SoundCache(Q!Put(c, s, none, some)) /\ SameData(c, Q!Put(c, s, none, some))
         /\ Q!Put(c, s, none, some).requests = c.requests
<1> DEFINE status == IF c.entries[s].data = 0 THEN none ELSE some
           d == [c EXCEPT !.entries[s].status = status]
<1>1. status \in Q!Statuses
  OBVIOUS
<1> HIDE DEF status
<1>2. d.entries \in Entries /\ \A t \in Scopes : d.entries[t].data = c.entries[t].data
  BY <1>1 DEF SoundCache, Caches, Entries
<1>3. d \in Caches /\ d.requests = c.requests /\ d.hears = c.hears /\ d.shown = c.shown
  BY <1>2 DEF SoundCache, Caches
<1>4. Q!Put(c, s, none, some) = Q!Notify(d, s)
  BY DEF Q!Put, status
<1> HIDE DEF d
<1>5. SoundCache(d) /\ SameData(c, d)
  BY <1>2, <1>3 DEF SoundCache, SameData, Caches, Q!Requests
<1> QED
  BY <1>3, <1>4, <1>5, NotifySound DEF SameData

\* A request that is asked anew is asked of the newest version.
LEMMA FetchSound ==
  ASSUME Q!QueryAssumption, version \in 1..MaxSyncs, NEW c, SoundCache(c), NEW s \in Scopes
  PROVE  SoundCache(Q!Fetch(c, s)) /\ SameData(c, Q!Fetch(c, s))
<1>1. CASE Q!Live(c, s) # {}
  BY <1>1 DEF Q!Fetch, SameData
<1>2. CASE Q!Live(c, s) = {}
  <2> DEFINE r == [scope |-> s, from |-> version, live |-> TRUE]
             d == [c EXCEPT !.requests = @ \cup {r}]
  <2>1. r \in Q!Requests /\ r.live /\ r.scope = s /\ r.from = version
    BY DEF Q!Requests
  <2>2. \A q \in c.requests : q.scope = s => ~q.live
    BY <1>2 DEF Q!Live
  <2>3. c.entries[s].status \in Q!Statuses /\ "loading" \in Q!Statuses
    BY DEF SoundCache, Caches, Entries, Q!Statuses
  <2>4. Q!Fetch(c, s) = Q!Put(d, s, "loading", c.entries[s].status)
    BY <1>2 DEF Q!Fetch
  <2> HIDE DEF r
  <2>5. /\ d.requests = c.requests \cup {r} /\ d.entries = c.entries
        /\ d.hears = c.hears /\ d.shown = c.shown /\ d \in Caches
    BY <2>1 DEF SoundCache, Caches
  <2> HIDE DEF d
  <2>6. SoundCache(d) /\ SameData(c, d)
    BY <2>1, <2>2, <2>5 DEF SoundCache, SameData
  <2> QED
    BY <2>3, <2>4, <2>6, PutSound DEF SameData
<1> QED
  BY <1>1, <1>2

\* Giving requests up, or forgetting them, spoils nothing.
LEMMA FewerLive ==
  ASSUME Q!QueryAssumption, NEW c, SoundCache(c), NEW rs, rs \in SUBSET Q!Requests,
         \A r \in rs : r.live => r \in c.requests
  PROVE  LET d == [c EXCEPT !.requests = rs] IN SoundCache(d) /\ SameData(c, d)
<1> DEFINE d == [c EXCEPT !.requests = rs]
<1>1. /\ d.requests = rs /\ d.entries = c.entries /\ d.hears = c.hears
      /\ d.shown = c.shown /\ d \in Caches
  BY DEF SoundCache, Caches
<1> HIDE DEF d
<1>2. SoundCache(d) /\ SameData(c, d)
  BY <1>1 DEF SoundCache, SameData
<1> QED
  BY <1>2 DEF d

LEMMA GaveUpRequests ==
  ASSUME NEW rs \in SUBSET Q!Requests
  PROVE  Q!GaveUp(rs) \in SUBSET Q!Requests /\ \A r \in Q!GaveUp(rs) : ~r.live
BY DEF Q!GaveUp, Q!Requests

LEMMA CancelSound ==
  ASSUME Q!QueryAssumption, NEW c, SoundCache(c), NEW s \in Scopes
  PROVE  SoundCache(Q!Cancel(c, s)) /\ SameData(c, Q!Cancel(c, s))
<1>1. CASE Q!Live(c, s) = {}
  BY <1>1 DEF Q!Cancel, SameData
<1>2. CASE Q!Live(c, s) # {}
  <2> DEFINE rs == (c.requests \ Q!Live(c, s)) \cup Q!GaveUp(Q!Live(c, s))
             d == [c EXCEPT !.requests = rs]
  <2>1. c.requests \in SUBSET Q!Requests /\ Q!Live(c, s) \in SUBSET Q!Requests
    BY DEF SoundCache, Caches, Q!Live
  <2>2. rs \in SUBSET Q!Requests /\ \A r \in rs : r.live => r \in c.requests
    BY <2>1, GaveUpRequests
  <2>3. Q!Cancel(c, s) = Q!Put(d, s, "idle", "stale")
    BY <1>2 DEF Q!Cancel
  <2> HIDE DEF rs
  <2>4. SoundCache(d) /\ SameData(c, d)
    BY <2>2, FewerLive
  <2>5. "idle" \in Q!Statuses /\ "stale" \in Q!Statuses
    BY DEF Q!Statuses
  <2> HIDE DEF d
  <2>6. SoundCache(Q!Put(d, s, "idle", "stale")) /\ SameData(d, Q!Put(d, s, "idle", "stale"))
    BY <2>4, <2>5, PutSound
  <2> QED
    BY <2>3, <2>4, <2>6 DEF SameData
<1> QED
  BY <1>1, <1>2

\* The listener learns the state of its key at once.
LEMMA SubscribeSound ==
  ASSUME Q!QueryAssumption, NEW c, SoundCache(c), NEW s \in Scopes
  PROVE  /\ SoundCache(Q!Subscribe(c, s)) /\ Q!Subscribe(c, s).hears = s
         /\ \A t \in Scopes : Q!Subscribe(c, s).entries[t].data = c.entries[t].data
<1> DEFINE l == Q!Listened(c.shown, s, c.entries[s])
           d == [[c EXCEPT !.hears = s] EXCEPT !.shown = l]
<1>1. /\ l \in [status : Q!Statuses, data : Data, scope : Scopes \cup {Q!Nothing}]
      /\ l.status = "ready" => l.scope = s
  BY ListenedState DEF SoundCache, Caches, Entries
<1>2. Q!Subscribe(c, s) = d
  BY DEF Q!Subscribe, Q!Notify, SoundCache, Caches
<1> HIDE DEF l
<1>3. /\ d.requests = c.requests /\ d.entries = c.entries /\ d.hears = s
      /\ d.shown = l /\ d \in Caches
  BY <1>1 DEF SoundCache, Caches
<1> HIDE DEF d
<1> QED
  BY <1>1, <1>2, <1>3 DEF SoundCache

LEMMA UnsubscribeSound ==
  ASSUME Q!QueryAssumption, NEW c, SoundCache(c)
  PROVE  /\ SoundCache(Q!Unsubscribe(c))
         /\ \A t \in Scopes : Q!Unsubscribe(c).entries[t].data = c.entries[t].data
<1> DEFINE d == Q!Unsubscribe(c)
<1>1. /\ d.requests = c.requests /\ d.entries = c.entries /\ d.hears = Q!Nothing
      /\ d.shown = c.shown /\ d \in Caches
  BY DEF Q!Unsubscribe, SoundCache, Caches
<1> HIDE DEF d
<1>2. SoundCache(d) /\ \A t \in Scopes : d.entries[t].data = c.entries[t].data
  BY <1>1 DEF SoundCache
<1> QED
  BY <1>2 DEF d

LEMMA DisposeSound ==
  ASSUME Q!QueryAssumption, version \in 1..MaxSyncs, NEW c, SoundCache(c)
  PROVE  SoundCache(Q!Dispose(c)) /\ Q!Dispose(c).hears = Q!Nothing
<1> DEFINE d == Q!Dispose(c)
           none == [s \in Scopes |-> [status |-> "idle", data |-> 0]]
<1>1. none \in Entries /\ \A s \in Scopes : none[s].data = 0
  BY DEF Entries, Q!Statuses, Data, Q!QueryAssumption
<1>2. c.requests \in SUBSET Q!Requests
  BY DEF SoundCache, Caches
<1>3. Q!GaveUp(c.requests) \in SUBSET Q!Requests /\ \A r \in Q!GaveUp(c.requests) : ~r.live
  BY <1>2, GaveUpRequests
<1> HIDE DEF none
<1>4. /\ d.requests = Q!GaveUp(c.requests) /\ d.entries = none /\ d.hears = Q!Nothing
      /\ d.shown = c.shown /\ d \in Caches
  BY <1>1, <1>3 DEF Q!Dispose, none, SoundCache, Caches
<1> HIDE DEF d
<1>5. SoundCache(d)
  BY <1>1, <1>3, <1>4 DEF SoundCache
<1> QED
  BY <1>4, <1>5 DEF d

-----------------------------------------------------------------------------
(* The actions. *)

\* Every chain was started by the mount or by one of the turns.
Held == IF held THEN 1 ELSE 0
Chains == waits + loose + Held <= turns + 1

QueryInv == Q!TypeOK /\ SoundCache(cache) /\ Chains

\* What a step does to the data of the entries.
NoOlder ==
  \A s \in Scopes : cache'.entries[s].data >= cache.entries[s].data \/ cache'.hears = Q!Nothing

LEMMA HeldCounts ==
  /\ Held \in {0, 1} /\ Held' \in {0, 1}
  /\ held = TRUE => Held = 1
  /\ held' = TRUE => Held' = 1
  /\ held' = FALSE => Held' = 0
  /\ held' = held => Held' = Held
<1>1. Held \in {0, 1} /\ Held' \in {0, 1}
  BY Zenon DEF Held
<1>2. held = TRUE => Held = 1
  BY Zenon DEF Held
<1>3. (held' = TRUE => Held' = 1) /\ (held' = FALSE => Held' = 0)
  BY Zenon DEF Held
<1>4. held' = held => Held' = Held
  <2>1. CASE held' = TRUE /\ held = TRUE
    BY <1>2, <1>3, <2>1
  <2>2. CASE held' = held /\ held # TRUE
    BY <2>2 DEF Held
  <2> QED
    BY <2>1, <2>2
<1> QED
  BY <1>1, <1>2, <1>3, <1>4

\* Sound is about the version of Core, which no step of the client changes.
LEMMA StillSound ==
  ASSUME SoundCache(cache'), version' = version
  PROVE  SoundCache(cache)'
BY DEF SoundCache, Caches, Q!Requests, Entries, Data

\* The types, from what the actions say of the hook, the chains and the bounds.
LEMMA StillTyped ==
  ASSUME Q!QueryAssumption, SoundCache(cache)', Chains',
         cache'.hears \in {Q!Nothing, selected'}, selected' \in Scopes,
         {enabled', visible', always', held'} \subseteq BOOLEAN,
         version' \in 1..MaxSyncs, turns' \in 0..MaxTurns, faults' \in 0..MaxFaults,
         waits' \in Nat, loose' \in Nat
  PROVE  Q!TypeOK'
<1>1. cache'.entries \in Entries /\ cache'.requests \subseteq Q!Requests
  BY DEF SoundCache, Caches, Entries, Q!Requests, Data
<1>2. waits' \in 0..MaxTurns + 1 /\ loose' \in 0..MaxTurns + 1
  <2>1. MaxTurns \in Nat /\ turns' \in Nat /\ turns' <= MaxTurns
    BY DEF Q!QueryAssumption
  <2>2. PICK n, l, h, t : n = waits' /\ l = loose' /\ h = Held' /\ t = turns'
    OBVIOUS
  <2>3. /\ n \in Nat /\ l \in Nat /\ h \in {0, 1} /\ t \in Nat /\ t <= MaxTurns
        /\ n + l + h <= t + 1
    BY <2>1, <2>2, HeldCounts DEF Chains
  <2>4. n \in 0..MaxTurns + 1 /\ l \in 0..MaxTurns + 1
    BY ONLY <2>1, <2>3
  <2> QED
    BY <2>2, <2>4
<1> QED
  BY <1>1, <1>2 DEF Q!TypeOK, Entries, Data

\* An answer that counts is at least as new as what it replaces.
LEMMA AnswersKeeps ==
  ASSUME Q!QueryAssumption, QueryInv, NEW r \in cache.requests, Q!Answers(r)
  PROVE  SoundCache(cache') /\ NoOlder /\ cache'.hears = cache.hears
<1>0. cache \in Caches /\ r \in Q!Requests /\ version \in 1..MaxSyncs
  BY DEF QueryInv, SoundCache, Caches, Q!TypeOK
<1>1. CASE r.live
  <2>1. PICK v \in r.from..version : cache' = Q!Answered(r, v)
    BY <1>1 DEF Q!Answers
  <2> DEFINE e == [status |-> "ready", data |-> v]
             d == [cache EXCEPT !.requests = @ \ {r}, !.entries[r.scope] = e]
  <2>2. r.scope \in Scopes /\ r.from \in 1..MaxSyncs /\ v \in Data /\ v <= version /\ v >= r.from
    <3>1. r.scope \in Scopes /\ r.from \in 1..MaxSyncs
      BY <1>0 DEF Q!Requests
    <3>2. MaxSyncs \in Nat
      BY DEF Q!QueryAssumption
    <3> QED
      BY <1>0, <3>1, <3>2 DEF Data
  <2>3. e \in [status : Q!Statuses, data : Data]
    BY <2>2 DEF Q!Statuses
  <2>4. cache' = Q!Notify(d, r.scope)
    BY <2>1 DEF Q!Answered
  <2>5. e.data = v
    OBVIOUS
  <2> HIDE DEF e
  <2>6. d.entries \in Entries
    BY <1>0, <2>2, <2>3 DEF Caches, Entries
  <2>7. \A s \in Scopes :
          /\ s # r.scope => d.entries[s].data = cache.entries[s].data
          /\ s = r.scope => d.entries[s].data = v
    BY <1>0, <2>2, <2>5 DEF Caches, Entries
  <2>8. /\ d.requests = cache.requests \ {r} /\ d.hears = cache.hears
        /\ d.shown = cache.shown /\ d \in Caches
    BY <1>0, <2>6 DEF Caches
  <2> HIDE DEF d
  <2>9. \A q \in d.requests : q.live => q \in cache.requests /\ q.scope # r.scope /\ q.scope \in Scopes
    BY <1>0, <1>1, <2>8 DEF QueryInv, SoundCache, Caches, Q!Requests
  <2>10. SoundCache(d)
    BY <2>2, <2>7, <2>8, <2>9 DEF QueryInv, SoundCache
  <2>11. SoundCache(cache') /\ SameData(d, cache')
    BY <2>2, <2>4, <2>10, NotifySound
  <2>12. cache.entries[r.scope].data <= v
    <3>1. cache.entries[r.scope].data <= r.from
      BY <1>1 DEF QueryInv, SoundCache
    <3>2. cache.entries[r.scope].data \in Nat
      BY <1>0, <2>2 DEF Caches, Entries, Data
    <3> QED
      BY <2>2, <3>1, <3>2 DEF Data
  <2>13. \A s \in Scopes : cache.entries[s].data \in Nat
    BY <1>0 DEF Caches, Entries, Data
  <2> QED
    BY <2>2, <2>7, <2>8, <2>11, <2>12, <2>13 DEF SameData, NoOlder, Data
<1>2. CASE ~r.live
  <2>1. cache' = [cache EXCEPT !.requests = cache.requests \ {r}]
    BY <1>2 DEF Q!Answers
  <2>2. SoundCache(cache') /\ SameData(cache, cache')
    BY <1>0, <2>1, FewerLive DEF QueryInv, Caches
  <2> QED
    BY <1>0, <2>2 DEF SameData, NoOlder, Caches, Entries, Data
<1> QED
  BY <1>1, <1>2

\* A request that fails or times out leaves the data as it is.
LEMMA FailsKeeps ==
  ASSUME Q!QueryAssumption, QueryInv, NEW r \in cache.requests, Q!Fails(r)
  PROVE  SoundCache(cache') /\ SameData(cache, cache')
<1>1. PICK late \in {{}, Q!GaveUp({r})} :
        cache' = Q!Put([cache EXCEPT !.requests = (@ \ {r}) \cup late], r.scope, "error", "stale")
  BY DEF Q!Fails
<1> DEFINE rs == (cache.requests \ {r}) \cup late
           d == [cache EXCEPT !.requests = rs]
<1>2. cache.requests \in SUBSET Q!Requests /\ r \in Q!Requests /\ r.scope \in Scopes
  BY DEF QueryInv, SoundCache, Caches, Q!Requests
<1>3. {r} \in SUBSET Q!Requests
  BY <1>2
<1>4. rs \in SUBSET Q!Requests /\ \A q \in rs : q.live => q \in cache.requests
  BY <1>2, <1>3, GaveUpRequests
<1>5. cache' = Q!Put(d, r.scope, "error", "stale")
  BY <1>1
<1> HIDE DEF rs
<1>6. SoundCache(d) /\ SameData(cache, d)
  BY <1>4, FewerLive DEF QueryInv
<1> HIDE DEF d
<1>7. "error" \in Q!Statuses /\ "stale" \in Q!Statuses
  BY DEF Q!Statuses
<1> QED
  BY <1>2, <1>5, <1>6, <1>7, PutSound DEF SameData

\* The hook stops listening, gives its key up and listens to another one.
LEMMA SelectsKeeps ==
  ASSUME Q!QueryAssumption, QueryInv, Q!Selects
  PROVE  SoundCache(cache') /\ NoOlder /\ selected' \in Scopes /\ cache'.hears = selected'
<1>0. cache \in Caches /\ version \in 1..MaxSyncs /\ selected \in Scopes /\ SoundCache(cache)
  BY DEF QueryInv, SoundCache, Q!TypeOK
<1>1. PICK s \in Scopes \ {selected} :
        LET c == Q!Subscribe(Q!Cancel(Q!Unsubscribe(cache), selected), s)
        IN  selected' = s /\ cache' = IF Q!CanPoll THEN Q!Fetch(c, s) ELSE c
  BY DEF Q!Selects
<1> DEFINE a == Q!Unsubscribe(cache)
           b == Q!Cancel(a, selected)
           c == Q!Subscribe(b, s)
<1>2. selected' = s /\ cache' = IF Q!CanPoll THEN Q!Fetch(c, s) ELSE c
  BY <1>1
<1>3. SoundCache(a) /\ \A t \in Scopes : a.entries[t].data = cache.entries[t].data
  BY <1>0, UnsubscribeSound
<1> HIDE DEF a
<1>4. SoundCache(b) /\ SameData(a, b)
  BY <1>0, <1>3, CancelSound
<1> HIDE DEF b
<1>5. SoundCache(c) /\ c.hears = s /\ \A t \in Scopes : c.entries[t].data = b.entries[t].data
  BY <1>4, SubscribeSound
<1> HIDE DEF c
<1>6. SoundCache(Q!Fetch(c, s)) /\ SameData(c, Q!Fetch(c, s))
  BY <1>0, <1>5, FetchSound
<1>7. SoundCache(cache') /\ cache'.hears = s
      /\ \A t \in Scopes : cache'.entries[t].data = cache.entries[t].data
  BY <1>2, <1>3, <1>4, <1>5, <1>6 DEF SameData
<1>8. \A t \in Scopes : cache.entries[t].data \in Nat
  BY <1>0 DEF Caches, Entries, Data
<1> QED
  BY <1>2, <1>7, <1>8 DEF NoOlder

\* The hook is enabled or disabled, shown or hidden, and the chains poll.
LEMMA HookKeeps ==
  ASSUME Q!QueryAssumption, QueryInv, Q!Elapses \/ Q!Enables \/ Q!TurnsVisible \/ Q!Refreshes
  PROVE  SoundCache(cache') /\ SameData(cache, cache')
<1>0. version \in 1..MaxSyncs /\ selected \in Scopes /\ SoundCache(cache)
  BY DEF QueryInv, Q!TypeOK
<1>1. /\ SoundCache(Q!Fetch(cache, selected)) /\ SameData(cache, Q!Fetch(cache, selected))
      /\ SoundCache(Q!Cancel(cache, selected)) /\ SameData(cache, Q!Cancel(cache, selected))
      /\ SameData(cache, cache)
  BY <1>0, FetchSound, CancelSound DEF SameData
<1>2. CASE Q!Elapses
  BY <1>0, <1>1, <1>2 DEF Q!Elapses
<1>3. CASE Q!Enables
  BY <1>0, <1>1, <1>3 DEF Q!Enables
<1>4. CASE Q!TurnsVisible
  BY <1>0, <1>1, <1>4 DEF Q!TurnsVisible
<1>5. CASE Q!Refreshes
  <2>1. PICK s \in Scopes : cache' \in {Q!Fetch(cache, s), Q!Invalidate(cache, s)}
    BY <1>5 DEF Q!Refreshes
  <2>2. "idle" \in Q!Statuses /\ "stale" \in Q!Statuses
    BY DEF Q!Statuses
  <2>3. SoundCache(Q!Invalidate(cache, s)) /\ SameData(cache, Q!Invalidate(cache, s))
    BY <1>0, <2>2, PutSound DEF Q!Invalidate
  <2> QED
    BY <1>0, <2>1, <2>3, FetchSound
<1> QED
  BY <1>2, <1>3, <1>4, <1>5

-----------------------------------------------------------------------------
(* The chains of polls. *)

\* A settled request hands its chains over to timeouts.
LEMMA SchedulesKeeps ==
  ASSUME QueryInv, NEW s, Q!Schedules(s), turns' = turns
  PROVE  Chains' /\ waits' \in Nat /\ loose' \in Nat /\ held' \in BOOLEAN
<1>0. waits \in Nat /\ loose \in Nat /\ turns \in Nat /\ Chains
  BY DEF QueryInv, Q!TypeOK
<1>1. held \in BOOLEAN
  BY DEF QueryInv, Q!TypeOK
<1>2. CASE waits' \in {0, waits} /\ held' = held /\ loose' = loose
  <2>1. Held' = Held /\ Held \in {0, 1}
    BY <1>2, HeldCounts
  <2>2. waits' \in Nat /\ waits' <= waits /\ loose' = loose /\ loose' \in Nat
    BY <1>0, <1>2
  <2>3. Held \in Nat /\ Held' \in Nat /\ waits + loose + Held <= turns + 1
    BY <1>0, <2>1 DEF Chains
  <2>4. PICK n, h : n = waits' /\ h = Held'
    OBVIOUS
  <2>5. n \in Nat /\ n <= waits /\ h = Held
    BY <2>1, <2>2, <2>4
  <2>6. n + loose + h <= turns + 1
    BY ONLY <1>0, <2>3, <2>5
  <2>7. Chains'
    BY <2>2, <2>4, <2>6 DEF Chains
  <2> QED
    BY <1>0, <1>1, <1>2, <2>2, <2>7
<1>3. CASE /\ waits > 0 /\ waits' = 0 /\ held' = TRUE
           /\ loose' = loose + waits - (IF held THEN 0 ELSE 1)
  <2>1. Held' = 1 /\ Held \in {0, 1}
    BY <1>3, HeldCounts
  <2>2. (IF held THEN 0 ELSE 1) = 1 - Held
    <3>1. CASE held
      BY <3>1 DEF Held
    <3>2. CASE ~held
      BY <3>2 DEF Held
    <3> QED
      BY <3>1, <3>2
  <2>3. waits > 0 /\ waits' = 0 /\ loose' = loose + waits - (1 - Held)
    BY <1>3, <2>2
  <2>4. Chains' /\ waits' \in Nat /\ loose' \in Nat
    BY ONLY <1>0, <2>1, <2>3, turns' = turns DEF Chains
  <2> QED
    BY <1>3, <2>4
<1> QED
  BY <1>2, <1>3 DEF Q!Schedules, Q!chains

LEMMA ElapsesChains ==
  ASSUME QueryInv, Q!Elapses
  PROVE  Chains' /\ waits' \in Nat /\ loose' \in Nat /\ held' \in BOOLEAN
<1>0. waits \in Nat /\ loose \in Nat /\ turns \in Nat /\ Chains
  BY DEF QueryInv, Q!TypeOK
<1>1. held \in BOOLEAN
  BY DEF QueryInv, Q!TypeOK
<1>2. waits' \in {waits, waits + 1} /\ turns' = turns
  BY DEF Q!Elapses
<1>3. CASE held /\ held' = FALSE /\ loose' = loose
  <2>1. Held = 1 /\ Held' = 0
    BY <1>1, <1>3, HeldCounts
  <2>2. loose' = loose
    BY <1>3
  <2>3. waits + loose + 1 <= turns + 1
    BY <1>0, <2>1 DEF Chains
  <2>4. PICK n : n = waits'
    OBVIOUS
  <2>5. n = waits \/ n = waits + 1
    BY <1>2, <2>4
  <2>6. n \in Nat /\ n + loose + 0 <= turns + 1
    BY ONLY <1>0, <2>3, <2>5
  <2>7. Chains' /\ waits' \in Nat
    BY <1>2, <2>1, <2>2, <2>4, <2>6 DEF Chains
  <2> QED
    BY <1>0, <1>3, <2>7
<1>4. CASE loose > 0 /\ loose' = loose - 1 /\ held' = held
  <2>1. Held' = Held /\ Held \in {0, 1}
    BY <1>4, HeldCounts
  <2>2. loose > 0 /\ loose' = loose - 1 /\ waits + loose + Held <= turns + 1
    BY <1>0, <1>4 DEF Chains
  <2>3. PICK n, l, h : n = waits' /\ l = loose' /\ h = Held
    OBVIOUS
  <2>4. (n = waits \/ n = waits + 1) /\ l = loose - 1 /\ h \in {0, 1}
    BY <1>2, <2>1, <2>2, <2>3
  <2>5. loose > 0 /\ waits + loose + h <= turns + 1
    BY <2>2, <2>3
  <2>6. n \in Nat /\ l \in Nat /\ n + l + h <= turns + 1
    BY ONLY <1>0, <2>4, <2>5
  <2>7. Chains' /\ waits' \in Nat /\ loose' \in Nat
    BY <1>2, <2>1, <2>3, <2>6 DEF Chains
  <2> QED
    BY <1>1, <1>4, <2>7
<1> QED
  BY <1>3, <1>4 DEF Q!Elapses

\* A turn starts one chain at most.
LEMMA TurnChains ==
  ASSUME QueryInv, turns' = turns + 1,
         \/ waits' \in {0, 1} /\ held' = FALSE /\ loose' = 0
         \/ waits' \in {waits, waits + 1} /\ held' \in {held, FALSE} /\ loose' = loose
  PROVE  Chains' /\ waits' \in Nat /\ loose' \in Nat /\ held' \in BOOLEAN
<1>0. waits \in Nat /\ loose \in Nat /\ turns \in Nat /\ Chains
  BY DEF QueryInv, Q!TypeOK
<1>1. held \in BOOLEAN
  BY DEF QueryInv, Q!TypeOK
<1>2. Held' \in {0, Held} /\ Held \in {0, 1}
  BY HeldCounts
<1>3. \/ waits' \in {0, 1} /\ loose' = 0
      \/ waits' \in {waits, waits + 1} /\ loose' = loose
  OBVIOUS
<1>4. Chains' /\ waits' \in Nat /\ loose' \in Nat
  BY ONLY <1>0, <1>2, <1>3, turns' = turns + 1 DEF Chains
<1> QED
  BY <1>1, <1>4

-----------------------------------------------------------------------------

\* Every step keeps the invariant, and takes back no data of a view that is there.
LEMMA StepKeeps ==
  ASSUME Q!QueryAssumption, QueryInv, [Q!Next]_(Q!vars)
  PROVE  QueryInv' /\ NoOlder
<1>0. /\ cache \in Caches /\ SoundCache(cache) /\ version \in 1..MaxSyncs /\ MaxSyncs \in Nat
      /\ cache.hears \in {Q!Nothing, selected} /\ selected \in Scopes
      /\ {enabled, visible, always, held} \subseteq BOOLEAN
      /\ turns \in 0..MaxTurns /\ faults \in 0..MaxFaults /\ MaxTurns \in Nat /\ MaxFaults \in Nat
      /\ waits \in Nat /\ loose \in Nat /\ Chains
  BY DEF QueryInv, SoundCache, Q!TypeOK, Q!QueryAssumption
<1>1. \A d : SameData(cache, d) /\ cache' = d => NoOlder
  BY <1>0 DEF SameData, NoOlder, Caches, Entries, Data
<1>2. ASSUME NEW r \in cache.requests, Q!Answers(r)
      PROVE  QueryInv' /\ NoOlder
  <2>1. UNCHANGED <<Q!hook, version, turns, faults>>
    BY <1>2 DEF Q!Answers
  <2>2. SoundCache(cache') /\ NoOlder /\ cache'.hears = cache.hears
    BY <1>2, AnswersKeeps
  <2>3. Q!Schedules(r.scope) \/ UNCHANGED Q!chains
    BY <1>2 DEF Q!Answers
  <2>4. Chains' /\ waits' \in Nat /\ loose' \in Nat /\ held' \in BOOLEAN
    <3>1. CASE Q!Schedules(r.scope)
      BY <2>1, <3>1, SchedulesKeeps
    <3>2. CASE UNCHANGED Q!chains
      BY <1>0, <2>1, <3>2 DEF Q!chains, Chains, Held
    <3> QED
      BY <2>3, <3>1, <3>2
  <2>5. SoundCache(cache)'
    BY <2>1, <2>2, StillSound
  <2>6. Q!TypeOK'
    BY <1>0, <2>1, <2>2, <2>4, <2>5, StillTyped DEF Q!hook
  <2> QED
    BY <2>2, <2>4, <2>5, <2>6 DEF QueryInv
<1>3. ASSUME NEW r \in cache.requests, Q!Fails(r)
      PROVE  QueryInv' /\ NoOlder
  <2>1. UNCHANGED <<Q!hook, version, turns>> /\ faults' \in 0..MaxFaults /\ Q!Schedules(r.scope)
    BY <1>0, <1>3 DEF Q!Fails
  <2>2. SoundCache(cache') /\ SameData(cache, cache')
    BY <1>3, FailsKeeps
  <2>3. Chains' /\ waits' \in Nat /\ loose' \in Nat /\ held' \in BOOLEAN
    BY <2>1, SchedulesKeeps
  <2>4. SoundCache(cache)' /\ NoOlder
    BY <1>1, <2>1, <2>2, StillSound
  <2>5. Q!TypeOK'
    BY <1>0, <2>1, <2>2, <2>3, <2>4, StillTyped DEF Q!hook, SameData
  <2> QED
    BY <2>3, <2>4, <2>5 DEF QueryInv
<1>4. CASE Q!Elapses
  <2>1. UNCHANGED <<Q!hook, version, turns, faults>>
    BY <1>4 DEF Q!Elapses
  <2>2. SoundCache(cache') /\ SameData(cache, cache')
    BY <1>4, HookKeeps
  <2>3. Chains' /\ waits' \in Nat /\ loose' \in Nat /\ held' \in BOOLEAN
    BY <1>4, ElapsesChains
  <2>4. SoundCache(cache)' /\ NoOlder
    BY <1>1, <2>1, <2>2, StillSound
  <2>5. Q!TypeOK'
    BY <1>0, <2>1, <2>2, <2>3, <2>4, StillTyped DEF Q!hook, SameData
  <2> QED
    BY <2>3, <2>4, <2>5 DEF QueryInv
<1>5. CASE Q!Enables \/ Q!TurnsVisible \/ Q!Refreshes
  <2>1. /\ UNCHANGED <<selected, always, version, faults>>
        /\ enabled' \in BOOLEAN /\ visible' \in BOOLEAN
        /\ turns' = turns + 1 /\ turns' \in 0..MaxTurns
    <3>1. UNCHANGED <<selected, always, version, faults>> /\ turns' = turns + 1 /\ turns < MaxTurns
      BY <1>5 DEF Q!Enables, Q!TurnsVisible, Q!Refreshes, Q!Turn, Q!hook
    <3>2. enabled' \in {enabled, ~enabled} /\ visible' \in {visible, ~visible}
      BY <1>5 DEF Q!Enables, Q!TurnsVisible, Q!Refreshes, Q!hook
    <3>3. enabled' \in BOOLEAN /\ visible' \in BOOLEAN
      BY <1>0, <3>2, Zenon
    <3> QED
      BY <1>0, <3>1, <3>3
  <2>2. SoundCache(cache') /\ SameData(cache, cache')
    BY <1>5, HookKeeps
  <2>3. \/ waits' \in {0, 1} /\ held' = FALSE /\ loose' = 0
        \/ waits' \in {waits, waits + 1} /\ held' \in {held, FALSE} /\ loose' = loose
    BY <1>5 DEF Q!Enables, Q!TurnsVisible, Q!Refreshes, Q!chains
  <2>4. Chains' /\ waits' \in Nat /\ loose' \in Nat /\ held' \in BOOLEAN
    BY <2>1, <2>3, TurnChains
  <2>5. SoundCache(cache)' /\ NoOlder
    BY <1>1, <2>1, <2>2, StillSound
  <2>6. Q!TypeOK'
    BY <1>0, <2>1, <2>2, <2>4, <2>5, StillTyped DEF SameData
  <2> QED
    BY <2>4, <2>5, <2>6 DEF QueryInv
<1>6. CASE Q!Selects
  <2>1. /\ UNCHANGED <<enabled, visible, always, version, faults>>
        /\ turns' = turns + 1 /\ turns' \in 0..MaxTurns
        /\ waits' \in {0, 1} /\ held' = FALSE /\ loose' = 0
    BY <1>0, <1>6 DEF Q!Selects, Q!Turn
  <2>2. SoundCache(cache') /\ NoOlder /\ selected' \in Scopes /\ cache'.hears = selected'
    BY <1>6, SelectsKeeps
  <2>3. Chains' /\ waits' \in Nat /\ loose' \in Nat /\ held' \in BOOLEAN
    BY <2>1, TurnChains
  <2>4. SoundCache(cache)'
    BY <2>1, <2>2, StillSound
  <2>5. Q!TypeOK'
    BY <1>0, <2>1, <2>2, <2>3, <2>4, StillTyped
  <2> QED
    BY <2>2, <2>3, <2>4, <2>5 DEF QueryInv
<1>7. CASE Q!Unmounts
  <2>1. /\ UNCHANGED <<Q!hook, version, faults>>
        /\ turns' = turns + 1 /\ turns' \in 0..MaxTurns
        /\ waits' = 0 /\ held' = FALSE /\ loose' = 0 /\ cache' = Q!Dispose(cache)
    BY <1>0, <1>7 DEF Q!Unmounts, Q!Turn
  <2>2. SoundCache(cache') /\ cache'.hears = Q!Nothing
    BY <1>0, <2>1, DisposeSound
  <2>3. Chains' /\ waits' \in Nat /\ loose' \in Nat /\ held' \in BOOLEAN
    BY <2>1, TurnChains
  <2>4. SoundCache(cache)' /\ NoOlder
    BY <2>1, <2>2, StillSound DEF NoOlder
  <2>5. Q!TypeOK'
    BY <1>0, <2>1, <2>2, <2>3, <2>4, StillTyped DEF Q!hook
  <2> QED
    BY <2>3, <2>4, <2>5 DEF QueryInv
<1>8. CASE Q!Syncs
  <2>1. UNCHANGED <<cache, Q!hook, Q!chains, turns, faults>> /\ version' = version + 1
        /\ version' \in 1..MaxSyncs
    BY <1>0, <1>8 DEF Q!Syncs
  <2>2. \A s \in Scopes : cache.entries[s].data \in Nat
    BY <1>0 DEF Caches, Entries, Data
  <2>3. SoundCache(cache)' /\ NoOlder
    BY <1>0, <2>1, <2>2 DEF SoundCache, Caches, Q!Requests, Entries, Data, NoOlder
  <2>4. Chains' /\ waits' \in Nat /\ loose' \in Nat /\ held' \in BOOLEAN
    BY <1>0, <2>1 DEF Q!chains, Chains, Held
  <2>5. Q!TypeOK'
    BY <1>0, <2>1, <2>3, <2>4, StillTyped DEF Q!hook
  <2> QED
    BY <2>3, <2>4, <2>5 DEF QueryInv
<1>9. CASE UNCHANGED Q!vars
  <2>1. UNCHANGED <<cache, Q!hook, Q!chains, version, turns, faults>>
    BY <1>9 DEF Q!vars
  <2>2. SoundCache(cache)' /\ SameData(cache, cache')
    BY <1>0, <2>1, StillSound DEF SameData
  <2>3. Q!TypeOK' /\ Chains' /\ NoOlder
    BY <1>1, <2>1, <2>2 DEF QueryInv, Q!TypeOK, Chains, Held, Q!hook, Q!chains
  <2> QED
    BY <2>2, <2>3 DEF QueryInv
<1> QED
  BY <1>2, <1>3, <1>4, <1>5, <1>6, <1>7, <1>8, <1>9 DEF Q!Next, Q!Answer

LEMMA FirstSound ==
  ASSUME Q!QueryAssumption, Q!Init
  PROVE  QueryInv
<1> DEFINE none == [s \in Scopes |-> [status |-> "idle", data |-> 0]]
<1>0. version = 1 /\ version \in 1..MaxSyncs /\ selected \in Scopes /\ Data # {} /\ 0 \in Data
  BY DEF Q!Init, Q!QueryAssumption, Data
<1>1. none \in Entries /\ \A s \in Scopes : none[s].data = 0
  BY <1>0 DEF Entries, Q!Statuses
<1>2. Q!Empty.entries = none /\ Q!Empty.requests = {} /\ Q!Empty.hears = Q!Nothing
      /\ Q!Empty.shown = [status |-> "idle", data |-> 0, scope |-> Q!Nothing]
      /\ Q!Empty = [entries |-> none, requests |-> {}, hears |-> Q!Nothing,
                  shown |-> [status |-> "idle", data |-> 0, scope |-> Q!Nothing]]
  BY DEF Q!Empty
<1>3. [status |-> "idle", data |-> 0, scope |-> Q!Nothing]
        \in [status : Q!Statuses, data : Data, scope : Scopes \cup {Q!Nothing}]
  BY <1>0 DEF Q!Statuses
<1> HIDE DEF none
<1>4. Q!Empty \in Caches
  BY <1>1, <1>2, <1>3 DEF Caches
<1>5. SoundCache(Q!Empty)
  BY <1>0, <1>1, <1>2, <1>4 DEF SoundCache
<1> DEFINE c == Q!Subscribe(Q!Empty, selected)
<1>6. SoundCache(c) /\ c.hears = selected
  BY <1>0, <1>5, SubscribeSound
<1>7. cache = Q!Fetch(c, selected)
  BY DEF Q!Init
<1> HIDE DEF c
<1>8. SoundCache(cache) /\ cache.hears = selected
  BY <1>0, <1>6, <1>7, FetchSound DEF SameData
<1>9. /\ turns = 0 /\ faults = 0 /\ waits = 1 /\ held = FALSE /\ loose = 0
      /\ enabled = TRUE /\ visible = TRUE /\ always \in BOOLEAN
  BY DEF Q!Init
<1>10. Chains
  BY <1>9 DEF Chains, Held
<1>11. cache.entries \in Entries /\ cache.requests \subseteq Q!Requests
  BY <1>8 DEF SoundCache, Caches
<1>12. Q!TypeOK
  <2>1. {enabled, visible, always, held} \subseteq BOOLEAN
    BY Zenon, <1>9
  <2>2. /\ turns \in 0..MaxTurns /\ faults \in 0..MaxFaults
        /\ waits \in 0..MaxTurns + 1 /\ loose \in 0..MaxTurns + 1
    BY <1>9 DEF Q!QueryAssumption
  <2> QED
    BY <1>0, <1>8, <1>11, <2>1, <2>2 DEF Q!TypeOK, Entries, Data
<1> QED
  BY <1>8, <1>10, <1>12 DEF QueryInv

\* The invariant: of a key one request counts, and it was asked when the entry's
\* data was as old as it is now (query-client.ts, generation and promise of an
\* entry); and each polling chain was started by a mount or a turn of its own.
THEOREM QueryInvariance ==
  ASSUME Q!QueryAssumption
  PROVE  Q!Spec => []QueryInv
<1>1. Q!Init => QueryInv
  BY FirstSound
<1>2. QueryInv /\ [Q!Next]_(Q!vars) => QueryInv'
  BY StepKeeps
<1> QED
  BY <1>1, <1>2, PTL DEF Q!Spec

\* The variables keep their types; in particular the chains of polls are no more
\* than the turns that started them.
THEOREM QueryTypes ==
  ASSUME Q!QueryAssumption
  PROVE  Q!Spec => []Q!TypeOK
<1>1. QueryInv => Q!TypeOK
  BY DEF QueryInv
<1> QED
  BY <1>1, QueryInvariance, PTL

\* Of a key one request counts at a time, and what is shown as up to date belongs
\* to the selected scope.
THEOREM OneRequestHolds ==
  ASSUME Q!QueryAssumption
  PROVE  Q!Spec => []Q!OneRequest
<1>1. QueryInv => Q!OneRequest
  BY DEF QueryInv, Q!TypeOK, SoundCache, Q!OneRequest
<1> QED
  BY <1>1, QueryInvariance, PTL

\* No answer takes back a newer one, whatever was cancelled, overtaken or late
\* (query-client.ts:87).
THEOREM NewerAnswersStay ==
  ASSUME Q!QueryAssumption
  PROVE  Q!Spec => [][Q!NewerStays]_(Q!vars)
<1>1. QueryInv /\ [Q!Next]_(Q!vars) => [Q!NewerStays]_(Q!vars)
  <2> SUFFICES ASSUME QueryInv, [Q!Next]_(Q!vars) PROVE Q!NewerStays
    OBVIOUS
  <2>1. NoOlder /\ SoundCache(cache) /\ SoundCache(cache)'
    BY StepKeeps DEF QueryInv
  <2>2. \A s \in Scopes : cache.entries[s].data \in Nat /\ cache'.entries[s].data \in Nat
    BY <2>1 DEF SoundCache, Caches, Entries, Data
  <2> QED
    BY <2>1, <2>2 DEF NoOlder, Q!NewerStays
<1> QED
  BY <1>1, QueryInvariance, PTL DEF Q!Spec

-----------------------------------------------------------------------------
(* The handlers of the widget. *)

USE DEF W!WidgetAssumption

\* The states of the main process's widget.
WidgetStates ==
  [mode : W!Modes, visible : BOOLEAN, dragging : BOOLEAN, pointerInside : BOOLEAN,
   focusInside : BOOLEAN, window : {"none", "hidden", "shown"}, timers : SUBSET {"open", "close"},
   pointerOrigin : BOOLEAN, widgetDragging : BOOLEAN, cursorInside : BOOLEAN,
   justDragged : BOOLEAN, startup : W!Startup]

\* What ApplyWidgetVisibility is to restore, and what it need not.
Coherent(x) ==
  /\ x.widgetDragging => x.pointerOrigin
  /\ x.window = "none" => x.timers = {} /\ ~x.pointerOrigin
Applied(x) == x.window # "none" => x.visible = (x.window = "shown")
SoundWidget(x) == x \in WidgetStates /\ Coherent(x) /\ Applied(x)

\* applyWidgetVisibility makes the window agree with what was to be visible.
LEMMA ApplyIsSound ==
  ASSUME NEW x \in WidgetStates, Coherent(x)
  PROVE  LET y == W!ApplyWidgetVisibility(x)
         IN  SoundWidget(y) /\ y.mode = x.mode /\ (y.window = "none" <=> x.window = "none")
BY DEF W!ApplyWidgetVisibility, SoundWidget, Coherent, Applied, WidgetStates

\* onWidgetPointerEnter keeps the mode and a sound widget.
LEMMA EnterIsSound ==
  ASSUME NEW x, SoundWidget(x), x.window # "none"
  PROVE  LET y == W!OnPointerEnter(x)
         IN  SoundWidget(y) /\ y.mode = x.mode /\ y.window = x.window
BY DEF W!OnPointerEnter, W!ShouldOpen, SoundWidget, Coherent, Applied, WidgetStates

\* So does onWidgetPointerLeave.
LEMMA LeaveIsSound ==
  ASSUME NEW x, SoundWidget(x), x.window # "none"
  PROVE  LET y == W!OnPointerLeave(x)
         IN  SoundWidget(y) /\ y.mode = x.mode /\ y.window = x.window
BY DEF W!OnPointerLeave, W!ShouldCollapse, SoundWidget, Coherent, Applied, WidgetStates

\* setWidgetMode leaves a window in the mode it was given.
LEMMA SetModeIsSound ==
  ASSUME NEW x \in WidgetStates, Coherent(x), x.window # "none", NEW mode \in W!Modes, NEW c
  PROVE  LET y == W!SetWidgetMode(x, mode, c)
         IN  SoundWidget(y) /\ y.mode = mode /\ y.window # "none"
<1> DEFINE z == [x EXCEPT !.timers = {}, !.mode = mode, !.visible = TRUE]
           y == W!ApplyWidgetVisibility(z)
           o == [y EXCEPT !.cursorInside = FALSE]
<1>1. z \in WidgetStates /\ Coherent(z) /\ z.mode = mode /\ z.window # "none"
  BY DEF WidgetStates, Coherent
<1> HIDE DEF z
<1>2. SoundWidget(y) /\ y.mode = mode /\ y.window # "none"
  BY <1>1, ApplyIsSound
<1> HIDE DEF y
<1>3. SoundWidget(o) /\ o.mode = mode /\ o.window # "none"
  BY <1>2 DEF SoundWidget, WidgetStates, Coherent, Applied
<1> HIDE DEF o
<1>4. SoundWidget(W!OnPointerLeave(o)) /\ W!OnPointerLeave(o).mode = mode /\ W!OnPointerLeave(o).window # "none"
  BY <1>3, LeaveIsSound
<1>5. W!SetWidgetMode(x, mode, c) \in {y, W!OnPointerLeave(o)}
  BY DEF W!SetWidgetMode, y, z, o
<1> QED
  BY <1>2, <1>4, <1>5

\* So does the mode that is saved for the next start.
LEMMA PersistIsSound ==
  ASSUME NEW x \in WidgetStates, Coherent(x), x.window # "none", NEW mode \in W!Startup, NEW c
  PROVE  LET y == W!PersistWidgetMode(x, mode, c)
         IN  SoundWidget(y) /\ y.mode = mode /\ y.window # "none"
<1> DEFINE z == W!SetWidgetMode(x, mode, c)
<1>1. SoundWidget(z) /\ z.mode = mode /\ z.window # "none"
  BY SetModeIsSound DEF W!Startup, W!Modes
<1> HIDE DEF z
<1>2. W!PersistWidgetMode(x, mode, c) = [z EXCEPT !.startup = mode]
  BY DEF W!PersistWidgetMode, z
<1> QED
  BY <1>1, <1>2 DEF SoundWidget, WidgetStates, Coherent, Applied

\* A focus or a blur does not change the mode.
LEMMA FocusIsSound ==
  ASSUME NEW x, SoundWidget(x), x.window # "none", NEW focused \in BOOLEAN, NEW c
  PROVE  LET y == W!OnFocusWithin(x, focused, c)
         IN  SoundWidget(y) /\ y.mode = x.mode /\ y.window # "none"
<1> DEFINE z == [x EXCEPT !.focusInside = focused]
<1>1. SoundWidget(z) /\ z.mode = x.mode /\ z.window # "none"
  BY DEF SoundWidget, WidgetStates, Coherent, Applied
<1> HIDE DEF z
<1>2. W!OnFocusWithin(x, focused, c) \in {z, W!OnPointerLeave(z)}
  BY DEF W!OnFocusWithin, z
<1> QED
  BY <1>1, <1>2, LeaveIsSound

\* Nor does a press or a move: a drag starts from an origin only.
LEMMA PointerIsSound ==
  ASSUME NEW x, SoundWidget(x), x.window # "none", NEW far \in BOOLEAN
  PROVE  /\ SoundWidget(W!BeginWidgetPointer(x)) /\ W!BeginWidgetPointer(x).mode = x.mode
         /\ W!BeginWidgetPointer(x).window = x.window
         /\ SoundWidget(W!ApplyWidgetPointerMove(x, far)) /\ W!ApplyWidgetPointerMove(x, far).mode = x.mode
         /\ W!ApplyWidgetPointerMove(x, far).window = x.window
<1>1. /\ SoundWidget(W!BeginWidgetPointer(x)) /\ W!BeginWidgetPointer(x).mode = x.mode
      /\ W!BeginWidgetPointer(x).window = x.window
  BY DEF W!BeginWidgetPointer, SoundWidget, WidgetStates, Coherent, Applied
<1>2. CASE x.pointerOrigin /\ far
  <2> DEFINE y == [x EXCEPT !.widgetDragging = TRUE, !.dragging = @ \/ ~x.widgetDragging]
  <2>1. y \in WidgetStates /\ y.widgetDragging /\ y.pointerOrigin /\ y.timers = x.timers
        /\ y.window = x.window /\ y.visible = x.visible /\ y.mode = x.mode
    BY <1>2 DEF SoundWidget, WidgetStates
  <2>2. W!ApplyWidgetPointerMove(x, far) = y
    BY <1>2 DEF W!ApplyWidgetPointerMove
  <2> HIDE DEF y
  <2> QED
    BY <1>1, <2>1, <2>2 DEF SoundWidget, Coherent, Applied
<1>3. CASE ~ (x.pointerOrigin /\ far)
  BY <1>1, <1>3 DEF W!ApplyWidgetPointerMove
<1> QED
  BY <1>2, <1>3

\* The end of a press keeps a pin, and a click on a collapsed widget makes one.
LEMMA EndIsSound ==
  ASSUME NEW x, SoundWidget(x), NEW c
  PROVE  LET y == W!EndWidgetPointer(x, c)
         IN  /\ SoundWidget(y) /\ (x.mode = "pinned" => y.mode = "pinned")
             /\ x.window # "none" => y.window # "none"
<1> DEFINE y == IF x.widgetDragging THEN [x EXCEPT !.justDragged = TRUE]
                ELSE IF x.mode = "collapsed" THEN W!PersistWidgetMode(x, "pinned", c) ELSE x
           z == [y EXCEPT !.widgetDragging = FALSE, !.pointerOrigin = FALSE, !.dragging = FALSE]
           in == [z EXCEPT !.cursorInside = TRUE, !.pointerInside = TRUE]
           o == [z EXCEPT !.cursorInside = FALSE]
<1>0. W!EndWidgetPointer(x, c) = x \/ (x.pointerOrigin /\ W!EndWidgetPointer(x, c) \in {z, in, W!OnPointerLeave(o)})
  BY DEF W!EndWidgetPointer, SoundWidget, Coherent
<1>1. CASE x.window = "none"
  BY <1>0, <1>1 DEF SoundWidget, Coherent
<1>2. CASE x.window # "none"
  <2>1. SoundWidget(y) /\ (x.mode = "pinned" => y.mode = "pinned") /\ y.window # "none"
    <3>1. CASE x.widgetDragging
      <4>1. y = [x EXCEPT !.justDragged = TRUE]
        BY <3>1
      <4> HIDE DEF y
      <4> QED
        BY <1>2, <4>1 DEF SoundWidget, WidgetStates, Coherent, Applied
    <3>2. CASE ~x.widgetDragging /\ x.mode = "collapsed"
      <4>1. y = W!PersistWidgetMode(x, "pinned", c)
        BY <3>2
      <4> HIDE DEF y
      <4> QED
        BY <1>2, <4>1, PersistIsSound DEF SoundWidget, W!Startup
    <3>3. CASE ~x.widgetDragging /\ x.mode # "collapsed"
      BY <1>2, <3>3
    <3> QED
      BY <3>1, <3>2, <3>3
  <2> HIDE DEF y
  <2>2. SoundWidget(z) /\ z.mode = y.mode /\ z.window # "none"
    BY <2>1 DEF SoundWidget, WidgetStates, Coherent, Applied
  <2> HIDE DEF z
  <2>3. SoundWidget(in) /\ in.mode = z.mode /\ in.window # "none"
    BY <2>2 DEF SoundWidget, WidgetStates, Coherent, Applied
  <2>4. SoundWidget(o) /\ o.mode = z.mode /\ o.window # "none"
    BY <2>2 DEF SoundWidget, WidgetStates, Coherent, Applied
  <2> HIDE DEF in, o
  <2>5. SoundWidget(W!OnPointerLeave(o)) /\ W!OnPointerLeave(o).mode = o.mode /\ W!OnPointerLeave(o).window = o.window
    BY <2>4, LeaveIsSound
  <2> QED
    BY <1>0, <2>1, <2>2, <2>3, <2>4, <2>5
<1> QED
  BY <1>1, <1>2

\* The poll of the cursor never changes the mode.
LEMMA PollIsSound ==
  ASSUME NEW x, SoundWidget(x), x.window # "none", NEW c
  PROVE  LET y == W!Polled(x, c)
         IN  SoundWidget(y) /\ y.mode = x.mode /\ y.window # "none"
<1> DEFINE y == IF x.widgetDragging THEN [x EXCEPT !.widgetDragging = FALSE, !.dragging = FALSE] ELSE x
           o == [y EXCEPT !.cursorInside = FALSE]
           in == [y EXCEPT !.cursorInside = TRUE]
<1>1. W!Polled(x, c) \in {x, y, o, W!OnPointerLeave(o), W!OnPointerEnter(in)}
  BY DEF W!Polled
<1>2. SoundWidget(y) /\ y.mode = x.mode /\ y.window # "none"
  BY DEF SoundWidget, WidgetStates, Coherent, Applied
<1> HIDE DEF y
<1>3. SoundWidget(o) /\ o.mode = x.mode /\ o.window # "none"
  BY <1>2 DEF SoundWidget, WidgetStates, Coherent, Applied
<1>4. SoundWidget(in) /\ in.mode = x.mode /\ in.window # "none"
  BY <1>2 DEF SoundWidget, WidgetStates, Coherent, Applied
<1> HIDE DEF o, in
<1>5. SoundWidget(W!OnPointerLeave(o)) /\ W!OnPointerLeave(o).mode = x.mode /\ W!OnPointerLeave(o).window # "none"
  BY <1>3, LeaveIsSound
<1>6. SoundWidget(W!OnPointerEnter(in)) /\ W!OnPointerEnter(in).mode = x.mode /\ W!OnPointerEnter(in).window # "none"
  BY <1>4, EnterIsSound
<1> QED
  BY <1>1, <1>2, <1>3, <1>5, <1>6

\* No menu changes the mode of a pinned widget.
LEMMA CommandIsSound ==
  ASSUME NEW x, SoundWidget(x), NEW on \in BOOLEAN, NEW after \in {"collapsed", "expanded"},
         NEW y \in {W!ShowWidget(x, on), W!HideWidget(x), W!ResetWidgetPosition(x), W!ShowMainWindow(x, after)}
  PROVE  /\ SoundWidget(y) /\ (x.mode = "pinned" => y.mode = "pinned")
         /\ x.window # "none" => y.window # "none"
<1>1. CASE y = W!ShowWidget(x, on)
  <2> DEFINE v == [x EXCEPT !.visible = TRUE]
             h == [v EXCEPT !.window = "hidden"]
             e == W!EnsureWidgetWindow(v)
  <2>1. v \in WidgetStates /\ Coherent(v) /\ v.mode = x.mode /\ v.window = x.window
    BY DEF SoundWidget, WidgetStates, Coherent
  <2> HIDE DEF v
  <2>2. h \in WidgetStates /\ Coherent(h) /\ h.mode = x.mode /\ h.window = "hidden"
    BY <2>1 DEF WidgetStates, Coherent
  <2> HIDE DEF h
  <2>3. e \in {v, W!ApplyWidgetVisibility(h)}
    BY DEF W!EnsureWidgetWindow, h
  <2>4. e \in WidgetStates /\ Coherent(e) /\ e.mode = x.mode /\ (x.window # "none" => e.window # "none")
    BY <2>1, <2>2, <2>3, ApplyIsSound DEF SoundWidget
  <2>5. y \in {W!ApplyWidgetVisibility(v), W!ApplyWidgetVisibility(e)}
    BY <1>1 DEF W!ShowWidget, v
  <2> HIDE DEF e
  <2> QED
    BY <2>1, <2>4, <2>5, ApplyIsSound
<1>2. CASE y = W!HideWidget(x)
  <2> DEFINE h == [W!Idle(x) EXCEPT !.timers = {}, !.visible = FALSE]
  <2>1. h \in WidgetStates /\ Coherent(h) /\ h.mode = x.mode /\ h.window = x.window
    BY DEF W!Idle, SoundWidget, WidgetStates, Coherent
  <2>2. y = W!ApplyWidgetVisibility(h)
    BY <1>2 DEF W!HideWidget
  <2> HIDE DEF h
  <2> QED
    BY <2>1, <2>2, ApplyIsSound
<1>3. CASE y = W!ResetWidgetPosition(x)
  <2> DEFINE h == [x EXCEPT !.timers = {}, !.visible = TRUE]
  <2>1. h \in WidgetStates /\ Coherent(h) /\ h.mode = x.mode /\ h.window = x.window
    BY DEF SoundWidget, WidgetStates, Coherent
  <2>2. y = W!ApplyWidgetVisibility(h)
    BY <1>3 DEF W!ResetWidgetPosition
  <2> HIDE DEF h
  <2> QED
    BY <2>1, <2>2, ApplyIsSound
<1>4. CASE y = W!ShowMainWindow(x, after)
  <2> DEFINE h == [x EXCEPT !.mode = after]
  <2>1. h \in WidgetStates /\ Coherent(h) /\ h.window = x.window
    BY DEF SoundWidget, WidgetStates, Coherent, W!Modes
  <2>2. y = x \/ (x.mode = "expanded" /\ y = W!ApplyWidgetVisibility(h))
    BY <1>4 DEF W!ShowMainWindow
  <2> HIDE DEF h
  <2> QED
    BY <2>1, <2>2, ApplyIsSound
<1> QED
  BY <1>1, <1>2, <1>3, <1>4

\* A closed window has nothing left; a reloaded renderer has its startup mode.
LEMMA ClosedIsSound ==
  ASSUME NEW x, SoundWidget(x), NEW mode \in W!Startup
  PROVE  /\ SoundWidget([x EXCEPT !.startup = mode])
         /\ SoundWidget(W!Closed(x)) /\ W!Closed(x).mode = x.mode
         /\ LET r == W!Recovered(x) IN SoundWidget(r) /\ (x.window # "none" => r.window # "none")
<1>1. SoundWidget([x EXCEPT !.startup = mode])
  BY DEF SoundWidget, WidgetStates, Coherent, Applied
<1>2. SoundWidget(W!Closed(x)) /\ W!Closed(x).mode = x.mode
  BY DEF W!Closed, SoundWidget, WidgetStates, Coherent, Applied
<1>3. LET r == W!Recovered(x) IN SoundWidget(r) /\ (x.window # "none" => r.window # "none")
  <2> DEFINE h == [W!Idle(x) EXCEPT !.mode = x.startup, !.timers = {}, !.justDragged = FALSE]
  <2>1. h \in WidgetStates /\ Coherent(h) /\ h.window = x.window
    BY DEF W!Idle, SoundWidget, WidgetStates, Coherent, W!Startup, W!Modes
  <2>2. W!Recovered(x) = W!ApplyWidgetVisibility(h)
    BY DEF W!Recovered
  <2> HIDE DEF h
  <2> QED
    BY <2>1, <2>2, ApplyIsSound
<1> QED
  BY <1>1, <1>2, <1>3

\* Sound, well typed, and no mail for a window that is closed.
WidgetInv ==
  /\ SoundWidget(w) /\ native \in BOOLEAN /\ enabled \in BOOLEAN /\ button \in BOOLEAN
  /\ cursor \in W!Zones /\ mail \in Seq(W!Mail) /\ Len(mail) <= MaxMail /\ acts \in 0..MaxActs
  /\ w.window = "none" => mail = <<>>

\* Reported and Sends in a state with room.
LEMMA SendingKeepsMail ==
  ASSUME W!WidgetAssumption, mail \in Seq(W!Mail), W!Room, NEW m \in W!Mail, W!Reported(m)
  PROVE  mail' \in Seq(W!Mail) /\ Len(mail') <= MaxMail
BY DEF W!Room, W!Reported, W!Sends

\* Wherever the window goes, the cursor is in one of its zones.
LEMMA SettledInZones ==
  ASSUME cursor \in W!Zones, NEW dragged, W!Settled(dragged)
  PROVE  cursor' \in W!Zones
BY DEF W!Settled

\* The widget starts sound, with a window or without.
LEMMA WidgetStarts ==
  ASSUME W!WidgetAssumption, W!Init
  PROVE  WidgetInv
<1> PICK mode \in W!Startup, on \in BOOLEAN, shown \in BOOLEAN :
      LET x == [mode |-> mode, visible |-> TRUE, dragging |-> FALSE, pointerInside |-> FALSE,
                focusInside |-> FALSE, window |-> "none", timers |-> {},
                pointerOrigin |-> FALSE, widgetDragging |-> FALSE, cursorInside |-> FALSE,
                justDragged |-> FALSE, startup |-> mode]
      IN enabled = on /\ w = IF on /\ shown THEN W!ShowWidget(x, on) ELSE x
  BY DEF W!Init
<1> DEFINE x == [mode |-> mode, visible |-> TRUE, dragging |-> FALSE, pointerInside |-> FALSE,
                focusInside |-> FALSE, window |-> "none", timers |-> {},
                pointerOrigin |-> FALSE, widgetDragging |-> FALSE, cursorInside |-> FALSE,
                justDragged |-> FALSE, startup |-> mode]
<1>1. SoundWidget(x)
  BY DEF SoundWidget, WidgetStates, Coherent, Applied, W!Startup, W!Modes
<1>2. enabled = on /\ w \in {x, W!ShowWidget(x, on)}
  OBVIOUS
<1> HIDE DEF x
<1>3. SoundWidget(w)
  BY <1>1, <1>2, CommandIsSound
<1>4. /\ native \in BOOLEAN /\ button \in BOOLEAN
      /\ cursor \in W!Zones /\ mail = <<>> /\ acts = 0
  <2>1. native \in BOOLEAN /\ cursor = "out" /\ button = FALSE /\ mail = <<>> /\ acts = 0
    BY Zenon DEF W!Init
  <2> QED
    BY <2>1, Zenon DEF W!Zones
<1>5. mail \in Seq(W!Mail) /\ Len(mail) <= MaxMail /\ acts \in 0..MaxActs
  BY <1>4
<1> QED
  BY <1>2, <1>3, <1>4, <1>5 DEF WidgetInv

\* The parts of the state a step must keep, put together.
LEMMA WidgetParts ==
  ASSUME SoundWidget(w)', native' \in BOOLEAN, enabled' \in BOOLEAN, button' \in BOOLEAN,
         cursor' \in W!Zones, mail' \in Seq(W!Mail), Len(mail') <= MaxMail, acts' \in 0..MaxActs,
         w'.window = "none" => mail' = <<>>
  PROVE  WidgetInv'
BY DEF WidgetInv, SoundWidget, WidgetStates, Coherent, Applied

\* Mail, timers and the poll keep the invariant, and end no pin but by a button.
LEMMA ByItselfKeeps ==
  ASSUME W!WidgetAssumption, WidgetInv, W!ByItself
  PROVE  WidgetInv' /\ W!PinnedStays
<1> USE DEF WidgetInv
<1>1. CASE W!Receive
  <2> DEFINE m == Head(mail)
  <2>1. /\ mail # <<>> /\ m \in W!Mail /\ w.window # "none" /\ mail' = Tail(mail)
        /\ mail' \in Seq(W!Mail) /\ Len(mail') <= MaxMail
        /\ cursor' \in W!Zones /\ w' \in W!Handled(m, cursor')
        /\ UNCHANGED <<native, enabled, button, acts>>
    BY <1>1, SettledInZones DEF W!Receive
  <2>2. /\ SoundWidget(w') /\ w'.window # "none"
        /\ w.mode = "pinned" /\ w'.mode # "pinned" => m \in {"unpin", "collapse"}
    <3> HIDE DEF m
    <3>1. CASE m \in {"enter", "leave"}
      BY <2>1, <3>1, EnterIsSound, LeaveIsSound DEF W!Handled
    <3>2. CASE m \in {"focus", "blur"}
      <4>1. w' = W!OnFocusWithin(w, m = "focus", cursor') /\ (m = "focus") \in BOOLEAN
        BY <2>1, <3>2, Zenon DEF W!Handled
      <4>2. PICK focused \in BOOLEAN : w' = W!OnFocusWithin(w, focused, cursor')
        BY <4>1, Zenon
      <4>3. SoundWidget(w') /\ w'.mode = w.mode /\ w'.window # "none"
        BY <2>1, <4>2, FocusIsSound, Zenon
      <4> QED
        BY <4>3
    <3>3. CASE m = "begin"
      BY <2>1, <3>3, PointerIsSound DEF W!Handled
    <3>4. CASE m = "move"
      BY <2>1, <3>4, PointerIsSound DEF W!Handled
    <3>5. CASE m = "end"
      BY <2>1, <3>5, EndIsSound DEF W!Handled
    <3>6. CASE m = "pin"
      BY <2>1, <3>6, PersistIsSound DEF W!Handled, SoundWidget, W!Startup
    <3>7. CASE m = "unpin"
      BY <2>1, <3>7, SetModeIsSound DEF W!Handled, SoundWidget, W!Modes
    <3>8. CASE m = "collapse"
      BY <2>1, <3>8, PersistIsSound DEF W!Handled, SoundWidget, W!Startup
    <3>9. CASE m = "open"
      <4> PICK after \in {"collapsed", "expanded"} : w' = W!ShowMainWindow(w, after)
        BY <2>1, <3>9 DEF W!Handled
      <4> QED
        BY <2>1, CommandIsSound
    <3>10. \/ m \in {"enter", "leave"} \/ m \in {"focus", "blur"} \/ m = "begin" \/ m = "move"
           \/ m = "end" \/ m = "pin" \/ m = "unpin" \/ m = "collapse" \/ m = "open"
      <4>1. m \in W!Mail
        BY <2>1
      <4> QED
        BY <4>1 DEF W!Mail
    <3> QED
      BY <3>1, <3>2, <3>3, <3>4, <3>5, <3>6, <3>7, <3>8, <3>9, <3>10, Zenon
  <2> QED
    BY <2>1, <2>2, WidgetParts DEF W!PinnedStays
<1>2. ASSUME NEW t, NEW due \in BOOLEAN, NEW mode \in W!Modes, W!Fires(t, due, mode),
             due => w.mode # "pinned"
      PROVE  WidgetInv' /\ W!PinnedStays
  <2> DEFINE x == [w EXCEPT !.timers = @ \ {t}]
  <2>1. /\ t \in w.timers /\ cursor' \in W!Zones
        /\ w' = IF due THEN W!SetWidgetMode(x, mode, cursor') ELSE x
        /\ UNCHANGED <<native, enabled, button, mail, acts>>
    BY <1>2, SettledInZones DEF W!Fires
  <2>2. w.window # "none" /\ SoundWidget(x) /\ x.window = w.window /\ x.mode = w.mode
    BY <2>1 DEF SoundWidget, WidgetStates, Coherent, Applied
  <2> HIDE DEF x
  <2>3. SoundWidget(w') /\ w'.window # "none" /\ (w.mode = "pinned" => w'.mode = "pinned")
    BY <1>2, <2>1, <2>2, SetModeIsSound DEF SoundWidget
  <2> QED
    BY <2>1, <2>3, WidgetParts DEF W!PinnedStays
<1>3. CASE W!OpenTimer
  BY <1>2, <1>3 DEF W!OpenTimer, W!ShouldOpen, W!Modes
<1>4. CASE W!CloseTimer
  BY <1>2, <1>4 DEF W!CloseTimer, W!ShouldCollapse, W!Modes
<1>5. CASE W!Poll
  <2>1. SoundWidget(w') /\ w'.mode = w.mode /\ w'.window # "none" /\ UNCHANGED W!env
    BY <1>5, PollIsSound DEF W!Poll
  <2> QED
    BY <2>1, WidgetParts DEF W!PinnedStays, W!env
<1>6. CASE W!Reactivates
  <2>1. SoundWidget(w') /\ w'.mode = w.mode /\ w'.window = w.window /\ UNCHANGED W!env
    BY <1>6 DEF W!Reactivates, SoundWidget, WidgetStates, Coherent, Applied
  <2> QED
    BY <2>1, WidgetParts DEF W!PinnedStays, W!env
<1> QED
  BY <1>1, <1>3, <1>4, <1>5, <1>6 DEF W!ByItself

\* So do the user and the commands.
LEMMA ByUserKeeps ==
  ASSUME W!WidgetAssumption, WidgetInv, W!ByUser
  PROVE  WidgetInv' /\ W!PinnedStays
<1> USE DEF WidgetInv
<1>1. ASSUME W!Acts PROVE acts' \in 0..MaxActs /\ acts' # acts
  BY <1>1 DEF W!Acts
<1>2. CASE W!MovesAcross
  <2>1. cursor' \in W!Zones /\ UNCHANGED <<w, native, enabled, button, acts>>
    BY <1>2 DEF W!MovesAcross
  <2>2. W!Room /\ (mail' = mail \/ W!Reported("enter") \/ W!Reported("leave"))
    BY <1>2 DEF W!MovesAcross
  <2>3. mail' \in Seq(W!Mail) /\ Len(mail') <= MaxMail
    BY <2>2, SendingKeepsMail DEF W!Mail
  <2> QED
    BY <2>1, <2>2, <2>3, WidgetParts DEF W!PinnedStays, W!Room
<1>3. CASE W!MovesUnseen
  BY <1>3, WidgetParts DEF W!MovesUnseen, W!PinnedStays
<1>4. CASE W!Rehovers \/ W!Focuses
  <2>1. UNCHANGED <<w, native, enabled, cursor, button, acts>> /\ W!Room
    BY <1>4 DEF W!Rehovers, W!Focuses
  <2>2. PICK m \in {"enter", "leave", "focus", "blur"} : W!Reported(m)
    BY <1>4 DEF W!Rehovers, W!Focuses, W!Reported
  <2>3. mail' \in Seq(W!Mail) /\ Len(mail') <= MaxMail
    BY <2>1, <2>2, SendingKeepsMail DEF W!Mail
  <2> QED
    BY <2>1, <2>3, WidgetParts DEF W!PinnedStays, W!Room
<1>5. CASE W!Presses \/ W!Drags
  <2>1. UNCHANGED <<native, enabled, cursor, acts>> /\ W!Room /\ button' \in BOOLEAN
    BY <1>5 DEF W!Presses, W!Drags
  <2>2. W!Reported("begin") \/ W!Reported("move")
    BY <1>5 DEF W!Presses, W!Drags
  <2>3. mail' \in Seq(W!Mail) /\ Len(mail') <= MaxMail
    BY <2>1, <2>2, SendingKeepsMail DEF W!Mail
  <2>4. w' \in {w, W!BeginWidgetPointer(w), W!ApplyWidgetPointerMove(w, TRUE)}
    BY <1>5 DEF W!Presses, W!Drags
  <2>5. SoundWidget(w') /\ w'.mode = w.mode /\ w'.window = w.window
    BY <2>1, <2>4, PointerIsSound DEF W!Room
  <2> QED
    BY <2>1, <2>3, <2>5, WidgetParts DEF W!PinnedStays, W!Room
<1>6. CASE W!Releases
  <2>1. /\ UNCHANGED <<native, enabled, acts>> /\ button' \in BOOLEAN /\ cursor' \in W!Zones
        /\ w' \in {w, W!EndWidgetPointer(w, cursor')}
        /\ (W!Room /\ W!Reported("end")) \/ (w.window # "shown" /\ UNCHANGED mail)
    BY <1>6, SettledInZones DEF W!Releases
  <2>2. mail' \in Seq(W!Mail) /\ Len(mail') <= MaxMail
    BY <2>1, SendingKeepsMail DEF W!Mail
  <2>3. /\ SoundWidget(w') /\ (w.mode = "pinned" => w'.mode = "pinned")
        /\ w.window # "none" => w'.window # "none"
    BY <2>1, EndIsSound
  <2>4. w'.window = "none" => mail' = <<>>
    BY <2>1, <2>3 DEF W!Room
  <2> QED
    BY <2>1, <2>2, <2>3, <2>4, WidgetParts DEF W!PinnedStays
<1>7. CASE W!Commands
  <2>1. UNCHANGED <<w, native, enabled, cursor, button>> /\ W!Room /\ W!Acts
    BY <1>7 DEF W!Commands
  <2>2. PICK m \in {"pin", "unpin", "collapse", "open"} : W!Reported(m)
    BY <1>7 DEF W!Commands, W!Reported
  <2>3. mail' \in Seq(W!Mail) /\ Len(mail') <= MaxMail
    BY <2>1, <2>2, SendingKeepsMail DEF W!Mail
  <2> QED
    BY <1>1, <2>1, <2>3, WidgetParts DEF W!PinnedStays, W!Room
<1>8. CASE W!DoubleClicks
  <2>1. /\ UNCHANGED <<native, enabled, cursor, button>> /\ W!Room /\ W!Acts /\ W!Reported("pin")
        /\ w' = W!PersistWidgetMode(w, "pinned", cursor)
    BY <1>8 DEF W!DoubleClicks
  <2>2. mail' \in Seq(W!Mail) /\ Len(mail') <= MaxMail
    BY <2>1, SendingKeepsMail DEF W!Mail
  <2>3. SoundWidget(w') /\ w'.window # "none"
    BY <2>1, PersistIsSound DEF W!Room, SoundWidget, W!Startup
  <2> QED
    BY <1>1, <2>1, <2>2, <2>3, WidgetParts DEF W!PinnedStays
<1>9. CASE W!Menu
  <2>1. /\ UNCHANGED <<native, enabled, button, mail>> /\ W!Acts /\ cursor' \in W!Zones
        /\ \E after \in {"collapsed", "expanded"} :
             w' \in {W!ShowWidget(w, enabled), W!HideWidget(w), W!ResetWidgetPosition(w),
                     W!ShowMainWindow(w, after)}
    BY <1>9, SettledInZones DEF W!Menu
  <2>2. SoundWidget(w') /\ (w.window # "none" => w'.window # "none")
    BY <2>1, CommandIsSound
  <2> QED
    BY <1>1, <2>1, <2>2, WidgetParts DEF W!PinnedStays
<1>10. CASE W!UpdatesSettings
  <2>1. PICK on \in BOOLEAN, again \in BOOLEAN, mode \in W!Startup :
          LET x == [w EXCEPT !.startup = mode]
          IN  /\ enabled' = on
              /\ w' = IF ~on THEN W!Closed(x) ELSE IF again THEN W!ShowWidget(x, on) ELSE x
              /\ mail' = IF on THEN mail ELSE <<>>
    BY <1>10 DEF W!UpdatesSettings
  <2> DEFINE x == [w EXCEPT !.startup = mode]
  <2>2. SoundWidget(x) /\ x.window = w.window
    BY ClosedIsSound DEF SoundWidget, WidgetStates
  <2>3. w' \in {W!Closed(x), W!ShowWidget(x, on), x} /\ (on => w' \in {W!ShowWidget(x, on), x})
    BY <2>1
  <2> HIDE DEF x
  <2>4. SoundWidget(w') /\ (on /\ w.window # "none" => w'.window # "none")
    BY <2>2, <2>3, ClosedIsSound, CommandIsSound
  <2>5. /\ W!Acts /\ cursor' \in W!Zones /\ UNCHANGED <<native, button>>
    BY <1>10, SettledInZones DEF W!UpdatesSettings
  <2>6. enabled' \in BOOLEAN /\ mail' \in Seq(W!Mail) /\ Len(mail') <= MaxMail
    BY <2>1
  <2>7. w'.window = "none" => mail' = <<>>
    BY <2>1, <2>4
  <2> QED
    BY <1>1, <2>4, <2>5, <2>6, <2>7, WidgetParts DEF W!PinnedStays
<1>11. CASE W!Crashes
  <2>1. /\ UNCHANGED <<native, enabled, button>> /\ W!Acts /\ cursor' \in W!Zones
        /\ w' = W!Recovered(w) /\ mail' = <<>>
    BY <1>11, SettledInZones DEF W!Crashes
  <2>2. SoundWidget(w')
    BY <2>1, ClosedIsSound, "collapsed" \in W!Startup DEF W!Startup
  <2>3. mail' \in Seq(W!Mail) /\ Len(mail') <= MaxMail
    BY <2>1
  <2> QED
    BY <1>1, <2>1, <2>2, <2>3, WidgetParts DEF W!PinnedStays
<1> QED
  BY <1>2, <1>3, <1>4, <1>5, <1>6, <1>7, <1>8, <1>9, <1>10, <1>11 DEF W!ByUser

\* Every step of the widget keeps its invariant.
LEMMA WidgetKeeps ==
  ASSUME W!WidgetAssumption, WidgetInv, [W!Next]_(W!vars)
  PROVE  WidgetInv'
<1>1. CASE UNCHANGED W!vars
  BY <1>1, WidgetParts DEF W!vars, W!env, WidgetInv
<1> QED
  BY <1>1, ByItselfKeeps, ByUserKeeps DEF W!Next

\* The types are a part of it.
LEMMA WidgetInvMeans ==
  ASSUME WidgetInv
  PROVE  W!TypeOK
BY DEF WidgetInv, W!TypeOK, SoundWidget, WidgetStates, Coherent, Applied

-----------------------------------------------------------------------------
(* The four side by side: the part that moves keeps its own invariant, and  *)
(* which never changes.                                                     *)

PartsInv ==
  /\ which \in {"coordinator", "runtime", "widget", "queries"}
  /\ which = "coordinator" => C!IInv
  /\ which = "widget" => WidgetInv
  /\ which = "queries" => QueryInv

\* Every part starts in its invariant.
LEMMA PartsStart == Init => PartsInv
<1> SUFFICES ASSUME Init PROVE PartsInv
  OBVIOUS
<1>1. CASE which = "coordinator" /\ C!Init
  <2>1. C!IInv
    BY <1>1, PartsAreSound, C!InitIInv DEF C!CoordinatorAssumption
  <2> QED
    BY <1>1, <2>1 DEF PartsInv
<1>2. CASE which = "runtime"
  BY <1>2 DEF PartsInv
<1>3. CASE which = "widget" /\ W!Init
  BY <1>3, PartsAreSound, WidgetStarts DEF PartsInv
<1>4. CASE which = "queries" /\ Q!Init
  BY <1>4, PartsAreSound, FirstSound DEF PartsInv
<1> QED
  BY <1>1, <1>2, <1>3, <1>4 DEF Init

\* A step is a step of the part that which names, and keeps its invariant.
LEMMA PartsMove ==
  ASSUME PartsInv, [Next]_vars
  PROVE  /\ PartsInv' /\ which' = which
         /\ which = "coordinator" => [C!Next]_(C!vars)
         /\ which = "widget" => [W!Next]_(W!vars)
         /\ which = "queries" => [Q!Next]_(Q!vars)
<1>1. /\ which' = which
      /\ which = "coordinator" => [C!Next]_(C!vars)
      /\ which = "widget" => [W!Next]_(W!vars)
      /\ which = "queries" => [Q!Next]_(Q!vars)
  <2>1. CASE UNCHANGED vars
    <3>1. UNCHANGED which /\ UNCHANGED C!vars
      BY <2>1 DEF vars, ofCoordinator, C!vars, C!mem, C!env
    <3>2. UNCHANGED W!vars
      BY <2>1 DEF vars, ofWidget, W!vars, W!env
    <3>3. UNCHANGED Q!vars
      BY <2>1 DEF vars, ofQueries, Q!vars, Q!hook, Q!chains
    <3> QED
      BY <3>1, <3>2, <3>3
  <2>2. CASE Next
    BY <2>2 DEF Next, CoordinatorMoves, RuntimeMoves, WidgetMoves, QueriesMove
  <2> QED
    BY <2>1, <2>2
<1>2. which = "coordinator" => C!IInv'
  BY <1>1, PartsAreSound, C!InvariantStep DEF PartsInv, C!CoordinatorAssumption
<1>3. which = "widget" => WidgetInv'
  BY <1>1, PartsAreSound, WidgetKeeps DEF PartsInv
<1>4. which = "queries" => QueryInv'
  BY <1>1, PartsAreSound, StepKeeps DEF PartsInv
<1> QED
  BY <1>1, <1>2, <1>3, <1>4 DEF PartsInv

\* Whichever part moves, it keeps its invariant.
THEOREM PartsInvariance == Spec => []PartsInv
<1>1. PartsInv /\ [Next]_vars => PartsInv'
  BY PartsMove
<1> QED
  BY PartsStart, <1>1, PTL DEF Spec

\* The widget's window is shown as its state says, no drag is without an origin, and
\* a closed window has neither timers nor mail; the queries' cache, hook and chains
\* keep their types (main-v2.ts:262, query-hooks.ts:65).
THEOREM LivenessTypes == Spec => []TypeOK
<1>1. PartsInv => TypeOK
  BY WidgetInvMeans DEF PartsInv, TypeOK, QueryInv
<1> QED
  BY <1>1, PartsInvariance, PTL

\* No adapter executes two runs, and no query key has two requests that count
\* (sync-coordinator.ts:366, query-client.ts:82).
THEOREM NoOverlapAnywhere == Spec => []NoOverlap
<1>1. PartsInv => NoOverlap
  <2>1. C!IInv => C!NoOverlap
    BY DEF C!IInv
  <2>2. QueryInv => Q!OneRequest
    BY DEF QueryInv, Q!TypeOK, SoundCache, Q!OneRequest
  <2> QED
    BY <2>1, <2>2 DEF PartsInv, NoOverlap
<1> QED
  BY <1>1, PartsInvariance, PTL

\* No late answer replaces a newer one, and no late timer, message, release or drag
\* ends a pin (query-client.ts:87, main-v2.ts:595).
THEOREM NothingIsTakenBack == Spec => NothingTakenBack
<1> DEFINE Keeps ==
      CASE which = "queries" -> Q!NewerStays [] which = "widget" -> W!PinnedStays [] OTHER -> TRUE
<1>1. PartsInv /\ [Next]_vars => [Keeps]_vars
  <2> SUFFICES ASSUME PartsInv, [Next]_vars PROVE Keeps \/ UNCHANGED vars
    OBVIOUS
  <2>1. CASE which = "queries"
    <3>1. QueryInv /\ QueryInv' /\ NoOlder
      BY <2>1, PartsMove, PartsAreSound, StepKeeps DEF PartsInv
    <3>2. \A s \in Scopes : cache.entries[s].data \in Nat /\ cache'.entries[s].data \in Nat
      BY <3>1 DEF QueryInv, SoundCache, Caches, Entries, Data
    <3> QED
      BY <2>1, <3>1, <3>2 DEF NoOlder, Q!NewerStays
  <2>2. CASE which = "widget"
    <3>1. WidgetInv /\ [W!Next]_(W!vars)
      BY <2>2, PartsMove DEF PartsInv
    <3>2. CASE W!Next
      BY <2>2, <3>1, <3>2, PartsAreSound, ByItselfKeeps, ByUserKeeps DEF W!Next
    <3>3. CASE UNCHANGED W!vars
      BY <2>2, <3>3 DEF W!vars, W!PinnedStays
    <3> QED
      BY <3>1, <3>2, <3>3
  <2>3. CASE which \notin {"queries", "widget"}
    BY <2>3
  <2> QED
    BY <2>1, <2>2, <2>3
<1> QED
  BY <1>1, PartsInvariance, PTL DEF Spec, NothingTakenBack

\* In the widget alone: only the unpin and collapse buttons, a menu, a setting or a
\* crash end a pin (the specification, 16.4).
THEOREM PinsStay ==
  ASSUME W!WidgetAssumption
  PROVE  W!Spec => [][W!PinnedStays]_(W!vars)
<1>1. W!Init => WidgetInv
  BY WidgetStarts
<1>2. WidgetInv /\ [W!Next]_(W!vars) => WidgetInv'
  BY WidgetKeeps
<1>3. WidgetInv /\ [W!Next]_(W!vars) => [W!PinnedStays]_(W!vars)
  BY ByItselfKeeps, ByUserKeeps DEF W!Next
<1> QED
  BY <1>1, <1>2, <1>3, PTL DEF W!Spec
=============================================================================
