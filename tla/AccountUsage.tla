---------------------------- MODULE AccountUsage ----------------------------
(***************************************************************************)
(* What Core asks vendors about an account, next to what it reads itself.   *)
(*                                                                         *)
(* Cursor (cursor-official-refresh.ts, cursor-account-usage.ts of           *)
(* apps/core, cursor-official-sync.ts and -api.ts of adapters-cursor): the  *)
(* tokens of a day as the vendor counts them replace that day's rows, by a  *)
(* refresh loop and by the coordinator's sync, which do not know of each    *)
(* other.  Key usage (official-key-usage*.ts, key-usage-refresh.ts): the    *)
(* newest reading of a quota, from logs that grow while they are scanned    *)
(* and from an API; a scan at startup runs next to those of the loops.      *)
(*                                                                         *)
(* Abstracted: a day's models are one number of tokens; a request with its  *)
(* token refresh and its one retry succeeds or not; of a reading its time.  *)
(***************************************************************************)
EXTENDS Integers, FiniteSets, FiniteSetsExt, Functions

CONSTANTS
  Days,         \* 0..n, the days that are played
  MaxTokens,    \* bound: tokens that are used in a day
  Limits,       \* quota limits, among them
  NoPlan,       \* the reading that says that there is no plan
  ApiLimit,     \* a limit that is read from an API
  Windows,      \* quota windows
  Files,        \* log files
  MaxReadings   \* bound: readings in the logs, and asks of the API

AccountAssumption ==
  /\ Days \subseteq Nat /\ 0 \in Days
  /\ MaxTokens \in Nat /\ MaxReadings \in Nat
  /\ ApiLimit \in Limits

VARIABLES
  day,         \* today
  spent,       \* tokens of each day, as Cursor's server counts them
  local,       \* those among them that the local adapter found
  official,    \* the rows of each day that came from the server
  loop, sync,  \* the requests of the refresh loop and of the coordinator
  running,     \* Core is up, and not closed
  clock,
  logs,        \* readings in each log file
  scans,       \* the scan at startup and that of the refresh loop
  api,         \* when the API was asked
  stored,      \* official_key_usage: the newest reading of each limit and window
  told         \* history: readings that were to be stored

cursorVars == <<day, spent, local, official, loop, sync, running>>
keyVars == <<clock, logs, scans, api, stored, told>>

-----------------------------------------------------------------------------
(* Cursor's day. *)

Idle == [step |-> "idle", day |-> 0, tokens |-> 0]

CursorInit ==
  /\ day = 0
  /\ spent = [d \in Days |-> 0] /\ local = spent /\ official = spent
  /\ loop = Idle /\ sync = Idle
  /\ running = TRUE

\* A request is served to somebody with the account, here or elsewhere; the
\* local adapter sees the ones from here.
Use(here) ==
  /\ spent[day] < MaxTokens
  /\ spent' = [spent EXCEPT ![day] = @ + 1]
  /\ local' = [local EXCEPT ![day] = @ + (IF here THEN 1 ELSE 0)]
  /\ UNCHANGED <<day, official, loop, sync, running>>

Midnight ==
  /\ day + 1 \in Days
  /\ day' = day + 1
  /\ UNCHANGED <<spent, local, official, loop, sync, running>>

\* resolveCalendarDayWindow fixes the day when the request begins.
Asked == [step |-> "asked", day |-> day, tokens |-> 0]

\* What comes of it: nothing when the period cannot be read; no tokens when
\* only the day's request fails.
Answers(request) ==
  {Idle} \cup {[request EXCEPT !.step = "answered", !.tokens = n] : n \in {0, spent[request.day]}}

\* persistCursorOfficialDayTokens: that day's rows, and only those, are replaced.
Replace(request) == official' = [official EXCEPT ![request.day] = request.tokens]

LoopAsk ==
  /\ running /\ loop.step = "idle"
  /\ loop' = Asked
  /\ UNCHANGED <<day, spent, local, official, sync, running>>

\* The loop yields once before it writes.
LoopAnswer ==
  /\ loop.step = "asked"
  /\ loop' \in (IF running THEN Answers(loop) ELSE {Idle})
  /\ UNCHANGED <<day, spent, local, official, sync, running>>

\* It looks again whether it was stopped.
LoopWrite ==
  /\ loop.step = "answered"
  /\ loop' = Idle
  /\ IF running THEN Replace(loop) ELSE UNCHANGED official
  /\ UNCHANGED <<day, spent, local, sync, running>>

SyncAsk ==
  /\ running /\ sync.step = "idle"
  /\ sync' = Asked
  /\ UNCHANGED <<day, spent, local, official, loop, running>>

\* The coordinator's sync writes at once; on a closed database that throws.
SyncAnswer ==
  /\ sync.step = "asked"
  /\ sync' = Idle
  /\ \E answer \in Answers(sync) :
       IF answer.step = "answered" /\ running THEN Replace(answer) ELSE UNCHANGED official
  /\ UNCHANGED <<day, spent, local, loop, running>>

\* onClose stops the loop and aborts the coordinator's runs, waits for neither,
\* and closes the database.
Close ==
  /\ running
  /\ running' = FALSE
  /\ UNCHANGED <<day, spent, local, official, loop, sync>>

CursorNext ==
  \/ \E here \in BOOLEAN : Use(here)
  \/ Midnight
  \/ LoopAsk \/ LoopAnswer \/ LoopWrite \/ SyncAsk \/ SyncAnswer
  \/ Close

\* dropCursorGenerationShadowedByOfficial: local rows of a day with official
\* ones do not count.
Shadowed(d) == official[d] > 0
Reported(d) == official[d] + (IF Shadowed(d) THEN 0 ELSE local[d])

\* A day's tokens are never counted by both, and are not those of another day,
\* whenever the two requests were begun and answered (cursor-account-usage.ts,
\* dropCursorGenerationShadowedByOfficial and persistCursorOfficialDayTokens).
DayReported == \A d \in Days : Reported(d) <= spent[d]

CursorTypeOK ==
  /\ day \in Days /\ running \in BOOLEAN
  /\ spent \in [Days -> 0..MaxTokens] /\ local \in [Days -> 0..MaxTokens]
  /\ official \in [Days -> 0..MaxTokens]
  /\ {loop, sync} \subseteq [step : {"idle", "asked", "answered"}, day : Days, tokens : 0..MaxTokens]

-----------------------------------------------------------------------------
(* Key usage: the newest reading of a limit. *)

Collectors == {"startup", "refresh"}
NoScan == [step |-> "idle", left |-> {}, found |-> {}]

KeyInit ==
  /\ clock = 0
  /\ logs = [f \in Files |-> {}]
  /\ scans = [c \in Collectors |-> NoScan]
  /\ api = 0
  /\ stored = << >> /\ told = {}

\* The agent writes a reading into one of its logs: of a limit in a window, or
\* that there is no plan.
LogReading(f, limit, window) ==
  /\ clock < MaxReadings
  /\ clock' = clock + 1
  /\ logs' = [logs EXCEPT ![f] =
       @ \cup {[limit |-> limit, window |-> IF limit = NoPlan THEN 0 ELSE window, at |-> clock + 1]}]
  /\ UNCHANGED <<scans, api, stored, told>>

\* The files are listed once, then read one by one.
StartScan(c) ==
  /\ scans[c].step = "idle"
  /\ scans' = [scans EXCEPT ![c] =
       [step |-> "reads", left |-> {f \in Files : logs[f] # {}}, found |-> {}]]
  /\ UNCHANGED <<clock, logs, api, stored, told>>

ReadFile(c, f) ==
  /\ f \in scans[c].left
  /\ scans' = [scans EXCEPT ![c].left = @ \ {f}, ![c].found = @ \cup logs[f]]
  /\ UNCHANGED <<clock, logs, api, stored, told>>

\* dedupeSnapshots, and dropStaleZCodeEmptyState.
Same(r, q) == r.limit = q.limit /\ r.window = q.window
Newest(found) == {r \in found : \A q \in found : Same(q, r) => q.at <= r.at}
WithoutStale(found) ==
  {r \in found : r.limit = NoPlan => \A q \in found : q.limit # NoPlan => q.at < r.at}

\* persistOfficialKeyUsage: an older reading never replaces a newer one.
Key(r) == <<r.limit, r.window>>
ReplacesAny(r) == TRUE
ReplacesOlder(r) == Key(r) \notin DOMAIN stored \/ stored[Key(r)] <= r.at
Persist(readings) ==
  /\ stored' = [k \in DOMAIN stored \cup {Key(r) : r \in readings} |->
       IF \E r \in readings : Key(r) = k /\ ReplacesOlder(r)
       THEN (CHOOSE r \in readings : Key(r) = k /\ ReplacesOlder(r)).at ELSE stored[k]]
  /\ told' = told \cup readings

\* The scan at startup is not repeated; it goes on next to those of the refresh
\* loop.
EndScan(c) ==
  /\ scans[c].step = "reads" /\ scans[c].left = {}
  /\ Persist(WithoutStale(Newest(scans[c].found)))
  /\ scans' = [scans EXCEPT ![c] = [NoScan EXCEPT !.step = IF c = "startup" THEN "done" ELSE "idle"]]
  /\ UNCHANGED <<clock, logs, api>>

\* collectKimicodeKeyUsage, collectZCodeApiKeyUsage: a reading has the time at
\* which it was asked for.
AskApi ==
  /\ api = 0 /\ clock < MaxReadings
  /\ clock' = clock + 1 /\ api' = clock + 1
  /\ UNCHANGED <<logs, scans, stored, told>>

AnswerApi(window) ==
  /\ api # 0
  /\ api' = 0
  /\ \E readings \in {{}, {[limit |-> ApiLimit, window |-> window, at |-> api]}} : Persist(readings)
  /\ UNCHANGED <<clock, logs, scans>>

KeyNext ==
  \/ \E f \in Files, w \in Windows :
       \E l \in Limits \ {ApiLimit} : (l = NoPlan => w = Min(Windows)) /\ LogReading(f, l, w)
  \/ \E c \in Collectors : StartScan(c) \/ EndScan(c) \/ \E f \in Files : ReadFile(c, f)
  \/ AskApi
  \/ \E w \in Windows : AnswerApi(w)

KeyTypeOK ==
  /\ clock \in 0..MaxReadings /\ api \in 0..MaxReadings
  /\ \A k \in DOMAIN stored : k[1] \in Limits /\ stored[k] \in 1..MaxReadings
  /\ \A c \in Collectors : scans[c].left \subseteq Files /\ scans[c].found \subseteq UNION Range(logs)

\* selectOfficialKeyUsage: the newest row of a limit over its windows.
Shown(limit) == Max({0} \cup {stored[k] : k \in {q \in DOMAIN stored : q[1] = limit}})

\* A limit is shown as of its newest reading that a collector had, in whatever
\* order the collectors finish (official-key-usage.ts, "an older scan never
\* overwrites a newer stored row").
NewestShown == \A r \in told : Shown(r.limit) >= r.at
=============================================================================
