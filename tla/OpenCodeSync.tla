----------------------------- MODULE OpenCodeSync -----------------------------
(***************************************************************************)
(* The adapter of the databases with OpenCode's schema: OpenCode, ZCode and *)
(* MiMo (packages/adapters-opencode, packages/adapters-mimo).  It reads the *)
(* rows whose time_updated is not before its cursor, one SELECT after the   *)
(* other and in no transaction, while the program it reads from goes on     *)
(* writing.                                                                *)
(*                                                                         *)
(* Abstracted: several databases of one call, which are synced one after    *)
(* the other; models, providers and the timings of model_usage; rows that   *)
(* cannot be parsed, which yield nothing; the messages that are looked up   *)
(* for the names of parts.  time_updated is the time of the commit.         *)
(***************************************************************************)
EXTENDS LedgerAdapter

CONSTANTS
  Rows,      \* the rows that may be written, in the order of their ids
  MaxClock   \* bound: times

\* The row of a part is of a message, that of a message of a session.
Kinds == {"session", "user", "assistant", "tool", "step-finish"}

OpenCodeAssumption ==
  /\ Rows \in Seq([kind : Kinds, of : Nat])
  /\ \A i \in DOMAIN Rows : Rows[i].of < i
  /\ MaxClock \in Nat

VARIABLES
  clock,     \* the time
  version,   \* 0: not there; 1: open, running, without tokens; 2: archived,
             \* completed, with tokens
  updated,   \* time_updated
  stage,     \* the SELECT that comes next
  got        \* what the sync has read: the version of a row and its time_updated

database == <<clock, version, updated>>
query    == <<stage, got>>
vars     == <<database, query, adapter>>

Ids == DOMAIN Rows
Key(kind, i) == [kind |-> kind, id |-> i]
Table(kinds) == {i \in Ids : Rows[i].kind \in kinds}
Messages == Table({"user", "assistant"})
Parts == Table({"tool", "step-finish"})
Final(i) == IF Rows[i].kind \in {"user", "step-finish"} THEN 1 ELSE 2

NothingRead == [i \in Ids |-> [version |-> 0, time |-> 0]]

Init ==
  /\ clock = 1
  /\ version = [i \in Ids |-> 0] /\ updated = [i \in Ids |-> 0]
  /\ stage = "session" /\ got = NothingRead
  /\ AdapterInit

-----------------------------------------------------------------------------
(* The program that owns the database. *)

Tick ==
  /\ clock < MaxClock
  /\ clock' = clock + 1
  /\ UNCHANGED <<version, updated, query, adapter>>

\* A row is inserted, after the row it belongs to, or updated.
WriteRow(i) ==
  /\ version[i] < Final(i)
  /\ Rows[i].of # 0 => version[Rows[i].of] > 0
  /\ version' = [version EXCEPT ![i] = @ + 1]
  /\ updated' = [updated EXCEPT ![i] = clock]
  /\ UNCHANGED <<clock, query, adapter>>

-----------------------------------------------------------------------------
(* syncSingleSource. *)

FirstCursor == [session |-> 0, message |-> 0, part |-> 0, pending |-> {}]
Cursors == [session : 0..MaxClock, message : 0..MaxClock, part : 0..MaxClock,
            pending : SUBSET Ids]

Load == LoadLedger(FirstCursor) /\ UNCHANGED <<database, query>>

New(ids, time) == {i \in ids : version[i] > 0 /\ updated[i] >= time}

Select(this, then, ids) ==
  /\ pc = "reading" /\ stage = this /\ stage' = then
  /\ got' = [i \in Ids |-> IF i \in ids THEN [version |-> version[i], time |-> updated[i]]
                         ELSE got[i]]
  /\ UNCHANGED <<database, adapter>>

SelectSessions == Select("session", "message", New(Table({"session"}), next.session))

\* The new messages, and those that were read without tokens before.
SelectMessages ==
  Select("message", "part", New(Messages, next.message) \cup next.pending)

SelectParts == Select("part", "lookup", New(Parts, next.part))

\* findStepFinishUsagePart, over the parts as they are by now.
HasUsagePart(i) == \E p \in Table({"step-finish"}) : Rows[p].of = i /\ version[p] > 0

\* normalizeOpenCodeSessionRow, MessageRow and PartRow for version v of row i.
\* The usage of a message has the same id wherever it is read from.
EventsOf(i, v) ==
  LET kind == Rows[i].kind
      usage(m) == <<Event(Key("usage", m), 0)>>
      one(name) == <<Event(Key(name, i), 0)>>
  IN  CASE v = 0 -> << >>
        [] kind = "session" -> one("started") \o (IF v = 2 THEN one("ended") ELSE << >>)
        [] kind = "user" -> one("prompt")
        [] kind = "assistant" ->
             one("assistant") \o (IF v = 2 /\ ~ HasUsagePart(i) THEN usage(i) ELSE << >>)
        [] kind = "tool" ->
             one("called") \o (IF v = 2 THEN one("succeeded") \o one("edit") ELSE << >>)
        [] OTHER -> usage(Rows[i].of)

EventsRead ==
  LET collect[i \in 0..Len(Rows)] ==
        IF i = 0 THEN << >> ELSE collect[i - 1] \o EventsOf(i, got[i].version)
  IN  collect[Len(Rows)]

LatestPassed(ids, time) ==
  LET times == {got[i].time : i \in ids} \cup {time}
  IN  (CHOOSE t \in times : \A u \in times : u <= t) + 1

\* maxCursorValue over the rows that were read.
Latest(ids, time) ==
  LET times == {got[i].time : i \in ids} \cup {time}
  IN  CHOOSE t \in times : \A u \in times : u <= t

\* collectPendingMessageIds, as it will be once the events are appended.
Pending(events) ==
  {i \in Table({"assistant"}) :
     /\ got[i].version = 1
     /\ Key("usage", i) \notin seen \cup {events[n].key : n \in DOMAIN events}}

\* selectPartsByMessageIds, and the events of all that was read.
LookUp ==
  /\ stage = "lookup" /\ stage' = "session"
  /\ TakeEvents(EventsRead,
       [session |-> Latest(Table({"session"}), next.session),
        message |-> Latest(Messages, next.message),
        part |-> Latest(Parts, next.part),
        pending |-> Pending(EventsRead)])
  /\ got' = NothingRead
  /\ UNCHANGED database

AppendOrSave == AdapterStep /\ UNCHANGED <<database, query>>

\* A SELECT or an append throws, or the process dies.
SyncFails ==
  /\ Fail
  /\ stage' = "session" /\ got' = NothingRead
  /\ UNCHANGED database

SyncStep ==
  Load \/ SelectSessions \/ SelectMessages \/ SelectParts \/ LookUp \/ AppendOrSave

Next == Tick \/ (\E i \in Ids : WriteRow(i)) \/ SyncStep \/ SyncFails

Spec == Init /\ [][Next]_vars

-----------------------------------------------------------------------------
(* What Ingestion sees of it. *)

\* The events that are due for row i as it is now.  The usage of a message is
\* due for its step-finish part, once there is one.
KeysOf(i) == LET events == EventsOf(i, version[i]) IN {events[n].key : n \in DOMAIN events}

KeysOfRows(ids) == UNION {KeysOf(i) : i \in ids}

\* A row whose time is that of the cursor is read again.
Before(ids, time) == KeysOfRows({i \in ids : updated[i] < time})

Written == KeysOfRows(Ids)
Done ==
  IF cursor = NoFile THEN {}
  ELSE Before(Table({"session"}), cursor.session)
         \cup Before(Messages, cursor.message) \cup Before(Parts, cursor.part)
Due == KeysOfRows(Ids)

TypeOK ==
  /\ clock \in 1..MaxClock
  /\ version \in [Ids -> 0..2] /\ updated \in [Ids -> 0..MaxClock]
  /\ stage \in {"session", "message", "part", "lookup"}
  /\ got \in [Ids -> [version : 0..2, time : 0..MaxClock]]
  /\ AdapterTypeOK(Cursors, {0})
=============================================================================
