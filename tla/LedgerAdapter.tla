---------------------------- MODULE LedgerAdapter ----------------------------
(***************************************************************************)
(* The steps that the source adapters have in common: they load a cursor    *)
(* file and a ledger of the events they have appended                       *)
(* (packages/shared-utils/src/ledger.ts), read what is new in their source, *)
(* append the events the ledger does not have, and save the cursor, then    *)
(* the ledger.  The adapters themselves extend this module.  A sync keeps   *)
(* nothing in memory between two calls, and two syncs of an adapter never   *)
(* overlap: every caller holds the writer lease (see WriterLease).          *)
(*                                                                         *)
(* Abstracted: several files or databases of one adapter, which are read    *)
(* one after the other; lines of the log that are torn (see CodexSync).     *)
(***************************************************************************)
EXTENDS Naturals, Sequences

CONSTANTS
  Keys,        \* ledger keys of the events the source can yield
  NoFile,      \* the cursor file is missing; also: no sync is at work
  MaxFaults    \* bound: syncs that throw or die, and what goes wrong besides

VARIABLES
  copies,      \* the log: how often each key is there: 0, 1 or more
  notes,       \* the log: what the events of a key say
  cursor,      \* the cursor file
  ledger,      \* the ledger file
  pc, seen,    \* the sync, and its seenEventIds
  next,        \* the cursor it works on
  out,         \* events it has read, as far as they are not yet looked at
  changed,     \* the ledger is to be saved
  faults

log     == <<copies, notes>>
memory  == <<pc, seen, next, out, changed>>
adapter == <<log, cursor, ledger, memory, faults>>

Event(k, note) == [key |-> k, note |-> note]
Landed == {k \in Keys : copies[k] > 0}
Repeated == {k \in Keys : copies[k] > 1}

AdapterInit ==
  /\ copies = [k \in Keys |-> 0] /\ notes = [k \in Keys |-> {}]
  /\ cursor = NoFile /\ ledger = {}
  /\ pc = "idle" /\ seen = {} /\ next = NoFile /\ out = << >> /\ changed = FALSE
  /\ faults = 0

\* loadEventLedgerWithFallback: an empty ledger is rebuilt from the log.
LoadedLedger == IF ledger = {} THEN Landed ELSE ledger

\* The ledger and the cursor are loaded; a rebuilt ledger is saved, and without
\* its file the cursor is the first one.
LoadLedger(first) ==
  /\ pc = "idle" /\ pc' = "reading"
  /\ ledger' = LoadedLedger /\ seen' = LoadedLedger
  /\ next' = IF cursor = NoFile THEN first ELSE cursor
  /\ UNCHANGED <<log, cursor, out, changed, faults>>

\* What is new is read, and stands for the cursor c once it is in the log.
TakeEvents(events, c) ==
  /\ pc = "reading" /\ pc' = "appending"
  /\ out' = events /\ next' = c
  /\ UNCHANGED <<log, cursor, ledger, seen, changed, faults>>

\* The events that are still to be appended.
Unseen == SelectSeq(out, LAMBDA e : e.key \notin seen)

AppendEvent ==
  LET e == Head(Unseen)
  IN  /\ pc = "appending" /\ Unseen # << >>
      /\ copies' = [copies EXCEPT ![e.key] = IF @ = 0 THEN 1 ELSE 2]
      /\ notes' = [notes EXCEPT ![e.key] = @ \cup {e.note}]
      /\ seen' = seen \cup {e.key} /\ changed' = TRUE
      /\ UNCHANGED <<cursor, ledger, pc, next, out, faults>>

SaveCursor ==
  /\ pc = "appending" /\ Unseen = << >> /\ pc' = "saving"
  /\ cursor' = next
  /\ out' = << >>
  /\ UNCHANGED <<log, ledger, seen, next, changed, faults>>

\* What is left of a sync that has returned, thrown or died.
Forget ==
  pc' = "idle" /\ seen' = {} /\ next' = NoFile /\ out' = << >> /\ changed' = FALSE

SaveLedger ==
  /\ pc = "saving"
  /\ ledger' = IF changed THEN seen ELSE ledger
  /\ Forget
  /\ UNCHANGED <<log, cursor, faults>>

\* A fault, of which the bound allows a few.
Fault == faults < MaxFaults /\ faults' = faults + 1

\* The sync throws or dies.  writeJsonFileAtomic, whose second attempt removes
\* the old file before it renames, may leave none.
Fail ==
  /\ pc # "idle"
  /\ Fault
  /\ cursor' \in {cursor, IF pc = "appending" /\ Unseen = << >> THEN NoFile ELSE cursor}
  /\ ledger' \in {ledger, IF pc = "saving" /\ changed THEN {} ELSE ledger}
  /\ Forget
  /\ UNCHANGED log

\* The part of a sync that does not depend on the source.
AdapterStep == AppendEvent \/ SaveCursor \/ SaveLedger

AdapterTypeOK(Cursors, Notes) ==
  /\ copies \in [Keys -> 0..2] /\ notes \in [Keys -> SUBSET Notes]
  /\ cursor \in Cursors \cup {NoFile} /\ ledger \in SUBSET Keys
  /\ pc \in {"idle", "reading", "appending", "saving"}
  /\ seen \in SUBSET Keys /\ next \in Cursors \cup {NoFile}
  /\ out \in Seq([key : Keys, note : Notes])
  /\ changed \in BOOLEAN /\ faults \in 0..MaxFaults
=============================================================================
