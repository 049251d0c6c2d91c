------------------------------ MODULE Ingestion ------------------------------
(***************************************************************************)
(* What every source adapter of the repository promises, whatever it reads  *)
(* (a transcript, a rollout, a database) and however it remembers how far   *)
(* it has read: the cursor that it saves stands for records that have       *)
(* landed in the canonical event log, and a record lands a second time only *)
(* after something failed.  The detailed modules are shown to implement it. *)
(***************************************************************************)
EXTENDS FiniteSets

CONSTANT Events    \* the events a source can yield

VARIABLES
  written,   \* events that are due: their records are in the source
  landed,    \* events in the canonical log
  repeated,  \* those that are in the log more than once
  done,      \* events the saved cursor stands for
  failed     \* something has failed

vars == <<written, landed, repeated, done, failed>>

Init ==
  /\ written \in SUBSET Events
  /\ landed = {} /\ repeated = {} /\ done = {}
  /\ failed = FALSE

\* A record that is written anew may be due again.
Write ==
  /\ UNCHANGED <<landed, repeated, failed>>
  /\ done' \in SUBSET done
  /\ written' \in SUBSET Events /\ written \subseteq written'

Land ==
  /\ UNCHANGED <<written, repeated, done, failed>>
  /\ \E e \in written \ landed : landed' = landed \cup {e}

Repeat ==
  /\ failed
  /\ UNCHANGED <<written, landed, done, failed>>
  /\ \E e \in landed : repeated' = repeated \cup {e}

\* A cursor is saved.  It may stand for less than the one before.
Commit ==
  /\ UNCHANGED <<written, landed, repeated, failed>>
  /\ done' \in SUBSET landed

\* A death, a failed write or a source that is cut: what has landed stays.
Fail ==
  /\ failed' = TRUE
  /\ done' \in SUBSET done
  /\ UNCHANGED <<written, landed, repeated>>

Next == Write \/ Land \/ Repeat \/ Commit \/ Fail

Spec == Init /\ [][Next]_vars

-----------------------------------------------------------------------------

\* The cursor never stands for an event the log lacks, nothing lands that no
\* record is there for, and nothing is repeated unless something failed
\* (every syncX of packages/adapters-*: append, then save the cursor).
Promise ==
  /\ done \subseteq landed /\ landed \subseteq written
  /\ repeated \subseteq landed
  /\ repeated # {} => failed
=============================================================================
