--------------------------- MODULE DetailRetention ---------------------------
(***************************************************************************)
(* The trimming of old detail (apps/core/src/detail-retention.ts), next to  *)
(* the projector that keeps inserting (ToolProjection).  Core tries it when *)
(* it has started and on a timer: when the last run is a day old, events    *)
(* from before the retention window are copied to an archive file, named    *)
(* after the cutoff, and then deleted, while tool_calls keeps its rows.     *)
(* The archive is written asynchronously, so that events are projected      *)
(* between its steps; the deletion is one transaction.                      *)
(*                                                                         *)
(* Modelled for the tool events of normalized_events; the other tables are  *)
(* trimmed in the same steps and nothing refers to them.  Old rows have     *)
(* growing rowids, so that the paging of the archive ends when it has all   *)
(* rows that are old by then.                                               *)
(***************************************************************************)
EXTENDS ToolProjection, Sequences

CONSTANTS
  Cutoff,     \* the cutoff of each month, a sequence of growing timestamps
  MaxFaults   \* bound: runs that throw, Cores that die

RetentionAssumption ==
  /\ ToolAssumption
  /\ Cutoff \in Seq(Nat) /\ Cutoff # << >>
  /\ MaxFaults \in Nat

Months == DOMAIN Cutoff

VARIABLES
  month,    \* the month it is
  due,      \* the state file has no run of the last 24 hours
  pc, cut,  \* where the run stands, and the month it took its cutoff from
  archive,  \* the archive files: their events, per month
  trimmed,  \* history: events that were deleted
  late,     \* history: an old event came after its archive was written
  seen,     \* history: events that were projected
  resumed,  \* history: sessions that were projected after they were trimmed
  faults

memory == <<pc, cut>>
history == <<trimmed, late, seen, resumed>>
vars == <<tools, month, due, memory, archive, history, faults>>

Start ==
  /\ Init
  /\ month = 1 /\ due = TRUE
  /\ pc = "idle" /\ cut = 1
  /\ archive = [m \in Months |-> {}]
  /\ trimmed = {} /\ late = FALSE /\ seen = {} /\ resumed = {}
  /\ faults = 0

Old(e, m) == e.at < Cutoff[m]
OldDetail(m) == {e \in events : Old(e, m)}

-----------------------------------------------------------------------------

\* An event is projected.
Project(e) ==
  /\ ProjectTool(e)
  /\ seen' = seen \cup {e}
  /\ late' = (late \/ (Old(e, cut) /\ (pc = "archived" \/ archive[cut] # {})))
  /\ resumed' = resumed \cup {s \in {e.session} : InSession(trimmed, s) # {}}
  /\ UNCHANGED <<month, due, memory, archive, trimmed, faults>>

\* Time goes on: a day, or into the next month.
Day == ~due /\ due' = TRUE /\ UNCHANGED <<tools, month, memory, archive, history, faults>>
NextMonth ==
  /\ month + 1 \in Months /\ month' = month + 1
  /\ UNCHANGED <<tools, due, memory, archive, history, faults>>

\* runDetailRetentionIfNeeded, when it is due; without old rows the day is
\* noted at once.
RunSameCutoff ==
  /\ pc = "idle" /\ due
  /\ pc' = IF OldDetail(cut) = {} THEN "saving" ELSE "planned"
  /\ UNCHANGED <<tools, month, due, cut, archive, history, faults>>
Run ==
  /\ pc = "idle" /\ due
  /\ cut' = month
  /\ pc' = IF OldDetail(month) = {} THEN "saving" ELSE "planned"
  /\ UNCHANGED <<tools, month, due, archive, history, faults>>

\* createWriteStream empties a file of that name.
OpenArchive ==
  /\ pc = "planned" /\ pc' = "archiving"
  /\ archive' = [archive EXCEPT ![cut] = {}]
  /\ UNCHANGED <<tools, month, due, cut, history, faults>>

ArchiveRow(e) ==
  /\ pc = "archiving" /\ e \in OldDetail(cut) \ archive[cut]
  /\ archive' = [archive EXCEPT ![cut] = @ \cup {e}]
  /\ UNCHANGED <<tools, month, due, memory, history, faults>>

ArchivedSome == archive[cut] # {}
AllArchived == OldDetail(cut) \subseteq archive[cut]
FinishArchive ==
  /\ pc = "archiving" /\ AllArchived
  /\ pc' = "archived"
  /\ UNCHANGED <<tools, month, due, cut, archive, history, faults>>

\* What is old by now, archived or not.
Delete ==
  /\ pc = "archived" /\ pc' = "saving"
  /\ events' = events \ OldDetail(cut)
  /\ trimmed' = trimmed \cup OldDetail(cut)
  /\ UNCHANGED <<aliases, calls, month, due, cut, archive, late, seen, resumed, faults>>

WriteState ==
  /\ pc = "saving" /\ pc' = "idle"
  /\ due' = FALSE
  /\ UNCHANGED <<tools, month, cut, archive, history, faults>>

\* The run throws or Core dies; an archive that is not finished may be cut
\* short.
Fail ==
  /\ pc # "idle" /\ faults < MaxFaults
  /\ pc' = "idle" /\ faults' = faults + 1
  /\ \E kept \in SUBSET archive[cut] :
       /\ pc # "archiving" => kept = archive[cut]
       /\ archive' = [archive EXCEPT ![cut] = kept]
  /\ UNCHANGED <<tools, month, due, cut, history>>

RunStep ==
  \/ Run \/ OpenArchive \/ FinishArchive \/ Delete \/ WriteState
  \/ \E e \in Sightings : ArchiveRow(e)

Steps ==
  \/ \E e \in Sightings : Project(e)
  \/ Day \/ NextMonth
  \/ RunStep \/ Fail

\* Days pass, and a run that neither throws nor dies gets to its end.
Trimming == Start /\ [][Steps]_vars /\ WF_vars(RunStep) /\ WF_vars(Day)

-----------------------------------------------------------------------------

RetentionTypeOK ==
  /\ TypeOK
  /\ month \in Months /\ cut \in Months /\ due \in BOOLEAN
  /\ pc \in {"idle", "planned", "archiving", "archived", "saving"}
  /\ archive \in [Months -> SUBSET Sightings]
  /\ trimmed \subseteq seen /\ seen \subseteq Sightings /\ events \subseteq seen
  /\ late \in BOOLEAN /\ resumed \subseteq {e.session : e \in Sightings}
  /\ faults \in 0..MaxFaults

\* What is deleted is in an archive, wherever runs fail and whatever is
\* projected meanwhile, as long as no old event comes after the archive of its
\* cutoff (detail-retention.ts: archive, then delete).
TrimmedIsArchived == ~late => trimmed \subseteq UNION {archive[m] : m \in Months}

\* A use of a tool that was projected keeps its one row, with its start and
\* outcome, when its events are trimmed, until its session gets another tool
\* event (docs/manual/data-retention.md: tool_calls belongs to the facts).
FactsOutliveDetail ==
  \A use \in Uses :
    (Of(use) \subseteq seen /\ \A e \in Of(use) : e.session \notin resumed) => CountedOnce(use)

\* Every day old events are gone for a moment at least.
OldDetailGoes == []<>(OldDetail(month) = {})

\* Every deleted event is in an archive, late or not.
ArchiveIsComplete == trimmed \subseteq UNION {archive[m] : m \in Months}
=============================================================================
