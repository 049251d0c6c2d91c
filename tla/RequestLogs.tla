----------------------------- MODULE RequestLogs -----------------------------
(***************************************************************************)
(* The two adapters that see the same requests: WorkBuddy's reads the       *)
(* transcripts (packages/adapters-workbuddy), CodeBuddy's the log of the    *)
(* command line tool (packages/adapters-codebuddy-log).  Each looks in the  *)
(* other's ledger file for the requests that are counted already.  Both     *)
(* hold the writer lease, so that one sync is at work at a time.            *)
(*                                                                         *)
(* Abstracted: one file each; incomplete lines, which both leave for later; *)
(* events other than the usage of a request; the cache split, which pairs   *)
(* like the credit; a request that the log reports twice.                   *)
(***************************************************************************)
EXTENDS Naturals, Sequences, FiniteSets

CONSTANTS
  Lines,      \* the log, line by line
  Overlap,    \* OVERLAP_BYTES: the lines that are read again
  NoFile,     \* a cursor file is missing; also: no sync is at work
  MaxFaults   \* bound: syncs that throw or die

Adapters == {"transcript", "cli"}

\* The qua.end of a request, or its billing line.  The requests of one turn have
\* the same conversation_request_id, and a billing line names no other id.
RequestLogsAssumption ==
  /\ Lines \in Seq([type : {"end", "credit"}, turn : Nat, request : Nat \ {0}])
  /\ Overlap \in Nat /\ MaxFaults \in Nat

VARIABLES
  size,     \* the log has so many lines
  told,     \* the transcript has the usage of these requests
  counted,  \* canonical log: the adapters that have counted a request
  again,    \* canonical log: requests that one adapter counted twice
  credits,  \* canonical log: the credits a request was reported with
  cursors, ledgers,                \* the files of each adapter
  who, pc, seen, others, next, out, \* the sync, its seenEventIds, what the other
                                   \* has counted, its cursor and its events
  faults

sources == <<size, told>>
log     == <<counted, again, credits>>
files   == <<cursors, ledgers>>
memory  == <<who, pc, seen, others, next, out>>
vars    == <<sources, log, files, memory, faults>>

Requests == {Lines[i].request : i \in DOMAIN Lines}
Ends(n) == {Lines[i].request : i \in {j \in 1..n : Lines[j].type = "end"}}

\* ledgerKeys: a second key says that a detail, the timing or the credit, is in.
Details == {"usage", "timing", "credit"}
Key(r, detail) == [request |-> r, detail |-> detail]
LedgerKeys == [request : Requests, detail : Details]
KeysOf(e) == {Key(e.request, d) : d \in {"usage"} \cup e.details}

\* A transcript's size and timing signature; an offset in the log.
FirstCursor == [told |-> {}, timings |-> {}, line |-> 0]

Init ==
  /\ size = 0 /\ told = {}
  /\ counted = [r \in Requests |-> {}] /\ again = {}
  /\ credits = [r \in Requests |-> {}]
  /\ cursors = [a \in Adapters |-> NoFile] /\ ledgers = [a \in Adapters |-> {}]
  /\ who = NoFile /\ pc = "idle" /\ seen = {} /\ others = {} /\ next = NoFile /\ out = << >>
  /\ faults = 0

-----------------------------------------------------------------------------
(* CodeBuddy. *)

WriteLine ==
  /\ size < Len(Lines) /\ size' = size + 1
  /\ UNCHANGED <<told, log, files, memory, faults>>

Tell(r) ==
  /\ r \notin told /\ told' = told \cup {r}
  /\ UNCHANGED <<size, log, files, memory, faults>>

-----------------------------------------------------------------------------
(* syncWorkbuddySessions and syncCodebuddyCliLogs. *)

Other(a) == IF a = "cli" THEN "transcript" ELSE "cli"

\* loadEventLedgerWithFallback
InLog(a) == {Key(r, "usage") : r \in {q \in Requests : a \in counted[q]}}
Rebuilt(a) == IF ledgers[a] = {} THEN InLog(a) ELSE ledgers[a]

\* loadCliLogMessageIds and loadTranscriptMessageIds: what the other's ledger
\* file says, without a fallback.
OthersUnknown(a) == {}
Others(a) == {k.request : k \in ledgers[Other(a)]}

Start(a) ==
  /\ pc = "idle" /\ pc' = "reading" /\ who' = a
  /\ ledgers' = [ledgers EXCEPT ![a] = Rebuilt(a)]
  /\ seen' = Rebuilt(a) /\ others' = Others(a)
  /\ next' = IF cursors[a] = NoFile THEN FirstCursor ELSE cursors[a]
  /\ UNCHANGED <<sources, log, cursors, out, faults>>

Usage(r, details, credit) == [request |-> r, details |-> details, credit |-> credit]

\* syncSessionLog reads the whole transcript when it has grown or when there are
\* new timings, and skips what the log has counted.
ReadTranscript ==
  LET timings == Ends(size)
      event(r) == Usage(r, {"timing"} \cap {d \in Details : r \in timings}, 0)
      events[S \in SUBSET told] ==
        IF S = {} THEN << >>
        ELSE LET r == CHOOSE r \in S : \A q \in S : r <= q
             IN  <<event(r)>> \o events[S \ {r}]
      stale == told # next.told \/ timings # next.timings
  IN  /\ pc = "reading" /\ who = "transcript" /\ pc' = "appending"
      /\ out' = IF stale THEN events[told \ others] ELSE << >>
      /\ next' = IF told = {} THEN [next EXCEPT !.timings = timings]
                 ELSE [next EXCEPT !.told = told, !.timings = timings]
      /\ UNCHANGED <<sources, log, files, who, seen, others, faults>>

\* parseCodebuddyLog: a request waits for the credit of its turn, and a credit
\* that no request waits for for the next request of its turn.
NothingParsed == [requests |-> << >>, spare |-> << >>]

First(S) == CHOOSE i \in S : \A j \in S : i <= j
Without(s, i) == SubSeq(s, 1, i - 1) \o SubSeq(s, i + 1, Len(s))

ParseEnd(s, l) ==
  LET mine == {i \in DOMAIN s.spare : s.spare[i].turn = l.turn}
  IN  IF mine = {}
        THEN [s EXCEPT !.requests = Append(@, [request |-> l.request, turn |-> l.turn, credit |-> 0])]
        ELSE [requests |-> Append(s.requests, [request |-> l.request, turn |-> l.turn,
                                               credit |-> s.spare[First(mine)].credit]),
              spare |-> Without(s.spare, First(mine))]

ParseCredit(s, l) ==
  LET waiting == {i \in DOMAIN s.requests :
                    s.requests[i].turn = l.turn /\ s.requests[i].credit = 0}
  IN  IF waiting = {}
        THEN [s EXCEPT !.spare = Append(@, [turn |-> l.turn, credit |-> l.request])]
        ELSE [s EXCEPT !.requests[First(waiting)].credit = l.request]

Parse(from, to) ==
  LET scan[i \in from .. to] ==
        IF i = from THEN NothingParsed
        ELSE IF Lines[i].type = "end" THEN ParseEnd(scan[i - 1], Lines[i])
        ELSE ParseCredit(scan[i - 1], Lines[i])
  IN  scan[to].requests

\* readLogTail: from the overlap before the cursor to the end.
ReadCliLog ==
  LET from == IF next.line > Overlap THEN next.line - Overlap ELSE 0
      parsed == SelectSeq(Parse(from, size), LAMBDA p : p.request \notin others)
      event(p) == Usage(p.request, {"credit"} \cap {d \in Details : p.credit > 0}, p.credit)
  IN  /\ pc = "reading" /\ who = "cli" /\ pc' = "appending"
      /\ out' = IF size = next.line THEN << >> ELSE [i \in DOMAIN parsed |-> event(parsed[i])]
      /\ next' = [next EXCEPT !.line = size]
      /\ UNCHANGED <<sources, log, files, who, seen, others, faults>>

\* appendIfNew: an event is appended again when it brings a new detail.
Unseen == SelectSeq(out, LAMBDA e : ~ (KeysOf(e) \subseteq seen))

AppendIfNew ==
  LET e == Head(Unseen)
  IN  /\ pc = "appending" /\ Unseen # << >>
      /\ counted' = [counted EXCEPT ![e.request] = @ \cup {who}]
      /\ again' = again \cup {r \in {e.request} :
                                /\ who \in counted[r] /\ Key(r, "usage") \notin seen}
      /\ credits' = [credits EXCEPT ![e.request] = @ \cup {c \in {e.credit} : c > 0}]
      /\ seen' = seen \cup KeysOf(e)
      /\ UNCHANGED <<sources, files, who, pc, others, next, out, faults>>

SaveCursor ==
  /\ pc = "appending" /\ Unseen = << >> /\ pc' = "saving"
  /\ cursors' = [cursors EXCEPT ![who] = next]
  /\ out' = << >>
  /\ UNCHANGED <<sources, log, ledgers, who, seen, others, next, faults>>

Forget ==
  /\ who' = NoFile /\ pc' = "idle" /\ seen' = {} /\ others' = {} /\ next' = NoFile
  /\ out' = << >>

SaveLedger ==
  /\ pc = "saving"
  /\ ledgers' = [ledgers EXCEPT ![who] = seen]
  /\ Forget
  /\ UNCHANGED <<sources, log, cursors, faults>>

\* The sync throws or dies; the file it was saving may be missing afterwards.
SyncFails ==
  /\ pc # "idle" /\ faults < MaxFaults /\ faults' = faults + 1
  /\ cursors' \in {cursors, IF pc = "appending" /\ Unseen = << >>
                              THEN [cursors EXCEPT ![who] = NoFile] ELSE cursors}
  /\ ledgers' \in {ledgers, IF pc = "saving" /\ seen # ledgers[who]
                              THEN [ledgers EXCEPT ![who] = {}] ELSE ledgers}
  /\ Forget
  /\ UNCHANGED <<sources, log>>

SyncStep == ReadTranscript \/ ReadCliLog \/ AppendIfNew \/ SaveCursor \/ SaveLedger

Next ==
  \/ WriteLine \/ (\E r \in Requests : Tell(r))
  \/ (\E a \in Adapters : Start(a)) \/ SyncStep \/ SyncFails

Spec == Init /\ [][Next]_vars

-----------------------------------------------------------------------------
(* What Ingestion sees of it: a request is due in either source, and repeated *)
(* when both adapters have counted it.                                        *)

Events == [request : Requests, detail : {"usage"}]
EventsOf(requests) == {e \in Events : e.request \in requests}

Written == EventsOf(Ends(size) \cup told)
Landed == EventsOf({r \in Requests : counted[r] # {}})
Repeated == EventsOf(again \cup {r \in Requests : counted[r] = Adapters})
Done ==
  EventsOf((IF cursors["cli"] = NoFile THEN {} ELSE Ends(cursors["cli"].line))
             \cup (IF cursors["transcript"] = NoFile THEN {} ELSE cursors["transcript"].told))
Due == Written

Cursors == [told : SUBSET Requests, timings : SUBSET Requests, line : 0..Len(Lines)]

TypeOK ==
  /\ size \in 0..Len(Lines) /\ told \in SUBSET Requests
  /\ counted \in [Requests -> SUBSET Adapters] /\ again \in SUBSET Requests
  /\ credits \in [Requests -> SUBSET Requests]
  /\ cursors \in [Adapters -> Cursors \cup {NoFile}]
  /\ ledgers \in [Adapters -> SUBSET LedgerKeys]
  /\ who \in Adapters \cup {NoFile} /\ pc \in {"idle", "reading", "appending", "saving"}
  /\ seen \in SUBSET LedgerKeys /\ others \in SUBSET Requests
  /\ next \in Cursors \cup {NoFile} /\ faults \in 0..MaxFaults
  /\ out \in Seq([request : Requests, details : SUBSET Details, credit : {0} \cup Requests])

\* codebuddy-log.ts:73: "the paired credit must be attached to that same record":
\* no request is reported with the credit of another one.
OwnCredit == \A r \in Requests : credits[r] \subseteq {r}
=============================================================================
