----------------------------- MODULE HookPipeline -----------------------------
(***************************************************************************)
(* The hook pipeline of the CLI (apps/cli/src/hooks).  Claude runs          *)
(* `hooks collect` before and after each tool call; a collector appends one *)
(* raw line and keeps, in a snapshot file, what a file held before the tool *)
(* changed it.  Parsers (`hooks parse`, `hooks parse --follow`, and the     *)
(* desktop's) turn raw lines into events of the canonical log, one pass at  *)
(* a time, under a lock file that is broken once it is 30 s old; the number *)
(* of lines that are done is kept in a state file.                          *)
(*                                                                         *)
(* Abstracted: what a line says besides its tool call and hook; the many    *)
(* files of a workspace are one, and its content is the set of tool calls   *)
(* that changed it; MAX_SEEN_RAW_EVENT_IDS, which the bounded log does not  *)
(* reach; the transcripts, of which only the call that syncs them is kept   *)
(* (see TranscriptSync).  A line longer than one write is seen half written;*)
(* two collectors do not write into each other's line.                      *)
(***************************************************************************)
EXTENDS Naturals, Sequences, FiniteSets

CONSTANTS
  Tools,         \* tool calls, each with its own tool_use_id
  Mutating,      \* those with mutation targets (extractMutationTargets)
  Parsers,       \* processes that parse
  FlushInterval, \* PARSER_STATE_FLUSH_INTERVAL
  MaxLines,      \* bound: raw lines
  MaxFaults,     \* bound: deaths, throws, and locks that age under their owner
  NULL

\* What parser-state.json and parser-state.lock can hold.
States == [next : 0..MaxLines, seen : SUBSET (1..MaxLines)]
Locks == [owner : Parsers, stale : BOOLEAN]

ASSUME HookAssumption ==
  /\ Mutating \subseteq Tools
  /\ FlushInterval \in Nat \ {0}
  /\ MaxLines \in Nat /\ MaxFaults \in Nat
  /\ NULL \notin States /\ NULL \notin Locks /\ \A s \in SUBSET Tools : s # NULL

Hooks == {"PreToolUse", "PostToolUse", "PostToolUseFailure"}
Lines == [tool : Tools, hook : Hooks]

VARIABLES
  stage,      \* how far Claude and the collectors are with a tool call
  raw,        \* the raw hook log
  half,       \* the last raw line is not written to its end
  content,    \* the workspace file: the tool calls that changed it
  snapshot,   \* the snapshot files
  copies,     \* the canonical log: events of each raw line: 0, 1 or more
  edits,      \* the canonical log: the changes its edit events of a call name
  saved,      \* parser-state.json; NULL while it is cut to nothing
  lock,       \* parser-state.lock
  pc, mem,    \* the passes
  misread,    \* history: raw lines a pass took when they were half written
  faults

claude == <<stage, raw, half, content>>
log    == <<copies, edits>>
pass   == <<pc, mem>>
vars   == <<claude, snapshot, log, saved, lock, pass, misread, faults>>

Empty == [next |-> 0, seen |-> {}]

\* What a pass remembers: the state it works on, the lines it read, how many it
\* has done, the change it found and the state it is writing.
NoPass == [next |-> 0, seen |-> {}, end |-> 0, cut |-> FALSE, done |-> 0,
           change |-> {}, out |-> Empty]

Init ==
  /\ stage = [t \in Tools |-> "new"] /\ raw = << >> /\ half = FALSE /\ content = {}
  /\ snapshot = [t \in Tools |-> NULL]
  /\ copies = [i \in 1..MaxLines |-> 0] /\ edits = [t \in Tools |-> {}]
  /\ saved = Empty /\ lock = NULL
  /\ pc = [p \in Parsers |-> "idle"] /\ mem = [p \in Parsers |-> NoPass]
  /\ misread = {} /\ faults = 0

-----------------------------------------------------------------------------
(* Claude and the collectors.  Claude waits for the hooks of a tool call. *)

\* appendJsonLine: one write, or several that a reader can see between.
AppendRaw(t, hook, next) ==
  /\ ~half /\ Len(raw) < MaxLines
  /\ raw' = Append(raw, [tool |-> t, hook |-> hook])
  /\ \/ half' = FALSE /\ faults' = faults
     \/ half' = TRUE /\ faults < MaxFaults /\ faults' = faults + 1
  /\ stage' = [stage EXCEPT ![t] = next]

RestOfLine ==
  /\ half
  /\ half' = FALSE
  /\ UNCHANGED <<stage, raw, content, snapshot, log, saved, lock, pass, misread, faults>>

CollectPre(t) ==
  /\ stage[t] = "new"
  /\ AppendRaw(t, "PreToolUse", "capture")
  /\ UNCHANGED <<content, snapshot, log, saved, lock, pass, misread>>

\* extractMutationTargets.
HasTargets(t) == t \in Mutating

\* captureBeforeSnapshots.
Capture(t) ==
  /\ stage[t] = "capture" /\ ~half
  /\ snapshot' = [snapshot EXCEPT ![t] = IF HasTargets(t) THEN content ELSE NULL]
  /\ stage' = [stage EXCEPT ![t] = "running"]
  /\ UNCHANGED <<raw, half, content, log, saved, lock, pass, misread, faults>>

\* The tool changes the file.
Mutate(t) ==
  /\ stage[t] = "running" /\ t \in Mutating \ content
  /\ content' = content \cup {t}
  /\ UNCHANGED <<stage, raw, half, snapshot, log, saved, lock, pass, misread, faults>>

CollectPost(t) ==
  /\ stage[t] = "running" /\ t \notin Mutating \ content
  /\ AppendRaw(t, "PostToolUse", "done")
  /\ UNCHANGED <<content, snapshot, log, saved, lock, pass, misread>>

\* A call may fail before it changes the file or after.
CollectFailure(t) ==
  /\ stage[t] = "running"
  /\ AppendRaw(t, "PostToolUseFailure", "failed")
  /\ UNCHANGED <<content, snapshot, log, saved, lock, pass, misread>>

\* discardSnapshots.
Discard(t) ==
  /\ stage[t] = "failed" /\ ~half
  /\ snapshot' = [snapshot EXCEPT ![t] = NULL]
  /\ stage' = [stage EXCEPT ![t] = "done"]
  /\ UNCHANGED <<raw, half, content, log, saved, lock, pass, misread, faults>>

\* The collector is killed after its line: nothing is captured or discarded.
CollectorDies(t) ==
  /\ stage[t] \in {"capture", "failed"} /\ ~half
  /\ faults < MaxFaults /\ faults' = faults + 1
  /\ stage' = [stage EXCEPT ![t] = IF stage[t] = "capture" THEN "running" ELSE "done"]
  /\ UNCHANGED <<raw, half, content, snapshot, log, saved, lock, pass, misread>>

-----------------------------------------------------------------------------
(* The lock file. *)

Working(p) == pc[p] \notin {"idle", "breaking"}

TakeLockBlind(p) ==
  /\ pc[p] = "idle"
  /\ lock' = [owner |-> p, stale |-> FALSE]
  /\ pc' = [pc EXCEPT ![p] = "load"]
  /\ UNCHANGED <<claude, snapshot, log, saved, mem, misread, faults>>

TakeLock(p) ==
  /\ pc[p] = "idle" /\ lock = NULL
  /\ lock' = [owner |-> p, stale |-> FALSE]
  /\ pc' = [pc EXCEPT ![p] = "load"]
  /\ UNCHANGED <<claude, snapshot, log, saved, mem, misread, faults>>

FindStaleNever(p) ==
  /\ pc[p] = "idle" /\ lock # NULL /\ lock.stale /\ Working(lock.owner)
  /\ pc' = [pc EXCEPT ![p] = "breaking"]
  /\ UNCHANGED <<claude, snapshot, log, saved, lock, mem, misread, faults>>

\* isStaleParserLock; a lock that is not stale ends the call.
FindStale(p) ==
  /\ pc[p] = "idle" /\ lock # NULL /\ lock.stale
  /\ pc' = [pc EXCEPT ![p] = "breaking"]
  /\ UNCHANGED <<claude, snapshot, log, saved, lock, mem, misread, faults>>

\* The rm, which removes whatever lock is there by now.
BreakLock(p) ==
  /\ pc[p] = "breaking"
  /\ lock' = NULL
  /\ pc' = [pc EXCEPT ![p] = "idle"]
  /\ UNCHANGED <<claude, snapshot, log, saved, mem, misread, faults>>

Abandoned == lock # NULL /\ ~ Working(lock.owner)

\* STALE_PARSER_LOCK_MS pass; a fault when its owner is still at work.
LockAges ==
  /\ lock # NULL /\ ~ lock.stale
  /\ lock' = [lock EXCEPT !.stale = TRUE]
  /\ \/ Abandoned /\ faults' = faults
     \/ ~ Abandoned /\ faults < MaxFaults /\ faults' = faults + 1
  /\ UNCHANGED <<claude, snapshot, log, saved, pass, misread>>

-----------------------------------------------------------------------------
(* A pass: parseRawHooksOnce. *)

Goto(p, from, to) == pc[p] = from /\ pc' = [pc EXCEPT ![p] = to]
Keep(p, m) == mem' = [mem EXCEPT ![p] = m]
Index(p) == mem[p].next + 1

\* loadParserState: what cannot be parsed counts as nothing done.
Loaded == IF saved = NULL THEN Empty ELSE saved

LoadState(p) ==
  /\ Goto(p, "load", "read")
  /\ Keep(p, [NoPass EXCEPT !.next = Loaded.next, !.seen = Loaded.seen])
  /\ UNCHANGED <<claude, snapshot, log, saved, lock, misread, faults>>

ReadRaw(p) ==
  /\ Goto(p, "read", "line")
  /\ Keep(p, [mem[p] EXCEPT !.end = Len(raw), !.cut = half])
  /\ UNCHANGED <<claude, snapshot, log, saved, lock, misread, faults>>

\* saveParserStatePeriodically.
AfterLine(done) == IF done % FlushInterval = 0 THEN "flush" ELSE "line"

Counted(m) == [m EXCEPT !.next = m.next + 1, !.done = m.done + 1, !.change = {}]

HasLine(p) == mem[p].next < mem[p].end
Unparsable(p) == mem[p].cut /\ Index(p) = mem[p].end

\* A line that cannot be parsed or was seen before is counted all the same.
SkipLine(p) ==
  /\ HasLine(p)
  /\ Unparsable(p) \/ Index(p) \in mem[p].seen
  /\ Goto(p, "line", AfterLine(mem[p].done + 1))
  /\ Keep(p, Counted(mem[p]))
  /\ misread' = IF Unparsable(p) THEN misread \cup {Index(p)} ELSE misread
  /\ UNCHANGED <<claude, snapshot, log, saved, lock, faults>>

AppendEvent(p) ==
  /\ HasLine(p)
  /\ ~ Unparsable(p) /\ Index(p) \notin mem[p].seen
  /\ Goto(p, "line", IF raw[Index(p)].hook = "PostToolUse" THEN "collect" ELSE "record")
  /\ copies' = [copies EXCEPT ![Index(p)] = IF @ = 0 THEN 1 ELSE 2]
  /\ UNCHANGED <<claude, snapshot, edits, saved, lock, mem, misread, faults>>

CompareReversed(p) ==
  LET t == raw[Index(p)].tool
  IN  /\ Goto(p, "collect", IF snapshot[t] = NULL THEN "record" ELSE "unlink")
      /\ Keep(p, [mem[p] EXCEPT !.change = IF snapshot[t] = NULL THEN {}
                                           ELSE snapshot[t] \ content])
      /\ UNCHANGED <<claude, snapshot, log, saved, lock, misread, faults>>

\* collectChangedSnapshots compares the snapshot with the file as it is now ...
Compare(p) ==
  LET t == raw[Index(p)].tool
  IN  /\ Goto(p, "collect", IF snapshot[t] = NULL THEN "record" ELSE "unlink")
      /\ Keep(p, [mem[p] EXCEPT !.change = IF snapshot[t] = NULL THEN {}
                                           ELSE content \ snapshot[t]])
      /\ UNCHANGED <<claude, snapshot, log, saved, lock, misread, faults>>

\* ... and removes it,
Unlink(p) ==
  /\ Goto(p, "unlink", IF mem[p].change = {} THEN "record" ELSE "edit")
  /\ snapshot' = [snapshot EXCEPT ![raw[Index(p)].tool] = NULL]
  /\ UNCHANGED <<claude, log, saved, lock, mem, misread, faults>>

\* before the edit event is in the log.
AppendEdit(p) ==
  /\ Goto(p, "edit", "record")
  /\ edits' = [edits EXCEPT ![raw[Index(p)].tool] = @ \cup mem[p].change]
  /\ UNCHANGED <<claude, snapshot, copies, saved, lock, mem, misread, faults>>

\* The line is done.  The reference to its transcript is recorded or, when the
\* lock of the manifest is taken, not: the pass goes on in any case.
Record(p) ==
  /\ Goto(p, "record", AfterLine(mem[p].done + 1))
  /\ Keep(p, [Counted(mem[p]) EXCEPT !.seen = @ \cup {Index(p)}])
  /\ UNCHANGED <<claude, snapshot, log, saved, lock, misread, faults>>

MergedStateAhead(m) ==
  [next |-> IF Loaded.next > m.end THEN Loaded.next ELSE m.end,
   seen |-> Loaded.seen \cup m.seen]

MergedStateSum(m) ==
  [next |-> Loaded.next + m.next, seen |-> Loaded.seen \cup m.seen]

\* mergeParserState.
MergedState(m) ==
  [next |-> IF Loaded.next > m.next THEN Loaded.next ELSE m.next,
   seen |-> Loaded.seen \cup m.seen]

\* saveParserState: the merged state is in hand when writeFile cuts the file.
SaveBegins(p) ==
  /\ \/ Goto(p, "flush", "flushing")
     \/ Goto(p, "line", "finishing") /\ ~ HasLine(p)
  /\ Keep(p, [mem[p] EXCEPT !.out = MergedState(mem[p])])
  /\ saved' = NULL
  /\ UNCHANGED <<claude, snapshot, log, lock, misread, faults>>

SaveEnds(p) ==
  /\ pc[p] \in {"flushing", "finishing"}
  /\ Goto(p, pc[p], IF pc[p] = "flushing" THEN "line" ELSE "unlock")
  /\ saved' = mem[p].out
  /\ Keep(p, [mem[p] EXCEPT !.out = Empty])
  /\ UNCHANGED <<claude, snapshot, log, lock, misread, faults>>

\* After syncKnownClaudeTranscripts, whose failure is ignored, the rm of the
\* finally clause, which does not ask whose lock it is.
Unlock(p) ==
  /\ Goto(p, "unlock", "idle")
  /\ lock' = NULL
  /\ Keep(p, NoPass)
  /\ UNCHANGED <<claude, snapshot, log, saved, misread, faults>>

\* A file operation of the pass throws: nothing is saved.
Throw(p) ==
  /\ pc[p] \in {"line", "edit", "flush", "flushing", "finishing"}
  /\ faults < MaxFaults /\ faults' = faults + 1
  /\ pc' = [pc EXCEPT ![p] = "unlock"]
  /\ UNCHANGED <<claude, snapshot, log, saved, lock, mem, misread>>

Die(p) ==
  /\ Working(p)
  /\ faults < MaxFaults /\ faults' = faults + 1
  /\ pc' = [pc EXCEPT ![p] = "idle"]
  /\ Keep(p, NoPass)
  /\ UNCHANGED <<claude, snapshot, log, saved, lock, misread>>

PassStep(p) ==
  \/ LoadState(p) \/ ReadRaw(p) \/ SkipLine(p) \/ AppendEvent(p)
  \/ Compare(p) \/ Unlink(p) \/ AppendEdit(p) \/ Record(p)
  \/ SaveBegins(p) \/ SaveEnds(p) \/ Unlock(p)

ParserStep(p) == TakeLock(p) \/ FindStale(p) \/ BreakLock(p) \/ PassStep(p)

ToolStep(t) ==
  \/ CollectPre(t) \/ Capture(t) \/ Mutate(t)
  \/ CollectPost(t) \/ CollectFailure(t) \/ Discard(t) \/ CollectorDies(t)

Next ==
  \/ \E t \in Tools : ToolStep(t)
  \/ RestOfLine \/ LockAges
  \/ \E p \in Parsers : ParserStep(p) \/ Throw(p) \/ Die(p)

Spec == Init /\ [][Next]_vars

\* followRawHooks calls the pass again and again, whatever it throws, and a
\* write that has begun goes on.
FairSpec ==
  /\ Spec
  /\ WF_vars(RestOfLine) /\ WF_vars(LockAges /\ Abandoned)
  /\ \A p \in Parsers : WF_vars(ParserStep(p))

-----------------------------------------------------------------------------
(* Properties. *)

PassPlaces == {"load", "read", "line", "collect", "unlink", "edit", "record", "flush",
               "flushing", "finishing", "unlock"}

\* Types of the files and of what the passes remember.
TypeOK ==
  /\ stage \in [Tools -> {"new", "capture", "running", "failed", "done"}]
  /\ raw \in Seq(Lines) /\ Len(raw) <= MaxLines /\ half \in BOOLEAN
  /\ content \in SUBSET Tools
  /\ snapshot \in [Tools -> {NULL} \cup SUBSET Tools]
  /\ copies \in [1..MaxLines -> 0..2] /\ edits \in [Tools -> SUBSET Tools]
  /\ saved \in States \cup {NULL}
  /\ lock \in Locks \cup {NULL}
  /\ pc \in [Parsers -> PassPlaces \cup {"idle", "breaking"}]
  /\ mem \in [Parsers -> [next : 0..MaxLines, seen : SUBSET (1..MaxLines),
                          end : 0..MaxLines, cut : BOOLEAN, done : Nat,
                          change : SUBSET Tools, out : States]]
  /\ misread \in SUBSET (1..MaxLines)
  /\ faults \in 0..MaxFaults

\* parser.ts:34: a line the saved state counts as done has its event in the
\* log, or was taken half written.  It holds whatever dies, throws or overlaps,
\* since the state is only ever written after the appends it counts.
DoneLinesLanded ==
  saved # NULL =>
    \A i \in 1..saved.next : copies[i] > 0 \/ i \in misread

\* parser-state.ts:38: two parsers that run at the same time append no event
\* twice, unless one fails or outlives its lock.
RepeatNeedsFailure ==
  faults = 0 => \A i \in 1..MaxLines : copies[i] <= 1

\* snapshots.ts:109: a change made by a call whose PostToolUse line is done is
\* named by its edit event, if nothing failed between capture and append.
EditsReported ==
  faults = 0 /\ saved # NULL =>
    \A i \in 1..saved.next :
      LET t == raw[i].tool
      IN  raw[i].hook = "PostToolUse" /\ t \in content => t \in edits[t]

\* follow.ts:8: again and again the events of all raw lines are in the log,
\* except for lines that were taken half written: no failure and no lock that
\* was left behind stops the parsers for good.
EveryLineLands ==
  []<>(\A i \in 1..Len(raw) : copies[i] > 0 \/ i \in misread)
=============================================================================
