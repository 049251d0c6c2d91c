------------------------- MODULE HookPipelineProofs -------------------------
(***************************************************************************)
(* Proofs about HookPipeline, for any tool calls, parsers, flush interval   *)
(* and bounds.                                                             *)
(*                                                                         *)
(* What holds whatever fails is Landed: each state that a pass loads, has  *)
(* or saves stands for lines whose events are in the log.  While nothing   *)
(* has failed there is more to say.  Calm: one pass works at a time, and   *)
(* the copies in the log are those of the lines it has done and the one it *)
(* has in hand.  Traced: the change of a call is in its snapshot, then in  *)
(* the hand of the pass, then in the log.                                  *)
(***************************************************************************)
EXTENDS HookPipeline, TLAPS

\* Where a pass has a line in hand whose event it has appended.
InHand == {"collect", "unlink", "edit", "record"}

Typed ==
  /\ TypeOK
  /\ \A p \in Parsers : pc[p] \in InHand => mem[p].next < mem[p].end

\* The lines below next + 1 and those in seen have an event in the log, or were
\* taken half written.
Backed(next, seen, c, m) ==
  \A i \in 1..MaxLines : i <= next \/ i \in seen => c[i] > 0 \/ i \in m

Sound(st) == Backed(st.next, st.seen, copies, misread)

\* True of the saved state, of the state each pass works on, of the one it is
\* writing, and of the line it has in hand.
Landed ==
  /\ Sound(Loaded)
  /\ \A p \in Parsers :
       /\ Sound(mem[p]) /\ Sound(mem[p].out)
       /\ pc[p] \in InHand => copies[Index(p)] > 0

USE HookAssumption DEF HookAssumption

-----------------------------------------------------------------------------
(* Types. *)

MemType == [next : 0..MaxLines, seen : SUBSET (1..MaxLines),
            end : 0..MaxLines, cut : BOOLEAN, done : Nat,
            change : SUBSET Tools, out : States]

LEMMA NoPassType == NoPass \in MemType /\ Empty \in States
BY DEF NoPass, Empty, MemType, States

LEMMA InitTypes == Init => Typed
<1> SUFFICES ASSUME Init PROVE Typed
  OBVIOUS
<1>1. stage \in [Tools -> {"new", "capture", "running", "failed", "done"}]
  BY DEF Init
<1>2. raw \in Seq(Lines) /\ Len(raw) <= MaxLines
  BY DEF Init
<1>8. half \in BOOLEAN
  BY Zenon DEF Init
<1>3. copies \in [1..MaxLines -> 0..2] /\ edits \in [Tools -> SUBSET Tools]
  BY DEF Init
<1>4. snapshot \in [Tools -> {NULL} \cup SUBSET Tools]
  BY DEF Init
<1>5. mem \in [Parsers -> MemType] /\ saved \in States
  BY NoPassType DEF Init
<1>6. pc \in [Parsers -> PassPlaces \cup {"idle", "breaking"}]
  BY DEF Init
<1>7. \A p \in Parsers : pc[p] \notin InHand
  BY DEF Init, InHand
<1> QED
  BY <1>1, <1>2, <1>3, <1>4, <1>5, <1>6, <1>7, <1>8 DEF Init, Typed, TypeOK, MemType

\* A step of a collector leaves the parsers alone.
LEMMA ToolTypes ==
  ASSUME Typed, NEW t \in Tools, ToolStep(t)
  PROVE  Typed'
<1>1. ASSUME NEW hook \in Hooks, NEW next \in {"capture", "done", "failed"},
             AppendRaw(t, hook, next)
      PROVE  /\ raw' \in Seq(Lines) /\ Len(raw') <= MaxLines
             /\ half' \in BOOLEAN /\ faults' \in 0..MaxFaults
             /\ stage' \in [Tools -> {"new", "capture", "running", "failed", "done"}]
  <2>1. [tool |-> t, hook |-> hook] \in Lines
    BY DEF Lines
  <2>2. raw' \in Seq(Lines) /\ Len(raw') <= MaxLines
    BY <1>1, <2>1 DEF AppendRaw, Typed, TypeOK
  <2>3. half' \in BOOLEAN
    BY <1>1, Zenon DEF AppendRaw
  <2>4. faults' \in 0..MaxFaults
    BY <1>1 DEF AppendRaw, Typed, TypeOK
  <2> QED
    BY <1>1, <2>2, <2>3, <2>4 DEF AppendRaw, Typed, TypeOK
<1>2. CASE CollectPre(t)
  BY <1>1, <1>2 DEF CollectPre, Typed, TypeOK, log, pass, Hooks
<1>3. CASE Capture(t)
  BY <1>3 DEF Capture, Typed, TypeOK, log, pass
<1>4. CASE Mutate(t)
  BY <1>4 DEF Mutate, Typed, TypeOK, log, pass
<1>5. CASE CollectPost(t)
  BY <1>1, <1>5 DEF CollectPost, Typed, TypeOK, log, pass, Hooks
<1>6. CASE CollectFailure(t)
  BY <1>1, <1>6 DEF CollectFailure, Typed, TypeOK, log, pass, Hooks
<1>7. CASE Discard(t)
  BY <1>7 DEF Discard, Typed, TypeOK, log, pass
<1>8. CASE CollectorDies(t)
  BY <1>8 DEF CollectorDies, Typed, TypeOK, log, pass
<1> QED
  BY <1>2, <1>3, <1>4, <1>5, <1>6, <1>7, <1>8 DEF ToolStep

\* What a pass does to its memory keeps the types of it.
LEMMA MemStep ==
  ASSUME Typed, NEW p \in Parsers, NEW m \in MemType, Keep(p, m),
         NEW to \in PassPlaces \cup {"idle", "breaking"}, pc' = [pc EXCEPT ![p] = to],
         to \in InHand => m.next < m.end
  PROVE  /\ mem' \in [Parsers -> MemType]
         /\ pc' \in [Parsers -> PassPlaces \cup {"idle", "breaking"}]
         /\ \A q \in Parsers : pc'[q] \in InHand => mem'[q].next < mem'[q].end
BY DEF Typed, TypeOK, MemType, Keep

LEMMA CountedType ==
  ASSUME NEW m \in MemType, m.next < m.end
  PROVE  Counted(m) \in MemType
<1>1. m.next \in 0..MaxLines /\ m.end \in 0..MaxLines /\ m.done \in Nat
  BY DEF MemType
<1>2. m.next + 1 \in 0..MaxLines /\ m.done + 1 \in Nat
  BY <1>1
<1> QED
  BY <1>2 DEF Counted, MemType

LEMMA AfterLinePlace == \A n : AfterLine(n) \in {"flush", "line"}
BY DEF AfterLine

LEMMA MergedType ==
  ASSUME Typed, NEW m \in MemType
  PROVE  MergedState(m) \in States
BY NoPassType DEF MergedState, MemType, States, Loaded, Empty, Typed, TypeOK

LEMMA PassTypes ==
  ASSUME Typed, NEW p \in Parsers, PassStep(p)
  PROVE  Typed'
<1> USE DEF claude, log
<1> DEFINE Good ==
      /\ mem' \in [Parsers -> MemType]
      /\ pc' \in [Parsers -> PassPlaces \cup {"idle", "breaking"}]
      /\ \A q \in Parsers : pc'[q] \in InHand => mem'[q].next < mem'[q].end
<1>m. mem[p] \in MemType
  BY DEF Typed, TypeOK, MemType
<1>n. mem[p].next \in 0..MaxLines /\ mem[p].end \in 0..MaxLines
      /\ mem[p].out \in States /\ mem[p].seen \subseteq 1..MaxLines
  BY <1>m DEF MemType
<1>i. HasLine(p) => Index(p) \in 1..MaxLines
  BY <1>n DEF HasLine, Index
<1>1. CASE LoadState(p)
  <2>1. [NoPass EXCEPT !.next = Loaded.next, !.seen = Loaded.seen] \in MemType
    BY NoPassType DEF NoPass, MemType, Loaded, Empty, States, Typed, TypeOK
  <2>2. Good
    BY <1>1, <2>1, MemStep DEF LoadState, Goto, PassPlaces, InHand
  <2> QED
    BY <1>1, <2>2 DEF LoadState, Typed, TypeOK, MemType
<1>2. CASE ReadRaw(p)
  <2>1. [mem[p] EXCEPT !.end = Len(raw), !.cut = half] \in MemType
    <3>1. Len(raw) \in 0..MaxLines /\ half \in BOOLEAN
      BY DEF Typed, TypeOK
    <3> QED
      BY <1>m, <3>1 DEF MemType
  <2>2. Good
    BY <1>2, <2>1, MemStep DEF ReadRaw, Goto, PassPlaces, InHand
  <2> QED
    BY <1>2, <2>2 DEF ReadRaw, Typed, TypeOK, MemType
<1>3. CASE SkipLine(p)
  <2>1. Counted(mem[p]) \in MemType
    BY <1>3, <1>m, CountedType DEF SkipLine, HasLine
  <2>2. Good
    BY <1>3, <2>1, MemStep, AfterLinePlace DEF SkipLine, Goto, PassPlaces, InHand
  <2>3. misread' \in SUBSET (1..MaxLines)
    BY <1>3, <1>i DEF SkipLine, Typed, TypeOK
  <2> QED
    BY <1>3, <2>2, <2>3 DEF SkipLine, Typed, TypeOK, MemType
<1>4. CASE AppendEvent(p)
  <2>1. Keep(p, mem[p])
    BY <1>4 DEF AppendEvent, Keep, Typed, TypeOK
  <2>2. Good
    BY <1>4, <1>m, <2>1, MemStep DEF AppendEvent, Goto, PassPlaces, InHand, HasLine
  <2>3. copies' \in [1..MaxLines -> 0..2]
    <3>1. (IF copies[Index(p)] = 0 THEN 1 ELSE 2) \in 0..2
      OBVIOUS
    <3> QED
      BY <1>4, <3>1 DEF AppendEvent, Typed, TypeOK
  <2> QED
    BY <1>4, <2>2, <2>3 DEF AppendEvent, Typed, TypeOK, MemType
<1>5. CASE Compare(p)
  <2> DEFINE t == raw[Index(p)].tool
             c == IF snapshot[t] = NULL THEN {} ELSE content \ snapshot[t]
             m == [mem[p] EXCEPT !.change = c]
  <2>1. m \in MemType /\ m.next = mem[p].next /\ m.end = mem[p].end
    <3>1. c \in SUBSET Tools
      BY DEF Typed, TypeOK
    <3> QED
      BY <1>m, <3>1 DEF MemType
  <2>2. Keep(p, m) /\ pc[p] \in InHand
        /\ pc' = [pc EXCEPT ![p] = IF snapshot[t] = NULL THEN "record" ELSE "unlink"]
    BY <1>5 DEF Compare, Goto, InHand
  <2>3. m.next < m.end
    BY <2>1, <2>2 DEF Typed
  <2> HIDE DEF m, t, c
  <2>4. Good
    BY <2>1, <2>2, <2>3, MemStep DEF PassPlaces
  <2> QED
    BY <1>5, <2>4 DEF Compare, Typed, TypeOK, MemType
<1>6. CASE Unlink(p)
  <2>1. Keep(p, mem[p]) /\ mem[p].next < mem[p].end
    BY <1>6 DEF Unlink, Goto, Keep, Typed, TypeOK, InHand
  <2>2. Good
    BY <1>6, <1>m, <2>1, MemStep DEF Unlink, Goto, PassPlaces
  <2> QED
    BY <1>6, <2>2 DEF Unlink, Typed, TypeOK, MemType
<1>7. CASE AppendEdit(p)
  <2>1. Keep(p, mem[p]) /\ mem[p].next < mem[p].end
    BY <1>7 DEF AppendEdit, Goto, Keep, Typed, TypeOK, InHand
  <2>2. Good
    BY <1>7, <1>m, <2>1, MemStep DEF AppendEdit, Goto, PassPlaces
  <2>3. edits' \in [Tools -> SUBSET Tools]
    BY <1>7, <1>m DEF AppendEdit, Typed, TypeOK, MemType
  <2> QED
    BY <1>7, <2>2, <2>3 DEF AppendEdit, Typed, TypeOK, MemType
<1>8. CASE Record(p)
  <2>1. mem[p].next < mem[p].end
    BY <1>8 DEF Record, Goto, Typed, InHand
  <2>2. Counted(mem[p]) \in MemType /\ Index(p) \in 1..MaxLines
    BY <1>m, <1>n, <2>1, CountedType DEF Index
  <2>3. [Counted(mem[p]) EXCEPT !.seen = @ \cup {Index(p)}] \in MemType
    BY <2>2 DEF MemType
  <2>4. Good
    BY <1>8, <2>3, MemStep, AfterLinePlace DEF Record, Goto, PassPlaces, InHand
  <2> QED
    BY <1>8, <2>4 DEF Record, Typed, TypeOK, MemType
<1>9. CASE SaveBegins(p)
  <2>1. [mem[p] EXCEPT !.out = MergedState(mem[p])] \in MemType
    BY <1>m, MergedType DEF MemType
  <2>2. Good
    BY <1>9, <2>1, MemStep DEF SaveBegins, Goto, PassPlaces, InHand
  <2> QED
    BY <1>9, <2>2 DEF SaveBegins, Typed, TypeOK, MemType
<1>10. CASE SaveEnds(p)
  <2>1. [mem[p] EXCEPT !.out = Empty] \in MemType
    BY <1>m, NoPassType DEF MemType
  <2>2. Good
    BY <1>10, <2>1, MemStep DEF SaveEnds, Goto, PassPlaces, InHand
  <2> QED
    BY <1>10, <1>n, <2>2 DEF SaveEnds, Typed, TypeOK, MemType
<1>11. CASE Unlock(p)
  <2>1. Good
    BY <1>11, NoPassType, MemStep DEF Unlock, Goto, InHand
  <2> QED
    BY <1>11, <2>1 DEF Unlock, Typed, TypeOK, MemType
<1> QED
  BY <1>1, <1>2, <1>3, <1>4, <1>5, <1>6, <1>7, <1>8, <1>9, <1>10, <1>11 DEF PassStep

LEMMA NextTypes == Typed /\ [Next]_vars => Typed'
<1> SUFFICES ASSUME Typed, [Next]_vars PROVE Typed'
  OBVIOUS
<1> USE DEF claude, log, pass
<1>1. ASSUME NEW t \in Tools, ToolStep(t) PROVE Typed'
  BY <1>1, ToolTypes
<1>2. CASE RestOfLine
  BY <1>2 DEF RestOfLine, Typed, TypeOK
<1>3. CASE LockAges
  <2>1. lock' \in Locks
    BY <1>3 DEF LockAges, Typed, TypeOK, Locks
  <2> QED
    BY <1>3, <2>1 DEF LockAges, Typed, TypeOK
<1>4. ASSUME NEW p \in Parsers, TakeLock(p) PROVE Typed'
  <2>1. lock' \in Locks
    BY <1>4 DEF TakeLock, Locks
  <2> QED
    BY <1>4, <2>1 DEF TakeLock, Typed, TypeOK, PassPlaces, InHand
<1>5. ASSUME NEW p \in Parsers, FindStale(p) PROVE Typed'
  BY <1>5 DEF FindStale, Typed, TypeOK, InHand
<1>6. ASSUME NEW p \in Parsers, BreakLock(p) PROVE Typed'
  BY <1>6 DEF BreakLock, Typed, TypeOK, InHand
<1>7. ASSUME NEW p \in Parsers, PassStep(p) PROVE Typed'
  BY <1>7, PassTypes
<1>8. ASSUME NEW p \in Parsers, Throw(p) PROVE Typed'
  BY <1>8 DEF Throw, Typed, TypeOK, PassPlaces, InHand
<1>9. ASSUME NEW p \in Parsers, Die(p) PROVE Typed'
  <2>1. mem' \in [Parsers -> MemType]
    BY <1>9, NoPassType DEF Die, Keep, Typed, TypeOK, MemType
  <2>2. \A q \in Parsers : pc'[q] \in InHand => mem'[q].next < mem'[q].end
    BY <1>9 DEF Die, Keep, Typed, TypeOK, InHand
  <2>3. pc' \in [Parsers -> PassPlaces \cup {"idle", "breaking"}]
        /\ faults' \in 0..MaxFaults
    BY <1>9 DEF Die, Typed, TypeOK
  <2> QED
    BY <1>9, <2>1, <2>2, <2>3 DEF Die, Typed, TypeOK, MemType
<1>10. CASE UNCHANGED vars
  BY <1>10 DEF vars, Typed, TypeOK
<1> QED
  BY <1>1, <1>2, <1>3, <1>4, <1>5, <1>6, <1>7, <1>8, <1>9, <1>10 DEF Next, ParserStep

\* Type correctness of the log, the files and the passes.
THEOREM HookTypes == Spec => []TypeOK
<1>1. Typed => TypeOK
  BY DEF Typed
<1> QED
  BY <1>1, InitTypes, NextTypes, PTL DEF Spec

-----------------------------------------------------------------------------
(* Done lines have landed. *)

\* The log and the misread lines only grow.
Grows ==
  /\ \A i \in 1..MaxLines : copies[i] > 0 => copies'[i] > 0
  /\ misread \subseteq misread'

LEMMA BackedGrows ==
  ASSUME Grows, NEW next, NEW seen, Backed(next, seen, copies, misread)
  PROVE  Backed(next, seen, copies', misread')
BY DEF Grows, Backed

LEMMA BackedUnion ==
  ASSUME NEW n1 \in Nat, NEW n2 \in Nat, NEW s1, NEW s2, NEW c, NEW m,
         Backed(n1, s1, c, m), Backed(n2, s2, c, m)
  PROVE  Backed(IF n1 > n2 THEN n1 ELSE n2, s1 \cup s2, c, m)
BY DEF Backed

LEMMA NextGrows == Typed /\ [Next]_vars => Grows
<1> SUFFICES ASSUME Typed, [Next]_vars PROVE Grows
  OBVIOUS
<1> USE DEF log
<1>1. CASE copies' = copies /\ misread' = misread
  BY <1>1 DEF Grows
<1>2. ASSUME NEW t \in Tools, ToolStep(t) PROVE copies' = copies /\ misread' = misread
  BY <1>2 DEF ToolStep, CollectPre, Capture, Mutate, CollectPost, CollectFailure,
              Discard, CollectorDies
<1>3. CASE RestOfLine \/ LockAges \/ UNCHANGED vars
  BY <1>1, <1>3 DEF RestOfLine, LockAges, vars
<1>4. ASSUME NEW p \in Parsers, ParserStep(p) PROVE Grows
  <2>1. CASE SkipLine(p)
    BY <2>1 DEF SkipLine, Grows
  <2>2. CASE AppendEvent(p)
    <3>1. \A i \in 1..MaxLines : copies'[i] = copies[i] \/ copies'[i] = 1 \/ copies'[i] = 2
      BY <2>2 DEF AppendEvent, Typed, TypeOK
    <3> QED
      BY <2>2, <3>1 DEF AppendEvent, Grows
  <2>3. CASE TakeLock(p) \/ FindStale(p) \/ BreakLock(p) \/ LoadState(p) \/ ReadRaw(p)
    BY <1>1, <2>3 DEF TakeLock, FindStale, BreakLock, LoadState, ReadRaw
  <2>4. CASE Compare(p) \/ Unlink(p) \/ AppendEdit(p) \/ Record(p)
    BY <1>1, <2>4 DEF Compare, Unlink, AppendEdit, Record
  <2>5. CASE SaveBegins(p) \/ SaveEnds(p) \/ Unlock(p)
    BY <1>1, <2>5 DEF SaveBegins, SaveEnds, Unlock
  <2> QED
    BY <1>4, <2>1, <2>2, <2>3, <2>4, <2>5 DEF ParserStep, PassStep
<1>5. ASSUME NEW p \in Parsers, Throw(p) \/ Die(p) PROVE Grows
  BY <1>1, <1>5 DEF Throw, Die
<1> QED
  BY <1>1, <1>2, <1>3, <1>4, <1>5 DEF Next

\* The states of the passes but p, and the saved state, when they do not change.
LEMMA OthersSound ==
  ASSUME Landed, Grows, NEW p \in Parsers, Typed,
         \A q \in Parsers \ {p} : mem'[q] = mem[q] /\ pc'[q] = pc[q]
  PROVE  \A q \in Parsers \ {p} :
           /\ Sound(mem[q])' /\ Sound(mem[q].out)'
           /\ (pc[q] \in InHand => copies[Index(q)] > 0)'
<1> TAKE q \in Parsers \ {p}
<1>1. Sound(mem[q])' /\ Sound(mem[q].out)'
  BY BackedGrows DEF Landed, Sound
<1>2. pc[q] \in InHand => Index(q) \in 1..MaxLines
  BY DEF Typed, TypeOK, Index
<1>3. (pc[q] \in InHand => copies[Index(q)] > 0)'
  BY <1>2 DEF Landed, Grows, Index
<1> QED
  BY <1>1, <1>3

\* A step of a pass that leaves the saved state alone keeps Landed when what the
\* pass remembers afterwards is sound.
LEMMA StillLanded ==
  ASSUME Typed, Typed', Landed, Grows, NEW p \in Parsers, saved' = saved,
         \A q \in Parsers \ {p} : mem'[q] = mem[q] /\ pc'[q] = pc[q],
         Sound(mem[p])', Sound(mem[p].out)',
         (pc[p] \in InHand => copies[Index(p)] > 0)'
  PROVE  Landed'
<1>1. Loaded' = Loaded
  BY DEF Loaded
<1>2. Sound(Loaded)'
  BY <1>1, BackedGrows DEF Landed, Sound
<1> QED
  BY <1>2, OthersSound DEF Landed

\* A step that touches neither the passes nor the saved state keeps Landed.
LEMMA IdleLanded ==
  ASSUME Typed, Landed, Grows, saved' = saved, mem' = mem,
         \A p \in Parsers : pc'[p] \in InHand => pc[p] \in InHand
  PROVE  Landed'
<1>1. Loaded' = Loaded
  BY DEF Loaded
<1>2. Sound(Loaded)'
  BY <1>1, BackedGrows DEF Landed, Sound
<1>3. \A p \in Parsers : Sound(mem[p])' /\ Sound(mem[p].out)'
  BY BackedGrows DEF Landed, Sound
<1>4. ASSUME NEW p \in Parsers PROVE (pc[p] \in InHand => copies[Index(p)] > 0)'
  <2>1. pc[p] \in InHand => Index(p) \in 1..MaxLines
    BY DEF Typed, TypeOK, Index
  <2> QED
    BY <2>1 DEF Landed, Grows, Index
<1> QED
  BY <1>2, <1>3, <1>4 DEF Landed

LEMMA EmptySound == \A c, m : Backed(0, {}, c, m)
BY DEF Backed

LEMMA InitLanded == Init => Landed
<1> SUFFICES ASSUME Init PROVE Landed
  OBVIOUS
<1>1. Loaded = Empty
  BY DEF Init, Loaded
<1>2. \A p \in Parsers : mem[p] = NoPass /\ pc[p] = "idle"
  BY DEF Init
<1>3. Sound(Empty) /\ Sound(NoPass) /\ Sound(NoPass.out)
  BY EmptySound DEF Sound, Empty, NoPass
<1> QED
  BY <1>1, <1>2, <1>3 DEF Landed, InHand

LEMMA PassLanded ==
  ASSUME Typed, Typed', Landed, Grows, NEW p \in Parsers, PassStep(p)
  PROVE  Landed'
<1> USE DEF log, claude
<1>m. mem \in [Parsers -> MemType] /\ mem[p] \in MemType
      /\ pc \in [Parsers -> PassPlaces \cup {"idle", "breaking"}]
  BY DEF Typed, TypeOK, MemType
<1>n. mem[p].next \in 0..MaxLines /\ mem[p].end \in 0..MaxLines /\ mem[p].done \in Nat
      /\ mem[p].seen \subseteq 1..MaxLines
  BY <1>m DEF MemType
<1>o. Backed(mem[p].next, mem[p].seen, copies', misread')
      /\ Backed(mem[p].out.next, mem[p].out.seen, copies', misread')
  BY BackedGrows DEF Landed, Sound
<1>l. Backed(Loaded.next, Loaded.seen, copies', misread')
  BY BackedGrows DEF Landed, Sound
<1>h. pc[p] \in InHand => Index(p) \in 1..MaxLines /\ copies'[Index(p)] > 0
  BY <1>n DEF Landed, Grows, Typed, Index
<1>1. CASE LoadState(p)
  <2>1. mem'[p] = [NoPass EXCEPT !.next = Loaded.next, !.seen = Loaded.seen]
        /\ (\A q \in Parsers \ {p} : mem'[q] = mem[q] /\ pc'[q] = pc[q])
        /\ pc'[p] = "read"
    BY <1>1, <1>m DEF LoadState, Keep, Goto
  <2>2. mem'[p].next = Loaded.next /\ mem'[p].seen = Loaded.seen /\ mem'[p].out = Empty
    BY <2>1 DEF NoPass
  <2>3. Sound(mem[p])' /\ Sound(mem[p].out)'
    BY <2>2, <1>l, EmptySound DEF Sound, Empty
  <2> QED
    BY <1>1, <2>1, <2>3, StillLanded DEF LoadState, InHand
<1>2. CASE ReadRaw(p)
  <2>1. mem'[p].next = mem[p].next /\ mem'[p].seen = mem[p].seen /\ mem'[p].out = mem[p].out
        /\ (\A q \in Parsers \ {p} : mem'[q] = mem[q] /\ pc'[q] = pc[q])
        /\ pc'[p] = "line"
    BY <1>2, <1>m DEF ReadRaw, Keep, Goto, MemType
  <2>2. Sound(mem[p])' /\ Sound(mem[p].out)'
    BY <2>1, <1>o DEF Sound
  <2> QED
    BY <1>2, <2>1, <2>2, StillLanded DEF ReadRaw, InHand
<1>3. CASE SkipLine(p)
  <2>1. mem'[p] = Counted(mem[p])
        /\ (\A q \in Parsers \ {p} : mem'[q] = mem[q] /\ pc'[q] = pc[q])
        /\ pc'[p] \in {"flush", "line"}
    BY <1>3, <1>m, AfterLinePlace DEF SkipLine, Keep, Goto
  <2>2. mem'[p].next = mem[p].next + 1 /\ mem'[p].seen = mem[p].seen
        /\ mem'[p].out = mem[p].out
    BY <2>1, <1>m DEF Counted, MemType
  <2>3. Index(p) \in 1..MaxLines /\ Index(p) = mem[p].next + 1
    BY <1>3, <1>n DEF SkipLine, HasLine, Index
  <2>4. copies'[Index(p)] > 0 \/ Index(p) \in misread'
    BY <1>3, <1>o, <2>3 DEF SkipLine, Backed
  <2>5. Backed(mem[p].next + 1, mem[p].seen, copies', misread')
    BY <1>o, <1>n, <2>3, <2>4 DEF Backed
  <2>6. Sound(mem[p])' /\ Sound(mem[p].out)'
    BY <2>2, <2>5, <1>o DEF Sound
  <2> QED
    BY <1>3, <2>1, <2>6, StillLanded DEF SkipLine, InHand
<1>4. CASE AppendEvent(p)
  <2>1. mem' = mem /\ (\A q \in Parsers \ {p} : pc'[q] = pc[q])
    BY <1>4, <1>m DEF AppendEvent, Goto
  <2>2. Index(p) \in 1..MaxLines /\ Index(p)' = Index(p)
    BY <1>4, <1>n, <2>1 DEF AppendEvent, HasLine, Index
  <2>3. copies'[Index(p)] > 0
    BY <1>4, <2>2 DEF AppendEvent, Typed, TypeOK
  <2>4. Sound(mem[p])' /\ Sound(mem[p].out)'
    BY <2>1, <1>o DEF Sound
  <2>5. pc'[p] \in InHand => copies'[Index(p)'] > 0
    BY <2>2, <2>3
  <2>6. saved' = saved
    BY <1>4 DEF AppendEvent
  <2> QED
    BY <2>1, <2>4, <2>5, <2>6, StillLanded
<1>5. CASE Compare(p)
  <2>1. mem'[p].next = mem[p].next /\ mem'[p].seen = mem[p].seen /\ mem'[p].out = mem[p].out
        /\ (\A q \in Parsers \ {p} : mem'[q] = mem[q] /\ pc'[q] = pc[q])
        /\ pc[p] \in InHand
    BY <1>5, <1>m DEF Compare, Keep, Goto, InHand, MemType
  <2>2. Sound(mem[p])' /\ Sound(mem[p].out)' /\ Index(p)' = Index(p)
    BY <2>1, <1>o DEF Sound, Index
  <2>3. pc'[p] \in InHand => copies'[Index(p)'] > 0
    BY <1>h, <2>1, <2>2
  <2>4. saved' = saved
    BY <1>5 DEF Compare
  <2> QED
    BY <2>1, <2>2, <2>3, <2>4, StillLanded
<1>6. CASE Unlink(p) \/ AppendEdit(p)
  <2>1. mem' = mem /\ saved' = saved /\ (\A q \in Parsers : pc'[q] \in InHand => pc[q] \in InHand)
    BY <1>6, <1>m DEF Unlink, AppendEdit, Goto, InHand
  <2> QED
    BY <2>1, IdleLanded
<1>7. CASE Record(p)
  <2>1. mem'[p] = [Counted(mem[p]) EXCEPT !.seen = @ \cup {Index(p)}]
        /\ (\A q \in Parsers \ {p} : mem'[q] = mem[q] /\ pc'[q] = pc[q])
        /\ pc'[p] \in {"flush", "line"} /\ pc[p] \in InHand
    BY <1>7, <1>m, AfterLinePlace DEF Record, Keep, Goto, InHand
  <2>2. mem'[p].next = mem[p].next + 1 /\ mem'[p].seen = mem[p].seen \cup {Index(p)}
        /\ mem'[p].out = mem[p].out
    BY <2>1, <1>m DEF Counted, MemType
  <2>3. Backed(mem[p].next + 1, mem[p].seen \cup {Index(p)}, copies', misread')
    BY <1>o, <1>n, <1>h, <2>1 DEF Backed, Index
  <2>4. Sound(mem[p])' /\ Sound(mem[p].out)'
    BY <2>2, <2>3, <1>o DEF Sound
  <2> QED
    BY <1>7, <2>1, <2>4, StillLanded DEF Record, InHand
<1>8. CASE SaveBegins(p)
  <2>1. mem'[p].next = mem[p].next /\ mem'[p].seen = mem[p].seen
        /\ mem'[p].out = MergedState(mem[p])
        /\ (\A q \in Parsers \ {p} : mem'[q] = mem[q] /\ pc'[q] = pc[q])
        /\ pc'[p] \notin InHand
    BY <1>8, <1>m DEF SaveBegins, Keep, Goto, MemType, InHand
  <2>2. Loaded.next \in Nat
    BY DEF Typed, TypeOK, Loaded, Empty, States
  <2>7. MergedState(mem[p]).next
          = (IF Loaded.next > mem[p].next THEN Loaded.next ELSE mem[p].next)
        /\ MergedState(mem[p]).seen = Loaded.seen \cup mem[p].seen
    BY DEF MergedState
  <2>3. Backed(MergedState(mem[p]).next, MergedState(mem[p]).seen, copies', misread')
    <3>1. Backed(IF Loaded.next > mem[p].next THEN Loaded.next ELSE mem[p].next,
                 Loaded.seen \cup mem[p].seen, copies', misread')
      <4>1. mem[p].next \in Nat
        BY <1>n
      <4> HIDE DEF Loaded
      <4> QED
        BY <1>o, <1>l, <2>2, <4>1, BackedUnion
    <3> QED
      BY <2>7, <3>1
  <2>4. Sound(mem[p])' /\ Sound(mem[p].out)'
    BY <2>1, <2>3, <1>o DEF Sound
  <2>5. Loaded' = Empty
    BY <1>8 DEF SaveBegins, Loaded
  <2>6. Sound(Loaded)'
    BY <2>5, EmptySound DEF Sound, Empty
  <2> QED
    BY <2>1, <2>4, <2>6, OthersSound DEF Landed
<1>9. CASE SaveEnds(p)
  <2>1. mem'[p].next = mem[p].next /\ mem'[p].seen = mem[p].seen /\ mem'[p].out = Empty
        /\ (\A q \in Parsers \ {p} : mem'[q] = mem[q] /\ pc'[q] = pc[q])
        /\ pc'[p] \notin InHand
    BY <1>9, <1>m DEF SaveEnds, Keep, Goto, MemType, InHand
  <2>2. Sound(mem[p])' /\ Sound(mem[p].out)'
    BY <2>1, <1>o, EmptySound DEF Sound, Empty
  <2>3. Loaded' = mem[p].out \/ Loaded' = Empty
    BY <1>9 DEF SaveEnds, Loaded
  <2>4. Sound(Loaded)'
    BY <2>3, <1>o, EmptySound DEF Sound, Empty
  <2> QED
    BY <2>1, <2>2, <2>4, OthersSound DEF Landed
<1>10. CASE Unlock(p)
  <2>1. mem'[p] = NoPass /\ (\A q \in Parsers \ {p} : mem'[q] = mem[q] /\ pc'[q] = pc[q])
        /\ pc'[p] = "idle"
    BY <1>10, <1>m DEF Unlock, Keep, Goto
  <2>2. Sound(mem[p])' /\ Sound(mem[p].out)'
    BY <2>1, EmptySound DEF Sound, NoPass, Empty
  <2> QED
    BY <1>10, <2>1, <2>2, StillLanded DEF Unlock, InHand
<1> QED
  BY <1>1, <1>2, <1>3, <1>4, <1>5, <1>6, <1>7, <1>8, <1>9, <1>10 DEF PassStep

LEMMA NextLanded == Typed /\ Typed' /\ Landed /\ [Next]_vars => Landed'
<1> SUFFICES ASSUME Typed, Typed', Landed, [Next]_vars PROVE Landed'
  OBVIOUS
<1> USE DEF pass
<1>g. Grows
  BY NextGrows
<1>1. ASSUME NEW t \in Tools, ToolStep(t) PROVE saved' = saved /\ mem' = mem /\ pc' = pc
  BY <1>1 DEF ToolStep, CollectPre, Capture, Mutate, CollectPost, CollectFailure,
              Discard, CollectorDies
<1>2. CASE RestOfLine \/ LockAges \/ UNCHANGED vars
  BY <1>2, <1>g, IdleLanded DEF RestOfLine, LockAges, vars
<1>3. ASSUME NEW p \in Parsers, TakeLock(p) \/ FindStale(p) \/ BreakLock(p) \/ Throw(p)
      PROVE  Landed'
  <2>1. saved' = saved /\ mem' = mem /\ \A q \in Parsers : pc'[q] \in InHand => pc[q] \in InHand
    BY <1>3 DEF TakeLock, FindStale, BreakLock, Throw, InHand, Typed, TypeOK
  <2> QED
    BY <2>1, <1>g, IdleLanded
<1>4. ASSUME NEW p \in Parsers, PassStep(p) PROVE Landed'
  BY <1>4, <1>g, PassLanded
<1>5. ASSUME NEW p \in Parsers, Die(p) PROVE Landed'
  <2>1. mem'[p] = NoPass /\ pc'[p] = "idle"
        /\ (\A q \in Parsers \ {p} : mem'[q] = mem[q] /\ pc'[q] = pc[q])
    BY <1>5 DEF Die, Keep, Typed, TypeOK
  <2>2. Sound(mem[p])' /\ Sound(mem[p].out)'
    BY <2>1, EmptySound DEF Sound, NoPass, Empty
  <2> QED
    BY <1>5, <1>g, <2>1, <2>2, StillLanded DEF Die, InHand
<1> QED
  BY <1>1, <1>2, <1>3, <1>4, <1>5, <1>g, IdleLanded DEF Next, ParserStep

\* No line that the saved state counts as done lacks its event, whatever dies,
\* throws or overlaps.
THEOREM HookLanded == Spec => []DoneLinesLanded
<1>1. Typed /\ Landed => DoneLinesLanded
  <2> SUFFICES ASSUME Typed, Landed, saved # NULL, NEW i \in 1..saved.next
               PROVE  copies[i] > 0 \/ i \in misread
    BY DEF DoneLinesLanded
  <2>1. Loaded = saved /\ saved \in States
    BY DEF Loaded, Typed, TypeOK
  <2>2. i \in 1..MaxLines
    BY <2>1 DEF States
  <2> QED
    BY <2>1, <2>2 DEF Landed, Sound, Backed
<1> QED
  BY <1>1, InitTypes, NextTypes, InitLanded, NextLanded, PTL DEF Spec

-----------------------------------------------------------------------------
(* While nothing has failed, one parser works at a time and the log is in    *)
(* step with it.                                                             *)

\* Who holds the lock is at work, who is at work holds it, and nobody breaks it.
Alone ==
  /\ lock # NULL => ~ lock.stale /\ Working(lock.owner)
  /\ \A p \in Parsers : Working(p) => lock # NULL /\ lock.owner = p
  /\ \A p \in Parsers : pc[p] # "breaking"

\* No line is half written, and no pass reads past the log.
Whole ==
  /\ ~half /\ misread = {}
  /\ \A p \in Parsers : ~ mem[p].cut /\ mem[p].end <= Len(raw)

\* How many lines are done, and where the line after them is in hand.
Resting == lock = NULL \/ pc[lock.owner] = "load"
Done == IF Resting THEN saved.next ELSE mem[lock.owner].next
Hand == IF Resting \/ pc[lock.owner] \notin InHand THEN "none" ELSE pc[lock.owner]

\* The lines that are done, and the one in hand, have one event each.
InStep ==
  /\ Done <= Len(raw) /\ (Hand # "none" => Done < Len(raw))
  /\ \A i \in 1..MaxLines :
       copies[i] = IF i <= Done \/ (i = Done + 1 /\ Hand # "none") THEN 1 ELSE 0

\* The saved state is whole unless it is being written, and then what is being
\* written is what the pass has done; it never runs ahead of the pass.
SavedBehind ==
  /\ lock = NULL => saved # NULL
  /\ \A p \in Parsers :
       /\ Working(p) /\ pc[p] \notin {"flushing", "finishing"} => saved # NULL
       /\ Working(p) /\ pc[p] # "load" /\ saved # NULL => saved.next <= mem[p].next
       /\ pc[p] \in {"flushing", "finishing"} => mem[p].out.next = mem[p].next
       /\ pc[p] = "unlock" => saved.next = mem[p].next

Calm == Alone /\ Whole /\ InStep /\ SavedBehind

InvCalm == faults = 0 => Calm

\* What becomes of the change of a call: it is in the snapshot until the pass
\* compares, then in the hand of the pass, then in the log.
Post(t) == [tool |-> t, hook |-> "PostToolUse"]
Waits(i, n, hand) == i > n /\ (i = n + 1 => hand \in {"none", "collect"})
Taken(i, n, hand) == i = n + 1 /\ hand \in {"unlink", "edit"}
Finished(i, n, hand) == i <= n \/ (i = n + 1 /\ hand = "record")

\* The snapshot of a call tells its change from what was there before it.
Tells(t) == snapshot[t] # NULL /\ t \notin snapshot[t]

Reported(t) ==
  \A i \in 1..Len(raw) : raw[i] = Post(t) /\ t \in content =>
    /\ Waits(i, Done, Hand) => Tells(t)
    /\ Taken(i, Done, Hand) => t \in mem[lock.owner].change
    /\ Finished(i, Done, Hand) => t \in edits[t]

\* A call changes the file once it is captured, and ends with one line.
Staged(t) ==
  /\ t \in content => t \in Mutating /\ stage[t] \notin {"new", "capture"}
  /\ stage[t] = "running" /\ t \in Mutating => Tells(t)
  /\ \A i, j \in 1..Len(raw) : raw[i] = Post(t) =>
       stage[t] = "done" /\ (raw[j] = Post(t) => i = j)

Traced ==
  /\ Hand \in {"collect", "unlink", "edit"} => raw[Done + 1].hook = "PostToolUse"
  /\ \A t \in Tools : Staged(t) /\ Reported(t)

InvEdits == faults = 0 => Traced

LEMMA InitCalm == Init => InvCalm /\ InvEdits
<1> SUFFICES ASSUME Init PROVE InvCalm /\ InvEdits
  OBVIOUS
<1>1. Resting /\ Done = 0 /\ Hand = "none" /\ saved # NULL /\ saved.next = 0 /\ Len(raw) = 0
  BY DEF Init, Resting, Done, Hand, Empty, States
<1>2. \A p \in Parsers : pc[p] = "idle" /\ mem[p] = NoPass
  BY DEF Init
<1>3. Alone
  BY <1>2 DEF Init, Alone, Working
<1>4. Whole
  BY <1>1, <1>2 DEF Init, Whole, NoPass
<1>5. InStep
  <2>1. \A i \in 1..MaxLines : copies[i] = 0 /\ ~(i <= 0)
    BY DEF Init
  <2> QED
    BY <1>1, <2>1 DEF InStep
<1>6. SavedBehind
  BY <1>1, <1>2 DEF SavedBehind, Working
<1>7. \A t \in Tools : Staged(t) /\ Reported(t)
  BY <1>1 DEF Init, Staged, Reported
<1> QED
  BY <1>1, <1>3, <1>4, <1>5, <1>6, <1>7 DEF Calm, InvCalm, InvEdits, Traced

\* The parser at work is the owner of the lock, and the only one.
LEMMA Worker ==
  ASSUME Alone, NEW p \in Parsers, Working(p)
  PROVE  /\ lock # NULL /\ lock.owner = p
         /\ \A q \in Parsers \ {p} : ~ Working(q)
BY DEF Alone

\* Where the lines stand, told by the owner of the lock, before and after a step.
LEMMA Position ==
  ASSUME NEW p \in Parsers, lock # NULL, lock.owner = p
  PROVE  /\ Done = IF pc[p] = "load" THEN saved.next ELSE mem[p].next
         /\ Hand = IF pc[p] \in InHand THEN pc[p] ELSE "none"
BY DEF Resting, Done, Hand, InHand

LEMMA PositionAfter ==
  ASSUME NEW p \in Parsers, lock' # NULL, lock'.owner = p
  PROVE  /\ Done' = IF pc'[p] = "load" THEN saved'.next ELSE mem'[p].next
         /\ Hand' = IF pc'[p] \in InHand THEN pc'[p] ELSE "none"
BY DEF Resting, Done, Hand, InHand

\* A step of the worker that keeps the lock leaves it the only worker.
LEMMA StaysAlone ==
  ASSUME Typed, Alone, NEW p \in Parsers, Working(p), lock' = lock,
         NEW to \in PassPlaces, pc' = [pc EXCEPT ![p] = to]
  PROVE  /\ Alone'
         /\ lock' # NULL /\ lock'.owner = p /\ pc'[p] = to
         /\ \A q \in Parsers \ {p} : pc'[q] \notin PassPlaces
<1>1. pc \in [Parsers -> PassPlaces \cup {"idle", "breaking"}]
  BY DEF Typed, TypeOK
<1>2. pc'[p] = to /\ \A q \in Parsers \ {p} : pc'[q] = pc[q]
  BY <1>1
<1>3. to # "idle" /\ to # "breaking"
  BY DEF PassPlaces
<1>4. \A q \in Parsers \ {p} : pc[q] \in {"idle", "breaking"}
  BY <1>1, Worker DEF Working
<1>5. lock' # NULL /\ lock'.owner = p /\ ~ lock'.stale
  BY Worker DEF Alone
<1>6. \A q \in Parsers : pc'[q] # "breaking"
  BY <1>2, <1>3 DEF Alone
<1>7. Alone'
  BY <1>2, <1>3, <1>4, <1>5, <1>6 DEF Alone, Working
<1> QED
  BY <1>2, <1>4, <1>5, <1>7 DEF PassPlaces

\* What the worker says of the saved state is all there is to say.
LEMMA BehindOf ==
  ASSUME NEW p \in Parsers, lock' # NULL,
         \A q \in Parsers \ {p} : pc'[q] \notin PassPlaces,
         \A q \in Parsers : pc'[q] \in PassPlaces \cup {"idle", "breaking"},
         pc'[p] \notin {"flushing", "finishing"} => saved' # NULL,
         pc'[p] # "load" /\ saved' # NULL => saved'.next <= mem'[p].next,
         pc'[p] \in {"flushing", "finishing"} => mem'[p].out.next = mem'[p].next,
         pc'[p] = "unlock" => saved'.next = mem'[p].next
  PROVE  SavedBehind'
<1>1. \A q \in Parsers : q # p => pc'[q] = "idle" \/ pc'[q] = "breaking"
  OBVIOUS
<1>2. ASSUME NEW q \in Parsers
      PROVE  /\ Working(q)' /\ pc'[q] \notin {"flushing", "finishing"} => saved' # NULL
             /\ Working(q)' /\ pc'[q] # "load" /\ saved' # NULL
                  => saved'.next <= mem'[q].next
             /\ pc'[q] \in {"flushing", "finishing"} => mem'[q].out.next = mem'[q].next
             /\ pc'[q] = "unlock" => saved'.next = mem'[q].next
  <2>1. CASE q = p
    BY <2>1
  <2>2. CASE q # p
    BY <1>1, <2>2 DEF Working
  <2> QED
    BY <2>1, <2>2
<1> QED
  BY <1>2 DEF SavedBehind

LEMMA InStepKept ==
  ASSUME InStep, Done' = Done, Hand' # "none" <=> Hand # "none",
         copies' = copies, raw' = raw
  PROVE  InStep'
BY DEF InStep

LEMMA WholeKept ==
  ASSUME Typed, Whole, half' = half, misread' = misread, raw' = raw,
         NEW p \in Parsers, NEW m \in MemType, Keep(p, m), ~ m.cut, m.end <= Len(raw)
  PROVE  Whole'
<1>1. \A q \in Parsers : mem'[q] = IF q = p THEN m ELSE mem[q]
  BY DEF Keep, Typed, TypeOK
<1>2. \A q \in Parsers : ~ mem'[q].cut /\ mem'[q].end <= Len(raw)
  BY <1>1 DEF Whole
<1> QED
  BY <1>2 DEF Whole

\* What the worker has in memory.
LEMMA MemOf ==
  ASSUME Typed, NEW p \in Parsers
  PROVE  /\ mem[p] \in MemType
         /\ mem[p].next \in Nat /\ mem[p].end \in Nat /\ mem[p].end <= MaxLines
         /\ mem[p].done \in Nat /\ mem[p].out \in States
         /\ Index(p) = mem[p].next + 1
         /\ \A m : Keep(p, m) => mem'[p] = m
BY DEF Typed, TypeOK, MemType, Index, Keep

\* No line is skipped while nothing fails: none is half written, and none in the
\* pass's set of seen lines comes after those it has done.
LEMMA NoneSkipped ==
  ASSUME Typed, Landed, Calm, NEW p \in Parsers, pc[p] = "line", HasLine(p)
  PROVE  /\ Done = mem[p].next /\ Hand = "none"
         /\ Index(p) \in 1..MaxLines /\ Index(p) <= Len(raw)
         /\ copies[Index(p)] = 0 /\ ~ SkipLine(p)
<1>1. Working(p) /\ lock # NULL /\ lock.owner = p
  BY Worker DEF Calm, Working
<1>2. Done = mem[p].next /\ Hand = "none"
  BY <1>1, Position DEF InHand
<1>3. Index(p) = mem[p].next + 1 /\ mem[p].next \in Nat /\ mem[p].end \in Nat
      /\ mem[p].end <= MaxLines /\ mem[p].next < mem[p].end
  BY MemOf DEF HasLine
<1>4. Index(p) \in 1..MaxLines /\ Index(p) <= mem[p].end /\ Index(p) > mem[p].next
  BY <1>3
<1>5. Len(raw) \in Nat /\ mem[p].end <= Len(raw) /\ ~ mem[p].cut
  BY DEF Typed, TypeOK, Calm, Whole
<1>6. Index(p) <= Len(raw)
  BY <1>3, <1>4, <1>5
<1>7. copies[Index(p)] = 0
  BY <1>2, <1>3, <1>4 DEF Calm, InStep
<1>8. Index(p) \notin mem[p].seen
  BY <1>4, <1>7 DEF Landed, Sound, Backed, Calm, Whole
<1>9. ~ Unparsable(p)
  BY <1>5 DEF Unparsable
<1> QED
  BY <1>2, <1>4, <1>6, <1>7, <1>8, <1>9 DEF SkipLine

\* A step of a pass that neither fails nor unlocks.
LEMMA PassCalm ==
  ASSUME Typed, Typed', Landed, Calm, NEW p \in Parsers, PassStep(p), ~ Unlock(p)
  PROVE  /\ Calm' /\ lock' = lock /\ lock # NULL /\ lock.owner = p
         /\ Working(p) /\ faults' = faults
<1> USE DEF claude, log
<1>p. Working(p) /\ lock # NULL /\ lock.owner = p
  <2>1. Working(p)
    BY DEF PassStep, LoadState, ReadRaw, SkipLine, AppendEvent, Compare, Unlink,
           AppendEdit, Record, SaveBegins, SaveEnds, Goto, Working
  <2> QED
    BY <2>1, Worker DEF Calm
<1>m. mem[p] \in MemType
  BY MemOf
<1>n. mem[p].next \in Nat /\ Index(p) = mem[p].next + 1
  BY MemOf
<1>e. ~ mem[p].cut /\ mem[p].end <= Len(raw)
  BY DEF Calm, Whole
<1>f. faults' = faults /\ lock' = lock
  BY DEF PassStep, LoadState, ReadRaw, SkipLine, AppendEvent, Compare, Unlink,
         AppendEdit, Record, SaveBegins, SaveEnds
<1>d. Done = (IF pc[p] = "load" THEN saved.next ELSE mem[p].next)
      /\ Hand = IF pc[p] \in InHand THEN pc[p] ELSE "none"
  BY <1>p, Position
<1>s. /\ pc[p] \notin {"flushing", "finishing"} => saved # NULL
      /\ pc[p] # "load" /\ saved # NULL => saved.next <= mem[p].next
      /\ pc[p] \in {"flushing", "finishing"} => mem[p].out.next = mem[p].next
  BY <1>p DEF Calm, SavedBehind
<1>t. \A q \in Parsers : pc'[q] \in PassPlaces \cup {"idle", "breaking"}
  BY DEF Typed, TypeOK
<1>a. ASSUME NEW to \in PassPlaces, pc' = [pc EXCEPT ![p] = to]
      PROVE  /\ Alone' /\ lock' # NULL /\ lock'.owner = p /\ pc'[p] = to
             /\ \A q \in Parsers \ {p} : pc'[q] \notin PassPlaces
             /\ Done' = (IF to = "load" THEN saved'.next ELSE mem'[p].next)
             /\ Hand' = IF to \in InHand THEN to ELSE "none"
  <2>1. /\ Alone' /\ lock' # NULL /\ lock'.owner = p /\ pc'[p] = to
        /\ \A q \in Parsers \ {p} : pc'[q] \notin PassPlaces
    BY <1>p, <1>f, <1>a, StaysAlone DEF Calm
  <2> QED
    BY <2>1, PositionAfter
<1>1. CASE LoadState(p)
  <2> DEFINE m == [NoPass EXCEPT !.next = Loaded.next, !.seen = Loaded.seen]
  <2>1. saved \in States /\ Loaded = saved /\ pc[p] = "load"
    BY <1>1, <1>s DEF LoadState, Goto, Loaded, Typed, TypeOK
  <2>2. m \in MemType /\ m.next = saved.next /\ ~ m.cut /\ m.end = 0
    BY <2>1, NoPassType DEF NoPass, MemType, States
  <2>3. Keep(p, m) /\ mem'[p].next = saved.next
    BY <1>1, <2>2, MemOf DEF LoadState
  <2> HIDE DEF m
  <2>4. /\ Alone' /\ lock' # NULL /\ lock'.owner = p /\ pc'[p] = "read"
        /\ \A q \in Parsers \ {p} : pc'[q] \notin PassPlaces
        /\ Done' = mem'[p].next /\ Hand' = "none"
    BY <1>1, <1>a DEF LoadState, Goto, PassPlaces, InHand
  <2>5. 0 <= Len(raw)
    BY DEF Typed, TypeOK
  <2>6. Whole'
    BY <1>1, <2>2, <2>3, <2>5, WholeKept DEF LoadState, Calm
  <2>7. InStep'
    BY <1>1, <1>d, <2>1, <2>3, <2>4, InStepKept DEF LoadState, Calm, InHand
  <2>8. saved' = saved /\ saved.next <= saved.next
    BY <1>1, <2>1 DEF LoadState, States
  <2>9. SavedBehind'
    BY <1>t, <2>1, <2>3, <2>4, <2>8, BehindOf
  <2> QED
    BY <1>p, <1>f, <2>4, <2>6, <2>7, <2>9 DEF Calm
<1>2. CASE ReadRaw(p)
  <2> DEFINE m == [mem[p] EXCEPT !.end = Len(raw), !.cut = half]
  <2>0. Len(raw) \in 0..MaxLines /\ half \in BOOLEAN /\ ~half
    BY DEF Typed, TypeOK, Calm, Whole
  <2>2. m \in MemType /\ m.next = mem[p].next /\ ~ m.cut /\ m.end <= Len(raw)
    <3>1. half = FALSE /\ Len(raw) <= Len(raw)
      BY <2>0
    <3>2. m \in MemType
      BY <1>m, <2>0, <3>1 DEF MemType
    <3>3. m.next = mem[p].next /\ m.cut = half /\ m.end = Len(raw)
      BY <1>m DEF MemType
    <3> QED
      BY <3>1, <3>2, <3>3
  <2>3. Keep(p, m) /\ mem'[p].next = mem[p].next
    BY <1>2, <2>2, MemOf DEF ReadRaw
  <2> HIDE DEF m
  <2>4. /\ Alone' /\ lock' # NULL /\ lock'.owner = p /\ pc'[p] = "line"
        /\ \A q \in Parsers \ {p} : pc'[q] \notin PassPlaces
        /\ Done' = mem'[p].next /\ Hand' = "none"
    BY <1>2, <1>a DEF ReadRaw, Goto, PassPlaces, InHand
  <2>5. pc[p] = "read" /\ saved' = saved
    BY <1>2 DEF ReadRaw, Goto
  <2>6. Whole'
    BY <1>2, <2>2, <2>3, WholeKept DEF ReadRaw, Calm
  <2>7. InStep'
    BY <1>2, <1>d, <2>5, <2>3, <2>4, InStepKept DEF ReadRaw, Calm, InHand
  <2>9. SavedBehind'
    BY <1>t, <1>s, <2>3, <2>4, <2>5, BehindOf
  <2> QED
    BY <1>p, <1>f, <2>4, <2>6, <2>7, <2>9 DEF Calm
<1>3. ~ SkipLine(p)
  BY NoneSkipped DEF SkipLine, Goto
<1>4. CASE AppendEvent(p)
  <2> DEFINE to == IF raw[Index(p)].hook = "PostToolUse" THEN "collect" ELSE "record"
  <2>1. pc[p] = "line" /\ HasLine(p) /\ mem' = mem /\ saved' = saved /\ raw' = raw
        /\ half' = half /\ misread' = misread /\ pc' = [pc EXCEPT ![p] = to]
    BY <1>4 DEF AppendEvent, Goto
  <2>2. to \in PassPlaces /\ to \in InHand /\ to # "none" /\ to # "load" /\ to # "unlock"
        /\ to \notin {"flushing", "finishing"}
    BY DEF PassPlaces, InHand
  <2> HIDE DEF to
  <2>3. /\ Done = mem[p].next /\ Hand = "none"
        /\ Index(p) \in 1..MaxLines /\ Index(p) <= Len(raw) /\ copies[Index(p)] = 0
    BY <2>1, NoneSkipped
  <2>4. /\ Alone' /\ lock' # NULL /\ lock'.owner = p /\ pc'[p] = to
        /\ \A q \in Parsers \ {p} : pc'[q] \notin PassPlaces
        /\ Done' = mem[p].next /\ Hand' # "none"
    BY <1>a, <2>1, <2>2
  <2>6. Whole'
    BY <2>1 DEF Calm, Whole
  <2>7. InStep'
    <3>1. \A i \in 1..MaxLines :
            copies'[i] = IF i = Index(p) THEN 1 ELSE copies[i]
      BY <1>4, <2>3 DEF AppendEvent, Typed, TypeOK
    <3>2. \A i \in 1..MaxLines : copies[i] = IF i <= Done THEN 1 ELSE 0
      BY <2>3 DEF Calm, InStep
    <3>3. \A i \in 1..MaxLines :
            copies'[i] = IF i <= Done \/ i = Done + 1 THEN 1 ELSE 0
      BY <1>n, <2>3, <3>1, <3>2
    <3>4. Done < Len(raw) /\ Done <= Len(raw)
      BY <1>n, <2>3 DEF Typed, TypeOK
    <3> QED
      BY <2>1, <2>3, <2>4, <3>3, <3>4 DEF InStep
  <2>9. SavedBehind'
    BY <1>t, <1>s, <2>1, <2>2, <2>4, BehindOf
  <2> QED
    BY <1>p, <1>f, <2>4, <2>6, <2>7, <2>9 DEF Calm
<1>5. ASSUME NEW to \in {"record", "unlink", "edit"}, pc' = [pc EXCEPT ![p] = to],
             NEW c \in SUBSET Tools, Keep(p, [mem[p] EXCEPT !.change = c]),
             pc[p] \in InHand, saved' = saved, raw' = raw, half' = half,
             misread' = misread, copies' = copies
      PROVE  Calm'
  <2> DEFINE m == [mem[p] EXCEPT !.change = c]
  <2>2. m \in MemType /\ m.next = mem[p].next /\ ~ m.cut /\ m.end <= Len(raw)
    BY <1>m, <1>e DEF MemType
  <2>3. Keep(p, m) /\ mem'[p].next = mem[p].next
    BY <1>5, <2>2, MemOf
  <2> HIDE DEF m
  <2>4. /\ Alone' /\ lock' # NULL /\ lock'.owner = p /\ pc'[p] = to
        /\ \A q \in Parsers \ {p} : pc'[q] \notin PassPlaces
        /\ Done' = mem'[p].next /\ Hand' = to
    BY <1>5, <1>a DEF PassPlaces, InHand
  <2>6. Whole'
    BY <1>5, <2>2, <2>3, WholeKept DEF Calm
  <2>7. InStep'
    BY <1>5, <1>d, <2>3, <2>4, InStepKept DEF Calm, InHand
  <2>9. SavedBehind'
    BY <1>5, <1>t, <1>s, <2>3, <2>4, BehindOf DEF InHand
  <2> QED
    BY <2>4, <2>6, <2>7, <2>9 DEF Calm
<1>6. CASE Compare(p)
  <2> DEFINE t == raw[Index(p)].tool
             c == IF snapshot[t] = NULL THEN {} ELSE content \ snapshot[t]
             to == IF snapshot[t] = NULL THEN "record" ELSE "unlink"
  <2>1. c \in SUBSET Tools
    BY DEF Typed, TypeOK
  <2>2. to \in {"record", "unlink", "edit"}
    OBVIOUS
  <2>3. pc' = [pc EXCEPT ![p] = to] /\ Keep(p, [mem[p] EXCEPT !.change = c])
        /\ pc[p] \in InHand
    BY <1>6 DEF Compare, Goto, InHand
  <2> HIDE DEF c, to
  <2>4. Calm'
    BY <1>6, <1>5, <2>1, <2>2, <2>3 DEF Compare
  <2> QED
    BY <1>p, <1>f, <2>4
<1>7. CASE Unlink(p) \/ AppendEdit(p)
  <2>1. Keep(p, [mem[p] EXCEPT !.change = mem[p].change]) /\ mem[p].change \in SUBSET Tools
    <3>1. mem' = mem
      BY <1>7 DEF Unlink, AppendEdit
    <3>2. mem[p] = [mem[p] EXCEPT !.change = mem[p].change]
      BY <1>m DEF MemType
    <3>3. mem = [mem EXCEPT ![p] = mem[p]]
      BY DEF Typed, TypeOK
    <3> QED
      BY <1>m, <3>1, <3>2, <3>3, Zenon DEF Keep, MemType
  <2>2. PICK to \in {"record", "edit"} : pc' = [pc EXCEPT ![p] = to]
    BY <1>7 DEF Unlink, AppendEdit, Goto
  <2>3. pc[p] \in InHand /\ saved' = saved /\ raw' = raw /\ half' = half
        /\ misread' = misread /\ copies' = copies
    BY <1>7 DEF Unlink, AppendEdit, Goto, InHand
  <2>4. Calm'
    BY <1>5, <2>1, <2>2, <2>3
  <2> QED
    BY <1>p, <1>f, <2>4
<1>8. CASE Record(p)
  <2> DEFINE m == [Counted(mem[p]) EXCEPT !.seen = @ \cup {Index(p)}]
             to == AfterLine(mem[p].done + 1)
  <2>1. pc[p] \in InHand /\ saved' = saved /\ raw' = raw /\ half' = half
        /\ misread' = misread /\ copies' = copies /\ pc' = [pc EXCEPT ![p] = to]
        /\ Keep(p, m) /\ pc[p] # "load" /\ pc[p] \notin {"flushing", "finishing"}
    BY <1>8 DEF Record, Goto, InHand
  <2>0. to \in PassPlaces /\ to \notin InHand /\ to # "load" /\ to # "unlock"
        /\ to \notin {"flushing", "finishing"}
    BY AfterLinePlace DEF PassPlaces, InHand
  <2>2. m \in MemType /\ m.next = mem[p].next + 1 /\ ~ m.cut /\ m.end <= Len(raw)
    <3>1. mem[p].next < mem[p].end
      BY <2>1 DEF Typed
    <3>2. Counted(mem[p]) \in MemType
      BY <1>m, <3>1, CountedType
    <3>3. Index(p) \in 1..MaxLines
      BY <1>n, <3>1, MemOf
    <3>4. Counted(mem[p]).next = mem[p].next + 1 /\ Counted(mem[p]).cut = mem[p].cut
          /\ Counted(mem[p]).end = mem[p].end
      BY <1>m DEF MemType, Counted
    <3>5. m \in MemType
      BY <3>2, <3>3 DEF MemType
    <3>6. m.next = Counted(mem[p]).next /\ m.cut = Counted(mem[p]).cut
          /\ m.end = Counted(mem[p]).end
      BY <3>2 DEF MemType
    <3> QED
      BY <1>e, <3>4, <3>5, <3>6
  <2> HIDE DEF m, to
  <2>3. mem'[p].next = mem[p].next + 1
    BY <2>1, <2>2, MemOf
  <2>4. /\ Alone' /\ lock' # NULL /\ lock'.owner = p /\ pc'[p] = to
        /\ \A q \in Parsers \ {p} : pc'[q] \notin PassPlaces
        /\ Done' = mem[p].next + 1 /\ Hand' = "none"
    BY <1>a, <2>0, <2>1, <2>3
  <2>5. Done = mem[p].next /\ Hand # "none"
    BY <1>d, <2>1 DEF InHand
  <2>6. Whole'
    BY <2>1, <2>2, WholeKept DEF Calm
  <2>7. InStep'
    <3>1. \A i \in 1..MaxLines :
            copies[i] = IF i <= Done \/ i = Done + 1 THEN 1 ELSE 0
      BY <2>5 DEF Calm, InStep
    <3>2. Done < Len(raw) /\ Len(raw) \in Nat
      BY <2>5 DEF Calm, InStep, Typed, TypeOK
    <3>3. Done + 1 <= Len(raw)
          /\ \A i \in 1..MaxLines : copies[i] = IF i <= Done + 1 THEN 1 ELSE 0
      BY <1>n, <2>5, <3>1, <3>2
    <3> QED
      BY <2>1, <2>4, <2>5, <3>3 DEF InStep
  <2>8. saved # NULL /\ saved.next <= mem[p].next + 1
    <3>1. saved # NULL /\ saved.next <= mem[p].next
      BY <1>s, <2>1
    <3>2. saved.next \in Nat
      BY <3>1 DEF Typed, TypeOK, States
    <3> QED
      BY <1>n, <3>1, <3>2
  <2>9. SavedBehind'
    BY <1>t, <2>0, <2>1, <2>3, <2>4, <2>8, BehindOf
  <2> QED
    BY <1>p, <1>f, <2>4, <2>6, <2>7, <2>9 DEF Calm
<1>9. CASE SaveBegins(p)
  <2> DEFINE m == [mem[p] EXCEPT !.out = MergedState(mem[p])]
  <2>1. pc[p] \in {"flush", "line"} /\ saved' = NULL /\ raw' = raw /\ half' = half
        /\ misread' = misread /\ copies' = copies /\ Keep(p, m)
    BY <1>9 DEF SaveBegins, Goto
  <2>0. PICK to \in {"flushing", "finishing"} : pc' = [pc EXCEPT ![p] = to]
    BY <1>9 DEF SaveBegins, Goto
  <2>2. MergedState(mem[p]).next = mem[p].next
    <3>1. saved # NULL /\ saved.next <= mem[p].next /\ Loaded = saved
      BY <1>s, <2>1 DEF Loaded
    <3>2. saved.next \in Nat
      BY <3>1 DEF Typed, TypeOK, States
    <3>3. ~ (Loaded.next > mem[p].next)
      BY <1>n, <3>1, <3>2
    <3> QED
      BY <3>3 DEF MergedState
  <2>3. m \in MemType /\ m.next = mem[p].next /\ ~ m.cut /\ m.end <= Len(raw)
        /\ m.out = MergedState(mem[p])
    BY <1>m, <1>e, MergedType DEF MemType
  <2> HIDE DEF m
  <2>4. mem'[p] = m
    BY <2>1, MemOf
  <2>5. /\ Alone' /\ lock' # NULL /\ lock'.owner = p /\ pc'[p] = to
        /\ \A q \in Parsers \ {p} : pc'[q] \notin PassPlaces
        /\ Done' = mem[p].next /\ Hand' = "none"
    BY <1>a, <2>0, <2>3, <2>4 DEF PassPlaces, InHand
  <2>6. Whole'
    BY <2>1, <2>3, WholeKept DEF Calm
  <2>7. InStep'
    BY <1>d, <2>1, <2>5, InStepKept DEF Calm, InHand
  <2>8. SavedBehind'
    BY <1>t, <2>0, <2>1, <2>2, <2>3, <2>4, <2>5, BehindOf
  <2> QED
    BY <1>p, <1>f, <2>5, <2>6, <2>7, <2>8 DEF Calm
<1>10. CASE SaveEnds(p)
  <2> DEFINE m == [mem[p] EXCEPT !.out = Empty]
  <2>1. pc[p] \in {"flushing", "finishing"} /\ saved' = mem[p].out /\ raw' = raw
        /\ half' = half /\ misread' = misread /\ copies' = copies /\ Keep(p, m)
    BY <1>10 DEF SaveEnds
  <2>0. PICK to \in {"line", "unlock"} : pc' = [pc EXCEPT ![p] = to]
    BY <1>10 DEF SaveEnds, Goto
  <2>3. m \in MemType /\ m.next = mem[p].next /\ ~ m.cut /\ m.end <= Len(raw)
    BY <1>m, <1>e, NoPassType DEF MemType
  <2> HIDE DEF m
  <2>4. mem'[p] = m
    BY <2>1, MemOf
  <2>5. /\ Alone' /\ lock' # NULL /\ lock'.owner = p /\ pc'[p] = to
        /\ \A q \in Parsers \ {p} : pc'[q] \notin PassPlaces
        /\ Done' = mem[p].next /\ Hand' = "none"
    BY <1>a, <2>0, <2>3, <2>4 DEF PassPlaces, InHand
  <2>6. Whole'
    BY <2>1, <2>3, WholeKept DEF Calm
  <2>7. InStep'
    BY <1>d, <2>1, <2>5, InStepKept DEF Calm, InHand
  <2>8. saved' # NULL /\ saved'.next = mem[p].next /\ mem[p].next <= mem[p].next
    BY <1>n, <1>s, <2>1, MemOf
  <2>9. SavedBehind'
    BY <1>t, <2>0, <2>3, <2>4, <2>5, <2>8, BehindOf
  <2> QED
    BY <1>p, <1>f, <2>5, <2>6, <2>7, <2>9 DEF Calm
<1> QED
  BY <1>1, <1>2, <1>3, <1>4, <1>6, <1>7, <1>8, <1>9, <1>10 DEF PassStep

\* A step that is no fault keeps what holds while nothing has failed.
LEMMA NextCalm ==
  ASSUME Typed, Typed', Landed, InvCalm, [Next]_vars
  PROVE  InvCalm'
<1> SUFFICES ASSUME faults' = 0 PROVE Calm'
  BY DEF InvCalm
<1> USE DEF claude, log, pass
<1>0. faults \in Nat
  BY DEF Typed, TypeOK
<1>q. ASSUME faults = 0, lock' = lock, pc' = pc, mem' = mem, saved' = saved,
             copies' = copies, half' = half, misread' = misread,
             Len(raw) <= Len(raw')
      PROVE  Calm'
  <2>1. Calm
    BY <1>q DEF InvCalm
  <2>2. Alone' /\ SavedBehind'
    BY <1>q, <2>1 DEF Calm, Alone, SavedBehind, Working
  <2>3. Done' = Done /\ Hand' = Hand /\ Done \in Nat
    <3>1. Done' = Done /\ Hand' = Hand
      BY <1>q DEF Done, Hand, Resting
    <3>2. Resting => saved # NULL
      BY <2>1 DEF Resting, Calm, Alone, SavedBehind, Typed, TypeOK, Locks
    <3>3. Resting => saved.next \in Nat
      BY <3>2 DEF Typed, TypeOK, States
    <3>4. ~Resting => mem[lock.owner].next \in Nat
      BY MemOf DEF Resting, Typed, TypeOK, Locks
    <3> QED
      BY <3>1, <3>3, <3>4 DEF Done
  <2>4. \A x, y, z \in Nat : (x <= y /\ y <= z => x <= z) /\ (x < y /\ y <= z => x < z)
    OBVIOUS
  <2>5. Len(raw) \in Nat /\ Len(raw') \in Nat /\ \A q \in Parsers : mem[q].end \in Nat
    BY MemOf DEF Typed, TypeOK
  <2>6. Whole'
    BY <1>q, <2>1, <2>4, <2>5 DEF Calm, Whole
  <2>7. InStep'
    BY <1>q, <2>1, <2>3, <2>4, <2>5 DEF Calm, InStep
  <2> QED
    BY <2>2, <2>6, <2>7 DEF Calm
<1>1. ASSUME NEW t \in Tools, ToolStep(t) PROVE Calm'
  <2>1. /\ lock' = lock /\ pc' = pc /\ mem' = mem /\ saved' = saved
        /\ copies' = copies /\ misread' = misread
    BY <1>1 DEF ToolStep, CollectPre, Capture, Mutate, CollectPost, CollectFailure,
                Discard, CollectorDies, AppendRaw
  <2>2. CASE raw' = raw /\ half' = half /\ faults' = faults
    <3>1. Len(raw) <= Len(raw')
      BY <2>2 DEF Typed, TypeOK
    <3> QED
      BY <2>1, <2>2, <3>1, <1>q
  <2>3. CASE \E hook \in Hooks, next \in {"capture", "done", "failed"} :
               AppendRaw(t, hook, next)
    <3>1. PICK hook \in Hooks, next \in {"capture", "done", "failed"} :
            AppendRaw(t, hook, next)
      BY <2>3
    <3>2. faults' = faults /\ half' = FALSE /\ ~half
      BY <1>0, <3>1 DEF AppendRaw
    <3>3. Len(raw) <= Len(raw')
      BY <3>1 DEF AppendRaw, Typed, TypeOK
    <3>4. half' = half
      BY <3>2 DEF Typed, TypeOK
    <3> QED
      BY <2>1, <3>2, <3>3, <3>4, <1>q
  <2>4. ~ CollectorDies(t)
    BY <1>0 DEF CollectorDies
  <2> QED
    BY <1>1, <2>2, <2>3, <2>4 DEF ToolStep, CollectPre, Capture, Mutate, CollectPost,
                                  CollectFailure, Discard, Hooks
<1>2. CASE RestOfLine
  <2>1. faults = 0 /\ half
    BY <1>2 DEF RestOfLine
  <2> QED
    BY <2>1 DEF InvCalm, Calm, Whole
<1>3. CASE LockAges
  <2>1. faults = 0 /\ Abandoned
    BY <1>0, <1>3 DEF LockAges
  <2> QED
    BY <2>1 DEF InvCalm, Calm, Alone, Abandoned
<1>4. ASSUME NEW p \in Parsers, TakeLock(p) PROVE Calm'
  <2>1. /\ faults = 0 /\ lock = NULL /\ pc[p] = "idle"
        /\ lock' = [owner |-> p, stale |-> FALSE] /\ pc' = [pc EXCEPT ![p] = "load"]
        /\ mem' = mem /\ saved' = saved /\ copies' = copies /\ raw' = raw
        /\ half' = half /\ misread' = misread
    BY <1>4 DEF TakeLock
  <2>2. Calm /\ (\A q \in Parsers : pc[q] = "idle")
    BY <2>1 DEF InvCalm, Calm, Alone, Working
  <2>3. lock' # NULL /\ lock'.owner = p /\ ~ lock'.stale
    <3>1. [owner |-> p, stale |-> FALSE] \in Locks
      BY DEF Locks
    <3> QED
      BY <2>1, <3>1
  <2>4. \A q \in Parsers : pc'[q] = IF q = p THEN "load" ELSE "idle"
    BY <2>1, <2>2 DEF Typed, TypeOK
  <2>5. Alone'
    BY <2>3, <2>4 DEF Alone, Working
  <2>6. SavedBehind'
    BY <2>1, <2>2, <2>3, <2>4 DEF SavedBehind, Calm, Working
  <2>7. Done' = Done /\ Hand' = Hand
    BY <2>1, <2>3, <2>4 DEF Done, Hand, Resting
  <2>8. Whole' /\ InStep'
    BY <2>1, <2>2, <2>7, InStepKept DEF Calm, Whole
  <2> QED
    BY <2>5, <2>6, <2>8 DEF Calm
<1>5. ASSUME NEW p \in Parsers, FindStale(p) \/ BreakLock(p) PROVE Calm'
  <2>1. Calm
    BY <1>5 DEF InvCalm, FindStale, BreakLock
  <2> QED
    BY <1>5, <2>1 DEF FindStale, BreakLock, Calm, Alone
<1>6. ASSUME NEW p \in Parsers, PassStep(p), ~ Unlock(p) PROVE Calm'
  <2>1. faults' = faults
    BY <1>6 DEF PassStep, LoadState, ReadRaw, SkipLine, AppendEvent, Compare, Unlink,
                AppendEdit, Record, SaveBegins, SaveEnds
  <2> QED
    BY <1>6, <2>1, PassCalm DEF InvCalm
<1>7. ASSUME NEW p \in Parsers, Unlock(p) PROVE Calm'
  <2>1. /\ faults = 0 /\ lock' = NULL /\ pc[p] = "unlock" /\ pc' = [pc EXCEPT ![p] = "idle"]
        /\ mem'[p] = NoPass /\ Keep(p, NoPass) /\ saved' = saved /\ copies' = copies
        /\ raw' = raw /\ half' = half /\ misread' = misread
    BY <1>7, MemOf DEF Unlock, Goto
  <2>2. Calm /\ lock # NULL /\ lock.owner = p /\ \A q \in Parsers \ {p} : ~ Working(q)
    BY <2>1, Worker DEF InvCalm, Calm, Working
  <2>3. \A q \in Parsers : pc'[q] = "idle"
    BY <2>1, <2>2 DEF Calm, Alone, Working, Typed, TypeOK
  <2>4. Alone'
    BY <2>1, <2>3 DEF Alone, Working
  <2>5. saved # NULL /\ saved.next = mem[p].next
    BY <2>1, <2>2 DEF Calm, SavedBehind, Working
  <2>6. SavedBehind'
    BY <2>1, <2>3, <2>5 DEF SavedBehind, Working
  <2>7. Done' = Done /\ Hand' = "none" /\ Hand = "none"
    <3>1. Done = mem[p].next /\ Hand = "none"
      BY <2>1, <2>2, Position DEF InHand
    <3> QED
      BY <2>1, <2>5, <3>1 DEF Done, Hand, Resting
  <2>8. InStep'
    BY <2>1, <2>2, <2>7, InStepKept DEF Calm
  <2>9. Whole'
    <3>1. NoPass.cut = FALSE /\ NoPass.end = 0 /\ 0 <= Len(raw)
      BY DEF NoPass, Typed, TypeOK
    <3> QED
      BY <2>1, <2>2, <3>1, NoPassType, WholeKept DEF Calm
  <2> QED
    BY <2>4, <2>6, <2>8, <2>9 DEF Calm
<1>8. ASSUME NEW p \in Parsers, Throw(p) \/ Die(p) PROVE FALSE
  BY <1>0, <1>8 DEF Throw, Die
<1>9. CASE UNCHANGED vars
  <2>1. Len(raw) <= Len(raw')
    BY <1>9 DEF vars, Typed, TypeOK
  <2> QED
    BY <1>9, <1>q, <2>1 DEF vars
<1> QED
  <2>1. ASSUME NEW p \in Parsers, ParserStep(p) PROVE Calm'
    BY <2>1, <1>4, <1>5, <1>6, <1>7 DEF ParserStep
  <2> QED
    BY <2>1, <1>1, <1>2, <1>3, <1>8, <1>9 DEF Next

\* parser-state.ts:38: two parsers that run at the same time append no event
\* twice, unless one fails or outlives its lock, however many there are.
THEOREM HookRepeats == Spec => []RepeatNeedsFailure
<1>1. Typed /\ InvCalm => RepeatNeedsFailure
  BY DEF InvCalm, Calm, InStep, RepeatNeedsFailure
<1>2. Init => InvCalm
  BY InitCalm
<1> QED
  BY <1>1, <1>2, InitTypes, NextTypes, InitLanded, NextLanded, NextCalm, PTL DEF Spec

-----------------------------------------------------------------------------
(* Changes are reported. *)

LEMMA CalmTypes ==
  ASSUME Typed, Calm
  PROVE  /\ Done \in Nat /\ Len(raw) \in Nat /\ Done <= Len(raw)
         /\ Hand # "none" => Done + 1 \in 1..Len(raw)
<1>1. Done \in Nat
  <2>1. Resting => saved # NULL
    BY DEF Resting, Calm, Alone, SavedBehind, Typed, TypeOK, Locks
  <2>2. Resting => saved.next \in Nat
    BY <2>1 DEF Typed, TypeOK, States
  <2>3. ~Resting => mem[lock.owner].next \in Nat
    BY MemOf DEF Resting, Typed, TypeOK, Locks
  <2> QED
    BY <2>2, <2>3 DEF Done
<1>2. Len(raw) \in Nat /\ Done <= Len(raw) /\ (Hand # "none" => Done < Len(raw))
  BY DEF Typed, TypeOK, Calm, InStep
<1> QED
  BY <1>1, <1>2

\* A step that leaves a call, its lines and the pass as they are.
LEMMA CallKept ==
  ASSUME NEW s \in Tools, Staged(s), Reported(s),
         \A i \in 1..Len(raw') : raw'[i] = Post(s) => i \in 1..Len(raw) /\ raw[i] = Post(s),
         Done' = Done, Hand' = Hand, edits' = edits, mem' = mem, lock' = lock,
         stage'[s] = stage[s], snapshot'[s] = snapshot[s],
         s \in content' <=> s \in content
  PROVE  Staged(s)' /\ Reported(s)'
<1>1. Tells(s)' <=> Tells(s)
  BY DEF Tells
<1>2. Post(s)' = Post(s)
  BY DEF Post
<1>3. Staged(s)'
  BY <1>1, <1>2 DEF Staged
<1>4. Reported(s)'
  <2> SUFFICES ASSUME NEW i \in 1..Len(raw'), raw'[i] = Post(s), s \in content'
               PROVE  /\ Waits(i, Done', Hand') => Tells(s)'
                      /\ Taken(i, Done', Hand') => s \in mem'[lock'.owner].change
                      /\ Finished(i, Done', Hand') => s \in edits'[s]
    BY <1>2 DEF Reported, Waits, Taken, Finished
  <2> QED
    BY <1>1 DEF Reported
<1> QED
  BY <1>3, <1>4

\* A call that has no line of its own yet.
LEMMA NoLine ==
  ASSUME NEW s \in Tools, \A i \in 1..Len(raw') : raw'[i] # Post(s),
         s \in content' => s \in Mutating /\ stage'[s] \notin {"new", "capture"},
         stage'[s] = "running" /\ s \in Mutating => snapshot'[s] # NULL /\ s \notin snapshot'[s]
  PROVE  Staged(s)' /\ Reported(s)'
<1>1. Post(s)' = Post(s)
  BY DEF Post
<1> QED
  BY <1>1 DEF Staged, Reported, Tells

LEMMA AppendedLines ==
  ASSUME Typed, NEW x \in Lines, raw' = Append(raw, x)
  PROVE  /\ Len(raw') = Len(raw) + 1 /\ Len(raw) \in Nat /\ raw'[Len(raw) + 1] = x
         /\ \A i \in 1..Len(raw) : raw'[i] = raw[i] /\ i \in 1..Len(raw')
         /\ \A i \in 1..Len(raw') : i \in 1..Len(raw) \/ i = Len(raw) + 1
BY DEF Typed, TypeOK

LEMMA ToolTraced ==
  ASSUME Typed, Calm, Traced, NEW t \in Tools, ToolStep(t), faults = 0, faults' = 0
  PROVE  Traced'
<1> USE DEF log, pass
<1>1. /\ lock' = lock /\ pc' = pc /\ mem' = mem /\ saved' = saved /\ edits' = edits
      /\ copies' = copies
  BY DEF ToolStep, CollectPre, Capture, Mutate, CollectPost, CollectFailure,
         Discard, CollectorDies, AppendRaw
<1>2. Done' = Done /\ Hand' = Hand
  BY <1>1 DEF Done, Hand, Resting
<1>3. Done \in Nat /\ Len(raw) \in Nat /\ Done <= Len(raw)
      /\ (Hand # "none" => Done + 1 \in 1..Len(raw))
  BY CalmTypes
<1>4. ASSUME NEW hook \in Hooks, NEW next, AppendRaw(t, hook, next)
      PROVE  /\ raw' = Append(raw, [tool |-> t, hook |-> hook])
             /\ Len(raw') = Len(raw) + 1
             /\ [tool |-> t, hook |-> hook] = raw'[Len(raw) + 1]
             /\ \A i \in 1..Len(raw) : raw'[i] = raw[i] /\ i \in 1..Len(raw')
             /\ \A i \in 1..Len(raw') : i \in 1..Len(raw) \/ i = Len(raw) + 1
             /\ stage' = [stage EXCEPT ![t] = next]
  <2>1. [tool |-> t, hook |-> hook] \in Lines
    BY DEF Lines
  <2>2. raw' = Append(raw, [tool |-> t, hook |-> hook]) /\ stage' = [stage EXCEPT ![t] = next]
    BY <1>4 DEF AppendRaw
  <2> QED
    BY <2>1, <2>2, AppendedLines
<1>5. \/ raw' = raw
      \/ \E hook \in Hooks : \E next : AppendRaw(t, hook, next)
  BY DEF ToolStep, CollectPre, Capture, Mutate, CollectPost, CollectFailure,
         Discard, CollectorDies, Hooks
<1>6. Hand \in {"collect", "unlink", "edit"} => raw'[Done + 1].hook = "PostToolUse"
  <2>1. \A i \in 1..Len(raw) : raw'[i] = raw[i]
    BY <1>4, <1>5
  <2> QED
    BY <1>3, <2>1 DEF Traced
<1>7. ASSUME NEW s \in Tools, s # t PROVE Staged(s)' /\ Reported(s)'
  <2>1. stage'[s] = stage[s] /\ snapshot'[s] = snapshot[s] /\ (s \in content' <=> s \in content)
    BY <1>7 DEF ToolStep, CollectPre, Capture, Mutate, CollectPost, CollectFailure,
                Discard, CollectorDies, AppendRaw, Typed, TypeOK
  <2>2. \A i \in 1..Len(raw') : raw'[i] = Post(s) => i \in 1..Len(raw) /\ raw[i] = Post(s)
    <3>1. CASE raw' = raw
      BY <3>1
    <3>2. ASSUME NEW hook \in Hooks, NEW next, AppendRaw(t, hook, next)
          PROVE  \A i \in 1..Len(raw') : raw'[i] = Post(s) => i \in 1..Len(raw) /\ raw[i] = Post(s)
      <4>1. [tool |-> t, hook |-> hook] # Post(s)
        BY <1>7 DEF Post
      <4> QED
        BY <1>4, <3>2, <4>1
    <3> QED
      BY <1>5, <3>1, <3>2
  <2> QED
    BY <1>1, <1>2, <2>1, <2>2, CallKept DEF Traced
<1>8. Staged(t) /\ Reported(t)
  BY DEF Traced
<1>9. ASSUME NEW hook \in Hooks, hook # "PostToolUse", NEW next, AppendRaw(t, hook, next),
             \A i \in 1..Len(raw) : raw[i] # Post(t)
      PROVE  \A i \in 1..Len(raw') : raw'[i] # Post(t)
  <2>1. [tool |-> t, hook |-> hook] # Post(t)
    BY <1>9 DEF Post
  <2> QED
    BY <1>4, <1>9, <2>1
<1>10. stage[t] # "done" => \A i \in 1..Len(raw) : raw[i] # Post(t)
  BY <1>8 DEF Staged
<1>11. ASSUME CollectPre(t) PROVE Staged(t)' /\ Reported(t)'
  <2>1. stage[t] = "new" /\ AppendRaw(t, "PreToolUse", "capture") /\ content' = content
        /\ snapshot' = snapshot
    BY <1>11 DEF CollectPre
  <2>2. \A i \in 1..Len(raw') : raw'[i] # Post(t)
    BY <1>9, <1>10, <2>1 DEF Hooks
  <2>3. stage'[t] = "capture"
    BY <1>4, <2>1 DEF Hooks, Typed, TypeOK
  <2>4. t \notin content
    BY <1>8, <2>1 DEF Staged
  <2> QED
    BY <2>1, <2>2, <2>3, <2>4, NoLine
<1>12. ASSUME Capture(t) PROVE Staged(t)' /\ Reported(t)'
  <2>1. stage[t] = "capture" /\ stage'[t] = "running" /\ raw' = raw /\ content' = content
        /\ (t \in Mutating => snapshot'[t] = content)
    BY <1>12 DEF Capture, HasTargets, Typed, TypeOK
  <2>2. t \notin content /\ content # NULL
    <3>1. t \notin content
      BY <1>8, <2>1 DEF Staged
    <3>2. content \in SUBSET Tools
      BY DEF Typed, TypeOK
    <3> QED
      BY <3>1, <3>2
  <2> QED
    BY <1>10, <2>1, <2>2, NoLine
<1>13. ASSUME Mutate(t) PROVE Staged(t)' /\ Reported(t)'
  <2>1. stage[t] = "running" /\ stage' = stage /\ raw' = raw /\ t \in Mutating
        /\ snapshot' = snapshot
    BY <1>13 DEF Mutate
  <2>2. Tells(t)
    BY <1>8, <2>1 DEF Staged
  <2> QED
    BY <1>10, <2>1, <2>2, NoLine DEF Tells
<1>14. ASSUME CollectPost(t) PROVE Staged(t)' /\ Reported(t)'
  <2>1. stage[t] = "running" /\ AppendRaw(t, "PostToolUse", "done") /\ content' = content
        /\ snapshot' = snapshot /\ t \notin Mutating \ content
    BY <1>14 DEF CollectPost
  <2>2. stage'[t] = "done"
    BY <1>4, <2>1 DEF Hooks, Typed, TypeOK
  <2>3. \A i \in 1..Len(raw') : raw'[i] = Post(t) => i = Len(raw) + 1
    BY <1>4, <1>10, <2>1 DEF Hooks
  <2>4. Post(t)' = Post(t)
    BY DEF Post
  <2>5. t \in content => t \in Mutating
    BY <1>8 DEF Staged
  <2>6. Staged(t)'
    BY <2>1, <2>2, <2>3, <2>4, <2>5 DEF Staged
  <2>7. t \in content => Tells(t)'
    BY <1>8, <2>1, <2>5 DEF Staged, Tells
  <2>8. ~ Taken(Len(raw) + 1, Done, Hand) /\ ~ Finished(Len(raw) + 1, Done, Hand)
    BY <1>3 DEF Taken, Finished
  <2>9. Reported(t)'
    <3> SUFFICES ASSUME NEW i \in 1..Len(raw'), raw'[i] = Post(t), t \in content'
                 PROVE  /\ Waits(i, Done', Hand') => Tells(t)'
                        /\ Taken(i, Done', Hand') => t \in mem'[lock'.owner].change
                        /\ Finished(i, Done', Hand') => t \in edits'[t]
      BY <2>4 DEF Reported, Waits, Taken, Finished
    <3> QED
      BY <1>2, <2>1, <2>3, <2>7, <2>8
  <2> QED
    BY <2>6, <2>9
<1>15. ASSUME CollectFailure(t) PROVE Staged(t)' /\ Reported(t)'
  <2>1. stage[t] = "running" /\ AppendRaw(t, "PostToolUseFailure", "failed")
        /\ content' = content /\ snapshot' = snapshot
    BY <1>15 DEF CollectFailure
  <2>2. \A i \in 1..Len(raw') : raw'[i] # Post(t)
    BY <1>9, <1>10, <2>1 DEF Hooks
  <2>3. stage'[t] = "failed"
    BY <1>4, <2>1 DEF Hooks, Typed, TypeOK
  <2>4. t \in content => t \in Mutating
    BY <1>8 DEF Staged
  <2> QED
    BY <2>1, <2>2, <2>3, <2>4, NoLine
<1>16. ASSUME Discard(t) PROVE Staged(t)' /\ Reported(t)'
  <2>1. stage[t] = "failed" /\ stage'[t] = "done" /\ raw' = raw /\ content' = content
    BY <1>16 DEF Discard, Typed, TypeOK
  <2>2. t \in content => t \in Mutating
    BY <1>8 DEF Staged
  <2> QED
    BY <1>10, <2>1, <2>2, NoLine
<1>17. ~ CollectorDies(t)
  BY DEF CollectorDies, Typed, TypeOK
<1>18. Staged(t)' /\ Reported(t)'
  BY <1>8, <1>11, <1>12, <1>13, <1>14, <1>15, <1>16, <1>17 DEF ToolStep
<1>19. \A s \in Tools : Staged(s)' /\ Reported(s)'
  BY <1>7, <1>18
<1> QED
  BY <1>2, <1>6, <1>19 DEF Traced

\* A step that leaves the calls as they are and takes a line from one place to
\* the next: each line must be reported where it is now.
LEMMA Moved ==
  ASSUME Traced, raw' = raw, stage' = stage, content' = content,
         Hand' \in {"collect", "unlink", "edit"} => raw[Done' + 1].hook = "PostToolUse",
         \A s \in Tools : stage[s] # "done" => snapshot'[s] = snapshot[s],
         \A s \in Tools : \A i \in 1..Len(raw) : raw[i] = Post(s) /\ s \in content =>
           /\ Waits(i, Done', Hand') => snapshot'[s] # NULL /\ s \notin snapshot'[s]
           /\ Taken(i, Done', Hand') => s \in mem'[lock'.owner].change
           /\ Finished(i, Done', Hand') => s \in edits'[s]
  PROVE  Traced'
<1>1. \A s \in Tools : Post(s)' = Post(s)
  BY DEF Post
<1>2. ASSUME NEW s \in Tools PROVE Staged(s)'
  <2>1. Staged(s)
    BY DEF Traced
  <2> QED
    BY <1>1, <2>1 DEF Staged, Tells
<1>3. ASSUME NEW s \in Tools PROVE Reported(s)'
  <2> SUFFICES ASSUME NEW i \in 1..Len(raw), raw[i] = Post(s), s \in content
               PROVE  /\ Waits(i, Done', Hand') => Tells(s)'
                      /\ Taken(i, Done', Hand') => s \in mem'[lock'.owner].change
                      /\ Finished(i, Done', Hand') => s \in edits'[s]
    BY <1>1 DEF Reported, Waits, Taken, Finished
  <2> QED
    BY DEF Tells
<1> QED
  BY <1>2, <1>3 DEF Traced

\* A step that takes no line anywhere.
LEMMA NotMoved ==
  ASSUME Traced, raw' = raw, stage' = stage, content' = content, snapshot' = snapshot,
         edits' = edits, Done' = Done, Hand' = Hand, Hand = "none"
  PROVE  Traced'
<1>1. ASSUME NEW s \in Tools, NEW i \in 1..Len(raw), raw[i] = Post(s), s \in content
      PROVE  /\ Waits(i, Done, Hand) => Tells(s)
             /\ Finished(i, Done, Hand) => s \in edits[s]
             /\ ~ Taken(i, Done, Hand)
  BY <1>1 DEF Traced, Reported, Taken
<1> QED
  BY <1>1, Moved DEF Tells

LEMMA PassTraced ==
  ASSUME Typed, Typed', Landed, Calm, Calm', Traced, NEW p \in Parsers, PassStep(p)
  PROVE  Traced'
<1> USE DEF claude, log
<1>k. raw' = raw /\ stage' = stage /\ content' = content
  BY DEF PassStep, LoadState, ReadRaw, SkipLine, AppendEvent, Compare, Unlink,
         AppendEdit, Record, SaveBegins, SaveEnds, Unlock
<1>p. Working(p) /\ lock # NULL /\ lock.owner = p
  <2>1. Working(p)
    BY DEF PassStep, LoadState, ReadRaw, SkipLine, AppendEvent, Compare, Unlink,
           AppendEdit, Record, SaveBegins, SaveEnds, Unlock, Goto, Working
  <2> QED
    BY <2>1, Worker DEF Calm
<1>d. Done = (IF pc[p] = "load" THEN saved.next ELSE mem[p].next)
      /\ Hand = IF pc[p] \in InHand THEN pc[p] ELSE "none"
  BY <1>p, Position
<1>a. ~ Unlock(p) =>
        /\ lock' = lock
        /\ Done' = (IF pc'[p] = "load" THEN saved'.next ELSE mem'[p].next)
        /\ Hand' = IF pc'[p] \in InHand THEN pc'[p] ELSE "none"
  <2> SUFFICES ASSUME ~ Unlock(p)
               PROVE  /\ lock' = lock
                      /\ Done' = (IF pc'[p] = "load" THEN saved'.next ELSE mem'[p].next)
                      /\ Hand' = IF pc'[p] \in InHand THEN pc'[p] ELSE "none"
    OBVIOUS
  <2>1. lock' = lock
    BY PassCalm
  <2> QED
    BY <1>p, <2>1, PositionAfter
<1>t. /\ Done \in Nat /\ Len(raw) \in Nat
      /\ Hand # "none" => Done + 1 \in 1..Len(raw)
  BY CalmTypes
<1>m. mem[p] \in MemType /\ mem[p].next \in Nat /\ Index(p) = mem[p].next + 1
      /\ \A m : Keep(p, m) => mem'[p] = m
  BY MemOf
<1>c. \A to : pc' = [pc EXCEPT ![p] = to] => pc'[p] = to
  BY DEF Typed, TypeOK
<1>l. \A i \in 1..Len(raw) : raw[i] \in Lines
  BY DEF Typed, TypeOK
<1>r. ASSUME NEW s \in Tools, NEW i \in 1..Len(raw), raw[i] = Post(s), s \in content
      PROVE  /\ Waits(i, Done, Hand) => Tells(s)
             /\ Taken(i, Done, Hand) => s \in mem[p].change
             /\ Finished(i, Done, Hand) => s \in edits[s]
  BY <1>p, <1>r DEF Traced, Reported
<1>h. Hand \in {"collect", "unlink", "edit"} =>
        /\ raw[Done + 1].tool \in Tools
        /\ raw[Done + 1] = Post(raw[Done + 1].tool)
        /\ stage[raw[Done + 1].tool] = "done"
        /\ \A i \in 1..Len(raw) : raw[i] = Post(raw[Done + 1].tool) => i = Done + 1
  <2> SUFFICES ASSUME Hand \in {"collect", "unlink", "edit"}
               PROVE  /\ raw[Done + 1].tool \in Tools
                      /\ raw[Done + 1] = Post(raw[Done + 1].tool)
                      /\ stage[raw[Done + 1].tool] = "done"
                      /\ \A i \in 1..Len(raw) : raw[i] = Post(raw[Done + 1].tool) => i = Done + 1
    OBVIOUS
  <2>1. Done + 1 \in 1..Len(raw) /\ raw[Done + 1] \in Lines
        /\ raw[Done + 1].hook = "PostToolUse"
    BY <1>t, <1>l DEF Traced
  <2>2. raw[Done + 1].tool \in Tools /\ raw[Done + 1] = Post(raw[Done + 1].tool)
    BY <2>1 DEF Lines, Post
  <2> QED
    BY <2>1, <2>2 DEF Traced, Staged
<1>1. CASE LoadState(p)
  <2>1. pc[p] = "load" /\ pc' = [pc EXCEPT ![p] = "read"] /\ snapshot' = snapshot
        /\ edits' = edits /\ ~ Unlock(p)
        /\ Keep(p, [NoPass EXCEPT !.next = Loaded.next, !.seen = Loaded.seen])
    BY <1>1 DEF LoadState, Goto, Unlock
  <2>2. Loaded = saved
    BY <1>p, <2>1 DEF Calm, SavedBehind, Loaded
  <2>3. mem'[p].next = saved.next
    <3>1. [NoPass EXCEPT !.next = Loaded.next, !.seen = Loaded.seen].next = Loaded.next
      BY DEF NoPass
    <3> QED
      BY <1>m, <2>1, <2>2, <3>1
  <2>4. Done' = Done /\ Hand' = "none" /\ Hand = "none"
    BY <1>a, <1>c, <1>d, <2>1, <2>3 DEF InHand
  <2> QED
    BY <1>k, <2>1, <2>4, NotMoved
<1>2. CASE ReadRaw(p) \/ SaveBegins(p) \/ SaveEnds(p)
  <2>1. pc[p] \in {"read", "flush", "line", "flushing", "finishing"} /\ ~ Unlock(p)
        /\ snapshot' = snapshot /\ edits' = edits
    BY <1>2 DEF ReadRaw, SaveBegins, SaveEnds, Goto, Unlock
  <2>2. PICK to \in {"line", "flushing", "finishing", "unlock"} : pc' = [pc EXCEPT ![p] = to]
    BY <1>2 DEF ReadRaw, SaveBegins, SaveEnds, Goto
  <2>3. mem'[p].next = mem[p].next
    <3>1. CASE ReadRaw(p)
      BY <1>m, <3>1 DEF ReadRaw, MemType
    <3>2. CASE SaveBegins(p)
      BY <1>m, <3>2 DEF SaveBegins, MemType
    <3>3. CASE SaveEnds(p)
      BY <1>m, <3>3 DEF SaveEnds, MemType
    <3> QED
      BY <1>2, <3>1, <3>2, <3>3
  <2>4. pc'[p] = to
    BY <1>c, <2>2
  <2>5. Done' = Done /\ Hand' = "none" /\ Hand = "none"
    BY <1>a, <1>d, <2>1, <2>3, <2>4 DEF InHand
  <2> QED
    BY <1>k, <2>1, <2>5, NotMoved
<1>3. ~ SkipLine(p)
  BY NoneSkipped DEF SkipLine, Goto
<1>4. CASE AppendEvent(p)
  <2>1. pc[p] = "line" /\ HasLine(p) /\ mem' = mem /\ snapshot' = snapshot /\ edits' = edits
        /\ ~ Unlock(p)
        /\ pc' = [pc EXCEPT ![p] = IF raw[Index(p)].hook = "PostToolUse" THEN "collect"
                                   ELSE "record"]
    BY <1>4 DEF AppendEvent, Goto, Unlock
  <2>2. Done = mem[p].next /\ Hand = "none"
    BY <2>1, NoneSkipped
  <2>3. Done' = Done /\ Hand' = IF raw[Done + 1].hook = "PostToolUse" THEN "collect"
                                ELSE "record"
    BY <1>a, <1>c, <1>m, <2>1, <2>2 DEF InHand
  <2>4. ASSUME NEW s \in Tools, NEW i \in 1..Len(raw), raw[i] = Post(s), s \in content
        PROVE  /\ Waits(i, Done', Hand') => snapshot'[s] # NULL /\ s \notin snapshot'[s]
               /\ ~ Taken(i, Done', Hand')
               /\ Finished(i, Done', Hand') => s \in edits'[s]
    <3>1. Waits(i, Done', Hand') => Waits(i, Done, Hand)
      BY <2>2, <2>3 DEF Waits
    <3>2. ~ Taken(i, Done', Hand')
      BY <2>3 DEF Taken
    <3>3. i = Done + 1 => Hand' # "record"
      BY <2>3, <2>4 DEF Post
    <3>4. Finished(i, Done', Hand') => Finished(i, Done, Hand)
      BY <2>3, <3>3 DEF Finished
    <3> QED
      BY <1>r, <2>1, <2>4, <3>1, <3>2, <3>4 DEF Tells
  <2>5. Hand' \in {"collect", "unlink", "edit"} => raw[Done' + 1].hook = "PostToolUse"
    BY <2>3
  <2> QED
    BY <1>k, <2>1, <2>4, <2>5, Moved
<1>5. CASE Compare(p)
  <2> DEFINE t == raw[Index(p)].tool
             c == IF snapshot[t] = NULL THEN {} ELSE content \ snapshot[t]
             to == IF snapshot[t] = NULL THEN "record" ELSE "unlink"
  <2>1. pc[p] = "collect" /\ pc' = [pc EXCEPT ![p] = to] /\ ~ Unlock(p)
        /\ Keep(p, [mem[p] EXCEPT !.change = c]) /\ snapshot' = snapshot /\ edits' = edits
    BY <1>5 DEF Compare, Goto, Unlock
  <2>2. Done = mem[p].next /\ Hand = "collect" /\ Index(p) = Done + 1
    BY <1>d, <1>m, <2>1 DEF InHand
  <2>3. mem'[p].next = mem[p].next /\ mem'[p].change = c
    BY <1>m, <2>1 DEF MemType
  <2>4. Done' = Done /\ Hand' = to
    BY <1>a, <1>c, <2>1, <2>2, <2>3 DEF InHand
  <2>5. ASSUME NEW s \in Tools, NEW i \in 1..Len(raw), raw[i] = Post(s), s \in content
        PROVE  /\ Waits(i, Done', Hand') => snapshot'[s] # NULL /\ s \notin snapshot'[s]
               /\ Taken(i, Done', Hand') => s \in mem'[lock'.owner].change
               /\ Finished(i, Done', Hand') => s \in edits'[s]
    <3>1. Waits(i, Done', Hand') => Waits(i, Done, Hand)
      BY <2>2, <2>4 DEF Waits
    <3>2. CASE i = Done + 1
      <4>1. t = s
        BY <2>2, <2>5, <3>2 DEF Post
      <4>2. Tells(s)
        BY <1>r, <1>t, <2>2, <2>5, <3>2 DEF Waits
      <4>3. to = "unlink" /\ s \in c
        BY <2>5, <4>1, <4>2 DEF Tells
      <4>4. s \in mem'[lock'.owner].change
        BY <1>a, <1>p, <2>1, <2>3, <4>3
      <4>5. ~ Finished(i, Done', Hand')
        BY <1>t, <2>4, <3>2, <4>3 DEF Finished
      <4> QED
        BY <2>1, <4>2, <4>4, <4>5 DEF Tells
    <3>3. CASE i # Done + 1
      <4>1. ~ Taken(i, Done', Hand')
        BY <2>4, <3>3 DEF Taken
      <4>2. Finished(i, Done', Hand') => Finished(i, Done, Hand)
        BY <2>4, <3>3 DEF Finished
      <4> QED
        BY <1>r, <2>1, <2>5, <3>1, <4>1, <4>2 DEF Tells
    <3> QED
      BY <3>2, <3>3
  <2>6. raw[Done' + 1].hook = "PostToolUse"
    BY <2>2, <2>4 DEF Traced
  <2> QED
    BY <1>k, <2>1, <2>5, <2>6, Moved
<1>6. CASE Unlink(p)
  <2> DEFINE t == raw[Index(p)].tool
             to == IF mem[p].change = {} THEN "record" ELSE "edit"
  <2>1. pc[p] = "unlink" /\ pc' = [pc EXCEPT ![p] = to] /\ ~ Unlock(p) /\ mem' = mem
        /\ snapshot' = [snapshot EXCEPT ![t] = NULL] /\ edits' = edits
    BY <1>6 DEF Unlink, Goto, Unlock
  <2>2. Done = mem[p].next /\ Hand = "unlink" /\ Index(p) = Done + 1
    BY <1>d, <1>m, <2>1 DEF InHand
  <2>4. Done' = Done /\ Hand' = to
    BY <1>a, <1>c, <2>1, <2>2 DEF InHand
  <2>h. /\ t \in Tools /\ stage[t] = "done" /\ raw[Done + 1].hook = "PostToolUse"
        /\ \A i \in 1..Len(raw) : raw[i] = Post(t) => i = Done + 1
    BY <1>h, <2>2 DEF Traced
  <2>s. \A s \in Tools : s # t => snapshot'[s] = snapshot[s]
    BY <2>1, <2>h DEF Typed, TypeOK
  <2> HIDE DEF t
  <2>5. ASSUME NEW s \in Tools, NEW i \in 1..Len(raw), raw[i] = Post(s), s \in content
        PROVE  /\ Waits(i, Done', Hand') => snapshot'[s] # NULL /\ s \notin snapshot'[s]
               /\ Taken(i, Done', Hand') => s \in mem'[lock'.owner].change
               /\ Finished(i, Done', Hand') => s \in edits'[s]
    <3>1. CASE i = Done + 1
      <4>1. s \in mem[p].change
        BY <1>r, <2>2, <2>5, <3>1 DEF Taken
      <4>2. to = "edit"
        BY <4>1
      <4>3. s \in mem'[lock'.owner].change
        BY <1>a, <1>p, <2>1, <4>1
      <4>4. ~ Finished(i, Done', Hand') /\ ~ Waits(i, Done', Hand')
        BY <1>t, <2>4, <3>1, <4>2 DEF Finished, Waits
      <4> QED
        BY <4>3, <4>4
    <3>2. CASE i # Done + 1
      <4>1. ~ Taken(i, Done', Hand')
        BY <2>4, <3>2 DEF Taken
      <4>2. Finished(i, Done', Hand') => Finished(i, Done, Hand)
        BY <2>4, <3>2 DEF Finished
      <4>3. Waits(i, Done', Hand') => Waits(i, Done, Hand)
        BY <2>4, <3>2 DEF Waits
      <4>4. snapshot'[s] = snapshot[s]
        BY <2>5, <2>h, <2>s, <3>2
      <4> QED
        BY <1>r, <2>1, <2>5, <4>1, <4>2, <4>3, <4>4 DEF Tells
    <3> QED
      BY <3>1, <3>2
  <2>6. raw[Done' + 1].hook = "PostToolUse"
    BY <2>4, <2>h
  <2>7. \A s \in Tools : stage[s] # "done" => snapshot'[s] = snapshot[s]
    BY <2>h, <2>s
  <2> QED
    BY <1>k, <2>5, <2>6, <2>7, Moved
<1>7. CASE AppendEdit(p)
  <2> DEFINE t == raw[Index(p)].tool
  <2>1. pc[p] = "edit" /\ pc' = [pc EXCEPT ![p] = "record"] /\ ~ Unlock(p) /\ mem' = mem
        /\ snapshot' = snapshot /\ edits' = [edits EXCEPT ![t] = @ \cup mem[p].change]
    BY <1>7 DEF AppendEdit, Goto, Unlock
  <2>2. Done = mem[p].next /\ Hand = "edit" /\ Index(p) = Done + 1
    BY <1>d, <1>m, <2>1 DEF InHand
  <2>4. Done' = Done /\ Hand' = "record"
    BY <1>a, <1>c, <2>1, <2>2 DEF InHand
  <2>h. t \in Tools
    BY <1>h, <2>2
  <2>e. edits'[t] = edits[t] \cup mem[p].change /\ \A s \in Tools : edits[s] \subseteq edits'[s]
    BY <2>1, <2>h DEF Typed, TypeOK
  <2>5. ASSUME NEW s \in Tools, NEW i \in 1..Len(raw), raw[i] = Post(s), s \in content
        PROVE  /\ Waits(i, Done', Hand') => snapshot'[s] # NULL /\ s \notin snapshot'[s]
               /\ ~ Taken(i, Done', Hand')
               /\ Finished(i, Done', Hand') => s \in edits'[s]
    <3>1. ~ Taken(i, Done', Hand')
      BY <2>4 DEF Taken
    <3>2. CASE i = Done + 1
      <4>1. t = s
        BY <2>2, <2>5, <3>2 DEF Post
      <4>2. s \in edits'[s]
        BY <1>r, <2>2, <2>5, <2>e, <3>2, <4>1 DEF Taken
      <4>3. ~ Waits(i, Done', Hand')
        BY <2>4, <3>2 DEF Waits
      <4> QED
        BY <3>1, <4>2, <4>3
    <3>3. CASE i # Done + 1
      <4>1. Finished(i, Done', Hand') => Finished(i, Done, Hand)
        BY <2>4, <3>3 DEF Finished
      <4>2. Waits(i, Done', Hand') => Waits(i, Done, Hand)
        BY <2>4, <3>3 DEF Waits
      <4> QED
        BY <1>r, <2>1, <2>5, <2>e, <3>1, <4>1, <4>2 DEF Tells
    <3> QED
      BY <3>2, <3>3
  <2> QED
    BY <1>k, <2>1, <2>4, <2>5, Moved
<1>8. CASE Record(p)
  <2> DEFINE to == AfterLine(mem[p].done + 1)
  <2>1. pc[p] = "record" /\ pc' = [pc EXCEPT ![p] = to] /\ ~ Unlock(p)
        /\ Keep(p, [Counted(mem[p]) EXCEPT !.seen = @ \cup {Index(p)}])
        /\ snapshot' = snapshot /\ edits' = edits
    BY <1>8 DEF Record, Goto, Unlock
  <2>0. to \notin InHand /\ to # "load"
    BY AfterLinePlace DEF InHand
  <2> HIDE DEF to
  <2>2. Done = mem[p].next /\ Hand = "record"
    BY <1>d, <2>1 DEF InHand
  <2>3. mem'[p].next = mem[p].next + 1
    BY <1>m, <2>1 DEF MemType, Counted
  <2>4. Done' = Done + 1 /\ Hand' = "none"
    BY <1>a, <1>c, <2>0, <2>1, <2>2, <2>3
  <2>5. ASSUME NEW s \in Tools, NEW i \in 1..Len(raw), raw[i] = Post(s), s \in content
        PROVE  /\ Waits(i, Done', Hand') => snapshot'[s] # NULL /\ s \notin snapshot'[s]
               /\ ~ Taken(i, Done', Hand')
               /\ Finished(i, Done', Hand') => s \in edits'[s]
    <3>1. ~ Taken(i, Done', Hand')
      BY <2>4 DEF Taken
    <3>2. Waits(i, Done + 1, "none") => Waits(i, Done, Hand)
      BY <1>t, <2>2 DEF Waits
    <3>3. Finished(i, Done + 1, "none") => Finished(i, Done, Hand)
      BY <1>t, <2>2 DEF Finished
    <3> QED
      BY <1>r, <2>1, <2>4, <2>5, <3>1, <3>2, <3>3 DEF Tells
  <2> QED
    BY <1>k, <2>1, <2>4, <2>5, Moved
<1>9. CASE Unlock(p)
  <2>1. pc[p] = "unlock" /\ lock' = NULL /\ saved' = saved /\ snapshot' = snapshot
        /\ edits' = edits
    BY <1>9 DEF Unlock, Goto
  <2>2. Done = mem[p].next /\ Hand = "none" /\ saved.next = mem[p].next
    BY <1>d, <2>1 DEF InHand, Calm, SavedBehind
  <2>3. Done' = saved.next /\ Hand' = "none"
    BY <2>1 DEF Done, Hand, Resting
  <2> QED
    BY <1>k, <2>1, <2>2, <2>3, NotMoved
<1> QED
  BY <1>1, <1>2, <1>3, <1>4, <1>5, <1>6, <1>7, <1>8, <1>9 DEF PassStep

LEMMA NextTraced ==
  ASSUME Typed, Typed', Landed, InvCalm, InvCalm', InvEdits, [Next]_vars
  PROVE  InvEdits'
<1> SUFFICES ASSUME faults' = 0 PROVE Traced'
  BY DEF InvEdits
<1> USE DEF claude, log, pass
<1>0. faults \in Nat /\ Calm'
  BY DEF Typed, TypeOK, InvCalm
<1>q. ASSUME UNCHANGED <<claude, snapshot, log, saved, mem, faults>>,
             Done' = Done, Hand' = Hand, Hand = "none" \/ lock' = lock
      PROVE  Traced'
  <2>1. Traced
    BY <1>q DEF InvEdits
  <2>2. CASE Hand = "none"
    BY <1>q, <2>1, <2>2, NotMoved
  <2>3. CASE lock' = lock
    <3>1. ASSUME NEW s \in Tools PROVE Staged(s)' /\ Reported(s)'
      BY <1>q, <2>1, <2>3, CallKept DEF Traced
    <3> QED
      BY <1>q, <2>1, <3>1 DEF Traced
  <2> QED
    BY <1>q, <2>2, <2>3
<1>1. ASSUME NEW t \in Tools, ToolStep(t) PROVE Traced'
  <2>1. faults = 0
    BY <1>0, <1>1 DEF ToolStep, CollectPre, Capture, Mutate, CollectPost, CollectFailure,
                      Discard, CollectorDies, AppendRaw
  <2> QED
    BY <1>1, <2>1, ToolTraced DEF InvEdits, InvCalm
<1>2. ~ RestOfLine
  BY DEF RestOfLine, InvCalm, Calm, Whole
<1>3. ~ LockAges
  <2>1. LockAges => faults = 0 /\ Abandoned
    BY <1>0 DEF LockAges
  <2> QED
    BY <2>1 DEF InvCalm, Calm, Alone, Abandoned
<1>4. ASSUME NEW p \in Parsers, TakeLock(p) PROVE Traced'
  <2>1. UNCHANGED <<claude, snapshot, log, saved, mem, faults>> /\ lock = NULL
        /\ lock' = [owner |-> p, stale |-> FALSE] /\ pc' = [pc EXCEPT ![p] = "load"]
    BY <1>4 DEF TakeLock
  <2>2. lock'.owner = p /\ pc'[p] = "load"
    BY <2>1 DEF Typed, TypeOK
  <2>3. Done' = Done /\ Hand' = Hand /\ Hand = "none"
    BY <2>1, <2>2 DEF Done, Hand, Resting
  <2> QED
    BY <1>q, <2>1, <2>3
<1>5. ASSUME NEW p \in Parsers PROVE ~ FindStale(p) /\ ~ BreakLock(p)
  BY DEF FindStale, BreakLock, InvCalm, Calm, Alone
<1>6. ASSUME NEW p \in Parsers, PassStep(p) PROVE Traced'
  <2>1. faults = 0
    BY <1>6 DEF PassStep, LoadState, ReadRaw, SkipLine, AppendEvent, Compare, Unlink,
                AppendEdit, Record, SaveBegins, SaveEnds, Unlock
  <2> QED
    BY <1>0, <1>6, <2>1, PassTraced DEF InvCalm, InvEdits
<1>7. ASSUME NEW p \in Parsers PROVE ~ Throw(p) /\ ~ Die(p)
  BY <1>0 DEF Throw, Die
<1>8. CASE UNCHANGED vars
  <2>1. Done' = Done /\ Hand' = Hand
    BY <1>8 DEF vars, Done, Hand, Resting
  <2> QED
    BY <1>8, <1>q, <2>1 DEF vars
<1> QED
  <2>1. ASSUME NEW p \in Parsers, ParserStep(p) PROVE Traced'
    BY <2>1, <1>4, <1>5, <1>6 DEF ParserStep
  <2> QED
    BY <2>1, <1>1, <1>2, <1>3, <1>7, <1>8 DEF Next

\* snapshots.ts:109: a change made by a call whose PostToolUse line is done is
\* named by its edit event, if nothing failed between capture and append: for
\* any number of calls and parsers, and with other calls' changes in the file.
THEOREM HookEdits == Spec => []EditsReported
<1>1. Typed /\ InvCalm /\ InvEdits => EditsReported
  <2> SUFFICES ASSUME Typed, InvCalm, InvEdits, faults = 0, saved # NULL,
                      NEW i \in 1..saved.next, raw[i].hook = "PostToolUse",
                      raw[i].tool \in content
               PROVE  raw[i].tool \in edits[raw[i].tool]
    BY DEF EditsReported
  <2>1. Calm /\ Traced
    BY DEF InvCalm, InvEdits
  <2>2. Done \in Nat /\ Len(raw) \in Nat /\ Done <= Len(raw)
    BY <2>1, CalmTypes
  <2>3. saved.next <= Done
    <3>1. saved.next \in Nat
      BY DEF Typed, TypeOK, States
    <3>2. CASE Resting
      BY <3>1, <3>2 DEF Done
    <3>3. CASE ~Resting
      <4>1. lock.owner \in Parsers /\ Working(lock.owner) /\ pc[lock.owner] # "load"
        BY <2>1, <3>3 DEF Resting, Calm, Alone, Typed, TypeOK, Locks
      <4> QED
        BY <2>1, <3>3, <4>1 DEF Done, Calm, SavedBehind
    <3> QED
      BY <3>2, <3>3
  <2>4. i <= Done /\ i \in 1..Len(raw)
    <3>1. saved.next \in Nat
      BY DEF Typed, TypeOK, States
    <3> QED
      BY <2>2, <2>3, <3>1
  <2>5. raw[i] \in Lines
    BY <2>4 DEF Typed, TypeOK
  <2>6. raw[i].tool \in Tools /\ raw[i] = Post(raw[i].tool)
    BY <2>5 DEF Lines, Post
  <2>7. Finished(i, Done, Hand)
    BY <2>4 DEF Finished
  <2> QED
    BY <2>1, <2>4, <2>6, <2>7 DEF Traced, Reported
<1>2. Init => InvCalm /\ InvEdits
  BY InitCalm
<1> QED
  BY <1>1, <1>2, InitTypes, NextTypes, InitLanded, NextLanded, NextCalm, NextTraced, PTL
  DEF Spec
=============================================================================
