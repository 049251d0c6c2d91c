---------------------------- MODULE DomainProofs ----------------------------
(***************************************************************************)
(* Proofs about what Core keeps and answers, for every value of the         *)
(* constants: the projected usage, the tools and their retention, the       *)
(* migrations, the account usage and the reports.  Each part has an         *)
(* inductive invariant of its own; the last section puts them side by side  *)
(* as MCDomain does.                                                       *)
(*                                                                         *)
(* An induction over data is made with the lemma Induction: the numbers for *)
(* which something holds are a set that has 0 and all successors.           *)
(***************************************************************************)
EXTENDS MCDomain, FiniteSetTheorems, WellFoundedInduction, TLAPS

-----------------------------------------------------------------------------
(* Numbers and finite sets. *)

LEMMA Least ==
  ASSUME NEW S \in SUBSET Nat, S # {}
  PROVE  \E n \in S : \A m \in S : n <= m
<1> DEFINE Less == OpToRel(<, Nat)
<1>1. IsWellFoundedOn(Less, Nat)
  BY NatLessThanWellFounded
<1> HIDE DEF Less
<1>2. PICK n \in S : \A y \in S : ~ (<<y, n>> \in Less)
  BY <1>1, WFMin
<1>3. ASSUME NEW m \in S, m < n PROVE <<m, n>> \in Less
  BY <1>3 DEF Less, OpToRel
<1>4. ASSUME NEW m \in S PROVE n <= m
  <2>1. n \in Nat /\ m \in Nat
    OBVIOUS
  <2>2. ~ (m < n)
    BY <1>2, <1>3
  <2> QED
    BY <2>1, <2>2
<1> QED
  BY <1>4

LEMMA Induction ==
  ASSUME NEW S \in SUBSET Nat, 0 \in S, \A n \in S : n + 1 \in S
  PROVE  S = Nat
<1> SUFFICES ASSUME Nat \ S # {} PROVE FALSE
  OBVIOUS
<1>1. PICK n \in Nat \ S : \A m \in Nat \ S : n <= m
  BY Least
<1>2. n # 0 /\ n - 1 \in Nat
  BY <1>1
<1>3. n - 1 \in S
  BY <1>1, <1>2
<1> QED
  BY <1>1, <1>3

LEMMA Greatest ==
  ASSUME NEW S \in SUBSET Nat, S # {}, NEW n \in Nat, \A m \in S : m <= n
  PROVE  \E x \in S : \A m \in S : m <= x
<1> DEFINE rest == {n - m : m \in S}
<1>1. rest \in SUBSET Nat /\ rest # {}
  <2>1. ASSUME NEW m \in S PROVE n - m \in Nat
    <3>1. m \in Nat /\ m <= n
      OBVIOUS
    <3> QED
      BY <3>1
  <2> QED
    BY <2>1
<1>2. PICK u \in rest : \A v \in rest : u <= v
  BY <1>1, Least
<1>3. PICK x \in S : u = n - x
  BY <1>2
<1>4. ASSUME NEW m \in S PROVE m <= x
  <2>1. n - x <= n - m
    BY <1>2, <1>3
  <2> QED
    BY <2>1
<1> QED
  BY <1>4

LEMMA FiniteIsBounded ==
  ASSUME NEW S \in SUBSET Nat, IsFiniteSet(S)
  PROVE  \E n \in Nat : \A m \in S : m <= n
<1> DEFINE Bounded(P) == \E b \in Nat : \A m \in P : m <= b
           AreBounded(n) == \A P \in SUBSET S : IsFiniteSet(P) /\ Cardinality(P) = n => Bounded(P)
           N == {n \in Nat : AreBounded(n)}
<1>1. AreBounded(0)
  BY FS_EmptySet
<1>2. ASSUME NEW n \in Nat, AreBounded(n), NEW P \in SUBSET S, IsFiniteSet(P), Cardinality(P) = n + 1
      PROVE  Bounded(P)
  <2>1. Cardinality(P) # 0
    BY <1>2
  <2>2. PICK p \in P : TRUE
    BY <2>1, FS_EmptySet
  <2>3. IsFiniteSet(P \ {p}) /\ Cardinality(P \ {p}) = n + 1 - 1
    BY <1>2, <2>2, FS_RemoveElement
  <2>4. PICK b \in Nat : \A m \in P \ {p} : m <= b
    BY <1>2, <2>3
  <2>5. b + p \in Nat /\ \A m \in P : m <= b + p
    BY <2>4
  <2> QED
    BY <2>5
<1> HIDE DEF Bounded
<1>3. N = Nat
  <2>1. \A n \in N : n + 1 \in N
    BY <1>2
  <2> QED
    BY <1>1, <2>1, Induction
<1>4. Cardinality(S) \in Nat
  BY FS_CardinalityType
<1>5. Bounded(S)
  BY <1>3, <1>4
<1> QED
  BY <1>5 DEF Bounded

\* Of rows with a time and an id there is a first and a last one.
InTime(S) == \A e \in S : e.at \in Nat /\ e.id \in Nat /\ \A f \in S : e.id = f.id => e = f

LEMMA EarliestIsThere ==
  ASSUME NEW S, InTime(S), S # {}
  PROVE  \E e \in S : \A f \in S \ {e} : e.at < f.at \/ (e.at = f.at /\ e.id < f.id)
<1> DEFINE times == {e.at : e \in S}
<1>1. PICK t \in times : \A u \in times : t <= u
  <2>1. times \in SUBSET Nat /\ times # {}
    BY DEF InTime
  <2> HIDE DEF times
  <2> QED
    BY <2>1, Least
<1> DEFINE ids == {e.id : e \in {f \in S : f.at = t}}
<1>2. PICK i \in ids : \A j \in ids : i <= j
  <2>1. ids \in SUBSET Nat /\ ids # {}
    BY <1>1 DEF InTime
  <2> HIDE DEF ids
  <2> QED
    BY <2>1, Least
<1>3. PICK e \in S : e.at = t /\ e.id = i
  BY <1>2
<1>4. ASSUME NEW f \in S \ {e} PROVE e.at < f.at \/ (e.at = f.at /\ e.id < f.id)
  <2>1. f.at \in Nat /\ f.id \in Nat /\ e.at \in Nat /\ e.id \in Nat /\ f.id # e.id
    BY DEF InTime
  <2>2. e.at <= f.at
    BY <1>1, <1>3
  <2>3. f.at = e.at => e.id <= f.id
    BY <1>2, <1>3
  <2> QED
    BY <2>1, <2>2, <2>3
<1> QED
  BY <1>4

LEMMA TimesAreFinite ==
  ASSUME NEW S, InTime(S), IsFiniteSet(S)
  PROVE  /\ IsFiniteSet({e.at : e \in S}) /\ {e.at : e \in S} \in SUBSET Nat
         /\ IsFiniteSet({e.id : e \in S}) /\ {e.id : e \in S} \in SUBSET Nat
<1>1. [e \in S |-> e.at] \in Surjection(S, {e.at : e \in S})
  BY DEF Surjection
<1>2. [e \in S |-> e.id] \in Surjection(S, {e.id : e \in S})
  BY DEF Surjection
<1>3. IsFiniteSet({e.at : e \in S}) /\ IsFiniteSet({e.id : e \in S})
  BY <1>1, <1>2, FS_Surjection
<1> QED
  BY <1>3 DEF InTime

LEMMA LatestIsThere ==
  ASSUME NEW S, InTime(S), S # {}, IsFiniteSet(S)
  PROVE  \E e \in S : \A f \in S \ {e} : f.at < e.at \/ (f.at = e.at /\ f.id < e.id)
<1> DEFINE times == {e.at : e \in S}
<1>1. PICK t \in times : \A u \in times : u <= t
  <2>1. IsFiniteSet(times) /\ times \in SUBSET Nat /\ times # {}
    BY TimesAreFinite
  <2> HIDE DEF times
  <2>2. PICK n \in Nat : \A u \in times : u <= n
    BY <2>1, FiniteIsBounded
  <2> QED
    BY <2>1, <2>2, Greatest
<1> DEFINE last == {f \in S : f.at = t}
           ids == {e.id : e \in last}
<1>2. PICK i \in ids : \A j \in ids : j <= i
  <2>1. IsFiniteSet(last) /\ last # {} /\ InTime(last)
    BY <1>1, FS_Subset DEF InTime
  <2>2. IsFiniteSet(ids) /\ ids \in SUBSET Nat /\ ids # {}
    BY <2>1, TimesAreFinite
  <2> HIDE DEF ids, last
  <2>3. PICK n \in Nat : \A u \in ids : u <= n
    BY <2>2, FiniteIsBounded
  <2> QED
    BY <2>2, <2>3, Greatest
<1>3. PICK e \in S : e.at = t /\ e.id = i
  BY <1>2
<1>4. ASSUME NEW f \in S \ {e} PROVE f.at < e.at \/ (f.at = e.at /\ f.id < e.id)
  <2>1. f.at \in Nat /\ f.id \in Nat /\ e.at \in Nat /\ e.id \in Nat /\ f.id # e.id
    BY DEF InTime
  <2>2. f.at <= e.at
    BY <1>1, <1>3
  <2>3. f.at = e.at => f.id <= e.id
    BY <1>2, <1>3
  <2> QED
    BY <2>1, <2>2, <2>3
<1> QED
  BY <1>4

\* The parts have sets and numbers in common.
LEMMA SameSets ==
  ASSUME NEW S
  PROVE  /\ T!IsFiniteSet(S) <=> IsFiniteSet(S)
         /\ D!IsFiniteSet(S) <=> IsFiniteSet(S)
         /\ M!IsFiniteSet(S) <=> IsFiniteSet(S)
         /\ R!IsFiniteSet(S) <=> IsFiniteSet(S)
         /\ M!Cardinality(S) = Cardinality(S)
         /\ R!Cardinality(S) = Cardinality(S)
<1>1. T!IsFiniteSet(S) <=> IsFiniteSet(S)
  BY DEF T!IsFiniteSet, IsFiniteSet
<1>2. D!IsFiniteSet(S) <=> IsFiniteSet(S)
  BY DEF D!IsFiniteSet, IsFiniteSet
<1>3. M!IsFiniteSet(S) <=> IsFiniteSet(S)
  BY DEF M!IsFiniteSet, IsFiniteSet
<1>4. R!IsFiniteSet(S) <=> IsFiniteSet(S)
  BY DEF R!IsFiniteSet, IsFiniteSet
<1>5. M!Cardinality(S) = Cardinality(S)
  BY DEF M!Cardinality, Cardinality
<1>6. R!Cardinality(S) = Cardinality(S)
  BY DEF R!Cardinality, Cardinality
<1> QED
  BY <1>1, <1>2, <1>3, <1>4, <1>5, <1>6

LEMMA SameCount ==
  ASSUME NEW S, NEW P, NEW f \in [S -> P], IsFiniteSet(S),
         \A x, y \in S : f[x] = f[y] => x = y, \A p \in P : \E x \in S : f[x] = p
  PROVE  IsFiniteSet(P) /\ Cardinality(P) = Cardinality(S)
<1>1. f \in Bijection(S, P)
  BY DEF Bijection, Injection, Surjection, IsInjective
<1> QED
  BY <1>1, FS_Bijection DEF ExistsBijection

LEMMA FiniteImage ==
  ASSUME NEW S, NEW P, NEW f \in [S -> P], IsFiniteSet(S), \A p \in P : \E x \in S : f[x] = p
  PROVE  IsFiniteSet(P)
<1>1. f \in Surjection(S, P)
  BY DEF Surjection
<1> QED
  BY <1>1, FS_Surjection

-----------------------------------------------------------------------------
(* The tables agree whatever the sources write and however often the log is  *)
(* projected.  A row and its fingerprint come together.                      *)

RowHasFingerprint == \A r \in U!Requests : usage[r] = U!None <=> fingerprint[r] = U!None
Agreement == U!TypeOK /\ RowHasFingerprint /\ U!TablesAgree

\* The row that stands for none is not one that says nothing.
LEMMA NoneIsNoRow == \A row \in SUBSET U!Facts : row # U!None
<1> SUFFICES ASSUME NEW row \in SUBSET U!Facts, row = U!None PROVE FALSE
  OBVIOUS
<1>1. "none" \in row
  BY DEF U!None
<1> QED
  BY <1>1 DEF U!Facts, U!Timing

\* What an adapter tells is facts.
LEMMA ToldFacts ==
  ASSUME NEW r \in U!Requests, NEW news \in SUBSET U!LateFacts(r)
  PROVE  U!Told(r) \cup news \in SUBSET U!Facts
<1>1. U!LateFacts(r) \in SUBSET U!Facts /\ "model" \in U!Facts
  BY DEF U!LateFacts, U!Facts, U!Timing
<1> QED
  BY <1>1 DEF U!Told

\* One event of the log, projected.
LEMMA ProjectKeeps ==
  ASSUME Agreement, cursor < Len(log), U!Project(log[cursor + 1])
  PROVE  Agreement'
<1> DEFINE e == log[cursor + 1]
           r == e.of
           facts == e.facts
<1>0. U!TypeOK /\ RowHasFingerprint /\ U!TablesAgree
  BY DEF Agreement
<1>1. e \in U!LogEvents
  <2>1. cursor \in Nat /\ Len(log) \in Nat /\ cursor + 1 \in 1..Len(log)
    BY <1>0 DEF U!TypeOK
  <2>2. \A i \in 1..Len(log) : log[i] \in U!LogEvents
    BY <1>0 DEF U!TypeOK
  <2> QED
    BY <2>1, <2>2
<1>2. r \in U!Requests /\ facts \in SUBSET U!Facts
  BY <1>1 DEF U!LogEvents
<1>3. log' = log /\ reached' \in 0..Len(log) /\ cursor' \in 0..reached' /\ rewinds' \in Nat
  BY <1>0 DEF U!TypeOK, U!Project, U!Advance
<1>4. /\ stored[r] \in U!Rows /\ usage[r] \in U!Rows /\ fingerprint[r] \in U!Rows
      /\ observed[r] \in U!Rows
  BY <1>0, <1>2 DEF U!TypeOK
<1>5. \A code \in {"IDENTITY_CONFLICT", "INVALID_USAGE"} :
        [code |-> code, of |-> r, facts |-> facts] \in
          [code : {"IDENTITY_CONFLICT", "INVALID_USAGE"}, of : U!Requests, facts : SUBSET U!Facts]
  BY <1>2
<1> HIDE DEF e, r, facts
<1>6. U!Record(r, facts) \/ U!Patch(r, facts) \/ U!Refuse(r, facts)
  BY DEF U!Project, e, r, facts
<1>7. CASE U!Record(r, facts)
  <2>1. stored[r] \in {U!None, facts} /\ stored' = [stored EXCEPT ![r] = facts]
        /\ observed' = [observed EXCEPT ![r] = IF @ = U!None THEN facts ELSE @]
    BY <1>7 DEF U!Record
  <2>2. \/ /\ usage' = [usage EXCEPT ![r] = IF @ = U!None THEN facts ELSE @]
           /\ fingerprint' = [fingerprint EXCEPT ![r] = IF @ = U!None THEN facts ELSE @]
           /\ diagnostics' = diagnostics
        \/ /\ usage' = usage /\ fingerprint' = fingerprint
           /\ diagnostics' = diagnostics \cup {[code |-> "INVALID_USAGE", of |-> r, facts |-> facts]}
    BY <1>7 DEF U!Record, U!Diagnose
  <2>3. U!TypeOK'
    BY <1>0, <1>2, <1>3, <1>4, <1>5, <2>1, <2>2 DEF U!TypeOK, U!Rows
  <2>4. RowHasFingerprint'
    BY <1>0, <1>2, <2>2, NoneIsNoRow DEF U!TypeOK, RowHasFingerprint
  <2>5. U!TablesAgree'
    <3>1. facts # U!None
      BY <1>2, NoneIsNoRow
    <3>2. CASE /\ usage' = usage /\ fingerprint' = fingerprint
               /\ diagnostics' =
                    diagnostics \cup {[code |-> "INVALID_USAGE", of |-> r, facts |-> facts]}
      <4> DEFINE d == [code |-> "INVALID_USAGE", of |-> r, facts |-> facts]
      <4>0. d \in diagnostics' /\ d.code = "INVALID_USAGE" /\ d.of = r
        BY <3>2
      <4>1. \E dd \in diagnostics' : dd.code = "INVALID_USAGE" /\ dd.of = r
        BY ONLY <4>0
      <4>2. diagnostics \subseteq diagnostics'
        BY <3>2
      <4>3. usage[r] # U!None => stored[r] = facts
        BY <1>0, <1>2, <2>1 DEF U!TablesAgree, RowHasFingerprint
      <4> QED
        BY <1>0, <1>2, <2>1, <3>1, <3>2, <4>1, <4>2, <4>3 DEF U!TypeOK, U!TablesAgree
    <3>3. CASE usage' = [usage EXCEPT ![r] = IF @ = U!None THEN facts ELSE @]
               /\ fingerprint' = [fingerprint EXCEPT ![r] = IF @ = U!None THEN facts ELSE @]
               /\ diagnostics' = diagnostics
      BY <1>0, <1>2, <2>1, <3>1, <3>3 DEF U!TypeOK, U!TablesAgree, RowHasFingerprint
    <3> QED
      BY <2>2, <3>2, <3>3
  <2> QED
    BY <2>3, <2>4, <2>5 DEF Agreement
<1>8. CASE U!Patch(r, facts)
  <2> DEFINE merged == stored[r] \cup facts
  <2>1. /\ stored[r] # U!None /\ diagnostics' = diagnostics
        /\ stored' = [stored EXCEPT ![r] = merged]
        /\ observed' = [observed EXCEPT ![r] = merged]
        /\ fingerprint' = [fingerprint EXCEPT ![r] = IF @ = U!None THEN U!None ELSE merged]
        /\ usage' = [usage EXCEPT ![r] = IF @ = U!None THEN U!None ELSE usage[r] \cup merged]
    BY <1>8 DEF U!Patch, U!Merged, U!Row
  <2>2. merged \in SUBSET U!Facts /\ merged # U!None
    BY <1>2, <1>4, <2>1, NoneIsNoRow DEF U!Rows
  <2>3. usage[r] # U!None => usage[r] \cup merged \in SUBSET U!Facts /\ usage[r] \cup merged # U!None
    BY <1>4, <2>2, NoneIsNoRow DEF U!Rows
  <2> HIDE DEF merged
  <2>4. U!TypeOK'
    BY <1>0, <1>2, <1>3, <1>4, <2>1, <2>2, <2>3 DEF U!TypeOK, U!Rows
  <2>5. RowHasFingerprint'
    BY <1>0, <1>2, <2>1, <2>2, <2>3 DEF U!TypeOK, RowHasFingerprint
  <2>6. usage[r] # U!None => usage[r] \ {"model"} = stored[r] \ {"model"}
    BY <1>0, <1>2 DEF U!TablesAgree
  <2>7. usage[r] # U!None => (usage[r] \cup merged) \ {"model"} = merged \ {"model"}
    BY <2>6 DEF merged
  <2>8. U!TablesAgree'
    BY <1>0, <1>2, <2>1, <2>2, <2>3, <2>7 DEF U!TypeOK, U!TablesAgree
  <2> QED
    BY <2>4, <2>5, <2>8 DEF Agreement
<1>9. CASE U!Refuse(r, facts)
  <2> DEFINE healed == usage[r] \cup (facts \cap {"model"})
  <2>1. /\ stored' = stored /\ fingerprint' = fingerprint /\ observed' = observed
        /\ usage' = [usage EXCEPT ![r] = IF @ = U!None THEN U!None ELSE healed]
        /\ diagnostics' =
             diagnostics \cup {[code |-> "IDENTITY_CONFLICT", of |-> r, facts |-> facts]}
    BY <1>9 DEF U!Refuse, U!Healed, U!Diagnose
  <2>2. usage[r] # U!None => healed \in SUBSET U!Facts /\ healed # U!None
    BY <1>2, <1>4, NoneIsNoRow DEF U!Rows
  <2>3. usage[r] \ {"model"} = healed \ {"model"} /\ usage[r] \subseteq healed
    OBVIOUS
  <2> HIDE DEF healed
  <2>4. U!TypeOK'
    BY <1>0, <1>2, <1>3, <1>4, <1>5, <2>1, <2>2 DEF U!TypeOK, U!Rows
  <2>5. RowHasFingerprint'
    BY <1>0, <1>2, <2>1, <2>2 DEF U!TypeOK, RowHasFingerprint
  <2>6. U!TablesAgree'
    BY <1>0, <1>2, <2>1, <2>2, <2>3 DEF U!TypeOK, U!TablesAgree
  <2> QED
    BY <2>4, <2>5, <2>6 DEF Agreement
<1> QED
  BY <1>6, <1>7, <1>8, <1>9

\* Every step keeps the agreement.
LEMMA AgreementKept == Agreement /\ [U!Next]_(U!vars) => Agreement'
<1> SUFFICES ASSUME Agreement, [U!Next]_(U!vars) PROVE Agreement'
  OBVIOUS
<1>1. ASSUME NEW r \in U!Requests, NEW news \in SUBSET U!LateFacts(r), U!Emit(r, news)
      PROVE  Agreement'
  <2>1. U!Told(r) \cup news \in SUBSET U!Facts
    BY <1>1, ToldFacts DEF Agreement
  <2> DEFINE e == [of |-> r, facts |-> U!Told(r) \cup news]
  <2>2. e \in U!LogEvents
    BY <2>1 DEF U!LogEvents
  <2>3. log' = Append(log, e) /\ UNCHANGED <<cursor, reached, rewinds, U!tables>>
    BY <1>1 DEF U!Emit
  <2> HIDE DEF e
  <2>4. U!TypeOK'
    BY <2>2, <2>3 DEF Agreement, U!TypeOK, U!tables
  <2>5. RowHasFingerprint' /\ U!TablesAgree'
    BY <2>3 DEF Agreement, RowHasFingerprint, U!TablesAgree, U!tables
  <2> QED
    BY <2>4, <2>5 DEF Agreement
<1>2. CASE cursor < Len(log) /\ U!Project(log[cursor + 1])
  BY <1>2, ProjectKeeps
<1>3. CASE U!Rewind
  BY <1>3 DEF U!Rewind, Agreement, U!TypeOK, RowHasFingerprint, U!TablesAgree, U!tables
<1>4. CASE UNCHANGED U!vars
  BY <1>4 DEF U!vars, Agreement, U!TypeOK, RowHasFingerprint, U!TablesAgree, U!tables
<1> QED
  BY <1>1, <1>2, <1>3, <1>4 DEF U!Next

\* The tables agree in every state, for every set of requests (TablesAgree of the
\* run domain), and the variables keep their types.
THEOREM UsageAgrees == U!Spec => [](U!TypeOK /\ U!TablesAgree)
<1>1. U!Init => Agreement
  <2> SUFFICES ASSUME U!Init PROVE Agreement
    OBVIOUS
  <2>1. U!TypeOK
    BY DEF U!Init, U!TypeOK, U!Rows
  <2>2. RowHasFingerprint /\ U!TablesAgree
    BY DEF U!Init, RowHasFingerprint, U!TablesAgree
  <2> QED
    BY <2>1, <2>2 DEF Agreement
<1>2. Agreement /\ [U!Next]_(U!vars) => Agreement'
  BY AgreementKept
<1>3. Agreement => U!TypeOK /\ U!TablesAgree
  BY DEF Agreement
<1> QED
  BY <1>1, <1>2, <1>3, PTL DEF U!Spec

-----------------------------------------------------------------------------
(* News that comes one kind at a time lands.  The events of a request only  *)
(* grow, so that what is stored is the last one that was projected, or, for *)
(* other vendors, the first one, whose row gets the model by healing.       *)

\* A later event of a request says all that an earlier one said, and two of
\* them differ in late facts alone.
Grows ==
  \A r \in U!Requests :
    \A i, j \in U!Of(r) :
      /\ i <= j => log[i].facts \subseteq log[j].facts
      /\ log[j].facts \ log[i].facts \subseteq U!LateFacts(r)
      /\ r \notin Foreign => "model" \in log[i].facts

\* The tables say of a request what its events up to the furthest cursor say.
Follows(r) ==
  /\ usage[r] = U!None <=> stored[r] = U!None
  /\ stored[r] # U!None => \E i \in U!Of(r) : i <= reached /\ stored[r] = log[i].facts
  /\ \A i \in U!Of(r) :
       i <= reached =>
         /\ stored[r] # U!None
         /\ log[i].facts \subseteq usage[r]
         /\ r \notin Foreign => log[i].facts \subseteq stored[r]

NewsInv ==
  /\ Agreement /\ Grows
  /\ \A r \in U!Requests \ Unsound : U!OneAtATime(r) => Follows(r)
  /\ rewinds = 0 => cursor = reached
  /\ U!NoFalseConflict

\* The events of the log are facts of requests.
LEMMA EventFacts ==
  ASSUME U!TypeOK, NEW r, NEW i \in U!Of(r)
  PROVE  i \in 1 .. Len(log) /\ log[i].facts \in SUBSET U!Facts /\ log[i].facts # U!None /\ log[i].of = r
<1>1. i \in 1 .. Len(log) /\ log[i].of = r
  BY DEF U!Of
<1>2. log[i] \in U!LogEvents
  BY <1>1 DEF U!TypeOK
<1>3. log[i].facts \in SUBSET U!Facts
  BY <1>2 DEF U!LogEvents
<1> QED
  BY <1>1, <1>3, NoneIsNoRow

\* What is stored is in the row, if there is one.
LEMMA StoredInRow ==
  ASSUME Agreement, NEW r \in U!Requests, usage[r] # U!None
  PROVE  stored[r] \subseteq usage[r]
BY DEF Agreement, U!TablesAgree

\* News of one kind about an event that is stored is one of the patches.
LEMMA OneKindIsPatched ==
  ASSUME NewsInv, NEW r \in U!Requests \ Unsound, r \notin Foreign, U!OneAtATime(r),
         NEW k \in U!Of(r), k = reached + 1, stored[r] \notin {U!None, log[k].facts}
  PROVE  U!Patchable(r, log[k].facts)
<1> DEFINE facts == log[k].facts
<1>0. U!TypeOK /\ Grows /\ Follows(r) /\ reached \in Nat
  BY DEF NewsInv, Agreement, U!TypeOK
<1>1. PICK i \in U!Of(r) : i <= reached /\ stored[r] = log[i].facts
  BY <1>0 DEF Follows
<1>2. \A j \in U!Of(r) : j \in Nat
  BY <1>0 DEF U!Of, U!TypeOK
<1>3. ASSUME NEW j \in U!Of(r), j < k PROVE j <= reached
  <2>1. j \in Nat /\ reached \in Nat /\ j < reached + 1
    BY <1>0, <1>2, <1>3
  <2> QED
    BY <2>1
<1>4. i < k /\ i <= k
  BY <1>0, <1>1, <1>2
<1>5. stored[r] \subseteq facts /\ facts \ stored[r] \subseteq U!LateFacts(r)
  BY <1>0, <1>1, <1>4 DEF Grows
<1>6. \A f \in facts \ stored[r] : f \in U!News(r, k)
  BY <1>0, <1>3 DEF Follows, U!News
<1>7. \A f, g \in facts \ stored[r] : U!Kind(f) = U!Kind(g)
  BY <1>4, <1>6 DEF U!OneAtATime
<1>8. \A f \in U!LateFacts(r) :
        \/ r \in Timed /\ f \in U!Timing
        \/ r \in Logged /\ f \in {"credit", "cache"}
  BY DEF U!LateFacts
<1>9. PICK f \in facts \ stored[r] : TRUE
  BY <1>5
<1>10. r \in Timed \cup Logged
  BY <1>5, <1>8, <1>9
<1>11. CASE f \in U!Timing
  <2>1. \A g \in facts \ stored[r] : g \in U!Timing
    BY <1>5, <1>7, <1>8, <1>9, <1>11 DEF U!Kind, U!Timing
  <2>2. stored[r] \ U!Timing = facts \ U!Timing
    BY <1>5, <2>1
  <2>3. r \in Timed
    BY <1>5, <1>8, <1>9, <1>11 DEF U!Timing
  <2> QED
    BY <1>10, <2>2, <2>3 DEF U!Patchable, U!TimingNews
<1>12. CASE f \notin U!Timing
  <2>1. f \in {"credit", "cache"}
    BY <1>5, <1>8, <1>9, <1>12
  <2>2. \A g \in facts \ stored[r] : g = f
    BY <1>5, <1>7, <1>8, <1>9, <1>12, <2>1 DEF U!Kind, U!Timing
  <2>3. facts \ {f} = stored[r]
    BY <1>5, <1>9, <2>2
  <2> QED
    BY <1>9, <1>10, <2>1, <2>3 DEF U!Patchable, U!CreditNews, U!CacheNews, U!Accountable
<1> QED
  BY <1>11, <1>12

\* The tables after one event of a request that is sound.
LEMMA ProjectFollows ==
  ASSUME NewsInv, (Timed \cup Logged) \cap Foreign = {},
         cursor < Len(log), U!Project(log[cursor + 1]),
         NEW r \in U!Requests \ Unsound, r = log[cursor + 1].of, U!OneAtATime(r), Follows(r)
  PROVE  Follows(r)'
<1> DEFINE k == cursor + 1
           facts == log[k].facts
<1>0. U!TypeOK /\ Grows /\ RowHasFingerprint /\ U!TablesAgree /\ Agreement
  BY DEF NewsInv, Agreement
<1>1. cursor \in Nat /\ reached \in Nat /\ cursor <= reached /\ Len(log) \in Nat
  BY <1>0 DEF U!TypeOK
<1>2. k \in U!Of(r) /\ k \in Nat
  BY <1>1 DEF U!Of
<1>3. log' = log /\ k <= reached' /\ reached <= reached' /\ reached' \in Nat
      /\ \A i \in Nat : i <= reached' => i <= reached \/ (i = k /\ cursor = reached)
  <2>1. log' = log /\ reached' = IF reached = cursor THEN cursor + 1 ELSE reached
    BY DEF U!Project, U!Advance
  <2>2. \A c, d \in Nat : c <= d /\ c # d => c + 1 <= d
    OBVIOUS
  <2>3. CASE reached = cursor
    BY <1>1, <2>1, <2>3
  <2>4. CASE reached # cursor
    <3>1. reached' = reached
      BY <2>1, <2>4
    <3> QED
      BY <1>1, <2>1, <2>2, <2>4, <3>1
  <2> QED
    BY <2>3, <2>4
<1>4. \A i \in U!Of(r) : i \in Nat /\ log[i].facts \in SUBSET U!Facts /\ log[i].facts # U!None
  BY <1>0, EventFacts
<1>5. U!Of(r)' = U!Of(r)
  BY <1>3 DEF U!Of
<1>6. stored[r] \in U!Rows /\ usage[r] \in U!Rows
  BY <1>0 DEF U!TypeOK
<1>7. usage[r] # U!None => stored[r] \subseteq usage[r]
  BY <1>0, StoredInRow
<1>8. U!Record(r, facts) \/ U!Patch(r, facts) \/ U!Refuse(r, facts)
  BY DEF U!Project
<1>9. DOMAIN stored = U!Requests /\ DOMAIN usage = U!Requests
  BY <1>0 DEF U!TypeOK
<1> SUFFICES
      /\ usage'[r] = U!None <=> stored'[r] = U!None
      /\ stored'[r] # U!None => \E i \in U!Of(r) : i <= reached' /\ stored'[r] = log[i].facts
      /\ \A i \in U!Of(r) :
           i <= reached' =>
             /\ stored'[r] # U!None
             /\ log[i].facts \subseteq usage'[r]
             /\ r \notin Foreign => log[i].facts \subseteq stored'[r]
  BY <1>3, <1>5 DEF Follows
<1>10. CASE U!Record(r, facts)
  <2>1. stored[r] \in {U!None, facts} /\ stored'[r] = facts
    BY <1>9, <1>10 DEF U!Record
  <2>2. usage'[r] = IF usage[r] = U!None THEN facts ELSE usage[r]
    BY <1>9, <1>10 DEF U!Record, U!Accountable
  <2>3. facts # U!None
    BY <1>2, <1>4
  <2>4. usage'[r] # U!None /\ facts \subseteq usage'[r]
    BY <1>7, <2>1, <2>2, <2>3 DEF Follows
  <2>5. ASSUME NEW i \in U!Of(r), i <= reached'
        PROVE  log[i].facts \subseteq usage'[r] /\ (r \notin Foreign => log[i].facts \subseteq facts)
    <3>1. CASE i <= reached
      BY <2>1, <2>2, <3>1 DEF Follows
    <3>2. CASE i = k
      BY <2>4, <3>2
    <3> QED
      BY <1>3, <1>4, <2>5, <3>1, <3>2
  <2> QED
    BY <1>2, <1>3, <2>1, <2>3, <2>4, <2>5
<1>11. CASE U!Patch(r, facts)
  <2> DEFINE merged == stored[r] \cup facts
  <2>1. stored[r] # U!None /\ usage[r] # U!None
    BY <1>11 DEF U!Patch, Follows
  <2>2. stored'[r] = merged /\ usage'[r] = usage[r] \cup merged
    BY <1>9, <1>11, <2>1 DEF U!Patch, U!Merged, U!Row
  <2>3. PICK i \in U!Of(r) : i <= reached /\ stored[r] = log[i].facts
    BY <2>1 DEF Follows
  <2>4. \E j \in U!Of(r) : j <= reached' /\ merged = log[j].facts
    <3>1. i \in Nat /\ i <= reached'
      <4>1. \A a, b, c \in Nat : a <= b /\ b <= c => a <= c
        OBVIOUS
      <4> QED
        BY <1>1, <1>3, <1>4, <2>3, <4>1
    <3>2. i <= k \/ k <= i
      BY <1>2, <3>1
    <3>3. CASE i <= k
      <4>1. merged = facts
        BY <1>0, <1>2, <2>3, <3>3 DEF Grows
      <4> QED
        BY <1>2, <1>3, <4>1
    <3>4. CASE k <= i
      <4>1. merged = log[i].facts
        BY <1>0, <1>2, <2>3, <3>4 DEF Grows
      <4> QED
        BY <3>1, <4>1
    <3> QED
      BY <3>2, <3>3, <3>4
  <2>5. merged # U!None
    BY <1>4, <2>4
  <2>6. usage'[r] # U!None
    <3>1. usage[r] \in SUBSET U!Facts /\ merged \in SUBSET U!Facts
      BY <1>4, <1>6, <2>1, <2>4 DEF U!Rows
    <3> QED
      BY <2>2, <3>1, NoneIsNoRow
  <2>7. ASSUME NEW j \in U!Of(r), j <= reached'
        PROVE  log[j].facts \subseteq usage'[r] /\ (r \notin Foreign => log[j].facts \subseteq merged)
    <3>1. CASE j <= reached
      BY <2>2, <3>1 DEF Follows
    <3>2. CASE j = k
      BY <2>2, <3>2
    <3> QED
      BY <1>3, <1>4, <2>7, <3>1, <3>2
  <2> QED
    BY <2>2, <2>4, <2>5, <2>6, <2>7
<1>12. CASE U!Refuse(r, facts)
  <2> DEFINE model == facts \cap {"model"}
  <2>1. stored[r] \notin {U!None, facts} /\ usage[r] # U!None /\ ~U!Patchable(r, facts)
    BY <1>12 DEF U!Refuse, Follows
  <2>2. stored'[r] = stored[r] /\ usage'[r] = usage[r] \cup model
    BY <1>9, <1>12, <2>1 DEF U!Refuse, U!Healed
  <2>3. usage'[r] # U!None
    <3>1. usage[r] \in SUBSET U!Facts /\ model \in SUBSET U!Facts
      BY <1>2, <1>4, <1>6, <2>1 DEF U!Rows
    <3> QED
      BY <2>2, <3>1, NoneIsNoRow
  <2>4. \E i \in U!Of(r) : i <= reached' /\ stored[r] = log[i].facts
    <3>1. PICK i \in U!Of(r) : i <= reached /\ stored[r] = log[i].facts
      BY <2>1 DEF Follows
    <3>2. \A a, b, c \in Nat : a <= b /\ b <= c => a <= c
      OBVIOUS
    <3> QED
      BY <1>1, <1>3, <1>4, <3>1, <3>2
  <2>5. ASSUME NEW j \in U!Of(r), j <= reached'
        PROVE  log[j].facts \subseteq usage'[r] /\ (r \notin Foreign => log[j].facts \subseteq stored[r])
    <3>1. CASE j <= reached
      BY <2>2, <3>1 DEF Follows
    <3>2. CASE j = k /\ cursor = reached
      <4>1. r \in Foreign
        BY <1>1, <1>2, <2>1, <3>2, OneKindIsPatched
      <4>2. U!LateFacts(r) = {"model"}
        BY <4>1 DEF U!LateFacts
      <4>3. PICK i \in U!Of(r) : stored[r] = log[i].facts
        BY <2>1 DEF Follows
      <4>4. facts \ stored[r] \subseteq {"model"}
        BY <1>0, <1>2, <4>2, <4>3 DEF Grows
      <4> QED
        BY <1>7, <2>1, <2>2, <3>2, <4>1, <4>4
    <3> QED
      BY <1>3, <1>4, <2>5, <3>1, <3>2
  <2> QED
    BY <2>1, <2>2, <2>3, <2>4, <2>5
<1> QED
  BY <1>8, <1>10, <1>11, <1>12
\* A projected event keeps the invariant.
LEMMA ProjectKeepsNews ==
  ASSUME NewsInv, (Timed \cup Logged) \cap Foreign = {},
         cursor < Len(log), U!Project(log[cursor + 1])
  PROVE  NewsInv'
<1> DEFINE k == cursor + 1
           r == log[k].of
           facts == log[k].facts
<1>0. Agreement /\ U!TypeOK /\ Grows /\ cursor \in Nat /\ reached \in Nat
  BY DEF NewsInv, Agreement, U!TypeOK
<1>1. log' = log /\ rewinds' = rewinds /\ cursor' = k
      /\ reached' = IF reached = cursor THEN k ELSE reached
  BY DEF U!Project, U!Advance
<1>2. k \in 1 .. Len(log) /\ k \in U!Of(r)
  BY <1>0 DEF U!TypeOK, U!Of
<1>3. r \in U!Requests
  <2>1. log[k] \in U!LogEvents
    BY <1>0, <1>2 DEF U!TypeOK
  <2> QED
    BY <2>1 DEF U!LogEvents
<1>4. \A q : /\ U!Of(q)' = U!Of(q)
             /\ U!OneAtATime(q)' <=> U!OneAtATime(q)
  BY <1>1 DEF U!Of, U!OneAtATime, U!News
<1>5. Agreement'
  BY <1>0, ProjectKeeps
<1>6. Grows'
  BY <1>0, <1>1, <1>4 DEF Grows
<1>7. rewinds' = 0 => cursor' = reached'
  BY <1>1 DEF NewsInv
<1>8. U!Record(r, facts) \/ U!Patch(r, facts) \/ U!Refuse(r, facts)
  BY DEF U!Project
<1>9. ASSUME NEW q \in U!Requests \ Unsound, U!OneAtATime(q)' PROVE Follows(q)'
  <2>1. U!OneAtATime(q) /\ Follows(q)
    BY <1>4, <1>9 DEF NewsInv
  <2>2. CASE q = r
    BY <1>9, <2>1, <2>2, ProjectFollows
  <2>3. CASE q # r
    <3>1. stored'[q] = stored[q] /\ usage'[q] = usage[q]
      BY <1>0, <1>3, <1>8, <2>3 DEF U!TypeOK, U!Record, U!Patch, U!Refuse
    <3>2. \A i \in U!Of(q) : i # k /\ i \in Nat
      BY <1>0, <2>3 DEF U!Of, U!TypeOK
    <3>3. \A i \in U!Of(q) : i <= reached' <=> i <= reached
      BY <1>0, <1>1, <3>2
    <3> QED
      BY <1>1, <1>4, <2>1, <3>1, <3>3 DEF Follows
  <2> QED
    BY <2>2, <2>3
<1>10. U!NoFalseConflict'
  <2> SUFFICES ASSUME NEW d \in diagnostics', d.code = "IDENTITY_CONFLICT", rewinds' = 0
               PROVE  d.of \in Foreign \cup Unsound \/ ~U!OneAtATime(d.of)'
    BY DEF U!NoFalseConflict
  <2>1. CASE d \in diagnostics
    BY <1>1, <1>4, <2>1 DEF NewsInv, U!NoFalseConflict
  <2>2. CASE d \notin diagnostics
    <3>1. /\ stored[r] \notin {U!None, facts} /\ ~U!Patchable(r, facts)
          /\ d.of = r
      <4>1. CASE U!Record(r, facts)
        <5>1. d = [code |-> "INVALID_USAGE", of |-> r, facts |-> facts]
          BY <2>2, <4>1 DEF U!Record, U!Diagnose
        <5>2. d.code = "INVALID_USAGE"
          BY <5>1
        <5> QED
          BY <5>2
      <4>2. CASE U!Patch(r, facts)
        BY <2>2, <4>2 DEF U!Patch
      <4>3. CASE U!Refuse(r, facts)
        <5>1. d = [code |-> "IDENTITY_CONFLICT", of |-> r, facts |-> facts]
          BY <2>2, <4>3 DEF U!Refuse, U!Diagnose
        <5>2. d.of = r
          BY ONLY <5>1
        <5> QED
          BY <4>3, <5>2 DEF U!Refuse
      <4> QED
        BY <1>8, <4>1, <4>2, <4>3
    <3>2. cursor = reached /\ k = reached + 1
      BY <1>1 DEF NewsInv
    <3>3. r \notin Foreign /\ r \notin Unsound => ~U!OneAtATime(r)
      BY <1>2, <1>3, <3>1, <3>2, OneKindIsPatched
    <3> QED
      BY <1>4, <3>1, <3>3
  <2> QED
    BY <2>1, <2>2
<1> QED
  BY <1>5, <1>6, <1>7, <1>9, <1>10 DEF NewsInv

\* So does an event that an adapter writes.
LEMMA EmitKeepsNews ==
  ASSUME NewsInv, Agreement', NEW r \in U!Requests, NEW news \in SUBSET U!LateFacts(r),
         U!Emit(r, news)
  PROVE  NewsInv'
<1> DEFINE facts == U!Told(r) \cup news
           n == Len(log) + 1
<1>0. U!TypeOK /\ Grows /\ Len(log) \in Nat /\ reached \in Nat /\ reached <= Len(log)
  BY DEF NewsInv, Agreement, U!TypeOK
<1>1. log' = Append(log, [of |-> r, facts |-> facts])
      /\ UNCHANGED <<cursor, reached, rewinds, stored, usage, diagnostics>>
  BY DEF U!Emit, U!tables
<1>2. /\ Len(log') = n /\ log'[n].of = r /\ log'[n].facts = facts
      /\ \A i \in 1 .. Len(log) : log'[i] = log[i]
  BY <1>0, <1>1 DEF U!TypeOK
<1>3. \A q : \A i \in U!Of(q) :
        /\ i \in 1 .. Len(log) /\ i < n /\ i # n
        /\ i \in U!Of(q)' /\ log'[i] = log[i]
  BY <1>0, <1>2 DEF U!Of
<1>4. \A q : \A i \in U!Of(q)' : i \in U!Of(q) \/ (i = n /\ q = r)
  BY <1>0, <1>2 DEF U!Of
<1>5. \A i \in U!Of(r) : log[i].facts \subseteq U!Told(r)
  <2>1. \A i \in U!Of(r) : log[i] \in U!Range(log) /\ log[i].of = r
    BY <1>0 DEF U!Of, U!Range, U!TypeOK
  <2>2. \A i \in U!Of(r) : log[i].facts \in SUBSET U!Facts
    BY <1>0, EventFacts
  <2> QED
    BY <2>1, <2>2 DEF U!Told
<1>6. \A f \in U!Told(r) : (f = "model" /\ r \notin Foreign) \/ \E j \in U!Of(r) : f \in log[j].facts
  <2>1. \A e \in U!Range(log) : e.of = r => \E j \in U!Of(r) : log[j] = e
    BY <1>0 DEF U!Of, U!Range, U!TypeOK
  <2> QED
    BY <2>1 DEF U!Told
<1>7. r \notin Foreign => "model" \in U!Told(r)
  BY DEF U!Told
<1> HIDE DEF facts, n
<1>8. Grows'
  <2> SUFFICES ASSUME NEW q \in U!Requests, NEW i \in U!Of(q)', NEW j \in U!Of(q)'
               PROVE  /\ i <= j => log'[i].facts \subseteq log'[j].facts
                      /\ log'[j].facts \ log'[i].facts \subseteq U!LateFacts(q)
                      /\ q \notin Foreign => "model" \in log'[i].facts
    BY DEF Grows
  <2>1. CASE i \in U!Of(q) /\ j \in U!Of(q)
    BY <1>0, <1>3, <2>1 DEF Grows
  <2>2. CASE i \in U!Of(q) /\ j = n /\ q = r
    <3>1. log'[i].facts = log[i].facts /\ log'[j].facts = facts
      BY <1>2, <1>3, <2>2
    <3>2. facts \ log[i].facts \subseteq U!LateFacts(r)
      <4>1. ASSUME NEW f \in U!Told(r), f \notin log[i].facts PROVE f \in U!LateFacts(r)
        <5>1. r \notin Foreign => "model" \in log[i].facts
          BY <1>0, <2>2 DEF Grows
        <5>2. PICK m \in U!Of(r) : f \in log[m].facts
          BY <1>6, <4>1, <5>1
        <5> QED
          BY <1>0, <2>2, <4>1, <5>2 DEF Grows
      <4> QED
        BY <4>1 DEF facts
    <3>3. log[i].facts \subseteq facts
      BY <1>5, <2>2 DEF facts
    <3>4. q \notin Foreign => "model" \in log[i].facts
      BY <1>0, <2>2 DEF Grows
    <3> QED
      BY <2>2, <3>1, <3>2, <3>3, <3>4
  <2>3. CASE i = n /\ q = r /\ j \in U!Of(q)
    <3>1. log'[i].facts = facts /\ log'[j].facts = log[j].facts
      BY <1>2, <1>3, <2>3
    <3>2. ~(i <= j)
      BY <1>0, <1>3, <2>3 DEF n
    <3>3. log[j].facts \subseteq facts
      BY <1>5, <2>3 DEF facts
    <3> QED
      BY <1>7, <2>3, <3>1, <3>2, <3>3 DEF facts
  <2>4. CASE i = n /\ j = n /\ q = r
    BY <1>2, <1>7, <2>4 DEF facts
  <2> QED
    BY <1>4, <2>1, <2>2, <2>3, <2>4
<1>9. ASSUME NEW q, U!OneAtATime(q)' PROVE U!OneAtATime(q)
  <2> SUFFICES ASSUME NEW i \in U!Of(q), NEW first \in U!Of(q), first < i,
                      NEW f \in U!News(q, i), NEW g \in U!News(q, i)
               PROVE  U!Kind(f) = U!Kind(g)
    BY DEF U!OneAtATime
  <2>1. ASSUME NEW h \in U!News(q, i) PROVE h \in U!News(q, i)'
    <3>1. h \in log'[i].facts
      BY <1>3, <2>1 DEF U!News
    <3>2. ASSUME NEW j \in U!Of(q)', j < i PROVE h \notin log'[j].facts
      <4>1. j \in U!Of(q)
        BY <1>0, <1>3, <1>4, <3>2 DEF n
      <4> QED
        BY <1>3, <2>1, <3>2, <4>1 DEF U!News
    <3> QED
      BY <3>1, <3>2 DEF U!News
  <2> QED
    BY <1>3, <1>9, <2>1 DEF U!OneAtATime
<1>10. ASSUME NEW q \in U!Requests \ Unsound, U!OneAtATime(q)' PROVE Follows(q)'
  <2>1. Follows(q)
    BY <1>9, <1>10 DEF NewsInv
  <2>2. \A i \in U!Of(q)' : i <= reached => i \in U!Of(q)
    BY <1>0, <1>4 DEF n
  <2> QED
    BY <1>1, <1>3, <2>1, <2>2 DEF Follows
<1>11. U!NoFalseConflict'
  BY <1>1, <1>9 DEF NewsInv, U!NoFalseConflict
<1> QED
  BY <1>1, <1>8, <1>10, <1>11 DEF NewsInv

LEMMA UsageStarts ==
  ASSUME U!Init
  PROVE  Agreement /\ NewsInv
<1>1. Agreement
  BY DEF U!Init, Agreement, U!TypeOK, U!Rows, RowHasFingerprint, U!TablesAgree
<1>2. \A q : U!Of(q) = {}
  BY DEF U!Init, U!Of
<1>3. Grows /\ \A q \in U!Requests : Follows(q)
  BY <1>2 DEF U!Init, Grows, Follows
<1>4. U!NoFalseConflict /\ cursor = reached
  BY DEF U!Init, U!NoFalseConflict
<1> QED
  BY <1>1, <1>3, <1>4 DEF NewsInv

LEMMA NewsKept ==
  ASSUME U!UsageAssumption, NewsInv, Agreement', [U!Next]_(U!vars)
  PROVE  NewsInv'
<1>1. CASE \E r \in U!Requests : \E news \in SUBSET U!LateFacts(r) : U!Emit(r, news)
  BY <1>1, EmitKeepsNews DEF U!UsageAssumption
<1>2. CASE cursor < Len(log) /\ U!Project(log[cursor + 1])
  BY <1>2, ProjectKeepsNews DEF U!UsageAssumption
<1>3. CASE U!Rewind
  <2>1. /\ UNCHANGED <<log, reached, stored, usage, diagnostics>>
        /\ rewinds' = rewinds + 1
    BY <1>3 DEF U!Rewind, U!tables
  <2>2. rewinds \in Nat
    BY DEF NewsInv, Agreement, U!TypeOK
  <2>3. rewinds' # 0
    BY <2>1, <2>2
  <2>4. \A q : U!Of(q)' = U!Of(q) /\ (U!OneAtATime(q)' <=> U!OneAtATime(q))
    BY <2>1 DEF U!Of, U!OneAtATime, U!News
  <2>5. Grows'
    BY <2>1, <2>4 DEF NewsInv, Grows
  <2>6. \A q : Follows(q)' <=> Follows(q)
    BY <2>1, <2>4 DEF Follows
  <2>7. U!NoFalseConflict'
    BY <2>3 DEF U!NoFalseConflict
  <2> QED
    BY <2>3, <2>4, <2>5, <2>6, <2>7 DEF NewsInv
<1>4. CASE UNCHANGED U!vars
  <2>1. UNCHANGED <<log, cursor, reached, rewinds, stored, usage, diagnostics>>
    BY <1>4 DEF U!vars, U!tables
  <2>2. \A q : U!Of(q)' = U!Of(q) /\ (U!OneAtATime(q)' <=> U!OneAtATime(q))
    BY <2>1 DEF U!Of, U!OneAtATime, U!News
  <2>3. Grows'
    BY <2>1, <2>2 DEF NewsInv, Grows
  <2>4. \A q : Follows(q)' <=> Follows(q)
    BY <2>1, <2>2 DEF Follows
  <2>5. U!NoFalseConflict'
    BY <2>1, <2>2 DEF NewsInv, U!NoFalseConflict
  <2> QED
    BY <2>1, <2>2, <2>3, <2>4, <2>5 DEF NewsInv
<1> QED
  BY <1>1, <1>2, <1>3, <1>4 DEF U!Next

LEMMA NewsInvMeans ==
  ASSUME NewsInv
  PROVE  U!NewsLands /\ U!NoFalseConflict
<1>1. ASSUME NEW r \in U!Requests \ Unsound, U!OneAtATime(r),
             NEW i \in U!Of(r), i <= reached
      PROVE  usage[r] # U!None /\ log[i].facts \subseteq usage[r]
  BY <1>1 DEF NewsInv, Follows
<1> QED
  BY <1>1 DEF NewsInv, U!NewsLands

\* News that comes one kind at a time is never lost and never taken for a conflict,
\* for every set of requests of which none is both of another vendor and of
\* WorkBuddy's (domain-projection.ts:122, projectOne).
THEOREM UsageNewsLands ==
  ASSUME U!UsageAssumption
  PROVE  U!Spec => [](U!NewsLands /\ U!NoFalseConflict)
<1>1. Agreement /\ NewsInv /\ [U!Next]_(U!vars) => (Agreement /\ NewsInv)'
  BY AgreementKept, NewsKept
<1> QED
  BY UsageStarts, NewsInvMeans, <1>1, PTL DEF U!Spec

-----------------------------------------------------------------------------
(* Tools. *)
Statuses == {"none", "started", "succeeded", "failed"}

LEMMA FirstIsThereT ==
  ASSUME T!ToolAssumption, NEW S \in SUBSET Sightings, S # {}
  PROVE  T!First(S) \in S
<1>1. InTime(S)
  BY DEF InTime, T!ToolAssumption, T!SightingsOK
<1>2. PICK e \in S : \A f \in S \ {e} : T!Before(e, f)
  BY <1>1, EarliestIsThere DEF T!Before
<1> QED
  BY <1>2 DEF T!First

LEMMA LastIsThereT ==
  ASSUME T!ToolAssumption, NEW S \in SUBSET Sightings, S # {}
  PROVE  T!Last(S) \in S
<1>0. IsFiniteSet(Sightings)
  BY SameSets DEF T!ToolAssumption
<1>1. IsFiniteSet(S)
  BY <1>0, FS_Subset
<1>3. InTime(S)
  BY DEF InTime, T!ToolAssumption, T!SightingsOK
<1>2. PICK e \in S : \A f \in S \ {e} : T!Before(f, e)
  BY <1>1, <1>3, LatestIsThere DEF T!Before
<1> QED
  BY <1>2 DEF T!Last

LEMMA RowHasStatusT ==
  ASSUME T!ToolAssumption, NEW S \in SUBSET Sightings, NEW b \in BOOLEAN
  PROVE  T!RowOf(S, b).status \in Statuses
<1>1. CASE S = {}
  BY <1>1 DEF T!RowOf, T!NoRow, Statuses
<1>2. CASE S # {} /\ T!Ends(S) = {}
  BY <1>2 DEF T!RowOf, Statuses
<1>3. CASE S # {} /\ T!Ends(S) # {}
  <2>1. T!NamedEnds(S) # {} /\ T!NamedEnds(S) \subseteq T!Ends(S)
    BY <1>3 DEF T!NamedEnds
  <2>2. T!NamedEnds(S) \in SUBSET Sightings
    BY <2>1 DEF T!Ends
  <2> DEFINE good == {e \in T!NamedEnds(S) : e.type = "succeeded"}
  <2>3. good # {} => T!First(good) \in good
    BY <2>2, FirstIsThereT
  <2>4. T!Last(T!NamedEnds(S)) \in T!NamedEnds(S)
    BY <2>1, <2>2, LastIsThereT
  <2>5. T!End(S) \in T!Ends(S)
    BY <2>1, <2>3, <2>4 DEF T!End
  <2>6. T!End(S).type \in {"succeeded", "failed"}
    BY <2>5 DEF T!Ends, T!Starts, T!ToolAssumption, T!SightingsOK
  <2>7. T!RowOf(S, b).status = T!End(S).type
    BY <1>3 DEF T!RowOf
  <2> QED
    BY <2>6, <2>7 DEF Statuses
<1> QED
  BY <1>1, <1>2, <1>3

ToolInvT == T!TypeOK /\ DOMAIN calls = T!Keys

LEMMA PairsAreForeignT ==
  ASSUME NEW session, NEW S, NEW p \in T!AliasesOf(session, S)
  PROVE  p.session = session /\ p.observed # p.canonical
<1>1. PICK q \in T!Ids(S, "hook") \X T!Ids(S, "transcript") :
        T!Paired(S, q[1], q[2]) /\ p = [session |-> session, observed |-> q[1], canonical |-> q[2]]
  BY DEF T!AliasesOf
<1>2. q[2] \in T!Candidates(S, q[1])
  BY <1>1 DEF T!Paired
<1> QED
  BY <1>1, <1>2 DEF T!Candidates

LEMMA ProjectKeepsTypesT ==
  ASSUME T!ToolAssumption, ToolInvT, NEW e \in Sightings, T!ProjectTool(e)
  PROVE  ToolInvT'
<1>1. events' = events \cup {e} /\ events' \subseteq Sightings
  BY DEF T!ProjectTool, ToolInvT, T!TypeOK
<1>2. CASE T!ProjectClaude(e)
  <2> DEFINE S == T!InSession(events \cup {e}, e.session)
             pairs == T!AliasesOf(e.session, S)
  <2>1. /\ e.session \in Claude
        /\ aliases' = {p \in aliases : p.session # e.session} \cup pairs
        /\ calls' = [k \in T!Keys |->
                       IF k.session = e.session THEN T!Rebuilt(pairs, S, k.call) ELSE calls[k]]
    BY <1>2 DEF T!ProjectClaude
  <2>2. S \in SUBSET Sightings
    BY <1>1 DEF T!InSession
  <2> HIDE DEF S
  <2>3. \A p \in aliases' : p.session \in Claude /\ p.observed # p.canonical
    BY <2>1, PairsAreForeignT DEF ToolInvT, T!TypeOK
  <2>4. ASSUME NEW call PROVE T!Rebuilt(pairs, S, call).status \in Statuses
    <3>1. {f \in S : T!Canonical(pairs, f) = call} \in SUBSET Sightings
      BY <2>2
    <3> QED
      BY <3>1, RowHasStatusT DEF T!Rebuilt, T!ClaudeRow
  <2> HIDE DEF pairs
  <2>5. \A k \in T!Keys : calls'[k].status \in Statuses
    BY <2>1, <2>4 DEF ToolInvT, T!TypeOK, Statuses
  <2>6. DOMAIN calls' = T!Keys
    BY <2>1
  <2> QED
    BY <1>1, <2>3, <2>5, <2>6 DEF ToolInvT, T!TypeOK, T!SightingsOK, Statuses
<1>3. CASE T!ProjectOrdinary(e)
  <2> DEFINE S == {f \in events \cup {e} : f.session = e.session /\ f.call = e.call}
  <2>1. calls' = [calls EXCEPT ![T!Key(e.session, e.call)] = T!OrdinaryRow(S)] /\ aliases' = aliases
    BY <1>3 DEF T!ProjectOrdinary
  <2>2. S \in SUBSET Sightings
    BY <1>1
  <2>3. T!OrdinaryRow(S).status \in Statuses
    BY <2>2, RowHasStatusT DEF T!OrdinaryRow
  <2> HIDE DEF S
  <2>4. \A k \in T!Keys : calls'[k].status \in Statuses
    BY <2>1, <2>3 DEF ToolInvT, T!TypeOK, Statuses
  <2> QED
    BY <1>1, <2>1, <2>4 DEF ToolInvT, T!TypeOK, T!SightingsOK, Statuses
<1> QED
  BY <1>2, <1>3 DEF T!ProjectTool

LEMMA ToolsKeep ==
  ASSUME T!ToolAssumption, ToolInvT, [T!Next]_(T!tools)
  PROVE  ToolInvT'
<1>1. CASE UNCHANGED T!tools
  BY <1>1 DEF T!tools, ToolInvT, T!TypeOK, T!SightingsOK
<1>2. ASSUME NEW e \in Sightings, T!ProjectTool(e) PROVE ToolInvT'
  BY <1>2, ProjectKeepsTypesT
<1> QED
  BY <1>1, <1>2 DEF T!Next

-----------------------------------------------------------------------------
(* Retention *)
LEMMA FirstIsThereD ==
  ASSUME D!ToolAssumption, NEW S \in SUBSET OldSightings, S # {}
  PROVE  D!First(S) \in S
<1>1. InTime(S)
  BY DEF InTime, D!ToolAssumption, D!SightingsOK
<1>2. PICK e \in S : \A f \in S \ {e} : D!Before(e, f)
  BY <1>1, EarliestIsThere DEF D!Before
<1> QED
  BY <1>2 DEF D!First

LEMMA LastIsThereD ==
  ASSUME D!ToolAssumption, NEW S \in SUBSET OldSightings, S # {}
  PROVE  D!Last(S) \in S
<1>0. IsFiniteSet(OldSightings)
  BY SameSets DEF D!ToolAssumption
<1>1. IsFiniteSet(S)
  BY <1>0, FS_Subset
<1>3. InTime(S)
  BY DEF InTime, D!ToolAssumption, D!SightingsOK
<1>2. PICK e \in S : \A f \in S \ {e} : D!Before(f, e)
  BY <1>1, <1>3, LatestIsThere DEF D!Before
<1> QED
  BY <1>2 DEF D!Last

LEMMA RowHasStatusD ==
  ASSUME D!ToolAssumption, NEW S \in SUBSET OldSightings, NEW b \in BOOLEAN
  PROVE  D!RowOf(S, b).status \in Statuses
<1>1. CASE S = {}
  BY <1>1 DEF D!RowOf, D!NoRow, Statuses
<1>2. CASE S # {} /\ D!Ends(S) = {}
  BY <1>2 DEF D!RowOf, Statuses
<1>3. CASE S # {} /\ D!Ends(S) # {}
  <2>1. D!NamedEnds(S) # {} /\ D!NamedEnds(S) \subseteq D!Ends(S)
    BY <1>3 DEF D!NamedEnds
  <2>2. D!NamedEnds(S) \in SUBSET OldSightings
    BY <2>1 DEF D!Ends
  <2> DEFINE good == {e \in D!NamedEnds(S) : e.type = "succeeded"}
  <2>3. good # {} => D!First(good) \in good
    BY <2>2, FirstIsThereD
  <2>4. D!Last(D!NamedEnds(S)) \in D!NamedEnds(S)
    BY <2>1, <2>2, LastIsThereD
  <2>5. D!End(S) \in D!Ends(S)
    BY <2>1, <2>3, <2>4 DEF D!End
  <2>6. D!End(S).type \in {"succeeded", "failed"}
    BY <2>5 DEF D!Ends, D!Starts, D!ToolAssumption, D!SightingsOK
  <2>7. D!RowOf(S, b).status = D!End(S).type
    BY <1>3 DEF D!RowOf
  <2> QED
    BY <2>6, <2>7 DEF Statuses
<1> QED
  BY <1>1, <1>2, <1>3

ToolInvD == D!TypeOK /\ DOMAIN calls = D!Keys

LEMMA PairsAreForeignD ==
  ASSUME NEW session, NEW S, NEW p \in D!AliasesOf(session, S)
  PROVE  p.session = session /\ p.observed # p.canonical
<1>1. PICK q \in D!Ids(S, "hook") \X D!Ids(S, "transcript") :
        D!Paired(S, q[1], q[2]) /\ p = [session |-> session, observed |-> q[1], canonical |-> q[2]]
  BY DEF D!AliasesOf
<1>2. q[2] \in D!Candidates(S, q[1])
  BY <1>1 DEF D!Paired
<1> QED
  BY <1>1, <1>2 DEF D!Candidates

LEMMA ProjectKeepsTypesD ==
  ASSUME D!ToolAssumption, ToolInvD, NEW e \in OldSightings, D!ProjectTool(e)
  PROVE  ToolInvD'
<1>1. events' = events \cup {e} /\ events' \subseteq OldSightings
  BY DEF D!ProjectTool, ToolInvD, D!TypeOK
<1>2. CASE D!ProjectClaude(e)
  <2> DEFINE S == D!InSession(events \cup {e}, e.session)
             pairs == D!AliasesOf(e.session, S)
  <2>1. /\ e.session \in Claude
        /\ aliases' = {p \in aliases : p.session # e.session} \cup pairs
        /\ calls' = [k \in D!Keys |->
                       IF k.session = e.session THEN D!Rebuilt(pairs, S, k.call) ELSE calls[k]]
    BY <1>2 DEF D!ProjectClaude
  <2>2. S \in SUBSET OldSightings
    BY <1>1 DEF D!InSession
  <2> HIDE DEF S
  <2>3. \A p \in aliases' : p.session \in Claude /\ p.observed # p.canonical
    BY <2>1, PairsAreForeignD DEF ToolInvD, D!TypeOK
  <2>4. ASSUME NEW call PROVE D!Rebuilt(pairs, S, call).status \in Statuses
    <3>1. {f \in S : D!Canonical(pairs, f) = call} \in SUBSET OldSightings
      BY <2>2
    <3> QED
      BY <3>1, RowHasStatusD DEF D!Rebuilt, D!ClaudeRow
  <2> HIDE DEF pairs
  <2>5. \A k \in D!Keys : calls'[k].status \in Statuses
    BY <2>1, <2>4 DEF ToolInvD, D!TypeOK, Statuses
  <2>6. DOMAIN calls' = D!Keys
    BY <2>1
  <2> QED
    BY <1>1, <2>3, <2>5, <2>6 DEF ToolInvD, D!TypeOK, D!SightingsOK, Statuses
<1>3. CASE D!ProjectOrdinary(e)
  <2> DEFINE S == {f \in events \cup {e} : f.session = e.session /\ f.call = e.call}
  <2>1. calls' = [calls EXCEPT ![D!Key(e.session, e.call)] = D!OrdinaryRow(S)] /\ aliases' = aliases
    BY <1>3 DEF D!ProjectOrdinary
  <2>2. S \in SUBSET OldSightings
    BY <1>1
  <2>3. D!OrdinaryRow(S).status \in Statuses
    BY <2>2, RowHasStatusD DEF D!OrdinaryRow
  <2> HIDE DEF S
  <2>4. \A k \in D!Keys : calls'[k].status \in Statuses
    BY <2>1, <2>3 DEF ToolInvD, D!TypeOK, Statuses
  <2> QED
    BY <1>1, <2>1, <2>4 DEF ToolInvD, D!TypeOK, D!SightingsOK, Statuses
<1> QED
  BY <1>2, <1>3 DEF D!ProjectTool

RetentionInv == D!RetentionTypeOK /\ DOMAIN calls = D!Keys

LEMMA RetentionKeepsTypes ==
  ASSUME D!RetentionAssumption, RetentionInv, [D!Steps]_(D!vars)
  PROVE  RetentionInv'
<1> USE DEF RetentionInv, D!RetentionTypeOK
<1>1. ASSUME NEW e \in OldSightings, D!Project(e) PROVE RetentionInv'
  <2>1. ToolInvD'
    BY <1>1, ProjectKeepsTypesD DEF D!Project, ToolInvD, D!RetentionAssumption
  <2>2. /\ seen' = seen \cup {e} /\ late' \in BOOLEAN
        /\ resumed' = resumed \cup {s \in {e.session} : D!InSession(trimmed, s) # {}}
        /\ UNCHANGED <<month, due, pc, cut, archive, trimmed, faults>>
        /\ events' = events \cup {e}
    BY <1>1 DEF D!Project, D!memory, D!ProjectTool
  <2> QED
    BY <2>1, <2>2 DEF ToolInvD
<1>2. ASSUME UNCHANGED D!tools PROVE D!TypeOK' /\ DOMAIN calls' = D!Keys /\ events' = events
  BY <1>2 DEF D!tools, D!TypeOK, D!SightingsOK
<1>3. CASE D!Day
  BY <1>2, <1>3 DEF D!Day, D!memory, D!history
<1>4. CASE D!NextMonth
  BY <1>2, <1>4 DEF D!NextMonth, D!memory, D!history
<1>5. CASE D!Run
  BY <1>2, <1>5 DEF D!Run, D!history
<1>6. CASE D!OpenArchive
  BY <1>2, <1>6 DEF D!OpenArchive, D!history
<1>7. CASE D!FinishArchive
  BY <1>2, <1>7 DEF D!FinishArchive, D!history
<1>8. CASE D!Delete
  <2>1. /\ events' = events \ D!OldDetail(cut) /\ trimmed' = trimmed \cup D!OldDetail(cut)
        /\ pc' = "saving"
        /\ UNCHANGED <<aliases, calls, month, due, cut, archive, late, seen, resumed, faults>>
    BY <1>8 DEF D!Delete
  <2>2. D!OldDetail(cut) \subseteq events
    BY DEF D!OldDetail
  <2>3. D!TypeOK'
    BY <2>1 DEF D!TypeOK, D!SightingsOK
  <2> QED
    BY <2>1, <2>2, <2>3
<1>9. CASE D!WriteState
  BY <1>2, <1>9 DEF D!WriteState, D!history
<1>10. ASSUME NEW e \in OldSightings, D!ArchiveRow(e) PROVE RetentionInv'
  BY <1>2, <1>10 DEF D!ArchiveRow, D!memory, D!history
<1>11. CASE D!Fail
  <2>1. UNCHANGED <<D!tools, month, due, cut, D!history>> /\ pc' = "idle" /\ faults' = faults + 1
        /\ faults < MaxFaults
    BY <1>11 DEF D!Fail
  <2>2. PICK kept \in SUBSET archive[cut] : archive' = [archive EXCEPT ![cut] = kept]
    BY <1>11 DEF D!Fail
  <2>3. archive' \in [D!Months -> SUBSET OldSightings]
    BY <2>2
  <2>4. faults' \in 0..MaxFaults
    BY <2>1 DEF D!RetentionAssumption
  <2> QED
    BY <1>2, <2>1, <2>3, <2>4 DEF D!history
<1>12. CASE UNCHANGED D!vars
  BY <1>2, <1>12 DEF D!vars, D!memory, D!history
<1> QED
  BY <1>1, <1>3, <1>4, <1>5, <1>6, <1>7, <1>8, <1>9, <1>10, <1>11, <1>12 DEF D!Steps, D!RunStep

LEMMA RetentionStartsTyped ==
  ASSUME D!RetentionAssumption, D!Start
  PROVE  RetentionInv
<1>1. D!TypeOK /\ DOMAIN calls = D!Keys
  BY DEF D!RetentionAssumption, D!ToolAssumption, D!Start, D!Init, D!TypeOK, D!NoRow
<1>2. 1 \in D!Months
  BY DEF D!RetentionAssumption, D!Months
<1>3. /\ month = 1 /\ due = TRUE /\ pc = "idle" /\ cut = 1 /\ archive = [m \in D!Months |-> {}]
      /\ events = {} /\ trimmed = {} /\ late = FALSE /\ seen = {} /\ resumed = {} /\ faults = 0
  BY DEF D!Start, D!Init
<1>4. month \in D!Months /\ cut \in D!Months /\ archive \in [D!Months -> SUBSET OldSightings]
  BY <1>2, <1>3
<1>5. due \in BOOLEAN /\ late \in BOOLEAN
  BY <1>3
<1>7. faults \in 0..MaxFaults
  BY <1>3 DEF D!RetentionAssumption
<1>6. D!RetentionTypeOK
  BY <1>1, <1>3, <1>4, <1>5, <1>7 DEF D!RetentionTypeOK
<1> QED
  BY <1>1, <1>6 DEF RetentionInv

\* The archives of other months than that of the run.
Elsewhere == UNION {archive[m] : m \in D!Months \ {cut}}

Settled == D!OldDetail(cut) = {} /\ pc \in {"idle", "saving"}

ArchiveInv ==
  /\ month \in D!Months /\ cut \in D!Months /\ cut <= month
  /\ DOMAIN archive = D!Months
  /\ \A m \in D!Months : m > cut => archive[m] = {}
  /\ ~late =>
       /\ pc = "archived" => D!AllArchived
       /\ trimmed \subseteq Elsewhere \cup archive[cut]
       /\ trimmed \subseteq Elsewhere \/ Settled

LEMMA InAnArchive ==
  ASSUME cut \in D!Months
  PROVE  UNION {archive[m] : m \in D!Months} = Elsewhere \cup archive[cut]
BY DEF Elsewhere

LEMMA StepKeepsArchives ==
  ASSUME D!RetentionAssumption, ArchiveInv, [D!Steps]_(D!vars)
  PROVE  ArchiveInv'
<1>m. D!Months \subseteq Nat
  BY DEF D!Months, D!RetentionAssumption
<1> USE DEF ArchiveInv
<1>1. ASSUME NEW e \in OldSightings, D!Project(e) PROVE ArchiveInv'
  <2>1. events' = events \cup {e} /\ UNCHANGED <<month, cut, pc, archive, trimmed>>
    BY <1>1 DEF D!Project, D!ProjectTool, D!memory
  <2>2. ~late' => ~late /\ (D!Old(e, cut) => pc # "archived" /\ archive[cut] = {})
    BY <1>1 DEF D!Project
  <2>3. D!Old(e, cut) \/ D!OldDetail(cut)' = D!OldDetail(cut)
    BY <2>1 DEF D!OldDetail, D!Old
  <2>4. Elsewhere' = Elsewhere
    BY <2>1 DEF Elsewhere
  <2>5. CASE ~late' /\ D!Old(e, cut)
    BY <2>1, <2>2, <2>4, <2>5
  <2>6. CASE ~late' /\ ~D!Old(e, cut)
    BY <2>1, <2>2, <2>3, <2>4, <2>6 DEF Settled, D!AllArchived
  <2> QED
    BY <2>1, <2>5, <2>6
<1>2. CASE D!Day
  BY <1>2 DEF D!Day, D!tools, D!memory, D!history, Elsewhere, Settled, D!AllArchived, D!OldDetail, D!Old
<1>3. CASE D!NextMonth
  BY <1>m, <1>3 DEF D!NextMonth, D!tools, D!memory, D!history, Elsewhere, Settled, D!AllArchived, D!OldDetail, D!Old
<1>4. CASE D!Run
  <2>1. UNCHANGED <<events, month, archive, trimmed, late>> /\ cut' = month
    BY <1>4 DEF D!Run, D!tools, D!history
  <2>2. pc' = IF D!OldDetail(month) = {} THEN "saving" ELSE "planned"
    BY <1>4 DEF D!Run
  <2>3. D!OldDetail(cut)' = D!OldDetail(month)
    BY <2>1 DEF D!OldDetail, D!Old
  <2>4. CASE cut = month
    <3>1. Elsewhere' = Elsewhere
      BY <2>1, <2>4 DEF Elsewhere
    <3> QED
      BY <2>1, <2>2, <2>3, <2>4, <3>1 DEF Settled
  <2>5. CASE cut < month
    <3>1. archive[month] = {}
      BY <1>m, <2>5
    <3>2. Elsewhere' = Elsewhere \cup archive[cut]
      BY <1>m, <2>1, <2>5, <3>1 DEF Elsewhere
    <3>3. \A m \in D!Months : m > month => archive[m] = {}
      BY <1>m, <2>5
    <3> QED
      BY <1>m, <2>1, <2>2, <3>2, <3>3
  <2> QED
    BY <1>m, <2>4, <2>5
<1>5. CASE D!OpenArchive
  <2>1. UNCHANGED <<events, month, cut, trimmed, late>> /\ pc' = "archiving"
    BY <1>5 DEF D!OpenArchive, D!tools, D!history
  <2>2. archive' = [archive EXCEPT ![cut] = {}] /\ pc = "planned"
    BY <1>5 DEF D!OpenArchive
  <2>3. Elsewhere' = Elsewhere
    BY <2>1, <2>2 DEF Elsewhere
  <2> QED
    BY <2>1, <2>2, <2>3 DEF Settled
<1>6. CASE D!FinishArchive
  BY <1>6 DEF D!FinishArchive, D!tools, D!history, Elsewhere, Settled, D!AllArchived, D!OldDetail, D!Old
<1>7. CASE D!Delete
  <2>1. /\ pc = "archived" /\ pc' = "saving" /\ events' = events \ D!OldDetail(cut)
        /\ trimmed' = trimmed \cup D!OldDetail(cut)
        /\ UNCHANGED <<month, cut, archive, late>>
    BY <1>7 DEF D!Delete
  <2>2. D!OldDetail(cut)' = {}
    BY <2>1 DEF D!OldDetail, D!Old
  <2>3. Elsewhere' = Elsewhere
    BY <2>1 DEF Elsewhere
  <2> QED
    BY <2>1, <2>2, <2>3 DEF Settled, D!AllArchived
<1>8. CASE D!WriteState
  BY <1>8 DEF D!WriteState, D!tools, D!history, Elsewhere, Settled, D!AllArchived, D!OldDetail, D!Old
<1>9. ASSUME NEW e \in OldSightings, D!ArchiveRow(e) PROVE ArchiveInv'
  <2>1. UNCHANGED <<events, month, cut, pc, trimmed, late>> /\ pc = "archiving"
    BY <1>9 DEF D!ArchiveRow, D!tools, D!memory, D!history
  <2>2. archive' = [archive EXCEPT ![cut] = @ \cup {e}]
    BY <1>9 DEF D!ArchiveRow
  <2>3. Elsewhere' = Elsewhere
    BY <2>1, <2>2 DEF Elsewhere
  <2>4. \A m \in D!Months : m > cut => m # cut
    BY <1>m
  <2> QED
    BY <2>1, <2>2, <2>3, <2>4 DEF Settled
<1>10. CASE D!Fail
  <2>1. UNCHANGED <<events, month, cut, trimmed, late>> /\ pc' = "idle" /\ pc # "idle"
    BY <1>10 DEF D!Fail, D!tools, D!history
  <2>2. PICK kept \in SUBSET archive[cut] :
          /\ pc # "archiving" => kept = archive[cut]
          /\ archive' = [archive EXCEPT ![cut] = kept]
    BY <1>10 DEF D!Fail
  <2>3. Elsewhere' = Elsewhere
    BY <2>1, <2>2 DEF Elsewhere
  <2>4. \A m \in D!Months : m > cut => m # cut
    BY <1>m
  <2>5. archive'[cut] = kept /\ \A m \in D!Months : m > cut => archive'[m] = {}
    BY <2>2, <2>4
  <2>6. pc = "archiving" => ~Settled
    BY DEF Settled
  <2>7. Settled => Settled'
    BY <2>1 DEF Settled, D!OldDetail, D!Old
  <2>8. DOMAIN archive' = D!Months
    BY <2>2
  <2> QED
    BY <2>1, <2>2, <2>3, <2>5, <2>6, <2>7, <2>8
<1>11. CASE UNCHANGED D!vars
  BY <1>11 DEF D!vars, D!tools, D!memory, D!history, Elsewhere, Settled, D!AllArchived, D!OldDetail, D!Old
<1> QED
  BY <1>1, <1>2, <1>3, <1>4, <1>5, <1>6, <1>7, <1>8, <1>9, <1>10, <1>11 DEF D!Steps, D!RunStep

LEMMA FirstArchives ==
  ASSUME D!RetentionAssumption, D!Start
  PROVE  ArchiveInv
BY DEF D!RetentionAssumption, D!Start, D!Init, ArchiveInv, D!Months, Elsewhere, Settled, D!AllArchived, D!OldDetail, D!Old

THEOREM TrimmedStaysInArchives ==
  ASSUME D!RetentionAssumption
  PROVE  D!Start /\ [][D!Steps]_(D!vars) => []D!TrimmedIsArchived
<1>1. D!Start => ArchiveInv
  BY FirstArchives
<1>2. ArchiveInv /\ [D!Steps]_(D!vars) => ArchiveInv'
  BY StepKeepsArchives
<1>3. ArchiveInv => D!TrimmedIsArchived
  BY InAnArchive DEF ArchiveInv, D!TrimmedIsArchived
<1> QED
  BY <1>1, <1>2, <1>3, PTL

-----------------------------------------------------------------------------
(* Each use of a tool counts once. *)

\* Of sightings, the first and the last one are the operators' choices.
LEMMA FirstOf ==
  ASSUME NEW S, InTime(S), S # {}
  PROVE  T!First(S) \in S
<1>1. PICK e \in S : \A f \in S \ {e} : T!Before(e, f)
  BY EarliestIsThere DEF T!Before
<1> QED
  BY <1>1 DEF T!First

LEMMA LastOf ==
  ASSUME NEW S, InTime(S), IsFiniteSet(S), S # {}
  PROVE  T!Last(S) \in S
<1>1. PICK e \in S : \A f \in S \ {e} : T!Before(f, e)
  BY LatestIsThere DEF T!Before
<1> QED
  BY <1>1 DEF T!Last

\* The retention reads the tools' operators over sightings of its own.
LEMMA SamePairing ==
  /\ \A S, hook : D!Candidates(S, hook) = T!Candidates(S, hook)
  /\ \A s, S : D!AliasesOf(s, S) = T!AliasesOf(s, S)
  /\ \A p, e : D!Canonical(p, e) = T!Canonical(p, e)
<1>1. \A X, Y : D!Close(X, Y) = T!Close(X, Y)
  BY DEF D!Close, T!Close, D!AliasDistance, T!AliasDistance
<1>2. \A X, Y : D!Alike(X, Y) = T!Alike(X, Y)
  BY <1>1 DEF D!Alike, T!Alike
<1>3. \A S, f : D!Ids(S, f) = T!Ids(S, f)
  BY DEF D!Ids, T!Ids
<1>4. \A S, f, c : D!Node(S, f, c) = T!Node(S, f, c)
  BY DEF D!Node, T!Node
<1>5. ASSUME NEW S, NEW hook PROVE D!Candidates(S, hook) = T!Candidates(S, hook)
  BY <1>2, <1>3, <1>4 DEF D!Candidates, T!Candidates
<1>6. \A S, h, c : D!Paired(S, h, c) = T!Paired(S, h, c)
  BY <1>3, <1>5 DEF D!Paired, T!Paired
<1>7. ASSUME NEW s, NEW S PROVE D!AliasesOf(s, S) = T!AliasesOf(s, S)
  BY <1>3, <1>6 DEF D!AliasesOf, T!AliasesOf
<1>8. ASSUME NEW p, NEW e PROVE D!Canonical(p, e) = T!Canonical(p, e)
  BY DEF D!Canonical, T!Canonical
<1> QED
  BY <1>5, <1>7, <1>8

LEMMA SameRows ==
  /\ \A S : D!First(S) = T!First(S)
  /\ \A S : D!Starts(S) = T!Starts(S)
  /\ \A S, b : D!RowOf(S, b) = T!RowOf(S, b)
  /\ D!NoRow = T!NoRow
  /\ \A x, y : D!Key(x, y) = T!Key(x, y)
<1>1. ASSUME NEW S PROVE D!First(S) = T!First(S) /\ D!Last(S) = T!Last(S)
  BY DEF D!First, T!First, D!Last, T!Last, D!Before, T!Before
<1>2. \A S : D!Starts(S) = T!Starts(S) /\ D!Ends(S) = T!Ends(S)
  BY DEF D!Starts, T!Starts, D!Ends, T!Ends
<1>3. \A S : D!NamedEnds(S) = T!NamedEnds(S)
  BY <1>1, <1>2 DEF D!NamedEnds, T!NamedEnds
<1>4. \A S : D!End(S) = T!End(S)
  BY <1>1, <1>3 DEF D!End, T!End
<1>5. D!NoRow = T!NoRow
  BY DEF D!NoRow, T!NoRow
<1>6. ASSUME NEW S, NEW b PROVE D!RowOf(S, b) = T!RowOf(S, b)
  BY <1>1, <1>2, <1>4, <1>5 DEF D!RowOf, T!RowOf
<1>7. \A x, y : D!Key(x, y) = T!Key(x, y)
  BY DEF D!Key, T!Key
<1> QED
  BY <1>1, <1>2, <1>5, <1>6, <1>7

\* What UsesApart says, of any set of sightings.
Whole(V, e) ==
  /\ e.session \in Claude => e.from \in {"hook", "transcript"}
  /\ \E f \in V : f.use = e.use /\ f.type = "called"
  /\ \E f \in V : f.use = e.use /\ f.type # "called"
NearIds(V, use) ==
  \E h \in V, t \in V :
    /\ h.use = use /\ h.from = "hook" /\ t.use = use /\ t.from = "transcript" /\ T!Close({h}, {t})
TellsApart(V, e, f) ==
  /\ e.session = f.session /\ e.call = f.call => e.use = f.use
  /\ e.use = f.use => e.session = f.session /\ e.name = f.name
  /\ e.use = f.use /\ e.call # f.call => e.session \in Claude /\ e.from # f.from /\ NearIds(V, e.use)
  /\ e.use # f.use /\ e.session = f.session /\ e.name = f.name
       /\ e.from = "hook" /\ f.from = "transcript" => ~T!Close({e}, {f})
Apart(V) == \A e \in V : Whole(V, e) /\ \A f \in V : TellsApart(V, e, f)

Sound(V) ==
  /\ InTime(V) /\ IsFiniteSet(V) /\ Apart(V)
  /\ \A e \in V : e.type \in {"called", "succeeded", "failed"}

Used(V, use) == {e \in V : e.use = use}

\* Two sightings of V.
LEMMA TwoSightings ==
  ASSUME NEW V, Sound(V), NEW e \in V, NEW f \in V
  PROVE  /\ e.session = f.session /\ e.call = f.call => e.use = f.use
         /\ e.use = f.use => e.session = f.session /\ e.name = f.name
         /\ e.use = f.use /\ e.from = f.from => e.call = f.call
<1>1. TellsApart(V, e, f)
  BY DEF Sound, Apart
<1> QED
  BY <1>1 DEF TellsApart

LEMMA OthersAreFar ==
  ASSUME NEW V, Sound(V), NEW e \in V, NEW f \in V,
         e.session = f.session, e.name = f.name, e.from = "hook", f.from = "transcript", T!Close({e}, {f})
  PROVE  e.use = f.use
<1>1. TellsApart(V, e, f)
  BY DEF Sound, Apart
<1> QED
  BY <1>1 DEF TellsApart

LEMMA TwoIds ==
  ASSUME NEW V, Sound(V), NEW e \in V, NEW f \in V, e.use = f.use, e.call # f.call
  PROVE  e.session \in Claude /\ e.from # f.from /\ NearIds(V, e.use)
<1>1. TellsApart(V, e, f)
  BY DEF Sound, Apart
<1> QED
  BY <1>1 DEF TellsApart

LEMMA StartAndEnd ==
  ASSUME NEW V, Sound(V), NEW e \in V
  PROVE  /\ e.session \in Claude => e.from \in {"hook", "transcript"}
         /\ \E f \in V : f.use = e.use /\ f.type = "called"
         /\ \E f \in V : f.use = e.use /\ f.type # "called"
<1>1. Whole(V, e)
  BY DEF Sound, Apart
<1> QED
  BY <1>1 DEF Whole

\* The row made of all sightings of a use tells of it.
LEMMA RowTellsOfUse ==
  ASSUME NEW V, Sound(V), NEW u \in V, NEW b \in BOOLEAN
  PROVE  LET O == Used(V, u.use)
             row == T!RowOf(O, b)
         IN  /\ row.status # "none"
             /\ row.started = T!First(T!Starts(O)).at
             /\ row.status = IF \E e \in O : e.type = "succeeded" THEN "succeeded" ELSE "failed"
<1> DEFINE O == Used(V, u.use)
<1>0. O \subseteq V /\ InTime(O) /\ IsFiniteSet(O)
  BY FS_Subset DEF Used, Sound, InTime
<1>1. T!Starts(O) # {} /\ T!Starts(O) \subseteq O /\ T!Ends(O) # {} /\ T!Ends(O) \subseteq O
  <2>1. PICK f \in V, g \in V : f.use = u.use /\ f.type = "called" /\ g.use = u.use /\ g.type # "called"
    BY StartAndEnd
  <2>2. f \in T!Starts(O) /\ g \in T!Ends(O)
    BY <2>1 DEF T!Starts, T!Ends, Used
  <2> QED
    BY <2>2 DEF T!Starts, T!Ends
<1>2. \A e, f \in O : e.name = f.name
  BY TwoSightings DEF Used
<1>3. T!First(T!Starts(O)) \in T!Starts(O)
  BY <1>0, <1>1, FirstOf DEF InTime
<1>4. T!NamedEnds(O) = T!Ends(O)
  <2>1. \A e \in T!Ends(O) : \A f \in T!Starts(O) : e.name = f.name
    BY <1>1, <1>2
  <2> QED
    BY <1>1, <2>1 DEF T!NamedEnds
<1> DEFINE good == {e \in T!Ends(O) : e.type = "succeeded"}
<1>5. good = {e \in O : e.type = "succeeded"}
  BY DEF T!Ends, T!Starts
<1>6. T!End(O) = IF good # {} THEN T!First(good) ELSE T!Last(T!Ends(O))
  BY <1>4 DEF T!End
<1>7. ASSUME good # {} PROVE T!End(O).type = "succeeded"
  <2>1. InTime(good)
    BY <1>0, <1>1 DEF InTime
  <2>2. T!First(good) \in good
    BY <1>7, <2>1, FirstOf
  <2> QED
    BY <1>6, <1>7, <2>2
<1>8. ASSUME good = {} PROVE T!End(O).type = "failed"
  <2>1. InTime(T!Ends(O)) /\ IsFiniteSet(T!Ends(O))
    BY <1>0, <1>1, FS_Subset DEF InTime
  <2>2. T!End(O) \in T!Ends(O)
    BY <1>1, <1>6, <1>8, <2>1, LastOf
  <2>3. T!End(O).type # "called" /\ T!End(O) \in V
    BY <1>0, <2>2 DEF T!Ends, T!Starts
  <2> QED
    BY <1>8, <2>2, <2>3 DEF Sound
<1>9. O # {}
  BY <1>1
<1>10. T!RowOf(O, b).status = T!End(O).type /\ T!RowOf(O, b).started = T!First(T!Starts(O)).at
  BY <1>1, <1>9 DEF T!RowOf
<1> QED
  BY <1>5, <1>7, <1>8, <1>10

\* An alias pairs the two ids of one use.
LEMMA PairsAreOfOneUse ==
  ASSUME NEW V, Sound(V), NEW S \in SUBSET V, NEW s, \A e \in S : e.session = s,
         NEW h \in S, h.from = "hook", NEW c, c \in T!Candidates(S, h.call)
  PROVE  \E t \in S : t.from = "transcript" /\ t.call = c /\ t.use = h.use /\ c # h.call
<1>1. c \in T!Ids(S, "transcript") /\ c # h.call
  BY DEF T!Candidates
<1>2. PICK t \in S : t.from = "transcript" /\ t.call = c
  BY <1>1 DEF T!Ids
<1>3. T!Alike(T!Node(S, "hook", h.call), T!Node(S, "transcript", c))
  BY DEF T!Candidates
<1>4. PICK x \in T!Node(S, "hook", h.call), y \in T!Node(S, "transcript", c) : x.name = y.name
  BY <1>3 DEF T!Alike
<1>5. PICK a \in T!Node(S, "hook", h.call), z \in T!Node(S, "transcript", c) : T!Close({a}, {z})
  BY <1>3 DEF T!Alike, T!Close
<1>6. /\ a \in V /\ x \in V /\ y \in V /\ z \in V /\ t \in V /\ h \in V
      /\ a.from = "hook" /\ z.from = "transcript"
      /\ a.call = h.call /\ x.call = h.call /\ z.call = c /\ y.call = c
      /\ a.session = s /\ x.session = s /\ z.session = s /\ y.session = s /\ t.session = s /\ h.session = s
  BY <1>2, <1>4, <1>5 DEF T!Node
<1>7. a.use = h.use /\ x.use = h.use /\ z.use = t.use /\ y.use = t.use
  BY <1>2, <1>6, TwoSightings
<1>8. a.name = x.name /\ z.name = y.name
  BY <1>6, <1>7, TwoSightings
<1>9. a.use = z.use
  <2>1. a.session = z.session /\ a.name = z.name
    BY <1>4, <1>6, <1>8
  <2> QED
    BY <1>5, <1>6, <2>1, OthersAreFar
<1> QED
  BY <1>1, <1>2, <1>7, <1>9

\* The two ids of a use that was seen whole are paired.
LEMMA WholeUseIsPaired ==
  ASSUME NEW V, Sound(V), NEW S \in SUBSET V, NEW s, \A e \in S : e.session = s,
         NEW h \in S, NEW t \in S, h.from = "hook", t.from = "transcript",
         h.use = t.use, h.call # t.call, Used(V, h.use) \subseteq S
  PROVE  T!Paired(S, h.call, t.call)
<1>0. h \in V /\ t \in V
  OBVIOUS
<1>1. PICK a \in V, z \in V : a.use = h.use /\ z.use = h.use /\ a.from = "hook" /\ z.from = "transcript"
                              /\ T!Close({a}, {z})
  <2>1. NearIds(V, h.use)
    BY <1>0, TwoIds
  <2> QED
    BY <2>1 DEF NearIds
<1>2. a \in S /\ z \in S
  BY <1>1 DEF Used
<1>3. a.call = h.call /\ z.call = t.call
  BY <1>0, <1>1, TwoSightings
<1>4. a.name = z.name
  BY <1>1, TwoSightings
<1>5. a \in T!Node(S, "hook", h.call) /\ z \in T!Node(S, "transcript", t.call)
  BY <1>1, <1>2, <1>3 DEF T!Node
<1>6. T!Alike(T!Node(S, "hook", h.call), T!Node(S, "transcript", t.call))
  BY <1>1, <1>4, <1>5 DEF T!Alike, T!Close
<1>7. t.call \in T!Candidates(S, h.call)
  BY <1>6 DEF T!Candidates, T!Ids
<1>8. ASSUME NEW c \in T!Candidates(S, h.call) PROVE c = t.call
  <2>1. PICK x \in S : x.from = "transcript" /\ x.call = c /\ x.use = h.use
    BY PairsAreOfOneUse
  <2> QED
    BY <1>0, <2>1, TwoSightings
<1>9. ASSUME NEW g \in T!Ids(S, "hook"), t.call \in T!Candidates(S, g) PROVE g = h.call
  <2>1. PICK x \in S : x.from = "hook" /\ x.call = g
    BY DEF T!Ids
  <2>2. PICK y \in S : y.from = "transcript" /\ y.call = t.call /\ y.use = x.use
    BY <1>9, <2>1, PairsAreOfOneUse
  <2>3. y.use = t.use
    BY <1>0, <2>2, TwoSightings
  <2>4. x \in V /\ x.use = h.use /\ x.from = h.from
    BY <2>1, <2>2, <2>3
  <2> QED
    BY <1>0, <2>1, <2>4, TwoSightings
<1> QED
  BY <1>7, <1>8, <1>9 DEF T!Paired

\* Under which id a sighting is counted.
LEMMA CountedUnder ==
  ASSUME NEW S, NEW s, NEW e \in S, e.session = s
  PROVE  LET c == T!Canonical(T!AliasesOf(s, S), e)
         IN  \/ c = e.call /\ \A d \in T!Ids(S, "transcript") : e.call \in T!Ids(S, "hook") => ~T!Paired(S, e.call, d)
             \/ e.call \in T!Ids(S, "hook") /\ c \in T!Ids(S, "transcript") /\ T!Paired(S, e.call, c)
<1> DEFINE pairs == T!AliasesOf(s, S)
           Fits(p) == p.session = e.session /\ p.observed = e.call
<1>1. ASSUME NEW p \in pairs, Fits(p)
      PROVE  e.call \in T!Ids(S, "hook") /\ p.canonical \in T!Ids(S, "transcript") /\ T!Paired(S, e.call, p.canonical)
  <2>1. PICK q \in T!Ids(S, "hook") \X T!Ids(S, "transcript") :
          T!Paired(S, q[1], q[2]) /\ p = [session |-> s, observed |-> q[1], canonical |-> q[2]]
    BY <1>1 DEF T!AliasesOf
  <2>2. p.observed = q[1] /\ p.canonical = q[2]
    BY <2>1
  <2>3. q[1] = e.call
    BY <1>1, <2>2
  <2> QED
    BY <2>1, <2>2, <2>3
<1>2. ASSUME NEW d \in T!Ids(S, "transcript"), e.call \in T!Ids(S, "hook"), T!Paired(S, e.call, d)
      PROVE  \E p \in pairs : Fits(p)
  <2>1. <<e.call, d>> \in T!Ids(S, "hook") \X T!Ids(S, "transcript")
    BY <1>2
  <2> DEFINE p == [session |-> s, observed |-> e.call, canonical |-> d]
  <2>2. p \in pairs
    BY <1>2, <2>1 DEF T!AliasesOf
  <2>3. Fits(p)
    OBVIOUS
  <2> QED
    BY <2>2, <2>3
<1>3. CASE \E p \in pairs : Fits(p)
  <2>1. T!Canonical(pairs, e) = (CHOOSE p \in pairs : Fits(p)).canonical
    BY <1>3 DEF T!Canonical
  <2>2. (CHOOSE p \in pairs : Fits(p)) \in pairs /\ Fits(CHOOSE p \in pairs : Fits(p))
    BY <1>3
  <2> QED
    BY <1>1, <2>1, <2>2
<1>4. CASE ~\E p \in pairs : Fits(p)
  <2>1. T!Canonical(pairs, e) = e.call
    BY <1>4 DEF T!Canonical
  <2> QED
    BY <1>2, <1>4, <2>1
<1> QED
  BY <1>3, <1>4

LEMMA CountedUnderOwn ==
  ASSUME NEW V, Sound(V), NEW S \in SUBSET V, NEW s, \A e \in S : e.session = s, NEW e \in S
  PROVE  \E f \in S : f.use = e.use /\ f.call = T!Canonical(T!AliasesOf(s, S), e)
<1> DEFINE c == T!Canonical(T!AliasesOf(s, S), e)
<1>1. CASE c = e.call
  BY <1>1
<1>2. CASE e.call \in T!Ids(S, "hook") /\ c \in T!Ids(S, "transcript") /\ T!Paired(S, e.call, c)
  <2>1. PICK h \in S : h.from = "hook" /\ h.call = e.call
    BY <1>2 DEF T!Ids
  <2>2. c \in T!Candidates(S, h.call)
    BY <1>2, <2>1 DEF T!Paired
  <2>3. PICK t \in S : t.call = c /\ t.use = h.use
    BY <2>1, <2>2, PairsAreOfOneUse
  <2>4. h.use = e.use
    BY <2>1, TwoSightings
  <2> QED
    BY <2>3, <2>4
<1> QED
  BY <1>1, <1>2, CountedUnder

\* The row that the projector makes of a call, from all events that it has.
RowFor(all, k) ==
  IF k.session \in Claude
  THEN T!Rebuilt(T!AliasesOf(k.session, T!InSession(all, k.session)), T!InSession(all, k.session), k.call)
  ELSE T!OrdinaryRow({f \in all : f.session = k.session /\ f.call = k.call})

OneRow(V, all, use, call) ==
  \A e \in Used(V, use) :
    RowFor(all, T!Key(e.session, e.call)) =
      IF e.call = call THEN T!RowOf(Used(V, use), e.session \notin Claude) ELSE T!NoRow

LEMMA OrdinaryUse ==
  ASSUME NEW V, Sound(V), NEW all \in SUBSET V, NEW u \in V, Used(V, u.use) \subseteq all, u.session \notin Claude
  PROVE  OneRow(V, all, u.use, u.call)
<1> SUFFICES ASSUME NEW e \in Used(V, u.use)
             PROVE  e.call = u.call /\ RowFor(all, T!Key(e.session, e.call)) = T!RowOf(Used(V, u.use), e.session \notin Claude)
  BY DEF OneRow
<1>1. e \in V /\ e.use = u.use
  BY DEF Used
<1>2. e.session = u.session /\ e.call = u.call
  BY <1>1, TwoSightings, TwoIds
<1>3. {f \in all : f.session = e.session /\ f.call = e.call} = Used(V, u.use)
  <2>1. ASSUME NEW f \in all, f.session = e.session, f.call = e.call PROVE f \in Used(V, u.use)
    <3>1. f \in V
      OBVIOUS
    <3>2. f.use = e.use
      BY <1>1, <2>1, <3>1, TwoSightings
    <3> QED
      BY <1>1, <3>1, <3>2 DEF Used
  <2>2. ASSUME NEW f \in Used(V, u.use) PROVE f \in all /\ f.session = e.session /\ f.call = e.call
    <3>1. f \in V /\ f.use = u.use
      BY DEF Used
    <3> QED
      BY <1>2, <3>1, TwoSightings, TwoIds
  <2> QED
    BY <2>1, <2>2
<1>4. T!Key(e.session, e.call).session = e.session /\ T!Key(e.session, e.call).call = e.call
  BY DEF T!Key
<1>5. RowFor(all, T!Key(e.session, e.call)) = T!OrdinaryRow({f \in all : f.session = e.session /\ f.call = e.call})
  BY <1>2, <1>4 DEF RowFor
<1>6. (e.session \notin Claude) = TRUE
  BY <1>2
<1> QED
  BY <1>2, <1>3, <1>5, <1>6 DEF T!OrdinaryRow

LEMMA ClaudeUse ==
  ASSUME NEW V, Sound(V), NEW all \in SUBSET V, NEW u \in V, Used(V, u.use) \subseteq all, u.session \in Claude
  PROVE  \E x \in Used(V, u.use) : OneRow(V, all, u.use, x.call)
<1> DEFINE s == u.session
           S == T!InSession(all, s)
           O == Used(V, u.use)
           C(e) == T!Canonical(T!AliasesOf(s, S), e)
<1>1. S \in SUBSET V /\ \A e \in S : e.session = s
  BY DEF T!InSession
<1>2. \A e \in O : e \in V /\ e.use = u.use /\ e.session = s
  BY TwoSightings DEF Used
<1>3. O \subseteq S /\ u \in O
  BY <1>2 DEF T!InSession, Used
<1> HIDE DEF S, O
<1>4. ASSUME NEW e \in S, NEW x \in O, C(e) = x.call PROVE e \in O
  <2>1. PICK f \in S : f.use = e.use /\ f.call = C(e)
    BY <1>1, CountedUnderOwn
  <2>2. f.session = x.session /\ f.call = x.call /\ f \in V /\ x \in V
    BY <1>1, <1>2, <1>4, <2>1
  <2>3. f.use = u.use
    BY <1>2, <2>2, TwoSightings
  <2> QED
    BY <1>1, <2>1, <2>3 DEF O, Used
<1>5. ASSUME NEW x \in O, \A e \in O : C(e) = x.call
      PROVE  OneRow(V, all, u.use, x.call)
  <2>1. ASSUME NEW e \in O
        PROVE  RowFor(all, T!Key(e.session, e.call)) = T!ClaudeRow({f \in S : C(f) = e.call})
    <3>1. T!Key(e.session, e.call).session = s /\ T!Key(e.session, e.call).call = e.call
      BY <1>2 DEF T!Key
    <3> QED
      BY <3>1 DEF RowFor, T!Rebuilt, S
  <2>2. ASSUME NEW e \in O, e.call = x.call PROVE {f \in S : C(f) = e.call} = O
    BY <1>3, <1>4, <1>5, <2>2
  <2>3. ASSUME NEW e \in O, e.call # x.call PROVE {f \in S : C(f) = e.call} = {}
    BY <1>4, <1>5, <2>3
  <2>4. \A e \in O : (e.session \notin Claude) = FALSE
    BY <1>2
  <2>5. T!ClaudeRow({}) = T!NoRow
    BY DEF T!ClaudeRow, T!RowOf
  <2>6. ASSUME NEW e \in O
        PROVE  RowFor(all, T!Key(e.session, e.call)) =
                 IF e.call = x.call THEN T!RowOf(O, e.session \notin Claude) ELSE T!NoRow
    BY <2>1, <2>2, <2>3, <2>4, <2>5 DEF T!ClaudeRow
  <2> QED
    BY <2>6 DEF OneRow, O
<1>6. CASE \A e, f \in O : e.call = f.call
  <2>1. ASSUME NEW e \in O PROVE C(e) = u.call
    <3>1. PICK f \in S : f.use = e.use /\ f.call = C(e)
      BY <1>1, <1>3, CountedUnderOwn
    <3>2. f \in O
      BY <1>1, <1>2, <3>1 DEF O, Used
    <3> QED
      BY <1>3, <1>6, <3>1, <3>2
  <2> QED
    BY <1>3, <1>5, <2>1 DEF O
<1>7. ASSUME NEW h \in O, NEW t \in O, h.from = "hook", t.from = "transcript", h.call # t.call
      PROVE  OneRow(V, all, u.use, t.call)
  <2>1. T!Paired(S, h.call, t.call)
    BY <1>1, <1>2, <1>3, <1>7, WholeUseIsPaired DEF O
  <2>2. ASSUME NEW e \in O PROVE C(e) = t.call
    <3>0. e \in V /\ e.use = u.use /\ e.session = s /\ e \in S
      BY <1>2, <1>3
    <3>1. e.from \in {"hook", "transcript"}
      BY <1>2, StartAndEnd
    <3>2. CASE e.from = "hook"
      <4>1. e.call = h.call
        BY <1>2, <1>7, <3>2, TwoSightings
      <4>2. h.call \in T!Ids(S, "hook") /\ t.call \in T!Ids(S, "transcript")
        BY <1>3, <1>7 DEF T!Ids
      <4>3. T!Paired(S, h.call, C(e))
        BY <2>1, <3>0, <4>1, <4>2, CountedUnder
      <4> QED
        BY <2>1, <4>3 DEF T!Paired
    <3>3. CASE e.from = "transcript"
      <4>1. e.call = t.call
        BY <1>2, <1>7, <3>3, TwoSightings
      <4>2. ASSUME e.call \in T!Ids(S, "hook") PROVE FALSE
        <5>1. PICK x \in S : x.from = "hook" /\ x.call = e.call
          BY <4>2 DEF T!Ids
        <5>2. x.use = e.use
          BY <1>1, <3>0, <5>1, TwoSightings
        <5>3. x \in V /\ h \in V /\ x.use = h.use
          BY <1>1, <1>2, <3>0, <5>2
        <5>4. x.call = h.call
          BY <1>7, <5>1, <5>3, TwoSightings
        <5> QED
          BY <1>7, <4>1, <5>1, <5>4
      <4> QED
        BY <3>0, <4>1, <4>2, CountedUnder
    <3> QED
      BY <3>1, <3>2, <3>3
  <2> QED
    BY <1>5, <2>2
<1>8. ASSUME NEW e \in O, NEW f \in O, e.call # f.call PROVE \E x \in O : OneRow(V, all, u.use, x.call)
  <2>1. e.from # f.from /\ e.from \in {"hook", "transcript"} /\ f.from \in {"hook", "transcript"}
    BY <1>2, <1>8, TwoIds, StartAndEnd
  <2> QED
    BY <1>7, <1>8, <2>1
<1> QED
  BY <1>6, <1>8 DEF O

LEMMA UseHasOneRow ==
  ASSUME NEW V, Sound(V), NEW all \in SUBSET V, NEW u \in V, Used(V, u.use) \subseteq all
  PROVE  \E x \in Used(V, u.use) : OneRow(V, all, u.use, x.call)
<1>1. u \in Used(V, u.use)
  BY DEF Used
<1> QED
  BY <1>1, OrdinaryUse, ClaudeUse

\* Calls that follow the events tell of each use once.
Follow(V, all, use) ==
  \A e \in Used(V, use) : calls[T!Key(e.session, e.call)] = RowFor(all, T!Key(e.session, e.call))
ToldBy(V, use, k) ==
  /\ {x \in {T!Key(e.session, e.call) : e \in Used(V, use)} : calls[x].status # "none"} = {k}
  /\ calls[k].started = T!First(T!Starts(Used(V, use))).at
  /\ calls[k].status = IF \E e \in Used(V, use) : e.type = "succeeded" THEN "succeeded" ELSE "failed"

LEMMA ToldOnce ==
  ASSUME NEW V, Sound(V), NEW all \in SUBSET V, NEW u \in V, Used(V, u.use) \subseteq all, Follow(V, all, u.use)
  PROVE  \E k : ToldBy(V, u.use, k)
<1> DEFINE O == Used(V, u.use)
           K(e) == T!Key(e.session, e.call)
<1>1. PICK x \in O : OneRow(V, all, u.use, x.call)
  BY UseHasOneRow
<1>2. \A e \in O : e.session = x.session
  BY TwoSightings DEF Used
<1>3. ASSUME NEW e \in O, e.call = x.call PROVE K(e) = K(x)
  BY <1>2, <1>3
<1>4. ASSUME NEW e \in O, e.call # x.call PROVE calls[K(e)].status = "none"
  BY <1>1, <1>4 DEF OneRow, T!NoRow, Follow
<1>6. PICK b \in BOOLEAN : b = (x.session \notin Claude)
  OBVIOUS
<1>5. calls[K(x)] = T!RowOf(O, b)
  BY <1>1, <1>6 DEF OneRow, Follow
<1>7. /\ calls[K(x)].status # "none"
      /\ calls[K(x)].started = T!First(T!Starts(O)).at
      /\ calls[K(x)].status = IF \E e \in O : e.type = "succeeded" THEN "succeeded" ELSE "failed"
  BY <1>5, RowTellsOfUse
<1> HIDE DEF K, O
<1>8. {y \in {K(e) : e \in O} : calls[y].status # "none"} = {K(x)}
  BY <1>3, <1>4, <1>7
<1> QED
  BY <1>7, <1>8 DEF K, O, ToldBy

ToolsTyped == events \subseteq Sightings

\* In the tools' part: the rows follow the events.
CallsFollow == \A k \in T!Keys : calls[k] = RowFor(events, k)

LEMMA CallsFollowAtFirst ==
  ASSUME T!Init
  PROVE  CallsFollow
<1>1. events = {} /\ calls = [k \in T!Keys |-> T!NoRow]
  BY DEF T!Init
<1>2. ASSUME NEW k \in T!Keys PROVE RowFor({}, k) = T!NoRow
  <2>1. \A p, S : T!Rebuilt(p, {}, S) = T!NoRow
    BY DEF T!Rebuilt, T!ClaudeRow, T!RowOf
  <2>2. T!OrdinaryRow({}) = T!NoRow
    BY DEF T!OrdinaryRow, T!RowOf
  <2>3. T!InSession({}, k.session) = {}
    BY DEF T!InSession
  <2> QED
    BY <2>1, <2>2, <2>3 DEF RowFor
<1> QED
  BY <1>1, <1>2 DEF CallsFollow

\* Sightings of other sessions leave a row as it is.
LEMMA OtherSessions ==
  ASSUME NEW all, NEW e, NEW k, k.session # e.session
  PROVE  RowFor(all \cup {e}, k) = RowFor(all, k)
<1>1. T!InSession(all \cup {e}, k.session) = T!InSession(all, k.session)
  BY DEF T!InSession
<1>2. {f \in all \cup {e} : f.session = k.session /\ f.call = k.call} = {f \in all : f.session = k.session /\ f.call = k.call}
  OBVIOUS
<1> QED
  BY <1>1, <1>2 DEF RowFor

LEMMA OtherCalls ==
  ASSUME NEW all, NEW e, NEW k, k.session \notin Claude, k.call # e.call
  PROVE  RowFor(all \cup {e}, k) = RowFor(all, k)
<1>2. {f \in all \cup {e} : f.session = k.session /\ f.call = k.call} = {f \in all : f.session = k.session /\ f.call = k.call}
  OBVIOUS
<1> QED
  BY <1>2 DEF RowFor

LEMMA CallsGoOnFollowing ==
  ASSUME T!ToolAssumption, DOMAIN calls = T!Keys, CallsFollow, [T!Next]_(T!tools)
  PROVE  CallsFollow'
<1>1. CASE UNCHANGED T!tools
  BY <1>1 DEF T!tools, CallsFollow, RowFor
<1>2. ASSUME NEW e \in Sightings, T!ProjectTool(e) PROVE CallsFollow'
  <2>1. PICK S : S = events \cup {e}
    OBVIOUS
  <2>2. events' = S
    BY <1>2, <2>1 DEF T!ProjectTool
  <2>3. SUFFICES \A k \in T!Keys : calls'[k] = RowFor(S, k)
    BY <2>2 DEF CallsFollow, RowFor
  <2>4. CASE T!ProjectClaude(e)
    <3>1. /\ e.session \in Claude
          /\ calls' = [k \in T!Keys |->
                IF k.session = e.session
                THEN T!Rebuilt(T!AliasesOf(e.session, T!InSession(S, e.session)), T!InSession(S, e.session), k.call)
                ELSE calls[k]]
      BY <2>1, <2>4 DEF T!ProjectClaude
    <3>2. ASSUME NEW k \in T!Keys, k.session = e.session PROVE calls'[k] = RowFor(S, k)
      BY <3>1, <3>2 DEF RowFor
    <3>3. ASSUME NEW k \in T!Keys, k.session # e.session PROVE calls'[k] = RowFor(S, k)
      BY <2>1, <3>1, <3>3, OtherSessions DEF CallsFollow
    <3> QED
      BY <3>2, <3>3
  <2>5. CASE T!ProjectOrdinary(e)
    <3> DEFINE key == T!Key(e.session, e.call)
    <3>1. /\ e.session \notin Claude
          /\ calls' = [calls EXCEPT ![key] = T!OrdinaryRow({f \in S : f.session = e.session /\ f.call = e.call})]
      BY <2>1, <2>5 DEF T!ProjectOrdinary
    <3>2. key \in T!Keys /\ key.session = e.session /\ key.call = e.call
      BY DEF T!Keys, T!Key
    <3>3. calls'[key] = RowFor(S, key)
      BY <3>1, <3>2 DEF RowFor
    <3>4. ASSUME NEW k \in T!Keys, k # key PROVE calls'[k] = RowFor(S, k)
      <4>1. k.session # e.session \/ k.call # e.call
        BY <3>4 DEF T!Keys, T!Key
      <4>2. calls'[k] = calls[k]
        BY <3>1, <3>2, <3>4
      <4>3. k.session = e.session => k.session \notin Claude
        BY <3>1
      <4> QED
        BY <2>1, <4>1, <4>2, <4>3, OtherSessions, OtherCalls DEF CallsFollow
    <3> QED
      BY <3>3, <3>4
  <2> QED
    BY <1>2, <2>4, <2>5 DEF T!ProjectTool
<1> QED
  BY <1>1, <1>2 DEF T!Next

LEMMA OneOfOne ==
  ASSUME NEW S, NEW x, S = {x}
  PROVE  T!Cardinality(S) = 1 /\ D!Cardinality(S) = 1
<1>1. Cardinality(S) = 1
  BY FS_Singleton
<1>2. T!Cardinality(S) = Cardinality(S)
  BY DEF T!Cardinality, Cardinality
<1>3. D!Cardinality(S) = Cardinality(S)
  BY DEF D!Cardinality, Cardinality
<1> QED
  BY <1>1, <1>2, <1>3

LEMMA SightingsAreSound ==
  ASSUME T!ToolAssumption, T!UsesApart
  PROVE  Sound(Sightings)
<1>1. InTime(Sightings) /\ IsFiniteSet(Sightings)
  BY SameSets DEF InTime, T!ToolAssumption, T!SightingsOK
<1>2. \A e \in Sightings : e.type \in {"called", "succeeded", "failed"}
  BY DEF T!ToolAssumption, T!SightingsOK
<1>3. Apart(Sightings)
  <2>1. \A e \in Sightings : Whole(Sightings, e) <=> T!SeenWhole(e)
    BY DEF Whole, T!SeenWhole
  <2>2. \A u : NearIds(Sightings, u) <=> T!SeenNear(u)
    BY DEF NearIds, T!SeenNear
  <2>3. \A e, f \in Sightings : TellsApart(Sightings, e, f) <=> T!ToldApart(e, f)
    BY <2>2 DEF TellsApart, T!ToldApart
  <2> QED
    BY <2>1, <2>3 DEF T!UsesApart, Apart
<1> QED
  BY <1>1, <1>2, <1>3 DEF Sound

LEMMA EveryUseIsToldOnce ==
  ASSUME T!ToolAssumption, T!UsesApart, ToolsTyped, CallsFollow
  PROVE  T!EveryUseOnce
<1> SUFFICES ASSUME NEW u \in Sightings, T!Of(u.use) \subseteq events
             PROVE  T!CountedOnce(u.use)
  BY DEF T!EveryUseOnce, T!Uses
<1> DEFINE O == Used(Sightings, u.use)
<1>1. T!Of(u.use) = O
  BY DEF T!Of, Used
<1>2. Sound(Sightings)
  BY SightingsAreSound
<1>3. Follow(Sightings, events, u.use)
  BY DEF Follow, CallsFollow, T!Keys, Used
<1>4. events \subseteq Sightings
  BY DEF ToolsTyped
<1>5. PICK k : ToldBy(Sightings, u.use, k)
  BY <1>1, <1>2, <1>3, <1>4, ToldOnce
<1>6. T!RowsOf(u.use) = {k}
  BY <1>1, <1>5 DEF T!RowsOf, ToldBy
<1>7. T!Tells(calls[k], u.use)
  BY <1>1, <1>5 DEF T!Tells, ToldBy
<1> QED
  BY <1>6, <1>7, OneOfOne DEF T!CountedOnce

\* With the retention: the rows of a session follow all that was ever seen of it,
\* until it goes on after it was trimmed.
FactsFollow ==
  /\ seen \subseteq events \cup trimmed
  /\ \A k \in D!Keys : k.session \notin resumed => calls[k] = RowFor(seen, k)

LEMMA OldRows ==
  /\ \A s, S, c : D!Rebuilt(D!AliasesOf(s, S), S, c) = T!Rebuilt(T!AliasesOf(s, S), S, c)
  /\ \A S : D!OrdinaryRow(S) = T!OrdinaryRow(S)
  /\ \A S, s : D!InSession(S, s) = T!InSession(S, s)
<1>1. ASSUME NEW s, NEW S, NEW c PROVE D!Rebuilt(D!AliasesOf(s, S), S, c) = T!Rebuilt(T!AliasesOf(s, S), S, c)
  <2>1. PICK p : p = T!AliasesOf(s, S)
    OBVIOUS
  <2>2. {e \in S : D!Canonical(p, e) = c} = {e \in S : T!Canonical(p, e) = c}
    BY SamePairing
  <2>3. D!Rebuilt(p, S, c) = T!Rebuilt(p, S, c)
    BY <2>2, SameRows DEF D!Rebuilt, T!Rebuilt, D!ClaudeRow, T!ClaudeRow
  <2> QED
    BY <2>1, <2>3, SamePairing
<1>2. ASSUME NEW S PROVE D!OrdinaryRow(S) = T!OrdinaryRow(S)
  BY SameRows DEF D!OrdinaryRow, T!OrdinaryRow
<1>3. ASSUME NEW S, NEW s PROVE D!InSession(S, s) = T!InSession(S, s)
  BY DEF D!InSession, T!InSession
<1> QED
  BY <1>1, <1>2, <1>3

LEMMA FactsFollowAtFirst ==
  ASSUME D!Start
  PROVE  FactsFollow
<1>1. events = {} /\ calls = [k \in D!Keys |-> D!NoRow] /\ seen = {} /\ trimmed = {}
  BY DEF D!Start, D!Init
<1>2. ASSUME NEW k \in D!Keys PROVE RowFor({}, k) = T!NoRow
  <2>1. \A p, S : T!Rebuilt(p, {}, S) = T!NoRow
    BY DEF T!Rebuilt, T!ClaudeRow, T!RowOf
  <2>2. T!OrdinaryRow({}) = T!NoRow
    BY DEF T!OrdinaryRow, T!RowOf
  <2>3. T!InSession({}, k.session) = {}
    BY DEF T!InSession
  <2> QED
    BY <2>1, <2>2, <2>3 DEF RowFor
<1> QED
  BY <1>1, <1>2, SameRows DEF FactsFollow

LEMMA ProjectedFactsFollow ==
  ASSUME DOMAIN calls = D!Keys, events \subseteq seen, FactsFollow, NEW e \in OldSightings, D!Project(e)
  PROVE  FactsFollow'
<1>1. PICK S, N : S = events \cup {e} /\ N = seen \cup {e}
  OBVIOUS
<1>2. events' = S /\ seen' = N /\ trimmed' = trimmed
  BY <1>1 DEF D!Project, D!ProjectTool
<1>3. resumed' = resumed \cup {s \in {e.session} : T!InSession(trimmed, s) # {}}
  BY OldRows DEF D!Project
<1>4. seen' \subseteq events' \cup trimmed'
  BY <1>1, <1>2 DEF FactsFollow
<1>5. SUFFICES ASSUME NEW k \in D!Keys, k.session \notin resumed' PROVE calls'[k] = RowFor(N, k)
  BY <1>2, <1>4 DEF FactsFollow, RowFor
<1>6. k.session \notin resumed /\ calls[k] = RowFor(seen, k)
  BY <1>3, <1>5 DEF FactsFollow
<1>7. ASSUME k.session = e.session
      PROVE  /\ T!InSession(S, e.session) = T!InSession(N, e.session)
             /\ {f \in S : f.session = e.session /\ f.call = e.call} = {f \in N : f.session = e.session /\ f.call = e.call}
  <2>1. T!InSession(trimmed, e.session) = {}
    BY <1>3, <1>5, <1>7
  <2>2. \A f \in N : f.session = e.session => f \in S
    BY <1>1, <2>1 DEF FactsFollow, T!InSession
  <2>3. S \subseteq N
    BY <1>1
  <2> QED
    BY <2>2, <2>3 DEF T!InSession
<1>8. CASE D!ProjectClaude(e)
  <2>1. /\ e.session \in Claude
        /\ calls' = [x \in D!Keys |->
              IF x.session = e.session
              THEN D!Rebuilt(D!AliasesOf(e.session, D!InSession(S, e.session)), D!InSession(S, e.session), x.call)
              ELSE calls[x]]
    BY <1>1, <1>8 DEF D!ProjectClaude
  <2>2. CASE k.session = e.session
    <3>1. calls'[k] = D!Rebuilt(D!AliasesOf(e.session, D!InSession(S, e.session)), D!InSession(S, e.session), k.call)
      BY <2>1, <2>2
    <3>2. calls'[k] = T!Rebuilt(T!AliasesOf(e.session, T!InSession(N, e.session)), T!InSession(N, e.session), k.call)
      BY <1>7, <2>2, <3>1, OldRows
    <3> QED
      BY <2>1, <2>2, <3>2 DEF RowFor
  <2>3. CASE k.session # e.session
    BY <1>1, <1>6, <2>1, <2>3, OtherSessions
  <2> QED
    BY <2>2, <2>3
<1>9. CASE D!ProjectOrdinary(e)
  <2> DEFINE key == D!Key(e.session, e.call)
  <2>1. /\ e.session \notin Claude
        /\ calls' = [calls EXCEPT ![key] = D!OrdinaryRow({f \in S : f.session = e.session /\ f.call = e.call})]
    BY <1>1, <1>9 DEF D!ProjectOrdinary
  <2>2. key \in D!Keys /\ key.session = e.session /\ key.call = e.call
    BY DEF D!Keys, D!Key
  <2>3. CASE k = key
    <3>1. calls'[k] = T!OrdinaryRow({f \in S : f.session = e.session /\ f.call = e.call})
      BY <2>1, <2>2, <2>3, OldRows
    <3> QED
      BY <1>7, <2>1, <2>2, <2>3, <3>1 DEF RowFor
  <2>4. CASE k # key
    <3>1. k.session # e.session \/ k.call # e.call
      BY <2>4 DEF D!Keys, D!Key
    <3>2. calls'[k] = calls[k]
      BY <2>1, <2>2, <2>4
    <3>3. k.session = e.session => k.session \notin Claude
      BY <2>1
    <3> QED
      BY <1>1, <1>6, <3>1, <3>2, <3>3, OtherSessions, OtherCalls
  <2> QED
    BY <2>3, <2>4
<1> QED
  BY <1>8, <1>9 DEF D!Project, D!ProjectTool

LEMMA FactsGoOnFollowing ==
  ASSUME DOMAIN calls = D!Keys, events \subseteq seen, FactsFollow, [D!Steps]_(D!vars)
  PROVE  FactsFollow'
<1>1. ASSUME NEW e \in OldSightings, D!Project(e) PROVE FactsFollow'
  BY <1>1, ProjectedFactsFollow
<1>2. CASE D!Delete
  <2>1. events' = events \ D!OldDetail(cut) /\ trimmed' = trimmed \cup D!OldDetail(cut)
        /\ UNCHANGED <<calls, seen, resumed>>
    BY <1>2 DEF D!Delete
  <2> QED
    BY <2>1 DEF FactsFollow, RowFor
<1>3. ASSUME UNCHANGED D!tools, UNCHANGED <<trimmed, seen, resumed>> PROVE FactsFollow'
  BY <1>3 DEF FactsFollow, RowFor, D!tools
<1>4. CASE D!Day \/ D!NextMonth \/ D!Run \/ D!OpenArchive \/ D!FinishArchive \/ D!WriteState \/ D!Fail
  BY <1>3, <1>4 DEF D!Day, D!NextMonth, D!Run, D!OpenArchive, D!FinishArchive, D!WriteState, D!Fail, D!history
<1>5. ASSUME NEW e \in OldSightings, D!ArchiveRow(e) PROVE FactsFollow'
  BY <1>3, <1>5 DEF D!ArchiveRow, D!history
<1>6. CASE UNCHANGED D!vars
  BY <1>3, <1>6 DEF D!vars, D!history
<1> QED
  BY <1>1, <1>2, <1>4, <1>5, <1>6 DEF D!Steps, D!RunStep

LEMMA OldSightingsAreSound ==
  ASSUME D!ToolAssumption, D!UsesApart
  PROVE  Sound(OldSightings)
<1>1. InTime(OldSightings) /\ IsFiniteSet(OldSightings)
  BY SameSets DEF InTime, D!ToolAssumption, D!SightingsOK
<1>2. \A e \in OldSightings : e.type \in {"called", "succeeded", "failed"}
  BY DEF D!ToolAssumption, D!SightingsOK
<1>3. \A X, Y : D!Close(X, Y) = T!Close(X, Y)
  BY DEF D!Close, T!Close, D!AliasDistance, T!AliasDistance
<1>4. Apart(OldSightings)
  <2>1. \A e \in OldSightings : Whole(OldSightings, e) <=> D!SeenWhole(e)
    BY DEF Whole, D!SeenWhole
  <2>2. \A u : NearIds(OldSightings, u) <=> D!SeenNear(u)
    BY <1>3 DEF NearIds, D!SeenNear
  <2>3. \A e, f \in OldSightings : TellsApart(OldSightings, e, f) <=> D!ToldApart(e, f)
    BY <1>3, <2>2 DEF TellsApart, D!ToldApart
  <2> QED
    BY <2>1, <2>3 DEF D!UsesApart, Apart
<1> QED
  BY <1>1, <1>2, <1>4 DEF Sound

LEMMA FactsAreKept ==
  ASSUME D!ToolAssumption, D!UsesApart, seen \subseteq OldSightings, FactsFollow
  PROVE  D!FactsOutliveDetail
<1> SUFFICES ASSUME NEW u \in OldSightings, D!Of(u.use) \subseteq seen,
                    \A e \in D!Of(u.use) : e.session \notin resumed
             PROVE  D!CountedOnce(u.use)
  BY DEF D!FactsOutliveDetail, D!Uses
<1> DEFINE O == Used(OldSightings, u.use)
<1>1. D!Of(u.use) = O
  BY DEF D!Of, Used
<1>2. Sound(OldSightings)
  BY OldSightingsAreSound
<1>3. Follow(OldSightings, seen, u.use)
  <2>1. ASSUME NEW e \in O PROVE T!Key(e.session, e.call) \in D!Keys /\ T!Key(e.session, e.call).session \notin resumed
    BY <1>1 DEF D!Keys, D!Key, T!Key, Used
  <2> QED
    BY <2>1 DEF Follow, FactsFollow
<1>4. PICK k : ToldBy(OldSightings, u.use, k)
  BY <1>1, <1>2, <1>3, ToldOnce
<1>5. D!RowsOf(u.use) = {k}
  BY <1>1, <1>4, SameRows DEF D!RowsOf, ToldBy
<1>6. D!Tells(calls[k], u.use)
  BY <1>1, <1>4, SameRows DEF D!Tells, ToldBy
<1> QED
  BY <1>5, <1>6, OneOfOne DEF D!CountedOnce

-----------------------------------------------------------------------------
(* Migrations. *)

RowFields == {"table", "id", "session", "vendor", "adapter", "from", "fresh", "cache"}
EventFields == {"id", "session", "source", "vendor", "adapter"}
SessionFields == {"source", "session", "vendor", "adapter", "started"}

LegacyInv ==
  /\ IsFiniteSet(legacy)
  /\ \A l \in legacy : DOMAIN l = {"row", "input"} /\ M!LegacyRow(l.row) /\ l.input \in Int
  /\ \A l, k \in legacy : M!EventId(l) = M!EventId(k) => l = k

MarksInv ==
  /\ at \in M!Refused..M!Up /\ marks \subseteq -1..(M!Latest + 1)
  /\ alien \in BOOLEAN /\ canonical \in BOOLEAN /\ stops \in 0..MaxStops
  /\ columns \subseteq M!Columns
  /\ \A v \in 1..(M!Latest + 1) : v \in marks => v - 1 \in marks
  /\ at \in 1..M!Up => 0..(at - 1) \subseteq marks /\ ~M!Damaged
  /\ at = M!Refused => M!Damaged
  /\ canonical => 1 \in marks
  /\ \A v \in {6, 8, 9} : v \in marks => M!ColumnOf(v) \in columns

RowsInv ==
  /\ IsFiniteSet(events)
  /\ \A e \in events : DOMAIN e = EventFields
  /\ \A s \in sessions : DOMAIN s = SessionFields
  /\ count \in Nat
  /\ 4 \in marks => count = Cardinality(events)
  /\ 7 \in marks => \A s \in sessions : M!EventsOf(s) # {} => s.started
  /\ \A e \in events : e.adapter = "zcode-db" =>
       e.vendor = "zcode" \/ (e.vendor = "opencode" /\ 3 \notin marks)

MigrationInv == LegacyInv /\ MarksInv /\ RowsInv

\* The statements for the legacy tables change neither the rows' names nor numbers.
LEMMA UpToDateKeeps ==
  ASSUME LegacyInv, NEW some, legacy' = {M!UpToDate(l, some) : l \in legacy}
  PROVE  LegacyInv'
<1>1. ASSUME NEW l \in legacy
      PROVE  /\ DOMAIN M!UpToDate(l, some) = {"row", "input"}
             /\ M!LegacyRow(M!UpToDate(l, some).row) /\ M!UpToDate(l, some).input = l.input
             /\ M!UpToDate(l, some).row.table = l.row.table /\ M!UpToDate(l, some).row.id = l.row.id
  <2>1. DOMAIN l = {"row", "input"} /\ M!LegacyRow(l.row)
    BY DEF LegacyInv
  <2>2. CASE M!UpToDate(l, some) = l
    BY <2>1, <2>2
  <2> DEFINE k == [l EXCEPT !.row.vendor = "claude-code", !.row.adapter = M!DefaultAdapter(l.row.table)]
  <2>3. CASE M!UpToDate(l, some) = k
    <3>1. DOMAIN k = {"row", "input"} /\ k.input = l.input
      BY <2>1
    <3>2. k.row = [[l.row EXCEPT !.vendor = "claude-code"] EXCEPT !.adapter = M!DefaultAdapter(l.row.table)]
      BY <2>1
    <3>3. /\ DOMAIN k.row = RowFields /\ k.row.table = l.row.table /\ k.row.id = l.row.id
          /\ k.row.fresh = l.row.fresh /\ k.row.cache = l.row.cache
          /\ k.row.adapter \in {"claude-transcript", "claude-hook"}
      BY <2>1, <3>2 DEF M!LegacyRow, M!DefaultAdapter, RowFields
    <3>4. M!LegacyRow(k.row)
      BY <2>1, <3>3 DEF M!LegacyRow, RowFields
    <3> QED
      BY <2>3, <3>1, <3>3, <3>4
  <2> QED
    BY <2>2, <2>3 DEF M!UpToDate
<1>2. IsFiniteSet(legacy')
  <2>1. [l \in legacy |-> M!UpToDate(l, some)] \in [legacy -> legacy']
    OBVIOUS
  <2>2. IsFiniteSet(legacy)
    BY DEF LegacyInv
  <2>3. \A k \in legacy' : \E l \in legacy : [m \in legacy |-> M!UpToDate(m, some)][l] = k
    OBVIOUS
  <2> QED
    BY <2>1, <2>2, <2>3, FiniteImage
<1>3. ASSUME NEW l \in legacy', NEW k \in legacy', M!EventId(l) = M!EventId(k)
      PROVE  l = k
  <2>1. PICK m \in legacy : l = M!UpToDate(m, some)
    OBVIOUS
  <2>2. PICK n \in legacy : k = M!UpToDate(n, some)
    OBVIOUS
  <2>3. M!EventId(m) = M!EventId(n)
    BY <1>1, <1>3, <2>1, <2>2 DEF M!EventId
  <2> QED
    BY <2>1, <2>2, <2>3 DEF LegacyInv
<1> QED
  BY <1>1, <1>2, <1>3 DEF LegacyInv, M!EventId

\* Neither does migration 3.
LEMMA SplitKeepsLegacy ==
  ASSUME LegacyInv, legacy' = {[l EXCEPT !.row = M!OfZcode(@)] : l \in legacy}
  PROVE  LegacyInv'
<1> DEFINE Split(l) == [l EXCEPT !.row = M!OfZcode(@)]
<1>1. ASSUME NEW l \in legacy
      PROVE  /\ DOMAIN Split(l) = {"row", "input"}
             /\ M!LegacyRow(Split(l).row) /\ Split(l).input = l.input
             /\ Split(l).row.table = l.row.table /\ Split(l).row.id = l.row.id
  <2>1. DOMAIN l = {"row", "input"} /\ M!LegacyRow(l.row)
    BY DEF LegacyInv
  <2>2. DOMAIN Split(l) = {"row", "input"} /\ Split(l).row = M!OfZcode(l.row) /\ Split(l).input = l.input
    BY <2>1
  <2>3. CASE M!OfZcode(l.row) = l.row
    BY <2>1, <2>2, <2>3
  <2>4. CASE M!OfZcode(l.row) = [l.row EXCEPT !.vendor = "zcode"]
    <3>1. /\ DOMAIN M!OfZcode(l.row) = RowFields /\ M!OfZcode(l.row).vendor = "zcode"
          /\ \A f \in RowFields \ {"vendor"} : M!OfZcode(l.row)[f] = l.row[f]
      BY <2>1, <2>4 DEF M!LegacyRow, RowFields
    <3>2. M!LegacyRow(M!OfZcode(l.row))
      BY <2>1, <3>1 DEF M!LegacyRow, RowFields
    <3> QED
      BY <2>2, <3>1, <3>2 DEF RowFields
  <2> QED
    BY <2>3, <2>4 DEF M!OfZcode
<1>2. IsFiniteSet(legacy')
  <2>1. [l \in legacy |-> Split(l)] \in [legacy -> legacy']
    OBVIOUS
  <2>2. IsFiniteSet(legacy)
    BY DEF LegacyInv
  <2>3. \A k \in legacy' : \E l \in legacy : [m \in legacy |-> Split(m)][l] = k
    OBVIOUS
  <2> QED
    BY <2>1, <2>2, <2>3, FiniteImage
<1>4. legacy' = {Split(l) : l \in legacy}
  OBVIOUS
<1> HIDE DEF Split
<1>3. ASSUME NEW l \in legacy', NEW k \in legacy', M!EventId(l) = M!EventId(k)
      PROVE  l = k
  <2>1. PICK m \in legacy : l = Split(m)
    BY <1>4
  <2>2. PICK n \in legacy : k = Split(n)
    BY <1>4
  <2>3. M!EventId(m) = M!EventId(n)
    BY <1>1, <1>3, <2>1, <2>2 DEF M!EventId
  <2> QED
    BY <2>1, <2>2, <2>3 DEF LegacyInv
<1> QED
  BY <1>1, <1>2, <1>3, <1>4 DEF LegacyInv, M!EventId

-----------------------------------------------------------------------------
(* The reconciliation of migration 1 finds what the migration wrote. *)

LEMMA EventsReconcile ==
  ASSUME LegacyInv
  PROVE  M!Cardinality(M!BackfilledEvents) = M!Cardinality(legacy)
<1> DEFINE f == [l \in legacy |-> M!LegacyEvent(l)]
<1>1. f \in [legacy -> M!BackfilledEvents] /\ \A e \in M!BackfilledEvents : \E l \in legacy : f[l] = e
  BY DEF M!BackfilledEvents
<1>2. ASSUME NEW l \in legacy, NEW k \in legacy, f[l] = f[k] PROVE l = k
  <2>1. M!LegacyEvent(l).id = M!LegacyEvent(k).id
    BY <1>2
  <2>2. M!EventId(l) = M!EventId(k)
    BY <2>1 DEF M!LegacyEvent
  <2> QED
    BY <2>2 DEF LegacyInv
<1> HIDE DEF f
<1>3. Cardinality(M!BackfilledEvents) = Cardinality(legacy)
  BY <1>1, <1>2, SameCount DEF LegacyInv
<1> QED
  BY <1>3, SameSets

LEMMA CallsReconcile ==
  ASSUME LegacyInv
  PROVE  M!Cardinality(M!BackfilledCalls) = M!Cardinality(M!In("tool_events"))
<1> DEFINE S == M!In("tool_events")
           f == [l \in S |-> <<l.row.vendor, l.row.session, l.row.id>>]
<1>1. f \in [S -> M!BackfilledCalls] /\ \A c \in M!BackfilledCalls : \E l \in S : f[l] = c
  BY DEF M!BackfilledCalls
<1>2. ASSUME NEW l \in S, NEW k \in S, f[l] = f[k] PROVE l = k
  <2>1. l.row.id = k.row.id /\ l.row.table = k.row.table /\ l \in legacy /\ k \in legacy
    BY <1>2 DEF M!In
  <2> QED
    BY <2>1 DEF LegacyInv, M!EventId
<1>3. IsFiniteSet(S)
  BY FS_Subset DEF LegacyInv, M!In
<1> HIDE DEF f, S
<1>4. Cardinality(M!BackfilledCalls) = Cardinality(S)
  BY <1>1, <1>2, <1>3, SameCount
<1> QED
  BY <1>4, SameSets DEF S

LEMMA RowsReconcile ==
  ASSUME LegacyInv, NEW l \in M!UsageRows
  PROVE  M!Cardinality(M!Buckets(l)) = 1
<1> DEFINE in == M!Registered(l)
           ok == M!Displayed(l) >= 0
<1>0. l \in legacy /\ M!UsageRows \subseteq legacy
  BY DEF M!UsageRows, M!In
<1>1. \A k \in M!UsageRows : M!EventId(k) = M!EventId(l) => k = l
  BY <1>0 DEF LegacyInv
<1>2. M!Displayed(l) \in Int
  <2>1. l.input \in Int /\ l.row.cache \in Int
    BY <1>0 DEF LegacyInv, M!LegacyRow
  <2>2. M!StoredInput(l) \in Int
    BY <2>1 DEF M!StoredInput
  <2> QED
    BY <2>1, <2>2 DEF M!Displayed
<1>3. (M!EventId(l) \in {u.id : u \in M!BackfilledUsage}) <=> (in /\ ok)
  <2>1. \A k : M!LegacyUsage(k).id = M!EventId(k)
    BY DEF M!LegacyUsage
  <2> QED
    BY <1>1, <2>1 DEF M!BackfilledUsage
<1>4. (M!EventId(l) \in M!Pending) <=> ~in
  BY <1>1 DEF M!Pending
<1>5. (M!EventId(l) \in M!Invalid) <=> (in /\ ~ok)
  BY <1>1, <1>2 DEF M!Invalid
<1>6. /\ 1 \in M!Buckets(l) <=> (in /\ ok)
      /\ 2 \in M!Buckets(l) <=> ~in
      /\ 3 \in M!Buckets(l) <=> (in /\ ~ok)
      /\ M!Buckets(l) \subseteq 1..3
  BY <1>3, <1>4, <1>5 DEF M!Buckets
<1> HIDE DEF in, ok
<1>7. \E b : M!Buckets(l) = {b}
  <2>1. 1..3 = {1, 2, 3}
    OBVIOUS
  <2>2. CASE ~in
    <3>1. M!Buckets(l) = {2}
      BY <1>6, <2>1, <2>2
    <3> QED
      BY <3>1
  <2>3. CASE in /\ ok
    <3>1. M!Buckets(l) = {1}
      BY <1>6, <2>1, <2>3
    <3> QED
      BY <3>1
  <2>4. CASE in /\ ~ok
    <3>1. M!Buckets(l) = {3}
      BY <1>6, <2>1, <2>4
    <3> QED
      BY <3>1
  <2> QED
    BY <2>2, <2>3, <2>4
<1>8. IsFiniteSet(M!Buckets(l)) /\ Cardinality(M!Buckets(l)) = 1
  BY <1>7, FS_Singleton
<1> QED
  BY <1>8, SameSets

LEMMA SumsReconcile ==
  ASSUME LegacyInv
  PROVE  M!MapThenSumSet(LAMBDA u : u.displayed, M!BackfilledUsage)
           = M!MapThenSumSet(LAMBDA u : M!Independent(u), M!BackfilledUsage)
<1>1. ASSUME NEW u \in M!BackfilledUsage PROVE M!Independent(u) = u.displayed
  <2>1. PICK l \in M!UsageRows : u = M!LegacyUsage(l)
    BY DEF M!BackfilledUsage
  <2>2. u.id = M!EventId(l) /\ u.displayed = M!Displayed(l)
    BY <2>1 DEF M!LegacyUsage
  <2>3. \A k \in M!UsageRows : M!EventId(k) = u.id <=> k = l
    BY <2>2 DEF LegacyInv, M!UsageRows, M!In
  <2>4. (CHOOSE m \in M!UsageRows : M!EventId(m) = u.id) = l
    BY <2>3
  <2>5. l.row.vendor # "codex" => M!StoredInput(l) = l.input
    <3>1. l.input \in Int
      BY DEF LegacyInv, M!UsageRows, M!In
    <3> QED
      BY <3>1 DEF M!StoredInput
  <2> QED
    BY <2>2, <2>4, <2>5 DEF M!Independent, M!Displayed
<1> DEFINE F(g) == [s \in SUBSET M!BackfilledUsage |->
                      IF s = {} THEN 0
                      ELSE (CHOOSE x \in s : TRUE).displayed + g[s \ {CHOOSE x \in s : TRUE}]]
           G(g) == [s \in SUBSET M!BackfilledUsage |->
                      IF s = {} THEN 0
                      ELSE M!Independent(CHOOSE x \in s : TRUE) + g[s \ {CHOOSE x \in s : TRUE}]]
<1>2. ASSUME NEW g PROVE F(g) = G(g)
  <2>1. ASSUME NEW s \in SUBSET M!BackfilledUsage, s # {}
        PROVE  M!Independent(CHOOSE x \in s : TRUE) = (CHOOSE x \in s : TRUE).displayed
    BY <1>1, <2>1
  <2> QED
    BY <2>1
<1> HIDE DEF F, G
<1>3. (CHOOSE g : g = F(g)) = (CHOOSE g : g = G(g))
  BY <1>2
<1> QED
  BY <1>3 DEF M!MapThenSumSet, M!MapThenFoldSet, F, G

LEMMA Reconciles ==
  ASSUME LegacyInv
  PROVE  M!Reconciled
BY EventsReconcile, CallsReconcile, RowsReconcile, SumsReconcile DEF M!Reconciled

-----------------------------------------------------------------------------
(* The actions. *)

USE DEF M!Up, M!Latest, M!Upgrading, M!Off, M!Refused, M!CodexMarker

LEMMA ApplyKeepsMarks ==
  ASSUME MarksInv, NEW v \in 2..9, M!Apply(v), columns \subseteq columns', columns' \subseteq M!Columns,
         v \in {6, 8, 9} => M!ColumnOf(v) \in columns'
  PROVE  MarksInv'
<1>1. /\ at = v /\ v \notin marks /\ marks' = marks \cup {v} /\ at' = v + 1
      /\ UNCHANGED <<alien, canonical, stops>>
  BY DEF M!Apply
<1>2. 0..(v - 1) \subseteq marks /\ ~M!Damaged
  BY <1>1 DEF MarksInv
<1>3. at' \in 3..10 /\ at' - 1 = v
  BY <1>1
<1>4. 0..v \subseteq marks'
  BY <1>1, <1>2
<1>5. ~M!Damaged'
  BY <1>1, <1>2 DEF M!Damaged
<1>6. v - 1 \in marks'
  BY <1>1, <1>2
<1>7. \A w \in 1..10 : w \in marks' => w - 1 \in marks'
  BY <1>1, <1>6 DEF MarksInv
<1>8. marks' \subseteq -1..10
  BY <1>1 DEF MarksInv
<1>9. \A w \in {6, 8, 9} : w \in marks' => M!ColumnOf(w) \in columns'
  BY <1>1 DEF MarksInv
<1>10. 0..(at' - 1) \subseteq marks'
  BY <1>3, <1>4
<1>11. canonical' \in BOOLEAN /\ alien' \in BOOLEAN /\ stops' \in 0..MaxStops /\ (canonical' => 1 \in marks')
  BY <1>1 DEF MarksInv
<1>12. at' \in -3..10 /\ at' # -3
  BY <1>3
<1>13. (at' \in 1..M!Up => 0..(at' - 1) \subseteq marks' /\ ~M!Damaged') /\ (at' = M!Refused => M!Damaged')
  BY <1>5, <1>10, <1>12
<1>14. at' \in M!Refused..M!Up /\ marks' \subseteq -1..(M!Latest + 1)
  BY <1>8, <1>12
<1>15. \A w \in 1..(M!Latest + 1) : w \in marks' => w - 1 \in marks'
  BY <1>7
<1> QED
  BY <1>9, <1>11, <1>13, <1>14, <1>15 DEF MarksInv

LEMMA MigrationKeeps ==
  ASSUME M!MigrationAssumption, MigrationInv, [M!Next]_(M!vars)
  PROVE  MigrationInv'
<1>0. LegacyInv /\ MarksInv /\ RowsInv
  BY DEF MigrationInv
<1>u. /\ UNCHANGED legacy => LegacyInv'
      /\ UNCHANGED <<marks, events, sessions, count>> => RowsInv'
  BY <1>0 DEF LegacyInv, M!EventId, RowsInv, M!EventsOf
<1>1. CASE M!Launch
  <2>1. at' = -1 /\ UNCHANGED <<marks, alien, legacy, M!tables, stops>>
    BY <1>1 DEF M!Launch
  <2>2. MarksInv'
    BY <1>0, <2>1 DEF MarksInv, M!Damaged, M!tables
  <2> QED
    BY <1>u, <2>1, <2>2 DEF MigrationInv, M!tables
<1>2. CASE M!LegacySchema
  <2>1. at' = 0 /\ UNCHANGED <<marks, alien, M!tables, stops>>
        /\ legacy' = {M!UpToDate(l, M!Tables) : l \in legacy}
    BY <1>2 DEF M!LegacySchema
  <2>2. MarksInv'
    BY <1>0, <2>1 DEF MarksInv, M!Damaged, M!tables
  <2>3. LegacyInv'
    BY <1>0, <2>1, UpToDateKeeps
  <2> QED
    BY <1>u, <2>1, <2>2, <2>3 DEF MigrationInv, M!tables
<1>3. CASE M!Baseline
  <2>1. at = 0 /\ UNCHANGED <<alien, legacy, M!tables, stops>>
    BY <1>3 DEF M!Baseline
  <2>2. CASE M!Acceptable
    <3>1. at' = 1 /\ marks' = marks \cup {0}
      BY <1>3, <2>2 DEF M!Baseline
    <3>2. ~M!Damaged'
      BY <2>1, <2>2, <3>1 DEF M!Damaged, M!Acceptable
    <3>3. MarksInv'
      BY <1>0, <2>1, <3>1, <3>2 DEF MarksInv, M!tables
    <3>4. RowsInv'
      BY <1>0, <2>1, <3>1 DEF RowsInv, M!EventsOf, M!tables
    <3> QED
      BY <1>u, <2>1, <3>3, <3>4 DEF MigrationInv
  <2>3. CASE ~M!Acceptable
    <3>1. at' = -3 /\ marks' = marks
      BY <1>3, <2>3 DEF M!Baseline
    <3>2. M!Damaged'
      <4>1. \A v \in marks : v > 9 => v = 10
        BY <1>0 DEF MarksInv
      <4> QED
        BY <1>0, <2>1, <2>3, <3>1, <4>1 DEF M!Damaged, M!Acceptable, MarksInv
    <3>3. MarksInv'
      BY <1>0, <2>1, <3>1, <3>2 DEF MarksInv, M!tables
    <3> QED
      BY <1>u, <2>1, <3>1, <3>3 DEF MigrationInv, M!tables
  <2> QED
    BY <2>2, <2>3
<1>4. CASE M!CreateCanonical
  <2>1. /\ events' = M!BackfilledEvents /\ sessions' = M!BackfilledSessions
        /\ canonical' = TRUE /\ columns' = M!Columns /\ at' = 2
        /\ at = 1 /\ 1 \notin marks
        /\ marks \cup {1} \subseteq marks' /\ marks' \subseteq marks \cup {1, -1}
        /\ UNCHANGED <<alien, legacy, count, stops>>
    BY <1>0, <1>4, Reconciles DEF M!CreateCanonical
  <2>2. \A v \in 1..10 : v \in marks' => v = 1
    <3>1. \A v \in 1..10 : v \in marks => v - 1 \in marks
      BY <1>0 DEF MarksInv
    <3>2. 2 \notin marks /\ 3 \notin marks /\ 4 \notin marks /\ 5 \notin marks
      BY <2>1, <3>1
    <3>3. 6 \notin marks /\ 7 \notin marks /\ 8 \notin marks /\ 9 \notin marks /\ 10 \notin marks
      BY <3>1, <3>2
    <3>4. \A v \in 1..10 : v \in {1, 2, 3, 4, 5, 6, 7, 8, 9, 10}
      OBVIOUS
    <3> QED
      BY <2>1, <3>2, <3>3, <3>4
  <2>3. MarksInv'
    <3>1. 0 \in marks /\ ~M!Damaged
      BY <1>0, <2>1 DEF MarksInv
    <3>2. 0 \in marks' /\ 1 \in marks' /\ ~M!Damaged'
      BY <2>1, <2>2, <3>1 DEF M!Damaged
    <3>3. 0..1 \subseteq marks'
      BY <3>2
    <3> QED
      BY <1>0, <2>1, <2>2, <3>2, <3>3 DEF MarksInv, M!Columns
  <2>4. IsFiniteSet(events')
    <3> DEFINE f == [l \in legacy |-> M!LegacyEvent(l)]
    <3>1. f \in [legacy -> M!BackfilledEvents] /\ \A e \in M!BackfilledEvents : \E l \in legacy : f[l] = e
      BY DEF M!BackfilledEvents
    <3> HIDE DEF f
    <3> QED
      BY <1>0, <2>1, <3>1, FiniteImage DEF LegacyInv
  <2>5. \A e \in events' : DOMAIN e = EventFields /\ (e.adapter = "zcode-db" => e.vendor \in {"zcode", "opencode"})
    BY <1>0, <2>1 DEF M!BackfilledEvents, M!LegacyEvent, EventFields, LegacyInv, M!LegacyRow
  <2>6. \A s \in sessions' : DOMAIN s = SessionFields
    BY <2>1 DEF M!BackfilledSessions, M!LegacySession, SessionFields
  <2>8. 3 \notin marks' /\ 4 \notin marks' /\ 7 \notin marks'
    BY <2>2
  <2>9. \A e \in events' : e.adapter = "zcode-db" =>
          e.vendor = "zcode" \/ (e.vendor = "opencode" /\ 3 \notin marks')
    <3> SUFFICES ASSUME NEW e \in events', e.adapter = "zcode-db"
                 PROVE  e.vendor = "zcode" \/ (e.vendor = "opencode" /\ 3 \notin marks')
      OBVIOUS
    <3>1. e.vendor \in {"zcode", "opencode"}
      BY <2>5
    <3> QED
      BY <2>8, <3>1
  <2>10. count' \in Nat
    BY <1>0, <2>1 DEF RowsInv
  <2>11. /\ 4 \in marks' => count' = Cardinality(events')
         /\ 7 \in marks' => \A s \in sessions' : M!EventsOf(s)' # {} => s.started
    BY <2>8
  <2>7. RowsInv'
    <3>1. \A e \in events' : DOMAIN e = EventFields
      BY <2>5
    <3> QED
      BY <2>4, <2>6, <2>9, <2>10, <2>11, <3>1 DEF RowsInv
  <2> QED
    BY <1>u, <2>1, <2>3, <2>7 DEF MigrationInv
<1>5. CASE M!Skip
  <2>1. at \in 1..9 /\ at \in marks /\ at' = at + 1 /\ UNCHANGED <<marks, alien, legacy, M!tables, stops>>
    BY <1>5 DEF M!Skip
  <2>2. 0..(at - 1) \subseteq marks /\ ~M!Damaged
    BY <1>0, <2>1 DEF MarksInv
  <2>3. at' \in 2..10 /\ 0..(at' - 1) \subseteq marks
    BY <2>1, <2>2
  <2>4. MarksInv'
    BY <1>0, <2>1, <2>2, <2>3 DEF MarksInv, M!tables, M!Damaged
  <2> QED
    BY <1>u, <2>1, <2>4 DEF MigrationInv, M!tables
<1>6. CASE M!AddIndexes
  <2>1. PICK v \in {2, 5} : M!Apply(v)
    BY <1>6 DEF M!AddIndexes
  <2>2. UNCHANGED <<legacy, events, sessions, count, columns>> /\ marks' = marks \cup {v}
    BY <1>6, <2>1 DEF M!AddIndexes, M!Apply
  <2>3. MarksInv'
    BY <1>0, <2>1, <2>2, ApplyKeepsMarks DEF MarksInv
  <2>4. RowsInv'
    BY <1>0, <2>2 DEF RowsInv, M!EventsOf
  <2> QED
    BY <1>u, <2>2, <2>3, <2>4 DEF MigrationInv
<1>7. CASE M!SplitZcode
  <2>1. /\ events' = {M!OfZcode(e) : e \in events} /\ sessions' = {M!OfZcode(s) : s \in sessions}
        /\ legacy' = {[l EXCEPT !.row = M!OfZcode(@)] : l \in legacy}
        /\ UNCHANGED <<count, columns>> /\ M!Apply(3)
    BY <1>7 DEF M!SplitZcode
  <2>2. marks' = marks \cup {3} /\ 3 \notin marks
    BY <2>1 DEF M!Apply
  <2>3. MarksInv'
    BY <1>0, <2>1, ApplyKeepsMarks DEF MarksInv
  <2>4. LegacyInv'
    BY <1>0, <2>1, SplitKeepsLegacy
  <2>5. IsFiniteSet(events')
    <3> DEFINE f == [e \in events |-> M!OfZcode(e)]
    <3>1. f \in [events -> events'] /\ \A e \in events' : \E l \in events : f[l] = e
      BY <2>1
    <3> HIDE DEF f
    <3> QED
      BY <1>0, <3>1, FiniteImage DEF RowsInv
  <2>6. ASSUME NEW e \in events' PROVE DOMAIN e = EventFields /\ (e.adapter = "zcode-db" => e.vendor = "zcode")
    <3>1. PICK d \in events : e = M!OfZcode(d)
      BY <2>1
    <3>2. DOMAIN d = EventFields /\ (d.adapter = "zcode-db" => d.vendor \in {"zcode", "opencode"})
      BY <1>0 DEF RowsInv
    <3>3. CASE d.adapter = "zcode-db" /\ d.vendor = "opencode"
      <4>1. e = [d EXCEPT !.vendor = "zcode"]
        BY <3>1, <3>3 DEF M!OfZcode
      <4> QED
        BY <3>2, <4>1 DEF EventFields
    <3>4. CASE ~ (d.adapter = "zcode-db" /\ d.vendor = "opencode")
      <4>1. e = d
        BY <3>1, <3>4 DEF M!OfZcode
      <4> QED
        BY <3>2, <3>4, <4>1
    <3> QED
      BY <3>3, <3>4
  <2>7. ASSUME NEW s \in sessions' PROVE DOMAIN s = SessionFields
    <3>1. PICK d \in sessions : s = M!OfZcode(d)
      BY <2>1
    <3> QED
      BY <1>0, <3>1 DEF RowsInv, M!OfZcode
  <2>8. 4 \notin marks' /\ 7 \notin marks'
    <3>1. \A v \in 1..10 : v \in marks => v - 1 \in marks
      BY <1>0 DEF MarksInv
    <3>2. 4 \notin marks
      BY <2>2, <3>1
    <3>3. 5 \notin marks /\ 6 \notin marks
      BY <3>1, <3>2
    <3>4. 7 \notin marks
      BY <3>1, <3>3
    <3> QED
      BY <2>2, <3>2, <3>4
  <2>9. RowsInv'
    BY <1>0, <2>1, <2>5, <2>6, <2>7, <2>8 DEF RowsInv
  <2> QED
    BY <2>3, <2>4, <2>9 DEF MigrationInv
<1>8. CASE M!CountEvents
  <2>1. /\ M!Apply(4) /\ count' = Cardinality(events) /\ UNCHANGED <<legacy, events, sessions, columns>>
        /\ marks' = marks \cup {4}
    BY <1>8, SameSets DEF M!CountEvents, M!Apply
  <2>2. MarksInv'
    BY <1>0, <2>1, ApplyKeepsMarks DEF MarksInv
  <2>3. count' \in Nat
    BY <1>0, <2>1, FS_CardinalityType DEF RowsInv
  <2>4. RowsInv'
    BY <1>0, <2>1, <2>3 DEF RowsInv, M!EventsOf
  <2> QED
    BY <1>u, <2>1, <2>2, <2>4 DEF MigrationInv
<1>9. CASE M!AddColumn
  <2>1. PICK v \in {6, 8, 9} : /\ M!Apply(v) /\ columns' = columns \cup {M!ColumnOf(v)}
                              /\ UNCHANGED <<legacy, events, sessions, count>>
    BY <1>9 DEF M!AddColumn
  <2>2. marks' = marks \cup {v} /\ M!ColumnOf(v) \in M!Columns
    BY <2>1 DEF M!Apply, M!ColumnOf, M!Columns
  <2>3. MarksInv'
    BY <1>0, <2>1, <2>2, ApplyKeepsMarks DEF MarksInv
  <2>4. RowsInv'
    BY <1>0, <2>1, <2>2 DEF RowsInv, M!EventsOf
  <2> QED
    BY <1>u, <2>1, <2>3, <2>4 DEF MigrationInv
<1>10. CASE M!SeedStart
  <2>1. /\ M!Apply(7) /\ UNCHANGED <<legacy, events, count, columns>> /\ marks' = marks \cup {7}
        /\ sessions' = {[s EXCEPT !.started = @ \/ M!EventsOf(s) # {}] : s \in sessions}
    BY <1>10 DEF M!SeedStart, M!Apply
  <2>2. MarksInv'
    BY <1>0, <2>1, ApplyKeepsMarks DEF MarksInv
  <2>3. ASSUME NEW s \in sessions'
        PROVE  DOMAIN s = SessionFields /\ (M!EventsOf(s)' # {} => s.started)
    <3>1. PICK d \in sessions : s = [d EXCEPT !.started = @ \/ M!EventsOf(d) # {}]
      BY <2>1
    <3>2. DOMAIN d = SessionFields
      BY <1>0 DEF RowsInv
    <3>3. s.source = d.source /\ s.session = d.session /\ s.started = (d.started \/ M!EventsOf(d) # {})
      BY <3>1, <3>2 DEF SessionFields
    <3>4. M!EventsOf(s)' = M!EventsOf(d)
      BY <2>1, <3>3 DEF M!EventsOf
    <3> QED
      BY <3>1, <3>2, <3>3, <3>4
  <2>4. RowsInv'
    BY <1>0, <2>1, <2>3 DEF RowsInv
  <2> QED
    BY <1>u, <2>1, <2>2, <2>4 DEF MigrationInv
<1>11. ASSUME NEW e \in NewEvents, M!Project(e) PROVE MigrationInv'
  <2> DEFINE x == M!StoredBy(M!Latest, e)
  <2>1. /\ at = 10 /\ <<"event", e.id>> \notin {y.id : y \in events}
        /\ events' = events \cup {x} /\ count' = M!Counted(1)
        /\ sessions' = {s \in sessions : ~M!SameSession(s, e)} \cup {M!Started(e)}
        /\ UNCHANGED <<at, marks, alien, legacy, columns, canonical, stops>>
    BY <1>11 DEF M!Project
  <2>2. MarksInv'
    BY <1>0, <2>1 DEF MarksInv, M!Damaged
  <2>3. /\ DOMAIN x = EventFields /\ x.id = <<"event", e.id>> /\ x.source = e.vendor
        /\ x.session = e.session /\ x.vendor = e.vendor /\ x.adapter = e.adapter
    BY DEF M!StoredBy, EventFields
  <2> HIDE DEF x
  <2>4. 0..9 \subseteq marks
    BY <1>0, <2>1 DEF MarksInv
  <2>5. 4 \in marks /\ 7 \in marks /\ 3 \in marks
    BY <2>4
  <2>6. x \notin events
    BY <2>1, <2>3
  <2>7. IsFiniteSet(events') /\ Cardinality(events') = Cardinality(events) + 1
    BY <1>0, <2>1, <2>6, FS_AddElement DEF RowsInv
  <2>8. count' = count + 1 /\ count \in Nat /\ count = Cardinality(events)
    BY <1>0, <2>1, <2>5 DEF M!Counted, RowsInv
  <2>9. e.adapter = "zcode-db" => e.vendor = "zcode"
    BY DEF M!MigrationAssumption
  <2>10. ASSUME NEW s \in sessions'
         PROVE  DOMAIN s = SessionFields /\ (M!EventsOf(s)' # {} => s.started)
    <3>1. CASE s = M!Started(e)
      BY <3>1 DEF M!Started, SessionFields
    <3>2. CASE s \in sessions /\ ~M!SameSession(s, e)
      <4>1. M!EventsOf(s)' = M!EventsOf(s)
        BY <2>1, <2>3, <3>2 DEF M!EventsOf, M!SameSession
      <4> QED
        BY <1>0, <2>5, <3>2, <4>1 DEF RowsInv
    <3> QED
      BY <2>1, <3>1, <3>2
  <2>11. \A d \in events' : DOMAIN d = EventFields /\ (d.adapter = "zcode-db" => d.vendor = "zcode")
    BY <1>0, <2>1, <2>3, <2>5, <2>9 DEF RowsInv
  <2>12. RowsInv'
    BY <2>7, <2>8, <2>10, <2>11 DEF RowsInv
  <2> QED
    BY <1>u, <2>1, <2>2, <2>12 DEF MigrationInv
<1>12. ASSUME NEW e \in events, M!Trim(e) PROVE MigrationInv'
  <2>1. /\ at = 10 /\ events' = events \ {e} /\ count' = M!Counted(-1)
        /\ UNCHANGED <<at, marks, alien, legacy, sessions, columns, canonical, stops>>
    BY <1>12 DEF M!Trim
  <2>2. MarksInv'
    BY <1>0, <2>1 DEF MarksInv, M!Damaged
  <2>3. 0..9 \subseteq marks
    BY <1>0, <2>1 DEF MarksInv
  <2>4. 4 \in marks
    BY <2>3
  <2>5. IsFiniteSet(events') /\ Cardinality(events') = Cardinality(events) - 1
    BY <1>0, <2>1, FS_RemoveElement DEF RowsInv
  <2>6. count' = count + (-1) /\ count = Cardinality(events)
    BY <1>0, <2>1, <2>4 DEF M!Counted, RowsInv
  <2>7. Cardinality(events') \in Nat /\ Cardinality(events) \in Nat
    BY <1>0, <2>5, FS_CardinalityType DEF RowsInv
  <2>8. \A s \in sessions : M!EventsOf(s)' \subseteq M!EventsOf(s)
    BY <2>1 DEF M!EventsOf
  <2>9. \A s \in sessions' : 7 \in marks' => (M!EventsOf(s)' # {} => s.started)
    BY <1>0, <2>1, <2>8 DEF RowsInv
  <2>10. count' \in Nat /\ count' = Cardinality(events')
    BY <2>5, <2>6, <2>7
  <2>11. RowsInv'
    BY <1>0, <2>1, <2>5, <2>9, <2>10 DEF RowsInv
  <2> QED
    BY <1>u, <2>1, <2>2, <2>11 DEF MigrationInv
<1>13. CASE M!Stop
  <2>1. at' = -2 /\ stops < MaxStops /\ stops' = stops + 1 /\ UNCHANGED <<marks, alien, M!tables>>
    BY <1>13 DEF M!Stop
  <2>2. PICK some : legacy' = {M!UpToDate(l, some) : l \in legacy}
    BY <1>13 DEF M!Stop
  <2>3. LegacyInv'
    BY <1>0, <2>2, UpToDateKeeps
  <2>4. stops' \in 0..MaxStops
    BY <1>0, <2>1 DEF MarksInv, M!MigrationAssumption
  <2>5. MarksInv'
    BY <1>0, <2>1, <2>4 DEF MarksInv, M!Damaged, M!tables
  <2> QED
    BY <1>u, <2>1, <2>3, <2>5 DEF MigrationInv, M!tables
<1>14. CASE UNCHANGED M!vars
  <2>1. UNCHANGED <<at, marks, alien, legacy, M!tables, stops>>
    BY <1>14 DEF M!vars
  <2>2. MarksInv'
    BY <1>0, <2>1 DEF MarksInv, M!Damaged, M!tables
  <2> QED
    BY <1>u, <2>1, <2>2 DEF MigrationInv, M!tables
<1> QED
  BY <1>1, <1>2, <1>3, <1>4, <1>5, <1>6, <1>7, <1>8, <1>9, <1>10, <1>11, <1>12, <1>13, <1>14
     DEF M!Next, M!Migrate

LEMMA MigrationStarts ==
  ASSUME M!MigrationAssumption, M!Init
  PROVE  MigrationInv
<1>1. at = -2 /\ stops = 0 /\ MaxStops \in Nat
  BY DEF M!Init, M!MigrationAssumption
<1>2. CASE M!FoundLegacy
  <2>1. /\ marks \in {{}, {-1}} /\ alien \in BOOLEAN
        /\ canonical = FALSE /\ columns = {} /\ count = 0 /\ events = {} /\ sessions = {}
    BY <1>2 DEF M!FoundLegacy
  <2> DEFINE Found(r) == [row |-> r, input |-> M!Written(r, -1 \in marks)]
  <2>2. PICK rows \in LegacyContents : legacy = {Found(r) : r \in rows}
    BY <1>2 DEF M!FoundLegacy
  <2>3. /\ IsFiniteSet(rows) /\ \A r \in rows : M!LegacyRow(r)
        /\ \A r, q \in rows : r.table = q.table /\ r.id = q.id => r = q
    BY SameSets DEF M!MigrationAssumption
  <2>4. ASSUME NEW r \in rows PROVE DOMAIN Found(r) = {"row", "input"} /\ Found(r).row = r /\ Found(r).input \in Int
    <3>1. M!Written(r, -1 \in marks) \in Int
      BY <2>3 DEF M!Written, M!LegacyRow
    <3> QED
      BY <3>1
  <2>5. IsFiniteSet(legacy)
    <3> DEFINE f == [r \in rows |-> Found(r)]
    <3>1. f \in [rows -> legacy] /\ \A l \in legacy : \E r \in rows : f[r] = l
      BY <2>2
    <3> HIDE DEF f
    <3> QED
      BY <2>3, <3>1, FiniteImage
  <2> HIDE DEF Found
  <2>6. LegacyInv
    BY <2>2, <2>3, <2>4, <2>5 DEF LegacyInv, M!EventId
  <2>7. RowsInv
    BY <2>1, FS_EmptySet DEF RowsInv
  <2>8. marks \subseteq -1..10 /\ \A v \in 1..10 : v \notin marks
    BY <2>1
  <2>9. /\ \A v \in 1..(M!Latest + 1) : v \in marks => v - 1 \in marks
        /\ \A v \in {6, 8, 9} : v \in marks => M!ColumnOf(v) \in columns
    BY <2>8
  <2>10. /\ at \in M!Refused..M!Up /\ stops \in 0..MaxStops
         /\ at \in 1..M!Up => 0..(at - 1) \subseteq marks /\ ~M!Damaged
         /\ at = M!Refused => M!Damaged
    BY <1>1
  <2>11. columns \subseteq M!Columns /\ canonical \in BOOLEAN /\ (canonical => 1 \in marks)
    BY <2>1
  <2>12. MarksInv
    BY <2>1, <2>8, <2>9, <2>10, <2>11 DEF MarksInv
  <2> QED
    BY <2>6, <2>7, <2>12 DEF MigrationInv
<1>3. CASE M!FoundCanonical
  <2>1. PICK v \in 1..10 :
          /\ marks = 0..v /\ legacy = {} /\ alien = FALSE /\ canonical = TRUE
          /\ columns = (IF v >= 6 THEN {"timing"} ELSE {})
                         \cup (IF v >= 8 THEN {"service_tier"} ELSE {})
                         \cup (IF v >= 9 THEN {"credit"} ELSE {})
          /\ events = {M!StoredBy(v, e) : e \in OldEvents}
          /\ sessions = {M!SessionBy(v, e) : e \in OldEvents}
          /\ count = IF v >= 4 THEN Cardinality(OldEvents) ELSE 0
    BY <1>3, SameSets DEF M!FoundCanonical
  <2>2. LegacyInv
    BY <2>1, FS_EmptySet DEF LegacyInv
  <2>3. M!ColumnOf(6) = "timing" /\ M!ColumnOf(8) = "service_tier" /\ M!ColumnOf(9) = "credit"
    BY DEF M!ColumnOf
  <2>12. /\ \A w \in 1..(M!Latest + 1) : w \in marks => w - 1 \in marks
         /\ marks \subseteq -1..(M!Latest + 1)
    BY <2>1
  <2>13. \A w \in {6, 8, 9} : w \in marks => M!ColumnOf(w) \in columns
    <3>1. /\ 6 \in marks => v >= 6
          /\ 8 \in marks => v >= 8
          /\ 9 \in marks => v >= 9
      BY <2>1
    <3>2. /\ v >= 6 => "timing" \in columns
          /\ v >= 8 => "service_tier" \in columns
          /\ v >= 9 => "credit" \in columns
      BY <2>1
    <3> QED
      BY <2>3, <3>1, <3>2
  <2>14. /\ at \in M!Refused..M!Up /\ stops \in 0..MaxStops
         /\ at \in 1..M!Up => 0..(at - 1) \subseteq marks /\ ~M!Damaged
         /\ at = M!Refused => M!Damaged
    BY <1>1
  <2>15. columns \subseteq M!Columns /\ canonical \in BOOLEAN /\ alien \in BOOLEAN /\ 1 \in marks
    <3>1. 1 \in marks
      BY <2>1
    <3>2. canonical \in BOOLEAN /\ alien \in BOOLEAN
      BY <2>1
    <3>3. columns \subseteq {"timing", "service_tier", "credit"}
      BY <2>1
    <3> QED
      BY <3>1, <3>2, <3>3 DEF M!Columns
  <2>4. MarksInv
    BY <2>12, <2>13, <2>14, <2>15 DEF MarksInv
  <2>5. IsFiniteSet(OldEvents)
    BY SameSets DEF M!MigrationAssumption
  <2>6. \A e, d \in OldEvents : e.id = d.id => e = d
    BY DEF M!MigrationAssumption
  <2>7. IsFiniteSet(events) /\ Cardinality(events) = Cardinality(OldEvents)
    <3> DEFINE f == [e \in OldEvents |-> M!StoredBy(v, e)]
    <3>1. f \in [OldEvents -> events] /\ \A e \in events : \E d \in OldEvents : f[d] = e
      BY <2>1
    <3>2. ASSUME NEW e \in OldEvents, NEW d \in OldEvents, f[e] = f[d] PROVE e = d
      <4>1. M!StoredBy(v, e).id = M!StoredBy(v, d).id
        BY <3>2
      <4>2. <<"event", e.id>> = <<"event", d.id>>
        BY <4>1 DEF M!StoredBy
      <4> QED
        BY <2>6, <4>2
    <3> HIDE DEF f
    <3> QED
      BY <2>5, <3>1, <3>2, SameCount
  <2>8. count \in Nat /\ (4 \in marks => count = Cardinality(events))
    <3>1. Cardinality(events) \in Nat
      BY <2>7, FS_CardinalityType
    <3>2. 4 \in marks => v >= 4
      BY <2>1
    <3> QED
      BY <2>1, <2>7, <3>1, <3>2
  <2>9. ASSUME NEW e \in events
        PROVE  /\ DOMAIN e = EventFields
               /\ e.adapter = "zcode-db" => e.vendor = "zcode" \/ (e.vendor = "opencode" /\ 3 \notin marks)
    <3>1. PICK d \in OldEvents : e = M!StoredBy(v, d)
      BY <2>1
    <3>2. d.adapter = "zcode-db" => d.vendor = "zcode"
      BY DEF M!MigrationAssumption
    <3>3. v < 3 => 3 \notin marks
      BY <2>1
    <3> QED
      BY <3>1, <3>2, <3>3 DEF M!StoredBy, EventFields
  <2>10. ASSUME NEW s \in sessions
         PROVE  DOMAIN s = SessionFields /\ (7 \in marks => s.started)
    <3>1. PICK d \in OldEvents : s = M!SessionBy(v, d)
      BY <2>1
    <3>2. 7 \in marks => v >= 7
      BY <2>1
    <3> QED
      BY <3>1, <3>2 DEF M!SessionBy, SessionFields
  <2>11. RowsInv
    BY <2>7, <2>8, <2>9, <2>10 DEF RowsInv
  <2> QED
    BY <2>2, <2>4, <2>11 DEF MigrationInv
<1> QED
  BY <1>2, <1>3 DEF M!Init

LEMMA MigrationInvMeans ==
  ASSUME MigrationInv
  PROVE  M!TypeOK /\ M!OnlyDamagedRefused /\ M!MigratedTablesAgree
<1>1. MarksInv /\ RowsInv
  BY DEF MigrationInv
<1>2. M!TypeOK
  BY <1>1 DEF MarksInv, RowsInv, M!TypeOK
<1>3. M!OnlyDamagedRefused
  BY <1>1 DEF MarksInv, M!OnlyDamagedRefused
<1>4. M!MigratedTablesAgree
  <2>1. 4 \in marks => count = M!Cardinality(events)
    BY <1>1, SameSets DEF RowsInv
  <2>2. ASSUME at = 10
        PROVE  /\ 0..9 \subseteq marks /\ columns = M!Columns
               /\ \A s \in sessions : M!EventsOf(s) # {} => s.started
               /\ \A e \in events : e.adapter = "zcode-db" => e.vendor = "zcode"
    <3>1. 0..9 \subseteq marks
      BY <1>1, <2>2 DEF MarksInv
    <3>2. 3 \in marks /\ 6 \in marks /\ 7 \in marks /\ 8 \in marks /\ 9 \in marks
      BY <3>1
    <3>3. columns = M!Columns
      BY <1>1, <3>2 DEF MarksInv, M!Columns, M!ColumnOf
    <3> QED
      BY <1>1, <3>1, <3>2, <3>3 DEF RowsInv
  <2> QED
    BY <2>1, <2>2 DEF M!MigratedTablesAgree
<1> QED
  BY <1>2, <1>3, <1>4

-----------------------------------------------------------------------------
(* Each legacy row counts once, however often its migration was tried. *)

RowsIn(L, table) == {l \in L : l.row.table = table}
Sane(l) == M!Registered(l) /\ l.row.fresh >= 0
Insane(l) == M!Registered(l) /\ l.row.fresh < 0

\* What the migration made of the legacy rows L.
Backfilled(L, rows, waiting, wrong, counted) ==
  LET US == RowsIn(L, "token_usage_events") IN
  /\ \A u \in rows : DOMAIN u = {"id", "source", "vendor", "displayed"}
  /\ \A l \in US : \A u \in rows : u.id = M!EventId(l) => u.displayed = l.row.fresh
  /\ {u.id : u \in rows} = {M!EventId(l) : l \in {m \in US : Sane(m)}}
  /\ \A u, v \in rows : u.id = v.id => u = v
  /\ waiting = {M!EventId(l) : l \in {m \in US : ~M!Registered(m)}}
  /\ wrong = {M!EventId(l) : l \in {m \in US : Insane(m)}}
  /\ {c[3] : c \in counted} = {l.row.id : l \in RowsIn(L, "tool_events")}
  /\ \A c, d \in counted : c[3] = d[3] => c = d

\* Rows that say the same of what is counted.
Likewise(k, l) ==
  /\ k.row.table = l.row.table /\ k.row.id = l.row.id /\ k.row.fresh = l.row.fresh
  /\ k.row.adapter = l.row.adapter /\ k.row.from = l.row.from

LEMMA LikewiseBackfilled ==
  ASSUME NEW L, NEW K, NEW rows, NEW waiting, NEW wrong, NEW counted, Backfilled(L, rows, waiting, wrong, counted),
         \A k \in K : \E l \in L : Likewise(k, l), \A l \in L : \E k \in K : Likewise(k, l)
  PROVE  Backfilled(K, rows, waiting, wrong, counted)
<1>1. ASSUME NEW k, NEW l, Likewise(k, l)
      PROVE  /\ M!EventId(k) = M!EventId(l) /\ k.row.id = l.row.id /\ k.row.fresh = l.row.fresh
             /\ M!Registered(k) <=> M!Registered(l)
             /\ \A t : k.row.table = t <=> l.row.table = t
  BY <1>1 DEF Likewise, M!EventId, M!Registered
<1>2. ASSUME NEW k, NEW l, Likewise(k, l) PROVE (Sane(k) <=> Sane(l)) /\ (Insane(k) <=> Insane(l))
  BY <1>1, <1>2 DEF Sane, Insane
<1>r. ASSUME NEW t
      PROVE  /\ \A k \in RowsIn(K, t) : \E l \in RowsIn(L, t) : Likewise(k, l)
             /\ \A l \in RowsIn(L, t) : \E k \in RowsIn(K, t) : Likewise(k, l)
  <2>1. ASSUME NEW k \in RowsIn(K, t) PROVE \E l \in RowsIn(L, t) : Likewise(k, l)
    <3>1. PICK l \in L : Likewise(k, l)
      BY DEF RowsIn
    <3>2. l.row.table = t
      BY <3>1 DEF RowsIn, Likewise
    <3> QED
      BY <3>1, <3>2 DEF RowsIn
  <2>2. ASSUME NEW l \in RowsIn(L, t) PROVE \E k \in RowsIn(K, t) : Likewise(k, l)
    <3>1. PICK k \in K : Likewise(k, l)
      BY DEF RowsIn
    <3>2. k.row.table = t
      BY <3>1 DEF RowsIn, Likewise
    <3> QED
      BY <3>1, <3>2 DEF RowsIn
  <2> QED
    BY <2>1, <2>2
<1> DEFINE U0 == RowsIn(L, "token_usage_events")
           U1 == RowsIn(K, "token_usage_events")
<1>3. (\A k \in U1 : \E l \in U0 : Likewise(k, l)) /\ (\A l \in U0 : \E k \in U1 : Likewise(k, l))
  BY <1>r
<1>4. {M!EventId(l) : l \in {m \in U0 : Sane(m)}} = {M!EventId(l) : l \in {m \in U1 : Sane(m)}}
  BY <1>1, <1>2, <1>3
<1>5. {M!EventId(l) : l \in {m \in U0 : ~M!Registered(m)}} = {M!EventId(l) : l \in {m \in U1 : ~M!Registered(m)}}
  BY <1>1, <1>3
<1>6. {M!EventId(l) : l \in {m \in U0 : Insane(m)}} = {M!EventId(l) : l \in {m \in U1 : Insane(m)}}
  BY <1>1, <1>2, <1>3
<1>7. {l.row.id : l \in RowsIn(L, "tool_events")} = {l.row.id : l \in RowsIn(K, "tool_events")}
  BY <1>1, <1>r
<1>8. \A k \in U1 : \A u \in rows : u.id = M!EventId(k) => u.displayed = k.row.fresh
  BY <1>1, <1>3 DEF Backfilled
<1> HIDE DEF U0, U1
<1> QED
  BY <1>4, <1>5, <1>6, <1>7, <1>8 DEF Backfilled, U0, U1

InputsInv ==
  /\ 1 \in marks => canonical
  /\ ~canonical => \A l \in legacy : l.input = M!Written(l.row, M!CodexMarker \in marks)
  /\ canonical \/ at \in 0..10 => \A l \in legacy : l.row.vendor # Absent
  /\ canonical /\ legacy # {} => Backfilled(legacy, usage, pending, invalid, calls)

\* What a row's release wrote as input is displayed without its cache.
LEMMA OwnInput ==
  ASSUME LegacyInv, NEW l \in legacy, l.input = M!Written(l.row, M!CodexMarker \in marks), M!Registered(l)
  PROVE  M!Displayed(l) = l.row.fresh
<1>1. PICK f \in Int, c \in Int : f = l.row.fresh /\ c = l.row.cache
  BY DEF LegacyInv, M!LegacyRow
<1>2. l.row.vendor = "codex" => M!Registry(l.row.from).gross
  BY DEF LegacyInv, M!LegacyRow, M!Registered, M!Registry
<1>3. PICK g \in BOOLEAN : g = M!Registry(l.row.from).gross
  BY DEF M!Registry
<1>4. PICK m \in BOOLEAN : m <=> (M!CodexMarker \in marks)
  <2>1. CASE M!CodexMarker \in marks
    <3>1. TRUE <=> (M!CodexMarker \in marks)
      BY <2>1
    <3> QED
      BY <3>1
  <2>2. CASE M!CodexMarker \notin marks
    <3>1. FALSE <=> (M!CodexMarker \in marks)
      BY <2>2
    <3> QED
      BY <3>1
  <2> QED
    BY <2>1, <2>2
<1>5. PICK x \in BOOLEAN : x = (l.row.vendor = "codex")
  OBVIOUS
<1>6. l.input = f + (IF g /\ (~x \/ m) THEN c ELSE 0)
  BY <1>1, <1>3, <1>4, <1>5 DEF M!Written
<1>7. M!StoredInput(l) = l.input + (IF x /\ ~m THEN c ELSE 0)
  BY <1>1, <1>4, <1>5 DEF M!StoredInput
<1>8. M!Displayed(l) = M!StoredInput(l) - (IF g THEN c ELSE 0)
  BY <1>1, <1>3 DEF M!Displayed
<1>9. x => g
  BY <1>2, <1>3, <1>5
<1> QED
  BY <1>1, <1>6, <1>7, <1>8, <1>9

LEMMA MigrationBackfills ==
  ASSUME LegacyInv, \A l \in legacy : l.input = M!Written(l.row, M!CodexMarker \in marks)
  PROVE  Backfilled(legacy, M!BackfilledUsage, M!Pending, M!Invalid, M!BackfilledCalls)
<1> DEFINE US == RowsIn(legacy, "token_usage_events")
<1>1. M!UsageRows = US /\ US \subseteq legacy
  BY DEF M!UsageRows, M!In, RowsIn
<1>2. \A l \in US : M!Registered(l) => M!Displayed(l) = l.row.fresh
  BY <1>1, OwnInput
<1>3. \A l, k \in US : M!EventId(l) = M!EventId(k) => l = k
  BY <1>1 DEF LegacyInv
<1>4. M!BackfilledUsage = {M!LegacyUsage(l) : l \in {m \in US : Sane(m)}}
  <2>1. {m \in US : Sane(m)} = {m \in US : M!Registered(m) /\ M!Displayed(m) >= 0}
    BY <1>2 DEF Sane
  <2> QED
    BY <1>1, <2>1 DEF M!BackfilledUsage
<1>5. M!Invalid = {M!EventId(l) : l \in {m \in US : Insane(m)}}
  <2>1. {m \in US : Insane(m)} = {m \in US : M!Registered(m) /\ M!Displayed(m) < 0}
    BY <1>2 DEF Insane
  <2> QED
    BY <1>1, <2>1 DEF M!Invalid
<1>6. M!Pending = {M!EventId(l) : l \in {m \in US : ~M!Registered(m)}}
  BY <1>1 DEF M!Pending
<1>7. ASSUME NEW u \in M!BackfilledUsage
      PROVE  \E l \in US : u.id = M!EventId(l) /\ u = M!LegacyUsage(l) /\ Sane(l) /\ u.displayed = l.row.fresh
                           /\ DOMAIN u = {"id", "source", "vendor", "displayed"}
  <2>1. PICK l \in US : Sane(l) /\ u = M!LegacyUsage(l)
    BY <1>4
  <2>2. u.displayed = M!Displayed(l) /\ u.id = M!EventId(l) /\ DOMAIN u = {"id", "source", "vendor", "displayed"}
    BY <2>1 DEF M!LegacyUsage
  <2> QED
    BY <1>2, <2>1, <2>2 DEF Sane
<1>8. \A l \in US : \A u \in M!BackfilledUsage : u.id = M!EventId(l) => u.displayed = l.row.fresh
  BY <1>3, <1>7
<1>9. \A u, v \in M!BackfilledUsage : u.id = v.id => u = v
  <2> SUFFICES ASSUME NEW u \in M!BackfilledUsage, NEW v \in M!BackfilledUsage, u.id = v.id PROVE u = v
    OBVIOUS
  <2>1. PICK l \in US : u.id = M!EventId(l) /\ u = M!LegacyUsage(l)
    BY <1>7
  <2>2. PICK k \in US : v.id = M!EventId(k) /\ v = M!LegacyUsage(k)
    BY <1>7
  <2>3. l = k
    BY <1>3, <2>1, <2>2
  <2> QED
    BY <2>1, <2>2, <2>3
<1>10. {u.id : u \in M!BackfilledUsage} = {M!EventId(l) : l \in {m \in US : Sane(m)}}
  <2>1. \A l : M!LegacyUsage(l).id = M!EventId(l)
    BY DEF M!LegacyUsage
  <2> QED
    BY <1>4, <2>1
<1> DEFINE TE == RowsIn(legacy, "tool_events")
<1>11. M!BackfilledCalls = {<<l.row.vendor, l.row.session, l.row.id>> : l \in TE}
  BY DEF M!BackfilledCalls, M!In, RowsIn
<1>12. {c[3] : c \in M!BackfilledCalls} = {l.row.id : l \in TE}
  <2> DEFINE Use(l) == <<l.row.vendor, l.row.session, l.row.id>>
  <2>1. \A l : Use(l)[3] = l.row.id
    OBVIOUS
  <2> HIDE DEF Use
  <2>2. M!BackfilledCalls = {Use(l) : l \in TE}
    BY <1>11 DEF Use
  <2> QED
    BY <2>1, <2>2
<1>13. \A c, d \in M!BackfilledCalls : c[3] = d[3] => c = d
  <2> SUFFICES ASSUME NEW c \in M!BackfilledCalls, NEW d \in M!BackfilledCalls, c[3] = d[3] PROVE c = d
    OBVIOUS
  <2>1. PICK l \in TE : c = <<l.row.vendor, l.row.session, l.row.id>>
    BY <1>11
  <2>2. PICK k \in TE : d = <<k.row.vendor, k.row.session, k.row.id>>
    BY <1>11
  <2>3. M!EventId(l) = M!EventId(k)
    BY <2>1, <2>2 DEF M!EventId, RowsIn
  <2>4. l = k
    BY <2>3 DEF LegacyInv, RowsIn
  <2> QED
    BY <2>1, <2>2, <2>4
<1> HIDE DEF US, TE
<1>14. \A u \in M!BackfilledUsage : DOMAIN u = {"id", "source", "vendor", "displayed"}
  BY <1>7
<1> QED
  BY <1>5, <1>6, <1>8, <1>9, <1>10, <1>12, <1>13, <1>14 DEF Backfilled, US, TE

LEMMA UpToDateIsLikewise ==
  ASSUME M!MigrationAssumption, NEW l, DOMAIN l = {"row", "input"}, M!LegacyRow(l.row), NEW some
  PROVE  /\ M!UpToDate(l, some).input = l.input
         /\ \A m \in BOOLEAN : M!Written(M!UpToDate(l, some).row, m) = M!Written(l.row, m)
         /\ l.row.vendor # Absent => M!UpToDate(l, some) = l
         /\ some = M!Tables => M!UpToDate(l, some).row.vendor # Absent
<1> DEFINE k == [l EXCEPT !.row.vendor = "claude-code", !.row.adapter = M!DefaultAdapter(l.row.table)]
<1>1. Absent # "claude-code" /\ Absent # "codex"
  BY DEF M!MigrationAssumption
<1>2. CASE l.row.vendor = Absent /\ l.row.table \in some
  <2>1. M!UpToDate(l, some) = k
    BY <1>2 DEF M!UpToDate
  <2>2. k.input = l.input
    OBVIOUS
  <2>3. k.row = [[l.row EXCEPT !.vendor = "claude-code"] EXCEPT !.adapter = M!DefaultAdapter(l.row.table)]
    OBVIOUS
  <2>4. k.row.vendor = "claude-code" /\ k.row.from = l.row.from /\ k.row.fresh = l.row.fresh /\ k.row.cache = l.row.cache
    BY <2>3 DEF M!LegacyRow
  <2>5. k.row.vendor # "codex" /\ l.row.vendor # "codex"
    BY <1>1, <1>2, <2>4
  <2>6. \A m \in BOOLEAN : M!Written(k.row, m) = M!Written(l.row, m)
    BY <2>4, <2>5 DEF M!Written
  <2> QED
    BY <1>1, <1>2, <2>1, <2>2, <2>4, <2>6
<1>3. CASE ~(l.row.vendor = Absent /\ l.row.table \in some)
  <2>1. M!UpToDate(l, some) = l
    BY <1>3 DEF M!UpToDate
  <2>2. l.row.table \in M!Tables
    BY DEF M!LegacyRow
  <2> QED
    BY <1>3, <2>1, <2>2
<1> QED
  BY <1>2, <1>3

LEMMA UpToDateKeepsInputs ==
  ASSUME M!MigrationAssumption, LegacyInv, InputsInv, NEW some, legacy' = {M!UpToDate(l, some) : l \in legacy},
         UNCHANGED <<marks, canonical, usage, pending, invalid, calls>>,
         at' \in 0..10 => some = M!Tables
  PROVE  InputsInv'
<1>1. \A l \in legacy : DOMAIN l = {"row", "input"} /\ M!LegacyRow(l.row)
  BY DEF LegacyInv
<1>2. PICK m \in BOOLEAN : m <=> (M!CodexMarker \in marks)
  <2>1. CASE M!CodexMarker \in marks
    <3>1. TRUE <=> (M!CodexMarker \in marks)
      BY <2>1
    <3> QED
      BY <3>1
  <2>2. CASE M!CodexMarker \notin marks
    <3>1. FALSE <=> (M!CodexMarker \in marks)
      BY <2>2
    <3> QED
      BY <3>1
  <2> QED
    BY <2>1, <2>2
<1>3. \A r : M!Written(r, M!CodexMarker \in marks) = M!Written(r, m)
  BY <1>2 DEF M!Written
<1>4. CASE canonical
  <2>1. \A l \in legacy : M!UpToDate(l, some) = l
    BY <1>1, <1>4, UpToDateIsLikewise DEF InputsInv
  <2>2. legacy' = legacy
    BY <2>1
  <2> QED
    BY <1>4, <2>2 DEF InputsInv
<1>5. CASE ~canonical
  <2>1. ASSUME NEW l \in legacy' PROVE l.input = M!Written(l.row, m)
    <3>1. PICK k \in legacy : l = M!UpToDate(k, some)
      OBVIOUS
    <3>2. l.input = k.input /\ M!Written(l.row, m) = M!Written(k.row, m)
      BY <1>1, <3>1, UpToDateIsLikewise
    <3> QED
      BY <1>3, <1>5, <3>2 DEF InputsInv
  <2>2. ASSUME at' \in 0..10, NEW l \in legacy' PROVE l.row.vendor # Absent
    BY <1>1, <2>2, UpToDateIsLikewise
  <2>3. \A l \in legacy' : l.input = M!Written(l.row, M!CodexMarker \in marks')
    BY <1>3, <2>1
  <2> QED
    BY <1>5, <2>2, <2>3 DEF InputsInv
<1> QED
  BY <1>4, <1>5

LEMMA SplitKeepsInputs ==
  ASSUME M!MigrationAssumption, LegacyInv, InputsInv, canonical, M!SplitZcode, 1 \in marks
  PROVE  InputsInv'
<1> DEFINE Split(l) == [l EXCEPT !.row = M!OfZcode(@)]
           Named(u) == IF u.source = "zcode" /\ u.vendor = "opencode" THEN [u EXCEPT !.vendor = "zcode"] ELSE u
<1>1. /\ legacy' = {Split(l) : l \in legacy} /\ usage' = {Named(u) : u \in usage}
      /\ UNCHANGED <<canonical, calls, pending, invalid>> /\ 1 \in marks'
  BY DEF M!SplitZcode, M!Apply
<1>2. ASSUME NEW l \in legacy PROVE Likewise(Split(l), l) /\ Split(l).row.vendor # Absent
  <2>1. DOMAIN l = {"row", "input"} /\ DOMAIN l.row = RowFields /\ l.row.vendor # Absent
    BY DEF LegacyInv, M!LegacyRow, InputsInv, RowFields
  <2>2. Split(l).row = M!OfZcode(l.row)
    BY <2>1
  <2>3. CASE M!OfZcode(l.row) = l.row
    BY <2>1, <2>2, <2>3 DEF Likewise
  <2>4. CASE M!OfZcode(l.row) = [l.row EXCEPT !.vendor = "zcode"]
    <3>1. M!OfZcode(l.row).vendor = "zcode" /\ \A f \in RowFields \ {"vendor"} : M!OfZcode(l.row)[f] = l.row[f]
      BY <2>1, <2>4 DEF RowFields
    <3> QED
      BY <2>2, <3>1 DEF Likewise, RowFields, M!MigrationAssumption
  <2> QED
    BY <2>3, <2>4 DEF M!OfZcode
<1> HIDE DEF Split
<1>3. (\A k \in legacy' : \E l \in legacy : Likewise(k, l)) /\ (\A l \in legacy : \E k \in legacy' : Likewise(k, l))
  BY <1>1, <1>2
<1>4. \A l \in legacy' : l.row.vendor # Absent
  BY <1>1, <1>2
<1>5. ASSUME legacy' # {} PROVE Backfilled(legacy', usage', pending', invalid', calls')
  <2>1. legacy # {}
    BY <1>1, <1>5
  <2>2. Backfilled(legacy, usage, pending, invalid, calls)
    BY <2>1 DEF InputsInv
  <2>3. Backfilled(legacy', usage, pending, invalid, calls)
    BY <1>3, <2>2, LikewiseBackfilled
  <2>4. ASSUME NEW u \in usage
        PROVE  Named(u).id = u.id /\ Named(u).displayed = u.displayed /\ DOMAIN Named(u) = {"id", "source", "vendor", "displayed"}
    <3>1. DOMAIN u = {"id", "source", "vendor", "displayed"}
      BY <2>2 DEF Backfilled
    <3> QED
      BY <3>1
  <2> HIDE DEF Named
  <2>5. \A u \in usage' : DOMAIN u = {"id", "source", "vendor", "displayed"}
    BY <1>1, <2>4
  <2>6. \A l \in RowsIn(legacy', "token_usage_events") : \A u \in usage' : u.id = M!EventId(l) => u.displayed = l.row.fresh
    BY <1>1, <2>3, <2>4 DEF Backfilled
  <2>7. {u.id : u \in usage'} = {u.id : u \in usage}
    BY <1>1, <2>4
  <2>8. \A u, v \in usage' : u.id = v.id => u = v
    <3> SUFFICES ASSUME NEW u \in usage', NEW v \in usage', u.id = v.id PROVE u = v
      OBVIOUS
    <3>1. PICK x \in usage : u = Named(x)
      BY <1>1
    <3>2. PICK y \in usage : v = Named(y)
      BY <1>1
    <3>3. x = y
      BY <2>2, <2>4, <3>1, <3>2 DEF Backfilled
    <3> QED
      BY <3>1, <3>2, <3>3
  <2> QED
    BY <1>1, <2>3, <2>5, <2>6, <2>7, <2>8 DEF Backfilled
<1> QED
  BY <1>1, <1>4, <1>5 DEF InputsInv

LEMMA InputsKeep ==
  ASSUME M!MigrationAssumption, MigrationInv, InputsInv, [M!Next]_(M!vars)
  PROVE  InputsInv'
<1>0. LegacyInv /\ MarksInv
  BY DEF MigrationInv
<1>u. ASSUME UNCHANGED <<legacy, canonical, usage, pending, invalid, calls>>,
             1 \in marks' => 1 \in marks, (M!CodexMarker \in marks') <=> (M!CodexMarker \in marks),
             at' \in 0..10 => canonical \/ at \in 0..10
      PROVE  InputsInv'
  <2>1. \A r : M!Written(r, M!CodexMarker \in marks') = M!Written(r, M!CodexMarker \in marks)
    BY <1>u DEF M!Written
  <2> QED
    BY <1>u, <2>1 DEF InputsInv
<1>1. CASE M!Launch
  BY <1>1, <1>u DEF M!Launch, M!tables
<1>2. CASE M!LegacySchema
  <2>1. legacy' = {M!UpToDate(l, M!Tables) : l \in legacy} /\ UNCHANGED <<marks, canonical, usage, pending, invalid, calls>>
    BY <1>2 DEF M!LegacySchema, M!tables
  <2> QED
    BY <1>0, <2>1, UpToDateKeepsInputs
<1>3. CASE M!Baseline
  <2>1. at = 0 /\ UNCHANGED <<legacy, canonical, usage, pending, invalid, calls>>
    BY <1>3 DEF M!Baseline, M!tables
  <2>2. marks' = marks \/ marks' = marks \cup {0}
    BY <1>3 DEF M!Baseline
  <2> QED
    BY <1>u, <2>1, <2>2
<1>4. CASE M!CreateCanonical
  <2>1. /\ usage' = M!BackfilledUsage /\ pending' = M!Pending /\ invalid' = M!Invalid /\ calls' = M!BackfilledCalls
        /\ canonical' = TRUE /\ at = 1 /\ 1 \notin marks /\ UNCHANGED legacy
    BY <1>0, <1>4, Reconciles DEF M!CreateCanonical
  <2>2. ~canonical
    BY <1>0, <2>1 DEF MarksInv
  <2>3. \A l \in legacy : l.row.vendor # Absent
    BY <2>1 DEF InputsInv
  <2>4. Backfilled(legacy, M!BackfilledUsage, M!Pending, M!Invalid, M!BackfilledCalls)
    BY <1>0, <2>2, MigrationBackfills DEF InputsInv
  <2> QED
    BY <2>1, <2>3, <2>4 DEF InputsInv
<1>5. CASE M!Skip
  BY <1>5, <1>u DEF M!Skip, M!tables
<1>6. ASSUME NEW v \in 2..9, at = v PROVE 1 \in marks /\ canonical
  <2>1. 0..(v - 1) \subseteq marks
    BY <1>0, <1>6 DEF MarksInv
  <2>2. 1 \in marks
    BY <2>1
  <2> QED
    BY <2>2 DEF InputsInv
<1>7. ASSUME NEW v \in 2..9, M!Apply(v), UNCHANGED <<legacy, usage>> PROVE InputsInv'
  <2>1. /\ at = v /\ marks' = marks \cup {v} /\ UNCHANGED <<calls, pending, invalid, canonical>>
    BY <1>7 DEF M!Apply
  <2> QED
    BY <1>6, <1>7, <1>u, <2>1
<1>8. CASE M!AddIndexes
  BY <1>7, <1>8 DEF M!AddIndexes
<1>9. CASE M!SplitZcode
  <2>1. at = 3
    BY <1>9 DEF M!SplitZcode, M!Apply
  <2>2. 1 \in marks /\ canonical
    BY <1>6, <2>1
  <2> QED
    BY <1>0, <1>9, <2>2, SplitKeepsInputs
<1>10. CASE M!CountEvents
  BY <1>7, <1>10 DEF M!CountEvents
<1>11. CASE M!AddColumn
  <2>1. PICK v \in {6, 8, 9} : M!Apply(v) /\ UNCHANGED <<legacy, usage>>
    BY <1>11 DEF M!AddColumn
  <2> QED
    BY <1>7, <2>1
<1>12. CASE M!SeedStart
  BY <1>7, <1>12 DEF M!SeedStart
<1>13. ASSUME NEW e \in NewEvents, M!Project(e) PROVE InputsInv'
  BY <1>13, <1>u DEF M!Project
<1>14. ASSUME NEW e \in events, M!Trim(e) PROVE InputsInv'
  BY <1>14, <1>u DEF M!Trim
<1>15. CASE M!Stop
  <2>1. at' = -2 /\ UNCHANGED <<marks, canonical, usage, pending, invalid, calls>>
    BY <1>15 DEF M!Stop, M!tables
  <2>2. PICK some : legacy' = {M!UpToDate(l, some) : l \in legacy}
    BY <1>15 DEF M!Stop
  <2>3. at' \notin 0..10
    BY <2>1
  <2> QED
    BY <1>0, <2>1, <2>2, <2>3, UpToDateKeepsInputs
<1>16. CASE UNCHANGED M!vars
  BY <1>16, <1>u DEF M!vars, M!tables
<1> QED
  BY <1>1, <1>2, <1>3, <1>4, <1>5, <1>8, <1>9, <1>10, <1>11, <1>12, <1>13, <1>14, <1>15, <1>16
  DEF M!Next, M!Migrate

LEMMA InputsAtFirst ==
  ASSUME M!Init
  PROVE  InputsInv
<1>1. at = -2
  BY DEF M!Init
<1>2. CASE M!FoundLegacy
  <2>1. /\ marks \in {{}, {-1}} /\ canonical = FALSE
    BY <1>2 DEF M!FoundLegacy
  <2>2. PICK rows \in LegacyContents :
          legacy = {[row |-> r, input |-> M!Written(r, M!CodexMarker \in marks)] : r \in rows}
    BY <1>2 DEF M!FoundLegacy
  <2>3. \A l \in legacy : l.input = M!Written(l.row, M!CodexMarker \in marks)
    BY <2>2
  <2>4. 1 \notin marks /\ at \notin 0..10
    BY <1>1, <2>1
  <2> QED
    BY <2>1, <2>3, <2>4 DEF InputsInv
<1>3. CASE M!FoundCanonical
  <2>1. legacy = {} /\ canonical = TRUE
    BY <1>3 DEF M!FoundCanonical
  <2> QED
    BY <2>1 DEF InputsInv
<1> QED
  BY <1>2, <1>3 DEF M!Init

LEMMA InputsInvMeans ==
  ASSUME LegacyInv, InputsInv
  PROVE  M!BackfilledOnce
<1> SUFFICES ASSUME canonical, legacy # {}
             PROVE  /\ \A l \in M!UsageRows :
                         /\ \A u \in usage : u.id = M!EventId(l) => u.displayed = l.row.fresh
                         /\ M!Cardinality({b \in 1..3 : M!EventId(l) \in <<{u.id : u \in usage}, pending, invalid>>[b]}) = 1
                         /\ (M!EventId(l) \in invalid) = (l.row.fresh < 0 /\ M!Registered(l))
                    /\ M!Cardinality(usage) + M!Cardinality(pending) + M!Cardinality(invalid) = M!Cardinality(M!UsageRows)
                    /\ M!Cardinality(calls) = M!Cardinality(M!In("tool_events"))
  BY DEF M!BackfilledOnce
<1> DEFINE US == RowsIn(legacy, "token_usage_events")
           TE == RowsIn(legacy, "tool_events")
           good == {m \in US : Sane(m)}
           open == {m \in US : ~M!Registered(m)}
           bad == {m \in US : Insane(m)}
           ids == {u.id : u \in usage}
<1>1. Backfilled(legacy, usage, pending, invalid, calls)
  BY DEF InputsInv
<1>2. M!UsageRows = US /\ M!In("tool_events") = TE
  BY DEF M!UsageRows, M!In, RowsIn
<1>3. US \subseteq legacy /\ TE \subseteq legacy /\ IsFiniteSet(US) /\ IsFiniteSet(TE)
  BY FS_Subset DEF RowsIn, LegacyInv
<1>4. \A l \in US : l.row.fresh \in Int
  BY <1>3 DEF LegacyInv, M!LegacyRow
<1>5. \A l, k \in US : M!EventId(l) = M!EventId(k) => l = k
  BY <1>3 DEF LegacyInv
<1>6. /\ ids = {M!EventId(l) : l \in good} /\ pending = {M!EventId(l) : l \in open}
      /\ invalid = {M!EventId(l) : l \in bad}
      /\ \A u, v \in usage : u.id = v.id => u = v
      /\ \A l \in US : \A u \in usage : u.id = M!EventId(l) => u.displayed = l.row.fresh
      /\ {c[3] : c \in calls} = {l.row.id : l \in TE}
      /\ \A c, d \in calls : c[3] = d[3] => c = d
  BY <1>1 DEF Backfilled
<1>7. /\ good \subseteq US /\ open \subseteq US /\ bad \subseteq US /\ US = good \cup open \cup bad
      /\ good \cap open = {} /\ good \cap bad = {} /\ open \cap bad = {}
  BY <1>4 DEF Sane, Insane
<1> HIDE DEF US, TE, good, open, bad, ids
<1>8. ASSUME NEW l \in US
      PROVE  /\ M!EventId(l) \in ids <=> l \in good
             /\ M!EventId(l) \in pending <=> l \in open
             /\ M!EventId(l) \in invalid <=> l \in bad
  BY <1>5, <1>6, <1>7
<1>9. ASSUME NEW l \in US
      PROVE  M!Cardinality({b \in 1..3 : M!EventId(l) \in <<ids, pending, invalid>>[b]}) = 1
  <2> DEFINE B == {b \in 1..3 : M!EventId(l) \in <<ids, pending, invalid>>[b]}
  <2>1. /\ 1 \in B <=> l \in good
        /\ 2 \in B <=> l \in open
        /\ 3 \in B <=> l \in bad
        /\ B \subseteq {1, 2, 3}
    BY <1>8
  <2> HIDE DEF B
  <2>2. \E b : B = {b}
    <3>1. CASE l \in good
      <4>1. B = {1}
        BY <1>7, <2>1, <3>1
      <4> QED
        BY <4>1
    <3>2. CASE l \in open
      <4>1. B = {2}
        BY <1>7, <2>1, <3>2
      <4> QED
        BY <4>1
    <3>3. CASE l \in bad
      <4>1. B = {3}
        BY <1>7, <2>1, <3>3
      <4> QED
        BY <4>1
    <3> QED
      BY <1>7, <3>1, <3>2, <3>3
  <2>3. Cardinality(B) = 1
    BY <2>2, FS_Singleton
  <2> QED
    BY <2>3, SameSets DEF B
<1>10. ASSUME NEW l \in US
       PROVE  (M!EventId(l) \in invalid) <=> (l.row.fresh < 0 /\ M!Registered(l))
  BY <1>8 DEF bad, Insane
<1>11. IsFiniteSet(good) /\ IsFiniteSet(open) /\ IsFiniteSet(bad)
  BY <1>3, <1>7, FS_Subset
<1>12. Cardinality(usage) = Cardinality(good)
  <2> DEFINE f == [l \in good |-> CHOOSE u \in usage : u.id = M!EventId(l)]
  <2>1. \A l \in good : \E u \in usage : u.id = M!EventId(l)
    BY <1>6 DEF ids
  <2>2. \A l \in good : f[l] \in usage /\ f[l].id = M!EventId(l)
    BY <2>1
  <2>3. f \in [good -> usage]
    BY <2>2
  <2>4. \A l, k \in good : f[l] = f[k] => l = k
    BY <1>5, <1>7, <2>2
  <2>5. \A u \in usage : \E l \in good : f[l] = u
    <3> SUFFICES ASSUME NEW u \in usage PROVE \E l \in good : f[l] = u
      OBVIOUS
    <3>1. PICK l \in good : u.id = M!EventId(l)
      BY <1>6 DEF ids
    <3>2. f[l] = u
      BY <1>6, <2>2, <3>1
    <3> QED
      BY <3>2
  <2> HIDE DEF f
  <2> QED
    BY <1>11, <2>3, <2>4, <2>5, SameCount
<1>13. ASSUME NEW S \in SUBSET US, NEW P, P = {M!EventId(l) : l \in S}, IsFiniteSet(S)
       PROVE  Cardinality(P) = Cardinality(S)
  <2> DEFINE f == [l \in S |-> M!EventId(l)]
  <2>1. f \in [S -> P] /\ \A p \in P : \E l \in S : f[l] = p
    BY <1>13
  <2>2. \A l, k \in S : f[l] = f[k] => l = k
    BY <1>5
  <2> HIDE DEF f
  <2> QED
    BY <1>13, <2>1, <2>2, SameCount
<1>14. Cardinality(pending) = Cardinality(open) /\ Cardinality(invalid) = Cardinality(bad)
  BY <1>6, <1>7, <1>11, <1>13
<1>15. Cardinality(US) = Cardinality(good) + Cardinality(open) + Cardinality(bad)
  <2>1. IsFiniteSet(good \cup open) /\ Cardinality(good \cup open) = Cardinality(good) + Cardinality(open) - Cardinality(good \cap open)
    BY <1>11, FS_Union
  <2>2. Cardinality(US) = Cardinality(good \cup open) + Cardinality(bad) - Cardinality((good \cup open) \cap bad)
    BY <1>7, <1>11, <2>1, FS_Union
  <2>3. good \cap open = {} /\ (good \cup open) \cap bad = {}
    BY <1>7
  <2>4. Cardinality({}) = 0
    BY FS_EmptySet
  <2>5. Cardinality(good) \in Nat /\ Cardinality(open) \in Nat /\ Cardinality(bad) \in Nat
    BY <1>11, FS_CardinalityType
  <2>6. Cardinality(good \cap open) = 0 /\ Cardinality((good \cup open) \cap bad) = 0
    BY <2>3, <2>4
  <2>7. PICK g \in Nat, o \in Nat, b \in Nat : g = Cardinality(good) /\ o = Cardinality(open) /\ b = Cardinality(bad)
    BY <2>5
  <2>8. Cardinality(good \cup open) = g + o
    BY <2>1, <2>6, <2>7
  <2>9. Cardinality(US) = g + o + b
    BY <2>2, <2>6, <2>7, <2>8
  <2> QED
    BY <2>7, <2>9
<1>16. Cardinality(calls) = Cardinality(TE)
  <2> DEFINE f == [l \in TE |-> CHOOSE c \in calls : c[3] = l.row.id]
  <2>1. \A l \in TE : \E c \in calls : c[3] = l.row.id
    BY <1>6
  <2>2. \A l \in TE : f[l] \in calls /\ f[l][3] = l.row.id
    BY <2>1
  <2>3. f \in [TE -> calls]
    BY <2>2
  <2>4. \A l, k \in TE : l.row.id = k.row.id => l = k
    BY <1>3 DEF LegacyInv, M!EventId, TE, RowsIn
  <2>5. \A l, k \in TE : f[l] = f[k] => l = k
    BY <2>2, <2>4
  <2>6. \A c \in calls : \E l \in TE : f[l] = c
    <3> SUFFICES ASSUME NEW c \in calls PROVE \E l \in TE : f[l] = c
      OBVIOUS
    <3>1. PICK l \in TE : c[3] = l.row.id
      BY <1>6
    <3>2. f[l] = c
      BY <1>6, <2>2, <3>1
    <3> QED
      BY <3>2
  <2> HIDE DEF f
  <2> QED
    BY <1>3, <2>3, <2>5, <2>6, SameCount
<1>17. /\ M!Cardinality(usage) + M!Cardinality(pending) + M!Cardinality(invalid) = M!Cardinality(US)
       /\ M!Cardinality(calls) = M!Cardinality(TE)
  <2>1. Cardinality(good) \in Nat /\ Cardinality(open) \in Nat /\ Cardinality(bad) \in Nat
    BY <1>11, FS_CardinalityType
  <2> QED
    BY <1>12, <1>14, <1>15, <1>16, <2>1, SameSets
<1>18. ASSUME NEW l \in US PROVE (M!EventId(l) \in invalid) = (l.row.fresh < 0 /\ M!Registered(l))
  BY <1>10
<1> QED
  BY <1>2, <1>6, <1>9, <1>17, <1>18 DEF ids

HIDE DEF M!Up, M!Latest, M!Upgrading, M!Off, M!Refused, M!CodexMarker

-----------------------------------------------------------------------------
(* Account usage. *)

CursorRequests == [step : {"idle", "asked", "answered"}, day : Days, tokens : 0..MaxTokens]

WithinSpent ==
  /\ \A d \in Days : local[d] <= spent[d] /\ official[d] <= spent[d]
  /\ loop.tokens <= spent[loop.day] /\ sync.tokens <= spent[sync.day]

CursorInv == A!CursorTypeOK /\ WithinSpent

LEMMA AnsweredIsSpent ==
  ASSUME A!AccountAssumption, CursorInv, NEW request \in CursorRequests,
         NEW answer \in A!Answers(request)
  PROVE  answer \in CursorRequests /\ answer.tokens <= spent[answer.day]
<1>1. \A d \in Days : spent[d] \in 0..MaxTokens
  BY DEF CursorInv, A!CursorTypeOK
<1>2. CASE answer = A!Idle
  BY <1>1, <1>2 DEF A!Idle, CursorRequests, A!AccountAssumption
<1>3. ASSUME answer # A!Idle
      PROVE  \E n \in {0, spent[request.day]} :
               answer = [request EXCEPT !.step = "answered", !.tokens = n]
  BY <1>3 DEF A!Answers
<1>4. ASSUME NEW n \in {0, spent[request.day]},
             answer = [request EXCEPT !.step = "answered", !.tokens = n]
      PROVE  answer \in CursorRequests /\ answer.tokens <= spent[answer.day]
  <2>0. request.day \in Days
    BY DEF CursorRequests
  <2>1. request.day \in Days /\ n \in 0..MaxTokens /\ n <= spent[request.day]
    <3>1. spent[request.day] \in 0..MaxTokens
      BY <1>1, <2>0
    <3> QED
      BY <2>0, <3>1 DEF A!AccountAssumption
  <2>2. answer.step = "answered" /\ answer.day = request.day /\ answer.tokens = n
    BY <1>4 DEF CursorRequests
  <2>3. answer \in CursorRequests
    BY <1>4, <2>1 DEF CursorRequests
  <2> QED
    BY <2>1, <2>2, <2>3
<1> QED
  BY <1>2, <1>3, <1>4

LEMMA ReplacedWithinSpent ==
  ASSUME A!AccountAssumption, CursorInv, NEW request \in CursorRequests,
         request.tokens <= spent[request.day], A!Replace(request)
  PROVE  /\ official' \in [Days -> 0..MaxTokens]
         /\ \A d \in Days : official'[d] <= spent[d]
BY DEF A!Replace, CursorRequests, CursorInv, A!CursorTypeOK, WithinSpent

LEMMA CursorKeeps ==
  ASSUME A!AccountAssumption, CursorInv, [A!CursorNext]_(A!cursorVars)
  PROVE  CursorInv'
<1>0. /\ \A d \in Days : spent[d] \in Nat /\ local[d] \in Nat /\ official[d] \in Nat
      /\ loop \in CursorRequests /\ sync \in CursorRequests
  BY DEF CursorInv, A!CursorTypeOK, CursorRequests, A!AccountAssumption
<1>1. ASSUME NEW here \in BOOLEAN, A!Use(here) PROVE CursorInv'
  <2>1. /\ UNCHANGED <<day, official, loop, sync, running>> /\ day \in Days
        /\ spent' = [spent EXCEPT ![day] = @ + 1] /\ spent[day] < MaxTokens
    BY <1>1 DEF A!Use, CursorInv, A!CursorTypeOK
  <2>2. PICK n \in {0, 1} : local' = [local EXCEPT ![day] = @ + n]
    BY <1>1 DEF A!Use
  <2>3. /\ spent' \in [Days -> 0..MaxTokens]
        /\ \A d \in Days : spent[d] <= spent'[d]
        /\ spent'[day] = spent[day] + 1
    BY <2>1, <1>0 DEF CursorInv, A!CursorTypeOK, A!AccountAssumption
  <2>4. \A d \in Days : local'[d] = IF d = day THEN local[d] + n ELSE local[d]
    BY <2>1, <2>2 DEF CursorInv, A!CursorTypeOK
  <2>5. \A d \in Days : local[d] <= spent[d]
    BY DEF CursorInv, WithinSpent
  <2>6. ASSUME NEW d \in Days PROVE local'[d] \in 0..MaxTokens /\ local'[d] <= spent'[d]
    <3>1. CASE d = day
      <4>1. local'[d] = local[d] + n /\ spent'[d] = spent[d] + 1
        BY <2>3, <2>4, <3>1
      <4>2. local[d] <= spent[d] /\ spent[d] < MaxTokens /\ local[d] \in Nat /\ spent[d] \in Nat
        BY <1>0, <2>1, <2>5, <3>1
      <4> QED
        BY <4>1, <4>2 DEF A!AccountAssumption
    <3>2. CASE d # day
      <4>1. local'[d] = local[d] /\ spent'[d] = spent[d]
        BY <2>1, <2>4, <3>2 DEF CursorInv, A!CursorTypeOK
      <4> QED
        BY <4>1, <2>5 DEF CursorInv, A!CursorTypeOK
    <3> QED
      BY <3>1, <3>2
  <2>7. local' \in [Days -> 0..MaxTokens]
    BY <2>2, <2>6 DEF CursorInv, A!CursorTypeOK
  <2>8. A!CursorTypeOK'
    BY <2>1, <2>3, <2>7 DEF CursorInv, A!CursorTypeOK
  <2>9. \A d \in Days : official'[d] <= spent'[d]
    BY <1>0, <2>1, <2>3 DEF CursorInv, WithinSpent, A!AccountAssumption
  <2>10. ASSUME NEW request \in CursorRequests, request.tokens <= spent[request.day]
         PROVE  request.tokens <= spent'[request.day]
    <3>1. request.day \in Days /\ request.tokens \in Nat
      BY DEF CursorRequests, A!AccountAssumption
    <3>2. \A d \in Days : spent[d] <= spent'[d] /\ spent'[d] \in Nat
      BY <2>3 DEF A!AccountAssumption
    <3> QED
      BY <1>0, <2>10, <3>1, <3>2
  <2>11. WithinSpent'
    BY <1>0, <2>1, <2>6, <2>9, <2>10 DEF CursorInv, WithinSpent
  <2> QED
    BY <2>8, <2>11 DEF CursorInv
<1>2. CASE A!Midnight
  BY <1>2 DEF A!Midnight, CursorInv, A!CursorTypeOK, WithinSpent
<1>3. A!Asked \in CursorRequests /\ A!Asked.tokens <= spent[A!Asked.day]
  BY <1>0 DEF A!Asked, CursorRequests, CursorInv, A!CursorTypeOK, A!AccountAssumption
<1>4. A!Idle \in CursorRequests /\ A!Idle.tokens <= spent[A!Idle.day]
  BY <1>0 DEF A!Idle, CursorRequests, A!AccountAssumption
<1>5. ASSUME UNCHANGED <<day, spent, local, official, running>>,
             loop' \in CursorRequests, loop'.tokens <= spent[loop'.day],
             sync' \in CursorRequests, sync'.tokens <= spent[sync'.day]
      PROVE  CursorInv'
  BY <1>5 DEF CursorInv, A!CursorTypeOK, WithinSpent, CursorRequests
<1>6. ASSUME UNCHANGED <<day, spent, local, running>>, loop' \in {loop, A!Idle}, sync' \in {sync, A!Idle},
             /\ official' \in [Days -> 0..MaxTokens]
             /\ \A d \in Days : official'[d] <= spent[d]
      PROVE  CursorInv'
  <2>1. loop' \in CursorRequests /\ loop'.tokens <= spent[loop'.day]
    BY <1>0, <1>4, <1>6 DEF CursorInv, WithinSpent
  <2>2. sync' \in CursorRequests /\ sync'.tokens <= spent[sync'.day]
    BY <1>0, <1>4, <1>6 DEF CursorInv, WithinSpent
  <2> QED
    BY <1>6, <2>1, <2>2 DEF CursorInv, A!CursorTypeOK, WithinSpent, CursorRequests
<1>7. CASE A!LoopAsk
  BY <1>0, <1>3, <1>5, <1>7 DEF A!LoopAsk, CursorInv, WithinSpent
<1>8. CASE A!SyncAsk
  BY <1>0, <1>3, <1>5, <1>8 DEF A!SyncAsk, CursorInv, WithinSpent
<1>9. CASE A!LoopAnswer
  <2>1. loop' \in A!Answers(loop)
    BY <1>9 DEF A!LoopAnswer, A!Answers
  <2>2. loop' \in CursorRequests /\ loop'.tokens <= spent[loop'.day]
    BY <1>0, <2>1, AnsweredIsSpent
  <2> QED
    BY <1>0, <1>5, <1>9, <2>2 DEF A!LoopAnswer, CursorInv, WithinSpent
<1>10. official \in [Days -> 0..MaxTokens] /\ \A d \in Days : official[d] <= spent[d]
  BY DEF CursorInv, A!CursorTypeOK, WithinSpent
<1>11. CASE A!LoopWrite
  <2>1. CASE running
    BY <1>0, <1>6, <1>11, <2>1, ReplacedWithinSpent DEF A!LoopWrite, CursorInv, WithinSpent
  <2>2. CASE ~running
    BY <1>6, <1>10, <1>11, <2>2 DEF A!LoopWrite
  <2> QED
    BY <2>1, <2>2
<1>12. CASE A!SyncAnswer
  <2>1. PICK answer \in A!Answers(sync) :
          IF answer.step = "answered" /\ running THEN A!Replace(answer) ELSE UNCHANGED official
    BY <1>12 DEF A!SyncAnswer
  <2>2. answer \in CursorRequests /\ answer.tokens <= spent[answer.day]
    BY <1>0, AnsweredIsSpent
  <2>3. UNCHANGED <<day, spent, local, loop, running>> /\ sync' = A!Idle
    BY <1>12 DEF A!SyncAnswer
  <2>4. CASE answer.step = "answered" /\ running
    BY <1>6, <2>1, <2>2, <2>3, <2>4, ReplacedWithinSpent
  <2>5. CASE ~ (answer.step = "answered" /\ running)
    BY <1>6, <1>10, <2>1, <2>3, <2>5
  <2> QED
    BY <2>4, <2>5
<1>13. CASE A!Close
  BY <1>13 DEF A!Close, CursorInv, A!CursorTypeOK, WithinSpent
<1>14. CASE UNCHANGED A!cursorVars
  BY <1>14 DEF A!cursorVars, CursorInv, A!CursorTypeOK, WithinSpent
<1> QED
  BY <1>1, <1>2, <1>7, <1>8, <1>9, <1>11, <1>12, <1>13, <1>14 DEF A!CursorNext

LEMMA CursorStarts ==
  ASSUME A!AccountAssumption, A!CursorInit
  PROVE  CursorInv
<1>1. A!Idle \in CursorRequests /\ A!Idle.day = 0 /\ A!Idle.tokens = 0
  BY DEF A!Idle, CursorRequests, A!AccountAssumption
<1>2. spent \in [Days -> 0..MaxTokens] /\ \A d \in Days : spent[d] = 0
  BY DEF A!CursorInit, A!AccountAssumption
<1> QED
  BY <1>1, <1>2 DEF A!CursorInit, CursorInv, A!CursorTypeOK, WithinSpent, CursorRequests, A!AccountAssumption

LEMMA CursorInvMeans ==
  ASSUME A!AccountAssumption, CursorInv
  PROVE  A!CursorTypeOK /\ A!DayReported
<1>1. ASSUME NEW d \in Days PROVE A!Reported(d) <= spent[d]
  <2>1. local[d] <= spent[d] /\ official[d] <= spent[d]
    BY DEF CursorInv, WithinSpent
  <2>2. local[d] \in Nat /\ official[d] \in Nat /\ spent[d] \in Nat
    BY DEF CursorInv, A!CursorTypeOK, A!AccountAssumption
  <2> QED
    BY <2>1, <2>2 DEF A!Reported, A!Shadowed
<1> QED
  BY <1>1 DEF CursorInv, A!DayReported

LEMMA MaxIsGreatest ==
  ASSUME NEW n \in Nat, NEW S \in SUBSET (0..n), S # {}
  PROVE  A!Max(S) \in S /\ \A m \in S : A!Max(S) >= m
<1>1. S \in SUBSET Nat /\ \A m \in S : m <= n
  OBVIOUS
<1>2. PICK x \in S : \A m \in S : m <= x
  BY <1>1, Greatest
<1>3. \A m \in S : x >= m
  BY <1>1, <1>2
<1> QED
  BY <1>3 DEF A!Max

Readings == [limit : Limits, window : Windows \cup {0}, at : 1..MaxReadings]

ToldIsStored ==
  /\ \A k \in DOMAIN stored : k[1] \in Limits /\ stored[k] \in 1..MaxReadings
  /\ told \subseteq Readings
  /\ \A r \in told : A!Key(r) \in DOMAIN stored /\ stored[A!Key(r)] >= r.at

KeyInv ==
  /\ clock \in 0..MaxReadings /\ api \in 0..MaxReadings
  /\ logs \in [Files -> SUBSET Readings]
  /\ scans \in [A!Collectors -> [step : {"idle", "reads", "done"}, left : SUBSET Files,
                               found : SUBSET Readings]]
  /\ \A c \in A!Collectors : scans[c].found \subseteq UNION {logs[f] : f \in Files}
  /\ ToldIsStored

LEMMA PersistKeepsNewest ==
  ASSUME A!AccountAssumption, ToldIsStored, NEW readings \in SUBSET Readings,
         \A r, q \in readings : A!Key(r) = A!Key(q) => r.at = q.at,
         A!Persist(readings)
  PROVE  ToldIsStored'
<1> DEFINE Replaced(k) == \E r \in readings : A!Key(r) = k /\ A!ReplacesOlder(r)
           Chosen(k) == CHOOSE r \in readings : A!Key(r) = k /\ A!ReplacesOlder(r)
<1>1. /\ stored' = [k \in DOMAIN stored \cup {A!Key(r) : r \in readings} |->
                     IF Replaced(k) THEN Chosen(k).at ELSE stored[k]]
      /\ told' = told \cup readings
  BY DEF A!Persist
<1>2. \A k : Replaced(k) => Chosen(k) \in readings /\ A!Key(Chosen(k)) = k /\ A!ReplacesOlder(Chosen(k))
  OBVIOUS
<1> HIDE DEF Replaced, Chosen
<1>3. \A r \in readings : A!Key(r)[1] \in Limits /\ r.at \in 1..MaxReadings
  BY DEF A!Key, Readings
<1>4. ASSUME NEW k \in DOMAIN stored'
      PROVE  k[1] \in Limits /\ stored'[k] \in 1..MaxReadings
  <2>1. CASE Replaced(k)
    BY <1>1, <1>2, <1>3, <2>1
  <2>2. CASE ~Replaced(k)
    <3>1. k \in DOMAIN stored
      BY <1>1, <2>2 DEF Replaced, A!ReplacesOlder
    <3> QED
      BY <1>1, <2>2, <3>1 DEF ToldIsStored
  <2> QED
    BY <2>1, <2>2
<1>5. ASSUME NEW r \in told' PROVE A!Key(r) \in DOMAIN stored'
  BY <1>1 DEF ToldIsStored
<1>6. ASSUME NEW r \in told, Replaced(A!Key(r)) PROVE stored'[A!Key(r)] >= r.at
  <2> DEFINE q == Chosen(A!Key(r))
  <2>1. q \in readings /\ A!Key(q) = A!Key(r) /\ A!ReplacesOlder(q)
    BY <1>2, <1>6
  <2>2. A!Key(r) \in DOMAIN stored /\ stored[A!Key(r)] >= r.at
    BY DEF ToldIsStored
  <2>3. stored[A!Key(r)] <= q.at
    BY <2>1, <2>2 DEF A!ReplacesOlder
  <2>4. stored'[A!Key(r)] = q.at
    BY <1>1, <1>6, <2>2
  <2>5. stored[A!Key(r)] \in Nat /\ r.at \in Nat /\ q.at \in Nat
    BY <1>3, <2>1, <2>2 DEF ToldIsStored, Readings
  <2> QED
    BY <2>2, <2>3, <2>4, <2>5
<1>7. ASSUME NEW r \in told, ~Replaced(A!Key(r)) PROVE stored'[A!Key(r)] >= r.at
  BY <1>1, <1>7 DEF ToldIsStored
<1>8. ASSUME NEW r \in readings PROVE stored'[A!Key(r)] >= r.at
  <2>1. CASE Replaced(A!Key(r))
    <3>1. Chosen(A!Key(r)) \in readings /\ Chosen(A!Key(r)).at = r.at
      BY <1>2, <2>1
    <3>2. stored'[A!Key(r)] = r.at
      BY <1>1, <2>1, <3>1
    <3> QED
      BY <1>3, <3>2
  <2>2. CASE ~Replaced(A!Key(r))
    <3>1. A!Key(r) \in DOMAIN stored /\ ~ (stored[A!Key(r)] <= r.at)
      BY <2>2 DEF Replaced, A!ReplacesOlder
    <3>2. stored'[A!Key(r)] = stored[A!Key(r)]
      BY <1>1, <2>2
    <3>3. stored[A!Key(r)] \in Nat /\ r.at \in Nat
      BY <1>3, <3>1 DEF ToldIsStored
    <3> QED
      BY <3>1, <3>2, <3>3
  <2> QED
    BY <2>1, <2>2
<1>9. told' \subseteq Readings
  BY <1>1 DEF ToldIsStored
<1> QED
  BY <1>1, <1>4, <1>5, <1>6, <1>7, <1>8, <1>9 DEF ToldIsStored

LEMMA KeyKeeps ==
  ASSUME A!AccountAssumption, KeyInv, [A!KeyNext]_(A!keyVars)
  PROVE  KeyInv'
<1> DEFINE Scans == [step : {"idle", "reads", "done"}, left : SUBSET Files, found : SUBSET Readings]
<1>1. ASSUME NEW f \in Files, NEW l \in Limits, NEW w \in Windows, A!LogReading(f, l, w)
      PROVE  KeyInv'
  <2>1. /\ UNCHANGED <<scans, api, stored, told>>
        /\ clock < MaxReadings /\ clock' = clock + 1
    BY <1>1 DEF A!LogReading
  <2> DEFINE news == [limit |-> l, window |-> IF l = NoPlan THEN 0 ELSE w, at |-> clock + 1]
  <2>2. logs' = [logs EXCEPT ![f] = @ \cup {news}]
    BY <1>1 DEF A!LogReading
  <2>3. news \in Readings
    BY <2>1 DEF KeyInv, Readings, A!AccountAssumption
  <2> HIDE DEF news
  <2>4. logs' \in [Files -> SUBSET Readings] /\ \A g \in Files : logs[g] \subseteq logs'[g]
    BY <2>2, <2>3 DEF KeyInv
  <2>5. \A c \in A!Collectors : scans'[c].found \subseteq UNION {logs'[g] : g \in Files}
    BY <2>1, <2>4 DEF KeyInv
  <2>6. clock' \in 0..MaxReadings
    BY <2>1 DEF KeyInv, A!AccountAssumption
  <2> QED
    BY <2>1, <2>4, <2>5, <2>6 DEF KeyInv, ToldIsStored
<1>2. ASSUME NEW c \in A!Collectors, A!StartScan(c) PROVE KeyInv'
  <2>1. /\ UNCHANGED <<clock, logs, api, stored, told>>
        /\ scans' = [scans EXCEPT ![c] =
             [step |-> "reads", left |-> {f \in Files : logs[f] # {}}, found |-> {}]]
    BY <1>2 DEF A!StartScan
  <2>2. scans' \in [A!Collectors -> Scans]
    BY <2>1 DEF KeyInv
  <2>3. \A d \in A!Collectors : scans'[d].found \subseteq UNION {logs'[f] : f \in Files}
    BY <2>1 DEF KeyInv
  <2> QED
    BY <2>1, <2>2, <2>3 DEF KeyInv, ToldIsStored
<1>3. ASSUME NEW c \in A!Collectors, NEW f \in Files, A!ReadFile(c, f) PROVE KeyInv'
  <2>1. /\ UNCHANGED <<clock, logs, api, stored, told>>
        /\ scans' = [scans EXCEPT ![c].left = @ \ {f}, ![c].found = @ \cup logs[f]]
    BY <1>3 DEF A!ReadFile
  <2>2. scans' \in [A!Collectors -> Scans]
    BY <2>1 DEF KeyInv
  <2>3. \A d \in A!Collectors : scans'[d].found \subseteq UNION {logs'[g] : g \in Files}
    BY <2>1 DEF KeyInv
  <2> QED
    BY <2>1, <2>2, <2>3 DEF KeyInv, ToldIsStored
<1>4. ASSUME NEW c \in A!Collectors, A!EndScan(c) PROVE KeyInv'
  <2> DEFINE readings == A!WithoutStale(A!Newest(scans[c].found))
  <2>1. /\ UNCHANGED <<clock, logs, api>> /\ A!Persist(readings)
        /\ scans' = [scans EXCEPT ![c] = [A!NoScan EXCEPT !.step = IF c = "startup" THEN "done" ELSE "idle"]]
    BY <1>4 DEF A!EndScan
  <2>2. readings \subseteq A!Newest(scans[c].found) /\ readings \in SUBSET Readings
    BY DEF A!WithoutStale, A!Newest, KeyInv
  <2>3. ASSUME NEW r \in readings, NEW q \in readings, A!Key(r) = A!Key(q) PROVE r.at = q.at
    <3>1. A!Same(r, q) /\ A!Same(q, r)
      BY <2>3 DEF A!Key, A!Same
    <3>2. r.at <= q.at /\ q.at <= r.at
      BY <2>2, <3>1 DEF A!Newest
    <3>3. r.at \in Nat /\ q.at \in Nat
      BY <2>2 DEF Readings
    <3> QED
      BY <3>2, <3>3
  <2>4. ToldIsStored'
    BY <2>1, <2>2, <2>3, PersistKeepsNewest DEF KeyInv
  <2>5. scans' \in [A!Collectors -> Scans]
    BY <2>1 DEF KeyInv, A!NoScan
  <2>6. \A d \in A!Collectors : scans'[d].found \subseteq UNION {logs'[g] : g \in Files}
    BY <2>1 DEF KeyInv, A!NoScan
  <2> QED
    BY <2>1, <2>4, <2>5, <2>6 DEF KeyInv
<1>5. CASE A!AskApi
  BY <1>5 DEF A!AskApi, KeyInv, ToldIsStored, A!AccountAssumption
<1>6. ASSUME NEW w \in Windows, A!AnswerApi(w) PROVE KeyInv'
  <2>1. /\ UNCHANGED <<clock, logs, scans>> /\ api # 0 /\ api' = 0
    BY <1>6 DEF A!AnswerApi
  <2>2. PICK readings \in {{}, {[limit |-> ApiLimit, window |-> w, at |-> api]}} : A!Persist(readings)
    BY <1>6 DEF A!AnswerApi
  <2>3. readings \in SUBSET Readings /\ \A r, q \in readings : r = q
    BY <2>1 DEF KeyInv, Readings, A!AccountAssumption
  <2>4. ToldIsStored'
    BY <2>2, <2>3, PersistKeepsNewest DEF KeyInv
  <2> QED
    BY <2>1, <2>4 DEF KeyInv, A!AccountAssumption
<1>7. CASE UNCHANGED A!keyVars
  BY <1>7 DEF A!keyVars, KeyInv, ToldIsStored
<1> QED
  BY <1>1, <1>2, <1>3, <1>4, <1>5, <1>6, <1>7 DEF A!KeyNext

LEMMA KeysStart ==
  ASSUME A!AccountAssumption, A!KeyInit
  PROVE  KeyInv
BY DEF A!KeyInit, KeyInv, ToldIsStored, A!NoScan, A!AccountAssumption

LEMMA KeyInvMeans ==
  ASSUME A!AccountAssumption, KeyInv
  PROVE  A!KeyTypeOK /\ A!NewestShown
<1>1. UNION {logs[f] : f \in Files} = UNION A!Range(logs)
  BY DEF KeyInv, A!Range
<1>2. A!KeyTypeOK
  BY <1>1 DEF KeyInv, ToldIsStored, A!KeyTypeOK
<1>3. ASSUME NEW r \in told PROVE A!Shown(r.limit) >= r.at
  <2> DEFINE S == {0} \cup {stored[k] : k \in {q \in DOMAIN stored : q[1] = r.limit}}
  <2>1. S \in SUBSET (0..MaxReadings) /\ S # {}
    BY DEF KeyInv, ToldIsStored, A!AccountAssumption
  <2>2. A!Max(S) \in S /\ \A m \in S : A!Max(S) >= m
    BY <2>1, MaxIsGreatest DEF A!AccountAssumption
  <2>3. A!Key(r) \in DOMAIN stored /\ stored[A!Key(r)] >= r.at
    BY DEF KeyInv, ToldIsStored
  <2>4. stored[A!Key(r)] \in S
    BY <2>3 DEF A!Key
  <2>5. r.at \in Nat /\ stored[A!Key(r)] \in Nat /\ A!Max(S) \in Nat
    BY <2>1, <2>2, <2>4 DEF KeyInv, ToldIsStored, Readings, A!AccountAssumption
  <2>6. A!Max(S) >= stored[A!Key(r)]
    BY <2>2, <2>4
  <2>7. A!Shown(r.limit) = A!Max(S)
    BY DEF A!Shown
  <2> HIDE DEF S
  <2> QED
    BY <2>3, <2>5, <2>6, <2>7
<1> QED
  BY <1>2, <1>3 DEF A!NewestShown

-----------------------------------------------------------------------------
(* Reports. *)

\* Rows of a listing, and the orders of the two listings.
PageRows == [at : Nat, key : Nat]

LEMMA OrderIsStrict ==
  ASSUME NEW q, NEW a \in PageRows, NEW b \in PageRows, NEW c \in PageRows
  PROVE  /\ ~R!Precedes(q, a, a)
         /\ R!Precedes(q, a, b) => ~R!Precedes(q, b, a)
         /\ R!Precedes(q, a, b) /\ R!Precedes(q, b, c) => R!Precedes(q, a, c)
         /\ a # b => R!Precedes(q, a, b) \/ R!Precedes(q, b, a)
<1>1. /\ a.at \in Nat /\ b.at \in Nat /\ c.at \in Nat
      /\ a.key \in Nat /\ b.key \in Nat /\ c.key \in Nat
      /\ a # b => a.at # b.at \/ a.key # b.key
  BY DEF PageRows
<1>2. CASE q.kind = "sessions"
  BY <1>1, <1>2 DEF R!Precedes
<1>3. CASE q.kind # "sessions"
  BY <1>1, <1>3 DEF R!Precedes
<1> QED
  BY <1>2, <1>3

\* Every row is in its place.
LEMMA OrderedRows ==
  ASSUME NEW q, NEW rows \in SUBSET PageRows, IsFiniteSet(rows)
  PROVE  /\ Cardinality(rows) \in Nat
         /\ R!Ordered(q, rows) \in [1..Cardinality(rows) -> rows]
         /\ \A i, j \in 1..Cardinality(rows) :
              i < j => R!Precedes(q, R!Ordered(q, rows)[i], R!Ordered(q, rows)[j])
         /\ \A r \in rows : \E i \in 1..Cardinality(rows) : R!Ordered(q, rows)[i] = r
<1> DEFINE n == Cardinality(rows)
           Ahead(r) == {x \in rows : R!Precedes(q, x, r)}
           rank == [r \in rows |-> Cardinality(Ahead(r)) + 1]
           s == R!Ordered(q, rows)
<1>0. n \in Nat
  BY FS_CardinalityType
<1>1. ASSUME NEW r \in rows
      PROVE  IsFiniteSet(Ahead(r)) /\ Cardinality(Ahead(r)) \in Nat /\ Cardinality(Ahead(r)) < n
  <2>1. r \notin Ahead(r)
    BY OrderIsStrict
  <2>2. Ahead(r) \in SUBSET rows /\ Ahead(r) # rows
    BY <2>1
  <2> HIDE DEF Ahead
  <2>3. IsFiniteSet(Ahead(r)) /\ Cardinality(Ahead(r)) <= n /\ Cardinality(Ahead(r)) # n
    BY <2>2, FS_Subset
  <2>4. Cardinality(Ahead(r)) \in Nat
    BY <2>3, FS_CardinalityType
  <2> QED
    BY <1>0, <2>3, <2>4
<1>2. ASSUME NEW a \in rows, NEW b \in rows, R!Precedes(q, a, b)
      PROVE  Cardinality(Ahead(a)) < Cardinality(Ahead(b))
  <2>1. \A x \in rows : R!Precedes(q, x, a) => R!Precedes(q, x, b)
    BY <1>2, OrderIsStrict
  <2>2. a \in Ahead(b) /\ a \notin Ahead(a)
    BY <1>2, OrderIsStrict
  <2>3. Ahead(a) \in SUBSET Ahead(b) /\ Ahead(a) # Ahead(b)
    BY <2>1, <2>2
  <2>4. IsFiniteSet(Ahead(b)) /\ Cardinality(Ahead(a)) \in Nat /\ Cardinality(Ahead(b)) \in Nat
    BY <1>1
  <2> HIDE DEF Ahead
  <2>5. Cardinality(Ahead(a)) <= Cardinality(Ahead(b)) /\ Cardinality(Ahead(a)) # Cardinality(Ahead(b))
    BY <2>3, <2>4, FS_Subset
  <2> QED
    BY <2>4, <2>5
<1> HIDE DEF Ahead, n
<1>3. rank \in [rows -> 1..n] /\ \A r \in rows : rank[r] = Cardinality(Ahead(r)) + 1
  <2>1. \A r \in rows : Cardinality(Ahead(r)) + 1 \in 1..n
    BY <1>0, <1>1
  <2> QED
    BY <2>1
<1> HIDE DEF rank
<1>4. \A a, b \in rows : rank[a] = rank[b] => a = b
  <2> SUFFICES ASSUME NEW a \in rows, NEW b \in rows, rank[a] = rank[b], a # b PROVE FALSE
    OBVIOUS
  <2>0. a \in PageRows /\ b \in PageRows
    OBVIOUS
  <2>1. R!Precedes(q, a, b) \/ R!Precedes(q, b, a)
    BY <2>0, OrderIsStrict
  <2>2. Cardinality(Ahead(a)) = Cardinality(Ahead(b))
    BY <1>1, <1>3
  <2>3. Cardinality(Ahead(a)) \in Nat /\ Cardinality(Ahead(b)) \in Nat
    BY <1>1
  <2> QED
    BY <1>2, <2>1, <2>2, <2>3
<1>5. \A i \in 1..n : \E r \in rows : rank[r] = i
  <2>1. rank \in Injection(rows, 1..n)
    BY <1>3, <1>4 DEF Injection, IsInjective
  <2>2. IsFiniteSet(1..n) /\ Cardinality(1..n) = n
    BY <1>0, FS_Interval
  <2>3. rank \in Surjection(rows, 1..n)
    BY <2>1, <2>2, FS_Injection DEF n
  <2> QED
    BY <2>3 DEF Surjection
<1>6. /\ s = [i \in 1..n |-> s[i]]
      /\ \A i \in 1..n : s[i] = CHOOSE r \in rows : R!Cardinality(Ahead(r)) = i - 1
  <2>1. s = [i \in 1..R!Cardinality(rows) |-> CHOOSE r \in rows : R!Cardinality(Ahead(r)) = i - 1]
    BY Zenon DEF R!Ordered, Ahead
  <2>2. R!Cardinality(rows) = n
    BY SameSets DEF n
  <2> HIDE DEF s
  <2> QED
    BY <2>1, <2>2
<1> HIDE DEF s
<1>7. ASSUME NEW i \in 1..n PROVE s[i] \in rows /\ rank[s[i]] = i
  <2>1. PICK r \in rows : rank[r] = i
    BY <1>5
  <2>2. Cardinality(Ahead(r)) = i - 1
    BY <1>1, <1>3, <2>1
  <2>3. s[i] \in rows /\ R!Cardinality(Ahead(s[i])) = i - 1
    <3>1. R!Cardinality(Ahead(r)) = i - 1
      BY <2>2, SameSets
    <3> QED
      BY <1>6, <3>1
  <2>4. Cardinality(Ahead(s[i])) = i - 1
    BY <2>3, SameSets
  <2> QED
    BY <1>0, <1>3, <2>3, <2>4
<1>8. s \in [1..n -> rows]
  BY <1>6, <1>7
<1>9. ASSUME NEW i \in 1..n, NEW j \in 1..n, i < j PROVE R!Precedes(q, s[i], s[j])
  <2>1. s[i] \in rows /\ s[j] \in rows /\ rank[s[i]] = i /\ rank[s[j]] = j
    BY <1>7
  <2>2. s[i] # s[j] /\ s[i] \in PageRows /\ s[j] \in PageRows
    BY <1>9, <2>1
  <2>3. ~R!Precedes(q, s[j], s[i])
    <3>1. ASSUME R!Precedes(q, s[j], s[i]) PROVE FALSE
      <4>1. Cardinality(Ahead(s[j])) < Cardinality(Ahead(s[i]))
        BY <1>2, <2>1, <3>1
      <4>2. Cardinality(Ahead(s[j])) + 1 = j /\ Cardinality(Ahead(s[i])) + 1 = i
        BY <1>3, <2>1
      <4>3. Cardinality(Ahead(s[j])) \in Nat /\ Cardinality(Ahead(s[i])) \in Nat
        BY <1>1, <2>1
      <4> QED
        BY <1>9, <4>1, <4>2, <4>3
    <3> QED
      BY <3>1
  <2> QED
    BY <2>2, <2>3, OrderIsStrict
<1>10. ASSUME NEW r \in rows PROVE \E i \in 1..n : s[i] = r
  <2>1. rank[r] \in 1..n
    BY <1>3
  <2> QED
    BY <1>4, <1>7, <2>1
<1> QED
  BY <1>0, <1>8, <1>9, <1>10 DEF n, s

\* What a reader is told of a row does not change its place.
RowTold(x) == [at |-> x.at, key |-> x.key]

KeyOf(q, e) == IF q.kind = "sessions" THEN e.session ELSE e.id
Possible(q) == {[at |-> e.at, key |-> KeyOf(q, e)] : e \in Events}

LEMMA PossibleRows ==
  ASSUME R!ReportsAssumption, NEW q
  PROVE  /\ Possible(q) \subseteq PageRows
         /\ IsFiniteSet(Possible(q)) /\ Cardinality(Possible(q)) <= Cardinality(Events)
<1>1. Possible(q) \subseteq PageRows
  BY DEF Possible, PageRows, KeyOf, R!ReportsAssumption
<1>2. [e \in Events |-> [at |-> e.at, key |-> KeyOf(q, e)]] \in Surjection(Events, Possible(q))
  BY DEF Surjection, Possible
<1>3. IsFiniteSet(Events)
  BY SameSets DEF R!ReportsAssumption
<1> QED
  BY <1>1, <1>2, <1>3, FS_Surjection

\* The last event of a session that has one in the window.
LEMMA LastOfSession ==
  ASSUME R!ReportsAssumption, NEW all \in SUBSET Events, NEW q, NEW scope, NEW s,
         R!SessionEvents(all, q, scope, s) # {}
  PROVE  \E e \in R!SessionEvents(all, q, scope, s) :
           /\ R!Max({f.at : f \in R!SessionEvents(all, q, scope, s)}) = e.at
           /\ \A f \in R!SessionEvents(all, q, scope, s) : f.at <= e.at
<1> DEFINE S == R!SessionEvents(all, q, scope, s)
           times == {f.at : f \in S}
<1>1. S \subseteq Events /\ S # {}
  BY DEF R!SessionEvents
<1> HIDE DEF S
<1>2. IsFiniteSet(S) /\ InTime(S)
  <2>1. IsFiniteSet(Events)
    BY SameSets DEF R!ReportsAssumption
  <2> QED
    BY <1>1, <2>1, FS_Subset DEF InTime, R!ReportsAssumption
<1>3. times \in SUBSET Nat /\ times # {} /\ IsFiniteSet(times)
  BY <1>1, <1>2, TimesAreFinite
<1> HIDE DEF times
<1>4. PICK n \in Nat : \A t \in times : t <= n
  BY <1>3, FiniteIsBounded
<1>5. PICK t \in times : \A u \in times : u <= t
  BY <1>3, <1>4, Greatest
<1>6. R!Max(times) \in times /\ \A u \in times : R!Max(times) >= u
  <2>1. \A u \in times : t >= u
    BY <1>3, <1>5
  <2> QED
    BY <2>1 DEF R!Max
<1>7. PICK e \in S : R!Max(times) = e.at
  BY <1>6 DEF times
<1>8. ASSUME NEW f \in S PROVE f.at <= e.at
  <2>1. f.at \in times /\ e.at \in Nat /\ f.at \in Nat
    BY <1>2 DEF times, InTime
  <2> QED
    BY <1>6, <1>7, <2>1
<1> QED
  BY <1>7, <1>8 DEF S, times

LEMMA SessionRow ==
  ASSUME R!ReportsAssumption, NEW all \in SUBSET Events, NEW q, NEW scope,
         NEW r \in R!SessionRows(all, q, scope)
  PROVE  /\ r = [at |-> r.at, key |-> r.key]
         /\ \E e \in R!SessionEvents(all, q, scope, r.key) : r.at = e.at
         /\ \A f \in R!SessionEvents(all, q, scope, r.key) : f.at <= r.at
<1>1. PICK s : /\ R!SessionEvents(all, q, scope, s) # {}
               /\ r = [at |-> R!Max({f.at : f \in R!SessionEvents(all, q, scope, s)}), key |-> s]
  BY DEF R!SessionRows
<1>2. PICK e \in R!SessionEvents(all, q, scope, s) :
           /\ R!Max({f.at : f \in R!SessionEvents(all, q, scope, s)}) = e.at
           /\ \A f \in R!SessionEvents(all, q, scope, s) : f.at <= e.at
  BY <1>1, LastOfSession
<1>3. r = [at |-> e.at, key |-> s]
  BY <1>1, <1>2
<1> QED
  BY <1>2, <1>3

LEMMA RowsArePossible ==
  ASSUME R!ReportsAssumption, NEW all \in SUBSET Events, NEW q, NEW scope
  PROVE  R!RowsOf(all, q, scope) \subseteq Possible(q)
<1>1. CASE q.kind = "sessions"
  <2>1. ASSUME NEW r \in R!SessionRows(all, q, scope) PROVE r \in Possible(q)
    <3>1. PICK e \in R!SessionEvents(all, q, scope, r.key) : r.at = e.at /\ r = [at |-> r.at, key |-> r.key]
      BY SessionRow
    <3>2. e \in Events /\ e.session = r.key
      BY DEF R!SessionEvents
    <3>3. r = [at |-> e.at, key |-> e.session]
      BY <3>1, <3>2
    <3> QED
      BY <1>1, <3>2, <3>3 DEF Possible, KeyOf
  <2> QED
    BY <1>1, <2>1 DEF R!RowsOf
<1>2. CASE q.kind # "sessions"
  BY <1>2 DEF R!RowsOf, R!TimelineRows, Possible, KeyOf
<1> QED
  BY <1>1, <1>2

\* A page has the next rows in their order; what is left out is behind its cursor.
Left(q, scope, cur) == {r \in R!RowsOf(events, q, scope) : R!Behind(q, cur, r)}

LEMMA PageFacts ==
  ASSUME R!ReportsAssumption, events \subseteq Events, NEW q, NEW scope, NEW cur
  PROVE  LET p == R!Page(q, scope, cur)
         IN  /\ p.rows \in Seq(Left(q, scope, cur))
             /\ \A i, j \in DOMAIN p.rows : i < j => R!Precedes(q, p.rows[i], p.rows[j])
             /\ p.next = NoPage =>
                  \A r \in Left(q, scope, cur) : \E i \in DOMAIN p.rows : p.rows[i] = r
             /\ p.next # NoPage =>
                  /\ p.next \in Left(q, scope, cur)
                  /\ \A i \in DOMAIN p.rows : p.rows[i] = p.next \/ R!Precedes(q, p.rows[i], p.next)
                  /\ \A r \in Left(q, scope, cur) :
                       (\E i \in DOMAIN p.rows : p.rows[i] = r) \/ R!Precedes(q, p.next, r)
<1> DEFINE p == R!Page(q, scope, cur)
           S == Left(q, scope, cur)
           n == Cardinality(S)
           s == R!Ordered(q, S)
           m == R!Min({Limit, Len(s)})
<1>1. S \in SUBSET PageRows /\ IsFiniteSet(S)
  <2>1. S \in SUBSET Possible(q)
    BY RowsArePossible DEF Left
  <2> HIDE DEF S
  <2> QED
    BY <2>1, PossibleRows, FS_Subset
<1> HIDE DEF S
<1>2. /\ n \in Nat /\ s \in [1..n -> S]
      /\ \A i, j \in 1..n : i < j => R!Precedes(q, s[i], s[j])
      /\ \A r \in S : \E i \in 1..n : s[i] = r
  BY <1>1, OrderedRows
<1>3. p = [rows |-> SubSeq(s, 1, m), next |-> IF Len(s) > Limit THEN SubSeq(s, 1, m)[Limit] ELSE NoPage]
  BY DEF R!Page, Left, S
<1> HIDE DEF p, s, n
<1>4. s \in Seq(S) /\ Len(s) = n
  BY <1>2
<1>5. Limit \in Nat /\ Limit # 0
  BY DEF R!ReportsAssumption
<1>6. m \in Nat /\ m <= n /\ (n > Limit => m = Limit) /\ (n <= Limit => m = n)
  <2>1. CASE n > Limit
    <3>1. m = Limit
      BY <1>2, <1>4, <1>5, <2>1 DEF R!Min
    <3> QED
      BY <1>2, <1>5, <2>1, <3>1
  <2>2. CASE n <= Limit
    <3>1. m = n
      BY <1>2, <1>4, <1>5, <2>2 DEF R!Min
    <3> QED
      BY <1>2, <1>5, <2>2, <3>1
  <2> QED
    BY <1>2, <1>5, <2>1, <2>2
<1> HIDE DEF m
<1>7. /\ p.rows \in Seq(S) /\ DOMAIN p.rows = 1..m
      /\ \A i \in 1..m : p.rows[i] = s[i]
  <2>1. /\ SubSeq(s, 1, m) \in Seq(S) /\ Len(SubSeq(s, 1, m)) = m
        /\ \A i \in 1..m : SubSeq(s, 1, m)[i] = s[i]
    BY <1>2, <1>4, <1>6
  <2> QED
    BY <1>3, <2>1
<1>8. CASE n <= Limit
  <2>1. p.next = NoPage /\ m = n
    BY <1>2, <1>3, <1>4, <1>5, <1>6, <1>8
  <2> QED
    BY <1>2, <1>7, <2>1 DEF p, S
<1>9. CASE n > Limit
  <2>1. m = Limit /\ p.next = s[m] /\ m \in 1..n
    BY <1>2, <1>3, <1>4, <1>5, <1>6, <1>7, <1>9
  <2>2. p.next \in S /\ p.next \in PageRows
    BY <1>1, <1>2, <2>1
  <2>3. p.next # NoPage
    BY <2>2 DEF R!ReportsAssumption, PageRows
  <2>4. \A i \in 1..m : s[i] = s[m] \/ R!Precedes(q, s[i], s[m])
    BY <1>2, <2>1
  <2>5. ASSUME NEW r \in S
        PROVE  (\E i \in 1..m : s[i] = r) \/ R!Precedes(q, s[m], r)
    <3>1. PICK i \in 1..n : s[i] = r
      BY <1>2
    <3>2. i \in 1..m \/ m < i
      BY <1>2, <1>6
    <3> QED
      BY <1>2, <2>1, <3>1, <3>2
  <2> QED
    <3>1. \A i, j \in DOMAIN p.rows : i < j => R!Precedes(q, p.rows[i], p.rows[j])
      BY <1>2, <1>7, <2>1
    <3>2. \A i \in DOMAIN p.rows : p.rows[i] = p.next \/ R!Precedes(q, p.rows[i], p.next)
      BY <1>7, <2>1, <2>4
    <3>3. \A r \in S : (\E i \in DOMAIN p.rows : p.rows[i] = r) \/ R!Precedes(q, p.next, r)
      BY <1>7, <2>1, <2>5
    <3> QED
      BY <1>7, <2>2, <2>3, <3>1, <3>2, <3>3 DEF p, S
<1> QED
  BY <1>2, <1>5, <1>8, <1>9

-----------------------------------------------------------------------------
(* A reader's listing. *)

\* The lines are different rows in their order.
InOrder(q, lines) ==
  /\ \E S : lines \in Seq(S)
  /\ \A i \in DOMAIN lines : RowTold(lines[i]) \in Possible(q)
  /\ \A i, j \in DOMAIN lines : i < j => R!Precedes(q, lines[i], lines[j])

KeysOf(lines) == {lines[i].key : i \in DOMAIN lines}

\* What is still to come is behind the cursor.
AllShown(lines, rows) == \A r \in rows : r.key \in KeysOf(lines)
RestBehind(q, lines, cur, rows) ==
  /\ cur \in Possible(q)
  /\ \A i \in DOMAIN lines : RowTold(lines[i]) = cur \/ R!Precedes(q, lines[i], cur)
  /\ \A r \in rows : r.key \in KeysOf(lines) \/ R!Precedes(q, cur, r)

\* A session that was shown has not got older.
NoneOlder(q, scope, lines) ==
  q.kind = "sessions" =>
    \A i \in DOMAIN lines :
      \E e \in R!SessionEvents(events, q, scope, lines[i].key) : e.at >= lines[i].at

NoneTwice(lines) == \A i, j \in DOMAIN lines : lines[i].key = lines[j].key => i = j

Reading ==
  /\ DOMAIN reader = {"step", "query", "scope", "cursor", "shown", "steady", "changes"}
  /\ reader.step \in {"more", "done", "refused"} /\ reader.query \in Queries
  /\ InOrder(reader.query, reader.shown)
  /\ reader.steady \subseteq R!RowsOf(events, reader.query, reader.scope)
  /\ reader.step = "more" => RestBehind(reader.query, reader.shown, reader.cursor, reader.steady)
  /\ reader.step = "done" => AllShown(reader.shown, reader.steady)
  /\ "trimmed" \notin reader.changes =>
       NoneTwice(reader.shown) /\ NoneOlder(reader.query, reader.scope, reader.shown)

ReportsInv ==
  /\ clock \in 0..MaxClock /\ events \subseteq Events
  /\ reader = R!Nobody \/ Reading

\* What is told of rows is in their order as they are.
LEMMA ToldInOrder ==
  ASSUME NEW q, NEW scope, NEW rows, NEW S, rows \in Seq(S), S \subseteq Possible(q),
         Possible(q) \subseteq PageRows,
         \A i, j \in DOMAIN rows : i < j => R!Precedes(q, rows[i], rows[j])
  PROVE  /\ InOrder(q, R!Told(q, scope, rows))
         /\ DOMAIN R!Told(q, scope, rows) = DOMAIN rows
         /\ \A i \in DOMAIN rows : RowTold(R!Told(q, scope, rows)[i]) = rows[i]
         /\ \A i \in DOMAIN rows : /\ R!Told(q, scope, rows)[i].key = rows[i].key
                                   /\ R!Told(q, scope, rows)[i].at = rows[i].at
<1> DEFINE lines == R!Told(q, scope, rows)
<1>1. /\ DOMAIN lines = DOMAIN rows
      /\ \A i \in DOMAIN rows : lines[i].key = rows[i].key /\ lines[i].at = rows[i].at
  BY DEF R!Told
<1>2. \E Z : lines \in Seq(Z)
  <2> DEFINE Z == {lines[i] : i \in 1..Len(rows)}
  <2>1. Len(rows) \in Nat /\ DOMAIN rows = 1..Len(rows)
    OBVIOUS
  <2>2. lines \in [1..Len(rows) -> Z]
    <3>1. lines = [i \in 1..Len(rows) |-> lines[i]]
      BY <2>1 DEF R!Told
    <3> HIDE DEF lines
    <3> QED
      BY <3>1
  <2> HIDE DEF lines, Z
  <2>3. lines \in Seq(Z)
    BY <2>1, <2>2
  <2> QED
    BY <2>3
<1> HIDE DEF lines
<1>3. ASSUME NEW i \in DOMAIN rows PROVE rows[i] \in Possible(q) /\ RowTold(lines[i]) = rows[i]
  <2>1. rows[i] \in Possible(q) /\ rows[i] \in PageRows
    OBVIOUS
  <2> QED
    BY <1>1, <2>1 DEF RowTold, PageRows
<1>4. \A i, j \in DOMAIN rows : i < j => R!Precedes(q, lines[i], lines[j])
  <2>1. ASSUME NEW i \in DOMAIN rows, NEW j \in DOMAIN rows, i < j
        PROVE  R!Precedes(q, lines[i], lines[j])
    <3>1. R!Precedes(q, rows[i], rows[j])
      BY <2>1
    <3> QED
      BY <1>1, <3>1 DEF R!Precedes
  <2> QED
    BY <2>1
<1> QED
  BY <1>1, <1>2, <1>3, <1>4 DEF InOrder, lines

LEMMA LinesAreFew ==
  ASSUME R!ReportsAssumption, NEW q, NEW lines, InOrder(q, lines)
  PROVE  Len(lines) \in Nat /\ DOMAIN lines = 1..Len(lines) /\ Len(lines) <= Cardinality(Events)
<1>1. Len(lines) \in Nat /\ DOMAIN lines = 1..Len(lines)
  BY DEF InOrder
<1>2. Possible(q) \subseteq PageRows /\ IsFiniteSet(Possible(q)) /\ Cardinality(Possible(q)) <= Cardinality(Events)
  BY PossibleRows
<1> DEFINE f == [i \in 1..Len(lines) |-> RowTold(lines[i])]
<1>3. f \in [1..Len(lines) -> Possible(q)] /\ \A i \in 1..Len(lines) : f[i] = RowTold(lines[i])
  BY <1>1 DEF InOrder
<1> HIDE DEF f
<1>4. ASSUME NEW i \in 1..Len(lines), NEW j \in 1..Len(lines), i < j PROVE f[i] # f[j]
  <2>1. R!Precedes(q, f[i], f[j])
    <3>1. R!Precedes(q, lines[i], lines[j])
      BY <1>1, <1>4 DEF InOrder
    <3>2. /\ f[i].at = lines[i].at /\ f[i].key = lines[i].key
          /\ f[j].at = lines[j].at /\ f[j].key = lines[j].key
      BY <1>3 DEF RowTold
    <3> QED
      BY <3>1, <3>2 DEF R!Precedes
  <2>2. f[i] \in PageRows
    BY <1>2, <1>3
  <2> QED
    BY <2>1, <2>2, OrderIsStrict
<1>5. \A i, j \in 1..Len(lines) : f[i] = f[j] => i = j
  BY <1>1, <1>4
<1>6. f \in Injection(1..Len(lines), Possible(q))
  BY <1>3, <1>5 DEF Injection, IsInjective
<1>7. Cardinality(1..Len(lines)) <= Cardinality(Possible(q)) /\ Cardinality(1..Len(lines)) = Len(lines)
  BY <1>1, <1>2, <1>6, FS_Injection, FS_Interval
<1>8. Cardinality(Possible(q)) \in Nat /\ Cardinality(Events) \in Nat
  <2>1. IsFiniteSet(Events)
    BY SameSets DEF R!ReportsAssumption
  <2> QED
    BY <1>2, <2>1, FS_CardinalityType
<1> QED
  BY <1>1, <1>2, <1>7, <1>8

\* The rows of a timeline are named by their events.
LEMMA EventsOnce ==
  ASSUME R!ReportsAssumption, NEW q, NEW lines, InOrder(q, lines), q.kind # "sessions"
  PROVE  NoneTwice(lines)
<1>1. Len(lines) \in Nat /\ DOMAIN lines = 1..Len(lines)
  BY DEF InOrder
<1>2. ASSUME NEW i \in DOMAIN lines, NEW j \in DOMAIN lines, i < j, lines[i].key = lines[j].key
      PROVE  FALSE
  <2>1. PICK e \in Events : lines[i].at = e.at /\ lines[i].key = e.id
    BY DEF InOrder, Possible, KeyOf, RowTold
  <2>2. PICK d \in Events : lines[j].at = d.at /\ lines[j].key = d.id
    BY DEF InOrder, Possible, KeyOf, RowTold
  <2>3. e = d
    BY <1>2, <2>1, <2>2 DEF R!ReportsAssumption
  <2>4. e.at \in Nat /\ e.id \in Nat
    BY DEF R!ReportsAssumption
  <2>5. R!Precedes(q, lines[i], lines[j])
    BY <1>2 DEF InOrder
  <2> QED
    BY <2>1, <2>2, <2>3, <2>4, <2>5 DEF R!Precedes
<1> QED
  BY <1>1, <1>2 DEF NoneTwice

\* A session that was not shown twice, and has not got older, is not shown again
\* as long as the lines that are added tell of its last event.
LEMMA SessionsOnce ==
  ASSUME R!ReportsAssumption, events \subseteq Events, NEW q, NEW scope, NEW lines, NEW k \in Nat,
         q.kind = "sessions", InOrder(q, lines), NoneOlder(q, scope, lines),
         \A i, j \in DOMAIN lines : i <= k /\ j <= k /\ lines[i].key = lines[j].key => i = j,
         \A j \in DOMAIN lines : j > k =>
           \A f \in R!SessionEvents(events, q, scope, lines[j].key) : f.at <= lines[j].at
  PROVE  NoneTwice(lines)
<1>1. Len(lines) \in Nat /\ DOMAIN lines = 1..Len(lines)
  BY DEF InOrder
<1>2. ASSUME NEW i \in DOMAIN lines, NEW j \in DOMAIN lines, i < j, lines[i].key = lines[j].key
      PROVE  FALSE
  <2>1. j > k
    BY <1>1, <1>2
  <2>2. PICK e \in R!SessionEvents(events, q, scope, lines[i].key) : e.at >= lines[i].at
    BY DEF NoneOlder
  <2>3. e.at <= lines[j].at
    BY <1>2, <2>1, <2>2
  <2>4. RowTold(lines[i]) \in PageRows /\ RowTold(lines[j]) \in PageRows
    BY PossibleRows DEF InOrder
  <2>5. lines[i].at \in Nat /\ lines[j].at \in Nat /\ lines[i].key \in Nat
    BY <2>4 DEF RowTold, PageRows
  <2>6. e.at \in Nat
    BY DEF R!SessionEvents, R!ReportsAssumption
  <2>7. R!Precedes(q, lines[i], lines[j])
    BY <1>2 DEF InOrder
  <2> QED
    BY <1>2, <2>2, <2>3, <2>5, <2>6, <2>7 DEF R!Precedes
<1> QED
  BY <1>1, <1>2 DEF NoneTwice

\* What a session's line tells is true.
LEMMA LinesOfNow ==
  ASSUME R!ReportsAssumption, events \subseteq Events, NEW q, NEW scope, q.kind = "sessions",
         NEW r \in R!RowsOf(events, q, scope)
  PROVE  /\ \E e \in R!SessionEvents(events, q, scope, r.key) : e.at >= r.at
         /\ \A f \in R!SessionEvents(events, q, scope, r.key) : f.at <= r.at
<1>1. r \in R!SessionRows(events, q, scope)
  BY DEF R!RowsOf
<1>2. PICK e \in R!SessionEvents(events, q, scope, r.key) : r.at = e.at
  BY <1>1, SessionRow
<1>3. e.at \in Nat
  BY DEF R!SessionEvents, R!ReportsAssumption
<1> QED
  BY <1>1, <1>2, <1>3, SessionRow

\* A page after others, with their cursor between them.
Between(q, a, cur, b, c) ==
  /\ c = a \o b
  /\ InOrder(q, a) /\ InOrder(q, b)
  /\ Possible(q) \subseteq PageRows /\ cur \in Possible(q)
  /\ \A i \in DOMAIN a : RowTold(a[i]) = cur \/ R!Precedes(q, a[i], cur)
  /\ \A i \in DOMAIN b : R!Precedes(q, cur, b[i])

LEMMA Concatenated ==
  ASSUME NEW q, NEW a, NEW b, NEW c, NEW cur, Between(q, a, cur, b, c)
  PROVE  /\ InOrder(q, c)
         /\ DOMAIN c = 1..(Len(a) + Len(b))
         /\ Len(a) \in Nat /\ DOMAIN a = 1..Len(a) /\ Len(b) \in Nat /\ DOMAIN b = 1..Len(b)
         /\ \A i \in 1..Len(a) : c[i] = a[i]
         /\ \A i \in 1..Len(b) : c[i + Len(a)] = b[i]
         /\ \A i \in DOMAIN c : i > Len(a) => \E j \in DOMAIN b : c[i] = b[j]
         /\ KeysOf(c) = KeysOf(a) \cup KeysOf(b)
<1>0. /\ InOrder(q, a) /\ InOrder(q, b) /\ Possible(q) \subseteq PageRows /\ cur \in Possible(q)
      /\ c = a \o b
      /\ \A i \in DOMAIN a : RowTold(a[i]) = cur \/ R!Precedes(q, a[i], cur)
      /\ \A i \in DOMAIN b : R!Precedes(q, cur, b[i])
  BY DEF Between
<1>1. PICK A1 : a \in Seq(A1)
  BY <1>0 DEF InOrder
<1>2. PICK B1 : b \in Seq(B1)
  BY <1>0 DEF InOrder
<1> DEFINE Z == A1 \cup B1
<1>3. a \in Seq(Z) /\ b \in Seq(Z)
  BY <1>1, <1>2
<1> HIDE DEF Z
<1>4. /\ c \in Seq(Z) /\ DOMAIN c = 1..(Len(a) + Len(b))
      /\ Len(a) \in Nat /\ DOMAIN a = 1..Len(a) /\ Len(b) \in Nat /\ DOMAIN b = 1..Len(b)
      /\ \A i \in 1..Len(a) : c[i] = a[i]
      /\ \A i \in 1..Len(b) : c[i + Len(a)] = b[i]
  BY <1>0, <1>3
<1>5. ASSUME NEW i \in DOMAIN c, i > Len(a) PROVE i - Len(a) \in DOMAIN b /\ c[i] = b[i - Len(a)]
  <2>1. i \in Nat /\ i - Len(a) \in 1..Len(b)
    BY <1>4, <1>5
  <2>2. (i - Len(a)) + Len(a) = i
    BY <1>4, <2>1
  <2> QED
    BY <1>4, <2>1, <2>2
<1>6. ASSUME NEW i \in DOMAIN c, ~(i > Len(a)) PROVE i \in DOMAIN a /\ c[i] = a[i]
  BY <1>4, <1>6
<1>7. \A i \in DOMAIN c : RowTold(c[i]) \in Possible(q)
  BY <1>0, <1>5, <1>6 DEF InOrder
<1>8. ASSUME NEW i \in DOMAIN c, NEW j \in DOMAIN c, i < j PROVE R!Precedes(q, c[i], c[j])
  <2>0. i \in Nat /\ j \in Nat
    BY <1>4
  <2>1. CASE j <= Len(a)
    <3>1. i \in DOMAIN a /\ j \in DOMAIN a /\ c[i] = a[i] /\ c[j] = a[j]
      BY <1>4, <1>8, <2>0, <2>1
    <3> QED
      BY <1>0, <1>8, <3>1 DEF InOrder
  <2>2. CASE i > Len(a)
    <3>1. /\ i - Len(a) \in DOMAIN b /\ c[i] = b[i - Len(a)]
          /\ j - Len(a) \in DOMAIN b /\ c[j] = b[j - Len(a)]
      BY <1>4, <1>5, <1>8, <2>0, <2>2
    <3>2. i - Len(a) < j - Len(a)
      BY <1>4, <1>8, <2>0
    <3> QED
      BY <1>0, <3>1, <3>2 DEF InOrder
  <2>3. CASE i <= Len(a) /\ j > Len(a)
    <3>1. i \in DOMAIN a /\ c[i] = a[i]
      BY <1>4, <1>6, <2>0, <2>3
    <3>2. R!Precedes(q, cur, c[j])
      BY <1>0, <1>5, <2>3
    <3>3. RowTold(c[i]) = cur \/ R!Precedes(q, RowTold(c[i]), cur)
      BY <1>0, <3>1 DEF R!Precedes, RowTold
    <3>4. R!Precedes(q, cur, RowTold(c[j]))
      BY <3>2 DEF R!Precedes, RowTold
    <3>5. RowTold(c[i]) \in PageRows /\ RowTold(c[j]) \in PageRows /\ cur \in PageRows
      BY <1>0, <1>7
    <3>6. R!Precedes(q, RowTold(c[i]), RowTold(c[j]))
      BY <3>3, <3>4, <3>5, OrderIsStrict
    <3> QED
      BY <3>6 DEF R!Precedes, RowTold
  <2> QED
    BY <1>4, <2>0, <2>1, <2>2, <2>3
<1>9. InOrder(q, c)
  BY <1>4, <1>7, <1>8 DEF InOrder
<1>10. KeysOf(c) = KeysOf(a) \cup KeysOf(b)
  <2>1. ASSUME NEW i \in DOMAIN a PROVE a[i].key \in KeysOf(c)
    BY <1>4 DEF KeysOf
  <2>2. ASSUME NEW i \in DOMAIN b PROVE b[i].key \in KeysOf(c)
    <3>1. i + Len(a) \in DOMAIN c /\ c[i + Len(a)] = b[i]
      BY <1>4
    <3> QED
      BY <3>1 DEF KeysOf
  <2>3. ASSUME NEW i \in DOMAIN c PROVE c[i].key \in KeysOf(a) \cup KeysOf(b)
    BY <1>5, <1>6 DEF KeysOf
  <2>4. KeysOf(c) \subseteq KeysOf(a) \cup KeysOf(b)
    BY <2>3, Zenon DEF KeysOf
  <2>5. KeysOf(a) \subseteq KeysOf(c) /\ KeysOf(b) \subseteq KeysOf(c)
    BY <2>1, <2>2, Zenon DEF KeysOf
  <2> QED
    BY <2>4, <2>5
<1>11. \A i \in DOMAIN c : i > Len(a) => \E j \in DOMAIN b : c[i] = b[j]
  BY <1>5
<1> QED
  BY <1>4, <1>9, <1>10, <1>11

-----------------------------------------------------------------------------
(* The actions. *)

LEMMA FirstPageKeeps ==
  ASSUME R!ReportsAssumption, ReportsInv, NEW q \in Queries, R!FirstPage(q)
  PROVE  ReportsInv'
<1>a. PICK scope : scope = R!Scope(q)
  OBVIOUS
<1>b. PICK p : p = R!Page(q, scope, NoPage)
  OBVIOUS
<1>c. PICK lines : lines = R!Told(q, scope, p.rows)
  OBVIOUS
<1>d. PICK S : S = Left(q, scope, NoPage)
  OBVIOUS
<1>1. /\ reader' = [step |-> R!StepAfter(p), query |-> q, scope |-> scope, cursor |-> p.next,
                    shown |-> lines, steady |-> R!RowsOf(events, q, scope), changes |-> {}]
      /\ UNCHANGED <<clock, events>>
  BY <1>a, <1>b, <1>c DEF R!FirstPage
<1>2. events \subseteq Events /\ clock \in 0..MaxClock
  BY DEF ReportsInv
<1>3. S = R!RowsOf(events, q, scope)
  BY <1>d DEF Left, R!Behind
<1>4. S \subseteq Possible(q) /\ Possible(q) \subseteq PageRows
  BY <1>2, <1>3, RowsArePossible, PossibleRows
<1>5. /\ p.rows \in Seq(S)
      /\ \A i, j \in DOMAIN p.rows : i < j => R!Precedes(q, p.rows[i], p.rows[j])
      /\ p.next = NoPage => \A r \in S : \E i \in DOMAIN p.rows : p.rows[i] = r
      /\ p.next # NoPage =>
           /\ p.next \in S
           /\ \A i \in DOMAIN p.rows : p.rows[i] = p.next \/ R!Precedes(q, p.rows[i], p.next)
           /\ \A r \in S : (\E i \in DOMAIN p.rows : p.rows[i] = r) \/ R!Precedes(q, p.next, r)
  BY <1>b, <1>d, <1>2, PageFacts
<1>6. /\ InOrder(q, lines) /\ DOMAIN lines = DOMAIN p.rows
      /\ \A i \in DOMAIN p.rows : RowTold(lines[i]) = p.rows[i]
      /\ \A i \in DOMAIN p.rows : lines[i].key = p.rows[i].key /\ lines[i].at = p.rows[i].at
  BY <1>4, <1>5, <1>c, ToldInOrder
<1>7. \A r \in S : (\E i \in DOMAIN p.rows : p.rows[i] = r) => r.key \in KeysOf(lines)
  BY <1>6 DEF KeysOf
<1>8. p.next = NoPage => AllShown(lines, S)
  BY <1>5, <1>7 DEF AllShown
<1>9. p.next # NoPage => RestBehind(q, lines, p.next, S)
  <2> SUFFICES ASSUME p.next # NoPage PROVE RestBehind(q, lines, p.next, S)
    OBVIOUS
  <2>1. ASSUME NEW i \in DOMAIN lines PROVE RowTold(lines[i]) = p.next \/ R!Precedes(q, lines[i], p.next)
    <3>1. p.rows[i] = p.next \/ R!Precedes(q, p.rows[i], p.next)
      BY <1>5, <1>6
    <3>2. R!Precedes(q, p.rows[i], p.next) => R!Precedes(q, lines[i], p.next)
      BY <1>6 DEF R!Precedes
    <3> QED
      BY <1>6, <3>1, <3>2
  <2> QED
    BY <1>4, <1>5, <1>7, <2>1 DEF RestBehind
<1>10. ASSUME q.kind = "sessions", NEW i \in DOMAIN lines
       PROVE  /\ \E e \in R!SessionEvents(events, q, scope, lines[i].key) : e.at >= lines[i].at
              /\ \A f \in R!SessionEvents(events, q, scope, lines[i].key) : f.at <= lines[i].at
  <2>1. p.rows[i] \in R!RowsOf(events, q, scope)
    BY <1>3, <1>5, <1>6
  <2> QED
    BY <1>2, <1>6, <1>10, <2>1, LinesOfNow
<1>11. NoneOlder(q, scope, lines)
  BY <1>10 DEF NoneOlder
<1>12. NoneTwice(lines)
  <2>1. CASE q.kind = "sessions"
    <3>1. Len(lines) \in Nat /\ DOMAIN lines = 1..Len(lines)
      BY <1>6, LinesAreFew
    <3>2. \A i, j \in DOMAIN lines : i <= 0 /\ j <= 0 /\ lines[i].key = lines[j].key => i = j
      BY <3>1
    <3>3. \A j \in DOMAIN lines : j > 0 =>
            \A f \in R!SessionEvents(events, q, scope, lines[j].key) : f.at <= lines[j].at
      BY <1>10, <2>1
    <3> QED
      BY <1>2, <1>6, <1>11, <2>1, <3>2, <3>3, SessionsOnce
  <2> QED
    BY <1>6, <2>1, EventsOnce
<1>13. /\ reader'.query = q /\ reader'.scope = scope /\ reader'.cursor = p.next /\ reader'.shown = lines
       /\ reader'.steady = S /\ reader'.step = R!StepAfter(p)
       /\ DOMAIN reader' = {"step", "query", "scope", "cursor", "shown", "steady", "changes"}
  BY <1>1, <1>3
<1>14. /\ reader'.step \in {"more", "done", "refused"}
       /\ reader'.step = "more" => p.next # NoPage
       /\ reader'.step = "done" => p.next = NoPage
  BY <1>13 DEF R!StepAfter
<1>15. reader'.steady \subseteq R!RowsOf(events', q, scope)
  BY <1>1, <1>3, <1>13
<1>16. NoneOlder(q, scope, lines)'
  BY <1>1, <1>11 DEF NoneOlder
<1>17. Reading'
  BY <1>6, <1>8, <1>9, <1>12, <1>13, <1>14, <1>15, <1>16 DEF Reading
<1> QED
  BY <1>1, <1>2, <1>17 DEF ReportsInv

LEMMA NextPageKeeps ==
  ASSUME R!ReportsAssumption, ReportsInv, R!NextPage
  PROVE  ReportsInv'
<1>0. reader.step = "more" /\ Reading /\ UNCHANGED <<clock, events>>
  BY DEF R!NextPage, ReportsInv, R!Nobody
<1>a. PICK q, scope, cur, a, old :
        q = reader.query /\ scope = reader.scope /\ cur = reader.cursor /\ a = reader.shown /\ old = reader.steady
  OBVIOUS
<1>b. PICK p : p = R!Page(q, scope, cur)
  OBVIOUS
<1>c. PICK b : b = R!Told(q, scope, p.rows)
  OBVIOUS
<1>d. PICK S : S = Left(q, scope, cur)
  OBVIOUS
<1>1. events \subseteq Events /\ clock \in 0..MaxClock
  BY DEF ReportsInv
<1>2. /\ InOrder(q, a) /\ old \subseteq R!RowsOf(events, q, scope) /\ q \in Queries
      /\ RestBehind(q, a, cur, old)
      /\ "trimmed" \notin reader.changes => NoneTwice(a) /\ NoneOlder(q, scope, a)
  BY <1>0, <1>a DEF Reading
<1>3. Possible(q) \subseteq PageRows /\ R!RowsOf(events, q, scope) \subseteq Possible(q)
  BY <1>1, RowsArePossible, PossibleRows
<1>4. cur \in Possible(q) /\ cur # NoPage
  BY <1>2, <1>3 DEF RestBehind, R!ReportsAssumption, PageRows
<1>5. S = {r \in R!RowsOf(events, q, scope) : R!Precedes(q, cur, r)}
  BY <1>4, <1>d DEF Left, R!Behind
<1>6. /\ p.rows \in Seq(S)
      /\ \A i, j \in DOMAIN p.rows : i < j => R!Precedes(q, p.rows[i], p.rows[j])
      /\ p.next = NoPage => \A r \in S : \E i \in DOMAIN p.rows : p.rows[i] = r
      /\ p.next # NoPage =>
           /\ p.next \in S
           /\ \A i \in DOMAIN p.rows : p.rows[i] = p.next \/ R!Precedes(q, p.rows[i], p.next)
           /\ \A r \in S : (\E i \in DOMAIN p.rows : p.rows[i] = r) \/ R!Precedes(q, p.next, r)
  BY <1>b, <1>d, <1>1, PageFacts
<1>7. S \subseteq Possible(q)
  BY <1>3, <1>5
<1>8. /\ InOrder(q, b) /\ DOMAIN b = DOMAIN p.rows
      /\ \A i \in DOMAIN p.rows : RowTold(b[i]) = p.rows[i]
      /\ \A i \in DOMAIN p.rows : b[i].key = p.rows[i].key /\ b[i].at = p.rows[i].at
  BY <1>3, <1>6, <1>7, <1>c, ToldInOrder
<1>9. \A i \in DOMAIN a : RowTold(a[i]) = cur \/ R!Precedes(q, a[i], cur)
  BY <1>2 DEF RestBehind
<1>10. ASSUME NEW i \in DOMAIN b PROVE p.rows[i] \in S /\ R!Precedes(q, cur, b[i])
  <2>1. p.rows[i] \in S
    BY <1>6, <1>8
  <2>2. R!Precedes(q, cur, p.rows[i])
    BY <1>5, <2>1
  <2> QED
    BY <1>8, <2>1, <2>2 DEF R!Precedes
<1>e. PICK lines : lines = a \o b
  OBVIOUS
<1>11. /\ InOrder(q, lines) /\ DOMAIN lines = 1..(Len(a) + Len(b))
       /\ Len(a) \in Nat /\ DOMAIN a = 1..Len(a) /\ Len(b) \in Nat /\ DOMAIN b = 1..Len(b)
       /\ \A i \in 1..Len(a) : lines[i] = a[i]
       /\ \A i \in 1..Len(b) : lines[i + Len(a)] = b[i]
       /\ \A i \in DOMAIN lines : i > Len(a) => \E j \in DOMAIN b : lines[i] = b[j]
       /\ KeysOf(lines) = KeysOf(a) \cup KeysOf(b)
  <2>1. \A i \in DOMAIN b : R!Precedes(q, cur, b[i])
    BY <1>10
  <2>2. Possible(q) \subseteq PageRows /\ cur \in Possible(q)
    BY <1>3, <1>4
  <2>3. InOrder(q, a) /\ InOrder(q, b)
    BY <1>2, <1>8
  <2>4. Between(q, a, cur, b, lines)
    BY <1>9, <1>e, <2>1, <2>2, <2>3 DEF Between
  <2> QED
    BY <2>4, Concatenated
<1>12. \A i \in DOMAIN lines : (i \in DOMAIN a /\ lines[i] = a[i]) \/ (\E j \in DOMAIN b : lines[i] = b[j])
  BY <1>11
<1>13. \A r \in S : (\E i \in DOMAIN p.rows : p.rows[i] = r) => r.key \in KeysOf(lines)
  BY <1>8, <1>11 DEF KeysOf
<1>14. \A r \in old : r.key \in KeysOf(lines) \/ r \in S
  BY <1>2, <1>5, <1>11 DEF RestBehind
<1>15. p.next = NoPage => AllShown(lines, old)
  BY <1>6, <1>13, <1>14 DEF AllShown
<1>16. p.next # NoPage => RestBehind(q, lines, p.next, old)
  <2> SUFFICES ASSUME p.next # NoPage PROVE RestBehind(q, lines, p.next, old)
    OBVIOUS
  <2>0. p.next \in S /\ p.next \in PageRows /\ cur \in PageRows /\ R!Precedes(q, cur, p.next)
    BY <1>3, <1>4, <1>5, <1>6, <1>7
  <2>1. ASSUME NEW i \in DOMAIN b PROVE RowTold(b[i]) = p.next \/ R!Precedes(q, b[i], p.next)
    <3>1. p.rows[i] = p.next \/ R!Precedes(q, p.rows[i], p.next)
      BY <1>6, <1>8
    <3>2. R!Precedes(q, p.rows[i], p.next) => R!Precedes(q, b[i], p.next)
      BY <1>8 DEF R!Precedes
    <3> QED
      BY <1>8, <3>1, <3>2
  <2>2. ASSUME NEW i \in DOMAIN a PROVE R!Precedes(q, a[i], p.next)
    <3>1. RowTold(a[i]) = cur \/ R!Precedes(q, RowTold(a[i]), cur)
      BY <1>9 DEF R!Precedes, RowTold
    <3>2. RowTold(a[i]) \in PageRows
      BY <1>2, <1>3 DEF InOrder
    <3>3. R!Precedes(q, RowTold(a[i]), p.next)
      BY <2>0, <3>1, <3>2, OrderIsStrict
    <3> QED
      BY <3>3 DEF R!Precedes, RowTold
  <2>3. \A i \in DOMAIN lines : RowTold(lines[i]) = p.next \/ R!Precedes(q, lines[i], p.next)
    BY <1>12, <2>1, <2>2
  <2>4. \A r \in old : r.key \in KeysOf(lines) \/ R!Precedes(q, p.next, r)
    BY <1>6, <1>13, <1>14
  <2> QED
    BY <1>7, <2>0, <2>3, <2>4 DEF RestBehind
<1>17. ASSUME q.kind = "sessions", NEW i \in DOMAIN b
       PROVE  /\ \E e \in R!SessionEvents(events, q, scope, b[i].key) : e.at >= b[i].at
              /\ \A f \in R!SessionEvents(events, q, scope, b[i].key) : f.at <= b[i].at
  <2>1. p.rows[i] \in R!RowsOf(events, q, scope)
    BY <1>5, <1>10
  <2>2. /\ \E e \in R!SessionEvents(events, q, scope, p.rows[i].key) : e.at >= p.rows[i].at
        /\ \A f \in R!SessionEvents(events, q, scope, p.rows[i].key) : f.at <= p.rows[i].at
    BY <1>1, <1>17, <2>1, LinesOfNow
  <2> QED
    BY <1>8, <2>2
<1>18. NoneOlder(q, scope, a) => NoneOlder(q, scope, lines)
  BY <1>12, <1>17 DEF NoneOlder
<1>19. NoneTwice(a) /\ NoneOlder(q, scope, a) => NoneTwice(lines)
  <2> SUFFICES ASSUME NoneTwice(a), NoneOlder(q, scope, a) PROVE NoneTwice(lines)
    OBVIOUS
  <2>1. CASE q.kind = "sessions"
    <3>1. \A i, j \in DOMAIN lines : i <= Len(a) /\ j <= Len(a) /\ lines[i].key = lines[j].key => i = j
      <4>1. \A i \in DOMAIN lines : i <= Len(a) => i \in DOMAIN a /\ lines[i] = a[i]
        BY <1>11
      <4> QED
        BY <4>1 DEF NoneTwice
    <3>2. \A j \in DOMAIN lines : j > Len(a) =>
            \A f \in R!SessionEvents(events, q, scope, lines[j].key) : f.at <= lines[j].at
      BY <1>11, <1>17, <2>1
    <3> QED
      BY <1>1, <1>11, <1>18, <2>1, <3>1, <3>2, SessionsOnce
  <2> QED
    BY <1>11, <2>1, EventsOnce
<1>20. CASE R!Scope(q) = scope
  <2>1. reader' = [reader EXCEPT !.step = R!StepAfter(p), !.cursor = p.next, !.shown = lines]
    BY <1>20, <1>a, <1>b, <1>c, <1>e DEF R!NextPage
  <2>2. /\ reader'.query = q /\ reader'.scope = scope /\ reader'.cursor = p.next /\ reader'.shown = lines
        /\ reader'.steady = old /\ reader'.step = R!StepAfter(p) /\ reader'.changes = reader.changes
        /\ DOMAIN reader' = {"step", "query", "scope", "cursor", "shown", "steady", "changes"}
    BY <1>0, <1>a, <2>1 DEF Reading
  <2>3. /\ reader'.step \in {"more", "done", "refused"}
        /\ reader'.step = "more" => p.next # NoPage
        /\ reader'.step = "done" => p.next = NoPage
    BY <2>2 DEF R!StepAfter
  <2>4. reader'.steady \subseteq R!RowsOf(events', q, scope)
    BY <1>0, <1>2, <2>2
  <2>5. NoneOlder(q, scope, a) => NoneOlder(q, scope, lines)'
    BY <1>0, <1>18 DEF NoneOlder
  <2>6. Reading'
    BY <1>2, <1>11, <1>15, <1>16, <1>19, <2>2, <2>3, <2>4, <2>5 DEF Reading
  <2> QED
    BY <1>0, <1>1, <2>6 DEF ReportsInv
<1>21. CASE R!Scope(q) # scope
  <2>1. reader' = [reader EXCEPT !.step = "refused"]
    BY <1>21, <1>a DEF R!NextPage
  <2>2. /\ reader'.query = q /\ reader'.scope = scope /\ reader'.shown = a
        /\ reader'.steady = old /\ reader'.step = "refused" /\ reader'.changes = reader.changes
        /\ DOMAIN reader' = {"step", "query", "scope", "cursor", "shown", "steady", "changes"}
    BY <1>0, <1>a, <2>1 DEF Reading
  <2>3. reader'.steady \subseteq R!RowsOf(events', q, scope)
    BY <1>0, <1>2, <2>2
  <2>4. NoneOlder(q, scope, a) => NoneOlder(q, scope, a)'
    BY <1>0 DEF NoneOlder
  <2>5. Reading'
    BY <1>2, <2>2, <2>3, <2>4 DEF Reading
  <2> QED
    BY <1>0, <1>1, <2>5 DEF ReportsInv
<1> QED
  BY <1>20, <1>21

\* What goes on meanwhile: the reader keeps its lines, and of what was there what
\* has not moved; as long as nothing is trimmed, sessions do not get older.
LEMMA NoticeKeeps ==
  ASSUME R!ReportsAssumption, ReportsInv, NEW change, R!Notice(change), clock' = clock, events' \subseteq Events,
         change # "trimmed" => events \subseteq events'
  PROVE  ReportsInv'
<1>1. clock' \in 0..MaxClock
  BY DEF ReportsInv
<1>2. CASE reader = R!Nobody
  <2>1. reader' = R!Nobody
    BY <1>2 DEF R!Notice, R!Nobody
  <2>2. R!Nobody' = R!Nobody
    BY DEF R!Nobody
  <2> QED
    BY <1>1, <2>1, <2>2 DEF ReportsInv
<1>3. CASE Reading
  <2>a. PICK q, scope, a, old :
          q = reader.query /\ scope = reader.scope /\ a = reader.shown /\ old = reader.steady
    OBVIOUS
  <2>1. reader' = [reader EXCEPT !.changes = @ \cup {change}, !.steady = @ \cap R!RowsOf(events', q, scope)]
    BY <1>3, <2>a DEF R!Notice, Reading
  <2>2. /\ reader'.query = q /\ reader'.scope = scope /\ reader'.cursor = reader.cursor /\ reader'.shown = a
        /\ reader'.steady = old \cap R!RowsOf(events', q, scope) /\ reader'.step = reader.step
        /\ reader'.changes = reader.changes \cup {change}
        /\ DOMAIN reader' = {"step", "query", "scope", "cursor", "shown", "steady", "changes"}
    BY <1>3, <2>1, <2>a DEF Reading
  <2>3. /\ reader.step = "more" => RestBehind(q, a, reader.cursor, reader'.steady)
        /\ reader.step = "done" => AllShown(a, reader'.steady)
    BY <1>3, <2>2, <2>a DEF Reading, RestBehind, AllShown
  <2>4. ASSUME change # "trimmed", NoneOlder(q, scope, a) PROVE NoneOlder(q, scope, a)'
    <3>1. \A s : R!SessionEvents(events, q, scope, s) \subseteq R!SessionEvents(events', q, scope, s)
      BY <2>4 DEF R!SessionEvents
    <3> QED
      BY <2>4, <3>1 DEF NoneOlder
  <2>5. "trimmed" \notin reader'.changes => NoneTwice(a) /\ NoneOlder(q, scope, a)'
    <3>1. "trimmed" \notin reader'.changes => "trimmed" \notin reader.changes /\ change # "trimmed"
      BY <2>2
    <3> QED
      BY <1>3, <2>4, <2>a, <3>1 DEF Reading
  <2>6. /\ InOrder(q, a) /\ q \in Queries /\ reader'.step \in {"more", "done", "refused"}
    BY <1>3, <2>2, <2>a DEF Reading
  <2>7. Reading'
    BY <2>2, <2>3, <2>5, <2>6 DEF Reading
  <2> QED
    BY <1>1, <2>7 DEF ReportsInv
<1> QED
  BY <1>2, <1>3 DEF ReportsInv

LEMMA ReportsKeep ==
  ASSUME R!ReportsAssumption, ReportsInv, [R!Next]_(R!vars)
  PROVE  ReportsInv'
<1>0. events \subseteq Events /\ clock \in 0..MaxClock /\ (reader = R!Nobody \/ Reading)
  BY DEF ReportsInv
<1>1. ASSUME UNCHANGED <<events, reader>>, clock' \in 0..MaxClock PROVE ReportsInv'
  <2>1. Reading => Reading'
    BY <1>1 DEF Reading, NoneOlder
  <2>2. R!Nobody' = R!Nobody
    BY DEF R!Nobody
  <2> QED
    BY <1>0, <1>1, <2>1, <2>2 DEF ReportsInv
<1>2. CASE R!Tick
  <2>1. clock' \in 0..MaxClock /\ UNCHANGED <<events, reader>>
    <3>1. clock < MaxClock /\ clock' = clock + 1 /\ MaxClock \in Nat
      BY <1>2 DEF R!Tick, R!ReportsAssumption
    <3>2. clock + 1 \in 0..MaxClock
      BY <1>0, <3>1
    <3> QED
      BY <1>2, <3>1, <3>2 DEF R!Tick
  <2> QED
    BY <1>1, <2>1
<1>3. CASE R!Trim
  <2>1. events' \subseteq events /\ R!Notice("trimmed") /\ clock' = clock
    BY <1>3 DEF R!Trim
  <2>2. events' \subseteq Events
    BY <1>0, <2>1
  <2> QED
    BY <2>1, <2>2, NoticeKeeps
<1>4. ASSUME NEW e \in Events, R!Project(e) PROVE ReportsInv'
  <2>1. events' = events \cup {e} /\ R!Notice("news") /\ clock' = clock
    BY <1>4 DEF R!Project
  <2>2. events' \subseteq Events /\ events \subseteq events'
    BY <1>0, <2>1
  <2> QED
    BY <2>1, <2>2, NoticeKeeps
<1>5. ASSUME NEW n, R!Official(n) PROVE ReportsInv'
  <2>1. events' = events /\ R!Notice("news") /\ clock' = clock
    BY <1>5 DEF R!Official
  <2> QED
    BY <1>0, <2>1, NoticeKeeps
<1>6. CASE R!Leave
  <2>1. reader' = R!Nobody /\ UNCHANGED <<clock, events>> /\ R!Nobody' = R!Nobody
    BY <1>6 DEF R!Leave, R!Nobody
  <2> QED
    BY <1>0, <2>1 DEF ReportsInv
<1>7. CASE UNCHANGED R!vars
  BY <1>0, <1>1, <1>7 DEF R!vars
<1> QED
  BY <1>2, <1>3, <1>4, <1>5, <1>6, <1>7, FirstPageKeeps, NextPageKeeps DEF R!Next

LEMMA ReportsStart ==
  ASSUME R!ReportsAssumption, R!Init
  PROVE  ReportsInv
BY DEF R!Init, ReportsInv, R!ReportsAssumption

LEMMA ReportsInvMeans ==
  ASSUME R!ReportsAssumption, ReportsInv
  PROVE  R!TypeOK /\ R!PagesOnce /\ R!PagesComplete
<1>1. CASE reader = R!Nobody
  <2>1. reader.step = "idle"
    BY <1>1 DEF R!Nobody
  <2> QED
    BY <2>1 DEF ReportsInv, R!TypeOK, R!PagesOnce, R!PagesComplete
<1>2. CASE Reading
  <2>1. /\ Len(reader.shown) \in Nat /\ DOMAIN reader.shown = 1..Len(reader.shown)
        /\ Len(reader.shown) <= Cardinality(Events)
    BY <1>2, LinesAreFew DEF Reading
  <2>2. Len(reader.shown) <= Limit * (1 + Cardinality(Events))
    <3>1. Cardinality(Events) \in Nat /\ Limit \in Nat /\ Limit # 0
      BY SameSets, FS_CardinalityType DEF R!ReportsAssumption
    <3>2. PICK k \in Nat : Limit = k + 1
      <4>1. Limit - 1 \in Nat /\ Limit = (Limit - 1) + 1
        BY <3>1
      <4> QED
        BY <4>1
    <3>3. PICK c \in Nat : c = 1 + Cardinality(Events)
      BY <3>1
    <3>4. (k + 1) * c = k * c + c /\ k * c \in Nat
      BY <3>2, <3>3
    <3>5. Limit * (1 + Cardinality(Events)) = k * c + c
      BY <3>2, <3>3, <3>4
    <3>6. PICK n \in Nat : n = Len(reader.shown)
      BY <2>1
    <3>7. PICK m \in Nat : m = Cardinality(Events)
      BY <3>1
    <3>8. PICK p \in Nat : p = k * c
      BY <3>4
    <3>9. n <= m /\ c = 1 + m
      BY <2>1, <3>3, <3>6, <3>7
    <3>10. n <= p + c
      BY <3>9
    <3> QED
      BY <3>5, <3>6, <3>8, <3>10
  <2>3. R!TypeOK
    <3>1. Len(reader.shown) <= Limit * (1 + R!Cardinality(Events))
      BY <2>2, SameSets
    <3> QED
      BY <1>2, <3>1 DEF ReportsInv, Reading, R!TypeOK
  <2>4. R!PagesComplete
    <3>1. R!ShownKeys = KeysOf(reader.shown)
      BY DEF R!ShownKeys, KeysOf
    <3> QED
      BY <1>2, <3>1 DEF Reading, AllShown, R!PagesComplete
  <2>5. R!PagesOnce
    <3> SUFFICES ASSUME NoneTwice(reader.shown) PROVE R!Cardinality(R!ShownKeys) = Len(reader.shown)
      BY <1>2 DEF Reading, R!PagesOnce
    <3> DEFINE n == Len(reader.shown)
               f == [i \in 1..n |-> reader.shown[i].key]
    <3>1. f \in [1..n -> R!ShownKeys] /\ \A i \in 1..n : f[i] = reader.shown[i].key
      BY <2>1 DEF R!ShownKeys
    <3>2. \A k \in R!ShownKeys : \E i \in 1..n : f[i] = k
      BY <2>1 DEF R!ShownKeys
    <3>3. IsFiniteSet(1..n) /\ Cardinality(1..n) = n
      <4>1. n \in Int /\ 1 \in Int /\ n >= 0
        BY <2>1
      <4> HIDE DEF n
      <4>2. IsFiniteSet(1..n) /\ Cardinality(1..n) = IF 1 > n THEN 0 ELSE n - 1 + 1
        BY <4>1, FS_Interval
      <4> QED
        BY <4>1, <4>2
    <3> HIDE DEF f
    <3>4. \A i, j \in 1..n : f[i] = f[j] => i = j
      BY <2>1, <3>1 DEF NoneTwice
    <3>5. Cardinality(R!ShownKeys) = Cardinality(1..n)
      BY <3>1, <3>2, <3>3, <3>4, SameCount
    <3> QED
      BY <3>3, <3>5, SameSets
  <2> QED
    BY <2>3, <2>4, <2>5
<1> QED
  BY <1>1, <1>2 DEF ReportsInv

-----------------------------------------------------------------------------
(* Sums over finite sets. *)

SumStep(f, S, g) ==
  [s \in SUBSET S |->
     IF s = {} THEN 0 ELSE f[CHOOSE x \in s : TRUE] + g[s \ {CHOOSE x \in s : TRUE}]]
SumOf(f, S) == (CHOOSE g : g = SumStep(f, S, g))[S]
Solves(g, f, S) == g = SumStep(f, S, g)
Counted(f, S) == IsFiniteSet(S) /\ \A x \in S : f[x] \in Int
Sums(g, f, S) ==
  g \in [SUBSET S -> Int] /\ Solves(g, f, S) /\ \A s \in SUBSET S : SumOf(f, s) = g[s]
Agree(g, h, S) == \A s \in SUBSET S : g[s] = h[s]
Alike(f, d, S) == \A x \in S : f[x] = d[x]

\* A finite set with an element less.
LEMMA OneLess ==
  ASSUME NEW s, IsFiniteSet(s), NEW x \in s
  PROVE  /\ IsFiniteSet(s \ {x}) /\ Cardinality(s \ {x}) \in Nat /\ Cardinality(s) \in Nat
         /\ Cardinality(s) = Cardinality(s \ {x}) + 1
<1>1. IsFiniteSet(s \ {x}) /\ Cardinality(s \ {x}) = Cardinality(s) - 1 /\ Cardinality(s) \in Nat
  BY FS_RemoveElement, FS_CardinalityType
<1>2. Cardinality(s \ {x}) \in Nat
  BY <1>1, FS_CardinalityType
<1> QED
  BY <1>1, <1>2

\* There is a function that the recursion defines.
LEMMA SumIsThere ==
  ASSUME NEW S, NEW f, Counted(f, S)
  PROVE  \E g \in [SUBSET S -> Int] : Solves(g, f, S)
<1> DEFINE Good(g, n) == \A s \in SUBSET S : Cardinality(s) < n => g[s] = SumStep(f, S, g)[s]
           Reached(n) == \E g \in [SUBSET S -> Int] : Good(g, n)
           N == {n \in Nat : Reached(n)}
<1>c. IsFiniteSet(S) /\ \A x \in S : f[x] \in Int
  BY DEF Counted
<1>0. \A s \in SUBSET S : IsFiniteSet(s) /\ Cardinality(s) \in Nat
  BY <1>c, FS_Subset, FS_CardinalityType
<1>1. Reached(0)
  <2>1. [s \in SUBSET S |-> 0] \in [SUBSET S -> Int]
    OBVIOUS
  <2>2. Good([s \in SUBSET S |-> 0], 0)
    BY <1>0
  <2> QED
    BY <2>1, <2>2
<1>2. ASSUME NEW g \in [SUBSET S -> Int]
      PROVE  /\ SumStep(f, S, g) \in [SUBSET S -> Int]
             /\ SumStep(f, S, g)[{}] = 0
             /\ \A s \in SUBSET S : s # {} =>
                  SumStep(f, S, g)[s] = f[CHOOSE x \in s : TRUE] + g[s \ {CHOOSE x \in s : TRUE}]
  <2>1. ASSUME NEW s \in SUBSET S, s # {}
        PROVE  /\ (CHOOSE x \in s : TRUE) \in s
               /\ f[CHOOSE x \in s : TRUE] + g[s \ {CHOOSE x \in s : TRUE}] \in Int
    <3>1. PICK c : c = CHOOSE x \in s : TRUE
      OBVIOUS
    <3>2. c \in s
      BY <2>1, <3>1
    <3>3. f[c] \in Int /\ g[s \ {c}] \in Int
      BY <1>c, <3>2
    <3> QED
      BY <3>1, <3>2, <3>3
  <2> QED
    BY <2>1 DEF SumStep
<1>3. ASSUME NEW n \in Nat, Reached(n) PROVE Reached(n + 1)
  <2>1. PICK g \in [SUBSET S -> Int] : Good(g, n)
    BY <1>3
  <2>2. PICK h : h = SumStep(f, S, g)
    OBVIOUS
  <2>3. h \in [SUBSET S -> Int]
    BY <1>2, <2>2
  <2>4. ASSUME NEW s \in SUBSET S, Cardinality(s) < n + 1
        PROVE  h[s] = SumStep(f, S, h)[s]
    <3>1. CASE s = {}
      BY <1>2, <2>2, <2>3, <3>1
    <3>2. CASE s # {}
      <4>1. PICK c : c = CHOOSE x \in s : TRUE
        OBVIOUS
      <4>2. c \in s
        BY <3>2, <4>1
      <4>3. h[s] = f[c] + g[s \ {c}] /\ SumStep(f, S, h)[s] = f[c] + h[s \ {c}]
        <5>1. h[s] = f[CHOOSE x \in s : TRUE] + g[s \ {CHOOSE x \in s : TRUE}]
          BY <1>2, <2>2, <3>2
        <5>2. SumStep(f, S, h)[s] = f[CHOOSE x \in s : TRUE] + h[s \ {CHOOSE x \in s : TRUE}]
          BY <1>2, <2>3, <3>2
        <5> QED
          BY <4>1, <5>1, <5>2
      <4>4. s \ {c} \in SUBSET S /\ Cardinality(s \ {c}) < n
        <5>1. Cardinality(s) = Cardinality(s \ {c}) + 1 /\ Cardinality(s \ {c}) \in Nat
          BY <1>0, <4>2, OneLess
        <5> QED
          BY <2>4, <5>1
      <4>5. g[s \ {c}] = h[s \ {c}]
        BY <2>1, <2>2, <4>4
      <4> QED
        BY <4>3, <4>5
    <3> QED
      BY <3>1, <3>2
  <2> QED
    BY <2>3, <2>4
<1> HIDE DEF Reached
<1>4. N = Nat
  <2>1. \A n \in N : n + 1 \in N
    BY <1>3
  <2> QED
    BY <1>1, <2>1, Induction
<1>5. Cardinality(S) + 1 \in Nat
  BY <1>0
<1>6. PICK g \in [SUBSET S -> Int] : Good(g, Cardinality(S) + 1)
  BY <1>4, <1>5 DEF Reached
<1>7. ASSUME NEW s \in SUBSET S PROVE Cardinality(s) < Cardinality(S) + 1
  <2>1. Cardinality(s) <= Cardinality(S)
    BY <1>c, FS_Subset
  <2> QED
    BY <1>0, <2>1
<1>8. \A s \in SUBSET S : g[s] = SumStep(f, S, g)[s]
  BY <1>6, <1>7
<1>9. SumStep(f, S, g) \in [SUBSET S -> Int]
  BY <1>2
<1> QED
  BY <1>8, <1>9 DEF Solves

\* What it says of a set depends on the values there alone.
LEMMA SumIsOne ==
  ASSUME NEW S, NEW W, IsFiniteSet(S), S \subseteq W, NEW f, NEW g, NEW d, NEW h,
         Alike(f, d, S), Solves(g, f, S), Solves(h, d, W)
  PROVE  Agree(g, h, S)
<1> DEFINE Same(n) == \A s \in SUBSET S : Cardinality(s) = n => g[s] = h[s]
           N == {n \in Nat : Same(n)}
<1>0. \A s \in SUBSET S : IsFiniteSet(s) /\ Cardinality(s) \in Nat
  BY FS_Subset, FS_CardinalityType
<1>1. ASSUME NEW s \in SUBSET S
      PROVE  /\ s = {} => g[s] = h[s]
             /\ s # {} => /\ g[s] = f[CHOOSE x \in s : TRUE] + g[s \ {CHOOSE x \in s : TRUE}]
                          /\ h[s] = d[CHOOSE x \in s : TRUE] + h[s \ {CHOOSE x \in s : TRUE}]
  <2>1. s \in SUBSET W
    OBVIOUS
  <2>2. g[s] = IF s = {} THEN 0 ELSE f[CHOOSE x \in s : TRUE] + g[s \ {CHOOSE x \in s : TRUE}]
    BY DEF Solves, SumStep
  <2>3. h[s] = IF s = {} THEN 0 ELSE d[CHOOSE x \in s : TRUE] + h[s \ {CHOOSE x \in s : TRUE}]
    BY <2>1 DEF Solves, SumStep
  <2> QED
    BY <2>2, <2>3
<1>2. Same(0)
  <2>1. ASSUME NEW s \in SUBSET S, Cardinality(s) = 0 PROVE s = {}
    BY <1>0, <2>1, FS_EmptySet
  <2> QED
    BY <1>1, <2>1
<1>3. ASSUME NEW n \in Nat, Same(n), NEW s \in SUBSET S, Cardinality(s) = n + 1
      PROVE  g[s] = h[s]
  <2>1. s # {}
    <3>1. Cardinality(s) # 0
      BY <1>3
    <3> QED
      BY <3>1, FS_EmptySet
  <2>2. PICK c : c = CHOOSE x \in s : TRUE
    OBVIOUS
  <2>3. c \in s
    BY <2>1, <2>2
  <2>4. s \ {c} \in SUBSET S /\ Cardinality(s \ {c}) = n
    <3>1. Cardinality(s) = Cardinality(s \ {c}) + 1 /\ Cardinality(s \ {c}) \in Nat
      BY <1>0, <2>3, OneLess
    <3> QED
      BY <1>3, <3>1
  <2>5. g[s \ {c}] = h[s \ {c}]
    BY <1>3, <2>4
  <2>6. g[s] = f[c] + g[s \ {c}] /\ h[s] = d[c] + h[s \ {c}]
    BY <1>1, <2>1, <2>2
  <2>7. f[c] = d[c]
    BY <2>3 DEF Alike
  <2> QED
    BY <2>5, <2>6, <2>7
<1> HIDE DEF Same
<1>4. N = Nat
  <2>1. \A n \in N : n + 1 \in N
    <3>1. ASSUME NEW n \in Nat, Same(n) PROVE Same(n + 1)
      BY <1>3, <3>1 DEF Same
    <3> QED
      BY <3>1
  <2> QED
    BY <1>2, <2>1, Induction
<1> QED
  BY <1>0, <1>4 DEF Same, Agree

\* The sum of a set and of its parts.
LEMMA SumOfPart ==
  ASSUME NEW S, NEW f, Counted(f, S)
  PROVE  \E g : Sums(g, f, S)
<1>1. PICK g \in [SUBSET S -> Int] : Solves(g, f, S)
  BY SumIsThere
<1>2. ASSUME NEW s \in SUBSET S PROVE SumOf(f, s) = g[s]
  <2>1. IsFiniteSet(s) /\ Counted(f, s) /\ Alike(f, f, s)
    BY FS_Subset DEF Counted, Alike
  <2>2. PICK h \in [SUBSET s -> Int] : Solves(h, f, s)
    BY <2>1, SumIsThere
  <2>3. PICK c : c = CHOOSE e : e = SumStep(f, s, e)
    OBVIOUS
  <2>4. Solves(c, f, s)
    BY <2>2, <2>3 DEF Solves
  <2>5. Agree(c, g, s)
    BY <1>1, <2>1, <2>4, SumIsOne
  <2>6. SumOf(f, s) = c[s]
    BY <2>3 DEF SumOf
  <2> QED
    BY <2>5, <2>6 DEF Agree
<1> QED
  BY <1>1, <1>2 DEF Sums

LEMMA SumOfNone ==
  ASSUME NEW f PROVE SumOf(f, {}) = 0
<1>1. Counted(f, {})
  BY FS_EmptySet DEF Counted
<1>2. PICK g : Sums(g, f, {})
  BY <1>1, SumOfPart
<1>3. SumOf(f, {}) = g[{}]
  BY <1>2 DEF Sums
<1>4. SumStep(f, {}, g)[{}] = 0
  BY DEF SumStep
<1> QED
  BY <1>2, <1>3, <1>4 DEF Sums, Solves

LEMMA SumIsInt ==
  ASSUME NEW S, NEW f, Counted(f, S)
  PROVE  SumOf(f, S) \in Int
<1>1. PICK g : Sums(g, f, S)
  BY SumOfPart
<1> QED
  BY <1>1 DEF Sums

LEMMA SameSum ==
  ASSUME NEW S, NEW f, NEW d, Alike(f, d, S)
  PROVE  SumOf(f, S) = SumOf(d, S)
<1>1. ASSUME NEW g PROVE SumStep(f, S, g) = SumStep(d, S, g)
  <2>1. ASSUME NEW s \in SUBSET S, s # {}
        PROVE  f[CHOOSE x \in s : TRUE] = d[CHOOSE x \in s : TRUE]
    BY <2>1 DEF Alike
  <2> QED
    BY <2>1 DEF SumStep
<1>2. (CHOOSE g : g = SumStep(f, S, g)) = (CHOOSE g : g = SumStep(d, S, g))
  BY <1>1
<1> QED
  BY <1>2 DEF SumOf

\* Any element may be taken out.
LEMMA SumWithout ==
  ASSUME NEW S, NEW f, Counted(f, S)
  PROVE  \A x \in S : SumOf(f, S) = f[x] + SumOf(f, S \ {x})
<1>c. IsFiniteSet(S) /\ \A x \in S : f[x] \in Int
  BY DEF Counted
<1>0. \A s \in SUBSET S : IsFiniteSet(s) /\ Cardinality(s) \in Nat
  BY <1>c, FS_Subset, FS_CardinalityType
<1>s. PICK g : Sums(g, f, S)
  BY SumOfPart
<1>1. g \in [SUBSET S -> Int] /\ Solves(g, f, S) /\ \A s \in SUBSET S : SumOf(f, s) = g[s]
  BY <1>s DEF Sums
<1> DEFINE Loose(s) == \A x \in s : g[s] = f[x] + g[s \ {x}]
           AreLoose(n) == \A s \in SUBSET S : Cardinality(s) = n => Loose(s)
           N == {n \in Nat : AreLoose(n)}
<1>2. AreLoose(0)
  <2>1. ASSUME NEW s \in SUBSET S, Cardinality(s) = 0 PROVE s = {}
    BY <1>0, <2>1, FS_EmptySet
  <2> QED
    BY <2>1
<1>3. ASSUME NEW n \in Nat, AreLoose(n), NEW s \in SUBSET S, Cardinality(s) = n + 1, NEW x \in s
      PROVE  g[s] = f[x] + g[s \ {x}]
  <2>1. PICK c : c = CHOOSE y \in s : TRUE
    OBVIOUS
  <2>2. c \in s
    BY <2>1
  <2>3. g[s] = f[c] + g[s \ {c}]
    <3>1. SumStep(f, S, g)[s] = f[c] + g[s \ {c}]
      BY <2>1, <2>2 DEF SumStep
    <3> QED
      BY <1>1, <3>1 DEF Solves
  <2>4. ASSUME c # x PROVE g[s] = f[x] + g[s \ {x}]
    <3>1. Cardinality(s \ {c}) = n /\ Cardinality(s \ {x}) = n
      <4>1. Cardinality(s) = Cardinality(s \ {c}) + 1 /\ Cardinality(s \ {c}) \in Nat
        BY <1>0, <2>2, OneLess
      <4>2. Cardinality(s) = Cardinality(s \ {x}) + 1 /\ Cardinality(s \ {x}) \in Nat
        BY <1>0, OneLess
      <4> QED
        BY <1>3, <4>1, <4>2
    <3>2. x \in s \ {c} /\ c \in s \ {x} /\ s \ {c} \in SUBSET S /\ s \ {x} \in SUBSET S
      BY <2>2, <2>4
    <3>3. g[s \ {c}] = f[x] + g[(s \ {c}) \ {x}] /\ g[s \ {x}] = f[c] + g[(s \ {x}) \ {c}]
      BY <1>3, <3>1, <3>2
    <3>4. (s \ {c}) \ {x} = (s \ {x}) \ {c} /\ (s \ {c}) \ {x} \in SUBSET S
      OBVIOUS
    <3>8. f[c] \in Int /\ f[x] \in Int /\ g[(s \ {c}) \ {x}] \in Int
      BY <1>1, <1>c, <2>2, <3>4
    <3>5. PICK a, b, r \in Int : a = f[c] /\ b = f[x] /\ r = g[(s \ {c}) \ {x}]
      BY <3>8
    <3>6. g[s] = a + (b + r) /\ g[s \ {x}] = a + r
      BY <2>3, <3>3, <3>4, <3>5
    <3>7. a + (b + r) = b + (a + r)
      OBVIOUS
    <3> QED
      BY <3>5, <3>6, <3>7
  <2> QED
    BY <2>3, <2>4
<1> HIDE DEF Loose
<1>4. N = Nat
  <2>1. \A n \in N : n + 1 \in N
    <3>1. ASSUME NEW n \in Nat, AreLoose(n) PROVE AreLoose(n + 1)
      BY <1>3, <3>1 DEF Loose
    <3> QED
      BY <3>1
  <2> QED
    BY <1>2, <2>1, Induction
<1>5. Loose(S)
  BY <1>0, <1>4
<1>6. ASSUME NEW x \in S PROVE SumOf(f, S) = f[x] + SumOf(f, S \ {x})
  <2>1. S \in SUBSET S /\ S \ {x} \in SUBSET S
    OBVIOUS
  <2> QED
    BY <1>1, <1>5, <2>1 DEF Loose
<1> QED
  BY <1>6

\* Two sets without a common element.
LEMMA SumOfBoth ==
  ASSUME NEW f, NEW P, NEW Q, Counted(f, P), Counted(f, Q), P \cap Q = {}
  PROVE  SumOf(f, P \cup Q) = SumOf(f, P) + SumOf(f, Q)
<1>c. IsFiniteSet(P) /\ (\A x \in P : f[x] \in Int) /\ IsFiniteSet(Q) /\ (\A x \in Q : f[x] \in Int)
  BY DEF Counted
<1>0. \A s \in SUBSET Q : IsFiniteSet(s) /\ Cardinality(s) \in Nat /\ Counted(f, s) /\ Counted(f, P \cup s)
  BY <1>c, FS_Subset, FS_CardinalityType, FS_Union DEF Counted
<1> DEFINE Adds(s) == SumOf(f, P \cup s) = SumOf(f, P) + SumOf(f, s)
           AllAdd(n) == \A s \in SUBSET Q : Cardinality(s) = n => Adds(s)
           N == {n \in Nat : AllAdd(n)}
<1>1. AllAdd(0)
  <2>1. ASSUME NEW s \in SUBSET Q, Cardinality(s) = 0 PROVE Adds(s)
    <3>1. s = {}
      BY <1>0, <2>1, FS_EmptySet
    <3>2. SumOf(f, P) \in Int /\ SumOf(f, {}) = 0
      BY SumIsInt, SumOfNone
    <3>3. P \cup {} = P
      OBVIOUS
    <3> QED
      BY <3>1, <3>2, <3>3
  <2> HIDE DEF Adds
  <2> QED
    BY <2>1
<1>2. ASSUME NEW n \in Nat, AllAdd(n), NEW s \in SUBSET Q, Cardinality(s) = n + 1
      PROVE  Adds(s)
  <2>1. Cardinality(s) # 0
    BY <1>2
  <2>2. PICK x \in s : TRUE
    BY <2>1, FS_EmptySet
  <2>3. s \ {x} \in SUBSET Q /\ Cardinality(s \ {x}) = n
    <3>1. Cardinality(s) = Cardinality(s \ {x}) + 1 /\ Cardinality(s \ {x}) \in Nat
      BY <1>0, OneLess
    <3> QED
      BY <1>2, <3>1
  <2>4. SumOf(f, P \cup (s \ {x})) = SumOf(f, P) + SumOf(f, s \ {x})
    BY <1>2, <2>3
  <2>5. SumOf(f, s) = f[x] + SumOf(f, s \ {x})
    BY <1>0, SumWithout
  <2>6. SumOf(f, P \cup s) = f[x] + SumOf(f, (P \cup s) \ {x})
    <3>1. x \in P \cup s
      OBVIOUS
    <3> QED
      BY <1>0, <3>1, SumWithout
  <2>7. (P \cup s) \ {x} = P \cup (s \ {x})
    BY <2>2
  <2>8. SumOf(f, P) \in Int /\ SumOf(f, s \ {x}) \in Int /\ f[x] \in Int
    BY <1>0, <1>c, <2>3, SumIsInt
  <2>9. PICK a, b, r \in Int : a = SumOf(f, P) /\ b = SumOf(f, s \ {x}) /\ r = f[x]
    BY <2>8
  <2>10. SumOf(f, P \cup s) = r + (a + b) /\ SumOf(f, s) = r + b
    BY <2>4, <2>5, <2>6, <2>7, <2>9
  <2>11. r + (a + b) = a + (r + b)
    OBVIOUS
  <2> QED
    BY <2>9, <2>10, <2>11
<1> HIDE DEF Adds
<1>3. N = Nat
  <2>1. \A n \in N : n + 1 \in N
    <3>1. ASSUME NEW n \in Nat, AllAdd(n) PROVE AllAdd(n + 1)
      BY <1>2, <3>1
    <3> QED
      BY <3>1
  <2> QED
    BY <1>1, <2>1, Induction
<1>4. Adds(Q)
  BY <1>0, <1>3
<1> QED
  BY <1>4 DEF Adds

\* A family of sets without common elements: its sums add up to the sum of all.
Family(I, P, f, F) ==
  /\ IsFiniteSet(I)
  /\ \A i \in I : Counted(f, P[i]) /\ F[i] = SumOf(f, P[i])
  /\ \A i, j \in I : i # j => P[i] \cap P[j] = {}

LEMMA SumOfFamily ==
  ASSUME NEW I, NEW P, NEW f, NEW F, Family(I, P, f, F)
  PROVE  SumOf(F, I) = SumOf(f, UNION {P[i] : i \in I})
<1>c. /\ IsFiniteSet(I)
      /\ \A i \in I : Counted(f, P[i]) /\ F[i] = SumOf(f, P[i])
      /\ \A i, j \in I : i # j => P[i] \cap P[j] = {}
  BY DEF Family
<1>i. \A i \in I : F[i] \in Int
  BY <1>c, SumIsInt
<1>0. \A J \in SUBSET I : IsFiniteSet(J) /\ Cardinality(J) \in Nat /\ Counted(F, J)
  BY <1>c, <1>i, FS_Subset, FS_CardinalityType DEF Counted
<1> DEFINE All(J) == UNION {P[i] : i \in J}
           Adds(J) == Counted(f, All(J)) /\ SumOf(F, J) = SumOf(f, All(J))
           AllAdd(n) == \A J \in SUBSET I : Cardinality(J) = n => Adds(J)
           N == {n \in Nat : AllAdd(n)}
<1>1. AllAdd(0)
  <2>1. ASSUME NEW J \in SUBSET I, Cardinality(J) = 0 PROVE Adds(J)
    <3>1. J = {} /\ All(J) = {}
      BY <1>0, <2>1, FS_EmptySet
    <3>2. SumOf(F, {}) = 0 /\ SumOf(f, {}) = 0 /\ Counted(f, {})
      BY SumOfNone, FS_EmptySet DEF Counted
    <3> HIDE DEF All
    <3> QED
      BY <3>1, <3>2
  <2> HIDE DEF Adds
  <2> QED
    BY <2>1
<1>2. ASSUME NEW n \in Nat, AllAdd(n), NEW J \in SUBSET I, Cardinality(J) = n + 1
      PROVE  Adds(J)
  <2>1. Cardinality(J) # 0
    BY <1>2
  <2>2. PICK i \in J : TRUE
    BY <2>1, FS_EmptySet
  <2>3. J \ {i} \in SUBSET I /\ Cardinality(J \ {i}) = n
    <3>1. Cardinality(J) = Cardinality(J \ {i}) + 1 /\ Cardinality(J \ {i}) \in Nat
      BY <1>0, OneLess
    <3> QED
      BY <1>2, <3>1
  <2>4. Counted(f, All(J \ {i})) /\ SumOf(F, J \ {i}) = SumOf(f, All(J \ {i}))
    BY <1>2, <2>3
  <2>5. Counted(f, P[i]) /\ F[i] = SumOf(f, P[i])
    BY <1>c
  <2>6. P[i] \cap All(J \ {i}) = {} /\ All(J) = P[i] \cup All(J \ {i})
    <3>1. \A j \in J \ {i} : P[i] \cap P[j] = {}
      BY <1>c
    <3> QED
      BY <3>1
  <2> HIDE DEF All
  <2>7. Counted(f, All(J))
    <3>1. IsFiniteSet(P[i]) /\ IsFiniteSet(All(J \ {i}))
      BY <2>4, <2>5 DEF Counted
    <3>2. IsFiniteSet(P[i] \cup All(J \ {i}))
      BY <3>1, FS_Union
    <3>3. \A x \in All(J) : f[x] \in Int
      BY <2>4, <2>5, <2>6 DEF Counted
    <3> QED
      BY <2>6, <3>2, <3>3 DEF Counted
  <2>8. SumOf(f, All(J)) = SumOf(f, P[i]) + SumOf(f, All(J \ {i}))
    BY <2>4, <2>5, <2>6, SumOfBoth
  <2>9. SumOf(F, J) = F[i] + SumOf(F, J \ {i})
    BY <1>0, SumWithout
  <2> QED
    BY <2>4, <2>5, <2>7, <2>8, <2>9
<1> HIDE DEF Adds
<1>3. N = Nat
  <2>1. \A n \in N : n + 1 \in N
    <3>1. ASSUME NEW n \in Nat, AllAdd(n) PROVE AllAdd(n + 1)
      BY <1>2, <3>1
    <3> QED
      BY <3>1
  <2> QED
    BY <1>1, <2>1, Induction
<1>4. Adds(I)
  BY <1>0, <1>3
<1> QED
  BY <1>4 DEF Adds

-----------------------------------------------------------------------------
(* Totals. *)

TokensOf(W) == [u \in W |-> u.tokens]
Tokened(W) == IsFiniteSet(W) /\ \A u \in W : u.tokens \in Int

LEMMA TokensAreSum ==
  ASSUME NEW W, NEW rows, rows \subseteq W
  PROVE  R!Tokens(rows) = SumOf(TokensOf(W), rows)
<1> DEFINE G(g) == [s \in SUBSET rows |->
                      IF s = {} THEN 0
                      ELSE (CHOOSE x \in s : TRUE).tokens + g[s \ {CHOOSE x \in s : TRUE}]]
<1>1. ASSUME NEW g PROVE SumStep(TokensOf(W), rows, g) = G(g)
  <2>1. ASSUME NEW s \in SUBSET rows, s # {}
        PROVE  TokensOf(W)[CHOOSE x \in s : TRUE] = (CHOOSE x \in s : TRUE).tokens
    <3>1. PICK c : c = CHOOSE x \in s : TRUE
      OBVIOUS
    <3>2. c \in W
      BY <2>1, <3>1
    <3> QED
      BY <3>1, <3>2 DEF TokensOf
  <2> QED
    BY <2>1 DEF SumStep
<1> HIDE DEF G
<1>2. (CHOOSE g : g = SumStep(TokensOf(W), rows, g)) = (CHOOSE g : g = G(g))
  BY <1>1
<1> QED
  BY <1>2 DEF SumOf, R!Tokens, R!MapThenSumSet, R!MapThenFoldSet, G

LEMMA GroupedIsSum ==
  ASSUME NEW groups
  PROVE  R!Grouped(groups) = SumOf([g \in groups |-> R!Tokens(g)], groups)
<1> DEFINE f == [g \in groups |-> R!Tokens(g)]
           G(h) == [s \in SUBSET groups |->
                      IF s = {} THEN 0
                      ELSE R!Tokens(CHOOSE x \in s : TRUE) + h[s \ {CHOOSE x \in s : TRUE}]]
<1>1. ASSUME NEW h PROVE SumStep(f, groups, h) = G(h)
  <2>1. ASSUME NEW s \in SUBSET groups, s # {}
        PROVE  f[CHOOSE x \in s : TRUE] = R!Tokens(CHOOSE x \in s : TRUE)
    <3>1. PICK c : c = CHOOSE x \in s : TRUE
      OBVIOUS
    <3>2. c \in groups
      BY <2>1, <3>1
    <3> QED
      BY <3>1, <3>2
  <2> HIDE DEF f
  <2> QED
    BY <2>1 DEF SumStep
<1> HIDE DEF f, G
<1>2. (CHOOSE h : h = SumStep(f, groups, h)) = (CHOOSE h : h = G(h))
  BY <1>1
<1> QED
  BY <1>2 DEF SumOf, R!Grouped, R!MapThenSumSet, R!MapThenFoldSet, G, f

LEMMA ListIsSum ==
  R!ListTotal = SumOf([i \in DOMAIN reader.shown |-> reader.shown[i].tokens], DOMAIN reader.shown)
<1> DEFINE f == [i \in DOMAIN reader.shown |-> reader.shown[i].tokens]
           G(h) == [s \in SUBSET DOMAIN reader.shown |->
                      IF s = {} THEN 0
                      ELSE reader.shown[CHOOSE x \in s : TRUE].tokens + h[s \ {CHOOSE x \in s : TRUE}]]
<1>1. ASSUME NEW h PROVE SumStep(f, DOMAIN reader.shown, h) = G(h)
  <2>1. ASSUME NEW s \in SUBSET DOMAIN reader.shown, s # {}
        PROVE  f[CHOOSE x \in s : TRUE] = reader.shown[CHOOSE x \in s : TRUE].tokens
    <3>1. PICK c : c = CHOOSE x \in s : TRUE
      OBVIOUS
    <3>2. c \in DOMAIN reader.shown
      BY <2>1, <3>1
    <3> QED
      BY <3>1, <3>2
  <2> HIDE DEF f
  <2> QED
    BY <2>1 DEF SumStep
<1> HIDE DEF f, G
<1>2. (CHOOSE h : h = SumStep(f, DOMAIN reader.shown, h)) = (CHOOSE h : h = G(h))
  BY <1>1
<1> QED
  BY <1>2 DEF SumOf, R!ListTotal, R!MapThenSumSet, R!MapThenFoldSet, G, f

LEMMA PartIsCounted ==
  ASSUME NEW W, Tokened(W), NEW rows, rows \subseteq W
  PROVE  Counted(TokensOf(W), rows)
<1>1. IsFiniteSet(rows)
  BY FS_Subset DEF Tokened
<1>2. \A u \in rows : TokensOf(W)[u] \in Int
  BY DEF Tokened, TokensOf
<1> QED
  BY <1>1, <1>2 DEF Counted

\* Groups without common rows add up to the sum of all rows.
LEMMA GroupsAddUp ==
  ASSUME NEW W, Tokened(W), NEW groups \in SUBSET SUBSET W, UNION groups = W,
         \A g, h \in groups : g # h => g \cap h = {}
  PROVE  R!Grouped(groups) = R!Tokens(W)
<1> DEFINE P == [g \in groups |-> g]
           F == [g \in groups |-> R!Tokens(g)]
<1>1. IsFiniteSet(groups)
  <2>1. IsFiniteSet(SUBSET W)
    BY FS_SUBSET DEF Tokened
  <2> QED
    BY <2>1, FS_Subset
<1>2. ASSUME NEW g \in groups
      PROVE  Counted(TokensOf(W), P[g]) /\ F[g] = SumOf(TokensOf(W), P[g])
  <2>1. P[g] = g /\ F[g] = R!Tokens(g) /\ g \subseteq W
    OBVIOUS
  <2> HIDE DEF P, F
  <2> QED
    BY <2>1, PartIsCounted, TokensAreSum
<1>3. Family(groups, P, TokensOf(W), F)
  <2>1. \A g, h \in groups : g # h => P[g] \cap P[h] = {}
    OBVIOUS
  <2> HIDE DEF P, F
  <2> QED
    BY <1>1, <1>2, <2>1 DEF Family
<1>4. UNION {P[g] : g \in groups} = W
  OBVIOUS
<1>5. SumOf(F, groups) = SumOf(TokensOf(W), W)
  <2> HIDE DEF P, F
  <2>1. SumOf(F, groups) = SumOf(TokensOf(W), UNION {P[g] : g \in groups})
    BY <1>3, SumOfFamily
  <2> QED
    BY <1>4, <2>1
<1>6. SumOf(TokensOf(W), W) = R!Tokens(W)
  BY TokensAreSum
<1> QED
  BY <1>5, <1>6, GroupedIsSum


\* What a reader is told of its rows is true as long as nothing changes.
TrueLines(q, scope, lines) ==
  \A i \in DOMAIN lines :
    /\ RowTold(lines[i]) \in R!RowsOf(events, q, scope)
    /\ q.kind = "sessions" => lines[i].tokens = R!SessionTokens(scope, lines[i].key)
ToldTrue ==
  /\ reader.steady = R!RowsOf(events, reader.query, reader.scope)
  /\ TrueLines(reader.query, reader.scope, reader.shown)

\* Usage is of events or of Cursor's server.
UsageRow(u) ==
  /\ u.tokens \in Int /\ u.at \in Int
  /\ u \in Events \/ (u.from = "official" /\ u.session = OfficialSession)

TotalsInv ==
  /\ IsFiniteSet(usage) /\ \A u \in usage : UsageRow(u)
  /\ reader # R!Nobody /\ reader.changes = {} => ToldTrue

\* The rows by which an overview counts are of usage.
LEMMA UsageIsTokened ==
  ASSUME TotalsInv, NEW q
  PROVE  R!UsageOf(q) \subseteq usage /\ Tokened(R!UsageOf(q))
<1>1. R!UsageOf(q) \subseteq usage
  BY DEF R!UsageOf, R!Unshadowed
<1>2. IsFiniteSet(R!UsageOf(q))
  BY <1>1, FS_Subset DEF TotalsInv
<1>3. \A u \in R!UsageOf(q) : u.tokens \in Int
  BY <1>1 DEF TotalsInv, UsageRow
<1> QED
  BY <1>1, <1>2, <1>3 DEF Tokened

LEMMA GroupsAreTotal ==
  ASSUME TotalsInv, NEW q
  PROVE  /\ R!Grouped(R!ByModel(q)) = R!Overview(q)
         /\ R!Grouped(R!BySource(q)) = R!Overview(q)
         /\ R!Grouped(R!Trend(q)) = R!Overview(q)
<1>w. PICK W : W = R!UsageOf(q)
  OBVIOUS
<1>0. Tokened(W) /\ R!Overview(q) = R!Tokens(W)
  BY <1>w, UsageIsTokened DEF R!Overview
<1>1. R!Grouped(R!ByModel(q)) = R!Tokens(W)
  <2>1. R!ByModel(q) = {{u \in W : u.vendor = v.vendor /\ u.model = v.model} : v \in W}
    BY <1>w DEF R!ByModel
  <2>2. R!ByModel(q) \in SUBSET SUBSET W
    BY <2>1
  <2>3. UNION R!ByModel(q) = W
    BY <2>1
  <2>4. ASSUME NEW g \in R!ByModel(q), NEW h \in R!ByModel(q), NEW u \in g, u \in h
        PROVE  g = h
    <3>1. PICK v \in W : g = {x \in W : x.vendor = v.vendor /\ x.model = v.model}
      BY <2>1
    <3>2. PICK w \in W : h = {x \in W : x.vendor = w.vendor /\ x.model = w.model}
      BY <2>1
    <3>3. v.vendor = w.vendor /\ v.model = w.model
      BY <2>4, <3>1, <3>2
    <3> QED
      BY <3>1, <3>2, <3>3
  <2>5. \A g, h \in R!ByModel(q) : g # h => g \cap h = {}
    BY <2>4
  <2> QED
    BY <1>0, <2>2, <2>3, <2>5, GroupsAddUp
<1>2. R!Grouped(R!BySource(q)) = R!Tokens(W)
  <2>1. R!BySource(q) = {{u \in W : u.vendor = v.vendor} : v \in W}
    BY <1>w DEF R!BySource
  <2>2. R!BySource(q) \in SUBSET SUBSET W
    BY <2>1
  <2>3. UNION R!BySource(q) = W
    BY <2>1
  <2>4. \A g, h \in R!BySource(q) : g # h => g \cap h = {}
    BY <2>1
  <2> QED
    BY <1>0, <2>2, <2>3, <2>4, GroupsAddUp
<1>3. R!Grouped(R!Trend(q)) = R!Tokens(W)
  <2>1. R!Trend(q) = {{u \in W : R!DayOf(u.at) = R!DayOf(v.at)} : v \in W}
    BY <1>w DEF R!Trend
  <2>2. R!Trend(q) \in SUBSET SUBSET W
    BY <2>1
  <2>3. UNION R!Trend(q) = W
    BY <2>1
  <2>4. \A g, h \in R!Trend(q) : g # h => g \cap h = {}
    BY <2>1
  <2> QED
    BY <1>0, <2>2, <2>3, <2>4, GroupsAddUp
<1> QED
  BY <1>0, <1>1, <1>2, <1>3

\* Of a day that is not over, nothing but the very moment is at its end.
LEMMA WidgetIsTotal ==
  ASSUME R!ReportsAssumption, ReportsInv, TotalsInv, \A u \in usage : u.at # clock
  PROVE  R!Widget = R!Overview(R!Today)
<1>1. R!Scope(R!Today).to = clock /\ clock \in Nat
  BY DEF R!Scope, R!Today, ReportsInv, R!ReportsAssumption
<1>2. ASSUME NEW u \in usage
      PROVE  /\ R!OfVendor(R!Today, u)
             /\ R!Within(R!Scope(R!Today), u.at) <=> R!WithinOrAtEnd(R!Scope(R!Today), u.at)
  <2>1. u.at \in Int /\ u.at # clock
    BY DEF TotalsInv, UsageRow
  <2>2. u.at < clock <=> u.at <= clock
    BY <1>1, <2>1
  <2>3. R!OfVendor(R!Today, u)
    BY DEF R!OfVendor, R!Today
  <2> QED
    BY <1>1, <2>2, <2>3 DEF R!Within, R!WithinOrAtEnd
<1>3. {u \in usage : u.from # "snapshot" /\ R!Within(R!Scope(R!Today), u.at)}
        = {u \in usage : u.from # "snapshot" /\ R!OfVendor(R!Today, u)
                           /\ R!WithinOrAtEnd(R!Scope(R!Today), u.at)}
  BY <1>2
<1> QED
  BY <1>3 DEF R!Widget, R!Overview, R!UsageOf

\* A listing that was read to its end, of sessions whose usage is all of events
\* that are there.
LEMMA ListIsTotal ==
  ASSUME R!ReportsAssumption, ReportsInv, TotalsInv,
         reader.step = "done", reader.query.kind = "sessions", reader.changes = {},
         R!Comparable(reader.query, reader.scope), R!Scope(reader.query) = reader.scope
  PROVE  R!ListTotal = R!Overview(reader.query)
<1>a. PICK q, scope, lines : q = reader.query /\ scope = reader.scope /\ lines = reader.shown
  OBVIOUS
<1>0. Reading /\ ToldTrue /\ events \subseteq Events /\ q \in Queries /\ clock \in Nat
  BY <1>a DEF ReportsInv, TotalsInv, R!Nobody, Reading, R!ReportsAssumption
<1>1. /\ InOrder(q, lines) /\ NoneTwice(lines)
      /\ \A r \in R!SessionRows(events, q, scope) : r.key \in KeysOf(lines)
      /\ \A i \in DOMAIN lines :
           /\ RowTold(lines[i]) \in R!SessionRows(events, q, scope)
           /\ lines[i].tokens = R!SessionTokens(scope, lines[i].key)
  BY <1>a, <1>0 DEF Reading, ToldTrue, TrueLines, AllShown, R!RowsOf
<1>w. PICK W : W = R!UsageOf(q)
  OBVIOUS
<1>2. W \subseteq usage /\ Tokened(W) /\ R!Overview(q) = R!Tokens(W)
  BY <1>w, UsageIsTokened DEF R!Overview
<1>3. scope = R!Scope(q) /\ (scope.bounded => scope.to \in Int)
  BY <1>a, <1>0 DEF R!Scope, R!ReportsAssumption
<1>4. ASSUME NEW u \in usage, R!OfVendor(q, u), R!WithinOrAtEnd(scope, u.at)
      PROVE  R!Within(scope, u.at) /\ u.from # "official" /\ \E e \in events : e.id = u.id
  BY <1>4, <1>a DEF R!Comparable
<1>5. ASSUME NEW u \in usage, R!Within(scope, u.at) PROVE R!WithinOrAtEnd(scope, u.at)
  <2>1. u.at \in Int
    BY DEF TotalsInv, UsageRow
  <2> QED
    BY <1>3, <1>5, <2>1 DEF R!Within, R!WithinOrAtEnd
<1>6. W = {u \in usage : u.from # "snapshot" /\ R!OfVendor(q, u) /\ R!Within(scope, u.at)}
  <2> DEFINE all == {u \in usage : u.from # "snapshot" /\ R!OfVendor(q, u) /\ R!WithinOrAtEnd(scope, u.at)}
  <2>1. W = R!Unshadowed(all)
    BY <1>w, <1>3 DEF R!UsageOf
  <2>2. \A u \in all : u.from # "official"
    BY <1>4
  <2>3. R!Unshadowed(all) = all
    <3> HIDE DEF all
    <3> QED
      BY <2>2 DEF R!Unshadowed
  <2>4. all = {u \in usage : u.from # "snapshot" /\ R!OfVendor(q, u) /\ R!Within(scope, u.at)}
    BY <1>4, <1>5
  <2> QED
    BY <2>1, <2>3, <2>4
<1> DEFINE P == [i \in DOMAIN lines |->
                   {u \in usage : u.session = lines[i].key /\ u.from # "snapshot" /\ R!Within(scope, u.at)}]
           F == [i \in DOMAIN lines |-> lines[i].tokens]
<1>7. ASSUME NEW u \in W PROVE \E i \in DOMAIN lines : u \in P[i]
  <2>1. u \in usage /\ u.from # "snapshot" /\ R!OfVendor(q, u) /\ R!Within(scope, u.at)
    BY <1>6
  <2>2. PICK e \in events : e.id = u.id /\ u.from # "official"
    BY <1>4, <1>5, <2>1
  <2>3. u \in Events
    BY <2>1, <2>2 DEF TotalsInv, UsageRow
  <2>4. u \in events
    BY <1>0, <2>2, <2>3 DEF R!ReportsAssumption
  <2>5. u \in R!SessionEvents(events, q, scope, u.session)
    BY <2>1, <2>4 DEF R!SessionEvents
  <2>6. \E r \in R!SessionRows(events, q, scope) : r.key = u.session
    <3>1. u.session \in {t \in {e2.session : e2 \in events} : R!SessionEvents(events, q, scope, t) # {}}
      BY <2>4, <2>5
    <3>2. [at |-> R!Max({e2.at : e2 \in R!SessionEvents(events, q, scope, u.session)}), key |-> u.session]
            \in R!SessionRows(events, q, scope)
      BY <3>1 DEF R!SessionRows
    <3> QED
      BY <3>2
  <2>7. PICK i \in DOMAIN lines : lines[i].key = u.session
    BY <1>1, <2>6 DEF KeysOf
  <2> QED
    BY <2>1, <2>7
<1>8. ASSUME NEW i \in DOMAIN lines, NEW u \in P[i] PROVE u \in W
  <2>1. u \in usage /\ u.session = lines[i].key /\ u.from # "snapshot" /\ R!Within(scope, u.at)
    OBVIOUS
  <2>2. PICK e \in R!SessionEvents(events, q, scope, lines[i].key) : TRUE
    <3>1. RowTold(lines[i]) \in R!SessionRows(events, q, scope) /\ RowTold(lines[i]).key = lines[i].key
      BY <1>1 DEF RowTold
    <3> QED
      BY <1>0, <3>1, SessionRow
  <2>3. e \in Events /\ e.session = u.session /\ R!OfVendor(q, e)
    BY <1>0, <2>1, <2>2 DEF R!SessionEvents
  <2>4. u \in Events
    BY <2>1, <2>3 DEF TotalsInv, UsageRow, R!ReportsAssumption
  <2>5. u.vendor = e.vendor
    BY <2>3, <2>4 DEF R!ReportsAssumption
  <2>6. R!OfVendor(q, u)
    BY <2>3, <2>5 DEF R!OfVendor
  <2> QED
    BY <1>6, <2>1, <2>6
<1>9. \A i \in DOMAIN lines : P[i] \subseteq W /\ F[i] = R!Tokens(P[i])
  BY <1>1, <1>8 DEF R!SessionTokens
<1>10. \A i, j \in DOMAIN lines : i # j => P[i] \cap P[j] = {}
  BY <1>1 DEF NoneTwice
<1>11. UNION {P[i] : i \in DOMAIN lines} = W
  BY <1>7, <1>8
<1>f. F = [i \in DOMAIN reader.shown |-> reader.shown[i].tokens]
  BY <1>a
<1> HIDE DEF P, F
<1>12. IsFiniteSet(DOMAIN lines)
  <2>1. Len(lines) \in Nat /\ DOMAIN lines = 1..Len(lines)
    BY <1>1, LinesAreFew
  <2>3. PICK n \in Nat : n = Len(lines)
    BY <2>1
  <2>2. IsFiniteSet(1..n)
    BY FS_Interval
  <2> QED
    BY <2>1, <2>2, <2>3
<1>13. ASSUME NEW i \in DOMAIN lines
       PROVE  Counted(TokensOf(W), P[i]) /\ F[i] = SumOf(TokensOf(W), P[i])
  BY <1>2, <1>9, PartIsCounted, TokensAreSum
<1>14. Family(DOMAIN lines, P, TokensOf(W), F)
  BY <1>10, <1>12, <1>13 DEF Family
<1>15. SumOf(F, DOMAIN lines) = SumOf(TokensOf(W), W)
  BY <1>11, <1>14, SumOfFamily
<1>16. R!ListTotal = SumOf(F, DOMAIN lines)
  BY <1>a, <1>f, ListIsSum
<1>17. R!Tokens(W) = SumOf(TokensOf(W), W)
  BY TokensAreSum
<1> QED
  BY <1>2, <1>15, <1>16, <1>17, <1>a

LEMMA TotalsInvMeans ==
  ASSUME R!ReportsAssumption, ReportsInv, TotalsInv
  PROVE  R!TotalsAgree
BY GroupsAreTotal, WidgetIsTotal, ListIsTotal DEF R!TotalsAgree

LEMMA TotalsAtFirst ==
  ASSUME R!Init PROVE TotalsInv
<1>1. usage = {} /\ reader = R!Nobody
  BY DEF R!Init
<1> QED
  BY <1>1, FS_EmptySet DEF TotalsInv

\* As long as the tables stay, what was told stays true.
LEMMA ToldKept ==
  ASSUME UNCHANGED <<events, usage>>, TotalsInv,
         reader' # R!Nobody /\ reader'.changes = {} => ToldTrue'
  PROVE  TotalsInv'
BY DEF TotalsInv, UsageRow

LEMMA PageIsTrue ==
  ASSUME R!ReportsAssumption, events \subseteq Events, NEW q, NEW scope, NEW rows, NEW S,
         rows \in Seq(S), S \subseteq R!RowsOf(events, q, scope)
  PROVE  /\ TrueLines(q, scope, R!Told(q, scope, rows))
         /\ \E Z : R!Told(q, scope, rows) \in Seq(Z)
<1> DEFINE lines == R!Told(q, scope, rows)
<1>1. DOMAIN lines = DOMAIN rows
  BY DEF R!Told
<1>2. ASSUME NEW i \in DOMAIN rows
      PROVE  /\ lines[i].at = rows[i].at /\ lines[i].key = rows[i].key
             /\ q.kind = "sessions" => lines[i].tokens = R!SessionTokens(scope, rows[i].key)
  BY DEF R!Told
<1>3. \E Z : lines \in Seq(Z)
  <2> DEFINE Z == {lines[i] : i \in 1..Len(rows)}
  <2>1. Len(rows) \in Nat /\ DOMAIN rows = 1..Len(rows)
    OBVIOUS
  <2>2. lines \in [1..Len(rows) -> Z]
    <3>1. lines = [i \in 1..Len(rows) |-> lines[i]]
      BY <2>1 DEF R!Told
    <3> HIDE DEF lines
    <3> QED
      BY <3>1
  <2> HIDE DEF lines, Z
  <2>3. lines \in Seq(Z)
    BY <2>1, <2>2
  <2> QED
    BY <2>3
<1> HIDE DEF lines
<1>4. ASSUME NEW i \in DOMAIN lines
      PROVE  /\ RowTold(lines[i]) \in R!RowsOf(events, q, scope)
             /\ q.kind = "sessions" => lines[i].tokens = R!SessionTokens(scope, lines[i].key)
  <2>1. i \in DOMAIN rows /\ rows[i] \in S
    BY <1>1
  <2>2. rows[i] \in R!RowsOf(events, q, scope) /\ rows[i] \in PageRows
    BY <2>1, RowsArePossible, PossibleRows
  <2>3. RowTold(lines[i]) = rows[i]
    BY <1>2, <2>1, <2>2 DEF RowTold, PageRows
  <2> QED
    BY <1>2, <2>1, <2>2, <2>3
<1> QED
  BY <1>3, <1>4 DEF TrueLines, lines

LEMMA TruePagesJoin ==
  ASSUME NEW q, NEW scope, NEW a, NEW b, TrueLines(q, scope, a), TrueLines(q, scope, b),
         \E Y : a \in Seq(Y), \E Z : b \in Seq(Z)
  PROVE  TrueLines(q, scope, a \o b)
<1>1. PICK Y : a \in Seq(Y)
  OBVIOUS
<1>2. PICK Z : b \in Seq(Z)
  OBVIOUS
<1>3. PICK X : X = Y \cup Z
  OBVIOUS
<1>4. a \in Seq(X) /\ b \in Seq(X)
  BY <1>1, <1>2, <1>3
<1>5. PICK c : c = a \o b
  OBVIOUS
<1>6. /\ DOMAIN c = 1..(Len(a) + Len(b))
      /\ Len(a) \in Nat /\ DOMAIN a = 1..Len(a) /\ Len(b) \in Nat /\ DOMAIN b = 1..Len(b)
      /\ \A i \in 1..Len(a) : c[i] = a[i]
      /\ \A i \in 1..Len(b) : c[i + Len(a)] = b[i]
  BY <1>4, <1>5
<1>7. ASSUME NEW i \in DOMAIN c
      PROVE  (\E j \in DOMAIN a : c[i] = a[j]) \/ (\E j \in DOMAIN b : c[i] = b[j])
  <2>1. CASE i <= Len(a)
    BY <1>6, <2>1
  <2>2. CASE i > Len(a)
    <3>1. i - Len(a) \in 1..Len(b) /\ (i - Len(a)) + Len(a) = i
      BY <1>6, <2>2
    <3> QED
      BY <1>6, <3>1
  <2> QED
    BY <1>6, <2>1, <2>2
<1>8. TrueLines(q, scope, c)
  BY <1>7 DEF TrueLines
<1> QED
  BY <1>5, <1>8

LEMMA NoticeSpoils ==
  ASSUME NEW change, ReportsInv, R!Notice(change)
  PROVE  reader' # R!Nobody => reader'.changes # {}
<1>1. CASE reader.step = "idle"
  <2>1. reader = R!Nobody /\ reader' = reader
    BY <1>1 DEF R!Notice, ReportsInv, Reading
  <2> QED
    BY <2>1
<1>2. CASE reader.step # "idle"
  <2>1. Reading
    BY <1>2 DEF ReportsInv, R!Nobody
  <2>2. reader' = [reader EXCEPT !.changes = @ \cup {change},
                                 !.steady = @ \cap R!RowsOf(events', reader.query, reader.scope)]
    BY <1>2 DEF R!Notice
  <2>3. reader'.changes = reader.changes \cup {change}
    BY <2>1, <2>2 DEF Reading
  <2> QED
    BY <2>3
<1> QED
  BY <1>1, <1>2

LEMMA TotalsKeep ==
  ASSUME R!ReportsAssumption, ReportsInv, TotalsInv, [R!Next]_(R!vars)
  PROVE  TotalsInv'
<1>0. IsFiniteSet(usage) /\ (\A u \in usage : UsageRow(u)) /\ clock \in Nat
  BY DEF TotalsInv, ReportsInv, R!ReportsAssumption
<1>n. ASSUME IsFiniteSet(usage'), \A u \in usage' : UsageRow(u), NEW change, R!Notice(change)
      PROVE  TotalsInv'
  <2>1. reader' # R!Nobody => reader'.changes # {}
    BY <1>n, NoticeSpoils
  <2>2. (\A u \in usage : UsageRow(u))'
    BY <1>n DEF UsageRow
  <2> QED
    BY <1>n, <2>1, <2>2 DEF TotalsInv
<1>1. CASE UNCHANGED R!vars \/ R!Tick
  <2>1. UNCHANGED <<events, usage, reader>>
    BY <1>1 DEF R!vars, R!Tick
  <2>2. ToldTrue => ToldTrue'
    BY <2>1 DEF ToldTrue, TrueLines, R!SessionTokens
  <2> QED
    BY <2>1, <2>2, ToldKept DEF TotalsInv
<1>2. CASE R!Leave
  BY <1>2, ToldKept DEF R!Leave
<1>3. ASSUME NEW e \in Events, R!Project(e) PROVE TotalsInv'
  <2>1. usage' \subseteq usage \cup {e} /\ R!Notice("news")
    BY <1>3 DEF R!Project
  <2>2. IsFiniteSet(usage \cup {e})
    BY <1>0, FS_AddElement
  <2>3. IsFiniteSet(usage')
    BY <2>1, <2>2, FS_Subset
  <2>4. UsageRow(e)
    BY DEF UsageRow, R!ReportsAssumption
  <2>5. \A u \in usage' : UsageRow(u)
    BY <1>0, <2>1, <2>4
  <2> QED
    BY <1>n, <2>1, <2>3, <2>5
<1>4. ASSUME NEW n \in {5}, R!Official(n) PROVE TotalsInv'
  <2> DEFINE row == [id |-> -1 - R!DayOf(clock), session |-> OfficialSession, vendor |-> "cursor",
                     model |-> "m", at |-> clock, from |-> "official", tokens |-> n]
  <2>1. usage' \subseteq usage \cup {row} /\ R!Notice("news")
    BY <1>4 DEF R!Official
  <2>2. UsageRow(row)
    BY <1>0 DEF UsageRow
  <2> HIDE DEF row
  <2>3. IsFiniteSet(usage \cup {row})
    BY <1>0, FS_AddElement
  <2>4. IsFiniteSet(usage') /\ \A u \in usage' : UsageRow(u)
    BY <1>0, <2>1, <2>2, <2>3, FS_Subset
  <2> QED
    BY <1>n, <2>1, <2>4
<1>5. CASE R!Trim
  <2>1. UNCHANGED usage /\ R!Notice("trimmed")
    BY <1>5 DEF R!Trim
  <2> QED
    BY <1>0, <1>n, <2>1
<1>6. ASSUME NEW q \in Queries, R!FirstPage(q) PROVE TotalsInv'
  <2>a. PICK scope : scope = R!Scope(q)
    OBVIOUS
  <2>b. PICK p : p = R!Page(q, scope, NoPage)
    OBVIOUS
  <2>1. /\ reader' = [step |-> R!StepAfter(p), query |-> q, scope |-> scope, cursor |-> p.next,
                      shown |-> R!Told(q, scope, p.rows), steady |-> R!RowsOf(events, q, scope), changes |-> {}]
        /\ UNCHANGED <<clock, events, usage>>
    BY <1>6, <2>a, <2>b DEF R!FirstPage
  <2>2. p.rows \in Seq(Left(q, scope, NoPage)) /\ events \subseteq Events
    BY <2>b, PageFacts DEF ReportsInv
  <2>3. Left(q, scope, NoPage) \subseteq R!RowsOf(events, q, scope)
    BY DEF Left
  <2>c. PICK lines : lines = R!Told(q, scope, p.rows)
    OBVIOUS
  <2>5. TrueLines(q, scope, lines)
    BY <2>2, <2>3, <2>c, PageIsTrue
  <2>6. TrueLines(q, scope, lines)'
    BY <2>1, <2>5 DEF TrueLines, R!SessionTokens
  <2>7. /\ reader'.shown = lines /\ reader'.query = q /\ reader'.scope = scope
        /\ reader'.steady = R!RowsOf(events', q, scope)
    BY <2>1, <2>c
  <2>4. ToldTrue'
    BY <2>6, <2>7 DEF ToldTrue
  <2> QED
    BY <2>1, <2>4, ToldKept
<1>7. CASE R!NextPage
  <2>0. reader.step = "more" /\ Reading /\ events \subseteq Events /\ UNCHANGED <<clock, events, usage>>
    BY <1>7 DEF R!NextPage, ReportsInv, R!Nobody
  <2>a. PICK q, scope, cur, a : q = reader.query /\ scope = reader.scope /\ cur = reader.cursor /\ a = reader.shown
    OBVIOUS
  <2>b. PICK p : p = R!Page(q, scope, cur)
    OBVIOUS
  <2>c. PICK b : b = R!Told(q, scope, p.rows)
    OBVIOUS
  <2>1. /\ reader'.query = q /\ reader'.scope = scope /\ reader'.steady = reader.steady
        /\ reader'.changes = reader.changes
        /\ reader'.shown = a \/ reader'.shown = a \o b
    <3>1. CASE R!Scope(q) = scope
      <4>1. reader' = [reader EXCEPT !.step = R!StepAfter(p), !.cursor = p.next, !.shown = @ \o b]
        BY <1>7, <2>a, <2>b, <2>c, <3>1 DEF R!NextPage
      <4> QED
        BY <2>0, <2>a, <4>1 DEF Reading
    <3>2. CASE R!Scope(q) # scope
      <4>1. reader' = [reader EXCEPT !.step = "refused"]
        BY <1>7, <2>a, <3>2 DEF R!NextPage
      <4> QED
        BY <2>0, <2>a, <4>1 DEF Reading
    <3> QED
      BY <3>1, <3>2
  <2>2. ASSUME reader'.changes = {} PROVE ToldTrue'
    <3>1. ToldTrue /\ reader # R!Nobody
      BY <2>0, <2>1, <2>2 DEF TotalsInv, R!Nobody
    <3>2. TrueLines(q, scope, a) /\ reader.steady = R!RowsOf(events, q, scope) /\ \E Z : a \in Seq(Z)
      BY <2>0, <2>a, <3>1 DEF ToldTrue, Reading, InOrder
    <3>3. p.rows \in Seq(Left(q, scope, cur)) /\ Left(q, scope, cur) \subseteq R!RowsOf(events, q, scope)
      BY <2>0, <2>b, PageFacts DEF Left
    <3>4. TrueLines(q, scope, b) /\ \E Z : b \in Seq(Z)
      BY <2>0, <2>c, <3>3, PageIsTrue
    <3>5. TrueLines(q, scope, a \o b)
      BY <3>2, <3>4, TruePagesJoin
    <3>6. TrueLines(q, scope, a)' /\ TrueLines(q, scope, a \o b)'
      BY <2>0, <3>2, <3>5 DEF TrueLines, R!SessionTokens
    <3>7. TrueLines(q, scope, reader.shown)'
      <4>1. CASE reader'.shown = a
        BY <3>6, <4>1
      <4>2. CASE reader'.shown = a \o b
        BY <3>6, <4>2
      <4> QED
        BY <2>1, <4>1, <4>2
    <3> QED
      BY <2>0, <2>1, <3>2, <3>7 DEF ToldTrue
  <2> QED
    BY <2>0, <2>2, ToldKept
<1> QED
  BY <1>1, <1>2, <1>3, <1>4, <1>5, <1>6, <1>7 DEF R!Next

-----------------------------------------------------------------------------
(* The parts side by side: the part that moves keeps its own invariant, and  *)
(* which never changes.                                                     *)

TheParts == {"usage", "tools", "retention", "migration", "cursor", "keys", "reports"}

PartsInv ==
  /\ which \in TheParts
  /\ which = "usage" => Agreement /\ NewsInv
  /\ which = "tools" => ToolInvT /\ CallsFollow
  /\ which = "retention" => RetentionInv /\ ArchiveInv /\ FactsFollow
  /\ which = "migration" => MigrationInv /\ InputsInv
  /\ which = "cursor" => CursorInv
  /\ which = "keys" => KeyInv
  /\ which = "reports" => ReportsInv /\ TotalsInv

LEMMA ToolsStart ==
  ASSUME T!ToolAssumption, T!Init
  PROVE  ToolInvT
<1>1. calls = [k \in T!Keys |-> T!NoRow] /\ events = {} /\ aliases = {}
  BY DEF T!Init
<1>2. \A k \in T!Keys : calls[k].status = "none"
  BY <1>1 DEF T!NoRow
<1> QED
  BY <1>1, <1>2 DEF ToolInvT, T!TypeOK, T!ToolAssumption

LEMMA PartsStart == Init => PartsInv
<1> SUFFICES ASSUME Init PROVE PartsInv
  OBVIOUS
<1>1. CASE which = "usage" /\ U!Init
  BY <1>1, UsageStarts DEF PartsInv, TheParts, NewsInv
<1>2. CASE which = "tools" /\ T!Init
  BY <1>2, PartsAreSound, ToolsStart, CallsFollowAtFirst DEF PartsInv, TheParts
<1>3. CASE which = "retention" /\ D!Start
  BY <1>3, PartsAreSound, RetentionStartsTyped, FirstArchives, FactsFollowAtFirst DEF PartsInv, TheParts
<1>4. CASE which = "migration" /\ M!Init
  BY <1>4, PartsAreSound, MigrationStarts, InputsAtFirst DEF PartsInv, TheParts
<1>5. CASE which = "cursor" /\ A!CursorInit
  BY <1>5, PartsAreSound, CursorStarts DEF PartsInv, TheParts
<1>6. CASE which = "keys" /\ A!KeyInit
  BY <1>6, PartsAreSound, KeysStart DEF PartsInv, TheParts
<1>7. CASE which = "reports" /\ R!Init
  BY <1>7, PartsAreSound, ReportsStart, TotalsAtFirst DEF PartsInv, TheParts
<1> QED
  BY <1>1, <1>2, <1>3, <1>4, <1>5, <1>6, <1>7 DEF Init

\* A step is one of the part that moves, as this part alone would take it.
LEMMA PartsMove ==
  ASSUME [Next]_vars
  PROVE  /\ which' = which
         /\ which = "usage" => [U!Next]_(U!vars)
         /\ which = "tools" => [T!Next]_(T!tools)
         /\ which = "retention" => [D!Steps]_(D!vars)
         /\ which = "migration" => [M!Next]_(M!vars)
         /\ which = "cursor" => [A!CursorNext]_(A!cursorVars)
         /\ which = "keys" => [A!KeyNext]_(A!keyVars)
         /\ which = "reports" => [R!Next]_(R!vars)
<1>1. CASE UNCHANGED vars
  <2>1. /\ UNCHANGED <<which, log, cursor, reached, rewinds, fingerprint, observed, diagnostics>>
        /\ UNCHANGED <<month, due, pc, cut, archive, trimmed, late, seen, resumed, faults>>
        /\ UNCHANGED <<at, marks, alien, legacy, canonical, columns, sessions, pending, invalid, count, stops>>
        /\ UNCHANGED <<day, spent, local, official, loop, sync, running, logs, scans, api, told>>
        /\ UNCHANGED <<reader, stored, usage, events, aliases, calls, clock>>
    BY <1>1 DEF vars, ofUsage, ofRetention, ofMigration, ofCursor, ofKeys
  <2>2. UNCHANGED U!vars /\ UNCHANGED T!tools
    BY <2>1 DEF U!vars, U!tables, T!tools
  <2>3. UNCHANGED D!vars
    BY <2>1 DEF D!vars, D!tools, D!memory, D!history
  <2>4. UNCHANGED M!vars
    BY <2>1 DEF M!vars, M!tables
  <2>5. UNCHANGED A!cursorVars /\ UNCHANGED A!keyVars
    BY <2>1 DEF A!cursorVars, A!keyVars
  <2>6. UNCHANGED R!vars
    BY <2>1 DEF R!vars
  <2> QED
    BY <2>1, <2>2, <2>3, <2>4, <2>5, <2>6
<1>2. CASE Next
  BY <1>2 DEF Next, UsageMoves, ToolsMove, Retention, Migration, CursorMoves, KeysMove, ReportsMove
<1> QED
  BY <1>1, <1>2

LEMMA PartsKeep ==
  ASSUME PartsInv, [Next]_vars
  PROVE  PartsInv'
<1>0. which' = which
  BY PartsMove
<1>1. CASE which = "usage"
  <2>1. [U!Next]_(U!vars) /\ Agreement /\ NewsInv
    BY <1>1, PartsMove DEF PartsInv
  <2>2. Agreement'
    BY <2>1, AgreementKept
  <2> QED
    BY <1>0, <1>1, <2>1, <2>2, NewsKept, PartsAreSound DEF PartsInv, U!UsageAssumption
<1>2. CASE which = "tools"
  <2>1. ToolInvT /\ CallsFollow /\ [T!Next]_(T!tools)
    BY <1>2, PartsMove DEF PartsInv
  <2>2. ToolInvT'
    BY <2>1, PartsAreSound, ToolsKeep
  <2>3. CallsFollow'
    BY <2>1, PartsAreSound, CallsGoOnFollowing DEF ToolInvT
  <2> QED
    BY <1>0, <1>2, <2>2, <2>3 DEF PartsInv
<1>3. CASE which = "retention"
  <2>1. RetentionInv /\ ArchiveInv /\ FactsFollow /\ [D!Steps]_(D!vars)
    BY <1>3, PartsMove DEF PartsInv
  <2>2. RetentionInv' /\ ArchiveInv'
    BY <2>1, PartsAreSound, RetentionKeepsTypes, StepKeepsArchives
  <2>3. FactsFollow'
    BY <2>1, FactsGoOnFollowing DEF RetentionInv, D!RetentionTypeOK
  <2> QED
    BY <1>0, <1>3, <2>2, <2>3 DEF PartsInv
<1>4. CASE which = "migration"
  <2>1. MigrationInv /\ InputsInv /\ [M!Next]_(M!vars)
    BY <1>4, PartsMove DEF PartsInv
  <2>2. MigrationInv' /\ InputsInv'
    BY <2>1, PartsAreSound, MigrationKeeps, InputsKeep
  <2> QED
    BY <1>0, <1>4, <2>2 DEF PartsInv
<1>5. CASE which = "cursor"
  BY <1>0, <1>5, PartsMove, PartsAreSound, CursorKeeps DEF PartsInv
<1>6. CASE which = "keys"
  BY <1>0, <1>6, PartsMove, PartsAreSound, KeyKeeps DEF PartsInv
<1>7. CASE which = "reports"
  <2>1. ReportsInv /\ TotalsInv /\ [R!Next]_(R!vars)
    BY <1>7, PartsMove DEF PartsInv
  <2>2. ReportsInv' /\ TotalsInv'
    BY <2>1, PartsAreSound, ReportsKeep, TotalsKeep
  <2> QED
    BY <1>0, <1>7, <2>2 DEF PartsInv
<1> QED
  BY <1>1, <1>2, <1>3, <1>4, <1>5, <1>6, <1>7 DEF PartsInv, TheParts

\* Whichever part moves, it keeps its invariant.
THEOREM PartsInvariance == Spec => []PartsInv
<1>1. PartsInv /\ [Next]_vars => PartsInv'
  BY PartsKeep
<1> QED
  BY PartsStart, <1>1, PTL DEF Spec

\* The variables of every part keep their types.
THEOREM TypesHold == Spec => []TypeOK
<1>1. ASSUME PartsInv PROVE TypeOK
  <2>0. which \in TheParts
    BY <1>1 DEF PartsInv
  <2>1. which = "usage" => U!TypeOK
    BY <1>1 DEF PartsInv, Agreement
  <2>2. which = "tools" => T!TypeOK
    BY <1>1 DEF PartsInv, ToolInvT
  <2>3. which = "retention" => D!RetentionTypeOK
    BY <1>1 DEF PartsInv, RetentionInv
  <2>4. which = "migration" => M!TypeOK
    BY <1>1, MigrationInvMeans DEF PartsInv
  <2>5. which = "cursor" => A!CursorTypeOK
    BY <1>1, CursorInvMeans, PartsAreSound DEF PartsInv
  <2>6. which = "keys" => A!KeyTypeOK
    BY <1>1, KeyInvMeans, PartsAreSound DEF PartsInv
  <2>7. which = "reports" => R!TypeOK
    BY <1>1, ReportsInvMeans, PartsAreSound DEF PartsInv
  <2> QED
    BY <2>0, <2>1, <2>2, <2>3, <2>4, <2>5, <2>6, <2>7 DEF TypeOK, TheParts
<1> QED
  BY PartsInvariance, <1>1, PTL

\* Nothing is lost: what retention deletes is in an archive, a database that Core
\* wrote is not refused, and a listing has shown at its end all rows that did not
\* move, for every set of events, rows and queries.
THEOREM NothingIsLost == Spec => []NothingLost
<1>1. ASSUME PartsInv PROVE NothingLost
  <2>1. which = "retention" => D!TrimmedIsArchived
    BY <1>1, InAnArchive DEF PartsInv, ArchiveInv, D!TrimmedIsArchived
  <2>2. which = "migration" => M!OnlyDamagedRefused
    BY <1>1, MigrationInvMeans DEF PartsInv
  <2>3. which = "reports" => R!PagesComplete
    BY <1>1, ReportsInvMeans, PartsAreSound DEF PartsInv
  <2> QED
    BY <2>1, <2>2, <2>3 DEF NothingLost
<1> QED
  BY PartsInvariance, <1>1, PTL

\* Late news of a request reaches its rows without a conflict, and of a quota the
\* newest reading of all files is shown.
THEOREM NewsAlwaysLands == Spec => []NewsLands
<1>1. ASSUME PartsInv PROVE NewsLands
  <2>1. which = "usage" => U!NewsLands /\ U!NoFalseConflict
    BY <1>1, NewsInvMeans DEF PartsInv
  <2>2. which = "keys" => A!NewestShown
    BY <1>1, KeyInvMeans, PartsAreSound DEF PartsInv
  <2> QED
    BY <2>1, <2>2 DEF NewsLands
<1> QED
  BY PartsInvariance, <1>1, PTL

\* The tables that say the same agree: a request's usage and its conflicts, what
\* the migrations and the projector keep of counts and starts, and the totals by
\* model, source, day and session that the reports make of any usage.
THEOREM TablesAlwaysAgree == Spec => []TablesAgree
<1>1. ASSUME PartsInv PROVE TablesAgree
  <2>1. which = "usage" => U!TablesAgree
    BY <1>1 DEF PartsInv, Agreement
  <2>2. which = "migration" => M!MigratedTablesAgree
    BY <1>1, MigrationInvMeans DEF PartsInv
  <2>3. which = "reports" => R!TotalsAgree
    BY <1>1, TotalsInvMeans, PartsAreSound DEF PartsInv
  <2> QED
    BY <2>1, <2>2, <2>3 DEF TablesAgree
<1> QED
  BY PartsInvariance, <1>1, PTL

\* Each thing counts once: a use of a tool has one row in any order of its events
\* and after they were trimmed, a legacy row is backfilled once however often the
\* migration was tried, no token of Cursor is reported twice, no page repeats.
THEOREM EachCountsOnce == Spec => []CountedOnce
<1>1. ASSUME PartsInv PROVE CountedOnce
  <2>1. which = "tools" => T!EveryUseOnce
    BY <1>1, PartsAreSound, UsesAreApart, EveryUseIsToldOnce DEF PartsInv, ToolInvT, T!TypeOK, ToolsTyped
  <2>2. which = "retention" => D!FactsOutliveDetail
    BY <1>1, PartsAreSound, UsesAreApart, FactsAreKept
       DEF PartsInv, RetentionInv, D!RetentionTypeOK, D!RetentionAssumption
  <2>3. which = "migration" => M!BackfilledOnce
    BY <1>1, InputsInvMeans DEF PartsInv, MigrationInv
  <2>4. which = "cursor" => A!DayReported
    BY <1>1, CursorInvMeans, PartsAreSound DEF PartsInv
  <2>5. which = "reports" => R!PagesOnce
    BY <1>1, ReportsInvMeans, PartsAreSound DEF PartsInv
  <2> QED
    BY <2>1, <2>2, <2>3, <2>4, <2>5 DEF CountedOnce
<1> QED
  BY PartsInvariance, <1>1, PTL
=============================================================================
