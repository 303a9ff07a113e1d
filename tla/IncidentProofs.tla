---------------------------- MODULE IncidentProofs ----------------------------
(***************************************************************************)
(* Theorems about Incident, for any rows, events and limits: what the card *)
(* of a record shows, and which record One picks.                          *)
(***************************************************************************)
EXTENDS Incident, FiniteFacts, FiniteSetTheorems, TLAPS

-----------------------------------------------------------------------------
(* What the operators of the module do *)

\* The rows of an event are finitely many findings.
LEMMA EventRows ==
  ASSUME NEW e \in Event
  PROVE  FindingRows(e) \subseteq FindingRow /\ IsFiniteSet(FindingRows(e))
PROOF
  <1>1. /\ e.phase \in Phase /\ e.frame \in Nat /\ e.by \in Nat /\ e.coded \in Seq(BOOLEAN)
        /\ e.says \in SUBSET Nat /\ MaxFindings \in Nat
    BY IncidentAssumption
  <1>2. CASE e.coded = <<>>
    <2>1. FindingRows(e) = {[phase |-> e.phase, frame |-> e.frame, by |-> e.by, idx |-> 0,
                             coded |-> FALSE, says |-> e.says]}
      BY <1>2 DEF FindingRows
    <2> DEFINE head == [phase |-> e.phase, frame |-> e.frame, by |-> e.by, idx |-> 0,
                        coded |-> FALSE, says |-> e.says]
    <2>2. head \in FindingRow
      BY <1>1 DEF FindingRow
    <2> HIDE DEF head
    <2>3. IsFiniteSet({head})
      BY FS_Singleton
    <2> QED
      BY <2>1, <2>2, <2>3 DEF head
  <1>3. CASE e.coded # <<>>
    <2> DEFINE row(i, c) == [phase |-> e.phase, frame |-> e.frame, by |-> e.by, idx |-> i,
                             coded |-> c, says |-> e.says]
               n == Min({Len(e.coded), MaxFindings})
               T == {row(k - 1, e.coded[k]) : k \in 1..n}
               f == [k \in 1..n |-> row(k - 1, e.coded[k])]
    <2>1. FindingRows(e) = T
      BY <1>3 DEF FindingRows
    <2>2. Len(e.coded) \in Nat /\ MaxFindings \in Nat
      BY <1>1
    <2>3. n \in 0..Len(e.coded)
      BY <2>2 DEF Min
    <2>4. \A k \in 1..n : k - 1 \in Nat /\ e.coded[k] \in BOOLEAN
      BY <1>1, <2>2, <2>3
    <2> HIDE DEF n
    <2>5. T \subseteq FindingRow
      BY <1>1, <2>4 DEF FindingRow
    <2>6. IsFiniteSet(1..n)
      BY <2>3, FS_Interval
    <2>7. f \in Surjection(1..n, T)
      BY DEF Surjection
    <2> QED
      BY <2>1, <2>5, <2>6, <2>7, FS_Surjection
  <1> QED
    BY <1>2, <1>3

\* The first findings are findings, and before one that is not among them there are as
\* many as are kept.
LEMMA FirstCuts ==
  ASSUME NEW R, IsFiniteSet(R), NEW n \in Nat
  PROVE  /\ First(R, n) \subseteq R
         /\ \A r \in R \ First(R, n) : n <= Cardinality({s \in R : Precedes(s, r)})
PROOF
  <1>1. First(R, n) \subseteq R
    BY DEF First
  <1>2. ASSUME NEW r \in R, r \notin First(R, n) PROVE n <= Cardinality({s \in R : Precedes(s, r)})
    <2> DEFINE S == {s \in R : Precedes(s, r)}
    <2>1. ~(Cardinality(S) < n)
      BY <1>2 DEF First
    <2>2. S \subseteq R
      OBVIOUS
    <2> HIDE DEF S
    <2>3. Cardinality(S) \in Nat
      BY <2>2, FS_Subset, FS_CardinalityType
    <2>4. n <= Cardinality(S)
      BY <2>1, <2>3
    <2> QED
      BY <2>4 DEF S
  <1> QED
    BY <1>1, <1>2

\* What is cut off stays cut off when more findings are stored.
LEMMA CutOffStays ==
  ASSUME IInv, UNCHANGED ev, found \subseteq found', IsFiniteSet(found'), NEW f, CutOff(f)
  PROVE  CutOff(f)'
PROOF
  <1> DEFINE S == {g \in found : Concerns(g) /\ Precedes(g, f)}
             T == {g \in found' : Concerns(g) /\ Precedes(g, f)}
  <1>1. S \subseteq T
    OBVIOUS
  <1>2. IsFiniteSet(T)
    <2>1. T \subseteq found'
      OBVIOUS
    <2> HIDE DEF T
    <2> QED
      BY <2>1, FS_Subset
  <1>3. CardLimit <= Cardinality(S)
    BY DEF CutOff
  <1>4. CardLimit \in Nat
    BY IncidentAssumption
  <1>5. CutOff(f)' <=> CardLimit <= Cardinality(T)
    BY DEF CutOff, Concerns
  <1> HIDE DEF S, T
  <1>6. IsFiniteSet(S) /\ Cardinality(S) <= Cardinality(T)
    BY <1>1, <1>2, FS_Subset
  <1>7. Cardinality(S) \in Nat /\ Cardinality(T) \in Nat
    BY <1>2, <1>6, FS_CardinalityType
  <1> QED
    BY <1>3, <1>4, <1>5, <1>6, <1>7

-----------------------------------------------------------------------------
(* The invariant *)

LEMMA IInvInit == Init => IInv
PROOF
  BY FS_EmptySet DEF Init, IInv, RowsOfRecord

\* The logger stores.
LEMMA IInvStore ==
  ASSUME IInv,
         \/ \E r \in AuditRow : StoreRow(r) \/ Merge(r)
         \/ \E e \in Event : \E K \in SUBSET FindingRows(e) : StoreFindings(e, K)
  PROVE  IInv'
PROOF
  <1>1. CASE UNCHANGED <<found, pc, ev, known, rows>>
    BY <1>1 DEF IInv, RowsOfRecord, Concerns, CutOff
  <1>2. ASSUME NEW r \in AuditRow, StoreRow(r) \/ Merge(r) PROVE IInv'
    BY <1>1, <1>2 DEF StoreRow, Merge
  <1>3. ASSUME NEW e \in Event, NEW K \in SUBSET FindingRows(e), StoreFindings(e, K) PROVE IInv'
    <2>1. K \subseteq FindingRow /\ IsFiniteSet(K)
      BY EventRows, FS_Subset
    <2>2. found' = found \cup K /\ UNCHANGED <<pc, ev, known, rows>>
      BY <1>3 DEF StoreFindings
    <2>3. IsFiniteSet(found')
      BY <2>1, <2>2, FS_Union DEF IInv
    <2>4. found' \subseteq FindingRow /\ known'.found \subseteq found'
      BY <2>1, <2>2 DEF IInv
    <2>5. \A f : CutOff(f) => CutOff(f)'
      BY <2>2, <2>3, CutOffStays
    <2>6. RowsOfRecord'
      BY <2>2, <2>5 DEF IInv, RowsOfRecord, Concerns
    <2> QED
      BY <2>3, <2>4, <2>6 DEF IInv
  <1> QED
    BY <1>2, <1>3

\* The findings that are read: of the record, and all that were known unless they are
\* cut off.
LEMMA IInvFindings == IInv /\ FindingsFor => IInv'
PROOF
  <1> SUFFICES ASSUME IInv, FindingsFor PROVE IInv'
    OBVIOUS
  <1>1. rows' = First(FindingsOf(ev), CardLimit) /\ UNCHANGED <<found, ev, known>>
    BY DEF FindingsFor
  <1>2. FindingsOf(ev) = {f \in found : Concerns(f)}
    BY DEF FindingsOf, Concerns
  <1> DEFINE R == {f \in found : Concerns(f)}
  <1>3. IsFiniteSet(R)
    BY FS_Subset DEF IInv
  <1>4. CardLimit \in Nat
    BY IncidentAssumption
  <1>5. /\ First(R, CardLimit) \subseteq R
        /\ \A r \in R \ First(R, CardLimit) : CardLimit <= Cardinality({s \in R : Precedes(s, r)})
    <2> HIDE DEF R
    <2> QED
      BY <1>3, <1>4, FirstCuts
  <1>6. \A r : {s \in R : Precedes(s, r)} = {s \in found : Concerns(s) /\ Precedes(s, r)}
    OBVIOUS
  <1>7. /\ \A f \in rows' : f \in found /\ Concerns(f)
        /\ \A f \in known.found : Concerns(f) => f \in rows' \/ CutOff(f)
    BY <1>1, <1>2, <1>5, <1>6 DEF IInv, CutOff
  <1>8. \A f : (Concerns(f)' <=> Concerns(f)) /\ (CutOff(f)' <=> CutOff(f))
    BY <1>1 DEF Concerns, CutOff
  <1>9. RowsOfRecord'
    BY <1>1, <1>7, <1>8 DEF RowsOfRecord
  <1> QED
    BY <1>1, <1>9 DEF IInv

LEMMA IInvNext == IInv /\ [Next]_vars => IInv'
PROOF
  <1> SUFFICES ASSUME IInv, [Next]_vars PROVE IInv'
    OBVIOUS
  <1>1. ASSUME NEW w \in Want, Ask(w) PROVE IInv'
    BY <1>1 DEF Ask, IInv, RowsOfRecord
  <1>2. CASE One
    BY <1>2 DEF One, IInv, RowsOfRecord
  <1>3. CASE QueryFails
    BY <1>3 DEF QueryFails, IInv, RowsOfRecord
  <1>4. CASE UNCHANGED vars
    BY <1>4 DEF vars, IInv, RowsOfRecord, Concerns, CutOff
  <1> QED
    BY <1>1, <1>2, <1>3, <1>4, IInvStore, IInvFindings DEF Next

\* What a card is made of is read after its record, concerns it, and leaves
\* out nothing that was stored when the record was read but what is cut off.
THEOREM InductiveInvariant == Spec => []IInv
PROOF
  BY IInvInit, IInvNext, PTL DEF Spec

-----------------------------------------------------------------------------
(* The card *)

\* Every finding with a code is on the card CardOf makes, in the phase of the
\* record, under its own inspector.
LEMMA CardShows ==
  ASSUME NEW f \in rows, f.coded, f.phase = ev.phase
  PROVE  OnCard(f)
PROOF
  <1> DEFINE own == SamePhase(ev, rows)
  <1>1. f \in own /\ f \in CodedBy(f.by, own)
    BY DEF SamePhase, CodedBy
  <1>2. CASE f.by \in ev.insp
    <2> DEFINE p == [name |-> f.by, orphan |-> FALSE, clean |-> IsClean(f.by, own),
                     findings |-> CodedBy(f.by, own)]
    <2>1. p \in Card
      BY <1>2 DEF Card, CardOf
    <2>2. p.name = f.by /\ p.findings = CodedBy(f.by, own)
      OBVIOUS
    <2> QED
      BY <1>1, <2>1, <2>2 DEF OnCard
  <1>3. CASE f.by \notin ev.insp
    <2> DEFINE p == [name |-> f.by, orphan |-> TRUE, clean |-> FALSE,
                     findings |-> CodedBy(f.by, own)]
    <2>1. f.by \in {g.by : g \in {h \in own : h.coded}} \ ev.insp
      BY <1>1, <1>3
    <2>2. p \in Card
      BY <2>1 DEF Card, CardOf
    <2>3. p.name = f.by /\ p.findings = CodedBy(f.by, own)
      OBVIOUS
    <2> QED
      BY <1>1, <2>2, <2>3 DEF OnCard
  <1> QED
    BY <1>2, <1>3

\* The entries of a card hold the findings of their own inspector, and no two
\* entries have one name.
LEMMA CardEntries ==
  ASSUME NEW p \in Card
  PROVE  /\ p.findings = CodedBy(p.name, SamePhase(ev, rows))
         /\ p.clean => IsClean(p.name, SamePhase(ev, rows))
         /\ \A q \in Card : p.name = q.name => p = q
PROOF
  <1> DEFINE own == SamePhase(ev, rows)
             orphans == {f.by : f \in {g \in own : g.coded}} \ ev.insp
             named(i) == [name |-> i, orphan |-> FALSE, clean |-> IsClean(i, own),
                          findings |-> CodedBy(i, own)]
             orphan(i) == [name |-> i, orphan |-> TRUE, clean |-> FALSE,
                           findings |-> CodedBy(i, own)]
  <1>1. Card = {named(i) : i \in ev.insp} \cup {orphan(i) : i \in orphans}
    BY DEF Card, CardOf
  <1>2. \A i : /\ named(i).name = i /\ named(i).findings = CodedBy(i, own)
               /\ orphan(i).name = i /\ orphan(i).findings = CodedBy(i, own)
    OBVIOUS
  <1>3. \A i : (named(i).clean = IsClean(i, own)) /\ (orphan(i).clean = FALSE)
    OBVIOUS
  <1>4. orphans \cap ev.insp = {}
    OBVIOUS
  <1> HIDE DEF own, orphans, named, orphan
  <1>5. \A q \in Card : (q.name \in ev.insp /\ q = named(q.name)) \/ (q.name \in orphans /\ q = orphan(q.name))
    BY <1>1, <1>2
  <1>6. p.findings = CodedBy(p.name, own)
    BY <1>2, <1>5
  <1>7. p.clean => IsClean(p.name, own)
    BY <1>3, <1>5
  <1>8. \A q \in Card : p.name = q.name => p = q
    BY <1>4, <1>5
  <1> QED
    BY <1>6, <1>7, <1>8 DEF own

\* The card of a record shows what was found about it and nothing else.
THEOREM CardsAreComplete == Spec => []CardComplete
PROOF
  <1>1. IInv => CardComplete
    <2> SUFFICES ASSUME IInv, pc = "shown" PROVE CardComplete
      BY DEF CardComplete
    <2>1. ASSUME ev.phase # "session", NEW f \in known.found, f.coded, About(f), ~CutOff(f)
          PROVE  OnCard(f)
      <3>1. Concerns(f)
        BY <2>1 DEF About, Concerns
      <3>2. f \in rows /\ f.phase = ev.phase
        BY <2>1, <3>1 DEF IInv, RowsOfRecord, About
      <3> QED
        BY <2>1, <3>2, CardShows
    <2>2. ASSUME NEW p \in Card, NEW f \in p.findings
          PROVE  About(f) /\ f \in found /\ f.by = p.name
      <3>1. f \in rows /\ f.by = p.name /\ f.phase = ev.phase
        BY <2>2, CardEntries DEF CodedBy, SamePhase
      <3> QED
        BY <3>1 DEF IInv, RowsOfRecord, Concerns, About
    <2> QED
      BY <2>1, <2>2, CardEntries DEF CardComplete
  <1> QED
    BY <1>1, InductiveInvariant, PTL

\* No inspector is shown as clean that had found something.
THEOREM CleanMeansClean == Spec => []CleanIsClean
PROOF
  <1>1. IInv => CleanIsClean
    <2> SUFFICES ASSUME IInv, pc = "shown", NEW p \in Card, p.clean,
                        NEW f \in known.found, f.by = p.name, f.coded, About(f),
                        ev.phase # "session", ~CutOff(f)
                 PROVE  FALSE
      BY DEF CleanIsClean
    <2>1. f \in rows /\ f.phase = ev.phase
      BY DEF IInv, RowsOfRecord, Concerns, About
    <2>2. f \in CodedBy(p.name, SamePhase(ev, rows))
      BY <2>1 DEF CodedBy, SamePhase
    <2> QED
      BY <2>2, CardEntries DEF IsClean
  <1> QED
    BY <1>1, InductiveInvariant, PTL

\* What became of the actions of a record is shown with them.
THEOREM OutcomesAreShown == Spec => []OutcomesShown
PROOF
  <1>1. IInv => OutcomesShown
    <2> SUFFICES ASSUME IInv, pc = "shown", ev.phase # "session", NEW a \in ev.acts
                 PROVE  LET listed == ActionsOf(ev, rows)[a]
                        IN /\ \A f \in known.found :
                                (About(f) /\ a \in f.says) => f \in listed \/ CutOff(f)
                           /\ \A f \in listed : About(f) /\ f \in found /\ a \in f.says
      BY DEF OutcomesShown
    <2>1. ActionsOf(ev, rows)[a] = {f \in rows : f.phase = ev.phase /\ a \in f.says}
      BY DEF ActionsOf, SamePhase
    <2>2. \A f \in known.found : About(f) => (f \in rows /\ f.phase = ev.phase) \/ CutOff(f)
      BY DEF IInv, RowsOfRecord, Concerns, About
    <2>3. \A f \in rows : f.phase = ev.phase => About(f) /\ f \in found
      BY DEF IInv, RowsOfRecord, Concerns, About
    <2> QED
      BY <2>1, <2>2, <2>3
  <1> QED
    BY <1>1, InductiveInvariant, PTL
-----------------------------------------------------------------------------
(* The record *)

\* The newest of some rows is one of them.
LEMMA NewestIsOne ==
  ASSUME NEW R \in SUBSET AuditRow, R # {}
  PROVE  Newest(R) \in R /\ \A s \in R : s.at <= Newest(R).at
PROOF
  <1> DEFINE f == [r \in R |-> r.at]
  <1>1. f \in [R -> Nat]
    BY IncidentAssumption
  <1>2. IsFiniteSet(R)
    BY IncidentAssumption, FS_Subset
  <1>3. PICK x \in R : \A y \in R : f[y] <= f[x]
    <2> HIDE DEF f
    <2> QED
      BY <1>1, <1>2, HighestExists
  <1>4. \A y \in R : y.at <= x.at
    BY <1>3
  <1> QED
    BY <1>4 DEF Newest

LEMMA CopiesFinite ==
  ASSUME NEW a \in [AuditRow -> Nat]
  PROVE  IsFiniteSet(CopiesOf(AuditRow, a))
PROOF
  <1> DEFINE C(r) == {r} \X (1..a[r])
             F == [r \in AuditRow |-> C(r)]
             S == {C(r) : r \in AuditRow}
  <1>1. F \in Surjection(AuditRow, S)
    BY DEF Surjection
  <1>2. IsFiniteSet(S)
    <2> HIDE DEF F, S
    <2> QED
      BY <1>1, IncidentAssumption, FS_Surjection
  <1>3. ASSUME NEW r \in AuditRow PROVE IsFiniteSet(C(r))
    <2> DEFINE one == {r}
               many == 1..a[r]
    <2>1. a[r] \in Int
      BY <1>3
    <2>4. IsFiniteSet(one)
      BY FS_Singleton
    <2>5. IsFiniteSet(many)
      BY <2>1, FS_Interval
    <2>3. IsFiniteSet(one) /\ IsFiniteSet(many)
      BY <2>4, <2>5
    <2> HIDE DEF one, many
    <2>2. IsFiniteSet(one \X many)
      BY <2>3, FS_Product
    <2> QED
      BY <2>2 DEF one, many
  <1>4. \A T \in S : IsFiniteSet(T)
    <2> HIDE DEF C
    <2> QED
      BY <1>3
  <1>5. CopiesOf(AuditRow, a) = UNION S
    BY DEF CopiesOf
  <1> HIDE DEF S
  <1> QED
    BY <1>2, <1>4, <1>5, FS_UNION

LEMMA MatchingRows ==
  ASSUME NEW w, copies \in [AuditRow -> Nat]
  PROVE  /\ Matching(w) \in SUBSET AuditRow
         /\ \A r \in AuditRow : r \in Matching(w) <=> /\ copies[r] > 0
                                                      /\ Searched(w.phase) \in {"", r.phase}
                                                      /\ w.frame \in {0, r.frame}
PROOF
  BY DEF Matching, Stored

\* What is listed matches, something is whenever something matches, and as long as
\* the ray has no more rows than are read, no phase and frame is missing.
LEMMA ListedRows ==
  ASSUME NEW w, copies \in [AuditRow -> Nat]
  PROVE  /\ Listed(w) \in SUBSET Matching(w)
         /\ Matching(w) # {} => Listed(w) # {}
         /\ Cardinality(CopiesOf(AuditRow, copies)) <= OneLimit =>
              \A r \in Matching(w) : \E s \in Listed(w) : s.phase = r.phase /\ s.frame = r.frame
PROOF
  <1> DEFINE all == Matching(w)
             newer(r) == CopiesOf({s \in all : s.at > r.at}, copies)
             cut == {r \in all : Cardinality(newer(r)) < OneLimit}
             same(r) == {s \in cut : s.phase = r.phase /\ s.frame = r.frame}
  <1>0. /\ all \in SUBSET AuditRow /\ OneLimit \in Nat \ {0}
        /\ \A r \in AuditRow : r.at \in Nat
    BY MatchingRows, IncidentAssumption
  <1>1. Listed(w) = {r \in cut : \A s \in cut : (s.phase = r.phase /\ s.frame = r.frame) => s.at <= r.at}
    BY DEF Listed
  <1>2. ASSUME NEW r \in cut
        PROVE  \E s \in Listed(w) : s.phase = r.phase /\ s.frame = r.frame
    <2>1. r \in same(r) /\ same(r) \in SUBSET AuditRow
      BY <1>0, <1>2
    <2>2. PICK x \in same(r) : \A y \in same(r) : y.at <= x.at
      <3> HIDE DEF same
      <3> QED
        BY <2>1, NewestIsOne
    <2>3. x \in Listed(w)
      BY <1>1, <2>2
    <2> QED
      BY <2>2, <2>3
  <1>3. ASSUME NEW z \in all PROVE cut # {}
    <2>1. PICK x \in all : \A y \in all : y.at <= x.at
      <3> HIDE DEF all
      <3> QED
        BY <1>0, <1>3, NewestIsOne
    <2>2. {s \in all : s.at > x.at} = {}
      <3> HIDE DEF all
      <3> QED
        BY <1>0, <2>1
    <2>3. newer(x) = {}
      BY <2>2 DEF CopiesOf
    <2>4. Cardinality(newer(x)) < OneLimit
      <3>1. Cardinality(newer(x)) = 0
        BY <2>3, FS_EmptySet, Zenon
      <3>2. OneLimit \in Nat \ {0}
        BY <1>0
      <3> HIDE DEF newer
      <3> QED
        BY <3>1, <3>2
    <2> QED
      BY <2>4
  <1>4. ASSUME Cardinality(CopiesOf(AuditRow, copies)) <= OneLimit, NEW r \in all
        PROVE  r \in cut
    <2> DEFINE C == CopiesOf(AuditRow, copies)
               N == newer(r)
    <2>0. r \in AuditRow /\ copies[r] > 0
      BY <1>0, <1>4, MatchingRows
    <2>1. r \in AuditRow /\ copies[r] \in Nat \ {0}
      BY <2>0
    <2>2. N \in SUBSET C
      BY <1>0 DEF CopiesOf
    <2>3. <<r, 1>> \in C
      BY <2>1 DEF CopiesOf
    <2>4. <<r, 1>> \notin N
      <3> SUFFICES ASSUME NEW s \in all, s.at > r.at, <<r, 1>> \in {s} \X (1..copies[s]) PROVE FALSE
        BY DEF CopiesOf
      <3>1. s = r
        OBVIOUS
      <3> HIDE DEF all
      <3> QED
        BY <1>0, <2>1, <3>1
    <2>5. IsFiniteSet(C) /\ Cardinality(C) <= OneLimit
      BY <1>4, CopiesFinite
    <2> HIDE DEF C, N
    <2>6. IsFiniteSet(N) /\ Cardinality(N) <= Cardinality(C) /\ Cardinality(N) # Cardinality(C)
      BY <2>2, <2>3, <2>4, <2>5, FS_Subset
    <2>7. Cardinality(N) \in Nat /\ Cardinality(C) \in Nat
      BY <2>5, <2>6, FS_CardinalityType
    <2>8. Cardinality(N) < OneLimit
      BY <1>0, <2>5, <2>6, <2>7
    <2> QED
      BY <1>4, <2>8 DEF N
  <1>5. Listed(w) \in SUBSET all
    BY <1>1
  <1> HIDE DEF all, cut
  <1>6. all # {} => Listed(w) # {}
    BY <1>2, <1>3
  <1> QED
    BY <1>2, <1>4, <1>5, <1>6 DEF all

\* The record fits what was asked for, and is the request's if that can be.
Chosen ==
  /\ Searched(want.phase) \in {"", ev.phase} /\ want.frame \in {0, ev.frame}
  /\ (want.phase = "" /\ RequestKnown /\ RowsKnown <= OneLimit) => ev.phase = "request"

NoneKnown ==
  \A r \in Stored(known.audit) : ~(Searched(want.phase) \in {"", r.phase} /\ want.frame \in {0, r.frame})

RecordInv ==
  /\ copies \in [AuditRow -> Nat]
  /\ pc \in {"idle", "one", "findings", "shown", "not_found"}
  /\ pc \in {"findings", "shown"} => Chosen
  /\ pc = "not_found" => NoneKnown

LEMMA OneChooses ==
  ASSUME RecordInv, One
  PROVE  RecordInv'
PROOF
  <1>0. /\ copies \in [AuditRow -> Nat] /\ copies' = copies /\ want' = want
        /\ known'.audit = copies
    BY DEF RecordInv, One
  <1>1. /\ Matching(want) \in SUBSET AuditRow
        /\ \A r \in AuditRow : r \in Matching(want) <=> /\ copies[r] > 0
                                                        /\ Searched(want.phase) \in {"", r.phase}
                                                        /\ want.frame \in {0, r.frame}
    BY <1>0, MatchingRows
  <1>2. /\ Listed(want) \in SUBSET Matching(want)
        /\ Matching(want) # {} => Listed(want) # {}
        /\ Cardinality(CopiesOf(AuditRow, copies)) <= OneLimit =>
             \A r \in Matching(want) :
               \E s \in Listed(want) : s.phase = r.phase /\ s.frame = r.frame
    BY <1>0, ListedRows
  <1>3. CASE Listed(want) = {}
    <2>1. pc' = "not_found"
      BY <1>3 DEF One
    <2>2. NoneKnown'
      BY <1>0, <1>1, <1>2, <1>3 DEF NoneKnown, Stored
    <2> QED
      BY <1>0, <2>1, <2>2 DEF RecordInv
  <1>4. CASE Listed(want) # {}
    <2> DEFINE L == Listed(want)
               Q == {r \in L : r.phase = "request"}
               P == IF want.phase = "" /\ Q # {} THEN Q ELSE L
    <2>1. pc' = "findings" /\ ev' = Newest(P)
      BY <1>4 DEF One, Pick
    <2>2. P \in SUBSET AuditRow /\ P # {} /\ P \subseteq L
      BY <1>1, <1>2, <1>4
    <2>3. Newest(P) \in P
      <3> HIDE DEF P
      <3> QED
        BY <2>2, NewestIsOne
    <2>4. ev' \in AuditRow /\ Searched(want.phase) \in {"", ev'.phase} /\ want.frame \in {0, ev'.frame}
      BY <1>1, <1>2, <2>1, <2>2, <2>3
    <2>5. ASSUME want.phase = "", RequestKnown', RowsKnown' <= OneLimit
          PROVE  ev'.phase = "request"
      <3>1. PICK r \in AuditRow : /\ copies[r] > 0 /\ r.phase = "request"
                                  /\ want.frame \in {0, r.frame}
        BY <1>0, <2>5 DEF RequestKnown, Stored
      <3>2. r \in Matching(want)
        <4>1. Searched(want.phase) = ""
          BY <2>5 DEF Searched
        <4> QED
          BY <1>1, <3>1, <4>1
      <3>3. Cardinality(CopiesOf(AuditRow, copies)) <= OneLimit
        BY <1>0, <2>5 DEF RowsKnown
      <3>4. \E s \in L : s.phase = "request"
        BY <1>2, <3>1, <3>2, <3>3
      <3>5. P = Q
        BY <2>5, <3>4
      <3> QED
        BY <2>1, <2>3, <3>5
    <2>6. Chosen'
      BY <1>0, <2>4, <2>5 DEF Chosen
    <2> QED
      BY <1>0, <2>1, <2>6 DEF RecordInv
  <1> QED
    BY <1>3, <1>4

LEMMA OneMore ==
  ASSUME NEW S, NEW c \in [S -> Nat], NEW r \in S
  PROVE  [c EXCEPT ![r] = @ + 1] \in [S -> Nat]
PROOF
  OBVIOUS

LEMMA RecordNext == RecordInv /\ [Next]_vars => RecordInv'
PROOF
  <1> SUFFICES ASSUME RecordInv, [Next]_vars PROVE RecordInv'
    OBVIOUS
  <1> USE DEF RecordInv, Chosen, NoneKnown, RequestKnown, RowsKnown
  <1>1. ASSUME NEW r \in AuditRow, StoreRow(r) PROVE RecordInv'
    <2>1. copies' \in [AuditRow -> Nat]
      BY <1>1, OneMore DEF StoreRow
    <2> QED
      BY <1>1, <2>1 DEF StoreRow
  <1>2. ASSUME NEW r \in AuditRow, Merge(r) PROVE RecordInv'
    BY <1>2 DEF Merge
  <1>3. ASSUME NEW e \in Event, NEW K \in SUBSET FindingRows(e), StoreFindings(e, K) PROVE RecordInv'
    BY <1>3 DEF StoreFindings
  <1>4. ASSUME NEW w \in Want, Ask(w) PROVE RecordInv'
    BY <1>4 DEF Ask
  <1>5. CASE FindingsFor
    BY <1>5 DEF FindingsFor
  <1>6. CASE QueryFails
    BY <1>6 DEF QueryFails
  <1>7. CASE UNCHANGED vars
    BY <1>7 DEF vars
  <1> QED
    BY <1>1, <1>2, <1>3, <1>4, <1>5, <1>6, <1>7, OneChooses DEF Next

\* Whatever the ray holds, One answers with the phase and frame it was asked for,
\* or says that they are not stored; asked for no phase, it answers with the
\* request as long as the rows of the ray are no more than it reads
\* (query.go:653-686).
THEOREM OneFindsIt == Spec => []OneFinds
PROOF
  <1>1. Init => RecordInv
    BY DEF Init, RecordInv
  <1>2. RecordInv => OneFinds
    BY DEF RecordInv, Chosen, NoneKnown, OneFinds
  <1> QED
    BY <1>1, <1>2, RecordNext, PTL DEF Spec

=============================================================================
