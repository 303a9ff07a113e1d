------------------------------- MODULE Incident -------------------------------
(***************************************************************************)
(* The card of one request, GET /api/audit/{node}/{ray}/inspectors: the    *)
(* handler reads a record of the ray (One, internal/query/query.go), then  *)
(* the findings that belong to it (FindingsFor, card.go and finding.go),   *)
(* and joins them by inspector (CardOf).  The logger goes on storing rows  *)
(* and what FromInspector (internal/model/finding.go) makes of inspector   *)
(* events, in any order and in parts.                                      *)
(*                                                                         *)
(* Everything belongs to one node and ray.  An audit row has a phase, the  *)
(* frame it is about (0: none), the inspectors it names, the module itself *)
(* among them where it has a verdict, the actions it took and a number     *)
(* that orders it by time; waf.audit is read as stored, so what matters is *)
(* the number of its copies.  waf.audit_finding is read FINAL: it is a set. *)
(***************************************************************************)
EXTENDS Naturals, SequencesExt

CONSTANTS
  AuditRow,     \* the audit rows of the ray, a set of [phase, frame, at, insp, acts]
  Event,        \* inspector events: a set of [phase, frame, by, coded, says]
  Want,         \* what readers ask for: a set of [phase, frame]; "" is any phase
  OneLimit,     \* rows that One reads
  MaxFindings,  \* findings kept of one event
  CardLimit,    \* findings read for a card
  MaxCopies     \* bound on the unmerged copies of an audit row

Phase == {"request", "response", "frame", "session"}

ASSUME IncidentAssumption ==
  /\ AuditRow \subseteq [phase : Phase, frame : Nat, at : Nat, insp : SUBSET Nat, acts : SUBSET Nat]
  /\ \A r, s \in AuditRow : r.at = s.at => r = s
  /\ IsFiniteSet(AuditRow)
  /\ Event \subseteq [phase : Phase, frame : Nat, by : Nat, coded : Seq(BOOLEAN),
                       says : SUBSET Nat]
  /\ Want \subseteq [phase : STRING, frame : Nat]
  /\ OneLimit \in Nat \ {0} /\ MaxFindings \in Nat \ {0} /\ CardLimit \in Nat \ {0}
  /\ MaxCopies \in Nat

VARIABLES
  copies,   \* waf.audit: unmerged copies of each row
  found,    \* waf.audit_finding
  pc,       \* the handler: "idle", "one", "findings", "shown", "not_found"
  want,     \* what its reader asked for
  ev,       \* the record it read, or NoRecord
  known,    \* the rows and findings that were stored when it read the record
  rows      \* the findings it read

vars == <<copies, found, pc, want, ev, known, rows>>

NoRecord == [phase |-> "", frame |-> 0, at |-> 0, insp |-> {}, acts |-> {}]

FindingRow == [phase : Phase, frame : Nat, by : Nat, idx : Nat, coded : BOOLEAN,
               says : SUBSET Nat]

-----------------------------------------------------------------------------
(* What the logger stores.  A definition named ...Mutant is the one after it *)
(* with a plausible bug; put in its place, it must break a property.         *)

\* FromInspector: a row per finding, as many as are kept; an event without
\* findings leaves one row without a code.  What it says about actions is in each row.
FindingRows(e) ==
  LET row(i, c) == [phase |-> e.phase, frame |-> e.frame, by |-> e.by, idx |-> i, coded |-> c,
                   says |-> e.says]
  IN IF e.coded = <<>> THEN {row(0, FALSE)}
     ELSE {row(k - 1, e.coded[k]) : k \in 1..Min({Len(e.coded), MaxFindings})}

-----------------------------------------------------------------------------
(* One *)

Stored(a) == {r \in AuditRow : a[r] > 0}

\* Normalize drops a phase that is not known from the search.
Searched(phase) == IF phase \in Phase THEN phase ELSE ""

\* The rows of the ray with the wanted phase and frame.
Matching(w) ==
  {r \in Stored(copies) : Searched(w.phase) \in {"", r.phase} /\ (w.frame # 0 => w.frame = r.frame)}

Newest(R) == CHOOSE r \in R : \A s \in R : s.at <= r.at

\* The stored rows of R, a row once for each of its copies in a.
CopiesOf(R, a) == UNION {{r} \X (1..a[r]) : r \in R}

\* Of the newest OneLimit rows, copies among them, the first of each phase and
\* frame.
Listed(w) ==
  LET all == Matching(w)
      cut == {r \in all : Cardinality(CopiesOf({s \in all : s.at > r.at}, copies)) < OneLimit}
  IN {r \in cut : \A s \in cut : (s.phase = r.phase /\ s.frame = r.frame) => s.at <= r.at}

\* Without a phase the request row is preferred to the newest one, but not with one
\* that is not known.
PickMutant(w, listed) == Newest(listed)
Pick(w, listed) ==
  LET requests == {r \in listed : r.phase = "request"}
  IN Newest(IF w.phase = "" /\ requests # {} THEN requests ELSE listed)

-----------------------------------------------------------------------------
(* The findings and the card *)

PhaseRank == [p \in Phase |->
  CASE p = "frame" -> 1 [] p = "request" -> 2 [] p = "response" -> 3 [] OTHER -> 4]

\* ORDER BY phase, frame, inspector and index.
Precedes(r, s) ==
  LET key(f) == <<PhaseRank[f.phase], f.frame, f.by, f.idx>>
      a == key(r)
      b == key(s)
  IN \E k \in 1..4 : a[k] < b[k] /\ \A j \in 1..k - 1 : a[j] = b[j]

First(R, n) == {r \in R : Cardinality({s \in R : Precedes(s, r)}) < n}

\* FindingsFor: those of the frame, none for a session, or all of the ray.
FindingsOfMutant(e) == found
FindingsOf(e) ==
  CASE e.phase = "frame" -> {f \in found : f.frame = e.frame}
    [] e.phase = "session" -> {}
    [] OTHER -> found

SamePhaseMutant(e, R) == R
SamePhase(e, R) == {f \in R : f.phase = e.phase}

CodedBy(i, R) == {f \in R : f.by = i /\ f.coded}
ReportedClean(i, R) == \E f \in R : f.by = i /\ ~f.coded

IsCleanMutant(i, R) == ReportedClean(i, R)
IsClean(i, R) == ReportedClean(i, R) /\ CodedBy(i, R) = {}

\* CardOf: the inspectors of the record, and those it does not name but that
\* have findings.
CardOf(e, R) ==
  LET own == SamePhase(e, R)
      orphans == {f.by : f \in {g \in own : g.coded}} \ e.insp
  IN {[name |-> i, orphan |-> FALSE, clean |-> IsClean(i, own), findings |-> CodedBy(i, own)]
        : i \in e.insp}
     \cup {[name |-> i, orphan |-> TRUE, clean |-> FALSE, findings |-> CodedBy(i, own)]
             : i \in orphans}

\* actionsOf: what was said about each action of the record, an entry for every row
\* that says it, those of clean events included.
ActionsOfMutant(e, R) == [a \in e.acts |-> {f \in SamePhase(e, R) : f.coded /\ a \in f.says}]
ActionsOf(e, R) == [a \in e.acts |-> {f \in SamePhase(e, R) : a \in f.says}]

-----------------------------------------------------------------------------
Init ==
  /\ copies = [r \in AuditRow |-> 0]
  /\ found = {}
  /\ pc = "idle"
  /\ want \in Want
  /\ ev = NoRecord
  /\ known = [audit |-> copies, found |-> {}]
  /\ rows = {}

StoreRow(r) ==
  /\ copies[r] < MaxCopies
  /\ copies' = [copies EXCEPT ![r] = @ + 1]
  /\ UNCHANGED <<found, pc, want, ev, known, rows>>

\* The rows of an event, or those a failing insert has stored.
StoreFindings(e, K) ==
  /\ K \subseteq FindingRows(e)
  /\ ~(K \subseteq found)
  /\ found' = found \cup K
  /\ UNCHANGED <<copies, pc, want, ev, known, rows>>

\* ClickHouse merges the copies of a row.
Merge(r) ==
  /\ copies[r] > 1
  /\ copies' = [copies EXCEPT ![r] = 1]
  /\ UNCHANGED <<found, pc, want, ev, known, rows>>

Ask(w) ==
  /\ pc \in {"idle", "shown", "not_found"}
  /\ pc' = "one"
  /\ want' = w
  /\ ev' = NoRecord /\ rows' = {}
  /\ known' = [audit |-> [r \in AuditRow |-> 0], found |-> {}]
  /\ UNCHANGED <<copies, found>>

One ==
  /\ pc = "one"
  /\ known' = [audit |-> copies, found |-> found]
  /\ IF Listed(want) = {} THEN pc' = "not_found" /\ UNCHANGED ev
     ELSE pc' = "findings" /\ ev' = Pick(want, Listed(want))
  /\ UNCHANGED <<copies, found, want, rows>>

FindingsFor ==
  /\ pc = "findings"
  /\ rows' = First(FindingsOf(ev), CardLimit)
  /\ pc' = "shown"
  /\ UNCHANGED <<copies, found, want, ev, known>>

\* A query fails: the reader is told so and may ask again.
QueryFails ==
  /\ pc \in {"one", "findings"}
  /\ pc' = "idle"
  /\ ev' = NoRecord
  /\ UNCHANGED <<copies, found, want, known, rows>>

Next ==
  \/ \E r \in AuditRow : StoreRow(r) \/ Merge(r)
  \/ \E e \in Event : \E K \in SUBSET FindingRows(e) : StoreFindings(e, K)
  \/ \E w \in Want : Ask(w)
  \/ One \/ FindingsFor \/ QueryFails

Spec == Init /\ [][Next]_vars

-----------------------------------------------------------------------------
(* Properties *)

Card == CardOf(ev, rows)

OnCard(f) == \E p \in Card : p.name = f.by /\ f \in p.findings

About(f) == f.phase = ev.phase /\ (ev.phase = "frame" => f.frame = ev.frame)

\* What FindingsFor reads for the record.
Concerns(f) == ev.phase # "session" /\ (ev.phase = "frame" => f.frame = ev.frame)

\* As many findings as are read for a card sort before this one.
CutOff(f) == CardLimit <= Cardinality({g \in found : Concerns(g) /\ Precedes(g, f)})

\* The card of a record shows what was found about it and nothing else: each
\* finding with a code that was stored when the record was read, under its own
\* inspector, once, whether or not the record names that inspector, and no
\* finding about another phase or frame.  Only a finding that as many others of the
\* ray as the query reads sort before may be missing: those of frames hide the ones
\* of their request, but never those of another frame (card.go:201-319,
\* finding.go:163-196).
CardComplete ==
  pc = "shown" =>
    /\ ev.phase # "session" =>
         \A f \in known.found : (f.coded /\ About(f)) => OnCard(f) \/ CutOff(f)
    /\ \A p \in Card : \A f \in p.findings : About(f) /\ f \in found /\ f.by = p.name
    /\ \A p, q \in Card : p.name = q.name => p = q

\* An inspector is shown as clean only when nothing it found about the record
\* had been stored, or it was cut off, although an event may arrive in parts and
\* findings without a code look like the row of a clean event (card.go:228-285).
CleanIsClean ==
  pc = "shown" =>
    \A p \in Card : p.clean =>
      \A f \in known.found :
        (f.by = p.name /\ f.coded /\ About(f) /\ ev.phase # "session") => CutOff(f)

\* What inspectors said became of an action of the record is shown with it, also by
\* those who found nothing, and nothing that was said about another phase or frame
\* (actionsOf, card.go:144-199).  It is listed once for each finding of the event
\* that said it, since each has the whole of it.
OutcomesShown ==
  (pc = "shown" /\ ev.phase # "session") =>
    \A a \in ev.acts :
      LET listed == ActionsOf(ev, rows)[a]
      IN /\ \A f \in known.found : (About(f) /\ a \in f.says) => f \in listed \/ CutOff(f)
         /\ \A f \in listed : About(f) /\ f \in found /\ a \in f.says

(***************************************************************************)
(* What makes the three inductive: the tables grow, so what was known when *)
(* the record was read is still there when its findings are, and what was  *)
(* cut off then still is.                                                  *)
(***************************************************************************)
RowsOfRecord ==
  pc = "shown" =>
    /\ rows \subseteq found
    /\ \A f \in rows : Concerns(f)
    /\ \A f \in known.found : Concerns(f) => f \in rows \/ CutOff(f)

\* The inductive invariant (FindingsFor, card.go:309-319).
IInv ==
  /\ found \subseteq FindingRow /\ IsFiniteSet(found)
  /\ known.found \subseteq found
  /\ RowsOfRecord

RowsKnown == Cardinality(CopiesOf(AuditRow, known.audit))

RequestKnown == \E r \in Stored(known.audit) : r.phase = "request" /\ want.frame \in {0, r.frame}

\* Asked for a known phase or a frame, One answers with it if it is stored, and
\* without a phase with the request row, as long as the ray has no more rows, unmerged
\* copies included, than One reads (query.go:653-686).
OneFinds ==
  /\ (pc = "shown" /\ want.phase = "" /\ RequestKnown /\ RowsKnown <= OneLimit) =>
       ev.phase = "request"
  /\ pc = "shown" => Searched(want.phase) \in {"", ev.phase} /\ want.frame \in {0, ev.frame}
  /\ pc = "not_found" =>
       \A r \in Stored(known.audit) :
         ~(Searched(want.phase) \in {"", r.phase} /\ want.frame \in {0, r.frame})

\* README.md:44 says of GET /api/audit/{node}/{ray} that it answers "one request
\* with its phases": asked without a phase, One answers with the request row if
\* it is stored.  Eight newer rows of the ray, frames of a WebSocket, hide it.
OneAnswersRequest ==
  (pc = "shown" /\ want = [phase |-> "", frame |-> 0] /\ RequestKnown) => ev.phase = "request"
=============================================================================
