-------------------------------- MODULE Ingest --------------------------------
(***************************************************************************)
(* From payloads to what a reader is shown: messages are delivered, some   *)
(* of them again, what parse makes of them is stored, and search reads it  *)
(* back (scan and sessions of internal/query/query.go, LogFacets of        *)
(* logs.go).  Inserts that fail and acknowledgements are the business of   *)
(* AuditConsumer and LogConsumer; here a delivery is stored.               *)
(*                                                                         *)
(* Rows of waf.audit and waf.audit_finding that are equal are one; rev is  *)
(* always 0, so of rows with one sorting key any may survive a merge.      *)
(* waf.log keeps every line.                                               *)
(***************************************************************************)
EXTENDS Payload

CONSTANTS
  Message,        \* payloads of WAF_AUDIT
  LogMessage,     \* payloads of WAF_LOG
  MaxDeliveries,  \* bound on the deliveries of one behaviour
  MaxClock        \* bound on the clock

\* The requests and events within a payload, whatever stands beside them.
Leaves[p \in Payloads] ==
  IF p.kind = "batch" THEN UNION {Leaves[p.items[k]] : k \in DOMAIN p.items} ELSE {p}

Requests(p) == {q \in Leaves[p] : q.kind \in {"request", ""} /\ Decodes(q.headers) /\ "" \notin {q.node, q.ray}}
Events(p) == {q \in Leaves[p] : q.kind = "inspector" /\ q.decodes /\ ~Unaddressed(q)}

\* Where the row of a request is stored, but for the time.
AddressOf(q) == <<q.node, q.ray, PhaseOf(q), q.frame>>

ASSUME IngestAssumption ==
  /\ Message \subseteq Payloads /\ Message \cap LogMessage = {}
  /\ \A b \in LogMessage : IsLogBatch(b)
  \* A request is sent in one message.
  /\ \A m, n \in Message : \A q \in Requests(m), r \in Requests(n) :
       AddressOf(q) = AddressOf(r) => m = n /\ q = r
  /\ MaxDeliveries \in Nat /\ MaxClock \in Nat \ {0}

VARIABLES
  now,       \* the clock
  audit,     \* waf.audit
  findings,  \* waf.audit_finding
  log,       \* waf.log
  times,     \* when each message was delivered
  count      \* deliveries so far

vars == <<now, audit, findings, log, times, count>>

Init ==
  /\ now = 1
  /\ audit = {} /\ findings = {} /\ log = <<>>
  /\ times = [m \in Message \cup LogMessage |-> {}]
  /\ count = 0

Delivered(m) ==
  /\ count < MaxDeliveries
  /\ count' = count + 1
  /\ times' = [times EXCEPT ![m] = @ \cup {now}]

\* take and write: Go ranges over maps in any order.
Deliver(m) ==
  /\ Delivered(m)
  /\ \E order \in SetToSeqs(Name) :
       LET parsed == Parse(m, now, order)
       IN audit' = audit \cup parsed.rows /\ findings' = findings \cup parsed.findings
  /\ UNCHANGED <<now, log>>

DeliverLog(m) ==
  /\ Delivered(m)
  /\ log' = log \o FromLog(m, now)
  /\ UNCHANGED <<now, audit, findings>>

Tick ==
  /\ now < MaxClock
  /\ now' = now + 1
  /\ UNCHANGED <<audit, findings, log, times, count>>

Next == (\E m \in Message : Deliver(m)) \/ (\E m \in LogMessage : DeliverLog(m)) \/ Tick

Spec == Init /\ [][Next]_vars

-----------------------------------------------------------------------------
(* What is shown *)

\* sessions: the arrays are read side by side; one that is shorter has empty entries.
Str(items, k) == IF k \in DOMAIN items THEN items[k] ELSE ""

Sessions(row) ==
  [k \in DOMAIN row.sessions.source |->
     [by |-> Str(row.sessions.by, k), source |-> row.sessions.source[k],
      user |-> Str(row.sessions.user, k)]]

\* scan: only the row of a frame shows one.
FrameOf(row) == IF row.key.phase = "frame" THEN [dir |-> row.key.dir, seq |-> row.key.seq] ELSE NoFrame

\* rewritesOf and rewriteOf: one that is odd, no rewrite at all, spoils the others.
RewritesOf(row) ==
  [n \in {row.rewrite[k].name : k \in {k \in DOMAIN row.rewrite :
                                       \A j \in DOMAIN row.rewrite : row.rewrite[j].raw # "odd"}} |->
     row.rewrite[CHOOSE k \in DOMAIN row.rewrite : row.rewrite[k].name = n].raw]

\* clampName: a name that is too long asks for nothing.
Clamp(name) == IF name.long THEN NoName ELSE Trim(name)

\* logWhere, for the names of a facet.
Found(writer, service) ==
  {k \in DOMAIN log : Clamp(writer) \in {NoName, log[k].writer} /\ Clamp(service) \in {NoName, log[k].service}}

\* LogFacets: the lines of each writer and service.
LogFacets ==
  {[writer |-> l.writer, service |-> l.service,
    lines |-> Cardinality({k \in DOMAIN log : log[k].writer = l.writer /\ log[k].service = l.service})] :
     l \in ToSet(log)}

-----------------------------------------------------------------------------
(* Properties *)

Came == {m \in Message : times[m] # {}}

RowsFor(q) == {r \in audit : [r.key EXCEPT !.ts = 0] = [KeyOf(q, 0) EXCEPT !.ts = 0]}
RowsAbout(q) == {f \in findings : f.node = q.node /\ f.ray = q.ray /\ f.by = q.by
                                   /\ f.dir = q.frame.dir /\ f.seq = q.frame.seq}

\* A bad payload costs nothing but itself: every request and every event of a batch,
\* or of a batch in it, is stored however many of its neighbours cannot be parsed
\* (parse, consume.go:187-209); of an event the findings that are kept, each with its
\* own code and under its own key.
NeighboursKept ==
  \A m \in Came :
    /\ \A q \in Requests(m) : RowsFor(q) # {}
    /\ \A q \in Events(m) : \A k \in 1..Min({Len(q.codes), MaxFindings}) :
         \E f \in RowsAbout(q) : f.idx = k - 1 /\ f.code = q.codes[k]

\* A message that comes again adds nothing, unless it does not tell its time: a request
\* is one row under one key, equal each time, although Go ranges over its inspectors in
\* another order every time (spreadInspectors, row.go:426-511), so that it does not
\* matter which copy survives a merge; without a time it is a row for each time it was
\* parsed at (row.go:253-256), and these are never merged.
RowPerTime ==
  \A m \in Came : \A q \in Requests(m) :
    LET expected == IF q.ts # 0 THEN {q.ts} ELSE times[m]
    IN {r.key.ts : r \in RowsFor(q)} = expected /\ Cardinality(RowsFor(q)) = Cardinality(expected)

\* What is shown is what was sent: through the columns and back, every session has
\* its own user and whoever told of it, although arrays are filled and read one by one
\* (spreadSessions, row.go:383-416; sessions, query.go:873-917); every inspector its
\* verdict and, unless one of them is odd, its rewrite, null ones left out; every
\* header its values, a marker comes once, and a row shows a frame when it is about
\* one.
ShownAsSent ==
  \A m \in Came : \A q \in Requests(m) : \A r \in RowsFor(q) :
    /\ Sessions(r) = [k \in DOMAIN Kept(q.sessions) |->
                        LET s == Kept(q.sessions)[k]
                        IN [by |-> s.by, source |-> s.source, user |-> s.user]]
    /\ ToSet(r.inspectors) = DOMAIN q.inspectors \ {SelfKey}
    /\ \A n \in DOMAIN q.inspectors :
         LET e == q.inspectors[n]
         IN /\ e.verdict = IF n \in DOMAIN r.verdicts THEN r.verdicts[n] ELSE ""
            /\ (\A j \in DOMAIN q.inspectors : q.inspectors[j].rewrite # "odd") =>
                 e.rewrite \in IF n \in DOMAIN RewritesOf(r) THEN {RewritesOf(r)[n]} ELSE {"", "null"}
    /\ ToSet(r.markers) = ToSet(q.markers) \ {""} /\ IsInjective(r.markers)
    /\ \A k \in DOMAIN q.headers :
         LET n == Lower(q.headers[k][1])
         IN n # "" => /\ Contains(r.headers.shown[n], q.headers[k][2])
                      /\ Len(q.headers[k]) > 2 => n \in r.headers.cut
    /\ FrameOf(r) = IF PhaseOf(q) = "frame" THEN q.frame ELSE NoFrame

SameRecord(f, key) ==
  /\ f.node = key.node /\ f.ray = key.ray /\ f.phase = key.phase
  /\ f.dir = key.dir /\ f.seq = key.seq

\* What an inspector found about a request carries the phase and the frame of its
\* row, even where one of the two messages leaves the phase out: otherwise no card
\* would show it (row.go:279-281, finding.go:88-91, card.go:229-233).
FindingsMeetRecords ==
  \A m, n \in Came : \A q \in Requests(m), e \in Events(n) :
    (q.node = e.node /\ q.ray = e.ray /\ PhaseOf(q) = PhaseOf(e) /\ q.frame = e.frame) =>
      \A r \in RowsFor(q) : \E f \in RowsAbout(e) : SameRecord(f, r.key)

\* The lines that a facet counts are found by its names (LogFacets and ListLogs,
\* logs.go:80-195, FromLog, logline.go:35-79): a writer has no blanks around it,
\* since those of the search are cut off.  Those of a service are not, and a name of
\* more than 128 bytes is taken as none.
FacetsDrillDown ==
  \A f \in LogFacets :
    ~(f.writer.long \/ f.service.long \/ f.service.padded) =>
      Cardinality(Found(f.writer, f.service)) = f.lines

-----------------------------------------------------------------------------
(* The invariant they follow from *)

TypeOK ==
  /\ now \in 1..MaxClock /\ count \in 0..MaxDeliveries
  /\ times \in [Message \cup LogMessage -> SUBSET (1..now)]
  /\ log \in Seq(ToSet(log))

RowsAt(m, t) == {RowOf(q, t, order) : q \in Requests(m), order \in SetToSeqs(Name)}
FindingsAt(m, t) == UNION {FindingsOf(q, t, PhaseOf(q)) : q \in Events(m)}
LinesAt(b, t) == ToSet(FromLog(b, t))

\* What is stored are the rows, findings and lines of what was delivered, parsed when
\* it was delivered, no fewer and no more (take, consume.go:138-165, takeLogs,
\* logs.go:111-137).
StoredAsDelivered ==
  /\ audit = UNION {UNION {RowsAt(m, t) : t \in times[m]} : m \in Message}
  /\ findings = UNION {UNION {FindingsAt(m, t) : t \in times[m]} : m \in Message}
  /\ ToSet(log) = UNION {UNION {LinesAt(b, t) : t \in times[b]} : b \in LogMessage}

IInv == TypeOK /\ StoredAsDelivered
=============================================================================
