------------------------------- MODULE Payload -------------------------------
(***************************************************************************)
(* What the payload of a message is stored as: parse (internal/consume/    *)
(* consume.go) and the functions of internal/model that it calls, and      *)
(* FromLog for the messages of WAF_LOG.                                    *)
(*                                                                         *)
(* A payload is a record with a kind: what is not JSON is "broken", a      *)
(* batch that has no list of items has the kind "batch" and no items.      *)
(* Fields that are copied and nothing else are left out.  A ts of 0 is one *)
(* that is missing or cannot be parsed.  Inspectors are numbers in the     *)
(* order of their names; number 0 is the module itself, and NoOne stands    *)
(* for an event that names none.                                           *)
(***************************************************************************)
EXTENDS Naturals, FiniteSets, SequencesExt

CONSTANTS
  Payloads,      \* what can be a payload of WAF_AUDIT, or an item within one
  Name,          \* inspectors, 0 among them
  MaxFindings,   \* findings kept of one event
  MaxText,       \* bytes kept of a line
  MaxDepth       \* batches within batches; encoding/json takes no deeper nest

SelfKey == 0
NoOne == 99

NoFrame == [dir |-> "", seq |-> 0]

\* What the fields of a request and of an event decode to.
Entry == [verdict : STRING, state : STRING, rewrite : STRING]
Session == [by : STRING, source : STRING, kind : STRING, user : STRING]

IsRequest(p) ==
  /\ p.ts \in Nat /\ p.frame \in [dir : STRING, seq : Nat]
  /\ DOMAIN p.inspectors \subseteq Name /\ p.inspectors \in [DOMAIN p.inspectors -> Entry]
  /\ p.sessions \in Seq(Session)
  /\ p.markers \in Seq(STRING)
  /\ p.headers \in Seq(Seq(STRING))

IsEvent(p) ==
  /\ p.decodes \in BOOLEAN
  /\ p.frame \in [dir : STRING, seq : Nat]
  /\ p.codes \in Seq(STRING)

\* The payloads with no more than d batches around an item.
Nested[d \in 0..MaxDepth] ==
  {p \in Payloads : p.kind = "batch" => p.items \in Seq(IF d = 0 THEN {} ELSE Nested[d - 1])}

ASSUME PayloadAssumption ==
  /\ Name \subseteq Nat /\ IsFiniteSet(Name) /\ SelfKey \in Name /\ NoOne \notin Name
  /\ MaxFindings \in Nat \ {0} /\ MaxText \in Nat \ {0} /\ MaxDepth \in Nat
  /\ Payloads \subseteq Nested[MaxDepth]
  /\ \A p \in Payloads : (p.kind \in {"request", ""} => IsRequest(p)) /\ (p.kind = "inspector" => IsEvent(p))

KindOf(p) == IF p.kind = "broken" THEN "" ELSE p.kind

TimeOf(p, now) == IF p.ts = 0 THEN now ELSE p.ts

PhaseOf(p) == IF p.phase = "" THEN "request" ELSE p.phase

\* The elements of a sequence that are in a set.
Only(s, S) == FoldLeft(LAMBDA out, x : IF x \in S THEN Append(out, x) ELSE out, <<>>, s)

\* sortStrings, an insertion sort: a name goes behind the last one that is not greater.
Insert(out, n) == InsertAt(out, Max({0} \cup {k \in DOMAIN out : out[k] <= n}) + 1, n)

Sorted(names) == FoldLeft(Insert, <<>>, names)

-----------------------------------------------------------------------------
(* A request.  A definition named ...Mutant is the one after it with a       *)
(* plausible bug; put in its place, it must break a property.                *)

\* spreadInspectors: Go ranges over the map in any order.  The module itself is not
\* among the names.
NamesOfMutant(items, order) == Only(order, DOMAIN items \ {SelfKey})
NamesOf(items, order) == Sorted(Only(order, DOMAIN items \ {SelfKey}))

\* The column of a field: the names that have it.
Column(items, field) ==
  [n \in {n \in DOMAIN items : items[n][field] # ""} |-> items[n][field]]

\* foldRewrites: an object with its keys in order.
FoldRewrites(items, order) ==
  LET names == Sorted(Only(order, {n \in DOMAIN items : items[n].rewrite \notin {"", "null"}}))
  IN [k \in DOMAIN names |-> [name |-> names[k], raw |-> items[names[k]].rewrite]]

\* spreadSessions: parallel arrays, an entry in each of them for every session that
\* has a source and a kind.
Kept(sessions) == Only(sessions, {s \in ToSet(sessions) : s.source # "" /\ s.kind # ""})

SpreadSessionsMutant(sessions) ==
  LET kept == Kept(sessions)
      named == Only(kept, {s \in ToSet(kept) : s.by # ""})
  IN [by |-> [k \in DOMAIN named |-> named[k].by], source |-> [k \in DOMAIN kept |-> kept[k].source],
      user |-> [k \in DOMAIN kept |-> kept[k].user]]
SpreadSessions(sessions) ==
  LET kept == Kept(sessions)
  IN [by |-> [k \in DOMAIN kept |-> kept[k].by], source |-> [k \in DOMAIN kept |-> kept[k].source],
      user |-> [k \in DOMAIN kept |-> kept[k].user]]

\* Each marker once.
Markers(raw) ==
  FoldLeft(LAMBDA out, m : IF m = "" \/ Contains(out, m) THEN out ELSE Append(out, m), <<>>, raw)

\* previewPair: a name, a value and whether it was cut off; shorter ones do not decode.
Decodes(pairs) == \A k \in DOMAIN pairs : Len(pairs[k]) >= 2

\* foldPairs: the values of a name that comes twice, in capitals or not, are joined.
Lower(name) == IF name = "VIA" THEN "via" ELSE name

FoldPairs(pairs) ==
  LET named(n) == Only(pairs, {pair \in ToSet(pairs) : Lower(pair[1]) = n})
      names == {Lower(pair[1]) : pair \in ToSet(pairs)} \ {""}
  IN [shown |-> [n \in names |-> [j \in DOMAIN named(n) |-> named(n)[j][2]]],
      cut |-> {n \in names : \E j \in DOMAIN named(n) : Len(named(n)[j]) > 2}]

\* The sorting key of waf.audit.
KeyOf(p, now) ==
  [ts |-> TimeOf(p, now), node |-> p.node, ray |-> p.ray, phase |-> PhaseOf(p),
   dir |-> p.frame.dir, seq |-> p.frame.seq]

RowOf(p, now, order) ==
  [key |-> KeyOf(p, now),
   inspectors |-> NamesOf(p.inspectors, order),
   verdicts |-> Column(p.inspectors, "verdict"),
   states |-> Column(p.inspectors, "state"),
   rewrite |-> FoldRewrites(p.inspectors, order),
   sessions |-> SpreadSessions(p.sessions),
   markers |-> Markers(p.markers),
   headers |-> FoldPairs(p.headers)]

\* What parse returns: rows, findings and the first error.
Nothing == [rows |-> {}, findings |-> {}, err |-> FALSE]
Error == [rows |-> {}, findings |-> {}, err |-> TRUE]

\* FromRequest.
FromRequest(p, now, order) ==
  CASE p.kind = "broken" -> Error
    [] p.kind \in {"request", ""} /\ ~Decodes(p.headers) -> Error
    [] p.kind \in {"request", ""} /\ Decodes(p.headers) /\ "" \notin {p.node, p.ray} ->
         [Nothing EXCEPT !.rows = {RowOf(p, now, order)}]
    [] OTHER -> Nothing

-----------------------------------------------------------------------------
(* An inspector event *)

\* FromInspector: a row per finding that is kept, one without a code for none.  What
\* does not decode is an error.
FindingAt(p, now, phase, k) ==
  [ts |-> TimeOf(p, now), node |-> p.node, ray |-> p.ray, phase |-> phase, by |-> p.by,
   dir |-> p.frame.dir, seq |-> p.frame.seq, idx |-> k - 1,
   code |-> IF p.codes = <<>> THEN "" ELSE p.codes[k]]

FindingsOf(p, now, phase) ==
  {FindingAt(p, now, phase, k) : k \in 1..Max({1, Min({Len(p.codes), MaxFindings})})}

Unaddressed(p) == "" \in {p.node, p.ray} \/ p.by = NoOne

FromInspectorMutant(p, now) ==
  IF ~p.decodes THEN Error
  ELSE IF Unaddressed(p) THEN Nothing
  ELSE [Nothing EXCEPT !.findings = FindingsOf(p, now, p.phase)]
FromInspector(p, now) ==
  IF ~p.decodes THEN Error
  ELSE IF Unaddressed(p) THEN Nothing
  ELSE [Nothing EXCEPT !.findings = FindingsOf(p, now, PhaseOf(p))]

-----------------------------------------------------------------------------
(* parse *)

\* What is parsed of an item joins what was parsed before it, errors or not.
JoinMutant(out, r) ==
  IF out.err THEN out
  ELSE [rows |-> out.rows \cup r.rows, findings |-> out.findings \cup r.findings, err |-> r.err]
Join(out, r) ==
  [rows |-> out.rows \cup r.rows, findings |-> out.findings \cup r.findings, err |-> out.err \/ r.err]

ParseItems(parsed, items) ==
  FoldLeft(LAMBDA out, item : Join(out, parsed[item]), Nothing, items)

\* What is parsed of p, and within a batch of its items, batches among them.
ParseWith(parsed, p, now, order) ==
  CASE KindOf(p) \in {"request", ""} -> FromRequest(p, now, order)
    [] KindOf(p) = "inspector" -> FromInspector(p, now)
    [] KindOf(p) = "batch" -> ParseItems(parsed, p.items)
    [] OTHER -> Nothing

Parse(payload, now, order) ==
  LET parsed[p \in Payloads] == ParseWith(parsed, p, now, order)
  IN parsed[payload]

-----------------------------------------------------------------------------
(* A message of WAF_LOG.  A name is [is, padded, long]: blanks around it,    *)
(* more than 128 bytes; of a text only the length counts.                    *)

LogName == [is : STRING, padded : BOOLEAN, long : BOOLEAN]
Line == [ts : Nat, service : LogName, text : Nat]

IsLogBatch(b) ==
  b.decodes \in BOOLEAN /\ b.writer \in LogName /\ b.lines \in Seq(Line)

NoName == [is |-> "", padded |-> FALSE, long |-> FALSE]
Trim(name) == [is |-> name.is, padded |-> FALSE, long |-> name.long]
Named(is) == [is |-> is, padded |-> FALSE, long |-> FALSE]

WriterOfMutant(b) == IF b.writer.is = "" THEN Named("unknown") ELSE b.writer
WriterOf(b) == IF Trim(b.writer) = NoName THEN Named("unknown") ELSE Trim(b.writer)

\* FromLog: lines with a text, in their order.
FromLog(b, now) ==
  LET lines == IF b.decodes THEN Only(b.lines, {l \in ToSet(b.lines) : l.text > 0}) ELSE <<>>
  IN [k \in DOMAIN lines |->
        [ts |-> TimeOf(lines[k], now), writer |-> WriterOf(b),
         service |-> IF lines[k].service = NoName THEN Named("nginx") ELSE lines[k].service,
         text |-> Min({lines[k].text, MaxText})]]
=============================================================================
