------------------------------- MODULE Filters -------------------------------
(***************************************************************************)
(* Which stored rows a search asks for: Normalize, the parsers of its      *)
(* lists and networks, and where (internal/query/query.go), with the       *)
(* groups of internal/query/group.go.  One field stands for each way a     *)
(* value is compared: verdict for those with known values (method, code),  *)
(* host for those that must be equal (node, status, country), uri for      *)
(* texts that are searched, route for lists (server), marker for arrays,   *)
(* by for the one that is grouped by and never searched for.               *)
(*                                                                         *)
(* Texts that the code takes apart are sequences: uri, source and user of  *)
(* letters, among them "colon", "blank" and, of those that cannot be       *)
(* printed, "control"; route of what stands between its separators, which  *)
(* is nothing, "", where two of them meet or one is at an end.  Addresses  *)
(* have V6Bits bits, those of IPv4 the last V4Bits of them.                *)
(***************************************************************************)
EXTENDS Naturals, SequencesExt

CONSTANTS
  V6Bits, V4Bits,   \* 128 and 32
  MaxCIDRs,         \* networks a search may name: 32
  MaxList,          \* routes it may name: 64
  MaxVars,          \* variables, headers or parameters it may name: 16
  MaxName           \* letters of a user it may name: 256

ASSUME FiltersAssumption ==
  /\ V6Bits \in Nat /\ V4Bits \in 0..V6Bits
  /\ MaxCIDRs \in Nat \ {0} /\ MaxList \in Nat \ {0} /\ MaxVars \in Nat \ {0}
  /\ MaxName \in Nat

Pow2[n \in 0..V6Bits] == IF n = 0 THEN 1 ELSE 2 * Pow2[n - 1]

\* The address of IPv4 0.0.0.0.
Mapped == Pow2[V6Bits] - Pow2[V4Bits]

Address == 0..Pow2[V6Bits] - 1

\* The first n elements of s that are taken, in their order: Take(out, x) when x is
\* taken after those of out.
Taken(s, n, Take(_, _)) ==
  FoldLeft(LAMBDA out, x : IF Len(out) < n /\ Take(out, x) THEN Append(out, x) ELSE out, <<>>, s)

-----------------------------------------------------------------------------
(* Networks.  A definition named ...Mutant is the one after it with a        *)
(* plausible bug; put in its place, it must break a property.                *)

\* A network as a reader writes it: bits is more than an address has where only
\* an address is written; what cannot be parsed is not ok.
Network == {p \in [ok : BOOLEAN, v4 : BOOLEAN, addr : Nat, bits : Nat] :
              p.addr < Pow2[IF p.v4 THEN V4Bits ELSE V6Bits]}

IsAddress(p) == p.bits > (IF p.v4 THEN V4Bits ELSE V6Bits)

\* The prefix in 128 bits: bits that are not part of the prefix are cleared, and an
\* address is the prefix of its own, of IPv4 where it can be one.
ParseCIDR(p) ==
  LET bits == IF IsAddress(p) THEN V6Bits ELSE IF p.v4 THEN p.bits + V6Bits - V4Bits ELSE p.bits
      addr == IF p.v4 THEN Mapped + p.addr ELSE p.addr
  IN [ok |-> p.ok, v4 |-> IF IsAddress(p) THEN addr >= Mapped ELSE p.v4,
      addr |-> addr - (addr % Pow2[V6Bits - bits]), bits |-> bits]

ParseCIDRs(raw) ==
  Taken([k \in DOMAIN raw |-> ParseCIDR(raw[k])], MaxCIDRs, LAMBDA out, p : p.ok /\ ~Contains(out, p))

\* ipRange: the first and the last address.
IpRangeMutant(p) == [lo |-> p.addr, hi |-> p.addr + Pow2[V4Bits - Min({p.bits, V4Bits})] - 1]
IpRange(p) == [lo |-> p.addr, hi |-> p.addr + Pow2[V6Bits - p.bits] - 1]

-----------------------------------------------------------------------------
(* The search *)

NoFilter == [ray |-> "", node |-> "", phase |-> "", verdict |-> "", host |-> "", uri |-> <<>>,
             routes |-> <<>>, marker |-> "", user |-> <<>>, vars |-> <<>>, headers |-> <<>>,
             cidrs |-> <<>>]

Verdict(route) == {"allow", "deny", "redirect"} \cup IF route = "findings" THEN {"score"} ELSE {}
Phase == {"request", "response", "frame", "session"}

Known(value, values) == IF value \in values THEN value ELSE ""

Named(pairs) == Taken(pairs, MaxVars, LAMBDA out, v : v.name # "")

\* The parts of lists, each once.
ParseList(raw) == Taken(FlattenSeq(raw), MaxList, LAMBDA out, part : part # "" /\ ~Contains(out, part))

Trim(s) ==
  LET kept == {k \in DOMAIN s : s[k] # "blank"}
  IN IF kept = {} THEN <<>> ELSE SubSeq(s, Min(kept), Max(kept))

Searchable(s) == Len(s) <= MaxName /\ "control" \notin ToSet(s)

\* sessionText
SessionText(raw) == IF Searchable(Trim(raw)) THEN Trim(raw) ELSE <<>>

\* A value that cannot be is taken as none: the search gets wider.
Normalize(route, f) ==
  [f EXCEPT !.verdict = Known(@, Verdict(route)), !.phase = Known(@, Phase),
            !.routes = ParseList(@), !.user = SessionText(@), !.vars = Named(@), !.headers = Named(@),
            !.cidrs = ParseCIDRs(@)]

\* What stands before the first colon is the source of a user.
SplitIdentity(raw) ==
  LET colon == SelectInSeq(raw, LAMBDA x : x = "colon")
  IN [source |-> SubSeq(raw, 1, colon - 1), user |-> SubSeq(raw, colon + 1, Len(raw))]

Lower(s) == [k \in DOMAIN s |-> IF s[k] = "A" THEN "a" ELSE s[k]]

\* LIKE with its wild cards escaped.
Occurs(s, t) == \E k \in 0..Len(t) - Len(s) : SubSeq(t, k + 1, k + Len(s)) = s

IsUser(a, user) ==
  LET id == SplitIdentity(user)
  IN \E s \in a.sessions : s.user = id.user /\ (id.source # <<>> => s.source = id.source)

\* A map has the empty value under every key that it lacks.
HasVar(a, v) == v \in a.vars \/ (v.value = "" /\ \A x \in a.vars : x.name # v.name)

HasHeader(a, h) == \E x \in a.headers : x.name = h.name /\ h.value \in {"", x.value}

HasAddress(a, cidrs) ==
  \E k \in DOMAIN cidrs : a.ip >= IpRange(cidrs[k]).lo /\ a.ip <= IpRange(cidrs[k]).hi

Is(asked, value) == asked \in {"", value}

Holds(text, a) == Occurs(Lower(text), Lower(a.uri))

\* where, for a normalised search of audit: one for a ray looks at neither the time
\* nor anything else but node and phase.
WhereAudit(f, a, inTime) ==
  /\ Is(f.phase, a.phase) /\ Is(f.node, a.node)
  /\ IF f.ray # "" THEN a.ray = f.ray
     ELSE /\ inTime
          /\ Is(f.verdict, a.verdict) /\ Is(f.host, a.host) /\ Holds(f.uri, a)
          /\ f.routes # <<>> => Len(a.route) = 1 /\ Contains(f.routes, a.route[1])
          /\ f.user # <<>> => IsUser(a, f.user)
          /\ f.marker # "" => f.marker \in a.markers
          /\ \A v \in ToSet(f.vars) : HasVar(a, v)
          /\ \A h \in ToSet(f.headers) : HasHeader(a, h)
          /\ f.cidrs # <<>> => HasAddress(a, f.cidrs)

\* whereFinding: a ray lifts the time window and nothing else.
WhereFinding(f, a, inTime) ==
  /\ IF f.ray # "" THEN a.ray = f.ray ELSE inTime
  /\ Is(f.node, a.node) /\ Is(f.phase, a.phase) /\ Is(f.verdict, a.verdict)
  /\ f.marker # "" => f.marker \in a.markers

\* logWhere: the writer is compared, the text is searched.
WhereLog(f, a, inTime) == inTime /\ Is(f.host, a.host) /\ Holds(f.uri, a)

Where(route, f, a, inTime) ==
  CASE route = "findings" -> WhereFinding(f, a, inTime)
    [] route = "logs" -> WhereLog(f, a, inTime)
    [] OTHER -> WhereAudit(f, a, inTime)

-----------------------------------------------------------------------------
(* Groups *)

Dim == {"verdict", "host", "uri", "route", "by", "ip", "marker", "user"}

MaxGroupBy == 4

\* ParseGroupBy: the first known dimensions, each once.
ParseGroupBy(raw) == Taken(raw, MaxGroupBy, LAMBDA out, d : d \in Dim /\ ~Contains(out, d))

\* A row counts under each of its markers and each of its users that has a name.
UserKey(s) == s.source \o <<"colon">> \o s.user

ValuesOfMutant(a, d) == IF d = "user" THEN {s.user : s \in {s \in a.sessions : s.user # <<>>}}
                        ELSE IF d = "marker" THEN a.markers ELSE {a[d]}
ValuesOf(a, d) == IF d = "user" THEN {UserKey(s) : s \in {s \in a.sessions : s.user # <<>>}}
                  ELSE IF d = "marker" THEN a.markers ELSE {a[d]}

\* The groups of a row, each the values it has by.
With(g, d, v) == [x \in DOMAIN g \cup {d} |-> IF x = d THEN v ELSE g[x]]

GroupsOf(a, by) ==
  FoldLeft(LAMBDA gs, d : UNION {{With(g, d, v) : v \in ValuesOf(a, d)} : g \in gs}, {<<>>}, by)

\* An address as it is written.
Written(ip) == IF ip >= Mapped THEN [ok |-> TRUE, v4 |-> TRUE, addr |-> ip - Mapped, bits |-> V4Bits + 1]
               ELSE [ok |-> TRUE, v4 |-> FALSE, addr |-> ip, bits |-> V6Bits + 1]

\* The search for the rows of a group: the parameters that have the names of its
\* keys (parseFilter), with the values it is shown with (scanGroup), which are none
\* for the address that is all zeros.  There is no parameter for by.
SearchFor(g) ==
  [f \in DOMAIN NoFilter |->
     CASE f = "routes" /\ "route" \in DOMAIN g -> <<g.route>>
       [] f = "cidrs" /\ "ip" \in DOMAIN g /\ g.ip # 0 -> <<Written(g.ip)>>
       [] f \in {"verdict", "host", "uri", "marker", "user"} /\ f \in DOMAIN g -> g[f]
       [] OTHER -> NoFilter[f]]
=============================================================================
