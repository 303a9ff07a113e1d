-------------------------------- MODULE Search --------------------------------
(***************************************************************************)
(* A reader pages through one of the listings of internal/httpapi/audit.go *)
(* and logs.go while the logger writes: the incidents of GET /api/audit,   *)
(* their groups, the findings, the lines of nginx.                         *)
(*                                                                         *)
(* A page of incidents is answered by two concurrent queries: List reads   *)
(* the rows as they are stored, copies that ClickHouse has not merged yet  *)
(* included, cuts LIMIT and OFFSET out of them and drops duplicates        *)
(* afterwards; Count reads FINAL.  Findings and lines are listed and then  *)
(* counted; groups come with their number, which is counted only for a     *)
(* page past the last.                                                     *)
(*                                                                         *)
(* A row is its sorting key: the time ts and the item, which stands for    *)
(* node, ray, phase, direction and frame number, as a number in the order  *)
(* of these.  The table is the number of unmerged copies of each row; the  *)
(* rows of waf.log have no key and are all kept.                           *)
(***************************************************************************)
EXTENDS Filters

CONSTANTS
  Row,           \* sorting keys that rows may have
  Attr,          \* what the filters look at, of each item
  Start,         \* the clock in the beginning
  Window,        \* the default window: From is To minus this
  DefaultLimit,  \* page size when the request names none: 50, for lines 100
  MaxLimit,      \* largest page size: 200, for lines 500
  Requests,      \* the listings that are asked for
  MaxCopies,     \* bound on the unmerged copies of a row
  MaxChanges     \* bound on the changes of one behaviour

Item == {r.item : r \in Row}

Route == {"audit", "groups", "findings", "logs"}

ASSUME SearchAssumption ==
  /\ Row \subseteq [ts : Nat, item : Nat] /\ IsFiniteSet(Row) /\ Item \subseteq DOMAIN Attr
  /\ \A i \in Item :
       /\ IsFiniteSet(Attr[i].markers) /\ IsFiniteSet(Attr[i].sessions)
       /\ \A s \in Attr[i].sessions : s.source \in Seq(STRING) /\ s.user \in Seq(STRING)
       /\ Attr[i].uri \in Seq(STRING) /\ Attr[i].route \in Seq(STRING) \ {<<>>}
       /\ Attr[i].ip \in Address
  /\ Start \in Nat /\ Window \in 0..Start
  /\ DefaultLimit \in Nat \ {0} /\ MaxLimit \in Nat \ {0} /\ DefaultLimit <= MaxLimit
  /\ \A q \in Requests :
       /\ DOMAIN q = {"route", "filter", "limit", "asc", "by", "sort", "dir"}
       /\ DOMAIN q.filter = DOMAIN NoFilter
       /\ q.route \in Route /\ q.limit \in Nat /\ q.asc \in BOOLEAN
       /\ q.by \in Seq(STRING) /\ q.filter.cidrs \in Seq(Network)
  /\ MaxCopies \in Nat \ {0} /\ MaxChanges \in Nat

VARIABLES
  copies,   \* the table: unmerged copies of each row
  now,      \* the clock
  changes,  \* changes of table and clock so far
  pager,    \* the reader's place in the listing
  query,    \* the two queries of the request under way
  ctx,      \* their context
  reply     \* what the last request was answered

vars == <<copies, now, changes, pager, query, ctx, reply>>

-----------------------------------------------------------------------------
(* The queries.  A definition named ...Mutant is the one after it with a     *)
(* plausible bug; put in its place, it must break a property.                *)

NormalLimit(l) ==
  IF l = 0 THEN DefaultLimit ELSE IF l > MaxLimit THEN MaxLimit ELSE l

\* The rows that a request selects in the time window that ends at to.
Selected(req, to) ==
  LET f == Normalize(req.route, req.filter)
  IN {r \in Row : copies[r] > 0 /\ Where(req.route, f, Attr[r.item], r.ts + Window >= to /\ r.ts <= to)}

\* ORDER BY ts and the rest of the sorting key, either way.
BeforeMutant(r, s, asc) == IF asc THEN r.ts <= s.ts ELSE r.ts >= s.ts
Before(r, s, asc) ==
  LET less == r.ts < s.ts \/ (r.ts = s.ts /\ r.item <= s.item)
  IN IF asc THEN less ELSE ~less \/ r = s

\* Incidents are listed either way, findings by falling time, lines by falling time
\* alone.
Sorted(req, r, s) ==
  CASE req.route = "audit" -> Before(r, s, req.asc)
    [] req.route = "findings" -> Before(r, s, FALSE)
    [] OTHER -> r.ts >= s.ts

\* The orders in which ClickHouse may return the rows.
Orders(rows, le) == {s \in SetToSeqs(rows) : \A j, k \in DOMAIN s : j < k => <<s[j], s[k]>> \in le}

\* Copies that are not merged are rows of their own.
Unmerged(s) == FlattenSeq([k \in DOMAIN s |-> [c \in 1..copies[s[k]] |-> s[k].item]])

CutMutant(s, offset, limit) == SubSeq(s, offset + 1, Min({offset + limit - 1, Len(s)}))
Cut(s, offset, limit) == SubSeq(s, offset + 1, Min({offset + limit, Len(s)}))

\* dedup: a row of a page is dropped when an earlier one has its address,
\* whatever their times.
Dedup(s) == FoldLeft(LAMBDA seen, i : IF Contains(seen, i) THEN seen ELSE Append(seen, i), <<>>, s)

\* The pages that List, ListFindings and ListLogs may return.
RowPages(req, to, offset, limit) ==
  {LET page == Cut(Unmerged(s), offset, limit) IN IF req.route = "logs" THEN page ELSE Dedup(page) :
     s \in LET rows == Selected(req, to) IN Orders(rows, {p \in rows \X rows : Sorted(req, p[1], p[2])})}

\* The groups of rows, what counts for their order with them.
RowsOf(g, req, rows) == {r \in rows : g \in GroupsOf(Attr[r.item], ParseGroupBy(req.by))}

GroupAt(g, req, rows) ==
  LET of == RowsOf(g, req, rows)
  IN [keys |-> g, hits |-> Cardinality(of), last |-> Max({r.ts : r \in of}),
      denied |-> Cardinality({r \in of : Attr[r.item].verdict = "deny"})]

GroupsIn(req, rows) ==
  {GroupAt(g, req, rows) : g \in UNION {GroupsOf(Attr[r.item], ParseGroupBy(req.by)) : r \in rows}}

GroupsAt(req, to) == GroupsIn(req, Selected(req, to))

\* ParseGroupSort and order: by a metric the largest first, by a key the smallest,
\* unless the request says so; equals by hits, or by their last row.
Metric == {"hits", "denied", "last"}

GroupBefore(req, g, h) ==
  LET key == IF req.sort \in Metric \cup ToSet(ParseGroupBy(req.by)) THEN req.sort ELSE "hits"
      asc == IF req.dir = "" THEN key \notin Metric ELSE req.dir = "asc"
      tail == IF key = "hits" THEN "last" ELSE "hits"
      x == IF key \in Metric THEN g[key] ELSE g.keys[key]
      y == IF key \in Metric THEN h[key] ELSE h.keys[key]
  IN (x # y /\ (asc <=> x < y)) \/ (x = y /\ g[tail] >= h[tail])

GroupPages(req, to, offset, limit) ==
  LET groups == GroupsAt(req, to)
  IN {Cut(s, offset, limit) :
        s \in Orders(groups, {p \in groups \X groups : GroupBefore(req, p[1], p[2])})}

Pages(req, to, offset, limit) ==
  IF req.route = "groups" THEN GroupPages(req, to, offset, limit) ELSE RowPages(req, to, offset, limit)

\* Count, CountFindings, CountLogs, CountGroups.
Copies(req, to) == MapThenSumSet(LAMBDA r : copies[r], Selected(req, to))

CountOfMutant(req, to) ==
  IF req.route = "groups" THEN Cardinality(GroupsAt(req, to)) ELSE Copies(req, to)
CountOf(req, to) ==
  CASE req.route = "groups" -> Cardinality(GroupsAt(req, to))
    [] req.route = "logs" -> Copies(req, to)
    [] OTHER -> Cardinality(Selected(req, to))

-----------------------------------------------------------------------------
NoQuery == [list |-> "ok", count |-> "ok", to |-> 0, page |-> <<>>, total |-> 0,
            gone |-> FALSE]

\* Groups need at least one dimension.
At(req) == IF req.route = "groups" /\ ParseGroupBy(req.by) = <<>> THEN "refused" ELSE "asking"

NewPager(req) ==
  [req |-> req, limit |-> NormalLimit(req.limit), offset |-> 0, first |-> {},
   since |-> {}, shown |-> {}, lines |-> 0, at |-> At(req)]

Init ==
  /\ now = Start
  /\ copies \in {c \in [Row -> 0..MaxCopies] : \A r \in Row : r.ts > now => c[r] = 0}
  /\ changes = 0
  /\ \E req \in Requests : pager = NewPager(req)
  /\ query = NoQuery
  /\ ctx = "live"
  /\ reply = "none"

\* A reader begins to page from the start, in a listing of the same table.
Table(req) == IF req.route = "groups" THEN "audit" ELSE req.route

Begin(req) ==
  /\ pager.at \in {"end", "left", "refused"} /\ Table(req) = Table(pager.req)
  /\ pager' = NewPager(req)
  /\ reply' = "none"
  /\ query' = NoQuery
  /\ ctx' = "live"
  /\ UNCHANGED <<copies, now, changes>>

\* The request: the window is fixed once, for both queries.  Only incidents are
\* counted while they are listed.
Ask ==
  /\ pager.at = "asking"
  /\ pager' = [pager EXCEPT !.at = "waiting",
                            !.first = IF pager.offset = 0 THEN Selected(pager.req, now) ELSE @,
                            !.since = IF pager.offset = 0 THEN {} ELSE @]
  /\ query' = [list |-> "running",
               count |-> IF pager.req.route = "audit" THEN "running" ELSE "idle",
               to |-> now, page |-> <<>>, total |-> 0, gone |-> FALSE]
  /\ ctx' = "live"
  /\ reply' = "none"
  /\ UNCHANGED <<copies, now, changes>>

Waiting == pager.at = "waiting"

\* Groups come with their number, which an empty page cannot tell.
ListReturns ==
  /\ Waiting /\ query.list = "running"
  /\ \E page \in Pages(pager.req, query.to, pager.offset, pager.limit) :
       query' = [query EXCEPT !.list = "ok", !.page = page,
                              !.total = IF pager.req.route = "groups" /\ page # <<>>
                                        THEN CountOf(pager.req, query.to) ELSE @]
  /\ UNCHANGED <<copies, now, changes, pager, ctx, reply>>

\* Whether a list that has returned is counted.
Counts == pager.req.route = "groups" => query.page = <<>> /\ pager.offset > 0

CountStarts ==
  /\ Waiting /\ query.list = "ok" /\ query.count = "idle" /\ Counts
  /\ query' = [query EXCEPT !.count = "running"]
  /\ UNCHANGED <<copies, now, changes, pager, ctx, reply>>

\* What a failed List does to the context of Count.
AfterListErrorMutant == ctx
AfterListError == IF pager.req.route = "audit" THEN "cancelled" ELSE ctx

ListFails ==
  /\ Waiting /\ query.list = "running"
  /\ query' = [query EXCEPT !.list = "error"]
  /\ ctx' = AfterListError
  /\ UNCHANGED <<copies, now, changes, pager, reply>>

ListCancelled ==
  /\ Waiting /\ query.list = "running" /\ ctx = "cancelled"
  /\ query' = [query EXCEPT !.list = "cancelled"]
  /\ UNCHANGED <<copies, now, changes, pager, ctx, reply>>

CountReturns ==
  /\ Waiting /\ query.count = "running"
  /\ query' = [query EXCEPT !.count = "ok", !.total = CountOf(pager.req, query.to)]
  /\ UNCHANGED <<copies, now, changes, pager, ctx, reply>>

\* A failed Count cancels nothing: List is waited for.
CountFails ==
  /\ Waiting /\ query.count = "running"
  /\ query' = [query EXCEPT !.count = "error"]
  /\ UNCHANGED <<copies, now, changes, pager, ctx, reply>>

CountCancelled ==
  /\ Waiting /\ query.count = "running" /\ ctx = "cancelled"
  /\ query' = [query EXCEPT !.count = "cancelled"]
  /\ UNCHANGED <<copies, now, changes, pager, ctx, reply>>

\* The error both returns: that of List before that of Count.
Over(q) == q \notin {"running", "idle"}

Done == Over(query.list) /\ (Over(query.count) \/ (query.count = "idle" /\ (query.list = "ok" => ~Counts)))

ErrorOfMutant(q) == IF q.count \notin {"ok", "idle"} THEN q.count ELSE q.list
ErrorOf(q) == IF q.list # "ok" \/ q.count = "idle" THEN q.list ELSE q.count

\* Nothing is written for a cancelled context.
ReplyTo(e) == CASE e = "ok" -> "page" [] e = "cancelled" -> "silent" [] OTHER -> "failed"

\* Both queries are over and the handler answers.  The reader goes on to the
\* next page, until it gets an empty one, and asks again for one that failed.
Answer ==
  /\ Waiting /\ Done
  /\ reply' = ReplyTo(ErrorOf(query))
  /\ pager' = CASE query.gone -> [pager EXCEPT !.at = "left"]
                [] ~query.gone /\ reply' # "page" -> [pager EXCEPT !.at = "asking"]
                [] ~query.gone /\ reply' = "page" /\ query.page = <<>> ->
                     [pager EXCEPT !.at = "end"]
                [] OTHER -> [pager EXCEPT !.at = "asking",
                                          !.offset = @ + pager.limit,
                                          !.lines = @ + Len(query.page),
                                          !.shown = @ \cup ToSet(query.page)]
  /\ IF query.gone \/ (reply' = "page" /\ query.page = <<>>)
     THEN UNCHANGED <<query, ctx>>
     ELSE query' = NoQuery /\ ctx' = "live"
  /\ UNCHANGED <<copies, now, changes>>

\* The reader goes away: the context of the request is cancelled.
Leave ==
  /\ Waiting /\ ~query.gone
  /\ query' = [query EXCEPT !.gone = TRUE]
  /\ ctx' = "cancelled"
  /\ UNCHANGED <<copies, now, changes, pager, reply>>

\* The process of the search ends, told to or not: run returns as soon as Shutdown
\* has closed the listener and does not wait for the requests under way, whose
\* connections break.  Their readers ask the next process again.
Exit ==
  /\ Waiting
  /\ query' = NoQuery
  /\ ctx' = "live"
  /\ reply' = "none"
  /\ pager' = [pager EXCEPT !.at = IF query.gone THEN "left" ELSE "asking"]
  /\ UNCHANGED <<copies, now, changes>>

-----------------------------------------------------------------------------
(* The table changes under the reader *)

Changed(kind) ==
  /\ changes < MaxChanges
  /\ changes' = changes + 1
  /\ pager' = [pager EXCEPT !.since = @ \cup {kind}]

\* The logger inserts a row, perhaps one that is there already.
Insert(r) ==
  /\ r.ts <= now /\ copies[r] < MaxCopies
  /\ Changed("insert")
  /\ copies' = [copies EXCEPT ![r] = @ + 1]
  /\ UNCHANGED <<now, query, ctx, reply>>

\* ClickHouse merges the copies of a row, but not those of a line.
Merge(r) ==
  /\ pager.req.route # "logs"
  /\ copies[r] > 1
  /\ Changed("merge")
  /\ copies' = [copies EXCEPT ![r] = 1]
  /\ UNCHANGED <<now, query, ctx, reply>>

Tick ==
  /\ \E r \in Row : now < r.ts
  /\ Changed("tick")
  /\ now' = now + 1
  /\ UNCHANGED <<copies, query, ctx, reply>>

-----------------------------------------------------------------------------
Next ==
  \/ \E req \in Requests : Begin(req)
  \/ Ask \/ Answer \/ Leave \/ Exit
  \/ ListReturns \/ ListFails \/ ListCancelled
  \/ CountStarts \/ CountReturns \/ CountFails \/ CountCancelled
  \/ \E r \in Row : Insert(r) \/ Merge(r)
  \/ Tick

Spec == Init /\ [][Next]_vars

(***************************************************************************)
(* Fairness: the handler goes on, and a query whose context is cancelled      *)
(* ends.  A query whose context is live may take for ever.                 *)
(***************************************************************************)
Fairness == WF_vars(Answer) /\ WF_vars(CountStarts) /\ WF_vars(ListCancelled) /\ WF_vars(CountCancelled)

FairSpec == Spec /\ Fairness

-----------------------------------------------------------------------------
(* Properties *)

AllItems(rows) == \A r \in rows : r.item \in pager.shown

Apart(rows, same(_, _)) == \A r, s \in rows : same(r, s) => r = s

\* Pages fit together: a reader who went through to the empty page has been
\* shown every row that was there when the listing began and is still selected,
\* although rows are inserted and copies are stored in between.  It takes a total
\* order, the same for every page (listOrder, query.go:53-66, findingOrder), and
\* does not survive a merge between two pages, which moves rows to earlier pages,
\* nor, in ascending order, the start of the default window moving on.  Lines have
\* no order within one time, and groups none among equals (group.go:197-214): only
\* where there are none, and nothing changes, is every group shown.
PagesComplete ==
  pager.at = "end" =>
    CASE pager.req.route = "groups" ->
           (pager.since = {} /\ Apart(GroupsAt(pager.req, query.to), LAMBDA g, h :
               GroupBefore(pager.req, g, h) /\ GroupBefore(pager.req, h, g))) =>
             GroupsAt(pager.req, query.to) \subseteq pager.shown
      [] pager.req.route = "logs" ->
           (Apart(Selected(pager.req, query.to), LAMBDA r, s : r.ts = s.ts)) =>
             AllItems(pager.first \cap Selected(pager.req, query.to))
      [] OTHER ->
           ("merge" \notin pager.since /\ (pager.req.asc => "tick" \notin pager.since)) =>
             AllItems(pager.first \cap Selected(pager.req, query.to))

\* The total next to a page is the number of rows the whole listing shows, when
\* nothing changed and no item has two times, whether or not copies are merged:
\* Count reads FINAL and List drops duplicates (audit.go:85-105).  Of lines all are
\* shown and counted; the groups of a page past the last are as many as those that
\* came with their number (audit.go:119-129).
TotalAgrees ==
  (pager.at = "end" /\ pager.since = {}) =>
    IF pager.req.route \in {"groups", "logs"} THEN query.total = pager.lines
    ELSE Apart(Selected(pager.req, query.to), LAMBDA r, s : r.item = s.item) =>
           query.total = Cardinality(pager.shown)

\* A group whose values arrive as they are: a search splits routes at separators and
\* a user at the first colon, and takes blanks from the ends of a user.
Survives(g, rows) ==
  /\ "route" \in DOMAIN g => Len(g.route) = 1
  /\ "user" \in DOMAIN g =>
       /\ Head(g.user) # "blank" /\ Last(g.user) # "blank"
       /\ \A r \in rows : \A s \in Attr[r.item].sessions :
            UserKey(s) = g.user => "colon" \notin ToSet(s.source)

\* A group whose values ask for no more than the group.
IsPlain(g) ==
  /\ DOMAIN g \cap {"uri", "by"} = {}
  /\ "user" \in DOMAIN g => Head(g.user) # "colon" /\ Searchable(g.user)
  /\ "ip" \in DOMAIN g => g.ip # 0
  /\ "verdict" \in DOMAIN g => g.verdict \in Verdict("groups")
  /\ "route" \in DOMAIN g => g.route # <<"">>
  /\ \A d \in {"host", "marker"} \cap DOMAIN g : g[d] # ""

\* What a group counts can be looked at: a search with the values that the group is
\* shown with finds every row it counts, and as many as it has hits, since a row
\* counts once under each of its users and markers (groupExprs, group.go:34-41) and
\* the parameters of a search split a user where the group joined it (SplitIdentity,
\* query.go:310-316).  The code leaves two kinds of groups out.  Rows may be missing
\* where a route has separators (ParseList, query.go:454-474), a user a blank at an
\* end (sessionText, query.go:300-308) or a source a colon.  More may be found where
\* the group has a uri, which is searched for in others (query.go:760-763), or what
\* the verdict is by, which no parameter names (audit.go:32-66), an empty value, a
\* verdict that searches do not know, a user with no source, or one who is too long
\* or cannot be printed.
GroupsDrillDown ==
  (pager.req.route = "groups" /\ query.list = "ok" /\ pager.since = {}) =>
    \A k \in DOMAIN query.page :
      LET g == query.page[k].keys
          rows == Selected(pager.req, query.to)
          found == {r \in rows : Where("groups", Normalize("groups", SearchFor(g)), Attr[r.item], TRUE)}
      IN Survives(g, rows) =>
           /\ RowsOf(g, pager.req, rows) \subseteq found
           /\ IsPlain(g) => query.page[k].hits = Cardinality(found)

\* Networks mean what they say: a search finds the addresses that begin like one of
\* its networks, those of IPv4 in the networks of IPv4 and of the IPv6 that contains
\* them (ipRange, query.go:503-519).  Where none can be parsed, all are found; a
\* search for a ray looks at none.
Begins(ip, p) ==
  LET cleared == IF p.v4 THEN V4Bits - p.bits ELSE V6Bits - p.bits
  IN IF p.v4 THEN ip >= Mapped /\ (ip - Mapped) \div Pow2[cleared] = p.addr \div Pow2[cleared]
     ELSE ip \div Pow2[cleared] = p.addr \div Pow2[cleared]

InNetwork(ip, p) == IF IsAddress(p) THEN Written(ip) = Written(IF p.v4 THEN Mapped + p.addr ELSE p.addr)
                    ELSE Begins(ip, p)

NetworksKept ==
  LET req == pager.req
      bare == [req EXCEPT !.filter.cidrs = <<>>]
      valid == {p \in ToSet(req.filter.cidrs) : p.ok}
  IN (req.route = "audit" /\ req.filter.ray = "" /\ Cardinality(valid) <= MaxCIDRs) =>
       Selected(req, now) = {r \in Selected(bare, now) :
                               valid = {} \/ \E p \in valid : InNetwork(Attr[r.item].ip, p)}

\* Of the errors of the two queries the one that happened first in earnest is
\* the one that counts: a reader who is still there never gets an empty answer
\* because the failure of one query cancelled the other (both, audit.go:11-30,
\* and broken, httpapi.go:71-78).
FailureTold == reply = "silent" => query.gone

(***************************************************************************)
(* What makes FailureTold inductive: whatever was cancelled goes back to   *)
(* the reader who left or to a List that failed in earnest, and the error  *)
(* of List is the one that is looked at first.                             *)
(***************************************************************************)
CancelCause ==
  /\ ctx = "cancelled" => query.gone \/ query.list = "error"
  /\ query.list = "cancelled" => query.gone
  /\ query.count = "cancelled" => query.gone \/ query.list = "error"

\* The inductive invariant behind FailureTold (both, audit.go:11-30).
IInv ==
  /\ DOMAIN query = {"list", "count", "to", "page", "total", "gone"}
  /\ CancelCause
  /\ FailureTold

\* A request whose list failed, or whose reader left, is over soon even when
\* the count hangs (audit.go:17-23).
EndsEarly == (Waiting /\ (query.list = "error" \/ query.gone)) ~> ~Waiting
=============================================================================
