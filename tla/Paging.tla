-------------------------------- MODULE Paging --------------------------------
(***************************************************************************)
(* What is true of a listing of Search while a reader is under way in it:  *)
(* the inductive invariants behind PagesComplete and TotalAgrees.          *)
(*                                                                         *)
(* They are stated about any table, given as the copies it has of each     *)
(* row, so that the table of a listing can be compared with what it        *)
(* becomes.                                                                *)
(***************************************************************************)
EXTENDS Search

Tables == [Row -> 0..MaxCopies]

Least(a, b) == IF a <= b THEN a ELSE b

ItemsOf(rows) == {r.item : r \in rows}

-----------------------------------------------------------------------------
(* Places *)

\* The rows a search asks for whatever their time, and whether it asks for that.
Matching ==
  [req \in Requests |-> {r \in Row : Where(req.route, Normalize(req.route, req.filter), Attr[r.item], TRUE)}]

AnyTime == {req \in Requests : req.route # "logs" /\ Normalize(req.route, req.filter).ray # ""}

Matches(req, r) == r \in Matching[req]

Timeless(req) == req \in AnyTime

InWindow(r, to) == r.ts + Window >= to /\ r.ts <= to

\* What is selected of a table with c copies of each row.
Chosen(c, req, to) ==
  {r \in Row : c[r] > 0 /\ Matches(req, r) /\ (Timeless(req) \/ InWindow(r, to))}

\* The copies that are stored of rows.
Stored(c, rows) == {p \in rows \X (1..MaxCopies) : p[2] <= c[p[1]]}

\* Where a listing has the last copy of a row, and whether its order leaves it open.
Ahead(c, req, to, r) == {x \in Chosen(c, req, to) : Sorted(req, x, r)}

Place(c, req, to, r) == Cardinality(Stored(c, Ahead(c, req, to, r)))

Tied(c, req, to, r) == req.route = "logs" /\ \E x \in Chosen(c, req, to) : x # r /\ x.ts = r.ts

\* The groups, whether their order leaves none open, and where a listing has one.
Grouped(c, req, to) == GroupsIn(req, Chosen(c, req, to))

Ranked(req, groups) ==
  \A g, h \in groups : GroupBefore(req, g, h) /\ GroupBefore(req, h, g) => g = h

UpToGroup(req, groups, g) == {h \in groups : h = g \/ GroupBefore(req, h, g)}

Rank(c, req, to, g) == Cardinality(UpToGroup(req, Grouped(c, req, to), g))

\* How many a listing counts.
CountIn(c, req, to) ==
  CASE req.route = "groups" -> Cardinality(Grouped(c, req, to))
    [] req.route = "logs" -> Cardinality(Stored(c, Chosen(c, req, to)))
    [] OTHER -> Cardinality(Chosen(c, req, to))

-----------------------------------------------------------------------------
(* What a reader has been shown of a listing that ends at to, when she has come to *)
(* an offset                                                                     *)

\* The rows that were first and are still selected, and were not shown, are listed
\* later; but for those whose place is open.
Due(c, req, first, to, shown, offset) ==
  \A r \in first \cap Chosen(c, req, to) :
    Tied(c, req, to, r) \/ r.item \in shown \/ offset < Place(c, req, to, r)

Through(c, req, first, to, shown) ==
  \A r \in first \cap Chosen(c, req, to) : Tied(c, req, to, r) \/ r.item \in shown

\* Every group is shown, or listed later.
GroupsDue(c, req, to, shown, offset) ==
  Ranked(req, Grouped(c, req, to)) =>
    \A g \in Grouped(c, req, to) : g \in shown \/ offset < Rank(c, req, to, g)

GroupsThrough(c, req, to, shown) ==
  Ranked(req, Grouped(c, req, to)) => Grouped(c, req, to) \subseteq shown

\* A table that does not change is shown from its beginning.
ShownUpTo(c, req, to, shown, lines, offset) ==
  /\ req.route \in {"logs", "groups"} => lines = Least(offset, CountIn(c, req, to))
  /\ req.route \in {"audit", "findings"} => shown \subseteq ItemsOf(Chosen(c, req, to))
  /\ req.route = "groups" => GroupsDue(c, req, to, shown, offset)

\* So it is with the next page.
PageFits(c, req, to, shown, lines, offset, limit, page) ==
  /\ ShownUpTo(c, req, to, shown \cup ToSet(page), lines + Len(page), offset + limit)
  /\ page = <<>> /\ req.route \in {"logs", "groups"} => CountIn(c, req, to) <= offset

-----------------------------------------------------------------------------
(* The rows that were there first, whatever is inserted meanwhile *)

\* The time at which the window of the listing ends.
WindowEnd == IF pager.at \in {"waiting", "end"} THEN query.to ELSE now

\* No change has moved rows to earlier pages.
Steady ==
  /\ pager.req.route # "groups"
  /\ pager.req.route # "logs" => "merge" \notin pager.since /\ (pager.req.asc => "tick" \notin pager.since)

TypeOK ==
  /\ copies \in Tables /\ now \in Nat
  /\ DOMAIN pager = {"req", "limit", "offset", "first", "since", "shown", "lines", "at"}
  /\ pager.req \in Requests /\ pager.limit \in Nat \ {0} /\ pager.offset \in Nat
  /\ pager.at \in {"asking", "waiting", "end", "left", "refused"}
  /\ DOMAIN query = {"list", "count", "to", "page", "total", "gone"}
  /\ query.to \in Nat

\* The rows that were there first are there, and none is beyond the window.
FirstThere ==
  \A r \in pager.first :
    /\ r \in Row /\ copies[r] > 0
    /\ Timeless(pager.req) \/ r.ts <= WindowEnd

WindowKept == WindowEnd <= now /\ ("tick" \notin pager.since => WindowEnd = now)

RowsListed ==
  Steady =>
    /\ pager.at \in {"asking", "waiting"} =>
         Due(copies, pager.req, pager.first, WindowEnd, pager.shown, pager.offset)
    /\ pager.at = "waiting" /\ query.list = "ok" =>
         /\ Due(copies, pager.req, pager.first, WindowEnd, pager.shown \cup ToSet(query.page),
                pager.offset + pager.limit)
         /\ query.page = <<>> => Through(copies, pager.req, pager.first, WindowEnd, pager.shown)
    /\ pager.at = "end" => Through(copies, pager.req, pager.first, WindowEnd, pager.shown)

RowsInv == TypeOK /\ FirstThere /\ WindowKept /\ RowsListed

-----------------------------------------------------------------------------
(* A table that does not change *)

\* Which query runs when, and that no number is told before one is counted.
QueryOrder ==
  pager.at = "waiting" =>
    /\ pager.req.route # "audit" /\ query.list # "ok" => query.count = "idle"
    /\ pager.req.route = "groups" /\ query.count # "ok" /\ (query.list = "ok" => query.page = <<>>)
         => query.total = 0
    /\ pager.req.route = "audit" => query.count # "idle"

\* Nothing is shown before the first page.
FirstPage == pager.offset = 0 => pager.shown = {} /\ pager.lines = 0

\* The number next to a page, whoever told it.
TotalTold(n) ==
  /\ query.count = "ok" => query.total = n
  /\ pager.req.route = "groups" /\ query.list = "ok" /\ query.page # <<>> => query.total = n

Listed(n) ==
  /\ pager.at \in {"asking", "waiting"} =>
       ShownUpTo(copies, pager.req, now, pager.shown, pager.lines, pager.offset)
  /\ (pager.at = "asking" /\ pager.offset = 0) \/ pager.first = Chosen(copies, pager.req, now)
  /\ pager.at = "waiting" =>
       /\ TotalTold(n)
       /\ query.list = "ok" =>
            PageFits(copies, pager.req, now, pager.shown, pager.lines, pager.offset, pager.limit, query.page)
  /\ pager.at = "end" =>
       /\ query.total = n
       /\ pager.req.route \in {"logs", "groups"} => pager.lines = n
       /\ pager.req.route \in {"audit", "findings"} => pager.shown \subseteq ItemsOf(pager.first)
       /\ pager.req.route = "groups" => GroupsThrough(copies, pager.req, now, pager.shown)

StillListed ==
  pager.since = {} /\ pager.at \in {"asking", "waiting", "end"} => Listed(CountIn(copies, pager.req, now))

\* The groups of a page are groups of the table.
GroupsListed ==
  pager.req.route = "groups" /\ query.list = "ok" /\ pager.since = {} =>
    ToSet(query.page) \subseteq Grouped(copies, pager.req, query.to)

\* A row that was there when the listing began, is still selected and was not shown
\* stands after what was shown, in the order of the listing (query.go:53-66), however
\* far its pages have come; and when nothing changes every page, and the number next
\* to it, is a part of one and the same listing (audit.go:85-129).
PagesInv == RowsInv /\ QueryOrder /\ FirstPage /\ StillListed /\ GroupsListed
=============================================================================
