------------------------------- MODULE MCSearch -------------------------------
(* Values for model checking Search: two rows of one time, an item stored    *)
(* under two times, and a row the clock has not reached.  Items share a      *)
(* marker and a user name, under the source "hr", under none and under one   *)
(* with a colon; another user has a colon; a search names one with a blank   *)
(* who cannot be printed; a route has separators; one uri is part of         *)
(* another.  Addresses have four bits, two of them for IPv4.                 *)
EXTENDS Paging

MCRow == {[ts |-> 1, item |-> 1], [ts |-> 2, item |-> 1], [ts |-> 2, item |-> 2],
          [ts |-> 3, item |-> 3]}

Plain == [node |-> "n", phase |-> "request", ray |-> "r1", verdict |-> "allow", host |-> "h",
          uri |-> <<"A">>, route |-> <<"a">>, by |-> "list", markers |-> {}, sessions |-> {},
          vars |-> {}, headers |-> {}, ip |-> 5]

User(source, user) == [source |-> source, user |-> user]
Bob(source) == User(source, <<"bob">>)

MCAttr ==
  <<[Plain EXCEPT !.sessions = {Bob(<<"hr">>), Bob(<<>>), User(<<"hr">>, <<>>)},
                  !.markers = {"m", "k"}, !.ip = 13,
                  !.vars = {[name |-> "x", value |-> "1"]},
                  !.headers = {[name |-> "via", value |-> "p"]}],
    [Plain EXCEPT !.verdict = "deny", !.sessions = {Bob(<<"hr", "colon", "x">>)},
                  !.markers = {"m"}, !.ip = 15, !.by = "rate",
                  !.uri = <<"b", "a">>, !.headers = {[name |-> "via", value |-> "q"]}],
    [Plain EXCEPT !.sessions = {User(<<"hr">>, <<"eve", "colon", "x">>)},
                  !.route = <<"b", "c">>, !.phase = "response", !.ray = "r2"]>>

Get(route, filter, limit) ==
  [route |-> route, filter |-> filter, limit |-> limit, asc |-> FALSE, by |-> <<>>, sort |-> "",
   dir |-> ""]

Asc(req) == [req EXCEPT !.asc = TRUE]

By(by, sort, dir) == [Get("groups", NoFilter, 3) EXCEPT !.by = by, !.sort = sort, !.dir = dir]

Net(v4, addr, bits) == [ok |-> TRUE, v4 |-> v4, addr |-> addr, bits |-> bits]
Broken == [Net(TRUE, 0, 0) EXCEPT !.ok = FALSE]

MCRequests ==
  {Get("audit", NoFilter, 3),
   Asc(Get("audit", [NoFilter EXCEPT !.cidrs = <<Broken, Net(TRUE, 1, 3), Net(FALSE, 5, 5)>>], 3)),
   Get("audit", [NoFilter EXCEPT !.uri = <<"a">>, !.verdict = "dent", !.marker = "m",
      !.vars = <<[name |-> "x", value |-> ""]>>, !.headers = <<[name |-> "via", value |-> ""]>>,
      !.routes = <<<<"b", "", "a">>, <<"a">>>>, !.user = <<"blank", "control">>,
      !.cidrs = <<Net(FALSE, 5, 3), Broken, Net(TRUE, 3, 1)>>], 3),
   Get("findings", [NoFilter EXCEPT !.ray = "r1"], 0),
   Get("logs", [NoFilter EXCEPT !.uri = <<"A">>, !.host = "h"], 3),
   By(<<"what">>, "", ""),
   By(<<"user">>, "denied", "desc"),
   By(<<"marker", "ip", "marker", "route", "uri", "by">>, "ip", "asc")}
=============================================================================
