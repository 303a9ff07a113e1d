------------------------------- MODULE MCIngest -------------------------------
(* Values for model checking Ingest.                                         *)
EXTENDS Ingest

Frame1 == [dir |-> "c2s", seq |-> 1]

Request(kind, ray, phase, ts) ==
  [kind |-> kind, node |-> "n", ray |-> ray, phase |-> phase, ts |-> ts, frame |-> NoFrame,
   inspectors |-> [n \in {} |-> {}], sessions |-> <<>>, markers |-> <<>>, headers |-> <<>>]

Inspector(ray, phase, ts, by, codes) ==
  [kind |-> "inspector", decodes |-> TRUE, node |-> "n", ray |-> ray, phase |-> phase, ts |-> ts,
   frame |-> NoFrame, by |-> by, codes |-> codes]

Batch(items) == [kind |-> "batch", items |-> items]
Broken == [kind |-> "broken"]
Other == [kind |-> "log"]

Told(verdict, state, rewrite) == [verdict |-> verdict, state |-> state, rewrite |-> rewrite]
Backed(by, source, user) == [by |-> by, source |-> source, kind |-> "cookie", user |-> user]

\* Three inspectors, one of them the module; a session that nobody told of and one
\* without a source; a marker and a header that come twice.
Full ==
  [Request("request", "r1", "request", 1) EXCEPT
     !.inspectors = 0 :> Told("deny", "", "x") @@ 1 :> Told("", "late", "null")
                      @@ 2 :> Told("allow", "", "y"),
     !.sessions = <<Backed("", "hr", "bob"), Backed("m", "", "eve"), Backed("m", "ad", "ann")>>,
     !.markers = <<"m", "", "m", "k">>,
     !.headers = <<<<"VIA", "p">>, <<"via", "q", "cut">>, <<"", "z">>>>]

Inner ==
  Batch(<<Other, [Inspector("r1", "", 1, 1, <<>>) EXCEPT !.decodes = FALSE],
          Inspector("r1", "", 1, 1, <<"a", "", "b">>)>>)

Outer ==
  Batch(<<Broken, Full, [Full EXCEPT !.node = ""], Inner,
          [Request("request", "r3", "", 1) EXCEPT !.headers = <<<<"via">>>>],
          [Request("", "r4", "response", 0) EXCEPT
             !.inspectors = 1 :> Told("allow", "", "odd") @@ 2 :> Told("", "", "x")]>>)

Pair ==
  Batch(<<Inspector("r1", "request", 2, 2, <<"c">>), Inspector("r1", "request", 2, NoOne, <<"d">>)>>)

MCMessage ==
  {Outer, Pair, Batch(<<>>),
   [Request("", "r2", "frame", 0) EXCEPT !.frame = Frame1],
   [Inspector("r2", "frame", 0, 2, <<>>) EXCEPT !.frame = Frame1]}

MCPayloads == MCMessage \cup UNION {ToSet(batch.items) : batch \in {Outer, Inner, Pair}}

Wrote(ts, service, text) == [ts |-> ts, service |-> service, text |-> text]
Padded(is) == [Named(is) EXCEPT !.padded = TRUE]

MCLogMessage ==
  {[decodes |-> TRUE, writer |-> Padded("edge"),
    lines |-> <<Wrote(1, NoName, 9), Wrote(1, NoName, 0), Wrote(0, Named("app"), 3)>>],
   [decodes |-> TRUE, writer |-> [Named("") EXCEPT !.padded = TRUE],
    lines |-> <<Wrote(0, Padded("app"), 1), Wrote(2, [Named("app") EXCEPT !.long = TRUE], 1)>>],
   [decodes |-> FALSE, writer |-> Named("edge"), lines |-> <<Wrote(1, NoName, 1)>>]}
=============================================================================
