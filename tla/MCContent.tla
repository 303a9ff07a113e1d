------------------------------ MODULE MCContent ------------------------------
(* Contents for model checking Content: texts of up to three characters,     *)
(* whole or cut off, bodies that are not text; lists of up to two headers,   *)
(* one of them cut off; query strings with empty, cut and escaped parameters. *)
EXTENDS Content

Char == {<<"1">>, <<"2", "c">>, <<"3", "c", "c">>, <<"4", "c", "c", "c">>}

Texts == {FlattenSeq(t) : t \in BoundedSeq(Char, 3)}
Broken == {<<"1", "2", "c", "c">>, <<"c", "1">>, <<"3", "2", "c", "1">>}
Bodies == {<<"1", "0", "1">>} \cup Broken \cup UNION {{SubSeq(t, 1, n) : n \in 0..Len(t)} : t \in Texts}

Header(n, v) == [name |-> n, value |-> v]

MCHeaderLists ==
  {<<>>, <<Header(<<"x">>, <<"q", "y">>)>>, <<Header(<<"[", "x">>, <<"comma", "[", "b">>)>>,
   <<Header(<<"n">>, <<>>), Header(<<"x">>, <<"blank", "comma", "y">>)>>,
   <<Header(<<"U">>, <<"y", "x">>), Header(<<>>, <<"x">>)>>}

Archived == {Json(l) : l \in MCHeaderLists}
Cut == Upto(Json(<<Header(<<"x">>, <<"q", "y">>)>>), 8)

Queries ==
  BoundedSeq({"&", "=", "x"}, 3)
    \cup {<<"x", "=", "p", "h", "h", "&", "+">>, <<"&", "x", "y", "&", "&", "y", "=", "p", "h", "x">>,
          <<"x", "=", "y", "=", "&", "x", "y", "=">>}

MCObject == [headers |-> {Cut} \cup Archived, args |-> Queries, body |-> Bodies]

MCAsked == {Bare, 0, 1, 3, 9}

Complete == [endpoint |-> TRUE, file |-> "read", inFile |-> {"access"}, inVars |-> Credential,
          buckets |-> Kinds, number |-> "unset"]

MCEnvs ==
  {Complete, [Complete EXCEPT !.buckets = {"body"}], [Complete EXCEPT !.endpoint = FALSE, !.file = "none"],
   [Complete EXCEPT !.inVars = {"access"}], [Complete EXCEPT !.number = "bad"],
   [Complete EXCEPT !.file = "unreadable"]}
=============================================================================
