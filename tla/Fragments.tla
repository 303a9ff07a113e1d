------------------------------ MODULE Fragments ------------------------------
(***************************************************************************)
(* Archived headers and query strings, decoded from a part of them:        *)
(* internal/httpapi/content_parse.go and the parsers of content.go.        *)
(*                                                                         *)
(* A part may begin and end anywhere.  In headers, a JSON array of pairs   *)
(* of strings, "q" is the quote, "b" the backslash, "blank" the blank,     *)
(* "comma" the comma and "h" a hexadecimal digit; in a query string "p" is *)
(* the percent sign and "h" such a digit.  A decoded "n" is a line feed,   *)
(* "U" the character of a \u escape and "P" the one of a percent escape.   *)
(* Other letters stand for themselves.                                     *)
(***************************************************************************)
EXTENDS Integers, SequencesExt

CONSTANTS
  HeaderLists,   \* the lists of name and value a request of the run may have
  CodeDigits     \* digits of a \u escape: 4 in JSON

\* The bytes of all contents; those of a body, the first, are described in Content.
Byte == {"0", "1", "2", "3", "4", "c"}
          \cup {"[", "]", "comma", "q", "b", "u", "h", "n", "blank", "x", "y", "&", "=", "p", "+"}

Character == Byte \cup {"U"}

ASSUME FragmentsAssumption ==
  HeaderLists \subseteq Seq([name : Seq(Character), value : Seq(Character)]) /\ CodeDigits \in Nat

Empty == <<>>
Upto(s, n) == SubSeq(s, 1, n)
From(s, k) == SubSeq(s, k, Len(s))

\* The first k from i on where s[k] is one of B, or the end of s.
FirstOf(s, i, B) == Min({k \in i..Len(s) : s[k] \in B} \cup {Len(s) + 1})

-----------------------------------------------------------------------------
(* What the module that archives a request writes (external). *)

Escaped(c) == CASE c \in {"q", "b", "n"} -> <<"b", c>>
                [] c = "U" -> <<"b", "u">> \o [k \in 1..CodeDigits |-> "h"]
                [] OTHER -> <<c>>

Encode(s) == FlattenSeq([k \in DOMAIN s |-> Escaped(s[k])])

JsonPair(p) == <<"[", "q">> \o Encode(p.name) \o <<"q", "comma", "q">> \o Encode(p.value) \o <<"q", "]">>

Json(l) ==
  <<"[">> \o FlattenSeq([k \in DOMAIN l |->
               (IF k > 1 THEN <<"comma">> ELSE <<>>) \o JsonPair(l[k])]) \o <<"]">>

-----------------------------------------------------------------------------
(* Headers *)

Skip(d, i) == Min({k \in i..Len(d) : d[k] # "blank"} \cup {Len(d) + 1})

\* The character at k, escaped or not, and what follows it; cut if the part ends
\* inside the escape.
CharAt(d, k) ==
  LET code == k + 2..k + 1 + CodeDigits
      is(c, n) == [char |-> c, next |-> k + n, cut |-> FALSE]
  IN CASE d[k] # "b" -> is(d[k], 1)
       [] d[k] = "b" /\ (k = Len(d) \/ (d[k + 1] = "u" /\ k + 1 + CodeDigits > Len(d))) ->
            [char |-> "", next |-> k, cut |-> TRUE]
       [] OTHER -> IF d[k + 1] = "u" /\ \A j \in code : d[j] = "h"
                   THEN is("U", 2 + CodeDigits) ELSE is(d[k + 1], 2)

\* What a string that began before i holds, up to its closing quote.
Inside(d, i) ==
  LET rest[k \in 1..Len(d) + 1] ==
        IF k > Len(d) THEN [text |-> <<>>, next |-> Len(d) + 1, done |-> FALSE]
        ELSE IF d[k] = "q" THEN [text |-> <<>>, next |-> k + 1, done |-> TRUE]
        ELSE LET c == CharAt(d, k)
             IN IF c.cut THEN [text |-> <<>>, next |-> Len(d) + 1, done |-> FALSE]
                ELSE [rest[c.next] EXCEPT !.text = <<c.char>> \o @]
  IN rest[i]

\* readJSONString: found tells whether there is a string at i.
ReadString(d, i) ==
  LET k == Skip(d, i)
  IN [found |-> k <= Len(d) /\ d[k] = "q",
      is |-> IF k <= Len(d) /\ d[k] = "q" THEN Inside(d, k + 1)
             ELSE [text |-> <<>>, next |-> k, done |-> FALSE]]

\* One byte of the set B is passed over if it is there.
Past(d, i, B) == LET k == Skip(d, i) IN IF k <= Len(d) /\ d[k] \in B THEN k + 1 ELSE k

\* readPair, at an opening bracket: a pair may be cut in its name or its value.
\* A definition named ...Mutant is the one after it with a plausible bug.
PairOfMutant(d, name, value) ==
  [found |-> name.found /\ value.found, complete |-> value.is.done,
   pair |-> [name |-> name.is.text, value |-> value.is.text],
   next |-> Past(d, value.is.next, {"]"})]

PairOf(d, name, value) ==
  LET both == name.is.done /\ value.found
  IN [found |-> name.found,
      complete |-> both /\ value.is.done,
      pair |-> [name |-> name.is.text, value |-> IF both THEN value.is.text ELSE <<>>],
      next |-> Past(d, value.is.next, {"]"})]

ReadPair(d, i) ==
  LET name == ReadString(d, i + 1)
  IN PairOf(d, name, ReadString(d, Past(d, name.is.next, {"comma"})))

Fragment(pairs, text) == [pairs |-> pairs, text |-> text]

\* The loop of scanHeaders: pairs until the array ends or one is cut.
PairsFrom(d, i) ==
  LET rest[k \in 1..Len(d) + 1] ==
        LET j == Skip(d, k)
            p == ReadPair(d, j)
        IN IF j > Len(d) \/ d[j] = "]" THEN Fragment(<<>>, <<>>)
           ELSE IF d[j] = "comma" THEN rest[j + 1]
           ELSE IF d[j] # "[" \/ ~p.found THEN Fragment(<<>>, Inside(From(d, j), 1).text)
           ELSE IF ~p.complete THEN Fragment(<<p.pair>>, <<>>)
           ELSE [rest[p.next] EXCEPT !.pairs = <<p.pair>> \o @]
  IN rest[i]

\* A part that begins with neither bracket nor comma is the rest of a string;
\* whatever follows the string in the part is not looked at.
ScanHeaders(d) ==
  LET i == Skip(d, 1)
      j == Skip(d, i + 1)
  IN CASE i > Len(d) -> Fragment(<<>>, <<>>)
       [] i <= Len(d) /\ d[i] = "[" -> PairsFrom(d, IF j <= Len(d) /\ d[j] = "[" THEN j ELSE i)
       [] i <= Len(d) /\ d[i] = "comma" -> PairsFrom(d, j)
       [] OTHER -> Fragment(<<>>, Inside(From(d, i), 1).text)

\* A part that is a whole document is given to json.Unmarshal, the inverse of
\* the encoding.
ParseHeadersFragment(d) ==
  IF \E l \in HeaderLists : Json(l) = d
  THEN Fragment(CHOOSE l \in HeaderLists : Json(l) = d, <<>>) ELSE ScanHeaders(d)

-----------------------------------------------------------------------------
(* Query strings *)

\* url.QueryUnescape; a string with a broken escape is left as it is.
Unescape(s) ==
  LET isEscape(k) == s[k] = "p" /\ k + 2 <= Len(s) /\ s[k + 1] = "h" /\ s[k + 2] = "h"
      isCode(k) == (k > 1 /\ s[k - 1] = "p") \/ (k > 2 /\ s[k - 2] = "p")
  IN IF \E k \in DOMAIN s : s[k] = "p" /\ ~isEscape(k) THEN s
     ELSE FlattenSeq([k \in DOMAIN s |->
            CASE isCode(k) -> <<>> [] s[k] = "p" -> <<"P">> [] s[k] = "+" -> <<"blank">>
              [] OTHER -> <<s[k]>>])

\* Where a parameter begins, and its bytes; empty ones are passed over.
Begins(s) == {k \in DOMAIN s : s[k] # "&" /\ (k = 1 \/ s[k - 1] = "&")}
PartAt(s, k) == SubSeq(s, k, FirstOf(s, k, {"&"}) - 1)

Param(part) ==
  LET e == FirstOf(part, 1, {"="})
  IN [name |-> Unescape(Upto(part, e - 1)), value |-> Unescape(From(part, e + 1))]

ParseArgs(s) ==
  FlattenSeq([k \in DOMAIN s |-> IF k \in Begins(s) THEN <<Param(PartAt(s, k))>> ELSE <<>>])

\* A part that does not begin with a separator continues what came before.
ParseArgsFragmentMutant(s, offset) == Fragment(ParseArgs(s), <<>>)
ParseArgsFragment(s, offset) ==
  IF s # <<>> /\ offset > 0 /\ s[1] # "&"
  THEN LET end == FirstOf(s, 1, {"&"})
       IN Fragment(ParseArgs(From(s, end + 1)), Unescape(Upto(s, end - 1)))
  ELSE Fragment(ParseArgs(s), <<>>)
=============================================================================
