----------------------------- MODULE ContentProofs -----------------------------
(***************************************************************************)
(* Theorems about Content, for every kind and set of objects, limits and   *)
(* width of the integers, that of the source included: no window slices    *)
(* out of bounds or exceeds its limit, windows tile the object, miss no    *)
(* character, show text as text, each pair of headers and each parameter   *)
(* once, and a process that started knows its archive.                     *)
(***************************************************************************)
EXTENDS Content, FiniteFacts, SequenceTheorems, WellFoundedInduction, TLAPS

-----------------------------------------------------------------------------
(* Least and greatest elements *)

LEMMA MinOfTwo ==
  ASSUME NEW a \in Int, NEW b \in Int
  PROVE  Min({a, b}) = IF a <= b THEN a ELSE b
PROOF
  BY DEF Min

LEMMA MaxOfTwo ==
  ASSUME NEW a \in Int, NEW b \in Int
  PROVE  Max({a, b}) = IF a >= b THEN a ELSE b
PROOF
  BY DEF Max

\* A set of numbers up to a bound has a greatest element.
LEMMA MaxOfBounded ==
  ASSUME NEW n \in Nat, NEW S \in SUBSET (0..n), S # {}
  PROVE  Max(S) \in S /\ \A k \in S : Max(S) >= k
PROOF
  <1> DEFINE T == {n - k : k \in S}
             R == OpToRel(<, Nat)
  <1>1. T \subseteq Nat /\ T # {}
    <2>1. \A k \in S : n - k \in Nat
      OBVIOUS
    <2>2. PICK k \in S : TRUE
      OBVIOUS
    <2>3. n - k \in T
      OBVIOUS
    <2> QED
      BY <2>1, <2>3
  <1>2. PICK x \in T : \A y \in T : ~ (<<y, x>> \in R)
    <2> HIDE DEF T
    <2> QED
      BY <1>1, NatLessThanWellFounded, WFMin
  <1>3. \A y \in T : ~ (y < x)
    BY <1>1, <1>2 DEF OpToRel
  <1>4. PICK k \in S : x = n - k
    OBVIOUS
  <1>5. ASSUME NEW j \in S PROVE k >= j
    <2>1. n - j \in T /\ ~ (n - j < n - k)
      BY <1>3, <1>4
    <2> HIDE DEF T
    <2>2. j \in 0..n /\ k \in 0..n
      OBVIOUS
    <2> QED
      BY <2>1, <2>2
  <1> QED
    BY <1>4, <1>5 DEF Max

-----------------------------------------------------------------------------
(* The cut at a character *)

\* Whole keeps a prefix of its argument.
LEMMA WholeIsPrefix ==
  ASSUME NEW s \in Seq(Byte)
  PROVE  Whole(s) \in 0..Len(s)
PROOF
  <1> DEFINE L == {0} \cup {k \in DOMAIN s : s[k] # "c"}
  <1>1. L \in SUBSET (0..Len(s)) /\ L # {} /\ Len(s) \in Nat
    OBVIOUS
  <1>2. LastLeading(s) \in 0..Len(s)
    BY <1>1, MaxOfBounded DEF LastLeading
  <1> QED
    BY <1>2 DEF Whole

\* A body window returns a number of bytes it has.
LEMMA ReturnedIsPrefix ==
  ASSUME NEW s \in Seq(Byte)
  PROVE  Returned(s) \in 0..Len(s)
PROOF
  BY WholeIsPrefix DEF Returned, TextLength

-----------------------------------------------------------------------------
(* Characters *)

LEMMA WidthIs ==
  ASSUME NEW b
  PROVE  WidthOf(b) \in 1..4 /\ (b \in {"2", "3", "4"} => WidthOf(b) >= 2)
PROOF
  BY DEF WidthOf

\* The last leading byte is one, and only continuation bytes follow it.
LEMMA LastLeadingIs ==
  ASSUME NEW s \in Seq(Byte)
  PROVE  /\ LastLeading(s) \in 0..Len(s)
         /\ LastLeading(s) > 0 => s[LastLeading(s)] # "c"
         /\ \A k \in 1..Len(s) : s[k] # "c" => k <= LastLeading(s)
PROOF
  <1> DEFINE L == {0} \cup {k \in DOMAIN s : s[k] # "c"}
  <1>1. L \in SUBSET (0..Len(s)) /\ L # {} /\ Len(s) \in Nat
    OBVIOUS
  <1>2. Max(L) \in L /\ \A k \in L : Max(L) >= k
    BY <1>1, MaxOfBounded
  <1>3. LastLeading(s) = Max(L)
    BY DEF LastLeading
  <1> QED
    BY <1>1, <1>2, <1>3

LEMMA WholeIs ==
  ASSUME NEW s \in Seq(Byte)
  PROVE  /\ Whole(s) \in 0..Len(s)
         /\ \/ LastLeading(s) > 0 /\ s[LastLeading(s)] \in {"2", "3", "4"} /\ Whole(s) = LastLeading(s) - 1
            \/ LastLeading(s) = 0 /\ Whole(s) = 0
            \/ LastLeading(s) > 0 /\ s[LastLeading(s)] \notin {"2", "3", "4"} /\ Whole(s) = LastLeading(s)
PROOF
  BY LastLeadingIs DEF Whole

\* The first n bytes of s.
LEMMA UptoIs ==
  ASSUME NEW s \in Seq(Byte), NEW n \in 0..Len(s)
  PROVE  /\ Upto(s, n) \in Seq(Byte) /\ Len(Upto(s, n)) = n
         /\ DOMAIN Upto(s, n) = 1..n
         /\ \A k \in 1..n : Upto(s, n)[k] = s[k]
         /\ n = Len(s) => Upto(s, n) = s
PROOF
  <1>1. \A k \in 1..n : s[k] \in Byte
    OBVIOUS
  <1>2. /\ SubSeq(s, 1, n) \in Seq(Byte)
        /\ Len(SubSeq(s, 1, n)) = IF 1 <= n THEN n - 1 + 1 ELSE 0
        /\ \A k \in 1..n - 1 + 1 : SubSeq(s, 1, n)[k] = s[1 + k - 1]
    BY <1>1, SubSeqProperties
  <1> DEFINE d == Upto(s, n)
  <1>3. d \in Seq(Byte) /\ Len(d) = n /\ \A k \in 1..n : d[k] = s[k]
    BY <1>2 DEF Upto
  <1> HIDE DEF d
  <1>4. n = Len(s) => d = s
    BY <1>3, SeqEqual
  <1> QED
    BY <1>3, <1>4 DEF d

\* Of a text that is taken from a window, what is taken is whole characters.
ValidUpto(s, n) ==
  /\ \A k \in 1..n : s[k] # "c" =>
       /\ k + WidthOf(s[k]) - 1 <= n
       /\ \A j \in k + 1..k + WidthOf(s[k]) - 1 : s[j] = "c"
  /\ \A k \in 1..n : s[k] = "c" => \E j \in 1..k - 1 : s[j] # "c" /\ j + WidthOf(s[j]) > k

LEMMA ValidUptoIs ==
  ASSUME NEW s \in Seq(Byte), NEW n \in 0..Len(s)
  PROVE  Valid(Upto(s, n)) <=> ValidUpto(s, n)
PROOF
  <1> DEFINE d == Upto(s, n)
  <1>1. DOMAIN d = 1..n /\ Len(d) = n /\ \A k \in 1..n : d[k] = s[k]
    BY UptoIs
  <1> HIDE DEF d
  <1>2. \A k \in 1..n : WidthOf(d[k]) = WidthOf(s[k]) /\ WidthOf(s[k]) \in 1..4
    BY <1>1, WidthIs
  <1>3. (\A k \in DOMAIN d : d[k] # "c" =>
          /\ k + WidthOf(d[k]) - 1 <= Len(d)
          /\ \A j \in k + 1..k + WidthOf(d[k]) - 1 : d[j] = "c")
        <=> (\A k \in 1..n : s[k] # "c" =>
               /\ k + WidthOf(s[k]) - 1 <= n
               /\ \A j \in k + 1..k + WidthOf(s[k]) - 1 : s[j] = "c")
    <2>1. ASSUME NEW k \in 1..n
          PROVE  (d[k] # "c" =>
                    /\ k + WidthOf(d[k]) - 1 <= Len(d)
                    /\ \A j \in k + 1..k + WidthOf(d[k]) - 1 : d[j] = "c")
                 <=> (s[k] # "c" =>
                        /\ k + WidthOf(s[k]) - 1 <= n
                        /\ \A j \in k + 1..k + WidthOf(s[k]) - 1 : s[j] = "c")
      BY <1>1, <1>2
    <2> QED
      BY <1>1, <2>1
  <1>4. (\A k \in DOMAIN d : d[k] = "c" => \E j \in 1..k - 1 : d[j] # "c" /\ j + WidthOf(d[j]) > k)
        <=> (\A k \in 1..n : s[k] = "c" => \E j \in 1..k - 1 : s[j] # "c" /\ j + WidthOf(s[j]) > k)
    <2>1. ASSUME NEW k \in 1..n
          PROVE  (d[k] = "c" => \E j \in 1..k - 1 : d[j] # "c" /\ j + WidthOf(d[j]) > k)
                 <=> (s[k] = "c" => \E j \in 1..k - 1 : s[j] # "c" /\ j + WidthOf(s[j]) > k)
      <3>1. \A j \in 1..k - 1 : j \in 1..n /\ d[j] = s[j]
        BY <1>1
      <3> QED
        BY <1>1, <3>1
    <2> QED
      BY <1>1, <2>1
  <1>5. Valid(d) <=> ValidUpto(s, n)
    BY <1>3, <1>4 DEF Valid, Continues, ValidUpto
  <1> QED
    BY <1>5 DEF d

\* What utf8Window takes for text is valid, and unless all is, ends before a byte
\* that begins more than itself.
LEMMA TextIs ==
  ASSUME NEW s \in Seq(Byte), TextLength(s) > 0
  PROVE  /\ TextLength(s) \in 1..Len(s) /\ ValidUpto(s, TextLength(s))
         /\ TextLength(s) = Len(s) \/ (TextLength(s) = Whole(s) /\ ~ValidUpto(s, Len(s)))
PROOF
  <1>1. Len(s) \in Nat /\ Whole(s) \in 0..Len(s) /\ Upto(s, Len(s)) = s
    BY WholeIs, UptoIs
  <1>2. Valid(s) <=> ValidUpto(s, Len(s))
    BY <1>1, ValidUptoIs
  <1>3. Valid(Upto(s, Whole(s))) <=> ValidUpto(s, Whole(s))
    BY <1>1, ValidUptoIs
  <1> QED
    BY <1>1, <1>2, <1>3 DEF TextLength

-----------------------------------------------------------------------------
(* Windows and characters *)

PartOf(t, o, d) ==
  /\ d \in Seq(Byte)
  /\ \A j \in 1..Len(d) : o + j \in 1..Len(t) /\ d[j] = t[o + j]

\* The text of the last window leaves out nothing but a character that is cut off.
LEMMA NothingCutOff ==
  ASSUME NEW t \in Seq(Byte), NEW o \in Nat, NEW d \in Seq(Byte), PartOf(t, o, d),
         o + Len(d) = Len(t), Continues(t), TextLength(d) > 0,
         NEW k \in o + TextLength(d) + 1..Len(t), t[k] # "c"
  PROVE  k + WidthOf(t[k]) - 1 > Len(t)
PROOF
  <1> DEFINE n == TextLength(d)
             last == LastLeading(d)
             w == WidthOf(d[last])
  <1>1. /\ n \in 1..Len(d) /\ ValidUpto(d, n) /\ Len(d) \in Nat /\ Len(t) \in Nat
        /\ n = Len(d) \/ (n = Whole(d) /\ ~ValidUpto(d, Len(d)))
    BY TextIs
  <1>2. /\ last \in 0..Len(d)
        /\ \A i \in 1..Len(d) : d[i] # "c" => i <= last
        /\ last > 0 => d[last] # "c"
    BY LastLeadingIs
  <1>3. w \in 1..4 /\ (d[last] \in {"2", "3", "4"} => w >= 2)
    BY WidthIs
  <1>w. /\ Whole(d) = last \/ (last > 0 /\ d[last] \in {"2", "3", "4"} /\ Whole(d) = last - 1)
    BY WholeIs
  <1>4. \A j \in 1..Len(d) : o + j \in 1..Len(t) /\ d[j] = t[o + j]
    BY DEF PartOf
  <1> HIDE DEF n, last, w
  <1>5. k \in o + n + 1..Len(t)
    BY DEF n
  <1>6. k - o \in 1..Len(d) /\ d[k - o] = t[k] /\ k - o > n
    <2>1. k - o \in 1..Len(d) /\ k - o > n
      BY <1>1, <1>5
    <2>2. o + (k - o) = k
      BY <1>1, <1>5
    <2> QED
      BY <1>4, <2>1, <2>2
  <1>7. n = Whole(d) /\ ~ValidUpto(d, Len(d))
    BY <1>1, <1>6
  <1>8. k - o <= last
    BY <1>2, <1>6
  <1>9. k - o = last /\ n = last - 1 /\ last > 0 /\ d[last] \in {"2", "3", "4"}
    BY <1>1, <1>2, <1>6, <1>7, <1>8, <1>w
  <1>10. SUFFICES ASSUME last + w - 1 <= Len(d) PROVE FALSE
    <2>1. WidthOf(t[k]) = w
      BY <1>6, <1>9 DEF w
    <2>2. k - o = last /\ o + Len(d) = Len(t) /\ k \in Nat /\ w \in Nat /\ last \in Nat
      BY <1>1, <1>2, <1>3, <1>9
    <2>3. ~ (last + w - 1 <= Len(d)) => k + w - 1 > Len(t)
      BY <1>1, <2>2
    <2> QED
      BY <2>1, <2>3
  <1>11. ASSUME NEW i \in 1..Len(d), d[i] # "c"
         PROVE  /\ i + WidthOf(d[i]) - 1 <= Len(d)
                /\ \A j \in i + 1..i + WidthOf(d[i]) - 1 : d[j] = "c"
    <2>1. CASE i = last
      <3>1. WidthOf(d[i]) = w
        BY <2>1 DEF w
      <3>2. \A j \in last + 1..last + w - 1 : d[j] = "c"
        BY <1>1, <1>2, <1>3, <1>10
      <3> QED
        BY <1>10, <2>1, <3>1, <3>2
    <2>2. CASE i # last
      <3>1. i \in 1..n
        BY <1>2, <1>9, <1>11, <2>2
      <3>2. i + WidthOf(d[i]) - 1 <= n /\ \A j \in i + 1..i + WidthOf(d[i]) - 1 : d[j] = "c"
        BY <1>1, <1>11, <3>1 DEF ValidUpto
      <3>3. WidthOf(d[i]) \in 1..4
        BY WidthIs
      <3> QED
        BY <1>1, <3>2, <3>3
    <2> QED
      BY <2>1, <2>2
  <1>12. ASSUME NEW i \in 1..Len(d), d[i] = "c"
         PROVE  \E j \in 1..i - 1 : d[j] # "c" /\ j + WidthOf(d[j]) > i
    <2>1. CASE i <= n
      BY <1>12, <2>1, <1>1 DEF ValidUpto
    <2>2. CASE i > n /\ i < last + w
      <3>1. i # last
        BY <1>2, <1>9, <1>12
      <3>2. last \in 1..i - 1 /\ last + w > i
        BY <1>1, <1>2, <1>9, <2>2, <3>1
      <3> QED
        BY <1>2, <1>9, <3>2 DEF w
    <2>3. CASE i >= last + w
      <3>1. o + i \in DOMAIN t /\ t[o + i] = "c"
        BY <1>4, <1>12
      <3>2. PICK j \in 1..o + i - 1 : t[j] # "c" /\ j + WidthOf(t[j]) > o + i
        BY <3>1 DEF Continues
      <3>3. WidthOf(t[j]) \in 1..4
        BY WidthIs
      <3>4. j - o \in 1..i - 1
        BY <1>1, <1>2, <1>3, <1>9, <2>3, <3>2, <3>3
      <3>5. d[j - o] = t[j]
        <4>1. o + (j - o) = j /\ j - o \in 1..Len(d)
          BY <1>1, <3>2, <3>4
        <4> QED
          BY <1>4, <4>1
      <3>6. d[j - o] # "c" /\ (j - o) + WidthOf(d[j - o]) > i
        <4> DEFINE w2 == WidthOf(t[j])
        <4>1. w2 \in Nat /\ j + w2 > o + i /\ i \in Nat
          BY <1>1, <1>12, <3>2, <3>3
        <4> HIDE DEF w2
        <4>2. (j - o) + w2 > i
          BY <3>2, <4>1
        <4> QED
          BY <3>2, <3>5, <4>2 DEF w2
      <3> QED
        BY <3>4, <3>6
    <2> QED
      BY <1>1, <1>2, <1>3, <2>1, <2>2, <2>3
  <1>13. ValidUpto(d, Len(d))
    BY <1>11, <1>12 DEF ValidUpto
  <1> QED
    BY <1>7, <1>13

\* Whole characters that follow a place between two end at one.
LEMMA EndsBetween ==
  ASSUME NEW t \in Seq(Byte), IsText(t), NEW o \in Nat, NEW d \in Seq(Byte), PartOf(t, o, d),
         o < Len(t), t[o + 1] # "c", NEW n \in 0..Len(d), ValidUpto(d, n), o + n < Len(t)
  PROVE  t[o + n + 1] # "c"
PROOF
  <1>1. Len(t) \in Nat /\ Len(d) \in Nat
    OBVIOUS
  <1>2. SUFFICES ASSUME t[o + n + 1] = "c" PROVE FALSE
    OBVIOUS
  <1>3. Continues(t) /\ \A k, j \in DOMAIN t : t[k] # "c" /\ k < j /\ j < k + WidthOf(t[k]) => t[j] = "c"
    BY DEF IsText
  <1>4. o + n + 1 \in DOMAIN t /\ o + 1 \in DOMAIN t
    BY <1>1
  <1>5. PICK j \in 1..o + n + 1 - 1 : t[j] # "c" /\ j + WidthOf(t[j]) > o + n + 1
    BY <1>2, <1>3, <1>4 DEF Continues
  <1>6. WidthOf(t[j]) \in 1..4 /\ j \in DOMAIN t
    BY <1>1, <1>5, WidthIs
  <1>7. j > o
    <2>1. SUFFICES ASSUME j <= o PROVE FALSE
      BY <1>5
    <2>2. j < o + 1 /\ o + 1 < j + WidthOf(t[j])
      BY <1>1, <1>5, <1>6, <2>1
    <2> QED
      BY <1>3, <1>4, <1>5, <1>6, <2>2
  <1>8. j - o \in 1..n /\ d[j - o] = t[j]
    <2>1. j - o \in 1..n /\ j - o \in 1..Len(d) /\ o + (j - o) = j
      BY <1>1, <1>5, <1>7
    <2>2. d[j - o] = t[o + (j - o)]
      BY <2>1 DEF PartOf
    <2> QED
      BY <2>1, <2>2
  <1>9. (j - o) + WidthOf(d[j - o]) - 1 <= n
    BY <1>5, <1>8 DEF ValidUpto
  <1> QED
    BY <1>5, <1>6, <1>8, <1>9

\* A window of a text that begins with a character and has room for it is text.
LEMMA HasText ==
  ASSUME NEW t \in Seq(Byte), IsText(t), NEW o \in Nat, NEW d \in Seq(Byte), PartOf(t, o, d),
         Len(d) > 0, d[1] # "c", WidthOf(d[1]) <= Len(d)
  PROVE  TextLength(d) > 0
PROOF
  <1> DEFINE last == LastLeading(d)
  <1>1. Len(t) \in Nat /\ Len(d) \in Nat
    OBVIOUS
  <1>2. \A j \in 1..Len(d) : o + j \in DOMAIN t /\ d[j] = t[o + j]
    BY DEF PartOf
  <1>3. /\ last \in 1..Len(d) /\ d[last] # "c"
        /\ \A i \in 1..Len(d) : d[i] # "c" => i <= last
    BY <1>1, LastLeadingIs
  <1>4. Whole(d) \in 0..Len(d)
        /\ \/ d[last] \in {"2", "3", "4"} /\ Whole(d) = last - 1
           \/ d[last] \notin {"2", "3", "4"} /\ Whole(d) = last
    BY <1>3, WholeIs
  <1>w. \A i \in 1..Len(d) : WidthOf(d[i]) \in 1..4 /\ (d[i] \notin {"2", "3", "4"} => WidthOf(d[i]) = 1)
    BY DEF WidthOf
  <1>5. Continues(t) /\ ~Contains(t, "0")
        /\ \A k, j \in DOMAIN t : t[k] # "c" /\ k < j /\ j < k + WidthOf(t[k]) => t[j] = "c"
    BY DEF IsText
  <1> HIDE DEF last
  <1>6. ~Contains(d, "0")
    <2>1. \A j \in DOMAIN t : t[j] # "0"
      BY <1>5 DEF Contains
    <2>2. \A j \in 1..Len(d) : d[j] # "0"
      BY <1>2, <2>1
    <2> QED
      BY <2>2 DEF Contains
  <1>7. ASSUME NEW k \in 1..Len(d), NEW j \in 1..Len(d), d[k] # "c", k < j, j < k + WidthOf(d[k])
        PROVE  d[j] = "c"
    <2>1. o + k \in DOMAIN t /\ o + j \in DOMAIN t /\ d[k] = t[o + k] /\ d[j] = t[o + j]
      BY <1>2
    <2>2. t[o + k] # "c" /\ o + k < o + j /\ o + j < o + k + WidthOf(t[o + k])
      <3>1. d[k] # "c" /\ k < j /\ j < k + WidthOf(d[k]) /\ WidthOf(d[k]) \in Nat
        BY <1>w, <1>7
      <3>2. WidthOf(t[o + k]) = WidthOf(d[k]) /\ t[o + k] # "c"
        BY <2>1, <3>1
      <3>3. o + k < o + j /\ o + j < o + k + WidthOf(d[k])
        BY <3>1
      <3> QED
        BY <3>2, <3>3
    <2> QED
      BY <1>5, <2>1, <2>2
  <1>8. ASSUME NEW k \in 1..Len(d), d[k] = "c"
        PROVE  \E j \in 1..k - 1 : d[j] # "c" /\ j + WidthOf(d[j]) > k
    <2>1. o + k \in DOMAIN t /\ t[o + k] = "c" /\ o + 1 \in DOMAIN t /\ t[o + 1] # "c"
      BY <1>1, <1>2, <1>8
    <2>2. PICK j \in 1..o + k - 1 : t[j] # "c" /\ j + WidthOf(t[j]) > o + k
      BY <1>5, <2>1 DEF Continues
    <2>3. WidthOf(t[j]) \in 1..4 /\ j \in DOMAIN t
      BY <1>1, <2>1, <2>2, WidthIs
    <2>4. j > o
      <3>1. SUFFICES ASSUME j <= o PROVE FALSE
        BY <2>2
      <3>2. j < o + 1 /\ o + 1 < j + WidthOf(t[j])
        BY <1>1, <2>2, <2>3, <3>1
      <3> QED
        BY <1>5, <2>1, <2>2, <2>3, <3>2
    <2>5. j - o \in 1..k - 1 /\ j - o \in 1..Len(d) /\ o + (j - o) = j
      BY <1>1, <2>2, <2>4
    <2>6. d[j - o] = t[j]
      BY <1>2, <2>5
    <2>7. d[j - o] # "c" /\ (j - o) + WidthOf(d[j - o]) > k
      <3>1. d[j - o] # "c" /\ WidthOf(d[j - o]) = WidthOf(t[j])
        BY <2>2, <2>6
      <3>2. WidthOf(t[j]) \in Nat /\ j + WidthOf(t[j]) > o + k
        BY <2>2, <2>3
      <3>3. (j - o) + WidthOf(t[j]) > k
        BY <3>2
      <3> QED
        BY <3>1, <3>3
    <2> QED
      BY <2>5, <2>7
  <1>9. ASSUME NEW n \in 0..Len(d), n = Len(d) \/ n < last,
               \A k \in 1..n : d[k] # "c" => k + WidthOf(d[k]) - 1 <= n
        PROVE  ValidUpto(d, n)
    <2>1. ASSUME NEW k \in 1..n, d[k] # "c"
          PROVE  \A j \in k + 1..k + WidthOf(d[k]) - 1 : d[j] = "c"
      <3> TAKE j \in k + 1..k + WidthOf(d[k]) - 1
      <3>1. k + WidthOf(d[k]) - 1 <= n /\ WidthOf(d[k]) \in 1..4 /\ k \in 1..Len(d)
        BY <1>1, <1>9, <1>w, <2>1
      <3>2. j \in 1..Len(d) /\ k < j /\ j < k + WidthOf(d[k])
        BY <1>1, <1>9, <2>1, <3>1
      <3> QED
        BY <1>7, <2>1, <3>1, <3>2
    <2>2. \A k \in 1..n : k \in 1..Len(d)
      BY <1>1
    <2> QED
      BY <1>8, <1>9, <2>1, <2>2 DEF ValidUpto
  <1>10. \A k \in 1..Len(d) : k < last /\ d[k] # "c" => k + WidthOf(d[k]) - 1 < last
    <2> SUFFICES ASSUME NEW k \in 1..Len(d), k < last, d[k] # "c", k + WidthOf(d[k]) - 1 >= last
                 PROVE  FALSE
      BY <1>1, <1>3, <1>w
    <2>1. last < k + WidthOf(d[k]) /\ last \in 1..Len(d)
      BY <1>1, <1>3, <1>w
    <2> QED
      BY <1>3, <1>7, <2>1
  <1>11. CASE last + WidthOf(d[last]) - 1 <= Len(d)
    <2>1. \A k \in 1..Len(d) : d[k] # "c" => k + WidthOf(d[k]) - 1 <= Len(d)
      <3> SUFFICES ASSUME NEW k \in 1..Len(d), d[k] # "c" PROVE k + WidthOf(d[k]) - 1 <= Len(d)
        OBVIOUS
      <3>1. k <= last
        BY <1>3
      <3>2. CASE k = last
        BY <1>11, <3>2
      <3>3. CASE k # last
        <4>1. k < last
          BY <1>3, <3>1, <3>3
        <4>2. k + WidthOf(d[k]) - 1 < last /\ WidthOf(d[k]) \in 1..4
          BY <1>10, <1>w, <4>1
        <4> QED
          BY <1>1, <1>3, <4>2
      <3> QED
        BY <3>2, <3>3
    <2>2. ValidUpto(d, Len(d))
      BY <1>1, <1>9, <2>1
    <2>3. Valid(d)
      <3>1. Upto(d, Len(d)) = d
        BY <1>1, UptoIs
      <3> QED
        BY <1>1, <2>2, <3>1, ValidUptoIs
    <2> QED
      BY <1>1, <1>6, <2>3 DEF TextLength
  <1>12. CASE last + WidthOf(d[last]) - 1 > Len(d)
    <2>1. d[last] \in {"2", "3", "4"} /\ Whole(d) = last - 1
      BY <1>1, <1>3, <1>4, <1>w, <1>12
    <2>2. last > 1
      <3>1. SUFFICES ASSUME last = 1 PROVE FALSE
        BY <1>3
      <3> QED
        BY <1>1, <1>12, <1>w, <3>1
    <2>3. ValidUpto(d, last - 1)
      <3>1. last - 1 \in 0..Len(d) /\ last - 1 < last
        BY <1>1, <1>3
      <3>2. \A k \in 1..last - 1 : d[k] # "c" => k + WidthOf(d[k]) - 1 <= last - 1
        <4> SUFFICES ASSUME NEW k \in 1..last - 1, d[k] # "c" PROVE k + WidthOf(d[k]) - 1 <= last - 1
          OBVIOUS
        <4>1. k \in 1..Len(d) /\ k < last
          BY <1>1, <1>3
        <4>2. k + WidthOf(d[k]) - 1 < last /\ WidthOf(d[k]) \in 1..4
          BY <1>10, <1>w, <4>1
        <4> QED
          BY <1>1, <1>3, <4>1, <4>2
      <3> QED
        BY <1>9, <3>1, <3>2
    <2>4. Valid(Upto(d, Whole(d)))
      BY <1>1, <1>4, <2>1, <2>3, ValidUptoIs
    <2> QED
      BY <1>1, <1>3, <1>6, <2>1, <2>2, <2>4 DEF TextLength
  <1> QED
    BY <1>1, <1>3, <1>w, <1>11, <1>12

-----------------------------------------------------------------------------
(* The window *)

LEMMA LimitIsPositive ==
  ASSUME NEW o \in 0..Half - 1, NEW l \in Asked
  PROVE  LimitOf(o, l) \in 1..Half - 1 /\ LimitOf(o, l) <= MaxBytes
PROOF
  <1>1. l \in Bare..Half - 1 /\ Chunk \in 1..Half - 1 /\ MaxBytes \in 1..Half - 1 /\ Half \in Nat
    BY ContentAssumption
  <1>2. (IF l > 0 THEN l ELSE Chunk) \in 1..Half - 1
    BY <1>1 DEF Bare
  <1> QED
    BY <1>1, <1>2, MinOfTwo DEF LimitOf

\* At most l bytes of the object that begin at o: what every answer gives.
IsPart(o, l, d) ==
  /\ d \in Seq(Byte) /\ Len(d) <= l
  /\ o + Len(d) < Half
  /\ \A j \in 1..Len(d) : o + j \in 1..Len(object) /\ d[j] = object[o + j]

LEMMA PartOfObject ==
  ASSUME object \in Seq(Byte), Len(object) < Half, Half \in Nat,
         NEW o \in 0..Half - 1, NEW l \in Nat, NEW end \in Nat,
         o <= end, end <= Len(object), end <= o + l
  PROVE  IsPart(o, l, SubSeq(object, o + 1, end))
PROOF
  <1> DEFINE d == SubSeq(object, o + 1, end)
  <1>1. Len(object) \in Nat /\ \A i \in o + 1..end : object[i] \in Byte
    OBVIOUS
  <1>2. /\ d \in Seq(Byte) /\ Len(d) = IF o + 1 <= end THEN end - (o + 1) + 1 ELSE 0
        /\ \A i \in 1..end - (o + 1) + 1 : d[i] = object[o + 1 + i - 1]
    BY <1>1, SubSeqProperties
  <1> HIDE DEF d
  <1>3. Len(d) = end - o /\ \A i \in 1..end - o : d[i] = object[o + i]
    BY <1>2
  <1>4. o + Len(d) = end
    BY <1>3
  <1>5. \A j \in 1..Len(d) : o + j \in 1..Len(object) /\ d[j] = object[o + j]
    BY <1>1, <1>3
  <1>6. Len(d) <= l /\ o + Len(d) < Half
    BY <1>1, <1>3, <1>4
  <1> QED
    BY <1>2, <1>5, <1>6 DEF d, IsPart

LEMMA EmptyPart ==
  ASSUME NEW o \in 0..Half - 1, NEW l \in Nat, Half \in Nat
  PROVE  IsPart(o, l, <<>>)
PROOF
  BY DEF IsPart

\* Cutting the window out of the whole object never slices backwards: if the sum
\* of offset and limit wraps around, nothing is read and the offset is beyond it.
LEMMA FullWindowFits ==
  ASSUME object \in Seq(Byte), Len(object) < Half, Half \in Nat \ {0},
         NEW o \in 0..Half - 1, NEW l \in 1..Half - 1
  PROVE  FullWindow(o, l).fits /\ IsPart(o, l, FullWindow(o, l).data)
PROOF
  <1> DEFINE n == Wrap(o + l + 1)
             size == Min({Max({n, 0}), Len(object)})
             buf == Upto(object, size)
  <1>1. n \in Int /\ Wrap(o + l) \in Int /\ Len(object) \in Nat
    BY DEF Wrap
  <1>2. size \in 0..Len(object) /\ (n <= 0 => size = 0) /\ (n > 0 => size <= n)
    <2> HIDE DEF n
    <2>1. Max({n, 0}) = IF n >= 0 THEN n ELSE 0
      BY <1>1, MaxOfTwo
    <2> DEFINE most == Max({n, 0})
    <2>2. most \in Nat /\ (n <= 0 => most = 0) /\ (n > 0 => most <= n)
      BY <1>1, <2>1
    <2> HIDE DEF most
    <2>3. Min({most, Len(object)}) = IF most <= Len(object) THEN most ELSE Len(object)
      BY <1>1, <2>2, MinOfTwo
    <2>4. size = Min({most, Len(object)})
      BY DEF most
    <2> HIDE DEF size
    <2> QED
      BY <1>1, <2>2, <2>3, <2>4
  <1>3. buf \in Seq(Byte) /\ Len(buf) = size
        /\ \A i \in 1..size : buf[i] = object[i]
    <2>1. \A i \in 1..size : object[i] \in Byte
      BY <1>2
    <2> HIDE DEF size
    <2> QED
      BY <1>2, <2>1, SubSeqProperties DEF Upto
  <1> HIDE DEF buf, size
  <1>4. CASE PastEnd(o, Len(buf))
    <2>1. FullWindow(o, l) = [data |-> <<>>, more |-> FALSE, named |-> TRUE, fits |-> TRUE]
      BY <1>4 DEF FullWindow, buf, size, n
    <2> QED
      BY <2>1, EmptyPart
  <1>5. CASE ~PastEnd(o, Len(buf))
    <2>1. o < size
      BY <1>2, <1>3, <1>5 DEF PastEnd
    <2>2. Wrap(o + l) = o + l
      BY <1>1, <1>2, <2>1 DEF n, Wrap
    <2> DEFINE end == Min({Wrap(o + l), Len(buf)})
    <2>3. end \in o + 1..size
      <3>1. end = IF Wrap(o + l) <= Len(buf) THEN Wrap(o + l) ELSE Len(buf)
        BY <1>1, <1>2, <1>3, MinOfTwo
      <3> HIDE DEF end
      <3> QED
        BY <1>2, <1>3, <2>1, <2>2, <3>1
    <2>4. SubSeq(buf, o + 1, end) = SubSeq(object, o + 1, end)
      <3>1. buf = SubSeq(object, 1, size)
        BY DEF buf, Upto
      <3> HIDE DEF end
      <3>2. size \in 1..Len(object) /\ 1 \in 1..Len(object)
        BY <1>1, <1>2, <2>1
      <3>3. o + 1 \in 1..size - 1 + 1 /\ end \in 1..size - 1 + 1
        BY <1>1, <1>2, <2>1, <2>3
      <3>4. SubSeq(SubSeq(object, 1, size), o + 1, end) = SubSeq(object, 1 + (o + 1) - 1, 1 + end - 1)
        BY <3>2, <3>3, SubSeqOfSubSeq
      <3> QED
        BY <1>1, <1>2, <2>3, <3>1, <3>4
    <2>5. o <= end /\ end \in Nat /\ end <= Len(object) /\ end <= o + l
      <3>1. end <= Wrap(o + l)
        <4>1. end = IF Wrap(o + l) <= Len(buf) THEN Wrap(o + l) ELSE Len(buf)
          BY <1>1, <1>2, <1>3, MinOfTwo
        <4> HIDE DEF end
        <4> QED
          BY <1>1, <1>2, <1>3, <4>1
      <3> HIDE DEF end
      <3> QED
        BY <1>1, <1>2, <2>2, <2>3, <3>1
    <2>6. /\ FullWindow(o, l).data = SubSeq(buf, o + 1, end)
          /\ FullWindow(o, l).fits = (o <= end)
      BY <1>5 DEF FullWindow, buf, size, n
    <2> HIDE DEF end
    <2>7. FullWindow(o, l).data = SubSeq(object, o + 1, end)
      BY <2>4, <2>6
    <2>8. FullWindow(o, l).fits
      BY <2>5, <2>6
    <2> QED
      BY <2>5, <2>7, <2>8, PartOfObject
  <1> QED
    BY <1>4, <1>5

LEMMA RangeWindowFits ==
  ASSUME object \in Seq(Byte), Len(object) < Half, Half \in Nat \ {0},
         NEW o \in 0..Half - 1, NEW l \in 1..Half - 1, NEW total \in BOOLEAN,
         o < Len(object), Wrap(o + l - 1) >= o
  PROVE  RangeWindow(o, l, total).fits /\ IsPart(o, l, RangeWindow(o, l, total).data)
PROOF
  <1> DEFINE end == Min({Wrap(o + l - 1) + 1, Len(object)})
  <1>1. Wrap(o + l - 1) \in Int /\ Len(object) \in Nat /\ Wrap(o + l - 1) <= o + l - 1
    BY DEF Wrap
  <1>2. end = IF Wrap(o + l - 1) + 1 <= Len(object) THEN Wrap(o + l - 1) + 1 ELSE Len(object)
    BY <1>1, MinOfTwo
  <1>3. RangeWindow(o, l, total).data = SubSeq(object, o + 1, end) /\ RangeWindow(o, l, total).fits
    BY DEF RangeWindow
  <1> HIDE DEF end
  <1>4. end \in Nat /\ o <= end /\ end <= Len(object) /\ end <= o + l
    BY <1>1, <1>2
  <1> QED
    BY <1>3, <1>4, PartOfObject

\* Whatever the store does with the range, the answer is the part of the object
\* that begins at the offset.
LEMMA AnswersFit ==
  ASSUME kind \in Kinds, object \in Object[kind], NEW o \in 0..Half - 1, NEW l \in 1..Half - 1,
         NEW got \in Answers(o, l)
  PROVE  got.fits /\ IsPart(o, l, got.data)
PROOF
  <1>1. object \in Seq(Byte) /\ Len(object) < Half /\ Half \in Nat \ {0}
    BY ContentAssumption
  <1>2. CASE got = FullWindow(o, l)
    BY <1>1, <1>2, FullWindowFits
  <1>3. ASSUME NEW total \in BOOLEAN, o < Len(object), Wrap(o + l - 1) >= o,
               got = RangeWindow(o, l, total)
        PROVE  got.fits /\ IsPart(o, l, got.data)
    BY <1>1, <1>3, RangeWindowFits
  <1>4. CASE got = NoWindow
    BY <1>1, <1>4, EmptyPart DEF NoWindow
  <1> QED
    BY <1>2, <1>3, <1>4 DEF Answers

-----------------------------------------------------------------------------
(* Windows that end between characters *)

\* A window has as much as was asked for and is there, and a store that does not
\* say that more follows, and names the total, has nothing more.
LEMMA AnswersReach ==
  ASSUME object \in Seq(Byte), Half \in Nat \ {0}, MaxBytes \in Nat, Len(object) + MaxBytes + 1 < Half,
         NEW o \in 0..Len(object), NEW l \in 1..MaxBytes, NEW got \in Answers(o, l)
  PROVE  /\ Len(got.data) = IF l <= Len(object) - o THEN l ELSE Len(object) - o
         /\ got.more \/ ~got.named \/ o + Len(got.data) = Len(object)
PROOF
  <1> DEFINE to == IF o + l <= Len(object) THEN o + l ELSE Len(object)
             d == SubSeq(object, o + 1, to)
  <1>1. /\ Len(object) \in Nat /\ to \in o..Len(object) /\ o + l \in Nat
        /\ Wrap(o + l) = o + l /\ Wrap(o + l + 1) = o + l + 1 /\ Wrap(o + l - 1) = o + l - 1
    BY DEF Wrap
  <1>2. Len(d) = to - o
    <2>1. \A i \in o + 1..to : object[i] \in Byte
      BY <1>1
    <2>2. Len(d) = IF o + 1 <= to THEN to - (o + 1) + 1 ELSE 0
      <3> HIDE DEF to
      <3> QED
        BY <1>1, <2>1, SubSeqProperties
    <2> HIDE DEF d, to
    <2> QED
      BY <1>1, <2>2
  <1>3. to - o = IF l <= Len(object) - o THEN l ELSE Len(object) - o
    BY <1>1
  <1>t. to = IF o + l <= Len(object) THEN o + l ELSE Len(object)
    OBVIOUS
  <1>d. d = SubSeq(object, o + 1, to)
    OBVIOUS
  <1> HIDE DEF to, d
  <1>4. CASE got = FullWindow(o, l)
    <2> DEFINE size == Min({Max({Wrap(o + l + 1), 0}), Len(object)})
               buf == Upto(object, size)
    <2>1. size = IF o + l + 1 <= Len(object) THEN o + l + 1 ELSE Len(object)
      <3>1. Max({o + l + 1, 0}) = o + l + 1
        BY <1>1, MaxOfTwo
      <3>2. Min({o + l + 1, Len(object)}) = IF o + l + 1 <= Len(object) THEN o + l + 1 ELSE Len(object)
        <4> DEFINE x == o + l + 1
                   y == Len(object)
        <4>1. x \in Int /\ y \in Int
          BY <1>1
        <4> HIDE DEF x, y
        <4>2. Min({x, y}) = IF x <= y THEN x ELSE y
          BY <4>1, MinOfTwo
        <4> QED
          BY <4>2 DEF x, y
      <3> QED
        BY <1>1, <3>1, <3>2
    <2> HIDE DEF size
    <2>2. size \in 0..Len(object) /\ buf \in Seq(Byte) /\ Len(buf) = size
      BY <1>1, <2>1, UptoIs
    <2>b. buf = SubSeq(object, 1, size)
      BY DEF Upto
    <2> HIDE DEF buf
    <2>3. CASE o >= size
      <3>1. o = Len(object)
        BY <1>1, <2>1, <2>3
      <3>2. got.data = <<>>
        BY <1>4, <2>2, <2>3 DEF FullWindow, PastEnd, buf, size
      <3> QED
        BY <1>1, <3>1, <3>2
    <2>4. CASE o < size
      <3>1. Min({Wrap(o + l), Len(buf)}) = to
        <4>1. Min({o + l, size}) = IF o + l <= size THEN o + l ELSE size
          BY <1>1, <2>2, MinOfTwo
        <4>2. (IF o + l <= size THEN o + l ELSE size) = to
          BY <1>1, <1>t, <2>1, <2>2
        <4> QED
          BY <1>1, <2>2, <4>1, <4>2
      <3>2. ~PastEnd(o, Len(buf))
        BY <2>2, <2>4 DEF PastEnd
      <3>3. got.data = SubSeq(buf, o + 1, to) /\ got.more = (Len(buf) > Wrap(o + l))
        BY <1>4, <3>1, <3>2 DEF FullWindow, buf, size
      <3>4. SubSeq(buf, o + 1, to) = d
        <4>1. size \in 1..Len(object) /\ 1 \in 1..Len(object) /\ to <= size /\ o + 1 <= to
          BY <1>1, <1>t, <2>1, <2>4
        <4>2. o + 1 \in 1..size - 1 + 1 /\ to \in 1..size - 1 + 1
          BY <1>1, <2>2, <4>1
        <4>3. SubSeq(SubSeq(object, 1, size), o + 1, to) = SubSeq(object, 1 + (o + 1) - 1, 1 + to - 1)
          BY <4>1, <4>2, SubSeqOfSubSeq
        <4>4. 1 + (o + 1) - 1 = o + 1 /\ 1 + to - 1 = to
          BY <1>1
        <4> QED
          BY <1>d, <2>b, <4>3, <4>4
      <3>5. got.more \/ to = Len(object)
        <4>1. size > o + l \/ to = Len(object)
          BY <1>1, <1>t, <2>1
        <4>2. Len(buf) = size /\ Wrap(o + l) = o + l
          BY <1>1, <2>2
        <4>3. got.more = (size > o + l)
          BY <3>3, <4>2, Zenon
        <4> QED
          BY <4>1, <4>3
      <3>6. got.data = d
        BY <3>3, <3>4, Zenon
      <3> QED
        BY <1>1, <1>2, <1>3, <3>5, <3>6
    <2> QED
      BY <1>1, <2>2, <2>3, <2>4
  <1>5. ASSUME NEW total \in BOOLEAN, o < Len(object), got = RangeWindow(o, l, total)
        PROVE  /\ Len(got.data) = IF l <= Len(object) - o THEN l ELSE Len(object) - o
               /\ got.more \/ ~got.named \/ o + Len(got.data) = Len(object)
    <2>1. Min({Wrap(o + l - 1) + 1, Len(object)}) = to
      <3>1. Min({o + l, Len(object)}) = to
        BY <1>1, <1>t, MinOfTwo
      <3>2. Wrap(o + l - 1) + 1 = o + l
        BY <1>1
      <3> QED
        BY <3>1, <3>2
    <2>2. got.data = d /\ got.named = total /\ got.more = (total /\ Wrap(o + Len(d)) < Len(object))
      BY <1>5, <1>d, <2>1 DEF RangeWindow
    <2>3. Wrap(o + Len(d)) = to /\ o + Len(d) = to
      BY <1>1, <1>2 DEF Wrap
    <2> QED
      BY <1>1, <1>2, <1>3, <2>2, <2>3
  <1>6. CASE got = NoWindow /\ ~(o < Len(object) /\ Wrap(o + l - 1) >= o)
    <2>1. o = Len(object) /\ got.data = <<>>
      BY <1>1, <1>6 DEF NoWindow
    <2> QED
      BY <1>1, <2>1
  <1> QED
    BY <1>4, <1>5, <1>6 DEF Answers

-----------------------------------------------------------------------------
(* The invariant *)

LEMMA WindowsInit == Init => WindowsInv
PROOF
  <1> SUFFICES ASSUME Init PROVE WindowsInv
    OBVIOUS
  <1>1. kind \in Kinds /\ object \in Object[kind] /\ asked \in Asked /\ offset \in 0..Half - 1
    <2>1. kind \in Kinds /\ object \in Object[kind] /\ asked \in Asked
      BY DEF Init
    <2>2. offset \in {0} \cup Sentinel
      BY DEF Init
    <2>3. Half \in Nat \ {0} /\ Sentinel \subseteq 0..Half - 1
      BY ContentAssumption
    <2> QED
      BY <2>1, <2>2, <2>3
  <1>2. at # "panicked" /\ (at # "down" => ~StartFails(env))
    BY DEF Init
  <1>3. pages = <<>> /\ pages \in Seq(Page) /\ at # "panicked"
    <2>1. pages = <<>>
      BY DEF Init
    <2>2. <<>> \in Seq(Page)
      OBVIOUS
    <2> QED
      BY <1>2, <2>1, <2>2
  <1>4. WindowsTile /\ InBounds
    BY <1>3 DEF WindowsTile, InBounds
  <1>5. DisabledOnlyUnnamed
    BY DEF Init, DisabledOnlyUnnamed
  <1> QED
    BY <1>1, <1>2, <1>3, <1>4, <1>5 DEF WindowsInv

\* A part stays one when it is shortened.
LEMMA ShortenedPart ==
  ASSUME Half \in Nat, Len(object) \in Nat,
         NEW o \in 0..Half - 1, NEW l \in Nat, NEW s, IsPart(o, l, s), NEW n \in 0..Len(s)
  PROVE  IsPart(o, l, Upto(s, n)) /\ Len(Upto(s, n)) = n /\ o + n \in 0..Half - 1
PROOF
  <1>1. s \in Seq(Byte) /\ Len(s) \in Nat /\ Len(s) <= l /\ o + Len(s) < Half
        /\ \A j \in 1..Len(s) : o + j \in 1..Len(object) /\ s[j] = object[o + j]
    BY DEF IsPart
  <1>2. \A i \in 1..n : s[i] \in Byte
    BY <1>1
  <1>3. /\ Upto(s, n) \in Seq(Byte) /\ Len(Upto(s, n)) = n
        /\ \A i \in 1..n : Upto(s, n)[i] = s[i]
    <2>1. /\ SubSeq(s, 1, n) \in Seq(Byte)
          /\ Len(SubSeq(s, 1, n)) = IF 1 <= n THEN n - 1 + 1 ELSE 0
          /\ \A i \in 1..n - 1 + 1 : SubSeq(s, 1, n)[i] = s[1 + i - 1]
      BY <1>2, SubSeqProperties
    <2> QED
      BY <1>1, <2>1 DEF Upto
  <1> DEFINE d == Upto(s, n)
  <1> HIDE DEF d
  <1>4. d \in Seq(Byte) /\ Len(d) = n /\ \A i \in 1..n : d[i] = s[i]
    BY <1>3 DEF d
  <1>5. n <= l /\ o + n < Half /\ o + n \in 0..Half - 1
    BY <1>1
  <1>6. \A j \in 1..n : o + j \in 1..Len(object) /\ d[j] = object[o + j]
    <2> TAKE j \in 1..n
    <2>1. j \in 1..Len(s) /\ d[j] = s[j]
      BY <1>1, <1>4
    <2> QED
      BY <1>1, <2>1
  <1>7. IsPart(o, l, d)
    BY <1>4, <1>5, <1>6 DEF IsPart
  <1> QED
    BY <1>4, <1>5, <1>7 DEF d

LEMMA WindowsRead == WindowsInv /\ Read => WindowsInv'
PROOF
  <1> SUFFICES ASSUME WindowsInv, Read PROVE WindowsInv'
    OBVIOUS
  <1> DEFINE limit == LimitOf(offset, asked)
  <1>1. /\ kind \in Kinds /\ object \in Object[kind] /\ object \in Seq(Byte) /\ Half \in Nat \ {0}
        /\ offset \in 0..Half - 1 /\ limit \in 1..Half - 1 /\ limit <= MaxBytes /\ MaxBytes \in Nat
    <2>1. kind \in Kinds /\ object \in Object[kind] /\ asked \in Asked /\ offset \in 0..Half - 1
      BY DEF WindowsInv
    <2>2. object \in Seq(Byte) /\ Half \in Nat \ {0} /\ MaxBytes \in 1..Half - 1
      BY <2>1, ContentAssumption
    <2>3. limit \in 1..Half - 1 /\ limit <= MaxBytes
      BY <2>1, LimitIsPositive
    <2> HIDE DEF limit
    <2>4. MaxBytes \in Nat
      BY <2>2
    <2> QED
      BY <2>1, <2>2, <2>3, <2>4
  <1>2. PICK got \in Answers(offset, limit) :
          LET n == Returned(got.data)
              page == [from |-> offset, data |-> Upto(got.data, n),
                       text |-> got.data = <<>> \/ TextLength(got.data) > 0]
          IN IF got.fits
             THEN /\ pages' = Append(pages, page)
                  /\ offset' = offset + n
                  /\ named' = got.named
                  /\ at' = IF Clipped(offset, got) /\ n > 0 THEN "reading" ELSE "end"
             ELSE at' = "panicked" /\ UNCHANGED <<pages, named, offset>>
    BY DEF Read
  <1> HIDE DEF limit
  <1>3. got.fits /\ IsPart(offset, limit, got.data)
    BY <1>1, AnswersFit
  <1> DEFINE n == Returned(got.data)
             d == Upto(got.data, n)
             page == [from |-> offset, data |-> d,
                      text |-> got.data = <<>> \/ TextLength(got.data) > 0]
  <1>4. n \in 0..Len(got.data)
    BY <1>3, ReturnedIsPrefix DEF IsPart
  <1>5. /\ d \in Seq(Byte) /\ Len(d) = n /\ offset + n \in 0..Half - 1 /\ Len(d) <= MaxBytes
        /\ \A j \in DOMAIN d : offset + j \in DOMAIN object /\ d[j] = object[offset + j]
    <2>1. IsPart(offset, limit, d) /\ Len(d) = n /\ offset + n \in 0..Half - 1
      BY <1>1, <1>3, <1>4, ShortenedPart
    <2> HIDE DEF d, n
    <2> QED
      BY <1>1, <2>1 DEF IsPart
  <1>6. pages' = Append(pages, page) /\ offset' = offset + n /\ at' # "panicked"
    BY <1>2, <1>3
  <1>7. UNCHANGED <<env, kind, object, loc, asked, reason>>
    BY DEF Read, request
  <1>8. page \in Page /\ page.from = offset /\ page.data = d
    <2>1. offset \in Nat /\ d \in Seq(Byte)
      BY <1>1, <1>5
    <2>2. (got.data = <<>> \/ TextLength(got.data) > 0) \in BOOLEAN
      OBVIOUS
    <2> HIDE DEF d
    <2> QED
      BY <2>1, <2>2 DEF Page
  <1> HIDE DEF n, d, page
  <1>9. pages \in Seq(Page) /\ WindowsTile
    BY DEF WindowsInv
  <1>10. pages' \in Seq(Page)
    BY <1>6, <1>8, <1>9
  <1>11. WindowsTile'
    <2> SUFFICES ASSUME NEW k \in DOMAIN pages'
                 PROVE  /\ \A j \in DOMAIN pages'[k].data :
                             /\ pages'[k].from + j \in DOMAIN object
                             /\ pages'[k].data[j] = object[pages'[k].from + j]
                        /\ (IF k = Len(pages') THEN offset' ELSE pages'[k + 1].from)
                             = pages'[k].from + Len(pages'[k].data)
      BY <1>7 DEF WindowsTile
    <2>1. Len(pages) \in Nat /\ DOMAIN pages = 1..Len(pages) /\ Len(pages') = Len(pages) + 1
          /\ DOMAIN pages' = 1..Len(pages) + 1
          /\ pages'[Len(pages) + 1] = page /\ \A j \in 1..Len(pages) : pages'[j] = pages[j]
      BY <1>6, <1>8, <1>9
    <2>2. CASE k = Len(pages) + 1
      BY <1>5, <1>6, <1>8, <2>1, <2>2
    <2>3. CASE k \in 1..Len(pages)
      <3>1. /\ \A j \in DOMAIN pages[k].data :
                 pages[k].from + j \in DOMAIN object /\ pages[k].data[j] = object[pages[k].from + j]
            /\ (IF k = Len(pages) THEN offset ELSE pages[k + 1].from)
                 = pages[k].from + Len(pages[k].data)
        BY <1>9, <2>1, <2>3 DEF WindowsTile
      <3>2. pages'[k + 1].from = IF k = Len(pages) THEN offset ELSE pages[k + 1].from
        BY <1>8, <2>1, <2>3
      <3> QED
        BY <2>1, <2>3, <3>1, <3>2
    <2> QED
      BY <2>1, <2>2, <2>3
  <1>12. \A k \in DOMAIN pages' : Len(pages'[k].data) <= MaxBytes
    <2>1. \A k \in DOMAIN pages : Len(pages[k].data) <= MaxBytes
      BY DEF WindowsInv, InBounds
    <2> QED
      BY <1>5, <1>6, <1>8, <1>9, <2>1
  <1>13. ~StartFails(env)
    BY DEF Read, WindowsInv
  <1>14. StartFails(env)' = StartFails(env)
    BY <1>7 DEF StartFails, Credentials, BadNumber
  <1>15. DisabledOnlyUnnamed'
    BY <1>7 DEF WindowsInv, DisabledOnlyUnnamed
  <1>16. InBounds'
    BY <1>6, <1>12 DEF InBounds
  <1> QED
    BY <1>1, <1>5, <1>6, <1>7, <1>10, <1>11, <1>13, <1>14, <1>15, <1>16 DEF WindowsInv

\* What is refused as disabled has no bucket, or there is no archive.
LEMMA RefusedForCause ==
  ASSUME WindowsInv, Refuse
  PROVE  DisabledOnlyUnnamed'
PROOF
  <1>1. CASE Reason = "store_disabled"
    <2>1. Disabled(env, kind) /\ at = "reading"
      BY <1>1 DEF Reason, Refuse
    <2>2. ~StartFails(env) /\ kind \in Kinds
      BY <2>1 DEF WindowsInv
    <2>3. ~env.endpoint \/ kind \notin env.buckets
      BY <2>1, <2>2 DEF Disabled, ArchiveEnabled, StartFails
    <2> QED
      BY <2>3 DEF Refuse, request, DisabledOnlyUnnamed
  <1>2. CASE Reason # "store_disabled"
    BY <1>2 DEF Refuse, DisabledOnlyUnnamed
  <1> QED
    BY <1>1, <1>2

LEMMA WindowsNext == WindowsInv /\ [Next]_vars => WindowsInv'
PROOF
  <1> SUFFICES ASSUME WindowsInv, [Next]_vars PROVE WindowsInv'
    OBVIOUS
  <1>1. CASE Read
    BY <1>1, WindowsRead
  <1>2. CASE Refuse
    BY <1>2, RefusedForCause DEF Refuse, WindowsInv, WindowsTile, InBounds, request
  <1>3. CASE Disappear
    BY <1>3 DEF Disappear, WindowsInv, WindowsTile, InBounds, DisabledOnlyUnnamed, request
  <1>4. CASE UNCHANGED vars
    BY <1>4 DEF vars, WindowsInv, WindowsTile, InBounds, DisabledOnlyUnnamed, request
  <1> QED
    BY <1>1, <1>2, <1>3, <1>4 DEF Next

-----------------------------------------------------------------------------
(* Between characters *)

CharactersInv == StaysBetween /\ NoneMissed /\ TextStaysText

LEMMA CharactersInit == Init => CharactersInv
PROOF
  <1> SUFFICES ASSUME Init PROVE CharactersInv
    OBVIOUS
  <1>1. pages = <<>> /\ loc \in Locators(Len(object)) /\ at # "end"
    BY DEF Init
  <1>2. DOMAIN pages = {}
    BY <1>1
  <1> QED
    BY <1>1, <1>2 DEF CharactersInv, StaysBetween, NoneMissed, TextStaysText

\* Limits that have room for a character have it at every offset.
LEMMA RoomyLimits ==
  ASSUME NEW o \in Nat, NEW w \in Nat, w <= LimitOf(0, asked), w <= LimitOf(1, asked)
  PROVE  w <= LimitOf(o, asked)
PROOF
  <1>1. CASE o = 0
    BY <1>1
  <1>2. CASE o # 0
    <2>1. LimitOf(o, asked) = LimitOf(1, asked)
      BY <1>2 DEF LimitOf
    <2> QED
      BY <2>1
  <1> QED
    BY <1>1, <1>2

\* What the next window shows: the part of the object at the offset, of a body the
\* text in it, and whether the reader goes on.
Shown(d, got) ==
  /\ got \in Answers(offset, LimitOf(offset, asked)) /\ d = got.data
  /\ pages' = Append(pages, [from |-> offset, data |-> Upto(d, Returned(d)),
                             text |-> d = <<>> \/ TextLength(d) > 0])
  /\ offset' = offset + Returned(d)
  /\ named' = got.named
  /\ at' = IF Clipped(offset, got) /\ Returned(d) > 0 THEN "reading" ELSE "end"

LEMMA ReadShows ==
  ASSUME WindowsInv, Read
  PROVE  /\ \E got \in Answers(offset, LimitOf(offset, asked)) : Shown(got.data, got)
         /\ UNCHANGED <<env, kind, object, loc, asked>>
PROOF
  <1>1. kind \in Kinds /\ object \in Object[kind] /\ offset \in 0..Half - 1
        /\ LimitOf(offset, asked) \in 1..Half - 1
    BY LimitIsPositive DEF WindowsInv
  <1>2. \A got \in Answers(offset, LimitOf(offset, asked)) : got.fits
    BY <1>1, AnswersFit
  <1> QED
    BY <1>2 DEF Read, Shown, request

\* The window of a reader who stays in the object.
WindowAt(d, got) ==
  /\ d \in Seq(Byte) /\ PartOf(object, offset, d)
  /\ Len(d) = IF LimitOf(offset, asked) <= Len(object) - offset
              THEN LimitOf(offset, asked) ELSE Len(object) - offset
  /\ got.more \/ ~got.named \/ offset + Len(d) = Len(object)
  /\ Returned(d) \in 0..Len(d)
  /\ d # <<>> => Returned(d) > 0

LEMMA WindowIs ==
  ASSUME WindowsInv, offset <= Len(object), NEW got \in Answers(offset, LimitOf(offset, asked))
  PROVE  WindowAt(got.data, got)
PROOF
  <1> DEFINE l == LimitOf(offset, asked)
             d == got.data
  <1>1. /\ kind \in Kinds /\ object \in Object[kind] /\ object \in Seq(Byte) /\ Half \in Nat \ {0}
        /\ offset \in 0..Half - 1 /\ MaxBytes \in Nat /\ Len(object) + MaxBytes + 1 < Half
    BY ContentAssumption, RoomAssumption DEF WindowsInv
  <1>2. l \in 1..Half - 1 /\ l <= MaxBytes
    BY <1>1, LimitIsPositive DEF WindowsInv
  <1>3. offset \in 0..Len(object) /\ l \in 1..MaxBytes
    BY <1>1, <1>2
  <1>4. got \in Answers(offset, l)
    OBVIOUS
  <1> HIDE DEF l
  <1>5. IsPart(offset, l, d)
    BY <1>1, <1>2, <1>4, AnswersFit
  <1>6. /\ Len(d) = IF l <= Len(object) - offset THEN l ELSE Len(object) - offset
        /\ got.more \/ ~got.named \/ offset + Len(d) = Len(object)
    BY <1>1, <1>3, <1>4, AnswersReach
  <1>7. d \in Seq(Byte) /\ PartOf(object, offset, d)
    BY <1>5 DEF IsPart, PartOf
  <1> HIDE DEF d
  <1>8. Returned(d) \in 0..Len(d)
    BY <1>7, ReturnedIsPrefix
  <1>9. ASSUME d # <<>> PROVE Returned(d) > 0
    <2>1. Len(d) > 0
      BY <1>7, <1>9
    <2> QED
      BY <2>1 DEF Returned
  <1> QED
    BY <1>6, <1>7, <1>8, <1>9 DEF WindowAt, l, d

\* A reader who is told that the end is reached was shown all but a character that
\* is cut off.
LEMMA EndReached ==
  ASSUME WindowsInv, StaysBetween, offset <= Len(object), NEW got, WindowAt(got.data, got),
         ~(Clipped(offset, got) /\ Returned(got.data) > 0), loc.size > 0 \/ got.named,
         kind = "body" => Continues(object),
         NEW k \in offset + Returned(got.data) + 1..Len(object), object[k] # "c"
  PROVE  k + WidthOf(object[k]) - 1 > Len(object)
PROOF
  <1> DEFINE d == got.data
             n == Returned(d)
  <1>1. /\ object \in Seq(Byte) /\ Half \in Nat \ {0} /\ Len(object) \in Nat /\ Len(object) < Half
        /\ offset \in 0..Half - 1
    BY ContentAssumption DEF WindowsInv
  <1>2. /\ d \in Seq(Byte) /\ PartOf(object, offset, d) /\ Len(d) \in Nat
        /\ Len(d) = IF LimitOf(offset, asked) <= Len(object) - offset
                    THEN LimitOf(offset, asked) ELSE Len(object) - offset
        /\ got.more \/ ~got.named \/ offset + Len(d) = Len(object)
        /\ n \in 0..Len(d) /\ (d # <<>> => n > 0)
    BY DEF WindowAt
  <1>3. loc.size \in {0, Len(object)}
    BY DEF StaysBetween, Locators
  <1>4. LimitOf(offset, asked) \in 1..Half - 1
    BY <1>1, LimitIsPositive DEF WindowsInv
  <1> HIDE DEF d, n
  <1>5. k \in offset + n + 1..Len(object)
    BY DEF n, d
  <1>6. ~Clipped(offset, got) \/ n = 0
    BY <1>2 DEF n, d
  <1>7. offset + Len(d) = Len(object)
    <2>1. CASE n = 0
      <3>1. Len(d) = 0
        BY <1>2, <2>1
      <3> QED
        BY <1>1, <1>2, <1>4, <3>1
    <2>2. CASE ~Clipped(offset, got)
      <3>1. ~got.more /\ ~(loc.size > 0 /\ Wrap(offset + Len(d)) < loc.size)
        BY <2>2 DEF Clipped, d
      <3>2. offset + Len(d) <= Len(object) /\ Wrap(offset + Len(d)) = offset + Len(d)
        BY <1>1, <1>2, <1>4 DEF Wrap
      <3> QED
        BY <1>1, <1>2, <1>3, <3>1, <3>2
    <2> QED
      BY <1>6, <2>1, <2>2
  <1>8. kind = "body" /\ TextLength(d) > 0 /\ n = TextLength(d)
    <2>1. SUFFICES ASSUME ~(kind = "body" /\ TextLength(d) > 0) PROVE FALSE
      BY DEF n, Returned
    <2>2. n = Len(d)
      BY <2>1 DEF n, Returned
    <2> QED
      BY <1>1, <1>2, <1>5, <1>7, <2>2
  <1>9. Continues(object) /\ k \in offset + TextLength(d) + 1..Len(object)
    BY <1>5, <1>8
  <1>10. offset \in Nat
    BY <1>1
  <1> QED
    BY <1>1, <1>2, <1>7, <1>8, <1>9, <1>10, NothingCutOff

\* A reader of a text who stands between two characters is shown text, unless the
\* text ends in the next one, and comes to stand between two.
LEMMA TextShown ==
  ASSUME WindowsInv, offset <= Len(object), NEW d, NEW got, WindowAt(d, got),
         RoomyText, Boundary(offset)
  PROVE  /\ Boundary(offset + Returned(d))
         /\ d = <<>> \/ TextLength(d) > 0 \/ offset + WidthOf(object[offset + 1]) > Len(object)
PROOF
  <1> DEFINE n == Returned(d)
             l == LimitOf(offset, asked)
  <1>1. /\ object \in Seq(Byte) /\ Len(object) \in Nat /\ offset \in Nat
        /\ IsText(object) /\ kind = "body"
    BY ContentAssumption DEF WindowsInv, RoomyText
  <1>2. l \in Nat \ {0} /\ (offset < Len(object) => WidthOf(object[offset + 1]) <= l)
    <2>1. asked \in Asked /\ offset \in 0..Half - 1
      BY DEF WindowsInv
    <2>2. l \in 1..Half - 1
      BY <2>1, LimitIsPositive
    <2>3. ASSUME offset < Len(object) PROVE WidthOf(object[offset + 1]) <= l
      <3>1. offset + 1 \in DOMAIN object
        BY <1>1, <2>3
      <3>2. WidthOf(object[offset + 1]) \in Nat
        BY WidthIs
      <3>3. WidthOf(object[offset + 1]) <= LimitOf(0, asked) /\ WidthOf(object[offset + 1]) <= LimitOf(1, asked)
        BY <3>1 DEF RoomyText
      <3> QED
        BY <1>1, <3>2, <3>3, RoomyLimits
    <2> HIDE DEF l
    <2> QED
      BY <2>2, <2>3
  <1>3. /\ d \in Seq(Byte) /\ PartOf(object, offset, d) /\ Len(d) \in Nat
        /\ Len(d) = IF l <= Len(object) - offset THEN l ELSE Len(object) - offset
        /\ n \in 0..Len(d)
    BY DEF WindowAt
  <1>n. n = IF TextLength(d) > 0 THEN TextLength(d) ELSE Len(d)
    BY <1>1 DEF Returned
  <1> HIDE DEF n, l
  <1>4. CASE offset = Len(object)
    <2>1. Len(d) = 0
      BY <1>1, <1>2, <1>3, <1>4
    <2>2. d = <<>> /\ n = 0
      BY <1>3, <2>1
    <2>3. offset + n = offset
      BY <1>1, <2>2
    <2> QED
      BY <2>2, <2>3 DEF n
  <1>5. CASE offset < Len(object)
    <2>1. object[offset + 1] # "c"
      BY <1>1, <1>5 DEF Boundary
    <2>2. Len(d) > 0
      BY <1>1, <1>2, <1>3, <1>5
    <2>3. d[1] = object[offset + 1]
      BY <1>3, <2>2 DEF PartOf
    <2>4. CASE TextLength(d) > 0
      <3>1. ValidUpto(d, n) /\ n \in 0..Len(d)
        BY <1>3, <1>n, <2>4, TextIs
      <3>2. offset + n < Len(object) => object[offset + n + 1] # "c"
        BY <1>1, <1>3, <1>5, <2>1, <3>1, EndsBetween
      <3>3. offset + n <= Len(object)
        BY <1>1, <1>3
      <3>4. Boundary(offset + n)
        BY <1>1, <1>3, <3>2, <3>3 DEF Boundary
      <3> QED
        BY <2>4, <3>4 DEF n
    <2>5. CASE ~(TextLength(d) > 0)
      <3>1. WidthOf(d[1]) > Len(d)
        <4>1. SUFFICES ASSUME WidthOf(d[1]) <= Len(d) PROVE FALSE
          BY <1>3, WidthIs
        <4> QED
          BY <1>1, <1>3, <2>1, <2>2, <2>3, <2>5, <4>1, HasText
      <3>2. WidthOf(d[1]) \in 1..4
        BY WidthIs
      <3>3. Len(d) = Len(object) - offset /\ n = Len(d)
        BY <1>1, <1>2, <1>3, <1>5, <1>n, <2>3, <2>5, <3>1, <3>2
      <3>4. offset + n = Len(object) /\ offset + WidthOf(d[1]) > Len(object)
        BY <1>1, <1>3, <3>1, <3>2, <3>3
      <3> QED
        BY <2>3, <3>4 DEF Boundary, n
    <2> QED
      BY <2>4, <2>5
  <1> QED
    BY <1>1, <1>4, <1>5

LEMMA CharactersRead ==
  ASSUME WindowsInv, CharactersInv, Read
  PROVE  CharactersInv'
PROOF
  <1>1. PICK got \in Answers(offset, LimitOf(offset, asked)) : Shown(got.data, got)
    BY ReadShows
  <1>2. UNCHANGED <<env, kind, object, loc, asked>>
    BY ReadShows
  <1> DEFINE d == got.data
             page == [from |-> offset, data |-> Upto(d, Returned(d)),
                      text |-> d = <<>> \/ TextLength(d) > 0]
  <1>3. /\ pages' = Append(pages, page) /\ page.from = offset
        /\ page.text = (d = <<>> \/ TextLength(d) > 0)
        /\ offset' = offset + Returned(d) /\ named' = got.named
        /\ at' = IF Clipped(offset, got) /\ Returned(d) > 0 THEN "reading" ELSE "end"
    BY <1>1 DEF Shown
  <1> HIDE DEF page
  <1>4. /\ pages \in Seq(Page) /\ offset \in Nat /\ object \in Seq(Byte) /\ Len(object) \in Nat
    BY ContentAssumption DEF WindowsInv
  <1>5. StaysBetween /\ NoneMissed /\ TextStaysText
    BY DEF CharactersInv
  <1>6. /\ DOMAIN pages' = 1..Len(pages) + 1 /\ Len(pages) \in Nat /\ pages' # <<>>
        /\ pages'[Len(pages) + 1] = page
        /\ \A k \in 1..Len(pages) : pages'[k] = pages[k]
    <2>1. Len(Append(pages, page)) = Len(pages) + 1
      BY <1>4
    <2> QED
      BY <1>3, <1>4
  <1>7. IF pages = <<>> THEN pages'[1] = page ELSE pages'[1] = pages[1]
    BY <1>4, <1>6
  <1>8. pages'[1].from <= Len(object) => offset <= Len(object)
    BY <1>3, <1>5, <1>7 DEF StaysBetween
  <1>9. RoomyText /\ Boundary(pages'[1].from) => Boundary(offset)
    BY <1>3, <1>5, <1>7 DEF StaysBetween
  <1>10. ASSUME offset <= Len(object) PROVE WindowAt(d, got)
    BY <1>10, WindowIs
  <1>11. UNCHANGED <<RoomyText, Continues(object)>> /\ \A o : Boundary(o)' = Boundary(o)
    BY <1>2 DEF RoomyText, LimitOf, IsText, Continues, Boundary
  <1> HIDE DEF d
  <1>12. StaysBetween'
    <2>1. ASSUME offset <= Len(object) PROVE offset' <= Len(object)
      <3>1. Returned(d) \in 0..Len(d) /\ d \in Seq(Byte)
            /\ Len(d) = IF LimitOf(offset, asked) <= Len(object) - offset
                        THEN LimitOf(offset, asked) ELSE Len(object) - offset
        BY <1>10, <2>1 DEF WindowAt
      <3>2. Len(d) \in Nat
        BY <3>1
      <3>3. offset + Returned(d) <= Len(object)
        BY <1>4, <2>1, <3>1, <3>2
      <3> QED
        BY <1>3, <3>3
    <2>2. ASSUME RoomyText, Boundary(pages'[1].from) PROVE Boundary(offset')
      <3>1. Boundary(offset) /\ offset <= Len(object)
        BY <1>4, <1>9, <2>2 DEF Boundary
      <3>2. Boundary(offset + Returned(d))
        BY <1>10, <2>2, <3>1, TextShown
      <3> QED
        BY <1>3, <3>2
    <2>3. Boundary(pages[1].from)' <=> Boundary(pages'[1].from)
      BY <1>2 DEF Boundary
    <2>4. Boundary(offset)' <=> Boundary(offset')
      BY <1>2 DEF Boundary
    <2>5. (loc \in Locators(Len(object)))'
      BY <1>2, <1>5 DEF StaysBetween, Locators
    <2>6. (pages[1].from <= Len(object) => offset <= Len(object))'
      BY <1>2, <1>8, <2>1
    <2>7. (RoomyText /\ Boundary(pages[1].from) => Boundary(offset))'
      BY <1>11, <2>2, <2>3, <2>4
    <2> QED
      BY <2>5, <2>6, <2>7 DEF StaysBetween
  <1>13. NoneMissed'
    <2>1. SUFFICES ASSUME at' = "end", pages'[1].from < Len(object), loc.size > 0 \/ named',
                          kind = "body" => Continues(object),
                          NEW k \in offset' + 1..Len(object), object[k] # "c"
                   PROVE  k + WidthOf(object[k]) - 1 > Len(object)
      <3>1. \A k \in offset' + 1..Len(object) : Boundary(k - 1)' => object[k] # "c"
        <4> TAKE k \in offset' + 1..Len(object)
        <4>1. Boundary(k - 1)' <=> Boundary(k - 1)
          BY <1>2 DEF Boundary
        <4>2. Returned(d) \in Int \/ ~(offset <= Len(object))
          BY <1>10 DEF WindowAt
        <4>3. k \in Int /\ k <= Len(object)
          BY <1>4
        <4>4. (k - 1) + 1 = k /\ k - 1 # Len(object)
          BY <1>4, <4>3
        <4> QED
          BY <4>1, <4>4 DEF Boundary
      <3>2. (object' = object) /\ (loc' = loc) /\ (kind' = kind)
        BY <1>2
      <3> QED
        BY <1>11, <3>1, <3>2 DEF NoneMissed
    <2>2. pages'[1].from \in Int /\ offset <= Len(object)
      <3>1. pages'[1].from \in Nat
        <4>1. pages # <<>> => pages[1] \in Page
          BY <1>4
        <4>2. pages # <<>> => pages[1].from \in Nat
          BY <4>1 DEF Page
        <4> QED
          BY <1>3, <1>4, <1>7, <4>2
      <3> QED
        BY <1>4, <1>8, <2>1, <3>1
    <2>3. WindowAt(d, got) /\ ~(Clipped(offset, got) /\ Returned(d) > 0) /\ (loc.size > 0 \/ got.named)
      BY <1>3, <1>10, <2>1, <2>2
    <2>4. k \in offset + Returned(d) + 1..Len(object)
      BY <1>3
    <2> QED
      BY <1>5, <2>1, <2>2, <2>3, <2>4, EndReached DEF d
  <1>14. TextStaysText'
    <2>1. SUFFICES ASSUME RoomyText, NEW k \in DOMAIN pages', Boundary(pages'[1].from),
                          ~pages'[k].text
                   PROVE  pages'[k].from + WidthOf(object[pages'[k].from + 1]) > Len(object)
      <3>1. Boundary(pages[1].from)' <=> Boundary(pages'[1].from)
        BY <1>2 DEF Boundary
      <3>2. object' = object
        BY <1>2
      <3> QED
        BY <1>11, <3>1, <3>2 DEF TextStaysText
    <2>2. CASE k = Len(pages) + 1
      <3>1. Boundary(offset) /\ offset <= Len(object)
        BY <1>4, <1>9, <2>1 DEF Boundary
      <3>2. pages'[k].from = offset /\ ~(d = <<>> \/ TextLength(d) > 0)
        BY <1>3, <1>6, <2>1, <2>2
      <3>3. d = <<>> \/ TextLength(d) > 0 \/ offset + WidthOf(object[offset + 1]) > Len(object)
        BY <1>10, <2>1, <3>1, TextShown
      <3> QED
        BY <3>2, <3>3
    <2>3. CASE k \in 1..Len(pages)
      <3>1. pages'[k] = pages[k] /\ k \in DOMAIN pages /\ pages # <<>>
        BY <1>4, <1>6, <2>3
      <3>2. pages'[1] = pages[1]
        BY <1>7, <3>1
      <3> QED
        BY <1>5, <2>1, <3>1, <3>2 DEF TextStaysText
    <2> QED
      BY <1>6, <2>1, <2>2, <2>3
  <1> QED
    BY <1>12, <1>13, <1>14 DEF CharactersInv

LEMMA CharactersNext == WindowsInv /\ CharactersInv /\ [Next]_vars => CharactersInv'
PROOF
  <1> SUFFICES ASSUME WindowsInv, CharactersInv, [Next]_vars PROVE CharactersInv'
    OBVIOUS
  <1>1. CASE Read
    BY <1>1, CharactersRead
  <1>2. CASE at = "reading" /\ at' # "end" /\ UNCHANGED <<request, offset, pages, named>>
    <2>1. NoneMissed'
      BY <1>2 DEF NoneMissed
    <2> QED
      BY <1>2, <2>1 DEF CharactersInv, StaysBetween, TextStaysText, RoomyText, IsText, Continues,
                        LimitOf, Boundary, Locators, request
  <1>3. CASE UNCHANGED vars
    <2>1. UNCHANGED <<request, offset, pages, named>> /\ at' = at /\ UNCHANGED store /\ UNCHANGED reason
      BY <1>3 DEF vars
    <2>2. NoneMissed' <=> NoneMissed
      BY <2>1 DEF NoneMissed, Boundary, request
    <2>3. TextStaysText' <=> TextStaysText
      BY <2>1 DEF TextStaysText, RoomyText, IsText, Continues, LimitOf, Boundary, Locators, request
    <2>4. StaysBetween' <=> StaysBetween
      BY <2>1 DEF StaysBetween, RoomyText, IsText, Continues, LimitOf, Boundary, Locators, request
    <2> QED
      BY <2>1, <2>2, <2>3, <2>4 DEF CharactersInv, RoomyText, IsText, Continues, LimitOf, Locators, request
  <1> QED
    BY <1>1, <1>2, <1>3 DEF Next, Refuse, Disappear

LEMMA GoesOnInit == Init => GoesOn
PROOF
  <1> SUFFICES ASSUME Init PROVE GoesOn
    OBVIOUS
  <1>1. pages = <<>>
    BY DEF Init
  <1> QED
    BY <1>1 DEF GoesOn

LEMMA GoesOnNext == WindowsInv /\ GoesOn /\ [Next]_vars => GoesOn'
PROOF
  <1> SUFFICES ASSUME WindowsInv, GoesOn, [Next]_vars PROVE GoesOn'
    OBVIOUS
  <1>1. CASE Read
    <2>1. PICK got \in Answers(offset, LimitOf(offset, asked)) : Shown(got.data, got)
      BY <1>1, ReadShows
    <2> DEFINE n == Returned(got.data)
               page == [from |-> offset, data |-> Upto(got.data, n),
                        text |-> got.data = <<>> \/ TextLength(got.data) > 0]
    <2>2. /\ pages' = Append(pages, page) /\ page.from = offset /\ offset' = offset + n
          /\ at' = "reading" => n > 0
      BY <2>1 DEF Shown
    <2>3. at = "reading" /\ offset \in Nat /\ pages \in Seq(Page) /\ Len(pages) \in Nat
      <3>1. offset \in 0..Half - 1 /\ Half \in Nat /\ pages \in Seq(Page)
        BY ContentAssumption DEF WindowsInv
      <3>2. at = "reading"
        BY <1>1 DEF Read
      <3>3. offset \in Nat /\ Len(pages) \in Nat
        BY <3>1
      <3> QED
        BY <3>1, <3>2, <3>3
    <2>4. n \in Nat
      <3>1. kind \in Kinds /\ object \in Object[kind] /\ offset \in 0..Half - 1
            /\ LimitOf(offset, asked) \in 1..Half - 1
        BY LimitIsPositive DEF WindowsInv
      <3>2. IsPart(offset, LimitOf(offset, asked), got.data)
        BY <3>1, AnswersFit
      <3>3. got.data \in Seq(Byte)
        BY <3>2 DEF IsPart
      <3>4. Returned(got.data) \in 0..Len(got.data) /\ Len(got.data) \in Nat
        BY <3>3, ReturnedIsPrefix
      <3> QED
        BY <3>4
    <2> HIDE DEF n, page
    <2>5. /\ Len(pages') = Len(pages) + 1 /\ pages'[Len(pages) + 1] = page
          /\ \A k \in 1..Len(pages) : pages'[k] = pages[k]
      BY <2>2, <2>3
    <2>6. ASSUME NEW w \in 2..Len(pages') PROVE pages'[w].from > 0
      <3>1. CASE w \in 2..Len(pages)
        BY <2>3, <2>5, <3>1 DEF GoesOn
      <3>2. CASE w = Len(pages) + 1
        <4>1. pages # <<>>
          BY <2>3, <2>6, <3>2
        <4> QED
          BY <2>2, <2>3, <2>5, <3>2, <4>1 DEF GoesOn
      <3> QED
        BY <2>3, <2>5, <3>1, <3>2
    <2>7. at' = "reading" => offset' > 0
      BY <2>2, <2>3, <2>4
    <2> QED
      BY <2>6, <2>7 DEF GoesOn
  <1>2. CASE Refuse \/ Disappear
    BY <1>2 DEF GoesOn, Refuse, Disappear
  <1>3. CASE UNCHANGED vars
    BY <1>3 DEF GoesOn, vars
  <1> QED
    BY <1>1, <1>2, <1>3 DEF Next

-----------------------------------------------------------------------------
(* Parameters of a query string *)

\* A set of numbers has a least one.
LEMMA MinOfSome ==
  ASSUME NEW S \in SUBSET Nat, S # {}
  PROVE  Min(S) \in S /\ \A k \in S : Min(S) <= k
PROOF
  <1> DEFINE R == OpToRel(<, Nat)
  <1>1. PICK x \in S : \A y \in S : ~ (<<y, x>> \in R)
    BY NatLessThanWellFounded, WFMin
  <1>2. S \subseteq Nat /\ \A y \in S : ~ (y < x)
    BY <1>1 DEF OpToRel
  <1>3. \A y \in S : x <= y
    BY <1>2
  <1>4. \A z \in S : (\A y \in S : z <= y) => z = x
    BY <1>2, <1>3
  <1> QED
    BY <1>3, <1>4 DEF Min

\* The first of the set is before the end, or there is none.
LEMMA FirstIs ==
  ASSUME NEW s \in Seq(Byte), NEW i \in 1..Len(s) + 1, NEW B
  PROVE  /\ FirstOf(s, i, B) \in i..Len(s) + 1
         /\ \A k \in i..FirstOf(s, i, B) - 1 : s[k] \notin B
         /\ FirstOf(s, i, B) <= Len(s) => s[FirstOf(s, i, B)] \in B
PROOF
  <1> DEFINE S == {k \in i..Len(s) : s[k] \in B} \cup {Len(s) + 1}
  <1>1. Len(s) \in Nat /\ S \in SUBSET Nat /\ S # {}
    OBVIOUS
  <1>2. Min(S) \in S /\ \A k \in S : Min(S) <= k
    BY <1>1, MinOfSome
  <1>3. FirstOf(s, i, B) = Min(S)
    BY DEF FirstOf
  <1> DEFINE m == Min(S)
  <1>4. m \in i..Len(s) + 1 /\ (m <= Len(s) => s[m] \in B)
    BY <1>1, <1>2
  <1>5. ASSUME NEW k \in i..m - 1, s[k] \in B PROVE FALSE
    <2>1. k \in S
      BY <1>1, <1>4, <1>5
    <2>2. m <= k
      BY <1>2, <2>1
    <2> HIDE DEF m
    <2> QED
      BY <1>1, <1>4, <2>2
  <1> QED
    BY <1>3, <1>4, <1>5

\* The bytes a to b of s.
LEMMA SubSeqIs ==
  ASSUME NEW s \in Seq(Byte), NEW a \in 1..Len(s) + 1, NEW b \in a - 1..Len(s)
  PROVE  /\ SubSeq(s, a, b) \in Seq(Byte) /\ Len(SubSeq(s, a, b)) = b - a + 1
         /\ \A i \in 1..b - a + 1 : SubSeq(s, a, b)[i] = s[a + i - 1]
PROOF
  <1>1. Len(s) \in Nat /\ a \in Int /\ b \in Int /\ \A i \in a..b : s[i] \in Byte
    OBVIOUS
  <1>2. /\ SubSeq(s, a, b) \in Seq(Byte)
        /\ Len(SubSeq(s, a, b)) = IF a <= b THEN b - a + 1 ELSE 0
        /\ \A i \in 1..b - a + 1 : SubSeq(s, a, b)[i] = s[a + i - 1]
    BY <1>1, SubSeqProperties
  <1> QED
    BY <1>1, <1>2

\* Two stretches with the same bytes.
LEMMA SameStretch ==
  ASSUME NEW s \in Seq(Byte), NEW a \in 1..Len(s) + 1, NEW b \in a - 1..Len(s),
         NEW t \in Seq(Byte), NEW c \in 1..Len(t) + 1, NEW d \in c - 1..Len(t),
         b - a = d - c, \A i \in 1..b - a + 1 : s[a + i - 1] = t[c + i - 1]
  PROVE  SubSeq(s, a, b) = SubSeq(t, c, d)
PROOF
  <1> DEFINE u == SubSeq(s, a, b)
             v == SubSeq(t, c, d)
  <1>1. u \in Seq(Byte) /\ Len(u) = b - a + 1 /\ \A i \in 1..b - a + 1 : u[i] = s[a + i - 1]
    BY SubSeqIs
  <1>2. v \in Seq(Byte) /\ Len(v) = d - c + 1 /\ \A i \in 1..d - c + 1 : v[i] = t[c + i - 1]
    BY SubSeqIs
  <1>3. Len(s) \in Nat /\ Len(t) \in Nat
    OBVIOUS
  <1>4. Len(u) = Len(v) /\ d - c + 1 = b - a + 1
    BY <1>1, <1>2, <1>3
  <1>5. \A i \in 1..Len(u) : u[i] = v[i]
    BY <1>1, <1>2, <1>4
  <1> HIDE DEF u, v
  <1>6. u = v
    BY <1>1, <1>2, <1>4, <1>5, SeqEqual
  <1> QED
    BY <1>6 DEF u, v

\* Where the parameter at k ends, cut after e bytes.
EndAt(t, k, e) == IF FirstOf(t, k, {"&"}) - 1 <= e THEN FirstOf(t, k, {"&"}) - 1 ELSE e

CutAt(t, k, e) == SubSeq(t, k, EndAt(t, k, e))

LEMMA EndAtIs ==
  ASSUME NEW t \in Seq(Byte), NEW k \in 1..Len(t), NEW e \in k..Len(t)
  PROVE  EndAt(t, k, e) \in k - 1..e
PROOF
  <1>1. FirstOf(t, k, {"&"}) \in k..Len(t) + 1 /\ Len(t) \in Nat
    BY FirstIs
  <1> QED
    BY <1>1 DEF EndAt

\* In a window a parameter reaches to its end or that of the window.
LEMMA PartIsCut ==
  ASSUME NEW t \in Seq(Byte), NEW o \in Nat, NEW d \in Seq(Byte), PartOf(t, o, d),
         NEW j \in 1..Len(d)
  PROVE  PartAt(d, j) = CutAt(t, o + j, o + Len(d))
PROOF
  <1> DEFINE a == FirstOf(d, j, {"&"})
             b == FirstOf(t, o + j, {"&"})
             z == EndAt(t, o + j, o + Len(d))
  <1>1. Len(d) \in Nat /\ Len(t) \in Nat /\ \A i \in 1..Len(d) : o + i \in 1..Len(t) /\ d[i] = t[o + i]
    BY DEF PartOf
  <1>2. o + j \in 1..Len(t) /\ o + Len(d) \in o + j..Len(t)
    <2>1. Len(d) \in 1..Len(d)
      BY <1>1
    <2> QED
      BY <1>1, <2>1
  <1>3. a \in j..Len(d) + 1 /\ (\A i \in j..a - 1 : d[i] # "&") /\ (a <= Len(d) => d[a] = "&")
    <2>1. j \in 1..Len(d) + 1
      BY <1>1
    <2> QED
      BY <2>1, FirstIs
  <1>4. /\ b \in o + j..Len(t) + 1 /\ (\A i \in o + j..b - 1 : t[i] # "&")
        /\ b <= Len(t) => t[b] = "&"
    <2>1. o + j \in 1..Len(t) + 1
      BY <1>1, <1>2
    <2> QED
      BY <2>1, FirstIs
  <1>5. z = IF b - 1 <= o + Len(d) THEN b - 1 ELSE o + Len(d)
    BY DEF EndAt
  <1> HIDE DEF a, b, z
  <1>6. z = o + a - 1
    <2>1. CASE a <= Len(d)
      <3>1. a \in 1..Len(d)
        BY <1>1, <1>3, <2>1
      <3>2. t[o + a] = "&" /\ o + a \in 1..Len(t)
        BY <1>1, <1>3, <3>1
      <3>3. b <= o + a
        <4>1. SUFFICES ASSUME b > o + a PROVE FALSE
          BY <1>1, <1>3, <1>4
        <4>2. o + a \in o + j..b - 1
          BY <1>1, <1>3, <1>4, <4>1
        <4> QED
          BY <1>4, <3>2, <4>2
      <3>4. b - o \in 1..Len(d) /\ o + (b - o) = b /\ b <= Len(t) /\ b - o >= j
        <4>1. b \in Nat /\ b >= o + j /\ j >= 1 /\ o + a <= Len(t) /\ a <= Len(d)
          BY <1>1, <1>4, <3>1, <3>2
        <4> QED
          BY <1>1, <3>1, <3>3, <4>1
      <3>5. d[b - o] = "&"
        BY <1>1, <1>4, <3>4
      <3>6. ~ (b - o < a)
        <4>1. SUFFICES ASSUME b - o < a PROVE FALSE
          OBVIOUS
        <4>2. b - o \in j..a - 1
          BY <1>1, <1>3, <3>4, <4>1
        <4> QED
          BY <1>3, <3>5, <4>2
      <3>7. b = o + a
        BY <1>1, <1>3, <1>4, <3>3, <3>6
      <3> QED
        BY <1>1, <1>3, <1>5, <2>1, <3>7
    <2>2. CASE a = Len(d) + 1
      <3>1. b > o + Len(d)
        <4>1. SUFFICES ASSUME b <= o + Len(d) PROVE FALSE
          BY <1>1, <1>4
        <4>2. b - o \in 1..Len(d) /\ o + (b - o) = b /\ b <= Len(t) /\ b - o \in j..a - 1
          BY <1>1, <1>2, <1>4, <2>2, <4>1
        <4>3. d[b - o] = "&"
          BY <1>1, <1>4, <4>2
        <4> QED
          BY <1>3, <4>2, <4>3
      <3> QED
        BY <1>1, <1>4, <1>5, <2>2, <3>1
    <2>3. a <= Len(d) \/ a = Len(d) + 1
      <3>1. a \in j..Len(d) + 1 /\ Len(d) \in Nat /\ j \in Nat
        BY <1>1, <1>3
      <3>2. a \in Nat /\ a <= Len(d) + 1
        BY <3>1
      <3> QED
        BY <3>1, <3>2
    <2> QED
      BY <2>1, <2>2, <2>3
  <1>7. \A i \in 1..a - 1 - j + 1 : d[j + i - 1] = t[o + j + i - 1]
    <2> TAKE i \in 1..a - 1 - j + 1
    <2>1. j + i - 1 \in 1..Len(d) /\ o + (j + i - 1) = o + j + i - 1
      BY <1>1, <1>3
    <2> QED
      BY <1>1, <2>1
  <1>8. /\ j \in 1..Len(d) + 1 /\ a - 1 \in j - 1..Len(d) /\ o + j \in 1..Len(t) + 1
        /\ z \in o + j - 1..Len(t) /\ a - 1 - j = z - (o + j)
    BY <1>1, <1>2, <1>3, <1>6
  <1>9. SubSeq(d, j, a - 1) = SubSeq(t, o + j, z)
    <2> DEFINE p == a - 1
               c == o + j
    <2>1. j \in 1..Len(d) + 1 /\ p \in j - 1..Len(d) /\ c \in 1..Len(t) + 1 /\ z \in c - 1..Len(t)
      BY <1>8
    <2>2. p - j = z - c /\ \A i \in 1..p - j + 1 : d[j + i - 1] = t[c + i - 1]
      BY <1>7, <1>8
    <2> HIDE DEF a, b, z, p, c
    <2>3. SubSeq(d, j, p) = SubSeq(t, c, z)
      BY <2>1, <2>2, SameStretch
    <2> QED
      BY <2>3 DEF p, c
  <1> QED
    BY <1>9 DEF PartAt, CutAt, a, z

\* The parameter at k, cut after e bytes.
LEMMA CutOfPart ==
  ASSUME NEW t \in Seq(Byte), NEW k \in 1..Len(t), NEW e \in k..Len(t)
  PROVE  Upto(PartAt(t, k), Min({Len(PartAt(t, k)), e + 1 - k})) = CutAt(t, k, e)
PROOF
  <1> DEFINE b == FirstOf(t, k, {"&"})
             p == PartAt(t, k)
             m == Min({Len(p), e + 1 - k})
             z == EndAt(t, k, e)
  <1>1. b \in k..Len(t) + 1 /\ Len(t) \in Nat /\ k \in 1..Len(t) + 1
    BY FirstIs
  <1>2. p = SubSeq(t, k, b - 1) /\ z = IF b - 1 <= e THEN b - 1 ELSE e
    BY DEF PartAt, EndAt
  <1> HIDE DEF b, p, z
  <1>3. p \in Seq(Byte) /\ Len(p) = b - k /\ \A i \in 1..b - k : p[i] = t[k + i - 1]
    <2>1. b - 1 \in k - 1..Len(t) /\ b - 1 - k + 1 = b - k
      BY <1>1
    <2> QED
      BY <1>1, <1>2, <2>1, SubSeqIs
  <1>4. m = IF b - k <= e + 1 - k THEN b - k ELSE e + 1 - k
    <2>1. b - k \in Int /\ e + 1 - k \in Int
      BY <1>1
    <2> QED
      BY <1>3, <2>1, MinOfTwo
  <1> HIDE DEF m
  <1>5. /\ m \in 0..Len(p) /\ z = k + m - 1 /\ z \in k - 1..Len(t) /\ 1 \in 1..Len(p) + 1
        /\ m \in 1 - 1..Len(p) /\ m - 1 = z - k
    BY <1>1, <1>2, <1>3, <1>4
  <1>6. \A i \in 1..m - 1 + 1 : p[1 + i - 1] = t[k + i - 1]
    BY <1>1, <1>3, <1>5
  <1>7. SubSeq(p, 1, m) = SubSeq(t, k, z)
    BY <1>1, <1>3, <1>5, <1>6, SameStretch
  <1> QED
    BY <1>7 DEF Upto, CutAt, p, m, z

Params == {Param(x) : x \in Seq(Byte)}

\* The parameter at k, if one begins there, cut after e bytes.
PieceAt(t, k, e) == IF k \in Begins(t) THEN <<Param(CutAt(t, k, e))>> ELSE <<>>

\* Those at the n places after o.
Pieces(t, o, n, e) == [i \in 1..n |-> PieceAt(t, o + i, e)]

LEMMA PieceIs ==
  ASSUME NEW t \in Seq(Byte), NEW k \in 1..Len(t), NEW e \in k..Len(t)
  PROVE  PieceAt(t, k, e) \in Seq(Params)
PROOF
  <1>1. EndAt(t, k, e) \in k - 1..Len(t) /\ k \in 1..Len(t) + 1
    <2>1. EndAt(t, k, e) \in k - 1..e /\ Len(t) \in Nat
      BY EndAtIs
    <2> QED
      BY <2>1
  <1>2. CutAt(t, k, e) \in Seq(Byte)
    BY <1>1, SubSeqIs DEF CutAt
  <1>3. Param(CutAt(t, k, e)) \in Params
    BY <1>2 DEF Params
  <1> HIDE DEF Params
  <1>4. \A x \in Params : <<x>> \in Seq(Params)
    OBVIOUS
  <1>5. <<>> \in Seq(Params)
    OBVIOUS
  <1> QED
    BY <1>3, <1>4, <1>5 DEF PieceAt

ArePieces(q, n) == q \in Seq(Seq(Params)) /\ Len(q) = n

LEMMA PiecesAre ==
  ASSUME NEW t \in Seq(Byte), NEW o \in Nat, NEW n \in Nat, NEW e \in Nat, o + n <= e, e <= Len(t)
  PROVE  ArePieces(Pieces(t, o, n, e), n)
PROOF
  <1> DEFINE q == Pieces(t, o, n, e)
  <1>1. ASSUME NEW i \in 1..n PROVE PieceAt(t, o + i, e) \in Seq(Params)
    <2>1. o + i \in 1..Len(t) /\ e \in o + i..Len(t)
      BY <1>1
    <2> QED
      BY <2>1, PieceIs
  <1>2. q \in [1..n -> Seq(Params)]
    BY <1>1 DEF Pieces
  <1> HIDE DEF q
  <1>3. q \in Seq(Seq(Params)) /\ Len(q) = n
    BY <1>2
  <1> QED
    BY <1>3 DEF q, ArePieces

\* A part that begins where a parameter may begin, or with a separator, is parsed to
\* the parameters that begin in it, each as far as the part reaches.
LEMMA ParsedPart ==
  ASSUME NEW t \in Seq(Byte), NEW o \in Nat, NEW d \in Seq(Byte), PartOf(t, o, d),
         d = <<>> \/ o = 0 \/ t[o] = "&" \/ d[1] = "&"
  PROVE  ParseArgs(d) = FlattenSeq(Pieces(t, o, Len(d), o + Len(d)))
PROOF
  <1>1. Len(d) \in Nat /\ Len(t) \in Nat /\ \A i \in 1..Len(d) : o + i \in 1..Len(t) /\ d[i] = t[o + i]
    BY DEF PartOf
  <1>2. ASSUME NEW j \in 1..Len(d) PROVE j \in Begins(d) <=> o + j \in Begins(t)
    <2>1. o + j \in DOMAIN t /\ d[j] = t[o + j] /\ j \in DOMAIN d
      BY <1>1
    <2>2. CASE j = 1
      <3>1. d # <<>> /\ (o + j = 1 <=> o = 0) /\ o + j - 1 = o
        BY <1>1, <2>2
      <3> QED
        BY <2>1, <2>2, <3>1 DEF Begins
    <2>3. CASE j # 1
      <3>1. j - 1 \in 1..Len(d) /\ o + (j - 1) = o + j - 1 /\ o + j # 1
        BY <1>1, <2>3
      <3>2. d[j - 1] = t[o + j - 1]
        BY <1>1, <3>1
      <3> QED
        BY <2>1, <2>3, <3>1, <3>2 DEF Begins
    <2> QED
      BY <2>2, <2>3
  <1>3. ASSUME NEW j \in 1..Len(d)
        PROVE  (IF j \in Begins(d) THEN <<Param(PartAt(d, j))>> ELSE <<>>)
                 = PieceAt(t, o + j, o + Len(d))
    <2>1. PartAt(d, j) = CutAt(t, o + j, o + Len(d))
      BY PartIsCut
    <2> QED
      BY <1>2, <2>1 DEF PieceAt
  <1>4. [k \in DOMAIN d |-> IF k \in Begins(d) THEN <<Param(PartAt(d, k))>> ELSE <<>>]
          = Pieces(t, o, Len(d), o + Len(d))
    <2>1. DOMAIN d = 1..Len(d)
      OBVIOUS
    <2> QED
      BY <1>3, <2>1 DEF Pieces
  <1> QED
    BY <1>4 DEF ParseArgs

\* The rest of a part begins where the part says.
LEMMA RestOfPart ==
  ASSUME NEW t \in Seq(Byte), NEW o \in Nat, NEW d \in Seq(Byte), PartOf(t, o, d),
         NEW m \in 0..Len(d)
  PROVE  From(d, m + 1) \in Seq(Byte) /\ Len(From(d, m + 1)) = Len(d) - m
         /\ PartOf(t, o + m, From(d, m + 1))
PROOF
  <1> DEFINE r == From(d, m + 1)
  <1>1. Len(d) \in Nat /\ Len(t) \in Nat /\ \A i \in 1..Len(d) : o + i \in 1..Len(t) /\ d[i] = t[o + i]
    BY DEF PartOf
  <1>2. m + 1 \in 1..Len(d) + 1 /\ Len(d) \in m + 1 - 1..Len(d) /\ Len(d) - (m + 1) + 1 = Len(d) - m
    BY <1>1
  <1>3. r \in Seq(Byte) /\ Len(r) = Len(d) - m /\ \A i \in 1..Len(d) - m : r[i] = d[m + 1 + i - 1]
    <2>1. /\ r \in Seq(Byte) /\ Len(r) = Len(d) - (m + 1) + 1
          /\ \A i \in 1..Len(d) - (m + 1) + 1 : r[i] = d[m + 1 + i - 1]
      <3> DEFINE a == m + 1
                 b == Len(d)
      <3>1. a \in 1..Len(d) + 1 /\ b \in a - 1..Len(d) /\ r = SubSeq(d, a, b)
        BY <1>2 DEF From
      <3> HIDE DEF a, b, r
      <3>2. /\ SubSeq(d, a, b) \in Seq(Byte) /\ Len(SubSeq(d, a, b)) = b - a + 1
            /\ \A i \in 1..b - a + 1 : SubSeq(d, a, b)[i] = d[a + i - 1]
        BY <3>1, SubSeqIs
      <3> QED
        BY <3>1, <3>2 DEF a, b
    <2> HIDE DEF r
    <2> QED
      BY <1>2, <2>1
  <1> HIDE DEF r
  <1>4. ASSUME NEW i \in 1..Len(r) PROVE o + m + i \in 1..Len(t) /\ r[i] = t[o + m + i]
    <2>1. m + i \in 1..Len(d) /\ m + 1 + i - 1 = m + i /\ o + (m + i) = o + m + i
      BY <1>1, <1>3
    <2>2. i \in 1..Len(d) - m
      BY <1>3
    <2> QED
      BY <1>1, <1>3, <2>1, <2>2
  <1> QED
    BY <1>3, <1>4 DEF PartOf, r

\* A window of a query string that does not begin just after a separator is decoded
\* to the parameters that begin in it, each as far as the window reaches.
LEMMA FragmentParams ==
  ASSUME NEW t \in Seq(Byte), NEW o \in Nat, NEW d \in Seq(Byte), PartOf(t, o, d),
         o > 0 => t[o] # "&"
  PROVE  ParseArgsFragment(d, o).pairs = FlattenSeq(Pieces(t, o, Len(d), o + Len(d)))
PROOF
  <1>1. Len(d) \in Nat /\ Len(t) \in Nat /\ \A i \in 1..Len(d) : o + i \in 1..Len(t) /\ d[i] = t[o + i]
    BY DEF PartOf
  <1>2. CASE d = <<>> \/ o = 0 \/ d[1] = "&"
    <2>1. ParseArgsFragment(d, o).pairs = ParseArgs(d)
      BY <1>2 DEF ParseArgsFragment, Fragment
    <2> QED
      BY <1>2, <2>1, ParsedPart
  <1>3. CASE ~ (d = <<>> \/ o = 0 \/ d[1] = "&")
    <2> DEFINE z == FirstOf(d, 1, {"&"})
               n == Len(d)
               m == IF z <= n THEN z ELSE n
               e == o + n
               q == Pieces(t, o, n, e)
               s == Pieces(t, o, m, e)
               u == Pieces(t, o + m, n - m, e)
    <2>1. z \in 1..n + 1 /\ (\A i \in 1..z - 1 : d[i] # "&") /\ (z <= n => d[z] = "&")
      <3>1. 1 \in 1..Len(d) + 1
        BY <1>1
      <3> QED
        BY <3>1, FirstIs
    <2>2. ParseArgsFragment(d, o).pairs = ParseArgs(From(d, z + 1))
      BY <1>1, <1>3 DEF ParseArgsFragment, Fragment
    <2> HIDE DEF z
    <2>3. m \in 0..n /\ n \in Nat /\ n > 0 /\ n - m \in Nat /\ o + m \in Nat /\ e \in Nat /\ e <= Len(t)
      <3>1. n > 0 /\ n \in 1..Len(d)
        BY <1>1, <1>3
      <3> QED
        BY <1>1, <2>1, <3>1
    <2>4. From(d, z + 1) = From(d, m + 1)
      <3>1. CASE z <= n
        BY <3>1
      <3>2. CASE z = n + 1
        <4>1. SubSeq(d, n + 2, n) = <<>> /\ SubSeq(d, n + 1, n) = <<>>
          <5>1. n + 2 \in Int /\ n + 1 \in Int /\ n \in Int /\ n < n + 2 /\ n < n + 1
            BY <1>1
          <5> HIDE DEF n
          <5> QED
            BY <5>1, SubSeqEmpty
        <4>2. z + 1 = n + 2 /\ m + 1 = n + 1
          BY <1>1, <3>2
        <4> QED
          BY <4>1, <4>2 DEF From
      <3> QED
        BY <1>1, <2>1, <3>1, <3>2
    <2>5. ParseArgs(From(d, m + 1)) = FlattenSeq(u)
      <3> DEFINE r == From(d, m + 1)
      <3>1. r \in Seq(Byte) /\ Len(r) = n - m /\ PartOf(t, o + m, r)
        <4>1. m \in 0..Len(d)
          BY <2>3
        <4> HIDE DEF m
        <4> QED
          BY <4>1, RestOfPart
      <3> HIDE DEF r
      <3>2. r = <<>> \/ t[o + m] = "&"
        <4>1. CASE z <= n
          <5>1. m = z /\ z \in 1..Len(d)
            BY <2>1, <4>1
          <5>2. t[o + m] = "&"
            BY <1>1, <2>1, <5>1, <4>1
          <5> QED
            BY <5>2
        <4>2. CASE ~ (z <= n)
          <5>1. Len(r) = 0
            BY <2>3, <3>1, <4>2
          <5> QED
            BY <3>1, <5>1
        <4> QED
          BY <4>1, <4>2
      <3>3. o + m + Len(r) = e
        BY <2>3, <3>1
      <3>4. ParseArgs(r) = FlattenSeq(Pieces(t, o + m, Len(r), o + m + Len(r)))
        <4> HIDE DEF m
        <4> QED
          BY <2>3, <3>1, <3>2, ParsedPart
      <3> QED
        BY <3>1, <3>3, <3>4 DEF r
    <2>6. /\ q \in Seq(Seq(Params)) /\ Len(q) = n /\ s \in Seq(Seq(Params)) /\ Len(s) = m
          /\ u \in Seq(Seq(Params)) /\ Len(u) = n - m
      <3>1. m \in Nat /\ o + n <= e /\ o + m <= e /\ o + m + (n - m) <= e
        BY <2>3
      <3> HIDE DEF m, n, e
      <3>0. n \in Nat /\ e \in Nat /\ e <= Len(t)
        BY <2>3
      <3>2. ArePieces(q, n)
        BY <3>0, <3>1, PiecesAre
      <3>3. ArePieces(s, m)
        BY <3>0, <3>1, PiecesAre
      <3>4. ArePieces(u, n - m)
        <4> DEFINE a == o + m
                   c == n - m
        <4>1. a \in Nat /\ c \in Nat /\ a + c <= e
          BY <2>3, <3>1
        <4> HIDE DEF a, c
        <4>2. ArePieces(Pieces(t, a, c, e), c)
          BY <3>0, <4>1, PiecesAre
        <4> QED
          BY <4>2 DEF a, c
      <3> HIDE DEF q, s, u
      <3> QED
        BY <3>2, <3>3, <3>4 DEF ArePieces
    <2>7. ASSUME NEW i \in 1..m PROVE s[i] = <<>>
      <3>1. i \in 1..Len(d) /\ o + i \in 1..Len(t) /\ d[i] = t[o + i]
        BY <1>1, <2>3
      <3>2. s[i] = PieceAt(t, o + i, e)
        BY DEF Pieces
      <3>3. o + i \notin Begins(t)
        <4>1. CASE i = 1
          <5>1. o + i - 1 = o /\ o + i # 1 /\ t[o] # "&"
            BY <1>3, <4>1
          <5> QED
            BY <5>1 DEF Begins
        <4>2. CASE i # 1
          <5>1. i - 1 \in 1..z - 1 /\ i - 1 \in 1..Len(d) /\ o + (i - 1) = o + i - 1 /\ o + i # 1
            BY <1>1, <2>1, <2>3, <4>2
          <5>2. t[o + i - 1] # "&"
            BY <1>1, <2>1, <5>1
          <5> QED
            BY <5>1, <5>2 DEF Begins
        <4> QED
          BY <4>1, <4>2
      <3> QED
        BY <3>2, <3>3 DEF PieceAt
    <2>8. Joined(q, s, u)
      <3>1. Len(q) = Len(s) + Len(u)
        <4>0. Len(q) = n /\ Len(s) = m /\ Len(u) = n - m /\ m \in Nat /\ n \in Nat
          BY <2>3, <2>6
        <4> HIDE DEF m, n, e, q, s, u
        <4> QED
          BY <4>0
      <3>2. ASSUME NEW k \in 1..Len(s) PROVE q[k] = s[k]
        <4>0. Len(s) = m /\ m \in Nat /\ n \in Nat /\ m <= n
          BY <2>3, <2>6
        <4> HIDE DEF m, n, e, s
        <4>1. k \in 1..m /\ k \in 1..n
          BY <4>0
        <4> QED
          BY <4>1 DEF Pieces, s
      <3>3. ASSUME NEW k \in 1..Len(u) PROVE q[Len(s) + k] = u[k]
        <4>0. Len(s) = m /\ Len(u) = n - m /\ m \in Nat /\ n \in Nat /\ m <= n
          BY <2>3, <2>6
        <4> HIDE DEF m, n, e, q, s, u
        <4>1. k \in 1..n - m /\ m + k \in 1..n /\ o + (m + k) = o + m + k /\ Len(s) = m
          BY <4>0
        <4>2. q[m + k] = PieceAt(t, o + (m + k), e) /\ u[k] = PieceAt(t, o + m + k, e)
          BY <4>1 DEF Pieces, q, u
        <4> QED
          BY <4>1, <4>2
      <3> QED
        BY <3>1, <3>2, <3>3 DEF Joined
    <2> HIDE DEF q, s, u
    <2>9. FlattenSeq(q) = FlattenSeq(s) \o FlattenSeq(u)
      BY <2>6, <2>8, FlattenJoined
    <2>10. FlattenSeq(s) = <<>>
      BY <2>6, <2>7, FlattenEmpty
    <2>11. FlattenSeq(u) \in Seq(Params)
      BY <2>6, FlattenedParts
    <2>12. FlattenSeq(q) = FlattenSeq(u)
      BY <2>9, <2>10, <2>11, ConcatEmptySeq
    <2> QED
      BY <2>2, <2>4, <2>5, <2>12 DEF q
  <1> QED
    BY <1>2, <1>3

\* The rest of what the window before began is its text.
LEMMA FragmentText ==
  ASSUME NEW d \in Seq(Byte), NEW o \in Nat, o > 0
  PROVE  ParseArgsFragment(d, o).text = Unescape(PartAt(d, 1))
PROOF
  <1>1. CASE d # <<>> /\ d[1] # "&"
    BY <1>1 DEF ParseArgsFragment, Fragment, PartAt, Upto
  <1>2. CASE ~ (d # <<>> /\ d[1] # "&")
    <2>1. ParseArgsFragment(d, o).text = <<>>
      BY <1>2 DEF ParseArgsFragment, Fragment
    <2>2. FirstOf(d, 1, {"&"}) = 1
      <3>1. Len(d) \in Nat /\ (d # <<>> => Len(d) > 0) /\ (d = <<>> => Len(d) = 0)
        OBVIOUS
      <3>2. 1 \in 1..Len(d) + 1
        BY <3>1
      <3>3. /\ FirstOf(d, 1, {"&"}) \in 1..Len(d) + 1
            /\ \A k \in 1..FirstOf(d, 1, {"&"}) - 1 : d[k] \notin {"&"}
        BY <3>2, FirstIs
      <3>4. FirstOf(d, 1, {"&"}) > 1 => 1 \in 1..FirstOf(d, 1, {"&"}) - 1 /\ d # <<>>
        BY <3>1, <3>3
      <3> QED
        BY <1>2, <3>1, <3>3, <3>4
    <2>3. PartAt(d, 1) = <<>>
      <3>1. SubSeq(d, 1, 0) = <<>>
        BY SubSeqEmpty
      <3> QED
        BY <2>2, <3>1 DEF PartAt
    <2>4. Unescape(<<>>) = <<>>
      <3>1. DOMAIN <<>> = {}
        OBVIOUS
      <3>2. Unescape(<<>>) = FlattenSeq(<<>>)
        BY <3>1 DEF Unescape
      <3> QED
        BY <3>2 DEF FlattenSeq
    <2> QED
      BY <2>1, <2>3, <2>4
  <1> QED
    BY <1>1, <1>2

\* Where the w-th window ends.
EndOf(w) == IF w = 0 THEN 0 ELSE pages[w].from + Len(pages[w].data)

\* Windows of a reader who began at the first byte follow on one another up to the
\* offset.
Follow ==
  /\ pages \in Seq(Page) /\ pages # <<>> /\ Len(pages) \in Nat \ {0}
  /\ \A w \in 0..Len(pages) : EndOf(w) \in Nat
  /\ EndOf(0) = 0 /\ EndOf(Len(pages)) = offset
  /\ \A w \in 1..Len(pages) :
       /\ pages[w].from = EndOf(w - 1) /\ pages[w].data \in Seq(Byte)
       /\ EndOf(w) = EndOf(w - 1) + Len(pages[w].data)
       /\ PartOf(object, EndOf(w - 1), pages[w].data)

LEMMA WindowsFollow ==
  ASSUME WindowsInv, pages # <<>>, pages[1].from = 0
  PROVE  Follow
PROOF
  <1>1. pages \in Seq(Page) /\ Len(pages) \in Nat /\ Len(pages) # 0
    BY DEF WindowsInv
  <1>2. \A w \in 1..Len(pages) : pages[w].from \in Nat /\ pages[w].data \in Seq(Byte)
    <2> TAKE w \in 1..Len(pages)
    <2>1. pages[w] \in Page
      BY <1>1
    <2> QED
      BY <2>1 DEF Page
  <1>3. \A w \in 1..Len(pages) : EndOf(w) = pages[w].from + Len(pages[w].data) /\ EndOf(w) \in Nat
    BY <1>1, <1>2 DEF EndOf
  <1>4. EndOf(0) = 0
    BY DEF EndOf
  <1>5. \A w \in 1..Len(pages) :
          (IF w = Len(pages) THEN offset ELSE pages[w + 1].from) = EndOf(w)
    BY <1>1, <1>3 DEF WindowsInv, WindowsTile
  <1>6. ASSUME NEW w \in 1..Len(pages) PROVE pages[w].from = EndOf(w - 1)
    <2>1. CASE w = 1
      BY <1>4, <2>1
    <2>2. CASE w # 1
      <3>1. w - 1 \in 1..Len(pages) /\ w - 1 # Len(pages) /\ (w - 1) + 1 = w
        BY <1>1, <2>2
      <3> QED
        BY <1>5, <3>1
    <2> QED
      BY <2>1, <2>2
  <1>7. ASSUME NEW w \in 1..Len(pages) PROVE PartOf(object, pages[w].from, pages[w].data)
    <2>1. \A j \in DOMAIN pages[w].data :
            pages[w].from + j \in DOMAIN object /\ pages[w].data[j] = object[pages[w].from + j]
      BY <1>1 DEF WindowsInv, WindowsTile
    <2>2. object \in Seq(Byte)
      BY ContentAssumption DEF WindowsInv
    <2> QED
      BY <1>2, <2>1, <2>2 DEF PartOf
  <1>8. \A w \in 0..Len(pages) : EndOf(w) \in Nat
    BY <1>1, <1>3, <1>4
  <1>9. EndOf(Len(pages)) = offset
    BY <1>1, <1>5
  <1> HIDE DEF Follow
  <1>10. \A w \in 1..Len(pages) :
           /\ pages[w].from = EndOf(w - 1) /\ pages[w].data \in Seq(Byte)
           /\ EndOf(w) = EndOf(w - 1) + Len(pages[w].data)
           /\ PartOf(object, EndOf(w - 1), pages[w].data)
    BY <1>2, <1>3, <1>6, <1>7
  <1> QED
    BY <1>1, <1>4, <1>8, <1>9, <1>10 DEF Follow

\* No window ends before one that comes before it.
LEMMA EndsGrow ==
  ASSUME Follow, NEW v \in 0..Len(pages)
  PROVE  \A w \in 0..Len(pages) : v <= w => EndOf(v) <= EndOf(w)
PROOF
  <1> DEFINE n == Len(pages)
             P == {w \in 0..n : v <= w => EndOf(v) <= EndOf(w)}
  <1>1. n \in Nat /\ \A w \in 0..n : EndOf(w) \in Nat
    BY DEF Follow
  <1>2. \A w \in 1..n : EndOf(w) >= EndOf(w - 1)
    <2> TAKE w \in 1..n
    <2>1. EndOf(w) = EndOf(w - 1) + Len(pages[w].data) /\ pages[w].data \in Seq(Byte)
          /\ w - 1 \in 0..n
      BY <1>1 DEF Follow
    <2>2. Len(pages[w].data) \in Nat /\ EndOf(w - 1) \in Nat
      BY <1>1, <2>1
    <2> QED
      BY <2>1, <2>2
  <1> HIDE DEF n
  <1>3. 0 \in P
    BY <1>1
  <1>4. ASSUME NEW k \in 0..n - 1, k \in P PROVE k + 1 \in P
    <2>1. k + 1 \in 1..n /\ (k + 1) - 1 = k /\ k \in 0..n /\ k + 1 \in 0..n /\ v \in Nat
      BY <1>1
    <2>2. EndOf(k + 1) >= EndOf(k)
      BY <1>2, <2>1
    <2>3. EndOf(k + 1) \in Nat /\ EndOf(k) \in Nat /\ EndOf(v) \in Nat
      BY <1>1, <2>1 DEF n
    <2>4. ASSUME v <= k + 1 PROVE EndOf(v) <= EndOf(k + 1)
      <3>1. CASE v = k + 1
        BY <2>3, <3>1
      <3>2. CASE v # k + 1
        <4>1. v <= k
          BY <2>1, <2>4, <3>2
        <4>2. EndOf(v) <= EndOf(k)
          BY <1>4, <4>1
        <4> QED
          BY <2>2, <2>3, <4>2
      <3> QED
        BY <3>1, <3>2
    <2> QED
      BY <2>1, <2>4
  <1>5. 0..n \subseteq P
    <2> HIDE DEF P
    <2> QED
      BY <1>1, <1>3, <1>4, UpToInduction
  <1> QED
    BY <1>5 DEF n

\* What the property says of a reader of a query string that no window of which ends
\* just after a separator.
Undivided ==
  \A w \in 2..Len(pages) : pages[w].from > 0 => object[pages[w].from] # "&"

\* Where the first window ends that reaches the place k.
ReachedAt(k) == Min({pages[w].from + Len(pages[w].data) : w \in DOMAIN pages} \cap k..offset)

\* The w-th window, decoded.
Decoded(w) == ParseArgsFragment(pages[w].data, pages[w].from)

LEMMA ReachedInside ==
  ASSUME Follow, NEW k \in 1..offset
  PROVE  /\ ReachedAt(k) \in k..offset
         /\ \A w \in 1..Len(pages) :
              k \in EndOf(w - 1) + 1..EndOf(w) => ReachedAt(k) = EndOf(w)
PROOF
  <1> DEFINE n == Len(pages)
             S == {EndOf(w) : w \in 1..n} \cap k..offset
  <1>1. /\ n \in Nat \ {0} /\ pages \in Seq(Page) /\ \A w \in 0..n : EndOf(w) \in Nat
        /\ EndOf(n) = offset
    BY DEF Follow
  <1>2. offset \in Nat /\ DOMAIN pages = 1..n
    BY <1>1
  <1>3. \A w \in 1..n : EndOf(w) = pages[w].from + Len(pages[w].data)
    BY <1>1 DEF EndOf
  <1>4. ReachedAt(k) = Min(S)
    <2>1. {pages[w].from + Len(pages[w].data) : w \in DOMAIN pages} = {EndOf(w) : w \in 1..n}
      BY <1>2, <1>3
    <2> QED
      BY <2>1 DEF ReachedAt
  <1>5. offset \in S
    BY <1>1, <1>2
  <1>6. S \in SUBSET Nat /\ S # {}
    BY <1>2, <1>5
  <1>7. Min(S) \in S /\ \A x \in S : Min(S) <= x
    BY <1>6, MinOfSome
  <1>8. ASSUME NEW w \in 1..n, k \in EndOf(w - 1) + 1..EndOf(w) PROVE Min(S) = EndOf(w)
    <2>1. w \in 0..n /\ w - 1 \in 0..n /\ n \in 0..n /\ w <= n
      BY <1>1
    <2>2. EndOf(w) <= offset
      BY <1>1, <2>1, EndsGrow
    <2>3. EndOf(w) \in Nat /\ EndOf(w - 1) \in Nat
      BY <1>1, <2>1
    <2>4. EndOf(w) \in S
      BY <1>2, <1>8, <2>2, <2>3
    <2>5. PICK v \in 1..n : Min(S) = EndOf(v) /\ EndOf(v) \in k..offset
      BY <1>7
    <2>6. ~ (v <= w - 1)
      <3>1. SUFFICES ASSUME v <= w - 1 PROVE FALSE
        OBVIOUS
      <3>2. v \in 0..n
        BY <1>1
      <3>3. EndOf(v) <= EndOf(w - 1)
        BY <2>1, <3>1, <3>2, EndsGrow
      <3>4. EndOf(v) \in Nat
        BY <1>1, <3>2
      <3> QED
        BY <1>8, <2>3, <2>5, <3>3, <3>4
    <2>7. w <= v /\ v \in 0..n
      BY <1>1, <2>6
    <2>8. EndOf(w) <= EndOf(v) /\ EndOf(v) \in Nat
      BY <1>1, <2>1, <2>7, EndsGrow
    <2>9. EndOf(v) <= EndOf(w)
      BY <1>7, <2>4, <2>5
    <2> QED
      BY <2>3, <2>5, <2>8, <2>9
  <1>9. ReachedAt(k) \in k..offset
    BY <1>4, <1>7
  <1> QED
    BY <1>4, <1>8, <1>9

\* A reader who begins at the first byte is shown each parameter once.
LEMMA ParamsOfWindows ==
  ASSUME Follow, object \in Seq(Byte), offset <= Len(object), Undivided
  PROVE  FlattenSeq([w \in DOMAIN pages |-> Decoded(w).pairs])
           = FlattenSeq([k \in 1..offset |-> PieceAt(object, k, ReachedAt(k))])
PROOF
  <1> DEFINE n == Len(pages)
             q == [k \in 1..offset |-> PieceAt(object, k, ReachedAt(k))]
             E == [w \in 0..n |-> EndOf(w)]
             p == [w \in 1..n |-> Pieces(object, EndOf(w - 1), Len(pages[w].data), EndOf(w))]
  <1>1. /\ n \in Nat \ {0} /\ pages \in Seq(Page) /\ (\A w \in 0..n : EndOf(w) \in Nat)
        /\ EndOf(0) = 0 /\ EndOf(n) = offset
    BY DEF Follow
  <1>2. \A w \in 1..n :
          /\ pages[w].from = EndOf(w - 1) /\ pages[w].data \in Seq(Byte)
          /\ EndOf(w) = EndOf(w - 1) + Len(pages[w].data)
          /\ PartOf(object, EndOf(w - 1), pages[w].data)
    BY DEF Follow
  <1>3. offset \in Nat /\ DOMAIN pages = 1..n /\ Len(object) \in Nat
    BY <1>1
  <1>4. \A w \in 0..n : EndOf(w) \in 0..offset
    <2> TAKE w \in 0..n
    <2>1. n \in 0..n /\ w <= n
      BY <1>1
    <2>2. EndOf(w) <= EndOf(n)
      BY <2>1, EndsGrow
    <2> QED
      BY <1>1, <2>2
  <1>5. q \in Seq(Seq(Params)) /\ Len(q) = offset
    <2>1. ASSUME NEW k \in 1..offset PROVE PieceAt(object, k, ReachedAt(k)) \in Seq(Params)
      <3>1. ReachedAt(k) \in k..offset
        BY ReachedInside
      <3>2. k \in 1..Len(object) /\ ReachedAt(k) \in k..Len(object)
        BY <1>3, <3>1
      <3> QED
        BY <3>2, PieceIs
    <2> QED
      BY <1>3, <2>1
  <1>6. ASSUME NEW w \in 1..n
        PROVE  /\ p[w] \in Seq(Seq(Params)) /\ Len(p[w]) = Len(pages[w].data)
               /\ Decoded(w).pairs = FlattenSeq(p[w])
               /\ StandsAt(p[w], q, EndOf(w - 1))
    <2> DEFINE a == EndOf(w - 1)
               b == EndOf(w)
               d == pages[w].data
    <2>1. /\ pages[w].from = a /\ d \in Seq(Byte) /\ b = a + Len(d) /\ PartOf(object, a, d)
          /\ a \in 0..offset /\ b \in 0..offset /\ Len(d) \in Nat
      <3>1. w \in 0..n /\ w - 1 \in 0..n
        BY <1>1
      <3>2. pages[w].from = a /\ d \in Seq(Byte) /\ b = a + Len(d) /\ PartOf(object, a, d)
        BY <1>2
      <3> QED
        BY <1>4, <3>1, <3>2
    <2>2. p[w] = Pieces(object, a, Len(d), b)
      OBVIOUS
    <2>3. a > 0 => object[a] # "&"
      <3>1. CASE w = 1
        BY <1>1, <3>1
      <3>2. CASE w # 1
        <4>1. w \in 2..Len(pages)
          BY <1>1, <3>2
        <4> QED
          BY <2>1, <4>1 DEF Undivided
      <3> QED
        BY <3>1, <3>2
    <2>k. \A k \in 1..offset : k \in a + 1..b => ReachedAt(k) = b
      BY ReachedInside
    <2>d. Decoded(w) = ParseArgsFragment(d, a)
      BY <2>1 DEF Decoded
    <2> HIDE DEF a, b, d, p, n
    <2>4. a \in Nat /\ b \in Nat /\ b <= Len(object)
      BY <1>3, <2>1
    <2>5. p[w] \in Seq(Seq(Params)) /\ Len(p[w]) = Len(d)
      <3>1. ArePieces(Pieces(object, a, Len(d), b), Len(d))
        BY <2>1, <2>4, PiecesAre
      <3> QED
        BY <2>2, <3>1 DEF ArePieces
    <2>6. Decoded(w).pairs = FlattenSeq(p[w])
      BY <2>1, <2>2, <2>3, <2>4, <2>d, FragmentParams
    <2>7. ASSUME NEW i \in 1..Len(d) PROVE p[w][i] = q[a + i]
      <3>1. a + i \in 1..offset /\ a + i \in a + 1..b
        BY <1>3, <2>1, <2>4
      <3>2. p[w][i] = PieceAt(object, a + i, b)
        BY <2>2 DEF Pieces
      <3>3. q[a + i] = PieceAt(object, a + i, ReachedAt(a + i))
        BY <3>1
      <3>4. ReachedAt(a + i) = b
        BY <2>k, <3>1
      <3> QED
        BY <3>2, <3>3, <3>4
    <2>8. StandsAt(p[w], q, a)
      <3> HIDE DEF q
      <3> QED
        BY <2>5, <2>7 DEF StandsAt
    <2> QED
      BY <2>5, <2>6, <2>8 DEF a, d
  <1>7. /\ E \in [0..n -> 0..Len(q)] /\ E[0] = 0 /\ E[n] = Len(q)
        /\ \A w \in 1..n : E[w] = EndOf(w) /\ E[w - 1] = EndOf(w - 1)
    <2>1. 0 \in 0..n /\ n \in 0..n /\ \A w \in 1..n : w \in 0..n /\ w - 1 \in 0..n
      BY <1>1
    <2> HIDE DEF q, n
    <2> QED
      BY <1>1, <1>4, <1>5, <2>1
  <1>8. p \in [1..n -> Seq(Seq(Params))]
    <2>1. p = [w \in 1..n |-> p[w]]
      OBVIOUS
    <2> HIDE DEF p, n
    <2> QED
      BY <1>6, <2>1
  <1>9. [w \in DOMAIN pages |-> Decoded(w).pairs] = FlattenEach(p, n)
    <2> HIDE DEF p, n
    <2> QED
      BY <1>3, <1>6 DEF FlattenEach
  <1> HIDE DEF p, q, E, n
  <1>10. Tile(p, n, q, E)
    BY <1>2, <1>6, <1>7 DEF Tile
  <1>11. FlattenSeq(FlattenEach(p, n)) = FlattenSeq(q)
    <2>1. n \in Nat /\ q \in Seq(Seq(Params))
      BY <1>1, <1>5
    <2> QED
      BY <1>8, <1>10, <2>1, FlattenTiled
  <1> QED
    BY <1>9, <1>11 DEF q

LEMMA ParamsInvariant == WindowsInv /\ StaysBetween /\ GoesOn => ParamsShown
PROOF
  <1> SUFFICES ASSUME WindowsInv, StaysBetween, GoesOn PROVE ParamsShown
    OBVIOUS
  <1> DEFINE shown(k) ==
               Param(Upto(PartAt(object, k), Min({Len(PartAt(object, k)), ReachedAt(k) + 1 - k})))
  <1>1. SUFFICES ASSUME pages # <<>>, pages[1].from = 0, Undivided
                 PROVE  /\ FlattenSeq([w \in DOMAIN pages |-> Decoded(w).pairs]) =
                             FlattenSeq([k \in 1..offset |->
                               IF k \in Begins(object) THEN <<shown(k)>> ELSE <<>>])
                        /\ \A w \in 2..Len(pages) :
                             Decoded(w).text = Unescape(PartAt(pages[w].data, 1))
    BY DEF ParamsShown, Undivided, Decoded, ReachedAt
  <1>2. Follow
    BY <1>1, WindowsFollow
  <1>3. object \in Seq(Byte) /\ Len(object) \in Nat
    BY ContentAssumption DEF WindowsInv
  <1>4. offset <= Len(object)
    BY <1>1, <1>3 DEF StaysBetween
  <1>5. ASSUME NEW k \in 1..offset
        PROVE  (IF k \in Begins(object) THEN <<shown(k)>> ELSE <<>>)
                 = PieceAt(object, k, ReachedAt(k))
    <2>1. ReachedAt(k) \in k..offset /\ offset \in Nat
      <3>1. offset \in Nat
        BY <1>2 DEF Follow
      <3> QED
        BY <1>2, <3>1, ReachedInside
    <2>2. k \in 1..Len(object) /\ ReachedAt(k) \in k..Len(object)
      BY <1>3, <1>4, <2>1
    <2>3. Upto(PartAt(object, k), Min({Len(PartAt(object, k)), ReachedAt(k) + 1 - k}))
            = CutAt(object, k, ReachedAt(k))
      BY <1>3, <2>2, CutOfPart
    <2> QED
      BY <2>3 DEF PieceAt
  <1>6. [k \in 1..offset |-> IF k \in Begins(object) THEN <<shown(k)>> ELSE <<>>]
          = [k \in 1..offset |-> PieceAt(object, k, ReachedAt(k))]
    <2> HIDE DEF shown
    <2> QED
      BY <1>5
  <1>7. ASSUME NEW w \in 2..Len(pages) PROVE Decoded(w).text = Unescape(PartAt(pages[w].data, 1))
    <2>1. w \in 1..Len(pages) /\ pages[w].from > 0
      BY <1>2 DEF GoesOn, Follow
    <2>2. pages[w] \in Page
      BY <1>2, <2>1 DEF Follow
    <2>3. pages[w].from \in Nat /\ pages[w].data \in Seq(Byte)
      BY <2>2 DEF Page
    <2> QED
      BY <2>1, <2>3, FragmentText DEF Decoded
  <1> QED
    BY <1>1, <1>2, <1>3, <1>4, <1>6, <1>7, ParamsOfWindows

-----------------------------------------------------------------------------
(* Letters, and the strings that are made of them *)

\* What a byte or a character is written as here.
Letter == Character \cup {""}

HeaderPair == [name : Seq(Letter), value : Seq(Letter)]

\* Where the first byte is that is not blank.
LEMMA SkipIs ==
  ASSUME NEW d \in Seq(Letter), NEW i \in 1..Len(d) + 1
  PROVE  /\ Skip(d, i) \in i..Len(d) + 1
         /\ \A k \in i..Skip(d, i) - 1 : d[k] = "blank"
         /\ Skip(d, i) <= Len(d) => d[Skip(d, i)] # "blank"
PROOF
  <1> DEFINE S == {k \in i..Len(d) : d[k] # "blank"} \cup {Len(d) + 1}
             m == Min(S)
  <1>1. Len(d) \in Nat /\ S \in SUBSET Nat /\ S # {}
    OBVIOUS
  <1>2. m \in S /\ \A k \in S : m <= k
    BY <1>1, MinOfSome
  <1>3. Skip(d, i) = m
    BY DEF Skip
  <1> HIDE DEF m
  <1>4. m \in i..Len(d) + 1 /\ (m <= Len(d) => d[m] # "blank")
    BY <1>1, <1>2
  <1>5. ASSUME NEW k \in i..m - 1, d[k] # "blank" PROVE FALSE
    <2>1. k \in S
      BY <1>1, <1>4, <1>5
    <2>2. m <= k
      BY <1>2, <2>1
    <2> QED
      BY <1>1, <1>4, <2>2
  <1> QED
    BY <1>3, <1>4, <1>5

\* At the end, or at a byte that is not blank, nothing is skipped.
LEMMA SkipNone ==
  ASSUME NEW d \in Seq(Letter), NEW i \in 1..Len(d) + 1, i <= Len(d) => d[i] # "blank"
  PROVE  Skip(d, i) = i
PROOF
  <1> DEFINE m == Skip(d, i)
  <1>1. m \in i..Len(d) + 1 /\ \A k \in i..m - 1 : d[k] = "blank"
    BY SkipIs
  <1> HIDE DEF m
  <1>2. Len(d) \in Nat
    OBVIOUS
  <1>3. ~ (m > i)
    <2>1. m > i => i \in i..m - 1 /\ i <= Len(d)
      BY <1>1, <1>2
    <2> QED
      BY <1>1, <2>1
  <1>4. m = i
    BY <1>1, <1>2, <1>3
  <1> QED
    BY <1>4 DEF m

\* The letters of a part, and those the definitions speak of.
LEMMA LettersAre ==
  /\ Byte \subseteq Letter /\ {"U", "", "h", "b", "u", "n", "q"} \subseteq Letter
  /\ HeaderLists \subseteq Seq(HeaderPair)
PROOF
  <1>1. Byte \subseteq Letter
    BY DEF Letter, Character
  <1>2. {"U", "", "h", "b", "u", "n", "q"} \subseteq Letter
    BY DEF Letter, Character, Byte
  <1> DEFINE P == [name : Seq(Character), value : Seq(Character)]
  <1>3. P \subseteq HeaderPair
    <2>1. Character \subseteq Letter
      BY DEF Letter
    <2>2. Seq(Character) \subseteq Seq(Letter)
      BY <2>1
    <2> QED
      BY <2>2 DEF HeaderPair
  <1>4. Seq(P) \subseteq Seq(HeaderPair)
    <2> HIDE DEF P
    <2> QED
      BY <1>3
  <1>5. HeaderLists \subseteq Seq(HeaderPair)
    BY <1>4, FragmentsAssumption
  <1> QED
    BY <1>1, <1>2, <1>5

\* A character that is not cut ends within the part.
LEMMA CharAtEnds ==
  ASSUME NEW d \in Seq(Letter), NEW k \in 1..Len(d), ~CharAt(d, k).cut
  PROVE  CharAt(d, k).char \in Letter /\ CharAt(d, k).next \in k + 1..Len(d) + 1
PROOF
  <1>1. Len(d) \in Nat /\ CodeDigits \in Nat
    BY FragmentsAssumption
  <1>2. CASE d[k] # "b"
    <2>1. CharAt(d, k) = [char |-> d[k], next |-> k + 1, cut |-> FALSE]
      BY <1>2 DEF CharAt
    <2> QED
      BY <1>1, <2>1
  <1>3. CASE d[k] = "b"
    <2> DEFINE ends == k = Len(d) \/ (d[k + 1] = "u" /\ k + 1 + CodeDigits > Len(d))
    <2>1. CASE ends
      BY <1>3, <2>1 DEF CharAt
    <2>2. CASE ~ends
      <3> DEFINE code == d[k + 1] = "u" /\ \A j \in k + 2..k + 1 + CodeDigits : d[j] = "h"
      <3>1. CharAt(d, k) = IF code THEN [char |-> "U", next |-> k + (2 + CodeDigits), cut |-> FALSE]
                           ELSE [char |-> d[k + 1], next |-> k + 2, cut |-> FALSE]
        <4>1. CASE code
          BY <1>3, <2>2, <4>1 DEF CharAt
        <4>2. CASE ~code
          <5>1. ~(d[k + 1] = "u" /\ \A j \in k + 2..k + 1 + CodeDigits : d[j] = "h")
            BY <4>2
          <5> HIDE DEF code
          <5> QED
            BY <1>3, <2>2, <4>2, <5>1 DEF CharAt
        <4> QED
          BY <4>1, <4>2
      <3>2. k + 1 \in 1..Len(d) /\ d[k + 1] \in Letter
        BY <1>1, <2>2
      <3>3. code => k + (2 + CodeDigits) \in k + 1..Len(d) + 1
        BY <1>1, <2>2
      <3>4. k + 2 \in k + 1..Len(d) + 1
        BY <1>1, <3>2
      <3> HIDE DEF code, ends
      <3>5. CASE code
        <4>1. CharAt(d, k) = [char |-> "U", next |-> k + (2 + CodeDigits), cut |-> FALSE]
          BY <3>1, <3>5
        <4>2. "U" \in Letter
          BY LettersAre
        <4> QED
          BY <3>3, <3>5, <4>1, <4>2
      <3>6. CASE ~code
        BY <3>1, <3>2, <3>4, <3>6
      <3> QED
        BY <3>5, <3>6
    <2> QED
      BY <2>1, <2>2
  <1> QED
    BY <1>2, <1>3

\* What is read of a string.
Reading == [text : Seq(Letter), next : Nat, done : BOOLEAN]

\* What a string is read to, one character and the rest.
ReadOn(d, k, rest) ==
  IF k > Len(d) THEN [text |-> <<>>, next |-> Len(d) + 1, done |-> FALSE]
  ELSE IF d[k] = "q" THEN [text |-> <<>>, next |-> k + 1, done |-> TRUE]
  ELSE LET c == CharAt(d, k)
       IN IF c.cut THEN [text |-> <<>>, next |-> Len(d) + 1, done |-> FALSE]
          ELSE [rest[c.next] EXCEPT !.text = <<c.char>> \o @]

ReadsOn(d, f) == \A k \in 1..Len(d) + 1 : f[k] = ReadOn(d, k, f)

\* The recursion of Inside is one.
LEMMA InsideRecursion ==
  ASSUME NEW d \in Seq(Letter)
  PROVE  \E f \in [1..Len(d) + 1 -> Reading] : ReadsOn(d, f) /\ \A i : Inside(d, i) = f[i]
PROOF
  <1> DEFINE n == Len(d) + 1
             X == [1..n -> Reading]
             step == [p \in (1..n) \X X |-> ReadOn(d, p[1], p[2])]
             x0 == [text |-> <<>>, next |-> n, done |-> FALSE]
  <1>1. Len(d) \in Nat /\ n \in Nat /\ x0 \in Reading
    BY DEF Reading
  <1>2. ASSUME NEW k \in 1..n, NEW f, \A j \in k + 1..n : f[j] \in Reading
        PROVE  ReadOn(d, k, f) \in Reading
    <2>1. CASE k > Len(d) \/ d[k] = "q" \/ CharAt(d, k).cut
      BY <1>1, <2>1 DEF ReadOn, Reading
    <2>2. CASE ~(k > Len(d) \/ d[k] = "q" \/ CharAt(d, k).cut)
      <3> DEFINE c == CharAt(d, k)
      <3>1. k \in 1..Len(d)
        BY <1>1, <2>2
      <3>2. c.char \in Letter /\ c.next \in k + 1..Len(d) + 1
        BY <2>2, <3>1, CharAtEnds
      <3>3. ReadOn(d, k, f) = [f[c.next] EXCEPT !.text = <<c.char>> \o @]
        BY <2>2, Zenon DEF ReadOn
      <3> HIDE DEF c, n
      <3>4. f[c.next] \in Reading
        <4>1. c.next \in k + 1..n
          BY <1>1, <3>2 DEF n
        <4> QED
          BY <1>2, <4>1
      <3>5. <<c.char>> \o f[c.next].text \in Seq(Letter)
        BY <3>2, <3>4 DEF Reading
      <3> HIDE DEF X
      <3> QED
        BY <3>3, <3>4, <3>5 DEF Reading
    <2> QED
      BY <2>1, <2>2
  <1>3. step \in [(1..n) \X X -> Reading] /\ \A k \in 1..n, f \in X : step[<<k, f>>] = ReadOn(d, k, f)
    <2>1. ASSUME NEW k \in 1..n, NEW f \in X PROVE ReadOn(d, k, f) \in Reading
      <3>1. \A j \in k + 1..n : f[j] \in Reading
        BY <1>1
      <3> QED
        BY <1>2, <3>1
    <2> HIDE DEF n, X
    <2> QED
      BY <2>1
  <1> HIDE DEF step
  <1>4. ASSUME NEW k \in 1..n, NEW f \in X, NEW g \in X, \A j \in k + 1..n : f[j] = g[j]
        PROVE  ReadOn(d, k, f) = ReadOn(d, k, g)
    <2>1. CASE k > Len(d) \/ d[k] = "q" \/ CharAt(d, k).cut
      BY <2>1 DEF ReadOn
    <2>2. CASE ~(k > Len(d) \/ d[k] = "q" \/ CharAt(d, k).cut)
      <3> DEFINE c == CharAt(d, k)
      <3>1. k \in 1..Len(d)
        BY <1>1, <2>2
      <3>2. c.next \in k + 1..n
        BY <2>2, <3>1, CharAtEnds
      <3>3. \A h : ReadOn(d, k, h) = [h[c.next] EXCEPT !.text = <<c.char>> \o @]
        BY <2>2, Zenon DEF ReadOn
      <3>4. f[c.next] = g[c.next]
        BY <1>4, <3>2
      <3> HIDE DEF c
      <3> QED
        BY <3>3, <3>4, Zenon
    <2> QED
      BY <2>1, <2>2
  <1>5. LooksAhead(step, n, Reading)
    <2> SUFFICES ASSUME NEW k \in 1..n, NEW f \in X, NEW g \in X, \A j \in k + 1..n : f[j] = g[j]
                 PROVE  step[<<k, f>>] = step[<<k, g>>]
      BY DEF LooksAhead
    <2>1. ReadOn(d, k, f) = ReadOn(d, k, g)
      BY <1>4
    <2> HIDE DEF n, X
    <2> QED
      BY <1>3, <2>1
  <1>6. \E f \in X : \A k \in 1..n : f[k] = step[<<k, f>>]
    <2>1. n \in Nat /\ x0 \in Reading /\ step \in [(1..n) \X [1..n -> Reading] -> Reading]
      BY <1>1, <1>3
    <2> HIDE DEF n, x0, X
    <2>2. \E f \in [1..n -> Reading] : IsDownRecursion(f, n, step)
      BY <1>5, <2>1, DownRecursionExists
    <2> QED
      BY <2>2 DEF X, IsDownRecursion
  <1> DEFINE Is(f) == f = [k \in 1..n |-> ReadOn(d, k, f)]
             rest == CHOOSE f : Is(f)
  <1>7. \E f : Is(f)
    <2>1. PICK f \in X : \A k \in 1..n : f[k] = step[<<k, f>>]
      BY <1>6
    <2>2. \A k \in 1..n : f[k] = ReadOn(d, k, f)
      BY <1>3, <2>1
    <2>3. Is(f)
      <3> HIDE DEF n
      <3> QED
        BY <2>2
    <2> QED
      BY <2>3
  <1>8. Is(rest)
    <2> HIDE DEF Is
    <2> QED
      BY <1>7
  <1>9. \A i : Inside(d, i) = rest[i]
    BY DEF Inside, ReadOn
  <1> DEFINE P == {k \in 1..n : rest[k] \in Reading}
  <1>10. \A k \in 1..n : rest[k] = ReadOn(d, k, rest)
    <2> HIDE DEF rest, n
    <2> QED
      BY <1>8
  <1> HIDE DEF rest
  <1>11. ASSUME NEW k \in 1..n, \A j \in k + 1..n : j \in P PROVE k \in P
    <2>1. \A j \in k + 1..n : rest[j] \in Reading
      BY <1>11
    <2>2. rest[k] \in Reading
      BY <1>2, <1>10, <2>1
    <2> QED
      BY <2>2
  <1>12. 1..n \subseteq P
    <2> HIDE DEF P, n
    <2> QED
      BY <1>1, <1>11, DownInduction
  <1>13. rest \in [1..n -> Reading]
    <2> HIDE DEF n
    <2> QED
      BY <1>8, <1>12
  <1> QED
    BY <1>9, <1>10, <1>13 DEF ReadsOn

-----------------------------------------------------------------------------
(* Strings as they are archived *)

\* The bytes a character takes.
Taken(c) == Len(Escaped(c))

\* What a character is archived as, and how many bytes that takes.
LEMMA EscapedIs ==
  ASSUME NEW c \in Letter
  PROVE  /\ Escaped(c) \in Seq(Letter) /\ Taken(c) \in Nat \ {0}
         /\ c \notin {"q", "b", "n", "U"} => Escaped(c) = <<c>>
         /\ c \in {"q", "b", "n"} => Escaped(c) = <<"b", c>>
         /\ c = "U" => /\ Taken(c) = 2 + CodeDigits
                       /\ Escaped(c)[1] = "b" /\ Escaped(c)[2] = "u"
                       /\ \A j \in 3..2 + CodeDigits : Escaped(c)[j] = "h"
PROOF
  <1>1. CASE c \in {"q", "b", "n"}
    <2>1. Escaped(c) = <<"b", c>>
      BY <1>1 DEF Escaped
    <2>2. "b" \in Letter
      BY LettersAre
    <2> QED
      BY <1>1, <2>1, <2>2 DEF Taken
  <1>2. CASE c = "U"
    <2> DEFINE code == [k \in 1..CodeDigits |-> "h"]
    <2>1. Escaped(c) = <<"b", "u">> \o code
      BY <1>2 DEF Escaped
    <2>2. CodeDigits \in Nat /\ "b" \in Letter /\ "u" \in Letter /\ "h" \in Letter
      BY FragmentsAssumption, LettersAre
    <2>3. code \in Seq(Letter) /\ Len(code) = CodeDigits /\ \A j \in 1..CodeDigits : code[j] = "h"
      BY <2>2
    <2> HIDE DEF code
    <2>4. /\ <<"b", "u">> \o code \in Seq(Letter) /\ Len(<<"b", "u">> \o code) = 2 + CodeDigits
          /\ (<<"b", "u">> \o code)[1] = "b" /\ (<<"b", "u">> \o code)[2] = "u"
      BY <2>2, <2>3
    <2>5. ASSUME NEW j \in 3..2 + CodeDigits PROVE (<<"b", "u">> \o code)[j] = "h"
      <3>1. j - 2 \in 1..CodeDigits /\ (<<"b", "u">> \o code)[j] = code[j - 2]
        BY <2>2, <2>3
      <3> QED
        BY <2>3, <3>1
    <2> DEFINE w == <<"b", "u">> \o code
    <2>6. Escaped(c) = w /\ w \in Seq(Letter) /\ Len(w) = 2 + CodeDigits
          /\ w[1] = "b" /\ w[2] = "u" /\ \A j \in 3..2 + CodeDigits : w[j] = "h"
      BY <2>1, <2>4, <2>5
    <2> HIDE DEF w
    <2>7. Taken(c) = 2 + CodeDigits /\ Taken(c) \in Nat \ {0}
      BY <2>2, <2>6 DEF Taken
    <2>8. c \in {"q", "b", "n", "U"} /\ c \notin {"q", "b", "n"}
      BY <1>2
    <2> QED
      BY <2>6, <2>7, <2>8
  <1>3. CASE c \notin {"q", "b", "n", "U"}
    <2>1. Escaped(c) = <<c>>
      BY <1>3 DEF Escaped
    <2> QED
      BY <1>3, <2>1 DEF Taken
  <1> QED
    BY <1>1, <1>2, <1>3

Escapes(s) == [k \in DOMAIN s |-> Escaped(s[k])]

\* The escapes of a string, one for each of its characters.
LEMMA EscapesAre ==
  ASSUME NEW s \in Seq(Letter)
  PROVE  /\ Escapes(s) \in Seq(Seq(Letter)) /\ Len(Escapes(s)) = Len(s)
         /\ \A k \in 1..Len(s) : Escapes(s)[k] = Escaped(s[k])
         /\ Encode(s) = FlattenSeq(Escapes(s)) /\ Encode(s) \in Seq(Letter)
PROOF
  <1>1. \A k \in 1..Len(s) : Escaped(s[k]) \in Seq(Letter)
    BY EscapedIs
  <1> DEFINE S == Seq(Letter)
  <1>2. Escapes(s) \in Seq(S) /\ Len(Escapes(s)) = Len(s)
        /\ \A k \in 1..Len(s) : Escapes(s)[k] = Escaped(s[k])
    BY <1>1 DEF Escapes
  <1>3. Encode(s) = FlattenSeq(Escapes(s))
    BY DEF Encode, Escapes
  <1>4. FlattenSeq(Escapes(s)) \in Seq(Letter)
    BY <1>2, FlattenedParts
  <1> QED
    BY <1>2, <1>3, <1>4

\* Strings written one after the other are written as they are alone.
LEMMA EncodeJoined ==
  ASSUME NEW s \in Seq(Letter), NEW t \in Seq(Letter)
  PROVE  Encode(s \o t) = Encode(s) \o Encode(t)
PROOF
  <1> DEFINE w == s \o t
  <1>1. w \in Seq(Letter) /\ Len(w) = Len(s) + Len(t)
        /\ (\A k \in 1..Len(s) : w[k] = s[k]) /\ \A k \in 1..Len(t) : w[Len(s) + k] = t[k]
    BY Concatenated DEF Joined
  <1> HIDE DEF w
  <1>2. Len(s) \in Nat /\ Len(t) \in Nat
    OBVIOUS
  <1>3. Joined(Escapes(w), Escapes(s), Escapes(t))
    <2>1. /\ Len(Escapes(w)) = Len(w) /\ Len(Escapes(s)) = Len(s) /\ Len(Escapes(t)) = Len(t)
          /\ \A k \in 1..Len(s) : Escapes(s)[k] = Escaped(s[k])
          /\ \A k \in 1..Len(t) : Escapes(t)[k] = Escaped(t[k])
          /\ \A k \in 1..Len(w) : Escapes(w)[k] = Escaped(w[k])
      BY <1>1, EscapesAre
    <2>2. \A k \in 1..Len(s) : k \in 1..Len(w)
      BY <1>1, <1>2
    <2>3. \A k \in 1..Len(t) : Len(s) + k \in 1..Len(w)
      BY <1>1, <1>2
    <2> QED
      BY <1>1, <2>1, <2>2, <2>3 DEF Joined
  <1>4. FlattenSeq(Escapes(w)) = FlattenSeq(Escapes(s)) \o FlattenSeq(Escapes(t))
    BY <1>1, <1>3, EscapesAre, FlattenJoined
  <1>5. Encode(w) = Encode(s) \o Encode(t)
    BY <1>1, <1>4, EscapesAre
  <1> QED
    BY <1>5 DEF w

\* A string is archived character by character.
LEMMA EncodeSteps ==
  /\ Encode(<<>>) = <<>>
  /\ \A c \in Letter, t \in Seq(Letter) :
       <<c>> \o t \in Seq(Letter) /\ Encode(<<c>> \o t) = Escaped(c) \o Encode(t)
PROOF
  <1>1. Encode(<<>>) = <<>>
    <2>1. Escapes(<<>>) = <<>>
      BY DEF Escapes
    <2>2. <<>> \in Seq(Letter)
      OBVIOUS
    <2>3. FlattenSeq(<<>>) = <<>>
      BY <2>2, FlattenOne
    <2>4. Encode(<<>>) = FlattenSeq(Escapes(<<>>))
      BY <2>2, EscapesAre
    <2> QED
      BY <2>1, <2>3, <2>4
  <1>2. ASSUME NEW c \in Letter, NEW t \in Seq(Letter)
        PROVE  <<c>> \o t \in Seq(Letter) /\ Encode(<<c>> \o t) = Escaped(c) \o Encode(t)
    <2> DEFINE s == <<c>>
    <2>1. s \in Seq(Letter) /\ Len(s) = 1 /\ s[1] = c /\ s \o t \in Seq(Letter)
      OBVIOUS
    <2> HIDE DEF s
    <2>2. Encode(s \o t) = Encode(s) \o Encode(t)
      BY <2>1, EncodeJoined
    <2>3. Encode(s) = Escaped(c)
      <3>0. /\ Escapes(s) \in Seq(Seq(Letter)) /\ Len(Escapes(s)) = Len(s)
            /\ \A k \in 1..Len(s) : Escapes(s)[k] = Escaped(s[k])
            /\ Encode(s) = FlattenSeq(Escapes(s))
        BY <2>1, EscapesAre
      <3> DEFINE x == Escaped(c)
                 q == Escapes(s)
      <3>1. x \in Seq(Letter)
        BY EscapedIs
      <3>2. Len(q) = 1 /\ q[1] = x /\ q \in Seq(Seq(Letter)) /\ Encode(s) = FlattenSeq(q)
        BY <2>1, <3>0
      <3> HIDE DEF x, q
      <3>3. q = <<x>>
        BY <3>2
      <3>4. FlattenSeq(<<x>>) = x
        BY <3>1, FlattenOne
      <3> QED
        BY <3>2, <3>3, <3>4 DEF x
    <2> QED
      BY <2>1, <2>2, <2>3 DEF s
  <1> QED
    BY <1>1, <1>2

\* How many characters of s fit into so many bytes.
FitLen(s, r) == Max({0} \cup {c \in DOMAIN s : Len(Encode(Upto(s, c))) <= r})

\* As many characters of a string as have room are its longest such prefix.
LEMMA FitIs ==
  ASSUME NEW s \in Seq(Letter), NEW r \in Int
  PROVE  /\ FitLen(s, r) \in 0..Len(s) /\ Fit(s, r) = Upto(s, FitLen(s, r))
         /\ FitLen(s, r) > 0 => Len(Encode(Upto(s, FitLen(s, r)))) <= r
         /\ \A c \in 1..Len(s) : Len(Encode(Upto(s, c))) <= r => c <= FitLen(s, r)
PROOF
  <1> DEFINE S == {0} \cup {c \in DOMAIN s : Len(Encode(Upto(s, c))) <= r}
  <1>1. Len(s) \in Nat /\ S \in SUBSET (0..Len(s)) /\ S # {} /\ DOMAIN s = 1..Len(s)
    OBVIOUS
  <1> DEFINE m == Max(S)
  <1>2. m \in S /\ \A k \in S : m >= k
    BY <1>1, MaxOfBounded
  <1>3. FitLen(s, r) = m /\ Fit(s, r) = Upto(s, m)
    BY DEF FitLen, Fit
  <1> HIDE DEF m
  <1>4. m \in 0..Len(s)
    BY <1>1, <1>2
  <1>5. m > 0 => Len(Encode(Upto(s, m))) <= r
    BY <1>2
  <1>6. \A c \in 1..Len(s) : Len(Encode(Upto(s, c))) <= r => c <= m
    <2>1. \A c \in 1..Len(s) : Len(Encode(Upto(s, c))) <= r => c \in S
      BY <1>1
    <2>2. \A c \in S : c \in Nat
      BY <1>1
    <2> HIDE DEF S
    <2> QED
      BY <1>2, <1>4, <2>1
  <1> QED
    BY <1>3, <1>4, <1>5, <1>6

\* The beginning of a sequence with an element in front.
LEMMA UptoFront ==
  ASSUME NEW c \in Letter, NEW t \in Seq(Letter), NEW j \in 1..Len(t) + 1
  PROVE  /\ Len(<<c>> \o t) = Len(t) + 1
         /\ Upto(t, j - 1) \in Seq(Letter)
         /\ Upto(<<c>> \o t, j) = <<c>> \o Upto(t, j - 1)
PROOF
  <1> DEFINE s == <<c>> \o t
             u == Upto(t, j - 1)
             v == <<c>> \o u
             w == Upto(s, j)
  <1>1. s \in Seq(Letter) /\ Len(s) = Len(t) + 1 /\ s[1] = c /\ \A i \in 1..Len(t) : s[i + 1] = t[i]
    OBVIOUS
  <1>2. Len(t) \in Nat
    OBVIOUS
  <1>3. u \in Seq(Letter) /\ Len(u) = j - 1 /\ \A i \in 1..j - 1 : u[i] = t[i]
    BY <1>2 DEF Upto
  <1> HIDE DEF s
  <1>4. w \in Seq(Letter) /\ Len(w) = j /\ \A i \in 1..j : w[i] = s[i]
    BY <1>1, <1>2 DEF Upto
  <1> HIDE DEF u, w
  <1>5. v \in Seq(Letter) /\ Len(v) = j /\ v[1] = c /\ \A i \in 1..j - 1 : v[i + 1] = u[i]
    BY <1>3
  <1> HIDE DEF v
  <1>6. ASSUME NEW i \in 1..j PROVE w[i] = v[i]
    <2>1. CASE i = 1
      BY <1>1, <1>4, <1>5, <2>1
    <2>2. CASE i # 1
      <3>1. i - 1 \in 1..j - 1 /\ i - 1 \in 1..Len(t) /\ (i - 1) + 1 = i
        BY <1>2, <2>2
      <3> DEFINE k == i - 1
      <3>2. k \in 1..j - 1 /\ k \in 1..Len(t) /\ k + 1 = i
        BY <3>1
      <3> HIDE DEF k
      <3>3. s[k + 1] = t[k] /\ u[k] = t[k] /\ v[k + 1] = u[k]
        BY <1>1, <1>3, <1>5, <3>2
      <3>4. w[i] = s[i]
        BY <1>4
      <3> QED
        BY <3>2, <3>3, <3>4
    <2> QED
      BY <2>1, <2>2
  <1>7. w = v
    BY <1>4, <1>5, <1>6
  <1> QED
    BY <1>1, <1>3, <1>7 DEF s, u, v, w

\* A first character that has room is followed by those that still have.
LEMMA FitSteps ==
  ASSUME NEW r \in Int
  PROVE  /\ Fit(<<>>, r) = <<>>
         /\ \A c \in Letter, t \in Seq(Letter) :
              Fit(<<c>> \o t, r) = IF Taken(c) <= r THEN <<c>> \o Fit(t, r - Taken(c)) ELSE <<>>
PROOF
  <1>1. Fit(<<>>, r) = <<>>
    <2> DEFINE e == <<>>
    <2>1. e \in Seq(Letter) /\ Len(e) = 0
      OBVIOUS
    <2> HIDE DEF e
    <2>2. FitLen(e, r) \in 0..Len(e) /\ Fit(e, r) = Upto(e, FitLen(e, r))
      BY <2>1, FitIs
    <2>3. FitLen(e, r) = 0
      BY <2>1, <2>2
    <2> QED
      BY <2>2, <2>3 DEF Upto, e
  <1>2. ASSUME NEW c \in Letter, NEW t \in Seq(Letter)
        PROVE  Fit(<<c>> \o t, r) = IF Taken(c) <= r THEN <<c>> \o Fit(t, r - Taken(c)) ELSE <<>>
    <2> DEFINE s == <<c>> \o t
               w == Taken(c)
               L(k) == Len(Encode(Upto(s, k)))
               M(k) == Len(Encode(Upto(t, k)))
               a == FitLen(s, r)
               b == FitLen(t, r - w)
    <2>1. w \in Nat \ {0} /\ s \in Seq(Letter) /\ Len(s) = Len(t) + 1 /\ Len(t) \in Nat /\ r - w \in Int
      BY EscapedIs
    <2>2. ASSUME NEW j \in 1..Len(t) + 1
          PROVE  Upto(s, j) = <<c>> \o Upto(t, j - 1) /\ L(j) = w + M(j - 1) /\ M(j - 1) \in Nat
      <3> DEFINE u == Upto(t, j - 1)
      <3>1. u \in Seq(Letter) /\ Upto(s, j) = <<c>> \o u
        BY UptoFront
      <3> HIDE DEF u, s
      <3>2. Encode(<<c>> \o u) = Escaped(c) \o Encode(u)
        BY <3>1, EncodeSteps
      <3>3. Escaped(c) \in Seq(Letter) /\ Encode(u) \in Seq(Letter)
        BY <3>1, EscapedIs, EscapesAre
      <3>4. Len(Escaped(c) \o Encode(u)) = Taken(c) + Len(Encode(u)) /\ Len(Encode(u)) \in Nat
        BY <3>3 DEF Taken
      <3> QED
        BY <3>1, <3>2, <3>4 DEF u
    <2>3. M(0) = 0
      <3>1. Upto(t, 0) = <<>>
        BY DEF Upto
      <3> QED
        BY <3>1, EncodeSteps
    <2>4. /\ a \in 0..Len(s) /\ Fit(s, r) = Upto(s, a) /\ (a > 0 => L(a) <= r)
          /\ \A k \in 1..Len(s) : L(k) <= r => k <= a
      <3> HIDE DEF s
      <3> QED
        BY <2>1, FitIs
    <2>5. /\ b \in 0..Len(t) /\ Fit(t, r - w) = Upto(t, b) /\ (b > 0 => M(b) <= r - w)
          /\ \A k \in 1..Len(t) : M(k) <= r - w => k <= b
      <3> HIDE DEF w
      <3> QED
        BY <2>1, FitIs
    <2> HIDE DEF s, w, L, M, a, b
    <2>6. CASE w <= r
      <3>1. M(b) <= r - w
        BY <2>1, <2>3, <2>5, <2>6
      <3>2. b + 1 <= a
        <4>1. b + 1 \in 1..Len(t) + 1 /\ (b + 1) - 1 = b
          BY <2>1, <2>5
        <4>2. L(b + 1) = w + M(b) /\ M(b) \in Nat
          BY <2>2, <4>1
        <4> QED
          BY <2>1, <2>4, <3>1, <4>1, <4>2
      <3>3. a \in 1..Len(t) + 1 /\ L(a) = w + M(a - 1) /\ M(a - 1) \in Nat
        BY <2>1, <2>2, <2>4, <2>5, <3>2
      <3>4. M(a - 1) <= r - w
        BY <2>1, <2>4, <3>3
      <3>5. a - 1 <= b
        <4>1. a - 1 = 0 \/ a - 1 \in 1..Len(t)
          BY <2>1, <3>3
        <4> QED
          BY <2>5, <3>4, <4>1
      <3>6. a - 1 = b
        BY <2>5, <3>2, <3>3, <3>5
      <3> QED
        BY <2>2, <2>4, <2>5, <2>6, <3>3, <3>6 DEF s, w
    <2>7. CASE ~ (w <= r)
      <3>1. a = 0
        <4>1. a # 0 => a \in 1..Len(t) + 1 /\ L(a) <= r
          BY <2>1, <2>4
        <4>2. a # 0 => L(a) = w + M(a - 1) /\ M(a - 1) \in Nat
          BY <2>2, <4>1
        <4> QED
          BY <2>1, <2>7, <4>1, <4>2
      <3>2. Upto(s, 0) = <<>>
        BY DEF Upto
      <3> QED
        BY <2>4, <2>7, <3>1, <3>2 DEF s, w
    <2> QED
      BY <2>6, <2>7
  <1> QED
    BY <1>1, <1>2

-----------------------------------------------------------------------------
(* What stands in a part *)

\* The part d goes on with w from i on, as far as it reaches.
Holds(d, i, w) == \A j \in 1..Len(w) : i + j - 1 <= Len(d) => d[i + j - 1] = w[j]

\* A part holds two strings in a row if it holds each at its place.
LEMMA HoldsBoth ==
  ASSUME NEW d, NEW i \in Int, NEW u \in Seq(Letter), NEW v \in Seq(Letter)
  PROVE  Holds(d, i, u \o v) <=> Holds(d, i, u) /\ Holds(d, i + Len(u), v)
PROOF
  <1> DEFINE w == u \o v
             m == Len(u)
             n == Len(v)
  <1>1. m \in Nat /\ n \in Nat
    OBVIOUS
  <1>2. Len(w) = m + n /\ (\A k \in 1..m : w[k] = u[k]) /\ \A k \in 1..n : w[m + k] = v[k]
    OBVIOUS
  <1> HIDE DEF w, m, n
  <1>3. ASSUME Holds(d, i, w) PROVE Holds(d, i, u) /\ Holds(d, i + m, v)
    <2>1. \A j \in 1..m : j \in 1..Len(w)
      BY <1>1, <1>2
    <2>2. \A j \in 1..n : m + j \in 1..Len(w) /\ i + (m + j) - 1 = i + m + j - 1
      BY <1>1, <1>2
    <2>3. \A j \in 1..m : i + j - 1 <= Len(d) => d[i + j - 1] = u[j]
      BY <1>2, <1>3, <2>1 DEF Holds
    <2>4. \A j \in 1..n : i + m + j - 1 <= Len(d) => d[i + m + j - 1] = v[j]
      BY <1>2, <1>3, <2>2 DEF Holds
    <2> QED
      BY <2>3, <2>4 DEF Holds, m, n
  <1>4. ASSUME Holds(d, i, u), Holds(d, i + m, v) PROVE Holds(d, i, w)
    <2>1. ASSUME NEW j \in 1..Len(w), i + j - 1 <= Len(d) PROVE d[i + j - 1] = w[j]
      <3>1. CASE j <= m
        <4>1. j \in 1..m
          BY <1>1, <1>2, <3>1
        <4> QED
          BY <1>2, <1>4, <2>1, <4>1 DEF Holds, m
      <3>2. CASE ~ (j <= m)
        <4>1. j - m \in 1..n /\ m + (j - m) = j /\ i + m + (j - m) - 1 = i + j - 1
          BY <1>1, <1>2, <3>2
        <4>2. w[m + (j - m)] = v[j - m]
          BY <1>2, <4>1
        <4>3. i + m + (j - m) - 1 <= Len(d) => d[i + m + (j - m) - 1] = v[j - m]
          BY <1>4, <4>1 DEF Holds, n
        <4> QED
          BY <2>1, <4>1, <4>2, <4>3
      <3> QED
        BY <3>1, <3>2
    <2> QED
      BY <2>1 DEF Holds
  <1> QED
    BY <1>3, <1>4 DEF w, m

\* A part that goes on with one element.
LEMMA HoldsOne ==
  ASSUME NEW d, NEW i \in Int, NEW c
  PROVE  Holds(d, i, <<c>>) <=> (i <= Len(d) => d[i] = c)
PROOF
  <1>1. Len(<<c>>) = 1 /\ <<c>>[1] = c /\ i + 1 - 1 = i
    OBVIOUS
  <1> QED
    BY <1>1 DEF Holds

\* What is read of a string at the end of a part, at a quote, and at a character.
LEMMA InsideEnds ==
  ASSUME NEW d \in Seq(Letter), NEW k \in 1..Len(d) + 1,
         k <= Len(d) => d[k] # "q" /\ CharAt(d, k).cut
  PROVE  Inside(d, k) = [text |-> <<>>, next |-> Len(d) + 1, done |-> FALSE]
PROOF
  <1>1. PICK f \in [1..Len(d) + 1 -> Reading] : ReadsOn(d, f) /\ \A i : Inside(d, i) = f[i]
    BY InsideRecursion
  <1>2. Inside(d, k) = ReadOn(d, k, f)
    BY <1>1 DEF ReadsOn
  <1>3. CASE k > Len(d)
    BY <1>2, <1>3 DEF ReadOn
  <1>4. CASE ~ (k > Len(d))
    <2>1. d[k] # "q" /\ CharAt(d, k).cut
      BY <1>4
    <2> QED
      BY <1>2, <1>4, <2>1, Zenon DEF ReadOn
  <1> QED
    BY <1>3, <1>4

\* A string ends at a quote.
LEMMA InsideQuote ==
  ASSUME NEW d \in Seq(Letter), NEW k \in 1..Len(d), d[k] = "q"
  PROVE  Inside(d, k) = [text |-> <<>>, next |-> k + 1, done |-> TRUE]
PROOF
  <1>1. PICK f \in [1..Len(d) + 1 -> Reading] : ReadsOn(d, f) /\ \A i : Inside(d, i) = f[i]
    BY InsideRecursion
  <1>2. Inside(d, k) = ReadOn(d, k, f)
    BY <1>1 DEF ReadsOn
  <1>3. ~ (k > Len(d))
    OBVIOUS
  <1> QED
    BY <1>2, <1>3, Zenon DEF ReadOn

\* A character that is whole is read and the string goes on behind it.
LEMMA InsideGoesOn ==
  ASSUME NEW d \in Seq(Letter), NEW k \in 1..Len(d), d[k] # "q", ~CharAt(d, k).cut
  PROVE  /\ CharAt(d, k).next \in k + 1..Len(d) + 1
         /\ Inside(d, k) = [Inside(d, CharAt(d, k).next) EXCEPT !.text = <<CharAt(d, k).char>> \o @]
PROOF
  <1>1. PICK f \in [1..Len(d) + 1 -> Reading] : ReadsOn(d, f) /\ \A i : Inside(d, i) = f[i]
    BY InsideRecursion
  <1>2. Inside(d, k) = ReadOn(d, k, f)
    BY <1>1 DEF ReadsOn
  <1>3. ~ (k > Len(d))
    OBVIOUS
  <1>4. CharAt(d, k).next \in k + 1..Len(d) + 1
    BY CharAtEnds
  <1>5. ReadOn(d, k, f) = [f[CharAt(d, k).next] EXCEPT !.text = <<CharAt(d, k).char>> \o @]
    BY <1>3, Zenon DEF ReadOn
  <1> QED
    BY <1>1, <1>2, <1>4, <1>5

\* A character that stands in a part is read as it is, or cut off with the part.
LEMMA CharAtHeld ==
  ASSUME NEW d \in Seq(Letter), NEW k \in 1..Len(d), NEW c \in Letter, Holds(d, k, Escaped(c))
  PROVE  /\ d[k] # "q"
         /\ k + Taken(c) <= Len(d) + 1 => CharAt(d, k) = [char |-> c, next |-> k + Taken(c), cut |-> FALSE]
         /\ ~ (k + Taken(c) <= Len(d) + 1) => CharAt(d, k).cut
PROOF
  <1>1. Len(d) \in Nat /\ CodeDigits \in Nat /\ Taken(c) \in Nat \ {0} /\ Taken(c) = Len(Escaped(c))
    BY FragmentsAssumption, EscapedIs DEF Taken
  <1>2. \A j \in 1..Taken(c) : k + j - 1 <= Len(d) => d[k + j - 1] = Escaped(c)[j]
    BY <1>1 DEF Holds
  <1>3. d[k] = Escaped(c)[1]
    <2>1. 1 \in 1..Taken(c) /\ k + 1 - 1 = k /\ k <= Len(d)
      BY <1>1
    <2> QED
      BY <1>2, <2>1
  <1>4. CASE c \notin {"q", "b", "n", "U"}
    <2>1. Escaped(c) = <<c>>
      BY <1>4, EscapedIs
    <2>2. Taken(c) = 1 /\ d[k] = c
      BY <1>1, <1>3, <2>1
    <2>3. CharAt(d, k) = [char |-> c, next |-> k + 1, cut |-> FALSE]
      BY <1>4, <2>2 DEF CharAt
    <2> QED
      BY <1>1, <1>4, <2>2, <2>3
  <1>5. CASE c \in {"q", "b", "n"}
    <2>1. Escaped(c) = <<"b", c>>
      BY <1>5, EscapedIs
    <2>2. Taken(c) = 2 /\ d[k] = "b"
      BY <1>1, <1>3, <2>1
    <2>3. CASE k = Len(d)
      <3>1. CharAt(d, k).cut
        BY <2>2, <2>3 DEF CharAt
      <3> QED
        BY <1>1, <2>2, <2>3, <3>1
    <2>4. CASE k # Len(d)
      <3>1. d[k + 1] = c
        <4>1. 2 \in 1..Taken(c) /\ k + 2 - 1 = k + 1 /\ k + 1 <= Len(d)
          BY <1>1, <2>2, <2>4
        <4>2. d[k + 1] = Escaped(c)[2]
          BY <1>2, <4>1
        <4> QED
          BY <2>1, <4>2
      <3>2. d[k + 1] # "u"
        BY <1>5, <3>1
      <3>3. CharAt(d, k) = [char |-> d[k + 1], next |-> k + 2, cut |-> FALSE]
        BY <2>2, <2>4, <3>2 DEF CharAt
      <3> QED
        BY <1>1, <2>2, <2>4, <3>1, <3>3
    <2> QED
      BY <2>3, <2>4
  <1>6. CASE c = "U"
    <2>1. /\ Taken(c) = 2 + CodeDigits
          /\ Escaped(c)[1] = "b" /\ Escaped(c)[2] = "u"
          /\ \A j \in 3..2 + CodeDigits : Escaped(c)[j] = "h"
      BY <1>6, EscapedIs
    <2>2. d[k] = "b"
      BY <1>3, <2>1
    <2>3. CASE k = Len(d)
      <3>1. CharAt(d, k).cut
        BY <2>2, <2>3 DEF CharAt
      <3> QED
        BY <1>1, <2>1, <2>2, <2>3, <3>1
    <2>4. CASE k # Len(d)
      <3>1. d[k + 1] = "u"
        <4>1. 2 \in 1..Taken(c) /\ k + 2 - 1 = k + 1 /\ k + 1 <= Len(d)
          BY <1>1, <2>1, <2>4
        <4> QED
          BY <1>2, <2>1, <4>1
      <3>2. CASE k + 1 + CodeDigits > Len(d)
        <4>1. CharAt(d, k).cut
          BY <2>2, <3>1, <3>2 DEF CharAt
        <4> QED
          BY <1>1, <2>1, <2>2, <3>2, <4>1
      <3>3. CASE ~ (k + 1 + CodeDigits > Len(d))
        <4>1. ASSUME NEW j \in k + 2..k + 1 + CodeDigits PROVE d[j] = "h"
          <5> DEFINE m == j - k + 1
          <5>1. m \in 1..Taken(c) /\ m \in 3..2 + CodeDigits /\ k + m - 1 = j /\ j <= Len(d)
            BY <1>1, <2>1, <3>3
          <5> HIDE DEF m
          <5> QED
            BY <1>2, <2>1, <5>1
        <4> DEFINE coded == d[k + 1] = "u" /\ \A j \in k + 2..k + 1 + CodeDigits : d[j] = "h"
        <4>2. coded
          BY <3>1, <4>1
        <4>3. ~ (k = Len(d) \/ (d[k + 1] = "u" /\ k + 1 + CodeDigits > Len(d)))
          BY <2>4, <3>3
        <4>4. CharAt(d, k) = [char |-> "U", next |-> k + (2 + CodeDigits), cut |-> FALSE]
          BY <2>2, <4>2, <4>3 DEF CharAt
        <4>5. k + Taken(c) <= Len(d) + 1 /\ k + (2 + CodeDigits) = k + Taken(c)
          BY <1>1, <2>1, <3>3
        <4> HIDE DEF coded
        <4> QED
          BY <1>6, <2>2, <4>4, <4>5
      <3> QED
        BY <3>2, <3>3
    <2> QED
      BY <2>3, <2>4
  <1> QED
    BY <1>4, <1>5, <1>6

\* What is read of the string s that begins at i, its closing quote included.
StringRead(d, i, s) ==
  LET e == i + Len(Encode(s))
  IN [text |-> Fit(s, Len(d) + 1 - i), next |-> IF e <= Len(d) THEN e + 1 ELSE Len(d) + 1,
      done |-> e <= Len(d)]

Associates(a, b, e) == (a \o b) \o e = a \o (b \o e)

\* Strings may be joined in either order.
LEMMA JoinThree ==
  ASSUME NEW a \in Seq(Letter), NEW b \in Seq(Letter), NEW e \in Seq(Letter)
  PROVE  Associates(a, b, e)
PROOF
  <1>1. JoinsInAnyOrder(Letter)
    BY Associative
  <1> QED
    BY <1>1, Zenon DEF JoinsInAnyOrder, Associates

\* A string that goes on with a character goes on with its bytes and then with the
\* other characters.
LEMMA HoldsFront ==
  ASSUME NEW d \in Seq(Letter), NEW k \in Int, NEW c \in Letter, NEW t \in Seq(Letter), NEW u \in Seq(Letter),
         Holds(d, k, Encode(<<c>> \o t) \o u)
  PROVE  /\ Holds(d, k, Escaped(c)) /\ Holds(d, k + Taken(c), Encode(t) \o u)
         /\ Len(Encode(<<c>> \o t)) = Taken(c) + Len(Encode(t)) /\ Len(Encode(t)) \in Nat
PROOF
  <1> DEFINE x == Escaped(c)
             y == Encode(t)
             s == Encode(<<c>> \o t)
  <1>1. x \in Seq(Letter) /\ y \in Seq(Letter) /\ s = x \o y
    BY EscapedIs, EscapesAre, EncodeSteps
  <1>2. Holds(d, k, s \o u) /\ Taken(c) = Len(x)
    BY DEF Taken
  <1> HIDE DEF x, y, s
  <1>3. (x \o y) \o u = x \o (y \o u)
    <2>1. x \in Seq(Letter) /\ y \in Seq(Letter) /\ u \in Seq(Letter)
      BY <1>1
    <2>2. Associates(x, y, u)
      BY <2>1, JoinThree
    <2> QED
      BY <2>2 DEF Associates
  <1>4. y \o u \in Seq(Letter)
    BY <1>1
  <1>5. Holds(d, k, x \o (y \o u))
    BY <1>1, <1>2, <1>3
  <1> DEFINE z == y \o u
  <1>6. Holds(d, k, x) /\ Holds(d, k + Len(x), z)
    <2>1. z \in Seq(Letter) /\ Holds(d, k, x \o z)
      BY <1>4, <1>5
    <2> HIDE DEF z
    <2> QED
      BY <1>1, <2>1, HoldsBoth
  <1>7. Len(s) = Len(x) + Len(y) /\ Len(y) \in Nat
    BY <1>1
  <1> QED
    BY <1>2, <1>6, <1>7 DEF x, y, s

Quote == <<"q">>

\* The quote that ends a string.
LEMMA QuoteIs == Quote \in Seq(Letter) /\ Len(Quote) = 1 /\ Quote[1] = "q"
PROOF
  <1>1. "q" \in Letter
    BY LettersAre
  <1> QED
    BY <1>1 DEF Quote

\* Of an empty string the closing quote is read.
LEMMA InsideNothing ==
  ASSUME NEW d \in Seq(Letter), NEW k \in 1..Len(d) + 1, Holds(d, k, Encode(<<>>) \o Quote)
  PROVE  Inside(d, k) = StringRead(d, k, <<>>)
PROOF
  <1>1. Len(d) \in Nat /\ k \in Int /\ Len(d) + 1 - k \in Int
    OBVIOUS
  <1>2. Encode(<<>>) \o Quote = Quote
    <2>1. Encode(<<>>) = <<>>
      BY EncodeSteps
    <2>2. \A u \in Seq(Letter) : <<>> \o u = u
      OBVIOUS
    <2> QED
      BY <2>1, <2>2, QuoteIs
  <1>3. k <= Len(d) => d[k] = "q"
    <2>1. Holds(d, k, <<"q">>)
      BY <1>2 DEF Quote
    <2> QED
      BY <1>1, <2>1, HoldsOne
  <1>4. Len(Encode(<<>>)) = 0 /\ Fit(<<>>, Len(d) + 1 - k) = <<>>
    <2>1. Encode(<<>>) = <<>>
      BY EncodeSteps
    <2> QED
      BY <1>1, <2>1, FitSteps
  <1>5. StringRead(d, k, <<>>) =
          [text |-> <<>>, next |-> IF k <= Len(d) THEN k + 1 ELSE Len(d) + 1, done |-> k <= Len(d)]
    <2>1. k + Len(Encode(<<>>)) = k
      BY <1>1, <1>4
    <2> QED
      BY <1>4, <2>1 DEF StringRead
  <1>6. CASE k <= Len(d)
    <2>1. k \in 1..Len(d) /\ d[k] = "q"
      BY <1>1, <1>3, <1>6
    <2>2. Inside(d, k) = [text |-> <<>>, next |-> k + 1, done |-> TRUE]
      BY <2>1, InsideQuote
    <2> QED
      BY <1>5, <1>6, <2>2
  <1>7. CASE ~ (k <= Len(d))
    <2>1. Inside(d, k) = [text |-> <<>>, next |-> Len(d) + 1, done |-> FALSE]
      BY <1>7, InsideEnds
    <2> DEFINE Y == k <= Len(d)
               X == IF Y THEN k + 1 ELSE Len(d) + 1
    <2>2. Y = FALSE /\ X = Len(d) + 1
      BY <1>7
    <2>3. StringRead(d, k, <<>>) = [text |-> <<>>, next |-> X, done |-> Y]
      BY <1>5
    <2> HIDE DEF X, Y
    <2> QED
      BY <2>1, <2>2, <2>3
  <1> QED
    BY <1>6, <1>7

\* What is read of a string with one more character in front of it.
LEMMA InsideFront ==
  ASSUME NEW d \in Seq(Letter), NEW c \in Letter, NEW t \in Seq(Letter),
         \A k \in 1..Len(d) + 1 : Holds(d, k, Encode(t) \o Quote) => Inside(d, k) = StringRead(d, k, t),
         NEW k \in 1..Len(d) + 1, Holds(d, k, Encode(<<c>> \o t) \o Quote)
  PROVE  Inside(d, k) = StringRead(d, k, <<c>> \o t)
PROOF
  <1> DEFINE s == <<c>> \o t
             w == Taken(c)
             r == Len(d) + 1 - k
             e == k + Len(Encode(s))
  <1>1. Len(d) \in Nat /\ Quote \in Seq(Letter) /\ w \in Nat \ {0} /\ r \in Int /\ k \in Int
    <2>1. w \in Nat \ {0} /\ Quote \in Seq(Letter)
      BY EscapedIs, QuoteIs
    <2> HIDE DEF w
    <2> QED
      BY <2>1
  <1>2. /\ Holds(d, k, Escaped(c)) /\ Holds(d, k + w, Encode(t) \o Quote)
        /\ Len(Encode(s)) = w + Len(Encode(t)) /\ Len(Encode(t)) \in Nat
    BY <1>1, HoldsFront
  <1>3. Fit(s, r) = IF w <= r THEN <<c>> \o Fit(t, r - w) ELSE <<>>
    <2> HIDE DEF r
    <2> QED
      BY <1>1, FitSteps
  <1>4. StringRead(d, k, s) = [text |-> Fit(s, r), next |-> IF e <= Len(d) THEN e + 1 ELSE Len(d) + 1,
                               done |-> e <= Len(d)]
    BY DEF StringRead
  <1> HIDE DEF s, w, r
  <1>5. e = k + w + Len(Encode(t))
    BY <1>1, <1>2
  <1> HIDE DEF e
  <1>6. CASE ~ (w <= r)
    <2>1. ~ (e <= Len(d)) /\ ~ (k + w <= Len(d) + 1)
      BY <1>1, <1>2, <1>5, <1>6 DEF r
    <2>2. StringRead(d, k, s) = [text |-> <<>>, next |-> Len(d) + 1, done |-> FALSE]
      <3> DEFINE Y == e <= Len(d)
                 X == IF Y THEN e + 1 ELSE Len(d) + 1
                 F == Fit(s, r)
      <3>1. Y = FALSE /\ X = Len(d) + 1 /\ F = <<>>
        BY <1>3, <1>6, <2>1
      <3>2. StringRead(d, k, s) = [text |-> F, next |-> X, done |-> Y]
        BY <1>4
      <3> HIDE DEF X, Y, F
      <3> QED
        BY <3>1, <3>2
    <2>3. k <= Len(d) => d[k] # "q" /\ CharAt(d, k).cut
      <3>1. ASSUME k <= Len(d) PROVE d[k] # "q" /\ CharAt(d, k).cut
        <4>1. k \in 1..Len(d)
          BY <1>1, <3>1
        <4> QED
          BY <1>2, <2>1, <4>1, CharAtHeld DEF w
      <3> QED
        BY <3>1
    <2>4. Inside(d, k) = [text |-> <<>>, next |-> Len(d) + 1, done |-> FALSE]
      BY <2>3, InsideEnds
    <2> QED
      BY <2>2, <2>4 DEF s
  <1>7. CASE w <= r
    <2>1. k \in 1..Len(d) /\ k + w <= Len(d) + 1 /\ k + w \in 1..Len(d) + 1 /\ Len(d) + 1 - (k + w) = r - w
      BY <1>1, <1>7 DEF r
    <2>2. d[k] # "q" /\ CharAt(d, k) = [char |-> c, next |-> k + w, cut |-> FALSE]
      BY <1>2, <2>1, CharAtHeld DEF w
    <2>3. ~CharAt(d, k).cut /\ CharAt(d, k).next = k + w /\ CharAt(d, k).char = c
      BY <2>2
    <2>4. Inside(d, k) = [Inside(d, CharAt(d, k).next) EXCEPT !.text = <<CharAt(d, k).char>> \o @]
      BY <2>1, <2>2, <2>3, InsideGoesOn
    <2>5. Inside(d, k + w) = StringRead(d, k + w, t)
      BY <1>2, <2>1
    <2> DEFINE F == Fit(t, r - w)
               X == IF e <= Len(d) THEN e + 1 ELSE Len(d) + 1
               Y == e <= Len(d)
    <2>6. StringRead(d, k + w, t) = [text |-> F, next |-> X, done |-> Y]
      BY <1>5, <2>1 DEF StringRead
    <2>7. Inside(d, k + w) = [text |-> F, next |-> X, done |-> Y]
      BY <2>5, <2>6
    <2>8. StringRead(d, k, s) = [text |-> <<c>> \o F, next |-> X, done |-> Y]
      BY <1>3, <1>4, <1>7
    <2> HIDE DEF F, X, Y
    <2>9. Inside(d, k) = [text |-> <<c>> \o F, next |-> X, done |-> Y]
      <3> DEFINE R == Inside(d, k + w)
      <3>1. Inside(d, k) = [R EXCEPT !.text = <<c>> \o @]
        BY <2>3, <2>4
      <3>2. R = [text |-> F, next |-> X, done |-> Y]
        BY <2>7
      <3> HIDE DEF R
      <3> QED
        BY <3>1, <3>2
    <2> QED
      BY <2>8, <2>9 DEF s
  <1> QED
    BY <1>6, <1>7

\* A string that begins at i is read as far as it reaches into the part.
LEMMA InsideIs ==
  ASSUME NEW d \in Seq(Letter), NEW s \in Seq(Letter), NEW i \in 1..Len(d) + 1,
         Holds(d, i, Encode(s) \o Quote)
  PROVE  Inside(d, i) = StringRead(d, i, s)
PROOF
  <1> DEFINE Claim(t) == \A k \in 1..Len(d) + 1 :
               Holds(d, k, Encode(t) \o Quote) => Inside(d, k) = StringRead(d, k, t)
             Q == {t \in Seq(Letter) : Claim(t)}
  <1>1. Claim(<<>>)
    BY InsideNothing
  <1>2. ASSUME NEW c \in Letter, NEW t \in Seq(Letter), Claim(t) PROVE Claim(<<c>> \o t)
    BY <1>2, InsideFront
  <1>3. <<>> \in Q /\ \A c \in Letter, t \in Seq(Letter) : t \in Q => <<c>> \o t \in Q
    <2> HIDE DEF Claim
    <2>1. \A c \in Letter, t \in Seq(Letter) : <<c>> \o t \in Seq(Letter)
      BY EncodeSteps
    <2> QED
      BY <1>1, <1>2, <2>1
  <1>4. s \in Q
    <2> HIDE DEF Q
    <2> QED
      BY <1>3, SequenceInduction
  <1> QED
    BY <1>4

-----------------------------------------------------------------------------
(* One pair *)

\* Reading a string ends where it began or later, and within the part.
LEMMA InsideRange ==
  ASSUME NEW d \in Seq(Letter)
  PROVE  \A i \in 1..Len(d) + 1 : Inside(d, i) \in Reading /\ Inside(d, i).next \in i..Len(d) + 1
PROOF
  <1> DEFINE n == Len(d) + 1
             P == {k \in 1..n : Inside(d, k) \in Reading /\ Inside(d, k).next \in k..n}
  <1>1. Len(d) \in Nat /\ n \in Nat
    OBVIOUS
  <1>2. \A k \in 1..n : Inside(d, k) \in Reading
    <2>1. PICK f \in [1..Len(d) + 1 -> Reading] : ReadsOn(d, f) /\ \A i : Inside(d, i) = f[i]
      BY InsideRecursion
    <2> QED
      BY <2>1
  <1>3. ASSUME NEW k \in 1..n, \A j \in k + 1..n : j \in P PROVE k \in P
    <2>1. CASE k <= Len(d) => d[k] # "q" /\ CharAt(d, k).cut
      <3>1. Inside(d, k) = [text |-> <<>>, next |-> Len(d) + 1, done |-> FALSE]
        BY <2>1, InsideEnds
      <3> QED
        BY <1>1, <1>2, <3>1
    <2>2. CASE k <= Len(d) /\ d[k] = "q"
      <3>1. Inside(d, k) = [text |-> <<>>, next |-> k + 1, done |-> TRUE]
        BY <1>1, <2>2, InsideQuote
      <3> QED
        BY <1>1, <1>2, <2>2, <3>1
    <2>3. CASE k <= Len(d) /\ d[k] # "q" /\ ~CharAt(d, k).cut
      <3> DEFINE c == CharAt(d, k)
                 m == c.next
                 R == Inside(d, m)
      <3>1. k \in 1..Len(d)
        BY <1>1, <2>3
      <3>2. m \in k + 1..Len(d) + 1 /\ Inside(d, k) = [R EXCEPT !.text = <<c.char>> \o @]
        BY <2>3, <3>1, InsideGoesOn
      <3>3. R \in Reading /\ R.next \in m..n
        BY <1>3, <3>2
      <3> HIDE DEF R, m, c
      <3>4. Inside(d, k).next = R.next
        BY <3>2, <3>3 DEF Reading
      <3>5. Inside(d, k).next \in k..n
        BY <1>1, <3>2, <3>3, <3>4
      <3> QED
        BY <1>2, <3>5
    <2> QED
      BY <2>1, <2>2, <2>3
  <1>4. 1..n \subseteq P
    <2> HIDE DEF P, n
    <2> QED
      BY <1>1, <1>3, DownInduction
  <1> QED
    BY <1>4

\* Reading a string never leaves the part nor goes back in it.
LEMMA ReadStringRange ==
  ASSUME NEW d \in Seq(Letter), NEW i \in 1..Len(d) + 1
  PROVE  ReadString(d, i).is \in Reading /\ ReadString(d, i).is.next \in i..Len(d) + 1
PROOF
  <1> DEFINE k == Skip(d, i)
             there == k <= Len(d) /\ d[k] = "q"
             r == ReadString(d, i).is
  <1>1. k \in i..Len(d) + 1 /\ Len(d) \in Nat
    BY SkipIs
  <1>2. r = IF there THEN Inside(d, k + 1) ELSE [text |-> <<>>, next |-> k, done |-> FALSE]
    BY DEF ReadString
  <1> HIDE DEF k
  <1>3. CASE there
    <2>1. k + 1 \in 1..Len(d) + 1
      BY <1>1, <1>3
    <2>2. Inside(d, k + 1) \in Reading /\ Inside(d, k + 1).next \in k + 1..Len(d) + 1
      BY <2>1, InsideRange
    <2> QED
      BY <1>1, <1>2, <1>3, <2>2
  <1>4. CASE ~there
    <2>1. r = [text |-> <<>>, next |-> k, done |-> FALSE]
      BY <1>2, <1>4
    <2> HIDE DEF r
    <2>2. r \in Reading /\ r.next \in i..Len(d) + 1
      BY <1>1, <2>1 DEF Reading
    <2> QED
      BY <2>2 DEF r
  <1> QED
    BY <1>3, <1>4

\* Passing over a byte never leaves the part nor goes back in it.
LEMMA PastRange ==
  ASSUME NEW d \in Seq(Letter), NEW i \in 1..Len(d) + 1, NEW B
  PROVE  Past(d, i, B) \in i..Len(d) + 1
PROOF
  <1>1. Skip(d, i) \in i..Len(d) + 1 /\ Len(d) \in Nat
    BY SkipIs
  <1> QED
    BY <1>1 DEF Past

\* Reading a pair gets on in the part and never leaves it.
LEMMA ReadPairRange ==
  ASSUME NEW d \in Seq(Letter), NEW i \in 1..Len(d)
  PROVE  ReadPair(d, i).pair \in HeaderPair /\ ReadPair(d, i).next \in i + 1..Len(d) + 1
PROOF
  <1> DEFINE name == ReadString(d, i + 1)
             j == Past(d, name.is.next, {"comma"})
             value == ReadString(d, j)
             both == name.is.done /\ value.found
  <1>1. Len(d) \in Nat /\ i + 1 \in 1..Len(d) + 1
    OBVIOUS
  <1>2. name.is \in Reading /\ name.is.next \in i + 1..Len(d) + 1
    BY <1>1, ReadStringRange
  <1>3. j \in i + 1..Len(d) + 1
    <2> DEFINE m == name.is.next
    <2>1. m \in 1..Len(d) + 1 /\ m \in i + 1..Len(d) + 1
      BY <1>1, <1>2
    <2>2. j = Past(d, m, {"comma"})
      OBVIOUS
    <2> HIDE DEF m, name, j
    <2>3. Past(d, m, {"comma"}) \in m..Len(d) + 1
      BY <2>1, PastRange
    <2>4. j \in m..Len(d) + 1
      BY <2>2, <2>3
    <2> QED
      BY <1>1, <2>1, <2>4
  <1>4. value.is \in Reading /\ value.is.next \in i + 1..Len(d) + 1
    <2> HIDE DEF j
    <2>1. j \in 1..Len(d) + 1
      BY <1>1, <1>3
    <2>2. value.is \in Reading /\ value.is.next \in j..Len(d) + 1
      BY <2>1, ReadStringRange
    <2> QED
      BY <1>1, <1>3, <2>2
  <1>5. ReadPair(d, i) = PairOf(d, name, value)
    BY DEF ReadPair
  <1> HIDE DEF name, value
  <1>6. ReadPair(d, i).pair = [name |-> name.is.text, value |-> IF both THEN value.is.text ELSE <<>>]
        /\ ReadPair(d, i).next = Past(d, value.is.next, {"]"})
    BY <1>5 DEF PairOf
  <1>7. ReadPair(d, i).pair \in HeaderPair
    BY <1>2, <1>4, <1>6 DEF HeaderPair, Reading
  <1>8. Past(d, value.is.next, {"]"}) \in i + 1..Len(d) + 1
    <2> DEFINE m == value.is.next
    <2>1. m \in 1..Len(d) + 1 /\ m \in i + 1..Len(d) + 1
      BY <1>1, <1>4
    <2> HIDE DEF m
    <2>2. Past(d, m, {"]"}) \in m..Len(d) + 1
      BY <2>1, PastRange
    <2> QED
      BY <1>1, <2>1, <2>2 DEF m
  <1> QED
    BY <1>6, <1>7, <1>8

\* What a pair of headers that begins at i is read to, as far as it reaches.
NameRoom(d, i) == Len(d) - 1 - i
ValueRoom(d, i, p) == Len(d) - 4 - i - Len(Encode(p.name))
PairLen(p) == Len(Encode(p.name)) + Len(Encode(p.value)) + 7

CutPair(d, i, p) == [name |-> Fit(p.name, NameRoom(d, i)), value |-> Fit(p.value, ValueRoom(d, i, p))]

Opening == <<"[", "q">>
Between == <<"q", "comma", "q">>
Closing == <<"q", "]">>

\* What a pair begins with.
LEMMA OpeningIs == Opening \in Seq(Letter) /\ Len(Opening) = 2 /\ Opening[1] = "[" /\ Opening[2] = "q"
PROOF
  <1>1. "[" \in Letter /\ "q" \in Letter
    BY DEF Letter, Character, Byte
  <1>2. Opening \in Seq(Letter)
    BY <1>1 DEF Opening
  <1> QED
    BY <1>2 DEF Opening

\* What stands between the name and the value of a pair.
LEMMA BetweenIs ==
  Between \in Seq(Letter) /\ Len(Between) = 3 /\ Between[1] = "q" /\ Between[2] = "comma" /\ Between[3] = "q"
PROOF
  <1>1. "q" \in Letter /\ "comma" \in Letter
    BY DEF Letter, Character, Byte
  <1>2. Between \in Seq(Letter)
    BY <1>1 DEF Between
  <1> QED
    BY <1>2 DEF Between

\* What a pair ends with.
LEMMA ClosingIs == Closing \in Seq(Letter) /\ Len(Closing) = 2 /\ Closing[1] = "q" /\ Closing[2] = "]"
PROOF
  <1>1. "q" \in Letter /\ "]" \in Letter
    BY DEF Letter, Character, Byte
  <1>2. Closing \in Seq(Letter)
    BY <1>1 DEF Closing
  <1> QED
    BY <1>2 DEF Closing

\* The length of two strings in a row.
LEMMA JoinedIs ==
  ASSUME NEW u \in Seq(Letter), NEW v \in Seq(Letter)
  PROVE  u \o v \in Seq(Letter) /\ Len(u \o v) = Len(u) + Len(v) /\ Len(u) \in Nat /\ Len(v) \in Nat
PROOF
  OBVIOUS

\* The bytes of a pair, and where they stand in a part that goes on with it.
LEMMA PairStands ==
  ASSUME NEW d \in Seq(Letter), NEW i \in Int, NEW p \in HeaderPair, Holds(d, i, JsonPair(p))
  PROVE  LET N == Len(Encode(p.name))
             V == Len(Encode(p.value))
         IN /\ i <= Len(d) => d[i] = "["
            /\ i + 1 <= Len(d) => d[i + 1] = "q"
            /\ Holds(d, i + 2, Encode(p.name) \o Quote)
            /\ i + N + 3 <= Len(d) => d[i + N + 3] = "comma"
            /\ i + N + 4 <= Len(d) => d[i + N + 4] = "q"
            /\ Holds(d, i + N + 5, Encode(p.value) \o Quote)
            /\ i + N + V + 6 <= Len(d) => d[i + N + V + 6] = "]"
PROOF
  <1> DEFINE x == Encode(p.name)
             y == Encode(p.value)
             N == Len(x)
             V == Len(y)
             w == JsonPair(p)
  <1>1. p.name \in Seq(Letter) /\ p.value \in Seq(Letter)
    BY DEF HeaderPair
  <1>2. x \in Seq(Letter) /\ y \in Seq(Letter)
    BY <1>1, EscapesAre
  <1>3. w = Opening \o x \o Between \o y \o Closing
    BY DEF JsonPair, Opening, Between, Closing
  <1>4. Holds(d, i, w)
    OBVIOUS
  <1> HIDE DEF x, y, w
  <1>5. N \in Nat /\ V \in Nat
    BY <1>2
  <1> DEFINE a1 == Opening \o x
             a2 == a1 \o Between
             a3 == a2 \o y
             a4 == a3 \o Closing
  <1>6. a1 \in Seq(Letter) /\ Len(a1) = 2 + N
    BY <1>2, OpeningIs, JoinedIs
  <1>7. w = a4
    BY <1>3
  <1> HIDE DEF a1
  <1>8. a2 \in Seq(Letter) /\ Len(a2) = 5 + N
    <2>1. a2 \in Seq(Letter) /\ Len(a2) = Len(a1) + Len(Between)
      BY <1>6, BetweenIs, JoinedIs
    <2> HIDE DEF N, a2
    <2> QED
      BY <1>5, <1>6, <2>1, BetweenIs
  <1> HIDE DEF a2
  <1>9. a3 \in Seq(Letter) /\ Len(a3) = 5 + N + V
    <2>1. a3 \in Seq(Letter) /\ Len(a3) = Len(a2) + Len(y)
      BY <1>2, <1>8, JoinedIs
    <2> HIDE DEF a3
    <2> QED
      BY <1>5, <1>8, <2>1
  <1> HIDE DEF a3
  <1>10. Holds(d, i, a3) /\ Holds(d, i + (5 + N + V), Closing)
    <2>1. Holds(d, i, a3 \o Closing)
      BY <1>4, <1>7
    <2>2. Holds(d, i, a3) /\ Holds(d, i + Len(a3), Closing)
      BY <2>1, <1>9, ClosingIs, HoldsBoth
    <2> QED
      BY <1>9, <2>2
  <1>11. Holds(d, i, a2) /\ Holds(d, i + (5 + N), y)
    <2>1. Holds(d, i, a2 \o y)
      BY <1>10 DEF a3
    <2>2. Holds(d, i, a2) /\ Holds(d, i + Len(a2), y)
      BY <2>1, <1>2, <1>8, HoldsBoth
    <2> QED
      BY <1>8, <2>2
  <1>12. Holds(d, i, a1) /\ Holds(d, i + (2 + N), Between)
    <2>1. Holds(d, i, a1 \o Between)
      BY <1>11 DEF a2
    <2>2. Holds(d, i, a1) /\ Holds(d, i + Len(a1), Between)
      BY <2>1, <1>6, BetweenIs, HoldsBoth
    <2> QED
      BY <1>6, <2>2
  <1>13. Holds(d, i, Opening) /\ Holds(d, i + 2, x)
    <2>1. Holds(d, i, Opening \o x)
      BY <1>12 DEF a1
    <2>2. Holds(d, i, Opening) /\ Holds(d, i + Len(Opening), x)
      BY <2>1, <1>2, OpeningIs, HoldsBoth
    <2> QED
      BY OpeningIs, <2>2
  <1>14. (i <= Len(d) => d[i] = "[") /\ (i + 1 <= Len(d) => d[i + 1] = "q")
    <2>1. 1 \in 1..Len(Opening) /\ 2 \in 1..Len(Opening) /\ i + 1 - 1 = i /\ i + 2 - 1 = i + 1
      BY OpeningIs
    <2> QED
      BY <1>13, <2>1, OpeningIs DEF Holds
  <1> DEFINE j == i + (2 + N)
             k == i + (5 + N + V)
  <1>15. (j <= Len(d) => d[j] = "q") /\ (j + 1 <= Len(d) => d[j + 1] = "comma") /\ (j + 2 <= Len(d) => d[j + 2] = "q")
    <2>1. Holds(d, j, Between) /\ j \in Int
      BY <1>5, <1>12
    <2> HIDE DEF j
    <2>2. 1 \in 1..Len(Between) /\ 2 \in 1..Len(Between) /\ 3 \in 1..Len(Between)
          /\ j + 1 - 1 = j /\ j + 2 - 1 = j + 1 /\ j + 3 - 1 = j + 2
      BY BetweenIs, <2>1
    <2> QED
      BY <2>1, <2>2, BetweenIs DEF Holds
  <1>16. (k <= Len(d) => d[k] = "q") /\ (k + 1 <= Len(d) => d[k + 1] = "]")
    <2>1. Holds(d, k, Closing) /\ k \in Int
      BY <1>5, <1>10
    <2> HIDE DEF k
    <2>2. 1 \in 1..Len(Closing) /\ 2 \in 1..Len(Closing) /\ k + 1 - 1 = k /\ k + 2 - 1 = k + 1
      BY ClosingIs, <2>1
    <2> QED
      BY <2>1, <2>2, ClosingIs DEF Holds
  <1>17. \A z \in Int : (z <= Len(d) => d[z] = "q") => Holds(d, z, Quote)
    BY HoldsOne DEF Quote
  <1>18. Holds(d, i + 2, x \o Quote)
    <2>1. i + 2 + Len(x) = j /\ j \in Int /\ i + 2 \in Int
      BY <1>5
    <2>2. Holds(d, j, Quote)
      BY <1>15, <1>17, <2>1
    <2> HIDE DEF j
    <2> QED
      BY <1>2, <1>13, <2>1, <2>2, QuoteIs, HoldsBoth
  <1>19. Holds(d, i + N + 5, y \o Quote)
    <2> DEFINE m == i + N + 5
    <2>1. m + Len(y) = k /\ k \in Int /\ m \in Int /\ m = i + (5 + N)
      BY <1>5
    <2>2. Holds(d, k, Quote)
      BY <1>16, <1>17, <2>1
    <2>3. Holds(d, m, y)
      BY <1>11, <2>1
    <2> HIDE DEF k, m
    <2>4. Holds(d, m, y \o Quote)
      BY <1>2, <2>1, <2>2, <2>3, QuoteIs, HoldsBoth
    <2> QED
      BY <2>4 DEF m
  <1>20. j + 1 = i + N + 3 /\ j + 2 = i + N + 4 /\ k + 1 = i + N + V + 6
    BY <1>5
  <1> HIDE DEF j, k
  <1> QED
    BY <1>14, <1>15, <1>16, <1>18, <1>19, <1>20 DEF x, y

\* The length of a pair.
LEMMA PairLenIs ==
  ASSUME NEW p \in HeaderPair
  PROVE  /\ JsonPair(p) \in Seq(Letter) /\ Len(JsonPair(p)) = PairLen(p) /\ PairLen(p) \in Nat
         /\ p.name \in Seq(Letter) /\ p.value \in Seq(Letter)
         /\ Len(Encode(p.name)) \in Nat /\ Len(Encode(p.value)) \in Nat
PROOF
  <1> DEFINE x == Encode(p.name)
             y == Encode(p.value)
  <1>1. p.name \in Seq(Letter) /\ p.value \in Seq(Letter)
    BY DEF HeaderPair
  <1>2. x \in Seq(Letter) /\ y \in Seq(Letter)
    BY <1>1, EscapesAre
  <1>3. JsonPair(p) = Opening \o x \o Between \o y \o Closing
    BY DEF JsonPair, Opening, Between, Closing
  <1>4. PairLen(p) = Len(x) + Len(y) + 7
    BY DEF PairLen
  <1> HIDE DEF x, y
  <1>5. Len(x) \in Nat /\ Len(y) \in Nat
    BY <1>2
  <1> DEFINE a1 == Opening \o x
             a2 == a1 \o Between
             a3 == a2 \o y
             a4 == a3 \o Closing
  <1>6. a1 \in Seq(Letter) /\ Len(a1) = 2 + Len(x)
    BY <1>2, OpeningIs, JoinedIs
  <1>7. JsonPair(p) = a4
    BY <1>3
  <1> HIDE DEF a1
  <1>8. a2 \in Seq(Letter) /\ Len(a2) = 5 + Len(x)
    <2>1. a2 \in Seq(Letter) /\ Len(a2) = Len(a1) + Len(Between)
      BY <1>6, BetweenIs, JoinedIs
    <2> HIDE DEF a2
    <2> QED
      BY <1>5, <1>6, <2>1, BetweenIs
  <1> HIDE DEF a2
  <1>9. a3 \in Seq(Letter) /\ Len(a3) = 5 + Len(x) + Len(y)
    <2>1. a3 \in Seq(Letter) /\ Len(a3) = Len(a2) + Len(y)
      BY <1>2, <1>8, JoinedIs
    <2> HIDE DEF a3
    <2> QED
      BY <1>5, <1>8, <2>1
  <1> HIDE DEF a3
  <1>10. a4 \in Seq(Letter) /\ Len(a4) = 7 + Len(x) + Len(y)
    <2>1. a4 \in Seq(Letter) /\ Len(a4) = Len(a3) + Len(Closing)
      BY <1>9, ClosingIs, JoinedIs
    <2> HIDE DEF a4
    <2> QED
      BY <1>5, <1>9, <2>1, ClosingIs
  <1> HIDE DEF a4
  <1> QED
    BY <1>1, <1>4, <1>5, <1>7, <1>10 DEF x, y

\* A string read at its quote, and past one byte.
LEMMA ReadStringIs ==
  ASSUME NEW d \in Seq(Letter), NEW i \in 1..Len(d) + 1, NEW s \in Seq(Letter),
         i <= Len(d) => d[i] = "q", Holds(d, i + 1, Encode(s) \o Quote)
  PROVE  ReadString(d, i) = [found |-> i <= Len(d),
                             is |-> IF i <= Len(d) THEN StringRead(d, i + 1, s)
                                    ELSE [text |-> <<>>, next |-> Len(d) + 1, done |-> FALSE]]
PROOF
  <1>1. Len(d) \in Nat
    OBVIOUS
  <1>2. Skip(d, i) = i
    <2>1. i <= Len(d) => d[i] # "blank"
      OBVIOUS
    <2> QED
      BY <2>1, SkipNone
  <1>3. ReadString(d, i) = [found |-> i <= Len(d) /\ d[i] = "q",
                            is |-> IF i <= Len(d) /\ d[i] = "q" THEN Inside(d, i + 1)
                                   ELSE [text |-> <<>>, next |-> i, done |-> FALSE]]
    BY <1>2 DEF ReadString
  <1>4. CASE i <= Len(d)
    <2>1. d[i] = "q" /\ i + 1 \in 1..Len(d) + 1
      BY <1>1, <1>4
    <2>2. Inside(d, i + 1) = StringRead(d, i + 1, s)
      BY <2>1, InsideIs
    <2> DEFINE R == Inside(d, i + 1)
               S == StringRead(d, i + 1, s)
               Y == i <= Len(d) /\ d[i] = "q"
               Z == i <= Len(d)
    <2>3. Y = TRUE /\ Z = TRUE /\ R = S
      BY <1>4, <2>1, <2>2
    <2>4. ReadString(d, i) = [found |-> Y, is |-> IF Y THEN R ELSE [text |-> <<>>, next |-> i, done |-> FALSE]]
      BY <1>3
    <2> HIDE DEF R, S, Y
    <2>5. ReadString(d, i) = [found |-> TRUE, is |-> S]
      BY <2>3, <2>4
    <2> HIDE DEF Z
    <2>6. [found |-> Z, is |-> IF Z THEN S ELSE [text |-> <<>>, next |-> Len(d) + 1, done |-> FALSE]]
            = [found |-> TRUE, is |-> S]
      BY <2>3
    <2> QED
      BY <2>5, <2>6 DEF Z, S
  <1>5. CASE ~ (i <= Len(d))
    <2> DEFINE Y == i <= Len(d) /\ d[i] = "q"
               Z == i <= Len(d)
               R == Inside(d, i + 1)
               S == StringRead(d, i + 1, s)
               e == [text |-> <<>>, next |-> Len(d) + 1, done |-> FALSE]
               g == [text |-> <<>>, next |-> i, done |-> FALSE]
    <2>1. Y = FALSE /\ Z = FALSE /\ i = Len(d) + 1
      BY <1>1, <1>5
    <2>2. ReadString(d, i) = [found |-> Y, is |-> IF Y THEN R ELSE g]
      BY <1>3
    <2>3. g = e
      BY <2>1
    <2> HIDE DEF R, S, Y, e, g
    <2>4. ReadString(d, i) = [found |-> FALSE, is |-> e]
      BY <2>1, <2>2, <2>3
    <2> HIDE DEF Z
    <2>5. [found |-> Z, is |-> IF Z THEN S ELSE e] = [found |-> FALSE, is |-> e]
      BY <2>1
    <2> QED
      BY <2>4, <2>5 DEF Z, S, e
  <1> QED
    BY <1>4, <1>5

\* A byte that is there is passed over.
LEMMA PastIs ==
  ASSUME NEW d \in Seq(Letter), NEW i \in 1..Len(d) + 1, NEW c \in {"comma", "]"}, i <= Len(d) => d[i] = c
  PROVE  Past(d, i, {c}) = IF i <= Len(d) THEN i + 1 ELSE i
PROOF
  <1>1. i <= Len(d) => d[i] # "blank"
    OBVIOUS
  <1>2. Skip(d, i) = i
    BY <1>1, SkipNone
  <1> QED
    BY <1>2 DEF Past

\* Nothing fits where there is no room.
LEMMA FitNone ==
  ASSUME NEW s \in Seq(Letter), NEW r \in Int, r <= 0
  PROVE  Fit(s, r) = <<>>
PROOF
  <1>1. CASE Len(s) = 0
    <2>1. s = <<>>
      BY <1>1
    <2> QED
      BY <2>1, FitSteps
  <1>2. CASE Len(s) # 0
    <2> DEFINE c == s[1]
               t == Tail(s)
    <2>1. c \in Letter /\ t \in Seq(Letter) /\ s = <<c>> \o t
      BY <1>2, FirstAndOthers
    <2> HIDE DEF c, t
    <2>2. Fit(<<c>> \o t, r) = IF Taken(c) <= r THEN <<c>> \o Fit(t, r - Taken(c)) ELSE <<>>
      BY <2>1, FitSteps
    <2>3. ~ (Taken(c) <= r)
      <3>1. Taken(c) \in Nat \ {0}
        BY <2>1, EscapedIs
      <3> QED
        BY <3>1
    <2> QED
      BY <2>1, <2>2, <2>3
  <1> QED
    BY <1>1, <1>2

\* How far a string is read, and whether to its end.
LEMMA StringReadIs ==
  ASSUME NEW d \in Seq(Letter), NEW i \in Int, NEW s \in Seq(Letter)
  PROVE  LET got == StringRead(d, i, s)
             e == i + Len(Encode(s))
         IN /\ got.text = Fit(s, Len(d) + 1 - i)
            /\ got.next = IF e <= Len(d) THEN e + 1 ELSE Len(d) + 1
            /\ got.done <=> e <= Len(d)
PROOF
  BY DEF StringRead

\* A pair that begins at i: it is found when the quote of its name is there, it is
\* whole when that of its value is, and each string is read as far as it reaches.
LEMMA ReadPairIs ==
  ASSUME NEW d \in Seq(Letter), NEW i \in 1..Len(d), NEW p \in HeaderPair, Holds(d, i, JsonPair(p))
  PROVE  LET whole == i + PairLen(p) <= Len(d) + 2
             got == ReadPair(d, i)
         IN /\ got.found <=> i < Len(d)
            /\ i < Len(d) => (got.complete <=> whole) /\ got.pair = CutPair(d, i, p)
            /\ whole => got.next = IF i + PairLen(p) <= Len(d) + 1 THEN i + PairLen(p) ELSE Len(d) + 1
PROOF
  <1> DEFINE N == Len(Encode(p.name))
             V == Len(Encode(p.value))
             e == Len(d)
             name == ReadString(d, i + 1)
             j == Past(d, name.is.next, {"comma"})
             value == ReadString(d, j)
             both == name.is.done /\ value.found
             got == ReadPair(d, i)
  <1>1. /\ N \in Nat /\ V \in Nat /\ e \in Nat /\ PairLen(p) = N + V + 7
        /\ p.name \in Seq(Letter) /\ p.value \in Seq(Letter) /\ e = Len(d) /\ i \in 1..e
    <2>1. N \in Nat /\ V \in Nat /\ p.name \in Seq(Letter) /\ p.value \in Seq(Letter)
      BY PairLenIs
    <2> QED
      BY <2>1 DEF PairLen
  <1>2. /\ i + 1 <= e => d[i + 1] = "q"
        /\ Holds(d, i + 2, Encode(p.name) \o Quote)
        /\ i + N + 3 <= e => d[i + N + 3] = "comma"
        /\ i + N + 4 <= e => d[i + N + 4] = "q"
        /\ Holds(d, i + N + 5, Encode(p.value) \o Quote)
        /\ i + N + V + 6 <= e => d[i + N + V + 6] = "]"
    BY PairStands
  <1>3. got = PairOf(d, name, value)
    BY DEF ReadPair
  <1>4. /\ got.found = name.found /\ got.complete = (both /\ value.is.done)
        /\ got.pair = [name |-> name.is.text, value |-> IF both THEN value.is.text ELSE <<>>]
        /\ got.next = Past(d, value.is.next, {"]"})
    <2> HIDE DEF name, value, got
    <2> QED
      BY <1>3 DEF PairOf
  <1> DEFINE nothing == [text |-> <<>>, next |-> Len(d) + 1, done |-> FALSE]
  <1>5. name = [found |-> i + 1 <= e, is |-> IF i + 1 <= e THEN StringRead(d, i + 2, p.name) ELSE nothing]
    <2>1. i + 1 \in 1..e + 1 /\ (i + 1) + 1 = i + 2
      BY <1>1
    <2>2. Holds(d, (i + 1) + 1, Encode(p.name) \o Quote)
      BY <1>2, <2>1
    <2> QED
      BY <1>1, <1>2, <2>1, <2>2, ReadStringIs
  <1> DEFINE F == Fit(p.name, NameRoom(d, i))
             G == Fit(p.value, ValueRoom(d, i, p))
  <1> DEFINE R == StringRead(d, i + 2, p.name)
             S == StringRead(d, i + N + 5, p.value)
  <1>6. R.text = F /\ R.next = (IF i + 2 + N <= Len(d) THEN i + 2 + N + 1 ELSE Len(d) + 1)
        /\ (R.done <=> i + 2 + N <= Len(d))
    <2>1. Len(d) + 1 - (i + 2) = NameRoom(d, i) /\ i + 2 \in Int
      BY <1>1 DEF NameRoom
    <2> QED
      BY <1>1, <2>1, StringReadIs
  <1>7. S.text = G /\ S.next = (IF i + N + 5 + V <= Len(d) THEN i + N + 5 + V + 1 ELSE Len(d) + 1)
        /\ (S.done <=> i + N + 5 + V <= Len(d))
    <2>1. Len(d) + 1 - (i + N + 5) = ValueRoom(d, i, p) /\ i + N + 5 \in Int
      BY <1>1 DEF ValueRoom
    <2> QED
      BY <1>1, <2>1, StringReadIs
  <1>0. nothing.text = <<>> /\ nothing.next = e + 1 /\ ~nothing.done
    BY <1>1
  <1>10. (name.found <=> i < e) /\ name.is = IF i < e THEN R ELSE nothing
    <2>1. i + 1 <= e <=> i < e
      BY <1>1
    <2> HIDE DEF name, R, nothing, e
    <2> QED
      BY <1>5, <2>1 DEF R
  <1>21. ValueRoom(d, i, p) = e - 4 - i - N
    BY DEF ValueRoom
  <1> HIDE DEF R, S, nothing, F, G, N, V, e
  <1>8. R.text = F /\ R.next = (IF i + N + 2 <= e THEN i + N + 3 ELSE e + 1) /\ (R.done <=> i + N + 2 <= e)
    <2>1. i + 2 + N + 1 = i + N + 3 /\ i + 2 + N = i + N + 2
      BY <1>1
    <2> QED
      BY <1>1, <1>6, <2>1
  <1>9. S.text = G /\ S.next = (IF i + N + V + 5 <= e THEN i + N + V + 6 ELSE e + 1) /\ (S.done <=> i + N + V + 5 <= e)
    <2>1. i + N + 5 + V + 1 = i + N + V + 6 /\ i + N + 5 + V = i + N + V + 5
      BY <1>1
    <2> QED
      BY <1>1, <1>7, <2>1
  <1>11. Past(d, e + 1, {"comma"}) = e + 1 /\ Past(d, e + 1, {"]"}) = e + 1
    <2>1. e + 1 \in 1..Len(d) + 1 /\ ~ (e + 1 <= Len(d))
      BY <1>1
    <2> QED
      BY <2>1, PastIs
  <1>13. j = IF i + N + 3 <= e THEN i + N + 4 ELSE e + 1
    <2>1. CASE i + N + 2 <= e
      <3>1. i < e /\ name.is.next = i + N + 3
        BY <1>1, <1>8, <1>10, <2>1
      <3> DEFINE m == i + N + 3
      <3>5. j = Past(d, m, {"comma"})
        BY <3>1
      <3> HIDE DEF j, name, value, got
      <3>2. m \in 1..Len(d) + 1 /\ m + 1 = i + N + 4 /\ (m <= Len(d) => d[m] = "comma")
        BY <1>1, <1>2, <2>1
      <3>4. ~ (m <= e) => m = e + 1
        <4>1. N \in Int /\ e \in Int /\ i \in Int
          BY <1>1
        <4> QED
          BY <2>1, <4>1
      <3> HIDE DEF m
      <3>3. Past(d, m, {"comma"}) = IF m <= Len(d) THEN m + 1 ELSE m
        BY <3>2, PastIs
      <3>6. j = IF m <= e THEN i + N + 4 ELSE e + 1
        BY <1>1, <3>2, <3>3, <3>4, <3>5
      <3> QED
        BY <3>6 DEF m
    <2>2. CASE ~ (i + N + 2 <= e)
      <3>1. name.is.next = e + 1
        BY <1>1, <1>8, <1>0, <1>10, <2>2
      <3>2. ~ (i + N + 3 <= e)
        BY <1>1, <2>2
      <3> QED
        BY <1>11, <3>1, <3>2
    <2> QED
      BY <2>1, <2>2
  <1> HIDE DEF j
  <1>14. (value.found <=> i + N + 4 <= e) /\ value.is = IF i + N + 4 <= e THEN S ELSE nothing
    <2>0. j \in 1..e + 1 /\ (j <= e <=> i + N + 4 <= e) /\ (j <= e => j = i + N + 4 /\ j + 1 = i + N + 5)
      BY <1>1, <1>13
    <2>1. j \in 1..Len(d) + 1 /\ (j <= e <=> i + N + 4 <= e) /\ (j <= e => d[j] = "q" /\ j + 1 = i + N + 5)
      BY <1>1, <1>2, <2>0
    <2>2. CASE j <= e
      <3>1. Holds(d, j + 1, Encode(p.value) \o Quote)
        BY <1>2, <2>1, <2>2
      <3>2. ReadString(d, j) = [found |-> j <= Len(d),
                                is |-> IF j <= Len(d) THEN StringRead(d, j + 1, p.value)
                                       ELSE [text |-> <<>>, next |-> Len(d) + 1, done |-> FALSE]]
        BY <1>1, <2>1, <3>1, ReadStringIs
      <3>3. value.found /\ value.is = StringRead(d, j + 1, p.value)
        <4> DEFINE X == StringRead(d, j + 1, p.value)
                   Y == j <= Len(d)
        <4>1. Y = TRUE
          BY <1>1, <2>2
        <4>2. value = [found |-> Y, is |-> IF Y THEN X
                                          ELSE [text |-> <<>>, next |-> Len(d) + 1, done |-> FALSE]]
          BY <3>2
        <4> HIDE DEF X, Y, value
        <4> QED
          BY <4>1, <4>2 DEF X
      <3> QED
        BY <2>1, <2>2, <3>3 DEF S
    <2>3. CASE ~ (j <= e)
      <3>1. Skip(d, j) = j
        <4>1. j \in 1..Len(d) + 1 /\ (j <= Len(d) => d[j] # "blank")
          BY <1>1, <2>1, <2>3
        <4> HIDE DEF value
        <4> QED
          BY <4>1, SkipNone
      <3>2. j = e + 1
        <4>1. e \in Int /\ j \in 1..e + 1 /\ ~(j <= e)
          BY <1>1, <2>0, <2>3
        <4> HIDE DEF j, e, value
        <4> QED
          BY <4>1
      <3>3. ~value.found /\ value.is = [text |-> <<>>, next |-> j, done |-> FALSE]
        BY <1>1, <2>3, <3>1 DEF ReadString
      <3>4. value.is = nothing
        BY <1>1, <3>2, <3>3 DEF nothing
      <3> HIDE DEF value
      <3> QED
        BY <2>1, <2>3, <3>3, <3>4
    <2> QED
      BY <2>2, <2>3
  <1> HIDE DEF name, value
  <1>15. name.is.done <=> i + N + 2 <= e
    BY <1>1, <1>8, <1>0, <1>10
  <1>16. both <=> i + N + 4 <= e
    BY <1>1, <1>14, <1>15
  <1> HIDE DEF got
  <1>17. got.complete <=> i + N + V + 5 <= e
    <2>1. CASE i + N + 4 <= e
      <3>1. both /\ value.is = S
        BY <1>14, <1>16, <2>1
      <3> HIDE DEF both
      <3> QED
        BY <1>4, <1>9, <3>1
    <2>2. CASE ~ (i + N + 4 <= e)
      <3>1. ~both /\ ~ (i + N + V + 5 <= e)
        BY <1>1, <1>16, <2>2
      <3> HIDE DEF both
      <3> QED
        BY <1>4, <3>1
    <2> QED
      BY <2>1, <2>2
  <1>18. i < e => got.pair = CutPair(d, i, p)
    <2> SUFFICES ASSUME i < e PROVE got.pair = CutPair(d, i, p)
      OBVIOUS
    <2>1. name.is.text = F
      BY <1>8, <1>10
    <2>2. (IF both THEN value.is.text ELSE <<>>) = G
      <3>1. CASE i + N + 4 <= e
        BY <1>9, <1>14, <1>16, <3>1
      <3>2. CASE ~ (i + N + 4 <= e)
        <4>1. ValueRoom(d, i, p) \in Int /\ ValueRoom(d, i, p) <= 0
          BY <1>1, <1>21, <3>2
        <4>2. G = <<>>
          BY <1>1, <4>1, FitNone DEF G
        <4> QED
          BY <1>16, <3>2, <4>2
      <3> QED
        BY <3>1, <3>2
    <2> HIDE DEF both
    <2> QED
      BY <1>4, <2>1, <2>2 DEF CutPair, F, G
  <1> DEFINE whole == i + PairLen(p) <= Len(d) + 2
  <1>19. whole <=> i + N + V + 5 <= e
    BY <1>1
  <1>20. whole => got.next = IF i + PairLen(p) <= Len(d) + 1 THEN i + PairLen(p) ELSE Len(d) + 1
    <2> SUFFICES ASSUME whole
                 PROVE  got.next = IF i + PairLen(p) <= Len(d) + 1 THEN i + PairLen(p) ELSE Len(d) + 1
      OBVIOUS
    <2>1. i + N + V + 5 <= e /\ i + N + 4 <= e
      BY <1>1, <1>19
    <2>2. value.is.next = i + N + V + 6
      BY <1>9, <1>14, <2>1
    <2> DEFINE m == i + N + V + 6
    <2>3. m \in 1..Len(d) + 1 /\ (m <= Len(d) => d[m] = "]") /\ m + 1 = i + PairLen(p)
      BY <1>1, <1>2, <2>1
    <2>4. got.next = Past(d, m, {"]"})
      BY <1>4, <2>2
    <2> HIDE DEF m
    <2>5. Past(d, m, {"]"}) = IF m <= Len(d) THEN m + 1 ELSE m
      BY <2>3, PastIs
    <2>6. m <= Len(d) <=> i + PairLen(p) <= Len(d) + 1
      BY <1>1, <2>3
    <2>7. ~ (m <= Len(d)) => m = Len(d) + 1
      BY <1>1, <2>3
    <2> QED
      BY <2>3, <2>4, <2>5, <2>6, <2>7
  <1>22. got.found <=> i < Len(d)
    BY <1>1, <1>4, <1>10
  <1>23. i < Len(d) => (got.complete <=> whole) /\ got.pair = CutPair(d, i, p)
    <2> HIDE DEF whole
    <2> QED
      BY <1>1, <1>17, <1>18, <1>19
  <1> HIDE DEF whole
  <1> QED
    BY <1>20, <1>22, <1>23 DEF got, whole

-----------------------------------------------------------------------------
(* The loop over the pairs *)

Decoding == [pairs : Seq(HeaderPair), text : Seq(Letter)]

Continued(d, j) == Fragment(<<>>, Inside(From(d, j), 1).text)

PairFirst(d, j, rest) ==
  LET p == ReadPair(d, j)
  IN IF ~p.found THEN Continued(d, j)
     ELSE IF ~p.complete THEN Fragment(<<p.pair>>, <<>>)
     ELSE [rest[p.next] EXCEPT !.pairs = <<p.pair>> \o @]

\* What is read from k on, after what is skipped.
PairsOn(d, k, rest) ==
  LET j == Skip(d, k)
      p == ReadPair(d, j)
  IN IF j > Len(d) \/ d[j] = "]" THEN Fragment(<<>>, <<>>)
     ELSE IF d[j] = "comma" THEN rest[j + 1]
     ELSE IF d[j] # "[" \/ ~p.found THEN Fragment(<<>>, Inside(From(d, j), 1).text)
     ELSE IF ~p.complete THEN Fragment(<<p.pair>>, <<>>)
     ELSE [rest[p.next] EXCEPT !.pairs = <<p.pair>> \o @]

\* What the loop of scanHeaders does at each byte it may meet.
LEMMA PairsOnIs ==
  ASSUME NEW d \in Seq(Letter), NEW k \in 1..Len(d) + 1, NEW rest
  PROVE  LET j == Skip(d, k)
         IN /\ j \in k..Len(d) + 1
            /\ j = Len(d) + 1 => PairsOn(d, k, rest) = Fragment(<<>>, <<>>)
            /\ j \in 1..Len(d) =>
                 /\ d[j] = "]" => PairsOn(d, k, rest) = Fragment(<<>>, <<>>)
                 /\ d[j] = "comma" => PairsOn(d, k, rest) = rest[j + 1]
                 /\ d[j] = "[" => PairsOn(d, k, rest) = PairFirst(d, j, rest)
                 /\ d[j] \notin {"]", "comma", "["} => PairsOn(d, k, rest) = Continued(d, j)
PROOF
  <1> DEFINE j == Skip(d, k)
             p == ReadPair(d, j)
  <1>1. j \in k..Len(d) + 1 /\ Len(d) \in Nat
    BY SkipIs
  <1>2. PairsOn(d, k, rest) =
          IF j > Len(d) \/ d[j] = "]" THEN Fragment(<<>>, <<>>)
          ELSE IF d[j] = "comma" THEN rest[j + 1]
          ELSE IF d[j] # "[" \/ ~p.found THEN Continued(d, j)
          ELSE IF ~p.complete THEN Fragment(<<p.pair>>, <<>>)
          ELSE [rest[p.next] EXCEPT !.pairs = <<p.pair>> \o @]
    BY DEF PairsOn, Continued
  <1>3. PairFirst(d, j, rest) =
          IF ~p.found THEN Continued(d, j)
          ELSE IF ~p.complete THEN Fragment(<<p.pair>>, <<>>)
          ELSE [rest[p.next] EXCEPT !.pairs = <<p.pair>> \o @]
    BY DEF PairFirst
  <1>4. (j = Len(d) + 1 => j > Len(d)) /\ (j \in 1..Len(d) => ~(j > Len(d)))
    BY <1>1
  <1> DEFINE X == PairsOn(d, k, rest)
             E == Fragment(<<>>, <<>>)
             F == PairFirst(d, j, rest)
             G == Continued(d, j)
             R == rest[j + 1]
             C == Fragment(<<p.pair>>, <<>>)
             D == [rest[p.next] EXCEPT !.pairs = <<p.pair>> \o @]
             b == d[j]
             z == j > Len(d)
             y == ~p.found
             w == ~p.complete
  <1>5. X = IF z \/ b = "]" THEN E ELSE IF b = "comma" THEN R ELSE IF b # "[" \/ y THEN G
            ELSE IF w THEN C ELSE D
    BY <1>2
  <1>6. F = IF y THEN G ELSE IF w THEN C ELSE D
    BY <1>3
  <1> HIDE DEF X, E, F, G, R, C, D, b, z, y, w
  <1>7. (z => X = E)
        /\ (~z => (b = "]" => X = E) /\ (b = "comma" => X = R) /\ (b = "[" => X = F)
                   /\ (b \notin {"]", "comma", "["} => X = G))
    BY <1>5, <1>6
  <1> QED
    BY <1>1, <1>4, <1>7 DEF X, E, F, G, R, b, z

\* What is read of the rest of a string is of the type of what is decoded.
LEMMA ContinuedIs ==
  ASSUME NEW d \in Seq(Letter), NEW j \in 1..Len(d) + 1
  PROVE  Continued(d, j) \in Decoding
PROOF
  <1> DEFINE r == From(d, j)
  <1>1. r \in Seq(Letter)
    BY DEF From
  <1> HIDE DEF r
  <1>2. 1 \in 1..Len(r) + 1
    BY <1>1
  <1>3. Inside(r, 1) \in Reading
    BY <1>1, <1>2, InsideRange
  <1>4. Inside(r, 1).text \in Seq(Letter)
    BY <1>3 DEF Reading
  <1> QED
    BY <1>4 DEF Continued, Fragment, Decoding, r

\* What is read of a part is a decoding if what is read later is one.
LEMMA PairsOnRange ==
  ASSUME NEW d \in Seq(Letter), NEW k \in 1..Len(d) + 1, NEW f,
         \A m \in k + 1..Len(d) + 1 : f[m] \in Decoding
  PROVE  PairsOn(d, k, f) \in Decoding
PROOF
  <1> DEFINE j == Skip(d, k)
  <1>1. j \in k..Len(d) + 1 /\ Len(d) \in Nat
    BY SkipIs
  <1>2. Fragment(<<>>, <<>>) \in Decoding
    BY DEF Fragment, Decoding
  <1>3. CASE j = Len(d) + 1
    BY <1>2, <1>3, PairsOnIs
  <1>4. CASE j # Len(d) + 1
    <2>1. j \in 1..Len(d) /\ j \in 1..Len(d) + 1
      BY <1>1, <1>4
    <2>2. CASE d[j] = "]"
      BY <1>2, <2>1, <2>2, PairsOnIs
    <2>3. CASE d[j] = "comma"
      <3>1. j + 1 \in k + 1..Len(d) + 1
        BY <1>1, <2>1
      <3>2. PairsOn(d, k, f) = f[j + 1]
        BY <2>1, <2>3, PairsOnIs
      <3> QED
        BY <3>1, <3>2
    <2>4. CASE d[j] = "["
      <3> DEFINE p == ReadPair(d, j)
                 R == f[p.next]
      <3>1. PairsOn(d, k, f) = PairFirst(d, j, f)
        BY <2>1, <2>4, PairsOnIs
      <3>2. p.pair \in HeaderPair /\ p.next \in j + 1..Len(d) + 1
        BY <2>1, ReadPairRange
      <3>3. p.next \in k + 1..Len(d) + 1
        BY <1>1, <3>2
      <3>4. R \in Decoding
        BY <3>3
      <3>5. PairFirst(d, j, f) = IF ~p.found THEN Continued(d, j)
                                 ELSE IF ~p.complete THEN Fragment(<<p.pair>>, <<>>)
                                 ELSE [R EXCEPT !.pairs = <<p.pair>> \o @]
        BY DEF PairFirst
      <3> HIDE DEF p, R, j
      <3>6. Continued(d, j) \in Decoding
        BY <2>1, ContinuedIs
      <3>7. Fragment(<<p.pair>>, <<>>) \in Decoding
        BY <3>2 DEF Fragment, Decoding
      <3>8. [R EXCEPT !.pairs = <<p.pair>> \o @] \in Decoding
        <4> DEFINE a == p.pair
                   b == R.pairs
        <4>1. a \in HeaderPair /\ b \in Seq(HeaderPair)
          BY <3>2, <3>4 DEF Decoding
        <4> DEFINE s == <<a>> \o b
        <4>2. s \in Seq(HeaderPair)
          <5> HIDE DEF a, b
          <5> QED
            BY <4>1
        <4>3. [R EXCEPT !.pairs = <<p.pair>> \o @] = [R EXCEPT !.pairs = s]
          BY Zenon
        <4> HIDE DEF s
        <4>4. [R EXCEPT !.pairs = s] \in Decoding
          BY <3>4, <4>2 DEF Decoding
        <4> QED
          BY <4>3, <4>4
      <3> QED
        BY <3>1, <3>5, <3>6, <3>7, <3>8
    <2>5. CASE d[j] \notin {"]", "comma", "["}
      <3>1. PairsOn(d, k, f) = Continued(d, j)
        BY <2>1, <2>5, PairsOnIs
      <3> QED
        BY <2>1, <3>1, ContinuedIs
    <2> QED
      BY <2>2, <2>3, <2>4, <2>5
  <1> QED
    BY <1>3, <1>4

\* The loop of scanHeaders looks only at what is ahead of it.
LEMMA PairsOnAhead ==
  ASSUME NEW d \in Seq(Letter), NEW k \in 1..Len(d) + 1, NEW f, NEW g,
         \A m \in k + 1..Len(d) + 1 : f[m] = g[m]
  PROVE  PairsOn(d, k, f) = PairsOn(d, k, g)
PROOF
  <1> DEFINE j == Skip(d, k)
  <1>1. j \in k..Len(d) + 1 /\ Len(d) \in Nat
    BY SkipIs
  <1>3. CASE j = Len(d) + 1
    BY <1>3, PairsOnIs
  <1>4. CASE j # Len(d) + 1
    <2>1. j \in 1..Len(d)
      BY <1>1, <1>4
    <2>2. CASE d[j] = "]"
      BY <2>1, <2>2, PairsOnIs
    <2>3. CASE d[j] = "comma"
      <3>1. f[j + 1] = g[j + 1]
        BY <1>1, <2>1
      <3> QED
        BY <2>1, <2>3, <3>1, PairsOnIs
    <2>4. CASE d[j] = "["
      <3>1. ReadPair(d, j).next \in k + 1..Len(d) + 1
        <4>1. ReadPair(d, j).next \in j + 1..Len(d) + 1
          BY <2>1, ReadPairRange
        <4> QED
          BY <1>1, <4>1
      <3>2. PairFirst(d, j, f) = PairFirst(d, j, g)
        <4>1. f[ReadPair(d, j).next] = g[ReadPair(d, j).next]
          BY <3>1
        <4> QED
          BY <4>1, Zenon DEF PairFirst
      <3> QED
        BY <2>1, <2>4, <3>2, PairsOnIs
    <2>5. CASE d[j] \notin {"]", "comma", "["}
      BY <2>1, <2>5, PairsOnIs
    <2> QED
      BY <2>2, <2>3, <2>4, <2>5
  <1> QED
    BY <1>3, <1>4

PairsGoOn(d, f) == \A k \in 1..Len(d) + 1 : f[k] = PairsOn(d, k, f)

\* The recursion of PairsFrom is one.
LEMMA PairsRecursion ==
  ASSUME NEW d \in Seq(Letter)
  PROVE  \E f \in [1..Len(d) + 1 -> Decoding] : PairsGoOn(d, f) /\ \A i : PairsFrom(d, i) = f[i]
PROOF
  <1> DEFINE n == Len(d) + 1
             X == [1..n -> Decoding]
             step == [p \in (1..n) \X X |-> PairsOn(d, p[1], p[2])]
             x0 == Fragment(<<>>, <<>>)
  <1>1. Len(d) \in Nat /\ n \in Nat /\ x0 \in Decoding
    BY DEF Decoding, Fragment
  <1>2. ASSUME NEW k \in 1..n, NEW f, \A j \in k + 1..n : f[j] \in Decoding
        PROVE  PairsOn(d, k, f) \in Decoding
    BY <1>2, PairsOnRange
  <1>3. step \in [(1..n) \X X -> Decoding] /\ \A k \in 1..n, f \in X : step[<<k, f>>] = PairsOn(d, k, f)
    <2>1. ASSUME NEW k \in 1..n, NEW f \in X PROVE PairsOn(d, k, f) \in Decoding
      <3>1. \A j \in k + 1..n : f[j] \in Decoding
        BY <1>1
      <3> QED
        BY <1>2, <3>1
    <2> HIDE DEF n, X
    <2> QED
      BY <2>1
  <1> HIDE DEF step
  <1>4. ASSUME NEW k \in 1..n, NEW f \in X, NEW g \in X, \A j \in k + 1..n : f[j] = g[j]
        PROVE  PairsOn(d, k, f) = PairsOn(d, k, g)
    BY <1>4, PairsOnAhead
  <1>5. LooksAhead(step, n, Decoding)
    <2> SUFFICES ASSUME NEW k \in 1..n, NEW f \in X, NEW g \in X, \A j \in k + 1..n : f[j] = g[j]
                 PROVE  step[<<k, f>>] = step[<<k, g>>]
      BY DEF LooksAhead
    <2>1. PairsOn(d, k, f) = PairsOn(d, k, g)
      BY <1>4
    <2> HIDE DEF n, X
    <2> QED
      BY <1>3, <2>1
  <1>6. \E f \in X : \A k \in 1..n : f[k] = step[<<k, f>>]
    <2>1. n \in Nat /\ x0 \in Decoding /\ step \in [(1..n) \X [1..n -> Decoding] -> Decoding]
      BY <1>1, <1>3
    <2> HIDE DEF n, x0, X
    <2>2. \E f \in [1..n -> Decoding] : IsDownRecursion(f, n, step)
      BY <1>5, <2>1, DownRecursionExists
    <2> QED
      BY <2>2 DEF X, IsDownRecursion
  <1> DEFINE Is(f) == f = [k \in 1..n |-> PairsOn(d, k, f)]
             rest == CHOOSE f : Is(f)
  <1>7. \E f : Is(f)
    <2>1. PICK f \in X : \A k \in 1..n : f[k] = step[<<k, f>>]
      BY <1>6
    <2>2. \A k \in 1..n : f[k] = PairsOn(d, k, f)
      BY <1>3, <2>1
    <2>3. Is(f)
      <3> HIDE DEF n
      <3> QED
        BY <2>2
    <2> QED
      BY <2>3
  <1>8. Is(rest)
    <2> HIDE DEF Is
    <2> QED
      BY <1>7
  <1>9. \A i : PairsFrom(d, i) = rest[i]
    BY Zenon DEF PairsFrom, PairsOn
  <1> DEFINE P == {k \in 1..n : rest[k] \in Decoding}
  <1>10. \A k \in 1..n : rest[k] = PairsOn(d, k, rest)
    <2> HIDE DEF rest, n
    <2> QED
      BY <1>8
  <1> HIDE DEF rest
  <1>11. ASSUME NEW k \in 1..n, \A j \in k + 1..n : j \in P PROVE k \in P
    <2>1. \A j \in k + 1..n : rest[j] \in Decoding
      BY <1>11
    <2>2. rest[k] \in Decoding
      BY <1>2, <1>10, <2>1
    <2> QED
      BY <2>2
  <1>12. 1..n \subseteq P
    <2> HIDE DEF P, n
    <2> QED
      BY <1>1, <1>11, DownInduction
  <1>13. rest \in [1..n -> Decoding]
    <2> HIDE DEF n
    <2> QED
      BY <1>8, <1>12
  <1> QED
    BY <1>9, <1>10, <1>13 DEF PairsGoOn

\* What is read at an opening bracket.
PairHere(d, j) ==
  LET p == ReadPair(d, j)
      r == PairsFrom(d, p.next)
  IN IF ~p.found THEN Continued(d, j)
     ELSE IF ~p.complete THEN Fragment(<<p.pair>>, <<>>)
     ELSE [r EXCEPT !.pairs = <<p.pair>> \o @]

\* What the loop reads from k on.
LEMMA PairsSteps ==
  ASSUME NEW d \in Seq(Letter), NEW k \in 1..Len(d) + 1
  PROVE  LET j == Skip(d, k)
         IN /\ PairsFrom(d, k) \in Decoding
            /\ j = Len(d) + 1 => PairsFrom(d, k) = Fragment(<<>>, <<>>)
            /\ j \in 1..Len(d) =>
                 /\ d[j] = "]" => PairsFrom(d, k) = Fragment(<<>>, <<>>)
                 /\ d[j] = "comma" => PairsFrom(d, k) = PairsFrom(d, j + 1)
                 /\ d[j] = "[" => PairsFrom(d, k) = PairHere(d, j)
                 /\ d[j] \notin {"]", "comma", "["} => PairsFrom(d, k) = Continued(d, j)
PROOF
  <1>1. PICK f \in [1..Len(d) + 1 -> Decoding] : PairsGoOn(d, f) /\ \A i : PairsFrom(d, i) = f[i]
    BY PairsRecursion
  <1>2. PairsFrom(d, k) = PairsOn(d, k, f) /\ PairsFrom(d, k) \in Decoding
    BY <1>1 DEF PairsGoOn
  <1>3. \A j : f[j] = PairsFrom(d, j)
    BY <1>1
  <1>4. \A j : PairFirst(d, j, f) = PairHere(d, j)
    <2> TAKE j
    <2>1. f[ReadPair(d, j).next] = PairsFrom(d, ReadPair(d, j).next)
      BY <1>3
    <2> QED
      BY <2>1, Zenon DEF PairFirst, PairHere
  <1> QED
    BY <1>2, <1>3, <1>4, PairsOnIs

\* The loop looks at what it does not skip only.
LEMMA SkipTwice ==
  ASSUME NEW d \in Seq(Letter), NEW k \in 1..Len(d) + 1
  PROVE  /\ Skip(d, k) \in 1..Len(d) + 1 /\ Skip(d, Skip(d, k)) = Skip(d, k)
         /\ k <= Len(d) => (d[k] = "blank" => Skip(d, k) = Skip(d, k + 1))
PROOF
  <1> DEFINE j == Skip(d, k)
  <1>1. j \in k..Len(d) + 1 /\ Len(d) \in Nat /\ (\A m \in k..j - 1 : d[m] = "blank")
        /\ (j <= Len(d) => d[j] # "blank")
    BY SkipIs
  <1>2. j \in 1..Len(d) + 1
    BY <1>1
  <1>3. Skip(d, j) = j
    <2> HIDE DEF j
    <2> QED
      BY <1>1, <1>2, SkipNone
  <1>4. ASSUME k <= Len(d), d[k] = "blank" PROVE Skip(d, k) = Skip(d, k + 1)
    <2> DEFINE m == Skip(d, k + 1)
    <2>1. k + 1 \in 1..Len(d) + 1
      BY <1>1, <1>4
    <2>2. m \in k + 1..Len(d) + 1 /\ (\A x \in k + 1..m - 1 : d[x] = "blank")
          /\ (m <= Len(d) => d[m] # "blank")
      BY <2>1, SkipIs
    <2> HIDE DEF j, m
    <2>3. j # k
      BY <1>1, <1>4
    <2>4. ~(j < m)
      <3> SUFFICES ASSUME j < m PROVE FALSE
        OBVIOUS
      <3>1. j \in k + 1..m - 1 /\ j <= Len(d)
        BY <1>1, <2>2, <2>3
      <3> QED
        BY <1>1, <2>2, <3>1
    <2>5. ~(m < j)
      <3> SUFFICES ASSUME m < j PROVE FALSE
        OBVIOUS
      <3>1. m \in k..j - 1 /\ m <= Len(d)
        BY <1>1, <2>2
      <3> QED
        BY <1>1, <2>2, <3>1
    <2>6. j = m
      BY <1>1, <2>2, <2>4, <2>5
    <2> QED
      BY <2>6 DEF j, m
  <1> QED
    BY <1>2, <1>3, <1>4

\* Blanks make no difference to what is read after them.
LEMMA SameSkip ==
  ASSUME NEW d \in Seq(Letter), NEW k \in 1..Len(d) + 1, NEW m \in 1..Len(d) + 1, Skip(d, k) = Skip(d, m)
  PROVE  PairsFrom(d, k) = PairsFrom(d, m)
PROOF
  <1> DEFINE j == Skip(d, k)
  <1>1. j \in 1..Len(d) + 1 /\ Len(d) \in Nat
    BY SkipTwice
  <1>2. CASE j = Len(d) + 1
    BY <1>2, PairsSteps
  <1>3. CASE j \in 1..Len(d)
    <2>1. CASE d[j] = "]"
      BY <1>3, <2>1, PairsSteps
    <2>2. CASE d[j] = "comma"
      BY <1>3, <2>2, PairsSteps
    <2>3. CASE d[j] = "["
      BY <1>3, <2>3, PairsSteps
    <2>4. CASE d[j] \notin {"]", "comma", "["}
      BY <1>3, <2>4, PairsSteps
    <2> QED
      BY <2>1, <2>2, <2>3, <2>4
  <1> QED
    BY <1>1, <1>2, <1>3

-----------------------------------------------------------------------------
(* A part that begins inside a string *)

\* A text without the blanks and commas it begins with, and one that goes on with a
\* bracket.
Trimmed(t) == From(t, FirstPlain(t))
Bracketed(t) == Opens(t, {"[", "]"})

\* The first character of a string that is neither blank nor comma.
LEMMA FirstPlainIs ==
  ASSUME NEW t \in Seq(Letter)
  PROVE  /\ FirstPlain(t) \in 1..Len(t) + 1
         /\ \A k \in 1..FirstPlain(t) - 1 : t[k] \in {"blank", "comma"}
         /\ FirstPlain(t) <= Len(t) => t[FirstPlain(t)] \notin {"blank", "comma"}
PROOF
  <1> DEFINE S == {k \in DOMAIN t : t[k] \notin {"blank", "comma"}} \cup {Len(t) + 1}
             m == Min(S)
  <1>1. Len(t) \in Nat /\ DOMAIN t = 1..Len(t) /\ S \in SUBSET Nat /\ S # {}
    OBVIOUS
  <1>2. m \in S /\ \A k \in S : m <= k
    BY <1>1, MinOfSome
  <1>3. FirstPlain(t) = m
    BY DEF FirstPlain
  <1> HIDE DEF m
  <1>4. m \in 1..Len(t) + 1 /\ (m <= Len(t) => t[m] \notin {"blank", "comma"})
    BY <1>1, <1>2
  <1>5. ASSUME NEW k \in 1..m - 1, t[k] \notin {"blank", "comma"} PROVE FALSE
    <2>1. k \in S
      BY <1>1, <1>4, <1>5
    <2>2. m <= k
      BY <1>2, <2>1
    <2> QED
      BY <1>1, <1>4, <2>2
  <1> QED
    BY <1>3, <1>4, <1>5

\* In front of a text, a blank or a comma is trimmed, any other character is not.
LEMMA TrimSteps ==
  /\ Trimmed(<<>>) = <<>> /\ ~Bracketed(<<>>)
  /\ \A c \in Letter, t \in Seq(Letter) :
       /\ c \in {"blank", "comma"} =>
            Trimmed(<<c>> \o t) = Trimmed(t) /\ (Bracketed(<<c>> \o t) <=> Bracketed(t))
       /\ c \notin {"blank", "comma"} =>
            Trimmed(<<c>> \o t) = <<c>> \o t /\ (Bracketed(<<c>> \o t) <=> c \in {"[", "]"})
PROOF
  <1>1. Trimmed(<<>>) = <<>> /\ ~Bracketed(<<>>)
    <2> DEFINE e == <<>>
    <2>1. e \in Seq(Letter) /\ Len(e) = 0 /\ DOMAIN e = {}
      OBVIOUS
    <2>2. From(e, FirstPlain(e)) = <<>>
      <3>1. FirstPlain(e) \in 1..Len(e) + 1
        BY <2>1, FirstPlainIs
      <3>2. FirstPlain(e) = 1
        BY <2>1, <3>1
      <3> QED
        BY <3>2 DEF From
    <2> QED
      BY <2>1, <2>2 DEF Trimmed, Bracketed, Opens
  <1>2. ASSUME NEW c \in Letter, NEW t \in Seq(Letter)
        PROVE  /\ c \in {"blank", "comma"} =>
                    Trimmed(<<c>> \o t) = Trimmed(t) /\ (Bracketed(<<c>> \o t) <=> Bracketed(t))
               /\ c \notin {"blank", "comma"} =>
                    Trimmed(<<c>> \o t) = <<c>> \o t /\ (Bracketed(<<c>> \o t) <=> c \in {"[", "]"})
    <2> DEFINE s == <<c>> \o t
               n == Len(t)
    <2>1. n \in Nat /\ s \in Seq(Letter) /\ Len(s) = n + 1 /\ s[1] = c /\ \A k \in 1..n : s[k + 1] = t[k]
      OBVIOUS
    <2> DEFINE m == FirstPlain(t)
               q == FirstPlain(s)
    <2>2. m \in 1..n + 1 /\ (\A k \in 1..m - 1 : t[k] \in {"blank", "comma"})
          /\ (m <= n => t[m] \notin {"blank", "comma"})
      BY FirstPlainIs
    <2>3. q \in 1..n + 2 /\ (\A k \in 1..q - 1 : s[k] \in {"blank", "comma"})
          /\ (q <= n + 1 => s[q] \notin {"blank", "comma"})
      <3> HIDE DEF s
      <3>1. q \in 1..Len(s) + 1 /\ (\A k \in 1..q - 1 : s[k] \in {"blank", "comma"})
            /\ (q <= Len(s) => s[q] \notin {"blank", "comma"})
        BY <2>1, FirstPlainIs
      <3> HIDE DEF q, n
      <3> QED
        BY <2>1, <3>1
    <2>4. ASSUME c \in {"blank", "comma"}
          PROVE  Trimmed(s) = Trimmed(t) /\ (Bracketed(s) <=> Bracketed(t))
      <3>1. q = m + 1
        <4> HIDE DEF s, m, q, n
        <4>1. q # 1
          BY <2>1, <2>3, <2>4
        <4>2. ~(q < m + 1)
          <5> SUFFICES ASSUME q < m + 1 PROVE FALSE
            OBVIOUS
          <5>1. q - 1 \in 1..m - 1 /\ q - 1 \in 1..n /\ q <= n + 1
            BY <2>1, <2>2, <2>3, <4>1
          <5>2. s[(q - 1) + 1] = t[q - 1] /\ (q - 1) + 1 = q
            BY <2>1, <2>3, <5>1
          <5> QED
            BY <2>2, <2>3, <5>1, <5>2
        <4>3. ~(m + 1 < q)
          <5> SUFFICES ASSUME m + 1 < q PROVE FALSE
            OBVIOUS
          <5>1. m + 1 \in 1..q - 1 /\ m \in 1..n /\ m <= n
            BY <2>1, <2>2, <2>3
          <5>2. s[m + 1] = t[m]
            BY <2>1, <5>1
          <5> QED
            BY <2>2, <2>3, <5>1, <5>2
        <4> QED
          BY <2>1, <2>2, <2>3, <4>2, <4>3
      <3>2. From(s, m + 1) = From(t, m)
        <4> HIDE DEF m, q
        <4> DEFINE a == From(s, m + 1)
                   b == From(t, m)
        <4>1. a \in Seq(Letter) /\ Len(a) = n + 1 - m /\ \A k \in 1..n + 1 - m : a[k] = s[m + k]
          <5> HIDE DEF s, n
          <5>1. Len(a) = n + 1 - m /\ a = [k \in 1..n + 1 - m |-> s[m + k]]
            <6>1. a = [k \in 1..(n + 1) - (m + 1) + 1 |-> s[(m + 1) + k - 1]]
              BY <2>1, <2>2 DEF From
            <6> QED
              BY <2>1, <2>2, <6>1
          <5>2. a \in Seq(Letter)
            BY <2>1, <2>2 DEF From
          <5> QED
            BY <5>1, <5>2
        <4>2. b \in Seq(Letter) /\ Len(b) = n + 1 - m /\ \A k \in 1..n + 1 - m : b[k] = t[m + k - 1]
          BY <2>1, <2>2 DEF From
        <4>3. \A k \in 1..n + 1 - m : a[k] = b[k]
          <5> HIDE DEF a, b, s, n
          <5> TAKE k \in 1..n + 1 - m
          <5>1. m + k - 1 \in 1..n /\ (m + k - 1) + 1 = m + k
            BY <2>1, <2>2
          <5>2. s[(m + k - 1) + 1] = t[m + k - 1]
            BY <2>1, <5>1
          <5> QED
            BY <4>1, <4>2, <5>1, <5>2
        <4> HIDE DEF a, b, s, n
        <4>4. a = b
          BY <4>1, <4>2, <4>3
        <4> QED
          BY <4>4 DEF a, b
      <3>3. Trimmed(s) = Trimmed(t)
        BY <3>1, <3>2 DEF Trimmed
      <3>4. Bracketed(s) <=> Bracketed(t)
        <4>1. Bracketed(s) <=> q \in 1..n + 1 /\ s[q] \in {"[", "]"}
          <5>1. DOMAIN s = 1..n + 1
            BY <2>1
          <5> HIDE DEF s
          <5> QED
            BY <5>1 DEF Bracketed, Opens
        <4>2. Bracketed(t) <=> m \in 1..n /\ t[m] \in {"[", "]"}
          BY DEF Bracketed, Opens
        <4> HIDE DEF s, m, q, n
        <4>3. m \in 1..n => s[m + 1] = t[m]
          BY <2>1
        <4>4. q \in 1..n + 1 <=> m \in 1..n
          BY <2>1, <2>2, <3>1
        <4> QED
          BY <3>1, <4>1, <4>2, <4>3, <4>4
      <3> QED
        BY <3>3, <3>4
    <2>5. ASSUME c \notin {"blank", "comma"}
          PROVE  Trimmed(s) = s /\ (Bracketed(s) <=> c \in {"[", "]"})
      <3> HIDE DEF s, n
      <3>1. q = 1
        <4> HIDE DEF q
        <4>1. ~(1 < q)
          <5> SUFFICES ASSUME 1 < q PROVE FALSE
            OBVIOUS
          <5>1. 1 \in 1..q - 1
            BY <2>1, <2>3
          <5> QED
            BY <2>1, <2>3, <2>5, <5>1
        <4> QED
          BY <2>1, <2>3, <4>1
      <3>2. DOMAIN s = 1..n + 1 /\ 1 \in 1..n + 1
        BY <2>1
      <3>3. From(s, 1) = s
        BY <2>1 DEF From
      <3> QED
        BY <2>1, <3>1, <3>2, <3>3 DEF Trimmed, Bracketed, Opens
    <2> QED
      BY <2>4, <2>5
  <1> QED
    BY <1>1, <1>2

\* What stands in a part stands at the beginning of its rest.
LEMMA HoldsFrom ==
  ASSUME NEW d \in Seq(Letter), NEW i \in 1..Len(d) + 1, NEW w \in Seq(Letter), Holds(d, i, w)
  PROVE  From(d, i) \in Seq(Letter) /\ Len(From(d, i)) = Len(d) + 1 - i /\ Holds(From(d, i), 1, w)
PROOF
  <1> DEFINE r == From(d, i)
             n == Len(d)
  <1>1. n \in Nat /\ i \in 1..n + 1 /\ Len(w) \in Nat
    OBVIOUS
  <1>2. r \in Seq(Letter) /\ Len(r) = n + 1 - i /\ \A k \in 1..n + 1 - i : r[k] = d[i + k - 1]
    BY DEF From
  <1> HIDE DEF r, n
  <1>3. \A j \in 1..Len(w) : i + j - 1 <= n => d[i + j - 1] = w[j]
    BY DEF Holds, n
  <1>4. ASSUME NEW j \in 1..Len(w), 1 + j - 1 <= Len(r) PROVE r[1 + j - 1] = w[j]
    <2>1. 1 + j - 1 = j /\ j \in 1..n + 1 - i /\ i + j - 1 <= n
      BY <1>1, <1>2, <1>4
    <2>2. r[j] = d[i + j - 1]
      BY <1>2, <2>1
    <2> QED
      BY <1>3, <2>1, <2>2
  <1>5. Holds(r, 1, w)
    BY <1>4 DEF Holds
  <1> QED
    BY <1>2, <1>5 DEF r, n

\* The rest of a string is read as far as it reaches into the part.
LEMMA ContinuedText ==
  ASSUME NEW d \in Seq(Letter), NEW i \in 1..Len(d) + 1, NEW s \in Seq(Letter),
         Holds(d, i, Encode(s) \o Quote)
  PROVE  Continued(d, i) = Fragment(<<>>, Fit(s, Len(d) + 1 - i))
PROOF
  <1> DEFINE r == From(d, i)
             w == Encode(s) \o Quote
  <1>1. w \in Seq(Letter)
    BY EscapesAre, QuoteIs
  <1>2. r \in Seq(Letter) /\ Len(r) = Len(d) + 1 - i /\ Holds(r, 1, w)
    <2> HIDE DEF w
    <2>1. Holds(d, i, w)
      BY DEF w
    <2> QED
      BY <1>1, <2>1, HoldsFrom
  <1>3. Len(d) \in Nat /\ 1 \in 1..Len(r) + 1 /\ Len(r) + 1 - 1 = Len(d) + 1 - i
    <2> HIDE DEF r
    <2> QED
      BY <1>2
  <1>4. Inside(r, 1) = StringRead(r, 1, s)
    <2> HIDE DEF r
    <2> QED
      BY <1>2, <1>3, InsideIs
  <1>5. StringRead(r, 1, s).text = Fit(s, Len(r) + 1 - 1)
    <2> HIDE DEF r
    <2> QED
      BY DEF StringRead
  <1>6. Inside(From(d, i), 1).text = Fit(s, Len(d) + 1 - i)
    BY <1>3, <1>4, <1>5
  <1> QED
    BY <1>6 DEF Continued

\* A part that goes on with the rest of a string from i on.
Unbracketed(d, i) == Skip(d, i) <= Len(d) => d[Skip(d, i)] \notin {"[", "]"}

RestContinues(d, i, s) ==
  LET t == Fit(s, Len(d) + 1 - i)
  IN Holds(d, i, Encode(s) \o Quote) /\ ~Bracketed(t) =>
       PairsFrom(d, i) = Fragment(<<>>, Trimmed(t)) /\ Unbracketed(d, i)

\* Nothing continues a string where the part ends.
LEMMA RestAtEnd ==
  ASSUME NEW d \in Seq(Letter), NEW s \in Seq(Letter)
  PROVE  RestContinues(d, Len(d) + 1, s)
PROOF
  <1> DEFINE i == Len(d) + 1
             t == Fit(s, Len(d) + 1 - i)
  <1>1. Len(d) \in Nat /\ i \in 1..Len(d) + 1 /\ Len(d) + 1 - i = 0
    OBVIOUS
  <1>2. t = <<>>
    BY <1>1, FitNone
  <1>3. Skip(d, i) = i
    BY <1>1, SkipNone
  <1>4. PairsFrom(d, i) = Fragment(<<>>, <<>>)
    BY <1>1, <1>3, PairsSteps
  <1>5. Unbracketed(d, i)
    BY <1>1, <1>3 DEF Unbracketed
  <1> QED
    BY <1>2, <1>4, <1>5, TrimSteps DEF RestContinues

\* Of the rest of a string none of which is left nothing is shown.
LEMMA RestNothing ==
  ASSUME NEW d \in Seq(Letter), NEW i \in 1..Len(d) + 1
  PROVE  RestContinues(d, i, <<>>)
PROOF
  <1>1. Len(d) \in Nat /\ <<>> \in Seq(Letter)
    OBVIOUS
  <1>2. CASE i = Len(d) + 1
    BY <1>1, <1>2, RestAtEnd
  <1>3. CASE i # Len(d) + 1
    <2> SUFFICES ASSUME Holds(d, i, Encode(<<>>) \o Quote)
                 PROVE  PairsFrom(d, i) = Fragment(<<>>, Trimmed(Fit(<<>>, Len(d) + 1 - i))) /\ Unbracketed(d, i)
      BY DEF RestContinues
    <2>1. i \in 1..Len(d) /\ i <= Len(d)
      BY <1>1, <1>3
    <2>2. d[i] = "q"
      <3>1. Encode(<<>>) \o Quote = Quote
        <4>1. Encode(<<>>) = <<>>
          BY EncodeSteps
        <4>2. <<>> \o Quote = Quote
          BY QuoteIs
        <4> QED
          BY <4>1, <4>2
      <3>2. Holds(d, i, Quote)
        BY <3>1
      <3>3. 1 \in 1..Len(Quote) /\ i + 1 - 1 = i /\ Quote[1] = "q"
        BY QuoteIs
      <3> QED
        BY <2>1, <3>2, <3>3 DEF Holds
    <2>3. Skip(d, i) = i
      BY <2>2, SkipNone
    <2>4. PairsFrom(d, i) = Continued(d, i)
      BY <2>1, <2>2, <2>3, PairsSteps
    <2>5. Fit(<<>>, Len(d) + 1 - i) = <<>>
      <3> DEFINE r == Len(d) + 1 - i
      <3>1. r \in Int
        BY <1>1
      <3> HIDE DEF r
      <3> QED
        BY <3>1, FitSteps
    <2>6. Continued(d, i) = Fragment(<<>>, <<>>)
      BY <1>1, <2>5, ContinuedText
    <2> QED
      BY <2>2, <2>3, <2>4, <2>5, <2>6, TrimSteps DEF Unbracketed
  <1> QED
    BY <1>2, <1>3

\* What stands first of an escaped character.
LEMMA EscapedFirst ==
  ASSUME NEW c \in Letter
  PROVE  /\ c \notin {"q", "b", "n", "U"} => Escaped(c) = <<c>> /\ Escaped(c)[1] = c /\ Taken(c) = 1
         /\ c \in {"q", "b", "n", "U"} => Escaped(c)[1] = "b"
         /\ 1 \in 1..Len(Escaped(c))
PROOF
  <1>1. 1 \in 1..Len(Escaped(c))
    <2>1. Taken(c) \in Nat \ {0}
      BY EscapedIs
    <2> QED
      BY <2>1 DEF Taken
  <1>2. ASSUME c \notin {"q", "b", "n", "U"} PROVE Escaped(c) = <<c>> /\ Escaped(c)[1] = c /\ Taken(c) = 1
    <2>1. Escaped(c) = <<c>>
      BY <1>2, EscapedIs
    <2> QED
      BY <2>1 DEF Taken
  <1>3. ASSUME c \in {"q", "b", "n"} PROVE Escaped(c)[1] = "b"
    <2>1. Escaped(c) = <<"b", c>>
      BY <1>3, EscapedIs
    <2> QED
      BY <2>1
  <1>4. ASSUME c = "U" PROVE Escaped(c)[1] = "b"
    BY <1>4, EscapedIs
  <1> QED
    BY <1>1, <1>2, <1>3, <1>4

\* A rest with one more character in front of it.
LEMMA RestFront ==
  ASSUME NEW d \in Seq(Letter), NEW i \in 1..Len(d), NEW c \in Letter, NEW t \in Seq(Letter),
         RestContinues(d, i + 1, t)
  PROVE  RestContinues(d, i, <<c>> \o t)
PROOF
  <1> DEFINE s == <<c>> \o t
             r == Len(d) + 1 - i
             f == Fit(s, r)
             u == Fit(t, r - Taken(c))
  <1>1. Len(d) \in Nat /\ r \in Nat /\ r >= 1 /\ i <= Len(d) /\ i \in 1..Len(d) + 1 /\ i + 1 \in 1..Len(d) + 1
        /\ Len(d) + 1 - (i + 1) = r - 1
    OBVIOUS
  <1>2. s \in Seq(Letter)
    OBVIOUS
  <1>3. f = IF Taken(c) <= r THEN <<c>> \o u ELSE <<>>
    <2>1. r \in Int
      BY <1>1
    <2> HIDE DEF r
    <2> QED
      BY <2>1, FitSteps
  <1>4. u \in Seq(Letter)
    <2>1. r - Taken(c) \in Int
      <3>1. Taken(c) \in Nat \ {0}
        BY EscapedIs
      <3> HIDE DEF r
      <3> QED
        BY <1>1, <3>1
    <2> DEFINE x == r - Taken(c)
    <2> HIDE DEF x
    <2>2. FitLen(t, x) \in 0..Len(t) /\ Fit(t, x) = Upto(t, FitLen(t, x))
      BY <2>1, FitIs DEF x
    <2>3. Upto(t, FitLen(t, x)) \in Seq(Letter)
      BY <2>2 DEF Upto
    <2> QED
      BY <2>2, <2>3 DEF x
  <1> SUFFICES ASSUME Holds(d, i, Encode(s) \o Quote), ~Bracketed(f)
               PROVE  PairsFrom(d, i) = Fragment(<<>>, Trimmed(f)) /\ Unbracketed(d, i)
    BY DEF RestContinues
  <1>5. Holds(d, i, Escaped(c)) /\ Holds(d, i + Taken(c), Encode(t) \o Quote)
    <2> DEFINE e == Encode(s) \o Quote
    <2>1. i \in Int
      BY <1>1
    <2> QED
      BY <2>1, QuoteIs, HoldsFront
  <1>6. d[i] = Escaped(c)[1]
    <2>1. 1 \in 1..Len(Escaped(c)) /\ i + 1 - 1 = i
      BY <1>1, EscapedFirst
    <2> QED
      BY <1>1, <1>5, <2>1 DEF Holds
  <1>7. c \notin {"q", "b", "n", "U"} =>
          d[i] = c /\ Taken(c) = 1 /\ f = <<c>> \o u /\ u = Fit(t, r - 1)
    <2> SUFFICES ASSUME c \notin {"q", "b", "n", "U"}
                 PROVE  d[i] = c /\ Taken(c) = 1 /\ f = <<c>> \o u /\ u = Fit(t, r - 1)
      OBVIOUS
    <2>1. Escaped(c)[1] = c /\ Taken(c) = 1
      BY EscapedFirst
    <2>2. f = <<c>> \o u
      <3> HIDE DEF f, r, u
      <3> QED
        BY <1>1, <1>3, <2>1
    <2> QED
      BY <1>6, <2>1, <2>2
  <1>8. c \in {"q", "b", "n", "U"} => d[i] = "b"
    BY <1>6, EscapedFirst
  <1> HIDE DEF s, r, f, u
  <1>9. CASE c \in {"blank", "comma"}
    <2>1. d[i] = c /\ f = <<c>> \o u /\ Taken(c) = 1 /\ u = Fit(t, r - 1)
      BY <1>7, <1>9
    <2>2. Trimmed(f) = Trimmed(u) /\ (Bracketed(f) <=> Bracketed(u))
      BY <1>4, <1>9, <2>1, TrimSteps
    <2>3. u = Fit(t, Len(d) + 1 - (i + 1))
      BY <1>1, <2>1
    <2>4. Holds(d, i + 1, Encode(t) \o Quote)
      BY <1>5, <2>1
    <2>5. PairsFrom(d, i + 1) = Fragment(<<>>, Trimmed(u)) /\ Unbracketed(d, i + 1)
      BY <2>2, <2>3, <2>4 DEF RestContinues
    <2>6. PairsFrom(d, i) = PairsFrom(d, i + 1) /\ Unbracketed(d, i)
      <3>1. CASE c = "comma"
        <4>1. Skip(d, i) = i
          BY <1>1, <2>1, <3>1, SkipNone
        <4>2. PairsFrom(d, i) = PairsFrom(d, i + 1)
          BY <1>1, <2>1, <3>1, <4>1, PairsSteps
        <4> QED
          BY <2>1, <3>1, <4>1, <4>2 DEF Unbracketed
      <3>2. CASE c = "blank"
        <4>1. Skip(d, i) = Skip(d, i + 1)
          BY <1>1, <2>1, <3>2, SkipTwice
        <4>2. PairsFrom(d, i) = PairsFrom(d, i + 1)
          BY <1>1, <4>1, SameSkip
        <4> QED
          BY <2>5, <4>1, <4>2 DEF Unbracketed
      <3> QED
        BY <1>9, <3>1, <3>2
    <2> QED
      BY <2>2, <2>5, <2>6
  <1>10. CASE c \notin {"blank", "comma"}
    <2>1. d[i] \notin {"blank", "comma"}
      BY <1>7, <1>8, <1>10
    <2>2. Skip(d, i) = i
      BY <1>1, <2>1, SkipNone
    <2>3. d[i] \notin {"[", "]"}
      <3>1. CASE c \in {"q", "b", "n", "U"}
        BY <1>8, <3>1
      <3>2. CASE c \notin {"q", "b", "n", "U"}
        <4>1. d[i] = c /\ f = <<c>> \o u
          BY <1>7, <3>2
        <4>2. c \notin {"[", "]"}
          BY <1>4, <1>10, <4>1, TrimSteps
        <4> QED
          BY <4>1, <4>2
      <3> QED
        BY <3>1, <3>2
    <2>4. PairsFrom(d, i) = Continued(d, i)
      BY <1>1, <2>1, <2>2, <2>3, PairsSteps
    <2>5. Continued(d, i) = Fragment(<<>>, f)
      BY <1>1, <1>2, ContinuedText DEF f, r
    <2>6. Trimmed(f) = f
      BY <1>3, <1>4, <1>10, TrimSteps
    <2> QED
      BY <2>2, <2>3, <2>4, <2>5, <2>6 DEF Unbracketed
  <1> QED
    BY <1>9, <1>10

\* A part that begins inside a string is the rest of that string, but for the blanks
\* and commas it begins with.
LEMMA RestIs ==
  ASSUME NEW d \in Seq(Letter), NEW s \in Seq(Letter), NEW i \in 1..Len(d) + 1
  PROVE  RestContinues(d, i, s)
PROOF
  <1> DEFINE Q == {t \in Seq(Letter) : \A k \in 1..Len(d) + 1 : RestContinues(d, k, t)}
  <1>1. <<>> \in Q
    BY RestNothing
  <1>2. \A c \in Letter, t \in Seq(Letter) : t \in Q => <<c>> \o t \in Q
    <2> SUFFICES ASSUME NEW c \in Letter, NEW t \in Seq(Letter), t \in Q
                 PROVE  <<c>> \o t \in Q
      OBVIOUS
    <2>1. <<c>> \o t \in Seq(Letter)
      OBVIOUS
    <2>2. ASSUME NEW k \in 1..Len(d) + 1 PROVE RestContinues(d, k, <<c>> \o t)
      <3>1. CASE k = Len(d) + 1
        BY <2>1, <3>1, RestAtEnd
      <3>2. CASE k # Len(d) + 1
        <4>1. k \in 1..Len(d) /\ k + 1 \in 1..Len(d) + 1
          BY <3>2
        <4>2. RestContinues(d, k + 1, t)
          BY <4>1
        <4> QED
          BY <4>1, <4>2, RestFront
      <3> QED
        BY <3>1, <3>2
    <2> QED
      BY <2>1, <2>2
  <1>3. Seq(Letter) \subseteq Q
    <2> HIDE DEF Q
    <2> QED
      BY <1>1, <1>2, SequenceInduction
  <1> QED
    BY <1>3

\* A part that begins with neither bracket is scanned like one after a pair.
LEMMA ScanIsPairs ==
  ASSUME NEW d \in Seq(Letter), Unbracketed(d, 1)
  PROVE  ScanHeaders(d) = PairsFrom(d, 1)
PROOF
  <1> DEFINE i == Skip(d, 1)
             j == Skip(d, i + 1)
  <1>1. Len(d) \in Nat /\ 1 \in 1..Len(d) + 1
    OBVIOUS
  <1>2. i \in 1..Len(d) + 1
    BY <1>1, SkipTwice
  <1>3. CASE i = Len(d) + 1
    <2>1. i > Len(d) /\ ~(i <= Len(d))
      BY <1>1, <1>3
    <2>2. ScanHeaders(d) = Fragment(<<>>, <<>>)
      <3> HIDE DEF i
      <3> QED
        BY <2>1 DEF ScanHeaders, i
    <2> QED
      BY <1>1, <1>3, <2>2, PairsSteps
  <1>4. CASE i # Len(d) + 1
    <2>1. i \in 1..Len(d) /\ i <= Len(d) /\ ~(i > Len(d)) /\ i + 1 \in 1..Len(d) + 1
      BY <1>1, <1>2, <1>4
    <2>2. d[i] \notin {"[", "]"}
      BY <2>1 DEF Unbracketed
    <2>3. CASE d[i] = "comma"
      <3>1. ScanHeaders(d) = PairsFrom(d, j)
        <4> HIDE DEF i
        <4> QED
          BY <2>1, <2>2, <2>3 DEF ScanHeaders, i
      <3>2. PairsFrom(d, 1) = PairsFrom(d, i + 1)
        BY <1>1, <2>1, <2>3, PairsSteps
      <3>3. j \in 1..Len(d) + 1 /\ Skip(d, j) = j
        <4> HIDE DEF i
        <4> QED
          BY <2>1, SkipTwice
      <3>4. PairsFrom(d, i + 1) = PairsFrom(d, j)
        <4> HIDE DEF i
        <4> QED
          BY <2>1, <3>3, SameSkip
      <3> QED
        BY <3>1, <3>2, <3>4
    <2>4. CASE d[i] # "comma"
      <3>1. ScanHeaders(d) = Fragment(<<>>, Inside(From(d, i), 1).text)
        BY <2>1, <2>2, <2>4 DEF ScanHeaders
      <3>2. PairsFrom(d, 1) = Continued(d, i)
        BY <1>1, <2>1, <2>2, <2>4, PairsSteps
      <3> QED
        BY <3>1, <3>2 DEF Continued
    <2> QED
      BY <2>3, <2>4
  <1> QED
    BY <1>3, <1>4

-----------------------------------------------------------------------------
(* Lists of pairs as they are archived *)

\* A sequence is its first k elements and the others.
LEMMA CutInTwo ==
  ASSUME NEW S, NEW q \in Seq(S), NEW k \in 0..Len(q)
  PROVE  /\ Upto(q, k) \in Seq(S) /\ From(q, k + 1) \in Seq(S)
         /\ Len(Upto(q, k)) = k /\ Len(From(q, k + 1)) = Len(q) - k
         /\ \A j \in 1..k : Upto(q, k)[j] = q[j]
         /\ \A j \in 1..Len(q) - k : From(q, k + 1)[j] = q[k + j]
PROOF
  <1> DEFINE n == Len(q)
  <1>1. n \in Nat /\ k \in Nat /\ k <= n /\ \A i \in 1..n : q[i] \in S
    OBVIOUS
  <1> HIDE DEF n
  <1>2. /\ SubSeq(q, 1, k) \in Seq(S)
        /\ Len(SubSeq(q, 1, k)) = IF 1 <= k THEN k - 1 + 1 ELSE 0
        /\ \A i \in 1..k - 1 + 1 : SubSeq(q, 1, k)[i] = q[1 + i - 1]
    <2>1. \A i \in 1..k : q[i] \in S
      BY <1>1
    <2> QED
      BY <1>1, <2>1, SubSeqProperties
  <1>3. /\ SubSeq(q, k + 1, n) \in Seq(S)
        /\ Len(SubSeq(q, k + 1, n)) = IF k + 1 <= n THEN n - (k + 1) + 1 ELSE 0
        /\ \A i \in 1..n - (k + 1) + 1 : SubSeq(q, k + 1, n)[i] = q[(k + 1) + i - 1]
    <2>1. (\A i \in k + 1..n : q[i] \in S) /\ k + 1 \in Int /\ n \in Int
      BY <1>1
    <2> QED
      BY <2>1, SubSeqProperties
  <1> DEFINE a == SubSeq(q, 1, k)
             b == SubSeq(q, k + 1, n)
  <1>4. Upto(q, k) = a /\ From(q, k + 1) = b
    BY DEF Upto, From, n
  <1> HIDE DEF a, b
  <1>5. Len(a) = k /\ \A j \in 1..k : a[j] = q[j]
    <2>1. Len(a) = IF 1 <= k THEN k - 1 + 1 ELSE 0
      BY <1>2 DEF a
    <2>2. \A i \in 1..k - 1 + 1 : a[i] = q[1 + i - 1]
      BY <1>2 DEF a
    <2>3. k - 1 + 1 = k /\ \A i \in 1..k : 1 + i - 1 = i
      BY <1>1
    <2> QED
      BY <1>1, <2>1, <2>2, <2>3
  <1>6. Len(b) = n - k /\ \A j \in 1..n - k : b[j] = q[k + j]
    <2>1. Len(b) = IF k + 1 <= n THEN n - (k + 1) + 1 ELSE 0
      BY <1>3 DEF b
    <2>2. \A i \in 1..n - (k + 1) + 1 : b[i] = q[(k + 1) + i - 1]
      BY <1>3 DEF b
    <2>3. n - (k + 1) + 1 = n - k /\ \A i \in 1..n - k : (k + 1) + i - 1 = k + i
      BY <1>1
    <2> QED
      BY <1>1, <2>1, <2>2, <2>3
  <1>7. a \in Seq(S) /\ b \in Seq(S)
    BY <1>2, <1>3 DEF a, b
  <1> QED
    BY <1>4, <1>5, <1>6, <1>7 DEF n

\* What is flattened is the first k parts, flattened, and then the others.
LEMMA FlattenCut ==
  ASSUME NEW T, NEW q \in Seq(Seq(T)), NEW k \in 0..Len(q)
  PROVE  /\ FlattenSeq(q) = FlattenSeq(Upto(q, k)) \o FlattenSeq(From(q, k + 1))
         /\ FlattenSeq(Upto(q, k)) \in Seq(T) /\ FlattenSeq(From(q, k + 1)) \in Seq(T)
PROOF
  <1> DEFINE a == Upto(q, k)
             b == From(q, k + 1)
             S == Seq(T)
  <1>1. a \in Seq(S) /\ b \in Seq(S) /\ Len(a) = k /\ Len(b) = Len(q) - k
        /\ (\A j \in 1..k : a[j] = q[j]) /\ \A j \in 1..Len(q) - k : b[j] = q[k + j]
    <2>1. q \in Seq(S)
      OBVIOUS
    <2> HIDE DEF S
    <2> QED
      BY <2>1, CutInTwo
  <1>2. Joined(q, a, b)
    <2>1. Len(q) \in Nat /\ k \in Nat
      OBVIOUS
    <2> HIDE DEF a, b
    <2>2. Len(q) = Len(a) + Len(b)
      BY <1>1, <2>1
    <2> QED
      BY <1>1, <2>2 DEF Joined
  <1> HIDE DEF a, b
  <1>3. FlattenSeq(q) = FlattenSeq(a) \o FlattenSeq(b)
    BY <1>1, <1>2, FlattenJoined
  <1>4. FlattenSeq(a) \in Seq(T) /\ FlattenSeq(b) \in Seq(T)
    BY <1>1, FlattenedParts
  <1> QED
    BY <1>3, <1>4 DEF a, b

\* From the k-th part on: that part and then the others.
LEMMA FlattenFront ==
  ASSUME NEW T, NEW q \in Seq(Seq(T)), NEW k \in 1..Len(q)
  PROVE  /\ FlattenSeq(From(q, k)) = q[k] \o FlattenSeq(From(q, k + 1))
         /\ FlattenSeq(Upto(q, k)) = FlattenSeq(Upto(q, k - 1)) \o q[k]
PROOF
  <1> DEFINE S == Seq(T)
             n == Len(q)
             x == q[k]
             o == <<x>>
             a == From(q, k)
             b == From(q, k + 1)
             u == Upto(q, k)
             v == Upto(q, k - 1)
  <1>1. n \in Nat /\ k \in 1..n /\ k - 1 \in 0..n /\ k \in 0..n /\ (k - 1) + 1 = k /\ q \in Seq(S) /\ x \in S
    OBVIOUS
  <1>2. /\ a \in Seq(S) /\ Len(a) = n - (k - 1) /\ (\A j \in 1..n - (k - 1) : a[j] = q[(k - 1) + j])
        /\ v \in Seq(S) /\ Len(v) = k - 1 /\ (\A j \in 1..k - 1 : v[j] = q[j])
    <2> DEFINE m == k - 1
    <2>1. m \in 0..Len(q) /\ k = m + 1 /\ q \in Seq(S)
      BY <1>1
    <2> HIDE DEF S, m
    <2>2. /\ Upto(q, m) \in Seq(S) /\ From(q, m + 1) \in Seq(S)
          /\ Len(Upto(q, m)) = m /\ Len(From(q, m + 1)) = Len(q) - m
          /\ (\A j \in 1..m : Upto(q, m)[j] = q[j])
          /\ (\A j \in 1..Len(q) - m : From(q, m + 1)[j] = q[m + j])
      BY <2>1, CutInTwo
    <2>3. From(q, m + 1) = a /\ Upto(q, m) = v
      BY <2>1 DEF m
    <2> HIDE DEF a, v
    <2> QED
      BY <2>2, <2>3 DEF m
  <1>3. /\ b \in Seq(S) /\ Len(b) = n - k /\ (\A j \in 1..n - k : b[j] = q[k + j])
        /\ u \in Seq(S) /\ Len(u) = k /\ (\A j \in 1..k : u[j] = q[j])
    <2>1. k \in 0..Len(q) /\ q \in Seq(S)
      BY <1>1
    <2>2. /\ Upto(q, k) \in Seq(S) /\ From(q, k + 1) \in Seq(S)
          /\ Len(Upto(q, k)) = k /\ Len(From(q, k + 1)) = Len(q) - k
          /\ \A j \in 1..k : Upto(q, k)[j] = q[j]
          /\ \A j \in 1..Len(q) - k : From(q, k + 1)[j] = q[k + j]
      <3> HIDE DEF S
      <3> QED
        BY <2>1, CutInTwo
    <2> HIDE DEF S
    <2> QED
      BY <2>2
  <1>4. o \in Seq(S) /\ Len(o) = 1 /\ o[1] = x
    <2> HIDE DEF S, x
    <2> QED
      BY <1>1
  <1>5. FlattenSeq(o) = x
    BY <1>1, FlattenOne
  <1> HIDE DEF a, b, u, v, o, n
  <1>6. Joined(a, o, b)
    <2>1. Len(a) = Len(o) + Len(b)
      <3>1. Len(a) = n - (k - 1) /\ Len(b) = n - k
        BY <1>1, <1>2, <1>3
      <3> QED
        BY <1>1, <1>4, <3>1
    <2>2. \A j \in 1..Len(o) : a[j] = o[j]
      <3>1. 1 \in 1..n - (k - 1) /\ (k - 1) + 1 = k
        BY <1>1
      <3>2. a[1] = x
        BY <1>2, <3>1
      <3> QED
        BY <1>4, <3>2
    <2>3. ASSUME NEW j \in 1..Len(b) PROVE a[Len(o) + j] = b[j]
      <3>1. Len(o) + j \in 1..n - (k - 1) /\ (k - 1) + (Len(o) + j) = k + j /\ j \in 1..n - k
        BY <1>1, <1>3, <1>4
      <3>2. a[Len(o) + j] = q[(k - 1) + (Len(o) + j)]
        BY <1>2, <3>1
      <3> QED
        BY <1>3, <3>1, <3>2
    <2> QED
      BY <2>1, <2>2, <2>3 DEF Joined
  <1>7. Joined(u, v, o)
    <2>1. Len(u) = Len(v) + Len(o)
      BY <1>1, <1>2, <1>3, <1>4
    <2>2. ASSUME NEW j \in 1..Len(v) PROVE u[j] = v[j]
      <3>1. j \in 1..k - 1 /\ j \in 1..k
        BY <1>1, <1>2
      <3> QED
        BY <1>2, <1>3, <3>1
    <2>3. ASSUME NEW j \in 1..Len(o) PROVE u[Len(v) + j] = o[j]
      <3>1. j = 1 /\ Len(v) + j = k /\ k \in 1..k
        BY <1>1, <1>2, <1>4
      <3>2. u[k] = x
        BY <1>3, <3>1 DEF x
      <3> QED
        BY <1>4, <3>1, <3>2
    <2> QED
      BY <2>1, <2>2, <2>3 DEF Joined
  <1>8. FlattenSeq(a) = FlattenSeq(o) \o FlattenSeq(b)
    <2>1. a \in Seq(Seq(T)) /\ o \in Seq(Seq(T)) /\ b \in Seq(Seq(T))
      BY <1>2, <1>3, <1>4
    <2> HIDE DEF S
    <2> QED
      BY <1>6, <2>1, FlattenJoined
  <1>9. FlattenSeq(u) = FlattenSeq(v) \o FlattenSeq(o)
    <2>1. u \in Seq(Seq(T)) /\ v \in Seq(Seq(T)) /\ o \in Seq(Seq(T))
      BY <1>2, <1>3, <1>4
    <2> HIDE DEF S
    <2> QED
      BY <1>7, <2>1, FlattenJoined
  <1> QED
    BY <1>5, <1>8, <1>9 DEF a, b, u, v, x

\* What stands for the k-th pair of a list, and how it is separated.
Separator(k) == IF k > 1 THEN <<"comma">> ELSE <<>>
Separated(l, k) == Separator(k) \o JsonPair(l[k])
JsonParts(l) == [k \in DOMAIN l |-> Separated(l, k)]

\* A pair of a list with the comma before it.
LEMMA SeparatedIs ==
  ASSUME NEW l \in Seq(HeaderPair), NEW k \in 1..Len(l)
  PROVE  /\ l[k] \in HeaderPair
         /\ Separator(k) \in Seq(Letter) /\ Len(Separator(k)) = IF k > 1 THEN 1 ELSE 0
         /\ Separated(l, k) \in Seq(Letter)
         /\ Len(Separated(l, k)) = PairLen(l[k]) + IF k > 1 THEN 1 ELSE 0
PROOF
  <1>1. l[k] \in HeaderPair
    OBVIOUS
  <1>2. "comma" \in Letter
    BY LettersAre DEF Letter, Character, Byte
  <1>3. Separator(k) \in Seq(Letter) /\ Len(Separator(k)) = IF k > 1 THEN 1 ELSE 0
    BY <1>2 DEF Separator
  <1> DEFINE p == l[k]
  <1>4. JsonPair(p) \in Seq(Letter) /\ Len(JsonPair(p)) = PairLen(p) /\ PairLen(p) \in Nat
    BY <1>1, PairLenIs
  <1>5. Separated(l, k) = Separator(k) \o JsonPair(p)
    BY DEF Separated
  <1> HIDE DEF p
  <1>6. Separator(k) \o JsonPair(p) \in Seq(Letter)
        /\ Len(Separator(k) \o JsonPair(p)) = Len(Separator(k)) + Len(JsonPair(p))
    BY <1>3, <1>4, JoinedIs
  <1> DEFINE a == Len(Separator(k))
             c == IF k > 1 THEN 1 ELSE 0
  <1>7. a = c /\ c \in Nat
    BY <1>3
  <1> HIDE DEF a, c
  <1>8. Len(Separated(l, k)) = PairLen(p) + c
    BY <1>4, <1>5, <1>6, <1>7 DEF a
  <1> QED
    BY <1>1, <1>3, <1>5, <1>6, <1>8 DEF p, c

\* The parts a list is written in, one for each of its pairs.
LEMMA JsonPartsAre ==
  ASSUME NEW l \in Seq(HeaderPair)
  PROVE  /\ JsonParts(l) \in Seq(Seq(Letter)) /\ Len(JsonParts(l)) = Len(l)
         /\ \A k \in 1..Len(l) : JsonParts(l)[k] = Separated(l, k)
PROOF
  <1>1. \A k \in 1..Len(l) : Separated(l, k) \in Seq(Letter)
    BY SeparatedIs
  <1> DEFINE S == Seq(Letter)
  <1>2. JsonParts(l) \in Seq(S) /\ Len(JsonParts(l)) = Len(l)
        /\ \A k \in 1..Len(l) : JsonParts(l)[k] = Separated(l, k)
    <2> DEFINE n == Len(l)
               q == [k \in 1..n |-> Separated(l, k)]
    <2>1. n \in Nat /\ \A k \in 1..n : Separated(l, k) \in S
      BY <1>1
    <2>2. JsonParts(l) = q
      BY DEF JsonParts
    <2> HIDE DEF n, S
    <2>3. q \in Seq(S) /\ Len(q) = n
      BY <2>1
    <2> QED
      BY <2>2, <2>3 DEF n
  <1> QED
    BY <1>2

\* The list of the first k pairs.
LEMMA PartsUpto ==
  ASSUME NEW l \in Seq(HeaderPair), NEW k \in 0..Len(l)
  PROVE  Upto(l, k) \in Seq(HeaderPair) /\ JsonParts(Upto(l, k)) = Upto(JsonParts(l), k)
PROOF
  <1> DEFINE u == Upto(l, k)
             q == JsonParts(l)
             a == JsonParts(u)
             b == Upto(q, k)
             S == Seq(Letter)
  <1>1. Len(l) \in Nat /\ k \in Nat /\ k <= Len(l)
    OBVIOUS
  <1>2. u \in Seq(HeaderPair) /\ Len(u) = k /\ \A j \in 1..k : u[j] = l[j]
    BY CutInTwo
  <1>3. q \in Seq(S) /\ Len(q) = Len(l) /\ \A j \in 1..Len(l) : q[j] = Separated(l, j)
    BY JsonPartsAre
  <1> HIDE DEF u, q
  <1>4. a \in Seq(S) /\ Len(a) = k /\ \A j \in 1..k : a[j] = Separated(u, j)
    <2>1. a \in Seq(S) /\ Len(a) = Len(u) /\ \A j \in 1..Len(u) : a[j] = Separated(u, j)
      BY <1>2, JsonPartsAre
    <2> HIDE DEF a, S
    <2> QED
      BY <1>2, <2>1
  <1>5. b \in Seq(S) /\ Len(b) = k /\ \A j \in 1..k : b[j] = q[j]
    <2>1. k \in 0..Len(q)
      BY <1>1, <1>3
    <2> HIDE DEF S
    <2>2. Upto(q, k) \in Seq(S) /\ Len(Upto(q, k)) = k /\ \A j \in 1..k : Upto(q, k)[j] = q[j]
      BY <1>3, <2>1, CutInTwo
    <2> QED
      BY <2>2
  <1> HIDE DEF a, b, S
  <1>6. \A j \in 1..k : a[j] = b[j]
    <2> TAKE j \in 1..k
    <2>1. j \in 1..Len(l) /\ u[j] = l[j]
      BY <1>1, <1>2
    <2>2. Separated(u, j) = Separated(l, j)
      BY <2>1 DEF Separated
    <2> QED
      BY <1>3, <1>4, <1>5, <2>1, <2>2
  <1>7. a = b
    BY <1>1, <1>4, <1>5, <1>6
  <1> QED
    BY <1>2, <1>7 DEF a, b, u, q

\* The bytes of a list, between its brackets.
JsonInside(l) == FlattenSeq(JsonParts(l))

\* A list is written as its parts between brackets.
LEMMA JsonIs ==
  ASSUME NEW l \in Seq(HeaderPair)
  PROVE  /\ JsonInside(l) \in Seq(Letter)
         /\ Json(l) \in Seq(Letter) /\ Len(Json(l)) = Len(JsonInside(l)) + 2
         /\ Json(l)[1] = "[" /\ Json(l)[Len(Json(l))] = "]"
         /\ \A j \in 1..Len(JsonInside(l)) : Json(l)[1 + j] = JsonInside(l)[j]
PROOF
  <1> DEFINE w == JsonInside(l)
             a == <<"[">>
             e == <<"]">>
             n == Len(w)
  <1>1. w \in Seq(Letter)
    <2>1. JsonParts(l) \in Seq(Seq(Letter))
      BY JsonPartsAre
    <2> QED
      BY <2>1, FlattenedParts DEF JsonInside
  <1>2. Json(l) = (a \o w) \o e
    BY DEF Json, JsonInside, JsonParts, Separated, Separator
  <1>3. a \in Seq(Letter) /\ Len(a) = 1 /\ a[1] = "[" /\ e \in Seq(Letter) /\ Len(e) = 1 /\ e[1] = "]"
    <2>1. "[" \in Letter /\ "]" \in Letter
      BY LettersAre DEF Letter, Character, Byte
    <2> QED
      BY <2>1
  <1> HIDE DEF w, a, e
  <1> DEFINE x == a \o w
  <1>4. n \in Nat
    BY <1>1
  <1>5. x \in Seq(Letter) /\ Len(x) = n + 1 /\ x[1] = "[" /\ \A j \in 1..n : x[1 + j] = w[j]
    <2>1. x \in Seq(Letter) /\ Joined(x, a, w)
      BY <1>1, <1>3, Concatenated
    <2> HIDE DEF x
    <2>2. Len(x) = 1 + n /\ (\A j \in 1..1 : x[j] = a[j]) /\ \A j \in 1..n : x[1 + j] = w[j]
      BY <1>3, <2>1 DEF Joined
    <2> QED
      BY <1>3, <1>4, <2>1, <2>2
  <1> DEFINE y == x \o e
  <1> HIDE DEF x
  <1>6. y \in Seq(Letter) /\ Len(y) = n + 2 /\ (\A j \in 1..n + 1 : y[j] = x[j]) /\ y[n + 2] = "]"
    <2>1. y \in Seq(Letter) /\ Joined(y, x, e)
      BY <1>3, <1>5, Concatenated
    <2> HIDE DEF y
    <2>2. Len(y) = (n + 1) + 1 /\ (\A j \in 1..n + 1 : y[j] = x[j]) /\ \A j \in 1..1 : y[(n + 1) + j] = e[j]
      BY <1>3, <1>5, <2>1 DEF Joined
    <2>3. y[(n + 1) + 1] = e[1] /\ (n + 1) + 1 = n + 2
      BY <1>4, <2>2
    <2> QED
      BY <1>3, <2>1, <2>2, <2>3
  <1> HIDE DEF y
  <1>7. Json(l) = y
    BY <1>2 DEF x, y
  <1>8. y[1] = "["
    <2>1. 1 \in 1..n + 1
      BY <1>4
    <2> QED
      BY <1>5, <1>6, <2>1
  <1>9. \A j \in 1..n : y[1 + j] = w[j]
    <2> TAKE j \in 1..n
    <2>1. 1 + j \in 1..n + 1
      BY <1>4
    <2> QED
      BY <1>5, <1>6, <2>1
  <1> QED
    BY <1>1, <1>6, <1>7, <1>8, <1>9 DEF w

\* What the first k pairs of a list take.
PairsTake(l, k) == Len(JsonInside(Upto(l, k)))

\* The bytes the first pairs of a list take.
LEMMA PairsTakeIs ==
  ASSUME NEW l \in Seq(HeaderPair)
  PROVE  /\ PairsTake(l, 0) = 0
         /\ \A k \in 0..Len(l) : PairsTake(l, k) \in Nat /\ JsonInside(Upto(l, k)) = FlattenSeq(Upto(JsonParts(l), k))
         /\ PairsTake(l, Len(l)) = Len(JsonInside(l))
PROOF
  <1>1. \A k \in 0..Len(l) : PairsTake(l, k) \in Nat
    <2> TAKE k \in 0..Len(l)
    <2>1. Upto(l, k) \in Seq(HeaderPair)
      BY PartsUpto
    <2> DEFINE u == Upto(l, k)
    <2> HIDE DEF u
    <2>2. JsonInside(u) \in Seq(Letter)
      BY <2>1, JsonIs DEF u
    <2>3. Len(JsonInside(u)) \in Nat
      BY <2>2
    <2> QED
      BY <2>3 DEF PairsTake, u
  <1>2. \A k \in 0..Len(l) : JsonInside(Upto(l, k)) = FlattenSeq(Upto(JsonParts(l), k))
    BY PartsUpto DEF JsonInside
  <1>3. PairsTake(l, 0) = 0
    <2> DEFINE q == JsonParts(l)
               S == Seq(Letter)
    <2>1. q \in Seq(S) /\ Len(q) \in Nat
      BY JsonPartsAre
    <2> HIDE DEF S, q
    <2>2. 0 \in 0..Len(q) /\ 0 \in 0..Len(l)
      BY <2>1
    <2>3. Upto(q, 0) \in Seq(S) /\ Len(Upto(q, 0)) = 0
      BY <2>1, <2>2, CutInTwo
    <2>4. Upto(q, 0) = <<>>
      BY <2>3
    <2>5. FlattenSeq(Upto(q, 0)) = <<>>
      <3>1. FlattenSeq(<<>>) = <<>>
        BY DEF FlattenSeq
      <3> QED
        BY <2>4, <3>1
    <2> QED
      BY <1>2, <2>2, <2>5 DEF PairsTake, q
  <1>4. PairsTake(l, Len(l)) = Len(JsonInside(l))
    <2>1. Upto(l, Len(l)) = l
      BY DEF Upto
    <2> QED
      BY <2>1 DEF PairsTake
  <1> QED
    BY <1>1, <1>2, <1>3, <1>4

\* Where the pairs of a list begin; the place after the last one is after its end.
LEMMA PairAtIs ==
  ASSUME NEW l \in Seq(HeaderPair), NEW k \in 1..Len(l) + 1
  PROVE  PairAt(l, k) = 2 + PairsTake(l, k - 1) + IF k > 1 THEN 1 ELSE 0
PROOF
  <1> DEFINE u == Upto(l, k - 1)
             c == IF k > 1 THEN 1 ELSE 0
  <1>1. k - 1 \in 0..Len(l)
    OBVIOUS
  <1>2. u \in Seq(HeaderPair) /\ Len(JsonInside(u)) \in Nat
    <2> DEFINE m == k - 1
    <2>1. m \in 0..Len(l)
      BY <1>1
    <2> HIDE DEF m
    <2>2. Upto(l, m) \in Seq(HeaderPair) /\ PairsTake(l, m) \in Nat
      BY <2>1, PartsUpto, PairsTakeIs
    <2> QED
      BY <2>2 DEF PairsTake, m
  <1>3. Len(Json(u)) = Len(JsonInside(u)) + 2
    BY <1>2, JsonIs
  <1>4. PairAt(l, k) = Len(Json(u)) + c
    BY DEF PairAt
  <1>5. PairsTake(l, k - 1) = Len(JsonInside(u))
    BY DEF PairsTake
  <1>6. c \in Nat
    OBVIOUS
  <1> HIDE DEF u, c
  <1>7. PairAt(l, k) = 2 + PairsTake(l, k - 1) + c
    <2> DEFINE a == Len(JsonInside(u))
               b == PairsTake(l, k - 1)
    <2>1. a \in Nat /\ b = a /\ PairAt(l, k) = a + 2 + c
      BY <1>2, <1>3, <1>4, <1>5
    <2> HIDE DEF a, b
    <2>2. PairAt(l, k) = 2 + b + c
      BY <1>6, <2>1
    <2> QED
      BY <2>2 DEF b
  <1> QED
    BY <1>7 DEF c

\* The bytes one more pair takes.
LEMMA TakenByPair ==
  ASSUME NEW l \in Seq(HeaderPair), NEW k \in 1..Len(l)
  PROVE  PairsTake(l, k) = PairsTake(l, k - 1) + PairLen(l[k]) + IF k > 1 THEN 1 ELSE 0
PROOF
  <1> DEFINE q == JsonParts(l)
             x == Separated(l, k)
             u == FlattenSeq(Upto(q, k))
             v == FlattenSeq(Upto(q, k - 1))
             c == IF k > 1 THEN 1 ELSE 0
  <1>1. Len(l) \in Nat /\ k \in 0..Len(l) /\ k - 1 \in 0..Len(l) /\ c \in Nat
    OBVIOUS
  <1>2. q \in Seq(Seq(Letter)) /\ k \in 1..Len(q) /\ q[k] = x
    BY JsonPartsAre
  <1>3. u = v \o q[k]
    <2> HIDE DEF q
    <2> QED
      BY <1>2, FlattenFront
  <1>4. Len(u) = PairsTake(l, k) /\ Len(v) = PairsTake(l, k - 1) /\ v \in Seq(Letter)
    <2> DEFINE m == k - 1
    <2>1. m \in 0..Len(l)
      BY <1>1
    <2> HIDE DEF m
    <2>2. JsonInside(Upto(l, k)) = FlattenSeq(Upto(JsonParts(l), k))
          /\ JsonInside(Upto(l, m)) = FlattenSeq(Upto(JsonParts(l), m))
      BY <1>1, <2>1, PairsTakeIs
    <2>3. JsonInside(Upto(l, m)) \in Seq(Letter)
      <3>1. Upto(l, m) \in Seq(HeaderPair)
        BY <2>1, PartsUpto
      <3> DEFINE y == Upto(l, m)
      <3> HIDE DEF y
      <3>2. JsonInside(y) \in Seq(Letter)
        BY <3>1, JsonIs DEF y
      <3> QED
        BY <3>2 DEF y
    <2> QED
      BY <2>2, <2>3 DEF PairsTake, m
  <1>5. x \in Seq(Letter) /\ Len(x) = PairLen(l[k]) + c /\ PairLen(l[k]) \in Nat
    <2>1. l[k] \in HeaderPair
      BY SeparatedIs
    <2> DEFINE p == l[k]
    <2> HIDE DEF p
    <2>2. PairLen(p) \in Nat
      BY <2>1, PairLenIs DEF p
    <2> QED
      BY <2>2, SeparatedIs DEF p
  <1> HIDE DEF q, x, u, v, c
  <1>6. Len(u) = Len(v) + Len(x)
    <2>1. u = v \o x
      BY <1>2, <1>3
    <2>2. Len(v \o x) = Len(v) + Len(x)
      BY <1>4, <1>5, JoinedIs
    <2> QED
      BY <2>1, <2>2
  <1>7. PairsTake(l, k - 1) \in Nat
    BY <1>1, PairsTakeIs
  <1>8. PairsTake(l, k) = PairsTake(l, k - 1) + PairLen(l[k]) + c
    BY <1>1, <1>4, <1>5, <1>6, <1>7
  <1> QED
    BY <1>8 DEF c

\* The pairs of a list follow one another.
LEMMA PairsAt ==
  ASSUME NEW l \in Seq(HeaderPair)
  PROVE  /\ PairAt(l, 1) = 2
         /\ \A k \in 1..Len(l) : PairAt(l, k + 1) = PairAt(l, k) + PairLen(l[k]) + 1
         /\ \A k \in 1..Len(l) + 1 : PairAt(l, k) \in Nat
         /\ PairAt(l, Len(l) + 1) = Len(Json(l)) + IF Len(l) > 0 THEN 1 ELSE 0
         /\ \A k \in 1..Len(l) : PairLen(l[k]) \in Nat /\ PairLen(l[k]) >= 7
PROOF
  <1> DEFINE n == Len(l)
             A(k) == PairAt(l, k)
             B(k) == PairsTake(l, k)
             C(k) == PairLen(l[k])
  <1>1. n \in Nat
    OBVIOUS
  <1>2. B(0) = 0 /\ B(n) = Len(JsonInside(l)) /\ \A k \in 0..n : B(k) \in Nat
    BY PairsTakeIs
  <1>3. \A k \in 1..n + 1 : A(k) = 2 + B(k - 1) + IF k > 1 THEN 1 ELSE 0
    BY PairAtIs
  <1>4. \A k \in 1..n : B(k) = B(k - 1) + C(k) + IF k > 1 THEN 1 ELSE 0
    BY TakenByPair
  <1>5. \A k \in 1..n : C(k) \in Nat /\ C(k) >= 7
    <2> TAKE k \in 1..n
    <2> DEFINE p == l[k]
    <2>1. p \in HeaderPair
      BY SeparatedIs
    <2> HIDE DEF p
    <2>2. Len(Encode(p.name)) \in Nat /\ Len(Encode(p.value)) \in Nat
      BY <2>1, PairLenIs
    <2>3. PairLen(p) \in Nat /\ PairLen(p) >= 7
      <3> DEFINE x == Len(Encode(p.name))
                 y == Len(Encode(p.value))
      <3>1. PairLen(p) = x + y + 7
        BY DEF PairLen
      <3> HIDE DEF x, y
      <3>2. x \in Nat /\ y \in Nat
        BY <2>2 DEF x, y
      <3> QED
        BY <3>1, <3>2
    <2> QED
      BY <2>3 DEF p
  <1>6. Len(Json(l)) = B(n) + 2
    <2>1. Len(Json(l)) = Len(JsonInside(l)) + 2
      BY JsonIs
    <2> QED
      BY <1>2, <2>1
  <1> HIDE DEF n, A, B, C
  <1>7. A(1) = 2
    <2>1. 1 \in 1..n + 1 /\ 1 - 1 = 0
      BY <1>1
    <2> QED
      BY <1>2, <1>3, <2>1
  <1>8. \A k \in 1..n + 1 : A(k) \in Nat
    <2> TAKE k \in 1..n + 1
    <2>1. k - 1 \in 0..n
      BY <1>1
    <2> QED
      BY <1>2, <1>3, <2>1
  <1>9. \A k \in 1..n : A(k + 1) = A(k) + C(k) + 1
    <2> TAKE k \in 1..n
    <2>1. k \in 1..n + 1 /\ k + 1 \in 1..n + 1 /\ (k + 1) - 1 = k /\ k + 1 > 1 /\ k - 1 \in 0..n /\ k \in 0..n
      BY <1>1
    <2>2. A(k + 1) = 2 + B(k) + 1
      <3>1. A(k + 1) = 2 + B((k + 1) - 1) + IF k + 1 > 1 THEN 1 ELSE 0
        BY <1>3, <2>1
      <3> QED
        BY <2>1, <3>1
    <2> DEFINE c == IF k > 1 THEN 1 ELSE 0
    <2>3. A(k) = 2 + B(k - 1) + c /\ B(k) = B(k - 1) + C(k) + c /\ c \in Nat
      BY <1>3, <1>4, <2>1
    <2>4. B(k - 1) \in Nat /\ C(k) \in Nat
      BY <1>2, <1>5, <2>1
    <2> HIDE DEF c
    <2> QED
      BY <2>2, <2>3, <2>4
  <1>10. A(n + 1) = (B(n) + 2) + IF n > 0 THEN 1 ELSE 0
    <2>1. n + 1 \in 1..n + 1 /\ (n + 1) - 1 = n /\ (n + 1 > 1 <=> n > 0) /\ n \in 0..n
      BY <1>1
    <2>2. A(n + 1) = 2 + B((n + 1) - 1) + IF n + 1 > 1 THEN 1 ELSE 0
      BY <1>3, <2>1
    <2> QED
      BY <1>2, <2>1, <2>2
  <1> QED
    BY <1>5, <1>6, <1>7, <1>8, <1>9, <1>10 DEF A, B, C, n

\* A pair begins after all pairs before it.
LEMMA PairsApart ==
  ASSUME NEW l \in Seq(HeaderPair), NEW k \in 1..Len(l) + 1, NEW j \in 1..k - 1
  PROVE  PairAt(l, j) + 8 <= PairAt(l, k)
PROOF
  <1> DEFINE n == Len(l)
             A(m) == PairAt(l, m)
             P == {m \in Nat : m + 1 \in 1..n + 1 => \A i \in 1..m : A(i) + 8 <= A(m + 1)}
  <1>1. n \in Nat /\ k \in 1..n + 1 /\ j \in 1..k - 1
    OBVIOUS
  <1>2. \A m \in 1..n : A(m + 1) >= A(m) + 8 /\ A(m) \in Nat /\ A(m + 1) \in Nat
    <2> TAKE m \in 1..n
    <2> DEFINE c == PairLen(l[m])
    <2>1. m \in 1..n + 1 /\ m + 1 \in 1..n + 1
      BY <1>1
    <2>2. A(m + 1) = A(m) + c + 1 /\ c \in Nat /\ c >= 7
      BY PairsAt
    <2>3. A(m) \in Nat /\ A(m + 1) \in Nat
      BY <2>1, PairsAt
    <2> HIDE DEF A, c
    <2> QED
      BY <2>2, <2>3
  <1>3. \A m \in 1..n + 1 : A(m) \in Nat
    BY PairsAt
  <1> HIDE DEF n, A
  <1>4. 0 \in P
    BY <1>1
  <1>5. ASSUME NEW m \in 0..n - 1, m \in P PROVE m + 1 \in P
    <2> SUFFICES ASSUME NEW i \in 1..m + 1 PROVE A(i) + 8 <= A(m + 2)
      <3>1. m + 1 \in Nat /\ (m + 1) + 1 = m + 2
        BY <1>1
      <3> QED
        BY <3>1
    <2>1. m + 1 \in 1..n /\ m + 1 \in 1..n + 1 /\ (m + 1) + 1 = m + 2 /\ m \in Nat
      BY <1>1
    <2>2. A(m + 2) >= A(m + 1) + 8 /\ A(m + 1) \in Nat /\ A(m + 2) \in Nat
      BY <1>2, <2>1
    <2>3. CASE i = m + 1
      BY <2>2, <2>3
    <2>4. CASE i # m + 1
      <3>1. i \in 1..m /\ i \in 1..n + 1
        BY <1>1, <2>1, <2>4
      <3>2. A(i) + 8 <= A(m + 1) /\ A(i) \in Nat
        BY <1>3, <1>5, <2>1, <3>1
      <3> QED
        BY <2>2, <3>2
    <2> QED
      BY <2>3, <2>4
  <1>6. 0..n \subseteq P
    <2> HIDE DEF P
    <2> QED
      BY <1>1, <1>4, <1>5, UpToInduction
  <1>7. k - 1 \in P /\ (k - 1) + 1 = k
    <2>1. k - 1 \in 0..n /\ (k - 1) + 1 = k
      BY <1>1
    <2> HIDE DEF P
    <2> QED
      BY <1>6, <2>1
  <1>8. \A i \in 1..k - 1 : A(i) + 8 <= A((k - 1) + 1)
    BY <1>1, <1>7
  <1>9. A(j) + 8 <= A(k)
    BY <1>1, <1>7, <1>8
  <1> QED
    BY <1>9 DEF A

\* Each pair stands where it begins, and a comma before each but the first.
LEMMA PairHeld ==
  ASSUME NEW l \in Seq(HeaderPair), NEW k \in 1..Len(l)
  PROVE  /\ Holds(Json(l), PairAt(l, k), JsonPair(l[k]))
         /\ k > 1 => Json(l)[PairAt(l, k) - 1] = "comma"
         /\ PairAt(l, k) + PairLen(l[k]) <= Len(Json(l))
PROOF
  <1> DEFINE q == JsonParts(l)
             w == JsonInside(l)
             x == FlattenSeq(Upto(q, k - 1))
             y == Separated(l, k)
             z == FlattenSeq(From(q, k + 1))
             c == Separator(k)
             p == JsonPair(l[k])
             a == IF k > 1 THEN 1 ELSE 0
             D == Json(l)
             g == PairLen(l[k])
  <1>1. Len(l) \in Nat /\ k \in 0..Len(l) /\ k - 1 \in 0..Len(l) /\ a \in Nat /\ k \in 1..Len(l) + 1
    OBVIOUS
  <1>2. q \in Seq(Seq(Letter)) /\ Len(q) = Len(l) /\ q[k] = y
    BY JsonPartsAre
  <1>3. w = FlattenSeq(Upto(q, k)) \o z /\ z \in Seq(Letter)
    <2> HIDE DEF q
    <2>1. k \in 0..Len(q)
      BY <1>1, <1>2
    <2>2. FlattenSeq(q) = FlattenSeq(Upto(q, k)) \o z /\ z \in Seq(Letter)
      BY <1>2, <2>1, FlattenCut
    <2> QED
      BY <2>2 DEF JsonInside, q
  <1>4. FlattenSeq(Upto(q, k)) = x \o y
    <2> HIDE DEF q
    <2>1. k \in 1..Len(q)
      BY <1>2
    <2>2. FlattenSeq(Upto(q, k)) = x \o q[k]
      BY <1>2, <2>1, FlattenFront
    <2> QED
      BY <1>2, <2>2
  <1>5. x \in Seq(Letter) /\ Len(x) = PairsTake(l, k - 1)
    <2> DEFINE m == k - 1
    <2>1. m \in 0..Len(l)
      BY <1>1
    <2> HIDE DEF m, q
    <2>2. m \in 0..Len(q)
      BY <1>2, <2>1
    <2>3. FlattenSeq(Upto(q, m)) \in Seq(Letter)
      BY <1>2, <2>2, FlattenCut
    <2>4. JsonInside(Upto(l, m)) = FlattenSeq(Upto(q, m))
      BY <2>1, PairsTakeIs DEF q
    <2> QED
      BY <2>3, <2>4 DEF PairsTake, m
  <1>6. y = c \o p /\ c \in Seq(Letter) /\ Len(c) = a /\ y \in Seq(Letter) /\ Len(y) = g + a
    BY SeparatedIs DEF Separated
  <1>7. p \in Seq(Letter) /\ Len(p) = g /\ g \in Nat
    <2> DEFINE h == l[k]
    <2>1. h \in HeaderPair
      BY SeparatedIs
    <2> HIDE DEF h
    <2> QED
      BY <2>1, PairLenIs DEF h
  <1>8. D \in Seq(Letter) /\ Len(D) = Len(w) + 2 /\ w \in Seq(Letter) /\ \A j \in 1..Len(w) : D[1 + j] = w[j]
    BY JsonIs
  <1>9. PairAt(l, k) = 2 + Len(x) + a
    BY <1>1, <1>5, PairAtIs
  <1> HIDE DEF q, w, x, y, z, c, p, a, D, g
  <1>10. w = (x \o y) \o z
    BY <1>3, <1>4
  <1>11. /\ Len(w) = Len(x) + Len(y) + Len(z) /\ x \o y \in Seq(Letter)
         /\ Len(x) \in Nat /\ Len(y) \in Nat /\ Len(z) \in Nat
    <2>1. Len(x \o y) = Len(x) + Len(y) /\ x \o y \in Seq(Letter) /\ Len(x) \in Nat /\ Len(y) \in Nat
      BY <1>5, <1>6, JoinedIs
    <2> DEFINE u == x \o y
    <2> HIDE DEF u
    <2>2. Len(u \o z) = Len(u) + Len(z) /\ Len(z) \in Nat
      BY <1>3, <2>1, JoinedIs DEF u
    <2> QED
      BY <1>10, <2>1, <2>2 DEF u
  <1>12. Holds(D, 2, w)
    <2> SUFFICES ASSUME NEW j \in 1..Len(w) PROVE D[2 + j - 1] = w[j]
      BY DEF Holds
    <2>1. 2 + j - 1 = 1 + j
      BY <1>8
    <2> QED
      BY <1>8, <2>1
  <1>13. Holds(D, 2 + Len(x), y)
    <2>1. Holds(D, 2, (x \o y) \o z)
      BY <1>10, <1>12
    <2> DEFINE u == x \o y
    <2>2. Holds(D, 2, u)
      <3>1. Holds(D, 2, u \o z) /\ u \in Seq(Letter) /\ 2 \in Int
        BY <1>11, <2>1
      <3> HIDE DEF u
      <3> QED
        BY <1>3, <3>1, HoldsBoth
    <2>3. 2 \in Int
      OBVIOUS
    <2> QED
      BY <1>5, <1>6, <2>2, <2>3, HoldsBoth
  <1>14. Holds(D, 2 + Len(x), c) /\ Holds(D, 2 + Len(x) + Len(c), p)
    <2> DEFINE i == 2 + Len(x)
    <2>1. i \in Int
      BY <1>11
    <2>2. Holds(D, i, c \o p)
      BY <1>6, <1>13
    <2> HIDE DEF i
    <2>3. Holds(D, i, c) /\ Holds(D, i + Len(c), p)
      BY <1>6, <1>7, <2>1, <2>2, HoldsBoth
    <2> QED
      BY <2>3 DEF i
  <1>15. Holds(D, PairAt(l, k), p)
    BY <1>6, <1>9, <1>14
  <1>16. PairAt(l, k) + g <= Len(D)
    BY <1>1, <1>6, <1>7, <1>8, <1>9, <1>11
  <1>17. ASSUME k > 1 PROVE D[PairAt(l, k) - 1] = "comma"
    <2>1. c = <<"comma">> /\ a = 1
      BY <1>17 DEF c, a, Separator
    <2>2. PairAt(l, k) - 1 = 2 + Len(x) /\ 2 + Len(x) <= Len(D) /\ 2 + Len(x) \in Int
      BY <1>1, <1>7, <1>9, <1>11, <1>16, <2>1
    <2>3. Holds(D, 2 + Len(x), <<"comma">>)
      BY <1>14, <2>1
    <2>4. D[2 + Len(x)] = "comma"
      BY <2>2, <2>3, HoldsOne
    <2> QED
      BY <2>2, <2>4
  <1> QED
    BY <1>15, <1>16, <1>17 DEF D, p, g

-----------------------------------------------------------------------------
(* The pairs of a part *)

\* The part d is what follows after o bytes of the list l.
CutOf(l, o, d) ==
  /\ l \in Seq(HeaderPair) /\ o \in Nat /\ d \in Seq(Letter)
  /\ \A j \in 1..Len(d) : o + j \in 1..Len(Json(l)) /\ d[j] = Json(l)[o + j]

\* What of the k-th pair is in the part: nothing, or what the part reaches of it.
PairCut(l, o, d, k) ==
  [name |-> Fit(l[k].name, o + Len(d) + 1 - NameAt(l, k)),
   value |-> Fit(l[k].value, o + Len(d) + 1 - ValueAt(l, k))]

PairPiece(l, o, d, k) ==
  IF PairAt(l, k) > o /\ PairAt(l, k) < o + Len(d) THEN <<PairCut(l, o, d, k)>> ELSE <<>>

PairPieces(l, o, d) == [k \in DOMAIN l |-> PairPiece(l, o, d, k)]

\* What fits of a string is a string.
LEMMA FitRange ==
  ASSUME NEW s \in Seq(Letter), NEW r \in Int
  PROVE  Fit(s, r) \in Seq(Letter)
PROOF
  <1>1. FitLen(s, r) \in 0..Len(s) /\ Fit(s, r) = Upto(s, FitLen(s, r))
    BY FitIs
  <1> QED
    BY <1>1 DEF Upto

\* A pair that begins in a part is cut like the one read there.
LEMMA PairCutIs ==
  ASSUME NEW l, NEW o, NEW d, CutOf(l, o, d), NEW k \in 1..Len(l)
  PROVE  /\ PairAt(l, k) \in Nat /\ l[k] \in HeaderPair
         /\ PairCut(l, o, d, k) = CutPair(d, PairAt(l, k) - o, l[k])
         /\ PairCut(l, o, d, k) \in HeaderPair
PROOF
  <1> DEFINE n == Len(d)
             a == PairAt(l, k)
             p == l[k]
             N == Len(Encode(p.name))
  <1>1. l \in Seq(HeaderPair) /\ o \in Nat /\ d \in Seq(Letter)
    BY DEF CutOf
  <1>2. a \in Nat /\ p \in HeaderPair /\ n \in Nat
    <2>1. k \in 1..Len(l) + 1
      BY <1>1
    <2>2. a \in Nat
      BY <1>1, <2>1, PairsAt
    <2>3. p \in HeaderPair /\ n \in Nat
      BY <1>1
    <2> QED
      BY <2>2, <2>3
  <1>3. NameAt(l, k) = a + 2 /\ ValueAt(l, k) = a + 5 + N
    BY DEF NameAt, ValueAt
  <1>4. PairCut(l, o, d, k) = [name |-> Fit(p.name, o + n + 1 - NameAt(l, k)),
                               value |-> Fit(p.value, o + n + 1 - ValueAt(l, k))]
    BY DEF PairCut
  <1> HIDE DEF a, p
  <1>5. p.name \in Seq(Letter) /\ p.value \in Seq(Letter) /\ N \in Nat
    BY <1>2, PairLenIs
  <1>6. CutPair(d, a - o, p) = [name |-> Fit(p.name, NameRoom(d, a - o)),
                                value |-> Fit(p.value, ValueRoom(d, a - o, p))]
    BY DEF CutPair
  <1>7. NameRoom(d, a - o) = n - 1 - (a - o) /\ ValueRoom(d, a - o, p) = n - 4 - (a - o) - N
    BY DEF NameRoom, ValueRoom
  <1> HIDE DEF n, N
  <1> DEFINE x == n - 1 - (a - o)
             y == n - 4 - (a - o) - N
  <1>8. o + n + 1 - NameAt(l, k) = x /\ o + n + 1 - ValueAt(l, k) = y /\ x \in Int /\ y \in Int
    BY <1>1, <1>2, <1>3, <1>5
  <1> HIDE DEF x, y
  <1>9. PairCut(l, o, d, k) = [name |-> Fit(p.name, x), value |-> Fit(p.value, y)]
    BY <1>4, <1>8
  <1>10. CutPair(d, a - o, p) = [name |-> Fit(p.name, x), value |-> Fit(p.value, y)]
    BY <1>6, <1>7 DEF x, y
  <1>11. Fit(p.name, x) \in Seq(Letter) /\ Fit(p.value, y) \in Seq(Letter)
    BY <1>5, <1>8, FitRange
  <1>12. PairCut(l, o, d, k) \in HeaderPair
    BY <1>9, <1>11 DEF HeaderPair
  <1> QED
    BY <1>2, <1>9, <1>10, <1>12 DEF a, p

\* What a part shows of each pair of a list.
LEMMA PairPiecesAre ==
  ASSUME NEW l, NEW o, NEW d, CutOf(l, o, d)
  PROVE  /\ PairPieces(l, o, d) \in Seq(Seq(HeaderPair)) /\ Len(PairPieces(l, o, d)) = Len(l)
         /\ \A k \in 1..Len(l) : PairPieces(l, o, d)[k] = PairPiece(l, o, d, k)
PROOF
  <1> DEFINE S == Seq(HeaderPair)
  <1>1. l \in Seq(HeaderPair)
    BY DEF CutOf
  <1>2. \A k \in 1..Len(l) : PairPiece(l, o, d, k) \in S
    <2> TAKE k \in 1..Len(l)
    <2>1. PairCut(l, o, d, k) \in HeaderPair
      BY PairCutIs
    <2> QED
      BY <2>1 DEF PairPiece
  <1> HIDE DEF S
  <1>3. PairPieces(l, o, d) \in Seq(S) /\ Len(PairPieces(l, o, d)) = Len(l)
        /\ \A k \in 1..Len(l) : PairPieces(l, o, d)[k] = PairPiece(l, o, d, k)
    BY <1>1, <1>2 DEF PairPieces
  <1> QED
    BY <1>3 DEF S

\* A pair that begins in a part stands there as far as the part reaches.
LEMMA HeldInPart ==
  ASSUME NEW l, NEW o, NEW d, CutOf(l, o, d), NEW k \in 1..Len(l), PairAt(l, k) > o
  PROVE  Holds(d, PairAt(l, k) - o, JsonPair(l[k]))
PROOF
  <1> DEFINE a == PairAt(l, k)
             w == JsonPair(l[k])
             D == Json(l)
             n == Len(d)
  <1>1. l \in Seq(HeaderPair) /\ o \in Nat /\ n \in Nat
        /\ \A j \in 1..n : o + j \in 1..Len(D) /\ d[j] = D[o + j]
    BY DEF CutOf
  <1>2. a \in Nat /\ a > o
    BY PairCutIs
  <1>3. Holds(D, a, w)
    BY <1>1, PairHeld
  <1>4. w \in Seq(Letter)
    <2> DEFINE p == l[k]
    <2>1. p \in HeaderPair
      BY PairCutIs
    <2> HIDE DEF p
    <2>2. JsonPair(p) \in Seq(Letter)
      BY <2>1, PairLenIs
    <2> QED
      BY <2>2 DEF p
  <1> HIDE DEF a, w, D, n
  <1>5. Len(D) \in Nat
    BY <1>1, JsonIs DEF D
  <1>6. ASSUME NEW j \in 1..Len(w), (a - o) + j - 1 <= n PROVE d[(a - o) + j - 1] = w[j]
    <2> DEFINE i == (a - o) + j - 1
    <2>1. i \in 1..n /\ o + i = a + j - 1
      BY <1>1, <1>2, <1>4, <1>6
    <2> HIDE DEF i
    <2>2. o + i \in 1..Len(D) /\ d[i] = D[o + i]
      BY <1>1, <2>1
    <2>3. a + j - 1 <= Len(D)
      BY <1>5, <2>1, <2>2
    <2>4. D[a + j - 1] = w[j]
      BY <1>3, <2>3 DEF Holds
    <2> QED
      BY <2>1, <2>2, <2>4 DEF i
  <1>7. Holds(d, a - o, w)
    BY <1>6 DEF Holds, n
  <1> QED
    BY <1>7 DEF a, w

\* The pieces from the k-th pair on.
Ahead(l, o, d, k) == FlattenSeq(From(PairPieces(l, o, d), k))

\* What is shown from a pair on is what is shown of it and of those after it.
LEMMA AheadSteps ==
  ASSUME NEW l, NEW o, NEW d, CutOf(l, o, d)
  PROVE  /\ Ahead(l, o, d, 1) = FlattenSeq(PairPieces(l, o, d))
         /\ \A k \in 1..Len(l) : Ahead(l, o, d, k) = PairPiece(l, o, d, k) \o Ahead(l, o, d, k + 1)
         /\ \A k \in 1..Len(l) + 1 : Ahead(l, o, d, k) \in Seq(HeaderPair)
PROOF
  <1> DEFINE q == PairPieces(l, o, d)
  <1>1. q \in Seq(Seq(HeaderPair)) /\ Len(q) = Len(l) /\ \A k \in 1..Len(l) : q[k] = PairPiece(l, o, d, k)
    BY PairPiecesAre
  <1>2. Ahead(l, o, d, 1) = FlattenSeq(q)
    <2>1. From(q, 1) = q
      BY <1>1 DEF From
    <2> QED
      BY <2>1 DEF Ahead
  <1>3. ASSUME NEW k \in 1..Len(l)
        PROVE  Ahead(l, o, d, k) = PairPiece(l, o, d, k) \o Ahead(l, o, d, k + 1)
    <2> HIDE DEF q
    <2>1. k \in 1..Len(q) /\ q[k] = PairPiece(l, o, d, k)
      BY <1>1
    <2>2. FlattenSeq(From(q, k)) = q[k] \o FlattenSeq(From(q, k + 1))
      BY <1>1, <2>1, FlattenFront
    <2> QED
      BY <2>1, <2>2 DEF Ahead, q
  <1>4. ASSUME NEW k \in 1..Len(l) + 1 PROVE Ahead(l, o, d, k) \in Seq(HeaderPair)
    <2> DEFINE m == k - 1
    <2>1. l \in Seq(HeaderPair) /\ Len(l) \in Nat
      BY DEF CutOf
    <2>2. m \in 0..Len(q) /\ k = m + 1
      <3> HIDE DEF q
      <3> QED
        BY <1>1, <2>1
    <2> HIDE DEF m, q
    <2>3. FlattenSeq(From(q, m + 1)) \in Seq(HeaderPair)
      BY <1>1, <2>2, FlattenCut
    <2> QED
      BY <2>2, <2>3 DEF Ahead, q
  <1> QED
    BY <1>2, <1>3, <1>4

\* Pairs that begin where the part ends or later are not in it.
LEMMA AheadNothing ==
  ASSUME NEW l, NEW o, NEW d, CutOf(l, o, d), NEW k \in 1..Len(l) + 1, PairAt(l, k) >= o + Len(d)
  PROVE  Ahead(l, o, d, k) = <<>>
PROOF
  <1> DEFINE q == PairPieces(l, o, d)
             m == k - 1
             b == From(q, m + 1)
             n == Len(d)
             S == Seq(HeaderPair)
  <1>1. l \in Seq(HeaderPair) /\ Len(l) \in Nat /\ o \in Nat /\ n \in Nat
    BY DEF CutOf
  <1>2. q \in Seq(S) /\ Len(q) = Len(l) /\ \A j \in 1..Len(l) : q[j] = PairPiece(l, o, d, j)
    BY PairPiecesAre
  <1>3. m \in 0..Len(q) /\ m + 1 = k /\ m \in 0..Len(l)
    <2> HIDE DEF q
    <2> QED
      BY <1>1, <1>2
  <1> HIDE DEF m, q
  <1>4. /\ b \in Seq(S) /\ Len(b) = Len(q) - m /\ \A j \in 1..Len(q) - m : b[j] = q[m + j]
    <2> HIDE DEF S
    <2>1. From(q, m + 1) \in Seq(S)
      BY <1>2, <1>3, CutInTwo
    <2>2. Len(From(q, m + 1)) = Len(q) - m
      BY <1>2, <1>3, CutInTwo
    <2>3. \A j \in 1..Len(q) - m : From(q, m + 1)[j] = q[m + j]
      BY <1>2, <1>3, CutInTwo
    <2> QED
      BY <2>1, <2>2, <2>3
  <1>5. ASSUME NEW j \in k..Len(l) PROVE PairPiece(l, o, d, j) = <<>>
    <2>1. j \in 1..Len(l) + 1
      BY <1>1
    <2>2. PairAt(l, j) \in Nat /\ PairAt(l, k) \in Nat
      BY <1>1, <2>1, PairsAt
    <2>3. PairAt(l, j) >= PairAt(l, k)
      <3>1. CASE j = k
        BY <2>2, <3>1
      <3>2. CASE j # k
        <4>1. k \in 1..j - 1
          BY <1>1, <3>2
        <4>2. PairAt(l, k) + 8 <= PairAt(l, j)
          BY <1>1, <2>1, <4>1, PairsApart
        <4> QED
          BY <2>2, <4>2
      <3> QED
        BY <3>1, <3>2
    <2>4. ~(PairAt(l, j) < o + n)
      BY <1>1, <2>2, <2>3
    <2> QED
      BY <2>4 DEF PairPiece
  <1> HIDE DEF b, n
  <1>6. \A j \in 1..Len(b) : b[j] = <<>>
    <2> TAKE j \in 1..Len(b)
    <2>0. Len(q) = Len(l) /\ Len(b) = Len(q) - m
      BY <1>2, <1>4
    <2>1. j \in 1..Len(q) - m /\ m + j \in k..Len(l) /\ m + j \in 1..Len(l)
      BY <1>1, <1>3, <2>0
    <2> QED
      BY <1>2, <1>4, <1>5, <2>1
  <1>7. FlattenSeq(b) = <<>>
    BY <1>4, <1>6, FlattenEmpty
  <1> QED
    BY <1>3, <1>7 DEF Ahead, b, q

\* Pairs that begin before the part are not in it.
LEMMA AheadAll ==
  ASSUME NEW l, NEW o, NEW d, CutOf(l, o, d), NEW k \in 1..Len(l) + 1, PairAt(l, k) <= o + 2
  PROVE  Ahead(l, o, d, k) = FlattenSeq(PairPieces(l, o, d))
PROOF
  <1> DEFINE q == PairPieces(l, o, d)
             m == k - 1
             b == Upto(q, m)
             S == Seq(HeaderPair)
  <1>1. l \in Seq(HeaderPair) /\ Len(l) \in Nat /\ o \in Nat
    BY DEF CutOf
  <1>2. q \in Seq(S) /\ Len(q) = Len(l) /\ \A j \in 1..Len(l) : q[j] = PairPiece(l, o, d, j)
    BY PairPiecesAre
  <1>3. m \in 0..Len(q) /\ m + 1 = k /\ m \in 0..Len(l)
    <2> HIDE DEF q
    <2> QED
      BY <1>1, <1>2
  <1> HIDE DEF m, q
  <1>4. b \in Seq(S) /\ Len(b) = m /\ \A j \in 1..m : b[j] = q[j]
    <2> HIDE DEF S
    <2>1. Upto(q, m) \in Seq(S)
      BY <1>2, <1>3, CutInTwo
    <2>2. Len(Upto(q, m)) = m
      BY <1>2, <1>3, CutInTwo
    <2>3. \A j \in 1..m : Upto(q, m)[j] = q[j]
      BY <1>2, <1>3, CutInTwo
    <2> QED
      BY <2>1, <2>2, <2>3
  <1>5. ASSUME NEW j \in 1..m PROVE PairPiece(l, o, d, j) = <<>>
    <2>1. j \in 1..Len(l) + 1 /\ j \in 1..k - 1
      BY <1>1, <1>3
    <2>2. PairAt(l, j) \in Nat /\ PairAt(l, k) \in Nat
      BY <1>1, <2>1, PairsAt
    <2>3. PairAt(l, j) + 8 <= PairAt(l, k)
      BY <1>1, <2>1, PairsApart
    <2>4. ~(PairAt(l, j) > o)
      BY <1>1, <2>2, <2>3
    <2> QED
      BY <2>4 DEF PairPiece
  <1> HIDE DEF b
  <1>6. \A j \in 1..Len(b) : b[j] = <<>>
    <2> TAKE j \in 1..Len(b)
    <2>1. j \in 1..m /\ j \in 1..Len(l)
      BY <1>1, <1>3, <1>4
    <2> QED
      BY <1>2, <1>4, <1>5, <2>1
  <1>7. FlattenSeq(b) = <<>>
    BY <1>4, <1>6, FlattenEmpty
  <1>8. FlattenSeq(q) = FlattenSeq(b) \o FlattenSeq(From(q, m + 1)) /\ FlattenSeq(From(q, m + 1)) \in Seq(HeaderPair)
    BY <1>2, <1>3, FlattenCut DEF b
  <1> DEFINE z == FlattenSeq(From(q, m + 1))
  <1>9. FlattenSeq(q) = z
    <2> HIDE DEF z
    <2>1. z \in Seq(HeaderPair) /\ FlattenSeq(q) = <<>> \o z
      BY <1>7, <1>8 DEF z
    <2> QED
      BY <2>1
  <1> QED
    BY <1>3, <1>9 DEF Ahead, q

\* Nothing is read at the end of a part and at the bracket that ends the list.
LEMMA PairsEnd ==
  ASSUME NEW d \in Seq(Letter), NEW i \in 1..Len(d) + 1, i <= Len(d) => d[i] = "]"
  PROVE  PairsFrom(d, i).pairs = <<>> /\ PairsFrom(d, i).text = <<>>
PROOF
  <1>1. Len(d) \in Nat
    OBVIOUS
  <1>2. Skip(d, i) = i
    BY SkipNone
  <1>3. PairsFrom(d, i) = Fragment(<<>>, <<>>)
    <2>1. CASE i = Len(d) + 1
      BY <1>2, <2>1, PairsSteps
    <2>2. CASE i # Len(d) + 1
      <3>1. i \in 1..Len(d) /\ d[i] = "]"
        BY <1>1, <2>2
      <3> QED
        BY <1>2, <3>1, PairsSteps
    <2> QED
      BY <2>1, <2>2
  <1> QED
    BY <1>3 DEF Fragment

\* A part does not end just after the opening bracket of the list or of a pair.
EndsApart(l, o, d) ==
  Len(l) > 0 /\ o + Len(d) # 1 /\ \A m \in 1..Len(l) : PairAt(l, m) # o + Len(d)

\* The pairs from the k-th on are decoded, or all of them, and no rest of a string.
ShowsFrom(l, o, d, k, got) ==
  got.pairs = Ahead(l, o, d, k) /\ (EndsApart(l, o, d) => got.text = <<>>)

ShowsAll(l, o, d, got) ==
  got.pairs = FlattenSeq(PairPieces(l, o, d)) /\ (EndsApart(l, o, d) => got.text = <<>>)

\* From the beginning of a pair, or from the comma before it, the pairs ahead are read.
ReadFromPair(l, o, d, k) ==
  \A i \in 1..Len(d) + 1 :
    i = PairAt(l, k) - o \/ (k > 1 /\ i = PairAt(l, k) - 1 - o) =>
      ShowsFrom(l, o, d, k, PairsFrom(d, i))

\* After the last pair nothing is shown.
LEMMA AheadLast ==
  ASSUME NEW l, NEW o, NEW d, CutOf(l, o, d)
  PROVE  Ahead(l, o, d, Len(l) + 1) = <<>>
PROOF
  <1> DEFINE q == PairPieces(l, o, d)
             n == Len(l)
             b == From(q, n + 1)
             S == Seq(HeaderPair)
  <1>1. n \in Nat
    BY DEF CutOf
  <1>2. q \in Seq(S) /\ Len(q) = n
    BY PairPiecesAre
  <1> HIDE DEF q, n
  <1>3. b \in Seq(S) /\ Len(b) = Len(q) - n
    <2> HIDE DEF S
    <2>1. n \in 0..Len(q)
      BY <1>1, <1>2
    <2>2. From(q, n + 1) \in Seq(S)
      BY <1>2, <2>1, CutInTwo
    <2>3. Len(From(q, n + 1)) = Len(q) - n
      BY <1>2, <2>1, CutInTwo
    <2> QED
      BY <2>2, <2>3
  <1> HIDE DEF b
  <1>4. \A j \in 1..Len(b) : b[j] = <<>>
    <2>1. Len(b) = 0
      BY <1>1, <1>2, <1>3
    <2> QED
      BY <2>1
  <1>5. FlattenSeq(b) = <<>>
    BY <1>3, <1>4, FlattenEmpty
  <1> QED
    BY <1>5 DEF Ahead, b, q, n

\* After the last pair nothing is read.
LEMMA ReadLast ==
  ASSUME NEW l, NEW o, NEW d, CutOf(l, o, d)
  PROVE  ReadFromPair(l, o, d, Len(l) + 1)
PROOF
  <1> DEFINE n == Len(l)
             A == PairAt(l, n + 1)
             D == Json(l)
  <1>1. l \in Seq(HeaderPair) /\ n \in Nat /\ o \in Nat /\ d \in Seq(Letter) /\ Len(d) \in Nat
        /\ \A j \in 1..Len(d) : o + j \in 1..Len(D) /\ d[j] = D[o + j]
    BY DEF CutOf
  <1>2. A = Len(D) + IF n > 0 THEN 1 ELSE 0
    BY <1>1, PairsAt
  <1>3. D[Len(D)] = "]" /\ Len(D) \in Nat
    <2>1. D \in Seq(Letter) /\ D[Len(D)] = "]"
      BY <1>1, JsonIs
    <2> HIDE DEF D
    <2> QED
      BY <2>1
  <1> HIDE DEF n, A, D
  <1>4. SUFFICES ASSUME NEW i \in 1..Len(d) + 1, i = A - o \/ (n + 1 > 1 /\ i = A - 1 - o)
                 PROVE  ShowsFrom(l, o, d, n + 1, PairsFrom(d, i))
    BY DEF ReadFromPair, n, A
  <1>5. i <= Len(d) => d[i] = "]"
    <2> SUFFICES ASSUME i <= Len(d) PROVE d[i] = "]"
      OBVIOUS
    <2>1. i \in 1..Len(d)
      BY <1>1
    <2>2. o + i \in 1..Len(D) /\ d[i] = D[o + i]
      BY <1>1, <2>1
    <2>3. o + i = Len(D)
      <3> DEFINE L == Len(D)
                 c == IF n > 0 THEN 1 ELSE 0
      <3>1. A = L + c /\ o + i \in 1..L /\ L \in Nat /\ i \in Nat
        BY <1>2, <1>3, <2>1, <2>2
      <3>2. (n > 0 => c = 1) /\ (~(n > 0) => c = 0)
        OBVIOUS
      <3> HIDE DEF L, c
      <3>3. ASSUME n > 0 PROVE o + i = L
        <4>1. A = L + 1
          BY <3>1, <3>2, <3>3
        <4> QED
          BY <1>1, <1>4, <3>1, <4>1
      <3>4. ASSUME ~(n > 0) PROVE o + i = L
        <4>1. A = L
          BY <3>1, <3>2, <3>4
        <4>2. n = 0
          BY <1>1, <3>4
        <4> QED
          BY <1>1, <1>4, <3>1, <4>1, <4>2
      <3>5. o + i = L
        BY <3>3, <3>4
      <3> QED
        BY <3>5 DEF L
    <2> QED
      BY <1>3, <2>2, <2>3
  <1>6. PairsFrom(d, i).pairs = <<>> /\ PairsFrom(d, i).text = <<>>
    BY <1>1, <1>5, PairsEnd
  <1>7. Ahead(l, o, d, n + 1) = <<>>
    BY AheadLast DEF n
  <1> QED
    BY <1>6, <1>7 DEF ShowsFrom

\* What is read where a pair begins.
LEMMA ReadAtPair ==
  ASSUME NEW l, NEW o, NEW d, CutOf(l, o, d), NEW k \in 1..Len(l), ReadFromPair(l, o, d, k + 1),
         NEW i \in 1..Len(d) + 1, i = PairAt(l, k) - o
  PROVE  ShowsFrom(l, o, d, k, PairsFrom(d, i))
PROOF
  <1> DEFINE n == Len(d)
             A == PairAt(l, k)
             B == PairAt(l, k + 1)
             p == l[k]
             g == PairLen(p)
             R == Ahead(l, o, d, k + 1)
             X == PairPiece(l, o, d, k)
             c == PairCut(l, o, d, k)
  <1>1. l \in Seq(HeaderPair) /\ o \in Nat /\ d \in Seq(Letter) /\ n \in Nat /\ Len(l) \in Nat
    BY DEF CutOf
  <1>2. k \in 1..Len(l) + 1 /\ k + 1 \in 1..Len(l) + 1
    BY <1>1
  <1>3. A \in Nat /\ B \in Nat /\ B = A + g + 1 /\ g \in Nat /\ g >= 7 /\ i = A - o
    BY <1>1, <1>2, PairsAt
  <1>4. p \in HeaderPair /\ c = CutPair(d, i, p) /\ c \in HeaderPair
    BY PairCutIs
  <1>5. Ahead(l, o, d, k) = X \o R /\ R \in Seq(HeaderPair)
    BY <1>2, AheadSteps
  <1>6. X = IF A > o /\ A < o + n THEN <<c>> ELSE <<>>
    BY DEF PairPiece
  <1>7. A >= o + n => Ahead(l, o, d, k) = <<>>
    BY <1>2, AheadNothing
  <1>8. B >= o + n => R = <<>>
    BY <1>2, AheadNothing
  <1>9. Holds(d, i, JsonPair(p))
    <2>1. A > o
      BY <1>1, <1>3
    <2> QED
      BY <1>3, <2>1, HeldInPart
  <1> HIDE DEF n, A, B, p, g, R, X, c
  <1>10. CASE i = n + 1
    <2>1. A >= o + n
      BY <1>1, <1>3, <1>10
    <2>2. PairsFrom(d, i).pairs = <<>> /\ PairsFrom(d, i).text = <<>>
      <3>1. ~(i <= Len(d))
        BY <1>1, <1>10 DEF n
      <3> QED
        BY <1>1, <3>1, PairsEnd
    <2> QED
      BY <1>7, <2>1, <2>2 DEF ShowsFrom
  <1>11. CASE i # n + 1
    <2>1. i \in 1..n /\ i \in 1..Len(d) /\ n = Len(d)
      BY <1>1, <1>11 DEF n
    <2>2. d[i] = "["
      <3>1. i \in Int /\ i <= Len(d)
        BY <1>1, <2>1
      <3> QED
        BY <1>1, <1>4, <1>9, <3>1, PairStands
    <2>3. PairsFrom(d, i) = PairHere(d, i)
      <3>1. Skip(d, i) = i
        BY <1>1, <2>2, SkipNone
      <3> QED
        BY <1>1, <2>1, <2>2, <3>1, PairsSteps
    <2> DEFINE whole == i + g <= n + 2
               got == ReadPair(d, i)
               r == PairsFrom(d, got.next)
               N == got.next
    <2>4. /\ got.found <=> i < n
          /\ i < n => (got.complete <=> whole) /\ got.pair = c
          /\ whole => N = IF i + g <= n + 1 THEN i + g ELSE n + 1
      BY <1>1, <1>4, <1>9, <2>1, ReadPairIs DEF g
    <2>5. PairHere(d, i) = IF ~got.found THEN Continued(d, i)
                           ELSE IF ~got.complete THEN Fragment(<<got.pair>>, <<>>)
                           ELSE [r EXCEPT !.pairs = <<got.pair>> \o @]
      BY DEF PairHere
    <2> HIDE DEF got
    <2>6. CASE i = n
      <3>1. PairsFrom(d, i) = Continued(d, i)
        <4>1. ~got.found
          BY <1>1, <2>4, <2>6
        <4> QED
          BY <2>3, <2>5, <4>1
      <3>2. A >= o + n /\ A = o + n
        BY <1>1, <1>3, <2>6
      <3>3. ~EndsApart(l, o, d)
        BY <3>2 DEF EndsApart, A, n
      <3>4. PairsFrom(d, i).pairs = <<>>
        BY <3>1 DEF Continued, Fragment
      <3> QED
        BY <1>7, <3>2, <3>3, <3>4 DEF ShowsFrom
    <2>7. CASE i # n
      <3>1. i < n /\ got.found
        BY <1>1, <2>1, <2>4, <2>7
      <3>2. got.pair = c /\ X = <<c>>
        <4>1. A > o /\ A < o + n
          BY <1>1, <1>3, <2>1, <3>1
        <4> QED
          BY <1>6, <2>4, <3>1, <4>1
      <3>3. CASE ~whole
        <4>1. PairsFrom(d, i) = Fragment(<<c>>, <<>>)
          BY <2>3, <2>4, <2>5, <3>1, <3>2, <3>3
        <4>2. B >= o + n
          BY <1>1, <1>3, <2>1, <3>3
        <4>3. R = <<>> /\ <<c>> \o <<>> = <<c>>
          BY <1>4, <1>8, <4>2
        <4>4. PairsFrom(d, i).pairs = <<c>> /\ PairsFrom(d, i).text = <<>>
          BY <4>1 DEF Fragment
        <4> QED
          BY <1>5, <3>2, <4>3, <4>4 DEF ShowsFrom
      <3>4. CASE whole
        <4>1. PairsFrom(d, i) = [r EXCEPT !.pairs = <<c>> \o @]
          <5>1. got.complete
            BY <2>4, <3>1, <3>4
          <5> QED
            BY <2>3, <2>5, <3>1, <3>2, <5>1
        <4>2. N \in 1..n + 1 /\ N = IF i + g <= n + 1 THEN i + g ELSE n + 1
          <5>1. N = IF i + g <= n + 1 THEN i + g ELSE n + 1
            BY <2>4, <3>4
          <5> HIDE DEF N
          <5>2. i \in 1..n /\ n \in Nat /\ g \in Nat
            BY <1>1, <1>3, <2>1
          <5>3. CASE i + g <= n + 1
            BY <5>1, <5>2, <5>3
          <5>4. CASE ~(i + g <= n + 1)
            BY <5>1, <5>2, <5>4
          <5> QED
            BY <5>3, <5>4
        <4>3. r.pairs = R /\ (EndsApart(l, o, d) => r.text = <<>>)
          <5>1. CASE i + g <= n + 1
            <6> HIDE DEF N
            <6>1. N = B - 1 - o /\ k + 1 > 1 /\ N \in 1..Len(d) + 1
              BY <1>1, <1>3, <2>1, <4>2, <5>1
            <6>2. ShowsFrom(l, o, d, k + 1, PairsFrom(d, N))
              BY <6>1 DEF ReadFromPair, B
            <6> QED
              BY <6>2 DEF ShowsFrom, N, R
          <5>2. CASE ~(i + g <= n + 1)
            <6>1. N = Len(d) + 1
              BY <2>1, <4>2, <5>2
            <6>2. PairsFrom(d, N).pairs = <<>> /\ PairsFrom(d, N).text = <<>>
              <7> HIDE DEF N
              <7>1. ~(N <= Len(d)) /\ N \in 1..Len(d) + 1
                BY <1>1, <2>1, <6>1
              <7> QED
                BY <1>1, <7>1, PairsEnd
            <6>3. B >= o + n
              BY <1>1, <1>3, <2>1, <5>2
            <6> QED
              BY <1>8, <6>2, <6>3
          <5> QED
            BY <5>1, <5>2
        <4>4. r \in Decoding
          <5>1. N \in 1..Len(d) + 1
            BY <2>1, <4>2
          <5> HIDE DEF N
          <5>2. PairsFrom(d, N) \in Decoding
            BY <1>1, <5>1, PairsSteps
          <5> QED
            BY <5>2 DEF N
        <4>5. [r EXCEPT !.pairs = <<c>> \o @].pairs = <<c>> \o r.pairs
              /\ [r EXCEPT !.pairs = <<c>> \o @].text = r.text
          <5> HIDE DEF r
          <5> QED
            BY <4>4 DEF Decoding
        <4>6. PairsFrom(d, i).pairs = X \o R /\ (EndsApart(l, o, d) => PairsFrom(d, i).text = <<>>)
          BY <3>2, <4>1, <4>3, <4>5
        <4> QED
          BY <1>5, <4>6 DEF ShowsFrom
      <3> QED
        BY <3>3, <3>4
    <2> QED
      BY <2>6, <2>7
  <1> QED
    BY <1>10, <1>11

\* What is read at the comma before a pair.
LEMMA ReadAtComma ==
  ASSUME NEW l, NEW o, NEW d, CutOf(l, o, d), NEW k \in 2..Len(l), ReadFromPair(l, o, d, k + 1),
         NEW i \in 1..Len(d) + 1, i = PairAt(l, k) - 1 - o
  PROVE  ShowsFrom(l, o, d, k, PairsFrom(d, i))
PROOF
  <1> DEFINE n == Len(d)
             A == PairAt(l, k)
             D == Json(l)
  <1>1. l \in Seq(HeaderPair) /\ o \in Nat /\ d \in Seq(Letter) /\ n \in Nat /\ Len(l) \in Nat
        /\ \A j \in 1..n : o + j \in 1..Len(D) /\ d[j] = D[o + j]
    BY DEF CutOf
  <1>2. k \in 1..Len(l) /\ k \in 1..Len(l) + 1 /\ k > 1
    BY <1>1
  <1>3. A \in Nat /\ i = A - 1 - o
    BY <1>1, <1>2, PairsAt
  <1>4. D[A - 1] = "comma"
    BY <1>1, <1>2, PairHeld
  <1>5. A >= o + n => Ahead(l, o, d, k) = <<>>
    BY <1>2, AheadNothing
  <1>6. \A j \in 1..n + 1 : j = A - o => ShowsFrom(l, o, d, k, PairsFrom(d, j))
    BY <1>2, ReadAtPair
  <1> HIDE DEF n, A, D
  <1>7. CASE i = n + 1
    <2>1. A >= o + n
      BY <1>1, <1>3, <1>7
    <2>2. ~(i <= Len(d))
      BY <1>1, <1>7 DEF n
    <2>3. PairsFrom(d, i).pairs = <<>> /\ PairsFrom(d, i).text = <<>>
      BY <1>1, <2>2, PairsEnd
    <2> QED
      BY <1>5, <2>1, <2>3 DEF ShowsFrom
  <1>8. CASE i # n + 1
    <2>1. i \in 1..n /\ i \in 1..Len(d) /\ n = Len(d)
      BY <1>1, <1>8 DEF n
    <2>2. o + i = A - 1 /\ i + 1 \in 1..n + 1 /\ i + 1 = A - o
      <3>1. i \in 1..n
        BY <2>1
      <3>2. o \in Nat /\ n \in Nat
        BY <1>1
      <3>3. A - 1 \in Int /\ i = (A - 1) - o /\ (A - 1) + 1 = A
        BY <1>3
      <3> DEFINE a == A - 1
      <3> HIDE DEF a
      <3>4. a \in Int /\ i = a - o /\ a + 1 = A
        BY <3>3 DEF a
      <3>5. o + i = a /\ i + 1 \in 1..n + 1 /\ i + 1 = (a + 1) - o
        BY <3>1, <3>2, <3>4
      <3> QED
        BY <3>4, <3>5 DEF a
    <2>3. d[i] = "comma"
      BY <1>1, <1>4, <2>1, <2>2
    <2>4. Skip(d, i) = i
      BY <1>1, <2>3, SkipNone
    <2>5. PairsFrom(d, i) = PairsFrom(d, i + 1)
      BY <1>1, <2>1, <2>3, <2>4, PairsSteps
    <2> QED
      BY <1>6, <2>2, <2>5
  <1> QED
    BY <1>7, <1>8

\* From every pair on, what is read is what is to be shown, by going down from the last.
LEMMA ReadsPairs ==
  ASSUME NEW l, NEW o, NEW d, CutOf(l, o, d), NEW k \in 1..Len(l) + 1
  PROVE  ReadFromPair(l, o, d, k)
PROOF
  <1> DEFINE n == Len(l)
             P == {m \in 1..n + 1 : ReadFromPair(l, o, d, m)}
  <1>1. n \in Nat /\ n + 1 \in Nat
    BY DEF CutOf
  <1>2. ASSUME NEW m \in 1..n + 1, \A j \in m + 1..n + 1 : j \in P PROVE m \in P
    <2>1. CASE m = n + 1
      <3>1. ReadFromPair(l, o, d, n + 1)
        BY ReadLast
      <3> QED
        BY <2>1, <3>1
    <2>2. CASE m # n + 1
      <3>1. m \in 1..n /\ m + 1 \in m + 1..n + 1 /\ (m > 1 => m \in 2..n)
        BY <1>1, <2>2
      <3>2. ReadFromPair(l, o, d, m + 1)
        BY <1>2, <3>1
      <3>3. ReadFromPair(l, o, d, m)
        <4> SUFFICES ASSUME NEW i \in 1..Len(d) + 1,
                            i = PairAt(l, m) - o \/ (m > 1 /\ i = PairAt(l, m) - 1 - o)
                     PROVE  ShowsFrom(l, o, d, m, PairsFrom(d, i))
          BY DEF ReadFromPair
        <4>1. CASE i = PairAt(l, m) - o
          BY <3>1, <3>2, <4>1, ReadAtPair
        <4>2. CASE m > 1 /\ i = PairAt(l, m) - 1 - o
          BY <3>1, <3>2, <4>2, ReadAtComma
        <4> QED
          BY <4>1, <4>2
      <3> QED
        BY <3>3
    <2> QED
      BY <2>1, <2>2
  <1>3. 1..n + 1 \subseteq P
    <2> DEFINE m == n + 1
    <2>1. m \in Nat /\ \A i \in 1..m : (\A j \in i + 1..m : j \in P) => i \in P
      BY <1>1, <1>2
    <2> HIDE DEF P, m
    <2>2. 1..m \subseteq P
      BY <2>1, DownInduction
    <2> QED
      BY <2>2 DEF m
  <1> QED
    BY <1>3

\* A part that begins with a bracket is scanned from it, or from the one after it.
LEMMA ScanBracket ==
  ASSUME NEW d \in Seq(Letter), Len(d) > 0, d[1] = "["
  PROVE  /\ (2 <= Len(d) => d[2] \notin {"blank", "["}) => ScanHeaders(d) = PairsFrom(d, 1)
         /\ 2 <= Len(d) /\ d[2] = "[" => ScanHeaders(d) = PairsFrom(d, 2)
PROOF
  <1> DEFINE j == Skip(d, 2)
  <1>1. Len(d) \in Nat /\ 1 \in 1..Len(d) + 1 /\ 1 <= Len(d) /\ 1 + 1 = 2 /\ 2 \in 1..Len(d) + 1
    OBVIOUS
  <1>2. Skip(d, 1) = 1
    BY <1>1, SkipNone
  <1>3. ScanHeaders(d) = PairsFrom(d, IF j <= Len(d) /\ d[j] = "[" THEN j ELSE 1)
    <2> DEFINE i == Skip(d, 1)
               z == Skip(d, i + 1)
    <2>1. i = 1 /\ i <= Len(d) /\ ~(i > Len(d)) /\ d[i] = "[" /\ z = j
      BY <1>1, <1>2
    <2>2. ScanHeaders(d) = PairsFrom(d, IF z <= Len(d) /\ d[z] = "[" THEN z ELSE i)
      <3> HIDE DEF i, z
      <3> QED
        BY <2>1 DEF ScanHeaders, i, z
    <2> QED
      BY <2>1, <2>2
  <1>4. ASSUME 2 <= Len(d) => d[2] \notin {"blank", "["} PROVE ScanHeaders(d) = PairsFrom(d, 1)
    <2>1. j = 2
      BY <1>1, <1>4, SkipNone
    <2>2. ~(j <= Len(d) /\ d[j] = "[")
      BY <1>4, <2>1
    <2> QED
      BY <1>3, <2>2
  <1>5. ASSUME 2 <= Len(d), d[2] = "[" PROVE ScanHeaders(d) = PairsFrom(d, 2)
    <2>1. j = 2
      BY <1>1, <1>5, SkipNone
    <2> QED
      BY <1>3, <1>5, <2>1
  <1> QED
    BY <1>4, <1>5

\* A bracket alone, or with the one that ends the list.
LEMMA BracketAlone ==
  ASSUME NEW d \in Seq(Letter), Len(d) > 0, d[1] = "[", 2 <= Len(d) => d[2] = "]"
  PROVE  ScanHeaders(d).pairs = <<>>
PROOF
  <1>1. Len(d) \in Nat /\ 1 \in 1..Len(d) + 1 /\ 1 \in 1..Len(d) /\ 1 + 1 = 2 /\ 2 \in 1..Len(d) + 1
    OBVIOUS
  <1>2. ScanHeaders(d) = PairsFrom(d, 1)
    BY ScanBracket
  <1>3. Skip(d, 1) = 1 /\ Skip(d, 2) = 2
    BY <1>1, SkipNone
  <1>4. PairsFrom(d, 1) = PairHere(d, 1)
    BY <1>1, <1>3, PairsSteps
  <1>5. ~ReadString(d, 2).found
    BY <1>3 DEF ReadString
  <1>6. ~ReadPair(d, 1).found
    <2> DEFINE a == ReadString(d, 1 + 1)
               b == ReadString(d, Past(d, a.is.next, {"comma"}))
    <2>1. ReadPair(d, 1) = PairOf(d, a, b)
      BY DEF ReadPair
    <2>2. PairOf(d, a, b).found = a.found
      <3> HIDE DEF a, b
      <3> QED
        BY DEF PairOf
    <2>3. a.found = ReadString(d, 2).found
      BY <1>1
    <2> QED
      BY <1>5, <2>1, <2>2, <2>3
  <1>7. PairHere(d, 1) = Continued(d, 1)
    BY <1>6 DEF PairHere
  <1> QED
    BY <1>2, <1>4, <1>7 DEF Continued, Fragment

\* An empty part shows no pair.
LEMMA ScanNothing ==
  ASSUME NEW l, NEW o, NEW d, CutOf(l, o, d), Len(d) = 0
  PROVE  ShowsAll(l, o, d, ScanHeaders(d)) /\ ScanHeaders(d).text = <<>>
PROOF
  <1> DEFINE q == PairPieces(l, o, d)
  <1>1. l \in Seq(HeaderPair) /\ o \in Nat /\ d \in Seq(Letter)
    BY DEF CutOf
  <1>2. q \in Seq(Seq(HeaderPair)) /\ Len(q) = Len(l) /\ \A k \in 1..Len(l) : q[k] = PairPiece(l, o, d, k)
    BY PairPiecesAre
  <1>3. \A k \in 1..Len(l) : PairPiece(l, o, d, k) = <<>>
    <2> TAKE k \in 1..Len(l)
    <2>1. PairAt(l, k) \in Nat
      BY PairCutIs
    <2>2. ~(PairAt(l, k) > o /\ PairAt(l, k) < o + Len(d))
      BY <1>1, <2>1
    <2> QED
      BY <2>2 DEF PairPiece
  <1> HIDE DEF q
  <1>4. \A k \in 1..Len(q) : q[k] = <<>>
    BY <1>2, <1>3
  <1>5. FlattenSeq(q) = <<>>
    BY <1>2, <1>4, FlattenEmpty
  <1>6. Unbracketed(d, 1)
    <2>1. 1 \in 1..Len(d) + 1 /\ ~(1 <= Len(d))
      BY <1>1
    <2>2. Skip(d, 1) = 1
      BY <1>1, <2>1, SkipNone
    <2> QED
      BY <2>1, <2>2 DEF Unbracketed
  <1>7. ScanHeaders(d) = PairsFrom(d, 1)
    BY <1>1, <1>6, ScanIsPairs
  <1>8. PairsFrom(d, 1).pairs = <<>> /\ PairsFrom(d, 1).text = <<>>
    <2>1. 1 \in 1..Len(d) + 1 /\ ~(1 <= Len(d))
      BY <1>1
    <2> QED
      BY <1>1, <2>1, PairsEnd
  <1> QED
    BY <1>5, <1>7, <1>8 DEF ShowsAll, q

\* A part that begins with a pair.
LEMMA ScanAtPair ==
  ASSUME NEW l, NEW o, NEW d, CutOf(l, o, d), Len(d) > 0, NEW k \in 1..Len(l), PairAt(l, k) = o + 1
  PROVE  ShowsAll(l, o, d, ScanHeaders(d))
PROOF
  <1>1. l \in Seq(HeaderPair) /\ o \in Nat /\ d \in Seq(Letter) /\ Len(d) \in Nat /\ Len(l) \in Nat
    BY DEF CutOf
  <1>2. k \in 1..Len(l) + 1 /\ 1 \in 1..Len(d) + 1 /\ PairAt(l, k) - o = 1 /\ PairAt(l, k) > o
        /\ PairAt(l, k) <= o + 2
    BY <1>1
  <1> DEFINE p == l[k]
  <1>3. Holds(d, 1, JsonPair(p)) /\ p \in HeaderPair
    <2>1. Holds(d, PairAt(l, k) - o, JsonPair(p))
      BY <1>2, HeldInPart
    <2> QED
      BY <1>2, <2>1, PairCutIs
  <1> HIDE DEF p
  <1>4. d[1] = "[" /\ (2 <= Len(d) => d[2] = "q")
    <2>1. (1 <= Len(d) => d[1] = "[") /\ (1 + 1 <= Len(d) => d[1 + 1] = "q")
      BY <1>1, <1>3, PairStands
    <2>2. 1 <= Len(d) /\ 1 + 1 = 2
      BY <1>1
    <2> QED
      BY <2>1, <2>2
  <1>5. ScanHeaders(d) = PairsFrom(d, 1)
    BY <1>1, <1>4, ScanBracket
  <1>6. ShowsFrom(l, o, d, k, PairsFrom(d, 1))
    <2>1. ReadFromPair(l, o, d, k)
      BY <1>2, ReadsPairs
    <2> QED
      BY <1>2, <2>1 DEF ReadFromPair
  <1> QED
    BY <1>2, <1>5, <1>6, AheadAll DEF ShowsFrom, ShowsAll

\* A part that begins with the comma before a pair.
LEMMA ScanAtComma ==
  ASSUME NEW l, NEW o, NEW d, CutOf(l, o, d), Len(d) > 0, NEW k \in 2..Len(l), PairAt(l, k) = o + 2
  PROVE  ShowsAll(l, o, d, ScanHeaders(d))
PROOF
  <1>1. l \in Seq(HeaderPair) /\ o \in Nat /\ d \in Seq(Letter) /\ Len(d) \in Nat /\ Len(l) \in Nat
        /\ \A j \in 1..Len(d) : o + j \in 1..Len(Json(l)) /\ d[j] = Json(l)[o + j]
    BY DEF CutOf
  <1>2. /\ k \in 1..Len(l) /\ k > 1 /\ k \in 1..Len(l) + 1 /\ 1 \in 1..Len(d) + 1 /\ 1 \in 1..Len(d)
        /\ PairAt(l, k) - 1 - o = 1 /\ PairAt(l, k) - 1 = o + 1 /\ PairAt(l, k) <= o + 2
    BY <1>1
  <1>3. d[1] = "comma"
    <2>1. Json(l)[PairAt(l, k) - 1] = "comma"
      BY <1>1, <1>2, PairHeld
    <2>2. d[1] = Json(l)[o + 1]
      BY <1>1, <1>2
    <2> QED
      BY <1>2, <2>1, <2>2
  <1>4. ScanHeaders(d) = PairsFrom(d, 1)
    <2>1. Skip(d, 1) = 1
      BY <1>1, <1>2, <1>3, SkipNone
    <2>2. Unbracketed(d, 1)
      BY <1>3, <2>1 DEF Unbracketed
    <2> QED
      BY <1>1, <2>2, ScanIsPairs
  <1>5. ShowsFrom(l, o, d, k, PairsFrom(d, 1))
    <2>1. ReadFromPair(l, o, d, k)
      BY <1>2, ReadsPairs
    <2> QED
      BY <1>2, <2>1 DEF ReadFromPair
  <1> QED
    BY <1>2, <1>4, <1>5, AheadAll DEF ShowsFrom, ShowsAll

\* A part that begins where the list does.
LEMMA ScanAtStart ==
  ASSUME NEW l, NEW d, CutOf(l, 0, d), Len(d) > 0
  PROVE  ShowsAll(l, 0, d, ScanHeaders(d))
PROOF
  <1> DEFINE n == Len(l)
             D == Json(l)
  <1>1. /\ l \in Seq(HeaderPair) /\ d \in Seq(Letter) /\ Len(d) \in Nat /\ n \in Nat
        /\ \A j \in 1..Len(d) : 0 + j \in 1..Len(D) /\ d[j] = D[0 + j]
    BY DEF CutOf
  <1>2. D[1] = "[" /\ D[Len(D)] = "]" /\ PairAt(l, 1) = 2 /\ PairAt(l, n + 1) = Len(D) + IF n > 0 THEN 1 ELSE 0
    BY <1>1, JsonIs, PairsAt
  <1>3. /\ 1 \in 1..n + 1 /\ 1 \in 1..Len(d) + 1 /\ 1 \in 1..Len(d) /\ 0 + 1 = 1 /\ 0 \in Nat
        /\ (2 <= Len(d) => 2 \in 1..Len(d) /\ 2 \in 1..Len(d) + 1 /\ 0 + 2 = 2)
    BY <1>1
  <1> HIDE DEF n, D
  <1>4. d[1] = "["
    BY <1>1, <1>2, <1>3
  <1>5. Ahead(l, 0, d, 1) = FlattenSeq(PairPieces(l, 0, d))
    BY AheadSteps
  <1>6. CASE n = 0
    <2>1. 2 <= Len(d) => d[2] = "]"
      <3> SUFFICES ASSUME 2 <= Len(d) PROVE d[2] = "]"
        OBVIOUS
      <3>1. PairAt(l, n + 1) = 2 /\ ~(n > 0)
        <4>1. n + 1 = 1
          BY <1>6
        <4> QED
          BY <1>2, <1>6, <4>1
      <3>2. Len(D) = 2
        <4> DEFINE L == Len(D)
        <4>1. L \in Nat
          <5>1. D \in Seq(Letter)
            BY <1>1, JsonIs DEF D
          <5> QED
            BY <5>1
        <4>2. PairAt(l, n + 1) = L + 0
          BY <1>2, <3>1
        <4> HIDE DEF L
        <4>3. L = 2
          BY <3>1, <4>1, <4>2
        <4> QED
          BY <4>3 DEF L
      <3>3. d[2] = D[2]
        BY <1>1, <1>3
      <3> QED
        BY <1>2, <3>2, <3>3
    <2>2. ScanHeaders(d).pairs = <<>>
      BY <1>1, <1>4, <2>1, BracketAlone
    <2>3. Ahead(l, 0, d, n + 1) = <<>>
      BY AheadLast DEF n
    <2>4. n + 1 = 1 /\ ~EndsApart(l, 0, d)
      BY <1>6 DEF EndsApart, n
    <2> QED
      BY <1>5, <2>2, <2>3, <2>4 DEF ShowsAll
  <1>7. CASE n # 0
    <2>1. 1 \in 1..n
      BY <1>1, <1>7
    <2>2. CASE 2 <= Len(d)
      <3> DEFINE p == l[1]
      <3>1. Holds(d, 2, JsonPair(p)) /\ p \in HeaderPair
        <4>1. PairAt(l, 1) > 0 /\ PairAt(l, 1) - 0 = 2
          BY <1>2
        <4>2. 1 \in 1..Len(l)
          BY <2>1 DEF n
        <4>3. Holds(d, PairAt(l, 1) - 0, JsonPair(p))
          BY <4>1, <4>2, HeldInPart
        <4> QED
          BY <4>1, <4>2, <4>3, PairCutIs
      <3> HIDE DEF p
      <3>2. d[2] = "["
        BY <1>1, <2>2, <3>1, PairStands
      <3>3. ScanHeaders(d) = PairsFrom(d, 2)
        BY <1>1, <1>4, <2>2, <3>2, ScanBracket
      <3>4. ReadFromPair(l, 0, d, 1)
        <4>1. 1 \in 1..Len(l) + 1
          BY <1>3 DEF n
        <4> QED
          BY <4>1, ReadsPairs
      <3>5. 2 \in 1..Len(d) + 1 /\ 2 = PairAt(l, 1) - 0
        BY <1>2, <1>3, <2>2
      <3>6. ShowsFrom(l, 0, d, 1, PairsFrom(d, 2))
        BY <3>4, <3>5 DEF ReadFromPair
      <3> QED
        BY <1>5, <3>3, <3>6 DEF ShowsFrom, ShowsAll
    <2>3. CASE ~(2 <= Len(d))
      <3>1. ScanHeaders(d).pairs = <<>>
        BY <1>1, <1>4, <2>3, BracketAlone
      <3>2. PairAt(l, 1) >= 0 + Len(d) /\ 1 \in 1..Len(l) + 1
        BY <1>1, <1>2, <1>3, <2>3 DEF n
      <3>3. Ahead(l, 0, d, 1) = <<>>
        BY <3>2, AheadNothing
      <3>4. ~EndsApart(l, 0, d)
        <4>1. 0 + Len(d) = 1
          <5> DEFINE L == Len(d)
          <5>1. L \in Nat /\ L >= 1 /\ ~(2 <= L)
            BY <1>1, <2>3
          <5> HIDE DEF L
          <5>2. 0 + L = 1
            BY <5>1
          <5> QED
            BY <5>2 DEF L
        <4> QED
          BY <4>1 DEF EndsApart
      <3> QED
        BY <1>5, <3>1, <3>3, <3>4 DEF ShowsAll
    <2> QED
      BY <2>2, <2>3
  <1> QED
    BY <1>6, <1>7

\* A part that begins where a pair does shows every pair that begins in it.
LEMMA ScanPairs ==
  ASSUME NEW l, NEW o, NEW d, CutOf(l, o, d), o = 0 \/ \E k \in 1..Len(l) : PairAt(l, k) - o \in {1, 2}
  PROVE  ShowsAll(l, o, d, ScanHeaders(d))
PROOF
  <1>1. l \in Seq(HeaderPair) /\ o \in Nat /\ Len(d) \in Nat /\ Len(l) \in Nat
    BY DEF CutOf
  <1>2. CASE Len(d) = 0
    BY <1>2, ScanNothing
  <1>3. CASE Len(d) # 0 /\ o = 0
    <2>1. Len(d) > 0
      BY <1>1, <1>3
    <2> QED
      BY <1>3, <2>1, ScanAtStart
  <1>4. CASE Len(d) # 0 /\ o # 0
    <2>1. Len(d) > 0
      BY <1>1, <1>4
    <2>2. PICK k \in 1..Len(l) : PairAt(l, k) - o \in {1, 2}
      BY <1>4
    <2>3. PairAt(l, k) \in Nat
      BY PairCutIs
    <2>4. CASE PairAt(l, k) - o = 1
      <3>1. PairAt(l, k) = o + 1
        BY <1>1, <2>3, <2>4
      <3> QED
        BY <2>1, <3>1, ScanAtPair
    <2>5. CASE PairAt(l, k) - o = 2
      <3>1. PairAt(l, k) = o + 2
        BY <1>1, <2>3, <2>5
      <3>2. k # 1
        <4>1. PairAt(l, 1) = 2
          BY <1>1, PairsAt
        <4> QED
          BY <1>1, <1>4, <3>1, <4>1
      <3>3. k \in 2..Len(l)
        BY <1>1, <3>2
      <3> QED
        BY <2>1, <3>1, <3>3, ScanAtComma
    <2> QED
      BY <2>2, <2>4, <2>5
  <1> QED
    BY <1>2, <1>3, <1>4

\* A string that fits is shown as it is.
LEMMA FitAll ==
  ASSUME NEW s \in Seq(Letter), NEW r \in Int, Len(Encode(s)) <= r
  PROVE  Fit(s, r) = s
PROOF
  <1> DEFINE n == Len(s)
             f == FitLen(s, r)
  <1>1. n \in Nat /\ f \in 0..n /\ Fit(s, r) = Upto(s, f) /\ \A c \in 1..n : Len(Encode(Upto(s, c))) <= r => c <= f
    BY FitIs
  <1>2. Upto(s, n) = s
    BY DEF Upto
  <1> HIDE DEF n, f
  <1>3. f = n
    <2>1. CASE n = 0
      BY <1>1, <2>1
    <2>2. CASE n # 0
      <3>1. n \in 1..n
        BY <1>1, <2>2
      <3>2. Len(Encode(Upto(s, n))) <= r
        BY <1>2
      <3>3. n <= f
        BY <1>1, <3>1, <3>2
      <3> QED
        BY <1>1, <3>3
    <2> QED
      BY <2>1, <2>2
  <1> QED
    BY <1>1, <1>2, <1>3

\* Parts of one element each flatten to their elements.
LEMMA FlattenSingle ==
  ASSUME NEW T, NEW s \in Seq(T), NEW q \in Seq(Seq(T)), Len(q) = Len(s),
         \A k \in 1..Len(s) : q[k] = <<s[k]>>
  PROVE  FlattenSeq(q) = s
PROOF
  <1> DEFINE n == Len(s)
             f == FlattenSeq(q)
  <1>1. n \in Nat /\ Len(q) = n
    OBVIOUS
  <1>2. PICK ends : PartsStand(f, ends, q)
    BY FlattenedParts
  <1>3. f \in Seq(T)
    BY FlattenedParts
  <1>4. /\ ends \in [0..n -> Nat] /\ ends[0] = 0 /\ \A k \in 1..n : ends[k] = ends[k - 1] + Len(q[k])
        /\ Len(f) = ends[n]
        /\ \A k \in 1..n : \A j \in 1..Len(q[k]) : f[ends[k - 1] + j] = q[k][j]
    <2> HIDE DEF f, n
    <2> QED
      BY <1>1, <1>2 DEF PartsStand, Ends
  <1>5. \A k \in 1..n : Len(q[k]) = 1 /\ q[k][1] = s[k]
    <2> TAKE k \in 1..n
    <2>1. q[k] = <<s[k]>>
      OBVIOUS
    <2> DEFINE e == s[k]
    <2> HIDE DEF e
    <2>2. q[k] = <<e>>
      BY <2>1 DEF e
    <2>3. Len(<<e>>) = 1 /\ <<e>>[1] = e
      OBVIOUS
    <2> QED
      BY <2>2, <2>3 DEF e
  <1> HIDE DEF n, f
  <1> DEFINE P == {k \in Nat : k \in 0..n => ends[k] = k}
  <1>6. 0 \in P
    BY <1>4
  <1>7. ASSUME NEW k \in 0..n - 1, k \in P PROVE k + 1 \in P
    <2>1. k + 1 \in 1..n /\ (k + 1) - 1 = k /\ k \in 0..n /\ k + 1 \in Nat
      BY <1>1
    <2>2. ends[k + 1] = ends[k] + 1
      BY <1>4, <1>5, <2>1
    <2>3. ends[k] = k
      BY <1>7, <2>1
    <2> QED
      BY <2>1, <2>2, <2>3
  <1>8. 0..n \subseteq P
    <2> HIDE DEF P
    <2> QED
      BY <1>1, <1>6, <1>7, UpToInduction
  <1>9. \A k \in 0..n : ends[k] = k
    BY <1>8
  <1>10. Len(f) = n
    BY <1>1, <1>4, <1>9
  <1>11. \A k \in 1..n : f[k] = s[k]
    <2> TAKE k \in 1..n
    <2>1. k - 1 \in 0..n /\ ends[k - 1] = k - 1 /\ (k - 1) + 1 = k /\ 1 \in 1..1
      BY <1>1, <1>9
    <2>2. f[ends[k - 1] + 1] = q[k][1]
      BY <1>4, <1>5, <2>1
    <2> QED
      BY <1>5, <2>1, <2>2
  <1>12. f = s
    <2>1. Len(s) = n /\ s \in Seq(T)
      BY DEF n
    <2> QED
      BY <1>3, <1>10, <1>11, <2>1
  <1> QED
    BY <1>12 DEF f

\* Scanning a whole document shows its pairs.
LEMMA ScanWhole ==
  ASSUME NEW l \in Seq(HeaderPair)
  PROVE  ScanHeaders(Json(l)).pairs = l
PROOF
  <1> DEFINE d == Json(l)
             q == PairPieces(l, 0, d)
  <1>1. d \in Seq(Letter)
    BY JsonIs
  <1>2. CutOf(l, 0, d)
    <2>1. 0 \in Nat /\ \A j \in 1..Len(d) : 0 + j = j
      <3>1. Len(d) \in Nat
        BY <1>1
      <3> QED
        BY <3>1
    <2> QED
      BY <1>1, <2>1 DEF CutOf
  <1>3. ScanHeaders(d).pairs = FlattenSeq(q)
    <2> HIDE DEF d
    <2> QED
      BY <1>2, ScanPairs DEF ShowsAll
  <1>4. q \in Seq(Seq(HeaderPair)) /\ Len(q) = Len(l) /\ \A k \in 1..Len(l) : q[k] = PairPiece(l, 0, d, k)
    <2> HIDE DEF d
    <2> QED
      BY <1>2, PairPiecesAre
  <1>5. ASSUME NEW k \in 1..Len(l) PROVE PairPiece(l, 0, d, k) = <<l[k]>>
    <2> DEFINE a == PairAt(l, k)
               p == l[k]
               N == Len(Encode(p.name))
               V == Len(Encode(p.value))
               L == Len(d)
    <2>1. a \in Nat /\ p \in HeaderPair /\ PairCut(l, 0, d, k) = CutPair(d, a - 0, p)
      <3> HIDE DEF d
      <3> QED
        BY <1>2, PairCutIs
    <2>2. a + PairLen(p) <= L
      BY PairHeld
    <2>3. PairAt(l, k) >= 2
      <3> DEFINE b == PairAt(l, 1)
      <3>1. b = 2 /\ k \in 1..Len(l) + 1
        BY PairsAt
      <3>2. CASE k = 1
        BY <3>1, <3>2
      <3>3. CASE k # 1
        <4>1. 1 \in 1..k - 1
          BY <3>3
        <4>2. PairAt(l, 1) + 8 <= PairAt(l, k)
          BY <3>1, <4>1, PairsApart
        <4> HIDE DEF b
        <4>3. 2 + 8 <= a
          BY <3>1, <4>2 DEF b
        <4> HIDE DEF a
        <4> QED
          BY <2>1, <4>3 DEF a
      <3> QED
        BY <3>2, <3>3
    <2>4. PairLen(p) = N + V + 7
      BY DEF PairLen
    <2>5. L \in Nat
      BY <1>1
    <2> HIDE DEF d, p
    <2>6. N \in Nat /\ V \in Nat /\ p.name \in Seq(Letter) /\ p.value \in Seq(Letter)
      BY <2>1, PairLenIs
    <2>7. CutPair(d, a - 0, p) = [name |-> Fit(p.name, L - 1 - (a - 0)), value |-> Fit(p.value, L - 4 - (a - 0) - N)]
      BY DEF CutPair, NameRoom, ValueRoom
    <2> DEFINE x == L - 1 - (a - 0)
               y == L - 4 - (a - 0) - N
    <2>8. x \in Int /\ y \in Int /\ N <= x /\ V <= y /\ a > 0 /\ a < 0 + L
      <3> HIDE DEF a, N, V, L
      <3>1. a >= 2
        BY <2>3 DEF a
      <3> QED
        BY <2>1, <2>2, <2>4, <2>5, <2>6, <3>1
    <2> HIDE DEF x, y
    <2>9. Fit(p.name, x) = p.name /\ Fit(p.value, y) = p.value
      BY <2>6, <2>8, FitAll
    <2>10. CutPair(d, a - 0, p) = [name |-> p.name, value |-> p.value]
      BY <2>7, <2>9 DEF x, y
    <2>11. [name |-> p.name, value |-> p.value] = p
      BY <2>1 DEF HeaderPair
    <2>12. PairPiece(l, 0, d, k) = <<PairCut(l, 0, d, k)>>
      BY <2>8 DEF PairPiece
    <2> QED
      BY <2>1, <2>10, <2>11, <2>12 DEF p
  <1> HIDE DEF d, q
  <1>6. \A k \in 1..Len(l) : q[k] = <<l[k]>>
    BY <1>4, <1>5
  <1>7. FlattenSeq(q) = l
    BY <1>4, <1>6, FlattenSingle
  <1> QED
    BY <1>3, <1>7 DEF d

\* json.Unmarshal and the scan agree on the pairs of a whole document, which has no rest.
LEMMA ParsedPairs ==
  ASSUME NEW d
  PROVE  /\ ParseHeadersFragment(d).pairs = ScanHeaders(d).pairs
         /\ ParseHeadersFragment(d).text = <<>> \/ ParseHeadersFragment(d) = ScanHeaders(d)
         /\ \A l \in HeaderLists : Json(l) = d => ParseHeadersFragment(d).text = <<>>
PROOF
  <1>1. CASE \E l \in HeaderLists : Json(l) = d
    <2> DEFINE c == CHOOSE l \in HeaderLists : Json(l) = d
    <2>1. c \in HeaderLists /\ Json(c) = d
      BY <1>1
    <2>2. ParseHeadersFragment(d) = Fragment(c, <<>>)
      BY <1>1 DEF ParseHeadersFragment
    <2> HIDE DEF c
    <2>3. c \in Seq(HeaderPair)
      BY <2>1, LettersAre
    <2>4. ScanHeaders(Json(c)).pairs = c
      BY <2>3, ScanWhole
    <2> QED
      BY <2>1, <2>2, <2>4 DEF Fragment
  <1>2. CASE ~ \E l \in HeaderLists : Json(l) = d
    BY <1>2 DEF ParseHeadersFragment
  <1> QED
    BY <1>1, <1>2

\* A part that begins inside a string shows the rest of it.
LEMMA RestShown ==
  ASSUME NEW d \in Seq(Letter), Len(d) > 0, NEW s \in Seq(Letter),
         Holds(d, 1, Encode(s) \o Quote), ~Bracketed(Fit(s, Len(d)))
  PROVE  ParseHeadersFragment(d) = Fragment(<<>>, Trimmed(Fit(s, Len(d))))
PROOF
  <1>1. Len(d) \in Nat /\ 1 \in 1..Len(d) + 1 /\ Len(d) + 1 - 1 = Len(d) /\ 1 <= Len(d)
    OBVIOUS
  <1>2. RestContinues(d, 1, s)
    BY <1>1, RestIs
  <1>3. PairsFrom(d, 1) = Fragment(<<>>, Trimmed(Fit(s, Len(d)))) /\ Unbracketed(d, 1)
    BY <1>1, <1>2 DEF RestContinues
  <1>4. ScanHeaders(d) = PairsFrom(d, 1)
    BY <1>3, ScanIsPairs
  <1>5. ~ \E l \in HeaderLists : Json(l) = d
    <2> SUFFICES ASSUME NEW l \in HeaderLists, Json(l) = d PROVE FALSE
      OBVIOUS
    <2>1. l \in Seq(HeaderPair)
      BY LettersAre
    <2>2. d[1] = "["
      BY <2>1, JsonIs
    <2>3. Skip(d, 1) = 1
      BY <1>1, <2>2, SkipNone
    <2> QED
      BY <1>1, <1>3, <2>2, <2>3 DEF Unbracketed
  <1> QED
    BY <1>3, <1>4, <1>5 DEF ParseHeadersFragment

\* The rest of a string stands after the bytes of the characters before it.
LEMMA RestHeld ==
  ASSUME NEW d, NEW i \in Int, NEW s \in Seq(Letter), NEW c \in 0..Len(s), Holds(d, i, Encode(s) \o Quote)
  PROVE  /\ From(s, c + 1) \in Seq(Letter) /\ Encode(From(s, c + 1)) \o Quote \in Seq(Letter)
         /\ Holds(d, i + Len(Encode(Upto(s, c))), Encode(From(s, c + 1)) \o Quote)
PROOF
  <1> DEFINE u == Upto(s, c)
             v == From(s, c + 1)
             a == Encode(u)
             b == Encode(v)
  <1>1. u \in Seq(Letter) /\ v \in Seq(Letter) /\ Len(u) = c /\ Len(v) = Len(s) - c
        /\ (\A j \in 1..c : u[j] = s[j]) /\ \A j \in 1..Len(s) - c : v[j] = s[c + j]
    BY CutInTwo
  <1>2. u \o v = s
    <2> HIDE DEF u, v
    <2> DEFINE w == u \o v
    <2>1. w \in Seq(Letter) /\ Len(w) = Len(u) + Len(v)
          /\ (\A j \in 1..Len(u) : w[j] = u[j]) /\ \A j \in 1..Len(v) : w[Len(u) + j] = v[j]
      BY <1>1, Concatenated DEF Joined
    <2> HIDE DEF w
    <2>2. Len(s) \in Nat /\ c \in Nat /\ c <= Len(s)
      OBVIOUS
    <2>3. Len(w) = Len(s)
      BY <1>1, <2>1, <2>2
    <2>4. ASSUME NEW j \in 1..Len(s) PROVE w[j] = s[j]
      <3>1. CASE j <= c
        <4>1. j \in 1..c /\ j \in 1..Len(u)
          BY <1>1, <2>2, <3>1
        <4> QED
          BY <1>1, <2>1, <4>1
      <3>2. CASE ~(j <= c)
        <4> DEFINE i1 == j - c
        <4>1. i1 \in 1..Len(s) - c /\ c + i1 = j
          BY <2>2, <3>2
        <4> HIDE DEF i1
        <4>2. w[Len(u) + i1] = v[i1] /\ v[i1] = s[c + i1] /\ Len(u) = c
          BY <1>1, <2>1, <4>1
        <4> QED
          BY <4>1, <4>2
      <3> QED
        BY <3>1, <3>2
    <2>5. w = s
      BY <2>1, <2>3, <2>4
    <2> QED
      BY <2>5 DEF w
  <1> HIDE DEF u, v
  <1>3. a \in Seq(Letter) /\ b \in Seq(Letter) /\ Quote \in Seq(Letter)
    BY <1>1, EscapesAre, QuoteIs
  <1>4. Encode(s) = a \o b
    BY <1>1, <1>2, EncodeJoined
  <1> HIDE DEF a, b
  <1>5. (a \o b) \o Quote = a \o (b \o Quote)
    <2>1. Associates(a, b, Quote)
      BY <1>3, JoinThree
    <2> QED
      BY <2>1 DEF Associates
  <1> DEFINE w == b \o Quote
  <1>6. w \in Seq(Letter)
    BY <1>3, JoinedIs
  <1>7. Holds(d, i, a \o w)
    BY <1>4, <1>5
  <1> HIDE DEF w
  <1>8. Holds(d, i + Len(a), w)
    BY <1>3, <1>6, <1>7, HoldsBoth
  <1> QED
    BY <1>1, <1>6, <1>8 DEF w, a, b, u, v

\* What stands in a list after o bytes stands at the beginning of the part there.
LEMMA HeldAfter ==
  ASSUME NEW l, NEW o, NEW d, CutOf(l, o, d), NEW w \in Seq(Letter), Holds(Json(l), o + 1, w)
  PROVE  Holds(d, 1, w)
PROOF
  <1> DEFINE D == Json(l)
             n == Len(d)
  <1>1. o \in Nat /\ n \in Nat /\ \A j \in 1..n : o + j \in 1..Len(D) /\ d[j] = D[o + j]
    BY DEF CutOf
  <1>2. Len(D) \in Nat
    <2>1. D \in Seq(Letter)
      BY JsonIs DEF CutOf
    <2> HIDE DEF D
    <2> QED
      BY <2>1
  <1>3. \A j \in 1..Len(w) : (o + 1) + j - 1 <= Len(D) => D[(o + 1) + j - 1] = w[j]
    BY DEF Holds
  <1> HIDE DEF D, n
  <1>4. ASSUME NEW j \in 1..Len(w), 1 + j - 1 <= n PROVE d[1 + j - 1] = w[j]
    <2>1. j \in 1..n /\ 1 + j - 1 = j /\ (o + 1) + j - 1 = o + j
      BY <1>1, <1>4
    <2>2. o + j \in 1..Len(D) /\ d[j] = D[o + j]
      BY <1>1, <2>1
    <2>3. (o + 1) + j - 1 <= Len(D)
      BY <1>2, <2>1, <2>2
    <2>4. D[(o + 1) + j - 1] = w[j]
      BY <1>3, <2>3
    <2> QED
      BY <2>1, <2>2, <2>4
  <1> QED
    BY <1>4 DEF Holds, n

\* A part that begins inside the string s of a list, which begins at start.
LEMMA StringContinues ==
  ASSUME NEW l, NEW o, NEW d, CutOf(l, o, d), Len(d) > 0,
         NEW s \in Seq(Letter), NEW start \in Int, Holds(Json(l), start, Encode(s) \o Quote),
         NEW c \in 0..Len(s), o + 1 = start + Len(Encode(Upto(s, c))),
         ~Bracketed(Fit(From(s, c + 1), Len(d)))
  PROVE  ParseHeadersFragment(d) = Fragment(<<>>, Trimmed(Fit(From(s, c + 1), Len(d))))
PROOF
  <1> DEFINE v == From(s, c + 1)
             w == Encode(v) \o Quote
             D == Json(l)
  <1>1. v \in Seq(Letter) /\ w \in Seq(Letter) /\ Holds(D, start + Len(Encode(Upto(s, c))), w)
    <2> HIDE DEF D
    <2> QED
      BY RestHeld DEF D
  <1>2. Holds(D, o + 1, w)
    BY <1>1
  <1>3. Holds(d, 1, w)
    <2> HIDE DEF w
    <2> QED
      BY <1>1, <1>2, HeldAfter
  <1>4. d \in Seq(Letter)
    BY DEF CutOf
  <1> HIDE DEF v
  <1>5. ~Bracketed(Fit(v, Len(d)))
    BY DEF v
  <1>6. ParseHeadersFragment(d) = Fragment(<<>>, Trimmed(Fit(v, Len(d))))
    BY <1>1, <1>3, <1>4, <1>5, RestShown
  <1> QED
    BY <1>6 DEF v

\* Where the strings of a pair stand in a list.
LEMMA StringsHeld ==
  ASSUME NEW l \in Seq(HeaderPair), NEW k \in 1..Len(l)
  PROVE  /\ l[k].name \in Seq(Letter) /\ NameAt(l, k) \in Int
         /\ Holds(Json(l), NameAt(l, k), Encode(l[k].name) \o Quote)
         /\ l[k].value \in Seq(Letter) /\ ValueAt(l, k) \in Int
         /\ Holds(Json(l), ValueAt(l, k), Encode(l[k].value) \o Quote)
PROOF
  <1> DEFINE a == PairAt(l, k)
             p == l[k]
             N == Len(Encode(p.name))
             D == Json(l)
  <1>1. a \in Nat /\ p \in HeaderPair
    <2>1. k \in 1..Len(l) + 1
      OBVIOUS
    <2> QED
      BY <2>1, PairsAt
  <1>2. Holds(D, a, JsonPair(p)) /\ D \in Seq(Letter)
    BY PairHeld, JsonIs
  <1>3. NameAt(l, k) = a + 2 /\ ValueAt(l, k) = a + 5 + N
    BY DEF NameAt, ValueAt
  <1> HIDE DEF a, p, D
  <1>4. p.name \in Seq(Letter) /\ p.value \in Seq(Letter) /\ N \in Nat
    BY <1>1, PairLenIs
  <1>5. Holds(D, a + 2, Encode(p.name) \o Quote) /\ Holds(D, a + N + 5, Encode(p.value) \o Quote)
    BY <1>1, <1>2, PairStands
  <1> HIDE DEF N
  <1>6. a + N + 5 = a + 5 + N /\ a + 2 \in Int /\ a + 5 + N \in Int
    BY <1>1, <1>4
  <1> QED
    BY <1>3, <1>4, <1>5, <1>6 DEF p, D

\* From k on, a part has an opening bracket behind blanks and commas only.
Leads(d, k) ==
  \E j \in k..Len(d) : d[j] = "[" /\ \A m \in k..j - 1 : d[m] \in {"blank", "comma"}

\* Where no bracket follows the loop reads no pair.
LEMMA NoPairAhead ==
  ASSUME NEW d \in Seq(Letter), NEW i \in 1..Len(d) + 1, ~Leads(d, i)
  PROVE  PairsFrom(d, i).pairs = <<>>
PROOF
  <1> DEFINE n == Len(d) + 1
             P == {k \in 1..n : ~Leads(d, k) => PairsFrom(d, k).pairs = <<>>}
  <1>1. n \in Nat /\ Len(d) \in Nat
    OBVIOUS
  <1>2. ASSUME NEW k \in 1..n, \A m \in k + 1..n : m \in P PROVE k \in P
    <2> DEFINE j == Skip(d, k)
    <2> SUFFICES ASSUME ~Leads(d, k) PROVE PairsFrom(d, k).pairs = <<>>
      OBVIOUS
    <2>1. j \in k..Len(d) + 1 /\ \A m \in k..j - 1 : d[m] = "blank"
      BY SkipIs
    <2> HIDE DEF j, P
    <2>2. CASE j = Len(d) + 1
      <3>1. PairsFrom(d, k) = Fragment(<<>>, <<>>)
        BY <2>2, PairsSteps DEF j
      <3> QED
        BY <3>1 DEF Fragment
    <2>3. CASE j # Len(d) + 1
      <3>1. j \in 1..Len(d) /\ j \in k..Len(d)
        BY <1>1, <2>1, <2>3
      <3>2. d[j] # "["
        BY <2>1, <3>1 DEF Leads
      <3>3. CASE d[j] = "]"
        <4>1. PairsFrom(d, k) = Fragment(<<>>, <<>>)
          BY <3>1, <3>3, PairsSteps DEF j
        <4> QED
          BY <4>1 DEF Fragment
      <3>4. CASE d[j] = "comma"
        <4>1. PairsFrom(d, k) = PairsFrom(d, j + 1)
          BY <3>1, <3>4, PairsSteps DEF j
        <4>2. j + 1 \in k + 1..n
          BY <1>1, <3>1
        <4>3. ~Leads(d, j + 1)
          <5> SUFFICES ASSUME NEW x \in j + 1..Len(d), d[x] = "[",
                              \A m \in j + 1..x - 1 : d[m] \in {"blank", "comma"}
                       PROVE  FALSE
            BY DEF Leads
          <5>1. x \in k..Len(d)
            BY <1>1, <3>1
          <5>2. ASSUME NEW m \in k..x - 1 PROVE d[m] \in {"blank", "comma"}
            <6>1. m \in k..j - 1 \/ m = j \/ m \in j + 1..x - 1
              BY <1>1, <3>1
            <6> QED
              BY <2>1, <3>4, <6>1
          <5> QED
            BY <5>1, <5>2 DEF Leads
        <4>4. j + 1 \in P
          BY <1>2, <4>2
        <4> QED
          BY <4>1, <4>3, <4>4 DEF P
      <3>5. CASE d[j] \notin {"]", "comma", "["}
        <4>1. PairsFrom(d, k) = Continued(d, j)
          BY <3>1, <3>5, PairsSteps DEF j
        <4> QED
          BY <4>1 DEF Continued, Fragment
      <3> QED
        BY <3>2, <3>3, <3>4, <3>5
    <2> QED
      BY <2>2, <2>3
  <1>3. 1..n \subseteq P
    <2> HIDE DEF P, n
    <2> QED
      BY <1>1, <1>2, DownInduction
  <1> QED
    BY <1>3

\* A part whose first byte that is neither blank nor comma opens no list shows no pair.
LEMMA NoPairScanned ==
  ASSUME NEW d \in Seq(Letter), ~Opens(d, {"["})
  PROVE  ScanHeaders(d).pairs = <<>>
PROOF
  <1> DEFINE f == FirstPlain(d)
             i == Skip(d, 1)
  <1>1. Len(d) \in Nat /\ 1 \in 1..Len(d) + 1 /\ DOMAIN d = 1..Len(d)
    OBVIOUS
  <1>2. f \in 1..Len(d) + 1 /\ (\A k \in 1..f - 1 : d[k] \in {"blank", "comma"})
        /\ (f <= Len(d) => d[f] \notin {"blank", "comma"})
    BY FirstPlainIs
  <1>3. f \in 1..Len(d) => d[f] # "["
    BY <1>1 DEF Opens
  <1> HIDE DEF f
  <1>4. ~Leads(d, 1)
    <2> SUFFICES ASSUME NEW j \in 1..Len(d), d[j] = "[", \A m \in 1..j - 1 : d[m] \in {"blank", "comma"}
                 PROVE  FALSE
      BY DEF Leads
    <2>1. CASE j < f
      <3>1. j \in 1..f - 1
        BY <1>1, <1>2, <2>1
      <3> QED
        BY <1>2, <3>1
    <2>2. CASE f < j
      <3>1. f \in 1..j - 1 /\ f <= Len(d)
        BY <1>1, <1>2, <2>2
      <3> QED
        BY <1>2, <3>1
    <2>3. CASE f = j
      BY <1>3, <2>3
    <2> QED
      BY <1>1, <1>2, <2>1, <2>2, <2>3
  <1>5. PairsFrom(d, 1).pairs = <<>>
    BY <1>1, <1>4, NoPairAhead
  <1>6. i \in 1..Len(d) + 1 /\ \A m \in 1..i - 1 : d[m] = "blank"
    BY <1>1, SkipIs
  <1>7. CASE i <= Len(d) /\ d[i] = "]"
    <2>1. ~(i > Len(d)) /\ ~(i <= Len(d) /\ d[i] = "[") /\ ~(i <= Len(d) /\ d[i] = "comma")
      <3> HIDE DEF i
      <3> QED
        BY <1>1, <1>6, <1>7
    <2>2. ScanHeaders(d) = Fragment(<<>>, Inside(From(d, i), 1).text)
      BY <2>1 DEF ScanHeaders
    <2> QED
      BY <2>2 DEF Fragment
  <1>8. CASE ~(i <= Len(d) /\ d[i] = "]")
    <2>1. i <= Len(d) => d[i] # "["
      <3> SUFFICES ASSUME i <= Len(d), d[i] = "[" PROVE FALSE
        OBVIOUS
      <3> HIDE DEF i
      <3>1. i \in 1..Len(d)
        BY <1>1, <1>6
      <3> QED
        BY <1>4, <1>6, <3>1 DEF Leads
    <2>2. Unbracketed(d, 1)
      BY <1>8, <2>1 DEF Unbracketed
    <2>3. ScanHeaders(d) = PairsFrom(d, 1)
      BY <2>2, ScanIsPairs
    <2> QED
      BY <1>5, <2>3
  <1> QED
    BY <1>7, <1>8

\* A part that begins at a quote, or at the comma before one, shows no text.
LEMMA QuoteShown ==
  ASSUME NEW d \in Seq(Letter), Len(d) > 0,
         d[1] = "q" \/ (d[1] = "comma" /\ (2 <= Len(d) => d[2] = "q"))
  PROVE  ScanHeaders(d).text = <<>>
PROOF
  <1>1. Len(d) \in Nat /\ 1 \in 1..Len(d) + 1 /\ 1 \in 1..Len(d) /\ 2 \in 1..Len(d) + 1
    OBVIOUS
  <1>2. Skip(d, 1) = 1
    BY <1>1, SkipNone
  <1>3. Unbracketed(d, 1)
    BY <1>2 DEF Unbracketed
  <1>4. ScanHeaders(d) = PairsFrom(d, 1)
    BY <1>3, ScanIsPairs
  <1>5. ASSUME NEW k \in 1..Len(d), d[k] = "q" PROVE PairsFrom(d, k).text = <<>>
    <2> DEFINE r == From(d, k)
    <2>1. k \in 1..Len(d) + 1
      BY <1>1
    <2>2. Skip(d, k) = k
      BY <1>5, <2>1, SkipNone
    <2>3. PairsFrom(d, k) = Continued(d, k)
      BY <1>5, <2>1, <2>2, PairsSteps
    <2>4. r \in Seq(Letter) /\ Len(r) = Len(d) + 1 - k /\ \A j \in 1..Len(d) + 1 - k : r[j] = d[k + j - 1]
      BY DEF From
    <2>5. 1 \in 1..Len(d) + 1 - k /\ k + 1 - 1 = k
      BY <1>1
    <2> HIDE DEF r
    <2>6. 1 \in 1..Len(r) /\ r[1] = "q"
      BY <1>5, <2>4, <2>5
    <2>7. Inside(r, 1).text = <<>>
      BY <2>4, <2>6, InsideQuote
    <2> QED
      BY <2>3, <2>7 DEF Continued, Fragment, r
  <1>6. CASE d[1] = "q"
    BY <1>1, <1>4, <1>5, <1>6
  <1>7. CASE d[1] = "comma" /\ (2 <= Len(d) => d[2] = "q")
    <2>1. PairsFrom(d, 1) = PairsFrom(d, 2)
      <3>1. 1 + 1 = 2
        OBVIOUS
      <3> QED
        BY <1>1, <1>2, <1>7, <3>1, PairsSteps
    <2>2. CASE 2 <= Len(d)
      <3>1. 2 \in 1..Len(d)
        BY <1>1, <2>2
      <3> QED
        BY <1>4, <1>5, <1>7, <2>1, <2>2, <3>1
    <2>3. CASE ~(2 <= Len(d))
      <3>1. PairsFrom(d, 2).text = <<>>
        BY <1>1, <2>3, PairsEnd
      <3> QED
        BY <1>4, <2>1, <3>1
    <2> QED
      BY <2>2, <2>3
  <1> QED
    BY <1>6, <1>7

\* A part that begins between the strings of a pair, or before the first, shows no text.
LEMMA BetweenShown ==
  ASSUME NEW l, NEW o, NEW d, CutOf(l, o, d), Len(d) > 0, NEW k \in 1..Len(l),
         o + 1 \in {NameAt(l, k) - 1, ValueAt(l, k) - 2, ValueAt(l, k) - 1}
  PROVE  ParseHeadersFragment(d).text = <<>>
PROOF
  <1> DEFINE a == PairAt(l, k)
             p == l[k]
             N == Len(Encode(p.name))
             D == Json(l)
  <1>1. l \in Seq(HeaderPair) /\ d \in Seq(Letter) /\ Len(d) \in Nat /\ o \in Nat
        /\ \A j \in 1..Len(d) : o + j \in 1..Len(D) /\ d[j] = D[o + j]
    BY DEF CutOf
  <1>2. a \in Nat /\ p \in HeaderPair
    BY PairCutIs
  <1>3. Holds(D, a, JsonPair(p)) /\ D \in Seq(Letter)
    BY <1>1, PairHeld, JsonIs
  <1>4. NameAt(l, k) = a + 2 /\ ValueAt(l, k) = a + 5 + N
    BY DEF NameAt, ValueAt
  <1> HIDE DEF a, p, D
  <1>5. N \in Nat /\ Len(D) \in Nat
    BY <1>2, <1>3, PairLenIs
  <1>6. /\ a + 1 <= Len(D) => D[a + 1] = "q"
        /\ a + N + 3 <= Len(D) => D[a + N + 3] = "comma"
        /\ a + N + 4 <= Len(D) => D[a + N + 4] = "q"
    BY <1>2, <1>3, PairStands
  <1> HIDE DEF N
  <1>7. o + 1 \in {a + 1, a + N + 3, a + N + 4}
    <2>1. (a + 2) - 1 = a + 1 /\ (a + 5 + N) - 2 = a + N + 3 /\ (a + 5 + N) - 1 = a + N + 4
      BY <1>2, <1>5
    <2> QED
      BY <1>4, <2>1
  <1>8. /\ 1 \in 1..Len(d) /\ d[1] = D[o + 1] /\ o + 1 <= Len(D)
        /\ 2 <= Len(d) => d[2] = D[(o + 1) + 1] /\ (o + 1) + 1 <= Len(D)
    <2>1. 1 \in 1..Len(d) /\ (2 <= Len(d) => 2 \in 1..Len(d)) /\ o + 2 = (o + 1) + 1
      BY <1>1
    <2>2. o + 1 \in 1..Len(D) /\ (2 <= Len(d) => o + 2 \in 1..Len(D))
      BY <1>1, <2>1
    <2> QED
      BY <1>1, <1>5, <2>1, <2>2
  <1>9. d[1] = "q" \/ (d[1] = "comma" /\ (2 <= Len(d) => d[2] = "q"))
    <2>1. (a + N + 3) + 1 = a + N + 4
      BY <1>2, <1>5
    <2> QED
      BY <1>6, <1>7, <1>8, <2>1
  <1> QED
    BY <1>1, <1>9, QuoteShown, ParsedPairs

\* A list without pairs, whole or in part, has no rest but its bracket.
LEMMA NothingListed ==
  ASSUME NEW l \in HeaderLists, NEW d, CutOf(l, 0, d), Len(l) = 0, Len(d) # 1
  PROVE  ParseHeadersFragment(d).text = <<>>
PROOF
  <1> DEFINE D == Json(l)
  <1>1. l \in Seq(HeaderPair) /\ d \in Seq(Letter) /\ Len(d) \in Nat
        /\ \A j \in 1..Len(d) : 0 + j \in 1..Len(D) /\ d[j] = D[0 + j]
    BY DEF CutOf
  <1>2. D \in Seq(Letter) /\ Len(D) = 2
    <2>1. PairAt(l, 1) = 2 /\ PairAt(l, Len(l) + 1) = Len(D) + IF Len(l) > 0 THEN 1 ELSE 0
      BY <1>1, PairsAt
    <2>2. D \in Seq(Letter)
      BY <1>1, JsonIs
    <2> HIDE DEF D
    <2>3. Len(D) \in Nat /\ 2 = Len(D) + 0
      <3>1. Len(l) + 1 = 1 /\ ~(Len(l) > 0)
        OBVIOUS
      <3> QED
        BY <2>1, <2>2, <3>1
    <2> QED
      BY <2>2, <2>3
  <1> HIDE DEF D
  <1>3. CASE Len(d) = 0
    <2>1. ScanHeaders(d).text = <<>>
      BY <1>3, ScanNothing
    <2> QED
      BY <2>1, ParsedPairs
  <1>4. CASE Len(d) # 0
    <2>1. Len(d) = 2
      <3>1. Len(d) \in 1..Len(d)
        BY <1>1, <1>4
      <3>2. 0 + Len(d) \in 1..Len(D)
        BY <1>1, <3>1
      <3> QED
        BY <1>1, <1>2, <1>4, <3>2
    <2>2. \A j \in 1..2 : d[j] = D[j]
      <3>1. \A j \in 1..2 : 0 + j = j
        OBVIOUS
      <3> QED
        BY <1>1, <2>1, <3>1
    <2>3. D = d
      BY <1>1, <1>2, <2>1, <2>2
    <2> QED
      BY <2>3, ParsedPairs DEF D
  <1> QED
    BY <1>3, <1>4

\* A part of a list is decoded as it should be.
LEMMA PartDecoded ==
  ASSUME NEW l \in HeaderLists, NEW p, CutOf(l, p.from, p.data)
  PROVE  DecodesTo(l, p, ParseHeadersFragment(p.data))
PROOF
  <1> DEFINE o == p.from
             d == p.data
             end == o + Len(d)
             got == ParseHeadersFragment(d)
             begun == FlattenSeq(PairPieces(l, o, d))
             starts == o = 0 \/ \E k \in DOMAIN l : PairAt(l, k) - o \in {1, 2}
             apart == end # 1 /\ \A k \in DOMAIN l : PairAt(l, k) # end
             between(k) == o + 1 \in {NameAt(l, k) - 1, ValueAt(l, k) - 2, ValueAt(l, k) - 1}
             continues(s, start) ==
               \A c \in 0..Len(s) : o + 1 = start + Len(Encode(Upto(s, c))) =>
                 LET rest == Fit(From(s, c + 1), Len(d))
                 IN ~Opens(rest, {"[", "]"}) => \E k \in 1..FirstPlain(rest) : got.text = From(rest, k)
  <1>1. l \in Seq(HeaderPair) /\ d \in Seq(Letter) /\ CutOf(l, o, d) /\ DOMAIN l = 1..Len(l)
        /\ o \in Nat /\ Len(d) \in Nat /\ Len(l) \in Nat
    BY DEF CutOf
  <1>2. starts => got.pairs = begun /\ (apart => got.text = <<>>)
    <2> SUFFICES ASSUME starts PROVE got.pairs = begun /\ (apart => got.text = <<>>)
      OBVIOUS
    <2> HIDE DEF o, d, got
    <2>1. o = 0 \/ \E k \in 1..Len(l) : PairAt(l, k) - o \in {1, 2}
      BY <1>1
    <2>2. ShowsAll(l, o, d, ScanHeaders(d))
      BY <1>1, <2>1, ScanPairs
    <2>3. got.pairs = begun
      BY <2>2, ParsedPairs DEF ShowsAll, got
    <2>4. ASSUME apart, Len(l) > 0 PROVE got.text = <<>>
      <3>1. EndsApart(l, o, d)
        BY <1>1, <2>4 DEF EndsApart
      <3> QED
        BY <2>2, <3>1, ParsedPairs DEF ShowsAll, got
    <2>5. ASSUME apart, ~(Len(l) > 0) PROVE got.text = <<>>
      <3>1. Len(l) = 0 /\ o = 0
        BY <1>1, <2>1, <2>5
      <3>2. Len(d) # 1
        BY <1>1, <2>5, <3>1
      <3> QED
        BY <1>1, <3>1, <3>2, NothingListed DEF got
    <2> QED
      BY <2>3, <2>4, <2>5
  <1>3. ~Opens(d, {"["}) => IsPrefix(got.pairs, begun)
    <2> SUFFICES ASSUME ~Opens(d, {"["}) PROVE IsPrefix(got.pairs, begun)
      OBVIOUS
    <2> HIDE DEF o, d, got
    <2>1. got.pairs = <<>>
      BY <1>1, NoPairScanned, ParsedPairs DEF got
    <2>2. begun \in Seq(HeaderPair)
      <3>1. 1 \in 1..Len(l) + 1
        BY <1>1
      <3> QED
        BY <1>1, <3>1, AheadSteps
    <2> HIDE DEF begun
    <2>3. IsPrefix(<<>>, begun)
      BY <2>2 DEF IsPrefix
    <2> QED
      BY <2>1, <2>3
  <1>4. ASSUME d # <<>>, NEW s \in Seq(Letter), NEW start \in Int, Holds(Json(l), start, Encode(s) \o Quote)
        PROVE  continues(s, start)
    <2> HIDE DEF o, d
    <2> SUFFICES ASSUME NEW c \in 0..Len(s), o + 1 = start + Len(Encode(Upto(s, c))),
                        ~Opens(Fit(From(s, c + 1), Len(d)), {"[", "]"})
                 PROVE  LET rest == Fit(From(s, c + 1), Len(d))
                        IN \E k \in 1..FirstPlain(rest) : got.text = From(rest, k)
      OBVIOUS
    <2> DEFINE rest == Fit(From(s, c + 1), Len(d))
    <2>1. ~Bracketed(rest) /\ Len(d) > 0
      BY <1>1, <1>4 DEF Bracketed
    <2>2. got = Fragment(<<>>, Trimmed(rest))
      BY <1>1, <1>4, <2>1, StringContinues
    <2>3. got.text = From(rest, FirstPlain(rest))
      BY <2>2 DEF Fragment, Trimmed
    <2>4. rest \in Seq(Letter)
      <3>1. From(s, c + 1) \in Seq(Letter)
        BY <1>4, RestHeld
      <3>2. Len(d) \in Int
        BY <1>1
      <3> QED
        BY <3>1, <3>2, FitRange
    <2> HIDE DEF rest, got
    <2>5. FirstPlain(rest) \in 1..FirstPlain(rest)
      BY <2>4, FirstPlainIs
    <2> QED
      BY <2>3, <2>5 DEF rest
  <1>5. ASSUME d # <<>>, NEW k \in DOMAIN l
        PROVE  /\ continues(l[k].name, NameAt(l, k)) /\ continues(l[k].value, ValueAt(l, k))
               /\ between(k) => got.text = <<>>
    <2>1. k \in 1..Len(l)
      BY <1>1
    <2>2. /\ l[k].name \in Seq(Letter) /\ NameAt(l, k) \in Int
          /\ Holds(Json(l), NameAt(l, k), Encode(l[k].name) \o Quote)
          /\ l[k].value \in Seq(Letter) /\ ValueAt(l, k) \in Int
          /\ Holds(Json(l), ValueAt(l, k), Encode(l[k].value) \o Quote)
      BY <1>1, <2>1, StringsHeld
    <2> HIDE DEF continues, o, d
    <2>3. between(k) => got.text = <<>>
      <3>1. Len(d) > 0
        BY <1>1, <1>5
      <3> QED
        BY <1>1, <2>1, <3>1, BetweenShown
    <2> QED
      BY <1>4, <1>5, <2>2, <2>3
  <1>6. begun = FlattenSeq([k \in DOMAIN l |->
          IF PairAt(l, k) > o /\ PairAt(l, k) < o + Len(d) THEN <<PairCut(l, o, d, k)>> ELSE <<>>])
    <2> HIDE DEF o, d, starts, got
    <2> QED
      BY DEF PairPieces, PairPiece
  <1> QED
    BY <1>2, <1>3, <1>5, <1>6 DEF DecodesTo, PairCut

\* Windows of headers, cut from a list, are decoded as they should be.
LEMMA HeadersInvariant == WindowsInv => HeadersShown
PROOF
  <1> SUFFICES ASSUME WindowsInv, kind = "headers", NEW l \in HeaderLists, IsPrefix(object, Json(l)),
                      NEW w \in DOMAIN pages
               PROVE  DecodesTo(l, pages[w], ParseHeadersFragment(pages[w].data))
    BY DEF HeadersShown
  <1> DEFINE p == pages[w]
             D == Json(l)
  <1>1. l \in Seq(HeaderPair)
    BY LettersAre
  <1>2. D \in Seq(Letter)
    BY <1>1, JsonIs
  <1>3. p \in Page
    BY DEF WindowsInv
  <1>4. p.from \in Nat /\ p.data \in Seq(Byte)
    BY <1>3 DEF Page
  <1>5. p.data \in Seq(Letter)
    <2> DEFINE d == p.data
    <2>1. d \in Seq(Byte) /\ Byte \subseteq Letter
      BY <1>4, LettersAre
    <2> HIDE DEF d
    <2>2. d \in Seq(Letter)
      BY <2>1
    <2> QED
      BY <2>2 DEF d
  <1>6. \A j \in DOMAIN p.data : p.from + j \in DOMAIN object /\ p.data[j] = object[p.from + j]
    BY DEF WindowsInv, WindowsTile
  <1>7. object \in Seq(Byte)
    BY ContentAssumption DEF WindowsInv
  <1>8. Len(object) <= Len(D) /\ \A i \in 1..Len(object) : object[i] = D[i]
    <2> DEFINE n == Len(object)
    <2>1. n \in Nat /\ Len(D) \in Nat /\ n <= Len(D) /\ SubSeq(object, 1, n) = SubSeq(D, 1, n)
      <3> HIDE DEF D
      <3> QED
        BY <1>2, <1>7 DEF IsPrefix, D
    <2> HIDE DEF D, n
    <2>2. ASSUME NEW i \in 1..n PROVE object[i] = D[i]
      <3>1. SubSeq(object, 1, n)[i] = object[i]
        BY <1>7, <2>1 DEF n
      <3>2. SubSeq(D, 1, n)[i] = D[i]
        BY <1>2, <2>1
      <3> QED
        BY <2>1, <3>1, <3>2
    <2> QED
      BY <2>1, <2>2 DEF n
  <1>9. CutOf(l, p.from, p.data)
    <2> DEFINE d == p.data
               o == p.from
    <2>1. ASSUME NEW j \in 1..Len(d) PROVE o + j \in 1..Len(D) /\ d[j] = D[o + j]
      <3>1. j \in DOMAIN d
        BY <1>5
      <3>2. o + j \in DOMAIN object /\ d[j] = object[o + j]
        BY <1>6, <3>1
      <3>3. DOMAIN object = 1..Len(object) /\ Len(object) \in Nat
        BY <1>7
      <3>4. Len(D) \in Nat
        <4> HIDE DEF D
        <4> QED
          BY <1>2
      <3> HIDE DEF D, d, o
      <3>5. o + j \in 1..Len(object)
        BY <3>2, <3>3
      <3>6. o + j \in 1..Len(D)
        BY <1>8, <3>3, <3>4, <3>5
      <3> QED
        BY <1>8, <3>2, <3>5, <3>6
    <2> QED
      BY <1>1, <1>4, <1>5, <2>1 DEF CutOf
  <1> HIDE DEF p
  <1>10. DecodesTo(l, p, ParseHeadersFragment(p.data))
    BY <1>9, PartDecoded
  <1> QED
    BY <1>10 DEF p

-----------------------------------------------------------------------------
(* The theorems *)

\* What makes windows fit together, for any width of the integers: no offset leaves
\* their range, and what is shown is the part of the object that begins there.
THEOREM WindowsFit == Spec => []WindowsInv
PROOF
  BY WindowsInit, WindowsNext, PTL DEF Spec

\* Each window is the part of the object at its offset and the next begins where
\* it ends, between two characters of a text, whatever the store does with the range.
THEOREM InductiveInvariant == Spec => []ContentInv
PROOF
  <1>1. WindowsInv /\ CharactersInv /\ GoesOn => ContentInv
    BY DEF ContentInv, CharactersInv
  <1>2. Spec => []WindowsInv
    BY WindowsFit
  <1>3. Spec => []CharactersInv
    BY WindowsFit, CharactersInit, CharactersNext, PTL DEF Spec
  <1>4. Spec => []GoesOn
    BY WindowsFit, GoesOnInit, GoesOnNext, PTL DEF Spec
  <1> QED
    BY <1>1, <1>2, <1>3, <1>4, PTL

\* A reader who came to the end of an object missed no character of it, but for one
\* that is cut off with the object: the cut at a character (content_parse.go:44-50)
\* and the next offset agree, for any object and limits.
THEOREM NothingIsMissed == Spec => []NoneMissed
PROOF
  <1>1. ContentInv => NoneMissed
    BY DEF ContentInv
  <1> QED
    BY <1>1, InductiveInvariant, PTL

\* A reader of a text whose windows have room for each of its characters, of up to
\* four bytes, is shown text (utf8Window, content_parse.go:35-56), for any text, limits
\* and largest window.
THEOREM TextIsShown == Spec => []TextStaysText
PROOF
  <1>1. ContentInv => TextStaysText
    BY DEF ContentInv
  <1> QED
    BY <1>1, InductiveInvariant, PTL

\* A reader of a query string is shown each parameter once, in the window where it
\* begins and as far as that reaches, and the rest as text (parseArgsFragment,
\* content_parse.go:18-33), for any string and limits.
THEOREM ParamsAreShown == Spec => []ParamsShown
PROOF
  <1>1. ContentInv => ParamsShown
    BY ParamsInvariant DEF ContentInv
  <1> QED
    BY <1>1, InductiveInvariant, PTL

\* Windows of headers that begin at a pair show the pairs that begin in them, any
\* others the rest of the string they begin in and no pair that is not theirs
\* (scanHeaders, content_parse.go:58-151), for any list of headers and any windows.
THEOREM WindowsShowHeaders == Spec => []HeadersShown
PROOF
  BY WindowsFit, HeadersInvariant, PTL

\* No window slices out of bounds, for any width of the integers and any offset
\* and limit that fits it.
THEOREM NeverOutOfBounds == Spec => []InBounds
PROOF
  <1>1. WindowsInv => InBounds
    BY DEF WindowsInv
  <1> QED
    BY <1>1, WindowsFit, PTL

\* A process that started with an archive calls the store disabled only for a kind
\* without a bucket, whatever its environment.
THEOREM ArchiveIsKnown == Spec => []DisabledOnlyUnnamed
PROOF
  <1>1. WindowsInv => DisabledOnlyUnnamed
    BY DEF WindowsInv
  <1> QED
    BY <1>1, WindowsFit, PTL
=============================================================================
