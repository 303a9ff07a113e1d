----------------------------- MODULE SearchProofs -----------------------------
(***************************************************************************)
(* Theorems about Search, for any rows, requests, filters and windows: the *)
(* errors of the two queries behind a page, and what the pages of a        *)
(* listing show together, next to which number.                            *)
(*                                                                         *)
(* The copies of a row stand in a listing where the copies of the rows     *)
(* before it end, so that a row has a place that an insertion can only     *)
(* move back; what a reader has not been shown has its place after what    *)
(* she has.                                                                *)
(***************************************************************************)
EXTENDS Paging, FiniteFacts, SequenceTheorems, TLAPS

-----------------------------------------------------------------------------
(* The errors of the two queries *)

LEMMA IInvInit == Init => IInv
PROOF
  BY DEF Init, NoQuery, IInv, CancelCause, FailureTold

\* The two queries return, fail or are cancelled.
LEMMA IInvQueries ==
  ASSUME IInv,
         \/ ListReturns \/ ListFails \/ ListCancelled
         \/ CountStarts \/ CountReturns \/ CountFails \/ CountCancelled
  PROVE  IInv'
PROOF
  <1> USE DEF IInv, CancelCause, FailureTold, Waiting
  <1>1. CASE ListReturns
    BY <1>1 DEF ListReturns
  <1>2. CASE ListFails
    BY <1>2 DEF ListFails, AfterListError
  <1>3. CASE ListCancelled
    BY <1>3 DEF ListCancelled
  <1>4. CASE CountReturns
    BY <1>4 DEF CountReturns
  <1>5. CASE CountFails
    BY <1>5 DEF CountFails
  <1>6. CASE CountCancelled
    BY <1>6 DEF CountCancelled
  <1>7. CASE CountStarts
    BY <1>7 DEF CountStarts
  <1> QED
    BY <1>1, <1>2, <1>3, <1>4, <1>5, <1>6, <1>7

\* A reply is silent only for a cancelled query, and of the two errors that of
\* List counts.
LEMMA SilentMeansCancelled ==
  ASSUME ReplyTo(ErrorOf(query)) = "silent"
  PROVE  query.list = "cancelled" \/ (query.list = "ok" /\ query.count = "cancelled")
PROOF
  <1>1. ErrorOf(query) = "cancelled"
    BY DEF ReplyTo
  <1> QED
    BY <1>1 DEF ErrorOf

LEMMA IInvReader ==
  ASSUME IInv,
         \/ \E req \in Requests : Begin(req)
         \/ Ask \/ Answer \/ Leave \/ Exit
  PROVE  IInv'
PROOF
  <1> USE DEF IInv, CancelCause, FailureTold
  <1>1. ASSUME NEW req \in Requests, Begin(req) PROVE IInv'
    BY <1>1 DEF Begin, NoQuery
  <1>2. CASE Ask
    BY <1>2 DEF Ask
  <1>3. CASE Answer
    <2>1. reply' = ReplyTo(ErrorOf(query))
      BY <1>3 DEF Answer
    <2>2. reply' = "silent" => query.gone
      BY <2>1, SilentMeansCancelled
    <2>3. CASE query.gone
      BY <1>3, <2>2, <2>3 DEF Answer
    <2>4. CASE ~query.gone
      BY <1>3, <2>2, <2>4 DEF Answer, NoQuery
    <2> QED
      BY <2>3, <2>4
  <1>4. CASE Leave
    BY <1>4 DEF Leave
  <1>5. CASE Exit
    BY <1>5 DEF Exit, NoQuery
  <1> QED
    BY <1>1, <1>2, <1>3, <1>4, <1>5

LEMMA IInvNext == IInv /\ [Next]_vars => IInv'
PROOF
  <1> SUFFICES ASSUME IInv, [Next]_vars PROVE IInv'
    OBVIOUS
  <1>1. CASE UNCHANGED <<query, ctx, reply>>
    BY <1>1 DEF IInv, CancelCause, FailureTold
  <1>2. ASSUME NEW r \in Row, Insert(r) \/ Merge(r) PROVE IInv'
    BY <1>1, <1>2 DEF Insert, Merge
  <1>3. CASE Tick
    BY <1>1, <1>3 DEF Tick
  <1> QED
    BY <1>1, <1>2, <1>3, IInvQueries, IInvReader DEF Next, vars

\* Cancellation always has a cause the reader may see: her own leaving, or a List
\* that failed and is reported.
THEOREM InductiveInvariant == Spec => []IInv
PROOF
  BY IInvInit, IInvNext, PTL DEF Spec

\* A reader who is still there is never left without an answer: the failure of one
\* query does not hide behind the cancellation of the other.
THEOREM FailuresAreTold == Spec => []FailureTold
PROOF
  <1>1. IInv => FailureTold
    BY DEF IInv
  <1> QED
    BY <1>1, InductiveInvariant, PTL

-----------------------------------------------------------------------------
(* The copies that are stored *)

\* There are finitely many, the more the more rows there are.
LEMMA StoredFinite ==
  ASSUME NEW c, NEW rows \in SUBSET Row
  PROVE  IsFiniteSet(Stored(c, rows)) /\ Cardinality(Stored(c, rows)) \in Nat
PROOF
  <1>1. IsFiniteSet(rows) /\ IsFiniteSet(1..MaxCopies)
    BY SearchAssumption, FS_Subset, FS_Interval
  <1>2. IsFiniteSet(rows \X (1..MaxCopies))
    BY <1>1, FS_Product
  <1>3. IsFiniteSet(Stored(c, rows))
    BY <1>2, FS_Subset DEF Stored
  <1> QED
    BY <1>3, FS_CardinalityType

LEMMA StoredGrows ==
  ASSUME NEW c \in [Row -> 0..MaxCopies], NEW d \in [Row -> 0..MaxCopies],
         NEW rows \in SUBSET Row, NEW more \in SUBSET Row,
         rows \subseteq more, \A r \in rows : c[r] <= d[r]
  PROVE  Cardinality(Stored(c, rows)) <= Cardinality(Stored(d, more))
PROOF
  <1>1. IsFiniteSet(Stored(d, more))
    BY StoredFinite
  <1>2. Stored(c, rows) \subseteq Stored(d, more)
    <2> SUFFICES ASSUME NEW r \in rows, NEW k \in 1..MaxCopies, k <= c[r]
                 PROVE  k <= d[r] /\ r \in more
      BY DEF Stored
    <2>1. k \in Nat /\ c[r] \in Nat /\ d[r] \in Nat /\ c[r] <= d[r]
      BY SearchAssumption
    <2> QED
      BY <2>1
  <1> QED
    BY <1>1, <1>2, FS_Subset

\* Another row adds its copies.
LEMMA StoredAdds ==
  ASSUME NEW c \in [Row -> 0..MaxCopies], NEW rows \in SUBSET Row, NEW x \in Row \ rows
  PROVE  Cardinality(Stored(c, rows \cup {x})) = Cardinality(Stored(c, rows)) + c[x]
PROOF
  <1> DEFINE f == [k \in 1..c[x] |-> <<x, k>>]
             T == {f[k] : k \in 1..c[x]}
  <1>1. c[x] \in Nat /\ c[x] <= MaxCopies /\ MaxCopies \in Nat
    BY SearchAssumption
  <1>2. IsFiniteSet(1..c[x]) /\ Cardinality(1..c[x]) = c[x]
    BY <1>1, FS_Interval
  <1>3. \A j, k \in 1..c[x] : f[j] = f[k] => j = k
    OBVIOUS
  <1>4. IsFiniteSet(T) /\ Cardinality(T) = c[x]
    <2>1. DOMAIN f = 1..c[x]
      OBVIOUS
    <2> HIDE DEF f
    <2> QED
      BY <1>2, <1>3, <2>1, ImageSize
  <1>5. T = {<<x, k>> : k \in 1..c[x]}
    OBVIOUS
  <1> HIDE DEF T
  <1>6. Stored(c, rows \cup {x}) = Stored(c, rows) \cup T
    <2>1. ASSUME NEW k \in 1..MaxCopies, k <= c[x] PROVE k \in 1..c[x]
      BY <1>1, <2>1
    <2>2. ASSUME NEW k \in 1..c[x] PROVE k \in 1..MaxCopies /\ k <= c[x]
      BY <1>1, <2>2
    <2> QED
      BY <1>5, <2>1, <2>2 DEF Stored
  <1>7. Stored(c, rows) \cap T = {}
    BY <1>5 DEF Stored
  <1>8. IsFiniteSet(Stored(c, rows)) /\ Cardinality(Stored(c, rows)) \in Nat
    BY StoredFinite
  <1>9. Cardinality(Stored(c, rows) \cup T) = Cardinality(Stored(c, rows)) + Cardinality(T) - Cardinality({})
    <2> DEFINE U == Stored(c, rows)
    <2>1. IsFiniteSet(U) /\ IsFiniteSet(T) /\ U \cap T = {}
      BY <1>4, <1>7, <1>8
    <2> HIDE DEF U
    <2>2. Cardinality(U \cup T) = Cardinality(U) + Cardinality(T) - Cardinality(U \cap T)
      BY <2>1, FS_Union, Zenon
    <2>3. Cardinality(U \cup T) = Cardinality(U) + Cardinality(T) - Cardinality({})
      BY <2>1, <2>2, Zenon
    <2> QED
      BY <2>3 DEF U
  <1>10. Cardinality(Stored(c, rows) \cup T) = Cardinality(Stored(c, rows)) + c[x]
    BY <1>1, <1>4, <1>8, <1>9, FS_EmptySet
  <1> QED
    BY <1>6, <1>10, Zenon

LEMMA NoneStored == ASSUME NEW c PROVE Cardinality(Stored(c, {})) = 0
PROOF
  <1>1. Stored(c, {}) = {}
    BY DEF Stored
  <1> QED
    BY <1>1, FS_EmptySet

\* The sum of the copies of rows is the number that is stored.
LEMMA SumOfCopies ==
  ASSUME NEW c \in [Row -> 0..MaxCopies], NEW rows \in SUBSET Row
  PROVE  MapThenSumSet(LAMBDA r : c[r], rows) = Cardinality(Stored(c, rows))
PROOF
  <1> DEFINE pick == [t \in SUBSET rows |-> CHOOSE x \in t : TRUE]
             step == [p \in rows \X Nat |-> c[p[1]] + p[2]]
             IsIter(g) == g = [t \in SUBSET rows |->
                                 IF t = {} THEN 0
                                 ELSE c[CHOOSE x \in t : TRUE] + g[t \ {CHOOSE x \in t : TRUE}]]
             iter == CHOOSE g : IsIter(g)
  <1>1. MapThenSumSet(LAMBDA r : c[r], rows) = iter[rows]
    BY DEF MapThenSumSet, MapThenFoldSet
  <1>2. IsFiniteSet(rows) /\ \A t \in SUBSET rows : t # {} => pick[t] \in t
    BY SearchAssumption, FS_Subset
  <1>3. \A r \in rows : c[r] \in Nat
    BY SearchAssumption
  <1>4. step \in [rows \X Nat -> Nat] /\ \A r \in rows, x \in Nat : step[<<r, x>>] = c[r] + x
    BY <1>3
  <1> HIDE DEF step
  <1>5. PICK h : IsFold(h, rows, Nat, 0, pick, step)
    <2> HIDE DEF pick
    <2> QED
      BY <1>2, <1>4, FoldExists
  <1>6. h \in [SUBSET rows -> Nat]
    BY <1>5 DEF IsFold
  <1>7. ASSUME NEW t \in SUBSET rows
        PROVE  h[t] = IF t = {} THEN 0
                      ELSE c[CHOOSE x \in t : TRUE] + h[t \ {CHOOSE x \in t : TRUE}]
    <2>1. h[t] = IF t = {} THEN 0 ELSE step[<<pick[t], h[t \ {pick[t]}]>>]
      BY <1>5 DEF IsFold
    <2>2. pick[t] = CHOOSE x \in t : TRUE
      OBVIOUS
    <2>3. h[t \ {pick[t]}] \in Nat /\ (t # {} => pick[t] \in rows)
      BY <1>2, <1>6
    <2> HIDE DEF pick
    <2>4. t # {} => step[<<pick[t], h[t \ {pick[t]}]>>] = c[pick[t]] + h[t \ {pick[t]}]
      BY <1>4, <2>3
    <2> QED
      BY <2>1, <2>2, <2>4
  <1>8. IsIter(h)
    BY <1>6, <1>7
  <1>9. IsIter(iter)
    <2> HIDE DEF IsIter
    <2> QED
      BY <1>8
  <1> HIDE DEF iter
  <1> DEFINE Q == {t \in SUBSET rows : iter[t] = Cardinality(Stored(c, t))}
  <1>10. ASSUME NEW t \in SUBSET rows, \A u \in SUBSET t : u # t => u \in Q PROVE t \in Q
    <2>1. CASE t = {}
      <3>1. iter[t] = 0
        BY <1>9, <2>1
      <3> QED
        BY <2>1, <3>1, NoneStored
    <2>2. CASE t # {}
      <3> DEFINE x == CHOOSE x \in t : TRUE
                 u == t \ {x}
      <3>1. iter[t] = c[x] + iter[u]
        BY <1>9, <2>2
      <3>2. x \in t
        BY <2>2
      <3> HIDE DEF x
      <3>3. u \in SUBSET t /\ u # t /\ x \in Row \ u /\ t = u \cup {x} /\ u \in SUBSET Row /\ x \in Row
        BY <3>2
      <3>4. iter[u] = Cardinality(Stored(c, u))
        BY <1>10, <3>3
      <3> HIDE DEF u
      <3>5. Cardinality(Stored(c, u \cup {x})) = Cardinality(Stored(c, u)) + c[x]
        BY <3>3, StoredAdds
      <3>6. Cardinality(Stored(c, u)) \in Nat /\ c[x] \in Nat
        BY <3>3, StoredFinite, SearchAssumption
      <3>7. iter[t] = Cardinality(Stored(c, t))
        BY <3>1, <3>3, <3>4, <3>5, <3>6
      <3> QED
        BY <3>7
    <2> QED
      BY <2>1, <2>2
  <1>11. rows \in Q
    <2> HIDE DEF Q
    <2>1. SUBSET rows \subseteq Q
      BY <1>2, <1>10, SubsetInduction
    <2> QED
      BY <2>1
  <1> QED
    BY <1>1, <1>11

-----------------------------------------------------------------------------
(* The pages of rows *)

\* Dropping duplicates keeps what a page shows.
LEMMA DedupKeeps ==
  ASSUME NEW T, NEW s \in Seq(T)
  PROVE  Dedup(s) \in Seq(T) /\ ToSet(Dedup(s)) = ToSet(s)
PROOF
  <1> DEFINE n == Len(s)
             add(x, i) == IF Contains(x, i) THEN x ELSE Append(x, i)
             step == [p \in (1..n) \X Seq(T) |-> add(p[2], s[p[1]])]
             IsIter(g) == g = [t \in SUBSET (1..n) |->
                                 IF t = {} THEN <<>> ELSE add(g[t \ {Max(t)}], s[Max(t)])]
             iter == CHOOSE g : IsIter(g)
  <1>1. n \in Nat /\ DOMAIN s = 1..n /\ (\A k \in 1..n : s[k] \in T) /\ <<>> \in Seq(T)
    OBVIOUS
  <1>2. Dedup(s) = iter[1..n]
    BY <1>1 DEF Dedup, FoldLeft, MapThenFoldSet
  <1> HIDE DEF n
  <1>3. ASSUME NEW x \in Seq(T), NEW i \in T
        PROVE  add(x, i) \in Seq(T) /\ ToSet(add(x, i)) = ToSet(x) \cup {i}
    <2>1. CASE Contains(x, i)
      BY <2>1 DEF Contains, ToSet
    <2>2. CASE ~Contains(x, i)
      <3>1. Append(x, i) \in Seq(T) /\ Len(Append(x, i)) = Len(x) + 1 /\ Len(x) \in Nat
        OBVIOUS
      <3>2. \A k \in 1..Len(x) : Append(x, i)[k] = x[k]
        OBVIOUS
      <3>3. Append(x, i)[Len(x) + 1] = i
        OBVIOUS
      <3>4. ToSet(Append(x, i)) = ToSet(x) \cup {i}
        <4> DEFINE y == Append(x, i)
        <4>1. DOMAIN y = 1..Len(x) + 1 /\ DOMAIN x = 1..Len(x)
          BY <3>1
        <4> HIDE DEF y
        <4>2. ToSet(y) = {y[k] : k \in 1..Len(x) + 1} /\ ToSet(x) = {x[k] : k \in 1..Len(x)}
          BY <4>1 DEF ToSet
        <4>3. \A k \in 1..Len(x) : y[k] = x[k]
          BY <3>2 DEF y
        <4>4. y[Len(x) + 1] = i
          BY <3>3 DEF y
        <4>5. ToSet(y) = ToSet(x) \cup {i}
          BY <3>1, <4>2, <4>3, <4>4
        <4> QED
          BY <4>5 DEF y
      <3> QED
        BY <2>2, <3>1, <3>4
    <2> QED
      BY <2>1, <2>2
  <1> HIDE DEF add
  <1>4. step \in [(1..n) \X Seq(T) -> Seq(T)]
    BY <1>1, <1>3
  <1>5. \A k \in 1..n, x \in Seq(T) : step[<<k, x>>] = add(x, s[k])
    OBVIOUS
  <1> HIDE DEF step
  <1>6. PICK h \in [SUBSET (1..n) -> Seq(T)] : IsFoldLeft(h, n, <<>>, step)
    BY <1>1, <1>4, FoldLeftExists
  <1>7. ASSUME NEW t \in SUBSET (1..n)
        PROVE  h[t] = IF t = {} THEN <<>> ELSE add(h[t \ {Max(t)}], s[Max(t)])
    <2>1. h[t] = IF t = {} THEN <<>> ELSE step[<<Max(t), h[t \ {Max(t)}]>>]
      BY <1>6 DEF IsFoldLeft
    <2>2. t # {} => Max(t) \in 1..n
      BY <1>1, MaxInRange
    <2>3. h[t \ {Max(t)}] \in Seq(T)
      BY <1>6
    <2> QED
      BY <1>5, <2>1, <2>2, <2>3
  <1>8. IsIter(h)
    BY <1>6, <1>7
  <1>9. IsIter(iter)
    <2> HIDE DEF IsIter
    <2> QED
      BY <1>8
  <1> DEFINE it == iter
  <1> HIDE DEF iter
  <1>10. iter[{}] = <<>> /\ \A k \in 1..n : iter[1..k] = add(iter[1..k - 1], s[k])
    <2>1. iter[{}] = <<>>
      BY <1>9
    <2>2. ASSUME NEW k \in 1..n PROVE iter[1..k] = add(iter[1..k - 1], s[k])
      <3>1. 1..k # {} /\ 1..k \in SUBSET (1..n)
        BY <1>1
      <3>2. iter[1..k] = add(iter[(1..k) \ {Max(1..k)}], s[Max(1..k)])
        BY <1>9, <3>1
      <3>3. Max(1..k) = k /\ (1..k) \ {k} = 1..k - 1
        BY LastOfRange
      <3> QED
        BY <3>2, <3>3, Zenon
    <2> QED
      BY <2>1, <2>2
  <1> DEFINE P == {k \in 0..n : iter[1..k] \in Seq(T) /\ ToSet(iter[1..k]) = {s[i] : i \in 1..k}}
  <1>11. 0 \in P
    <2>1. 1..0 = {} /\ {s[i] : i \in {}} = {} /\ 0 \in 0..n
      BY <1>1
    <2>2. ToSet(<<>>) = {}
      BY DEF ToSet
    <2>3. iter[1..0] = <<>> /\ {s[i] : i \in 1..0} = {}
      BY <1>10, <2>1, Zenon
    <2> QED
      BY <1>1, <2>1, <2>2, <2>3
  <1>12. ASSUME NEW k \in 0..n - 1, k \in P PROVE k + 1 \in P
    <2>1. k + 1 \in 1..n /\ k + 1 \in 0..n /\ (k + 1) - 1 = k /\ s[k + 1] \in T /\ k \in Nat
      BY <1>1
    <2>2. iter[1..k + 1] = add(iter[1..k], s[k + 1])
      BY <1>10, <2>1
    <2>3. iter[1..k + 1] \in Seq(T) /\ ToSet(iter[1..k + 1]) = {s[i] : i \in 1..k} \cup {s[k + 1]}
      BY <1>3, <1>12, <2>1, <2>2
    <2>4. {s[i] : i \in 1..k + 1} = {s[i] : i \in 1..k} \cup {s[k + 1]}
      BY <2>1
    <2> QED
      BY <2>1, <2>3, <2>4
  <1>13. n \in P
    <2>1. 0..n \subseteq P
      <3> HIDE DEF P
      <3> QED
        BY <1>1, <1>11, <1>12, UpToInduction
    <2> HIDE DEF P
    <2> QED
      BY <1>1, <2>1
  <1>14. ToSet(s) = {s[i] : i \in 1..n}
    BY <1>1 DEF ToSet
  <1> QED
    BY <1>2, <1>13, <1>14

\* Where a listing has the copies of its rows: the last copy of a row stands after
\* as many as are stored of the rows up to it.
LEMMA CopiesInOrder ==
  ASSUME copies \in [Row -> 0..MaxCopies], NEW rows \in SUBSET Row, NEW s \in SetToSeqs(rows)
  PROVE  /\ Unmerged(s) \in Seq({r.item : r \in rows})
         /\ Len(Unmerged(s)) = Cardinality(Stored(copies, rows))
         /\ \A k \in 1..Len(s) : copies[s[k]] > 0 =>
              LET p == Cardinality(Stored(copies, AmongFirst(s, k)))
              IN p \in 1..Len(Unmerged(s)) /\ Unmerged(s)[p] = s[k].item
PROOF
  <1> DEFINE V == {r.item : r \in rows}
             n == Len(s)
             part(k) == [c \in 1..copies[s[k]] |-> s[k].item]
             q == [k \in 1..n |-> part(k)]
             upto(k) == AmongFirst(s, k)
             size(k) == Cardinality(Stored(copies, upto(k)))
  <1>0. IsFiniteSet(rows)
    BY SearchAssumption, FS_Subset
  <1>1. /\ s \in Seq(rows) /\ n \in Nat
        /\ \A x \in rows : \E k \in 1..n : s[k] = x
        /\ \A j, k \in 1..n : s[j] = s[k] => j = k
    BY <1>0, ListedOnce
  <1>2. DOMAIN s = 1..n /\ \A k \in 1..n : s[k] \in Row /\ s[k] \in rows
    BY <1>1
  <1>3. Unmerged(s) = FlattenSeq(q)
    BY <1>2 DEF Unmerged
  <1>4. ASSUME NEW k \in 1..n
        PROVE  /\ part(k) \in Seq(V) /\ Len(part(k)) = copies[s[k]] /\ copies[s[k]] \in Nat
               /\ \A i \in 1..copies[s[k]] : part(k)[i] = s[k].item
    <2>1. s[k] \in Row /\ copies[s[k]] \in Nat /\ s[k].item \in V
      BY <1>2, SearchAssumption
    <2> QED
      BY <2>1
  <1> HIDE DEF part, n, V
  <1>5. /\ q \in Seq(Seq(V)) /\ Len(q) = n
        /\ \A k \in 1..n : Len(q[k]) = copies[s[k]] /\ copies[s[k]] \in Nat
        /\ \A k \in 1..n : \A i \in 1..copies[s[k]] : q[k][i] = s[k].item
    <2>1. \A k \in 1..n : q[k] = part(k) /\ part(k) \in Seq(V)
      BY <1>4
    <2>2. q \in Seq(Seq(V)) /\ Len(q) = n
      BY <1>1, <1>4
    <2> HIDE DEF q
    <2> QED
      BY <1>4, <2>1, <2>2
  <1> HIDE DEF q
  <1>6. FlattenSeq(q) \in Seq(V)
    BY <1>5, FlattenedParts
  <1>7. PICK at : PartsStand(FlattenSeq(q), at, q)
    BY <1>5, FlattenedParts
  <1>8. at \in [0..n -> Nat] /\ at[0] = 0 /\ \A k \in 1..n : at[k] = at[k - 1] + copies[s[k]]
    BY <1>5, <1>7 DEF PartsStand, Ends
  <1>9. \A k \in 0..n : upto(k) \in SUBSET Row
    BY <1>1, <1>2 DEF AmongFirst
  <1>10. \A k \in 0..n : at[k] = size(k)
    <2> DEFINE P == {k \in 0..n : at[k] = size(k)}
    <2>1. 0 \in P
      <3>1. upto(0) = {}
        BY DEF AmongFirst
      <3>2. size(0) = 0
        BY <3>1, NoneStored, Zenon
      <3> QED
        BY <1>1, <1>8, <3>2
    <2>2. ASSUME NEW k \in 0..n - 1, k \in P PROVE k + 1 \in P
      <3>1. k \in Nat /\ k \in 0..n /\ k + 1 \in 1..n /\ k + 1 \in 0..n /\ (k + 1) - 1 = k
        BY <1>1
      <3>2. s[k + 1] \in Row \ upto(k)
        <4>1. \A i \in 1..k : i \in 1..n /\ i # k + 1
          BY <1>1, <3>1
        <4> QED
          BY <1>1, <1>2, <3>1, <4>1 DEF AmongFirst
      <3>3. upto(k + 1) = upto(k) \cup {s[k + 1]}
        BY <3>1 DEF AmongFirst
      <3>4. upto(k) \in SUBSET Row
        BY <1>9, <3>1
      <3> HIDE DEF upto
      <3>5. Cardinality(Stored(copies, upto(k) \cup {s[k + 1]})) = size(k) + copies[s[k + 1]]
        BY <3>2, <3>4, StoredAdds
      <3>6. size(k + 1) = size(k) + copies[s[k + 1]]
        BY <3>3, <3>5, Zenon
      <3>7. at[k + 1] = at[k] + copies[s[k + 1]]
        BY <1>8, <3>1
      <3> HIDE DEF size
      <3> QED
        BY <2>2, <3>1, <3>6, <3>7
    <2>3. 0..n \subseteq P
      <3> HIDE DEF P
      <3> QED
        BY <1>1, <2>1, <2>2, UpToInduction
    <2> QED
      BY <2>3
  <1>11. Len(Unmerged(s)) = Cardinality(Stored(copies, rows))
    <2>1. upto(n) = rows
      BY <1>1, <1>2 DEF AmongFirst
    <2>2. Len(FlattenSeq(q)) = at[n]
      BY <1>5, <1>7 DEF PartsStand
    <2>3. at[n] = size(n)
      <3>1. n \in 0..n
        BY <1>1
      <3> HIDE DEF size
      <3> QED
        BY <1>10, <3>1
    <2> HIDE DEF upto
    <2> QED
      BY <1>3, <2>1, <2>2, <2>3, Zenon
  <1>12. ASSUME NEW k \in 1..n, copies[s[k]] > 0
         PROVE  size(k) \in 1..Len(Unmerged(s)) /\ Unmerged(s)[size(k)] = s[k].item
    <2>1. k \in 0..n /\ k - 1 \in 0..n
      BY <1>1
    <2>2. at[k] = size(k) /\ at[k] = at[k - 1] + copies[s[k]] /\ copies[s[k]] \in Nat
      BY <1>5, <1>8, <1>10, <2>1
    <2>3. copies[s[k]] \in 1..copies[s[k]]
      BY <1>12, <2>2
    <2>4. \A j \in 1..Len(q[k]) : at[k - 1] + j \in 1..Len(FlattenSeq(q)) /\ FlattenSeq(q)[at[k - 1] + j] = q[k][j]
      BY <1>5, <1>7 DEF PartsStand
    <2>5. at[k] \in 1..Len(FlattenSeq(q)) /\ FlattenSeq(q)[at[k]] = q[k][copies[s[k]]]
      <3>1. Len(q[k]) = copies[s[k]]
        BY <1>5
      <3>2. /\ at[k - 1] + copies[s[k]] \in 1..Len(FlattenSeq(q))
            /\ FlattenSeq(q)[at[k - 1] + copies[s[k]]] = q[k][copies[s[k]]]
        BY <2>3, <2>4, <3>1
      <3> QED
        BY <2>2, <3>2
    <2>6. q[k][copies[s[k]]] = s[k].item
      BY <1>5, <2>3
    <2> HIDE DEF size
    <2> QED
      BY <1>3, <2>2, <2>5, <2>6
  <1> QED
    BY <1>3, <1>6, <1>11, <1>12 DEF n, V

\* The library's minimum of two numbers.
LEMMA MinOfTwo == ASSUME NEW a \in Int, NEW b \in Int PROVE Min({a, b}) = Least(a, b)
PROOF
  <1>1. Least(a, b) \in {a, b} /\ \A y \in {a, b} : Least(a, b) <= y
    BY DEF Least
  <1>2. \A x \in {a, b} : (\A y \in {a, b} : x <= y) => x = Least(a, b)
    BY DEF Least
  <1> QED
    BY <1>1, <1>2 DEF Min

\* What a page has of a listing.
LEMMA CutShows ==
  ASSUME NEW T, NEW s \in Seq(T), NEW offset \in Nat, NEW limit \in Nat \ {0}
  PROVE  LET cut == Cut(s, offset, limit)
         IN /\ cut \in Seq(T)
            /\ Len(cut) = Least(offset + limit, Len(s)) - Least(offset, Len(s))
            /\ \A p \in 1..Len(s) : offset < p /\ p <= offset + limit => s[p] \in ToSet(cut)
PROOF
  <1> DEFINE n == Len(s)
             end == Least(offset + limit, n)
             cut == SubSeq(s, offset + 1, end)
  <1>1. n \in Nat /\ DOMAIN s = 1..n
    OBVIOUS
  <1>2. Cut(s, offset, limit) = cut
    <2>1. offset + limit \in Int /\ n \in Int
      BY <1>1
    <2> HIDE DEF n
    <2>2. Min({offset + limit, n}) = end
      BY <2>1, MinOfTwo
    <2> QED
      BY <2>2 DEF Cut, n
  <1> HIDE DEF n
  <1>3. end \in Nat /\ end <= n /\ end <= offset + limit /\ (end = n \/ end = offset + limit)
    BY <1>1 DEF Least
  <1>4. CASE offset < end
    <2>1. offset + 1 \in 1..n /\ end \in 1..n
      BY <1>1, <1>3, <1>4
    <2> HIDE DEF end
    <2>2. /\ cut \in Seq(T) /\ Len(cut) = end - offset
          /\ \A i \in 1..end - offset : cut[i] = s[offset + i]
      <3>1. \A i \in 1..n : s[i] \in T
        BY DEF n
      <3>2. \A i \in offset + 1..end : i \in 1..n
        BY <1>1, <2>1
      <3>3. \A i \in offset + 1..end : s[i] \in T
        BY <3>1, <3>2
      <3>4. /\ cut \in Seq(T)
            /\ Len(cut) = IF offset + 1 <= end THEN end - (offset + 1) + 1 ELSE 0
            /\ \A i \in 1..end - (offset + 1) + 1 : cut[i] = s[offset + 1 + i - 1]
        <4>1. offset + 1 \in Int /\ end \in Int
          BY <1>3
        <4> QED
          BY <3>3, <4>1, SubSeqProperties
      <3>5. end - (offset + 1) + 1 = end - offset /\ \A i \in 1..end - offset : offset + 1 + i - 1 = offset + i
        BY <1>3
      <3> HIDE DEF cut
      <3> QED
        BY <1>3, <1>4, <3>4, <3>5
    <2>3. Least(offset, n) = offset
      BY <1>1, <1>3, <1>4 DEF Least
    <2>4. ASSUME NEW p \in 1..n, offset < p, p <= offset + limit PROVE s[p] \in ToSet(cut)
      <3>1. p - offset \in 1..end - offset /\ offset + (p - offset) = p
        BY <1>1, <1>3, <2>4
      <3>2. cut[p - offset] = s[p]
        BY <2>2, <3>1
      <3>3. p - offset \in DOMAIN cut
        BY <2>2, <3>1, <1>3, <1>4
      <3> QED
        BY <3>2, <3>3 DEF ToSet
    <2> QED
      BY <1>2, <2>2, <2>3, <2>4 DEF n, end
  <1>5. CASE ~(offset < end)
    <2>1. end = n /\ n <= offset /\ Least(offset, n) = n /\ end < offset + 1
      BY <1>1, <1>3, <1>5 DEF Least
    <2>2. cut = <<>>
      BY <1>1, <2>1 DEF n
    <2>3. Len(cut) = end - n /\ cut \in Seq(T)
      BY <1>1, <2>1, <2>2
    <2> QED
      BY <1>1, <1>2, <2>1, <2>3 DEF n
  <1> QED
    BY <1>4, <1>5

\* What a search selects, of the table and of the next.
LEMMA SelectedChosen ==
  ASSUME NEW req \in Requests, NEW to
  PROVE  Selected(req, to) = Chosen(copies, req, to) /\ Selected(req, to)' = Chosen(copies', req, to)
PROOF
  <1>1. ASSUME NEW a, NEW inTime \in BOOLEAN
        PROVE  LET f == Normalize(req.route, req.filter)
               IN Where(req.route, f, a, inTime) <=> Where(req.route, f, a, TRUE) /\ (Timeless(req) \/ inTime)
    <2> DEFINE f == Normalize(req.route, req.filter)
    <2> SUFFICES Where(req.route, f, a, inTime) <=> Where(req.route, f, a, TRUE) /\ (Timeless(req) \/ inTime)
      OBVIOUS
    <2>1. Timeless(req) <=> (req.route # "logs" /\ f.ray # "")
      BY DEF Timeless, AnyTime
    <2> HIDE DEF f
    <2>2. CASE req.route = "logs"
      BY <2>1, <2>2, Zenon DEF Where, WhereLog
    <2>3. CASE req.route = "findings"
      <3>1. /\ Where(req.route, f, a, inTime) <=> WhereFinding(f, a, inTime)
            /\ Where(req.route, f, a, TRUE) <=> WhereFinding(f, a, TRUE)
        BY <2>3 DEF Where
      <3>2. WhereFinding(f, a, inTime) <=> WhereFinding(f, a, TRUE) /\ (f.ray # "" \/ inTime)
        BY Zenon DEF WhereFinding
      <3>3. req.route # "logs"
        BY <2>3
      <3> QED
        BY <2>1, <3>1, <3>2, <3>3, Zenon
    <2>4. CASE req.route \notin {"logs", "findings"}
      <3>1. /\ Where(req.route, f, a, inTime) <=> WhereAudit(f, a, inTime)
            /\ Where(req.route, f, a, TRUE) <=> WhereAudit(f, a, TRUE)
        BY <2>4 DEF Where
      <3>2. WhereAudit(f, a, inTime) <=> WhereAudit(f, a, TRUE) /\ (f.ray # "" \/ inTime)
        BY Zenon DEF WhereAudit
      <3>3. req.route # "logs"
        BY <2>4
      <3> QED
        BY <2>1, <3>1, <3>2, <3>3, Zenon
    <2> QED
      BY <2>2, <2>3, <2>4
  <1>2. \A r \in Row : Where(req.route, Normalize(req.route, req.filter), Attr[r.item], InWindow(r, to))
                        <=> Matches(req, r) /\ (Timeless(req) \/ InWindow(r, to))
    <2> TAKE r \in Row
    <2>1. InWindow(r, to) \in BOOLEAN
      BY DEF InWindow
    <2> QED
      BY <1>1, <2>1 DEF Matches, Matching
  <1>3. Selected(req, to) = Chosen(copies, req, to)
    BY <1>2 DEF Selected, Chosen, InWindow
  <1>4. Selected(req, to)' = Chosen(copies', req, to)
    BY <1>2 DEF Selected, Chosen, InWindow
  <1> QED
    BY <1>3, <1>4

\* The orders of the listings.
LEMMA OrderTells ==
  ASSUME NEW req \in Requests, req.route # "groups", NEW x \in Row, NEW y \in Row,
         Sorted(req, x, y), Sorted(req, y, x)
  PROVE  x.ts = y.ts /\ (req.route # "logs" => x = y)
PROOF
  <1>1. /\ req.route \in {"audit", "findings", "logs"}
        /\ x.ts \in Nat /\ y.ts \in Nat /\ x.item \in Nat /\ y.item \in Nat
        /\ x = [ts |-> x.ts, item |-> x.item] /\ y = [ts |-> y.ts, item |-> y.item]
    BY SearchAssumption DEF Route
  <1>2. x.ts = y.ts /\ x.item = y.item => x = y
    BY <1>1
  <1>3. CASE req.route = "logs"
    BY <1>1, <1>3 DEF Sorted
  <1>4. CASE req.route = "findings"
    BY <1>1, <1>2, <1>4 DEF Sorted, Before
  <1>5. CASE req.route = "audit"
    BY <1>1, <1>2, <1>5 DEF Sorted, Before
  <1> QED
    BY <1>1, <1>3, <1>4, <1>5

LEMMA OrderReflexive ==
  ASSUME NEW req \in Requests, NEW x \in Row
  PROVE  Sorted(req, x, x)
PROOF
  <1>1. x.ts \in Nat /\ x.item \in Nat
    BY SearchAssumption
  <1> QED
    BY <1>1 DEF Sorted, Before

\* A page shows the rows whose places are on it, and is empty past the last.
LEMMA RowPageShows ==
  ASSUME copies \in [Row -> 0..MaxCopies],
         NEW req \in Requests, req.route # "groups", NEW to \in Nat,
         NEW offset \in Nat, NEW limit \in Nat \ {0}, NEW page \in RowPages(req, to, offset, limit)
  PROVE  LET rows == Chosen(copies, req, to)
             n == Cardinality(Stored(copies, rows))
         IN /\ n \in Nat /\ page \in Seq({r.item : r \in rows})
            /\ req.route = "logs" => Len(page) = Least(offset + limit, n) - Least(offset, n)
            /\ page = <<>> => n <= offset
            /\ \A r \in rows :
                 /\ Place(copies, req, to, r) \in Nat /\ Place(copies, req, to, r) <= n
                 /\ ~Tied(copies, req, to, r) /\ offset < Place(copies, req, to, r) /\ Place(copies, req, to, r) <= offset + limit
                      => r.item \in ToSet(page)
PROOF
  <1> DEFINE rows == Chosen(copies, req, to)
             n == Cardinality(Stored(copies, rows))
             le == {p \in rows \X rows : Sorted(req, p[1], p[2])}
             V == {r.item : r \in rows}
  <1>1. rows \in SUBSET Row /\ \A r \in rows : copies[r] > 0
    BY DEF Chosen
  <1>2. PICK s \in Orders(rows, le) :
          page = LET cut == Cut(Unmerged(s), offset, limit) IN IF req.route = "logs" THEN cut ELSE Dedup(cut)
    BY SelectedChosen DEF RowPages
  <1>3. s \in SetToSeqs(rows) /\ Follows(s, le)
    BY <1>2 DEF Orders, Follows
  <1> DEFINE u == Unmerged(s)
             cut == Cut(u, offset, limit)
  <1> HIDE DEF rows
  <1>4. IsFiniteSet(rows)
    BY <1>1, SearchAssumption, FS_Subset
  <1>5. /\ s \in Seq(rows) /\ Len(s) \in Nat
        /\ \A x \in rows : \E k \in 1..Len(s) : s[k] = x
    BY <1>3, <1>4, ListedOnce
  <1>6. /\ u \in Seq(V) /\ Len(u) = n
        /\ \A k \in 1..Len(s) : copies[s[k]] > 0 =>
              LET p == Cardinality(Stored(copies, AmongFirst(s, k)))
              IN p \in 1..Len(u) /\ u[p] = s[k].item
    <2> HIDE DEF le
    <2> QED
      BY <1>1, <1>3, CopiesInOrder
  <1>7. n \in Nat
    BY <1>1, StoredFinite
  <1> HIDE DEF n, u, V
  <1>8. /\ cut \in Seq(V) /\ Len(cut) = Least(offset + limit, n) - Least(offset, n)
        /\ \A p \in 1..n : offset < p /\ p <= offset + limit => u[p] \in ToSet(cut)
    BY <1>6, CutShows
  <1>9. page = IF req.route = "logs" THEN cut ELSE Dedup(cut)
    BY <1>2 DEF u
  <1> HIDE DEF cut
  <1>10. page \in Seq(V) /\ ToSet(page) = ToSet(cut)
    BY <1>8, <1>9, DedupKeeps
  <1>11. ASSUME page = <<>> PROVE n <= offset
    <2>1. ToSet(cut) = {}
      BY <1>10, <1>11 DEF ToSet
    <2>2. Len(cut) \in Nat /\ DOMAIN cut = 1..Len(cut)
      BY <1>8
    <2>3. Len(cut) = 0
      <3>1. 1 \notin DOMAIN cut
        BY <2>1, Zenon DEF ToSet
      <3> QED
        BY <2>2, <3>1
    <2>4. Least(offset + limit, n) = Least(offset, n)
      BY <1>7, <1>8, <2>3 DEF Least
    <2> QED
      BY <1>7, <2>4 DEF Least
  <1>12. ASSUME NEW r \in rows
         PROVE  /\ Place(copies, req, to, r) \in Nat /\ Place(copies, req, to, r) <= n
                /\ ~Tied(copies, req, to, r) /\ offset < Place(copies, req, to, r) /\ Place(copies, req, to, r) <= offset + limit
                     => r.item \in ToSet(page)
    <2>1. Ahead(copies, req, to, r) \subseteq rows
      BY DEF Ahead, rows
    <2>2. Place(copies, req, to, r) \in Nat /\ Place(copies, req, to, r) <= n
      <3>1. Place(copies, req, to, r) \in Nat
        BY <1>1, <2>1, StoredFinite DEF Place
      <3>2. \A x \in Ahead(copies, req, to, r) : copies[x] <= copies[x]
        BY <1>1, <2>1, SearchAssumption
      <3>3. Place(copies, req, to, r) <= n
        BY <1>1, <2>1, <3>2, StoredGrows DEF Place, n
      <3> QED
        BY <3>1, <3>3
    <2>3. ASSUME ~Tied(copies, req, to, r) PROVE Place(copies, req, to, r) \in 1..n /\ u[Place(copies, req, to, r)] = r.item
      <3>1. PICK k \in 1..Len(s) : s[k] = r
        BY <1>5
      <3>2. Tells(le, s[k], rows)
        <4> SUFFICES ASSUME NEW y \in rows, Sorted(req, r, y), Sorted(req, y, r) PROVE y = r
          BY <3>1 DEF Tells
        <4>1. r \in Row /\ y \in Row
          BY <1>1
        <4>2. r.ts = y.ts /\ (req.route # "logs" => r = y)
          BY <4>1, OrderTells
        <4>3. req.route = "logs" => y = r
          BY <2>3, <4>2 DEF Tied, rows
        <4> QED
          BY <4>2, <4>3
      <3>3. AmongFirst(s, k) = UpTo(le, s[k], rows)
        <4> HIDE DEF le
        <4> QED
          BY <1>3, <1>4, <3>2, PlaceInOrder
      <3>4. UpTo(le, s[k], rows) = Ahead(copies, req, to, r)
        <4>1. Sorted(req, r, r)
          BY <1>1, OrderReflexive
        <4>2. \A y \in rows : <<y, r>> \in le <=> Sorted(req, y, r)
          OBVIOUS
        <4> HIDE DEF le
        <4> QED
          BY <3>1, <4>1, <4>2 DEF Ahead, rows, UpTo
      <3>5. Cardinality(Stored(copies, AmongFirst(s, k))) = Place(copies, req, to, r)
        BY <3>3, <3>4, Zenon DEF Place
      <3>6. copies[s[k]] > 0
        BY <1>1, <3>1
      <3> HIDE DEF le
      <3> QED
        BY <1>6, <3>1, <3>5, <3>6
    <2> QED
      BY <1>7, <1>8, <1>10, <2>2, <2>3
  <1> QED
    BY <1>7, <1>8, <1>9, <1>10, <1>11, <1>12 DEF rows, n, V

-----------------------------------------------------------------------------
(* What is due on later pages *)

LEMMA PlaceType ==
  ASSUME NEW c, NEW req, NEW to, NEW r
  PROVE  Place(c, req, to, r) \in Nat /\ Ahead(c, req, to, r) \in SUBSET Row
PROOF
  <1>1. Ahead(c, req, to, r) \in SUBSET Row
    BY DEF Ahead, Chosen
  <1> QED
    BY <1>1, StoredFinite DEF Place

\* In the beginning all is due.
LEMMA DueFirst ==
  ASSUME NEW c \in Tables, NEW req \in Requests, NEW to, NEW shown
  PROVE  Due(c, req, Chosen(c, req, to), to, shown, 0)
PROOF
  <1> SUFFICES ASSUME NEW r \in Chosen(c, req, to) PROVE 0 < Place(c, req, to, r)
    BY DEF Due
  <1> DEFINE rest == Ahead(c, req, to, r) \ {r}
  <1>1. r \in Row /\ c[r] > 0 /\ c[r] \in Nat
    BY SearchAssumption DEF Chosen, Tables
  <1>2. Ahead(c, req, to, r) = rest \cup {r}
    BY <1>1, OrderReflexive DEF Ahead
  <1>3. rest \in SUBSET Row /\ r \in Row \ rest
    BY <1>1, PlaceType
  <1> HIDE DEF rest
  <1>4. Cardinality(Stored(c, rest \cup {r})) = Cardinality(Stored(c, rest)) + c[r]
    BY <1>3, StoredAdds DEF Tables
  <1>5. Cardinality(Stored(c, rest)) \in Nat
    BY <1>3, StoredFinite
  <1>6. Place(c, req, to, r) = Cardinality(Stored(c, rest)) + c[r]
    BY <1>2, <1>4, Zenon DEF Place
  <1> QED
    BY <1>1, <1>5, <1>6

\* What is inserted makes nothing that is due come earlier.
LEMMA DueGrows ==
  ASSUME NEW c \in Tables, NEW d \in Tables, \A r \in Row : c[r] <= d[r],
         NEW req, NEW first, \A r \in first : c[r] > 0, NEW to, NEW shown, NEW offset \in Nat
  PROVE  /\ Due(c, req, first, to, shown, offset) => Due(d, req, first, to, shown, offset)
         /\ Through(c, req, first, to, shown) => Through(d, req, first, to, shown)
PROOF
  <1>1. Chosen(c, req, to) \subseteq Chosen(d, req, to)
    <2>1. \A r \in Row : c[r] \in Nat /\ d[r] \in Nat
      BY SearchAssumption DEF Tables
    <2> QED
      BY <2>1 DEF Chosen
  <1>2. first \cap Chosen(d, req, to) \subseteq first \cap Chosen(c, req, to)
    BY DEF Chosen
  <1>3. ASSUME NEW r PROVE Tied(c, req, to, r) => Tied(d, req, to, r)
    BY <1>1 DEF Tied
  <1>4. ASSUME NEW r PROVE Place(c, req, to, r) <= Place(d, req, to, r)
    <2>1. Ahead(c, req, to, r) \subseteq Ahead(d, req, to, r)
      BY <1>1 DEF Ahead
    <2>2. Ahead(c, req, to, r) \in SUBSET Row /\ Ahead(d, req, to, r) \in SUBSET Row
      BY PlaceType
    <2> QED
      BY <2>1, <2>2, StoredGrows DEF Tables, Place
  <1>5. ASSUME NEW r PROVE Place(c, req, to, r) \in Nat /\ Place(d, req, to, r) \in Nat
    BY PlaceType
  <1>6. ASSUME NEW r, offset < Place(c, req, to, r) PROVE offset < Place(d, req, to, r)
    BY <1>4, <1>5, <1>6
  <1> QED
    BY <1>2, <1>3, <1>6 DEF Due, Through

\* Nor does the window when it moves on, unless the listing begins at its start.
LEMMA DueMoves ==
  ASSUME NEW c \in Tables, NEW req \in Requests, req.route # "groups",
         NEW to \in Nat, NEW later \in Nat, to <= later,
         req.route # "logs" /\ req.asc => later = to,
         NEW first, \A r \in first : r \in Row /\ (Timeless(req) \/ r.ts <= to),
         NEW shown, NEW offset \in Nat, Due(c, req, first, to, shown, offset)
  PROVE  Due(c, req, first, later, shown, offset)
PROOF
  <1> SUFFICES ASSUME to # later PROVE Due(c, req, first, later, shown, offset)
    OBVIOUS
  <1>1. /\ \A r \in Row : r.ts \in Nat
        /\ Window \in Nat
        /\ req.route \in {"audit", "findings", "logs"} /\ (req.asc => req.route = "logs")
        /\ req.asc \in BOOLEAN
    BY SearchAssumption DEF Route
  <1>2. ASSUME NEW x \in Row, NEW r \in Row, Sorted(req, x, r) PROVE x.ts >= r.ts
    BY <1>1, <1>2 DEF Sorted, Before
  <1>3. ASSUME NEW r \in first \cap Chosen(c, req, later) PROVE r \in Chosen(c, req, to)
    BY <1>1 DEF Chosen, InWindow
  <1>4. ASSUME NEW r \in Chosen(c, req, later), NEW x \in Chosen(c, req, to), x.ts >= r.ts
        PROVE  x \in Chosen(c, req, later)
    <2>1. CASE Timeless(req)
      BY <2>1 DEF Chosen
    <2>2. CASE ~Timeless(req)
      <3>1. x \in Row /\ r \in Row /\ x.ts <= to /\ r.ts + Window >= later
        BY <2>2 DEF Chosen, InWindow
      <3>2. x.ts \in Nat /\ r.ts \in Nat
        BY <1>1, <3>1
      <3>3. InWindow(x, later)
        BY <1>1, <1>4, <3>1, <3>2 DEF InWindow
      <3> QED
        BY <3>3 DEF Chosen
    <2> QED
      BY <2>1, <2>2
  <1>5. ASSUME NEW r \in first \cap Chosen(c, req, later)
        PROVE  /\ Tied(c, req, to, r) => Tied(c, req, later, r)
               /\ Place(c, req, to, r) <= Place(c, req, later, r)
    <2>1. r \in Row /\ r \in Chosen(c, req, later) /\ \A x \in Chosen(c, req, to) : x \in Row
      BY DEF Chosen
    <2>2. Tied(c, req, to, r) => Tied(c, req, later, r)
      <3> SUFFICES ASSUME NEW x \in Chosen(c, req, to), x.ts = r.ts PROVE x \in Chosen(c, req, later)
        BY DEF Tied
      <3>1. x.ts >= r.ts
        BY <1>1, <2>1
      <3> QED
        BY <1>4, <2>1, <3>1
    <2>3. Ahead(c, req, to, r) \subseteq Ahead(c, req, later, r)
      BY <1>2, <1>4, <2>1 DEF Ahead
    <2>4. Ahead(c, req, to, r) \in SUBSET Row /\ Ahead(c, req, later, r) \in SUBSET Row
      BY PlaceType
    <2>5. \A x \in Row : c[x] <= c[x]
      BY SearchAssumption DEF Tables
    <2>6. Place(c, req, to, r) <= Place(c, req, later, r)
      BY <2>3, <2>4, <2>5, StoredGrows DEF Tables, Place
    <2> QED
      BY <2>2, <2>6
  <1>6. ASSUME NEW r PROVE Place(c, req, to, r) \in Nat /\ Place(c, req, later, r) \in Nat
    BY PlaceType
  <1>7. ASSUME NEW r \in first \cap Chosen(c, req, later), offset < Place(c, req, to, r)
        PROVE  offset < Place(c, req, later, r)
    BY <1>5, <1>6, <1>7
  <1> QED
    BY <1>3, <1>5, <1>7 DEF Due

\* A page shows what is due before the next one.
LEMMA DuePage ==
  ASSUME copies \in Tables,
         NEW req \in Requests, req.route # "groups", NEW to \in Nat,
         NEW offset \in Nat, NEW limit \in Nat \ {0}, NEW page \in RowPages(req, to, offset, limit),
         NEW first, NEW shown, Due(copies, req, first, to, shown, offset)
  PROVE  /\ Due(copies, req, first, to, shown \cup ToSet(page), offset + limit)
         /\ page = <<>> => Through(copies, req, first, to, shown)
PROOF
  <1> DEFINE rows == Chosen(copies, req, to)
             n == Cardinality(Stored(copies, rows))
  <1>1. /\ n \in Nat
        /\ page = <<>> => n <= offset
        /\ \A r \in rows :
             /\ Place(copies, req, to, r) \in Nat /\ Place(copies, req, to, r) <= n
             /\ ~Tied(copies, req, to, r) /\ offset < Place(copies, req, to, r)
                  /\ Place(copies, req, to, r) <= offset + limit
                  => r.item \in ToSet(page)
    BY RowPageShows DEF Tables
  <1> HIDE DEF n
  <1>2. ASSUME NEW r \in first \cap rows
        PROVE  \/ Tied(copies, req, to, r) \/ r.item \in shown \cup ToSet(page)
               \/ offset + limit < Place(copies, req, to, r)
    <2>1. Tied(copies, req, to, r) \/ r.item \in shown \/ offset < Place(copies, req, to, r)
      BY DEF Due
    <2>2. Place(copies, req, to, r) \in Nat /\ offset + limit \in Nat
      BY <1>1
    <2>3. \/ Place(copies, req, to, r) <= offset + limit
          \/ offset + limit < Place(copies, req, to, r)
      BY <2>2
    <2> HIDE DEF rows
    <2> QED
      BY <1>1, <2>1, <2>3
  <1>3. ASSUME page = <<>>, NEW r \in first \cap rows
        PROVE  Tied(copies, req, to, r) \/ r.item \in shown
    <2>1. Tied(copies, req, to, r) \/ r.item \in shown \/ offset < Place(copies, req, to, r)
      BY DEF Due
    <2>2. n <= offset /\ Place(copies, req, to, r) \in Nat /\ Place(copies, req, to, r) <= n
      BY <1>1, <1>3
    <2>3. ~(offset < Place(copies, req, to, r))
      BY <1>1, <2>2
    <2> QED
      BY <2>1, <2>3
  <1> QED
    BY <1>2, <1>3 DEF Due, Through

-----------------------------------------------------------------------------
(* The groups of rows *)

\* The dimensions of a listing of groups are known ones.
LEMMA DimensionsKnown ==
  ASSUME NEW T, NEW raw \in Seq(T)
  PROVE  ParseGroupBy(raw) \in Seq(Dim)
PROOF
  <1> DEFINE n == Len(raw)
             X == Seq(Dim)
             add(x, d) == IF Len(x) < MaxGroupBy /\ (d \in Dim /\ ~Contains(x, d)) THEN Append(x, d) ELSE x
             step == [p \in (1..n) \X X |-> add(p[2], raw[p[1]])]
             IsIter(g) == g = [t \in SUBSET (1..n) |->
                                 IF t = {} THEN <<>> ELSE add(g[t \ {Max(t)}], raw[Max(t)])]
             iter == CHOOSE g : IsIter(g)
  <1>1. n \in Nat /\ DOMAIN raw = 1..n /\ <<>> \in X
    OBVIOUS
  <1>2. ParseGroupBy(raw) = iter[1..n]
    BY <1>1 DEF ParseGroupBy, Taken, FoldLeft, MapThenFoldSet
  <1> HIDE DEF n
  <1>3. ASSUME NEW x \in X, NEW d PROVE add(x, d) \in X
    OBVIOUS
  <1> HIDE DEF add, X
  <1>4. step \in [(1..n) \X X -> X]
    BY <1>3
  <1>5. \A k \in 1..n, x \in X : step[<<k, x>>] = add(x, raw[k])
    OBVIOUS
  <1> HIDE DEF step
  <1>6. PICK h \in [SUBSET (1..n) -> X] : IsFoldLeft(h, n, <<>>, step)
    BY <1>1, <1>4, FoldLeftExists
  <1>7. ASSUME NEW t \in SUBSET (1..n)
        PROVE  h[t] = IF t = {} THEN <<>> ELSE add(h[t \ {Max(t)}], raw[Max(t)])
    <2>1. h[t] = IF t = {} THEN <<>> ELSE step[<<Max(t), h[t \ {Max(t)}]>>]
      BY <1>6 DEF IsFoldLeft
    <2>2. t # {} => Max(t) \in 1..n
      BY <1>1, MaxInRange
    <2>3. h[t \ {Max(t)}] \in X
      BY <1>6
    <2> QED
      BY <1>5, <2>1, <2>2, <2>3
  <1>8. IsIter(h)
    BY <1>6, <1>7
  <1>9. IsIter(iter)
    <2> HIDE DEF IsIter
    <2> QED
      BY <1>8
  <1> HIDE DEF iter
  <1>10. IsFoldIn(iter, n, X, <<>>, step)
    <2>1. ASSUME NEW t \in SUBSET (1..n), t # {}, iter[t \ {Max(t)}] \in X
          PROVE  iter[t] = step[<<Max(t), iter[t \ {Max(t)}]>>]
      <3>1. Max(t) \in 1..n
        BY <1>1, <2>1, MaxInRange
      <3>2. iter[t] = add(iter[t \ {Max(t)}], raw[Max(t)])
        BY <1>9, <2>1
      <3> QED
        BY <1>5, <2>1, <3>1, <3>2
    <2> QED
      BY <1>9, <2>1 DEF IsFoldIn
  <1> HIDE DEF IsIter
  <1>11. iter[1..n] \in X
    <2>1. \A k \in 0..n : iter[1..k] \in X
      BY <1>1, <1>4, <1>10, FoldLeftValues
    <2> QED
      BY <1>1, <2>1
  <1> QED
    BY <1>2, <1>11 DEF X

\* A row is in finitely many groups.
LEMMA GroupsOfFinite ==
  ASSUME NEW i \in Item, NEW by \in Seq(Dim)
  PROVE  IsFiniteSet(GroupsOf(Attr[i], by))
PROOF
  <1> DEFINE a == Attr[i]
             n == Len(by)
             V == UNION {ValuesOf(a, d) : d \in Dim}
             G == UNION {[D -> V] : D \in SUBSET Dim}
             X == {gs \in SUBSET G : IsFiniteSet(gs)}
             add(gs, d) == UNION {{With(g, d, v) : v \in ValuesOf(a, d)} : g \in gs}
             step == [p \in (1..n) \X X |-> add(p[2], by[p[1]])]
             IsIter(h) == h = [t \in SUBSET (1..n) |->
                                 IF t = {} THEN {<<>>} ELSE add(h[t \ {Max(t)}], by[Max(t)])]
             iter == CHOOSE h : IsIter(h)
  <1>1. n \in Nat /\ DOMAIN by = 1..n /\ \A k \in 1..n : by[k] \in Dim
    OBVIOUS
  <1>2. GroupsOf(a, by) = iter[1..n]
    BY <1>1 DEF GroupsOf, FoldLeft, MapThenFoldSet
  <1>3. ASSUME NEW d \in Dim PROVE IsFiniteSet(ValuesOf(a, d))
    <2>1. IsFiniteSet(a.markers) /\ IsFiniteSet(a.sessions)
      BY SearchAssumption
    <2>2. IsFiniteSet({a[d]})
      BY FS_Singleton
    <2>3. IsFiniteSet({UserKey(s) : s \in {s \in a.sessions : s.user # <<>>}})
      <3> DEFINE S == {s \in a.sessions : s.user # <<>>}
                 f == [s \in S |-> UserKey(s)]
      <3>1. IsFiniteSet(S)
        BY <2>1, FS_Subset
      <3>2. DOMAIN f = S /\ {f[s] : s \in S} = {UserKey(s) : s \in S}
        OBVIOUS
      <3> HIDE DEF f, S
      <3>3. IsFiniteSet({f[s] : s \in S})
        BY <3>1, <3>2, ImageFinite
      <3> QED
        BY <3>2, <3>3 DEF S
    <2> HIDE DEF a
    <2> QED
      BY <2>1, <2>2, <2>3 DEF ValuesOf
  <1>4. {<<>>} \in X
    <2>1. <<>> \in [{} -> V] /\ {} \in SUBSET Dim
      OBVIOUS
    <2>2. {<<>>} \in SUBSET G
      BY <2>1
    <2> QED
      BY <2>2, FS_Singleton
  <1> HIDE DEF a
  <1>5. ASSUME NEW gs \in X, NEW d \in Dim PROVE add(gs, d) \in X
    <2> DEFINE vs == ValuesOf(a, d)
               part == [g \in gs |-> {With(g, d, v) : v \in vs}]
    <2>1. ASSUME NEW g \in gs PROVE part[g] \in SUBSET G /\ IsFiniteSet(part[g])
      <3> DEFINE f == [v \in vs |-> With(g, d, v)]
      <3>1. PICK D \in SUBSET Dim : g \in [D -> V]
        OBVIOUS
      <3>2. vs \in SUBSET V
        OBVIOUS
      <3>3. part[g] = {f[v] : v \in vs} /\ DOMAIN f = vs
        OBVIOUS
      <3> HIDE DEF V, vs
      <3>4. \A v \in vs : f[v] \in [D \cup {d} -> V]
        BY <3>1, <3>2 DEF With
      <3> HIDE DEF f, part
      <3>5. IsFiniteSet(part[g])
        BY <1>3, <3>3, ImageFinite DEF vs
      <3>6. part[g] \in SUBSET G
        BY <3>3, <3>4
      <3> QED
        BY <3>5, <3>6
    <2>2. add(gs, d) = UNION {part[g] : g \in gs} /\ DOMAIN part = gs
      OBVIOUS
    <2> HIDE DEF part, G, add
    <2>3. IsFiniteSet({part[g] : g \in gs})
      BY <2>2, ImageFinite
    <2>4. IsFiniteSet(UNION {part[g] : g \in gs})
      BY <2>1, <2>3, FS_UNION
    <2>5. UNION {part[g] : g \in gs} \in SUBSET G
      BY <2>1
    <2> QED
      BY <2>2, <2>4, <2>5
  <1> HIDE DEF n, add, X
  <1>6. step \in [(1..n) \X X -> X]
    BY <1>1, <1>5
  <1>7. \A k \in 1..n, x \in X : step[<<k, x>>] = add(x, by[k])
    OBVIOUS
  <1> HIDE DEF step
  <1>8. PICK h \in [SUBSET (1..n) -> X] : IsFoldLeft(h, n, {<<>>}, step)
    BY <1>1, <1>4, <1>6, FoldLeftExists
  <1>9. ASSUME NEW t \in SUBSET (1..n)
        PROVE  h[t] = IF t = {} THEN {<<>>} ELSE add(h[t \ {Max(t)}], by[Max(t)])
    <2>1. h[t] = IF t = {} THEN {<<>>} ELSE step[<<Max(t), h[t \ {Max(t)}]>>]
      BY <1>8 DEF IsFoldLeft
    <2>2. t # {} => Max(t) \in 1..n
      BY <1>1, MaxInRange
    <2>3. h[t \ {Max(t)}] \in X
      BY <1>8
    <2> QED
      BY <1>7, <2>1, <2>2, <2>3
  <1>10. IsIter(h)
    BY <1>8, <1>9
  <1>11. IsIter(iter)
    <2> HIDE DEF IsIter
    <2> QED
      BY <1>10
  <1> HIDE DEF iter
  <1>12. IsFoldIn(iter, n, X, {<<>>}, step)
    <2>1. ASSUME NEW t \in SUBSET (1..n), t # {}, iter[t \ {Max(t)}] \in X
          PROVE  iter[t] = step[<<Max(t), iter[t \ {Max(t)}]>>]
      <3>1. Max(t) \in 1..n
        BY <1>1, <2>1, MaxInRange
      <3>2. iter[t] = add(iter[t \ {Max(t)}], by[Max(t)])
        BY <1>11, <2>1
      <3> QED
        BY <1>7, <2>1, <3>1, <3>2
    <2> QED
      BY <1>11, <2>1 DEF IsFoldIn
  <1> HIDE DEF IsIter
  <1>13. iter[1..n] \in X
    <2>1. \A k \in 0..n : iter[1..k] \in X
      BY <1>1, <1>4, <1>6, <1>12, FoldLeftValues
    <2> QED
      BY <1>1, <2>1
  <1> QED
    BY <1>2, <1>13 DEF X, a

\* So finitely many rows have finitely many groups.
LEMMA GroupsFinite ==
  ASSUME NEW req, ParseGroupBy(req.by) \in Seq(Dim), NEW rows \in SUBSET Row
  PROVE  IsFiniteSet(GroupsIn(req, rows)) /\ Cardinality(GroupsIn(req, rows)) \in Nat
PROOF
  <1> DEFINE of == [r \in rows |-> GroupsOf(Attr[r.item], ParseGroupBy(req.by))]
             all == {of[r] : r \in rows}
             f == [g \in UNION all |-> GroupAt(g, req, rows)]
  <1>1. IsFiniteSet(rows)
    BY SearchAssumption, FS_Subset
  <1>2. \A r \in rows : IsFiniteSet(of[r])
    BY GroupsOfFinite DEF Item
  <1>3. DOMAIN of = rows
    OBVIOUS
  <1>4. UNION all = UNION {GroupsOf(Attr[r.item], ParseGroupBy(req.by)) : r \in rows}
    OBVIOUS
  <1> HIDE DEF of
  <1>5. IsFiniteSet(all)
    BY <1>1, <1>3, ImageFinite
  <1>6. \A gs \in all : IsFiniteSet(gs)
    BY <1>2
  <1> HIDE DEF all
  <1>7. IsFiniteSet(UNION all)
    BY <1>5, <1>6, FS_UNION
  <1>8. DOMAIN f = UNION all /\ GroupsIn(req, rows) = {f[g] : g \in UNION all}
    BY <1>4 DEF GroupsIn
  <1> HIDE DEF f
  <1>9. IsFiniteSet(GroupsIn(req, rows))
    BY <1>7, <1>8, ImageFinite
  <1> QED
    BY <1>9, FS_CardinalityType

-----------------------------------------------------------------------------
(* The pages of groups *)

LEMMA GroupedFinite ==
  ASSUME NEW c, NEW req \in Requests, NEW to
  PROVE  IsFiniteSet(Grouped(c, req, to)) /\ Cardinality(Grouped(c, req, to)) \in Nat
PROOF
  <1>1. Chosen(c, req, to) \in SUBSET Row
    BY DEF Chosen
  <1>2. ParseGroupBy(req.by) \in Seq(Dim)
    BY SearchAssumption, DimensionsKnown
  <1> QED
    BY <1>1, <1>2, GroupsFinite DEF Grouped

LEMMA RankType ==
  ASSUME NEW c, NEW req \in Requests, NEW to, NEW g \in Grouped(c, req, to)
  PROVE  Rank(c, req, to, g) \in 1..Cardinality(Grouped(c, req, to))
PROOF
  <1> DEFINE G == Grouped(c, req, to)
             U == UpToGroup(req, G, g)
  <1>1. IsFiniteSet(G) /\ Cardinality(G) \in Nat
    BY GroupedFinite
  <1>2. U \subseteq G /\ g \in U
    BY DEF UpToGroup
  <1> HIDE DEF U, G
  <1>3. IsFiniteSet(U) /\ Cardinality(U) \in Nat /\ Cardinality(U) <= Cardinality(G)
    BY <1>1, <1>2, FS_Subset, FS_CardinalityType
  <1>4. Cardinality(U) # 0
    BY <1>2, <1>3, FS_EmptySet
  <1> QED
    BY <1>1, <1>3, <1>4 DEF U, G, Rank

\* A page of groups shows those whose places are on it.
LEMMA GroupPageShows ==
  ASSUME NEW req \in Requests, NEW to \in Nat,
         NEW offset \in Nat, NEW limit \in Nat \ {0}, NEW page \in GroupPages(req, to, offset, limit)
  PROVE  LET groups == Grouped(copies, req, to)
             n == Cardinality(groups)
         IN /\ page \in Seq(groups)
            /\ Len(page) = Least(offset + limit, n) - Least(offset, n)
            /\ Ranked(req, groups) =>
                 \A g \in groups :
                   offset < Rank(copies, req, to, g) /\ Rank(copies, req, to, g) <= offset + limit
                     => g \in ToSet(page)
PROOF
  <1> DEFINE groups == Grouped(copies, req, to)
             n == Cardinality(groups)
             le == {p \in groups \X groups : GroupBefore(req, p[1], p[2])}
  <1>1. PICK s \in Orders(groups, le) : page = Cut(s, offset, limit)
    BY SelectedChosen DEF GroupPages, GroupsAt, Grouped
  <1>2. s \in SetToSeqs(groups) /\ Follows(s, le)
    BY <1>1 DEF Orders, Follows
  <1>3. IsFiniteSet(groups) /\ n \in Nat
    BY GroupedFinite
  <1>4. \A g, h \in groups : <<g, h>> \in le <=> GroupBefore(req, g, h)
    OBVIOUS
  <1> HIDE DEF groups, le
  <1>5. /\ s \in Seq(groups) /\ Len(s) = n
        /\ \A x \in groups : \E k \in 1..Len(s) : s[k] = x
    BY <1>2, <1>3, ListedOnce
  <1>6. /\ page \in Seq(groups) /\ Len(page) = Least(offset + limit, n) - Least(offset, n)
        /\ \A p \in 1..n : offset < p /\ p <= offset + limit => s[p] \in ToSet(page)
    BY <1>1, <1>5, CutShows
  <1>7. ASSUME Ranked(req, groups), NEW g \in groups
        PROVE  Rank(copies, req, to, g) \in 1..n /\ s[Rank(copies, req, to, g)] = g
    <2>1. PICK k \in 1..Len(s) : s[k] = g
      BY <1>5
    <2>2. Tells(le, s[k], groups)
      BY <1>4, <1>7, <2>1 DEF Tells, Ranked
    <2>3. AmongFirst(s, k) = UpTo(le, s[k], groups) /\ Cardinality(AmongFirst(s, k)) = k
      BY <1>2, <1>3, <2>2, PlaceInOrder
    <2>4. UpTo(le, s[k], groups) = UpToGroup(req, groups, g)
      BY <1>4, <2>1 DEF UpTo, UpToGroup
    <2>5. Rank(copies, req, to, g) = k
      BY <2>3, <2>4, Zenon DEF Rank, groups
    <2> QED
      BY <1>5, <2>1, <2>5
  <1> QED
    BY <1>3, <1>6, <1>7 DEF groups

\* In the beginning all groups are due; a page shows what is due before the next.
LEMMA GroupsDueFirst ==
  ASSUME NEW c, NEW req \in Requests, NEW to, NEW shown
  PROVE  GroupsDue(c, req, to, shown, 0)
PROOF
  <1>1. Cardinality(Grouped(c, req, to)) \in Nat
    BY GroupedFinite
  <1> QED
    BY <1>1, RankType DEF GroupsDue

LEMMA GroupsDuePage ==
  ASSUME NEW req \in Requests, NEW to \in Nat,
         NEW offset \in Nat, NEW limit \in Nat \ {0}, NEW page \in GroupPages(req, to, offset, limit),
         NEW shown, GroupsDue(copies, req, to, shown, offset)
  PROVE  GroupsDue(copies, req, to, shown \cup ToSet(page), offset + limit)
PROOF
  <1> DEFINE groups == Grouped(copies, req, to)
  <1>1. Cardinality(groups) \in Nat
    BY GroupedFinite
  <1> SUFFICES ASSUME Ranked(req, groups), NEW g \in groups
               PROVE  g \in shown \cup ToSet(page) \/ offset + limit < Rank(copies, req, to, g)
    BY DEF GroupsDue
  <1>2. Rank(copies, req, to, g) \in Nat
    BY <1>1, RankType
  <1>3. g \in shown \/ offset < Rank(copies, req, to, g)
    BY DEF GroupsDue
  <1>4. offset < Rank(copies, req, to, g) /\ Rank(copies, req, to, g) <= offset + limit => g \in ToSet(page)
    BY GroupPageShows
  <1> HIDE DEF groups
  <1> QED
    BY <1>2, <1>3, <1>4

\* An empty page is past all groups.
LEMMA GroupsDueEnd ==
  ASSUME NEW c, NEW req \in Requests, NEW to, NEW shown, NEW offset \in Nat,
         GroupsDue(c, req, to, shown, offset), Cardinality(Grouped(c, req, to)) <= offset
  PROVE  GroupsThrough(c, req, to, shown)
PROOF
  <1>1. Cardinality(Grouped(c, req, to)) \in Nat
    BY GroupedFinite
  <1> SUFFICES ASSUME Ranked(req, Grouped(c, req, to)), NEW g \in Grouped(c, req, to)
               PROVE  g \in shown
    BY DEF GroupsThrough
  <1>2. Rank(c, req, to, g) \in Nat /\ Rank(c, req, to, g) <= offset
    BY <1>1, RankType
  <1>3. g \in shown \/ offset < Rank(c, req, to, g)
    BY DEF GroupsDue
  <1> QED
    BY <1>2, <1>3

-----------------------------------------------------------------------------
(* How far a listing is shown *)

\* What Count counts.
LEMMA CountOfIn ==
  ASSUME copies \in Tables, NEW req \in Requests, NEW to
  PROVE  CountOf(req, to) = CountIn(copies, req, to)
PROOF
  <1>1. Selected(req, to) = Chosen(copies, req, to) /\ Chosen(copies, req, to) \in SUBSET Row
    BY SelectedChosen DEF Chosen
  <1>2. Copies(req, to) = Cardinality(Stored(copies, Chosen(copies, req, to)))
    BY <1>1, SumOfCopies DEF Copies, Tables
  <1>3. GroupsAt(req, to) = Grouped(copies, req, to)
    BY <1>1 DEF GroupsAt, Grouped
  <1> QED
    BY <1>1, <1>2, <1>3 DEF CountOf, CountIn

LEMMA CountInType ==
  ASSUME NEW c, NEW req \in Requests, NEW to
  PROVE  CountIn(c, req, to) \in Nat
PROOF
  <1>1. Chosen(c, req, to) \in SUBSET Row
    BY DEF Chosen
  <1>2. IsFiniteSet(Chosen(c, req, to))
    BY <1>1, SearchAssumption, FS_Subset
  <1>3. Cardinality(Chosen(c, req, to)) \in Nat
    BY <1>2, FS_CardinalityType
  <1>4. Cardinality(Stored(c, Chosen(c, req, to))) \in Nat
    BY <1>1, StoredFinite
  <1>5. Cardinality(Grouped(c, req, to)) \in Nat
    BY GroupedFinite
  <1> QED
    BY <1>3, <1>4, <1>5 DEF CountIn

LEMMA ShownFirst ==
  ASSUME NEW c, NEW req \in Requests, NEW to
  PROVE  ShownUpTo(c, req, to, {}, 0, 0)
PROOF
  BY CountInType, GroupsDueFirst DEF ShownUpTo, Least

\* The next page goes on where the last ended.
LEMMA ShownPage ==
  ASSUME copies \in Tables, NEW req \in Requests, NEW to \in Nat,
         NEW offset \in Nat, NEW limit \in Nat \ {0}, NEW page \in Pages(req, to, offset, limit),
         NEW shown, NEW lines, ShownUpTo(copies, req, to, shown, lines, offset)
  PROVE  PageFits(copies, req, to, shown, lines, offset, limit, page)
PROOF
  <1> DEFINE n == CountIn(copies, req, to)
  <1>1. n \in Nat /\ req.route \in Route
    BY CountInType, SearchAssumption
  <1>2. CASE req.route = "groups"
    <2>1. page \in GroupPages(req, to, offset, limit)
      BY <1>2 DEF Pages
    <2>2. n = Cardinality(Grouped(copies, req, to))
      BY <1>2 DEF CountIn
    <2>3. Len(page) = Least(offset + limit, n) - Least(offset, n)
      BY <2>1, <2>2, GroupPageShows
    <2>4. GroupsDue(copies, req, to, shown \cup ToSet(page), offset + limit)
      BY <1>2, <2>1, GroupsDuePage DEF ShownUpTo
    <2>5. lines = Least(offset, n)
      BY <1>2 DEF ShownUpTo
    <2> HIDE DEF n
    <2>6. lines + Len(page) = Least(offset + limit, n) /\ (Len(page) = 0 => n <= offset)
      BY <1>1, <2>3, <2>5 DEF Least
    <2> QED
      BY <1>2, <2>4, <2>6 DEF PageFits, ShownUpTo, n
  <1>3. CASE req.route # "groups"
    <2>1. page \in RowPages(req, to, offset, limit)
      BY <1>3 DEF Pages
    <2> DEFINE rows == Chosen(copies, req, to)
               m == Cardinality(Stored(copies, rows))
    <2>2. /\ page \in Seq(ItemsOf(rows))
          /\ req.route = "logs" => Len(page) = Least(offset + limit, m) - Least(offset, m)
          /\ page = <<>> => m <= offset
      BY <1>3, <2>1, RowPageShows DEF Tables, ItemsOf
    <2>3. req.route = "logs" => n = m
      BY DEF CountIn
    <2>4. CASE req.route = "logs"
      <3>1. lines = Least(offset, n)
        BY <2>4 DEF ShownUpTo
      <3> HIDE DEF n
      <3>2. lines + Len(page) = Least(offset + limit, n)
        BY <1>1, <2>2, <2>3, <2>4, <3>1 DEF Least
      <3> QED
        BY <2>2, <2>3, <2>4, <3>2 DEF PageFits, ShownUpTo, n
    <2>5. CASE req.route \in {"audit", "findings"}
      <3>1. ToSet(page) \subseteq ItemsOf(rows)
        BY <2>2 DEF ToSet
      <3> QED
        BY <2>5, <3>1 DEF PageFits, ShownUpTo
    <2> QED
      BY <1>1, <1>3, <2>4, <2>5 DEF Route
  <1> QED
    BY <1>2, <1>3

-----------------------------------------------------------------------------
(* The rows that were there first *)

\* A listing begins.
LEMMA RowsInvBegin ==
  ASSUME copies \in Tables, now \in Nat, NEW req \in Requests, pager = NewPager(req), query = NoQuery
  PROVE  RowsInv
PROOF
  <1>1. NormalLimit(req.limit) \in Nat \ {0} /\ At(req) \in {"asking", "refused"}
    BY SearchAssumption DEF NormalLimit, At
  <1>2. /\ pager.req = req /\ pager.limit = NormalLimit(req.limit) /\ pager.offset = 0
        /\ pager.first = {} /\ pager.since = {} /\ pager.shown = {} /\ pager.at = At(req)
        /\ DOMAIN pager = {"req", "limit", "offset", "first", "since", "shown", "lines", "at"}
    BY DEF NewPager
  <1>3. query.to = 0 /\ DOMAIN query = {"list", "count", "to", "page", "total", "gone"}
    BY DEF NoQuery
  <1>4. TypeOK
    BY <1>1, <1>2, <1>3 DEF TypeOK
  <1>5. FirstThere /\ WindowKept
    BY <1>1, <1>2 DEF FirstThere, WindowKept, WindowEnd
  <1>6. RowsListed
    BY <1>1, <1>2 DEF RowsListed, Due
  <1> QED
    BY <1>4, <1>5, <1>6 DEF RowsInv

LEMMA RowsInvInit == Init => RowsInv
PROOF
  <1> SUFFICES ASSUME Init PROVE RowsInv
    OBVIOUS
  <1>1. copies \in Tables /\ now \in Nat
    BY SearchAssumption DEF Init, Tables
  <1>2. PICK req \in Requests : pager = NewPager(req)
    BY DEF Init
  <1> QED
    BY <1>1, <1>2, RowsInvBegin DEF Init

\* The queries fail, are cancelled or count, and the reader leaves.
LEMMA RowsInvQueries ==
  ASSUME RowsInv, UNCHANGED <<copies, now, pager>>,
         DOMAIN query' = DOMAIN query, query'.to = query.to,
         query'.list = "ok" => query.list = "ok" /\ query'.page = query.page
  PROVE  RowsInv'
PROOF
  <1>1. WindowEnd' = WindowEnd /\ (Steady' <=> Steady)
    BY DEF WindowEnd, Steady
  <1>2. TypeOK'
    BY DEF RowsInv, TypeOK
  <1>3. FirstThere' /\ WindowKept'
    BY <1>1 DEF RowsInv, FirstThere, WindowKept
  <1>4. RowsListed'
    BY <1>1 DEF RowsInv, RowsListed
  <1> QED
    BY <1>2, <1>3, <1>4 DEF RowsInv

LEMMA RowsInvCounts ==
  ASSUME RowsInv,
         \/ ListFails \/ ListCancelled \/ Leave
         \/ CountStarts \/ CountReturns \/ CountFails \/ CountCancelled
  PROVE  RowsInv'
PROOF
  <1>0. DOMAIN query = {"list", "count", "to", "page", "total", "gone"}
    BY DEF RowsInv, TypeOK
  <1>1. UNCHANGED <<copies, now, pager>>
    BY DEF ListFails, ListCancelled, Leave, CountStarts, CountReturns, CountFails, CountCancelled
  <1>2. /\ DOMAIN query' = DOMAIN query /\ query'.to = query.to
        /\ query'.list = "ok" => query.list = "ok" /\ query'.page = query.page
    BY <1>0 DEF ListFails, ListCancelled, Leave, CountStarts, CountReturns, CountFails, CountCancelled
  <1> QED
    BY <1>1, <1>2, RowsInvQueries

LEMMA RowsInvList == RowsInv /\ ListReturns => RowsInv'
PROOF
  <1> SUFFICES ASSUME RowsInv, ListReturns PROVE RowsInv'
    OBVIOUS
  <1>1. PICK page \in Pages(pager.req, query.to, pager.offset, pager.limit) :
          query' = [query EXCEPT !.list = "ok", !.page = page,
                                 !.total = IF pager.req.route = "groups" /\ page # <<>>
                                           THEN CountOf(pager.req, query.to) ELSE @]
    BY DEF ListReturns
  <1>2. UNCHANGED <<copies, now, pager>> /\ pager.at = "waiting"
    BY DEF ListReturns, Waiting
  <1>3. /\ DOMAIN query' = DOMAIN query /\ query'.to = query.to
        /\ query'.list = "ok" /\ query'.page = page
    BY <1>1 DEF RowsInv, TypeOK
  <1>4. WindowEnd' = WindowEnd /\ (Steady' <=> Steady) /\ WindowEnd = query.to
    BY <1>2, <1>3 DEF WindowEnd, Steady
  <1>5. TypeOK' /\ FirstThere' /\ WindowKept'
    BY <1>2, <1>3, <1>4 DEF RowsInv, TypeOK, FirstThere, WindowKept
  <1>6. ASSUME Steady
        PROVE  /\ Due(copies, pager.req, pager.first, query.to, pager.shown \cup ToSet(page),
                      pager.offset + pager.limit)
               /\ page = <<>> => Through(copies, pager.req, pager.first, query.to, pager.shown)
    <2>1. pager.req.route # "groups" /\ page \in RowPages(pager.req, query.to, pager.offset, pager.limit)
      BY <1>1, <1>6 DEF Pages, Steady
    <2>2. Due(copies, pager.req, pager.first, query.to, pager.shown, pager.offset)
      BY <1>2, <1>4, <1>6 DEF RowsInv, RowsListed
    <2>3. /\ copies \in Tables /\ pager.req \in Requests /\ query.to \in Nat
          /\ pager.offset \in Nat /\ pager.limit \in Nat \ {0}
      BY DEF RowsInv, TypeOK
    <2> QED
      BY <2>1, <2>2, <2>3, DuePage
  <1>7. RowsListed'
    BY <1>2, <1>3, <1>4, <1>6 DEF RowsInv, RowsListed
  <1> QED
    BY <1>5, <1>7 DEF RowsInv

LEMMA RowsInvAsk == RowsInv /\ Ask => RowsInv'
PROOF
  <1> SUFFICES ASSUME RowsInv, Ask PROVE RowsInv'
    OBVIOUS
  <1> DEFINE first == IF pager.offset = 0 THEN Selected(pager.req, now) ELSE pager.first
  <1>1. /\ UNCHANGED <<copies, now>> /\ pager.at = "asking"
        /\ pager'.at = "waiting" /\ pager'.req = pager.req /\ pager'.limit = pager.limit
        /\ pager'.offset = pager.offset /\ pager'.shown = pager.shown
        /\ pager'.first = first
        /\ pager'.since = IF pager.offset = 0 THEN {} ELSE pager.since
        /\ DOMAIN pager' = DOMAIN pager
    BY DEF RowsInv, TypeOK, Ask
  <1>2. /\ query'.to = now /\ query'.list = "running"
        /\ DOMAIN query' = {"list", "count", "to", "page", "total", "gone"}
    BY DEF Ask
  <1>3. WindowEnd = now /\ WindowEnd' = now
    BY <1>1, <1>2 DEF WindowEnd
  <1>4. /\ copies \in Tables /\ pager.req \in Requests /\ now \in Nat
        /\ pager.offset \in Nat /\ pager.limit \in Nat \ {0}
    BY DEF RowsInv, TypeOK
  <1>5. TypeOK'
    BY <1>1, <1>2, <1>4 DEF RowsInv, TypeOK
  <1>6. WindowKept'
    BY <1>1, <1>3, <1>4 DEF WindowKept
  <1>7. CASE pager.offset = 0
    <2>1. pager'.first = Chosen(copies, pager.req, now)
      BY <1>1, <1>4, <1>7, SelectedChosen
    <2>2. FirstThere'
      BY <1>1, <1>3, <2>1 DEF FirstThere, Chosen, InWindow
    <2>3. Due(copies, pager.req, Chosen(copies, pager.req, now), now, pager.shown, 0)
      BY <1>4, DueFirst
    <2>4. RowsListed'
      BY <1>1, <1>2, <1>3, <1>7, <2>1, <2>3 DEF RowsListed
    <2> QED
      BY <1>5, <1>6, <2>2, <2>4 DEF RowsInv
  <1>8. CASE pager.offset # 0
    <2>1. pager'.first = pager.first /\ pager'.since = pager.since
      BY <1>1, <1>8
    <2>2. FirstThere'
      BY <1>1, <1>3, <2>1 DEF RowsInv, FirstThere
    <2>3. Steady' <=> Steady
      BY <1>1, <2>1 DEF Steady
    <2>4. RowsListed'
      BY <1>1, <1>2, <1>3, <2>1, <2>3 DEF RowsInv, RowsListed
    <2> QED
      BY <1>5, <1>6, <2>2, <2>4 DEF RowsInv
  <1> QED
    BY <1>7, <1>8

\* The listing goes on when the window has moved on.
LEMMA DueNow ==
  ASSUME RowsInv, NEW shown, NEW offset \in Nat, Steady,
         Due(copies, pager.req, pager.first, WindowEnd, shown, offset)
  PROVE  Due(copies, pager.req, pager.first, now, shown, offset)
PROOF
  <1>1. /\ copies \in Tables /\ pager.req \in Requests /\ now \in Nat /\ WindowEnd \in Nat
        /\ WindowEnd <= now /\ pager.req.route # "groups"
    BY DEF RowsInv, TypeOK, WindowKept, WindowEnd, Steady
  <1>2. pager.req.route # "logs" /\ pager.req.asc => now = WindowEnd
    BY DEF RowsInv, WindowKept, Steady
  <1>3. \A r \in pager.first : r \in Row /\ (Timeless(pager.req) \/ r.ts <= WindowEnd)
    BY DEF RowsInv, FirstThere
  <1> QED
    BY <1>1, <1>2, <1>3, DueMoves

\* The request ends, with an answer or without, and the reader asks again.
LEMMA RowsInvAskAgain ==
  ASSUME RowsInv, UNCHANGED <<copies, now>>, pager.at = "waiting",
         DOMAIN query' = DOMAIN query, query'.to \in Nat,
         DOMAIN pager' = DOMAIN pager, pager'.at \in {"asking", "left"},
         pager'.req = pager.req, pager'.limit = pager.limit, pager'.first = pager.first,
         pager'.since = pager.since,
         \/ pager'.offset = pager.offset /\ pager'.shown = pager.shown
         \/ /\ query.list = "ok" /\ pager'.offset = pager.offset + pager.limit
            /\ pager'.shown = pager.shown \cup ToSet(query.page)
  PROVE  RowsInv'
PROOF
  <1>1. WindowEnd' = now /\ (Steady' <=> Steady) /\ now \in Nat /\ WindowEnd \in Nat
    BY DEF RowsInv, TypeOK, WindowEnd, Steady
  <1>2. pager'.offset \in Nat
    BY DEF RowsInv, TypeOK
  <1>3. TypeOK'
    BY <1>2 DEF RowsInv, TypeOK
  <1>4. WindowKept'
    BY <1>1 DEF WindowKept
  <1>5. FirstThere'
    <2> SUFFICES ASSUME NEW r \in pager.first
                 PROVE  r \in Row /\ copies[r] > 0 /\ (Timeless(pager.req) \/ r.ts <= now)
      BY <1>1 DEF FirstThere
    <2>1. r \in Row /\ copies[r] > 0 /\ (Timeless(pager.req) \/ r.ts <= WindowEnd) /\ WindowEnd <= now
      BY DEF RowsInv, FirstThere, WindowKept
    <2>2. r.ts \in Nat
      BY <2>1, SearchAssumption
    <2> QED
      BY <1>1, <2>1, <2>2
  <1>6. ASSUME Steady
        PROVE  Due(copies, pager.req, pager.first, now, pager'.shown, pager'.offset)
    <2>1. Due(copies, pager.req, pager.first, WindowEnd, pager'.shown, pager'.offset)
      BY <1>6 DEF RowsInv, RowsListed
    <2> QED
      BY <1>2, <1>6, <2>1, DueNow
  <1>7. RowsListed'
    BY <1>1, <1>6 DEF RowsListed
  <1> QED
    BY <1>3, <1>4, <1>5, <1>7 DEF RowsInv

LEMMA RowsInvExit == RowsInv /\ Exit => RowsInv'
PROOF
  <1> SUFFICES ASSUME RowsInv, Exit PROVE RowsInv'
    OBVIOUS
  <1>1. UNCHANGED <<copies, now>> /\ pager.at = "waiting"
    BY DEF Exit, Waiting
  <1>2. /\ DOMAIN query' = DOMAIN query /\ query'.to \in Nat
        /\ DOMAIN pager' = DOMAIN pager /\ pager'.at \in {"asking", "left"}
        /\ pager'.req = pager.req /\ pager'.limit = pager.limit /\ pager'.first = pager.first
        /\ pager'.since = pager.since /\ pager'.offset = pager.offset /\ pager'.shown = pager.shown
    BY DEF RowsInv, TypeOK, Exit, NoQuery
  <1> QED
    BY <1>1, <1>2, RowsInvAskAgain

\* A page is the answer to a list that returned.
LEMMA PageMeansListed ==
  ASSUME ReplyTo(ErrorOf(query)) = "page"
  PROVE  query.list = "ok"
PROOF
  <1>1. ErrorOf(query) = "ok"
    BY DEF ReplyTo
  <1> QED
    BY <1>1 DEF ErrorOf

LEMMA RowsInvAnswer == RowsInv /\ Answer => RowsInv'
PROOF
  <1> SUFFICES ASSUME RowsInv, Answer PROVE RowsInv'
    OBVIOUS
  <1>0. /\ DOMAIN query = {"list", "count", "to", "page", "total", "gone"}
        /\ DOMAIN pager = {"req", "limit", "offset", "first", "since", "shown", "lines", "at"}
        /\ query.to \in Nat
    BY DEF RowsInv, TypeOK
  <1>1. UNCHANGED <<copies, now>> /\ pager.at = "waiting" /\ (query' = query \/ query' = NoQuery)
    BY DEF Answer, Waiting
  <1>2. reply' = "page" => query.list = "ok"
    BY PageMeansListed DEF Answer
  <1>3. DOMAIN query' = DOMAIN query /\ query'.to \in Nat
    BY <1>0, <1>1 DEF NoQuery
  <1>4. CASE query.gone \/ reply' # "page"
    <2>1. /\ DOMAIN pager' = DOMAIN pager /\ pager'.at \in {"asking", "left"}
          /\ pager'.req = pager.req /\ pager'.limit = pager.limit /\ pager'.first = pager.first
          /\ pager'.since = pager.since /\ pager'.offset = pager.offset /\ pager'.shown = pager.shown
      <3>1. CASE query.gone
        BY <1>0, <3>1 DEF Answer
      <3>2. CASE ~query.gone /\ reply' # "page"
        BY <1>0, <3>2 DEF Answer
      <3> QED
        BY <1>4, <3>1, <3>2
    <2> QED
      BY <1>1, <1>3, <2>1, RowsInvAskAgain
  <1>5. CASE ~query.gone /\ reply' = "page" /\ query.page = <<>>
    <2>1. pager' = [pager EXCEPT !.at = "end"] /\ query' = query
      BY <1>5 DEF Answer
    <2>2. /\ DOMAIN pager' = DOMAIN pager /\ pager'.at = "end"
          /\ pager'.req = pager.req /\ pager'.limit = pager.limit /\ pager'.first = pager.first
          /\ pager'.since = pager.since /\ pager'.offset = pager.offset /\ pager'.shown = pager.shown
      BY <1>0, <2>1
    <2>3. WindowEnd' = WindowEnd /\ (Steady' <=> Steady)
      BY <1>1, <2>1, <2>2 DEF WindowEnd, Steady
    <2>4. TypeOK' /\ FirstThere' /\ WindowKept'
      BY <1>1, <2>1, <2>2, <2>3 DEF RowsInv, TypeOK, FirstThere, WindowKept
    <2>5. RowsListed'
      BY <1>1, <1>2, <1>5, <2>2, <2>3 DEF RowsInv, RowsListed
    <2> QED
      BY <2>4, <2>5 DEF RowsInv
  <1>6. CASE ~query.gone /\ reply' = "page" /\ query.page # <<>>
    <2>1. pager' = [pager EXCEPT !.at = "asking", !.offset = @ + pager.limit,
                                 !.lines = @ + Len(query.page),
                                 !.shown = @ \cup ToSet(query.page)]
      BY <1>6 DEF Answer
    <2>2. /\ DOMAIN pager' = DOMAIN pager /\ pager'.at = "asking"
          /\ pager'.req = pager.req /\ pager'.limit = pager.limit /\ pager'.first = pager.first
          /\ pager'.since = pager.since /\ pager'.offset = pager.offset + pager.limit
          /\ pager'.shown = pager.shown \cup ToSet(query.page)
      BY <1>0, <2>1
    <2> QED
      BY <1>1, <1>2, <1>3, <1>6, <2>2, RowsInvAskAgain
  <1> QED
    BY <1>4, <1>5, <1>6

\* The table changes, or the clock.
LEMMA RowsInvInsert == ASSUME NEW r \in Row, RowsInv, Insert(r) PROVE RowsInv'
PROOF
  <1>0. DOMAIN pager = {"req", "limit", "offset", "first", "since", "shown", "lines", "at"}
    BY DEF RowsInv, TypeOK
  <1>1. /\ UNCHANGED <<now, query>>
        /\ \A f \in DOMAIN pager \ {"since"} : pager'[f] = pager[f]
        /\ DOMAIN pager' = DOMAIN pager /\ pager'.since = pager.since \cup {"insert"}
    BY <1>0 DEF Insert, Changed
  <1>2. /\ pager'.req = pager.req /\ pager'.limit = pager.limit /\ pager'.first = pager.first
        /\ pager'.offset = pager.offset /\ pager'.shown = pager.shown /\ pager'.at = pager.at
    BY <1>0, <1>1
  <1>3. copies \in Tables /\ copies' = [copies EXCEPT ![r] = @ + 1] /\ copies[r] < MaxCopies
    BY DEF RowsInv, TypeOK, Insert
  <1>4. copies' \in Tables /\ \A x \in Row : copies[x] <= copies'[x] /\ copies[x] \in Nat /\ copies'[x] \in Nat
    <2>1. MaxCopies \in Nat
      BY SearchAssumption
    <2>2. copies \in [Row -> 0..MaxCopies] /\ copies[r] \in 0..MaxCopies
      BY <1>3 DEF Tables
    <2>3. copies[r] + 1 \in 0..MaxCopies /\ copies[r] <= copies[r] + 1 /\ copies[r] + 1 \in Nat
      BY <1>3, <2>1, <2>2
    <2>4. \A x \in Row : copies[x] \in 0..MaxCopies /\ copies'[x] = IF x = r THEN copies[r] + 1 ELSE copies[x]
      BY <1>3, <2>2
    <2>5. \A x \in Row : copies'[x] \in 0..MaxCopies
      BY <2>3, <2>4
    <2>6. copies' \in [Row -> 0..MaxCopies]
      BY <1>3, <2>2, <2>3
    <2>7. ASSUME NEW x \in Row
          PROVE  copies[x] <= copies'[x] /\ copies[x] \in Nat /\ copies'[x] \in Nat
      <3>1. copies[x] \in Nat
        BY <2>1, <2>4
      <3> QED
        BY <2>3, <2>4, <3>1
    <2> QED
      BY <2>6, <2>7 DEF Tables
  <1>5. WindowEnd' = WindowEnd /\ (Steady' <=> Steady)
    BY <1>1, <1>2 DEF WindowEnd, Steady
  <1>6. TypeOK' /\ WindowKept'
    BY <1>1, <1>2, <1>4, <1>5 DEF RowsInv, TypeOK, WindowKept
  <1>7. FirstThere'
    BY <1>2, <1>4, <1>5 DEF RowsInv, FirstThere
  <1>8. ASSUME NEW shown, NEW offset \in Nat
        PROVE  /\ Due(copies, pager.req, pager.first, WindowEnd, shown, offset)
                    => Due(copies', pager.req, pager.first, WindowEnd, shown, offset)
               /\ Through(copies, pager.req, pager.first, WindowEnd, shown)
                    => Through(copies', pager.req, pager.first, WindowEnd, shown)
    <2>1. \A x \in pager.first : copies[x] > 0
      BY DEF RowsInv, FirstThere
    <2> QED
      BY <1>3, <1>4, <2>1, DueGrows
  <1>9. pager.offset \in Nat /\ pager.offset + pager.limit \in Nat
    BY DEF RowsInv, TypeOK
  <1>10. RowsListed'
    BY <1>1, <1>2, <1>5, <1>8, <1>9 DEF RowsInv, RowsListed
  <1> QED
    BY <1>6, <1>7, <1>10 DEF RowsInv

LEMMA RowsInvMerge == ASSUME NEW r \in Row, RowsInv, Merge(r) PROVE RowsInv'
PROOF
  <1>0. DOMAIN pager = {"req", "limit", "offset", "first", "since", "shown", "lines", "at"}
    BY DEF RowsInv, TypeOK
  <1>1. /\ UNCHANGED <<now, query>> /\ pager.req.route # "logs"
        /\ \A f \in DOMAIN pager \ {"since"} : pager'[f] = pager[f]
        /\ DOMAIN pager' = DOMAIN pager /\ pager'.since = pager.since \cup {"merge"}
    BY <1>0 DEF Merge, Changed
  <1>2. /\ pager'.req = pager.req /\ pager'.limit = pager.limit /\ pager'.first = pager.first
        /\ pager'.offset = pager.offset /\ pager'.at = pager.at
    BY <1>0, <1>1
  <1>3. copies \in Tables /\ copies' = [copies EXCEPT ![r] = 1]
    BY DEF RowsInv, TypeOK, Merge
  <1>4. copies' \in Tables /\ \A x \in Row : copies[x] > 0 => copies'[x] > 0
    BY <1>3, SearchAssumption DEF Tables
  <1>5. WindowEnd' = WindowEnd
    BY <1>1, <1>2 DEF WindowEnd
  <1>6. TypeOK' /\ WindowKept'
    BY <1>1, <1>2, <1>4, <1>5 DEF RowsInv, TypeOK, WindowKept
  <1>7. FirstThere'
    BY <1>2, <1>4, <1>5 DEF RowsInv, FirstThere
  <1>8. RowsListed'
    BY <1>1, <1>2 DEF RowsListed, Steady
  <1> QED
    BY <1>6, <1>7, <1>8 DEF RowsInv

LEMMA RowsInvTick == RowsInv /\ Tick => RowsInv'
PROOF
  <1> SUFFICES ASSUME RowsInv, Tick PROVE RowsInv'
    OBVIOUS
  <1>0. DOMAIN pager = {"req", "limit", "offset", "first", "since", "shown", "lines", "at"}
    BY DEF RowsInv, TypeOK
  <1>1. /\ UNCHANGED <<copies, query>> /\ now' = now + 1
        /\ \A f \in DOMAIN pager \ {"since"} : pager'[f] = pager[f]
        /\ DOMAIN pager' = DOMAIN pager /\ pager'.since = pager.since \cup {"tick"}
    BY <1>0 DEF Tick, Changed
  <1>2. /\ pager'.req = pager.req /\ pager'.limit = pager.limit /\ pager'.first = pager.first
        /\ pager'.offset = pager.offset /\ pager'.shown = pager.shown /\ pager'.at = pager.at
    BY <1>0, <1>1
  <1>3. /\ copies \in Tables /\ pager.req \in Requests /\ now \in Nat /\ now' \in Nat
        /\ pager.offset \in Nat /\ pager.limit \in Nat
        /\ WindowEnd \in Nat /\ WindowEnd' \in Nat /\ WindowEnd <= WindowEnd' /\ WindowEnd' <= now'
        /\ pager.at \in {"waiting", "end"} => WindowEnd' = WindowEnd
    BY <1>1, <1>2 DEF RowsInv, TypeOK, WindowKept, WindowEnd
  <1>4. TypeOK' /\ WindowKept'
    BY <1>1, <1>2, <1>3 DEF RowsInv, TypeOK, WindowKept
  <1>5. FirstThere'
    <2> SUFFICES ASSUME NEW r \in pager.first
                 PROVE  r \in Row /\ copies[r] > 0 /\ (Timeless(pager.req) \/ r.ts <= WindowEnd')
      BY <1>1, <1>2 DEF FirstThere
    <2>1. r \in Row /\ copies[r] > 0 /\ (Timeless(pager.req) \/ r.ts <= WindowEnd)
      BY DEF RowsInv, FirstThere
    <2>2. r.ts \in Nat
      BY <2>1, SearchAssumption
    <2> QED
      BY <1>3, <2>1, <2>2
  <1>6. ASSUME Steady' PROVE Steady /\ (pager.req.route # "logs" => ~pager.req.asc)
    BY <1>1, <1>2, <1>6 DEF Steady
  <1>7. ASSUME Steady', NEW shown, NEW offset \in Nat,
               Due(copies, pager.req, pager.first, WindowEnd, shown, offset)
        PROVE  Due(copies, pager.req, pager.first, WindowEnd', shown, offset)
    <2>1. pager.req.route # "groups" /\ ~(pager.req.route # "logs" /\ pager.req.asc)
      BY <1>6, <1>7 DEF Steady
    <2>2. \A r \in pager.first : r \in Row /\ (Timeless(pager.req) \/ r.ts <= WindowEnd)
      BY DEF RowsInv, FirstThere
    <2> QED
      BY <1>3, <1>7, <2>1, <2>2, DueMoves
  <1>8. RowsListed'
    <2> SUFFICES ASSUME Steady' PROVE RowsListed'
      BY DEF RowsListed
    <2>1. Steady
      BY <1>6
    <2>2. pager.offset \in Nat /\ pager.offset + pager.limit \in Nat
      BY <1>3
    <2>3. RowsListed
      BY DEF RowsInv
    <2>4. pager.at = "asking" => Due(copies', pager'.req, pager'.first, WindowEnd', pager'.shown, pager'.offset)
      BY <1>1, <1>2, <1>7, <2>1, <2>2, <2>3 DEF RowsListed
    <2> QED
      BY <1>1, <1>2, <1>3, <2>1, <2>3, <2>4 DEF RowsListed
  <1> QED
    BY <1>4, <1>5, <1>8 DEF RowsInv

LEMMA RowsInvBegins == ASSUME NEW req \in Requests, RowsInv, Begin(req) PROVE RowsInv'
PROOF
  <1>1. NormalLimit(req.limit) \in Nat \ {0} /\ At(req) \in {"asking", "refused"}
    BY SearchAssumption DEF NormalLimit, At
  <1>2. /\ pager'.req = req /\ pager'.limit = NormalLimit(req.limit) /\ pager'.offset = 0
        /\ pager'.first = {} /\ pager'.at = At(req)
        /\ DOMAIN pager' = {"req", "limit", "offset", "first", "since", "shown", "lines", "at"}
    BY DEF Begin, NewPager
  <1>3. query'.to = 0 /\ DOMAIN query' = {"list", "count", "to", "page", "total", "gone"}
    BY DEF Begin, NoQuery
  <1>4. UNCHANGED <<copies, now>> /\ now \in Nat
    BY DEF Begin, RowsInv, TypeOK
  <1>5. TypeOK'
    BY <1>1, <1>2, <1>3, <1>4 DEF RowsInv, TypeOK
  <1>6. FirstThere' /\ WindowKept'
    BY <1>1, <1>2, <1>4 DEF FirstThere, WindowKept, WindowEnd
  <1>7. RowsListed'
    BY <1>1, <1>2 DEF RowsListed, Due
  <1> QED
    BY <1>5, <1>6, <1>7 DEF RowsInv

LEMMA RowsInvNext == RowsInv /\ [Next]_vars => RowsInv'
PROOF
  <1> SUFFICES ASSUME RowsInv, [Next]_vars PROVE RowsInv'
    OBVIOUS
  <1>1. CASE UNCHANGED vars
    BY <1>1, RowsInvQueries DEF vars, RowsInv, TypeOK
  <1> QED
    BY <1>1, RowsInvBegins, RowsInvAsk, RowsInvAnswer, RowsInvExit, RowsInvList, RowsInvCounts,
       RowsInvInsert, RowsInvMerge, RowsInvTick DEF Next

\* While a reader pages, what was there when her listing began, is still selected and
\* was not shown to her stands on a page to come, whatever is inserted.
THEOREM RowsInvariant == Spec => []RowsInv
PROOF
  BY RowsInvInit, RowsInvNext, PTL DEF Spec

-----------------------------------------------------------------------------
(* A table that does not change *)

LEMMA StillInit == Init => QueryOrder /\ FirstPage /\ StillListed
PROOF
  <1> SUFFICES ASSUME Init PROVE QueryOrder /\ FirstPage /\ StillListed
    OBVIOUS
  <1>1. PICK req \in Requests : pager = NewPager(req)
    BY DEF Init
  <1>2. /\ pager.req = req /\ pager.offset = 0 /\ pager.shown = {} /\ pager.lines = 0
        /\ pager.at \in {"asking", "refused"}
    BY <1>1 DEF NewPager, At
  <1> QED
    BY <1>2, ShownFirst DEF QueryOrder, FirstPage, StillListed, Listed

LEMMA StillBegins ==
  ASSUME NEW req \in Requests, Begin(req)
  PROVE  QueryOrder' /\ FirstPage' /\ StillListed'
PROOF
  <1>1. /\ pager'.req = req /\ pager'.offset = 0 /\ pager'.shown = {} /\ pager'.lines = 0
        /\ pager'.at \in {"asking", "refused"}
    BY DEF Begin, NewPager, At
  <1> QED
    BY <1>1, ShownFirst DEF QueryOrder, FirstPage, StillListed, Listed

\* The table changes, or the clock.
LEMMA StillChanged ==
  ASSUME PagesInv, NEW kind, Changed(kind), UNCHANGED query
  PROVE  QueryOrder' /\ FirstPage' /\ StillListed'
PROOF
  <1>1. DOMAIN pager = {"req", "limit", "offset", "first", "since", "shown", "lines", "at"}
    BY DEF PagesInv, RowsInv, TypeOK
  <1>2. /\ pager'.req = pager.req /\ pager'.offset = pager.offset /\ pager'.shown = pager.shown
        /\ pager'.lines = pager.lines /\ pager'.at = pager.at /\ kind \in pager'.since
    BY <1>1 DEF Changed
  <1> QED
    BY <1>2 DEF PagesInv, QueryOrder, FirstPage, StillListed

LEMMA StillAsk == PagesInv /\ Ask => QueryOrder' /\ FirstPage' /\ StillListed'
PROOF
  <1> SUFFICES ASSUME PagesInv, Ask PROVE QueryOrder' /\ FirstPage' /\ StillListed'
    OBVIOUS
  <1>1. /\ pager.req \in Requests
        /\ DOMAIN pager = {"req", "limit", "offset", "first", "since", "shown", "lines", "at"}
    BY DEF PagesInv, RowsInv, TypeOK
  <1>2. /\ UNCHANGED <<copies, now>> /\ pager.at = "asking"
        /\ pager'.at = "waiting" /\ pager'.req = pager.req /\ pager'.offset = pager.offset
        /\ pager'.shown = pager.shown /\ pager'.lines = pager.lines
        /\ pager'.first = IF pager.offset = 0 THEN Selected(pager.req, now) ELSE pager.first
        /\ pager'.since = IF pager.offset = 0 THEN {} ELSE pager.since
    BY <1>1 DEF Ask
  <1>3. /\ query'.list = "running" /\ query'.total = 0
        /\ query'.count = IF pager.req.route = "audit" THEN "running" ELSE "idle"
    BY DEF Ask
  <1>4. QueryOrder'
    BY <1>2, <1>3 DEF QueryOrder
  <1>5. FirstPage'
    BY <1>2 DEF PagesInv, FirstPage
  <1>6. ASSUME pager'.since = {}
        PROVE  /\ ShownUpTo(copies, pager.req, now, pager.shown, pager.lines, pager.offset)
               /\ pager'.first = Chosen(copies, pager.req, now)
    <2>1. CASE pager.offset = 0
      <3>1. pager.shown = {} /\ pager.lines = 0
        BY <2>1 DEF PagesInv, FirstPage
      <3> QED
        BY <1>1, <1>2, <2>1, <3>1, ShownFirst, SelectedChosen
    <2>2. CASE pager.offset # 0
      <3>1. Listed(CountIn(copies, pager.req, now))
        BY <1>2, <1>6, <2>2 DEF PagesInv, StillListed
      <3> QED
        BY <1>2, <2>2, <3>1 DEF Listed
    <2> QED
      BY <2>1, <2>2
  <1>7. StillListed'
    BY <1>2, <1>3, <1>6 DEF StillListed, Listed, TotalTold
  <1> QED
    BY <1>4, <1>5, <1>7

\* The queries go on; those that were counted tell the number.
LEMMA StillQueries ==
  ASSUME PagesInv, UNCHANGED <<copies, now, pager>>, QueryOrder',
         pager.at = "end" => query' = query,
         query'.list = "ok" => query.list = "ok" /\ query'.page = query.page,
         \/ query'.total = query.total /\ (query'.count = "ok" => query.count = "ok")
         \/ query'.count = "ok" /\ query'.total = CountOf(pager.req, query.to)
  PROVE  QueryOrder' /\ FirstPage' /\ StillListed'
PROOF
  <1>1. FirstPage'
    BY DEF PagesInv, FirstPage
  <1> SUFFICES ASSUME pager.since = {}, pager.at \in {"asking", "waiting", "end"}
               PROVE  Listed(CountIn(copies, pager.req, now))'
    BY <1>1 DEF StillListed
  <1> DEFINE n == CountIn(copies, pager.req, now)
  <1>2. Listed(n)
    BY DEF PagesInv, StillListed
  <1>3. n' = n
    OBVIOUS
  <1>4. ASSUME pager.at = "waiting" PROVE CountOf(pager.req, query.to) = n
    <2>1. query.to = now /\ pager.req \in Requests /\ copies \in Tables
      BY <1>4 DEF PagesInv, RowsInv, WindowKept, WindowEnd, TypeOK
    <2> QED
      BY <2>1, CountOfIn
  <1> HIDE DEF n
  <1>5. ASSUME pager.at = "waiting" PROVE TotalTold(n)'
    BY <1>2, <1>3, <1>4, <1>5 DEF Listed, TotalTold
  <1>6. Listed(n)'
    BY <1>2, <1>3, <1>5 DEF Listed
  <1> QED
    BY <1>6 DEF n

LEMMA StillCounts ==
  ASSUME PagesInv,
         \/ ListFails \/ ListCancelled \/ Leave
         \/ CountStarts \/ CountReturns \/ CountFails \/ CountCancelled
  PROVE  QueryOrder' /\ FirstPage' /\ StillListed'
PROOF
  <1>0. DOMAIN query = {"list", "count", "to", "page", "total", "gone"}
    BY DEF PagesInv, RowsInv, TypeOK
  <1> USE DEF ListFails, ListCancelled, Leave, CountStarts, CountReturns, CountFails, CountCancelled, Waiting
  <1>1. UNCHANGED <<copies, now, pager>> /\ pager.at = "waiting"
    OBVIOUS
  <1>2. query'.list = "ok" => query.list = "ok" /\ query'.page = query.page
    BY <1>0
  <1>3. \/ query'.total = query.total /\ (query'.count = "ok" => query.count = "ok")
        \/ query'.count = "ok" /\ query'.total = CountOf(pager.req, query.to)
    BY <1>0
  <1>4. QueryOrder'
    BY <1>0, <1>1 DEF PagesInv, QueryOrder
  <1> QED
    BY <1>1, <1>2, <1>3, <1>4, StillQueries

LEMMA StillList == PagesInv /\ ListReturns => QueryOrder' /\ FirstPage' /\ StillListed'
PROOF
  <1> SUFFICES ASSUME PagesInv, ListReturns PROVE QueryOrder' /\ FirstPage' /\ StillListed'
    OBVIOUS
  <1>0. /\ DOMAIN query = {"list", "count", "to", "page", "total", "gone"}
        /\ pager.req \in Requests /\ copies \in Tables /\ now \in Nat /\ query.to \in Nat
        /\ pager.offset \in Nat /\ pager.limit \in Nat \ {0}
    BY DEF PagesInv, RowsInv, TypeOK
  <1>1. PICK page \in Pages(pager.req, query.to, pager.offset, pager.limit) :
          query' = [query EXCEPT !.list = "ok", !.page = page,
                                 !.total = IF pager.req.route = "groups" /\ page # <<>>
                                           THEN CountOf(pager.req, query.to) ELSE @]
    BY DEF ListReturns
  <1>2. UNCHANGED <<copies, now, pager>> /\ pager.at = "waiting" /\ query.list = "running"
    BY DEF ListReturns, Waiting
  <1>3. /\ query'.list = "ok" /\ query'.page = page /\ query'.count = query.count
        /\ query'.total = IF pager.req.route = "groups" /\ page # <<>>
                          THEN CountOf(pager.req, query.to) ELSE query.total
    BY <1>0, <1>1
  <1>4. QueryOrder'
    BY <1>2, <1>3 DEF PagesInv, QueryOrder
  <1>5. FirstPage'
    BY <1>2 DEF PagesInv, FirstPage
  <1> SUFFICES ASSUME pager.since = {}
               PROVE  Listed(CountIn(copies, pager.req, now))'
    BY <1>2, <1>4, <1>5 DEF StillListed
  <1> DEFINE n == CountIn(copies, pager.req, now)
  <1>6. Listed(n)
    BY <1>2 DEF PagesInv, StillListed
  <1>7. query.to = now
    BY <1>2 DEF PagesInv, RowsInv, WindowKept, WindowEnd
  <1>8. CountOf(pager.req, query.to) = n /\ n' = n
    BY <1>0, <1>2, <1>7, CountOfIn
  <1>9. PageFits(copies, pager.req, now, pager.shown, pager.lines, pager.offset, pager.limit, page)
    BY <1>0, <1>1, <1>2, <1>6, <1>7, ShownPage DEF Listed
  <1> HIDE DEF n
  <1>10. TotalTold(n)'
    BY <1>2, <1>3, <1>6, <1>8 DEF PagesInv, QueryOrder, Listed, TotalTold
  <1>11. Listed(n)'
    BY <1>2, <1>3, <1>6, <1>8, <1>9, <1>10 DEF Listed
  <1> QED
    BY <1>11 DEF n

\* The request ends without a page, and the reader asks again or is gone.
LEMMA StillAskAgain ==
  ASSUME PagesInv, UNCHANGED <<copies, now>>, pager.at = "waiting",
         pager'.at \in {"asking", "left"}, pager'.req = pager.req, pager'.first = pager.first,
         pager'.since = pager.since, pager'.offset = pager.offset,
         pager'.shown = pager.shown, pager'.lines = pager.lines
  PROVE  QueryOrder' /\ FirstPage' /\ StillListed'
PROOF
  BY DEF PagesInv, QueryOrder, FirstPage, StillListed, Listed

LEMMA StillExit == PagesInv /\ Exit => QueryOrder' /\ FirstPage' /\ StillListed'
PROOF
  <1> SUFFICES ASSUME PagesInv, Exit PROVE QueryOrder' /\ FirstPage' /\ StillListed'
    OBVIOUS
  <1>1. DOMAIN pager = {"req", "limit", "offset", "first", "since", "shown", "lines", "at"}
    BY DEF PagesInv, RowsInv, TypeOK
  <1>2. /\ UNCHANGED <<copies, now>> /\ pager.at = "waiting"
        /\ pager'.at \in {"asking", "left"} /\ pager'.req = pager.req /\ pager'.first = pager.first
        /\ pager'.since = pager.since /\ pager'.offset = pager.offset
        /\ pager'.shown = pager.shown /\ pager'.lines = pager.lines
    BY <1>1 DEF Exit, Waiting
  <1> QED
    BY <1>2, StillAskAgain

\* The number next to an empty page is that of the listing, whoever told it.
LEMMA EndTold ==
  ASSUME PagesInv, pager.at = "waiting", pager.since = {}, Done,
         ReplyTo(ErrorOf(query)) = "page", query.page = <<>>
  PROVE  query.total = CountIn(copies, pager.req, now)
PROOF
  <1> DEFINE n == CountIn(copies, pager.req, now)
  <1>1. Listed(n) /\ query.list = "ok"
    BY PageMeansListed DEF PagesInv, StillListed
  <1>2. pager.req \in Requests /\ pager.offset \in Nat
    BY DEF PagesInv, RowsInv, TypeOK
  <1>3. n \in Nat
    BY <1>2, CountInType
  <1>4. query.count \in {"ok", "idle"}
    <2>1. ErrorOf(query) = "ok"
      BY DEF ReplyTo
    <2> QED
      BY <1>1, <2>1 DEF ErrorOf
  <1>5. CASE query.count = "ok"
    BY <1>1, <1>5 DEF Listed, TotalTold
  <1>6. CASE query.count = "idle"
    <2>1. pager.req.route = "groups" /\ pager.offset = 0
      BY <1>1, <1>2, <1>6 DEF Done, Over, Counts
    <2>2. query.total = 0
      BY <1>6, <2>1 DEF PagesInv, QueryOrder
    <2>3. n <= 0
      BY <1>1, <2>1 DEF Listed, PageFits
    <2> HIDE DEF n
    <2>4. n = 0
      BY <1>3, <2>3
    <2> QED
      BY <2>2, <2>4 DEF n
  <1> QED
    BY <1>4, <1>5, <1>6

LEMMA StillEnds ==
  ASSUME PagesInv, UNCHANGED <<copies, now, query>>, pager.at = "waiting", Done,
         ReplyTo(ErrorOf(query)) = "page", query.page = <<>>,
         pager' = [pager EXCEPT !.at = "end"]
  PROVE  QueryOrder' /\ FirstPage' /\ StillListed'
PROOF
  <1>1. /\ DOMAIN pager = {"req", "limit", "offset", "first", "since", "shown", "lines", "at"}
        /\ pager.req \in Requests /\ pager.offset \in Nat
    BY DEF PagesInv, RowsInv, TypeOK
  <1>2. /\ pager'.at = "end" /\ pager'.req = pager.req /\ pager'.first = pager.first
        /\ pager'.since = pager.since /\ pager'.offset = pager.offset
        /\ pager'.shown = pager.shown /\ pager'.lines = pager.lines
    BY <1>1
  <1>3. QueryOrder' /\ FirstPage'
    BY <1>2 DEF PagesInv, QueryOrder, FirstPage
  <1> SUFFICES ASSUME pager.since = {}
               PROVE  Listed(CountIn(copies, pager.req, now))'
    BY <1>2, <1>3 DEF StillListed
  <1> DEFINE n == CountIn(copies, pager.req, now)
  <1>4. n \in Nat /\ n' = n /\ query.list = "ok"
    BY <1>1, <1>2, CountInType, PageMeansListed
  <1>5. Listed(n) /\ query.total = n
    BY EndTold DEF PagesInv, StillListed
  <1>6. ShownUpTo(copies, pager.req, now, pager.shown, pager.lines, pager.offset)
    BY <1>5 DEF Listed
  <1>7. pager.req.route \in {"logs", "groups"} => n <= pager.offset
    BY <1>4, <1>5 DEF Listed, PageFits
  <1>8. pager.first = Chosen(copies, pager.req, now)
    BY <1>5 DEF Listed
  <1>9. pager.req.route = "groups" => GroupsThrough(copies, pager.req, now, pager.shown)
    <2>1. pager.req.route = "groups" => n = Cardinality(Grouped(copies, pager.req, now))
      BY DEF CountIn
    <2> HIDE DEF n
    <2> QED
      BY <1>1, <1>6, <1>7, <2>1, GroupsDueEnd DEF ShownUpTo
  <1>10. pager.req.route \in {"logs", "groups"} => pager.lines = n
    <2>1. pager.req.route \in {"logs", "groups"} => pager.lines = Least(pager.offset, n)
      BY <1>6 DEF ShownUpTo
    <2> HIDE DEF n
    <2> QED
      BY <1>1, <1>4, <1>7, <2>1 DEF Least
  <1>11. pager.req.route \in {"audit", "findings"} => pager.shown \subseteq ItemsOf(pager.first)
    BY <1>6, <1>8 DEF ShownUpTo
  <1> HIDE DEF n
  <1>12. Listed(n)'
    BY <1>2, <1>4, <1>5, <1>8, <1>9, <1>10, <1>11 DEF Listed
  <1> QED
    BY <1>12 DEF n

LEMMA StillAnswer == PagesInv /\ Answer => QueryOrder' /\ FirstPage' /\ StillListed'
PROOF
  <1> SUFFICES ASSUME PagesInv, Answer PROVE QueryOrder' /\ FirstPage' /\ StillListed'
    OBVIOUS
  <1>0. /\ DOMAIN pager = {"req", "limit", "offset", "first", "since", "shown", "lines", "at"}
        /\ pager.offset \in Nat /\ pager.limit \in Nat \ {0}
    BY DEF PagesInv, RowsInv, TypeOK
  <1>1. UNCHANGED <<copies, now>> /\ pager.at = "waiting" /\ Done /\ reply' = ReplyTo(ErrorOf(query))
    BY DEF Answer, Waiting
  <1>2. CASE query.gone \/ reply' # "page"
    <2>1. /\ pager'.at \in {"asking", "left"} /\ pager'.req = pager.req /\ pager'.first = pager.first
          /\ pager'.since = pager.since /\ pager'.offset = pager.offset
          /\ pager'.shown = pager.shown /\ pager'.lines = pager.lines
      <3>1. CASE query.gone
        BY <1>0, <3>1 DEF Answer
      <3>2. CASE ~query.gone /\ reply' # "page"
        BY <1>0, <3>2 DEF Answer
      <3> QED
        BY <1>2, <3>1, <3>2
    <2> QED
      BY <1>1, <2>1, StillAskAgain
  <1>3. CASE ~query.gone /\ reply' = "page" /\ query.page = <<>>
    <2>1. pager' = [pager EXCEPT !.at = "end"] /\ UNCHANGED query
      BY <1>3 DEF Answer
    <2> QED
      BY <1>1, <1>3, <2>1, StillEnds
  <1>4. CASE ~query.gone /\ reply' = "page" /\ query.page # <<>>
    <2>1. pager' = [pager EXCEPT !.at = "asking", !.offset = @ + pager.limit,
                                 !.lines = @ + Len(query.page),
                                 !.shown = @ \cup ToSet(query.page)]
      BY <1>4 DEF Answer
    <2>2. /\ pager'.at = "asking" /\ pager'.req = pager.req /\ pager'.first = pager.first
          /\ pager'.since = pager.since /\ pager'.offset = pager.offset + pager.limit
          /\ pager'.lines = pager.lines + Len(query.page)
          /\ pager'.shown = pager.shown \cup ToSet(query.page)
      BY <1>0, <2>1
    <2>3. pager'.offset # 0
      BY <1>0, <2>2
    <2>4. QueryOrder' /\ FirstPage'
      BY <2>2, <2>3 DEF QueryOrder, FirstPage
    <2>5. ASSUME pager.since = {} PROVE Listed(CountIn(copies, pager.req, now))
      BY <1>1, <2>5 DEF PagesInv, StillListed
    <2>6. query.list = "ok"
      BY <1>1, <1>4, PageMeansListed
    <2>7. StillListed'
      BY <1>1, <2>2, <2>3, <2>5, <2>6 DEF StillListed, Listed, PageFits
    <2> QED
      BY <2>4, <2>7
  <1> QED
    BY <1>2, <1>3, <1>4

LEMMA StillNext == PagesInv /\ [Next]_vars => QueryOrder' /\ FirstPage' /\ StillListed'
PROOF
  <1> SUFFICES ASSUME PagesInv, [Next]_vars PROVE QueryOrder' /\ FirstPage' /\ StillListed'
    OBVIOUS
  <1>1. CASE UNCHANGED vars
    <2>1. QueryOrder'
      BY <1>1 DEF PagesInv, QueryOrder, vars
    <2> QED
      BY <1>1, <2>1, StillQueries DEF vars
  <1>2. ASSUME NEW r \in Row, Insert(r) \/ Merge(r) PROVE QueryOrder' /\ FirstPage' /\ StillListed'
    BY <1>2, StillChanged DEF Insert, Merge
  <1>3. CASE Tick
    BY <1>3, StillChanged DEF Tick
  <1> QED
    BY <1>1, <1>2, <1>3, StillBegins, StillAsk, StillAnswer, StillExit, StillList, StillCounts DEF Next

\* The groups of a page are those of the table.
LEMMA GroupsListedInit == Init => GroupsListed
PROOF
  <1> SUFFICES ASSUME query = NoQuery PROVE GroupsListed
    BY DEF Init
  <1>1. ToSet(query.page) = {}
    BY DEF NoQuery, ToSet
  <1> QED
    BY <1>1 DEF GroupsListed

LEMMA GroupsListedNext == PagesInv /\ [Next]_vars => GroupsListed'
PROOF
  <1> SUFFICES ASSUME PagesInv, [Next]_vars PROVE GroupsListed'
    OBVIOUS
  <1>0. /\ DOMAIN query = {"list", "count", "to", "page", "total", "gone"}
        /\ DOMAIN pager = {"req", "limit", "offset", "first", "since", "shown", "lines", "at"}
        /\ pager.req \in Requests /\ query.to \in Nat
        /\ pager.offset \in Nat /\ pager.limit \in Nat \ {0}
    BY DEF PagesInv, RowsInv, TypeOK
  <1>1. ASSUME query' = NoQuery \/ query'.list # "ok" PROVE GroupsListed'
    <2>1. ToSet(NoQuery.page) = {}
      BY DEF NoQuery, ToSet
    <2> QED
      BY <1>1, <2>1 DEF GroupsListed
  <1>2. ASSUME UNCHANGED copies, pager'.req = pager.req, pager'.since = pager.since,
               query'.list = "ok" => query.list = "ok" /\ query'.page = query.page /\ query'.to = query.to
        PROVE  GroupsListed'
    BY <1>2 DEF PagesInv, GroupsListed
  <1>3. CASE UNCHANGED vars
    BY <1>2, <1>3 DEF vars
  <1>4. ASSUME NEW req \in Requests, Begin(req) PROVE GroupsListed'
    BY <1>1, <1>4 DEF Begin
  <1>5. CASE Ask
    BY <1>1, <1>5 DEF Ask
  <1>6. CASE Answer
    <2>1. UNCHANGED copies /\ (query' = NoQuery \/ UNCHANGED query)
      BY <1>6 DEF Answer
    <2>2. pager'.req = pager.req /\ pager'.since = pager.since
      <3>1. pager' \in {[pager EXCEPT !.at = "left"], [pager EXCEPT !.at = "asking"], [pager EXCEPT !.at = "end"],
                        [pager EXCEPT !.at = "asking", !.offset = @ + pager.limit,
                                      !.lines = @ + Len(query.page),
                                      !.shown = @ \cup ToSet(query.page)]}
        BY <1>6, Zenon DEF Answer
      <3> QED
        BY <1>0, <3>1
    <2> QED
      BY <1>1, <1>2, <2>1, <2>2
  <1>7. CASE Leave \/ ListFails \/ ListCancelled \/ CountStarts \/ CountReturns \/ CountFails \/ CountCancelled
    BY <1>0, <1>2, <1>7 DEF Leave, ListFails, ListCancelled, CountStarts, CountReturns, CountFails, CountCancelled
  <1>8. CASE Exit
    BY <1>1, <1>8 DEF Exit
  <1>9. CASE ListReturns
    <2>1. PICK page \in Pages(pager.req, query.to, pager.offset, pager.limit) :
          query' = [query EXCEPT !.list = "ok", !.page = page,
                                 !.total = IF pager.req.route = "groups" /\ page # <<>>
                                           THEN CountOf(pager.req, query.to) ELSE @]
      BY <1>9 DEF ListReturns
    <2>2. UNCHANGED <<copies, pager>> /\ query'.page = page /\ query'.to = query.to
      BY <1>0, <1>9, <2>1 DEF ListReturns
    <2>3. ASSUME pager.req.route = "groups" PROVE ToSet(page) \subseteq Grouped(copies, pager.req, query.to)
      <3>1. page \in GroupPages(pager.req, query.to, pager.offset, pager.limit)
        BY <2>1, <2>3 DEF Pages
      <3>2. page \in Seq(Grouped(copies, pager.req, query.to))
        BY <1>0, <3>1, GroupPageShows
      <3> QED
        BY <3>2 DEF ToSet
    <2> QED
      BY <2>2, <2>3 DEF GroupsListed
  <1>10. ASSUME NEW kind, Changed(kind) PROVE GroupsListed'
    <2>1. kind \in pager'.since
      BY <1>0, <1>10 DEF Changed
    <2> QED
      BY <2>1 DEF GroupsListed
  <1>11. ASSUME NEW r \in Row, Insert(r) \/ Merge(r) PROVE GroupsListed'
    BY <1>10, <1>11 DEF Insert, Merge
  <1>12. CASE Tick
    BY <1>10, <1>12 DEF Tick
  <1> QED
    BY <1>3, <1>4, <1>5, <1>6, <1>7, <1>8, <1>9, <1>11, <1>12 DEF Next

\* The pages fit together: rows that were there first are not skipped, and as long as
\* nothing changes the pages and their number are parts of one listing.
THEOREM PagesInvariant == Spec => []PagesInv
PROOF
  <1>1. Init => PagesInv
    BY RowsInvInit, StillInit, GroupsListedInit DEF PagesInv
  <1>2. PagesInv /\ [Next]_vars => PagesInv'
    BY RowsInvNext, StillNext, GroupsListedNext DEF PagesInv
  <1> QED
    BY <1>1, <1>2, PTL DEF Spec

-----------------------------------------------------------------------------
\* What holds at the end of a listing.
LEMMA InvPagesComplete == PagesInv => PagesComplete
PROOF
  <1> SUFFICES ASSUME PagesInv, pager.at = "end" PROVE PagesComplete
    BY DEF PagesComplete
  <1> DEFINE to == query.to
             rows == Selected(pager.req, to)
  <1>1. /\ pager.req \in Requests /\ pager.req.route \in Route
        /\ WindowEnd = to /\ rows = Chosen(copies, pager.req, to)
    BY SearchAssumption, SelectedChosen DEF PagesInv, RowsInv, TypeOK, WindowEnd
  <1>2. CASE pager.req.route = "groups"
    <2>1. GroupsAt(pager.req, to) = Grouped(copies, pager.req, to)
      BY <1>1 DEF GroupsAt, Grouped
    <2> SUFFICES ASSUME pager.since = {},
                        Apart(GroupsAt(pager.req, to), LAMBDA g, h :
                           GroupBefore(pager.req, g, h) /\ GroupBefore(pager.req, h, g))
                 PROVE  GroupsAt(pager.req, to) \subseteq pager.shown
      BY <1>2 DEF PagesComplete
    <2>2. Ranked(pager.req, Grouped(copies, pager.req, to))
      BY <2>1 DEF Ranked, Apart
    <2>3. to = now
      BY <1>1 DEF PagesInv, RowsInv, WindowKept
    <2>4. GroupsThrough(copies, pager.req, now, pager.shown)
      BY <1>2 DEF PagesInv, StillListed, Listed
    <2> QED
      BY <2>1, <2>2, <2>3, <2>4 DEF GroupsThrough
  <1>3. CASE pager.req.route # "groups"
    <2>1. Steady => \A r \in pager.first \cap rows : Tied(copies, pager.req, to, r) \/ r.item \in pager.shown
      BY <1>1 DEF PagesInv, RowsInv, RowsListed, Through
    <2>2. CASE pager.req.route = "logs"
      <3> SUFFICES ASSUME Apart(rows, LAMBDA r, s : r.ts = s.ts), NEW r \in pager.first \cap rows
                   PROVE  r.item \in pager.shown
        BY <2>2 DEF PagesComplete, AllItems
      <3>1. ~Tied(copies, pager.req, to, r)
        BY <1>1 DEF Tied, Apart
      <3>2. Steady
        BY <2>2 DEF Steady
      <3> QED
        BY <2>1, <3>1, <3>2
    <2>3. CASE pager.req.route # "logs"
      <3> SUFFICES ASSUME "merge" \notin pager.since, pager.req.asc => "tick" \notin pager.since,
                          NEW r \in pager.first \cap rows
                   PROVE  r.item \in pager.shown
        BY <1>3, <2>3 DEF PagesComplete, AllItems
      <3>1. ~Tied(copies, pager.req, to, r)
        BY <2>3 DEF Tied
      <3>2. Steady
        BY <1>3 DEF Steady
      <3> QED
        BY <2>1, <3>1, <3>2
    <2> QED
      BY <2>2, <2>3
  <1> QED
    BY <1>2, <1>3

\* Rows of different items are as many as their items.
LEMMA ItemsCounted ==
  ASSUME NEW rows \in SUBSET Row, \A r, s \in rows : r.item = s.item => r = s
  PROVE  Cardinality(ItemsOf(rows)) = Cardinality(rows)
PROOF
  <1> DEFINE f == [r \in rows |-> r.item]
  <1>1. \A x, y \in rows : f[x] = f[y] => x = y
    OBVIOUS
  <1>2. DOMAIN f = rows /\ ItemsOf(rows) = {f[r] : r \in rows}
    BY DEF ItemsOf
  <1>3. IsFiniteSet(rows)
    BY SearchAssumption, FS_Subset
  <1> HIDE DEF f
  <1> QED
    BY <1>1, <1>2, <1>3, ImageSize

LEMMA InvTotalAgrees == PagesInv => TotalAgrees
PROOF
  <1> SUFFICES ASSUME PagesInv, pager.at = "end", pager.since = {} PROVE TotalAgrees
    BY DEF TotalAgrees
  <1> DEFINE rows == Selected(pager.req, query.to)
             n == CountIn(copies, pager.req, now)
  <1>1. /\ pager.req \in Requests /\ pager.req.route \in Route
        /\ WindowEnd = now /\ query.to = now /\ rows = Chosen(copies, pager.req, now)
    BY SearchAssumption, SelectedChosen DEF PagesInv, RowsInv, TypeOK, WindowEnd, WindowKept
  <1>2. Listed(n)
    BY DEF PagesInv, StillListed
  <1>3. query.total = n /\ (pager.req.route \in {"logs", "groups"} => pager.lines = n)
    BY <1>2 DEF Listed
  <1>4. CASE pager.req.route \in {"groups", "logs"}
    BY <1>3, <1>4 DEF TotalAgrees
  <1>5. CASE pager.req.route \in {"audit", "findings"}
    <2> SUFFICES ASSUME Apart(rows, LAMBDA r, s : r.item = s.item)
                 PROVE  query.total = Cardinality(pager.shown)
      BY <1>5 DEF TotalAgrees
    <2>1. pager.first = rows /\ pager.shown \subseteq ItemsOf(rows)
      BY <1>1, <1>2, <1>5 DEF Listed
    <2>2. Steady
      BY <1>5 DEF Steady
    <2>3. \A r \in rows : r.item \in pager.shown
      BY <1>1, <1>5, <2>1, <2>2 DEF PagesInv, RowsInv, RowsListed, Through, Tied
    <2>4. pager.shown = ItemsOf(rows)
      BY <2>1, <2>3 DEF ItemsOf
    <2>5. n = Cardinality(rows)
      BY <1>1, <1>5 DEF CountIn
    <2>6. rows \in SUBSET Row
      BY DEF Selected
    <2>7. \A r, s \in rows : r.item = s.item => r = s
      BY DEF Apart
    <2>8. Cardinality(ItemsOf(rows)) = Cardinality(rows)
      BY <2>6, <2>7, ItemsCounted
    <2> QED
      BY <1>3, <2>4, <2>5, <2>8
  <1> QED
    BY <1>1, <1>4, <1>5 DEF Route

\* A reader who went through to the empty page has been shown all that was there when
\* she began and is still selected, unless a merge or the window moved it, or its
\* order is open; and all groups when nothing changed.
THEOREM PagesAreComplete == Spec => []PagesComplete
PROOF
  BY PagesInvariant, InvPagesComplete, PTL

\* The number next to the pages is how many they show, when nothing changed: FINAL
\* counts what is left when duplicates are dropped.
THEOREM TotalsAgree == Spec => []TotalAgrees
PROOF
  BY PagesInvariant, InvTotalAgrees, PTL

-----------------------------------------------------------------------------
(* The networks of a search *)

\* Division of numbers.
LEMMA Quotient ==
  ASSUME NEW d \in Nat \ {0}, NEW x \in Nat
  PROVE  /\ x \div d \in Nat /\ x % d \in 0..d - 1
         /\ x % d = x - d * (x \div d)
PROOF
  <1>1. x \div d \in Nat
    OBVIOUS
  <1>2. x % d \in 0..d - 1
    OBVIOUS
  <1>3. x % d = x - d * (x \div d)
    OBVIOUS
  <1> QED
    BY <1>1, <1>2, <1>3

LEMMA QuotientIs ==
  ASSUME NEW d \in Nat \ {0}, NEW x \in Nat, NEW q \in Int, d * q <= x, x < d * q + d
  PROVE  x \div d = q
PROOF
  OBVIOUS

\* The numbers with one quotient are a block.
LEMMA InBlock ==
  ASSUME NEW d \in Nat \ {0}, NEW a \in Nat, NEW x \in Nat
  PROVE  /\ a - (a % d) \in Nat
         /\ x >= a - (a % d) /\ x <= a - (a % d) + d - 1 <=> x \div d = a \div d
PROOF
  <1> DEFINE q == a \div d
  <1>1. a % d = a - d * q /\ q \in Nat
    BY Quotient
  <1>2. x % d \in 0..d - 1 /\ x % d = x - d * (x \div d)
    BY Quotient
  <1>3. a - (a % d) = d * q /\ d * q \in Nat
    BY <1>1
  <1>4. ASSUME x >= d * q, x <= d * q + d - 1 PROVE x \div d = q
    <2> HIDE DEF q
    <2>1. q \in Int /\ d * q <= x /\ x < d * q + d
      BY <1>1, <1>3, <1>4
    <2> QED
      BY <2>1, QuotientIs
  <1>5. ASSUME x \div d = q PROVE x >= d * q /\ x <= d * q + d - 1
    <2> HIDE DEF q
    <2> QED
      BY <1>1, <1>2, <1>3, <1>5
  <1> HIDE DEF q
  <1>6. x >= a - (a % d) /\ x <= a - (a % d) + d - 1 <=> x \div d = q
    BY <1>3, <1>4, <1>5
  <1> QED
    BY <1>3, <1>6 DEF q

LEMMA Shifted ==
  ASSUME NEW d \in Nat \ {0}, NEW m \in Nat, NEW y \in Nat
  PROVE  (d * m + y) \div d = m + (y \div d)
PROOF
  <1> DEFINE q == y \div d
             x == d * m + y
  <1>1. q \in Nat /\ y % d \in 0..d - 1 /\ y % d = y - d * q
    BY Quotient
  <1> HIDE DEF q
  <1>2. d * (m + q) = d * m + d * q /\ d * m \in Nat
    BY <1>1
  <1>3. x \in Nat /\ d * (m + q) <= x /\ x < d * (m + q) + d
    BY <1>1, <1>2
  <1> HIDE DEF x
  <1>4. x \div d = m + q
    <2>1. m + q \in Int
      BY <1>1
    <2> QED
      BY <1>3, <2>1, QuotientIs
  <1> QED
    BY <1>4 DEF x, q

\* Powers of two.
LEMMA Pow2Steps ==
  /\ Pow2 \in [0..V6Bits -> Nat \ {0}] /\ Pow2[0] = 1
  /\ \A n \in 1..V6Bits : Pow2[n] = 2 * Pow2[n - 1]
PROOF
  <1> DEFINE X == Nat \ {0}
             step == [p \in (1..V6Bits) \X X |-> 2 * p[2]]
             IsPow(f) == f = [n \in 0..V6Bits |-> IF n = 0 THEN 1 ELSE 2 * f[n - 1]]
             pow == CHOOSE f : IsPow(f)
  <1>1. V6Bits \in Nat
    BY FiltersAssumption
  <1>2. step \in [(1..V6Bits) \X X -> X] /\ 1 \in X
    OBVIOUS
  <1>3. \A n \in 1..V6Bits, x \in X : step[<<n, x>>] = 2 * x
    OBVIOUS
  <1> HIDE DEF step
  <1>4. PICK f : IsRecursion(f, V6Bits, X, 1, step)
    BY <1>1, <1>2, RecursionExists
  <1>5. f \in [0..V6Bits -> X] /\ f[0] = 1 /\ \A n \in 1..V6Bits : f[n] = 2 * f[n - 1]
    <2>1. \A n \in 1..V6Bits : n - 1 \in 0..V6Bits
      BY <1>1
    <2> QED
      BY <1>3, <1>4, <2>1 DEF IsRecursion
  <1>6. IsPow(f)
    <2>1. \A n \in 0..V6Bits : n = 0 \/ n \in 1..V6Bits
      BY <1>1
    <2> QED
      BY <1>5, <2>1
  <1>7. Pow2 = pow
    BY DEF Pow2
  <1>8. IsPow(pow)
    <2> HIDE DEF IsPow
    <2> QED
      BY <1>6
  <1> HIDE DEF pow
  <1>9. /\ pow[0] = 1 /\ DOMAIN pow = 0..V6Bits
        /\ \A n \in 1..V6Bits : n \in 0..V6Bits /\ n - 1 \in 0..V6Bits /\ pow[n] = 2 * pow[n - 1]
    BY <1>1, <1>8
  <1>10. 0..V6Bits \subseteq {n \in 0..V6Bits : pow[n] \in X}
    <2> DEFINE S == {n \in 0..V6Bits : pow[n] \in X}
    <2>1. 0 \in S
      BY <1>1, <1>9
    <2>2. ASSUME NEW n \in 0..V6Bits - 1, n \in S PROVE n + 1 \in S
      <3>1. n + 1 \in 1..V6Bits /\ (n + 1) - 1 = n
        BY <1>1
      <3>2. pow[n + 1] = 2 * pow[n]
        BY <1>9, <3>1
      <3> QED
        BY <2>2, <3>1, <3>2
    <2> HIDE DEF S
    <2>3. 0..V6Bits \subseteq S
      BY <1>1, <2>1, <2>2, UpToInduction
    <2> QED
      BY <2>3 DEF S
  <1>11. pow \in [0..V6Bits -> X]
    BY <1>8, <1>9, <1>10
  <1> QED
    BY <1>7, <1>9, <1>11

\* A larger power is a multiple of a smaller one.
LEMMA Pow2Multiple ==
  ASSUME NEW n \in 0..V6Bits, NEW k \in 0..n
  PROVE  \E j \in Nat \ {0} : Pow2[n] = Pow2[k] * j
PROOF
  <1>0. n \in Nat /\ k \in Nat /\ V6Bits \in Nat
    BY FiltersAssumption
  <1> DEFINE S == {i \in 0..n - k : \E j \in Nat \ {0} : Pow2[k + i] = Pow2[k] * j}
  <1>1. 0 \in S
    <2>1. Pow2[k + 0] = Pow2[k] * 1
      BY <1>0, Pow2Steps
    <2> QED
      BY <1>0, <2>1
  <1>2. ASSUME NEW i \in 0..(n - k) - 1, i \in S PROVE i + 1 \in S
    <2>1. PICK j \in Nat \ {0} : Pow2[k + i] = Pow2[k] * j
      BY <1>2
    <2>2. k + i + 1 \in 1..V6Bits /\ (k + i + 1) - 1 = k + i /\ k + (i + 1) = k + i + 1 /\ i + 1 \in 0..n - k
      BY <1>0
    <2>3. Pow2[k + (i + 1)] = 2 * Pow2[k + i]
      BY <2>2, Pow2Steps
    <2>4. 2 * (Pow2[k] * j) = Pow2[k] * (2 * j)
      <3>1. Pow2[k] \in Nat
        BY <1>0, Pow2Steps
      <3> QED
        BY <3>1
    <2>5. Pow2[k + (i + 1)] = Pow2[k] * (2 * j) /\ 2 * j \in Nat \ {0}
      BY <2>1, <2>3, <2>4
    <2> QED
      BY <2>2, <2>5
  <1>3. n - k \in S
    <2>1. n - k \in Nat
      BY <1>0
    <2>2. 0..n - k \subseteq S
      <3> HIDE DEF S
      <3> QED
        BY <1>1, <1>2, <2>1, UpToInduction
    <2> HIDE DEF S
    <2> QED
      BY <2>1, <2>2
  <1> QED
    BY <1>0, <1>3

LEMMA MappedMultiple ==
  /\ Mapped \in Nat
  /\ \A k \in 0..V4Bits : \E m \in Nat : Mapped = Pow2[k] * m
PROOF
  <1>1. V6Bits \in Nat /\ V4Bits \in 0..V6Bits /\ V4Bits \in Nat /\ V6Bits \in 0..V6Bits
    BY FiltersAssumption
  <1>2. ASSUME NEW k \in 0..V4Bits PROVE \E m \in Nat : Mapped = Pow2[k] * m
    <2>1. k \in 0..V6Bits /\ Pow2[k] \in Nat \ {0}
      BY <1>1, Pow2Steps
    <2>2. PICK i \in Nat \ {0} : Pow2[V4Bits] = Pow2[k] * i
      BY <1>1, Pow2Multiple
    <2>3. PICK j \in Nat \ {0} : Pow2[V6Bits] = Pow2[V4Bits] * j
      BY <1>1, Pow2Multiple
    <2> DEFINE d == Pow2[k]
               m == i * (j - 1)
    <2>4. m \in Nat
      BY <2>2, <2>3
    <2>5. Mapped = (d * i) * j - d * i
      BY <2>2, <2>3 DEF Mapped
    <2> HIDE DEF d
    <2>6. d \in Nat
      BY <2>1 DEF d
    <2>7. (d * i) * j - d * i = d * (i * (j - 1))
      BY <2>6
    <2> QED
      BY <2>4, <2>5, <2>7 DEF d
  <1>3. Mapped \in Nat
    <2>1. PICK m \in Nat : Mapped = Pow2[0] * m
      BY <1>1, <1>2
    <2> QED
      BY <2>1, Pow2Steps
  <1> QED
    BY <1>2, <1>3

LEMMA QuotientBound ==
  ASSUME NEW d \in Nat \ {0}, NEW m \in Nat, NEW x \in Nat, x < d * m
  PROVE  x \div d < m
PROOF
  <1> DEFINE q == x \div d
  <1>1. q \in Nat /\ x % d \in 0..d - 1 /\ x % d = x - d * q
    BY Quotient
  <1> HIDE DEF q
  <1>2. d * q <= x
    BY <1>1
  <1>3. ASSUME q >= m PROVE FALSE
    <2>1. d * q >= d * m
      BY <1>1, <1>3
    <2> QED
      BY <1>1, <1>2, <2>1
  <1>4. q < m
    BY <1>1, <1>3
  <1> QED
    BY <1>4 DEF q

\* The addresses of a block of IPv4 lie together after Mapped.
SameBlock(d, m, a, ip) ==
  ip \div d = (d * m + a) \div d <=> ip >= d * m /\ (ip - d * m) \div d = a \div d

LEMMA ShiftedBlock ==
  ASSUME NEW d \in Nat \ {0}, NEW m \in Nat, NEW a \in Nat, NEW ip \in Nat
  PROVE  SameBlock(d, m, a, ip)
PROOF
  <1> DEFINE qa == a \div d
             q == ip \div d
             qs == (ip - d * m) \div d
             qx == (d * m + a) \div d
  <1>0. d * m \in Nat
    OBVIOUS
  <1>1. qa \in Nat /\ qx = m + qa
    BY Quotient, Shifted
  <1>2. ASSUME ip >= d * m PROVE qs \in Nat /\ q = m + qs
    <2> DEFINE y == ip - d * m
    <2>1. y \in Nat /\ ip = d * m + y
      BY <1>0, <1>2
    <2>2. (d * m + y) \div d = m + (y \div d) /\ y \div d \in Nat
      <3> HIDE DEF y
      <3> QED
        BY <2>1, Quotient, Shifted
    <2> QED
      BY <2>1, <2>2
  <1>3. ASSUME ip < d * m PROVE q < m /\ q \in Nat
    BY <1>3, Quotient, QuotientBound
  <1> HIDE DEF qa, q, qs, qx
  <1>4. q = qx <=> ip >= d * m /\ qs = qa
    <2>1. CASE ip >= d * m
      BY <1>1, <1>2, <2>1
    <2>2. CASE ip < d * m
      BY <1>0, <1>1, <1>3, <2>2
    <2> QED
      BY <1>0, <2>1, <2>2
  <1> QED
    BY <1>4 DEF qa, q, qs, qx, SameBlock

\* Different addresses are written differently.
LEMMA WrittenApart ==
  ASSUME NEW x \in Address, NEW y \in Address, Written(x) = Written(y)
  PROVE  x = y
PROOF
  <1>1. Mapped \in Nat /\ x \in Nat /\ y \in Nat
    BY MappedMultiple DEF Address
  <1>2. Written(x).v4 = Written(y).v4 /\ Written(x).addr = Written(y).addr
    OBVIOUS
  <1> QED
    BY <1>1, <1>2 DEF Written

\* The address of a network, in the bits of IPv6.
Addr(p) == IF p.v4 THEN Mapped + p.addr ELSE p.addr

LEMMA AddrIs ==
  ASSUME NEW p \in Network
  PROVE  Addr(p) \in Address
PROOF
  <1>1. Mapped \in Nat /\ p.addr \in Nat /\ p.v4 \in BOOLEAN
    BY MappedMultiple DEF Network
  <1>2. V4Bits \in 0..V6Bits /\ V6Bits \in 0..V6Bits
    BY FiltersAssumption
  <1>3. Pow2[V4Bits] \in Nat /\ Pow2[V6Bits] \in Nat
    BY <1>2, Pow2Steps
  <1>4. p.addr < Pow2[IF p.v4 THEN V4Bits ELSE V6Bits]
    BY DEF Network
  <1> QED
    BY <1>1, <1>3, <1>4 DEF Addr, Address, Mapped

\* The range of a network holds the addresses in it.
LEMMA InRange ==
  ASSUME NEW p \in Network, NEW ip \in Address
  PROVE  ip >= IpRange(ParseCIDR(p)).lo /\ ip <= IpRange(ParseCIDR(p)).hi <=> InNetwork(ip, p)
PROOF
  <1> DEFINE bits == IF IsAddress(p) THEN V6Bits ELSE IF p.v4 THEN p.bits + V6Bits - V4Bits ELSE p.bits
             a == Addr(p)
             d == Pow2[V6Bits - bits]
  <1>1. V6Bits \in Nat /\ V4Bits \in Nat /\ V4Bits <= V6Bits /\ p.bits \in Nat /\ p.v4 \in BOOLEAN /\ p.addr \in Nat
    BY FiltersAssumption DEF Network
  <1>2. bits \in 0..V6Bits /\ V6Bits - bits \in 0..V6Bits
    BY <1>1 DEF IsAddress
  <1>3. d \in Nat \ {0}
    BY <1>2, Pow2Steps
  <1>4. a \in Address /\ a \in Nat /\ ip \in Nat
    BY AddrIs DEF Address
  <1>5. /\ IpRange(ParseCIDR(p)).lo = a - (a % d)
        /\ IpRange(ParseCIDR(p)).hi = (a - (a % d)) + d - 1
    BY DEF ParseCIDR, IpRange, Addr
  <1>6. ip >= a - (a % d) /\ ip <= a - (a % d) + d - 1 <=> ip \div d = a \div d
    <2> HIDE DEF a, d
    <2> QED
      BY <1>3, <1>4, InBlock
  <1>7. ip \div d = a \div d <=> InNetwork(ip, p)
    <2>1. CASE IsAddress(p)
      <3>1. d = 1
        BY <1>1, <2>1, Pow2Steps
      <3>2. ip \div d = ip /\ a \div d = a
        <4> HIDE DEF a, d
        <4> QED
          BY <1>4, <3>1
      <3>3. InNetwork(ip, p) <=> Written(ip) = Written(a)
        BY <2>1 DEF InNetwork, Addr
      <3> HIDE DEF a, d
      <3> QED
        BY <1>4, <3>2, <3>3, WrittenApart
    <2>2. CASE ~IsAddress(p) /\ p.v4
      <3> DEFINE c == V4Bits - p.bits
      <3>1. V6Bits - bits = c /\ c \in 0..V4Bits
        BY <1>1, <2>2 DEF IsAddress
      <3>2. PICK m \in Nat : Mapped = Pow2[c] * m
        BY <3>1, MappedMultiple
      <3>3. d = Pow2[c] /\ a = d * m + p.addr /\ Mapped = d * m
        BY <2>2, <3>1, <3>2 DEF Addr
      <3>4. InNetwork(ip, p) <=> ip >= d * m /\ (ip - d * m) \div d = p.addr \div d
        BY <2>2, <3>3 DEF InNetwork, Begins
      <3> HIDE DEF a, d
      <3>5. ip \div d = (d * m + p.addr) \div d <=> ip >= d * m /\ (ip - d * m) \div d = p.addr \div d
        <4>1. d \in Nat \ {0} /\ m \in Nat /\ p.addr \in Nat /\ ip \in Nat
          BY <1>1, <1>3, <1>4, <3>2
        <4>2. SameBlock(d, m, p.addr, ip)
          BY <4>1, ShiftedBlock, Zenon
        <4> QED
          BY <4>2 DEF SameBlock
      <3> QED
        BY <3>3, <3>4, <3>5
    <2>3. CASE ~IsAddress(p) /\ ~p.v4
      BY <2>3 DEF InNetwork, Begins, Addr
    <2> QED
      BY <2>1, <2>2, <2>3
  <1> HIDE DEF a, d
  <1> QED
    BY <1>5, <1>6, <1>7

LEMMA AppendShows ==
  ASSUME NEW T, NEW x \in Seq(T), NEW i \in T
  PROVE  /\ Append(x, i) \in Seq(T) /\ Len(Append(x, i)) = Len(x) + 1
         /\ ToSet(Append(x, i)) = ToSet(x) \cup {i}
         /\ Contains(x, i) <=> i \in ToSet(x)
PROOF
  <1> DEFINE y == Append(x, i)
  <1>1. y \in Seq(T) /\ Len(y) = Len(x) + 1 /\ Len(x) \in Nat
    OBVIOUS
  <1>2. (\A k \in 1..Len(x) : y[k] = x[k]) /\ y[Len(x) + 1] = i
    OBVIOUS
  <1>3. DOMAIN y = 1..Len(x) + 1 /\ DOMAIN x = 1..Len(x)
    BY <1>1
  <1> HIDE DEF y
  <1>4. ToSet(y) = {y[k] : k \in 1..Len(x) + 1} /\ ToSet(x) = {x[k] : k \in 1..Len(x)}
    BY <1>3 DEF ToSet
  <1>5. ToSet(y) = ToSet(x) \cup {i}
    BY <1>1, <1>2, <1>4
  <1>6. Contains(x, i) <=> i \in ToSet(x)
    BY <1>4 DEF Contains
  <1> QED
    BY <1>1, <1>5, <1>6 DEF y

\* The networks that can be parsed, when they are not too many, are all taken.
LEMMA AllParsed ==
  ASSUME NEW raw \in Seq(Network), Cardinality({p \in ToSet(raw) : p.ok}) <= MaxCIDRs
  PROVE  LET V == {ParseCIDR(p) : p \in {p \in ToSet(raw) : p.ok}}
         IN ParseCIDRs(raw) \in Seq(V) /\ ToSet(ParseCIDRs(raw)) = V
PROOF
  <1> DEFINE n == Len(raw)
             valid == {p \in ToSet(raw) : p.ok}
             V == {ParseCIDR(p) : p \in valid}
             s == [k \in 1..n |-> ParseCIDR(raw[k])]
             add(x, p) == IF Len(x) < MaxCIDRs /\ (p.ok /\ ~Contains(x, p)) THEN Append(x, p) ELSE x
             X == Seq(V)
             step == [p \in (1..n) \X X |-> add(p[2], s[p[1]])]
             IsIter(g) == g = [t \in SUBSET (1..n) |->
                                 IF t = {} THEN <<>> ELSE add(g[t \ {Max(t)}], s[Max(t)])]
             iter == CHOOSE g : IsIter(g)
  <1> SUFFICES ParseCIDRs(raw) \in X /\ ToSet(ParseCIDRs(raw)) = V
    OBVIOUS
  <1>1. n \in Nat /\ DOMAIN raw = 1..n /\ (\A k \in 1..n : raw[k] \in Network) /\ <<>> \in X
    OBVIOUS
  <1>2. ParseCIDRs(raw) = iter[1..n]
    <2>1. DOMAIN s = 1..n /\ s = [k \in DOMAIN raw |-> ParseCIDR(raw[k])]
      BY <1>1
    <2> HIDE DEF s
    <2> QED
      BY <2>1 DEF ParseCIDRs, Taken, FoldLeft, MapThenFoldSet
  <1>3. \A k \in 1..n : raw[k].ok \in BOOLEAN /\ s[k].ok = raw[k].ok /\ s[k] = ParseCIDR(raw[k]) /\ raw[k] \in ToSet(raw)
    BY <1>1 DEF Network, ParseCIDR, ToSet
  <1>4. \A p \in valid : \E k \in 1..n : p = raw[k]
    BY <1>1 DEF ToSet
  <1>5. IsFiniteSet(V) /\ Cardinality(V) \in Nat /\ Cardinality(V) <= MaxCIDRs
    <2> DEFINE f == [p \in valid |-> ParseCIDR(p)]
    <2>1. IsFiniteSet(valid)
      <3>1. IsFiniteSet(ToSet(raw))
        <4>1. IsFiniteSet(1..n) /\ ToSet(raw) = {raw[k] : k \in 1..n}
          BY <1>1, FS_Interval DEF ToSet
        <4> HIDE DEF n
        <4>2. IsFiniteSet({raw[k] : k \in 1..n})
          BY <1>1, <4>1, ImageFinite
        <4> QED
          BY <4>1, <4>2
      <3>2. valid \in SUBSET ToSet(raw)
        OBVIOUS
      <3> QED
        BY <3>1, <3>2, FS_Subset
    <2>2. f \in Surjection(valid, V)
      BY DEF Surjection
    <2> HIDE DEF f, V, valid
    <2>3. IsFiniteSet(V) /\ Cardinality(V) <= Cardinality(valid)
      BY <2>1, <2>2, FS_Surjection
    <2>4. Cardinality(valid) <= MaxCIDRs
      BY DEF valid
    <2>5. Cardinality(V) \in Nat /\ Cardinality(valid) \in Nat /\ MaxCIDRs \in Nat
      BY <2>1, <2>3, FS_CardinalityType, FiltersAssumption
    <2> QED
      BY <2>3, <2>4, <2>5
  <1>6. \A k \in 1..n : s[k].ok => s[k] \in V
    BY <1>3
  <1> HIDE DEF n, s
  <1> DEFINE Good(x, k) == /\ x \in X /\ Len(x) = Cardinality(ToSet(x))
                           /\ \A j \in 1..k : s[j].ok => s[j] \in ToSet(x)
  <1>7. ASSUME NEW x \in X PROVE ToSet(x) \in SUBSET V
    BY DEF ToSet
  <1>8. ASSUME NEW x \in X, NEW k \in 1..n PROVE add(x, s[k]) \in X
    BY <1>6, <1>8, AppendShows
  <1>9. ASSUME NEW x, NEW k \in 0..n - 1, Good(x, k) PROVE Good(add(x, s[k + 1]), k + 1)
    <2> DEFINE p == s[k + 1]
    <2>1. k + 1 \in 1..n /\ x \in X
      BY <1>1, <1>9
    <2>2. add(x, p) \in X
      BY <1>8, <2>1
    <2>3. ToSet(x) \in SUBSET V /\ IsFiniteSet(ToSet(x)) /\ Cardinality(ToSet(x)) \in Nat
          /\ Cardinality(ToSet(x)) <= Cardinality(V) /\ (Cardinality(V) = Cardinality(ToSet(x)) => V = ToSet(x))
      <3>1. ToSet(x) \in SUBSET V
        BY <1>7, <2>1
      <3> HIDE DEF V
      <3> QED
        BY <1>5, <3>1, FS_Subset, FS_CardinalityType
    <2>4. \A j \in 1..k + 1 : j \in 1..k \/ j = k + 1
      BY <1>1
    <2>5. CASE ~p.ok
      <3>1. add(x, p) = x
        BY <2>5
      <3>2. \A j \in 1..k + 1 : s[j].ok => s[j] \in ToSet(x)
        BY <1>9, <2>4, <2>5
      <3> HIDE DEF add, p
      <3> QED
        BY <1>9, <3>1, <3>2 DEF p
    <2>6. CASE p.ok /\ p \in ToSet(x)
      <3>1. Contains(x, p)
        BY <2>1, <2>6 DEF Contains, ToSet
      <3>2. add(x, p) = x
        BY <3>1
      <3>3. \A j \in 1..k + 1 : s[j].ok => s[j] \in ToSet(x)
        BY <1>9, <2>4, <2>6
      <3> HIDE DEF add, p
      <3> QED
        BY <1>9, <3>2, <3>3 DEF p
    <2>7. CASE p.ok /\ p \notin ToSet(x)
      <3>1. p \in V
        BY <1>6, <2>1, <2>7
      <3>2. V # ToSet(x)
        BY <2>7, <3>1
      <3>3. Len(x) < MaxCIDRs
        <4> HIDE DEF V
        <4>1. Cardinality(ToSet(x)) < MaxCIDRs
          BY <1>5, <2>3, <3>2, FiltersAssumption
        <4> QED
          BY <1>9, <4>1
      <3>4. /\ Append(x, p) \in X /\ Len(Append(x, p)) = Len(x) + 1
            /\ ToSet(Append(x, p)) = ToSet(x) \cup {p} /\ ~Contains(x, p)
        <4> HIDE DEF p, V
        <4> QED
          BY <2>1, <2>7, <3>1, AppendShows
      <3>5. add(x, p) = Append(x, p)
        BY <2>7, <3>3, <3>4
      <3>6. Cardinality(ToSet(x) \cup {p}) = Cardinality(ToSet(x)) + 1
        BY <2>3, <2>7, FS_AddElement
      <3>7. \A j \in 1..k + 1 : s[j].ok => s[j] \in ToSet(x) \cup {p}
        BY <1>9, <2>4
      <3> HIDE DEF add, p
      <3>8. Good(Append(x, p), k + 1)
        BY <1>9, <3>4, <3>6, <3>7
      <3> QED
        BY <3>5, <3>8 DEF p
    <2> QED
      BY <2>5, <2>6, <2>7
  <1>10. Good(<<>>, 0)
    <2>1. ToSet(<<>>) = {} /\ Cardinality({}) = 0
      BY FS_EmptySet DEF ToSet
    <2>2. <<>> \in X /\ Len(<<>>) = 0 /\ \A j \in 1..0 : FALSE
      BY <1>1
    <2>3. Len(<<>>) = Cardinality(ToSet(<<>>))
      BY <2>1, <2>2
    <2> HIDE DEF X
    <2> QED
      BY <2>2, <2>3
  <1> HIDE DEF add
  <1>11. step \in [(1..n) \X X -> X]
    BY <1>8
  <1>12. \A k \in 1..n, x \in X : step[<<k, x>>] = add(x, s[k])
    OBVIOUS
  <1> HIDE DEF step, X
  <1>13. PICK h \in [SUBSET (1..n) -> X] : IsFoldLeft(h, n, <<>>, step)
    BY <1>1, <1>11, FoldLeftExists
  <1>14. ASSUME NEW t \in SUBSET (1..n)
        PROVE  h[t] = IF t = {} THEN <<>> ELSE add(h[t \ {Max(t)}], s[Max(t)])
    <2>1. h[t] = IF t = {} THEN <<>> ELSE step[<<Max(t), h[t \ {Max(t)}]>>]
      BY <1>13 DEF IsFoldLeft
    <2>2. t # {} => Max(t) \in 1..n
      BY <1>1, MaxInRange
    <2>3. h[t \ {Max(t)}] \in X
      BY <1>13
    <2> QED
      BY <1>12, <2>1, <2>2, <2>3
  <1>15. IsIter(h)
    BY <1>13, <1>14
  <1>16. IsIter(iter)
    <2> HIDE DEF IsIter
    <2> QED
      BY <1>15
  <1> HIDE DEF iter
  <1>17. IsFoldIn(iter, n, X, <<>>, step)
    <2>1. ASSUME NEW t \in SUBSET (1..n), t # {}, iter[t \ {Max(t)}] \in X
          PROVE  iter[t] = step[<<Max(t), iter[t \ {Max(t)}]>>]
      <3>1. Max(t) \in 1..n
        BY <1>1, <2>1, MaxInRange
      <3>2. iter[t] = add(iter[t \ {Max(t)}], s[Max(t)])
        BY <1>16, <2>1
      <3> QED
        BY <1>12, <2>1, <3>1, <3>2
    <2> QED
      BY <1>16, <2>1 DEF IsFoldIn
  <1> HIDE DEF IsIter
  <1>18. /\ iter[{}] = <<>> /\ \A k \in 0..n : iter[1..k] \in X
         /\ \A k \in 1..n : iter[1..k] = step[<<k, iter[1..k - 1]>>]
    <2>1. n \in Nat /\ <<>> \in X
      BY <1>1 DEF X
    <2>2. \A k \in 0..n : iter[1..k] \in X
      BY <1>11, <1>17, <2>1, FoldLeftValues
    <2>3. ASSUME NEW k \in 1..n PROVE iter[1..k] = step[<<k, iter[1..k - 1]>>]
      <3>0. n \in Nat /\ k \in Nat /\ 1 <= k /\ k <= n
        BY <1>1
      <3>1. 1..k \in SUBSET (1..n) /\ k \in 1..k /\ k - 1 \in 0..n
        BY <3>0
      <3>2. Max(1..k) = k /\ (1..k) \ {k} = 1..k - 1
        BY <1>1, LastOfRange
      <3>3. iter[1..k - 1] \in X
        BY <2>2, <3>1
      <3>4. iter[(1..k) \ {Max(1..k)}] = iter[1..k - 1]
        BY <3>2, Zenon
      <3>5. iter[1..k] = step[<<Max(1..k), iter[(1..k) \ {Max(1..k)}]>>]
        BY <1>17, <3>1, <3>3, <3>4 DEF IsFoldIn
      <3> QED
        BY <3>2, <3>5, Zenon
    <2>4. iter[{}] = <<>>
      BY <1>17 DEF IsFoldIn
    <2> QED
      BY <2>2, <2>3, <2>4
  <1> DEFINE P == {k \in 0..n : Good(iter[1..k], k)}
  <1>19. 0 \in P
    <2>1. 1..0 = {}
      OBVIOUS
    <2>2. iter[1..0] = <<>>
      BY <1>18, <2>1, Zenon
    <2> HIDE DEF Good
    <2> QED
      BY <1>1, <1>10, <2>2
  <1>20. ASSUME NEW k \in 0..n - 1, k \in P PROVE k + 1 \in P
    <2>1. k + 1 \in 1..n /\ k + 1 \in 0..n /\ (k + 1) - 1 = k /\ k \in 0..n
      BY <1>1
    <2>2. iter[1..k + 1] = add(iter[1..k], s[k + 1])
      <3>1. iter[1..k] \in X
        BY <1>18, <2>1
      <3>2. iter[1..k + 1] = step[<<k + 1, iter[1..k]>>]
        BY <1>18, <2>1
      <3> QED
        BY <1>12, <2>1, <3>1, <3>2
    <2> HIDE DEF Good
    <2> QED
      BY <1>9, <1>20, <2>1, <2>2
  <1>21. Good(iter[1..n], n)
    <2>1. 0..n \subseteq P
      <3> HIDE DEF P
      <3> QED
        BY <1>1, <1>19, <1>20, UpToInduction
    <2> HIDE DEF Good
    <2> QED
      BY <1>1, <2>1
  <1>22. V \subseteq ToSet(iter[1..n])
    <2>1. \A v \in V : \E k \in 1..n : v = s[k] /\ s[k].ok
      <3> TAKE v \in V
      <3>1. PICK p \in valid : v = ParseCIDR(p)
        OBVIOUS
      <3>2. PICK k \in 1..n : p = raw[k]
        BY <1>4
      <3> QED
        BY <1>3, <3>1, <3>2
    <2> HIDE DEF V
    <2> QED
      BY <1>21, <2>1
  <1> QED
    BY <1>2, <1>7, <1>21, <1>22

\* A search finds the addresses of its networks.
LEMMA AddressFound ==
  ASSUME NEW raw \in Seq(Network), Cardinality({p \in ToSet(raw) : p.ok}) <= MaxCIDRs,
         NEW a, a.ip \in Address
  PROVE  LET valid == {p \in ToSet(raw) : p.ok}
             cidrs == ParseCIDRs(raw)
         IN /\ cidrs = <<>> <=> valid = {}
            /\ HasAddress(a, cidrs) <=> \E p \in valid : InNetwork(a.ip, p)
PROOF
  <1> DEFINE valid == {p \in ToSet(raw) : p.ok}
             V == {ParseCIDR(p) : p \in valid}
             cidrs == ParseCIDRs(raw)
  <1> SUFFICES /\ cidrs = <<>> <=> valid = {}
               /\ HasAddress(a, cidrs) <=> \E p \in valid : InNetwork(a.ip, p)
    OBVIOUS
  <1>1. cidrs \in Seq(V) /\ ToSet(cidrs) = V
    BY AllParsed
  <1>2. valid \subseteq Network
    BY DEF ToSet
  <1> DEFINE In(c) == a.ip >= IpRange(c).lo /\ a.ip <= IpRange(c).hi
  <1>3. \A p \in valid : In(ParseCIDR(p)) <=> InNetwork(a.ip, p)
    BY <1>2, InRange
  <1> HIDE DEF valid, cidrs
  <1>4. cidrs = <<>> <=> V = {}
    <2>1. ToSet(cidrs) = {cidrs[k] : k \in 1..Len(cidrs)} /\ Len(cidrs) \in Nat
      BY <1>1 DEF ToSet
    <2>2. cidrs = <<>> <=> Len(cidrs) = 0
      BY <1>1
    <2>3. Len(cidrs) = 0 <=> ToSet(cidrs) = {}
      <3>1. CASE Len(cidrs) = 0
        BY <2>1, <3>1
      <3>2. CASE Len(cidrs) # 0
        <4>1. 1 \in 1..Len(cidrs)
          BY <2>1, <3>2
        <4> QED
          BY <2>1, <3>2, <4>1
      <3> QED
        BY <3>1, <3>2
    <2> QED
      BY <1>1, <2>2, <2>3
  <1>5. V = {} <=> valid = {}
    OBVIOUS
  <1>6. HasAddress(a, cidrs) <=> \E c \in ToSet(cidrs) : In(c)
    BY DEF HasAddress, ToSet
  <1>7. (\E c \in V : In(c)) <=> \E p \in valid : In(ParseCIDR(p))
    <2> HIDE DEF In
    <2> QED
      OBVIOUS
  <1> HIDE DEF In, V
  <1> QED
    BY <1>1, <1>3, <1>4, <1>5, <1>6, <1>7

\* The networks of a search are one of its conditions: f with them, h without.
OneCondition(f, h, a, inTime) ==
  LET g == Normalize("audit", f)
      bare == Normalize("audit", h)
  IN /\ g.cidrs = ParseCIDRs(f.cidrs) /\ bare.cidrs = ParseCIDRs(h.cidrs)
     /\ bare.cidrs = <<>> =>
          (Where("audit", g, a, inTime) <=>
             Where("audit", bare, a, inTime) /\ (g.cidrs # <<>> => HasAddress(a, g.cidrs)))

LEMMA WhereNetworks ==
  ASSUME NEW f, DOMAIN f = DOMAIN NoFilter, f.ray = "", NEW h, h = [f EXCEPT !.cidrs = <<>>],
         NEW a, NEW inTime \in BOOLEAN
  PROVE  OneCondition(f, h, a, inTime)
PROOF
  <1> DEFINE g == Normalize("audit", f)
             bare == Normalize("audit", h)
  <1> SUFFICES /\ g.cidrs = ParseCIDRs(f.cidrs) /\ bare.cidrs = ParseCIDRs(h.cidrs)
               /\ bare.cidrs = <<>> =>
                    (Where("audit", g, a, inTime) <=>
                       Where("audit", bare, a, inTime) /\ (g.cidrs # <<>> => HasAddress(a, g.cidrs)))
    BY DEF OneCondition
  <1>1. DOMAIN f = {"ray", "node", "phase", "verdict", "host", "uri", "routes", "marker", "user", "vars", "headers", "cidrs"}
    BY DEF NoFilter
  <1>2. /\ DOMAIN h = DOMAIN f /\ h.cidrs = <<>> /\ h.ray = f.ray /\ h.node = f.node /\ h.phase = f.phase
        /\ h.verdict = f.verdict /\ h.host = f.host /\ h.uri = f.uri /\ h.routes = f.routes
        /\ h.marker = f.marker /\ h.user = f.user /\ h.vars = f.vars /\ h.headers = f.headers
    BY <1>1
  <1>3. /\ g.cidrs = ParseCIDRs(f.cidrs) /\ g.ray = f.ray /\ g.node = f.node
        /\ g.host = f.host /\ g.uri = f.uri /\ g.marker = f.marker
    BY <1>1 DEF Normalize
  <1>4. /\ bare.cidrs = ParseCIDRs(h.cidrs) /\ bare.ray = f.ray /\ bare.node = f.node
        /\ bare.host = f.host /\ bare.uri = f.uri /\ bare.marker = f.marker
    BY <1>1, <1>2 DEF Normalize
  <1>5. /\ g.phase = bare.phase /\ g.verdict = bare.verdict /\ g.routes = bare.routes /\ g.user = bare.user
        /\ g.vars = bare.vars /\ g.headers = bare.headers
    BY <1>1, <1>2 DEF Normalize
  <1> HIDE DEF g, bare
  <1>6. ASSUME bare.cidrs = <<>>
        PROVE  WhereAudit(g, a, inTime) <=> WhereAudit(bare, a, inTime) /\ (g.cidrs # <<>> => HasAddress(a, g.cidrs))
    BY <1>3, <1>4, <1>5, <1>6, Zenon DEF WhereAudit
  <1>7. Where("audit", g, a, inTime) = WhereAudit(g, a, inTime) /\ Where("audit", bare, a, inTime) = WhereAudit(bare, a, inTime)
    BY DEF Where
  <1> QED
    BY <1>3, <1>4, <1>6, <1>7

\* No networks are none.
LEMMA NothingParsed == ParseCIDRs(<<>>) = <<>>
PROOF
  <1>0. ToSet(<<>>) = {}
    BY DEF ToSet
  <1>1. <<>> \in Seq(Network) /\ {p \in ToSet(<<>>) : p.ok} = {}
    BY <1>0
  <1>2. Cardinality({p \in ToSet(<<>>) : p.ok}) <= MaxCIDRs
    <2>1. Cardinality({}) = 0 /\ 0 <= MaxCIDRs
      BY FS_EmptySet, FiltersAssumption
    <2> QED
      BY <1>1, <2>1
  <1>4. ParseCIDRs(<<>>) \in Seq({ParseCIDR(p) : p \in {p \in ToSet(<<>>) : p.ok}})
    BY <1>1, <1>2, AllParsed
  <1>5. ParseCIDRs(<<>>) \in Seq({})
    BY <1>1, <1>4
  <1>6. ASSUME NEW q \in Seq({}) PROVE q = <<>>
    <2>1. \A k \in 1..Len(q) : q[k] \in {}
      OBVIOUS
    <2>2. Len(q) = 0
      BY <2>1
    <2> QED
      BY <2>2
  <1> QED
    BY <1>5, <1>6

LEMMA InvNetworksKept == TypeOK => NetworksKept
PROOF
  <1> DEFINE req == pager.req
             f == req.filter
             bare == [req EXCEPT !.filter.cidrs = <<>>]
             valid == {p \in ToSet(f.cidrs) : p.ok}
  <1>0. SUFFICES ASSUME TypeOK, req.route = "audit", f.ray = "", Cardinality(valid) <= MaxCIDRs
               PROVE  Selected(req, now) = {r \in Selected(bare, now) :
                         valid = {} \/ \E p \in valid : InNetwork(Attr[r.item].ip, p)}
    BY DEF NetworksKept
  <1>1. req \in Requests
    BY <1>0 DEF TypeOK
  <1>2. DOMAIN f = DOMAIN NoFilter /\ f.cidrs \in Seq(Network) /\ DOMAIN req = {"route", "filter", "limit", "asc", "by", "sort", "dir"}
    BY <1>1, SearchAssumption
  <1>3. bare.route = "audit" /\ bare.filter = [f EXCEPT !.cidrs = <<>>]
    BY <1>0, <1>2
  <1>4. ParseCIDRs(<<>>) = <<>>
    BY NothingParsed
  <1>5. ASSUME NEW r \in Row
        PROVE  LET inTime == r.ts + Window >= now /\ r.ts <= now
                   a == Attr[r.item]
               IN Where("audit", Normalize("audit", f), a, inTime) <=>
                    /\ Where("audit", Normalize("audit", bare.filter), a, inTime)
                    /\ valid = {} \/ \E p \in valid : InNetwork(a.ip, p)
    <2> DEFINE inTime == r.ts + Window >= now /\ r.ts <= now
               a == Attr[r.item]
               g == Normalize("audit", f)
               h == Normalize("audit", bare.filter)
    <2>1. inTime \in BOOLEAN
      OBVIOUS
    <2>2. a.ip \in Address
      BY SearchAssumption DEF Item
    <2> HIDE DEF a, inTime
    <2>3. /\ ParseCIDRs(f.cidrs) = <<>> <=> valid = {}
          /\ HasAddress(a, ParseCIDRs(f.cidrs)) <=> \E p \in valid : InNetwork(a.ip, p)
      <3> HIDE DEF f
      <3> QED
        BY <1>0, <1>2, <2>2, AddressFound
    <2>4. /\ g.cidrs = ParseCIDRs(f.cidrs) /\ h.cidrs = ParseCIDRs(<<>>)
          /\ h.cidrs = <<>> =>
              (Where("audit", g, a, inTime) <=>
                 Where("audit", h, a, inTime) /\ (g.cidrs # <<>> => HasAddress(a, g.cidrs)))
      <3>1. f.ray = ""
        BY <1>0
      <3> DEFINE b == bare.filter
      <3>2. b = [f EXCEPT !.cidrs = <<>>]
        BY <1>3
      <3> HIDE DEF f, b
      <3>3. OneCondition(f, b, a, inTime)
        BY <1>2, <2>1, <3>1, <3>2, WhereNetworks
      <3>4. b.cidrs = <<>>
        BY <1>2, <3>2 DEF NoFilter
      <3> QED
        BY <3>3, <3>4 DEF b, OneCondition
    <2> HIDE DEF g, h, f, valid
    <2>5. Where("audit", g, a, inTime) <=> Where("audit", h, a, inTime) /\ (valid = {} \/ \E p \in valid : InNetwork(a.ip, p))
      BY <1>4, <2>3, <2>4
    <2> QED
      BY <2>5 DEF a, inTime, g, h
  <1> DEFINE In(r) == valid = {} \/ \E p \in valid : InNetwork(Attr[r.item].ip, p)
  <1>6. \A r \in Row : Where("audit", Normalize("audit", f), Attr[r.item], r.ts + Window >= now /\ r.ts <= now) <=>
           /\ Where("audit", Normalize("audit", bare.filter), Attr[r.item], r.ts + Window >= now /\ r.ts <= now)
           /\ In(r)
    BY <1>5
  <1>7. Selected(req, now) = {r \in Row : copies[r] > 0 /\ Where("audit", Normalize("audit", f), Attr[r.item], r.ts + Window >= now /\ r.ts <= now)}
    BY <1>0 DEF Selected
  <1>8. Selected(bare, now) = {r \in Row : copies[r] > 0 /\ Where("audit", Normalize("audit", bare.filter), Attr[r.item], r.ts + Window >= now /\ r.ts <= now)}
    BY <1>3 DEF Selected
  <1>9. Selected(req, now) = {r \in Selected(bare, now) : In(r)}
    <2> HIDE DEF In, f, bare, valid
    <2> QED
      BY <1>6, <1>7, <1>8
  <1> QED
    BY <1>9

\* Networks mean what they say (ParseCIDR and ipRange, query.go:428-519).
THEOREM NetworksAreKept == Spec => []NetworksKept
PROOF
  <1>1. PagesInv => NetworksKept
    BY InvNetworksKept DEF PagesInv, RowsInv
  <1> QED
    BY <1>1, PagesInvariant, PTL

-----------------------------------------------------------------------------
(* The search for a group *)

\* Of nothing nothing is taken, of one element that element.
LEMMA NoneTaken == ParseList(<<>>) = <<>> /\ Named(<<>>) = <<>>
PROOF
  <1> DEFINE addD(x, i) == IF Len(x) < MaxList /\ (i # "" /\ ~Contains(x, i)) THEN Append(x, i) ELSE x
             IsD(g) == g = [t \in SUBSET {} |-> IF t = {} THEN <<>> ELSE addD(g[t \ {Max(t)}], <<>>[Max(t)])]
             addN(x, v) == IF Len(x) < MaxVars /\ v.name # "" THEN Append(x, v) ELSE x
             IsN(g) == g = [t \in SUBSET {} |-> IF t = {} THEN <<>> ELSE addN(g[t \ {Max(t)}], <<>>[Max(t)])]
             h == [t \in SUBSET {} |-> <<>>]
             d == CHOOSE g : IsD(g)
             m == CHOOSE g : IsN(g)
  <1>1. Len(<<>>) = 0 /\ DOMAIN <<>> = {}
    OBVIOUS
  <1>2. ParseList(<<>>) = d[{}]
    <2>1. FlattenSeq(<<>>) = <<>>
      BY <1>1 DEF FlattenSeq
    <2>2. Taken(<<>>, MaxList, LAMBDA out, part : part # "" /\ ~Contains(out, part)) = d[{}]
      BY <1>1 DEF Taken, FoldLeft, MapThenFoldSet
    <2> HIDE DEF d
    <2> QED
      BY <2>1, <2>2 DEF ParseList
  <1>3. Named(<<>>) = m[{}]
    BY <1>1 DEF Named, Taken, FoldLeft, MapThenFoldSet
  <1>4. {} \in SUBSET {} /\ \A t \in SUBSET {} : t = {}
    OBVIOUS
  <1>5. IsD(h) /\ IsN(h)
    BY <1>4
  <1>6. IsD(d) /\ IsN(m)
    <2> HIDE DEF IsD, IsN
    <2> QED
      BY <1>5
  <1> HIDE DEF d, m
  <1> QED
    BY <1>2, <1>3, <1>4, <1>6

LEMMA OneListed ==
  ASSUME NEW x
  PROVE  ParseList(<<<<x>>>>) = IF x = "" THEN <<>> ELSE <<x>>
PROOF
  <1> DEFINE s == <<x>>
             add(y, i) == IF Len(y) < MaxList /\ (i # "" /\ ~Contains(y, i)) THEN Append(y, i) ELSE y
             IsIter(g) == g = [t \in SUBSET {1} |-> IF t = {} THEN <<>> ELSE add(g[t \ {Max(t)}], s[Max(t)])]
             one == IF x = "" THEN <<>> ELSE <<x>>
             h == [t \in SUBSET {1} |-> IF t = {} THEN <<>> ELSE one]
             iter == CHOOSE g : IsIter(g)
  <1>1. Len(s) = 1 /\ DOMAIN s = {1} /\ s[1] = x
    OBVIOUS
  <1>0. FlattenSeq(<<s>>) = s
    <2>1. s \in Seq({x})
      OBVIOUS
    <2> HIDE DEF s
    <2> QED
      BY <2>1, FlattenOne
  <1> HIDE DEF s
  <1>2. ParseList(<<s>>) = iter[{1}]
    <2>1. Taken(s, MaxList, LAMBDA out, part : part # "" /\ ~Contains(out, part)) = iter[{1}]
      BY <1>1 DEF Taken, FoldLeft, MapThenFoldSet
    <2> HIDE DEF iter
    <2> QED
      BY <1>0, <2>1 DEF ParseList
  <1>3. Max({1}) = 1
    BY DEF Max
  <1>4. /\ {} \in SUBSET {1} /\ {1} \in SUBSET {1} /\ {1} \ {1} = {} /\ {1} # {}
        /\ \A t \in SUBSET {1} : t = {} \/ t = {1}
    OBVIOUS
  <1>5. add(<<>>, x) = one
    <2>1. ~Contains(<<>>, x) /\ Len(<<>>) = 0
      BY DEF Contains
    <2>2. 0 < MaxList
      BY FiltersAssumption
    <2>3. Append(<<>>, x) = <<x>>
      OBVIOUS
    <2> QED
      BY <2>1, <2>2, <2>3
  <1> HIDE DEF add, one
  <1>6. IsIter(h)
    <2>1. ASSUME NEW t \in SUBSET {1}
          PROVE  h[t] = IF t = {} THEN <<>> ELSE add(h[t \ {Max(t)}], s[Max(t)])
      <3>1. CASE t = {}
        BY <3>1
      <3>2. CASE t = {1}
        <4>1. h[{1} \ {Max({1})}] = <<>> /\ s[Max({1})] = x
          BY <1>1, <1>3, <1>4
        <4>2. h[{1}] = one
          BY <1>4
        <4> HIDE DEF h
        <4> QED
          BY <1>4, <1>5, <3>2, <4>1, <4>2
      <3> QED
        BY <1>4, <3>1, <3>2
    <2> QED
      BY <2>1
  <1>7. IsIter(iter)
    <2> HIDE DEF IsIter
    <2> QED
      BY <1>6
  <1> HIDE DEF iter
  <1>8. \A t \in SUBSET {1} : iter[t] = IF t = {} THEN <<>> ELSE add(iter[t \ {Max(t)}], s[Max(t)])
    BY <1>7
  <1>9. iter[{1}] = add(<<>>, x)
    <2>1. iter[{}] = <<>>
      BY <1>4, <1>8
    <2>2. iter[{1}] = add(iter[{1} \ {Max({1})}], s[Max({1})])
      BY <1>4, <1>8, Zenon
    <2>3. {1} \ {Max({1})} = {} /\ s[Max({1})] = x
      BY <1>1, <1>3
    <2> QED
      BY <2>1, <2>2, <2>3
  <1> QED
    BY <1>2, <1>5, <1>9 DEF s, one

\* A group of a row is a choice of one of its values in each dimension.
ChoicesOf(a, D) ==
  {g \in [D -> UNION {ValuesOf(a, d) : d \in D}] : \A d \in D : g[d] \in ValuesOf(a, d)}

LEMMA ChoicesGrow ==
  ASSUME NEW a, NEW D, NEW d
  PROVE  ChoicesOf(a, D \cup {d}) = UNION {{With(g, d, v) : v \in ValuesOf(a, d)} : g \in ChoicesOf(a, D)}
PROOF
  <1> DEFINE E == D \cup {d}
             V == UNION {ValuesOf(a, e) : e \in D}
             W == UNION {ValuesOf(a, e) : e \in E}
             U == UNION {{With(g, d, v) : v \in ValuesOf(a, d)} : g \in ChoicesOf(a, D)}
  <1>1. ASSUME NEW h \in ChoicesOf(a, E) PROVE h \in U
    <2> DEFINE g == [x \in D |-> h[x]]
               v == h[d]
    <2>1. h \in [E -> W] /\ \A e \in E : h[e] \in ValuesOf(a, e)
      BY DEF ChoicesOf
    <2>2. g \in ChoicesOf(a, D)
      BY <2>1 DEF ChoicesOf
    <2>3. v \in ValuesOf(a, d)
      BY <2>1
    <2>4. h = With(g, d, v)
      <3>1. DOMAIN g = D /\ \A x \in D : g[x] = h[x]
        OBVIOUS
      <3>2. h = [x \in E |-> h[x]]
        BY <2>1
      <3> HIDE DEF g
      <3> QED
        BY <3>1, <3>2 DEF With
    <2> HIDE DEF g, v
    <2> QED
      BY <2>2, <2>3, <2>4
  <1>2. ASSUME NEW g \in ChoicesOf(a, D), NEW v \in ValuesOf(a, d) PROVE With(g, d, v) \in ChoicesOf(a, E)
    <2>1. g \in [D -> V] /\ \A e \in D : g[e] \in ValuesOf(a, e)
      BY DEF ChoicesOf
    <2> DEFINE h == With(g, d, v)
    <2>2. h = [x \in E |-> IF x = d THEN v ELSE g[x]]
      BY <2>1 DEF With
    <2> HIDE DEF h
    <2>3. \A e \in E : h[e] \in ValuesOf(a, e)
      BY <2>1, <2>2
    <2>4. h \in [E -> W]
      BY <2>2, <2>3
    <2> QED
      BY <2>3, <2>4 DEF ChoicesOf, h
  <1> HIDE DEF E
  <1>3. U \subseteq ChoicesOf(a, E)
    BY <1>2
  <1>4. ChoicesOf(a, E) \subseteq U
    <2> HIDE DEF U
    <2> QED
      BY <1>1
  <1> HIDE DEF U
  <1>5. ChoicesOf(a, E) = U
    BY <1>3, <1>4
  <1> QED
    BY <1>5 DEF E, U

LEMMA NoChoice == ASSUME NEW a PROVE ChoicesOf(a, {}) = {<<>>}
PROOF
  <1>1. <<>> \in [{} -> UNION {ValuesOf(a, d) : d \in {}}]
    OBVIOUS
  <1>2. \A g \in [{} -> UNION {ValuesOf(a, d) : d \in {}}] : g = <<>>
    <2> TAKE g \in [{} -> UNION {ValuesOf(a, d) : d \in {}}]
    <2>1. g = [x \in {} |-> g[x]] /\ <<>> = [x \in {} |-> <<>>[x]]
      OBVIOUS
    <2> QED
      BY <2>1
  <1> QED
    BY <1>1, <1>2 DEF ChoicesOf

LEMMA GroupsAreChoices ==
  ASSUME NEW a, NEW by \in Seq(Dim)
  PROVE  GroupsOf(a, by) = ChoicesOf(a, ToSet(by)) /\ ToSet(by) \in SUBSET Dim
PROOF
  <1> DEFINE n == Len(by)
             X == {ChoicesOf(a, D) : D \in SUBSET Dim}
             add(gs, d) == UNION {{With(g, d, v) : v \in ValuesOf(a, d)} : g \in gs}
             step == [p \in (1..n) \X X |-> add(p[2], by[p[1]])]
             IsIter(h) == h = [t \in SUBSET (1..n) |->
                                 IF t = {} THEN {<<>>} ELSE add(h[t \ {Max(t)}], by[Max(t)])]
             iter == CHOOSE h : IsIter(h)
  <1>1. n \in Nat /\ DOMAIN by = 1..n /\ \A k \in 1..n : by[k] \in Dim
    OBVIOUS
  <1>2. GroupsOf(a, by) = iter[1..n]
    BY <1>1 DEF GroupsOf, FoldLeft, MapThenFoldSet
  <1>3. ToSet(by) = {by[j] : j \in 1..n} /\ ToSet(by) \in SUBSET Dim
    BY <1>1 DEF ToSet
  <1>4. {<<>>} = ChoicesOf(a, {}) /\ {<<>>} \in X
    BY NoChoice
  <1>5. ASSUME NEW D, NEW d \in Dim PROVE add(ChoicesOf(a, D), d) = ChoicesOf(a, D \cup {d})
    BY ChoicesGrow
  <1> HIDE DEF n, add
  <1>6. ASSUME NEW gs \in X, NEW d \in Dim PROVE add(gs, d) \in X
    <2>1. PICK D \in SUBSET Dim : gs = ChoicesOf(a, D)
      OBVIOUS
    <2>2. D \cup {d} \in SUBSET Dim
      OBVIOUS
    <2> QED
      BY <1>5, <2>1, <2>2
  <1>7. step \in [(1..n) \X X -> X]
    <2> HIDE DEF X
    <2> QED
      BY <1>1, <1>6
  <1> HIDE DEF X
  <1>8. \A k \in 1..n, x \in X : step[<<k, x>>] = add(x, by[k])
    OBVIOUS
  <1> HIDE DEF step
  <1>9. PICK h \in [SUBSET (1..n) -> X] : IsFoldLeft(h, n, {<<>>}, step)
    BY <1>1, <1>4, <1>7, FoldLeftExists
  <1>10. ASSUME NEW t \in SUBSET (1..n)
        PROVE  h[t] = IF t = {} THEN {<<>>} ELSE add(h[t \ {Max(t)}], by[Max(t)])
    <2>1. h[t] = IF t = {} THEN {<<>>} ELSE step[<<Max(t), h[t \ {Max(t)}]>>]
      BY <1>9 DEF IsFoldLeft
    <2>2. t # {} => Max(t) \in 1..n
      BY <1>1, MaxInRange
    <2>3. h[t \ {Max(t)}] \in X
      BY <1>9
    <2> QED
      BY <1>8, <2>1, <2>2, <2>3
  <1>11. IsIter(h)
    BY <1>9, <1>10
  <1>12. IsIter(iter)
    <2> HIDE DEF IsIter
    <2> QED
      BY <1>11
  <1> HIDE DEF iter
  <1>13. iter[{}] = {<<>>} /\ \A k \in 1..n : iter[1..k] = add(iter[1..k - 1], by[k])
    <2>1. iter[{}] = {<<>>}
      BY <1>12
    <2>2. ASSUME NEW k \in 1..n PROVE iter[1..k] = add(iter[1..k - 1], by[k])
      <3>1. k \in Nat /\ k \in 1..k /\ 1..k \in SUBSET (1..n)
        BY <1>1
      <3>2. iter[1..k] = add(iter[(1..k) \ {Max(1..k)}], by[Max(1..k)])
        BY <1>12, <3>1
      <3>3. Max(1..k) = k /\ (1..k) \ {k} = 1..k - 1
        BY <3>1, LastOfRange
      <3> QED
        BY <3>2, <3>3, Zenon
    <2> QED
      BY <2>1, <2>2
  <1> HIDE DEF IsIter
  <1> DEFINE P == {k \in 0..n : iter[1..k] = ChoicesOf(a, {by[j] : j \in 1..k})}
  <1>14. 0 \in P
    <2>1. 1..0 = {} /\ {by[j] : j \in {}} = {} /\ 0 \in 0..n
      BY <1>1
    <2>2. iter[1..0] = {<<>>} /\ {by[j] : j \in 1..0} = {}
      BY <1>13, <2>1, Zenon
    <2> QED
      BY <1>4, <2>1, <2>2
  <1>15. ASSUME NEW k \in 0..n - 1, k \in P PROVE k + 1 \in P
    <2>1. k + 1 \in 1..n /\ k + 1 \in 0..n /\ (k + 1) - 1 = k /\ k \in Nat
      BY <1>1
    <2>2. iter[1..k + 1] = add(iter[1..k], by[k + 1])
      BY <1>13, <2>1
    <2>3. {by[j] : j \in 1..k + 1} = {by[j] : j \in 1..k} \cup {by[k + 1]}
      BY <2>1
    <2>4. iter[1..k] = ChoicesOf(a, {by[j] : j \in 1..k})
      BY <1>15
    <2>5. iter[1..k + 1] = ChoicesOf(a, {by[j] : j \in 1..k} \cup {by[k + 1]})
      BY <1>1, <1>5, <2>1, <2>2, <2>4
    <2>6. iter[1..k + 1] = ChoicesOf(a, {by[j] : j \in 1..k + 1})
      BY <2>3, <2>5, Zenon
    <2> QED
      BY <2>1, <2>6
  <1>16. n \in P
    <2>1. 0..n \subseteq P
      <3> HIDE DEF P
      <3> QED
        BY <1>1, <1>14, <1>15, UpToInduction
    <2> HIDE DEF P
    <2> QED
      BY <1>1, <2>1
  <1> QED
    BY <1>2, <1>3, <1>16

\* Nobody is searched for by an empty text, and a text that has no blanks at its ends
\* by nothing else than itself.
LEMMA NoUser == SessionText(<<>>) = <<>>
PROOF
  <1>1. Trim(<<>>) = <<>>
    BY DEF Trim
  <1> QED
    BY <1>1 DEF SessionText

LEMMA Trimmed ==
  ASSUME NEW T, NEW s \in Seq(T), s # <<>>, Head(s) # "blank", Last(s) # "blank"
  PROVE  SessionText(s) = IF Searchable(s) THEN s ELSE <<>>
PROOF
  <1> DEFINE n == Len(s)
             kept == {k \in DOMAIN s : s[k] # "blank"}
  <1>1. n \in Nat /\ n # 0 /\ DOMAIN s = 1..n /\ s[1] = Head(s) /\ s[n] = Last(s)
    BY EmptySeq DEF Last
  <1>2. 1 \in kept /\ n \in kept /\ \A k \in kept : 1 <= k /\ k <= n /\ k \in Nat
    BY <1>1
  <1>3. SubSeq(s, 1, n) = s
    OBVIOUS
  <1>4. Trim(s) = IF kept = {} THEN <<>> ELSE SubSeq(s, Min(kept), Max(kept))
    BY DEF Trim
  <1> HIDE DEF kept, n
  <1>5. Min(kept) = 1
    <2>1. \A k \in kept : (\A y \in kept : k <= y) => k = 1
      BY <1>2
    <2>2. \A y \in kept : 1 <= y
      BY <1>2
    <2> QED
      BY <1>2, <2>1, <2>2 DEF Min
  <1>6. Max(kept) = n
    <2>1. \A k \in kept : (\A y \in kept : k >= y) => k = n
      BY <1>1, <1>2
    <2>2. \A y \in kept : n >= y
      BY <1>1, <1>2
    <2> QED
      BY <1>2, <2>1, <2>2 DEF Max
  <1>7. Trim(s) = s
    BY <1>2, <1>3, <1>4, <1>5, <1>6
  <1> QED
    BY <1>7 DEF SessionText

\* What a group's search asks for.
LEMMA AsksFor ==
  ASSUME NEW g, DOMAIN g \in SUBSET Dim
  PROVE  LET f == Normalize("groups", SearchFor(g))
             D == DOMAIN g
         IN /\ f.ray = "" /\ f.node = "" /\ f.phase = "" /\ f.vars = <<>> /\ f.headers = <<>>
            /\ f.verdict = Known(IF "verdict" \in D THEN g.verdict ELSE "", Verdict("groups"))
            /\ f.host = (IF "host" \in D THEN g.host ELSE "")
            /\ f.uri = (IF "uri" \in D THEN g.uri ELSE <<>>)
            /\ f.routes = (IF "route" \in D THEN ParseList(<<g.route>>) ELSE <<>>)
            /\ f.marker = (IF "marker" \in D THEN g.marker ELSE "")
            /\ f.user = (IF "user" \in D THEN SessionText(g.user) ELSE <<>>)
            /\ f.cidrs = (IF "ip" \in D /\ g.ip # 0 THEN ParseCIDRs(<<Written(g.ip)>>) ELSE <<>>)
PROOF
  <1> DEFINE D == DOMAIN g
             q == SearchFor(g)
             f == Normalize("groups", q)
  <1>1. DOMAIN NoFilter = {"ray", "node", "phase", "verdict", "host", "uri", "routes", "marker", "user", "vars", "headers", "cidrs"}
    BY DEF NoFilter
  <1>2. DOMAIN q = DOMAIN NoFilter
    BY DEF SearchFor
  <1>3. /\ q.ray = "" /\ q.node = "" /\ q.phase = "" /\ q.vars = <<>> /\ q.headers = <<>>
        /\ q.verdict = (IF "verdict" \in D THEN g.verdict ELSE "")
        /\ q.host = (IF "host" \in D THEN g.host ELSE "")
        /\ q.uri = (IF "uri" \in D THEN g.uri ELSE <<>>)
        /\ q.routes = (IF "route" \in D THEN <<g.route>> ELSE <<>>)
        /\ q.marker = (IF "marker" \in D THEN g.marker ELSE "")
        /\ q.user = (IF "user" \in D THEN g.user ELSE <<>>)
        /\ q.cidrs = (IF "ip" \in D /\ g.ip # 0 THEN <<Written(g.ip)>> ELSE <<>>)
    BY <1>1 DEF SearchFor, NoFilter
  <1> HIDE DEF q
  <1>4. Known("", Phase) = ""
    BY DEF Known
  <1>5. /\ f.ray = q.ray /\ f.node = q.node /\ f.uri = q.uri /\ f.host = q.host /\ f.marker = q.marker
        /\ f.user = SessionText(q.user)
        /\ f.phase = Known(q.phase, Phase) /\ f.verdict = Known(q.verdict, Verdict("groups"))
        /\ f.vars = Named(q.vars) /\ f.headers = Named(q.headers) /\ f.routes = ParseList(q.routes)
        /\ f.cidrs = ParseCIDRs(q.cidrs)
    BY <1>1, <1>2 DEF Normalize
  <1> HIDE DEF f
  <1>6. f.routes = (IF "route" \in D THEN ParseList(<<g.route>>) ELSE <<>>)
    BY <1>3, <1>5, NoneTaken
  <1>7. f.cidrs = (IF "ip" \in D /\ g.ip # 0 THEN ParseCIDRs(<<Written(g.ip)>>) ELSE <<>>)
    BY <1>3, <1>5, NothingParsed
  <1>8. f.vars = <<>> /\ f.headers = <<>>
    BY <1>3, <1>5, NoneTaken
  <1>9. f.user = (IF "user" \in D THEN SessionText(g.user) ELSE <<>>)
    BY <1>3, <1>5, NoUser
  <1> QED
    BY <1>3, <1>4, <1>5, <1>6, <1>7, <1>8, <1>9 DEF f, q

\* An address as it is written is a network of its own.
LEMMA OneAddress ==
  ASSUME NEW x \in Address, NEW a, a.ip \in Address
  PROVE  ParseCIDRs(<<Written(x)>>) # <<>> /\ (HasAddress(a, ParseCIDRs(<<Written(x)>>)) <=> a.ip = x)
PROOF
  <1> DEFINE w == Written(x)
             raw == <<w>>
  <1>1. Mapped \in Nat /\ V4Bits \in 0..V6Bits /\ V6Bits \in Nat /\ V6Bits \in 0..V6Bits /\ x \in Nat
    BY MappedMultiple, FiltersAssumption DEF Address
  <1>2. Pow2[V6Bits] \in Nat /\ Pow2[V4Bits] \in Nat /\ x < Pow2[V6Bits] /\ Mapped = Pow2[V6Bits] - Pow2[V4Bits]
    BY <1>1, Pow2Steps DEF Address, Mapped
  <1>3. w \in Network /\ w.ok /\ IsAddress(w) /\ Addr(w) = x
    <2>1. CASE x >= Mapped
      <3>1. w = [ok |-> TRUE, v4 |-> TRUE, addr |-> x - Mapped, bits |-> V4Bits + 1]
        BY <2>1 DEF Written
      <3>2. x - Mapped \in Nat /\ x - Mapped < Pow2[V4Bits] /\ V4Bits + 1 \in Nat /\ V4Bits + 1 > V4Bits /\ Mapped + (x - Mapped) = x
        BY <1>1, <1>2, <2>1
      <3> HIDE DEF w
      <3> QED
        BY <3>1, <3>2 DEF Network, IsAddress, Addr
    <2>2. CASE x < Mapped
      <3>1. w = [ok |-> TRUE, v4 |-> FALSE, addr |-> x, bits |-> V6Bits + 1]
        BY <1>1, <2>2 DEF Written
      <3>2. V6Bits + 1 \in Nat /\ V6Bits + 1 > V6Bits
        BY <1>1
      <3> HIDE DEF w
      <3> QED
        BY <1>1, <1>2, <3>1, <3>2 DEF Network, IsAddress, Addr
    <2> QED
      BY <1>1, <2>1, <2>2
  <1>4. raw \in Seq(Network) /\ ToSet(raw) = {w}
    BY <1>3 DEF ToSet
  <1>5. {p \in ToSet(raw) : p.ok} = {w}
    BY <1>3, <1>4
  <1>6. Cardinality({p \in ToSet(raw) : p.ok}) <= MaxCIDRs
    <2> HIDE DEF w, raw
    <2>1. Cardinality({w}) = 1
      BY FS_Singleton
    <2>2. 1 <= MaxCIDRs
      BY FiltersAssumption
    <2> QED
      BY <1>5, <2>1, <2>2
  <1> HIDE DEF raw, w
  <1>7. /\ ParseCIDRs(raw) = <<>> <=> {p \in ToSet(raw) : p.ok} = {}
        /\ HasAddress(a, ParseCIDRs(raw)) <=> \E p \in {p \in ToSet(raw) : p.ok} : InNetwork(a.ip, p)
    BY <1>4, <1>6, AddressFound
  <1>8. HasAddress(a, ParseCIDRs(raw)) <=> InNetwork(a.ip, w)
    BY <1>5, <1>7
  <1>9. InNetwork(a.ip, w) <=> Written(a.ip) = Written(x)
    BY <1>3 DEF InNetwork, Addr
  <1>10. Written(a.ip) = Written(x) <=> a.ip = x
    BY WrittenApart
  <1>11. ParseCIDRs(raw) # <<>>
    BY <1>5, <1>7
  <1> QED
    BY <1>8, <1>9, <1>10, <1>11 DEF raw, w

\* A text is in itself, and the empty text in every text.
LEMMA AnyText ==
  ASSUME NEW a, a.uri \in Seq(STRING)
  PROVE  Holds(<<>>, a) /\ Holds(a.uri, a)
PROOF
  <1> DEFINE t == Lower(a.uri)
             s == Lower(<<>>)
  <1> DEFINE T == STRING \cup {"a"}
  <1>1. t \in Seq(T)
    <2>0. "a" \in T /\ \A x \in STRING : x \in T
      OBVIOUS
    <2> HIDE DEF T
    <2>1. DOMAIN a.uri = 1..Len(a.uri) /\ Len(a.uri) \in Nat /\ \A k \in 1..Len(a.uri) : a.uri[k] \in STRING
      OBVIOUS
    <2>2. \A k \in 1..Len(a.uri) : a.uri[k] \in T
      BY <2>0, <2>1
    <2>3. t \in [1..Len(a.uri) -> T]
      BY <2>0, <2>1, <2>2 DEF Lower
    <2> HIDE DEF t
    <2> QED
      BY <2>1, <2>3
  <1>2. s = <<>>
    BY DEF Lower
  <1> HIDE DEF s, t, T
  <1>3. Len(t) \in Nat /\ SubSeq(t, 1, 0) = <<>> /\ Len(s) = 0
    BY <1>1, <1>2
  <1>4. Occurs(s, t)
    <2>1. 0 \in 0..Len(t) - Len(s) /\ SubSeq(t, 0 + 1, 0 + Len(s)) = s
      BY <1>2, <1>3
    <2> QED
      BY <2>1 DEF Occurs
  <1>5. Occurs(t, t)
    <2>1. 0 \in 0..Len(t) - Len(t) /\ SubSeq(t, 1, Len(t)) = t /\ 0 + 1 = 1 /\ 0 + Len(t) = Len(t)
      BY <1>1, <1>3
    <2>2. SubSeq(t, 0 + 1, 0 + Len(t)) = t
      BY <2>1
    <2> QED
      BY <2>1, <2>2 DEF Occurs
  <1> QED
    BY <1>4, <1>5 DEF Holds, s, t

\* What is joined can be split, where the first part has no colon.
LEMMA JoinSplits ==
  ASSUME NEW T, "colon" \in T, NEW x \in Seq(T), NEW u \in Seq(T), "colon" \notin ToSet(x)
  PROVE  SplitIdentity(x \o <<"colon">> \o u) = [source |-> x, user |-> u]
PROOF
  <1> DEFINE c == <<"colon">>
             k == x \o c \o u
             n == Len(x)
             m == Len(u)
             I == {i \in 1..Len(k) : k[i] = "colon"}
  <1>1. n \in Nat /\ m \in Nat /\ c \in Seq(T) /\ Len(c) = 1 /\ c[1] = "colon" /\ x \o c \in Seq(T) /\ Len(x \o c) = n + 1
    OBVIOUS
  <1>2. (\A j \in 1..n : (x \o c)[j] = x[j]) /\ (x \o c)[n + 1] = "colon"
    BY <1>1
  <1>3. k \in Seq(T) /\ Len(k) = n + 1 + m
    BY <1>1
  <1>4. (\A j \in 1..n : k[j] = x[j]) /\ k[n + 1] = "colon"
    <2>1. \A j \in 1..n + 1 : k[j] = (x \o c)[j]
      BY <1>1
    <2> QED
      BY <1>1, <1>2, <2>1
  <1>5. \A j \in 1..m : k[j + (n + 1)] = u[j]
    BY <1>1
  <1>6. \A j \in 1..n : x[j] # "colon"
    BY DEF ToSet
  <1> HIDE DEF c, k, n, m
  <1>7. Min(I) = n + 1 /\ I # {}
    <2>1. n + 1 \in I
      BY <1>1, <1>3, <1>4
    <2>2. \A i \in I : i \in Nat /\ n + 1 <= i
      BY <1>1, <1>3, <1>4, <1>6
    <2> HIDE DEF I
    <2>3. \A i \in I : (\A y \in I : i <= y) => i = n + 1
      BY <1>1, <2>1, <2>2
    <2> QED
      BY <2>1, <2>2, <2>3 DEF Min
  <1>8. SelectInSeq(k, LAMBDA y : y = "colon") = n + 1
    BY <1>7 DEF SelectInSeq
  <1>9. SubSeq(k, 1, n) = x
    <2>1. SubSeq(k, 1, n) \in Seq(T) /\ Len(SubSeq(k, 1, n)) = n /\ \A j \in 1..n : SubSeq(k, 1, n)[j] = k[j]
      BY <1>1, <1>3
    <2>2. Len(x) = n
      BY DEF n
    <2> QED
      BY <1>4, <2>1, <2>2
  <1>10. SubSeq(k, n + 2, n + 1 + m) = u
    <2> DEFINE v == SubSeq(k, n + 2, n + 1 + m)
    <2>1. v \in Seq(T) /\ Len(v) = m
      BY <1>1, <1>3
    <2>2. \A j \in 1..m : v[j] = k[j + (n + 1)]
      BY <1>1, <1>3
    <2> HIDE DEF v
    <2>3. Len(u) = m
      BY DEF m
    <2>4. v = u
      BY <1>5, <2>1, <2>2, <2>3
    <2> QED
      BY <2>4 DEF v
  <1>11. SplitIdentity(k) = [source |-> SubSeq(k, 1, (n + 1) - 1), user |-> SubSeq(k, (n + 1) + 1, Len(k))]
    BY <1>8 DEF SplitIdentity
  <1>12. (n + 1) - 1 = n /\ (n + 1) + 1 = n + 2
    BY <1>1
  <1> QED
    BY <1>3, <1>9, <1>10, <1>11, <1>12 DEF k, c

\* The key of a user is a text, and one without a source begins with the colon.
LEMMA KeyOfUser ==
  ASSUME NEW T, "colon" \in T, NEW s, s.source \in Seq(T), s.user \in Seq(T)
  PROVE  UserKey(s) \in Seq(T) \ {<<>>} /\ (s.source = <<>> => Head(UserKey(s)) = "colon")
PROOF
  <1> DEFINE x == s.source
             u == s.user
             y == x \o <<"colon">>
             k == y \o u
  <1>1. y \in Seq(T) /\ Len(y) = Len(x) + 1 /\ Len(x) \in Nat /\ Len(u) \in Nat
    OBVIOUS
  <1>2. x = <<>> => y[1] = "colon"
    OBVIOUS
  <1> HIDE DEF x, y
  <1>3. k \in Seq(T) /\ Len(k) = Len(y) + Len(u) /\ k[1] = y[1]
    <2>1. u \in Seq(T) /\ 1 \in 1..Len(y)
      BY <1>1
    <2> HIDE DEF u
    <2>2. k \in Seq(T) /\ Len(k) = Len(y) + Len(u)
      BY <1>1, <2>1, ConcatProperties
    <2>3. ASSUME NEW i \in 1..Len(y) PROVE k[i] = y[i]
      BY <1>1, <2>1
    <2> QED
      BY <2>1, <2>2, <2>3
  <1>4. k # <<>>
    BY <1>1, <1>3
  <1>5. Head(k) = k[1]
    BY <1>3, <1>4
  <1> QED
    BY <1>2, <1>3, <1>4, <1>5 DEF UserKey, x, y

Texts == STRING \cup {"colon"}

LEMMA TextsAre == "colon" \in Texts /\ \A s \in Seq(STRING) : s \in Seq(Texts)
PROOF
  <1>1. "colon" \in Texts /\ \A x \in STRING : x \in Texts
    BY DEF Texts
  <1>2. ASSUME NEW s \in Seq(STRING) PROVE s \in Seq(Texts)
    <2>1. DOMAIN s = 1..Len(s) /\ Len(s) \in Nat /\ \A k \in 1..Len(s) : s[k] \in STRING
      OBVIOUS
    <2>2. s = [k \in 1..Len(s) |-> s[k]] /\ \A k \in 1..Len(s) : s[k] \in Texts
      BY <1>1, <2>1
    <2> QED
      BY <2>1, <2>2
  <1> QED
    BY <1>1, <1>2

HasPlainSources(a, key) == \A s \in a.sessions : UserKey(s) = key => "colon" \notin ToSet(s.source)

\* The parameters of a search split a user where the group joined it.
LEMMA UserSplit ==
  ASSUME NEW i \in Item, NEW j \in Item, NEW key \in ValuesOf(Attr[j], "user"),
         HasPlainSources(Attr[i], key), HasPlainSources(Attr[j], key)
  PROVE  /\ key \in Seq(Texts) \ {<<>>}
         /\ key \in ValuesOf(Attr[i], "user") => IsUser(Attr[i], key)
         /\ Head(key) # "colon" /\ IsUser(Attr[i], key) => key \in ValuesOf(Attr[i], "user")
PROOF
  <1> DEFINE S == Attr[i].sessions
  <1>1. PICK o \in Attr[j].sessions : o.user # <<>> /\ key = UserKey(o)
    BY DEF ValuesOf
  <1>2. o.source \in Seq(Texts) /\ o.user \in Seq(Texts) /\ "colon" \notin ToSet(o.source)
    <2>1. o.source \in Seq(STRING) /\ o.user \in Seq(STRING)
      BY SearchAssumption
    <2> QED
      BY <1>1, <2>1, TextsAre DEF HasPlainSources
  <1>3. \A s \in S : s.source \in Seq(Texts) /\ s.user \in Seq(Texts)
    <2>1. \A s \in S : s.source \in Seq(STRING) /\ s.user \in Seq(STRING)
      BY SearchAssumption
    <2> QED
      BY <2>1, TextsAre
  <1>4. SplitIdentity(key) = [source |-> o.source, user |-> o.user]
    <2>1. "colon" \in Texts
      BY TextsAre
    <2> QED
      BY <1>1, <1>2, <2>1, JoinSplits DEF UserKey
  <1>5. IsUser(Attr[i], key) <=> \E s \in S : s.user = o.user /\ (o.source # <<>> => s.source = o.source)
    BY <1>4 DEF IsUser
  <1>6. key \in ValuesOf(Attr[i], "user") <=> \E s \in S : s.user # <<>> /\ UserKey(s) = key
    BY DEF ValuesOf
  <1>7. key \in Seq(Texts) \ {<<>>} /\ (Head(key) # "colon" => o.source # <<>>)
    BY <1>1, <1>2, TextsAre, KeyOfUser
  <1>8. ASSUME key \in ValuesOf(Attr[i], "user") PROVE IsUser(Attr[i], key)
    <2>1. PICK s \in S : s.user # <<>> /\ UserKey(s) = key
      BY <1>6, <1>8
    <2>2. SplitIdentity(key) = [source |-> s.source, user |-> s.user]
      <3>1. "colon" \in Texts /\ "colon" \notin ToSet(s.source)
        BY <2>1, TextsAre DEF HasPlainSources
      <3> QED
        BY <1>3, <2>1, <3>1, JoinSplits DEF UserKey
    <2>3. s.source = o.source /\ s.user = o.user
      BY <1>4, <2>2
    <2> QED
      BY <1>5, <2>3
  <1>9. ASSUME Head(key) # "colon", IsUser(Attr[i], key) PROVE key \in ValuesOf(Attr[i], "user")
    <2>1. PICK s \in S : s.user = o.user /\ s.source = o.source
      BY <1>5, <1>7, <1>9
    <2>2. UserKey(s) = key /\ s.user # <<>>
      BY <1>1, <2>1 DEF UserKey
    <2> QED
      BY <1>6, <2>2
  <1> QED
    BY <1>7, <1>8, <1>9

LEMMA OneLong ==
  ASSUME NEW r \in Seq(STRING), NEW x
  PROVE  r = <<x>> <=> Len(r) = 1 /\ r[1] = x
PROOF
  <1>1. ASSUME Len(r) = 1, r[1] = x PROVE r = <<x>>
    <2>1. r = [k \in 1..1 |-> r[k]]
      BY <1>1
    <2>2. DOMAIN r = 1..1 /\ DOMAIN <<x>> = 1..1 /\ <<x>>[1] = x /\ \A k \in 1..1 : k = 1
      BY <1>1
    <2> QED
      BY <1>1, <2>1, <2>2
  <1>2. Len(<<x>>) = 1 /\ <<x>>[1] = x
    OBVIOUS
  <1> QED
    BY <1>1, <1>2

Fits(a, g, d) == d \in DOMAIN g => g[d] \in ValuesOf(a, d)

\* That the clause of a search for a group finds what has its value, and no more where
\* the group is plain.
Finds(clause, a, g, d) == (Fits(a, g, d) => clause) /\ (IsPlain(g) /\ clause => Fits(a, g, d))

\* The search for a group finds the rows that are in it.
LEMMA GroupFound ==
  ASSUME NEW rows \in SUBSET Row, NEW r \in rows, NEW o \in rows, NEW D \in SUBSET Dim,
         NEW g \in ChoicesOf(Attr[o.item], D), Survives(g, rows)
  PROVE  LET found == Where("groups", Normalize("groups", SearchFor(g)), Attr[r.item], TRUE)
             in == g \in ChoicesOf(Attr[r.item], D)
         IN (in => found) /\ (IsPlain(g) /\ found => in)
PROOF
  <1> DEFINE i == r.item
             j == o.item
             a == Attr[i]
             b == Attr[j]
             f == Normalize("groups", SearchFor(g))
  <1>0. i \in Item /\ j \in Item
    BY DEF Item
  <1>1. DOMAIN g = D /\ \A d \in D : g[d] \in ValuesOf(b, d)
    BY DEF ChoicesOf
  <1>2. /\ f.ray = "" /\ f.node = "" /\ f.phase = "" /\ f.vars = <<>> /\ f.headers = <<>>
        /\ f.verdict = Known(IF "verdict" \in D THEN g.verdict ELSE "", Verdict("groups"))
        /\ f.host = (IF "host" \in D THEN g.host ELSE "")
        /\ f.uri = (IF "uri" \in D THEN g.uri ELSE <<>>)
        /\ f.routes = (IF "route" \in D THEN ParseList(<<g.route>>) ELSE <<>>)
        /\ f.marker = (IF "marker" \in D THEN g.marker ELSE "")
        /\ f.user = (IF "user" \in D THEN SessionText(g.user) ELSE <<>>)
        /\ f.cidrs = (IF "ip" \in D /\ g.ip # 0 THEN ParseCIDRs(<<Written(g.ip)>>) ELSE <<>>)
    BY <1>1, AsksFor
  <1>3. /\ a.ip \in Address /\ b.ip \in Address /\ a.uri \in Seq(STRING)
        /\ a.route \in Seq(STRING) \ {<<>>} /\ b.route \in Seq(STRING) \ {<<>>}
    BY <1>0, SearchAssumption
  <1> HIDE DEF f
  <1>4. Finds(Is(f.verdict, a.verdict), a, g, "verdict")
    <2>1. CASE "verdict" \in D
      <3>1. ValuesOf(a, "verdict") = {a.verdict} /\ "" \notin Verdict("groups")
        BY DEF ValuesOf, Verdict
      <3>2. f.verdict \in {"", g.verdict} /\ (IsPlain(g) => f.verdict = g.verdict /\ g.verdict # "")
        BY <1>1, <1>2, <2>1, <3>1 DEF Known, IsPlain
      <3> QED
        BY <1>1, <2>1, <3>1, <3>2 DEF Is, Fits, Finds
    <2>2. CASE "verdict" \notin D
      <3>1. f.verdict = ""
        BY <1>2, <2>2 DEF Known
      <3> QED
        BY <1>1, <2>2, <3>1 DEF Is, Fits, Finds
    <2> QED
      BY <2>1, <2>2
  <1>5. Finds(Is(f.host, a.host), a, g, "host")
    <2>1. IsPlain(g) /\ "host" \in D => g["host"] # ""
      BY <1>1 DEF IsPlain
    <2>2. ValuesOf(a, "host") = {a.host}
      BY DEF ValuesOf
    <2> QED
      BY <1>1, <1>2, <2>1, <2>2 DEF Is, Fits, Finds
  <1>6. Finds(f.routes # <<>> => Len(a.route) = 1 /\ Contains(f.routes, a.route[1]), a, g, "route")
    <2>1. ValuesOf(a, "route") = {a.route} /\ ValuesOf(b, "route") = {b.route}
      BY DEF ValuesOf
    <2>2. CASE "route" \in D
      <3> DEFINE x == g.route[1]
      <3>1. g.route \in Seq(STRING) /\ Len(g.route) = 1
        BY <1>1, <1>3, <2>1, <2>2 DEF Survives
      <3>2. g.route = <<x>> /\ x \in STRING
        BY <3>1
      <3> HIDE DEF x
      <3>3. f.routes = IF x = "" THEN <<>> ELSE <<x>>
        BY <1>2, <2>2, <3>2, OneListed
      <3>4. <<x>> # <<>> /\ \A y : Contains(<<x>>, y) <=> x = y
        <4>1. <<x>> # <<>> /\ Len(<<x>>) = 1 /\ <<x>>[1] = x
          OBVIOUS
        <4> QED
          BY <4>1 DEF Contains
      <3>5. a.route = <<x>> <=> Len(a.route) = 1 /\ a.route[1] = x
        <4>1. a.route \in Seq(STRING)
          BY <1>3
        <4> HIDE DEF a
        <4> QED
          BY <4>1, OneLong
      <3>6. IsPlain(g) => x # ""
        BY <1>1, <2>2, <3>2 DEF IsPlain
      <3>7. Fits(a, g, "route") <=> a.route = <<x>>
        BY <1>1, <2>1, <2>2, <3>2 DEF Fits
      <3>8. (f.routes # <<>> => Len(a.route) = 1 /\ Contains(f.routes, a.route[1])) <=> x = "" \/ a.route = <<x>>
        <4>1. CASE x = ""
          BY <3>3, <4>1
        <4>2. CASE x # ""
          <5>1. f.routes = <<x>>
            BY <3>3, <4>2
          <5>2. Contains(f.routes, a.route[1]) <=> x = a.route[1]
            <6>1. \A y : Contains(<<x>>, y) <=> x = y
              BY <3>4
            <6> QED
              BY <5>1, <6>1
          <5>3. f.routes # <<>>
            BY <3>4, <5>1
          <5> QED
            BY <3>5, <4>2, <5>2, <5>3, Zenon
        <4> QED
          BY <4>1, <4>2
      <3> QED
        BY <3>6, <3>7, <3>8 DEF Finds
    <2>3. CASE "route" \notin D
      BY <1>1, <1>2, <2>3 DEF Fits, Finds
    <2> QED
      BY <2>2, <2>3
  <1>7. Finds(f.marker # "" => f.marker \in a.markers, a, g, "marker")
    <2>1. IsPlain(g) /\ "marker" \in D => g["marker"] # ""
      BY <1>1 DEF IsPlain
    <2>2. ValuesOf(a, "marker") = a.markers
      BY DEF ValuesOf
    <2> QED
      BY <1>1, <1>2, <2>1, <2>2 DEF Fits, Finds
  <1>8. Finds(f.user # <<>> => IsUser(a, f.user), a, g, "user")
    <2>1. CASE "user" \in D
      <3> DEFINE key == g.user
      <3>1. key \in ValuesOf(b, "user")
        BY <1>1, <2>1
      <3>2. HasPlainSources(a, key) /\ HasPlainSources(b, key) /\ Head(key) # "blank" /\ Last(key) # "blank"
        BY <1>1, <2>1 DEF Survives, HasPlainSources
      <3>3. IsPlain(g) => Head(key) # "colon" /\ Searchable(key)
        BY <1>1, <2>1 DEF IsPlain
      <3>4. f.user = SessionText(key)
        BY <1>2, <2>1
      <3>5. Fits(a, g, "user") <=> key \in ValuesOf(a, "user")
        BY <1>1, <2>1 DEF Fits
      <3> HIDE DEF key, a, b, i, j
      <3>6. /\ key \in Seq(Texts) \ {<<>>}
            /\ key \in ValuesOf(a, "user") => IsUser(a, key)
            /\ Head(key) # "colon" /\ IsUser(a, key) => key \in ValuesOf(a, "user")
        BY <1>0, <3>1, <3>2, UserSplit DEF a, b
      <3>7. f.user = IF Searchable(key) THEN key ELSE <<>>
        BY <3>2, <3>4, <3>6, Trimmed
      <3> QED
        BY <3>3, <3>5, <3>6, <3>7 DEF Finds
    <2>2. CASE "user" \notin D
      BY <1>1, <1>2, <2>2 DEF Fits, Finds
    <2> QED
      BY <2>1, <2>2
  <1>9. Finds(f.cidrs # <<>> => HasAddress(a, f.cidrs), a, g, "ip")
    <2>1. CASE "ip" \in D /\ g.ip # 0
      <3>1. g.ip \in ValuesOf(b, "ip") /\ f.cidrs = ParseCIDRs(<<Written(g.ip)>>)
        BY <1>1, <1>2, <2>1
      <3>2. ValuesOf(b, "ip") = {b.ip} /\ ValuesOf(a, "ip") = {a.ip}
        BY DEF ValuesOf
      <3>3. g.ip \in Address
        BY <1>3, <3>1, <3>2
      <3>4. f.cidrs # <<>> /\ (HasAddress(a, f.cidrs) <=> a.ip = g.ip)
        <4> HIDE DEF a
        <4> QED
          BY <1>3, <3>1, <3>3, OneAddress
      <3> QED
        BY <1>1, <2>1, <3>2, <3>4 DEF Fits, Finds
    <2>2. CASE ~("ip" \in D /\ g.ip # 0)
      <3>1. f.cidrs = <<>> /\ (IsPlain(g) => "ip" \notin D)
        BY <1>1, <1>2, <2>2 DEF IsPlain
      <3> QED
        BY <1>1, <3>1 DEF Fits, Finds
    <2> QED
      BY <2>1, <2>2
  <1>10. Is(f.phase, a.phase) /\ Is(f.node, a.node)
    BY <1>2 DEF Is
  <1>11. ToSet(f.vars) = {} /\ ToSet(f.headers) = {}
    <2>1. ToSet(<<>>) = {}
      BY DEF ToSet
    <2> QED
      BY <1>2, <2>1
  <1>12. Finds(Holds(f.uri, a), a, g, "uri")
    <2>1. Holds(<<>>, a) /\ Holds(a.uri, a)
      BY <1>3, AnyText
    <2>2. ValuesOf(a, "uri") = {a.uri}
      BY DEF ValuesOf
    <2>3. IsPlain(g) => "uri" \notin D
      BY <1>1 DEF IsPlain
    <2> HIDE DEF a
    <2> QED
      BY <1>1, <1>2, <2>1, <2>2, <2>3 DEF Fits, Finds
  <1>13. IsPlain(g) => Fits(a, g, "by")
    BY <1>1 DEF Fits, IsPlain
  <1>14. Where("groups", f, a, TRUE) <=>
           /\ Is(f.verdict, a.verdict) /\ Is(f.host, a.host) /\ Holds(f.uri, a)
           /\ f.routes # <<>> => Len(a.route) = 1 /\ Contains(f.routes, a.route[1])
           /\ f.user # <<>> => IsUser(a, f.user)
           /\ f.marker # "" => f.marker \in a.markers
           /\ f.cidrs # <<>> => HasAddress(a, f.cidrs)
    <2>1. Where("groups", f, a, TRUE) <=> WhereAudit(f, a, TRUE)
      BY DEF Where
    <2> HIDE DEF a
    <2> QED
      BY <1>2, <1>10, <1>11, <2>1 DEF WhereAudit
  <1>15. g \in ChoicesOf(a, D) <=>
           /\ Fits(a, g, "verdict") /\ Fits(a, g, "host") /\ Fits(a, g, "uri") /\ Fits(a, g, "route")
           /\ Fits(a, g, "by") /\ Fits(a, g, "ip") /\ Fits(a, g, "marker") /\ Fits(a, g, "user")
    <2>1. g \in ChoicesOf(a, D) <=> \A d \in D : g[d] \in ValuesOf(a, d)
      <3>1. ASSUME \A d \in D : g[d] \in ValuesOf(a, d) PROVE g \in ChoicesOf(a, D)
        <4> DEFINE U == UNION {ValuesOf(a, d) : d \in D}
        <4>1. g = [d \in D |-> g[d]]
          BY DEF ChoicesOf
        <4>2. \A d \in D : g[d] \in U
          BY <3>1
        <4> HIDE DEF U
        <4>3. g \in [D -> U]
          BY <4>1, <4>2
        <4> QED
          BY <3>1, <4>3 DEF ChoicesOf, U
      <3>2. ASSUME g \in ChoicesOf(a, D) PROVE \A d \in D : g[d] \in ValuesOf(a, d)
        BY <3>2 DEF ChoicesOf
      <3> QED
        BY <3>1, <3>2
    <2>2. g \in ChoicesOf(a, D) <=> \A d \in Dim : Fits(a, g, d)
      BY <1>1, <2>1 DEF Fits
    <2> QED
      BY <2>2 DEF Dim
  <1> HIDE DEF a
  <1>16. ASSUME g \in ChoicesOf(a, D) PROVE Where("groups", f, a, TRUE)
    BY <1>4, <1>5, <1>6, <1>7, <1>8, <1>9, <1>12, <1>14, <1>15, <1>16 DEF Finds
  <1>17. ASSUME IsPlain(g), Where("groups", f, a, TRUE) PROVE g \in ChoicesOf(a, D)
    BY <1>4, <1>5, <1>6, <1>7, <1>8, <1>9, <1>12, <1>13, <1>14, <1>15, <1>17 DEF Finds
  <1> QED
    BY <1>16, <1>17 DEF a, f

LEMMA InvGroupsDrillDown == PagesInv => GroupsDrillDown
PROOF
  <1> DEFINE req == pager.req
             rows == Chosen(copies, req, query.to)
             by == ParseGroupBy(req.by)
             D == ToSet(by)
             Found(r, keys) == Where("groups", Normalize("groups", SearchFor(keys)), Attr[r.item], TRUE)
  <1> SUFFICES ASSUME PagesInv, req.route = "groups", query.list = "ok", pager.since = {},
                      NEW k \in DOMAIN query.page,
                      Survives(query.page[k].keys, Selected(req, query.to))
               PROVE  /\ RowsOf(query.page[k].keys, req, Selected(req, query.to)) \subseteq
                           {r \in Selected(req, query.to) : Found(r, query.page[k].keys)}
                      /\ IsPlain(query.page[k].keys) =>
                           query.page[k].hits =
                             Cardinality({r \in Selected(req, query.to) : Found(r, query.page[k].keys)})
    BY DEF GroupsDrillDown
  <1>1. query.page[k] \in GroupsIn(req, rows)
    BY DEF PagesInv, GroupsListed, Grouped, ToSet
  <1>2. req \in Requests
    BY DEF PagesInv, RowsInv, TypeOK
  <1>3. by \in Seq(Dim) /\ rows \in SUBSET Row /\ Selected(req, query.to) = rows
    BY <1>2, SearchAssumption, DimensionsKnown, SelectedChosen DEF Chosen
  <1> HIDE DEF req, rows, by
  <1>4. PICK g \in UNION {GroupsOf(Attr[r.item], by) : r \in rows} : query.page[k] = GroupAt(g, req, rows)
    BY <1>1 DEF GroupsIn, by
  <1>5. /\ query.page[k].keys = g /\ query.page[k].hits = Cardinality({r \in rows : g \in GroupsOf(Attr[r.item], by)})
        /\ RowsOf(g, req, rows) = {r \in rows : g \in GroupsOf(Attr[r.item], by)}
    BY <1>4 DEF GroupAt, RowsOf, by
  <1>6. PICK o \in rows : g \in GroupsOf(Attr[o.item], by)
    OBVIOUS
  <1>7. D \in SUBSET Dim /\ \A r \in rows : GroupsOf(Attr[r.item], by) = ChoicesOf(Attr[r.item], D)
    BY <1>3, GroupsAreChoices
  <1>8. Survives(g, rows)
    BY <1>3, <1>5
  <1>9. ASSUME NEW r \in rows
        PROVE  /\ g \in GroupsOf(Attr[r.item], by) => Found(r, g)
               /\ IsPlain(g) /\ Found(r, g) => g \in GroupsOf(Attr[r.item], by)
    <2>1. g \in ChoicesOf(Attr[o.item], D)
      BY <1>6, <1>7
    <2> HIDE DEF D
    <2>2. /\ g \in ChoicesOf(Attr[r.item], D) => Found(r, g)
          /\ IsPlain(g) /\ Found(r, g) => g \in ChoicesOf(Attr[r.item], D)
      BY <1>3, <1>7, <1>8, <2>1, GroupFound
    <2> QED
      BY <1>7, <2>2
  <1> HIDE DEF Found
  <1>10. RowsOf(g, req, rows) \subseteq {r \in rows : Found(r, g)}
    BY <1>5, <1>9
  <1>11. IsPlain(g) => {r \in rows : g \in GroupsOf(Attr[r.item], by)} = {r \in rows : Found(r, g)}
    BY <1>9
  <1> QED
    BY <1>3, <1>5, <1>10, <1>11

\* The search for the values of a group finds every row of the group, and of a plain
\* group as many as it has hits, where its values survive: Survives and IsPlain name
\* the values that the parameters of a search split, trim, drop or lack, and that they
\* search for in others (groupExprs, group.go:34-41; parseFilter, audit.go:32-66;
\* SplitIdentity, query.go:310-316).
THEOREM GroupsAreFound == Spec => []GroupsDrillDown
PROOF
  <1> QED
    BY InvGroupsDrillDown, PagesInvariant, PTL
=============================================================================
