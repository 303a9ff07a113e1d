----------------------------- MODULE IngestProofs -----------------------------
(***************************************************************************)
(* Proofs about Payload and Ingest: what the helpers return, by induction  *)
(* over a sequence; what parse makes of a payload, by induction over the   *)
(* batches in it; and the invariant that relates what is stored to what    *)
(* was delivered, from which the properties of Ingest follow.              *)
(***************************************************************************)
EXTENDS Ingest, FiniteFacts

-----------------------------------------------------------------------------
(* Sequences *)

\* What a sequence holds that grew by one element.
LEMMA AppendedIs ==
  ASSUME NEW T, NEW s \in Seq(T), NEW x \in T
  PROVE  /\ Append(s, x) \in Seq(T) /\ ToSet(Append(s, x)) = ToSet(s) \cup {x}
         /\ IsInjective(s) /\ x \notin ToSet(s) => IsInjective(Append(s, x))
PROOF
  <1> DEFINE t == Append(s, x)
             n == Len(s)
  <1>1. t \in Seq(T) /\ Len(t) = n + 1 /\ n \in Nat
    OBVIOUS
  <1>2. \A k \in 1..n : t[k] = s[k]
    OBVIOUS
  <1>3. t[n + 1] = x
    OBVIOUS
  <1>4. DOMAIN t = 1..n + 1 /\ DOMAIN s = 1..n
    BY <1>1
  <1> HIDE DEF t, n
  <1>5. ToSet(t) = {t[k] : k \in 1..n + 1} /\ ToSet(s) = {s[k] : k \in 1..n}
    BY <1>4 DEF ToSet
  <1>6. ToSet(t) = ToSet(s) \cup {x}
    BY <1>1, <1>2, <1>3, <1>5
  <1>7. ASSUME IsInjective(s), x \notin ToSet(s) PROVE IsInjective(t)
    <2>1. \A j, k \in 1..n : s[j] = s[k] => j = k
      BY <1>4, <1>7 DEF IsInjective
    <2>2. \A k \in 1..n : s[k] # x
      BY <1>5, <1>7
    <2>3. \A j, k \in 1..n + 1 : t[j] = t[k] => j = k
      BY <1>1, <1>2, <1>3, <2>1, <2>2
    <2> QED
      BY <1>4, <2>3 DEF IsInjective
  <1> QED
    BY <1>1, <1>6, <1>7 DEF t

\* The elements that are in a set, each as often as before.
LEMMA OnlyIs ==
  ASSUME NEW T, NEW s \in Seq(T), NEW S
  PROVE  /\ Only(s, S) \in Seq(T) /\ ToSet(Only(s, S)) = {x \in ToSet(s) : x \in S}
         /\ IsInjective(s) => IsInjective(Only(s, S))
PROOF
  <1> DEFINE n == Len(s)
             add(out, x) == IF x \in S THEN Append(out, x) ELSE out
             step == [p \in (1..n) \X Seq(T) |-> add(p[2], s[p[1]])]
             IsIter(g) == g = [t \in SUBSET (1..n) |->
                                 IF t = {} THEN <<>> ELSE add(g[t \ {Max(t)}], s[Max(t)])]
             iter == CHOOSE g : IsIter(g)
  <1>1. n \in Nat /\ DOMAIN s = 1..n /\ (\A k \in 1..n : s[k] \in T) /\ <<>> \in Seq(T)
    OBVIOUS
  <1>2. Only(s, S) = iter[1..n]
    BY <1>1 DEF Only, FoldLeft, MapThenFoldSet
  <1> HIDE DEF n
  <1>3. ASSUME NEW out \in Seq(T), NEW x \in T
        PROVE  /\ add(out, x) \in Seq(T)
               /\ ToSet(add(out, x)) = ToSet(out) \cup {y \in {x} : y \in S}
               /\ IsInjective(out) /\ x \notin ToSet(out) => IsInjective(add(out, x))
    <2>1. CASE x \in S
      BY <2>1, AppendedIs
    <2>2. CASE x \notin S
      BY <2>2
    <2> QED
      BY <2>1, <2>2
  <1> HIDE DEF add
  <1>4. step \in [(1..n) \X Seq(T) -> Seq(T)]
    BY <1>1, <1>3
  <1>5. \A k \in 1..n, out \in Seq(T) : step[<<k, out>>] = add(out, s[k])
    OBVIOUS
  <1> HIDE DEF step
  <1>6. PICK h \in [SUBSET (1..n) -> Seq(T)] : IsFoldLeft(h, n, <<>>, step)
    BY <1>1, <1>4, FoldLeftExists
  <1>7. ASSUME NEW t \in SUBSET (1..n)
        PROVE  h[t] = IF t = {} THEN <<>> ELSE add(h[t \ {Max(t)}], s[Max(t)])
    <2>1. h[t] = IF t = {} THEN <<>> ELSE step[<<Max(t), h[t \ {Max(t)}]>>]
      BY <1>6 DEF IsFoldLeft
    <2>2. t # {} => Max(t) \in 1..n
      BY <1>1, MaxInRange
    <2>3. h[t \ {Max(t)}] \in Seq(T)
      BY <1>6
    <2> QED
      BY <1>5, <2>1, <2>2, <2>3
  <1>8. IsIter(h)
    BY <1>6, <1>7
  <1>9. IsIter(iter)
    <2> HIDE DEF IsIter
    <2> QED
      BY <1>8
  <1> HIDE DEF iter
  <1>10. IsFoldIn(iter, n, Seq(T), <<>>, step)
    <2>1. ASSUME NEW t \in SUBSET (1..n), t # {}, iter[t \ {Max(t)}] \in Seq(T)
          PROVE  iter[t] = step[<<Max(t), iter[t \ {Max(t)}]>>]
      <3>1. Max(t) \in 1..n
        BY <1>1, <2>1, MaxInRange
      <3>2. iter[t] = add(iter[t \ {Max(t)}], s[Max(t)])
        BY <1>9, <2>1
      <3> QED
        BY <1>5, <2>1, <3>1, <3>2
    <2> QED
      BY <1>9, <2>1 DEF IsFoldIn
  <1> HIDE DEF IsIter
  <1>11. /\ iter[{}] = <<>> /\ \A k \in 0..n : iter[1..k] \in Seq(T)
         /\ \A k \in 1..n : iter[1..k] = add(iter[1..k - 1], s[k])
    <2>1. FoldRuns(iter, n, Seq(T), <<>>, step)
      BY <1>1, <1>4, <1>10, FoldLeftRuns
    <2>2. \A k \in 1..n : k - 1 \in 0..n
      BY <1>1
    <2> QED
      BY <1>5, <2>1, <2>2 DEF FoldRuns
  <1> DEFINE Holds(k) == /\ ToSet(iter[1..k]) = {x \in {s[i] : i \in 1..k} : x \in S}
                         /\ IsInjective(s) => IsInjective(iter[1..k])
             P == {k \in 0..n : Holds(k)}
  <1>12. 0 \in P
    <2>1. 1..0 = {} /\ 0 \in 0..n
      BY <1>1
    <2>2. ToSet(<<>>) = {} /\ IsInjective(<<>>)
      BY DEF ToSet, IsInjective
    <2>3. iter[1..0] = <<>> /\ {s[i] : i \in 1..0} = {}
      BY <1>11, <2>1, Zenon
    <2> QED
      BY <2>1, <2>2, <2>3
  <1>13. ASSUME NEW k \in 0..n - 1, k \in P PROVE k + 1 \in P
    <2>1. /\ k \in Nat /\ k \in 0..n /\ k + 1 \in 1..n /\ k + 1 \in 0..n /\ (k + 1) - 1 = k
          /\ s[k + 1] \in T
      BY <1>1
    <2>2. iter[1..k + 1] = add(iter[1..k], s[k + 1]) /\ iter[1..k] \in Seq(T)
      BY <1>11, <2>1
    <2>3. {s[i] : i \in 1..k + 1} = {s[i] : i \in 1..k} \cup {s[k + 1]}
      BY <2>1
    <2>4. ToSet(iter[1..k + 1]) = {x \in {s[i] : i \in 1..k + 1} : x \in S}
      <3>1. ToSet(iter[1..k + 1]) = ToSet(iter[1..k]) \cup {y \in {s[k + 1]} : y \in S}
        BY <1>3, <2>1, <2>2
      <3>2. ToSet(iter[1..k]) = {x \in {s[i] : i \in 1..k} : x \in S}
        BY <1>13
      <3> QED
        BY <2>3, <3>1, <3>2
    <2>5. ASSUME IsInjective(s) PROVE IsInjective(iter[1..k + 1])
      <3>1. \A i \in 1..k : s[i] # s[k + 1]
        BY <1>1, <2>1, <2>5 DEF IsInjective
      <3>2. s[k + 1] \notin ToSet(iter[1..k])
        BY <1>13, <3>1
      <3> QED
        BY <1>3, <1>13, <2>1, <2>2, <2>5, <3>2
    <2> QED
      BY <2>1, <2>4, <2>5
  <1>14. n \in P
    <2>1. 0..n \subseteq P
      <3> HIDE DEF P
      <3> QED
        BY <1>1, <1>12, <1>13, UpToInduction
    <2> HIDE DEF P
    <2> QED
      BY <1>1, <2>1
  <1>15. ToSet(s) = {s[i] : i \in 1..n}
    BY <1>1 DEF ToSet
  <1>16. iter[1..n] \in Seq(T)
    BY <1>1, <1>11
  <1> QED
    BY <1>2, <1>14, <1>15, <1>16

Increasing(s) == \A j, k \in 1..Len(s) : j < k => s[j] < s[k]

\* Where an element is put, and what stands beside it.
LEMMA InsertedIs ==
  ASSUME NEW s \in Seq(Nat), NEW x \in Nat, NEW p \in 0..Len(s)
  PROVE  LET t == InsertAt(s, p + 1, x)
         IN /\ t \in Seq(Nat) /\ Len(t) = Len(s) + 1
            /\ \A k \in 1..p : t[k] = s[k]
            /\ t[p + 1] = x
            /\ \A k \in p + 2..Len(s) + 1 : t[k] = s[k - 1]
PROOF
  <1> DEFINE n == Len(s)
             u == SubSeq(s, 1, p)
             w == SubSeq(s, p + 1, n)
  <1>1. n \in Nat /\ p \in Nat /\ p <= n /\ (p + 1) - 1 = p
    OBVIOUS
  <1>2. u \in Seq(Nat) /\ Len(u) = p /\ \A k \in 1..p : u[k] = s[k]
    BY <1>1
  <1>3. w \in Seq(Nat) /\ Len(w) = n - p /\ \A k \in 1..n - p : w[k] = s[k + p]
    BY <1>1
  <1>4. InsertAt(s, p + 1, x) = u \o <<x>> \o w
    BY <1>1 DEF InsertAt
  <1> HIDE DEF u, w, n
  <1> DEFINE v == u \o <<x>>
  <1>5. v \in Seq(Nat) /\ Len(v) = p + 1 /\ (\A k \in 1..p : v[k] = u[k]) /\ v[p + 1] = x
    BY <1>1, <1>2
  <1> HIDE DEF v
  <1> DEFINE t == v \o w
  <1>6. /\ t \in Seq(Nat) /\ Len(t) = (p + 1) + (n - p)
        /\ \A k \in 1..p + 1 : t[k] = v[k]
        /\ \A k \in 1..n - p : t[(p + 1) + k] = w[k]
    <2>1. t \in Seq(Nat) /\ Joined(t, v, w)
      BY <1>3, <1>5, Concatenated
    <2> HIDE DEF t
    <2> QED
      BY <1>3, <1>5, <2>1 DEF Joined
  <1>7. InsertAt(s, p + 1, x) = t
    BY <1>4 DEF v
  <1> HIDE DEF t
  <1>8. Len(t) = n + 1
    BY <1>1, <1>6
  <1>9. \A k \in 1..p : t[k] = s[k]
    <2>1. \A k \in 1..p : k \in 1..p + 1
      BY <1>1
    <2> QED
      BY <1>2, <1>5, <1>6, <2>1
  <1>10. t[p + 1] = x
    BY <1>1, <1>5, <1>6
  <1>11. ASSUME NEW k \in p + 2..n + 1 PROVE t[k] = s[k - 1]
    <2>1. /\ k - (p + 1) \in 1..n - p /\ (p + 1) + (k - (p + 1)) = k
          /\ (k - (p + 1)) + p = k - 1
      BY <1>1
    <2> DEFINE j == k - (p + 1)
    <2>2. j \in 1..n - p /\ (p + 1) + j = k /\ j + p = k - 1
      BY <2>1
    <2> HIDE DEF j
    <2>3. t[(p + 1) + j] = s[j + p]
      BY <1>3, <1>6, <2>2
    <2> QED
      BY <2>2, <2>3
  <1> QED
    BY <1>6, <1>7, <1>8, <1>9, <1>10, <1>11 DEF n

\* Behind which element another one goes.
Place(s, x) == {0} \cup {k \in DOMAIN s : s[k] <= x}

LEMMA PlaceIs ==
  ASSUME NEW s \in Seq(Nat), NEW x \in Nat
  PROVE  Max(Place(s, x)) \in Place(s, x) /\ \A k \in Place(s, x) : k <= Max(Place(s, x))
PROOF
  <1> DEFINE n == Len(s)
             B == {0} \cup {k \in DOMAIN s : s[k] <= x}
             p == Max(B)
  <1>1. n \in Nat /\ DOMAIN s = 1..n /\ \A k \in 1..n : s[k] \in Nat
    OBVIOUS
  <1>2. p \in B /\ \A k \in B : k <= p
    <2>1. IsFiniteSet(0..n) /\ B \subseteq 0..n /\ 0..n \subseteq Nat
      <3>1. IsFiniteSet(0..n)
        BY <1>1, FS_Interval
      <3> QED
        BY <1>1, <3>1
    <2>2. IsFiniteSet(B) /\ B \in SUBSET Nat /\ B # {}
      <3>1. IsFiniteSet(B)
        BY <2>1, FS_Subset
      <3> QED
        BY <2>1, <3>1
    <2> HIDE DEF B
    <2>3. PICK b \in B : \A k \in B : k <= b
      BY <2>2, LargestExists
    <2>4. \A k \in B : b >= k
      BY <2>2, <2>3
    <2>5. p \in B /\ \A k \in B : p >= k
      BY <2>4 DEF Max
    <2> QED
      BY <2>2, <2>5
  <1> QED
    BY <1>2 DEF Place

LEMMA InsertType ==
  ASSUME NEW s \in Seq(Nat), NEW x \in Nat
  PROVE  Insert(s, x) \in Seq(Nat)
PROOF
  <1> DEFINE p == Max(Place(s, x))
  <1>1. p \in 0..Len(s)
    <2>1. p \in Place(s, x)
      BY PlaceIs
    <2> HIDE DEF p
    <2> QED
      BY <2>1 DEF Place
  <1>2. Insert(s, x) = InsertAt(s, p + 1, x)
    BY DEF Insert, Place
  <1> HIDE DEF p
  <1> QED
    BY <1>1, <1>2, InsertedIs

\* An element that is not among those of an increasing sequence goes to its place.
LEMMA InsertIs ==
  ASSUME NEW s \in Seq(Nat), Increasing(s), NEW x \in Nat, x \notin ToSet(s)
  PROVE  Insert(s, x) \in Seq(Nat) /\ Increasing(Insert(s, x)) /\ ToSet(Insert(s, x)) = ToSet(s) \cup {x}
PROOF
  <1> DEFINE n == Len(s)
             B == {0} \cup {k \in DOMAIN s : s[k] <= x}
             p == Max(B)
             t == InsertAt(s, p + 1, x)
  <1>1. n \in Nat /\ DOMAIN s = 1..n /\ \A k \in 1..n : s[k] \in Nat
    OBVIOUS
  <1>2. p \in B /\ \A k \in B : k <= p
    BY PlaceIs DEF Place
  <1>3. p \in 0..n
    BY <1>1, <1>2
  <1>4. \A k \in 1..n : k <= p => s[k] < x
    <2>1. \A k \in 1..n : s[k] # x
      BY <1>1 DEF ToSet
    <2>2. p # 0 => p \in 1..n /\ s[p] <= x
      BY <1>1, <1>2
    <2> HIDE DEF p
    <2>3. ASSUME NEW k \in 1..n, k <= p PROVE s[k] < x
      <3>1. p # 0 /\ s[p] < x /\ p \in 1..n /\ s[p] \in Nat
        BY <1>1, <1>3, <2>1, <2>2, <2>3
      <3>2. k < p => s[k] < s[p]
        BY <3>1 DEF Increasing
      <3> QED
        BY <1>1, <2>3, <3>1, <3>2
    <2> QED
      BY <2>3
  <1>5. \A k \in 1..n : k > p => x < s[k]
    <2>1. ASSUME NEW k \in 1..n, k > p PROVE x < s[k]
      <3>1. ~(k <= p)
        BY <1>3, <2>1
      <3>2. k \notin B
        BY <1>2, <3>1
      <3> QED
        BY <1>1, <3>2
    <2> QED
      BY <2>1
  <1>6. Insert(s, x) = t
    BY DEF Insert
  <1> HIDE DEF p, t, n
  <1>7. /\ t \in Seq(Nat) /\ Len(t) = n + 1
        /\ \A k \in 1..p : t[k] = s[k]
        /\ t[p + 1] = x
        /\ \A k \in p + 2..n + 1 : t[k] = s[k - 1]
    BY <1>3, InsertedIs DEF t, n
  <1>8. \A k \in 1..n + 1 : \/ k \in 1..p /\ k \in 1..n
                            \/ k = p + 1
                            \/ k \in p + 2..n + 1 /\ k - 1 \in 1..n /\ k - 1 > p
    BY <1>1, <1>3
  <1>9. Increasing(t)
    <2>1. ASSUME NEW j \in 1..n + 1, NEW k \in 1..n + 1, j < k PROVE t[j] < t[k]
      <3>1. CASE k \in 1..p
        <4>1. j \in 1..p /\ j \in 1..n /\ k \in 1..n
          BY <1>1, <1>3, <2>1, <3>1
        <4>2. s[j] < s[k]
          BY <2>1, <4>1 DEF Increasing, n
        <4> QED
          BY <1>7, <3>1, <4>1, <4>2
      <3>2. CASE k = p + 1
        <4>1. j \in 1..p /\ j \in 1..n /\ j <= p
          BY <1>1, <1>3, <2>1, <3>2
        <4> QED
          BY <1>4, <1>7, <3>2, <4>1
      <3>3. CASE k \in p + 2..n + 1 /\ k - 1 \in 1..n /\ k - 1 > p
        <4>1. t[k] = s[k - 1] /\ x < s[k - 1] /\ s[k - 1] \in Nat
          BY <1>1, <1>5, <1>7, <3>3
        <4>2. CASE j \in 1..p /\ j \in 1..n
          <5>1. t[j] = s[j] /\ s[j] < x /\ s[j] \in Nat
            BY <1>1, <1>3, <1>4, <1>7, <4>2
          <5> QED
            BY <4>1, <5>1
        <4>3. CASE j = p + 1
          BY <1>7, <4>1, <4>3
        <4>4. CASE j \in p + 2..n + 1 /\ j - 1 \in 1..n
          <5>1. t[j] = s[j - 1] /\ j - 1 < k - 1
            BY <1>7, <2>1, <4>4
          <5>2. s[j - 1] < s[k - 1]
            BY <3>3, <4>4, <5>1 DEF Increasing, n
          <5> QED
            BY <4>1, <5>1, <5>2
        <4> QED
          BY <1>8, <4>2, <4>3, <4>4
      <3> QED
        BY <1>8, <3>1, <3>2, <3>3
    <2> QED
      BY <1>7, <2>1 DEF Increasing
  <1>10. ToSet(t) = ToSet(s) \cup {x}
    <2>1. ToSet(t) = {t[k] : k \in 1..n + 1} /\ ToSet(s) = {s[k] : k \in 1..n}
      <3>1. DOMAIN t = 1..n + 1 /\ DOMAIN s = 1..n
        BY <1>1, <1>7
      <3> QED
        BY <3>1 DEF ToSet
    <2>2. ASSUME NEW k \in 1..n + 1 PROVE t[k] \in ToSet(s) \cup {x}
      BY <1>7, <1>8, <2>1
    <2>3. ASSUME NEW k \in 1..n PROVE s[k] \in ToSet(t)
      <3>1. CASE k <= p
        <4>1. k \in 1..p /\ k \in 1..n + 1
          BY <1>1, <1>3, <3>1
        <4> QED
          BY <1>7, <2>1, <4>1
      <3>2. CASE k > p
        <4>1. k + 1 \in p + 2..n + 1 /\ k + 1 \in 1..n + 1 /\ (k + 1) - 1 = k
          BY <1>1, <1>3, <3>2
        <4>2. t[k + 1] = s[k]
          BY <1>7, <4>1
        <4> QED
          BY <2>1, <4>1, <4>2
      <3> QED
        BY <1>1, <1>3, <3>1, <3>2
    <2>4. x \in ToSet(t)
      <3>1. p + 1 \in 1..n + 1
        BY <1>1, <1>3
      <3> QED
        BY <1>7, <2>1, <3>1
    <2> QED
      BY <2>1, <2>2, <2>3, <2>4
  <1> QED
    BY <1>6, <1>7, <1>9, <1>10

\* Two increasing sequences with the same elements are equal.
LEMMA SameOrder ==
  ASSUME NEW s \in Seq(Nat), NEW t \in Seq(Nat), Increasing(s), Increasing(t), ToSet(s) = ToSet(t)
  PROVE  s = t
PROOF
  <1> DEFINE Until(a, b, k) == k <= Len(a) => k <= Len(b) /\ a[k] = b[k]
             Alike(k) == \A j \in 1..k : Until(s, t, j) /\ Until(t, s, j)
             n == Len(s) + Len(t)
             P == {k \in 0..n : Alike(k)}
  <1>1. /\ Len(s) \in Nat /\ Len(t) \in Nat
        /\ (\A k \in 1..Len(s) : s[k] \in Nat) /\ (\A k \in 1..Len(t) : t[k] \in Nat)
        /\ \A k \in 1..Len(s) : \E j \in 1..Len(t) : t[j] = s[k]
        /\ \A k \in 1..Len(t) : \E j \in 1..Len(s) : s[j] = t[k]
    <2>1. DOMAIN s = 1..Len(s) /\ DOMAIN t = 1..Len(t)
      OBVIOUS
    <2>2. ToSet(s) = {s[k] : k \in 1..Len(s)} /\ ToSet(t) = {t[k] : k \in 1..Len(t)}
      BY <2>1 DEF ToSet
    <2>3. \A k \in 1..Len(s) : \E j \in 1..Len(t) : t[j] = s[k]
      <3>1. \A k \in 1..Len(s) : s[k] \in ToSet(t)
        BY <2>2
      <3> QED
        BY <2>2, <3>1
    <2>4. \A k \in 1..Len(t) : \E j \in 1..Len(s) : s[j] = t[k]
      <3>1. \A k \in 1..Len(t) : t[k] \in ToSet(s)
        BY <2>2
      <3> QED
        BY <2>2, <3>1
    <2>5. /\ Len(s) \in Nat /\ Len(t) \in Nat
          /\ (\A k \in 1..Len(s) : s[k] \in Nat) /\ (\A k \in 1..Len(t) : t[k] \in Nat)
      OBVIOUS
    <2> QED
      BY <2>3, <2>4, <2>5
  <1>2. 0 \in P
    BY <1>1
  <1>3. ASSUME NEW a \in Seq(Nat), NEW b \in Seq(Nat), Increasing(a), Increasing(b),
               NEW k \in Nat, k + 1 <= Len(a),
               \A j \in 1..k : Until(a, b, j),
               \E j \in 1..Len(b) : b[j] = a[k + 1]
        PROVE  k + 1 <= Len(b) /\ b[k + 1] <= a[k + 1]
    <2>1. PICK j \in 1..Len(b) : b[j] = a[k + 1]
      BY <1>3
    <2>2. /\ Len(a) \in Nat /\ Len(b) \in Nat /\ j \in Nat
          /\ (\A i \in 1..Len(a) : a[i] \in Nat) /\ (\A i \in 1..Len(b) : b[i] \in Nat)
      OBVIOUS
    <2>3. j > k
      <3> SUFFICES ASSUME j <= k PROVE FALSE
        BY <2>2
      <3>1. j \in 1..k /\ j \in 1..Len(a) /\ k + 1 \in 1..Len(a) /\ j < k + 1
        BY <1>3, <2>2
      <3>2. b[j] = a[j]
        BY <1>3, <3>1
      <3>3. a[j] < a[k + 1] /\ a[j] \in Nat
        BY <1>3, <2>2, <3>1 DEF Increasing
      <3> QED
        BY <2>1, <3>2, <3>3
    <2>4. k + 1 <= j /\ k + 1 \in 1..Len(b)
      BY <2>2, <2>3
    <2>5. k + 1 < j => b[k + 1] < b[j]
      BY <1>3, <2>4 DEF Increasing
    <2>6. k + 1 <= Len(b)
      BY <2>2, <2>4
    <2>7. b[k + 1] <= b[j]
      <3>1. b[k + 1] \in Nat /\ b[j] \in Nat
        BY <2>2, <2>4
      <3>2. CASE k + 1 = j
        BY <3>1, <3>2
      <3>3. CASE k + 1 # j
        <4>1. b[k + 1] < b[j]
          BY <2>2, <2>4, <2>5, <3>3
        <4> QED
          BY <3>1, <4>1
      <3> QED
        BY <3>2, <3>3
    <2> QED
      BY <2>1, <2>6, <2>7
  <1>4. ASSUME NEW k \in 0..n - 1, k \in P PROVE k + 1 \in P
    <2>1. k \in Nat /\ k + 1 \in 0..n
      BY <1>1
    <2>2. ASSUME k + 1 <= Len(s) PROVE k + 1 <= Len(t) /\ t[k + 1] <= s[k + 1]
      <3>1. k + 1 \in 1..Len(s)
        BY <2>1, <2>2
      <3> QED
        BY <1>1, <1>3, <1>4, <2>1, <2>2, <3>1
    <2>3. ASSUME k + 1 <= Len(t) PROVE k + 1 <= Len(s) /\ s[k + 1] <= t[k + 1]
      <3>1. k + 1 \in 1..Len(t)
        BY <2>1, <2>3
      <3> QED
        BY <1>1, <1>3, <1>4, <2>1, <2>3, <3>1
    <2>4. Until(s, t, k + 1) /\ Until(t, s, k + 1)
      <3>1. k + 1 <= Len(s) /\ k + 1 <= Len(t) => s[k + 1] \in Nat /\ t[k + 1] \in Nat
        BY <1>1, <2>1
      <3> QED
        BY <2>2, <2>3, <3>1
    <2>5. \A j \in 1..k + 1 : j \in 1..k \/ j = k + 1
      BY <2>1
    <2>6. Alike(k + 1)
      BY <1>4, <2>4, <2>5
    <2> HIDE DEF Alike
    <2> QED
      BY <2>1, <2>6
  <1>5. 0..n \subseteq P
    <2>1. n \in Nat
      BY <1>1
    <2> HIDE DEF P, n
    <2> QED
      BY <1>2, <1>4, <2>1, UpToInduction
  <1>6. Alike(n)
    <2>1. n \in 0..n
      BY <1>1
    <2> HIDE DEF Alike, n
    <2> QED
      BY <1>5, <2>1
  <1>7. (\A k \in 1..Len(s) : Until(s, t, k)) /\ (\A k \in 1..Len(t) : Until(t, s, k))
    <2>1. \A k \in 1..Len(s) : k \in 1..n
      BY <1>1
    <2>2. \A k \in 1..Len(t) : k \in 1..n
      BY <1>1
    <2> HIDE DEF Until, n
    <2> QED
      BY <1>6, <2>1, <2>2
  <1>8. Len(s) = Len(t)
    <2>1. Len(s) # 0 => Until(s, t, Len(s))
      BY <1>1, <1>7
    <2>2. Len(t) # 0 => Until(t, s, Len(t))
      BY <1>1, <1>7
    <2> QED
      BY <1>1, <2>1, <2>2
  <1>9. \A k \in 1..Len(s) : s[k] = t[k]
    BY <1>1, <1>7
  <1> QED
    BY <1>8, <1>9, SeqEqual

\* sortStrings sorts names that are distinct.
LEMMA SortedIs ==
  ASSUME NEW s \in Seq(Nat), IsInjective(s)
  PROVE  Sorted(s) \in Seq(Nat) /\ Increasing(Sorted(s)) /\ ToSet(Sorted(s)) = ToSet(s)
PROOF
  <1> DEFINE n == Len(s)
             step == [p \in (1..n) \X Seq(Nat) |-> Insert(p[2], s[p[1]])]
             IsIter(g) == g = [t \in SUBSET (1..n) |->
                                 IF t = {} THEN <<>> ELSE Insert(g[t \ {Max(t)}], s[Max(t)])]
             iter == CHOOSE g : IsIter(g)
  <1>1. n \in Nat /\ DOMAIN s = 1..n /\ (\A k \in 1..n : s[k] \in Nat) /\ <<>> \in Seq(Nat)
    OBVIOUS
  <1>2. Sorted(s) = iter[1..n]
    BY <1>1 DEF Sorted, FoldLeft, MapThenFoldSet
  <1> HIDE DEF n
  <1>3. step \in [(1..n) \X Seq(Nat) -> Seq(Nat)]
    BY <1>1, InsertType
  <1>4. \A k \in 1..n, out \in Seq(Nat) : step[<<k, out>>] = Insert(out, s[k])
    OBVIOUS
  <1> HIDE DEF step
  <1>5. PICK h \in [SUBSET (1..n) -> Seq(Nat)] : IsFoldLeft(h, n, <<>>, step)
    BY <1>1, <1>3, FoldLeftExists
  <1>6. ASSUME NEW t \in SUBSET (1..n)
        PROVE  h[t] = IF t = {} THEN <<>> ELSE Insert(h[t \ {Max(t)}], s[Max(t)])
    <2>1. h[t] = IF t = {} THEN <<>> ELSE step[<<Max(t), h[t \ {Max(t)}]>>]
      BY <1>5 DEF IsFoldLeft
    <2>2. t # {} => Max(t) \in 1..n
      BY <1>1, MaxInRange
    <2>3. h[t \ {Max(t)}] \in Seq(Nat)
      BY <1>5
    <2> QED
      BY <1>4, <2>1, <2>2, <2>3
  <1>7. IsIter(h)
    BY <1>5, <1>6
  <1>8. IsIter(iter)
    <2> HIDE DEF IsIter
    <2> QED
      BY <1>7
  <1> HIDE DEF iter
  <1>9. IsFoldIn(iter, n, Seq(Nat), <<>>, step)
    <2>1. ASSUME NEW t \in SUBSET (1..n), t # {}, iter[t \ {Max(t)}] \in Seq(Nat)
          PROVE  iter[t] = step[<<Max(t), iter[t \ {Max(t)}]>>]
      <3>1. Max(t) \in 1..n
        BY <1>1, <2>1, MaxInRange
      <3>2. iter[t] = Insert(iter[t \ {Max(t)}], s[Max(t)])
        BY <1>8, <2>1
      <3> QED
        BY <1>4, <2>1, <3>1, <3>2
    <2> QED
      BY <1>8, <2>1 DEF IsFoldIn
  <1> HIDE DEF IsIter
  <1>10. /\ iter[{}] = <<>> /\ \A k \in 0..n : iter[1..k] \in Seq(Nat)
         /\ \A k \in 1..n : iter[1..k] = Insert(iter[1..k - 1], s[k])
    <2>1. FoldRuns(iter, n, Seq(Nat), <<>>, step)
      BY <1>1, <1>3, <1>9, FoldLeftRuns
    <2>2. \A k \in 1..n : k - 1 \in 0..n
      BY <1>1
    <2> QED
      BY <1>4, <2>1, <2>2 DEF FoldRuns
  <1> DEFINE Holds(k) == Increasing(iter[1..k]) /\ ToSet(iter[1..k]) = {s[i] : i \in 1..k}
             P == {k \in 0..n : Holds(k)}
  <1>11. 0 \in P
    <2>1. 1..0 = {} /\ 0 \in 0..n
      BY <1>1
    <2>2. ToSet(<<>>) = {} /\ Increasing(<<>>)
      BY DEF ToSet, Increasing
    <2>3. iter[1..0] = <<>> /\ {s[i] : i \in 1..0} = {}
      BY <1>10, <2>1, Zenon
    <2> QED
      BY <2>1, <2>2, <2>3
  <1>12. ASSUME NEW k \in 0..n - 1, k \in P PROVE k + 1 \in P
    <2>1. /\ k \in Nat /\ k \in 0..n /\ k + 1 \in 1..n /\ k + 1 \in 0..n /\ (k + 1) - 1 = k
          /\ s[k + 1] \in Nat
      BY <1>1
    <2>2. iter[1..k + 1] = Insert(iter[1..k], s[k + 1]) /\ iter[1..k] \in Seq(Nat)
      BY <1>10, <2>1
    <2>3. {s[i] : i \in 1..k + 1} = {s[i] : i \in 1..k} \cup {s[k + 1]}
      BY <2>1
    <2>4. ASSUME NEW i \in 1..k PROVE s[i] # s[k + 1]
      <3>1. i \in DOMAIN s /\ k + 1 \in DOMAIN s /\ i # k + 1
        BY <1>1, <2>1
      <3> QED
        BY <3>1 DEF IsInjective
    <2>5. s[k + 1] \notin ToSet(iter[1..k]) /\ Increasing(iter[1..k])
      BY <1>12, <2>4
    <2>6. Increasing(iter[1..k + 1]) /\ ToSet(iter[1..k + 1]) = ToSet(iter[1..k]) \cup {s[k + 1]}
      BY <2>1, <2>2, <2>5, InsertIs
    <2> QED
      BY <1>12, <2>1, <2>3, <2>6
  <1>13. n \in P
    <2>1. 0..n \subseteq P
      <3> HIDE DEF P
      <3> QED
        BY <1>1, <1>11, <1>12, UpToInduction
    <2> HIDE DEF P
    <2> QED
      BY <1>1, <2>1
  <1>14. ToSet(s) = {s[i] : i \in 1..n}
    BY <1>1 DEF ToSet
  <1>15. iter[1..n] \in Seq(Nat)
    BY <1>1, <1>10
  <1> QED
    BY <1>2, <1>13, <1>14, <1>15

-----------------------------------------------------------------------------
(* A request *)

\* The names in a set are sorted, in whatever order Go ranges over them.
LEMMA NamesSorted ==
  ASSUME NEW order \in SetToSeqs(Name), NEW S \in SUBSET Name
  PROVE  LET names == Sorted(Only(order, S))
         IN names \in Seq(Nat) /\ Increasing(names) /\ ToSet(names) = S
PROOF
  <1>1. IsFiniteSet(Name) /\ Name \subseteq Nat
    BY PayloadAssumption
  <1>2. /\ order \in Seq(Name) /\ Len(order) \in Nat
        /\ \A x \in Name : \E k \in 1..Len(order) : order[k] = x
        /\ \A j, k \in 1..Len(order) : order[j] = order[k] => j = k
    BY <1>1, ListedOnce
  <1>3. DOMAIN order = 1..Len(order) /\ order \in Seq(Nat)
    <2>0. order \in Seq(Name)
      BY <1>2
    <2>1. DOMAIN order = 1..Len(order) /\ \A k \in 1..Len(order) : order[k] \in Name
      BY <2>0
    <2>2. \A k \in 1..Len(order) : order[k] \in Nat
      BY <1>1, <2>1
    <2>3. order = [k \in 1..Len(order) |-> order[k]]
      BY <2>0, <2>1
    <2>4. [k \in 1..Len(order) |-> order[k]] \in Seq(Nat)
      BY <1>2, <2>2
    <2> QED
      BY <2>1, <2>3, <2>4, Zenon
  <1>4. IsInjective(order) /\ ToSet(order) = Name
    <2>1. IsInjective(order)
      BY <1>2, <1>3 DEF IsInjective
    <2>2. ToSet(order) = {order[k] : k \in 1..Len(order)}
      BY <1>3 DEF ToSet
    <2>3. \A k \in 1..Len(order) : order[k] \in Name
      BY <1>2
    <2>4. \A x \in Name : \E k \in 1..Len(order) : order[k] = x
      BY <1>2
    <2>5. {order[k] : k \in 1..Len(order)} = Name
      BY <2>3, <2>4
    <2> QED
      BY <2>1, <2>2, <2>5
  <1> DEFINE only == Only(order, S)
  <1>5. only \in Seq(Nat) /\ ToSet(only) = S /\ IsInjective(only)
    <2>1. only \in Seq(Nat) /\ ToSet(only) = {x \in ToSet(order) : x \in S} /\ IsInjective(only)
      BY <1>3, <1>4, OnlyIs
    <2> HIDE DEF only
    <2> QED
      BY <1>4, <2>1
  <1> HIDE DEF only
  <1>6. Sorted(only) \in Seq(Nat) /\ Increasing(Sorted(only)) /\ ToSet(Sorted(only)) = ToSet(only)
    BY <1>5, SortedIs
  <1> QED
    BY <1>5, <1>6 DEF only

\* Go may range over the inspectors of a request in another order: the row is the same.
LEMMA RowForgetsOrder ==
  ASSUME NEW q, IsRequest(q), NEW t, NEW a \in SetToSeqs(Name), NEW b \in SetToSeqs(Name)
  PROVE  RowOf(q, t, a) = RowOf(q, t, b)
PROOF
  <1>1. ASSUME NEW S \in SUBSET Name PROVE Sorted(Only(a, S)) = Sorted(Only(b, S))
    <2> DEFINE x == Sorted(Only(a, S))
               y == Sorted(Only(b, S))
    <2>1. x \in Seq(Nat) /\ Increasing(x) /\ ToSet(x) = S
      BY NamesSorted
    <2>2. y \in Seq(Nat) /\ Increasing(y) /\ ToSet(y) = S
      BY NamesSorted
    <2> HIDE DEF x, y
    <2>3. x = y
      BY <2>1, <2>2, SameOrder
    <2> QED
      BY <2>3 DEF x, y
  <1> DEFINE items == q.inspectors
  <1>2. DOMAIN items \subseteq Name
    BY DEF IsRequest
  <1> HIDE DEF items
  <1>3. NamesOf(items, a) = NamesOf(items, b)
    BY <1>1, <1>2 DEF NamesOf
  <1>4. FoldRewrites(items, a) = FoldRewrites(items, b)
    <2> DEFINE S == {n \in DOMAIN items : items[n].rewrite \notin {"", "null"}}
    <2>1. Sorted(Only(a, S)) = Sorted(Only(b, S))
      BY <1>1, <1>2
    <2>2. ASSUME NEW o PROVE FoldRewrites(items, o) = LET names == Sorted(Only(o, S))
                                                     IN [k \in DOMAIN names |-> [name |-> names[k], raw |-> items[names[k]].rewrite]]
      BY DEF FoldRewrites
    <2> HIDE DEF S
    <2> QED
      BY <2>1, <2>2
  <1> QED
    BY <1>3, <1>4 DEF RowOf, items

\* Each marker comes once, an empty one not at all.
LEMMA MarkersAre ==
  ASSUME NEW T, NEW s \in Seq(T)
  PROVE  ToSet(Markers(s)) = ToSet(s) \ {""} /\ IsInjective(Markers(s))
PROOF
  <1> DEFINE n == Len(s)
             add(out, x) == IF x = "" \/ Contains(out, x) THEN out ELSE Append(out, x)
             step == [p \in (1..n) \X Seq(T) |-> add(p[2], s[p[1]])]
             IsIter(g) == g = [t \in SUBSET (1..n) |->
                                 IF t = {} THEN <<>> ELSE add(g[t \ {Max(t)}], s[Max(t)])]
             iter == CHOOSE g : IsIter(g)
  <1>1. n \in Nat /\ DOMAIN s = 1..n /\ (\A k \in 1..n : s[k] \in T) /\ <<>> \in Seq(T)
    OBVIOUS
  <1>2. Markers(s) = iter[1..n]
    BY <1>1 DEF Markers, FoldLeft, MapThenFoldSet
  <1> HIDE DEF n
  <1>3. ASSUME NEW out \in Seq(T), NEW x \in T
        PROVE  /\ add(out, x) \in Seq(T)
               /\ ToSet(add(out, x)) = ToSet(out) \cup ({x} \ {""})
               /\ IsInjective(out) => IsInjective(add(out, x))
    <2>1. Contains(out, x) <=> x \in ToSet(out)
      <3>1. DOMAIN out = 1..Len(out)
        OBVIOUS
      <3> QED
        BY <3>1 DEF Contains, ToSet
    <2>2. CASE x = "" \/ Contains(out, x)
      BY <2>1, <2>2
    <2>3. CASE ~(x = "" \/ Contains(out, x))
      <3>1. add(out, x) = Append(out, x) /\ x \notin ToSet(out) /\ x # ""
        BY <2>1, <2>3
      <3> HIDE DEF add
      <3>2. /\ Append(out, x) \in Seq(T) /\ ToSet(Append(out, x)) = ToSet(out) \cup {x}
            /\ IsInjective(out) => IsInjective(Append(out, x))
        <4>1. /\ Append(out, x) \in Seq(T) /\ ToSet(Append(out, x)) = ToSet(out) \cup {x}
              /\ IsInjective(out) /\ x \notin ToSet(out) => IsInjective(Append(out, x))
          BY AppendedIs, Zenon
        <4> QED
          BY <3>1, <4>1, Zenon
      <3>3. {x} \ {""} = {x}
        BY <3>1
      <3> QED
        BY <3>1, <3>2, <3>3
    <2> QED
      BY <2>2, <2>3
  <1> HIDE DEF add
  <1>4. step \in [(1..n) \X Seq(T) -> Seq(T)]
    BY <1>1, <1>3
  <1>5. \A k \in 1..n, out \in Seq(T) : step[<<k, out>>] = add(out, s[k])
    OBVIOUS
  <1> HIDE DEF step
  <1>6. PICK h \in [SUBSET (1..n) -> Seq(T)] : IsFoldLeft(h, n, <<>>, step)
    BY <1>1, <1>4, FoldLeftExists
  <1>7. ASSUME NEW t \in SUBSET (1..n)
        PROVE  h[t] = IF t = {} THEN <<>> ELSE add(h[t \ {Max(t)}], s[Max(t)])
    <2>1. h[t] = IF t = {} THEN <<>> ELSE step[<<Max(t), h[t \ {Max(t)}]>>]
      BY <1>6 DEF IsFoldLeft
    <2>2. t # {} => Max(t) \in 1..n
      BY <1>1, MaxInRange
    <2>3. h[t \ {Max(t)}] \in Seq(T)
      BY <1>6
    <2> QED
      BY <1>5, <2>1, <2>2, <2>3
  <1>8. IsIter(h)
    BY <1>6, <1>7
  <1>9. IsIter(iter)
    <2> HIDE DEF IsIter
    <2> QED
      BY <1>8
  <1> HIDE DEF iter
  <1>10. IsFoldIn(iter, n, Seq(T), <<>>, step)
    <2>1. ASSUME NEW t \in SUBSET (1..n), t # {}, iter[t \ {Max(t)}] \in Seq(T)
          PROVE  iter[t] = step[<<Max(t), iter[t \ {Max(t)}]>>]
      <3>1. Max(t) \in 1..n
        BY <1>1, <2>1, MaxInRange
      <3>2. iter[t] = add(iter[t \ {Max(t)}], s[Max(t)])
        BY <1>9, <2>1
      <3> QED
        BY <1>5, <2>1, <3>1, <3>2
    <2> QED
      BY <1>9, <2>1 DEF IsFoldIn
  <1> HIDE DEF IsIter
  <1>11. /\ iter[{}] = <<>> /\ \A k \in 0..n : iter[1..k] \in Seq(T)
         /\ \A k \in 1..n : iter[1..k] = add(iter[1..k - 1], s[k])
    <2>1. FoldRuns(iter, n, Seq(T), <<>>, step)
      BY <1>1, <1>4, <1>10, FoldLeftRuns
    <2>2. \A k \in 1..n : k - 1 \in 0..n
      BY <1>1
    <2> QED
      BY <1>5, <2>1, <2>2 DEF FoldRuns
  <1> DEFINE Holds(k) == ToSet(iter[1..k]) = {s[i] : i \in 1..k} \ {""} /\ IsInjective(iter[1..k])
             P == {k \in 0..n : Holds(k)}
  <1>12. 0 \in P
    <2>1. 1..0 = {} /\ 0 \in 0..n
      BY <1>1
    <2>2. ToSet(<<>>) = {} /\ IsInjective(<<>>)
      BY DEF ToSet, IsInjective
    <2>3. iter[1..0] = <<>> /\ {s[i] : i \in 1..0} = {}
      BY <1>11, <2>1, Zenon
    <2> QED
      BY <2>1, <2>2, <2>3
  <1>13. ASSUME NEW k \in 0..n - 1, k \in P PROVE k + 1 \in P
    <2>1. /\ k \in Nat /\ k \in 0..n /\ k + 1 \in 1..n /\ k + 1 \in 0..n /\ (k + 1) - 1 = k
          /\ s[k + 1] \in T
      BY <1>1
    <2>2. iter[1..k + 1] = add(iter[1..k], s[k + 1]) /\ iter[1..k] \in Seq(T)
      BY <1>11, <2>1
    <2>3. {s[i] : i \in 1..k + 1} = {s[i] : i \in 1..k} \cup {s[k + 1]}
      BY <2>1
    <2>4. ToSet(iter[1..k + 1]) = ToSet(iter[1..k]) \cup ({s[k + 1]} \ {""})
      BY <1>3, <2>1, <2>2
    <2>5. IsInjective(iter[1..k + 1])
      <3>1. IsInjective(iter[1..k])
        BY <1>13
      <3> HIDE DEF P
      <3>2. IsInjective(add(iter[1..k], s[k + 1]))
        BY <1>3, <2>1, <2>2, <3>1
      <3> QED
        BY <2>2, <3>2
    <2> QED
      BY <1>13, <2>1, <2>3, <2>4, <2>5
  <1>14. n \in P
    <2>1. 0..n \subseteq P
      <3> HIDE DEF P
      <3> QED
        BY <1>1, <1>12, <1>13, UpToInduction
    <2> HIDE DEF P
    <2> QED
      BY <1>1, <2>1
  <1>15. ToSet(s) = {s[i] : i \in 1..n}
    BY <1>1 DEF ToSet
  <1> QED
    BY <1>2, <1>14, <1>15

-----------------------------------------------------------------------------
(* Payloads within payloads *)

LEMMA SeqWithin ==
  ASSUME NEW S, NEW T, S \subseteq T, NEW s \in Seq(S)
  PROVE  s \in Seq(T)
PROOF
  <1>1. \A k \in 1..Len(s) : s[k] \in S
    OBVIOUS
  <1>2. \A k \in 1..Len(s) : s[k] \in T
    BY <1>1
  <1>3. s = [k \in 1..Len(s) |-> s[k]] /\ Len(s) \in Nat
    OBVIOUS
  <1>4. [k \in 1..Len(s) |-> s[k]] \in Seq(T)
    BY <1>2, <1>3
  <1> QED
    BY <1>3, <1>4, Zenon

Around(S) == {p \in Payloads : p.kind = "batch" => p.items \in Seq(S)}

\* The levels of payloads.
LEMMA NestedIs ==
  /\ Nested[0] = Around({})
  /\ \A d \in 1..MaxDepth : Nested[d] = Around(Nested[d - 1])
  /\ \A d \in 0..MaxDepth : Nested[d] \subseteq Payloads
PROOF
  <1> DEFINE n == MaxDepth
             X == SUBSET Payloads
             step == [a \in (1..n) \X X |-> Around(a[2])]
             IsNested(f) == f = [d \in 0..n |-> Around(IF d = 0 THEN {} ELSE f[d - 1])]
             nested == CHOOSE f : IsNested(f)
  <1>1. n \in Nat /\ Around({}) \in X /\ \A S \in X : Around(S) \in X
    BY PayloadAssumption DEF Around
  <1>2. Nested = nested
    BY DEF Nested, Around
  <1> HIDE DEF n, X
  <1>3. step \in [(1..n) \X X -> X]
    BY <1>1
  <1>4. \A k \in 1..n, S \in X : step[<<k, S>>] = Around(S)
    OBVIOUS
  <1> HIDE DEF step
  <1>5. PICK g : IsRecursion(g, n, X, Around({}), step)
    BY <1>1, <1>3, RecursionExists
  <1>6. g \in [0..n -> X] /\ g[0] = Around({}) /\ \A k \in 1..n : g[k] = Around(g[k - 1])
    <2>1. g \in [0..n -> X] /\ g[0] = Around({}) /\ \A k \in 1..n : g[k] = step[<<k, g[k - 1]>>]
      BY <1>5 DEF IsRecursion
    <2>2. \A k \in 1..n : g[k - 1] \in X
      BY <1>1, <2>1
    <2> QED
      BY <1>4, <2>1, <2>2
  <1>7. IsNested(g)
    <2>1. \A d \in 0..n : g[d] = Around(IF d = 0 THEN {} ELSE g[d - 1])
      <3>1. \A d \in 0..n : d = 0 \/ d \in 1..n
        BY <1>1
      <3> QED
        BY <1>6, <3>1
    <2> QED
      BY <1>6, <2>1
  <1>8. IsNested(nested)
    <2> HIDE DEF IsNested
    <2> QED
      BY <1>7
  <1> HIDE DEF nested
  <1>9. nested[0] = Around({})
    BY <1>1, <1>8
  <1>10. \A d \in 1..n : nested[d] = Around(nested[d - 1])
    <2>1. \A d \in 1..n : d \in 0..n /\ d # 0
      BY <1>1
    <2> QED
      BY <1>8, <2>1
  <1>11. \A d \in 0..n : nested[d] \subseteq Payloads
    BY <1>8 DEF Around
  <1> QED
    BY <1>2, <1>9, <1>10, <1>11 DEF n

Kids == [p \in Payloads |-> IF p.kind = "batch" THEN p.items ELSE <<>>]

\* No payload goes on for ever.
LEMMA PayloadsEnd == IsForest(Payloads, Kids, Nested, MaxDepth)
PROOF
  <1>1. MaxDepth \in Nat /\ Payloads \subseteq Nested[MaxDepth]
    BY PayloadAssumption
  <1>2. ASSUME NEW d \in 0..MaxDepth, NEW p \in Payloads, p \in Nested[d], p.kind = "batch"
        PROVE  p.items \in Seq(IF d = 0 THEN {} ELSE Nested[d - 1])
    <2>1. CASE d = 0
      BY <1>2, <2>1, NestedIs DEF Around
    <2>2. CASE d # 0
      <3>1. d \in 1..MaxDepth
        BY <1>1, <2>2
      <3> QED
        BY <1>2, <2>2, <3>1, NestedIs DEF Around
    <2> QED
      BY <2>1, <2>2
  <1>3. ASSUME NEW p \in Payloads, p.kind = "batch" PROVE p.items \in Seq(Payloads)
    <2>1. MaxDepth \in 0..MaxDepth /\ p \in Nested[MaxDepth]
      BY <1>1
    <2> DEFINE S == IF MaxDepth = 0 THEN {} ELSE Nested[MaxDepth - 1]
    <2>2. p.items \in Seq(S)
      BY <1>2, <1>3, <2>1
    <2>3. S \subseteq Payloads
      <3>1. MaxDepth # 0 => MaxDepth - 1 \in 0..MaxDepth
        BY <1>1
      <3> QED
        BY <3>1, NestedIs
    <2> HIDE DEF S
    <2> QED
      BY <2>2, <2>3, SeqWithin
  <1>4. Kids \in [Payloads -> Seq(Payloads)]
    BY <1>3 DEF Kids
  <1>5. ASSUME NEW p \in Payloads, p \in Nested[0] PROVE Len(Kids[p]) = 0
    <2>1. CASE p.kind = "batch"
      <3>1. 0 \in 0..MaxDepth
        BY <1>1
      <3>2. p.items \in Seq({})
        BY <1>2, <1>5, <2>1, <3>1
      <3>3. Len(p.items) \in Nat /\ \A k \in 1..Len(p.items) : p.items[k] \in {}
        BY <3>2
      <3>4. Len(p.items) = 0
        <4>1. Len(p.items) # 0 => 1 \in 1..Len(p.items)
          BY <3>3
        <4> QED
          BY <3>3, <4>1
      <3> QED
        BY <2>1, <3>4 DEF Kids
    <2>2. CASE p.kind # "batch"
      BY <2>2 DEF Kids
    <2> QED
      BY <2>1, <2>2
  <1>6. ASSUME NEW d \in 1..MaxDepth, NEW p \in Payloads, p \in Nested[d], NEW k \in 1..Len(Kids[p])
        PROVE  Kids[p][k] \in Nested[d - 1]
    <2>1. d \in 0..MaxDepth /\ d # 0
      BY <1>1
    <2>2. p.kind = "batch"
      <3> SUFFICES ASSUME p.kind # "batch" PROVE FALSE
        OBVIOUS
      <3>1. Len(Kids[p]) = 0
        BY DEF Kids
      <3> QED
        BY <3>1
    <2>3. p.items \in Seq(Nested[d - 1]) /\ Kids[p] = p.items
      BY <1>2, <1>6, <2>1, <2>2 DEF Kids
    <2> QED
      BY <1>6, <2>3
  <1> QED
    BY <1>1, <1>4, <1>5, <1>6 DEF IsForest

\* The items of a batch.
LEMMA ItemsAre ==
  ASSUME NEW p \in Payloads, p.kind = "batch"
  PROVE  /\ p.items \in Seq(Payloads) /\ DOMAIN p.items = 1..Len(p.items) /\ Len(p.items) \in Nat
         /\ \A k \in 1..Len(p.items) : p.items[k] \in Payloads
PROOF
  <1>1. Kids[p] = p.items /\ Kids \in [Payloads -> Seq(Payloads)]
    BY PayloadsEnd DEF Kids, IsForest
  <1>2. p.items \in Seq(Payloads)
    BY <1>1
  <1> QED
    BY <1>2

\* Leaves is what its definition says.
LEMMA LeavesAre ==
  \A p \in Payloads :
    Leaves[p] = IF p.kind = "batch" THEN UNION {Leaves[p.items[k]] : k \in 1..Len(p.items)} ELSE {p}
PROOF
  <1> DEFINE X == SUBSET Payloads
             step == [a \in Payloads \X Seq(X) |->
                        IF a[1].kind = "batch" THEN UNION {a[2][k] : k \in 1..Len(a[2])} ELSE {a[1]}]
             Body(f, p) == IF p.kind = "batch" THEN UNION {f[p.items[k]] : k \in DOMAIN p.items} ELSE {p}
             IsLeaves(f) == f = [p \in Payloads |-> Body(f, p)]
             leaves == CHOOSE f : IsLeaves(f)
  <1>1. Leaves = leaves
    BY DEF Leaves
  <1>2. step \in [Payloads \X Seq(X) -> X]
    OBVIOUS
  <1>10. ASSUME NEW p \in Payloads, NEW vs \in Seq(X)
        PROVE  step[<<p, vs>>] = IF p.kind = "batch" THEN UNION {vs[k] : k \in 1..Len(vs)} ELSE {p}
    OBVIOUS
  <1>3. PICK f \in [Payloads -> X] : IsForestFunction(f, Payloads, Kids, step)
    <2>1. MaxDepth \in Nat /\ {} \in X
      BY PayloadAssumption
    <2> HIDE DEF X, step
    <2> QED
      BY <1>2, <2>1, PayloadsEnd, ForestRecursionExists
  <1>4. ASSUME NEW p \in Payloads PROVE f[p] = Body(f, p)
    <2> DEFINE vs == Below(f, Kids[p])
    <2>1. Kids[p] \in Seq(Payloads) /\ Kids[p] = IF p.kind = "batch" THEN p.items ELSE <<>>
      BY PayloadsEnd DEF IsForest, Kids
    <2>2. /\ Len(Kids[p]) \in Nat /\ DOMAIN Kids[p] = 1..Len(Kids[p])
          /\ \A k \in 1..Len(Kids[p]) : Kids[p][k] \in Payloads
      BY <2>1
    <2>3. \A k \in 1..Len(Kids[p]) : f[Kids[p][k]] \in X
      <3> HIDE DEF X
      <3> QED
        BY <2>2
    <2>4. vs \in Seq(X) /\ Len(vs) = Len(Kids[p]) /\ \A k \in 1..Len(Kids[p]) : vs[k] = f[Kids[p][k]]
      <3> HIDE DEF X
      <3> QED
        BY <2>2, <2>3 DEF Below
    <2> HIDE DEF vs
    <2>5. f[p] = step[<<p, vs>>]
      BY <1>3 DEF vs, IsForestFunction
    <2> HIDE DEF step, X
    <2>6. f[p] = IF p.kind = "batch" THEN UNION {vs[k] : k \in 1..Len(vs)} ELSE {p}
      BY <1>10, <2>4, <2>5
    <2>7. CASE p.kind = "batch"
      <3>1. Kids[p] = p.items /\ DOMAIN p.items = 1..Len(p.items) /\ Len(vs) = Len(p.items)
        BY <2>1, <2>2, <2>4, <2>7
      <3>2. \A k \in 1..Len(p.items) : vs[k] = f[p.items[k]]
        BY <2>4, <3>1
      <3> QED
        BY <2>6, <2>7, <3>1, <3>2
    <2>8. CASE p.kind # "batch"
      BY <2>6, <2>8
    <2> QED
      BY <2>7, <2>8
  <1>5. IsLeaves(f)
    <2> HIDE DEF Body
    <2> QED
      BY <1>3, <1>4
  <1>6. IsLeaves(leaves)
    <2> HIDE DEF IsLeaves
    <2> QED
      BY <1>5
  <1> HIDE DEF leaves
  <1>7. IsLeaves(Leaves)
    <2> HIDE DEF IsLeaves
    <2> QED
      BY <1>1, <1>6
  <1>8. ASSUME NEW p \in Payloads, p.kind = "batch"
        PROVE  Body(Leaves, p) = UNION {Leaves[p.items[k]] : k \in 1..Len(p.items)}
    <2>1. DOMAIN p.items = 1..Len(p.items)
      BY <1>8, ItemsAre
    <2> QED
      BY <1>8, <2>1
  <1>9. \A p \in Payloads : p.kind # "batch" => Body(Leaves, p) = {p}
    OBVIOUS
  <1> HIDE DEF Body
  <1>11. \A p \in Payloads : Leaves[p] = Body(Leaves, p)
    BY <1>7
  <1> QED
    BY <1>8, <1>9, <1>11

-----------------------------------------------------------------------------
(* parse *)

Results(R, F) == [rows : SUBSET R, findings : SUBSET F, err : BOOLEAN]

JoinsAll(r, f, s) ==
  /\ r.rows = UNION {f[s[k]].rows : k \in 1..Len(s)}
  /\ r.findings = UNION {f[s[k]].findings : k \in 1..Len(s)}
  /\ r.err <=> \E k \in 1..Len(s) : f[s[k]].err

\* Each item counts, whatever comes before it.
LEMMA ItemsJoin ==
  ASSUME NEW T, NEW s \in Seq(T), NEW R, NEW F, NEW f, \A x \in T : f[x] \in Results(R, F)
  PROVE  ParseItems(f, s) \in Results(R, F) /\ JoinsAll(ParseItems(f, s), f, s)
PROOF
  <1> DEFINE n == Len(s)
             X == Results(R, F)
             add(out, x) == Join(out, f[x])
             step == [p \in (1..n) \X X |-> add(p[2], s[p[1]])]
             IsIter(g) == g = [t \in SUBSET (1..n) |->
                                 IF t = {} THEN Nothing ELSE add(g[t \ {Max(t)}], s[Max(t)])]
             iter == CHOOSE g : IsIter(g)
  <1>1. n \in Nat /\ DOMAIN s = 1..n /\ \A k \in 1..n : s[k] \in T
    OBVIOUS
  <1>2. ParseItems(f, s) = iter[1..n]
    BY <1>1 DEF ParseItems, FoldLeft, MapThenFoldSet
  <1>3. Nothing \in X /\ Nothing.rows = {} /\ Nothing.findings = {} /\ Nothing.err = FALSE
    BY DEF Nothing, Results
  <1>4. ASSUME NEW out \in X, NEW x \in T
        PROVE  /\ add(out, x) \in X
               /\ add(out, x).rows = out.rows \cup f[x].rows
               /\ add(out, x).findings = out.findings \cup f[x].findings
               /\ add(out, x).err <=> out.err \/ f[x].err
    <2>1. f[x] \in X
      OBVIOUS
    <2> DEFINE y == f[x]
    <2> HIDE DEF y
    <2>2. y \in X
      BY <2>1 DEF y
    <2>3. /\ Join(out, y) \in X
          /\ Join(out, y).rows = out.rows \cup y.rows
          /\ Join(out, y).findings = out.findings \cup y.findings
      BY <2>2 DEF Join, Results
    <2>4. Join(out, y).err <=> out.err \/ y.err
      BY <2>2 DEF Join, Results
    <2> QED
      BY <2>3, <2>4 DEF y
  <1> HIDE DEF n, X, add
  <1>5. step \in [(1..n) \X X -> X]
    BY <1>1, <1>4
  <1>6. \A k \in 1..n, out \in X : step[<<k, out>>] = add(out, s[k])
    OBVIOUS
  <1> HIDE DEF step
  <1>7. PICK h \in [SUBSET (1..n) -> X] : IsFoldLeft(h, n, Nothing, step)
    BY <1>1, <1>3, <1>5, FoldLeftExists
  <1>8. ASSUME NEW t \in SUBSET (1..n)
        PROVE  h[t] = IF t = {} THEN Nothing ELSE add(h[t \ {Max(t)}], s[Max(t)])
    <2>1. h[t] = IF t = {} THEN Nothing ELSE step[<<Max(t), h[t \ {Max(t)}]>>]
      BY <1>7 DEF IsFoldLeft
    <2>2. t # {} => Max(t) \in 1..n
      BY <1>1, MaxInRange
    <2>3. h[t \ {Max(t)}] \in X
      BY <1>7
    <2> QED
      BY <1>6, <2>1, <2>2, <2>3
  <1>9. IsIter(h)
    BY <1>7, <1>8
  <1>10. IsIter(iter)
    <2> HIDE DEF IsIter
    <2> QED
      BY <1>9
  <1> HIDE DEF iter
  <1>11. IsFoldIn(iter, n, X, Nothing, step)
    <2>1. ASSUME NEW t \in SUBSET (1..n), t # {}, iter[t \ {Max(t)}] \in X
          PROVE  iter[t] = step[<<Max(t), iter[t \ {Max(t)}]>>]
      <3>1. Max(t) \in 1..n
        BY <1>1, <2>1, MaxInRange
      <3>2. iter[t] = add(iter[t \ {Max(t)}], s[Max(t)])
        BY <1>10, <2>1
      <3> QED
        BY <1>6, <2>1, <3>1, <3>2
    <2> QED
      BY <1>10, <2>1 DEF IsFoldIn
  <1> HIDE DEF IsIter
  <1>12. /\ iter[{}] = Nothing /\ \A k \in 0..n : iter[1..k] \in X
         /\ \A k \in 1..n : iter[1..k] = add(iter[1..k - 1], s[k])
    <2>1. FoldRuns(iter, n, X, Nothing, step)
      BY <1>1, <1>3, <1>5, <1>11, FoldLeftRuns
    <2>2. \A k \in 1..n : k - 1 \in 0..n
      BY <1>1
    <2> QED
      BY <1>6, <2>1, <2>2 DEF FoldRuns
  <1> DEFINE Holds(k) == /\ iter[1..k].rows = UNION {f[s[i]].rows : i \in 1..k}
                         /\ iter[1..k].findings = UNION {f[s[i]].findings : i \in 1..k}
                         /\ iter[1..k].err <=> \E i \in 1..k : f[s[i]].err
             P == {k \in 0..n : Holds(k)}
  <1>13. 0 \in P
    <2>1. 1..0 = {} /\ 0 \in 0..n
      BY <1>1
    <2>2. iter[1..0] = Nothing
      BY <1>12, <2>1, Zenon
    <2> QED
      BY <1>3, <2>1, <2>2
  <1>14. ASSUME NEW k \in 0..n - 1, k \in P PROVE k + 1 \in P
    <2>1. /\ k \in Nat /\ k \in 0..n /\ k + 1 \in 1..n /\ k + 1 \in 0..n /\ (k + 1) - 1 = k
          /\ s[k + 1] \in T
      BY <1>1
    <2>2. iter[1..k + 1] = add(iter[1..k], s[k + 1]) /\ iter[1..k] \in X
      BY <1>12, <2>1
    <2>3. 1..k + 1 = (1..k) \cup {k + 1}
      BY <2>1
    <2>4. Holds(k)
      BY <1>14
    <2>5. /\ iter[1..k + 1].rows = iter[1..k].rows \cup f[s[k + 1]].rows
          /\ iter[1..k + 1].findings = iter[1..k].findings \cup f[s[k + 1]].findings
          /\ iter[1..k + 1].err <=> iter[1..k].err \/ f[s[k + 1]].err
      BY <1>4, <2>1, <2>2
    <2>6. iter[1..k + 1].rows = UNION {f[s[i]].rows : i \in 1..k + 1}
      BY <2>3, <2>4, <2>5
    <2>7. iter[1..k + 1].findings = UNION {f[s[i]].findings : i \in 1..k + 1}
      BY <2>3, <2>4, <2>5
    <2>8. iter[1..k + 1].err <=> \E i \in 1..k + 1 : f[s[i]].err
      BY <2>3, <2>4, <2>5
    <2> QED
      BY <2>1, <2>6, <2>7, <2>8
  <1>15. n \in P
    <2>1. 0..n \subseteq P
      <3> HIDE DEF P
      <3> QED
        BY <1>1, <1>13, <1>14, UpToInduction
    <2> HIDE DEF P
    <2> QED
      BY <1>1, <2>1
  <1>16. Holds(n) /\ iter[1..n] \in X
    BY <1>1, <1>12, <1>15
  <1>17. JoinsAll(iter[1..n], f, s)
    BY <1>16 DEF JoinsAll, n
  <1> QED
    BY <1>2, <1>16, <1>17 DEF X

\* The requests and events within a payload are payloads.
LEMMA LeavesWithin ==
  ASSUME NEW p \in Payloads
  PROVE  Leaves[p] \subseteq Payloads /\ Requests(p) \subseteq Payloads /\ Events(p) \subseteq Payloads
PROOF
  <1> DEFINE Q == {x \in Payloads : Leaves[x] \subseteq Payloads}
  <1>1. ASSUME NEW x \in Payloads, \A k \in 1..Len(Kids[x]) : Kids[x][k] \in Q
        PROVE  x \in Q
    <2>1. CASE x.kind = "batch"
      <3>1. Kids[x] = x.items
        BY <2>1 DEF Kids
      <3>2. \A k \in 1..Len(x.items) : Leaves[x.items[k]] \subseteq Payloads
        BY <1>1, <3>1
      <3>3. Leaves[x] = UNION {Leaves[x.items[k]] : k \in 1..Len(x.items)}
        BY <2>1, LeavesAre
      <3> QED
        BY <3>2, <3>3
    <2>2. CASE x.kind # "batch"
      BY <2>2, LeavesAre
    <2> QED
      BY <2>1, <2>2
  <1>2. Payloads \subseteq Q
    <2>1. MaxDepth \in Nat
      BY PayloadAssumption
    <2> HIDE DEF Q
    <2> QED
      BY <1>1, <2>1, PayloadsEnd, ForestInduction
  <1> QED
    BY <1>2 DEF Requests, Events

\* What is to be parsed of a payload: the rows of the requests and the findings of the
\* events within it, and an error when any of them does not decode.
RowsIn(p, t, order) == {RowOf(q, t, order) : q \in Requests(p)}
FindingsIn(p, t) == UNION {FindingsOf(q, t, PhaseOf(q)) : q \in Events(p)}

Undecoded(q) ==
  \/ q.kind = "broken"
  \/ q.kind \in {"request", ""} /\ ~Decodes(q.headers)
  \/ q.kind = "inspector" /\ ~q.decodes

IsParsed(r, p, t, order) ==
  /\ r.rows = RowsIn(p, t, order)
  /\ r.findings = FindingsIn(p, t)
  /\ r.err <=> \E q \in Leaves[p] : Undecoded(q)

AllRows(t, order) == {RowOf(q, t, order) : q \in Payloads}
AllFindings(t) == UNION {FindingsOf(q, t, PhaseOf(q)) : q \in Payloads}

\* There is one result that a payload can have.
LEMMA ParsedOnce ==
  ASSUME NEW R, NEW F, NEW a \in Results(R, F), NEW b \in Results(R, F), NEW p, NEW t, NEW order,
         IsParsed(a, p, t, order), IsParsed(b, p, t, order)
  PROVE  a = b
PROOF
  <1>1. a.rows = b.rows /\ a.findings = b.findings /\ (a.err <=> b.err)
    BY DEF IsParsed
  <1>2. a.err = b.err
    BY <1>1 DEF Results
  <1> QED
    BY <1>1, <1>2 DEF Results

\* What parse makes of a payload that is no batch.
LEMMA LeafParsed ==
  ASSUME NEW p \in Payloads, p.kind # "batch", NEW f, NEW t, NEW order
  PROVE  LET r == ParseWith(f, p, t, order)
         IN r \in Results(AllRows(t, order), AllFindings(t)) /\ IsParsed(r, p, t, order)
PROOF
  <1> DEFINE r == ParseWith(f, p, t, order)
             X == Results(AllRows(t, order), AllFindings(t))
  <1>1. Leaves[p] = {p}
    BY LeavesAre
  <1>2. Nothing = [rows |-> {}, findings |-> {}, err |-> FALSE] /\ Error = [rows |-> {}, findings |-> {}, err |-> TRUE]
    BY DEF Nothing, Error
  <1>3. Nothing \in X /\ Error \in X
    BY <1>2 DEF Results
  <1>4. (\E q \in Leaves[p] : Undecoded(q)) <=> Undecoded(p)
    BY <1>1
  <1>5. Requests(p) = IF p.kind \in {"request", ""} /\ Decodes(p.headers) /\ "" \notin {p.node, p.ray} THEN {p} ELSE {}
    BY <1>1 DEF Requests
  <1>6. Events(p) = IF p.kind = "inspector" /\ p.decodes /\ ~Unaddressed(p) THEN {p} ELSE {}
    BY <1>1 DEF Events
  <1>7. CASE p.kind = "broken"
    <2>1. r = Error
      BY <1>7 DEF ParseWith, KindOf, FromRequest
    <2>2. Requests(p) = {} /\ Events(p) = {} /\ Undecoded(p)
      BY <1>5, <1>6, <1>7 DEF Undecoded
    <2> HIDE DEF r
    <2>3. IsParsed(r, p, t, order)
      BY <1>2, <1>4, <2>1, <2>2 DEF IsParsed, RowsIn, FindingsIn
    <2> QED
      BY <1>3, <2>1, <2>3 DEF r
  <1>8. CASE p.kind \in {"request", ""}
    <2>1. r = FromRequest(p, t, order)
      BY <1>8 DEF ParseWith, KindOf
    <2>2. Events(p) = {} /\ (Undecoded(p) <=> ~Decodes(p.headers))
      BY <1>6, <1>8 DEF Undecoded
    <2> HIDE DEF r
    <2>3. CASE ~Decodes(p.headers)
      <3>1. r = Error
        BY <1>8, <2>1, <2>3 DEF FromRequest
      <3>2. Requests(p) = {}
        BY <1>5, <2>3
      <3>3. IsParsed(r, p, t, order)
        BY <1>2, <1>4, <2>2, <2>3, <3>1, <3>2 DEF IsParsed, RowsIn, FindingsIn
      <3> QED
        BY <1>3, <3>1, <3>3 DEF r
    <2>4. CASE Decodes(p.headers) /\ "" \in {p.node, p.ray}
      <3>1. r = Nothing
        BY <1>8, <2>1, <2>4 DEF FromRequest
      <3>2. Requests(p) = {}
        BY <1>5, <2>4
      <3>3. IsParsed(r, p, t, order)
        BY <1>2, <1>4, <2>2, <2>4, <3>1, <3>2 DEF IsParsed, RowsIn, FindingsIn
      <3> QED
        BY <1>3, <3>1, <3>3 DEF r
    <2>5. CASE Decodes(p.headers) /\ "" \notin {p.node, p.ray}
      <3>1. r = [rows |-> {RowOf(p, t, order)}, findings |-> {}, err |-> FALSE]
        BY <1>2, <1>8, <2>1, <2>5 DEF FromRequest
      <3>2. Requests(p) = {p}
        BY <1>5, <1>8, <2>5
      <3>3. IsParsed(r, p, t, order)
        BY <1>4, <2>2, <2>5, <3>1, <3>2 DEF IsParsed, RowsIn, FindingsIn
      <3>4. r \in X
        BY <3>1 DEF Results, AllRows
      <3> QED
        BY <3>3, <3>4 DEF r
    <2> QED
      BY <2>3, <2>4, <2>5
  <1>9. CASE p.kind = "inspector"
    <2>1. r = FromInspector(p, t) /\ p.decodes \in BOOLEAN
      BY <1>9, PayloadAssumption DEF ParseWith, KindOf, IsEvent
    <2>2. Requests(p) = {} /\ (Undecoded(p) <=> ~p.decodes)
      BY <1>5, <1>9 DEF Undecoded
    <2> HIDE DEF r
    <2>3. CASE ~p.decodes
      <3>1. r = Error
        BY <2>1, <2>3 DEF FromInspector
      <3>2. Events(p) = {}
        BY <1>6, <2>3
      <3>3. IsParsed(r, p, t, order)
        BY <1>2, <1>4, <2>2, <2>3, <3>1, <3>2 DEF IsParsed, RowsIn, FindingsIn
      <3> QED
        BY <1>3, <3>1, <3>3 DEF r
    <2>4. CASE p.decodes /\ Unaddressed(p)
      <3>1. r = Nothing
        BY <2>1, <2>4 DEF FromInspector
      <3>2. Events(p) = {}
        BY <1>6, <2>4
      <3>3. IsParsed(r, p, t, order)
        BY <1>2, <1>4, <2>2, <2>4, <3>1, <3>2 DEF IsParsed, RowsIn, FindingsIn
      <3> QED
        BY <1>3, <3>1, <3>3 DEF r
    <2>5. CASE p.decodes /\ ~Unaddressed(p)
      <3>1. r = [rows |-> {}, findings |-> FindingsOf(p, t, PhaseOf(p)), err |-> FALSE]
        BY <1>2, <2>1, <2>5 DEF FromInspector
      <3>2. Events(p) = {p}
        BY <1>6, <1>9, <2>5
      <3>3. IsParsed(r, p, t, order)
        BY <1>4, <2>2, <2>5, <3>1, <3>2 DEF IsParsed, RowsIn, FindingsIn
      <3>4. r \in X
        BY <3>1 DEF Results, AllFindings
      <3> QED
        BY <3>3, <3>4 DEF r
    <2> QED
      BY <2>1, <2>3, <2>4, <2>5
  <1>10. CASE p.kind \notin {"broken", "request", "", "inspector"}
    <2>1. r = Nothing
      BY <1>10 DEF ParseWith, KindOf
    <2>2. Requests(p) = {} /\ Events(p) = {} /\ ~Undecoded(p)
      BY <1>5, <1>6, <1>10 DEF Undecoded
    <2> HIDE DEF r
    <2>3. IsParsed(r, p, t, order)
      BY <1>2, <1>4, <2>1, <2>2 DEF IsParsed, RowsIn, FindingsIn
    <2> QED
      BY <1>3, <2>1, <2>3 DEF r
  <1> QED
    BY <1>7, <1>8, <1>9, <1>10

\* Of a batch, what it makes of the items is what is in the batch.
LEMMA BatchParsed ==
  ASSUME NEW p \in Payloads, p.kind = "batch", NEW t, NEW order, NEW f,
         \A k \in 1..Len(p.items) : /\ f[p.items[k]] \in Results(AllRows(t, order), AllFindings(t))
                                    /\ IsParsed(f[p.items[k]], p.items[k], t, order)
  PROVE  LET r == ParseWith(f, p, t, order)
         IN r \in Results(AllRows(t, order), AllFindings(t)) /\ IsParsed(r, p, t, order)
PROOF
  <1> DEFINE r == ParseWith(f, p, t, order)
             R == AllRows(t, order)
             F == AllFindings(t)
             s == p.items
             T == {s[k] : k \in 1..Len(s)}
  <1>1. r = ParseItems(f, s)
    BY DEF ParseWith, KindOf
  <1>2. s \in Seq(Payloads) /\ Len(s) \in Nat
    BY ItemsAre
  <1>3. s \in Seq(T)
    BY <1>2
  <1>4. \A x \in T : f[x] \in Results(R, F)
    OBVIOUS
  <1>5. Leaves[p] = UNION {Leaves[s[k]] : k \in 1..Len(s)}
    BY LeavesAre
  <1>6. \A k \in 1..Len(s) : IsParsed(f[s[k]], s[k], t, order)
    OBVIOUS
  <1> HIDE DEF r, R, F, T, s
  <1>7. r \in Results(R, F) /\ JoinsAll(r, f, s)
    BY <1>1, <1>3, <1>4, ItemsJoin
  <1>8. r.rows = RowsIn(p, t, order)
    <2>1. ASSUME NEW q PROVE q \in Requests(p) <=> \E k \in 1..Len(s) : q \in Requests(s[k])
      <3>1. q \in Leaves[p] <=> \E k \in 1..Len(s) : q \in Leaves[s[k]]
        BY <1>5
      <3> QED
        BY <3>1 DEF Requests
    <2>2. \A k \in 1..Len(s) : f[s[k]].rows = {RowOf(q, t, order) : q \in Requests(s[k])}
      BY <1>6 DEF IsParsed, RowsIn
    <2>3. r.rows = UNION {f[s[k]].rows : k \in 1..Len(s)}
      BY <1>7 DEF JoinsAll
    <2>4. ASSUME NEW row PROVE row \in r.rows <=> row \in RowsIn(p, t, order)
      <3>1. row \in r.rows <=> \E k \in 1..Len(s) : \E q \in Requests(s[k]) : row = RowOf(q, t, order)
        BY <2>2, <2>3
      <3>2. row \in RowsIn(p, t, order) <=> \E q \in Requests(p) : row = RowOf(q, t, order)
        BY DEF RowsIn
      <3> QED
        BY <2>1, <3>1, <3>2
    <2> QED
      BY <2>4
  <1>9. r.findings = FindingsIn(p, t)
    <2>1. ASSUME NEW q PROVE q \in Events(p) <=> \E k \in 1..Len(s) : q \in Events(s[k])
      <3>1. q \in Leaves[p] <=> \E k \in 1..Len(s) : q \in Leaves[s[k]]
        BY <1>5
      <3> QED
        BY <3>1 DEF Events
    <2>2. \A k \in 1..Len(s) : f[s[k]].findings = UNION {FindingsOf(q, t, PhaseOf(q)) : q \in Events(s[k])}
      BY <1>6 DEF IsParsed, FindingsIn
    <2>3. r.findings = UNION {f[s[k]].findings : k \in 1..Len(s)}
      BY <1>7 DEF JoinsAll
    <2>4. ASSUME NEW x PROVE x \in r.findings <=> x \in FindingsIn(p, t)
      <3>1. x \in r.findings <=> \E k \in 1..Len(s) : \E q \in Events(s[k]) : x \in FindingsOf(q, t, PhaseOf(q))
        <4>1. x \in r.findings <=> \E k \in 1..Len(s) : x \in f[s[k]].findings
          BY <2>3
        <4>2. ASSUME NEW k \in 1..Len(s)
              PROVE  x \in f[s[k]].findings <=> \E q \in Events(s[k]) : x \in FindingsOf(q, t, PhaseOf(q))
          <5>1. f[s[k]].findings = UNION {FindingsOf(q, t, PhaseOf(q)) : q \in Events(s[k])}
            BY <2>2
          <5> QED
            BY <5>1
        <4> QED
          BY <4>1, <4>2
      <3>2. x \in FindingsIn(p, t) <=> \E q \in Events(p) : x \in FindingsOf(q, t, PhaseOf(q))
        BY DEF FindingsIn
      <3> QED
        BY <2>1, <3>1, <3>2
    <2> QED
      BY <2>4
  <1>10. r.err <=> \E q \in Leaves[p] : Undecoded(q)
    <2>1. \A k \in 1..Len(s) : f[s[k]].err <=> \E q \in Leaves[s[k]] : Undecoded(q)
      BY <1>6 DEF IsParsed
    <2>2. r.err <=> \E k \in 1..Len(s) : f[s[k]].err
      BY <1>7 DEF JoinsAll
    <2> QED
      BY <1>5, <2>1, <2>2
  <1>11. IsParsed(r, p, t, order)
    BY <1>8, <1>9, <1>10 DEF IsParsed
  <1> QED
    BY <1>7, <1>11 DEF r, R, F

\* What parse returns, for every payload however deep: the rows of all requests and the
\* findings of all events within it, those that do not decode left out.
THEOREM ParseIsComplete ==
  ASSUME NEW p \in Payloads, NEW t, NEW order
  PROVE  IsParsed(Parse(p, t, order), p, t, order)
PROOF
  <1> DEFINE X == Results(AllRows(t, order), AllFindings(t))
             Good(f, x) == f[x] \in X /\ IsParsed(f[x], x, t, order)
             e == [x \in Payloads |-> CHOOSE r \in X : IsParsed(r, x, t, order)]
             IsBody(f) == f = [x \in Payloads |-> ParseWith(f, x, t, order)]
             parsed == CHOOSE f : IsBody(f)
  <1>1. Parse(p, t, order) = parsed[p]
    BY DEF Parse
  <1>2. MaxDepth \in Nat
    BY PayloadAssumption
  <1>3. ASSUME NEW f, NEW x \in Payloads, x.kind # "batch" \/ \A k \in 1..Len(x.items) : Good(f, x.items[k])
        PROVE  ParseWith(f, x, t, order) \in X /\ IsParsed(ParseWith(f, x, t, order), x, t, order)
    <2>1. CASE x.kind = "batch"
      BY <1>3, <2>1, BatchParsed
    <2>2. CASE x.kind # "batch"
      BY <2>2, LeafParsed
    <2> QED
      BY <2>1, <2>2
  <1>5. \A x \in Payloads : (\E r \in X : IsParsed(r, x, t, order)) => Good(e, x)
    <2>1. ASSUME NEW x \in Payloads, \E r \in X : IsParsed(r, x, t, order) PROVE Good(e, x)
      <3> DEFINE r == CHOOSE r \in X : IsParsed(r, x, t, order)
      <3>1. r \in X /\ IsParsed(r, x, t, order)
        BY <2>1
      <3>2. e[x] = r
        OBVIOUS
      <3> HIDE DEF r, e
      <3> QED
        BY <3>1, <3>2
    <2> QED
      BY <2>1
  <1> HIDE DEF e, X, parsed
  <1>6. ASSUME NEW x \in Payloads, \A k \in 1..Len(Kids[x]) : Good(e, Kids[x][k])
        PROVE  Good(e, x)
    <2>1. x.kind # "batch" \/ \A k \in 1..Len(x.items) : Good(e, x.items[k])
      BY <1>6 DEF Kids
    <2>2. ParseWith(e, x, t, order) \in X /\ IsParsed(ParseWith(e, x, t, order), x, t, order)
      BY <1>3, <2>1
    <2> QED
      BY <1>5, <2>2
  <1>7. \A x \in Payloads : Good(e, x)
    <2> DEFINE Q == {x \in Payloads : Good(e, x)}
    <2>1. \A x \in Payloads : (\A k \in 1..Len(Kids[x]) : Kids[x][k] \in Q) => x \in Q
      BY <1>6
    <2> HIDE DEF Q
    <2>2. Payloads \subseteq Q
      BY <1>2, <2>1, PayloadsEnd, ForestInduction
    <2> QED
      BY <2>2 DEF Q
  <1>8. ASSUME NEW x \in Payloads PROVE e[x] = ParseWith(e, x, t, order)
    <2>1. x.kind # "batch" \/ \A k \in 1..Len(x.items) : Good(e, x.items[k])
      BY <1>7, ItemsAre
    <2>2. ParseWith(e, x, t, order) \in X /\ IsParsed(ParseWith(e, x, t, order), x, t, order)
      BY <1>3, <2>1
    <2>3. e[x] \in X /\ IsParsed(e[x], x, t, order)
      BY <1>7
    <2> QED
      BY <2>2, <2>3, ParsedOnce DEF X
  <1>9. IsBody(e)
    <2>1. e = [x \in Payloads |-> e[x]]
      BY DEF e
    <2> QED
      BY <1>8, <2>1
  <1>10. IsBody(parsed)
    <2> HIDE DEF IsBody
    <2> QED
      BY <1>9 DEF parsed
  <1>11. \A x \in Payloads : parsed[x] = ParseWith(parsed, x, t, order)
    BY <1>10
  <1>12. ASSUME NEW x \in Payloads, \A k \in 1..Len(Kids[x]) : Good(parsed, Kids[x][k])
         PROVE  Good(parsed, x)
    <2>1. x.kind # "batch" \/ \A k \in 1..Len(x.items) : Good(parsed, x.items[k])
      BY <1>12 DEF Kids
    <2>2. ParseWith(parsed, x, t, order) \in X /\ IsParsed(ParseWith(parsed, x, t, order), x, t, order)
      BY <1>3, <2>1
    <2> QED
      BY <1>11, <2>2
  <1>13. Good(parsed, p)
    <2> DEFINE Q == {x \in Payloads : Good(parsed, x)}
    <2>1. \A x \in Payloads : (\A k \in 1..Len(Kids[x]) : Kids[x][k] \in Q) => x \in Q
      BY <1>12
    <2> HIDE DEF Q
    <2>2. Payloads \subseteq Q
      BY <1>2, <2>1, PayloadsEnd, ForestInduction
    <2> QED
      BY <2>2 DEF Q
  <1> QED
    BY <1>1, <1>13

-----------------------------------------------------------------------------
(* The invariant *)

\* Go ranges over the inspectors in some order.
LEMMA SomeOrder == \E order : order \in SetToSeqs(Name)
PROOF
  <1> DEFINE n == Cardinality(Name)
  <1>1. n \in Nat /\ ExistsBijection(1..n, Name)
    BY PayloadAssumption, FS_CardinalityType
  <1>2. PICK f \in [1..n -> Name] : \A j, k \in 1..n : f[j] = f[k] => j = k
    BY <1>1 DEF ExistsBijection, Bijection, Injection, IsInjective
  <1>3. f \in SetToSeqs(Name)
    BY <1>2 DEF SetToSeqs
  <1> QED
    BY <1>3

LEMMA RequestsAre ==
  ASSUME NEW m \in Message, NEW q \in Requests(m)
  PROVE  m \in Payloads /\ q \in Payloads /\ q.kind \in {"request", ""} /\ IsRequest(q)
PROOF
  <1>1. m \in Payloads
    BY IngestAssumption
  <1>2. q \in Payloads /\ q.kind \in {"request", ""}
    BY <1>1, LeavesWithin DEF Requests
  <1>3. IsRequest(q)
    BY <1>2, PayloadAssumption
  <1> QED
    BY <1>1, <1>2, <1>3

LEMMA EventsAre ==
  ASSUME NEW m \in Message, NEW q \in Events(m)
  PROVE  m \in Payloads /\ q \in Payloads /\ q.kind = "inspector" /\ IsEvent(q)
PROOF
  <1>1. m \in Payloads
    BY IngestAssumption
  <1>2. q \in Payloads /\ q.kind = "inspector"
    BY <1>1, LeavesWithin DEF Events
  <1>3. IsEvent(q)
    BY <1>2, PayloadAssumption
  <1> QED
    BY <1>1, <1>2, <1>3

\* What parse makes of a message is what is to be stored of it.
LEMMA MessageParsed ==
  ASSUME NEW m \in Message, NEW t, NEW order \in SetToSeqs(Name)
  PROVE  Parse(m, t, order).rows = RowsAt(m, t) /\ Parse(m, t, order).findings = FindingsAt(m, t)
PROOF
  <1>1. m \in Payloads
    BY IngestAssumption
  <1>2. Parse(m, t, order).rows = RowsIn(m, t, order) /\ Parse(m, t, order).findings = FindingsIn(m, t)
    BY <1>1, ParseIsComplete DEF IsParsed
  <1>3. ASSUME NEW q \in Requests(m), NEW o \in SetToSeqs(Name)
        PROVE  RowOf(q, t, o) = RowOf(q, t, order)
    BY RequestsAre, RowForgetsOrder
  <1>4. RowsIn(m, t, order) = RowsAt(m, t)
    BY <1>3 DEF RowsIn, RowsAt
  <1> QED
    BY <1>2, <1>4 DEF FindingsIn, FindingsAt

NamedWell(l) ==
  /\ l.writer # NoName /\ l.writer = Trim(l.writer)
  /\ l.service # NoName /\ (~l.service.padded => l.service = Trim(l.service))

\* FromLog: a line has a writer without blanks around it, and a service.
LEMMA LinesOf ==
  ASSUME NEW b \in LogMessage, NEW t
  PROVE  /\ FromLog(b, t) \in Seq(LinesAt(b, t))
         /\ \A l \in LinesAt(b, t) : NamedWell(l)
PROOF
  <1> DEFINE kept == IF b.decodes THEN Only(b.lines, {l \in ToSet(b.lines) : l.text > 0}) ELSE <<>>
             service(k) == IF kept[k].service = NoName THEN Named("nginx") ELSE kept[k].service
             row(k) == [ts |-> TimeOf(kept[k], t), writer |-> WriterOf(b), service |-> service(k),
                        text |-> Min({kept[k].text, MaxText})]
  <1>1. b.decodes \in BOOLEAN /\ b.writer \in LogName /\ b.lines \in Seq(Line)
    BY IngestAssumption DEF IsLogBatch
  <1>2. kept \in Seq(Line)
    BY <1>1, OnlyIs
  <1>3. FromLog(b, t) = [k \in DOMAIN kept |-> row(k)]
    BY DEF FromLog
  <1> HIDE DEF kept
  <1>4. Len(kept) \in Nat /\ DOMAIN kept = 1..Len(kept) /\ \A k \in 1..Len(kept) : kept[k] \in Line
    BY <1>2
  <1>5. WriterOf(b) # NoName /\ WriterOf(b) = Trim(WriterOf(b))
    <2>1. Named("unknown") # NoName /\ Named("unknown") = Trim(Named("unknown"))
      BY DEF Named, NoName, Trim
    <2>2. Trim(Trim(b.writer)) = Trim(b.writer)
      BY DEF Trim
    <2> QED
      BY <2>1, <2>2 DEF WriterOf
  <1>6. ASSUME NEW k \in 1..Len(kept)
        PROVE  service(k) # NoName /\ (~service(k).padded => service(k) = Trim(service(k)))
    <2>1. Named("nginx") # NoName /\ Named("nginx") = Trim(Named("nginx"))
      BY DEF Named, NoName, Trim
    <2>2. kept[k].service \in LogName
      BY <1>4 DEF Line
    <2> DEFINE n == kept[k].service
    <2> HIDE DEF n
    <2>3. n \in LogName /\ ~n.padded => n = Trim(n)
      BY DEF LogName, Trim
    <2>4. n \in LogName
      BY <2>2 DEF n
    <2> QED
      BY <2>1, <2>3, <2>4 DEF n
  <1> HIDE DEF service
  <1>7. \A k \in 1..Len(kept) : NamedWell(row(k))
    BY <1>5, <1>6 DEF NamedWell
  <1> DEFINE lines == FromLog(b, t)
  <1> HIDE DEF row
  <1>8. lines = [k \in 1..Len(kept) |-> row(k)]
    BY <1>3, <1>4
  <1>9. ToSet(lines) = {row(k) : k \in 1..Len(kept)}
    BY <1>8 DEF ToSet
  <1>10. lines \in Seq(ToSet(lines))
    BY <1>4, <1>8, <1>9
  <1> QED
    BY <1>7, <1>9, <1>10 DEF LinesAt

\* What a delivery adds is what was made of that message at that time.
LEMMA DeliveredIs ==
  ASSUME TypeOK, NEW m \in Message \cup LogMessage, Delivered(m), now' = now
  PROVE  /\ times' \in [Message \cup LogMessage -> SUBSET (1..now')]
         /\ count' \in 0..MaxDeliveries
         /\ now \in Nat /\ now' \in 1..MaxClock
         /\ \A x \in Message \cup LogMessage :
              times'[x] = IF x = m THEN times[x] \cup {now} ELSE times[x]
PROOF
  <1>1. now \in 1..MaxClock /\ count \in 0..MaxDeliveries /\ MaxDeliveries \in Nat /\ MaxClock \in Nat
    BY IngestAssumption DEF TypeOK
  <1>2. times \in [Message \cup LogMessage -> SUBSET (1..now)]
    BY DEF TypeOK
  <1>3. now \in Nat /\ now \in 1..now
    BY <1>1
  <1>4. count < MaxDeliveries /\ count' = count + 1 /\ times' = [times EXCEPT ![m] = @ \cup {now}]
    BY DEF Delivered
  <1>5. count' \in 0..MaxDeliveries
    BY <1>1, <1>4
  <1> QED
    BY <1>1, <1>2, <1>3, <1>4, <1>5

\* At first nothing came and nothing is stored.
LEMMA NothingStored ==
  ASSUME Init
  PROVE  IInv
PROOF
  <1> DEFINE D == Message \cup LogMessage
  <1>1. now = 1 /\ audit = {} /\ findings = {} /\ log = <<>> /\ count = 0 /\ times = [m \in D |-> {}]
    BY DEF Init
  <1>2. MaxDeliveries \in Nat /\ MaxClock \in Nat \ {0}
    BY IngestAssumption
  <1>3. ToSet(log) = {}
    BY <1>1 DEF ToSet
  <1>4. log \in Seq(ToSet(log))
    BY <1>1
  <1>5. TypeOK
    BY <1>1, <1>2, <1>4 DEF TypeOK
  <1>6. \A m \in D : times[m] = {}
    BY <1>1
  <1>7. audit = UNION {UNION {RowsAt(m, t) : t \in times[m]} : m \in Message}
    <2>1. \A m \in Message : UNION {RowsAt(m, t) : t \in times[m]} = {}
      BY <1>6
    <2> QED
      BY <1>1, <2>1
  <1>8. findings = UNION {UNION {FindingsAt(m, t) : t \in times[m]} : m \in Message}
    <2>1. \A m \in Message : UNION {FindingsAt(m, t) : t \in times[m]} = {}
      BY <1>6
    <2> QED
      BY <1>1, <2>1
  <1>9. ToSet(log) = UNION {UNION {LinesAt(b, t) : t \in times[b]} : b \in LogMessage}
    <2>1. \A b \in LogMessage : UNION {LinesAt(b, t) : t \in times[b]} = {}
      BY <1>6
    <2> QED
      BY <1>3, <2>1
  <1> QED
    BY <1>5, <1>7, <1>8, <1>9 DEF IInv, StoredAsDelivered

\* The parts of the invariant, each for the two states of a step.
AuditStored(at, rows) ==
  \A y : y \in rows <=> \E m \in Message : \E t \in at[m] : y \in RowsAt(m, t)
FindingsStored(at, found) ==
  \A y : y \in found <=> \E m \in Message : \E t \in at[m] : y \in FindingsAt(m, t)
LinesStored(at, lines) ==
  \A y : y \in lines <=> \E b \in LogMessage : \E t \in at[b] : y \in LinesAt(b, t)

\* They say what StoredAsDelivered says.
LEMMA AuditStoredAre ==
  ASSUME NEW at, NEW rows
  PROVE  AuditStored(at, rows) <=> rows = UNION {UNION {RowsAt(m, t) : t \in at[m]} : m \in Message}
PROOF
  <1> DEFINE Of(m) == UNION {RowsAt(m, t) : t \in at[m]}
             all == UNION {Of(m) : m \in Message}
  <1>1. \A y, m : y \in Of(m) <=> \E t \in at[m] : y \in RowsAt(m, t)
    OBVIOUS
  <1> HIDE DEF Of
  <1>2. \A y : y \in all <=> \E m \in Message : y \in Of(m)
    OBVIOUS
  <1> HIDE DEF all
  <1>3. AuditStored(at, rows) <=> \A y : y \in rows <=> y \in all
    BY <1>1, <1>2 DEF AuditStored
  <1>4. AuditStored(at, rows) <=> rows = all
    BY <1>3
  <1> QED
    BY <1>4 DEF all, Of

LEMMA FindingsStoredAre ==
  ASSUME NEW at, NEW found
  PROVE  FindingsStored(at, found) <=> found = UNION {UNION {FindingsAt(m, t) : t \in at[m]} : m \in Message}
PROOF
  <1> DEFINE Of(m) == UNION {FindingsAt(m, t) : t \in at[m]}
             all == UNION {Of(m) : m \in Message}
  <1>1. \A y, m : y \in Of(m) <=> \E t \in at[m] : y \in FindingsAt(m, t)
    OBVIOUS
  <1> HIDE DEF Of
  <1>2. \A y : y \in all <=> \E m \in Message : y \in Of(m)
    OBVIOUS
  <1> HIDE DEF all
  <1>3. FindingsStored(at, found) <=> \A y : y \in found <=> y \in all
    BY <1>1, <1>2 DEF FindingsStored
  <1>4. FindingsStored(at, found) <=> found = all
    BY <1>3
  <1> QED
    BY <1>4 DEF all, Of

LEMMA LinesStoredAre ==
  ASSUME NEW at, NEW lines
  PROVE  LinesStored(at, lines) <=> lines = UNION {UNION {LinesAt(m, t) : t \in at[m]} : m \in LogMessage}
PROOF
  <1> DEFINE Of(m) == UNION {LinesAt(m, t) : t \in at[m]}
             all == UNION {Of(m) : m \in LogMessage}
  <1>1. \A y, m : y \in Of(m) <=> \E t \in at[m] : y \in LinesAt(m, t)
    OBVIOUS
  <1> HIDE DEF Of
  <1>2. \A y : y \in all <=> \E m \in LogMessage : y \in Of(m)
    OBVIOUS
  <1> HIDE DEF all
  <1>3. LinesStored(at, lines) <=> \A y : y \in lines <=> y \in all
    BY <1>1, <1>2 DEF LinesStored
  <1>4. LinesStored(at, lines) <=> lines = all
    BY <1>3
  <1> QED
    BY <1>4 DEF all, Of

LEMMA StoredIs ==
  StoredAsDelivered <=> /\ AuditStored(times, audit)
                        /\ FindingsStored(times, findings)
                        /\ LinesStored(times, ToSet(log))
PROOF
  BY AuditStoredAre, FindingsStoredAre, LinesStoredAre DEF StoredAsDelivered

LEMMA StoredNext ==
  StoredAsDelivered' <=> /\ AuditStored(times', audit')
                         /\ FindingsStored(times', findings')
                         /\ LinesStored(times', ToSet(log'))
PROOF
  BY AuditStoredAre, FindingsStoredAre, LinesStoredAre DEF StoredAsDelivered

\* One more delivery adds its part to what is stored.
LEMMA RowsGrow ==
  ASSUME NEW m \in Message, NEW old, NEW new, NEW t, NEW rows, NEW found,
         \A x \in Message : new[x] = IF x = m THEN old[x] \cup {t} ELSE old[x],
         AuditStored(old, rows), FindingsStored(old, found)
  PROVE  /\ AuditStored(new, rows \cup RowsAt(m, t))
         /\ FindingsStored(new, found \cup FindingsAt(m, t))
PROOF
  <1>1. \A x \in Message : \A u : u \in new[x] <=> u \in old[x] \/ (x = m /\ u = t)
    OBVIOUS
  <1>2. AuditStored(new, rows \cup RowsAt(m, t))
    BY <1>1 DEF AuditStored
  <1>3. FindingsStored(new, found \cup FindingsAt(m, t))
    BY <1>1 DEF FindingsStored
  <1> QED
    BY <1>2, <1>3

LEMMA LinesGrow ==
  ASSUME NEW b \in LogMessage, NEW old, NEW new, NEW t, NEW lines,
         \A x \in LogMessage : new[x] = IF x = b THEN old[x] \cup {t} ELSE old[x],
         LinesStored(old, lines)
  PROVE  LinesStored(new, lines \cup LinesAt(b, t))
PROOF
  <1>1. \A x \in LogMessage : \A u : u \in new[x] <=> u \in old[x] \/ (x = b /\ u = t)
    OBVIOUS
  <1> QED
    BY <1>1 DEF LinesStored

\* Two sequences, one behind the other, hold what the two hold.
IsBoth(s, r, U) == ToSet(s \o r) = ToSet(s) \cup ToSet(r) /\ s \o r \in Seq(U)

LEMMA JoinedHolds ==
  ASSUME NEW S, NEW T, NEW s, NEW r, s \in Seq(S), r \in Seq(T)
  PROVE  IsBoth(s, r, S \cup T)
PROOF
  <1>1. Len(s) \in Nat /\ Len(r) \in Nat /\ DOMAIN s = 1..Len(s) /\ DOMAIN r = 1..Len(r)
    OBVIOUS
  <1>2. /\ Len(s \o r) = Len(s) + Len(r) /\ DOMAIN (s \o r) = 1..Len(s \o r)
        /\ \A k \in 1..Len(s) + Len(r) : (s \o r)[k] = IF k <= Len(s) THEN s[k] ELSE r[k - Len(s)]
    OBVIOUS
  <1>3. ASSUME NEW k \in 1..Len(s) PROVE k \in 1..Len(s \o r) /\ (s \o r)[k] = s[k]
    BY <1>1, <1>2
  <1>4. ASSUME NEW k \in 1..Len(r)
        PROVE  Len(s) + k \in 1..Len(s \o r) /\ (s \o r)[Len(s) + k] = r[k]
    BY <1>1, <1>2
  <1>5. ASSUME NEW k \in 1..Len(s \o r)
        PROVE  (k \in 1..Len(s) /\ (s \o r)[k] = s[k])
                 \/ (k - Len(s) \in 1..Len(r) /\ (s \o r)[k] = r[k - Len(s)])
    BY <1>1, <1>2
  <1>6. ASSUME NEW y PROVE y \in ToSet(s \o r) <=> y \in ToSet(s) \cup ToSet(r)
    <2>1. y \in ToSet(s) <=> \E k \in 1..Len(s) : y = s[k]
      BY <1>1 DEF ToSet
    <2>2. y \in ToSet(r) <=> \E k \in 1..Len(r) : y = r[k]
      BY <1>1 DEF ToSet
    <2>3. y \in ToSet(s \o r) <=> \E k \in 1..Len(s \o r) : y = (s \o r)[k]
      BY <1>2 DEF ToSet
    <2> QED
      BY <2>1, <2>2, <2>3, <1>3, <1>4, <1>5
  <1>7. s \in Seq(S \cup T) /\ r \in Seq(S \cup T)
    OBVIOUS
  <1> QED
    BY <1>6, <1>7 DEF IsBoth

\* A message of WAF_AUDIT: its rows and findings are added (MessageParsed).
LEMMA DeliverStores ==
  ASSUME IInv, NEW m \in Message, Deliver(m)
  PROVE  IInv'
PROOF
  <1>1. TypeOK /\ StoredAsDelivered
    BY DEF IInv
  <1>2. Delivered(m) /\ now' = now /\ log' = log
    BY DEF Deliver
  <1>3. /\ times' \in [Message \cup LogMessage -> SUBSET (1..now')]
        /\ count' \in 0..MaxDeliveries
        /\ now \in Nat /\ now' \in 1..MaxClock
        /\ \A x \in Message \cup LogMessage :
             times'[x] = IF x = m THEN times[x] \cup {now} ELSE times[x]
    BY <1>1, <1>2, DeliveredIs
  <1>5. audit' = audit \cup RowsAt(m, now) /\ findings' = findings \cup FindingsAt(m, now)
    BY MessageParsed DEF Deliver
  <1>6. AuditStored(times, audit) /\ FindingsStored(times, findings)
    BY <1>1, StoredIs
  <1>7. AuditStored(times', audit') /\ FindingsStored(times', findings')
    BY <1>3, <1>5, <1>6, RowsGrow
  <1>8. \A b \in LogMessage : times'[b] = times[b]
    BY <1>3, IngestAssumption
  <1>9. LinesStored(times', ToSet(log'))
    BY <1>1, <1>2, <1>8, StoredIs DEF LinesStored
  <1>10. log' \in Seq(ToSet(log'))
    BY <1>1, <1>2 DEF TypeOK
  <1> QED
    BY <1>3, <1>7, <1>9, <1>10, StoredNext DEF IInv, TypeOK

\* A message of WAF_LOG: its lines are put behind the others.
LEMMA DeliverLogStores ==
  ASSUME IInv, NEW m \in LogMessage, DeliverLog(m)
  PROVE  IInv'
PROOF
  <1>1. TypeOK /\ StoredAsDelivered
    BY DEF IInv
  <1>2. Delivered(m) /\ now' = now /\ audit' = audit /\ findings' = findings /\ log' = log \o FromLog(m, now)
    BY DEF DeliverLog
  <1>3. /\ times' \in [Message \cup LogMessage -> SUBSET (1..now')]
        /\ count' \in 0..MaxDeliveries
        /\ now \in Nat /\ now' \in 1..MaxClock
        /\ \A x \in Message \cup LogMessage :
             times'[x] = IF x = m THEN times[x] \cup {now} ELSE times[x]
    BY <1>1, <1>2, DeliveredIs
  <1>5. \A b \in Message : times'[b] = times[b]
    BY <1>3, IngestAssumption
  <1>6. AuditStored(times', audit') /\ FindingsStored(times', findings')
    BY <1>1, <1>2, <1>5, StoredIs DEF AuditStored, FindingsStored
  <1> DEFINE new == FromLog(m, now)
             L == LinesAt(m, now)
  <1>7. new \in Seq(L) /\ ToSet(new) = L
    BY LinesOf DEF LinesAt
  <1>8. log \in Seq(ToSet(log))
    BY <1>1 DEF TypeOK
  <1>4. log' = log \o new
    BY <1>2
  <1> HIDE DEF new, L
  <1>9. ToSet(log') = ToSet(log) \cup L /\ log' \in Seq(ToSet(log) \cup L)
    <2> DEFINE S == ToSet(log)
    <2>1. log \in Seq(S)
      BY <1>8
    <2> HIDE DEF S
    <2>2. IsBoth(log, new, S \cup L)
      BY <1>7, <2>1, JoinedHolds
    <2>3. ToSet(log \o new) = ToSet(log) \cup ToSet(new) /\ log \o new \in Seq(ToSet(log) \cup L)
      BY <2>2 DEF S, IsBoth
    <2> QED
      BY <1>4, <1>7, <2>3
  <1>10. LinesStored(times, ToSet(log))
    BY <1>1, StoredIs
  <1>11. LinesStored(times', ToSet(log'))
    <2>1. LinesStored(times', ToSet(log) \cup LinesAt(m, now))
      BY <1>3, <1>10, LinesGrow
    <2> QED
      BY <1>9, <2>1 DEF L
  <1>12. log' \in Seq(ToSet(log'))
    BY <1>9
  <1> QED
    BY <1>3, <1>6, <1>11, <1>12, StoredNext DEF IInv, TypeOK

\* What came at an earlier time stays where it is.
LEMMA TickKeeps ==
  ASSUME IInv, Tick
  PROVE  IInv'
PROOF
  <1>1. TypeOK /\ StoredAsDelivered
    BY DEF IInv
  <1>2. /\ now < MaxClock /\ now' = now + 1
        /\ audit' = audit /\ findings' = findings /\ log' = log /\ times' = times /\ count' = count
    BY DEF Tick
  <1>3. MaxClock \in Nat /\ now \in 1..MaxClock
    BY <1>1, IngestAssumption DEF TypeOK
  <1>4. now' \in 1..MaxClock /\ 1..now \subseteq 1..now'
    BY <1>2, <1>3
  <1>5. times' \in [Message \cup LogMessage -> SUBSET (1..now')]
    BY <1>1, <1>2, <1>4 DEF TypeOK
  <1>6. TypeOK'
    BY <1>1, <1>2, <1>4, <1>5 DEF TypeOK
  <1>7. StoredAsDelivered'
    BY <1>1, <1>2 DEF StoredAsDelivered
  <1> QED
    BY <1>6, <1>7 DEF IInv

\* What is stored is at any time what parse made of the messages that came, no more and
\* no less.
THEOREM InductiveInvariant == Spec => []IInv
PROOF
  <1>1. Init => IInv
    BY NothingStored
  <1>2. IInv /\ [Next]_vars => IInv'
    <2> SUFFICES ASSUME IInv, [Next]_vars PROVE IInv'
      OBVIOUS
    <2>1. ASSUME NEW m \in Message, Deliver(m) PROVE IInv'
      BY <2>1, DeliverStores
    <2>2. ASSUME NEW m \in LogMessage, DeliverLog(m) PROVE IInv'
      BY <2>2, DeliverLogStores
    <2>3. CASE Tick
      BY <2>3, TickKeeps
    <2>4. CASE UNCHANGED vars
      BY <2>4 DEF vars, IInv, TypeOK, StoredAsDelivered
    <2> QED
      BY <2>1, <2>2, <2>3, <2>4 DEF Next
  <1> QED
    BY <1>1, <1>2, PTL DEF Spec

-----------------------------------------------------------------------------
(* The properties *)

\* Rows that stand in one place are of one request.
LEMMA KeysApart ==
  ASSUME NEW p, NEW q, IsRequest(p), IsRequest(q), NEW t,
         [KeyOf(p, t) EXCEPT !.ts = 0] = [KeyOf(q, 0) EXCEPT !.ts = 0]
  PROVE  AddressOf(p) = AddressOf(q)
PROOF
  <1> DEFINE a == KeyOf(p, t)
             b == KeyOf(q, 0)
  <1>1. \A c, d : [KeyOf(c, d) EXCEPT !.ts = 0] =
                    [ts |-> 0, node |-> c.node, ray |-> c.ray, phase |-> PhaseOf(c),
                     dir |-> c.frame.dir, seq |-> c.frame.seq]
    BY DEF KeyOf
  <1>2. [ts |-> 0, node |-> p.node, ray |-> p.ray, phase |-> PhaseOf(p), dir |-> p.frame.dir, seq |-> p.frame.seq]
          = [ts |-> 0, node |-> q.node, ray |-> q.ray, phase |-> PhaseOf(q), dir |-> q.frame.dir, seq |-> q.frame.seq]
    BY <1>1
  <1>3. /\ p.node = q.node /\ p.ray = q.ray /\ PhaseOf(p) = PhaseOf(q)
        /\ p.frame.dir = q.frame.dir /\ p.frame.seq = q.frame.seq
    BY <1>2
  <1>4. p.frame \in [dir : STRING, seq : Nat] /\ q.frame \in [dir : STRING, seq : Nat]
    BY DEF IsRequest
  <1>5. p.frame = q.frame
    BY <1>3, <1>4
  <1> QED
    BY <1>3, <1>5 DEF AddressOf

\* The rows of a request that came are what it was parsed to, each time it came.
LEMMA RowsForAre ==
  ASSUME IInv, NEW m \in Came, NEW q \in Requests(m), NEW r
  PROVE  r \in RowsFor(q) <=> \E t \in times[m], order \in SetToSeqs(Name) : r = RowOf(q, t, order)
PROOF
  <1>1. m \in Message
    BY DEF Came
  <1>2. IsRequest(q)
    BY <1>1, RequestsAre
  <1>3. AuditStored(times, audit)
    BY StoredIs DEF IInv
  <1>4. r \in audit <=> \E n \in Message : \E t \in times[n] : r \in RowsAt(n, t)
    BY <1>3 DEF AuditStored
  <1>5. \A n, t : r \in RowsAt(n, t) <=> \E p \in Requests(n), order \in SetToSeqs(Name) : r = RowOf(p, t, order)
    BY DEF RowsAt
  <1>6. \A p, t, order : RowOf(p, t, order).key = KeyOf(p, t)
    BY DEF RowOf
  <1>7. ASSUME r \in RowsFor(q)
        PROVE  \E t \in times[m], order \in SetToSeqs(Name) : r = RowOf(q, t, order)
    <2>1. r \in audit /\ [r.key EXCEPT !.ts = 0] = [KeyOf(q, 0) EXCEPT !.ts = 0]
      BY <1>7 DEF RowsFor
    <2>6. PICK n \in Message : \E t \in times[n] : r \in RowsAt(n, t)
      BY <1>4, <2>1
    <2>7. PICK t \in times[n] : r \in RowsAt(n, t)
      BY <2>6
    <2>2. PICK p \in Requests(n), order \in SetToSeqs(Name) : r = RowOf(p, t, order)
      BY <1>5, <2>7
    <2>3. IsRequest(p) /\ r.key = KeyOf(p, t)
      BY <1>6, <2>2, RequestsAre
    <2>4. AddressOf(p) = AddressOf(q)
      BY <1>2, <2>1, <2>3, KeysApart
    <2>5. n = m /\ p = q
      BY <1>1, <2>2, <2>4, IngestAssumption
    <2> QED
      BY <2>2, <2>5
  <1>8. ASSUME NEW t \in times[m], NEW order \in SetToSeqs(Name), r = RowOf(q, t, order)
        PROVE  r \in RowsFor(q)
    <2>1. r \in audit
      BY <1>1, <1>4, <1>5, <1>8
    <2>2. r.key = KeyOf(q, t)
      BY <1>6, <1>8
    <2>3. [KeyOf(q, t) EXCEPT !.ts = 0] = [KeyOf(q, 0) EXCEPT !.ts = 0]
      BY DEF KeyOf
    <2> QED
      BY <2>1, <2>2, <2>3 DEF RowsFor
  <1> QED
    BY <1>7, <1>8

\* The numbers of findings that are kept.
LEMMA TwoApart ==
  ASSUME NEW n \in Nat, NEW most \in Nat \ {0}
  PROVE  /\ Min({n, most}) = IF n <= most THEN n ELSE most
         /\ Max({1, Min({n, most})}) = IF n = 0 THEN 1 ELSE Min({n, most})
PROOF
  <1>1. Min({n, most}) = IF n <= most THEN n ELSE most
    BY DEF Min
  <1> DEFINE x == Min({n, most})
  <1>2. x \in Nat /\ (x = 0 <=> n = 0)
    BY <1>1
  <1> HIDE DEF x
  <1>3. Max({1, x}) = IF x = 0 THEN 1 ELSE x
    BY <1>2 DEF Max
  <1> QED
    BY <1>1, <1>2, <1>3 DEF x

\* The findings of an event that came are stored.
LEMMA FindingStored ==
  ASSUME IInv, NEW m \in Came, NEW e \in Events(m),
         NEW k \in 1..Max({1, Min({Len(e.codes), MaxFindings})})
  PROVE  \E t \in times[m] : FindingAt(e, t, PhaseOf(e), k) \in RowsAbout(e)
PROOF
  <1>1. m \in Message /\ times[m] # {}
    BY DEF Came
  <1>2. PICK t : t \in times[m]
    BY <1>1
  <1> DEFINE f == FindingAt(e, t, PhaseOf(e), k)
  <1>3. f \in FindingsOf(e, t, PhaseOf(e))
    BY DEF FindingsOf
  <1>4. f.node = e.node /\ f.ray = e.ray /\ f.by = e.by /\ f.dir = e.frame.dir /\ f.seq = e.frame.seq
    BY DEF FindingAt
  <1> HIDE DEF f
  <1>5. f \in FindingsAt(m, t)
    BY <1>3 DEF FindingsAt
  <1>6. FindingsStored(times, findings)
    BY StoredIs DEF IInv
  <1>7. f \in findings
    BY <1>1, <1>2, <1>5, <1>6 DEF FindingsStored
  <1>8. f \in RowsAbout(e)
    BY <1>4, <1>7 DEF RowsAbout
  <1> QED
    BY <1>2, <1>8 DEF f

\* A request has a row at any time that its message came, an event its findings.
LEMMA NeighboursFollow ==
  ASSUME IInv
  PROVE  NeighboursKept
PROOF
  <1>1. ASSUME NEW m \in Came, NEW q \in Requests(m) PROVE RowsFor(q) # {}
    <2>1. PICK t : t \in times[m]
      BY DEF Came
    <2>2. PICK order : order \in SetToSeqs(Name)
      BY SomeOrder
    <2> DEFINE r == RowOf(q, t, order)
    <2>3. r \in RowsFor(q) <=> \E u \in times[m], o \in SetToSeqs(Name) : r = RowOf(q, u, o)
      BY RowsForAre
    <2> HIDE DEF r
    <2>4. r \in RowsFor(q)
      BY <2>1, <2>2, <2>3 DEF r
    <2> QED
      BY <2>4
  <1>2. ASSUME NEW m \in Came, NEW q \in Events(m), NEW k \in 1..Min({Len(q.codes), MaxFindings})
        PROVE  \E f \in RowsAbout(q) : f.idx = k - 1 /\ f.code = q.codes[k]
    <2>1. m \in Message
      BY DEF Came
    <2>2. q.codes \in Seq(STRING)
      BY <2>1, EventsAre DEF IsEvent
    <2>3. Len(q.codes) \in Nat /\ MaxFindings \in Nat \ {0} /\ (q.codes = <<>> => Len(q.codes) = 0)
      <3>1. MaxFindings \in Nat \ {0}
        BY PayloadAssumption
      <3>2. Len(q.codes) \in Nat /\ (q.codes = <<>> => Len(q.codes) = 0)
        BY <2>2
      <3> QED
        BY <3>1, <3>2
    <2> DEFINE n == Len(q.codes)
               x == Min({n, MaxFindings})
    <2>4. /\ x = IF n <= MaxFindings THEN n ELSE MaxFindings
          /\ Max({1, x}) = IF n = 0 THEN 1 ELSE x
      BY <2>3, TwoApart
    <2>5. k \in 1..x
      OBVIOUS
    <2>6. n \in Nat /\ MaxFindings \in Nat \ {0}
      BY <2>3
    <2> HIDE DEF x, n
    <2>7. k \in 1..Max({1, x}) /\ n # 0
      BY <2>4, <2>5, <2>6
    <2>8. q.codes # <<>>
      BY <2>3, <2>7 DEF n
    <2>9. PICK t \in times[m] : FindingAt(q, t, PhaseOf(q), k) \in RowsAbout(q)
      BY <2>7, FindingStored DEF x, n
    <2>10. FindingAt(q, t, PhaseOf(q), k).idx = k - 1 /\ FindingAt(q, t, PhaseOf(q), k).code = q.codes[k]
      BY <2>8 DEF FindingAt
    <2> QED
      BY <2>9, <2>10
  <1> QED
    BY <1>1, <1>2 DEF NeighboursKept

\* A finding takes the phase and the frame that the row takes.
LEMMA FindingsMeet ==
  ASSUME IInv
  PROVE  FindingsMeetRecords
PROOF
  <1> SUFFICES ASSUME NEW m \in Came, NEW n \in Came, NEW q \in Requests(m), NEW e \in Events(n),
                      q.node = e.node, q.ray = e.ray, PhaseOf(q) = PhaseOf(e), q.frame = e.frame,
                      NEW r \in RowsFor(q)
               PROVE  \E f \in RowsAbout(e) : SameRecord(f, r.key)
    BY DEF FindingsMeetRecords
  <1>1. PICK t \in times[m], order \in SetToSeqs(Name) : r = RowOf(q, t, order)
    BY RowsForAre
  <1>2. r.key = KeyOf(q, t)
    BY <1>1 DEF RowOf
  <1>3. n \in Message
    BY DEF Came
  <1>4. e.codes \in Seq(STRING)
    BY <1>3, EventsAre DEF IsEvent
  <1> DEFINE most == Max({1, Min({Len(e.codes), MaxFindings})})
  <1>5. 1 \in 1..most
    <2>1. Len(e.codes) \in Nat /\ MaxFindings \in Nat \ {0}
      <3>1. MaxFindings \in Nat \ {0}
        BY PayloadAssumption
      <3>2. Len(e.codes) \in Nat
        BY <1>4
      <3> QED
        BY <3>1, <3>2
    <2> DEFINE x == Len(e.codes)
    <2>2. x \in Nat
      BY <2>1
    <2> HIDE DEF x
    <2>3. /\ Min({x, MaxFindings}) = IF x <= MaxFindings THEN x ELSE MaxFindings
          /\ Max({1, Min({x, MaxFindings})}) = IF x = 0 THEN 1 ELSE Min({x, MaxFindings})
      BY <2>1, <2>2, TwoApart
    <2>4. Max({1, Min({x, MaxFindings})}) \in Nat \ {0}
      BY <2>1, <2>2, <2>3
    <2> QED
      BY <2>4 DEF x
  <1>6. PICK u \in times[n] : FindingAt(e, u, PhaseOf(e), 1) \in RowsAbout(e)
    <2> HIDE DEF most
    <2> QED
      BY <1>5, FindingStored DEF most
  <1> DEFINE f == FindingAt(e, u, PhaseOf(e), 1)
  <1>7. /\ f.node = e.node /\ f.ray = e.ray /\ f.phase = PhaseOf(e)
        /\ f.dir = e.frame.dir /\ f.seq = e.frame.seq
    BY DEF FindingAt
  <1>8. /\ r.key.node = q.node /\ r.key.ray = q.ray /\ r.key.phase = PhaseOf(q)
        /\ r.key.dir = q.frame.dir /\ r.key.seq = q.frame.seq
    BY <1>2 DEF KeyOf
  <1> HIDE DEF f
  <1>9. SameRecord(f, r.key)
    BY <1>7, <1>8 DEF SameRecord
  <1> QED
    BY <1>6, <1>9 DEF f

\* The row depends on the time, if at all, and not on the order: as many rows as times.
LEMMA OneRowPerTime ==
  ASSUME IInv
  PROVE  RowPerTime
PROOF
  <1> SUFFICES ASSUME NEW m \in Came, NEW q \in Requests(m)
               PROVE  LET expected == IF q.ts # 0 THEN {q.ts} ELSE times[m]
                      IN /\ {r.key.ts : r \in RowsFor(q)} = expected
                         /\ Cardinality(RowsFor(q)) = Cardinality(expected)
    BY DEF RowPerTime
  <1> DEFINE expected == IF q.ts # 0 THEN {q.ts} ELSE times[m]
             rows == RowsFor(q)
             f == [r \in rows |-> r.key.ts]
  <1>1. m \in Message /\ times[m] # {}
    BY DEF Came
  <1>2. IsRequest(q)
    BY <1>1, RequestsAre
  <1>3. PICK o : o \in SetToSeqs(Name)
    BY SomeOrder
  <1>4. \A r : r \in rows <=> \E t \in times[m] : r = RowOf(q, t, o)
    <2>1. ASSUME NEW r PROVE r \in rows <=> \E t \in times[m] : r = RowOf(q, t, o)
      <3>1. r \in rows <=> \E t \in times[m], order \in SetToSeqs(Name) : r = RowOf(q, t, order)
        BY RowsForAre
      <3>2. \A t : \A order \in SetToSeqs(Name) : RowOf(q, t, order) = RowOf(q, t, o)
        BY <1>2, <1>3, RowForgetsOrder
      <3> HIDE DEF rows
      <3> QED
        BY <1>3, <3>1, <3>2
    <2> QED
      BY <2>1
  <1>5. \A t : RowOf(q, t, o).key.ts = IF q.ts = 0 THEN t ELSE q.ts
    BY DEF RowOf, KeyOf, TimeOf
  <1>6. ASSUME NEW t, NEW u, RowOf(q, t, o).key.ts = RowOf(q, u, o).key.ts
        PROVE  RowOf(q, t, o) = RowOf(q, u, o)
    <2>1. TimeOf(q, t) = TimeOf(q, u)
      BY <1>6 DEF RowOf, KeyOf
    <2> QED
      BY <2>1 DEF RowOf, KeyOf
  <1> HIDE DEF rows
  <1>7. {r.key.ts : r \in rows} = expected
    <2>1. ASSUME NEW y PROVE y \in {r.key.ts : r \in rows} <=> \E t \in times[m] : y = IF q.ts = 0 THEN t ELSE q.ts
      <3>1. y \in {r.key.ts : r \in rows} <=> \E r \in rows : y = r.key.ts
        OBVIOUS
      <3> QED
        BY <1>4, <1>5, <3>1
    <2>2. CASE q.ts = 0
      BY <2>1, <2>2
    <2>3. CASE q.ts # 0
      <3>1. PICK t : t \in times[m]
        BY <1>1
      <3> QED
        BY <2>1, <2>3, <3>1
    <2> QED
      BY <2>2, <2>3
  <1>8. \A a, b \in rows : f[a] = f[b] => a = b
    <2>1. \A a, b \in rows : a.key.ts = b.key.ts => a = b
      BY <1>4, <1>6
    <2> QED
      BY <2>1
  <1>9. IsFiniteSet(rows)
    <2>1. times[m] \in SUBSET (1..now) /\ now \in Nat
      BY <1>1, IngestAssumption DEF IInv, TypeOK
    <2>2. IsFiniteSet(times[m])
      <3>1. IsFiniteSet(1..now)
        BY <2>1, FS_Interval
      <3> QED
        BY <2>1, <3>1, FS_Subset
    <2> DEFINE g == [t \in times[m] |-> RowOf(q, t, o)]
    <2>3. rows = {g[t] : t \in times[m]}
      BY <1>4
    <2>5. DOMAIN g = times[m]
      OBVIOUS
    <2> HIDE DEF g
    <2>4. IsFiniteSet({g[t] : t \in times[m]})
      BY <2>2, <2>5, ImageFinite
    <2> QED
      BY <2>3, <2>4
  <1>10. {f[r] : r \in rows} = expected
    <2>1. {f[r] : r \in rows} = {r.key.ts : r \in rows}
      OBVIOUS
    <2> QED
      BY <1>7, <2>1
  <1>11. DOMAIN f = rows
    OBVIOUS
  <1> HIDE DEF f, expected
  <1>12. Cardinality({f[r] : r \in rows}) = Cardinality(rows)
    BY <1>8, <1>9, <1>11, ImageSize
  <1>13. Cardinality(rows) = Cardinality(expected)
    BY <1>10, <1>12
  <1> QED
    BY <1>7, <1>13 DEF rows, expected

\* Every session that is kept is shown with its own fields.
LEMMA SessionsShown ==
  ASSUME NEW q, IsRequest(q), NEW t, NEW o
  PROVE  Sessions(RowOf(q, t, o)) = [k \in DOMAIN Kept(q.sessions) |->
                                       LET s == Kept(q.sessions)[k]
                                       IN [by |-> s.by, source |-> s.source, user |-> s.user]]
PROOF
  <1> DEFINE kept == Kept(q.sessions)
             row == RowOf(q, t, o)
  <1>1. row.sessions = SpreadSessions(q.sessions)
    BY DEF RowOf
  <1>2. SpreadSessions(q.sessions) =
          [by |-> [k \in DOMAIN kept |-> kept[k].by], source |-> [k \in DOMAIN kept |-> kept[k].source],
           user |-> [k \in DOMAIN kept |-> kept[k].user]]
    BY DEF SpreadSessions
  <1> HIDE DEF kept, row
  <1>3. /\ row.sessions.by = [k \in DOMAIN kept |-> kept[k].by]
        /\ row.sessions.source = [k \in DOMAIN kept |-> kept[k].source]
        /\ row.sessions.user = [k \in DOMAIN kept |-> kept[k].user]
    BY <1>1, <1>2
  <1>4. DOMAIN row.sessions.source = DOMAIN kept
    BY <1>3
  <1>5. ASSUME NEW k \in DOMAIN kept
        PROVE  /\ Str(row.sessions.by, k) = kept[k].by /\ row.sessions.source[k] = kept[k].source
               /\ Str(row.sessions.user, k) = kept[k].user
    BY <1>3 DEF Str
  <1>6. Sessions(row) = [k \in DOMAIN kept |-> [by |-> kept[k].by, source |-> kept[k].source, user |-> kept[k].user]]
    BY <1>4, <1>5 DEF Sessions
  <1> QED
    BY <1>6 DEF kept, row

\* The inspectors of a request and its verdicts are shown.
LEMMA InspectorsShown ==
  ASSUME NEW q, IsRequest(q), NEW t, NEW o \in SetToSeqs(Name)
  PROVE  LET r == RowOf(q, t, o)
         IN /\ ToSet(r.inspectors) = DOMAIN q.inspectors \ {SelfKey}
            /\ \A n \in DOMAIN q.inspectors :
                 q.inspectors[n].verdict = IF n \in DOMAIN r.verdicts THEN r.verdicts[n] ELSE ""
PROOF
  <1> DEFINE items == q.inspectors
             r == RowOf(q, t, o)
  <1>1. DOMAIN items \subseteq Name
    BY DEF IsRequest
  <1>2. r.inspectors = NamesOf(items, o) /\ r.verdicts = Column(items, "verdict")
    BY DEF RowOf
  <1> HIDE DEF items, r
  <1>3. ToSet(NamesOf(items, o)) = DOMAIN items \ {SelfKey}
    <2> DEFINE S == DOMAIN items \ {SelfKey}
    <2>1. S \in SUBSET Name
      BY <1>1
    <2> HIDE DEF S
    <2>2. ToSet(Sorted(Only(o, S))) = S
      BY <2>1, NamesSorted
    <2> QED
      BY <2>2 DEF S, NamesOf
  <1>4. Column(items, "verdict") = [n \in {n \in DOMAIN items : items[n].verdict # ""} |-> items[n].verdict]
    BY DEF Column
  <1>5. ASSUME NEW n \in DOMAIN items
        PROVE  items[n].verdict = IF n \in DOMAIN r.verdicts THEN r.verdicts[n] ELSE ""
    BY <1>2, <1>4
  <1> QED
    BY <1>2, <1>3, <1>5 DEF items, r

\* A rewrite that is stored is found by its name, unless one of them is odd.
LEMMA RewritesShown ==
  ASSUME NEW q, IsRequest(q), NEW t, NEW o \in SetToSeqs(Name), NEW n \in DOMAIN q.inspectors,
         \A j \in DOMAIN q.inspectors : q.inspectors[j].rewrite # "odd"
  PROVE  LET shown == RewritesOf(RowOf(q, t, o))
         IN q.inspectors[n].rewrite \in IF n \in DOMAIN shown THEN {shown[n]} ELSE {"", "null"}
PROOF
  <1> DEFINE items == q.inspectors
             row == RowOf(q, t, o)
             S == {j \in DOMAIN items : items[j].rewrite \notin {"", "null"}}
             names == Sorted(Only(o, S))
             shown == RewritesOf(row)
  <1>1. S \in SUBSET Name
    BY DEF IsRequest
  <1>2. row.rewrite = FoldRewrites(items, o)
    BY DEF RowOf
  <1>3. FoldRewrites(items, o) = [k \in DOMAIN names |-> [name |-> names[k], raw |-> items[names[k]].rewrite]]
    BY DEF FoldRewrites
  <1>4. n \in S \/ items[n].rewrite \in {"", "null"}
    OBVIOUS
  <1>5. \A j \in S : j \in DOMAIN items /\ items[j].rewrite # "odd"
    OBVIOUS
  <1> HIDE DEF S
  <1>6. names \in Seq(Nat) /\ ToSet(names) = S
    BY <1>1, NamesSorted
  <1> DEFINE ws == row.rewrite
  <1> HIDE DEF names, items, row
  <1>7. ws = [k \in DOMAIN names |-> [name |-> names[k], raw |-> items[names[k]].rewrite]]
    BY <1>2, <1>3
  <1>8. S = {names[k] : k \in DOMAIN names}
    BY <1>6 DEF ToSet
  <1>9. shown = [j \in {ws[k].name : k \in {k \in DOMAIN ws : \A i \in DOMAIN ws : ws[i].raw # "odd"}} |->
                   ws[CHOOSE k \in DOMAIN ws : ws[k].name = j].raw]
    BY DEF RewritesOf
  <1> HIDE DEF ws, shown
  <1>10. /\ DOMAIN ws = DOMAIN names
         /\ \A k \in DOMAIN names : ws[k].name = names[k] /\ ws[k].raw = items[names[k]].rewrite
    BY <1>7
  <1>11. \A k \in DOMAIN ws : ws[k].raw # "odd"
    BY <1>5, <1>8, <1>10
  <1>12. DOMAIN shown = S
    <2>1. {k \in DOMAIN ws : \A i \in DOMAIN ws : ws[i].raw # "odd"} = DOMAIN ws
      BY <1>11
    <2>2. DOMAIN shown = {ws[k].name : k \in DOMAIN ws}
      BY <1>9, <2>1
    <2> QED
      BY <1>8, <1>10, <2>2
  <1>13. ASSUME n \in S PROVE shown[n] = items[n].rewrite
    <2> DEFINE c == CHOOSE k \in DOMAIN ws : ws[k].name = n
    <2>1. \E k \in DOMAIN ws : ws[k].name = n
      BY <1>8, <1>10, <1>13
    <2>2. c \in DOMAIN ws /\ ws[c].name = n
      BY <2>1
    <2>3. shown[n] = ws[c].raw
      BY <1>9, <1>12, <1>13
    <2> HIDE DEF c
    <2> QED
      BY <1>10, <2>2, <2>3
  <1> QED
    BY <1>4, <1>12, <1>13 DEF shown, row, items

\* An element that is in the set is among those that are taken, and so is its value.
LEMMA TakenAlong ==
  ASSUME NEW T, NEW s, s \in Seq(T), NEW k \in DOMAIN s, NEW S, s[k] \in S
  PROVE  \E j \in DOMAIN Only(s, S) : Only(s, S)[j] = s[k]
PROOF
  <1> DEFINE out == Only(s, S)
  <1>1. out \in Seq(T) /\ ToSet(out) = {x \in ToSet(s) : x \in S}
    BY OnlyIs
  <1>2. s[k] \in ToSet(s)
    BY DEF ToSet
  <1> HIDE DEF out
  <1>3. s[k] \in ToSet(out)
    BY <1>1, <1>2
  <1>4. \E j \in DOMAIN out : out[j] = s[k]
    BY <1>3 DEF ToSet
  <1> QED
    BY <1>4 DEF out

\* And its value is among the values.
LEMMA ValuesContain ==
  ASSUME NEW T, NEW s, s \in Seq(T), NEW S, NEW j \in DOMAIN Only(s, S)
  PROVE  Contains([i \in DOMAIN Only(s, S) |-> Only(s, S)[i][2]], Only(s, S)[j][2])
PROOF
  <1> DEFINE out == Only(s, S)
             values == [i \in DOMAIN out |-> out[i][2]]
  <1>1. out \in Seq(T)
    BY OnlyIs
  <1> HIDE DEF out
  <1>2. DOMAIN out = 1..Len(out) /\ Len(out) \in Nat
    BY <1>1
  <1>3. values = [i \in 1..Len(out) |-> out[i][2]]
    BY <1>2
  <1>4. j \in 1..Len(out)
    BY <1>2 DEF out
  <1> HIDE DEF values
  <1>5. Len(values) = Len(out) /\ \A i \in 1..Len(out) : values[i] = out[i][2]
    BY <1>2, <1>3
  <1>6. Contains(values, out[j][2])
    BY <1>4, <1>5 DEF Contains
  <1> QED
    BY <1>6 DEF values, out

\* Every value of a header is shown under its name.
LEMMA HeadersAreShown ==
  ASSUME NEW q, IsRequest(q), NEW t, NEW o, NEW k \in DOMAIN q.headers, Lower(q.headers[k][1]) # ""
  PROVE  LET r == RowOf(q, t, o)
             n == Lower(q.headers[k][1])
         IN /\ Contains(r.headers.shown[n], q.headers[k][2])
            /\ Len(q.headers[k]) > 2 => n \in r.headers.cut
PROOF
  <1> DEFINE pairs == q.headers
             r == RowOf(q, t, o)
             n == Lower(q.headers[k][1])
             of(x) == Only(pairs, {pair \in ToSet(pairs) : Lower(pair[1]) = x})
             names == {Lower(pair[1]) : pair \in ToSet(pairs)} \ {""}
             named == of(n)
             values == [j \in DOMAIN named |-> named[j][2]]
             fold == [shown |-> [x \in names |-> [j \in DOMAIN of(x) |-> of(x)[j][2]]],
                      cut |-> {x \in names : \E j \in DOMAIN of(x) : Len(of(x)[j]) > 2}]
  <1>1. pairs \in Seq(Seq(STRING))
    BY DEF IsRequest
  <1>2. r.headers = fold
    BY DEF RowOf, FoldPairs
  <1>3. pairs[k] \in ToSet(pairs) /\ Lower(pairs[k][1]) = n
    BY <1>1 DEF ToSet
  <1>4. n \in names
    BY <1>3
  <1>5. r.headers.shown[n] = values /\ (n \in r.headers.cut <=> \E j \in DOMAIN named : Len(named[j]) > 2)
    <2>1. fold.shown[n] = values
      BY <1>4
    <2>2. n \in fold.cut <=> \E j \in DOMAIN named : Len(named[j]) > 2
      BY <1>4
    <2> HIDE DEF fold, values, named
    <2> QED
      BY <1>2, <2>1, <2>2
  <1> DEFINE S == {pair \in ToSet(pairs) : Lower(pair[1]) = n}
  <1>6. pairs[k] \in S
    BY <1>3
  <1>7. named = Only(pairs, S)
    OBVIOUS
  <1>8. k \in DOMAIN pairs
    OBVIOUS
  <1> HIDE DEF S, named, pairs, r, names
  <1>9. PICK j \in DOMAIN named : named[j] = pairs[k]
    BY <1>1, <1>6, <1>7, <1>8, TakenAlong
  <1>10. Contains(values, named[j][2])
    BY <1>1, <1>7, ValuesContain DEF values
  <1> HIDE DEF values
  <1>11. Contains(values, pairs[k][2]) /\ (Len(pairs[k]) > 2 => n \in r.headers.cut)
    BY <1>5, <1>9, <1>10
  <1> QED
    BY <1>5, <1>11 DEF r, pairs

\* Every row of a request that came is a row it was parsed to.
LEMMA ShownFollows ==
  ASSUME IInv
  PROVE  ShownAsSent
PROOF
  <1>1. ASSUME NEW m \in Came, NEW q \in Requests(m), NEW r \in RowsFor(q)
        PROVE  /\ Sessions(r) = [k \in DOMAIN Kept(q.sessions) |->
                                   LET s == Kept(q.sessions)[k]
                                   IN [by |-> s.by, source |-> s.source, user |-> s.user]]
               /\ ToSet(r.inspectors) = DOMAIN q.inspectors \ {SelfKey}
               /\ \A n \in DOMAIN q.inspectors :
                    LET e == q.inspectors[n]
                    IN /\ e.verdict = IF n \in DOMAIN r.verdicts THEN r.verdicts[n] ELSE ""
                       /\ (\A j \in DOMAIN q.inspectors : q.inspectors[j].rewrite # "odd") =>
                            e.rewrite \in IF n \in DOMAIN RewritesOf(r) THEN {RewritesOf(r)[n]} ELSE {"", "null"}
               /\ ToSet(r.markers) = ToSet(q.markers) \ {""} /\ IsInjective(r.markers)
               /\ \A k \in DOMAIN q.headers :
                    LET n == Lower(q.headers[k][1])
                    IN n # "" => /\ Contains(r.headers.shown[n], q.headers[k][2])
                                 /\ Len(q.headers[k]) > 2 => n \in r.headers.cut
               /\ FrameOf(r) = IF PhaseOf(q) = "frame" THEN q.frame ELSE NoFrame
    <2>1. m \in Message
      BY DEF Came
    <2>2. IsRequest(q)
      BY <2>1, RequestsAre
    <2>3. PICK t \in times[m], o \in SetToSeqs(Name) : r = RowOf(q, t, o)
      BY RowsForAre
    <2>4. ToSet(r.markers) = ToSet(q.markers) \ {""} /\ IsInjective(r.markers)
      <3>1. r.markers = Markers(q.markers)
        BY <2>3 DEF RowOf
      <3>2. q.markers \in Seq(STRING)
        BY <2>2 DEF IsRequest
      <3> QED
        BY <3>1, <3>2, MarkersAre
    <2>5. FrameOf(r) = IF PhaseOf(q) = "frame" THEN q.frame ELSE NoFrame
      <3>1. r.key.phase = PhaseOf(q) /\ r.key.dir = q.frame.dir /\ r.key.seq = q.frame.seq
        BY <2>3 DEF RowOf, KeyOf
      <3>2. q.frame \in [dir : STRING, seq : Nat]
        BY <2>2 DEF IsRequest
      <3>3. q.frame = [dir |-> q.frame.dir, seq |-> q.frame.seq]
        BY <3>2
      <3> QED
        BY <3>1, <3>3 DEF FrameOf
    <2>6. Sessions(r) = [k \in DOMAIN Kept(q.sessions) |->
                           LET s == Kept(q.sessions)[k]
                           IN [by |-> s.by, source |-> s.source, user |-> s.user]]
      BY <2>2, <2>3, SessionsShown
    <2>7. /\ ToSet(r.inspectors) = DOMAIN q.inspectors \ {SelfKey}
          /\ \A n \in DOMAIN q.inspectors :
               q.inspectors[n].verdict = IF n \in DOMAIN r.verdicts THEN r.verdicts[n] ELSE ""
      BY <2>2, <2>3, InspectorsShown
    <2>8. ASSUME NEW n \in DOMAIN q.inspectors, \A j \in DOMAIN q.inspectors : q.inspectors[j].rewrite # "odd"
          PROVE  q.inspectors[n].rewrite \in IF n \in DOMAIN RewritesOf(r) THEN {RewritesOf(r)[n]} ELSE {"", "null"}
      BY <2>2, <2>3, <2>8, RewritesShown
    <2>9. ASSUME NEW k \in DOMAIN q.headers, Lower(q.headers[k][1]) # ""
          PROVE  /\ Contains(r.headers.shown[Lower(q.headers[k][1])], q.headers[k][2])
                 /\ Len(q.headers[k]) > 2 => Lower(q.headers[k][1]) \in r.headers.cut
      BY <2>2, <2>3, <2>9, HeadersAreShown
    <2> QED
      BY <2>4, <2>5, <2>6, <2>7, <2>8, <2>9
  <1> QED
    BY <1>1 DEF ShownAsSent

\* A name that was trimmed is found by itself.
LEMMA FacetsFollow ==
  ASSUME IInv
  PROVE  FacetsDrillDown
PROOF
  <1> SUFFICES ASSUME NEW f \in LogFacets, ~(f.writer.long \/ f.service.long \/ f.service.padded)
               PROVE  Cardinality(Found(f.writer, f.service)) = f.lines
    BY DEF FacetsDrillDown
  <1>1. PICK l \in ToSet(log) :
          f = [writer |-> l.writer, service |-> l.service,
               lines |-> Cardinality({k \in DOMAIN log : log[k].writer = l.writer /\ log[k].service = l.service})]
    BY DEF LogFacets
  <1>2. f.writer = l.writer /\ f.service = l.service
    BY <1>1
  <1>3. f.lines = Cardinality({k \in DOMAIN log : log[k].writer = l.writer /\ log[k].service = l.service})
    BY <1>1
  <1>4. NamedWell(l)
    <2>1. LinesStored(times, ToSet(log))
      BY StoredIs DEF IInv
    <2>2. \E b \in LogMessage : \E t \in times[b] : l \in LinesAt(b, t)
      BY <2>1 DEF LinesStored
    <2> QED
      BY <2>2, LinesOf
  <1>5. Clamp(f.writer) = l.writer /\ Clamp(f.service) = l.service
    BY <1>2, <1>4 DEF Clamp, NamedWell
  <1>6. l.writer # NoName /\ l.service # NoName
    BY <1>4 DEF NamedWell
  <1>7. Found(f.writer, f.service) = {k \in DOMAIN log : log[k].writer = l.writer /\ log[k].service = l.service}
    BY <1>5, <1>6 DEF Found
  <1> QED
    BY <1>3, <1>7

-----------------------------------------------------------------------------
(* The theorems *)

\* A bad payload costs nothing but itself.
THEOREM NothingMissed == Spec => []NeighboursKept
PROOF
  BY InductiveInvariant, NeighboursFollow, PTL

\* A message that comes again adds nothing, unless it does not tell its time.
THEOREM RedeliveryAddsNothing == Spec => []RowPerTime
PROOF
  BY InductiveInvariant, OneRowPerTime, PTL

\* What is shown of a request is what was sent.
THEOREM SentIsShown == Spec => []ShownAsSent
PROOF
  BY InductiveInvariant, ShownFollows, PTL

\* What an inspector found about a request stands at its row.
THEOREM CardsFindFindings == Spec => []FindingsMeetRecords
PROOF
  BY InductiveInvariant, FindingsMeet, PTL

\* The lines that a facet counts are found by its names.
THEOREM FacetsFound == Spec => []FacetsDrillDown
PROOF
  BY InductiveInvariant, FacetsFollow, PTL
=============================================================================
