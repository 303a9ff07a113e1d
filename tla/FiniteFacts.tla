------------------------------ MODULE FiniteFacts ------------------------------
(***************************************************************************)
(* Facts about finite sets and sequences that the proofs of several        *)
(* modules need and the library does not state: a largest element, the     *)
(* size of a union, and what the folds and the flattened sequences of the  *)
(* community modules are, by induction over a set instead of a predicate.  *)
(***************************************************************************)
EXTENDS FiniteSets, Integers, Functions, FiniteSetsExt, SequencesExt, FiniteSetTheorems,
        SequenceTheorems, TLAPS

-----------------------------------------------------------------------------
\* One of finitely many elements is ranked highest.
LEMMA HighestExists ==
  ASSUME NEW S, IsFiniteSet(S), S # {}, NEW f \in [S -> Nat]
  PROVE  \E x \in S : \A y \in S : f[y] <= f[x]
PROOF
  <1> DEFINE above(x) == {y \in S : f[y] > f[x]}
             T == {above(x) : x \in S}
             R == StrictSubsetOrdering(S)
  <1>1. IsWellFoundedOn(R, FiniteSubsetsOf(S))
    BY FS_StrictSubsetOrderingWellFounded
  <1>2. T \subseteq FiniteSubsetsOf(S)
    BY FS_Subset DEF FiniteSubsetsOf
  <1>3. T # {}
    <2>1. PICK z \in S : TRUE
      OBVIOUS
    <2>2. above(z) \in T
      BY <2>1
    <2> QED
      BY <2>2
  <1>4. \E U \in T : \A V \in T : <<V, U>> \notin R
    <2> HIDE DEF T, R
    <2> QED
      BY <1>1, <1>2, <1>3, WFMin
  <1>5. PICK x \in S : \A y \in S : <<above(y), above(x)>> \notin R
    BY <1>4
  <1>6. ASSUME NEW y \in S, ~(f[y] <= f[x]) PROVE FALSE
    <2>1. above(y) \subseteq above(x)
      BY <1>6
    <2>2. y \in above(x) /\ y \notin above(y)
      BY <1>6
    <2>3. above(y) \in SUBSET S /\ above(x) \in SUBSET S /\ above(y) # above(x)
      BY <2>2
    <2> HIDE DEF above
    <2>4. <<above(y), above(x)>> \in R
      BY <2>1, <2>3 DEF StrictSubsetOrdering
    <2> QED
      BY <1>5, <2>4
  <1> QED
    BY <1>6

\* A finite set of numbers has a largest one.
LEMMA LargestExists ==
  ASSUME NEW S \in SUBSET Nat, IsFiniteSet(S), S # {}
  PROVE  \E x \in S : \A y \in S : y <= x
PROOF
  <1> DEFINE f == [x \in S |-> x]
  <1>1. f \in [S -> Nat]
    OBVIOUS
  <1>2. PICK x \in S : \A y \in S : f[y] <= f[x]
    <2> HIDE DEF f
    <2> QED
      BY <1>1, HighestExists
  <1> QED
    BY <1>2

-----------------------------------------------------------------------------
\* A set of at most n elements can be numbered with 1 to n.
LEMMA Numbering ==
  ASSUME NEW S, IsFiniteSet(S), NEW n \in Nat, Cardinality(S) <= n
  PROVE  \E h \in [S -> 1..n] : \A x, y \in S : h[x] = h[y] => x = y
PROOF
  <1> DEFINE c == Cardinality(S)
  <1>1. c \in Nat /\ ExistsBijection(1..c, S)
    BY FS_CardinalityType
  <1> HIDE DEF c
  <1>2. PICK g \in [1..c -> S] : \A x \in S : \E k \in 1..c : g[k] = x
    BY <1>1 DEF ExistsBijection, Bijection, Injection, Surjection
  <1> DEFINE h == [x \in S |-> CHOOSE k \in 1..c : g[k] = x]
  <1>3. \A x \in S : h[x] \in 1..c /\ g[h[x]] = x
    BY <1>2
  <1>4. \A k \in 1..c : k \in 1..n
    BY <1>1 DEF c
  <1>5. h \in [S -> 1..n]
    BY <1>3, <1>4
  <1>6. \A x, y \in S : h[x] = h[y] => x = y
    BY <1>3
  <1> QED
    BY <1>5, <1>6

\* The union of sets of at most n elements each.
LEMMA UnionBound ==
  ASSUME NEW I, IsFiniteSet(I), NEW F, NEW n \in Nat,
         \A i \in I : IsFiniteSet(F[i]) /\ Cardinality(F[i]) <= n
  PROVE  /\ IsFiniteSet(UNION {F[i] : i \in I})
         /\ Cardinality(UNION {F[i] : i \in I}) <= Cardinality(I) * n
PROOF
  <1> DEFINE U == UNION {F[i] : i \in I}
             Numbers(i, h) == h \in [F[i] -> 1..n] /\ \A x, y \in F[i] : h[x] = h[y] => x = y
             num == [i \in I |-> CHOOSE h : Numbers(i, h)]
             home == [x \in U |-> CHOOSE i \in I : x \in F[i]]
             place == [x \in U |-> <<home[x], num[home[x]][x]>>]
  <1>1. \A i \in I : Numbers(i, num[i])
    <2> SUFFICES ASSUME NEW i \in I PROVE Numbers(i, num[i])
      OBVIOUS
    <2>1. \E h \in [F[i] -> 1..n] : \A x, y \in F[i] : h[x] = h[y] => x = y
      BY Numbering
    <2>2. \E h : Numbers(i, h)
      BY <2>1
    <2> HIDE DEF Numbers
    <2> QED
      BY <2>2
  <1>2. \A x \in U : home[x] \in I /\ x \in F[home[x]]
    OBVIOUS
  <1>3. \A x \in U : num[home[x]][x] \in 1..n
    <2> HIDE DEF num, home
    <2> QED
      BY <1>1, <1>2
  <1>4. \A x, y \in U : (home[x] = home[y] /\ num[home[x]][x] = num[home[y]][y]) => x = y
    <2> HIDE DEF num, home
    <2> QED
      BY <1>1, <1>2
  <1> HIDE DEF num, home, U
  <1>5. place \in [U -> I \X (1..n)]
    BY <1>2, <1>3
  <1>6. \A x, y \in U : place[x] = place[y] => x = y
    BY <1>4
  <1>7. place \in Injection(U, I \X (1..n))
    BY <1>5, <1>6 DEF Injection, IsInjective
  <1>8. IsFiniteSet(1..n) /\ Cardinality(1..n) = n
    BY FS_Interval
  <1>9. IsFiniteSet(I \X (1..n)) /\ Cardinality(I \X (1..n)) = Cardinality(I) * n
    BY <1>8, FS_Product
  <1>10. IsFiniteSet(U) /\ Cardinality(U) <= Cardinality(I \X (1..n))
    <2> HIDE DEF place
    <2> QED
      BY <1>7, <1>9, FS_Injection
  <1> QED
    BY <1>9, <1>10 DEF U

-----------------------------------------------------------------------------
(* Induction, with the set of what the claim holds for in the place of the   *)
(* claim.                                                                    *)

\* A set of numbers with 0 and the next of each has all of them.
LEMMA SetInduction ==
  ASSUME NEW P, 0 \in P, \A n \in Nat : n \in P => n + 1 \in P
  PROVE  Nat \subseteq P
PROOF
  <1> SUFFICES ASSUME NEW n \in Nat, n \notin P PROVE FALSE
    OBVIOUS
  <1> DEFINE T == {k \in 0..n : k \notin P}
             f == [k \in T |-> n - k]
  <1>1. IsFiniteSet(T)
    <2>1. IsFiniteSet(0..n)
      BY FS_Interval
    <2> QED
      BY <2>1, FS_Subset, T \subseteq 0..n
  <1>2. n \in T /\ f \in [T -> Nat]
    OBVIOUS
  <1>3. PICK x \in T : \A y \in T : f[y] <= f[x]
    <2> HIDE DEF f, T
    <2> QED
      BY <1>1, <1>2, HighestExists
  <1>4. x # 0 /\ x - 1 \in Nat /\ x - 1 \notin T
    BY <1>3
  <1> QED
    BY <1>4

\* The same from 0 to n.
LEMMA UpToInduction ==
  ASSUME NEW n \in Nat, NEW P, 0 \in P, \A k \in 0..n - 1 : k \in P => k + 1 \in P
  PROVE  0..n \subseteq P
PROOF
  <1> DEFINE Q == P \cup {k \in Nat : k > n}
  <1>1. 0 \in Q /\ \A k \in Nat : k \in Q => k + 1 \in Q
    OBVIOUS
  <1>2. Nat \subseteq Q
    <2> HIDE DEF Q
    <2> QED
      BY <1>1, SetInduction
  <1> QED
    BY <1>2

\* A set of subsets that has each whose strict subsets it has has them all.
LEMMA SubsetInduction ==
  ASSUME NEW S, IsFiniteSet(S), NEW Q,
         \A t \in SUBSET S : (\A u \in SUBSET t : u # t => u \in Q) => t \in Q
  PROVE  SUBSET S \subseteq Q
PROOF
  <1> DEFINE B == {t \in SUBSET S : t \notin Q}
             R == StrictSubsetOrdering(S)
  <1> SUFFICES ASSUME B # {} PROVE FALSE
    OBVIOUS
  <1>1. IsWellFoundedOn(R, FiniteSubsetsOf(S))
    BY FS_StrictSubsetOrderingWellFounded
  <1>2. B \subseteq FiniteSubsetsOf(S)
    BY FS_Subset DEF FiniteSubsetsOf
  <1>3. \E t \in B : \A u \in B : <<u, t>> \notin R
    <2> HIDE DEF B, R
    <2> QED
      BY <1>1, <1>2, WFMin
  <1>4. PICK t \in B : \A u \in B : <<u, t>> \notin R
    BY <1>3
  <1>5. ASSUME NEW u \in SUBSET t, u # t PROVE u \in Q
    <2>1. <<u, t>> \in R
      BY <1>5, u \in SUBSET S DEF StrictSubsetOrdering
    <2> QED
      BY <1>4, <2>1
  <1> QED
    BY <1>5

-----------------------------------------------------------------------------
(* Folds *)

\* The recursive definition of a fold: pick takes an element, step adds it.
IsFold(h, S, X, x0, pick, step) ==
  /\ h \in [SUBSET S -> X]
  /\ \A t \in SUBSET S : h[t] = IF t = {} THEN x0 ELSE step[<<pick[t], h[t \ {pick[t]}]>>]

\* There is a fold over a finite set.
LEMMA FoldExists ==
  ASSUME NEW S, IsFiniteSet(S), NEW X, NEW x0 \in X, NEW pick,
         \A t \in SUBSET S : t # {} => pick[t] \in t,
         NEW step \in [S \X X -> X]
  PROVE  \E h : IsFold(h, S, X, x0, pick, step)
PROOF
  <1> DEFINE Folds(h, t) ==
               /\ h \in [SUBSET t -> X]
               /\ \A u \in SUBSET t :
                    h[u] = IF u = {} THEN x0 ELSE step[<<pick[u], h[u \ {pick[u]}]>>]
             Q == {t \in SUBSET S : \A h, g : Folds(h, t) /\ Folds(g, t) => h[t] = g[t]}
             fold(t) == CHOOSE h : Folds(h, t)
             E == {t \in SUBSET S : \E h : Folds(h, t)}
  <1>1. ASSUME NEW t \in SUBSET S, NEW u \in SUBSET t, NEW h, Folds(h, t)
        PROVE  Folds([v \in SUBSET u |-> h[v]], u)
    <2>1. \A v \in SUBSET u : v \in SUBSET t /\ v \ {pick[v]} \in SUBSET u
      OBVIOUS
    <2> QED
      BY <1>1, <2>1
  <1>2. SUBSET S \subseteq Q
    <2>1. ASSUME NEW t \in SUBSET S, \A u \in SUBSET t : u # t => u \in Q PROVE t \in Q
      <3> SUFFICES ASSUME NEW h, NEW g, Folds(h, t), Folds(g, t) PROVE h[t] = g[t]
        OBVIOUS
      <3>1. CASE t = {}
        BY <3>1
      <3>2. CASE t # {}
        <4> DEFINE u == t \ {pick[t]}
        <4>1. u \in SUBSET t /\ u # t
          BY <3>2
        <4>2. Folds([v \in SUBSET u |-> h[v]], u) /\ Folds([v \in SUBSET u |-> g[v]], u)
          <5> HIDE DEF Folds, u
          <5> QED
            BY <1>1, <4>1
        <4>3. u \in Q
          BY <2>1, <4>1
        <4>4. h[u] = g[u]
          <5>1. [v \in SUBSET u |-> h[v]][u] = [v \in SUBSET u |-> g[v]][u]
            <6> HIDE DEF Folds, u
            <6> QED
              BY <4>2, <4>3
          <5> QED
            BY <5>1
        <4> QED
          BY <3>2, <4>4
      <3> QED
        BY <3>1, <3>2
    <2> HIDE DEF Q
    <2> QED
      BY <2>1, SubsetInduction
  <1>3. ASSUME NEW t \in SUBSET S, NEW u \in SUBSET t, NEW h, Folds(h, t), u \in E
        PROVE  h[u] = fold(u)[u]
    <2>1. Folds(fold(u), u)
      <3> HIDE DEF Folds
      <3> QED
        BY <1>3
    <2>2. Folds([v \in SUBSET u |-> h[v]], u)
      <3> HIDE DEF Folds
      <3> QED
        BY <1>1, <1>3
    <2>3. [v \in SUBSET u |-> h[v]][u] = fold(u)[u]
      <3> HIDE DEF Folds, fold
      <3> QED
        BY <1>2, <2>1, <2>2
    <2> QED
      BY <2>3
  <1>4. SUBSET S \subseteq E
    <2>1. ASSUME NEW t \in SUBSET S, \A u \in SUBSET t : u # t => u \in E PROVE t \in E
      <3> DEFINE last == step[<<pick[t], fold(t \ {pick[t]})[t \ {pick[t]}]>>]
                 h == [u \in SUBSET t |-> IF u # t THEN fold(u)[u] ELSE IF t = {} THEN x0 ELSE last]
      <3>1. ASSUME NEW u \in SUBSET t, u # t PROVE Folds(fold(u), u)
        <4> HIDE DEF Folds
        <4> QED
          BY <2>1, <3>1
      <3>2. ASSUME NEW u \in SUBSET t, u # t PROVE h[u] \in X
        <4>1. fold(u) \in [SUBSET u -> X]
          BY <3>1, <3>2
        <4>2. h[u] = fold(u)[u]
          BY <3>2
        <4> HIDE DEF h, fold
        <4> QED
          BY <4>1, <4>2
      <3>3. t # {} => last \in X
        <4> SUFFICES ASSUME t # {} PROVE last \in X
          OBVIOUS
        <4> DEFINE u == t \ {pick[t]}
        <4>1. u \in SUBSET t /\ u # t
          OBVIOUS
        <4>2. fold(u)[u] \in X
          <5>1. Folds(fold(u), u)
            BY <3>1, <4>1
          <5> HIDE DEF fold
          <5> QED
            BY <5>1
        <4> HIDE DEF fold
        <4> QED
          BY <4>2
      <3>4. h \in [SUBSET t -> X]
        <4> HIDE DEF last, fold
        <4> QED
          BY <3>2, <3>3
      <3>5. ASSUME NEW u \in SUBSET t
            PROVE  h[u] = IF u = {} THEN x0 ELSE step[<<pick[u], h[u \ {pick[u]}]>>]
        <4>1. CASE u = t
          <5>1. CASE t # {}
            <6>1. t \ {pick[t]} # t /\ t \ {pick[t]} \in SUBSET t
              BY <5>1
            <6> HIDE DEF fold
            <6> QED
              BY <4>1, <5>1, <6>1
          <5> QED
            BY <4>1, <5>1
        <4>2. CASE u # t
          <5> DEFINE v == u \ {pick[u]}
          <5>1. Folds(fold(u), u)
            BY <3>1, <4>2
          <5>2. CASE u = {}
            BY <5>1, <5>2, <4>2
          <5>3. CASE u # {}
            <6>1. v \in SUBSET u /\ v \in SUBSET t /\ v # t
              BY <5>3, <4>2
            <6>2. fold(u)[v] = fold(v)[v]
              <7>1. v \in E
                BY <2>1, <6>1
              <7> HIDE DEF Folds, fold, E, v
              <7> QED
                BY <1>3, <5>1, <6>1, <7>1
            <6>3. fold(u)[u] = step[<<pick[u], fold(u)[v]>>]
              <7> HIDE DEF fold
              <7> QED
                BY <5>1, <5>3
            <6> HIDE DEF fold
            <6> QED
              BY <4>2, <5>3, <6>1, <6>2, <6>3
          <5> QED
            BY <5>2, <5>3
        <4> QED
          BY <4>1, <4>2
      <3>6. Folds(h, t)
        <4> HIDE DEF h
        <4> QED
          BY <3>4, <3>5
      <3> HIDE DEF Folds, h
      <3> QED
        BY <3>6
    <2> HIDE DEF E
    <2> QED
      BY <2>1, SubsetInduction
  <1>5. PICK h : Folds(h, S)
    BY <1>4
  <1>6. IsFold(h, S, X, x0, pick, step)
    BY <1>5 DEF IsFold
  <1> QED
    BY <1>6

\* The largest number from 1 to k, and what is left without it.
LEMMA LastOfRange ==
  ASSUME NEW k \in Nat, k # 0
  PROVE  Max(1..k) = k /\ (1..k) \ {k} = 1..k - 1
PROOF
  <1>1. k \in 1..k /\ \A y \in 1..k : k >= y
    OBVIOUS
  <1>2. \A x \in 1..k : (\A y \in 1..k : x >= y) => x = k
    BY <1>1
  <1>3. Max(1..k) = k
    BY <1>1, <1>2 DEF Max
  <1> QED
    BY <1>3

\* A fold from the first to the last.
IsFoldLeft(h, n, x0, step) ==
  \A t \in SUBSET (1..n) : h[t] = IF t = {} THEN x0 ELSE step[<<Max(t), h[t \ {Max(t)}]>>]

LEMMA FoldLeftExists ==
  ASSUME NEW n \in Nat, NEW X, NEW x0 \in X, NEW step \in [(1..n) \X X -> X]
  PROVE  \E h \in [SUBSET (1..n) -> X] : IsFoldLeft(h, n, x0, step)
PROOF
  <1> DEFINE S == 1..n
             pick == [t \in SUBSET S |-> Max(t)]
  <1>1. IsFiniteSet(S) /\ S \in SUBSET Nat
    <2>1. IsFiniteSet(S)
      BY FS_Interval
    <2> QED
      BY <2>1
  <1>2. ASSUME NEW t \in SUBSET S, t # {} PROVE Max(t) \in t
    <2> HIDE DEF S
    <2>1. IsFiniteSet(t)
      BY <1>1, FS_Subset
    <2>2. t \in SUBSET Nat
      BY <1>1
    <2>3. PICK x \in t : \A y \in t : y <= x
      BY <1>2, <2>1, <2>2, LargestExists
    <2>4. \A y \in t : x >= y
      BY <2>2, <2>3
    <2> QED
      BY <2>4 DEF Max
  <1>3. \A t \in SUBSET S : t # {} => pick[t] \in t
    BY <1>2
  <1>4. step \in [S \X X -> X]
    OBVIOUS
  <1>5. PICK h : IsFold(h, S, X, x0, pick, step)
    <2> HIDE DEF pick, S
    <2> QED
      BY <1>1, <1>3, <1>4, FoldExists
  <1>6. h \in [SUBSET S -> X]
    BY <1>5 DEF IsFold
  <1>7. \A t \in SUBSET S : h[t] = IF t = {} THEN x0 ELSE step[<<Max(t), h[t \ {Max(t)}]>>]
    <2> HIDE DEF S
    <2> QED
      BY <1>5 DEF IsFold
  <1>8. IsFoldLeft(h, n, x0, step)
    BY <1>7 DEF IsFoldLeft
  <1> QED
    BY <1>6, <1>8

\* Its values for the numbers up to k, one after the other.
GoesUp(h, n, x0, step) == h[{}] = x0 /\ \A k \in 1..n : h[1..k] = step[<<k, h[1..k - 1]>>]

LEMMA FoldLeftSteps ==
  ASSUME NEW n \in Nat, NEW h, NEW x0, NEW step, IsFoldLeft(h, n, x0, step)
  PROVE  GoesUp(h, n, x0, step)
PROOF
  <1>1. ASSUME NEW k \in 1..n PROVE h[1..k] = step[<<k, h[1..k - 1]>>]
    <2>1. 1..k # {} /\ 1..k \in SUBSET (1..n)
      OBVIOUS
    <2>2. h[1..k] = step[<<Max(1..k), h[(1..k) \ {Max(1..k)}]>>]
      BY <2>1 DEF IsFoldLeft
    <2>3. Max(1..k) = k /\ (1..k) \ {k} = 1..k - 1
      BY LastOfRange
    <2> QED
      BY <2>2, <2>3, Zenon
  <1>2. h[{}] = x0
    BY DEF IsFoldLeft
  <1> QED
    BY <1>1, <1>2 DEF GoesUp

\* A recursion over the numbers from 1 to n.
IsRecursion(f, n, X, x0, step) ==
  f \in [0..n -> X] /\ f[0] = x0 /\ \A k \in 1..n : f[k] = step[<<k, f[k - 1]>>]

LEMMA RecursionExists ==
  ASSUME NEW n \in Nat, NEW X, NEW x0 \in X, NEW step \in [(1..n) \X X -> X]
  PROVE  \E f : IsRecursion(f, n, X, x0, step)
PROOF
  <1>1. PICK h \in [SUBSET (1..n) -> X] : IsFoldLeft(h, n, x0, step)
    BY FoldLeftExists
  <1> DEFINE f == [k \in 0..n |-> h[1..k]]
  <1>2. h[{}] = x0 /\ \A k \in 1..n : h[1..k] = step[<<k, h[1..k - 1]>>]
    <2>1. GoesUp(h, n, x0, step)
      BY <1>1, FoldLeftSteps
    <2> QED
      BY <2>1 DEF GoesUp
  <1>3. \A k \in 0..n : 1..k \in SUBSET (1..n)
    OBVIOUS
  <1>4. f \in [0..n -> X]
    BY <1>1, <1>3
  <1>5. f[0] = x0
    BY <1>2, 1..0 = {}
  <1>6. \A k \in 1..n : f[k] = step[<<k, f[k - 1]>>]
    <2>1. \A k \in 1..n : k \in 0..n /\ k - 1 \in 0..n
      OBVIOUS
    <2>2. \A k \in 0..n : f[k] = h[1..k]
      OBVIOUS
    <2> HIDE DEF f
    <2> QED
      BY <1>2, <2>1, <2>2
  <1> HIDE DEF f
  <1>7. IsRecursion(f, n, X, x0, step)
    BY <1>4, <1>5, <1>6 DEF IsRecursion
  <1> QED
    BY <1>7

-----------------------------------------------------------------------------
(* Sequences of sequences *)

\* One sequence after the other.
Joined(c, s, t) ==
  /\ Len(c) = Len(s) + Len(t)
  /\ \A k \in 1..Len(s) : c[k] = s[k]
  /\ \A k \in 1..Len(t) : c[Len(s) + k] = t[k]

LEMMA Concatenated ==
  ASSUME NEW T, NEW s \in Seq(T), NEW t \in Seq(T)
  PROVE  s \o t \in Seq(T) /\ Joined(s \o t, s, t)
PROOF
  <1>1. s \o t \in Seq(T) /\ Len(s \o t) = Len(s) + Len(t)
    OBVIOUS
  <1>2. ASSUME NEW k \in 1..Len(s) PROVE (s \o t)[k] = s[k]
    OBVIOUS
  <1>3. ASSUME NEW k \in 1..Len(t) PROVE (s \o t)[Len(s) + k] = t[k]
    OBVIOUS
  <1> QED
    BY <1>1, <1>2, <1>3 DEF Joined

\* Where the parts of a flattened sequence end: at are the ends.
Ends(at, q) ==
  /\ at \in [0..Len(q) -> Nat] /\ at[0] = 0
  /\ \A k \in 1..Len(q) : at[k] = at[k - 1] + Len(q[k])

LEMMA EndsExist ==
  ASSUME NEW T, NEW q \in Seq(Seq(T))
  PROVE  \E at : Ends(at, q)
PROOF
  <1> DEFINE n == Len(q)
             add == [p \in (1..n) \X Nat |-> p[2] + Len(q[p[1]])]
  <1>1. n \in Nat /\ q \in [1..n -> Seq(T)] /\ 0 \in Nat
    OBVIOUS
  <1>2. \A k \in 1..n : Len(q[k]) \in Nat
    BY <1>1
  <1> HIDE DEF n
  <1>3. add \in [(1..n) \X Nat -> Nat]
    BY <1>2
  <1>4. \A k \in 1..n, x \in Nat : add[<<k, x>>] = x + Len(q[k])
    OBVIOUS
  <1> HIDE DEF add
  <1>5. PICK at : IsRecursion(at, n, Nat, 0, add)
    BY <1>1, <1>3, RecursionExists
  <1>6. at \in [0..n -> Nat] /\ at[0] = 0 /\ \A k \in 1..n : at[k] = add[<<k, at[k - 1]>>]
    BY <1>5 DEF IsRecursion
  <1>7. ASSUME NEW k \in 1..n PROVE at[k] = at[k - 1] + Len(q[k])
    <2>1. at[k - 1] \in Nat /\ at[k] = add[<<k, at[k - 1]>>]
      BY <1>1, <1>6
    <2> QED
      BY <1>4, <2>1
  <1> QED
    BY <1>6, <1>7 DEF Ends, n

\* A flattened sequence is its parts put together one after the other.
LEMMA FlattenSteps ==
  ASSUME NEW T, NEW q \in Seq(Seq(T)), Len(q) # 0
  PROVE  \E g \in [1..Len(q) -> Seq(T)] :
           /\ FlattenSeq(q) = g[Len(q)] /\ g[1] = q[1]
           /\ \A k \in 1..Len(q) - 1 : g[k + 1] = g[k] \o q[k + 1]
PROOF
  <1> DEFINE n == Len(q)
             step == [p \in (1..n) \X Seq(T) |-> IF p[1] = 1 THEN q[1] ELSE p[2] \o q[p[1]]]
             IsFlat(g) == g = [i \in 1..n |-> IF i = 1 THEN q[i] ELSE g[i - 1] \o q[i]]
             flat == CHOOSE g : IsFlat(g)
  <1>1. n \in Nat \ {0} /\ q \in [1..n -> Seq(T)] /\ <<>> \in Seq(T)
    OBVIOUS
  <1>2. FlattenSeq(q) = flat[n]
    BY <1>1 DEF FlattenSeq
  <1> HIDE DEF n
  <1>3. ASSUME NEW k \in 1..n, NEW x \in Seq(T)
        PROVE  step[<<k, x>>] = IF k = 1 THEN q[1] ELSE x \o q[k]
    OBVIOUS
  <1>4. step \in [(1..n) \X Seq(T) -> Seq(T)]
    <2>1. ASSUME NEW k \in 1..n, NEW x \in Seq(T)
          PROVE (IF k = 1 THEN q[1] ELSE x \o q[k]) \in Seq(T)
      BY <1>1
    <2> QED
      BY <2>1
  <1> HIDE DEF step, IsFlat, flat
  <1>5. PICK f : IsRecursion(f, n, Seq(T), <<>>, step)
    BY <1>1, <1>4, RecursionExists
  <1>6. f \in [0..n -> Seq(T)] /\ \A k \in 1..n : f[k] = step[<<k, f[k - 1]>>]
    BY <1>5 DEF IsRecursion
  <1> DEFINE h == [i \in 1..n |-> f[i]]
  <1>7. ASSUME NEW k \in 1..n PROVE f[k] = IF k = 1 THEN q[k] ELSE h[k - 1] \o q[k]
    <2>1. f[k - 1] \in Seq(T) /\ f[k] = step[<<k, f[k - 1]>>]
      BY <1>1, <1>6
    <2>2. k # 1 => h[k - 1] = f[k - 1]
      BY <1>1
    <2> HIDE DEF h
    <2> QED
      BY <1>3, <2>1, <2>2
  <1>8. IsFlat(h)
    BY <1>7 DEF IsFlat
  <1> HIDE DEF h
  <1>9. IsFlat(flat)
    BY <1>8 DEF flat
  <1>10. \A k \in 1..n : flat[k] = IF k = 1 THEN q[k] ELSE flat[k - 1] \o q[k]
    BY <1>9 DEF IsFlat
  <1>11. flat \in [1..n -> Seq(T)]
    <2> DEFINE P == {k \in 0..n : k # 0 => flat[k] \in Seq(T)}
    <2>1. ASSUME NEW k \in 0..n - 1, k \in P PROVE k + 1 \in P
      <3>1. k + 1 \in 1..n /\ k + 1 \in 0..n /\ q[k + 1] \in Seq(T) /\ (k # 0 => flat[k] \in Seq(T)) /\ k + 1 - 1 = k
        BY <1>1, <2>1
      <3>2. flat[k + 1] = IF k + 1 = 1 THEN q[k + 1] ELSE flat[k] \o q[k + 1]
        BY <1>10, <3>1
      <3>3. k # 0 => flat[k] \o q[k + 1] \in Seq(T)
        BY <3>1, Concatenated
      <3>4. flat[k + 1] \in Seq(T)
        BY <3>1, <3>2, <3>3
      <3> QED
        BY <3>1, <3>4
    <2>2. 0 \in P
      BY <1>1
    <2>3. 0..n \subseteq P
      <3> HIDE DEF P
      <3> QED
        BY <1>1, <2>1, <2>2, UpToInduction
    <2>4. \A k \in 1..n : flat[k] \in Seq(T)
      BY <1>1, <2>3
    <2>5. flat = [k \in 1..n |-> IF k = 1 THEN q[k] ELSE flat[k - 1] \o q[k]]
      BY <1>9 DEF IsFlat
    <2> QED
      BY <2>4, <2>5
  <1>12. flat[1] = q[1] /\ \A k \in 1..n - 1 : flat[k + 1] = flat[k] \o q[k + 1]
    <2>1. flat[1] = q[1]
      BY <1>1, <1>10
    <2>2. \A k \in 1..n : k # 1 => flat[k] = flat[k - 1] \o q[k]
      BY <1>10
    <2>3. ASSUME NEW k \in 1..n - 1 PROVE flat[k + 1] = flat[k] \o q[k + 1]
      <3> DEFINE next(j) == flat[j - 1] \o q[j]
      <3>1. k \in Nat /\ k + 1 \in 1..n /\ k + 1 # 1 /\ (k + 1) - 1 = k
        BY <1>1
      <3>2. \A j \in 1..n : j # 1 => flat[j] = next(j)
        BY <2>2
      <3>3. next(k + 1) = flat[k] \o q[k + 1]
        <4>1. flat[(k + 1) - 1] = flat[k]
          BY <3>1
        <4>2. next(k + 1) = flat[(k + 1) - 1] \o q[k + 1]
          BY Zenon
        <4> HIDE DEF next
        <4> QED
          BY <4>1, <4>2, Zenon
      <3> HIDE DEF next
      <3>4. flat[k + 1] = next(k + 1)
        BY <3>1, <3>2
      <3> QED
        BY <3>3, <3>4, Zenon
    <2> QED
      BY <2>1, <2>3
  <1> QED
    BY <1>2, <1>11, <1>12 DEF n

\* What lies in a range lies in a longer one.
LEMMA InLongerRange ==
  ASSUME NEW m \in Nat, NEW n \in Nat, m <= n, NEW x \in 1..m
  PROVE  x \in 1..n
PROOF
  OBVIOUS

\* Each part of a flattened sequence stands between the end of the one before it
\* and its own.
PartsStand(s, at, q) ==
  /\ Ends(at, q) /\ Len(s) = at[Len(q)]
  /\ \A k \in 1..Len(q) : \A j \in 1..Len(q[k]) :
       at[k - 1] + j \in 1..Len(s) /\ s[at[k - 1] + j] = q[k][j]

LEMMA FlattenedParts ==
  ASSUME NEW T, NEW q \in Seq(Seq(T))
  PROVE  FlattenSeq(q) \in Seq(T) /\ \E at : PartsStand(FlattenSeq(q), at, q)
PROOF
  <1>1. PICK at : Ends(at, q)
    BY EndsExist
  <1> DEFINE n == Len(q)
  <1>2. n \in Nat /\ \A k \in 1..n : q[k] \in Seq(T) /\ Len(q[k]) \in Nat
    OBVIOUS
  <1>3. at \in [0..n -> Nat] /\ at[0] = 0 /\ \A k \in 1..n : at[k] = at[k - 1] + Len(q[k])
    BY <1>1 DEF Ends
  <1>4. CASE n = 0
    <2>1. FlattenSeq(q) = q /\ q = <<>>
      BY <1>4 DEF FlattenSeq
    <2>2. PartsStand(q, at, q)
      BY <1>1, <1>3, <1>4, <2>1 DEF PartsStand
    <2> QED
      BY <2>1, <2>2
  <1>5. CASE n # 0
    <2>1. PICK g \in [1..n -> Seq(T)] :
            /\ FlattenSeq(q) = g[n] /\ g[1] = q[1]
            /\ \A k \in 1..n - 1 : g[k + 1] = g[k] \o q[k + 1]
      BY <1>5, FlattenSteps
    <2> HIDE DEF n
    <2> DEFINE Stands(k) == /\ Len(g[k]) = at[k]
                            /\ \A j \in 1..k : \A i \in 1..Len(q[j]) :
                                 at[j - 1] + i \in 1..at[k] /\ g[k][at[j - 1] + i] = q[j][i]
               P == {k \in 0..n : k # 0 => Stands(k)}
    <2>2. ASSUME NEW k \in 0..n - 1, k \in P PROVE k + 1 \in P
      <3>1. /\ q[k + 1] \in Seq(T) /\ Len(q[k + 1]) \in Nat /\ at[k + 1] = at[k] + Len(q[k + 1])
            /\ at[k] \in Nat /\ at[k + 1] \in Nat /\ k + 1 \in 0..n
        BY <1>2, <1>3
      <3>2. CASE k = 0
        <4>1. g[1] = q[1] /\ at[0] = 0 /\ at[1] = Len(q[1])
          BY <1>3, <2>1, <3>1, <3>2
        <4>2. Stands(1)
          BY <3>1, <3>2, <4>1
        <4> HIDE DEF Stands
        <4> QED
          BY <3>1, <3>2, <4>2
      <3>3. CASE k # 0
        <4>1. Stands(k)
          BY <2>2, <3>3
        <4>2. g[k + 1] = g[k] \o q[k + 1] /\ g[k] \in Seq(T)
          <5>1. k \in 1..n - 1 /\ k \in 1..n
            BY <1>2, <3>3
          <5> HIDE DEF Stands
          <5>3. g[k] \in Seq(T)
            BY <2>1, <5>1
          <5> QED
            BY <2>1, <5>1, <5>3
        <4>6. /\ Len(g[k + 1]) = Len(g[k]) + Len(q[k + 1])
              /\ \A i \in 1..Len(g[k]) : g[k + 1][i] = g[k][i]
              /\ \A i \in 1..Len(q[k + 1]) : g[k + 1][Len(g[k]) + i] = q[k + 1][i]
          <5> HIDE DEF Stands
          <5> HIDE DEF Stands
          <5>0. g[k] \in Seq(T) /\ q[k + 1] \in Seq(T)
            BY <3>1, <4>2
          <5>1. Joined(g[k] \o q[k + 1], g[k], q[k + 1])
            BY <5>0, Concatenated
          <5>2. Joined(g[k + 1], g[k], q[k + 1])
            BY <4>2, <5>1
          <5> QED
            BY <5>2 DEF Joined
        <4>3. Len(g[k + 1]) = at[k + 1]
          BY <3>1, <4>1, <4>6
        <4>4. ASSUME NEW j \in 1..k + 1, NEW i \in 1..Len(q[j])
              PROVE  at[j - 1] + i \in 1..at[k + 1] /\ g[k + 1][at[j - 1] + i] = q[j][i]
          <5>1. CASE j = k + 1
            <6>1. j - 1 = k /\ i \in 1..Len(q[k + 1]) /\ Len(g[k]) = at[k]
              BY <4>1, <5>1
            <6> HIDE DEF Stands
            <6>2. g[k + 1][at[k] + i] = q[k + 1][i]
              BY <4>6, <6>1
            <6>3. at[k] + i \in 1..at[k + 1]
              <7> DEFINE x == at[k]
                         y == at[k + 1]
                         z == Len(q[k + 1])
              <7>1. x \in Nat /\ z \in Nat /\ y = x + z /\ i \in 1..z
                BY <3>1, <6>1
              <7> HIDE DEF x, y, z
              <7>2. x + i \in 1..y
                BY <7>1
              <7> QED
                BY <7>2 DEF x, y
            <6> QED
              BY <5>1, <6>1, <6>2, <6>3
          <5>2. CASE j # k + 1
            <6>0. j \in 1..k
              BY <1>2, <5>2
            <6>1. at[j - 1] + i \in 1..at[k] /\ g[k][at[j - 1] + i] = q[j][i] /\ Len(g[k]) = at[k]
              BY <4>1, <6>0
            <6> HIDE DEF Stands
            <6>2. g[k + 1][at[j - 1] + i] = g[k][at[j - 1] + i]
              BY <4>6, <6>1
            <6>3. at[j - 1] + i \in 1..at[k + 1]
              <7> DEFINE w == at[j - 1] + i
                         x == at[k]
                         y == at[k + 1]
              <7>1. x <= y /\ x \in Nat /\ y \in Nat
                BY <3>1
              <7>2. w \in 1..x
                BY <6>1
              <7> HIDE DEF w, x, y
              <7>3. w \in 1..y
                BY <7>1, <7>2, InLongerRange
              <7> QED
                BY <7>3 DEF w, y
            <6> QED
              BY <6>1, <6>2, <6>3
          <5> QED
            BY <5>1, <5>2
        <4>5. Stands(k + 1)
          BY <4>3, <4>4
        <4> HIDE DEF Stands
        <4> QED
          BY <3>1, <4>5
      <3> QED
        BY <3>2, <3>3
    <2>3. 0..n \subseteq P
      <3>1. 0 \in P
        BY <1>2
      <3> HIDE DEF P
      <3> QED
        BY <1>2, <2>2, <3>1, UpToInduction
    <2>4. Stands(n)
      <3> HIDE DEF Stands
      <3> QED
        BY <1>2, <1>5, <2>3
    <2>5. PartsStand(FlattenSeq(q), at, q)
      BY <1>1, <2>1, <2>4 DEF PartsStand, n
    <2>6. FlattenSeq(q) \in Seq(T)
      BY <1>2, <1>5, <2>1
    <2> QED
      BY <2>5, <2>6
  <1> QED
    BY <1>4, <1>5

-----------------------------------------------------------------------------
(* Sets that are listed *)

\* The image of a set under a function that tells its elements apart is as large.
LEMMA ImageSize ==
  ASSUME NEW S, IsFiniteSet(S), NEW f, DOMAIN f = S, \A x, y \in S : f[x] = f[y] => x = y
  PROVE  IsFiniteSet({f[x] : x \in S}) /\ Cardinality({f[x] : x \in S}) = Cardinality(S)
PROOF
  <1> DEFINE T == {f[x] : x \in S}
             g == [x \in S |-> f[x]]
  <1>1. g \in Surjection(S, T) /\ g \in Injection(S, T)
    BY DEF Surjection, Injection, IsInjective
  <1> HIDE DEF g, T
  <1>2. IsFiniteSet(T) /\ Cardinality(T) = Cardinality(S)
    BY <1>1, FS_Surjection
  <1> QED
    BY <1>2 DEF T

\* The image of a finite set is finite.
LEMMA ImageFinite ==
  ASSUME NEW S, IsFiniteSet(S), NEW f, DOMAIN f = S
  PROVE  IsFiniteSet({f[x] : x \in S})
PROOF
  <1> DEFINE T == {f[x] : x \in S}
             g == [x \in S |-> f[x]]
  <1>1. g \in Surjection(S, T)
    BY DEF Surjection
  <1> HIDE DEF g, T
  <1>2. IsFiniteSet(T)
    BY <1>1, FS_Surjection
  <1> QED
    BY <1>2 DEF T

\* A finite set as a sequence: each element stands in it, once.
LEMMA ListedOnce ==
  ASSUME NEW S, IsFiniteSet(S), NEW s \in SetToSeqs(S)
  PROVE  /\ s \in Seq(S) /\ Len(s) \in Nat /\ Len(s) = Cardinality(S)
         /\ \A x \in S : \E k \in 1..Len(s) : s[k] = x
         /\ \A j, k \in 1..Len(s) : s[j] = s[k] => j = k
PROOF
  <1> DEFINE n == Cardinality(S)
  <1>1. n \in Nat
    BY FS_CardinalityType
  <1>2. s \in [1..n -> S] /\ \A j, k \in 1..n : s[j] = s[k] => j = k
    BY DEF SetToSeqs
  <1> HIDE DEF n
  <1>3. s \in Injection(1..n, S)
    BY <1>2 DEF Injection, IsInjective
  <1>4. IsFiniteSet(1..n) /\ Cardinality(1..n) = n
    BY <1>1, FS_Interval
  <1>5. s \in Surjection(1..n, S)
    BY <1>3, <1>4, FS_Injection DEF n
  <1>6. \A x \in S : \E k \in 1..n : s[k] = x
    BY <1>5 DEF Surjection
  <1>7. s \in Seq(S) /\ Len(s) = n
    BY <1>1, <1>2
  <1> QED
    BY <1>1, <1>2, <1>6, <1>7 DEF n

\* A list that follows an order, and an order that tells x from the others.
Follows(s, le) == \A j, k \in DOMAIN s : j < k => <<s[j], s[k]>> \in le

Tells(le, x, S) == \A y \in S : <<x, y>> \in le /\ <<y, x>> \in le => y = x

AmongFirst(s, k) == {s[i] : i \in 1..k}

UpTo(le, x, S) == {y \in S : y = x \/ <<y, x>> \in le}

\* In a list that follows an order an element comes after those that the order puts
\* before it, when the order tells it from the others.
LEMMA PlaceInOrder ==
  ASSUME NEW S, IsFiniteSet(S), NEW s \in SetToSeqs(S), NEW le, Follows(s, le),
         NEW k \in 1..Len(s), Tells(le, s[k], S)
  PROVE  AmongFirst(s, k) = UpTo(le, s[k], S) /\ Cardinality(AmongFirst(s, k)) = k
PROOF
  <1> DEFINE n == Len(s)
             T == {s[i] : i \in 1..k}
             U == {y \in S : y = s[k] \/ <<y, s[k]>> \in le}
  <1>1. /\ s \in Seq(S) /\ n \in Nat
        /\ \A x \in S : \E i \in 1..n : s[i] = x
        /\ \A i, j \in 1..n : s[i] = s[j] => i = j
    BY ListedOnce
  <1>2. DOMAIN s = 1..n /\ \A i \in 1..n : s[i] \in S
    BY <1>1
  <1> HIDE DEF n
  <1>3. k \in 1..n /\ k \in Nat
    BY <1>1 DEF n
  <1>4. ASSUME NEW i \in 1..k PROVE s[i] \in U
    <2>1. i \in 1..n /\ (i = k \/ i < k)
      BY <1>1, <1>3
    <2> QED
      BY <1>2, <1>3, <2>1 DEF Follows
  <1>5. ASSUME NEW y \in U PROVE y \in T
    <2>1. PICK i \in 1..n : s[i] = y
      BY <1>1
    <2>2. i > k => <<s[k], s[i]>> \in le /\ s[i] # s[k]
      BY <1>1, <1>2, <1>3, <2>1 DEF Follows
    <2>3. i <= k
      BY <1>2, <1>3, <2>1, <2>2 DEF Tells
    <2>4. i \in 1..k
      BY <1>1, <1>3, <2>1, <2>3
    <2> QED
      BY <2>1, <2>4
  <1>6. T = U
    BY <1>4, <1>5
  <1> DEFINE g == [i \in 1..k |-> s[i]]
  <1>7. IsFiniteSet(1..k) /\ Cardinality(1..k) = k
    BY <1>3, FS_Interval
  <1>8. \A i, j \in 1..k : g[i] = g[j] => i = j
    BY <1>1, <1>3
  <1>9. Cardinality({g[i] : i \in 1..k}) = k
    <2> HIDE DEF g
    <2> QED
      BY <1>7, <1>8, ImageSize DEF g
  <1>10. {g[i] : i \in 1..k} = T
    OBVIOUS
  <1> QED
    BY <1>6, <1>9, <1>10 DEF AmongFirst, UpTo

\* The largest number of a set of those from 1 to n is one of them.
LEMMA MaxInRange ==
  ASSUME NEW n \in Nat, NEW t \in SUBSET (1..n), t # {}
  PROVE  Max(t) \in t /\ Max(t) \in 1..n
PROOF
  <1>1. IsFiniteSet(1..n) /\ 1..n \in SUBSET Nat
    BY FS_Interval
  <1>2. IsFiniteSet(t) /\ t \in SUBSET Nat
    BY <1>1, FS_Subset
  <1>3. PICK x \in t : \A y \in t : y <= x
    BY <1>2, LargestExists
  <1>4. \A y \in t : x >= y
    BY <1>2, <1>3
  <1> QED
    BY <1>4 DEF Max

\* A function that is the fold where its values are in X has them there.
IsFoldIn(h, n, X, x0, step) ==
  /\ h[{}] = x0
  /\ \A t \in SUBSET (1..n) : t # {} /\ h[t \ {Max(t)}] \in X => h[t] = step[<<Max(t), h[t \ {Max(t)}]>>]

LEMMA FoldLeftValues ==
  ASSUME NEW n \in Nat, NEW X, NEW x0 \in X, NEW step \in [(1..n) \X X -> X],
         NEW h, IsFoldIn(h, n, X, x0, step)
  PROVE  /\ h[{}] = x0 /\ \A k \in 0..n : h[1..k] \in X
         /\ \A k \in 1..n : h[1..k] = step[<<k, h[1..k - 1]>>]
PROOF
  <1>1. ASSUME NEW k \in 1..n, h[1..k - 1] \in X PROVE h[1..k] = step[<<k, h[1..k - 1]>>]
    <2>1. k \in Nat /\ k # 0 /\ 1..k # {} /\ 1..k \in SUBSET (1..n)
      OBVIOUS
    <2>2. Max(1..k) = k /\ (1..k) \ {k} = 1..k - 1
      BY <2>1, LastOfRange
    <2>3. h[(1..k) \ {Max(1..k)}] = h[1..k - 1]
      BY <2>2, Zenon
    <2>4. h[1..k] = step[<<Max(1..k), h[(1..k) \ {Max(1..k)}]>>]
      BY <1>1, <2>1, <2>3 DEF IsFoldIn
    <2> QED
      BY <2>2, <2>4, Zenon
  <1> DEFINE P == {k \in 0..n : h[1..k] \in X}
  <1>2. 0 \in P
    <2>1. 1..0 = {} /\ h[{}] \in X /\ 0 \in 0..n
      BY DEF IsFoldIn
    <2>2. h[1..0] \in X
      BY <2>1, Zenon
    <2> QED
      BY <2>1, <2>2
  <1>3. ASSUME NEW k \in 0..n - 1, k \in P PROVE k + 1 \in P
    <2>1. k + 1 \in 1..n /\ k + 1 \in 0..n /\ (k + 1) - 1 = k
      OBVIOUS
    <2>2. h[1..k + 1] = step[<<k + 1, h[1..k]>>]
      BY <1>1, <1>3, <2>1
    <2> QED
      BY <1>3, <2>1, <2>2
  <1>4. 0..n \subseteq P
    <2> HIDE DEF P
    <2> QED
      BY <1>2, <1>3, UpToInduction
  <1>5. \A k \in 1..n : k - 1 \in 0..n
    OBVIOUS
  <1> QED
    BY <1>1, <1>4, <1>5 DEF IsFoldIn

\* The same, in one word.
FoldRuns(h, n, X, x0, step) ==
  /\ h[{}] = x0 /\ \A k \in 0..n : h[1..k] \in X
  /\ \A k \in 1..n : h[1..k] = step[<<k, h[1..k - 1]>>]

LEMMA FoldLeftRuns ==
  ASSUME NEW n \in Nat, NEW X, NEW x0 \in X, NEW step \in [(1..n) \X X -> X],
         NEW h, IsFoldIn(h, n, X, x0, step)
  PROVE  FoldRuns(h, n, X, x0, step)
PROOF
  <1>1. h[{}] = x0 /\ \A k \in 0..n : h[1..k] \in X
    BY FoldLeftValues
  <1>2. ASSUME NEW k \in 1..n PROVE h[1..k] = step[<<k, h[1..k - 1]>>]
    <2>1. 1..k # {} /\ 1..k \in SUBSET (1..n) /\ k \in Nat /\ k # 0 /\ k - 1 \in 0..n
      OBVIOUS
    <2>2. Max(1..k) = k /\ (1..k) \ {k} = 1..k - 1
      BY <2>1, LastOfRange
    <2>3. h[1..k - 1] \in X
      BY <1>1, <2>1
    <2>4. h[(1..k) \ {Max(1..k)}] = h[1..k - 1]
      BY <2>2, Zenon
    <2>5. h[1..k] = step[<<Max(1..k), h[(1..k) \ {Max(1..k)}]>>]
      BY <2>1, <2>3, <2>4 DEF IsFoldIn
    <2> QED
      BY <2>2, <2>5, Zenon
  <1> QED
    BY <1>1, <1>2 DEF FoldRuns

-----------------------------------------------------------------------------
(* Trees *)

\* Trees that are no deeper than n: what is below a tree of a level is of the level
\* before it, and nothing is below those of level 0.
IsForest(P, kids, level, n) ==
  /\ kids \in [P -> Seq(P)] /\ P \subseteq level[n]
  /\ \A p \in P : p \in level[0] => Len(kids[p]) = 0
  /\ \A d \in 1..n : \A p \in P : p \in level[d] => \A k \in 1..Len(kids[p]) : kids[p][k] \in level[d - 1]

\* What holds of a tree when it holds of those right below it, holds of all of them.
LEMMA ForestInduction ==
  ASSUME NEW P, NEW kids, NEW level, NEW n \in Nat, IsForest(P, kids, level, n), NEW Q,
         \A p \in P : (\A k \in 1..Len(kids[p]) : kids[p][k] \in Q) => p \in Q
  PROVE  P \subseteq Q
PROOF
  <1> DEFINE D == {d \in 0..n : \A p \in P : p \in level[d] => p \in Q}
  <1>1. \A p \in P : Len(kids[p]) \in Nat /\ \A k \in 1..Len(kids[p]) : kids[p][k] \in P
    BY DEF IsForest
  <1>2. 0 \in D
    <2>1. ASSUME NEW p \in P, p \in level[0] PROVE p \in Q
      <3>1. Len(kids[p]) = 0
        BY <2>1 DEF IsForest
      <3>2. \A k \in 1..Len(kids[p]) : kids[p][k] \in Q
        BY <3>1
      <3> QED
        BY <3>2
    <2> QED
      BY <2>1
  <1>3. ASSUME NEW d \in 0..n - 1, d \in D PROVE d + 1 \in D
    <2>1. d + 1 \in 0..n /\ d + 1 \in 1..n /\ (d + 1) - 1 = d
      OBVIOUS
    <2>2. ASSUME NEW p \in P, p \in level[d + 1] PROVE p \in Q
      <3>1. \A k \in 1..Len(kids[p]) : kids[p][k] \in level[d]
        BY <2>1, <2>2 DEF IsForest
      <3>2. \A k \in 1..Len(kids[p]) : kids[p][k] \in Q
        BY <1>1, <1>3, <3>1
      <3> QED
        BY <3>2
    <2> QED
      BY <2>1, <2>2
  <1>4. 0..n \subseteq D
    <2> HIDE DEF D
    <2> QED
      BY <1>2, <1>3, UpToInduction
  <1>5. n \in D
    BY <1>4
  <1> QED
    BY <1>5 DEF IsForest

\* What a function has for the trees right below one.
Below(f, below) == [k \in 1..Len(below) |-> f[below[k]]]

IsForestFunction(f, P, kids, step) == \A p \in P : f[p] = step[<<p, Below(f, kids[p])>>]

\* A function of trees is defined by what it makes of its values right below a tree.
LEMMA ForestRecursionExists ==
  ASSUME NEW P, NEW kids, NEW level, NEW n \in Nat, IsForest(P, kids, level, n),
         NEW X, NEW e \in X, NEW step \in [P \X Seq(X) -> X]
  PROVE  \E f \in [P -> X] : IsForestFunction(f, P, kids, step)
PROOF
  <1> DEFINE Y == [P -> X]
             y0 == [p \in P |-> e]
             next == [a \in (1..n + 2) \X Y |-> [p \in P |-> step[<<p, Below(a[2], kids[p])>>]]]
  <1>1. \A p \in P : Len(kids[p]) \in Nat /\ \A k \in 1..Len(kids[p]) : kids[p][k] \in P
    BY DEF IsForest
  <1>2. ASSUME NEW f \in Y, NEW p \in P PROVE Below(f, kids[p]) \in Seq(X)
    <2>1. \A k \in 1..Len(kids[p]) : f[kids[p][k]] \in X
      BY <1>1
    <2> QED
      BY <1>1, <2>1 DEF Below
  <1>3. y0 \in Y /\ n + 2 \in Nat
    OBVIOUS
  <1>4. next \in [(1..n + 2) \X Y -> Y]
    <2>1. ASSUME NEW a \in (1..n + 2) \X Y PROVE [p \in P |-> step[<<p, Below(a[2], kids[p])>>]] \in Y
      <3>1. a[2] \in Y
        OBVIOUS
      <3> HIDE DEF Y
      <3>2. \A p \in P : step[<<p, Below(a[2], kids[p])>>] \in X
        BY <1>2, <3>1
      <3> QED
        BY <3>2 DEF Y
    <2> HIDE DEF Y
    <2> QED
      BY <2>1
  <1>5. \A k \in 1..n + 2, f \in Y : \A p \in P : next[<<k, f>>][p] = step[<<p, Below(f, kids[p])>>]
    OBVIOUS
  <1> HIDE DEF Y, y0, next
  <1>6. PICK g : IsRecursion(g, n + 2, Y, y0, next)
    BY <1>3, <1>4, RecursionExists
  <1>7. /\ g \in [0..n + 2 -> Y]
        /\ \A k \in 1..n + 2 : \A p \in P : g[k][p] = step[<<p, Below(g[k - 1], kids[p])>>]
    <2>1. g \in [0..n + 2 -> Y] /\ \A k \in 1..n + 2 : g[k] = next[<<k, g[k - 1]>>]
      BY <1>6 DEF IsRecursion
    <2>2. \A k \in 1..n + 2 : g[k - 1] \in Y
      BY <2>1
    <2>3. ASSUME NEW k \in 1..n + 2, NEW p \in P PROVE g[k][p] = step[<<p, Below(g[k - 1], kids[p])>>]
      <3>1. g[k] = next[<<k, g[k - 1]>>] /\ g[k - 1] \in Y
        BY <2>1, <2>2
      <3> QED
        BY <1>5, <3>1
    <2> QED
      BY <2>1, <2>3
  <1> DEFINE Same(d) == \A p \in P : p \in level[d] => \A k \in d + 1..n + 1 : g[k + 1][p] = g[k][p]
             D == {d \in 0..n : Same(d)}
  <1>8. ASSUME NEW k \in 1..n + 1, NEW p \in P, Below(g[k], kids[p]) = Below(g[k - 1], kids[p])
        PROVE  g[k + 1][p] = g[k][p]
    <2>1. k + 1 \in 1..n + 2 /\ (k + 1) - 1 = k /\ k \in 1..n + 2
      OBVIOUS
    <2>2. g[k + 1][p] = step[<<p, Below(g[k], kids[p])>>]
      BY <1>7, <2>1
    <2>3. g[k][p] = step[<<p, Below(g[k - 1], kids[p])>>]
      BY <1>7, <2>1
    <2> QED
      BY <1>8, <2>2, <2>3, Zenon
  <1>9. 0 \in D
    <2>1. ASSUME NEW p \in P, p \in level[0], NEW k \in 0 + 1..n + 1 PROVE g[k + 1][p] = g[k][p]
      <3>1. Len(kids[p]) = 0 /\ k \in 1..n + 1
        BY <2>1 DEF IsForest
      <3>2. Below(g[k], kids[p]) = Below(g[k - 1], kids[p])
        BY <3>1 DEF Below
      <3> QED
        BY <1>8, <3>1, <3>2
    <2>2. Same(0)
      BY <2>1
    <2> HIDE DEF Same
    <2> QED
      BY <2>2
  <1>10. ASSUME NEW d \in 0..n - 1, d \in D PROVE d + 1 \in D
    <2>1. d + 1 \in 0..n /\ d + 1 \in 1..n /\ (d + 1) - 1 = d
      OBVIOUS
    <2>2. ASSUME NEW p \in P, p \in level[d + 1], NEW k \in (d + 1) + 1..n + 1
          PROVE  g[k + 1][p] = g[k][p]
      <3>1. k \in 1..n + 1 /\ k - 1 \in d + 1..n + 1 /\ (k - 1) + 1 = k
        OBVIOUS
      <3>2. \A i \in 1..Len(kids[p]) : kids[p][i] \in level[d] /\ kids[p][i] \in P
        BY <1>1, <2>1, <2>2 DEF IsForest
      <3>3. \A i \in 1..Len(kids[p]) : g[k][kids[p][i]] = g[k - 1][kids[p][i]]
        BY <1>10, <3>1, <3>2
      <3>4. Below(g[k], kids[p]) = Below(g[k - 1], kids[p])
        BY <3>3 DEF Below
      <3> QED
        BY <1>8, <3>1, <3>4
    <2> QED
      BY <2>1, <2>2
  <1>11. 0..n \subseteq D
    <2> HIDE DEF D
    <2> QED
      BY <1>9, <1>10, UpToInduction
  <1>12. \A p \in P : g[n + 2][p] = g[n + 1][p]
    <2>1. n \in D /\ n + 1 \in n + 1..n + 1 /\ (n + 1) + 1 = n + 2
      BY <1>11
    <2> QED
      BY <2>1 DEF IsForest
  <1> DEFINE f == g[n + 2]
  <1>13. f \in [P -> X]
    BY <1>7 DEF Y
  <1>14. ASSUME NEW p \in P PROVE f[p] = step[<<p, Below(f, kids[p])>>]
    <2>1. n + 2 \in 1..n + 2 /\ (n + 2) - 1 = n + 1
      OBVIOUS
    <2>2. f[p] = step[<<p, Below(g[n + 1], kids[p])>>]
      BY <1>7, <2>1
    <2>3. Below(g[n + 1], kids[p]) = Below(f, kids[p])
      BY <1>1, <1>12 DEF Below
    <2> QED
      BY <2>2, <2>3, Zenon
  <1> HIDE DEF f
  <1>15. IsForestFunction(f, P, kids, step)
    BY <1>14 DEF IsForestFunction
  <1> QED
    BY <1>13, <1>15

-----------------------------------------------------------------------------
(* Sequences flattened in pieces *)

\* F joins the parts of q one by one, from none on.
RunsThrough(F, q, T) ==
  /\ F \in [0..Len(q) -> Seq(T)] /\ F[0] = <<>>
  /\ \A k \in 1..Len(q) : F[k] = F[k - 1] \o q[k]

\* What joins the parts of a sequence one by one is the flattened sequence.
LEMMA FlattenIs ==
  ASSUME NEW T, NEW q \in Seq(Seq(T)), NEW F, RunsThrough(F, q, T)
  PROVE  FlattenSeq(q) = F[Len(q)]
PROOF
  <1> DEFINE n == Len(q)
  <1>1. n \in Nat /\ \A k \in 1..n : q[k] \in Seq(T)
    OBVIOUS
  <1>2. CASE n = 0
    <2>1. q = <<>>
      BY <1>2
    <2>2. FlattenSeq(q) = q
      BY <1>2 DEF FlattenSeq
    <2>3. F[0] = <<>>
      BY DEF RunsThrough
    <2> QED
      BY <1>2, <2>1, <2>2, <2>3
  <1>3. CASE n # 0
    <2>1. PICK g \in [1..n -> Seq(T)] :
            /\ FlattenSeq(q) = g[n] /\ g[1] = q[1]
            /\ \A k \in 1..n - 1 : g[k + 1] = g[k] \o q[k + 1]
      BY <1>3, FlattenSteps
    <2> HIDE DEF n
    <2> DEFINE P == {k \in 0..n : k = 0 \/ g[k] = F[k]}
    <2>2. 0 \in P
      BY <1>1
    <2>f. F[0] = <<>> /\ \A k \in 1..n : F[k] = F[k - 1] \o q[k]
      BY DEF n, RunsThrough
    <2>3. ASSUME NEW k \in 0..n - 1, k \in P PROVE k + 1 \in P
      <3>1. k + 1 \in 1..n /\ (k + 1) - 1 = k
        BY <1>1
      <3>2. F[k + 1] = F[k] \o q[k + 1]
        BY <2>f, <3>1
      <3>3. CASE k = 0
        <4>0. 1 \in 1..n /\ k + 1 = 1
          BY <3>1, <3>3
        <4>1. F[1] = <<>> \o q[1] /\ q[1] \in Seq(T)
          BY <1>1, <2>f, <3>2, <3>3, <4>0
        <4>2. F[1] = q[1]
          BY <4>1, ConcatEmptySeq
        <4> QED
          BY <2>1, <3>1, <4>0, <4>2
      <3>4. CASE k # 0
        <4>1. k \in 1..n - 1 /\ g[k] = F[k]
          BY <1>1, <2>3, <3>4
        <4>2. g[k + 1] = g[k] \o q[k + 1]
          BY <2>1, <4>1
        <4>3. g[k + 1] = F[k + 1]
          BY <3>2, <4>1, <4>2
        <4> QED
          BY <3>1, <4>3
      <3> QED
        BY <3>3, <3>4
    <2>4. 0..n \subseteq P
      <3> HIDE DEF P
      <3> QED
        BY <1>1, <2>2, <2>3, UpToInduction
    <2>5. n \in 0..n
      BY <1>1
    <2>6. g[n] = F[n]
      BY <1>3, <2>4, <2>5 DEF n
    <2> QED
      BY <2>1, <2>6 DEF n
  <1> QED
    BY <1>2, <1>3

\* The parts of a sequence can be joined one by one, from none on.
LEMMA FlattenRuns ==
  ASSUME NEW T, NEW q \in Seq(Seq(T))
  PROVE  \E F \in [0..Len(q) -> Seq(T)] :
           /\ F[0] = <<>> /\ FlattenSeq(q) = F[Len(q)]
           /\ \A k \in 1..Len(q) : F[k] = F[k - 1] \o q[k]
PROOF
  <1> DEFINE n == Len(q)
             step == [p \in (1..n) \X Seq(T) |-> p[2] \o q[p[1]]]
  <1>1. n \in Nat /\ <<>> \in Seq(T) /\ \A k \in 1..n : q[k] \in Seq(T)
    OBVIOUS
  <1>2. step \in [(1..n) \X Seq(T) -> Seq(T)]
    <2>1. ASSUME NEW k \in 1..n, NEW x \in Seq(T) PROVE x \o q[k] \in Seq(T)
      BY <1>1, ConcatProperties
    <2> HIDE DEF n
    <2> QED
      BY <2>1
  <1>3. PICK F : IsRecursion(F, n, Seq(T), <<>>, step)
    <2> HIDE DEF n, step
    <2> QED
      BY <1>1, <1>2, RecursionExists
  <1>4. F \in [0..n -> Seq(T)] /\ F[0] = <<>> /\ \A k \in 1..n : F[k] = step[<<k, F[k - 1]>>]
    BY <1>3 DEF IsRecursion
  <1>5. ASSUME NEW k \in 1..n PROVE F[k] = F[k - 1] \o q[k]
    <2>1. k - 1 \in 0..n
      BY <1>1
    <2>2. F[k - 1] \in Seq(T)
      BY <1>4, <2>1
    <2> HIDE DEF n
    <2> QED
      BY <1>4, <2>2
  <1>6. RunsThrough(F, q, T)
    BY <1>4, <1>5 DEF RunsThrough
  <1>7. FlattenSeq(q) = F[n]
    BY <1>6, FlattenIs
  <1> QED
    BY <1>4, <1>5, <1>7

\* Joining is associative.
JoinsInAnyOrder(T) == \A a, x, y \in Seq(T) : (a \o x) \o y = a \o (x \o y)

LEMMA Associative ==
  ASSUME NEW T
  PROVE  JoinsInAnyOrder(T)
PROOF
  <1>1. ASSUME NEW a \in Seq(T), NEW x \in Seq(T), NEW y \in Seq(T)
        PROVE  (a \o x) \o y = a \o (x \o y)
    <2> DEFINE p == a \o x
               q == x \o y
               l == p \o y
               r == a \o q
    <2>1. p \in Seq(T) /\ Joined(p, a, x) /\ q \in Seq(T) /\ Joined(q, x, y)
      BY Concatenated
    <2> HIDE DEF p, q
    <2>2. l \in Seq(T) /\ Joined(l, p, y) /\ r \in Seq(T) /\ Joined(r, a, q)
      BY <2>1, Concatenated
    <2> HIDE DEF l, r
    <2>3. Len(a) \in Nat /\ Len(x) \in Nat /\ Len(y) \in Nat
      OBVIOUS
    <2>4. /\ Len(p) = Len(a) + Len(x) /\ Len(q) = Len(x) + Len(y)
          /\ Len(l) = Len(p) + Len(y) /\ Len(r) = Len(a) + Len(q)
      BY <2>1, <2>2 DEF Joined
    <2>5. Len(l) = Len(r) /\ Len(l) \in Nat
      BY <2>3, <2>4
    <2>6. ASSUME NEW k \in 1..Len(l) PROVE l[k] = r[k]
      <3>1. CASE k <= Len(a)
        <4>1. k \in 1..Len(a) /\ k \in 1..Len(p)
          BY <2>3, <2>4, <3>1
        <4> QED
          BY <2>1, <2>2, <4>1 DEF Joined
      <3>2. CASE ~ (k <= Len(a)) /\ k <= Len(p)
        <4> DEFINE i == k - Len(a)
        <4>1. k \in 1..Len(p) /\ i \in 1..Len(x) /\ i \in 1..Len(q) /\ Len(a) + i = k
          BY <2>3, <2>4, <3>2
        <4> HIDE DEF i
        <4>2. l[k] = p[Len(a) + i] /\ p[Len(a) + i] = x[i]
          BY <2>1, <2>2, <4>1 DEF Joined
        <4>3. r[Len(a) + i] = q[i] /\ q[i] = x[i]
          BY <2>1, <2>2, <4>1 DEF Joined
        <4> QED
          BY <4>1, <4>2, <4>3
      <3>3. CASE ~ (k <= Len(p))
        <4> DEFINE i == k - Len(p)
                   j == Len(x) + i
        <4>1. i \in 1..Len(y) /\ j \in 1..Len(q) /\ Len(p) + i = k /\ Len(a) + j = k
          BY <2>3, <2>4, <2>5, <3>3
        <4>2. q[j] = y[i]
          BY <2>1, <4>1 DEF Joined
        <4> HIDE DEF i, j
        <4>3. l[Len(p) + i] = y[i] /\ r[Len(a) + j] = q[j]
          BY <2>2, <4>1 DEF Joined
        <4> QED
          BY <4>1, <4>2, <4>3
      <3> QED
        BY <3>1, <3>2, <3>3
    <2>7. l = r
      BY <2>2, <2>5, <2>6, SeqEqual
    <2> QED
      BY <2>7 DEF l, r, p, q
  <1> QED
    BY <1>1, Zenon DEF JoinsInAnyOrder

\* What is flattened in two pieces is flattened as a whole.
LEMMA FlattenJoined ==
  ASSUME NEW T, NEW q \in Seq(Seq(T)), NEW s \in Seq(Seq(T)), NEW t \in Seq(Seq(T)),
         Joined(q, s, t)
  PROVE  FlattenSeq(q) = FlattenSeq(s) \o FlattenSeq(t)
PROOF
  <1>0. \A a, x, y \in Seq(T) : (a \o x) \o y = a \o (x \o y)
    <2>1. JoinsInAnyOrder(T)
      BY Associative
    <2> QED
      BY <2>1 DEF JoinsInAnyOrder
  <1>1. PICK F \in [0..Len(s) -> Seq(T)] :
          /\ F[0] = <<>> /\ FlattenSeq(s) = F[Len(s)]
          /\ \A k \in 1..Len(s) : F[k] = F[k - 1] \o s[k]
    BY FlattenRuns
  <1>2. PICK G \in [0..Len(t) -> Seq(T)] :
          /\ G[0] = <<>> /\ FlattenSeq(t) = G[Len(t)]
          /\ \A k \in 1..Len(t) : G[k] = G[k - 1] \o t[k]
    BY FlattenRuns
  <1> DEFINE m == Len(s)
             n == Len(t)
             a == F[m]
             H == [k \in 0..m + n |-> IF k <= m THEN F[k] ELSE a \o G[k - m]]
  <1>3. m \in Nat /\ n \in Nat /\ Len(q) = m + n
        /\ (\A k \in 1..m : q[k] = s[k]) /\ (\A k \in 1..n : q[m + k] = t[k])
        /\ \A k \in 1..n : t[k] \in Seq(T)
    BY DEF Joined
  <1>4. a \in Seq(T) /\ (\A k \in 0..n : G[k] \in Seq(T)) /\ \A k \in 0..m : F[k] \in Seq(T)
    <2>1. m \in 0..m
      BY <1>3
    <2>2. (\A k \in 0..n : G[k] \in Seq(T)) /\ \A k \in 0..m : F[k] \in Seq(T)
      BY <1>1, <1>2
    <2> QED
      BY <2>1, <2>2
  <1> HIDE DEF m, n, a
  <1>5. \A k \in 0..n : H[m + k] = a \o G[k]
    <2> TAKE k \in 0..n
    <2>1. m + k \in 0..m + n /\ (m + k) - m = k /\ (m + k <= m => k = 0)
      BY <1>3
    <2>2. CASE k = 0
      <3>1. H[m + k] = a /\ G[0] = <<>>
        BY <1>2, <1>3, <2>1, <2>2 DEF a
      <3> QED
        BY <1>4, <2>2, <3>1, ConcatEmptySeq
    <2>3. CASE k # 0
      BY <1>3, <2>1, <2>3
    <2> QED
      BY <2>2, <2>3
  <1>6. H \in [0..m + n -> Seq(T)]
    <2>1. ASSUME NEW k \in 0..n PROVE a \o G[k] \in Seq(T)
      BY <1>4, ConcatProperties
    <2>2. ASSUME NEW k \in 0..m + n PROVE k <= m \/ k - m \in 0..n
      BY <1>3
    <2>3. ASSUME NEW k \in 0..m + n PROVE H[k] \in Seq(T)
      <3>1. H[k] = IF k <= m THEN F[k] ELSE a \o G[k - m]
        OBVIOUS
      <3>2. CASE k <= m
        <4>1. k \in 0..m /\ H[k] = F[k]
          BY <1>3, <3>1, <3>2
        <4> HIDE DEF H
        <4> QED
          BY <1>4, <4>1
      <3>3. CASE ~ (k <= m)
        <4>1. k - m \in 0..n /\ H[k] = a \o G[k - m]
          BY <2>2, <3>1, <3>3
        <4> HIDE DEF H, a
        <4> QED
          BY <2>1, <4>1
      <3> QED
        BY <3>2, <3>3
    <2> QED
      BY <2>3
  <1>7. H[0] = <<>>
    BY <1>1, <1>3
  <1>8. ASSUME NEW k \in 1..m + n PROVE H[k] = H[k - 1] \o q[k]
    <2>1. CASE k <= m
      <3>1. k \in 1..m /\ k - 1 \in 0..m + n /\ k - 1 <= m
        BY <1>3, <2>1
      <3>2. F[k] = F[k - 1] \o s[k]
        BY <1>1, <3>1 DEF m
      <3>3. H[k] = F[k] /\ H[k - 1] = F[k - 1]
        <4>1. k \in 0..m + n
          BY <1>3
        <4> QED
          BY <2>1, <3>1, <4>1
      <3> HIDE DEF H
      <3> QED
        BY <1>3, <3>1, <3>2, <3>3
    <2>2. CASE k > m
      <3> DEFINE j == k - m
      <3>1. j \in 1..n /\ m + j = k /\ j - 1 \in 0..n /\ j \in 0..n /\ m + (j - 1) = k - 1
        BY <1>3, <2>2
      <3> HIDE DEF j
      <3>2. H[k] = a \o G[j] /\ H[k - 1] = a \o G[j - 1] /\ q[k] = t[j]
        <4> HIDE DEF H
        <4> QED
          BY <1>3, <1>5, <3>1
      <3>3. G[j] = G[j - 1] \o t[j]
        BY <1>2, <3>1 DEF n
      <3>4. G[j - 1] \in Seq(T) /\ t[j] \in Seq(T)
        BY <1>3, <1>4, <3>1
      <3>5. a \o (G[j - 1] \o t[j]) = (a \o G[j - 1]) \o t[j]
        <4>1. a \in Seq(T)
          BY <1>4
        <4> DEFINE x == G[j - 1]
                   y == t[j]
        <4>2. x \in Seq(T) /\ y \in Seq(T)
          BY <3>4
        <4> HIDE DEF H, x, y
        <4>3. (a \o x) \o y = a \o (x \o y)
          BY <1>0, <4>1, <4>2
        <4> QED
          BY <4>3 DEF x, y
      <3> HIDE DEF H
      <3> QED
        BY <3>2, <3>3, <3>5
    <2>3. k <= m \/ k > m
      BY <1>3
    <2> HIDE DEF H
    <2> QED
      BY <2>1, <2>2, <2>3
  <1>9. FlattenSeq(q) = H[m + n]
    <2> HIDE DEF H
    <2>1. RunsThrough(H, q, T)
      BY <1>3, <1>6, <1>7, <1>8 DEF RunsThrough
    <2>2. FlattenSeq(q) = H[Len(q)]
      BY <2>1, FlattenIs
    <2> QED
      BY <1>3, <2>2
  <1>10. n \in 0..n /\ H[m + n] = a \o G[n]
    <2>1. n \in 0..n
      BY <1>3
    <2> HIDE DEF H
    <2> QED
      BY <1>5, <2>1
  <1> QED
    BY <1>1, <1>2, <1>9, <1>10 DEF a, m, n

\* Empty parts flatten to nothing.
LEMMA FlattenEmpty ==
  ASSUME NEW T, NEW q \in Seq(Seq(T)), \A k \in 1..Len(q) : q[k] = <<>>
  PROVE  FlattenSeq(q) = <<>>
PROOF
  <1> DEFINE F == [k \in 0..Len(q) |-> <<>>]
  <1>1. Len(q) \in Nat /\ <<>> \in Seq(T)
    OBVIOUS
  <1>2. <<>> \o <<>> = <<>>
    BY <1>1, ConcatEmptySeq
  <1>3. F \in [0..Len(q) -> Seq(T)] /\ F[0] = <<>> /\ F[Len(q)] = <<>>
    BY <1>1
  <1>4. \A k \in 1..Len(q) : F[k] = F[k - 1] \o q[k]
    <2> TAKE k \in 1..Len(q)
    <2>1. F[k] = <<>> /\ F[k - 1] = <<>>
      BY <1>1
    <2> HIDE DEF F
    <2> QED
      BY <1>2, <2>1
  <1> HIDE DEF F
  <1> QED
    <2>1. RunsThrough(F, q, T)
      BY <1>3, <1>4 DEF RunsThrough
    <2>2. FlattenSeq(q) = F[Len(q)]
      BY <2>1, FlattenIs
    <2> QED
      BY <1>3, <2>2

\* A sequence of one part flattens to it, one of none to nothing.
LEMMA FlattenOne ==
  ASSUME NEW T, NEW x \in Seq(T)
  PROVE  FlattenSeq(<<x>>) = x /\ FlattenSeq(<<>>) = <<>>
PROOF
  <1> DEFINE S == Seq(T)
             q == <<x>>
  <1>1. q \in Seq(S) /\ Len(q) = 1 /\ q[1] = x
    OBVIOUS
  <1> HIDE DEF q
  <1>2. PICK F \in [0..Len(q) -> S] :
          F[0] = <<>> /\ FlattenSeq(q) = F[Len(q)] /\ \A k \in 1..Len(q) : F[k] = F[k - 1] \o q[k]
    BY <1>1, FlattenRuns
  <1>3. F[1] = F[0] \o q[1]
    <2>1. 1 \in 1..Len(q) /\ 1 - 1 = 0
      BY <1>1
    <2> QED
      BY <1>2, <2>1
  <1>4. <<>> \o x = x
    OBVIOUS
  <1>5. FlattenSeq(q) = x
    BY <1>1, <1>2, <1>3, <1>4
  <1>6. FlattenSeq(<<>>) = <<>>
    <2> DEFINE e == <<>>
    <2>1. e \in Seq(S) /\ \A k \in 1..Len(e) : e[k] = <<>>
      OBVIOUS
    <2> HIDE DEF e
    <2>2. FlattenSeq(e) = <<>>
      BY <2>1, FlattenEmpty
    <2> QED
      BY <2>2 DEF e
  <1> QED
    BY <1>5, <1>6 DEF q

\* The sequence p is what q has after the first a.
StandsAt(p, q, a) == \A i \in 1..Len(p) : p[i] = q[a + i]

\* The n pieces p tile the sequence q, each where the one before it ends.
Tile(p, n, q, E) ==
  /\ E \in [0..n -> 0..Len(q)] /\ E[0] = 0 /\ E[n] = Len(q)
  /\ \A w \in 1..n : E[w] = E[w - 1] + Len(p[w]) /\ StandsAt(p[w], q, E[w - 1])

FlattenEach(p, n) == [w \in 1..n |-> FlattenSeq(p[w])]

\* What is flattened in pieces that tile a sequence is flattened as a whole.
LEMMA FlattenTiled ==
  ASSUME NEW T, NEW n \in Nat, NEW q \in Seq(Seq(T)), NEW E,
         NEW p \in [1..n -> Seq(Seq(T))], Tile(p, n, q, E)
  PROVE  FlattenSeq(FlattenEach(p, n)) = FlattenSeq(q)
PROOF
  <1>0. /\ E \in [0..n -> 0..Len(q)] /\ E[0] = 0 /\ E[n] = Len(q)
        /\ \A w \in 1..n : E[w] = E[w - 1] + Len(p[w]) /\ StandsAt(p[w], q, E[w - 1])
    BY DEF Tile
  <1> DEFINE upto(m) == [k \in 1..m |-> q[k]]
             F == [w \in 0..n |-> FlattenSeq(upto(E[w]))]
             r == [w \in 1..n |-> FlattenSeq(p[w])]
  <1>1. Len(q) \in Nat /\ \A k \in 1..Len(q) : q[k] \in Seq(T)
    OBVIOUS
  <1>2. \A w \in 0..n : E[w] \in 0..Len(q)
    BY <1>0
  <1>3. ASSUME NEW m \in 0..Len(q)
        PROVE  /\ upto(m) \in Seq(Seq(T)) /\ Len(upto(m)) = m
               /\ \A k \in 1..m : upto(m)[k] = q[k]
    <2>1. m \in Nat /\ \A k \in 1..m : q[k] \in Seq(T)
      BY <1>1
    <2> QED
      BY <2>1
  <1>4. ASSUME NEW w \in 1..n PROVE FlattenSeq(p[w]) \in Seq(T)
    <2>1. p[w] \in Seq(Seq(T))
      OBVIOUS
    <2> QED
      BY <2>1, FlattenedParts
  <1>5. r \in Seq(Seq(T)) /\ Len(r) = n
    BY <1>4
  <1>6. ASSUME NEW w \in 0..n PROVE F[w] \in Seq(T)
    <2>1. upto(E[w]) \in Seq(Seq(T))
      BY <1>2, <1>3
    <2>2. FlattenSeq(upto(E[w])) \in Seq(T)
      <3> HIDE DEF upto
      <3> QED
        BY <2>1, FlattenedParts
    <2> HIDE DEF upto
    <2> QED
      BY <2>2
  <1>7. F[0] = <<>>
    <2>1. upto(0) = <<>>
      OBVIOUS
    <2>2. FlattenSeq(<<>>) = <<>>
      BY DEF FlattenSeq
    <2>3. 0 \in 0..n
      OBVIOUS
    <2> HIDE DEF upto
    <2> QED
      BY <1>0, <2>1, <2>2, <2>3
  <1>8. ASSUME NEW w \in 1..n PROVE F[w] = F[w - 1] \o r[w]
    <2> DEFINE a == E[w - 1]
               b == E[w]
               d == p[w]
    <2>1. /\ a \in 0..Len(q) /\ b \in 0..Len(q) /\ b = a + Len(d) /\ StandsAt(d, q, a)
          /\ d \in Seq(Seq(T)) /\ w - 1 \in 0..n /\ w \in 0..n
      BY <1>0
    <2>2. F[w] = FlattenSeq(upto(b)) /\ F[w - 1] = FlattenSeq(upto(a)) /\ r[w] = FlattenSeq(d)
      <3> HIDE DEF upto
      <3> QED
        BY <2>1
    <2> HIDE DEF a, b, d, F, r
    <2>3. /\ upto(a) \in Seq(Seq(T)) /\ Len(upto(a)) = a /\ \A k \in 1..a : upto(a)[k] = q[k]
          /\ upto(b) \in Seq(Seq(T)) /\ Len(upto(b)) = b /\ \A k \in 1..b : upto(b)[k] = q[k]
      BY <1>3, <2>1
    <2> HIDE DEF upto
    <2>4. Joined(upto(b), upto(a), d)
      <3>1. Len(d) \in Nat
        BY <2>1
      <3>2. ASSUME NEW k \in 1..a PROVE upto(b)[k] = upto(a)[k]
        <4>1. k \in 1..b
          BY <1>1, <2>1, <3>1
        <4> QED
          BY <2>3, <4>1
      <3>3. ASSUME NEW k \in 1..Len(d) PROVE upto(b)[a + k] = d[k]
        <4>1. a + k \in 1..b
          BY <1>1, <2>1, <3>1
        <4>2. d[k] = q[a + k]
          BY <2>1 DEF StandsAt
        <4> QED
          BY <2>3, <4>1, <4>2
      <3> QED
        BY <2>1, <2>3, <3>2, <3>3 DEF Joined
    <2>5. FlattenSeq(upto(b)) = FlattenSeq(upto(a)) \o FlattenSeq(d)
      <3> DEFINE x == upto(b)
                 y == upto(a)
      <3>1. x \in Seq(Seq(T)) /\ y \in Seq(Seq(T)) /\ d \in Seq(Seq(T)) /\ Joined(x, y, d)
        BY <2>1, <2>3, <2>4
      <3> HIDE DEF x, y
      <3>2. FlattenSeq(x) = FlattenSeq(y) \o FlattenSeq(d)
        BY <3>1, FlattenJoined
      <3> QED
        BY <3>2 DEF x, y
    <2> QED
      BY <2>2, <2>5
  <1>9. upto(Len(q)) = q
    <2>1. Len(q) \in 0..Len(q)
      BY <1>1
    <2> DEFINE u == upto(Len(q))
    <2>2. u \in Seq(Seq(T)) /\ Len(u) = Len(q) /\ \A k \in 1..Len(q) : u[k] = q[k]
      BY <1>3, <2>1
    <2> HIDE DEF u
    <2>3. u = q
      BY <2>2, SeqEqual
    <2> QED
      BY <2>3 DEF u
  <1>10. F[n] = FlattenSeq(q)
    <2>1. n \in 0..n /\ E[n] = Len(q)
      BY <1>0
    <2> HIDE DEF upto
    <2> QED
      BY <1>9, <2>1
  <1>11. DOMAIN F = 0..n
    OBVIOUS
  <1>12. F \in [0..n -> Seq(T)]
    <2>1. F = [w \in 0..n |-> F[w]]
      OBVIOUS
    <2> HIDE DEF F
    <2> QED
      BY <1>6, <2>1
  <1> HIDE DEF F, r
  <1>13. FlattenSeq(r) = F[n]
    <2>1. RunsThrough(F, r, T)
      BY <1>5, <1>7, <1>8, <1>12 DEF RunsThrough
    <2>2. FlattenSeq(r) = F[Len(r)]
      BY <1>5, <2>1, FlattenIs
    <2> QED
      BY <1>5, <2>2
  <1> QED
    BY <1>10, <1>13 DEF r, FlattenEach

\* A set of numbers with each one whose followers up to n it has has all of them.
LEMMA DownInduction ==
  ASSUME NEW n \in Nat, NEW P,
         \A k \in 1..n : (\A j \in k + 1..n : j \in P) => k \in P
  PROVE  1..n \subseteq P
PROOF
  <1> DEFINE Q == {m \in 0..n : n + 1 - m..n \subseteq P}
  <1>1. 0 \in Q
    OBVIOUS
  <1>2. ASSUME NEW m \in 0..n - 1, m \in Q PROVE m + 1 \in Q
    <2> DEFINE k == n - m
    <2>1. k \in 1..n /\ n + 1 - m = k + 1 /\ n + 1 - (m + 1) = k /\ m + 1 \in 0..n
      OBVIOUS
    <2>2. \A j \in k + 1..n : j \in P
      BY <1>2, <2>1
    <2>3. k \in P
      BY <2>1, <2>2
    <2> HIDE DEF k
    <2>4. \A j \in k..n : j \in P
      <3>1. \A j \in k..n : j = k \/ j \in k + 1..n
        BY <2>1
      <3> QED
        BY <2>2, <2>3, <3>1
    <2> QED
      BY <2>1, <2>4
  <1> HIDE DEF Q
  <1>3. 0..n \subseteq Q
    BY <1>1, <1>2, UpToInduction
  <1>4. n \in Q
    BY <1>3
  <1> QED
    BY <1>4 DEF Q

\* A recursion downwards over the numbers up to n, each value from the later ones.
LooksAhead(step, n, X) ==
  \A k \in 1..n : \A f, g \in [1..n -> X] :
    (\A j \in k + 1..n : f[j] = g[j]) => step[<<k, f>>] = step[<<k, g>>]

IsDownRecursion(f, n, step) == \A k \in 1..n : f[k] = step[<<k, f>>]

\* A function that is defined downwards from its values further up exists.
LEMMA DownRecursionExists ==
  ASSUME NEW n \in Nat, NEW X, NEW x0 \in X, NEW step \in [(1..n) \X [1..n -> X] -> X],
         LooksAhead(step, n, X)
  PROVE  \E f \in [1..n -> X] : IsDownRecursion(f, n, step)
PROOF
  <1> DEFINE Y == [1..n -> X]
             none == [k \in 1..n |-> x0]
             more == [p \in (1..n) \X Y |-> [p[2] EXCEPT ![n + 1 - p[1]] = step[<<n + 1 - p[1], p[2]>>]]]
  <1>1. none \in Y /\ more \in [(1..n) \X Y -> Y]
    <2>1. ASSUME NEW k \in 1..n, NEW g \in Y PROVE n + 1 - k \in 1..n /\ step[<<n + 1 - k, g>>] \in X
      OBVIOUS
    <2>2. ASSUME NEW p \in (1..n) \X Y
          PROVE  [p[2] EXCEPT ![n + 1 - p[1]] = step[<<n + 1 - p[1], p[2]>>]] \in Y
      <3>1. p[1] \in 1..n /\ p[2] \in Y
        OBVIOUS
      <3> QED
        BY <2>1, <3>1
    <2> QED
      BY <2>2
  <1>2. \A k \in 1..n, g \in Y : more[<<k, g>>] = [g EXCEPT ![n + 1 - k] = step[<<n + 1 - k, g>>]]
    OBVIOUS
  <1> HIDE DEF more, none
  <1>3. PICK F : IsRecursion(F, n, Y, none, more)
    <2> HIDE DEF Y
    <2> QED
      BY <1>1, RecursionExists
  <1>4. F \in [0..n -> Y] /\ \A k \in 1..n : F[k] = more[<<k, F[k - 1]>>]
    BY <1>3 DEF IsRecursion
  <1> DEFINE P == {k \in 0..n : \A m \in n + 1 - k..n : F[k][m] = step[<<m, F[k]>>]}
  <1>5. 0 \in P
    OBVIOUS
  <1>6. ASSUME NEW k \in 0..n - 1, k \in P PROVE k + 1 \in P
    <2> DEFINE g == F[k]
               h == F[k + 1]
               m == n - k
    <2>1. k + 1 \in 1..n /\ (k + 1) - 1 = k /\ m \in 1..n /\ n + 1 - (k + 1) = m /\ g \in Y /\ h \in Y
      BY <1>4
    <2>2. h = [g EXCEPT ![m] = step[<<m, g>>]]
      <3>1. h = more[<<k + 1, g>>]
        <4> HIDE DEF g
        <4> QED
          BY <1>4, <2>1 DEF g
      <3>2. more[<<k + 1, g>>] = [g EXCEPT ![n + 1 - (k + 1)] = step[<<n + 1 - (k + 1), g>>]]
        <4> HIDE DEF g, h, Y
        <4> QED
          BY <1>2, <2>1
      <3> QED
        BY <2>1, <3>1, <3>2
    <2>3. h[m] = step[<<m, g>>] /\ \A j \in 1..n : j # m => h[j] = g[j]
      BY <2>1, <2>2
    <2>4. \A j \in n + 1 - k..n : g[j] = step[<<j, g>>]
      BY <1>6
    <2> HIDE DEF g, h
    <2>5. ASSUME NEW j \in m..n PROVE h[j] = step[<<j, h>>]
      <3>1. j \in 1..n /\ \A i \in j + 1..n : i \in 1..n /\ i # m
        BY <2>1
      <3>2. step[<<j, g>>] = step[<<j, h>>]
        <4>1. \A u, v \in Y : (\A i \in j + 1..n : u[i] = v[i]) => step[<<j, u>>] = step[<<j, v>>]
          BY <3>1 DEF LooksAhead
        <4>2. \A i \in j + 1..n : g[i] = h[i]
          BY <2>3, <3>1
        <4> HIDE DEF Y, P, m
        <4> QED
          BY <2>1, <4>1, <4>2
      <3>3. h[j] = step[<<j, g>>]
        <4>1. CASE j = m
          BY <2>3, <4>1
        <4>2. CASE j # m
          <5>1. j \in n + 1 - k..n
            BY <2>1, <4>2
          <5> QED
            BY <2>3, <2>4, <3>1, <4>2, <5>1
        <4> QED
          BY <4>1, <4>2
      <3> QED
        BY <3>2, <3>3
    <2>6. k + 1 \in 0..n /\ n + 1 - (k + 1) = m
      BY <2>1
    <2> QED
      BY <2>5, <2>6 DEF h
  <1>7. n \in P
    <2> HIDE DEF P
    <2>1. 0..n \subseteq P /\ n \in 0..n
      BY <1>5, <1>6, UpToInduction
    <2> QED
      BY <2>1
  <1>8. F[n] \in Y /\ \A m \in 1..n : F[n][m] = step[<<m, F[n]>>]
    <2>1. n \in 0..n /\ n + 1 - n = 1
      OBVIOUS
    <2> QED
      BY <1>4, <1>7, <2>1
  <1> QED
    BY <1>8 DEF IsDownRecursion

\* A sequence is its first element and the others.
LEMMA FirstAndOthers ==
  ASSUME NEW T, NEW s \in Seq(T), Len(s) # 0
  PROVE  /\ s[1] \in T /\ Tail(s) \in Seq(T) /\ Len(Tail(s)) = Len(s) - 1
         /\ s = <<s[1]>> \o Tail(s)
PROOF
  <1>1. s[1] \in T /\ Tail(s) \in Seq(T) /\ Len(Tail(s)) = Len(s) - 1 /\ Len(s) \in Nat
    OBVIOUS
  <1>2. \A i \in 1..Len(s) - 1 : Tail(s)[i] = s[i + 1]
    OBVIOUS
  <1> DEFINE t == Tail(s)
  <1> HIDE DEF t
  <1>3. Len(<<s[1]>> \o t) = Len(s) /\ <<s[1]>> \o t \in Seq(T)
    BY <1>1 DEF t
  <1>4. ASSUME NEW i \in 1..Len(s) PROVE s[i] = (<<s[1]>> \o t)[i]
    <2>1. CASE i = 1
      BY <1>1, <2>1 DEF t
    <2>2. CASE i # 1
      <3>1. i - 1 \in 1..Len(s) - 1 /\ (<<s[1]>> \o t)[i] = t[i - 1]
        BY <1>1, <2>2 DEF t
      <3> QED
        BY <1>2, <3>1 DEF t
    <2> QED
      BY <2>1, <2>2
  <1> DEFINE u == <<s[1]>> \o t
  <1>5. s = u
    <2>1. u \in Seq(T) /\ Len(u) = Len(s) /\ \A i \in 1..Len(s) : s[i] = u[i]
      BY <1>3, <1>4
    <2> HIDE DEF u
    <2> QED
      BY <2>1
  <1> QED
    BY <1>1, <1>5 DEF t

\* A set of sequences with the empty one and, with each, those of one element more
\* in front has them all.
LEMMA SequenceInduction ==
  ASSUME NEW T, NEW Q, <<>> \in Q, \A c \in T, t \in Seq(T) : t \in Q => <<c>> \o t \in Q
  PROVE  Seq(T) \subseteq Q
PROOF
  <1> SUFFICES ASSUME NEW s \in Seq(T) PROVE s \in Q
    OBVIOUS
  <1> DEFINE n == Len(s)
             P == {m \in 0..n : \A u \in Seq(T) : Len(u) = m => u \in Q}
  <1>1. n \in Nat
    OBVIOUS
  <1>2. 0 \in P
    <2>1. \A u \in Seq(T) : Len(u) = 0 => u = <<>>
      OBVIOUS
    <2> QED
      BY <1>1, <2>1
  <1>3. ASSUME NEW m \in 0..n - 1, m \in P PROVE m + 1 \in P
    <2>1. ASSUME NEW u \in Seq(T), Len(u) = m + 1 PROVE u \in Q
      <3> DEFINE t == Tail(u)
      <3>1. u[1] \in T /\ t \in Seq(T) /\ Len(t) = m /\ u = <<u[1]>> \o t
        <4>1. Len(u) # 0 /\ Len(u) - 1 = m
          BY <1>1, <2>1
        <4> QED
          BY <4>1, FirstAndOthers
      <3> HIDE DEF t
      <3>2. t \in Q
        BY <1>3, <3>1
      <3> QED
        BY <3>1, <3>2
    <2> QED
      BY <1>1, <2>1
  <1>4. n \in P
    <2> HIDE DEF P, n
    <2>1. 0..n \subseteq P /\ n \in 0..n
      BY <1>1, <1>2, <1>3, UpToInduction
    <2> QED
      BY <2>1
  <1> QED
    BY <1>4
=============================================================================
