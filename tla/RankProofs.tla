----------------------------- MODULE RankProofs -----------------------------
(***************************************************************************)
(* What searchWorkspace makes of an index, for every library, query and    *)
(* set of caps: a list of all that matches, each once and the best first,  *)
(* and groups of it that account for every match.  A sum is a recursive    *)
(* function over a sequence; what it gives is shown by induction over the  *)
(* set of the lengths for which it is right.                               *)
(***************************************************************************)
EXTENDS SearchRank, FiniteSetTheorems, SequenceTheorems, WellFoundedInduction, TLAPS

\* Induction over a set of numbers.
LEMMA SetInduction ==
    ASSUME NEW T, T \subseteq Nat, 0 \in T, \A n \in T : n + 1 \in T
    PROVE  T = Nat
<1> DEFINE Rest == Nat \ T
           R == OpToRel(<, Nat)
<1> SUFFICES ASSUME Rest # {} PROVE FALSE
  OBVIOUS
<1>1. IsWellFoundedOn(R, Nat)
  BY NatLessThanWellFounded
<1>2. \A x, y \in Nat : <<y, x>> \in R <=> y < x
  BY DEF OpToRel
<1> HIDE DEF R
<1>3. PICK x \in Rest : \A y \in Rest : ~ (<<y, x>> \in R)
  BY <1>1, WFMin
<1>4. x \in Nat /\ x # 0
  OBVIOUS
<1>5. x - 1 \in Nat /\ x - 1 < x
  BY <1>4
<1>6. x - 1 \in T
  BY <1>2, <1>3, <1>4, <1>5
<1>7. (x - 1) + 1 \in T
  BY <1>6
<1> QED BY <1>4, <1>7

(***************************************************************************)
(* Elements numbered by how many are before them in a strict total order:  *)
(* `at' lists all of them, each once and in that order.                    *)
(***************************************************************************)
Orders(B, S) ==
    /\ \A i \in S : <<i, i>> \notin B
    /\ \A i, j \in S : i # j => <<i, j>> \in B \/ <<j, i>> \in B
    /\ \A i, j, k \in S : <<i, j>> \in B /\ <<j, k>> \in B => <<i, k>> \in B

Lists(at, S) ==
    /\ at \in [1 .. Cardinality(S) -> S]
    /\ \A m, n \in 1 .. Cardinality(S) : at[m] = at[n] => m = n
    /\ \A i \in S : \E n \in 1 .. Cardinality(S) : at[n] = i

LEMMA RankedList ==
    ASSUME NEW S, IsFiniteSet(S), NEW B, Orders(B, S), NEW at,
           at = [n \in 1 .. Cardinality(S) |-> at[n]],
           \A n \in 1 .. Cardinality(S), i \in S :
               Cardinality({j \in S : <<j, i>> \in B}) = n - 1
               => at[n] \in S /\ Cardinality({j \in S : <<j, at[n]>> \in B}) = n - 1
    PROVE  /\ Lists(at, S)
           /\ \A m, n \in 1 .. Cardinality(S) : m < n => <<at[m], at[n]>> \in B
<1> DEFINE N == Cardinality(S)
           Before(i) == {j \in S : <<j, i>> \in B}
           rank == [i \in S |-> Cardinality(Before(i)) + 1]
<1>1. N \in Nat
  BY FS_CardinalityType
<1>2. \A i \in S : IsFiniteSet(Before(i)) /\ Cardinality(Before(i)) \in Nat
  BY FS_Subset, FS_CardinalityType
<1>3. ASSUME NEW i \in S, NEW j \in S, <<i, j>> \in B
      PROVE  Cardinality(Before(i)) < Cardinality(Before(j))
  <2>1. Before(i) \subseteq Before(j) /\ i \in Before(j) /\ i \notin Before(i)
    BY <1>3 DEF Orders
  <2> HIDE DEF Before
  <2>2. Before(i) # Before(j) /\ Before(i) \in SUBSET Before(j)
    BY <2>1
  <2>3. /\ Cardinality(Before(i)) <= Cardinality(Before(j))
        /\ Cardinality(Before(j)) = Cardinality(Before(i)) => Before(j) = Before(i)
    BY <1>2, <2>2, FS_Subset
  <2> QED BY <1>2, <2>2, <2>3
<1>4. ASSUME NEW i \in S PROVE Cardinality(Before(i)) < N
  <2>1. Before(i) \subseteq S /\ i \notin Before(i)
    BY DEF Orders
  <2> HIDE DEF Before
  <2>2. Before(i) # S /\ Before(i) \in SUBSET S
    BY <2>1
  <2>3. /\ Cardinality(Before(i)) <= Cardinality(S)
        /\ Cardinality(S) = Cardinality(Before(i)) => S = Before(i)
    BY <2>2, FS_Subset
  <2> QED BY <1>1, <1>2, <2>2, <2>3
<1> HIDE DEF Before
<1>5. \A i, j \in S : rank[i] = rank[j] => i = j
  <2> SUFFICES ASSUME NEW i \in S, NEW j \in S, i # j PROVE rank[i] # rank[j]
    OBVIOUS
  <2>1. Cardinality(Before(i)) < Cardinality(Before(j))
           \/ Cardinality(Before(j)) < Cardinality(Before(i))
    BY <1>3 DEF Orders
  <2> QED BY <1>2, <2>1
<1>6. rank \in [S -> 1 .. N]
  BY <1>1, <1>2, <1>4
<1>7. rank \in Surjection(S, 1 .. N)
  <2>1. rank \in Injection(S, 1 .. N)
    BY <1>5, <1>6 DEF Injection, IsInjective
  <2>2. IsFiniteSet(1 .. N) /\ Cardinality(1 .. N) = N
    BY <1>1, FS_Interval
  <2> QED BY <2>1, <2>2, FS_Injection
<1>8. \A n \in 1 .. N : \E i \in S : Cardinality(Before(i)) = n - 1
  <2> TAKE n \in 1 .. N
  <2>1. PICK i \in S : rank[i] = n
    BY <1>7 DEF Surjection
  <2> QED BY <1>2, <2>1
<1>9. \A n \in 1 .. N : at[n] \in S /\ Cardinality(Before(at[n])) = n - 1
  BY <1>8 DEF Before
<1> HIDE DEF N
<1>10. at \in [1 .. N -> S]
  BY <1>9 DEF N
<1>11. \A m, n \in 1 .. N : at[m] = at[n] => m = n
  <2> SUFFICES ASSUME NEW m \in 1 .. N, NEW n \in 1 .. N, at[m] = at[n] PROVE m = n
    OBVIOUS
  <2>1. m - 1 = n - 1
    BY <1>9
  <2> QED BY <1>1, <2>1
<1>12. \A i \in S : \E n \in 1 .. N : at[n] = i
  <2> TAKE i \in S
  <2>1. rank[i] \in 1 .. N
    BY <1>6
  <2>2. \A n \in 1 .. N : rank[at[n]] = n
    <3> TAKE n \in 1 .. N
    <3>1. at[n] \in S /\ Cardinality(Before(at[n])) = n - 1
      BY <1>9
    <3>2. rank[at[n]] = (n - 1) + 1
      BY <3>1
    <3> QED BY <1>1, <3>2
  <2> QED BY <1>5, <1>9, <2>1, <2>2
<1>13. \A m, n \in 1 .. N : m < n => <<at[m], at[n]>> \in B
  <2> SUFFICES ASSUME NEW m \in 1 .. N, NEW n \in 1 .. N, m < n,
                      <<at[m], at[n]>> \notin B
               PROVE  FALSE
    OBVIOUS
  <2>0. m # n
    BY <1>1
  <2>1. at[m] # at[n]
    BY <1>11, <2>0
  <2>2. <<at[n], at[m]>> \in B
    BY <1>9, <2>1 DEF Orders
  <2>3. n - 1 < m - 1
    BY <1>3, <1>9, <2>2
  <2> QED BY <1>1, <2>3
<1> QED BY <1>10, <1>11, <1>12, <1>13 DEF Lists, N

\* What is picked from a sequence.
IsPicked(r, s, P, at) ==
    Lists(at, P) /\ r = [n \in 1 .. Cardinality(P) |-> s[at[n]]]

LEMMA PickedPlaces ==
    ASSUME NEW s, NEW P, P \subseteq Nat, IsFiniteSet(P)
    PROVE  \E at : IsPicked(Picked(s, P), s, P, at)
<1> DEFINE B == {p \in Nat \X Nat : p[1] < p[2]}
           at == Ranked(P, LAMBDA i, j : i < j)
<1>1. Orders(B, P)
  BY DEF Orders
<1>2. \A i \in P : {j \in P : <<j, i>> \in B} = {j \in P : j < i}
  OBVIOUS
<1>3. /\ at = [n \in 1 .. Cardinality(P) |-> at[n]]
      /\ \A n \in 1 .. Cardinality(P), i \in P :
             Cardinality({j \in P : j < i}) = n - 1
             => at[n] \in P /\ Cardinality({j \in P : j < at[n]}) = n - 1
  <2>1. at = [n \in 1 .. Cardinality(P) |-> at[n]]
    <3> DEFINE place(n) == CHOOSE i \in P : Cardinality({j \in P : j < i}) = n - 1
    <3>1. at = [n \in 1 .. Cardinality(P) |-> place(n)]
      BY DEF Ranked
    <3> HIDE DEF at, place
    <3> QED BY <3>1
  <2>2. ASSUME NEW n \in 1 .. Cardinality(P), NEW i \in P,
               Cardinality({j \in P : j < i}) = n - 1
        PROVE  at[n] \in P /\ Cardinality({j \in P : j < at[n]}) = n - 1
    <3>1. at[n] = CHOOSE x \in P : Cardinality({j \in P : j < x}) = n - 1
      BY DEF Ranked
    <3> HIDE DEF at
    <3> QED BY <2>2, <3>1
  <2> HIDE DEF at
  <2> QED BY <2>1, <2>2
<1>4. Picked(s, P) = [n \in DOMAIN at |-> s[at[n]]]
  BY DEF Picked
<1> HIDE DEF at, B
<1>5. \A n \in 1 .. Cardinality(P), i \in P :
         Cardinality({j \in P : <<j, i>> \in B}) = n - 1
         => at[n] \in P /\ Cardinality({j \in P : <<j, at[n]>> \in B}) = n - 1
  BY <1>2, <1>3
<1>6. Lists(at, P)
  <2>1. at = [n \in 1 .. Cardinality(P) |-> at[n]]
    BY <1>3
  <2> QED BY <1>1, <1>5, <2>1, RankedList
<1>7. Picked(s, P) = [n \in 1 .. Cardinality(P) |-> s[at[n]]]
  BY <1>4, <1>6 DEF Lists
<1> QED BY <1>6, <1>7 DEF IsPicked

\* A recursive sum is the one function that solves its equations.
LEMMA TotalUnfolds ==
    ASSUME NEW s \in Seq(Int)
    PROVE  \E f \in [0 .. Len(s) -> Int] :
               /\ f[0] = 0 /\ \A i \in 1 .. Len(s) : f[i] = f[i - 1] + s[i]
               /\ Total(s) = f[Len(s)]
<1> DEFINE N == Len(s)
           Solves(f, n) == f = [i \in 0 .. n |-> IF i = 0 THEN 0 ELSE f[i - 1] + s[i]]
           Solved(n) == \E f \in [0 .. n -> Int] : Solves(f, n)
           T == {n \in Nat : n <= N => Solved(n)}
           upTo[i \in 0 .. N] == IF i = 0 THEN 0 ELSE upTo[i - 1] + s[i]
<1>0. N \in Nat /\ \A i \in 1 .. N : s[i] \in Int
  OBVIOUS
<1>1. Solved(0)
  <2>1. Solves([i \in 0 .. 0 |-> 0], 0) /\ [i \in 0 .. 0 |-> 0] \in [0 .. 0 -> Int]
    OBVIOUS
  <2> QED BY <2>1
<1>2. ASSUME NEW n \in Nat, n + 1 <= N, Solved(n) PROVE Solved(n + 1)
  <2>1. PICK f \in [0 .. n -> Int] : Solves(f, n)
    BY <1>2
  <2> DEFINE h == [i \in 0 .. n + 1 |-> IF i = n + 1 THEN f[n] + s[n + 1] ELSE f[i]]
  <2>2. s[n + 1] \in Int /\ f[n] \in Int
    BY <1>0, <1>2
  <2>3. h \in [0 .. n + 1 -> Int]
    BY <2>2
  <2>4. ASSUME NEW i \in 0 .. n + 1
        PROVE  h[i] = IF i = 0 THEN 0 ELSE h[i - 1] + s[i]
    <3>1. CASE i = 0
      BY <2>1, <3>1
    <3>2. CASE i = n + 1
      BY <3>2
    <3>3. CASE i \in 1 .. n
      BY <2>1, <3>3
    <3> QED BY <3>1, <3>2, <3>3
  <2> HIDE DEF h
  <2>5. h = [i \in 0 .. n + 1 |-> h[i]]
    BY <2>3
  <2>6. Solves(h, n + 1)
    BY <2>4, <2>5
  <2> QED BY <2>3, <2>6
<1>3. Solved(N)
  <2> HIDE DEF Solved, N
  <2>1. 0 \in T /\ T \subseteq Nat
    BY <1>1
  <2>2. \A n \in T : n + 1 \in T
    BY <1>0, <1>2
  <2> HIDE DEF T
  <2>3. T = Nat
    BY <2>1, <2>2, SetInduction
  <2> QED BY <1>0, <2>3 DEF T
<1>4. PICK f \in [0 .. N -> Int] : Solves(f, N)
  BY <1>3
<1>5. Solves(upTo, N)
  BY <1>4, Zenon
<1>6. Total(s) = upTo[N]
  BY DEF Total
<1> HIDE DEF upTo
<1>7. upTo[0] = 0 /\ \A i \in 1 .. N : upTo[i] = upTo[i - 1] + s[i]
  <2> HIDE DEF N
  <2>1. \A i \in 0 .. N : upTo[i] = IF i = 0 THEN 0 ELSE upTo[i - 1] + s[i]
    BY <1>5
  <2> QED BY <1>0, <2>1
<1>8. upTo \in [0 .. N -> Int]
  <2> DEFINE U == {n \in Nat : n <= N => upTo[n] \in Int}
  <2> HIDE DEF N
  <2>1. 0 \in U
    BY <1>7
  <2>2. ASSUME NEW n \in U PROVE n + 1 \in U
    <3>1. n \in Nat /\ n + 1 \in Nat
      OBVIOUS
    <3>2. ASSUME n + 1 <= N PROVE upTo[n + 1] \in Int
      <4>1. upTo[n] \in Int /\ s[n + 1] \in Int /\ n + 1 \in 1 .. N
        BY <1>0, <3>1, <3>2
      <4>2. upTo[n + 1] = upTo[(n + 1) - 1] + s[n + 1] /\ (n + 1) - 1 = n
        BY <1>7, <3>1, <4>1
      <4> QED BY <4>1, <4>2
    <3> QED BY <3>1, <3>2
  <2>3. U = Nat
    <3>1. U \subseteq Nat
      OBVIOUS
    <3> HIDE DEF U
    <3> QED BY <2>1, <2>2, <3>1, SetInduction
  <2>4. \A n \in 0 .. N : upTo[n] \in Int
    BY <1>0, <2>3
  <2> QED BY <1>5, <2>4
<1> QED BY <1>6, <1>7, <1>8

LEMMA TotalType == ASSUME NEW s \in Seq(Int) PROVE Total(s) \in Int
<1>1. Len(s) \in Nat
  OBVIOUS
<1> QED BY <1>1, TotalUnfolds

\* Sequences put one after the other.
LEMMA FlatType ==
    ASSUME NEW X, NEW seqs \in Seq(Seq(X))
    PROVE  FlattenSeq(seqs) \in Seq(X)
<1> DEFINE N == Len(seqs)
           With(r, i) == r \o seqs[i]
           Solves(f, n) ==
               f = [i \in 1 .. n |-> IF i = 1 THEN seqs[i] ELSE With(f[i - 1], i)]
           Solved(n) == \E f \in [1 .. n -> Seq(X)] : Solves(f, n)
           T == {n \in Nat : n + 1 <= N => Solved(n + 1)}
           flatten[i \in 1 .. N] == IF i = 1 THEN seqs[i] ELSE With(flatten[i - 1], i)
<1>0. /\ N \in Nat /\ \A i \in 1 .. N : seqs[i] \in Seq(X)
      /\ \A r \in Seq(X), i \in 1 .. N : With(r, i) \in Seq(X)
  BY ConcatProperties
<1>a. N # 0 => FlattenSeq(seqs) = flatten[N]
  BY DEF FlattenSeq
<1> HIDE DEF With
<1>1. CASE N = 0
  <2>1. FlattenSeq(seqs) = seqs /\ seqs = <<>>
    BY <1>1, EmptySeq DEF FlattenSeq
  <2> QED BY <2>1
<1>2. CASE N # 0
  <2>1. Solved(1)
    <3> DEFINE g == [i \in 1 .. 1 |-> seqs[1]]
    <3>1. g \in [1 .. 1 -> Seq(X)]
      BY <1>0, <1>2
    <3>2. Solves(g, 1)
      OBVIOUS
    <3> QED BY <3>1, <3>2
  <2>2. ASSUME NEW n \in Nat, n # 0, n + 1 <= N, Solved(n) PROVE Solved(n + 1)
    <3>1. PICK f \in [1 .. n -> Seq(X)] : Solves(f, n)
      BY <2>2
    <3> DEFINE h == [i \in 1 .. n + 1 |-> IF i = n + 1 THEN With(f[n], n + 1) ELSE f[i]]
    <3>2. With(f[n], n + 1) \in Seq(X)
      <4>1. f[n] \in Seq(X) /\ n + 1 \in 1 .. N
        BY <2>2
      <4> QED BY <1>0, <4>1
    <3>3. h \in [1 .. n + 1 -> Seq(X)]
      BY <3>2
    <3>4. ASSUME NEW i \in 1 .. n + 1
          PROVE  h[i] = IF i = 1 THEN seqs[i] ELSE With(h[i - 1], i)
      <4>1. h[n + 1] = With(f[n], n + 1) /\ \A k \in 1 .. n : h[k] = f[k]
        OBVIOUS
      <4>2. f[1] = seqs[1] /\ \A k \in 2 .. n : f[k] = With(f[k - 1], k)
        BY <2>2, <3>1
      <4> HIDE DEF h, Solves
      <4>3. CASE i = 1
        BY <2>2, <4>1, <4>2, <4>3
      <4>4. CASE i = n + 1
        <5>1. i # 1 /\ i - 1 = n /\ h[n] = f[n]
          BY <2>2, <4>1, <4>4
        <5> QED BY <4>1, <4>4, <5>1
      <4>5. CASE i \in 2 .. n
        <5>1. i # 1 /\ h[i] = f[i] /\ h[i - 1] = f[i - 1]
          BY <4>1, <4>5
        <5> QED BY <4>2, <4>5, <5>1
      <4> QED BY <4>3, <4>4, <4>5
    <3> HIDE DEF h
    <3>5. h = [i \in 1 .. n + 1 |-> h[i]]
      BY <3>3
    <3>6. Solves(h, n + 1)
      BY <3>4, <3>5
    <3> QED BY <3>3, <3>6
  <2>3. Solved(N)
    <3> HIDE DEF Solved, N
    <3>1. 0 \in T /\ T \subseteq Nat
      BY <2>1
    <3>2. ASSUME NEW n \in T PROVE n + 1 \in T
      <4>1. n + 1 \in Nat /\ n + 1 # 0
        OBVIOUS
      <4>2. ASSUME n + 1 + 1 <= N PROVE Solved(n + 1 + 1)
        <5>1. Solved(n + 1)
          BY <1>0, <4>2
        <5> QED BY <2>2, <4>1, <4>2, <5>1
      <4> QED BY <4>1, <4>2
    <3> HIDE DEF T
    <3>3. T = Nat
      BY <3>1, <3>2, SetInduction
    <3>4. N - 1 \in Nat /\ (N - 1) + 1 = N
      BY <1>0, <1>2
    <3> QED BY <3>3, <3>4 DEF T
  <2>4. PICK f \in [1 .. N -> Seq(X)] : Solves(f, N)
    BY <2>3
  <2>5. Solves(flatten, N)
    BY <2>4, Zenon
  <2>6. FlattenSeq(seqs) = flatten[N]
    BY <1>2, <1>a
  <2> HIDE DEF flatten
  <2>7. flatten[1] = seqs[1] /\ \A i \in 2 .. N : flatten[i] = With(flatten[i - 1], i)
    <3> HIDE DEF N
    <3>1. \A i \in 1 .. N :
             flatten[i] = IF i = 1 THEN seqs[i] ELSE With(flatten[i - 1], i)
      BY <2>5
    <3> QED BY <1>0, <1>2, <3>1
  <2> DEFINE U == {n \in Nat : n + 1 <= N => flatten[n + 1] \in Seq(X)}
  <2> HIDE DEF N
  <2>8. 0 \in U
    <3>1. 0 + 1 = 1 /\ 1 \in 1 .. N
      BY <1>0, <1>2
    <3>2. flatten[1] \in Seq(X)
      BY <1>0, <2>7, <3>1
    <3> QED BY <3>1, <3>2
  <2>9. ASSUME NEW n \in U PROVE n + 1 \in U
    <3>1. n + 1 \in Nat
      OBVIOUS
    <3>2. ASSUME n + 1 + 1 <= N PROVE flatten[n + 1 + 1] \in Seq(X)
      <4>1. flatten[n + 1] \in Seq(X) /\ n + 1 + 1 \in 1 .. N
        BY <1>0, <3>2
      <4>2. n + 1 + 1 \in 2 .. N /\ (n + 1 + 1) - 1 = n + 1
        BY <1>0, <3>2
      <4>3. flatten[n + 1 + 1] = With(flatten[n + 1], n + 1 + 1)
        BY <2>7, <4>2
      <4> QED BY <1>0, <4>1, <4>3
    <3> QED BY <3>1, <3>2
  <2>10. U = Nat
    <3>1. U \subseteq Nat
      OBVIOUS
    <3> HIDE DEF U
    <3> QED BY <2>8, <2>9, <3>1, SetInduction
  <2>11. N - 1 \in Nat /\ (N - 1) + 1 = N
    BY <1>0, <1>2
  <2>12. N - 1 \in U
    BY <2>10, <2>11
  <2> QED BY <1>0, <2>6, <2>11, <2>12
<1> QED BY <1>1, <1>2

Kinds == {"page", "document", "section", "finding", "field"}

\* A sequence of sequences.
HasSize(text) ==
    /\ Len(text) \in Nat /\ DOMAIN text = 1 .. Len(text)
    /\ \A i \in DOMAIN text : Len(text[i]) \in Nat

IsEntry(e) == e.kind \in Kinds /\ HasSize(e.title) /\ e.weight \in Int

\* A sequence of entries.
IsIndex(s) == \E X : (\A e \in X : IsEntry(e)) /\ s \in Seq(X)

LEMMA TextHasSize == ASSUME NEW text \in Text PROVE HasSize(text)
<1>1. \A i \in 1 .. Len(text) : text[i] \in Seq(STRING)
  BY DEF Text
<1>2. Len(text) \in Nat /\ DOMAIN text = 1 .. Len(text)
  BY DEF Text
<1> QED BY <1>1, <1>2 DEF HasSize

LEMMA SizeType == ASSUME NEW text, HasSize(text) PROVE Size(text) \in Int
<1>1. [i \in DOMAIN text |-> Len(text[i])] \in Seq(Int)
  BY DEF HasSize
<1>2. PieceLength \in Int
  BY DEF PieceLength
<1> QED BY <1>1, <1>2, TotalType DEF Size

LEMMA ScoreTermType == ASSUME NEW e, NEW term PROVE ScoreTerm(e, term) \in Int
<1> DEFINE a == e.title = <<<<term>>>>
           b == e.title # <<>> /\ e.title[1][1] = term
           c == HasWordStart(e.title, term)
           d == Includes(e.title, term)
           k == term \in e.keywords
           g == HasWordStart(e.subtitle, term)
           h == Includes(e.subtitle, term)
           m == HasWordStart(e.body, term)
           n == Includes(e.body, term)
<1>1. ScoreTerm(e, term) =
          IF a THEN 260 ELSE IF b THEN 150 ELSE IF c THEN 120 ELSE IF d THEN 70
          ELSE IF k THEN 40 ELSE IF g THEN 46 ELSE IF h THEN 30
          ELSE IF m THEN 20 ELSE IF n THEN 10 ELSE 0
  BY DEF ScoreTerm
<1> HIDE DEF a, b, c, d, k, g, h, m, n
<1> QED BY <1>1

LEMMA ScoreType ==
    ASSUME NEW e, IsEntry(e), NEW terms \in Seq(STRING)
    PROVE  ScoreEntry(e, terms) \in Int
<1> DEFINE scores == [i \in DOMAIN terms |-> ScoreTerm(e, terms[i])]
           phrase == IF Len(terms) > 1 /\ IncludesPhrase(e.title, terms) THEN 60 ELSE 0
           brevity == IF Size(e.title) >= 40 THEN 0 ELSE 4 * (40 - Size(e.title))
<1>1. Total(scores) \in Int
  <2>1. scores \in Seq(Int)
    <3>1. Len(terms) \in Nat /\ DOMAIN terms = 1 .. Len(terms)
      OBVIOUS
    <3>2. \A i \in DOMAIN terms : scores[i] \in Int
      BY ScoreTermType
    <3> QED BY <3>1, <3>2
  <2> HIDE DEF scores
  <2> QED BY <2>1, TotalType
<1>2. brevity \in Int
  <2>1. Size(e.title) \in Int
    BY SizeType DEF IsEntry
  <2> QED BY <2>1
<1>3. phrase \in Int
  OBVIOUS
<1>4. KindWeight[e.kind] \in Int
  BY DEF KindWeight, IsEntry, Kinds
<1>5. 1000 * e.weight \in Int
  BY DEF IsEntry
<1>6. ScoreEntry(e, terms) =
          IF \E i \in DOMAIN terms : scores[i] = 0 THEN 0
          ELSE (10 * (Total(scores) + phrase) + brevity) * KindWeight[e.kind]
                   + 1000 * e.weight
  BY DEF ScoreEntry
<1> HIDE DEF scores, phrase, brevity
<1>7. 10 * (Total(scores) + phrase) + brevity \in Int
  BY <1>1, <1>2, <1>3
<1>8. (10 * (Total(scores) + phrase) + brevity) * KindWeight[e.kind] \in Int
  BY <1>4, <1>7
<1> QED BY <1>5, <1>6, <1>8

(***************************************************************************)
(* searchWorkspace lists every place of the index that matches, each once, *)
(* and never one before another that scores better.                        *)
(***************************************************************************)
THEOREM MatchesBestFirst ==
    ASSUME NEW entries, IsIndex(entries), NEW terms \in Seq(STRING)
    PROVE  LET S(i) == ScoreEntry(entries[i], terms)
               matches == {i \in DOMAIN entries : S(i) > 0}
           IN  /\ IsFiniteSet(matches)
               /\ \E at : /\ Lists(at, matches)
                          /\ Scored(entries, terms) =
                                 [n \in 1 .. Cardinality(matches) |-> entries[at[n]]]
                          /\ \A m, n \in 1 .. Cardinality(matches) :
                                 m < n => S(at[m]) >= S(at[n])
<1> DEFINE S(i) == ScoreEntry(entries[i], terms)
           matches == {i \in DOMAIN entries : S(i) > 0}
           Better(i, j) == S(i) > S(j) \/ (S(i) = S(j) /\ i < j)
           B == {p \in matches \X matches : Better(p[1], p[2])}
           at == Ranked(matches, LAMBDA i, j : S(i) > S(j) \/ (S(i) = S(j) /\ i < j))
<1>1. IsFiniteSet(DOMAIN entries) /\ DOMAIN entries \subseteq Nat
  <2>1. Len(entries) \in Nat /\ DOMAIN entries = 1 .. Len(entries)
    BY DEF IsIndex
  <2> QED BY <2>1, FS_Interval
<1>2. \A i \in DOMAIN entries : S(i) \in Int
  <2>1. \A i \in DOMAIN entries : IsEntry(entries[i])
    BY DEF IsIndex
  <2> QED BY <2>1, ScoreType
<1>3. Scored(entries, terms) = [n \in DOMAIN at |-> entries[at[n]]]
  BY DEF Scored
<1>4. at = [n \in 1 .. Cardinality(matches) |-> at[n]]
  <2> DEFINE place(n) == CHOOSE i \in matches :
                             Cardinality({j \in matches : Better(j, i)}) = n - 1
  <2>1. at = [n \in 1 .. Cardinality(matches) |-> place(n)]
    BY DEF Ranked
  <2> HIDE DEF at, place
  <2> QED BY <2>1
<1>5. ASSUME NEW n \in 1 .. Cardinality(matches), NEW i \in matches,
             Cardinality({j \in matches : Better(j, i)}) = n - 1
      PROVE  at[n] \in matches /\ Cardinality({j \in matches : Better(j, at[n])}) = n - 1
  <2>1. at[n] = CHOOSE x \in matches : Cardinality({j \in matches : Better(j, x)}) = n - 1
    BY DEF Ranked
  <2> HIDE DEF at, Better, matches
  <2> QED BY <1>5, <2>1
<1> HIDE DEF at, S
<1>6. Orders(B, matches)
  <2>1. matches \subseteq DOMAIN entries
    OBVIOUS
  <2>2. \A i \in matches : S(i) \in Int /\ i \in Int
    BY <1>1, <1>2, <2>1
  <2> HIDE DEF matches
  <2> QED BY <2>2 DEF Orders
<1>7. IsFiniteSet(matches)
  BY <1>1, FS_Subset
<1>8. \A i \in matches : {j \in matches : <<j, i>> \in B} = {j \in matches : Better(j, i)}
  <2> HIDE DEF matches, Better
  <2> QED OBVIOUS
<1>9. \A m, n : <<m, n>> \in B => S(m) >= S(n)
  BY <1>1, <1>2
<1> HIDE DEF B, Better, matches
<1>10. \A n \in 1 .. Cardinality(matches), i \in matches :
         Cardinality({j \in matches : <<j, i>> \in B}) = n - 1
         => at[n] \in matches /\ Cardinality({j \in matches : <<j, at[n]>> \in B}) = n - 1
  BY <1>5, <1>8
<1>11. /\ Lists(at, matches)
       /\ \A m, n \in 1 .. Cardinality(matches) : m < n => <<at[m], at[n]>> \in B
  BY <1>4, <1>6, <1>7, <1>10, RankedList
<1>12. Scored(entries, terms) = [n \in 1 .. Cardinality(matches) |-> entries[at[n]]]
  BY <1>3, <1>11 DEF Lists
<1> QED BY <1>7, <1>9, <1>11, <1>12 DEF matches, S

LEMMA ScoredIsIndex ==
    ASSUME NEW entries, IsIndex(entries), NEW terms \in Seq(STRING)
    PROVE  IsIndex(Scored(entries, terms))
<1> DEFINE matches == {i \in DOMAIN entries : ScoreEntry(entries[i], terms) > 0}
<1>1. PICK X : (\A e \in X : IsEntry(e)) /\ entries \in Seq(X)
  BY DEF IsIndex
<1>2. IsFiniteSet(matches)
  BY MatchesBestFirst
<1> DEFINE S(i) == ScoreEntry(entries[i], terms)
<1>3. PICK at : /\ Lists(at, matches)
                /\ Scored(entries, terms) = [n \in 1 .. Cardinality(matches) |-> entries[at[n]]]
                /\ \A m, n \in 1 .. Cardinality(matches) : m < n => S(at[m]) >= S(at[n])
  BY MatchesBestFirst
<1>4. Cardinality(matches) \in Nat
  BY <1>2, FS_CardinalityType
<1>5. \A n \in 1 .. Cardinality(matches) : entries[at[n]] \in X
  BY <1>1, <1>3 DEF Lists
<1>6. Scored(entries, terms) \in Seq(X)
  <2> HIDE DEF matches
  <2> QED BY <1>3, <1>4, <1>5
<1> QED BY <1>1, <1>6 DEF IsIndex

LEMMA EntryIsEntry ==
    ASSUME NEW id, NEW kind \in Kinds, NEW title, HasSize(title), NEW subtitle,
           NEW body, NEW keywords, NEW weight \in Int
    PROVE  IsEntry(Entry(id, kind, title, subtitle, body, keywords, weight))
BY DEF IsEntry, Entry

\* Indexes are put together, reversed and cut.
LEMMA IndexJoins == ASSUME NEW s, NEW t, IsIndex(s), IsIndex(t) PROVE IsIndex(s \o t)
<1>1. PICK X : (\A e \in X : IsEntry(e)) /\ s \in Seq(X)
  BY DEF IsIndex
<1>2. PICK Y : (\A e \in Y : IsEntry(e)) /\ t \in Seq(Y)
  BY DEF IsIndex
<1>3. s \in Seq(X \cup Y) /\ t \in Seq(X \cup Y)
  BY <1>1, <1>2
<1>4. s \o t \in Seq(X \cup Y)
  BY <1>3, ConcatProperties
<1>5. \A e \in X \cup Y : IsEntry(e)
  BY <1>1, <1>2
<1> QED BY <1>4, <1>5 DEF IsIndex

LEMMA FirstOf ==
    ASSUME NEW X, NEW s \in Seq(X), NEW n \in Nat
    PROVE  LET m == IF Len(s) < n THEN Len(s) ELSE n
           IN  SubSeq(s, 1, m) \in Seq(X) /\ Len(SubSeq(s, 1, m)) = m
<1> DEFINE m == IF Len(s) < n THEN Len(s) ELSE n
<1>1. Len(s) \in Nat /\ m \in Nat /\ m <= Len(s)
  OBVIOUS
<1>2. \A i \in 1 .. m : s[i] \in X
  BY <1>1
<1> HIDE DEF m
<1>3. SubSeq(s, 1, m) \in Seq(X) /\ Len(SubSeq(s, 1, m)) = IF 1 <= m THEN m - 1 + 1 ELSE 0
  BY <1>1, <1>2
<1>4. Len(SubSeq(s, 1, m)) = m
  BY <1>1, <1>3
<1> QED BY <1>3, <1>4 DEF m

LEMMA ReverseType == ASSUME NEW X, NEW s \in Seq(X) PROVE Reverse(s) \in Seq(X)
<1>1. Len(s) \in Nat /\ \A i \in 1 .. Len(s) : s[(Len(s) - i) + 1] \in X
  OBVIOUS
<1> QED BY <1>1 DEF Reverse

LEMMA PickedType ==
    ASSUME NEW X, NEW s, NEW P, P \subseteq Nat, IsFiniteSet(P), \A i \in P : s[i] \in X
    PROVE  /\ Picked(s, P) \in Seq(X) /\ Len(Picked(s, P)) = Cardinality(P)
           /\ \A n \in 1 .. Len(Picked(s, P)) : \E i \in P : Picked(s, P)[n] = s[i]
<1>1. PICK at : /\ Lists(at, P)
                /\ Picked(s, P) = [n \in 1 .. Cardinality(P) |-> s[at[n]]]
  <2>1. PICK at : IsPicked(Picked(s, P), s, P, at)
    BY PickedPlaces
  <2> QED BY <2>1 DEF IsPicked
<1>2. Cardinality(P) \in Nat
  BY FS_CardinalityType
<1>3. \A n \in 1 .. Cardinality(P) : at[n] \in P
  BY <1>1 DEF Lists
<1> DEFINE N == Cardinality(P)
<1> HIDE DEF N
<1>4. Picked(s, P) \in Seq(X) /\ Len(Picked(s, P)) = N
  <2>1. N \in Nat /\ \A n \in 1 .. N : s[at[n]] \in X
    BY <1>2, <1>3 DEF N
  <2>2. Picked(s, P) = [n \in 1 .. N |-> s[at[n]]]
    BY <1>1 DEF N
  <2> QED BY <2>1, <2>2
<1>5. \A n \in 1 .. N : \E i \in P : Picked(s, P)[n] = s[i]
  BY <1>1, <1>3 DEF N
<1> QED BY <1>4, <1>5 DEF N

\* The documents of a library, in the order of their upload.
LEMMA LibraryType ==
    ASSUME NEW status, DOMAIN status = DOMAIN Name
    PROVE  Library(status) \in Seq(DOMAIN Name)
<1> DEFINE D == {d \in DOMAIN status : status[d] \in {"processing", "completed"}}
           B == {p \in D \X D : Uploaded[p[1]] < Uploaded[p[2]]}
           at == Ranked(D, LAMBDA x, y : Uploaded[x] < Uploaded[y])
<1>1. D \subseteq DOMAIN Name /\ IsFiniteSet(D)
  BY FS_Subset, RankAssumption
<1>2. Library(status) = at
  BY DEF Library
<1>3. at = [n \in 1 .. Cardinality(D) |-> at[n]]
  <2> DEFINE place(n) ==
          CHOOSE i \in D : Cardinality({j \in D : Uploaded[j] < Uploaded[i]}) = n - 1
  <2>1. at = [n \in 1 .. Cardinality(D) |-> place(n)]
    BY DEF Ranked
  <2> HIDE DEF at, place
  <2> QED BY <2>1
<1>4. ASSUME NEW n \in 1 .. Cardinality(D), NEW i \in D,
             Cardinality({j \in D : Uploaded[j] < Uploaded[i]}) = n - 1
      PROVE  at[n] \in D /\ Cardinality({j \in D : Uploaded[j] < Uploaded[at[n]]}) = n - 1
  <2>1. at[n] = CHOOSE x \in D : Cardinality({j \in D : Uploaded[j] < Uploaded[x]}) = n - 1
    BY DEF Ranked
  <2> HIDE DEF at, D
  <2> QED BY <1>4, <2>1
<1> HIDE DEF at, D
<1>5. Orders(B, D)
  BY <1>1, RankAssumption DEF Orders
<1>6. \A i \in D : {j \in D : <<j, i>> \in B} = {j \in D : Uploaded[j] < Uploaded[i]}
  OBVIOUS
<1> HIDE DEF B
<1>7. \A n \in 1 .. Cardinality(D), i \in D :
         Cardinality({j \in D : <<j, i>> \in B}) = n - 1
         => at[n] \in D /\ Cardinality({j \in D : <<j, at[n]>> \in B}) = n - 1
  BY <1>4, <1>6
<1>8. Lists(at, D)
  BY <1>1, <1>3, <1>5, <1>7, RankedList
<1>9. Cardinality(D) \in Nat
  BY <1>1, FS_CardinalityType
<1>10. at \in Seq(DOMAIN Name)
  <2>1. at \in [1 .. Cardinality(D) -> D]
    BY <1>8 DEF Lists
  <2>2. at \in Seq(D)
    BY <1>9, <2>1
  <2> QED BY <1>1, <2>2
<1> QED BY <1>2, <1>10

LEMMA PagesAreIndexed == IsIndex(PageEntries)
<1> DEFINE p == Entry("/dashboard", "page", <<<<"dash">>>>, <<<<"org">>>>,
                      <<<<"risk">>>>, {"home"}, 8)
           q == Entry("/documents", "page", <<<<"docs">>>>, <<<<"org">>>>,
                      <<<<"type">>>>, {"files"}, 2)
<1>1. HasSize(<<<<"dash">>>>) /\ HasSize(<<<<"docs">>>>) /\ "page" \in Kinds
  BY DEF HasSize, Kinds
<1>2. IsEntry(p) /\ IsEntry(q)
  <2>1. IsEntry(p)
    BY <1>1, EntryIsEntry
  <2>2. IsEntry(q)
    BY <1>1, EntryIsEntry
  <2> QED BY <2>1, <2>2
<1>3. PageEntries = <<p, q>>
  BY DEF PageEntries
<1> HIDE DEF p, q
<1>4. <<p, q>> \in Seq({p, q})
  OBVIOUS
<1> QED BY <1>2, <1>3, <1>4 DEF IsIndex

LEMMA DocumentsAreIndexed ==
    ASSUME NEW docs \in Seq(DOMAIN Name), NEW status
    PROVE  IsIndex(DocumentEntries(docs, status))
<1> DEFINE entry(i) == Entry(docs[i], "document", Name[docs[i]], <<<<"type">>>>,
                             <<<<"verdict">>>>, {docs[i], status[docs[i]]}, i)
           X == {entry(i) : i \in DOMAIN docs}
<1>1. \A i \in DOMAIN docs : i \in Int /\ HasSize(Name[docs[i]])
  BY RankAssumption, TextHasSize
<1>2. \A i \in DOMAIN docs : IsEntry(entry(i))
  <2>1. "document" \in Kinds
    BY DEF Kinds
  <2> QED BY <1>1, <2>1, EntryIsEntry
<1>3. DocumentEntries(docs, status) = [i \in DOMAIN docs |-> entry(i)]
  BY DEF DocumentEntries
<1> HIDE DEF entry
<1>4. [i \in DOMAIN docs |-> entry(i)] \in Seq(X)
  <2>1. Len(docs) \in Nat /\ DOMAIN docs = 1 .. Len(docs)
    OBVIOUS
  <2> QED BY <2>1
<1> QED BY <1>2, <1>3, <1>4 DEF IsIndex

LEMMA SectionsAreIndexed ==
    ASSUME NEW docs, NEW status
    PROVE  IsIndex(SectionEntries(docs, status))
<1> DEFINE Hosts(page) == {d \in ToSet(docs) : Pages[d] >= page /\ status[d] = "completed"}
           Host(page) == CHOOSE d \in Hosts(page) : \A x \in Hosts(page) : Pages[x] <= Pages[d]
           entry(page) == Entry(<<"section", page>>, "section", Blocks[page],
                                Name[Host(page)], <<<<"clause">>>>, {"section"}, 0)
           Of(page) == IF Hosts(page) = {} THEN <<>> ELSE <<entry(page)>>
           X == {entry(page) : page \in DOMAIN Blocks}
           parts == [page \in DOMAIN Blocks |-> Of(page)]
<1>1. Len(Blocks) \in Nat /\ DOMAIN Blocks = 1 .. Len(Blocks)
      /\ \A page \in DOMAIN Blocks : HasSize(Blocks[page])
  BY RankAssumption, TextHasSize
<1>2. \A page \in DOMAIN Blocks : IsEntry(entry(page))
  <2>1. "section" \in Kinds
    BY DEF Kinds
  <2> HIDE DEF Host
  <2> QED BY <1>1, <2>1, EntryIsEntry
<1>3. SectionEntries(docs, status) = FlattenSeq(parts)
  BY DEF SectionEntries
<1> HIDE DEF entry, Hosts
<1>4. \A page \in DOMAIN Blocks : Of(page) \in Seq(X)
  <2>1. \A page \in DOMAIN Blocks : entry(page) \in X
    OBVIOUS
  <2>2. <<>> \in Seq(X) /\ \A e \in X : <<e>> \in Seq(X)
    OBVIOUS
  <2> HIDE DEF X
  <2> QED BY <2>1, <2>2
<1> HIDE DEF Of, X
<1>5. parts \in Seq(Seq(X))
  BY <1>1, <1>4
<1> HIDE DEF parts
<1>6. FlattenSeq(parts) \in Seq(X)
  BY <1>5, FlatType
<1>7. \A e \in X : IsEntry(e)
  BY <1>2 DEF X
<1> QED BY <1>3, <1>6, <1>7 DEF IsIndex

LEMMA DetailsAreIndexed ==
    ASSUME NEW docs \in Seq(DOMAIN Name), NEW status
    PROVE  IsIndex(DetailEntries(docs, status))
<1> DEFINE newest == Reverse(docs)
           completed == {i \in DOMAIN newest : status[newest[i]] = "completed"}
           analysed == Picked(newest, completed)
           deep == SubSeq(analysed, 1, IF Len(analysed) < DetailDepth
                                       THEN Len(analysed) ELSE DetailDepth)
           finding(d) == Entry(<<"finding", d>>, "finding", Findings[d], Name[d],
                               <<<<"renewal">>>>, {"risk"}, 0)
           field(d) == Entry(<<"field", d>>, "field", Fields[d], Name[d],
                             <<<<"months">>>>, {"extracted"}, 0)
           Of(d) == <<finding(d), field(d)>>
           X == {finding(d) : d \in DOMAIN Name} \cup {field(d) : d \in DOMAIN Name}
           parts == [i \in DOMAIN deep |-> Of(deep[i])]
<1>1. DetailEntries(docs, status) = FlattenSeq(parts)
  BY DEF DetailEntries
<1>2. deep \in Seq(DOMAIN Name)
  <2>1. newest \in Seq(DOMAIN Name)
    BY ReverseType
  <2> HIDE DEF newest
  <2>2. /\ completed \subseteq Nat /\ IsFiniteSet(completed)
        /\ \A i \in completed : newest[i] \in DOMAIN Name
    <3>1. Len(newest) \in Nat /\ DOMAIN newest = 1 .. Len(newest)
      BY <2>1
    <3>2. IsFiniteSet(DOMAIN newest)
      BY <3>1, FS_Interval
    <3> QED BY <2>1, <3>1, <3>2, FS_Subset
  <2> HIDE DEF completed
  <2>3. analysed \in Seq(DOMAIN Name)
    BY <2>2, PickedType
  <2> HIDE DEF analysed
  <2> QED BY <2>3, FirstOf, RankAssumption
<1> HIDE DEF deep
<1>3. \A d \in DOMAIN Name : IsEntry(finding(d)) /\ IsEntry(field(d))
  <2>1. "finding" \in Kinds /\ "field" \in Kinds
    BY DEF Kinds
  <2>2. \A d \in DOMAIN Name : HasSize(Findings[d]) /\ HasSize(Fields[d])
    BY RankAssumption, TextHasSize
  <2>3. \A d \in DOMAIN Name : IsEntry(finding(d))
    BY <2>1, <2>2, EntryIsEntry
  <2>4. \A d \in DOMAIN Name : IsEntry(field(d))
    BY <2>1, <2>2, EntryIsEntry
  <2> QED BY <2>3, <2>4
<1> HIDE DEF finding, field
<1>4. \A d \in DOMAIN Name : Of(d) \in Seq(X)
  OBVIOUS
<1>5. \A e \in X : IsEntry(e)
  BY <1>3
<1> HIDE DEF Of, X
<1>6. parts \in Seq(Seq(X))
  <2>1. Len(deep) \in Nat /\ DOMAIN deep = 1 .. Len(deep)
        /\ \A i \in 1 .. Len(deep) : deep[i] \in DOMAIN Name
    BY <1>2
  <2> QED BY <1>4, <2>1
<1> HIDE DEF parts
<1>7. FlattenSeq(parts) \in Seq(X)
  BY <1>6, FlatType
<1> QED BY <1>1, <1>5, <1>7 DEF IsIndex

LEMMA CorpusIsIndex ==
    ASSUME NEW status, DOMAIN status = DOMAIN Name
    PROVE  IsIndex(Corpus(status))
<1> DEFINE docs == Library(status)
<1>1. docs \in Seq(DOMAIN Name)
  BY LibraryType
<1>2. Corpus(status) = PageEntries \o DocumentEntries(docs, status)
                           \o SectionEntries(docs, status) \o DetailEntries(docs, status)
  BY DEF Corpus
<1> HIDE DEF docs
<1>3. IsIndex(PageEntries \o DocumentEntries(docs, status))
  BY <1>1, PagesAreIndexed, DocumentsAreIndexed, IndexJoins
<1>4. IsIndex(PageEntries \o DocumentEntries(docs, status) \o SectionEntries(docs, status))
  BY <1>3, SectionsAreIndexed, IndexJoins
<1> QED BY <1>1, <1>2, <1>4, DetailsAreIndexed, IndexJoins

LEMMA SuggestionsAreIndex ==
    ASSUME NEW status, DOMAIN status = DOMAIN Name
    PROVE  IsIndex(Suggestions(status))
<1> DEFINE newest == Reverse(DocumentEntries(Library(status), status))
           few == SubSeq(newest, 1, IF Len(newest) < 4 THEN Len(newest) ELSE 4)
<1>1. PICK X : /\ \A e \in X : IsEntry(e)
               /\ DocumentEntries(Library(status), status) \in Seq(X)
  BY LibraryType, DocumentsAreIndexed DEF IsIndex
<1>2. newest \in Seq(X)
  BY <1>1, ReverseType
<1>3. few \in Seq(X)
  <2> HIDE DEF newest
  <2> QED BY <1>2, FirstOf
<1>4. Suggestions(status) = PageEntries \o few
  BY DEF Suggestions
<1> HIDE DEF few
<1> QED BY <1>1, <1>3, <1>4, PagesAreIndexed, IndexJoins DEF IsIndex

(***************************************************************************)
(* groupHits: the rows of a kind are its distinct keys.                    *)
(***************************************************************************)
KeysOf(s, kind) == {Key(s[i]) : i \in {j \in DOMAIN s : s[j].kind = kind}}

LEMMA KeysAreOfTheirKind ==
    \A e, x : Key(e) = Key(x) => e.kind = x.kind
BY DEF Key

LEMMA KeysAreFinite ==
    ASSUME NEW s, IsIndex(s), NEW kind
    PROVE  IsFiniteSet(KeysOf(s, kind)) /\ Cardinality(KeysOf(s, kind)) \in Nat
<1> DEFINE P == {j \in DOMAIN s : s[j].kind = kind}
           f == [i \in P |-> Key(s[i])]
<1>1. IsFiniteSet(P)
  <2>1. Len(s) \in Nat /\ P \in SUBSET (1 .. Len(s))
    BY DEF IsIndex
  <2>2. IsFiniteSet(1 .. Len(s))
    BY <2>1, FS_Interval
  <2> QED BY <2>1, <2>2, FS_Subset
<1>2. f \in Surjection(P, KeysOf(s, kind))
  BY DEF Surjection, KeysOf
<1> HIDE DEF f, P
<1>3. IsFiniteSet(KeysOf(s, kind))
  BY <1>1, <1>2, FS_Surjection
<1> QED BY <1>3, FS_CardinalityType

\* Every key has a first place.
LEMMA FirstPlace ==
    ASSUME NEW s, IsIndex(s), NEW i \in DOMAIN s
    PROVE  \E j \in DOMAIN s : /\ Key(s[j]) = Key(s[i])
                               /\ \A k \in 1 .. j - 1 : Key(s[k]) # Key(s[j])
<1> DEFINE P == {j \in DOMAIN s : Key(s[j]) = Key(s[i])}
           R == OpToRel(<, Nat)
<1>1. Len(s) \in Nat /\ DOMAIN s = 1 .. Len(s) /\ P \subseteq Nat /\ i \in P
  BY DEF IsIndex
<1>2. IsWellFoundedOn(R, Nat)
  BY NatLessThanWellFounded
<1>3. \A x, y \in Nat : <<y, x>> \in R <=> y < x
  BY DEF OpToRel
<1> HIDE DEF R
<1>4. PICK j \in P : \A k \in P : ~ (<<k, j>> \in R)
  BY <1>1, <1>2, WFMin
<1>5. ASSUME NEW k \in 1 .. j - 1 PROVE Key(s[k]) # Key(s[j])
  <2>1. j \in 1 .. Len(s) /\ k \in Nat /\ k < j /\ k \in DOMAIN s
    BY <1>1
  <2>2. k \notin P
    BY <1>1, <1>3, <1>4, <2>1
  <2> QED BY <2>1, <2>2
<1> QED BY <1>5

LEMMA RowsAreKeys ==
    ASSUME NEW s, NEW X, s \in Seq(X), \A e \in X : IsEntry(e), NEW kind
    PROVE  /\ Rows(s, kind) \in Seq(X)
           /\ Len(Rows(s, kind)) = Cardinality(KeysOf(s, kind))
<1> DEFINE P == {i \in DOMAIN s : /\ s[i].kind = kind
                                  /\ \A j \in 1 .. i - 1 : Key(s[j]) # Key(s[i])}
           f == [i \in P |-> Key(s[i])]
<1>0. IsIndex(s)
  BY DEF IsIndex
<1>1. Len(s) \in Nat /\ DOMAIN s = 1 .. Len(s) /\ P \subseteq Nat
  OBVIOUS
<1>2. IsFiniteSet(P)
  <2>1. P \in SUBSET (1 .. Len(s)) /\ IsFiniteSet(1 .. Len(s))
    BY <1>1, FS_Interval
  <2> QED BY <2>1, FS_Subset
<1>3. Rows(s, kind) = Picked(s, P)
  BY DEF Rows
<1>4. Rows(s, kind) \in Seq(X) /\ Len(Rows(s, kind)) = Cardinality(P)
  <2>1. \A i \in P : s[i] \in X
    OBVIOUS
  <2>2. P \subseteq Nat
    BY <1>1
  <2> HIDE DEF P
  <2>3. Picked(s, P) \in Seq(X) /\ Len(Picked(s, P)) = Cardinality(P)
    BY <1>2, <2>1, <2>2, PickedType
  <2> QED BY <1>3, <2>3
<1>5. f \in Injection(P, KeysOf(s, kind))
  <2>1. f \in [P -> KeysOf(s, kind)]
    BY DEF KeysOf
  <2>2. ASSUME NEW i \in P, NEW j \in P, f[i] = f[j] PROVE i = j
    <3>1. i \in Nat /\ j \in Nat /\ Key(s[i]) = Key(s[j]) /\ i >= 1 /\ j >= 1
      BY <1>1, <2>2
    <3>2. ~ (i < j) /\ ~ (j < i)
      BY <3>1
    <3> QED BY <3>1, <3>2
  <2> HIDE DEF P, f
  <2> QED BY <2>1, <2>2 DEF Injection, IsInjective
<1>6. f \in Surjection(P, KeysOf(s, kind))
  <2>1. f \in [P -> KeysOf(s, kind)]
    BY DEF KeysOf
  <2>2. ASSUME NEW key \in KeysOf(s, kind) PROVE \E i \in P : f[i] = key
    <3>1. PICK i \in DOMAIN s : s[i].kind = kind /\ key = Key(s[i])
      BY DEF KeysOf
    <3>2. PICK j \in DOMAIN s : /\ Key(s[j]) = Key(s[i])
                                /\ \A k \in 1 .. j - 1 : Key(s[k]) # Key(s[j])
      BY <1>0, FirstPlace
    <3>3. s[j].kind = kind
      BY <3>1, <3>2, KeysAreOfTheirKind
    <3> QED BY <3>1, <3>2, <3>3
  <2> HIDE DEF P, f
  <2> QED BY <2>1, <2>2 DEF Surjection
<1>7. Cardinality(P) = Cardinality(KeysOf(s, kind))
  <2> HIDE DEF P, f
  <2>1. f \in Bijection(P, KeysOf(s, kind))
    BY <1>5, <1>6 DEF Bijection
  <2> QED BY <1>2, <2>1, FS_Bijection DEF ExistsBijection
<1> QED BY <1>4, <1>7

(***************************************************************************)
(* What the budget leaves to each kind: never nothing, as the caps of the  *)
(* kinds before it are below the cap on the whole.                         *)
(***************************************************************************)
LEMMA LeastOfThree ==
    ASSUME NEW c \in Nat \ {0}, NEW n \in Nat, NEW b \in Nat \ {0}
    PROVE  /\ AtMost(AtMost(c, n), b) \in Nat
           /\ AtMost(AtMost(c, n), b) <= c
           /\ AtMost(AtMost(c, n), b) <= n
           /\ AtMost(AtMost(c, n), b) = 0 <=> n = 0
           /\ AtMost(AtMost(c, n), b) <= b
BY DEF AtMost

LEMMA SomeIsLeft ==
    ASSUME NEW p \in Nat, NEW room \in Nat, p < room, NEW spent \in Nat,
           NEW b \in Nat, b >= room - spent, NEW c \in Nat, spent + c <= p,
           NEW t \in Nat, t <= c
    PROVE  b - t \in Nat \ {0} /\ b - t >= room - (spent + c)
OBVIOUS

LEMMA CapsLeaveRoom ==
    ASSUME NEW rows, \A k \in 1 .. 5 : Len(rows[k]) \in Nat
    PROVE  LET Take(k, budget) ==
                   AtMost(AtMost(GroupCap[KindOrder[k]], Len(rows[k])), budget)
               left[k \in 0 .. Len(KindOrder)] ==
                   IF k = 0 THEN TotalCap ELSE left[k - 1] - Take(k, left[k - 1])
           IN  \A k \in 1 .. 5 : /\ Take(k, left[k - 1]) \in Nat
                                 /\ Take(k, left[k - 1]) <= GroupCap[KindOrder[k]]
                                 /\ Take(k, left[k - 1]) <= Len(rows[k])
                                 /\ Take(k, left[k - 1]) = 0 <=> Len(rows[k]) = 0
<1> DEFINE Take(k, budget) ==
               AtMost(AtMost(GroupCap[KindOrder[k]], Len(rows[k])), budget)
           left[k \in 0 .. Len(KindOrder)] ==
               IF k = 0 THEN TotalCap ELSE left[k - 1] - Take(k, left[k - 1])
           b1 == TotalCap - Take(1, TotalCap)
           b2 == b1 - Take(2, b1)
           b3 == b2 - Take(3, b2)
           b4 == b3 - Take(4, b3)
           b5 == b4 - Take(5, b4)
           f == [k \in 0 .. 5 |-> CASE k = 0 -> TotalCap [] k = 1 -> b1 [] k = 2 -> b2
                                    [] k = 3 -> b3 [] k = 4 -> b4 [] k = 5 -> b5]
           Solves(g) == g = [k \in 0 .. Len(KindOrder) |->
                                IF k = 0 THEN TotalCap ELSE g[k - 1] - Take(k, g[k - 1])]
<1>k. Len(KindOrder) = 5 /\ DOMAIN KindOrder = 1 .. 5
  BY DEF KindOrder
<1> HIDE DEF Take
<1>1. Solves(f)
  <2>1. /\ f[0] = TotalCap /\ f[1] = b1 /\ f[2] = b2 /\ f[3] = b3 /\ f[4] = b4 /\ f[5] = b5
        /\ f = [k \in 0 .. 5 |-> f[k]]
    OBVIOUS
  <2>2. /\ f[1] = f[0] - Take(1, f[0]) /\ f[2] = f[1] - Take(2, f[1])
        /\ f[3] = f[2] - Take(3, f[2]) /\ f[4] = f[3] - Take(4, f[3])
        /\ f[5] = f[4] - Take(5, f[4])
    BY <2>1
  <2> HIDE DEF f, b1, b2, b3, b4, b5
  <2>3. \A k \in 0 .. 5 : f[k] = IF k = 0 THEN TotalCap ELSE f[k - 1] - Take(k, f[k - 1])
    <3> TAKE k \in 0 .. 5
    <3>1. k = 0 \/ k = 1 \/ k = 2 \/ k = 3 \/ k = 4 \/ k = 5
      OBVIOUS
    <3> QED BY <2>1, <2>2, <3>1
  <2> QED BY <1>k, <2>1, <2>3
<1>2. Solves(left)
  <2> HIDE DEF f
  <2> QED BY <1>1, Zenon
<1> HIDE DEF left
<1>3. /\ left[0] = TotalCap
      /\ \A k \in 1 .. 5 : left[k] = left[k - 1] - Take(k, left[k - 1])
  BY <1>k, <1>2
<1>4. /\ GroupCap["page"] \in Nat \ {0} /\ GroupCap["document"] \in Nat \ {0}
      /\ GroupCap["section"] \in Nat \ {0} /\ GroupCap["finding"] \in Nat \ {0}
      /\ GroupCap["field"] \in Nat \ {0} /\ TotalCap \in Nat
      /\ GroupCap["page"] + GroupCap["document"] + GroupCap["section"]
             + GroupCap["finding"] < TotalCap
      /\ KindOrder[1] = "page" /\ KindOrder[2] = "document" /\ KindOrder[3] = "section"
      /\ KindOrder[4] = "finding" /\ KindOrder[5] = "field"
  <2>1. /\ KindOrder[1] = "page" /\ KindOrder[2] = "document"
        /\ KindOrder[3] = "section" /\ KindOrder[4] = "finding"
        /\ KindOrder[5] = "field" /\ DOMAIN KindOrder = 1 .. 5
    BY DEF KindOrder
  <2>2. \A k \in 1 .. 5 : GroupCap[KindOrder[k]] \in Nat \ {0}
    BY <2>1, RankAssumption
  <2>3. /\ GroupCap[KindOrder[1]] \in Nat \ {0} /\ GroupCap[KindOrder[2]] \in Nat \ {0}
        /\ GroupCap[KindOrder[3]] \in Nat \ {0} /\ GroupCap[KindOrder[4]] \in Nat \ {0}
        /\ GroupCap[KindOrder[5]] \in Nat \ {0}
    BY <2>2
  <2> QED BY <2>1, <2>3, RankAssumption
<1>5. \A k \in 1 .. 5 : GroupCap[KindOrder[k]] \in Nat \ {0}
  <2> TAKE k \in 1 .. 5
  <2>1. k = 1 \/ k = 2 \/ k = 3 \/ k = 4 \/ k = 5
    OBVIOUS
  <2> QED BY <1>4, <2>1
<1>6. ASSUME NEW k \in 1 .. 5, NEW budget \in Nat \ {0}
      PROVE  /\ Take(k, budget) \in Nat /\ Take(k, budget) <= GroupCap[KindOrder[k]]
             /\ Take(k, budget) <= Len(rows[k])
             /\ Take(k, budget) = 0 <=> Len(rows[k]) = 0
             /\ Take(k, budget) <= budget
  <2>1. GroupCap[KindOrder[k]] \in Nat \ {0} /\ Len(rows[k]) \in Nat
    BY <1>5
  <2> QED BY <2>1, LeastOfThree DEF Take
<1>7. \A k \in 1 .. 5 : left[k - 1] \in Nat \ {0}
  <2> DEFINE p == GroupCap["page"]
             d == GroupCap["document"]
             c == GroupCap["section"]
             e == GroupCap["finding"]
  <2>0. /\ p \in Nat /\ d \in Nat /\ c \in Nat /\ e \in Nat /\ TotalCap \in Nat
        /\ p + d + c + e < TotalCap
        /\ GroupCap[KindOrder[1]] = p /\ GroupCap[KindOrder[2]] = d
        /\ GroupCap[KindOrder[3]] = c /\ GroupCap[KindOrder[4]] = e
    BY <1>4
  <2> HIDE DEF p, d, c, e
  <2>1. left[0] \in Nat \ {0} /\ left[0] = TotalCap
    BY <1>3, <2>0
  <2>2. ASSUME NEW k \in 1 .. 4, left[k - 1] \in Nat \ {0}, NEW spent \in Nat,
               left[k - 1] >= TotalCap - spent,
               spent + GroupCap[KindOrder[k]] <= p + d + c + e
        PROVE  /\ left[k] \in Nat \ {0}
               /\ left[k] >= TotalCap - (spent + GroupCap[KindOrder[k]])
    <3> DEFINE t == Take(k, left[k - 1])
               b == left[k - 1]
               m == GroupCap[KindOrder[k]]
               all == p + d + c + e
    <3>1. k \in 1 .. 5 /\ left[k] = b - t /\ b \in Nat /\ b >= TotalCap - spent
      BY <1>3, <2>2
    <3>2. t \in Nat /\ t <= m
      BY <1>6, <2>2, <3>1
    <3>3. m \in Nat /\ all \in Nat /\ TotalCap \in Nat /\ all < TotalCap
          /\ spent + m <= all
      <4>1. m \in Nat
        BY <1>5, <3>1
      <4>2. all \in Nat /\ TotalCap \in Nat /\ all < TotalCap
        <5>1. p + d \in Nat /\ c + e \in Nat /\ p + d + c + e = (p + d) + (c + e)
          BY <2>0
        <5> QED BY <2>0, <5>1
      <4>3. spent + m <= all
        BY <2>2
      <4> QED BY <4>1, <4>2, <4>3
    <3> HIDE DEF t, b, m, all
    <3>4. b - t \in Nat \ {0} /\ b - t >= TotalCap - (spent + m)
      BY <3>1, <3>2, <3>3, SomeIsLeft
    <3> QED BY <3>1, <3>4 DEF m
  <2>3. left[1] \in Nat \ {0} /\ left[1] >= TotalCap - (0 + p)
    <3>1. 1 - 1 = 0 /\ 1 \in 1 .. 4 /\ left[0] >= TotalCap - 0 /\ 0 + p <= p + d + c + e
      BY <2>0, <2>1
    <3> QED BY <2>0, <2>1, <2>2, <3>1
  <2>4. left[2] \in Nat \ {0} /\ left[2] >= TotalCap - (p + d)
    <3>1. 2 - 1 = 1 /\ 2 \in 1 .. 4 /\ left[1] >= TotalCap - p /\ p + d <= p + d + c + e
      BY <2>0, <2>3
    <3> QED BY <2>0, <2>2, <2>3, <3>1
  <2>5. left[3] \in Nat \ {0} /\ left[3] >= TotalCap - (p + d + c)
    <3>1. 3 - 1 = 2 /\ 3 \in 1 .. 4 /\ p + d \in Nat /\ p + d + c <= p + d + c + e
      BY <2>0
    <3> QED BY <2>0, <2>2, <2>4, <3>1
  <2>6. left[4] \in Nat \ {0}
    <3>1. 4 - 1 = 3 /\ 4 \in 1 .. 4 /\ p + d + c \in Nat /\ p + d + c + e <= p + d + c + e
      BY <2>0
    <3> QED BY <2>0, <2>2, <2>5, <3>1
  <2> TAKE k \in 1 .. 5
  <2>11. k - 1 = 0 \/ k - 1 = 1 \/ k - 1 = 2 \/ k - 1 = 3 \/ k - 1 = 4
    OBVIOUS
  <2> QED BY <2>1, <2>3, <2>4, <2>5, <2>6, <2>11
<1>8. \A k \in 1 .. 5 : /\ Take(k, left[k - 1]) \in Nat
                        /\ Take(k, left[k - 1]) <= GroupCap[KindOrder[k]]
                        /\ Take(k, left[k - 1]) <= Len(rows[k])
                        /\ Take(k, left[k - 1]) = 0 <=> Len(rows[k]) = 0
  <2> TAKE k \in 1 .. 5
  <2>1. left[k - 1] \in Nat \ {0}
    BY <1>7
  <2> QED BY <1>6, <2>1
<1> QED BY <1>8, Zenon DEF left, Take

IsGroups(g, s) ==
    /\ DOMAIN g = 1 .. 5
    /\ \A k \in 1 .. 5 :
           /\ g[k].kind = KindOrder[k]
           /\ g[k].more \in Nat /\ Len(g[k].hits) \in Nat
           /\ g[k].more + Len(g[k].hits) = Cardinality(KeysOf(s, KindOrder[k]))
           /\ Len(g[k].hits) <= GroupCap[KindOrder[k]]
           /\ g[k].hits = <<>> <=> KeysOf(s, KindOrder[k]) = {}

LEMMA RowsOfIndex ==
    ASSUME NEW s, IsIndex(s), NEW kind
    PROVE  \E X : /\ Rows(s, kind) \in Seq(X)
                  /\ Len(Rows(s, kind)) = Cardinality(KeysOf(s, kind))
<1>1. PICK X : (\A e \in X : IsEntry(e)) /\ s \in Seq(X)
  BY DEF IsIndex
<1> QED BY <1>1, RowsAreKeys

LEMMA NoKeys ==
    ASSUME NEW s, IsIndex(s), NEW kind
    PROVE  Cardinality(KeysOf(s, kind)) = 0 <=> KeysOf(s, kind) = {}
<1>1. IsFiniteSet(KeysOf(s, kind))
  BY KeysAreFinite
<1> QED BY <1>1, FS_EmptySet

LEMMA Cut ==
    ASSUME NEW X, NEW r \in Seq(X), NEW t \in Nat, t <= Len(r)
    PROVE  /\ Len(SubSeq(r, 1, t)) = t
           /\ SubSeq(r, 1, t) = <<>> <=> t = 0
<1>1. Len(r) \in Nat /\ (IF Len(r) < t THEN Len(r) ELSE t) = t
  OBVIOUS
<1>2. SubSeq(r, 1, t) \in Seq(X) /\ Len(SubSeq(r, 1, t)) = t
  BY <1>1, FirstOf
<1> QED BY <1>2, EmptySeq

LEMMA GroupsShape ==
    ASSUME NEW s, IsIndex(s)
    PROVE  \E g : /\ IsGroups(g, s)
                  /\ GroupHits(s) = Picked(g, {k \in 1 .. 5 : g[k].hits # <<>>})
<1> DEFINE rows == [k \in DOMAIN KindOrder |-> Rows(s, KindOrder[k])]
           Take(k, budget) ==
               AtMost(AtMost(GroupCap[KindOrder[k]], Len(rows[k])), budget)
           left[k \in 0 .. Len(KindOrder)] ==
               IF k = 0 THEN TotalCap ELSE left[k - 1] - Take(k, left[k - 1])
           g == [k \in DOMAIN KindOrder |->
                    [kind |-> KindOrder[k],
                     more |-> Len(rows[k]) - Take(k, left[k - 1]),
                     hits |-> SubSeq(rows[k], 1, Take(k, left[k - 1]))]]
<1>1. GroupHits(s) = Picked(g, {k \in DOMAIN g : g[k].hits # <<>>})
  BY DEF GroupHits
<1>2. DOMAIN KindOrder = 1 .. 5
  BY DEF KindOrder
<1>3. \A k \in 1 .. 5 : /\ rows[k] = Rows(s, KindOrder[k])
                        /\ Len(rows[k]) = Cardinality(KeysOf(s, KindOrder[k]))
                        /\ Len(rows[k]) \in Nat
                        /\ \E X : rows[k] \in Seq(X)
  BY <1>2, RowsOfIndex, KeysAreFinite
<1> HIDE DEF rows
<1>4. \A k \in 1 .. 5 : /\ Take(k, left[k - 1]) \in Nat
                        /\ Take(k, left[k - 1]) <= GroupCap[KindOrder[k]]
                        /\ Take(k, left[k - 1]) <= Len(rows[k])
                        /\ Take(k, left[k - 1]) = 0 <=> Len(rows[k]) = 0
  <2>1. \A k \in 1 .. 5 : Len(rows[k]) \in Nat
    BY <1>3
  <2> QED BY <2>1, CapsLeaveRoom
<1> HIDE DEF Take, left
<1>5. IsGroups(g, s)
  <2>1. DOMAIN g = 1 .. 5
    BY <1>2
  <2>2. ASSUME NEW k \in 1 .. 5
        PROVE  /\ g[k].kind = KindOrder[k]
               /\ g[k].more \in Nat /\ Len(g[k].hits) \in Nat
               /\ g[k].more + Len(g[k].hits) = Cardinality(KeysOf(s, KindOrder[k]))
               /\ Len(g[k].hits) <= GroupCap[KindOrder[k]]
               /\ g[k].hits = <<>> <=> KeysOf(s, KindOrder[k]) = {}
    <3> DEFINE t == Take(k, left[k - 1])
    <3>1. /\ g[k].kind = KindOrder[k] /\ g[k].more = Len(rows[k]) - t
          /\ g[k].hits = SubSeq(rows[k], 1, t)
      BY <1>2
    <3>2. t \in Nat /\ t <= GroupCap[KindOrder[k]] /\ t <= Len(rows[k])
      BY <1>4
    <3>3. t = 0 <=> Len(rows[k]) = 0
      BY <1>4
    <3> HIDE DEF t, g
    <3>4. PICK X : rows[k] \in Seq(X)
      BY <1>3
    <3>5. Len(SubSeq(rows[k], 1, t)) = t /\ (SubSeq(rows[k], 1, t) = <<>> <=> t = 0)
      BY <3>2, <3>4, Cut
    <3>6. Len(rows[k]) \in Nat /\ Len(rows[k]) = Cardinality(KeysOf(s, KindOrder[k]))
      BY <1>3
    <3>7. Len(rows[k]) = 0 <=> KeysOf(s, KindOrder[k]) = {}
      BY <3>6, NoKeys
    <3> QED BY <3>1, <3>2, <3>3, <3>5, <3>6, <3>7
  <2> HIDE DEF g
  <2> QED BY <2>1, <2>2 DEF IsGroups
<1>6. GroupHits(s) = Picked(g, {k \in 1 .. 5 : g[k].hits # <<>>})
  <2>1. DOMAIN g = 1 .. 5
    BY <1>2
  <2> HIDE DEF g
  <2> QED BY <1>1, <2>1
<1> HIDE DEF g
<1> QED BY <1>5, <1>6

LEMMA KindsAreListed ==
    /\ \A j, k \in 1 .. 5 : KindOrder[j] = KindOrder[k] => j = k
    /\ \A kind \in Kinds : \E k \in 1 .. 5 : KindOrder[k] = kind
<1>1. /\ KindOrder[1] = "page" /\ KindOrder[2] = "document" /\ KindOrder[3] = "section"
      /\ KindOrder[4] = "finding" /\ KindOrder[5] = "field"
  BY DEF KindOrder
<1>2. \A k \in 1 .. 5 : k = 1 \/ k = 2 \/ k = 3 \/ k = 4 \/ k = 5
  OBVIOUS
<1>3. 1 \in 1 .. 5 /\ 2 \in 1 .. 5 /\ 3 \in 1 .. 5 /\ 4 \in 1 .. 5 /\ 5 \in 1 .. 5
  OBVIOUS
<1>4. \A j, k \in 1 .. 5 : KindOrder[j] = KindOrder[k] => j = k
  BY <1>1, <1>2
<1>5. \A kind \in Kinds : \E k \in 1 .. 5 : KindOrder[k] = kind
  BY <1>1, <1>3 DEF Kinds
<1> QED BY <1>4, <1>5

\* Keys of two kinds are different keys.
LEMMA KeysAreApart ==
    ASSUME NEW s, NEW a, NEW b, a # b
    PROVE  KeysOf(s, a) \cap KeysOf(s, b) = {}
BY KeysAreOfTheirKind DEF KeysOf

LEMMA ApartAddUp ==
    ASSUME NEW S, IsFiniteSet(S), NEW T, IsFiniteSet(T), S \cap T = {}
    PROVE  /\ IsFiniteSet(S \cup T)
           /\ Cardinality(S \cup T) = Cardinality(S) + Cardinality(T)
<1>1. Cardinality(S) \in Nat /\ Cardinality(T) \in Nat
  BY FS_CardinalityType
<1>2. Cardinality(S \cap T) = 0
  BY FS_EmptySet
<1>3. /\ IsFiniteSet(S \cup T)
      /\ Cardinality(S \cup T) =
             Cardinality(S) + Cardinality(T) - Cardinality(S \cap T)
  BY FS_Union
<1> QED BY <1>1, <1>2, <1>3

(***************************************************************************)
(* The counts of some of the kinds add up to the keys of these kinds.      *)
(***************************************************************************)
LEMMA CountsAddUp ==
    ASSUME NEW s, IsIndex(s), NEW P \in SUBSET (1 .. 5), NEW at, Lists(at, P),
           NEW n \in Nat, n = Cardinality(P)
    PROVE  Total([i \in 1 .. n |-> Cardinality(KeysOf(s, KindOrder[at[i]]))]) =
               Cardinality(UNION {KeysOf(s, KindOrder[k]) : k \in P})
<1> DEFINE K(i) == KeysOf(s, KindOrder[at[i]])
           counts == [i \in 1 .. n |-> Cardinality(K(i))]
           UpTo(m) == UNION {K(i) : i \in 1 .. m}
<1>1. \A i \in 1 .. n : IsFiniteSet(K(i)) /\ Cardinality(K(i)) \in Nat
  BY KeysAreFinite
<1>2. counts \in Seq(Int) /\ Len(counts) = n /\ \A i \in 1 .. n : counts[i] = Cardinality(K(i))
  BY <1>1
<1>3. PICK f \in [0 .. n -> Int] :
          /\ f[0] = 0 /\ \A i \in 1 .. n : f[i] = f[i - 1] + counts[i]
          /\ Total(counts) = f[n]
  BY <1>2, TotalUnfolds
<1>4. \A i, j \in 1 .. n : i # j => K(i) \cap K(j) = {}
  <2> SUFFICES ASSUME NEW i \in 1 .. n, NEW j \in 1 .. n, i # j PROVE K(i) \cap K(j) = {}
    OBVIOUS
  <2>1. at[i] \in 1 .. 5 /\ at[j] \in 1 .. 5 /\ at[i] # at[j]
    BY DEF Lists
  <2>2. KindOrder[at[i]] # KindOrder[at[j]]
    BY <2>1, KindsAreListed
  <2> QED BY <2>2, KeysAreApart
<1>5. UpTo(n) = UNION {KeysOf(s, KindOrder[k]) : k \in P}
  <2>1. \A i \in 1 .. n : at[i] \in P
    BY DEF Lists
  <2>2. \A k \in P : \E i \in 1 .. n : at[i] = k
    BY DEF Lists
  <2>3. UpTo(n) \subseteq UNION {KeysOf(s, KindOrder[k]) : k \in P}
    BY <2>1
  <2>4. UNION {KeysOf(s, KindOrder[k]) : k \in P} \subseteq UpTo(n)
    BY <2>2
  <2> QED BY <2>3, <2>4
<1> HIDE DEF K, counts
<1> DEFINE Added == {m \in Nat : m <= n => /\ IsFiniteSet(UpTo(m))
                                           /\ f[m] = Cardinality(UpTo(m))}
<1>6. 0 \in Added
  <2>1. UpTo(0) = {}
    OBVIOUS
  <2> QED BY <1>3, <2>1, FS_EmptySet
<1>7. ASSUME NEW m \in Added PROVE m + 1 \in Added
  <2>1. m \in Nat /\ m + 1 \in Nat
    OBVIOUS
  <2>2. ASSUME m + 1 <= n
        PROVE  IsFiniteSet(UpTo(m + 1)) /\ f[m + 1] = Cardinality(UpTo(m + 1))
    <3>1. /\ IsFiniteSet(UpTo(m)) /\ f[m] = Cardinality(UpTo(m))
          /\ m + 1 \in 1 .. n /\ (m + 1) - 1 = m
      BY <2>1, <2>2
    <3>2. UpTo(m + 1) = UpTo(m) \cup K(m + 1)
      <4>1. 1 .. m + 1 = (1 .. m) \cup {m + 1}
        BY <2>1
      <4> QED BY <4>1
    <3>3. UpTo(m) \cap K(m + 1) = {}
      <4>1. \A i \in 1 .. m : i \in 1 .. n /\ i # m + 1
        BY <2>1, <2>2
      <4>2. \A i \in 1 .. m : K(i) \cap K(m + 1) = {}
        BY <1>4, <3>1, <4>1
      <4> QED BY <4>2
    <3>4. f[m + 1] = f[m] + Cardinality(K(m + 1))
      BY <1>2, <1>3, <3>1
    <3>5. IsFiniteSet(K(m + 1)) /\ Cardinality(K(m + 1)) \in Nat
      BY <1>1, <3>1
    <3> HIDE DEF UpTo
    <3>6. Cardinality(UpTo(m)) \in Nat
      BY <3>1, FS_CardinalityType
    <3>7. /\ IsFiniteSet(UpTo(m) \cup K(m + 1))
          /\ Cardinality(UpTo(m) \cup K(m + 1)) =
                 Cardinality(UpTo(m)) + Cardinality(K(m + 1))
      BY <3>1, <3>3, <3>5, <3>6, ApartAddUp
    <3> QED BY <3>1, <3>2, <3>4, <3>7
  <2> HIDE DEF UpTo
  <2> QED BY <2>1, <2>2
<1>8. n \in Added
  <2>1. Added \subseteq Nat
    OBVIOUS
  <2> HIDE DEF Added
  <2>2. Added = Nat
    BY <1>6, <1>7, <2>1, SetInduction
  <2> QED BY <2>2
<1>9. Total(counts) = Cardinality(UpTo(n))
  <2> HIDE DEF UpTo
  <2> QED BY <1>3, <1>8
<1> HIDE DEF UpTo
<1>10. Total(counts) = Cardinality(UNION {KeysOf(s, KindOrder[k]) : k \in P})
  BY <1>5, <1>9
<1> QED BY <1>10 DEF counts, K

(***************************************************************************)
(* groupHits loses no match: every key is shown, behind a "+n more" or     *)
(* counted by the row it collapsed into; every kind that has a hit shows   *)
(* one, and no kind shows more than its cap.                               *)
(***************************************************************************)
THEOREM GroupsAddUp == ASSUME NEW s, IsIndex(s) PROVE AddUp(GroupHits(s), s)
<1>1. PICK g : /\ IsGroups(g, s)
               /\ GroupHits(s) = Picked(g, {k \in 1 .. 5 : g[k].hits # <<>>})
  BY GroupsShape
<1> DEFINE P == {k \in 1 .. 5 : g[k].hits # <<>>}
           n == Cardinality(P)
           groups == GroupHits(s)
           counts == [i \in DOMAIN groups |-> groups[i].more + Len(groups[i].hits)]
           keys == {Key(s[i]) : i \in DOMAIN s}
<1>2. P \in SUBSET (1 .. 5) /\ P \subseteq Nat /\ IsFiniteSet(P) /\ n \in Nat
  <2>1. P \in SUBSET (1 .. 5) /\ IsFiniteSet(1 .. 5)
    <3>1. 1 \in Int /\ 5 \in Int
      OBVIOUS
    <3>2. IsFiniteSet(1 .. 5)
      BY <3>1, FS_Interval
    <3> QED BY <3>2
  <2> QED BY <2>1, FS_Subset, FS_CardinalityType
<1>3. \A k \in 1 .. 5 : k \in P <=> KeysOf(s, KindOrder[k]) # {}
  BY <1>1 DEF IsGroups
<1> HIDE DEF P
<1>4. PICK at : IsPicked(Picked(g, P), g, P, at)
  BY <1>2, PickedPlaces
<1>5. Lists(at, P) /\ groups = [i \in 1 .. n |-> g[at[i]]]
  <2>1. groups = Picked(g, P)
    BY <1>1 DEF P
  <2> QED BY <1>4, <2>1 DEF IsPicked
<1> HIDE DEF groups, n
<1>6. ASSUME NEW i \in 1 .. n
      PROVE  /\ at[i] \in P /\ at[i] \in 1 .. 5
             /\ groups[i].kind = KindOrder[at[i]]
             /\ groups[i].more + Len(groups[i].hits) = Cardinality(KeysOf(s, KindOrder[at[i]]))
             /\ Len(groups[i].hits) <= GroupCap[KindOrder[at[i]]]
  <2>1. at[i] \in P /\ at[i] \in 1 .. 5
    BY <1>2, <1>5 DEF Lists, n
  <2>2. groups[i] = g[at[i]]
    BY <1>5
  <2> QED BY <1>1, <2>1, <2>2 DEF IsGroups
<1>7. DOMAIN groups = 1 .. n
  BY <1>5
<1>8. keys = UNION {KeysOf(s, KindOrder[k]) : k \in P}
  <2>1. ASSUME NEW i \in DOMAIN s
        PROVE  \E k \in P : Key(s[i]) \in KeysOf(s, KindOrder[k])
    <3>1. s[i].kind \in Kinds
      BY DEF IsIndex, IsEntry
    <3>2. PICK k \in 1 .. 5 : KindOrder[k] = s[i].kind
      BY <3>1, KindsAreListed
    <3>3. Key(s[i]) \in KeysOf(s, KindOrder[k])
      BY <3>2 DEF KeysOf
    <3> QED BY <1>3, <3>3
  <2>2. keys \subseteq UNION {KeysOf(s, KindOrder[k]) : k \in P}
    BY <2>1
  <2>3. UNION {KeysOf(s, KindOrder[k]) : k \in P} \subseteq keys
    BY DEF KeysOf
  <2> HIDE DEF keys
  <2> QED BY <2>2, <2>3
<1>9. Total(counts) = Cardinality(keys)
  <2>1. counts = [i \in 1 .. n |-> Cardinality(KeysOf(s, KindOrder[at[i]]))]
    BY <1>6, <1>7
  <2>2. Total([i \in 1 .. n |-> Cardinality(KeysOf(s, KindOrder[at[i]]))]) =
            Cardinality(UNION {KeysOf(s, KindOrder[k]) : k \in P})
    BY <1>2, <1>5, CountsAddUp DEF n
  <2> HIDE DEF counts, keys
  <2> QED BY <1>8, <2>1, <2>2
<1>10. {groups[i].kind : i \in DOMAIN groups} = {s[i].kind : i \in DOMAIN s}
  <2>1. ASSUME NEW i \in 1 .. n PROVE \E j \in DOMAIN s : groups[i].kind = s[j].kind
    <3>1. KeysOf(s, KindOrder[at[i]]) # {}
      BY <1>3, <1>6
    <3> QED BY <1>6, <3>1 DEF KeysOf
  <2>2. ASSUME NEW j \in DOMAIN s PROVE \E i \in 1 .. n : groups[i].kind = s[j].kind
    <3>1. s[j].kind \in Kinds
      BY DEF IsIndex, IsEntry
    <3>2. PICK k \in 1 .. 5 : KindOrder[k] = s[j].kind
      BY <3>1, KindsAreListed
    <3>3. Key(s[j]) \in KeysOf(s, KindOrder[k])
      BY <3>2 DEF KeysOf
    <3>4. k \in P
      BY <1>3, <3>3
    <3>5. PICK i \in 1 .. n : at[i] = k
      BY <1>5, <3>4 DEF Lists, n
    <3> QED BY <1>6, <3>2, <3>5
  <2>3. {groups[i].kind : i \in 1 .. n} = {s[j].kind : j \in DOMAIN s}
    BY <2>1, <2>2
  <2> QED BY <1>7, <2>3
<1>11. \A i \in DOMAIN groups : Len(groups[i].hits) <= GroupCap[groups[i].kind]
  BY <1>6, <1>7
<1> QED BY <1>9, <1>10, <1>11 DEF AddUp, groups
=============================================================================
