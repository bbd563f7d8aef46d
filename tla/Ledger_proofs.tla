---------------------------- MODULE Ledger_proofs ----------------------------
(***************************************************************************)
(* The arithmetic that the other proofs rest on: what move() and the       *)
(* settlement of an agreement do to a wallet row, and what changing rows   *)
(* does to the aggregate SumTo.                                            *)
(*                                                                         *)
(* The library's induction theorems take an operator as a parameter; here  *)
(* the induction runs over sets of numbers, from the fact that < is        *)
(* well-founded.                                                           *)
(***************************************************************************)
EXTENDS Settlement, Sums, TLAPS, WellFoundedInduction, FiniteSetTheorems

-----------------------------------------------------------------------------
(* Aggregates.                                                             *)

\* A non-empty set of natural numbers has a least element.
LEMMA LeastElement ==
  ASSUME NEW T, T \subseteq Nat, T # {}
  PROVE  \E x \in T : \A y \in T : x <= y
<1> DEFINE R == {ss \in Nat \X Nat : ss[1] < ss[2]}
<1>1. IsWellFoundedOn(R, Nat)
  BY NatLessThanWellFounded, Zenon DEF OpToRel
<1>2. PICK x \in T : \A y \in T : ~ (<<y, x>> \in R)
  <2> HIDE DEF R
  <2> QED BY <1>1, WFMin
<1>3. \A y \in T : y \in Nat /\ x \in Nat /\ ~(y < x)
  BY <1>2
<1> QED BY <1>3

\* Induction up to n.
LEMMA UpTo ==
  ASSUME NEW n \in Nat, NEW S, 0 \in S, \A i \in 0..n : i \in S /\ i < n => i + 1 \in S
  PROVE  0..n \subseteq S
<1> DEFINE T == (0..n) \ S
<1> SUFFICES ASSUME T # {} PROVE FALSE
  OBVIOUS
<1>0. T \subseteq Nat
  OBVIOUS
<1>1. PICK x \in T : \A y \in T : x <= y
  <2> HIDE DEF T
  <2> QED BY <1>0, LeastElement
<1>2. x # 0 /\ x - 1 \in 0..n /\ x - 1 < n
  BY <1>1
<1>3. x - 1 \in S
  BY <1>1, <1>2
<1> QED BY <1>1, <1>3, <1>2

\* Induction over all natural numbers.
LEMMA Induct ==
  ASSUME NEW S, 0 \in S, \A n \in Nat : n \in S => n + 1 \in S
  PROVE  Nat \subseteq S
<1> SUFFICES ASSUME Nat \ S # {} PROVE FALSE
  OBVIOUS
<1>1. PICK x \in Nat \ S : \A y \in Nat \ S : x <= y
  BY LeastElement
<1>2. x # 0 /\ x - 1 \in Nat
  BY <1>1
<1>3. x - 1 \in S
  BY <1>1, <1>2
<1> QED BY <1>1, <1>3, <1>2

\* p holds the partial sums of f up to n.
IsPartial(p, f, n) ==
  p = [i \in 0..n |-> IF i = 0 THEN 0 ELSE p[i - 1] + f[i]]

\* The recursive function that SumTo chooses exists.
LEMMA PartialExists ==
  ASSUME NEW N \in Nat, NEW f \in [1..N -> Int]
  PROVE  \E p \in [0..N -> Int] : IsPartial(p, f, N)
<1> DEFINE S == {n \in Nat : n <= N => \E p \in [0..n -> Int] : IsPartial(p, f, n)}
<1>1. 0 \in S
  <2> DEFINE p == [i \in 0..0 |-> 0]
  <2>1. p \in [0..0 -> Int] /\ IsPartial(p, f, 0)
    BY DEF IsPartial
  <2> QED BY <2>1
<1>2. ASSUME NEW n \in Nat, n \in S PROVE n + 1 \in S
  <2> SUFFICES ASSUME n + 1 <= N
               PROVE  \E p \in [0..(n+1) -> Int] : IsPartial(p, f, n + 1)
    OBVIOUS
  <2>1. PICK p \in [0..n -> Int] : IsPartial(p, f, n)
    BY <1>2
  <2> DEFINE q == [i \in 0..(n+1) |-> IF i = n + 1 THEN p[n] + f[n + 1] ELSE p[i]]
  <2>2. q \in [0..(n+1) -> Int]
    OBVIOUS
  <2>3. \A i \in 0..(n+1) : q[i] = IF i = 0 THEN 0 ELSE q[i - 1] + f[i]
    BY <2>1 DEF IsPartial
  <2>4. IsPartial(q, f, n + 1)
    BY <2>2, <2>3 DEF IsPartial
  <2> QED BY <2>2, <2>4
<1>3. N \in S
  <2> HIDE DEF S
  <2> QED BY <1>1, <1>2, Induct
<1> QED BY <1>3

\* SumTo is the last of a sequence of partial sums.
LEMMA SumToPartial ==
  ASSUME NEW N \in Nat, NEW f \in [1..N -> Int]
  PROVE  \E p \in [0..N -> Int] :
            /\ p[0] = 0
            /\ \A i \in 0..(N - 1) : p[i + 1] = p[i] + f[i + 1]
            /\ SumTo(f, N) = p[N]
<1> DEFINE p == CHOOSE p : IsPartial(p, f, N)
<1>1. IsPartial(p, f, N)
  BY PartialExists
<1>2. SumTo(f, N) = p[N]
  BY DEF SumTo, IsPartial
<1> HIDE DEF p
<1>3. p = [i \in 0..N |-> IF i = 0 THEN 0 ELSE p[i - 1] + f[i]]
  BY <1>1 DEF IsPartial
<1>4. p[0] = 0 /\ \A i \in 0..(N - 1) : p[i + 1] = p[i] + f[i + 1]
  BY <1>3
<1> DEFINE S == {i \in 0..N : p[i] \in Int}
<1>5. 0..N \subseteq S
  <2>1. 0 \in S
    BY <1>4
  <2>2. \A i \in 0..N : i \in S /\ i < N => i + 1 \in S
    BY <1>4
  <2> HIDE DEF S
  <2> QED BY <2>1, <2>2, UpTo
<1>6. p \in [0..N -> Int]
  BY <1>3, <1>5
<1> QED BY <1>2, <1>4, <1>6

\* When one row contributes another amount, the aggregate changes by the
\* difference: what every proof about a sum over a table uses.
LEMMA SumToUpdate ==
  ASSUME NEW N \in Nat, NEW f \in [1..N -> Int], NEW k \in 1..N, NEW v \in Int
  PROVE  SumTo([f EXCEPT ![k] = v], N) = SumTo(f, N) - f[k] + v
<1> DEFINE g == [f EXCEPT ![k] = v]
<1>1. g \in [1..N -> Int] /\ g[k] = v /\ \A i \in 1..N : i # k => g[i] = f[i]
  OBVIOUS
<1> HIDE DEF g
<1>2. PICK p \in [0..N -> Int] : /\ p[0] = 0
                                 /\ \A i \in 0..(N - 1) : p[i + 1] = p[i] + f[i + 1]
                                 /\ SumTo(f, N) = p[N]
  BY SumToPartial
<1>3. PICK q \in [0..N -> Int] : /\ q[0] = 0
                                 /\ \A i \in 0..(N - 1) : q[i + 1] = q[i] + g[i + 1]
                                 /\ SumTo(g, N) = q[N]
  BY <1>1, SumToPartial
<1> DEFINE S == {i \in 0..N : q[i] = IF i < k THEN p[i] ELSE p[i] - f[k] + v}
<1>4. 0..N \subseteq S
  <2>1. 0 \in S
    BY <1>2, <1>3
  <2>2. ASSUME NEW i \in 0..N, i \in S, i < N PROVE i + 1 \in S
    <3>0. i \in 0..(N - 1) /\ i + 1 \in 1..N /\ i + 1 \in 0..N
      BY <2>2
    <3>1. p[i + 1] = p[i] + f[i + 1] /\ q[i + 1] = q[i] + g[i + 1]
      BY <1>2, <1>3, <3>0
    <3>5. q[i] = IF i < k THEN p[i] ELSE p[i] - f[k] + v
      BY <2>2
    <3>6. p[i] \in Int /\ q[i] \in Int /\ f[i + 1] \in Int /\ f[k] \in Int
      BY <3>0
    <3>7. g[i + 1] = IF i + 1 = k THEN v ELSE f[i + 1]
      BY <1>1, <3>0
    <3>8. q[i + 1] = IF i + 1 < k THEN p[i + 1] ELSE p[i + 1] - f[k] + v
      <4> HIDE DEF S
      <4>1. CASE i + 1 < k
        BY <3>1, <3>5, <3>7, <4>1
      <4>2. CASE i + 1 = k
        <5>0. f[i + 1] = f[k]
          BY <4>2, Zenon
        <5>1. i < k /\ f[i + 1] = f[k]
          <6>1. i \in Int /\ k \in Int
            OBVIOUS
          <6> QED BY <4>2, <5>0, <6>1
        <5>2. q[i + 1] = p[i] + v /\ p[i + 1] = p[i] + f[k]
          BY <3>1, <3>5, <3>7, <4>2, <5>1
        <5> QED BY <3>6, <4>2, <5>2
      <4>3. CASE k < i + 1
        <5>1. ~(i < k) /\ ~(i + 1 < k) /\ i + 1 # k
          BY <4>3
        <5>2. q[i + 1] = p[i] - f[k] + v + f[i + 1] /\ p[i + 1] = p[i] + f[i + 1]
          BY <3>1, <3>5, <3>7, <5>1
        <5>3. q[i + 1] = p[i + 1] - f[k] + v
          <6> DEFINE a == p[i]
                     b == f[i + 1]
                     c == f[k]
          <6>1. a \in Int /\ b \in Int /\ c \in Int
            BY <3>6
          <6>2. q[i + 1] = a - c + v + b /\ p[i + 1] = a + b
            BY <5>2
          <6> HIDE DEF a, b
          <6>3. q[i + 1] = (a + b) - c + v
            <7> HIDE DEF c
            <7> QED BY <6>1, <6>2
          <6> QED BY <6>2, <6>3
        <5> QED BY <5>1, <5>3
      <4> QED BY <4>1, <4>2, <4>3
    <3> QED BY <3>0, <3>8
  <2> HIDE DEF S
  <2> QED BY <2>1, <2>2, UpTo
<1>5. q[N] = p[N] - f[k] + v
  BY <1>4
<1> QED BY <1>2, <1>3, <1>5 DEF g

\* A sum of integers is an integer.
LEMMA SumToInt ==
  ASSUME NEW N \in Nat, NEW f \in [1..N -> Int]
  PROVE  SumTo(f, N) \in Int
BY SumToPartial

\* Over a table in which nothing contributes, the aggregate is zero.
LEMMA SumToZero ==
  ASSUME NEW N \in Nat
  PROVE  SumTo([k \in 1..N |-> 0], N) = 0
<1> DEFINE f == [k \in 1..N |-> 0]
<1>1. f \in [1..N -> Int] /\ \A i \in 0..(N - 1) : f[i + 1] = 0
  OBVIOUS
<1> HIDE DEF f
<1>2. PICK p \in [0..N -> Int] : /\ p[0] = 0
                                 /\ \A i \in 0..(N - 1) : p[i + 1] = p[i] + f[i + 1]
                                 /\ SumTo(f, N) = p[N]
  BY <1>1, SumToPartial
<1> DEFINE S == {i \in 0..N : p[i] = 0}
<1>3. 0..N \subseteq S
  <2>1. 0 \in S
    BY <1>2
  <2>2. \A i \in 0..N : i \in S /\ i < N => i + 1 \in S
    BY <1>1, <1>2
  <2> HIDE DEF S
  <2> QED BY <2>1, <2>2, UpTo
<1>4. p[N] = 0
  BY <1>3
<1> QED BY <1>2, <1>4 DEF f

\* The aggregate of natural numbers is one.
LEMMA SumToNat ==
  ASSUME NEW N \in Nat, NEW f \in [1..N -> Nat]
  PROVE  SumTo(f, N) \in Nat
<1>1. f \in [1..N -> Int]
  OBVIOUS
<1>2. PICK p \in [0..N -> Int] : /\ p[0] = 0
                                 /\ \A i \in 0..(N - 1) : p[i + 1] = p[i] + f[i + 1]
                                 /\ SumTo(f, N) = p[N]
  BY <1>1, SumToPartial
<1> DEFINE S == {i \in 0..N : p[i] \in Nat}
<1>3. 0..N \subseteq S
  <2>1. 0 \in S
    BY <1>2
  <2>2. ASSUME NEW i \in 0..N, i \in S, i < N PROVE i + 1 \in S
    <3>1. i \in 0..(N - 1) /\ i + 1 \in 1..N /\ i + 1 \in 0..N
      BY <2>2
    <3>2. p[i + 1] = p[i] + f[i + 1] /\ p[i] \in Nat /\ f[i + 1] \in Nat
      BY <1>2, <2>2, <3>1
    <3> QED
      BY <3>1, <3>2
  <2> HIDE DEF S
  <2> QED BY <2>1, <2>2, UpTo
<1> QED BY <1>2, <1>3

\* The aggregate of row-wise sums is the sum of the aggregates.
LEMMA SumToAdd ==
  ASSUME NEW N \in Nat, NEW f \in [1..N -> Int], NEW g \in [1..N -> Int]
  PROVE  SumTo([i \in 1..N |-> f[i] + g[i]], N) = SumTo(f, N) + SumTo(g, N)
<1> DEFINE h == [i \in 1..N |-> f[i] + g[i]]
<1>1. h \in [1..N -> Int] /\ \A i \in 1..N : h[i] = f[i] + g[i]
  OBVIOUS
<1> HIDE DEF h
<1>2. PICK p \in [0..N -> Int] : /\ p[0] = 0
                                 /\ \A i \in 0..(N - 1) : p[i + 1] = p[i] + f[i + 1]
                                 /\ SumTo(f, N) = p[N]
  BY SumToPartial
<1>3. PICK q \in [0..N -> Int] : /\ q[0] = 0
                                 /\ \A i \in 0..(N - 1) : q[i + 1] = q[i] + g[i + 1]
                                 /\ SumTo(g, N) = q[N]
  BY SumToPartial
<1>4. PICK r \in [0..N -> Int] : /\ r[0] = 0
                                 /\ \A i \in 0..(N - 1) : r[i + 1] = r[i] + h[i + 1]
                                 /\ SumTo(h, N) = r[N]
  BY <1>1, SumToPartial
<1> DEFINE S == {i \in 0..N : r[i] = p[i] + q[i]}
<1>5. 0..N \subseteq S
  <2>1. 0 \in S
    BY <1>2, <1>3, <1>4
  <2>2. ASSUME NEW i \in 0..N, i \in S, i < N PROVE i + 1 \in S
    <3>1. i \in 0..(N - 1) /\ i + 1 \in 1..N /\ i + 1 \in 0..N
      BY <2>2
    <3>2. /\ p[i + 1] = p[i] + f[i + 1] /\ q[i + 1] = q[i] + g[i + 1]
          /\ r[i + 1] = r[i] + (f[i + 1] + g[i + 1]) /\ r[i] = p[i] + q[i]
          /\ p[i] \in Int /\ q[i] \in Int /\ f[i + 1] \in Int /\ g[i + 1] \in Int
      BY <1>1, <1>2, <1>3, <1>4, <2>2, <3>1
    <3> QED
      BY <3>1, <3>2
  <2> HIDE DEF S
  <2> QED BY <2>1, <2>2, UpTo
<1> QED BY <1>2, <1>3, <1>4, <1>5 DEF h

\* What is handed out step by step adds up to what is gone in the end.
LEMMA SumToSteps ==
  ASSUME NEW N \in Nat, NEW r \in [0..N -> Int]
  PROVE  SumTo([i \in 1..N |-> r[i - 1] - r[i]], N) = r[0] - r[N]
<1> DEFINE h == [i \in 1..N |-> r[i - 1] - r[i]]
<1>1. h \in [1..N -> Int] /\ \A i \in 0..(N - 1) : h[i + 1] = r[i] - r[i + 1]
  OBVIOUS
<1> HIDE DEF h
<1>2. PICK p \in [0..N -> Int] : /\ p[0] = 0
                                 /\ \A i \in 0..(N - 1) : p[i + 1] = p[i] + h[i + 1]
                                 /\ SumTo(h, N) = p[N]
  BY <1>1, SumToPartial
<1> DEFINE S == {i \in 0..N : p[i] = r[0] - r[i]}
<1>3. 0..N \subseteq S
  <2>1. 0 \in S
    BY <1>2
  <2>2. ASSUME NEW i \in 0..N, i \in S, i < N PROVE i + 1 \in S
    <3>1. i \in 0..(N - 1) /\ i + 1 \in 0..N
      BY <2>2
    <3>2. /\ p[i + 1] = p[i] + (r[i] - r[i + 1]) /\ p[i] = r[0] - r[i]
          /\ r[0] \in Int /\ r[i] \in Int /\ r[i + 1] \in Int
      BY <1>1, <1>2, <2>2, <3>1
    <3> QED
      BY <3>1, <3>2
  <2> HIDE DEF S
  <2> QED BY <2>1, <2>2, UpTo
<1> QED BY <1>2, <1>3 DEF h

\* The element that a fold over s takes next.
Taken(s) == CHOOSE x \in s : TRUE

\* it holds the folds of f over the sets in D.
IsFold(it, f, D) == it = [s \in D |-> IF s = {} THEN 0 ELSE f[Taken(s)] + it[s \ {Taken(s)}]]

\* The recursive function that SumOver chooses.
LEMMA SumOverFold ==
  ASSUME NEW S, NEW f
  PROVE SumOver(f, S) = (CHOOSE it : IsFold(it, f, SUBSET S))[S]
BY DEF SumOver, MapThenSumSet, MapThenFoldSet, IsFold, Taken

\* The subsets of S with at most n elements.
UpToSize(S, n) == {s \in SUBSET S : Cardinality(s) <= n}

\* Taking an element leaves a smaller set.
LEMMA TakenLeavesLess ==
  ASSUME NEW S, IsFiniteSet(S), NEW s \in SUBSET S, s # {}
  PROVE  /\ Taken(s) \in s
         /\ IsFiniteSet(s)
         /\ s \ {Taken(s)} \in SUBSET S
         /\ Cardinality(s) \in Nat /\ Cardinality(s \ {Taken(s)}) = Cardinality(s) - 1
         /\ Cardinality(s) # 0
<1>1. Taken(s) \in s
  BY DEF Taken
<1>2. IsFiniteSet(s)
  BY FS_Subset
<1>3. Cardinality(s) \in Nat
  BY <1>2, FS_CardinalityType
<1>4. Cardinality(s \ {Taken(s)}) = Cardinality(s) - 1
  BY <1>1, <1>2, FS_RemoveElement
<1>5. Cardinality(s) # 0
  BY <1>2, FS_EmptySet
<1> QED
  BY <1>1, <1>2, <1>3, <1>4, <1>5

\* Only the empty set has no elements.
LEMMA SizeZero ==
  ASSUME NEW S, IsFiniteSet(S), NEW s \in UpToSize(S, 0)
  PROVE  s = {}
<1> SUFFICES ASSUME s # {} PROVE FALSE
  OBVIOUS
<1>1. s \in SUBSET S /\ Cardinality(s) <= 0
  BY DEF UpToSize
<1>2. Cardinality(s) \in Nat /\ Cardinality(s) # 0
  BY <1>1, TakenLeavesLess
<1> QED
  BY <1>1, <1>2

\* It exists.
LEMMA FoldExists ==
  ASSUME NEW S, IsFiniteSet(S), NEW f \in [S -> Int]
  PROVE  \E it \in [SUBSET S -> Int] : IsFold(it, f, SUBSET S)
<1> DEFINE P == {n \in Nat : \E it \in [UpToSize(S, n) -> Int] : IsFold(it, f, UpToSize(S, n))}
<1>1. 0 \in P
  <2> DEFINE it == [s \in UpToSize(S, 0) |-> 0]
  <2>1. \A s \in UpToSize(S, 0) : s = {}
    BY SizeZero
  <2>2. it \in [UpToSize(S, 0) -> Int] /\ IsFold(it, f, UpToSize(S, 0))
    BY <2>1 DEF IsFold
  <2> QED
    BY <2>2
<1>2. ASSUME NEW n \in Nat, n \in P PROVE n + 1 \in P
  <2>1. PICK it \in [UpToSize(S, n) -> Int] : IsFold(it, f, UpToSize(S, n))
    BY <1>2
  <2> DEFINE new == [s \in UpToSize(S, n + 1) |->
                       IF s \in UpToSize(S, n) THEN it[s]
                       ELSE f[Taken(s)] + it[s \ {Taken(s)}]]
  <2>2. \A s \in UpToSize(S, n + 1) : s # {} =>
          /\ Taken(s) \in S /\ s \ {Taken(s)} \in UpToSize(S, n)
          /\ s \ {Taken(s)} \in UpToSize(S, n + 1)
    BY TakenLeavesLess DEF UpToSize
  <2>3. \A s \in UpToSize(S, n + 1) : s = {} => s \in UpToSize(S, n)
    BY FS_EmptySet DEF UpToSize
  <2>4. new \in [UpToSize(S, n + 1) -> Int]
    <3>1. ASSUME NEW s \in UpToSize(S, n + 1)
          PROVE  (IF s \in UpToSize(S, n) THEN it[s]
                  ELSE f[Taken(s)] + it[s \ {Taken(s)}]) \in Int
      <4>1. CASE s \in UpToSize(S, n)
        BY <4>1
      <4>2. CASE s \notin UpToSize(S, n)
        <5>1. Taken(s) \in S /\ s \ {Taken(s)} \in UpToSize(S, n)
          BY <2>2, <2>3, <4>2
        <5>2. f[Taken(s)] \in Int /\ it[s \ {Taken(s)}] \in Int
          BY <5>1
        <5> QED
          BY <4>2, <5>2
      <4> QED
        BY <4>1, <4>2
    <3> QED
      BY <3>1
  <2>5. \A s \in UpToSize(S, n) :
          it[s] = IF s = {} THEN 0 ELSE f[Taken(s)] + it[s \ {Taken(s)}]
    BY <2>1 DEF IsFold
  <2>6. ASSUME NEW s \in UpToSize(S, n + 1)
        PROVE  new[s] = IF s = {} THEN 0 ELSE f[Taken(s)] + new[s \ {Taken(s)}]
    <3> DEFINE r == s \ {Taken(s)}
    <3>1. new[s] = IF s \in UpToSize(S, n) THEN it[s] ELSE f[Taken(s)] + it[r]
      BY <2>6
    <3>2. s # {} => r \in UpToSize(S, n) /\ new[r] = it[r]
      BY <2>2
    <3>3. s = {} => s \in UpToSize(S, n)
      BY <2>3
    <3>4. s \in UpToSize(S, n) => it[s] = IF s = {} THEN 0 ELSE f[Taken(s)] + it[r]
      BY <2>5
    <3> HIDE DEF new, r
    <3> QED
      BY <3>1, <3>2, <3>3, <3>4 DEF r
  <2>7. IsFold(new, f, UpToSize(S, n + 1))
    <3> HIDE DEF new
    <3> QED
      BY <2>4, <2>6 DEF IsFold
  <2>8. \E fold \in [UpToSize(S, n + 1) -> Int] : IsFold(fold, f, UpToSize(S, n + 1))
    <3> HIDE DEF new
    <3> QED
      BY <2>4, <2>7
  <2> QED
    BY <2>8
<1>3. Cardinality(S) \in Nat /\ UpToSize(S, Cardinality(S)) = SUBSET S
  BY FS_CardinalityType, FS_Subset DEF UpToSize
<1>4. Cardinality(S) \in P
  <2> HIDE DEF P
  <2> QED
    BY <1>1, <1>2, <1>3, Induct
<1> QED
  BY <1>3, <1>4

\* SumOver is the last of a family of sums over the subsets.
LEMMA SumOverParts ==
  ASSUME NEW S, IsFiniteSet(S), NEW f \in [S -> Int]
  PROVE  \E it \in [SUBSET S -> Int] :
           /\ it[{}] = 0
           /\ \A s \in SUBSET S : s # {} => it[s] = f[Taken(s)] + it[s \ {Taken(s)}]
           /\ SumOver(f, S) = it[S]
<1> DEFINE it == CHOOSE it : IsFold(it, f, SUBSET S)
<1>1. PICK fold \in [SUBSET S -> Int] : IsFold(fold, f, SUBSET S)
  BY FoldExists
<1>2. IsFold(it, f, SUBSET S) /\ SumOver(f, S) = it[S]
  BY <1>1, SumOverFold
<1> HIDE DEF it
<1>3. /\ it = [s \in SUBSET S |-> IF s = {} THEN 0 ELSE f[Taken(s)] + it[s \ {Taken(s)}]]
      /\ SumOver(f, S) = it[S]
  BY <1>2 DEF IsFold
<1>4. /\ it[{}] = 0
      /\ \A s \in SUBSET S : s # {} => it[s] = f[Taken(s)] + it[s \ {Taken(s)}]
  BY <1>3
<1> DEFINE P == {n \in Nat : \A s \in UpToSize(S, n) : it[s] \in Int}
<1>5. 0 \in P
  <2>1. ASSUME NEW s \in UpToSize(S, 0) PROVE it[s] \in Int
    <3>1. s = {}
      BY SizeZero
    <3> QED
      BY <1>4, <3>1
  <2> QED
    BY <2>1
<1>6. ASSUME NEW n \in Nat, n \in P PROVE n + 1 \in P
  <2> SUFFICES ASSUME NEW s \in UpToSize(S, n + 1) PROVE it[s] \in Int
    OBVIOUS
  <2>1. CASE s = {}
    BY <1>4, <2>1
  <2>2. CASE s # {}
    <3>1. /\ s \in SUBSET S /\ Taken(s) \in S /\ s \ {Taken(s)} \in UpToSize(S, n)
      BY <2>2, TakenLeavesLess DEF UpToSize
    <3>2. it[s \ {Taken(s)}] \in Int /\ f[Taken(s)] \in Int
      BY <1>6, <3>1
    <3> QED
      BY <1>4, <2>2, <3>1, <3>2
  <2> QED
    BY <2>1, <2>2
<1>7. Cardinality(S) \in Nat /\ UpToSize(S, Cardinality(S)) = SUBSET S
  BY FS_CardinalityType, FS_Subset DEF UpToSize
<1>8. Cardinality(S) \in P
  <2> HIDE DEF P
  <2> QED
    BY <1>5, <1>6, <1>7, Induct
<1>9. it \in [SUBSET S -> Int]
  BY <1>3, <1>7, <1>8
<1> QED
  BY <1>3, <1>4, <1>9

\* When one row contributes another amount, the sum changes by the difference.
LEMMA SumOverUpdate ==
  ASSUME NEW S, IsFiniteSet(S), NEW f \in [S -> Int], NEW k \in S, NEW v \in Int
  PROVE  /\ SumOver(f, S) \in Int
         /\ SumOver([f EXCEPT ![k] = v], S) = SumOver(f, S) - f[k] + v
<1> DEFINE g == [f EXCEPT ![k] = v]
<1>1. g \in [S -> Int] /\ g[k] = v /\ f[k] \in Int /\ \A x \in S : x # k => g[x] = f[x]
  OBVIOUS
<1> HIDE DEF g
<1>2. PICK p \in [SUBSET S -> Int] :
           /\ p[{}] = 0
           /\ \A s \in SUBSET S : s # {} => p[s] = f[Taken(s)] + p[s \ {Taken(s)}]
           /\ SumOver(f, S) = p[S]
  BY SumOverParts
<1>3. PICK q \in [SUBSET S -> Int] :
           /\ q[{}] = 0
           /\ \A s \in SUBSET S : s # {} => q[s] = g[Taken(s)] + q[s \ {Taken(s)}]
           /\ SumOver(g, S) = q[S]
  BY <1>1, SumOverParts
<1> DEFINE Changed(s) == q[s] = IF k \in s THEN p[s] - f[k] + v ELSE p[s]
           P == {n \in Nat : \A s \in UpToSize(S, n) : Changed(s)}
<1>4. 0 \in P
  <2>1. ASSUME NEW s \in UpToSize(S, 0) PROVE Changed(s)
    <3>1. s = {}
      BY SizeZero
    <3> QED
      BY <1>2, <1>3, <3>1
  <2> QED
    BY <2>1
<1>5. ASSUME NEW n \in Nat, n \in P PROVE n + 1 \in P
  <2> SUFFICES ASSUME NEW s \in UpToSize(S, n + 1) PROVE Changed(s)
    OBVIOUS
  <2>1. CASE s = {}
    BY <1>2, <1>3, <2>1
  <2>2. CASE s # {}
    <3> DEFINE x == Taken(s)
               r == s \ {x}
    <3>1. s \in SUBSET S /\ x \in s /\ x \in S /\ r \in UpToSize(S, n) /\ r \in SUBSET S
      BY <2>2, TakenLeavesLess DEF UpToSize
    <3>2. p[s] = f[x] + p[r] /\ q[s] = g[x] + q[r]
      BY <1>2, <1>3, <2>2, <3>1
    <3>3. Changed(r)
      BY <1>5, <3>1
    <3>4. /\ p[r] \in Int /\ q[r] \in Int /\ f[x] \in Int
          /\ x = k => g[x] = v /\ f[x] = f[k] /\ k \in s /\ k \notin r
          /\ x # k => g[x] = f[x] /\ (k \in s <=> k \in r)
      BY <1>1, <3>1
    <3> HIDE DEF x, r
    <3>5. CASE x = k
      BY <1>1, <3>2, <3>3, <3>4, <3>5
    <3>6. CASE x # k
      <4> DEFINE a == f[x]
                 b == f[k]
                 c == p[r]
      <4>1. a \in Int /\ b \in Int /\ c \in Int
        BY <1>1, <3>4
      <4>2. /\ p[s] = a + c /\ q[s] = a + q[r]
            /\ q[r] = IF k \in s THEN c - b + v ELSE c
        BY <3>2, <3>3, <3>4, <3>6
      <4>3. q[s] = IF k \in s THEN p[s] - b + v ELSE p[s]
        <5> HIDE DEF a, b, c
        <5> QED
          BY <4>1, <4>2
      <4> QED
        BY <4>3
    <3> QED
      BY <3>5, <3>6
  <2> QED
    BY <2>1, <2>2
<1>6. Cardinality(S) \in Nat /\ S \in UpToSize(S, Cardinality(S))
  BY FS_CardinalityType DEF UpToSize
<1>7. Cardinality(S) \in P
  <2> HIDE DEF P
  <2> QED
    BY <1>4, <1>5, <1>6, Induct
<1>8. Changed(S)
  BY <1>6, <1>7
<1> QED
  BY <1>2, <1>3, <1>8 DEF g

\* A sum of equal parts.
LEMMA SumOverConstant ==
  ASSUME NEW S, IsFiniteSet(S), NEW c \in Int
  PROVE  SumOver([x \in S |-> c], S) = Cardinality(S) * c
<1> DEFINE f == [x \in S |-> c]
<1>1. f \in [S -> Int] /\ \A x \in S : f[x] = c
  OBVIOUS
<1> HIDE DEF f
<1>2. PICK p \in [SUBSET S -> Int] :
           /\ p[{}] = 0
           /\ \A s \in SUBSET S : s # {} => p[s] = f[Taken(s)] + p[s \ {Taken(s)}]
           /\ SumOver(f, S) = p[S]
  BY <1>1, SumOverParts
<1> DEFINE Even(s) == p[s] = Cardinality(s) * c
           P == {n \in Nat : \A s \in UpToSize(S, n) : Even(s)}
<1>3. 0 \in P
  <2>1. ASSUME NEW s \in UpToSize(S, 0) PROVE Even(s)
    <3>1. s = {} /\ Cardinality({}) = 0
      BY SizeZero, FS_EmptySet
    <3>2. 0 * c = 0
      OBVIOUS
    <3> QED
      BY <1>2, <3>1, <3>2
  <2> QED
    BY <2>1
<1>4. ASSUME NEW n \in Nat, n \in P PROVE n + 1 \in P
  <2>0. Even({})
    <3>1. Cardinality({}) = 0 /\ 0 * c = 0
      BY FS_EmptySet
    <3> QED
      BY <1>2, <3>1
  <2> SUFFICES ASSUME NEW s \in UpToSize(S, n + 1), s # {} PROVE Even(s)
    <3> HIDE DEF Even
    <3>1. \A s \in UpToSize(S, n + 1) : Even(s)
      BY <2>0
    <3> QED
      BY <3>1
  <2> DEFINE r == s \ {Taken(s)}
             size == Cardinality(s)
  <2>1. /\ s \in SUBSET S /\ Taken(s) \in S /\ r \in UpToSize(S, n)
        /\ size \in Nat /\ Cardinality(r) = size - 1
    BY TakenLeavesLess DEF UpToSize
  <2>2. p[s] = c + p[r] /\ p[r] = (size - 1) * c
    BY <1>1, <1>2, <1>4, <2>1
  <2> HIDE DEF size, r
  <2>3. (size - 1) * c = size * c - c /\ size * c \in Int
    BY <2>1
  <2>4. p[s] = size * c
    <3> DEFINE m == size * c
    <3>1. p[s] = c + (m - c) /\ m \in Int
      BY <2>2, <2>3
    <3> HIDE DEF m
    <3>2. p[s] = m
      BY <3>1
    <3> QED
      BY <3>2 DEF m
  <2> QED
    BY <2>4 DEF size
<1>5. Cardinality(S) \in Nat /\ S \in UpToSize(S, Cardinality(S))
  BY FS_CardinalityType DEF UpToSize
<1>6. Cardinality(S) \in P
  <2> HIDE DEF P
  <2> QED
    BY <1>3, <1>4, <1>5, Induct
<1>7. Even(S)
  BY <1>5, <1>6
<1> QED
  BY <1>2, <1>7 DEF f

\* What the rows of a table that name u contribute; a names a key for each row.
PartOf(a, D, u, N) == [t \in 1..N |-> IF a[t] = u THEN D[t] ELSE 0]

\* When every key is given what the rows that name it contribute, the sum over
\* the keys grows by the aggregate over the rows.
LEMMA SumOverShares ==
  ASSUME NEW S, IsFiniteSet(S), NEW N \in Nat, NEW a \in [1..N -> S], NEW D \in [1..N -> Int],
         NEW g \in [S -> Int]
  PROVE  SumOver([u \in S |-> g[u] + SumTo(PartOf(a, D, u, N), N)], S)
           = SumOver(g, S) + SumTo(D, N)
<1> DEFINE First(n) == [t \in 1..N |-> IF t <= n THEN D[t] ELSE 0]
           Given(n) == [u \in S |-> g[u] + SumTo(PartOf(a, First(n), u, N), N)]
           P == {n \in 0..N : SumOver(Given(n), S) = SumOver(g, S) + SumTo(First(n), N)}
<1>1. \A n \in Nat : First(n) \in [1..N -> Int]
  OBVIOUS
<1>2. ASSUME NEW E \in [1..N -> Int], NEW u \in S
      PROVE  PartOf(a, E, u, N) \in [1..N -> Int] /\ SumTo(PartOf(a, E, u, N), N) \in Int
  <2>1. PartOf(a, E, u, N) \in [1..N -> Int]
    BY DEF PartOf
  <2> QED
    BY <2>1, SumToInt
<1>3. \A n \in Nat : Given(n) \in [S -> Int]
  <2> SUFFICES ASSUME NEW n \in Nat PROVE Given(n) \in [S -> Int]
    OBVIOUS
  <2>1. \A u \in S : SumTo(PartOf(a, First(n), u, N), N) \in Int
    BY <1>1, <1>2
  <2> HIDE DEF First
  <2> QED
    BY <2>1
<1>4. SumOver(g, S) \in Int
  <2>1. PICK p \in [SUBSET S -> Int] : SumOver(g, S) = p[S]
    BY SumOverParts
  <2> QED
    BY <2>1
<1>5. 0 \in P
  <2>1. First(0) = [t \in 1..N |-> 0]
    OBVIOUS
  <2>2. \A u \in S : PartOf(a, First(0), u, N) = [t \in 1..N |-> 0]
    BY <2>1 DEF PartOf
  <2>3. SumTo([t \in 1..N |-> 0], N) = 0
    BY SumToZero
  <2>4. Given(0) = g
    BY <2>2, <2>3
  <2>5. SumOver(Given(0), S) = SumOver(g, S) + SumTo(First(0), N)
    <3> HIDE DEF Given, First
    <3> QED
      BY <1>4, <2>1, <2>3, <2>4
  <2> QED
    BY <2>5
<1>6. ASSUME NEW n \in 0..N, n \in P, n < N PROVE n + 1 \in P
  <2> DEFINE k == n + 1
             now == First(n)
             next == First(k)
  <2>1. /\ k \in 1..N /\ k \in 0..N
        /\ now \in [1..N -> Int] /\ now[k] = 0
        /\ next = [now EXCEPT ![k] = D[k]]
    <3>1. n \in Nat /\ k \in 1..N /\ k \in 0..N
      BY <1>6
    <3>2. \A t \in 1..N : (t <= k <=> t <= n \/ t = k) /\ ~ (k <= n)
      BY <3>1
    <3>3. now \in [1..N -> Int]
      BY <1>1, <3>1
    <3> HIDE DEF k
    <3> QED
      BY <3>1, <3>2, <3>3
  <2>2. SumTo(next, N) = SumTo(now, N) + D[k] /\ SumTo(now, N) \in Int
    <3> HIDE DEF now, next, k
    <3>1. D[k] \in Int
      BY <2>1
    <3>2. SumTo(next, N) = SumTo(now, N) - 0 + D[k]
      BY <2>1, <3>1, SumToUpdate
    <3>3. SumTo(now, N) \in Int
      BY <2>1, SumToInt
    <3> QED
      BY <3>1, <3>2, <3>3
  <2>3. ASSUME NEW u \in S
        PROVE  SumTo(PartOf(a, next, u, N), N)
                 = SumTo(PartOf(a, now, u, N), N) + IF a[k] = u THEN D[k] ELSE 0
    <3> HIDE DEF now, next, k
    <3>1. CASE a[k] = u
      <4> DEFINE h == PartOf(a, now, u, N)
      <4>1. h \in [1..N -> Int] /\ h[k] = 0
        BY <2>1, <3>1 DEF PartOf
      <4>2. PartOf(a, next, u, N) = [h EXCEPT ![k] = D[k]]
        BY <2>1, <3>1 DEF PartOf
      <4>3. SumTo(h, N) \in Int /\ D[k] \in Int /\ k \in 1..N
        BY <2>1, <4>1, SumToInt
      <4>4. SumTo(PartOf(a, next, u, N), N) = SumTo(h, N) - 0 + D[k]
        <5> DEFINE v == D[k]
        <5> HIDE DEF h, v
        <5>1. v \in Int
          BY <4>3 DEF v
        <5>2. SumTo([h EXCEPT ![k] = v], N) = SumTo(h, N) - h[k] + v
          BY <4>1, <4>3, <5>1, SumToUpdate
        <5> QED
          BY <4>1, <4>2, <5>2 DEF v
      <4> QED
        BY <3>1, <4>3, <4>4
    <3>2. CASE a[k] # u
      <4>1. PartOf(a, next, u, N) = PartOf(a, now, u, N)
        BY <2>1, <3>2 DEF PartOf
      <4>2. SumTo(PartOf(a, now, u, N), N) \in Int
        BY <1>2, <2>1
      <4> QED
        BY <3>2, <4>1, <4>2
    <3> QED
      BY <3>1, <3>2
  <2> DEFINE to == a[k]
             had == Given(n)
             have == Given(k)
  <2>4. to \in S /\ D[k] \in Int /\ had \in [S -> Int]
    <3>1. n \in Nat /\ k \in 1..N
      BY <1>6, <2>1
    <3> HIDE DEF Given, k
    <3> QED
      BY <1>3, <3>1
  <2>5. have = [had EXCEPT ![to] = had[to] + D[k]]
    <3>1. \A u \in S : SumTo(PartOf(a, now, u, N), N) \in Int
      BY <1>2, <2>1
    <3>2. /\ had = [u \in S |-> g[u] + SumTo(PartOf(a, now, u, N), N)]
          /\ have = [u \in S |-> g[u] + SumTo(PartOf(a, next, u, N), N)]
      OBVIOUS
    <3> HIDE DEF now, next, k, had, have
    <3>3. \A u \in S : /\ had[u] \in Int
                       /\ have[u] = had[u] + IF to = u THEN D[k] ELSE 0
      <4> SUFFICES ASSUME NEW u \in S
                   PROVE  /\ had[u] \in Int
                          /\ have[u] = had[u] + IF to = u THEN D[k] ELSE 0
        OBVIOUS
      <4>1. had[u] = g[u] + SumTo(PartOf(a, now, u, N), N)
        BY <3>2
      <4>2. have[u] = g[u] + (SumTo(PartOf(a, now, u, N), N) + IF to = u THEN D[k] ELSE 0)
        BY <2>3, <3>2
      <4>3. SumTo(PartOf(a, now, u, N), N) \in Int /\ g[u] \in Int /\ D[k] \in Int
        BY <2>4, <3>1
      <4> QED
        BY <4>1, <4>2, <4>3
    <3>4. have \in [S -> Int] /\ \A u \in S : have[u] = [had EXCEPT ![to] = had[to] + D[k]][u]
      <4>1. \A u \in S : have[u] = (IF u = to THEN had[to] + D[k] ELSE had[u]) /\ have[u] \in Int
        BY <2>4, <3>3
      <4>2. have = [u \in S |-> have[u]]
        BY <3>2
      <4> HIDE DEF to
      <4> QED
        BY <2>4, <4>1, <4>2
    <3>5. [had EXCEPT ![to] = had[to] + D[k]] \in [S -> Int]
      BY <2>4
    <3> QED
      BY <3>4, <3>5
  <2>6. SumOver(have, S) = SumOver(had, S) + D[k]
    <3> HIDE DEF had, have, to, k
    <3>1. had[to] \in Int /\ had[to] + D[k] \in Int
      BY <2>4
    <3> DEFINE v == had[to] + D[k]
    <3> HIDE DEF v
    <3>2. /\ v \in Int /\ have = [had EXCEPT ![to] = v]
      BY <2>5, <3>1 DEF v
    <3>3. /\ SumOver(had, S) \in Int
          /\ SumOver(have, S) = SumOver(had, S) - had[to] + v
      <4> HIDE DEF First, Given, P
      <4>0. IsFiniteSet(S) /\ had \in [S -> Int] /\ to \in S /\ v \in Int
        BY <2>4, <3>2
      <4>1. \A f \in [S -> Int], x \in S, c \in Int :
              /\ SumOver(f, S) \in Int
              /\ SumOver([f EXCEPT ![x] = c], S) = SumOver(f, S) - f[x] + c
        BY SumOverUpdate
      <4> QED
        BY <3>2, <4>0, <4>1
    <3> QED
      BY <2>4, <3>1, <3>3 DEF v
  <2>7. SumOver(had, S) = SumOver(g, S) + SumTo(now, N)
    BY <1>6
  <2>8. SumOver(have, S) = SumOver(g, S) + SumTo(next, N)
    <3> HIDE DEF had, have, now, next, k
    <3> QED
      BY <1>4, <2>2, <2>4, <2>6, <2>7
  <2> QED
    BY <2>1, <2>8
<1>7. N \in P
  <2> HIDE DEF P
  <2>1. 0..N \subseteq P
    BY <1>5, <1>6, UpTo
  <2> QED
    BY <2>1
<1>8. First(N) = D
  OBVIOUS
<1> QED
  BY <1>7, <1>8

-----------------------------------------------------------------------------
(* Movements.                                                              *)

\* What a movement of "amount" adds to the total of the wallet it touches.
Inflow(src, dst, amount) ==
  (IF src = "external" THEN amount ELSE 0) - (IF dst = "external" THEN amount ELSE 0)

\* What a movement adds to one bucket.
Net(b, src, dst, amount) ==
  (IF dst = b THEN amount ELSE 0) - (IF src = b THEN amount ELSE 0)

\* The balances stay natural numbers: the only one that shrinks held the amount.
LEMMA RebalancedType ==
  ASSUME NEW w \in Wallet, NEW src \in Bucket, NEW dst \in Bucket,
         NEW amount \in Nat, CanMove(w, src, dst, amount)
  PROVE  Rebalanced(w, src, dst, amount) \in Wallet
<1>1. /\ w.available \in Nat /\ w.reserved \in Nat /\ w.escrow \in Nat
  BY DEF Wallet
<1>2. /\ src = "available" => w.available >= amount
      /\ src = "reserved" => w.reserved >= amount
      /\ src = "escrow" => w.escrow >= amount
  BY DEF CanMove
<1>3. /\ w.available + Net("available", src, dst, amount) \in Nat
      /\ w.reserved + Net("reserved", src, dst, amount) \in Nat
      /\ w.escrow + Net("escrow", src, dst, amount) \in Nat
  BY <1>1, <1>2 DEF Net
<1>4. Rebalanced(w, src, dst, amount) =
        [w EXCEPT !.available = w.available + Net("available", src, dst, amount),
                  !.reserved = w.reserved + Net("reserved", src, dst, amount),
                  !.escrow = w.escrow + Net("escrow", src, dst, amount)]
  BY DEF Rebalanced, Net
<1> QED
  BY <1>3, <1>4 DEF Wallet

\* A movement that move() accepts leaves a wallet row: no balance and no
\* counter becomes negative.
LEMMA MovedType ==
  ASSUME NEW w \in Wallet, NEW src \in Bucket, NEW dst \in Bucket,
         NEW amount \in Nat, NEW kind, CanMove(w, src, dst, amount)
  PROVE  Moved(w, src, dst, amount, kind) \in Wallet
<1> DEFINE r == Rebalanced(w, src, dst, amount)
<1>1. r \in Wallet
  BY RebalancedType
<1>2. Total(r) \in Int /\ Total(w) \in Int /\ Total(r) - Total(w) \in Int
  BY <1>1 DEF Total, Wallet
<1> DEFINE deposited == IF src = "external" THEN r.deposited + amount ELSE r.deposited
           withdrawn == IF dst = "external" THEN r.withdrawn + amount ELSE r.withdrawn
           earned == IF kind = "PROJECT_PAYMENT" THEN r.earned + amount ELSE r.earned
           spent == IF kind = "ESCROW_HOLD" THEN r.spent + amount ELSE r.spent
           posted == r.posted + Total(r) - Total(w)
<1>3. /\ deposited \in Nat /\ withdrawn \in Nat /\ earned \in Nat /\ spent \in Nat
      /\ posted \in Int
  <2> HIDE DEF r
  <2>1. /\ r.deposited \in Nat /\ r.withdrawn \in Nat /\ r.earned \in Nat
        /\ r.spent \in Nat /\ r.posted \in Int
    BY <1>1 DEF Wallet
  <2> QED BY <1>2, <2>1
<1>4. Moved(w, src, dst, amount, kind) =
        [r EXCEPT !.deposited = deposited, !.withdrawn = withdrawn,
                  !.earned = earned, !.spent = spent, !.posted = posted]
  BY DEF Moved
<1> HIDE DEF r, deposited, withdrawn, earned, spent, posted
<1> QED
  BY <1>1, <1>3, <1>4 DEF Wallet

\* The effect of a movement on each field that another row or variable is
\* compared with.
LEMMA MovedEffect ==
  ASSUME NEW w \in Wallet, NEW src \in Bucket, NEW dst \in Bucket,
         NEW amount \in Nat, NEW kind, CanMove(w, src, dst, amount)
  PROVE  LET m == Moved(w, src, dst, amount, kind)
         IN  /\ m.available = w.available + Net("available", src, dst, amount)
             /\ m.reserved = w.reserved + Net("reserved", src, dst, amount)
             /\ m.escrow = w.escrow + Net("escrow", src, dst, amount)
             /\ m.frozen = w.frozen
             /\ m.deposited = w.deposited + IF src = "external" THEN amount ELSE 0
             /\ m.withdrawn = w.withdrawn + IF dst = "external" THEN amount ELSE 0
             /\ m.earned = w.earned + IF kind = "PROJECT_PAYMENT" THEN amount ELSE 0
             /\ Total(m) = Total(w) + Inflow(src, dst, amount)
             /\ m.posted = w.posted + Inflow(src, dst, amount)
<1> DEFINE r == Rebalanced(w, src, dst, amount)
           m == Moved(w, src, dst, amount, kind)
<1>1. r \in Wallet
  BY RebalancedType
<1>2. /\ r.available = w.available + Net("available", src, dst, amount)
      /\ r.reserved = w.reserved + Net("reserved", src, dst, amount)
      /\ r.escrow = w.escrow + Net("escrow", src, dst, amount)
      /\ r.frozen = w.frozen
      /\ r.deposited = w.deposited /\ r.withdrawn = w.withdrawn /\ r.earned = w.earned
      /\ r.posted = w.posted
  BY DEF Rebalanced, Net, Wallet
<1>3. Total(r) = Total(w) + Inflow(src, dst, amount)
  BY <1>2 DEF Total, Inflow, Net, Bucket, CanMove, Wallet
<1>4. Total(w) \in Int /\ Inflow(src, dst, amount) \in Int /\ w.posted \in Int
  BY DEF Total, Inflow, Wallet
<1> HIDE DEF r
<1>5. /\ m.available = r.available /\ m.reserved = r.reserved /\ m.escrow = r.escrow
      /\ m.frozen = r.frozen
      /\ m.deposited = r.deposited + IF src = "external" THEN amount ELSE 0
      /\ m.withdrawn = r.withdrawn + IF dst = "external" THEN amount ELSE 0
      /\ m.earned = r.earned + IF kind = "PROJECT_PAYMENT" THEN amount ELSE 0
      /\ m.posted = r.posted + Total(r) - Total(w)
  BY <1>1 DEF Moved, r, Wallet
<1> HIDE DEF m
<1>6. Total(m) = Total(r)
  BY <1>5 DEF Total
<1>7. m.posted = w.posted + Inflow(src, dst, amount)
  BY <1>2, <1>3, <1>4, <1>5
<1> QED
  BY <1>2, <1>3, <1>5, <1>6, <1>7 DEF m

\* A payment taken from a wallet: the bucket named by PaymentBucket shrinks.
LEMMA ShareEffect ==
  ASSUME NEW w \in Wallet, NEW amount \in Nat,
         amount > 0 => CanMove(w, PaymentBucket(w, amount), "external", amount)
  PROVE  LET m == AfterShare(w, amount)
         IN  /\ m \in Wallet
             /\ m.reserved = w.reserved - IF w.reserved >= amount THEN amount ELSE 0
             /\ m.frozen = w.frozen
             /\ m.earned = w.earned + amount
             /\ Total(m) = Total(w) - amount
<1>0. w.reserved \in Nat /\ w.earned \in Nat /\ Total(w) \in Int
  BY DEF Wallet, Total
<1>1. CASE amount = 0
  BY <1>0, <1>1 DEF AfterShare
<1>2. CASE amount > 0
  <2> DEFINE src == PaymentBucket(w, amount)
             m == Moved(w, src, "external", amount, "PROJECT_PAYMENT")
  <2>1. /\ src \in Bucket /\ src # "external" /\ "external" \in Bucket
        /\ (src = "reserved") <=> (w.reserved >= amount)
    BY <1>0 DEF PaymentBucket, Bucket, Wallet
  <2>2. AfterShare(w, amount) = m
    BY <1>2 DEF AfterShare, Charged
  <2> HIDE DEF src
  <2>3. /\ Net("reserved", src, "external", amount) = - IF w.reserved >= amount THEN amount ELSE 0
        /\ Inflow(src, "external", amount) = - amount
    BY <2>1 DEF Net, Inflow
  <2>4. CanMove(w, src, "external", amount)
    BY <1>2 DEF src
  <2>5. m \in Wallet
    BY <2>1, <2>4, MovedType
  <2>6. /\ m.reserved = w.reserved + Net("reserved", src, "external", amount)
        /\ m.frozen = w.frozen
        /\ m.earned = w.earned + amount
        /\ Total(m) = Total(w) + Inflow(src, "external", amount)
    BY <2>1, <2>4, MovedEffect
  <2> HIDE DEF m
  <2> QED
    BY <1>0, <2>2, <2>3, <2>5, <2>6
<1> QED
  BY <1>1, <1>2

\* What the settlement of an agreement takes from the client's wallet: the
\* amount, and of the reservations all that the job held, too.
LEMMA SettledEffect ==
  ASSUME NEW w \in Wallet, NEW amount \in Nat, NEW held \in Nat, CanSettle(w, amount, held)
  PROVE  LET m == Settled(w, amount, held)
         IN  /\ m \in Wallet
             /\ m.reserved = w.reserved - held - IF w.reserved >= amount THEN amount ELSE 0
             /\ m.frozen = w.frozen
             /\ m.earned = w.earned + amount
             /\ Total(m) = Total(w) - amount
<1> DEFINE a == AfterShare(w, amount)
<1>1. /\ a \in Wallet
      /\ a.reserved = w.reserved - IF w.reserved >= amount THEN amount ELSE 0
      /\ a.frozen = w.frozen
      /\ a.earned = w.earned + amount
      /\ Total(a) = Total(w) - amount
  BY ShareEffect DEF CanSettle
<1>2. held > 0 => CanMove(a, "reserved", "available", held)
  BY DEF CanSettle
<1>3. Settled(w, amount, held)
        = IF held > 0 THEN Moved(a, "reserved", "available", held, "BUDGET_RELEASE") ELSE a
  BY DEF Settled
<1> HIDE DEF a
<1>4. a.reserved \in Nat /\ a.earned \in Nat /\ Total(a) \in Int
      /\ w.reserved \in Nat /\ w.earned \in Nat /\ Total(w) \in Int
  BY <1>1 DEF Wallet, Total
<1>5. CASE held = 0
  BY <1>1, <1>3, <1>4, <1>5
<1>6. CASE held > 0
  <2> DEFINE m == Moved(a, "reserved", "available", held, "BUDGET_RELEASE")
  <2>1. /\ "reserved" \in Bucket /\ "available" \in Bucket
        /\ Net("reserved", "reserved", "available", held) = - held
        /\ Inflow("reserved", "available", held) = 0
    BY DEF Bucket, Net, Inflow
  <2>2. m \in Wallet
    BY <1>1, <1>2, <1>6, <2>1, MovedType
  <2>3. /\ m.reserved = a.reserved + Net("reserved", "reserved", "available", held)
        /\ m.frozen = a.frozen
        /\ m.earned = a.earned + 0
        /\ Total(m) = Total(a) + Inflow("reserved", "available", held)
    BY <1>1, <1>2, <1>6, <2>1, MovedEffect
  <2>4. Settled(w, amount, held) = m
    BY <1>3, <1>6
  <2> HIDE DEF m
  <2> QED
    BY <1>1, <1>4, <2>1, <2>2, <2>3, <2>4
<1> QED
  BY <1>5, <1>6

\* What a payment adds to the wallet of a freelancer.
LEMMA PaidEffect ==
  ASSUME NEW w \in Wallet, NEW amount \in Nat
  PROVE  LET m == Paid(w, amount)
         IN  /\ m \in Wallet
             /\ m.reserved = w.reserved
             /\ m.frozen = w.frozen
             /\ m.earned = w.earned + amount
             /\ Total(m) = Total(w) + amount
<1>0. w.reserved \in Nat /\ w.earned \in Nat /\ Total(w) \in Int
  BY DEF Wallet, Total
<1>1. CASE amount = 0
  BY <1>0, <1>1 DEF Paid
<1>2. CASE amount > 0
  <2> DEFINE m == Moved(w, "external", "available", amount, "PROJECT_PAYMENT")
  <2>1. /\ "external" \in Bucket /\ "available" \in Bucket
        /\ Net("reserved", "external", "available", amount) = 0
        /\ Inflow("external", "available", amount) = amount
        /\ CanMove(w, "external", "available", amount)
    BY <1>2 DEF Bucket, Net, Inflow, CanMove
  <2>2. m \in Wallet
    BY <2>1, MovedType
  <2>3. /\ m.reserved = w.reserved + Net("reserved", "external", "available", amount)
        /\ m.frozen = w.frozen
        /\ m.earned = w.earned + amount
        /\ Total(m) = Total(w) + Inflow("external", "available", amount)
    BY <2>1, MovedEffect
  <2>4. Paid(w, amount) = m
    BY <1>2 DEF Paid
  <2> HIDE DEF m
  <2> QED
    BY <1>0, <2>1, <2>2, <2>3, <2>4
<1> QED
  BY <1>1, <1>2

=============================================================================
