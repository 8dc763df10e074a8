----------------------------- MODULE FoldProofs -----------------------------
(***************************************************************************)
(* What the proofs use about loops: that a function defined by recursion   *)
(* exists, and what FoldLeft computes.  The step of a loop is a function   *)
(* here, so that every loop can be an instance.                            *)
(***************************************************************************)
EXTENDS Integers, Sequences, FiniteSets, FiniteSetsExt, FiniteSetTheorems, FunctionTheorems,
        WellFoundedInduction, TLAPS

\* Every non-empty set of naturals has a least element.
LEMMA LeastElement ==
    ASSUME NEW T, T \subseteq Nat, T # {}
    PROVE  \E m \in T : \A n \in T : m <= n
<1>1. \E less : /\ IsWellFoundedOn(less, Nat)
                /\ \A p, q \in Nat : p < q => <<p, q>> \in less
  <2> DEFINE less == OpToRel(<, Nat)
  <2>1. \A p, q \in Nat : p < q => <<p, q>> \in less
    BY Zenon DEF OpToRel
  <2>2. IsWellFoundedOn(less, Nat)
    BY NatLessThanWellFounded, Zenon
  <2> HIDE DEF less
  <2> QED
    BY <2>1, <2>2
<1>2. PICK less : /\ IsWellFoundedOn(less, Nat)
                  /\ \A p, q \in Nat : p < q => <<p, q>> \in less
  BY <1>1
<1>3. \E m \in T : \A n \in T : ~(<<n, m>> \in less)
  <2>1. IsWellFoundedOn(less, Nat)
    BY <1>2
  <2>2. \A R, S : IsWellFoundedOn(R, S) =>
           \A U : U \subseteq S /\ U # {} => \E p \in U : \A q \in U : ~(<<q, p>> \in R)
    BY ONLY WFMin, ZenonT(60)
  <2>3. \A U : U \subseteq Nat /\ U # {} => \E p \in U : \A q \in U : ~(<<q, p>> \in less)
    BY ONLY <2>1, <2>2, ZenonT(60)
  <2> QED
    BY ONLY <2>3, T \subseteq Nat, T # {}, ZenonT(60)
<1>4. PICK m \in T : \A n \in T : ~(<<n, m>> \in less)
  BY <1>3
<1>5. \A n \in T : ~(n < m)
  BY <1>2, <1>4
<1> QED
  BY <1>5

\* A non-empty set of places has a last one.
LEMMA GreatestElement ==
    ASSUME NEW n \in Nat, NEW T, T \subseteq 1 .. n, T # {}
    PROVE  \E m \in T : \A k \in T : m >= k
<1> DEFINE U == {n - k : k \in T}
<1>1. U \subseteq Nat /\ U # {}
  <2>1. \A k \in T : k \in Int /\ n - k \in Nat
    OBVIOUS
  <2> QED
    BY <2>1
<1>2. PICK u \in U : \A v \in U : u <= v
  <2> HIDE DEF U
  <2>1. \A W : W \subseteq Nat /\ W # {} => \E u \in W : \A v \in W : u <= v
    BY ONLY LeastElement, ZenonT(60)
  <2> QED
    BY ONLY <1>1, <2>1, ZenonT(60)
<1>3. PICK m \in T : u = n - m
  <2>1. \A v \in U : \E k \in T : v = n - k
    OBVIOUS
  <2> HIDE DEF U
  <2> QED
    BY ONLY <1>2, <2>1
<1>4. \A k \in T : n - k \in U /\ k \in Int
  OBVIOUS
<1> HIDE DEF U
<1>5. \A k \in T : n - m <= n - k /\ k \in Int
  BY ONLY <1>2, <1>3, <1>4
<1>6. m \in T /\ m \in Int
  BY ONLY <1>3, <1>4
<1> QED
  BY <1>5, <1>6

\* Induction over the rounds of a loop: G is the set of the rounds after which the claim holds.
LEMMA Rounds ==
    ASSUME NEW n \in Nat, NEW G, 0 \in G,
           \A k \in 1 .. n : k - 1 \in G => k \in G
    PROVE  \A k \in 0 .. n : k \in G
<1> DEFINE B == {k \in 0 .. n : k \notin G}
<1> SUFFICES ASSUME B # {} PROVE FALSE
  OBVIOUS
<1>1. PICK m \in B : \A k \in B : m <= k
  <2>1. B \subseteq Nat
    OBVIOUS
  <2> HIDE DEF B
  <2> QED
    BY <2>1, LeastElement
<1>2. m \in 1 .. n
  BY <1>1
<1>3. m - 1 \in G
  BY <1>1, <1>2
<1> QED
  BY <1>1, <1>2, <1>3

\* The smallest number of a set is one of them.
LEMMA MinIsMember ==
    ASSUME NEW T, T \subseteq Nat, T # {}
    PROVE  Min(T) \in T
<1>1. \E m \in T : \A o \in T : m <= o
  BY LeastElement
<1> QED
  BY <1>1 DEF Min

\* The last of a set of places.
LEMMA MaxOfPlaces ==
    ASSUME NEW n \in Nat, NEW s \in SUBSET (1 .. n), s # {}
    PROVE  Max(s) \in s /\ Max(s) \in 1 .. n /\ \A k \in s : Max(s) >= k
<1>1. \E m \in s : \A k \in s : m >= k
  BY GreatestElement
<1> QED
  BY <1>1 DEF Max

LEMMA MaxOfFirstPlaces ==
    ASSUME NEW n \in Nat, NEW k \in 1 .. n
    PROVE  /\ 1 .. k \in SUBSET (1 .. n) /\ 1 .. k # {}
           /\ Max(1 .. k) = k /\ (1 .. k) \ {k} = 1 .. k - 1
<1>1. 1 .. k \in SUBSET (1 .. n) /\ k \in 1 .. k
  OBVIOUS
<1>2. Max(1 .. k) \in 1 .. k /\ Max(1 .. k) >= k
  BY <1>1, MaxOfPlaces
<1> QED
  BY <1>1, <1>2

\* A finite set of naturals has a greatest element.
LEMMA FiniteHasMax ==
    ASSUME NEW S, IsFiniteSet(S), S \subseteq Nat, S # {}
    PROVE  Max(S) \in S /\ \A o \in S : Max(S) >= o
<1> DEFINE n == Cardinality(S)
<1>1. n \in Nat /\ ExistsBijection(1 .. n, S)
  BY FS_CardinalityType
<1> HIDE DEF n
<1>2. PICK order \in [1 .. n -> S] : \A o \in S : \E k \in 1 .. n : order[k] = o
  BY <1>1 DEF ExistsBijection, Bijection, Surjection
<1> DEFINE G == {k \in 0 .. n : \E m \in S : \A j \in 1 .. k : m >= order[j]}
<1>3. 0 \in G
  <2>1. PICK m \in S : TRUE
    OBVIOUS
  <2>2. \A j \in 1 .. 0 : m >= order[j]
    OBVIOUS
  <2> QED
    BY <1>1, <2>2
<1>4. ASSUME NEW k \in 1 .. n, k - 1 \in G PROVE k \in G
  <2>1. PICK m \in S : \A j \in 1 .. k - 1 : m >= order[j]
    BY <1>4
  <2>6. \A j \in 1 .. k : j \in 1 .. n
    BY <1>1
  <2>2. order[k] \in S /\ order[k] \in Nat /\ m \in Nat /\ \A j \in 1 .. k : order[j] \in Nat
    BY <1>1, <1>2, <2>6
  <2>3. \A j \in 1 .. k : j = k \/ j \in 1 .. k - 1
    OBVIOUS
  <2>4. CASE m >= order[k]
    BY <1>1, <2>1, <2>2, <2>3, <2>4
  <2>5. CASE ~(m >= order[k])
    <3>1. \A j \in 1 .. k : order[k] >= order[j]
      BY <2>1, <2>2, <2>3, <2>5
    <3> QED
      BY <1>1, <2>2, <3>1
  <2> QED
    BY <2>4, <2>5
<1>5. n \in G
  <2>1. \A k \in 0 .. n : k \in G
    <3> HIDE DEF G
    <3> QED
      BY <1>1, <1>3, <1>4, Rounds
  <2> HIDE DEF G
  <2> QED
    BY <1>1, <2>1
<1>6. \E m \in S : \A o \in S : m >= o
  BY <1>2, <1>5
<1> QED
  BY <1>6 DEF Max

\* A loop of n rounds that starts with b and makes g[k][v] of v in round k.
Computes(f, n, V, b, g) ==
    f \in [0 .. n -> V] /\ f[0] = b /\ \A k \in 1 .. n : f[k] = g[k][f[k - 1]]

LEMMA LoopExists ==
    ASSUME NEW n \in Nat, NEW V, NEW b \in V, NEW g \in [1 .. n -> [V -> V]]
    PROVE  \E f : Computes(f, n, V, b, g)
<1> USE DEF Computes
<1> DEFINE Loop(f, m) == Computes(f, m, V, b, g)
           G == {m \in 0 .. n : \E f : Loop(f, m)}
<1>1. 0 \in G
  <2> DEFINE f == [k \in 0 .. 0 |-> b]
  <2>1. f \in [0 .. 0 -> V] /\ f[0] = b
    OBVIOUS
  <2> HIDE DEF f
  <2>2. \E h : Loop(h, 0)
    BY <2>1
  <2> HIDE DEF Loop
  <2> QED
    BY <2>2
<1>2. ASSUME NEW m \in 1 .. n, m - 1 \in G PROVE m \in G
  <2>1. PICK h : Loop(h, m - 1)
    BY <1>2
  <2> DEFINE f == [k \in 0 .. m |-> IF k = m THEN g[m][h[m - 1]] ELSE h[k]]
  <2>2. f \in [0 .. m -> V]
    BY <2>1
  <2>3. f[0] = b /\ \A k \in 1 .. m : f[k] = g[k][f[k - 1]]
    BY <2>1
  <2> HIDE DEF f
  <2> QED
    BY <2>2, <2>3
<1>3. n \in G
  <2> HIDE DEF G
  <2>1. \A m \in 0 .. n : m \in G
    BY <1>1, <1>2, Rounds
  <2> QED
    BY <2>1
<1> HIDE DEF Computes
<1> QED
  BY <1>3

\* The iteration of FoldLeft, which runs through sets of places: the last place is taken off first.
Iterates(h, n, V, b, g) ==
    /\ h \in [SUBSET (1 .. n) -> V]
    /\ h[{}] = b
    /\ \A s \in SUBSET (1 .. n), m \in 1 .. n :
          m \in s /\ (\A k \in s : m >= k) => h[s] = g[m][h[s \ {m}]]

LEMMA IterationExists ==
    ASSUME NEW n \in Nat, NEW V, NEW b \in V, NEW g \in [1 .. n -> [V -> V]]
    PROVE  \E h : Iterates(h, n, V, b, g)
<1> USE DEF Iterates
<1> DEFINE Iter(h, p) == Iterates(h, p, V, b, g)
           G == {p \in 0 .. n : \E h : Iter(h, p)}
<1>1. 0 \in G
  <2> DEFINE h == [s \in SUBSET (1 .. 0) |-> b]
  <2>1. h \in [SUBSET (1 .. 0) -> V] /\ h[{}] = b
    OBVIOUS
  <2> HIDE DEF h
  <2>2. \E i : Iter(i, 0)
    BY <2>1
  <2> HIDE DEF Iter
  <2> QED
    BY <2>2
<1>2. ASSUME NEW p \in 1 .. n, p - 1 \in G PROVE p \in G
  <2>1. PICK i : Iter(i, p - 1)
    BY <1>2
  <2> DEFINE h == [s \in SUBSET (1 .. p) |-> IF p \in s THEN g[p][i[s \ {p}]] ELSE i[s]]
  <2>2. \A s \in SUBSET (1 .. p) :
           s \ {p} \in SUBSET (1 .. p - 1) /\ (p \notin s => s \in SUBSET (1 .. p - 1))
    OBVIOUS
  <2>3. h \in [SUBSET (1 .. p) -> V] /\ h[{}] = b
    BY <2>1, <2>2
  <2>4. ASSUME NEW s \in SUBSET (1 .. p), NEW m \in 1 .. p, m \in s, \A k \in s : m >= k
        PROVE  h[s] = g[m][h[s \ {m}]]
    <3>1. s \ {m} \in SUBSET (1 .. p)
      OBVIOUS
    <3>2. CASE m = p
      <4>1. p \notin s \ {m}
        BY <3>2
      <4>2. h[s \ {m}] = i[s \ {m}]
        BY <3>1, <4>1
      <4> QED
        BY <2>4, <3>2, <4>2
    <3>3. CASE m # p
      <4>1. p \notin s /\ p \notin s \ {m} /\ m \in 1 .. p - 1
        BY <2>4, <3>3
      <4>2. h[s] = i[s] /\ h[s \ {m}] = i[s \ {m}]
        BY <3>1, <4>1
      <4>3. i[s] = g[m][i[s \ {m}]]
        BY <2>1, <2>2, <2>4, <4>1
      <4> QED
        BY <4>2, <4>3
    <3> QED
      BY <3>2, <3>3
  <2> HIDE DEF h
  <2>5. Iter(h, p)
    BY <2>3, <2>4, Zenon
  <2> HIDE DEF Iter
  <2> QED
    BY <2>5
<1>3. n \in G
  <2> HIDE DEF G
  <2>1. \A m \in 0 .. n : m \in G
    BY <1>1, <1>2, Rounds
  <2> QED
    BY <2>1
<1> HIDE DEF Iterates
<1> QED
  BY <1>3

\* What FoldLeft chooses ...
Folds(i, n, V, b, g) ==
    /\ i \in [SUBSET (1 .. n) -> V] /\ i[{}] = b
    /\ \A s \in SUBSET (1 .. n) :
          s # {} => /\ Max(s) \in 1 .. n /\ s \ {Max(s)} \in SUBSET (1 .. n)
                    /\ i[s] = g[Max(s)][i[s \ {Max(s)}]]

\* ... exists ...
LEMMA FoldExists ==
    ASSUME NEW n \in Nat, NEW V, NEW b \in V, NEW g \in [1 .. n -> [V -> V]]
    PROVE  \E i : Folds(i, n, V, b, g)
<1>1. PICK i : Iterates(i, n, V, b, g)
  BY IterationExists
<1>2. ASSUME NEW s \in SUBSET (1 .. n), s # {}
      PROVE  /\ Max(s) \in 1 .. n /\ s \ {Max(s)} \in SUBSET (1 .. n)
             /\ i[s] = g[Max(s)][i[s \ {Max(s)}]]
  <2>1. Max(s) \in s /\ Max(s) \in 1 .. n /\ \A k \in s : Max(s) >= k
    BY <1>2, MaxOfPlaces
  <2> QED
    BY <1>1, <2>1 DEF Iterates
<1>3. i \in [SUBSET (1 .. n) -> V] /\ i[{}] = b
  BY <1>1 DEF Iterates
<1>4. Folds(i, n, V, b, g)
  BY <1>2, <1>3 DEF Folds
<1> QED
  BY <1>4

\* ... and is a loop over the sequence.
LEMMA FoldComputes ==
    ASSUME NEW n \in Nat, NEW V, NEW b \in V, NEW g \in [1 .. n -> [V -> V]],
           NEW iter, iter[{}] = b,
           \A k \in 1 .. n : iter[1 .. k - 1] \in V => iter[1 .. k] = g[k][iter[1 .. k - 1]]
    PROVE  Computes([k \in 0 .. n |-> iter[1 .. k]], n, V, b, g)
<1> DEFINE f == [k \in 0 .. n |-> iter[1 .. k]]
           G == {k \in 0 .. n : f[k] \in V}
<1>1. f[0] = b
  <2>1. 1 .. 0 = {}
    OBVIOUS
  <2> QED
    BY <2>1
<1>2. \A k \in 1 .. n : f[k - 1] = iter[1 .. k - 1] /\ f[k] = iter[1 .. k]
  OBVIOUS
<1>3. f = [k \in 0 .. n |-> f[k]]
  OBVIOUS
<1> HIDE DEF f
<1>4. 0 \in G
  BY <1>1
<1>5. ASSUME NEW k \in 1 .. n, k - 1 \in G PROVE k \in G
  <2>1. f[k] = g[k][f[k - 1]] /\ f[k - 1] \in V
    BY <1>2, <1>5
  <2>2. f[k] \in V
    BY <2>1
  <2> QED
    BY <2>2
<1>6. \A k \in 0 .. n : k \in G
  <2> HIDE DEF G
  <2> QED
    BY <1>4, <1>5, Rounds
<1>7. \A k \in 1 .. n : f[k - 1] \in V
  BY <1>6
<1>8. \A k \in 1 .. n : f[k] = g[k][f[k - 1]]
  BY <1>2, <1>7
<1>9. f \in [0 .. n -> V]
  BY <1>3, <1>6
<1>10. Computes(f, n, V, b, g)
  BY <1>1, <1>8, <1>9 DEF Computes
<1> QED
  BY <1>10 DEF f
=============================================================================
