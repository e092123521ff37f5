----------------------------- MODULE Sums_proofs -----------------------------
(***************************************************************************)
(* Finite sums: induction over numbers and finite sets, the recursion of   *)
(* the fold, and the laws of sums.                                         *)
(***************************************************************************)
EXTENDS Sums, FiniteSetTheorems, TLAPS

---------------------------------------------------------------------------
(* Induction, with the set of the cases that hold in place of a predicate *)

\* Induction over the numbers.
LEMMA NumberInduction ==
  ASSUME NEW G, 0 \in G, \A n \in Nat : n \in G => n + 1 \in G
  PROVE  Nat \subseteq G
<1> SUFFICES ASSUME Nat \ G # {} PROVE FALSE
  OBVIOUS
<1>1. PICK m \in Nat \ G : \A k \in Nat \ G : ~(<<k, m>> \in OpToRel(<, Nat))
  <2> DEFINE T == Nat \ G
  <2>1. T \subseteq Nat /\ T # {}
    OBVIOUS
  <2> HIDE DEF T
  <2>2. \E x \in T : \A y \in T : ~ (<<y, x>> \in OpToRel(<, Nat))
    BY <2>1, WFMin, NatLessThanWellFounded
  <2> QED BY <2>2 DEF T
<1>2. m - 1 \in Nat /\ m = (m - 1) + 1 /\ m - 1 < m
  OBVIOUS
<1>3. <<m - 1, m>> \in OpToRel(<, Nat)
  BY <1>2 DEF OpToRel
<1>4. m - 1 \in G
  BY <1>1, <1>2, <1>3
<1> QED BY <1>1, <1>2, <1>4

\* Induction over the subsets of a finite set, element by element.
LEMMA SubsetInduction ==
  ASSUME NEW S, IsFiniteSet(S), NEW G, {} \in G,
         \A T \in SUBSET S : \A x \in T : T \ {x} \in G => T \in G
  PROVE  SUBSET S \subseteq G
<1> DEFINE N == {n \in Nat : \A T \in SUBSET S : Cardinality(T) = n => T \in G}
<1>1. \A T \in SUBSET S : IsFiniteSet(T) /\ Cardinality(T) \in Nat
  BY FS_Subset, FS_CardinalityType
<1>2. 0 \in N
  BY <1>1, FS_EmptySet
<1>3. ASSUME NEW n \in Nat, n \in N PROVE n + 1 \in N
  <2> SUFFICES ASSUME NEW T \in SUBSET S, Cardinality(T) = n + 1 PROVE T \in G
    BY <1>3
  <2>1. PICK x : x \in T
    BY <1>1, FS_EmptySet, n + 1 # 0
  <2>2. Cardinality(T \ {x}) = n
    BY <1>1, <2>1, FS_RemoveElement
  <2> QED BY <1>3, <2>1, <2>2
<1> HIDE DEF N
<1>4. Nat \subseteq N
  BY <1>2, <1>3, NumberInduction
<1> QED BY <1>1, <1>4 DEF N

---------------------------------------------------------------------------
(* Sums *)

\* The element a fold takes first, the recursion of the fold, and its function
Some(s) == CHOOSE x \in s : TRUE
Step(it, g, s) == IF s = {} THEN 0 ELSE g[Some(s)] + it[s \ {Some(s)}]
Iter(g, S) == CHOOSE it : it = [s \in SUBSET S |-> Step(it, g, s)]

\* A fold takes one element of a set at a time.
LEMMA SomeLemma ==
  ASSUME NEW s, IsFiniteSet(s), s # {}
  PROVE  /\ Some(s) \in s
         /\ Cardinality(s \ {Some(s)}) = Cardinality(s) - 1
<1>1. Some(s) \in s
  BY DEF Some
<1> QED BY <1>1, FS_RemoveElement

\* A sum is the fold over all of the set.
LEMMA SumIsIter ==
  ASSUME NEW g, NEW S PROVE SumOf(g, S) = Iter(g, S)[S]
BY DEF SumOf, MapThenSumSet, MapThenFoldSet, Iter, Step, Some

\* The function of the fold exists: it is built up by the size of the subsets.
LEMMA IterExists ==
  ASSUME NEW g, NEW S, IsFiniteSet(S)
  PROVE  \A s \in SUBSET S : Iter(g, S)[s] = Step(Iter(g, S), g, s)
<1> DEFINE Good(it, n) == /\ it = [s \in SUBSET S |-> it[s]]
                          /\ \A s \in SUBSET S : Cardinality(s) <= n => it[s] = Step(it, g, s)
           N == {n \in Nat : \E it : Good(it, n)}
<1>1. \A s \in SUBSET S : IsFiniteSet(s) /\ Cardinality(s) \in Nat
  BY FS_Subset, FS_CardinalityType
<1>2. \A s \in SUBSET S : s # {} => /\ Some(s) \in s
                                    /\ s \ {Some(s)} \in SUBSET S
                                    /\ Cardinality(s \ {Some(s)}) = Cardinality(s) - 1
  BY <1>1, FS_RemoveElement DEF Some
<1>3. 0 \in N
  <2>1. Good([s \in SUBSET S |-> 0], 0)
    BY <1>1, FS_EmptySet DEF Step
  <2> QED BY <2>1
<1>4. ASSUME NEW n \in Nat, n \in N PROVE n + 1 \in N
  <2>1. PICK it : Good(it, n)
    BY <1>4
  <2> DEFINE next == [s \in SUBSET S |-> IF Cardinality(s) <= n THEN it[s] ELSE Step(it, g, s)]
  <2>2. \A s \in SUBSET S : Cardinality(s) <= n + 1 => Step(next, g, s) = Step(it, g, s)
    <3> SUFFICES ASSUME NEW s \in SUBSET S, Cardinality(s) <= n + 1, s # {}
                 PROVE  next[s \ {Some(s)}] = it[s \ {Some(s)}]
      BY DEF Step
    <3>1. s \ {Some(s)} \in SUBSET S /\ Cardinality(s \ {Some(s)}) <= n
      BY <1>1, <1>2
    <3> QED BY <3>1
  <2>3. \A s \in SUBSET S : Cardinality(s) <= n + 1 => next[s] = Step(it, g, s)
    BY <2>1
  <2>4. Good(next, n + 1)
    BY <2>2, <2>3
  <2> HIDE DEF next, Good
  <2>5. \E it2 : Good(it2, n + 1)
    BY <2>4
  <2> QED BY <2>5
<1>5. \E it : Good(it, Cardinality(S))
  <2> HIDE DEF N
  <2>1. Nat \subseteq N
    BY <1>3, <1>4, NumberInduction
  <2> QED BY <2>1, <1>1 DEF N
<1>6. PICK it : Good(it, Cardinality(S))
  BY <1>5
<1>7. it = [s \in SUBSET S |-> Step(it, g, s)]
  <2>1. \A s \in SUBSET S : Cardinality(s) <= Cardinality(S)
    BY FS_Subset
  <2> QED BY <1>6, <2>1
<1>8. Iter(g, S) = [s \in SUBSET S |-> Step(Iter(g, S), g, s)]
  BY <1>7 DEF Iter
<1> QED BY <1>8

\* Inside a larger set a fold computes the same sums.
LEMMA IterIsSum ==
  ASSUME NEW g, NEW S, IsFiniteSet(S), NEW T \in SUBSET S
  PROVE  Iter(g, S)[T] = SumOf(g, T)
<1> DEFINE G == {s \in SUBSET T : Iter(g, S)[s] = Iter(g, T)[s]}
<1>1. IsFiniteSet(T)
  BY FS_Subset
<1>2. \A s \in SUBSET S : Iter(g, S)[s] = Step(Iter(g, S), g, s)
  BY IterExists
<1>3. \A s \in SUBSET T : Iter(g, T)[s] = Step(Iter(g, T), g, s)
  BY <1>1, IterExists
<1> DEFINE N == {n \in Nat : \A s \in SUBSET T : Cardinality(s) = n => s \in G}
<1>4. \A s \in SUBSET T : IsFiniteSet(s) /\ Cardinality(s) \in Nat
  BY <1>1, FS_Subset, FS_CardinalityType
<1>5. 0 \in N
  <2>1. Iter(g, S)[{}] = 0 /\ Iter(g, T)[{}] = 0
    BY <1>2, <1>3 DEF Step
  <2>2. {} \in G
    BY <2>1
  <2> HIDE DEF G
  <2> QED BY <1>4, <2>2, FS_EmptySet
<1>6. ASSUME NEW n \in Nat, n \in N PROVE n + 1 \in N
  <2> SUFFICES ASSUME NEW s \in SUBSET T, Cardinality(s) = n + 1 PROVE s \in G
    BY <1>6
  <2>1. s # {} /\ Some(s) \in s
    BY <1>4, FS_EmptySet, n + 1 # 0 DEF Some
  <2>2. s \ {Some(s)} \in SUBSET T /\ Cardinality(s \ {Some(s)}) = n
    <3>1. IsFiniteSet(s)
      BY <1>4
    <3> HIDE DEF N, G
    <3>2. Cardinality(s \ {Some(s)}) = Cardinality(s) - 1
      BY <2>1, <3>1, SomeLemma
    <3> QED BY <3>2
  <2>3. Iter(g, S)[s \ {Some(s)}] = Iter(g, T)[s \ {Some(s)}]
    BY <1>6, <2>2
  <2>4. s \in SUBSET S
    OBVIOUS
  <2>5. Step(Iter(g, S), g, s) = Step(Iter(g, T), g, s)
    BY <2>1, <2>3 DEF Step
  <2>6. Iter(g, S)[s] = Iter(g, T)[s]
    BY <1>2, <1>3, <2>4, <2>5
  <2> QED BY <2>6
<1> HIDE DEF N
<1>7. Nat \subseteq N
  BY <1>5, <1>6, NumberInduction
<1>8. T \in G
  <2>1. Cardinality(T) \in N
    BY <1>4, <1>7
  <2> QED BY <2>1 DEF N
<1> QED BY <1>8, SumIsIter

\* Nothing sums to 0, and a sum is one element and the rest.
LEMMA SumRecursion ==
  ASSUME NEW g
  PROVE  /\ SumOf(g, {}) = 0
         /\ \A S : IsFiniteSet(S) /\ S # {} => SumOf(g, S) = g[Some(S)] + SumOf(g, S \ {Some(S)})
<1>1. SumOf(g, {}) = 0
  BY FS_EmptySet, SumIsIter, IterExists DEF Step
<1>2. ASSUME NEW S, IsFiniteSet(S), S # {}
      PROVE  SumOf(g, S) = g[Some(S)] + SumOf(g, S \ {Some(S)})
  <2>1. Iter(g, S)[S] = Step(Iter(g, S), g, S)
    BY <1>2, IterExists
  <2>2. Iter(g, S)[S \ {Some(S)}] = SumOf(g, S \ {Some(S)})
    BY <1>2, IterIsSum
  <2> QED BY <1>2, <2>1, <2>2, SumIsIter DEF Step
<1> QED BY <1>1, <1>2

\* A sum of integers is one.
LEMMA SumType ==
  ASSUME NEW S, IsFiniteSet(S), NEW g, \A x \in S : g[x] \in Int
  PROVE  SumOf(g, S) \in Int
<1> DEFINE N == {n \in Nat : \A T \in SUBSET S : Cardinality(T) = n => SumOf(g, T) \in Int}
<1>1. \A T \in SUBSET S : IsFiniteSet(T) /\ Cardinality(T) \in Nat
  BY FS_Subset, FS_CardinalityType
<1>2. 0 \in N
  BY <1>1, FS_EmptySet, SumRecursion
<1>3. ASSUME NEW n \in Nat, n \in N PROVE n + 1 \in N
  <2> SUFFICES ASSUME NEW T \in SUBSET S, Cardinality(T) = n + 1 PROVE SumOf(g, T) \in Int
    BY <1>3
  <2>1. T # {} /\ IsFiniteSet(T)
    BY <1>1, FS_EmptySet, n + 1 # 0
  <2>2. Some(T) \in T /\ Cardinality(T \ {Some(T)}) = n
    BY <2>1, SomeLemma
  <2>3. SumOf(g, T \ {Some(T)}) \in Int
    BY <1>3, <2>2
  <2> HIDE DEF N
  <2> QED BY <2>1, <2>2, <2>3, SumRecursion
<1> HIDE DEF N
<1>4. Nat \subseteq N
  BY <1>2, <1>3, NumberInduction
<1>5. Cardinality(S) \in N
  BY <1>1, <1>4
<1> QED BY <1>5 DEF N

\* Any element may be the one taken first.
LEMMA SumRemove ==
  ASSUME NEW S, IsFiniteSet(S), NEW g, \A x \in S : g[x] \in Int, NEW x \in S
  PROVE  SumOf(g, S) = g[x] + SumOf(g, S \ {x})
<1> DEFINE Free(T) == \A y \in T : SumOf(g, T) = g[y] + SumOf(g, T \ {y})
           N == {n \in Nat : \A T \in SUBSET S : Cardinality(T) = n => Free(T)}
<1>1. \A T \in SUBSET S : IsFiniteSet(T) /\ Cardinality(T) \in Nat
  BY FS_Subset, FS_CardinalityType
<1>2. 0 \in N
  BY <1>1, FS_EmptySet
<1>3. ASSUME NEW n \in Nat, n \in N PROVE n + 1 \in N
  <2> SUFFICES ASSUME NEW T \in SUBSET S, Cardinality(T) = n + 1, NEW y \in T
               PROVE  SumOf(g, T) = g[y] + SumOf(g, T \ {y})
    BY <1>3
  <2>0. PICK z : z = Some(T)
    OBVIOUS
  <2>1. T # {} /\ IsFiniteSet(T)
    BY <1>1
  <2>2. z \in T /\ Cardinality(T \ {z}) = n /\ Cardinality(T \ {y}) = n
    <3>1. z \in T
      BY <2>0, <2>1, SomeLemma
    <3> HIDE DEF N
    <3>2. Cardinality(T \ {z}) = Cardinality(T) - 1
      BY <2>1, <3>1, FS_RemoveElement
    <3>3. Cardinality(T \ {y}) = Cardinality(T) - 1
      BY <2>1, FS_RemoveElement
    <3> QED BY <3>1, <3>2, <3>3
  <2>3. Free(T \ {z}) /\ Free(T \ {y})
    BY <1>3, <2>2
  <2>4. SumOf(g, T) = g[z] + SumOf(g, T \ {z})
    BY <2>0, <2>1, SumRecursion
  <2>5. CASE y = z
    BY <2>4, <2>5
  <2>6. CASE y # z
    <3>1. SumOf(g, T \ {z}) = g[y] + SumOf(g, (T \ {z}) \ {y})
      BY <2>3, <2>6
    <3>2. SumOf(g, T \ {y}) = g[z] + SumOf(g, (T \ {y}) \ {z})
      BY <2>2, <2>3, <2>6
    <3>3. PICK rest : rest = (T \ {z}) \ {y}
      OBVIOUS
    <3>6. rest = (T \ {y}) \ {z}
      BY <3>3
    <3>4. SumOf(g, rest) \in Int
      <4>1. IsFiniteSet(rest)
        BY <2>1, <3>3, FS_Subset
      <4> QED BY <4>1, <3>3, SumType
    <3>5. g[y] \in Int /\ g[z] \in Int
      BY <2>2
    <3>7. SumOf(g, T) = g[z] + (g[y] + SumOf(g, rest))
      BY <2>4, <3>1, <3>3
    <3>8. SumOf(g, T \ {y}) = g[z] + SumOf(g, rest)
      BY <3>2, <3>6
    <3> HIDE DEF N, Free
    <3> QED BY <3>4, <3>5, <3>7, <3>8
  <2> QED BY <2>5, <2>6
<1> HIDE DEF N
<1>4. Nat \subseteq N
  BY <1>2, <1>3, NumberInduction
<1>5. Cardinality(S) \in N
  BY <1>1, <1>4
<1> QED BY <1>5 DEF N

\* Sums that are over the same elements of equal functions are equal.
LEMMA SumEqual ==
  ASSUME NEW S, IsFiniteSet(S), NEW g, NEW h, \A x \in S : g[x] \in Int /\ h[x] = g[x]
  PROVE  SumOf(h, S) = SumOf(g, S)
<1> DEFINE G == {T \in SUBSET S : SumOf(h, T) = SumOf(g, T)}
<1>1. {} \in G
  BY SumRecursion
<1>2. ASSUME NEW T \in SUBSET S, NEW x \in T, T \ {x} \in G PROVE T \in G
  <2>1. IsFiniteSet(T)
    BY FS_Subset
  <2>2. SumOf(h, T) = h[x] + SumOf(h, T \ {x}) /\ SumOf(g, T) = g[x] + SumOf(g, T \ {x})
    BY <2>1, SumRemove
  <2> QED BY <1>2, <2>2
<1> HIDE DEF G
<1>3. S \in G
  BY <1>1, <1>2, SubsetInduction
<1> QED BY <1>3 DEF G

\* The sum of sums.
LEMMA SumPlus ==
  ASSUME NEW S, IsFiniteSet(S), NEW g, NEW h, NEW k,
         \A x \in S : g[x] \in Int /\ h[x] \in Int /\ k[x] = g[x] + h[x]
  PROVE  SumOf(k, S) = SumOf(g, S) + SumOf(h, S)
<1> DEFINE G == {T \in SUBSET S : SumOf(k, T) = SumOf(g, T) + SumOf(h, T)}
<1>1. {} \in G
  BY SumRecursion
<1>2. ASSUME NEW T \in SUBSET S, NEW x \in T, T \ {x} \in G PROVE T \in G
  <2>1. IsFiniteSet(T) /\ IsFiniteSet(T \ {x})
    BY FS_Subset
  <2>2. /\ SumOf(g, T) = g[x] + SumOf(g, T \ {x})
        /\ SumOf(h, T) = h[x] + SumOf(h, T \ {x})
        /\ SumOf(k, T) = k[x] + SumOf(k, T \ {x})
    BY <2>1, SumRemove
  <2>3. SumOf(g, T \ {x}) \in Int /\ SumOf(h, T \ {x}) \in Int
    BY <2>1, SumType
  <2>4. g[x] \in Int /\ h[x] \in Int /\ k[x] = g[x] + h[x]
    OBVIOUS
  <2>5. SumOf(k, T \ {x}) = SumOf(g, T \ {x}) + SumOf(h, T \ {x})
    BY <1>2
  <2>6. SumOf(k, T) = SumOf(g, T) + SumOf(h, T)
    BY <2>2, <2>3, <2>4, <2>5
  <2> QED BY <2>6
<1> HIDE DEF G
<1>3. S \in G
  BY <1>1, <1>2, SubsetInduction
<1> QED BY <1>3 DEF G

\* A sum is no more than that of a function which is nowhere less, and less if
\* the function is more somewhere.
LEMMA SumMonotone ==
  ASSUME NEW S, IsFiniteSet(S), NEW g, NEW h,
         \A x \in S : g[x] \in Int /\ h[x] \in Int /\ g[x] <= h[x]
  PROVE  /\ SumOf(g, S) <= SumOf(h, S)
         /\ \A x \in S : g[x] < h[x] => SumOf(g, S) < SumOf(h, S)
<1> DEFINE G == {T \in SUBSET S : SumOf(g, T) <= SumOf(h, T)}
<1>0. ASSUME NEW T \in SUBSET S, NEW x \in T
      PROVE  /\ SumOf(g, T) = g[x] + SumOf(g, T \ {x})
             /\ SumOf(h, T) = h[x] + SumOf(h, T \ {x})
             /\ SumOf(g, T \ {x}) \in Int /\ SumOf(h, T \ {x}) \in Int
  <2>1. IsFiniteSet(T) /\ IsFiniteSet(T \ {x})
    BY FS_Subset
  <2>2. SumOf(g, T) = g[x] + SumOf(g, T \ {x}) /\ SumOf(h, T) = h[x] + SumOf(h, T \ {x})
    BY <2>1, SumRemove
  <2> QED BY <2>1, <2>2, SumType
<1>1. {} \in G
  BY SumRecursion
<1>2. ASSUME NEW T \in SUBSET S, NEW x \in T, T \ {x} \in G PROVE T \in G
  <2>1. SumOf(g, T \ {x}) <= SumOf(h, T \ {x})
    BY <1>2
  <2>2. SumOf(g, T) <= SumOf(h, T)
    BY <1>0, <2>1
  <2> QED BY <2>2
<1> HIDE DEF G
<1>3. SUBSET S \subseteq G
  BY <1>1, <1>2, SubsetInduction
<1>4. \A T \in SUBSET S : SumOf(g, T) <= SumOf(h, T)
  BY <1>3 DEF G
<1>5. ASSUME NEW x \in S, g[x] < h[x] PROVE SumOf(g, S) < SumOf(h, S)
  <2>1. SumOf(g, S \ {x}) <= SumOf(h, S \ {x})
    BY <1>4
  <2> QED BY <1>0, <1>5, <2>1
<1> QED BY <1>4, <1>5

\* A sum of zeros is 0.
LEMMA SumZero ==
  ASSUME NEW S, IsFiniteSet(S), NEW g, \A x \in S : g[x] = 0
  PROVE  SumOf(g, S) = 0
<1> DEFINE G == {T \in SUBSET S : SumOf(g, T) = 0}
<1>1. {} \in G
  BY SumRecursion
<1>2. ASSUME NEW T \in SUBSET S, NEW x \in T, T \ {x} \in G PROVE T \in G
  <2>1. IsFiniteSet(T)
    BY FS_Subset
  <2>2. SumOf(g, T) = g[x] + SumOf(g, T \ {x})
    BY <2>1, SumRemove
  <2> QED BY <1>2, <2>2
<1> HIDE DEF G
<1>3. S \in G
  BY <1>1, <1>2, SubsetInduction
<1> QED BY <1>3 DEF G

\* Of amounts that are nowhere negative none is more than their sum.
LEMMA SumNat ==
  ASSUME NEW S, IsFiniteSet(S), NEW g, \A x \in S : g[x] \in Nat
  PROVE  /\ SumOf(g, S) \in Nat
         /\ \A x \in S : g[x] <= SumOf(g, S)
<1> DEFINE z == [x \in S |-> 0]
<1>1. \A T \in SUBSET S : IsFiniteSet(T)
  BY FS_Subset
<1>2. \A T \in SUBSET S : SumOf(z, T) = 0 /\ SumOf(g, T) \in Int
  BY <1>1, SumZero, SumType
<1>3. \A T \in SUBSET S : SumOf(z, T) <= SumOf(g, T)
  <2> SUFFICES ASSUME NEW T \in SUBSET S PROVE SumOf(z, T) <= SumOf(g, T)
    OBVIOUS
  <2>1. \A x \in T : z[x] \in Int /\ g[x] \in Int /\ z[x] <= g[x]
    OBVIOUS
  <2> HIDE DEF z
  <2> QED BY <1>1, <2>1, SumMonotone
<1> HIDE DEF z
<1>4. \A T \in SUBSET S : SumOf(g, T) \in Nat
  BY <1>2, <1>3
<1>5. \A x \in S : SumOf(g, S) = g[x] + SumOf(g, S \ {x})
  BY SumRemove
<1>6. SumOf(g, S) \in Nat
  BY <1>4
<1>7. ASSUME NEW x \in S PROVE g[x] <= SumOf(g, S)
  <2>1. SumOf(g, S \ {x}) \in Nat
    BY <1>4
  <2> QED BY <1>5, <2>1
<1> QED BY <1>6, <1>7

\* One changed element changes the sum by as much.
LEMMA SumExcept ==
  ASSUME NEW S, IsFiniteSet(S), NEW g, NEW h, NEW u \in S, h[u] \in Int,
         \A x \in S : g[x] \in Int /\ (x # u => h[x] = g[x])
  PROVE  SumOf(h, S) = SumOf(g, S) - g[u] + h[u]
<1>1. \A x \in S : h[x] \in Int
  OBVIOUS
<1>2. SumOf(g, S) = g[u] + SumOf(g, S \ {u}) /\ SumOf(h, S) = h[u] + SumOf(h, S \ {u})
  BY <1>1, SumRemove
<1>3. IsFiniteSet(S \ {u})
  BY FS_RemoveElement
<1>4. SumOf(g, S \ {u}) \in Int /\ SumOf(h, S \ {u}) = SumOf(g, S \ {u})
  BY <1>3, SumType, SumEqual
<1>5. g[u] \in Int
  OBVIOUS
<1> QED BY <1>2, <1>4, <1>5

\* The sum over a part is that over the whole of what is 0 elsewhere.
LEMMA SumPart ==
  ASSUME NEW S, IsFiniteSet(S), NEW P, NEW g, NEW h,
         \A x \in S : g[x] \in Int /\ h[x] = IF x \in P THEN g[x] ELSE 0
  PROVE  SumOf(h, S) = SumOf(g, S \intersect P)
<1> DEFINE G == {T \in SUBSET S : SumOf(h, T) = SumOf(g, T \intersect P)}
<1>1. {} \in G
  <2>1. {} \intersect P = {}
    OBVIOUS
  <2> QED BY <2>1, SumRecursion
<1>2. ASSUME NEW T \in SUBSET S, NEW x \in T, T \ {x} \in G PROVE T \in G
  <2>1. IsFiniteSet(T) /\ IsFiniteSet(T \ {x}) /\ IsFiniteSet(T \intersect P)
    BY FS_Subset
  <2>2. SumOf(h, T) = h[x] + SumOf(h, T \ {x})
    BY <2>1, SumRemove
  <2>3. SumOf(h, T \ {x}) = SumOf(g, (T \ {x}) \intersect P) /\ SumOf(h, T \ {x}) \in Int
    BY <1>2, <2>1, SumType
  <2>4. CASE x \in P
    <3>1. (T \ {x}) \intersect P = (T \intersect P) \ {x} /\ x \in T \intersect P
      BY <2>4
    <3>2. SumOf(g, T \intersect P) = g[x] + SumOf(g, (T \intersect P) \ {x})
      <4>1. \A y \in T \intersect P : g[y] \in Int
        OBVIOUS
      <4> HIDE DEF G
      <4> QED BY <2>1, <3>1, <4>1, SumRemove
    <3>3. h[x] = g[x]
      BY <2>4
    <3>4. SumOf(h, T) = SumOf(g, T \intersect P)
      BY <2>2, <2>3, <3>1, <3>2, <3>3
    <3> QED BY <3>4
  <2>5. CASE x \notin P
    <3>1. (T \ {x}) \intersect P = T \intersect P
      BY <2>5
    <3>2. h[x] = 0
      BY <2>5
    <3>3. SumOf(h, T) = SumOf(h, T \ {x})
      BY <2>2, <2>3, <3>2
    <3>4. SumOf(h, T) = SumOf(g, T \intersect P)
      BY <2>3, <3>1, <3>3
    <3> QED BY <3>4
  <2> QED BY <2>4, <2>5
<1> HIDE DEF G
<1>3. S \in G
  BY <1>1, <1>2, SubsetInduction
<1> QED BY <1>3 DEF G

\* The sum over two sets that share nothing.
LEMMA SumUnion ==
  ASSUME NEW S, IsFiniteSet(S), NEW T, IsFiniteSet(T), S \intersect T = {},
         NEW g, \A x \in S \union T : g[x] \in Int
  PROVE  SumOf(g, S \union T) = SumOf(g, S) + SumOf(g, T)
<1> DEFINE U == S \union T
           gs == [x \in U |-> IF x \in S THEN g[x] ELSE 0]
           gt == [x \in U |-> IF x \in T THEN g[x] ELSE 0]
<1>1. IsFiniteSet(U)
  BY FS_Union
<1>2. \A x \in U : gs[x] \in Int /\ gt[x] \in Int /\ g[x] = gs[x] + gt[x]
  OBVIOUS
<1>3. SumOf(g, U) = SumOf(gs, U) + SumOf(gt, U)
  <2> HIDE DEF gs, gt, U
  <2> QED BY <1>1, <1>2, SumPlus
<1>4. SumOf(gs, U) = SumOf(g, U \intersect S)
  <2>1. \A x \in U : g[x] \in Int /\ gs[x] = IF x \in S THEN g[x] ELSE 0
    OBVIOUS
  <2> HIDE DEF gs, gt, U
  <2> QED BY <1>1, <2>1, SumPart
<1>5. SumOf(gt, U) = SumOf(g, U \intersect T)
  <2>1. \A x \in U : g[x] \in Int /\ gt[x] = IF x \in T THEN g[x] ELSE 0
    OBVIOUS
  <2> HIDE DEF gs, gt, U
  <2> QED BY <1>1, <2>1, SumPart
<1>6. U \intersect S = S /\ U \intersect T = T
  OBVIOUS
<1> QED BY <1>3, <1>4, <1>5, <1>6

\* A factor comes out of a sum.
LEMMA SumScale ==
  ASSUME NEW S, IsFiniteSet(S), NEW c \in Int, NEW g, NEW h,
         \A x \in S : g[x] \in Int /\ h[x] = c * g[x]
  PROVE  SumOf(h, S) = c * SumOf(g, S)
<1> DEFINE G == {T \in SUBSET S : SumOf(h, T) = c * SumOf(g, T)}
<1>1. {} \in G
  BY SumRecursion
<1>2. ASSUME NEW T \in SUBSET S, NEW x \in T, T \ {x} \in G PROVE T \in G
  <2>1. IsFiniteSet(T) /\ IsFiniteSet(T \ {x})
    BY FS_Subset
  <2>2. SumOf(h, T) = h[x] + SumOf(h, T \ {x}) /\ SumOf(g, T) = g[x] + SumOf(g, T \ {x})
    BY <2>1, SumRemove
  <2>3. SumOf(g, T \ {x}) \in Int /\ g[x] \in Int
    BY <2>1, SumType
  <2>4. SumOf(h, T) = c * g[x] + c * SumOf(g, T \ {x})
    BY <1>2, <2>2
  <2>5. \A a, b \in Int : c * a + c * b = c * (a + b)
    OBVIOUS
  <2>6. SumOf(h, T) = c * SumOf(g, T)
    BY <2>2, <2>3, <2>4, <2>5
  <2> QED BY <2>6
<1> HIDE DEF G
<1>3. S \in G
  BY <1>1, <1>2, SubsetInduction
<1> QED BY <1>3 DEF G

\* A sum of ones counts.
LEMMA SumCount ==
  ASSUME NEW S, IsFiniteSet(S), NEW g, \A x \in S : g[x] = 1
  PROVE  SumOf(g, S) = Cardinality(S)
<1> DEFINE G == {T \in SUBSET S : SumOf(g, T) = Cardinality(T)}
<1>1. {} \in G
  BY SumRecursion, FS_EmptySet
<1>2. ASSUME NEW T \in SUBSET S, NEW x \in T, T \ {x} \in G PROVE T \in G
  <2>1. IsFiniteSet(T) /\ Cardinality(T) \in Nat
    BY FS_Subset, FS_CardinalityType
  <2>2. SumOf(g, T) = g[x] + SumOf(g, T \ {x})
    BY <2>1, SumRemove
  <2>3. Cardinality(T \ {x}) = Cardinality(T) - 1
    BY <2>1, FS_RemoveElement
  <2>4. SumOf(g, T \ {x}) = Cardinality(T \ {x}) /\ g[x] = 1
    BY <1>2
  <2>5. SumOf(g, T) = Cardinality(T)
    BY <2>1, <2>2, <2>3, <2>4
  <2> QED BY <2>5
<1> HIDE DEF G
<1>3. S \in G
  BY <1>1, <1>2, SubsetInduction
<1> QED BY <1>3 DEF G

\* Rows and columns: rows[x] and cols[y] are the sums of a table by either.
LEMMA SumSwap ==
  ASSUME NEW S, IsFiniteSet(S), NEW T, IsFiniteSet(T), NEW t,
         \A x \in S, y \in T : t[x][y] \in Int
  PROVE  SumOf([x \in S |-> SumOf(t[x], T)], S) = SumOf([y \in T |-> SumOf([x \in S |-> t[x][y]], S)], T)
<1> DEFINE row == [x \in S |-> SumOf(t[x], T)]
           at(y) == [x \in S |-> t[x][y]]
           col(U) == [y \in T |-> SumOf(at(y), U)]
           G == {U \in SUBSET S : SumOf(row, U) = SumOf(col(U), T)}
<1>1. \A x \in S : row[x] = SumOf(t[x], T) /\ row[x] \in Int
  BY SumType
<1>2. {} \in G
  <2>1. \A y \in T : col({})[y] = 0
    BY SumRecursion
  <2> HIDE DEF col, row
  <2>2. SumOf(col({}), T) = 0
    BY <2>1, SumZero
  <2> QED BY <2>2, SumRecursion
<1>3. ASSUME NEW U \in SUBSET S, NEW x \in U, U \ {x} \in G PROVE U \in G
  <2>1. IsFiniteSet(U) /\ IsFiniteSet(U \ {x})
    BY FS_Subset
  <2>2. SumOf(row, U) = row[x] + SumOf(row, U \ {x})
    <3> HIDE DEF row
    <3> QED BY <1>1, <2>1, SumRemove
  <2>3. \A y \in T : /\ t[x][y] \in Int
                     /\ col(U \ {x})[y] \in Int
                     /\ col(U)[y] = t[x][y] + col(U \ {x})[y]
    <3> SUFFICES ASSUME NEW y \in T
                 PROVE  /\ SumOf(at(y), U \ {x}) \in Int
                        /\ SumOf(at(y), U) = t[x][y] + SumOf(at(y), U \ {x})
      OBVIOUS
    <3>1. \A z \in S : at(y)[z] \in Int /\ at(y)[x] = t[x][y]
      OBVIOUS
    <3> HIDE DEF at
    <3>2. SumOf(at(y), U \ {x}) \in Int
      BY <2>1, <3>1, SumType
    <3> QED BY <2>1, <3>1, <3>2, SumRemove
  <2>4. SumOf(col(U), T) = SumOf(t[x], T) + SumOf(col(U \ {x}), T)
    <3> HIDE DEF col
    <3> QED BY <2>3, SumPlus
  <2>5. SumOf(row, U \ {x}) = SumOf(col(U \ {x}), T)
    BY <1>3
  <2>6. SumOf(row, U) = SumOf(col(U), T)
    <3> HIDE DEF col, row
    <3> QED BY <1>1, <2>2, <2>4, <2>5
  <2> QED BY <2>6
<1>4. S \in G
  <2> HIDE DEF G
  <2> QED BY <1>2, <1>3, SubsetInduction
<1> QED BY <1>4
=============================================================================
