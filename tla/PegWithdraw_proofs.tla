------------------------- MODULE PegWithdraw_proofs -------------------------
(***************************************************************************)
(* For any number of fractions, coins and withdrawals: the books of an     *)
(* exchange keep matching its coins, what it pays is what was asked for,   *)
(* and a withdrawal that was planned is refused in two cases only.         *)
(***************************************************************************)
EXTENDS PegWithdraw, TxFractions_proofs

-----------------------------------------------------------------------------
(* Sums along a list, and lists of all elements                            *)

\* A function has finitely many values on a finite set.
LEMMA ImageFinite ==
  ASSUME NEW D, IsFiniteSet(D), NEW f
  PROVE  IsFiniteSet({f[x] : x \in D})
<1>1. PICK g : g = [x \in D |-> f[x]]
  OBVIOUS
<1>2. {f[x] : x \in D} = {g[x] : x \in D}
  BY <1>1
<1>3. g \in Surjection(D, {g[x] : x \in D})
  BY <1>1 DEF Surjection
<1> QED BY <1>2, <1>3, FS_Surjection

\* A sum along different names of the elements.
LEMMA SumImage ==
  ASSUME NEW I, IsFiniteSet(I), NEW s, NEW g, NEW h,
         \A i, j \in I : s[i] = s[j] => i = j,
         \A i \in I : g[s[i]] \in Int /\ h[i] = g[s[i]]
  PROVE  SumOf(h, I) = SumOf(g, {s[i] : i \in I})
<1> DEFINE Im(T) == {s[i] : i \in T}
           G == {T \in SUBSET I : SumOf(h, T) = SumOf(g, Im(T))}
<1>1. {} \in G
  <2>1. Im({}) = {}
    OBVIOUS
  <2> QED BY <2>1, SumRecursion
<1>2. ASSUME NEW T \in SUBSET I, NEW x \in T, T \ {x} \in G PROVE T \in G
  <2>1. IsFiniteSet(T) /\ IsFiniteSet(T \ {x}) /\ IsFiniteSet(Im(T))
    BY FS_Subset, ImageFinite
  <2>2. Im(T) \ {s[x]} = Im(T \ {x}) /\ s[x] \in Im(T)
    OBVIOUS
  <2>3. \A y \in Im(T) : g[y] \in Int
    OBVIOUS
  <2>4. SumOf(g, Im(T)) = g[s[x]] + SumOf(g, Im(T) \ {s[x]})
    <3> HIDE DEF Im
    <3> QED BY <2>1, <2>2, <2>3, SumRemove
  <2>5. SumOf(h, T) = h[x] + SumOf(h, T \ {x})
    <3>1. \A i \in T : h[i] \in Int
      OBVIOUS
    <3> QED BY <2>1, <3>1, SumRemove
  <2>6. SumOf(h, T \ {x}) = SumOf(g, Im(T \ {x})) /\ h[x] = g[s[x]]
    BY <1>2
  <2> QED BY <2>2, <2>4, <2>5, <2>6
<1> HIDE DEF G
<1>3. I \in G
  BY <1>1, <1>2, SubsetInduction
<1> QED BY <1>3 DEF G

\* As many different elements of a finite set as it has are all of them.
LEMMA ListingOnto ==
  ASSUME NEW S, IsFiniteSet(S), NEW s \in [1..Cardinality(S) -> S],
         \A i, j \in 1..Cardinality(S) : s[i] = s[j] => i = j
  PROVE  \A x \in S : \E i \in 1..Cardinality(S) : s[i] = x
<1>1. Cardinality(S) \in Nat
  BY FS_CardinalityType
<1>2. s \in Injection(1..Cardinality(S), S)
  BY DEF Injection, IsInjective
<1>3. IsFiniteSet(1..Cardinality(S)) /\ Cardinality(1..Cardinality(S)) = Cardinality(S)
  <2>1. 1 \in Int /\ Cardinality(S) \in Int
    BY <1>1
  <2>2. Cardinality(1..Cardinality(S)) = IF 1 > Cardinality(S) THEN 0 ELSE Cardinality(S) - 1 + 1
    BY <2>1, FS_Interval
  <2> QED BY <1>1, <2>1, <2>2, FS_Interval
<1>4. s \in Surjection(1..Cardinality(S), S)
  BY <1>2, <1>3, FS_Injection
<1> QED BY <1>4 DEF Surjection

-----------------------------------------------------------------------------
(* The coins used, in order                                                *)

GoodCoins ==
  /\ IsFiniteSet(DOMAIN coins) /\ DOMAIN coins \subseteq Nat
  /\ \A c \in DOMAIN coins : /\ coins[c].address \in Nat \ {0, Payee}
                             /\ coins[c].fractions \in Fractions

IsBefore(x, y) ==
  coins[x].address < coins[y].address \/ (coins[x].address = coins[y].address /\ x < y)

IsSorted(s, S) == s \in [1..Cardinality(S) -> S] /\ \A i, j \in DOMAIN s : i < j => IsBefore(s[i], s[j])

\* Of some coins one comes last.
LEMMA LastCoin ==
  ASSUME GoodCoins, NEW T \in SUBSET DOMAIN coins, T # {}
  PROVE  \E x \in T : \A y \in T : y # x => IsBefore(y, x)
<1>1. IsFiniteSet(T) /\ T \subseteq Nat
  BY FS_Subset DEF GoodCoins
<1>2. PICK f : f = [c \in T |-> coins[c].address]
  OBVIOUS
<1>3. \A c \in T : f[c] \in Nat /\ f[c] = coins[c].address
  BY <1>2 DEF GoodCoins
<1>4. IsFiniteSet({f[c] : c \in T}) /\ {f[c] : c \in T} \in SUBSET Nat /\ {f[c] : c \in T} # {}
  BY <1>1, <1>3, ImageFinite
<1>5. PICK a \in {f[c] : c \in T} : \A b \in {f[c] : c \in T} : b <= a
  BY <1>4, GreatestNumber
<1>6. PICK U : U = {c \in T : f[c] = a}
  OBVIOUS
<1>7. IsFiniteSet(U) /\ U \in SUBSET Nat /\ U # {}
  BY <1>1, <1>5, <1>6, FS_Subset
<1>8. PICK x \in U : \A y \in U : y <= x
  BY <1>7, GreatestNumber
<1>9. ASSUME NEW y \in T, y # x PROVE IsBefore(y, x)
  <2>1. f[y] <= a /\ f[x] = a /\ f[y] \in Nat /\ a \in Nat /\ x \in T
    BY <1>3, <1>5, <1>6, <1>8
  <2>2. CASE f[y] = a
    <3>1. y \in U /\ y <= x /\ y \in Nat /\ x \in Nat
      BY <1>1, <1>6, <1>8, <2>1, <2>2
    <3> QED BY <1>3, <1>9, <2>1, <2>2, <3>1 DEF IsBefore
  <2>3. CASE f[y] # a
    BY <1>3, <2>1, <2>3 DEF IsBefore
  <2> QED BY <2>2, <2>3
<1> QED BY <1>6, <1>8, <1>9

\* Coins can be sorted by address.
LEMMA SortedExists ==
  ASSUME GoodCoins, NEW S \in SUBSET DOMAIN coins
  PROVE  \E s : IsSorted(s, S)
<1> DEFINE G == {m \in Nat : \A T \in SUBSET S : Cardinality(T) = m => \E s : IsSorted(s, T)}
<1>1. \A T \in SUBSET S : IsFiniteSet(T) /\ Cardinality(T) \in Nat /\ T \in SUBSET DOMAIN coins
  <2>1. IsFiniteSet(S)
    BY FS_Subset DEF GoodCoins
  <2> QED BY <2>1, FS_Subset, FS_CardinalityType
<1>2. 0 \in G
  <2> SUFFICES ASSUME NEW T \in SUBSET S, Cardinality(T) = 0 PROVE \E s : IsSorted(s, T)
    OBVIOUS
  <2>1. [i \in 1..0 |-> 0] \in [1..0 -> T]
    OBVIOUS
  <2>2. IsSorted([i \in 1..0 |-> 0], T)
    BY <2>1 DEF IsSorted
  <2> QED BY <2>2
<1>3. ASSUME NEW m \in Nat, m \in G PROVE m + 1 \in G
  <2> SUFFICES ASSUME NEW T \in SUBSET S, Cardinality(T) = m + 1 PROVE \E s : IsSorted(s, T)
    OBVIOUS
  <2>1. T # {} /\ IsFiniteSet(T) /\ T \in SUBSET DOMAIN coins
    BY <1>1, FS_EmptySet, m + 1 # 0
  <2>2. PICK x \in T : \A y \in T : y # x => IsBefore(y, x)
    BY <2>1, LastCoin
  <2>3. Cardinality(T \ {x}) = m
    <3>1. Cardinality(T \ {x}) = Cardinality(T) - 1
      BY <2>1, <2>2, FS_RemoveElement
    <3> QED BY <3>1
  <2>4. PICK s : IsSorted(s, T \ {x})
    BY <1>3, <2>3
  <2>5. PICK t : t = [i \in 1..(m + 1) |-> IF i = m + 1 THEN x ELSE s[i]]
    OBVIOUS
  <2>6. s \in [1..m -> T \ {x}] /\ \A i, j \in 1..m : i < j => IsBefore(s[i], s[j])
    BY <2>3, <2>4 DEF IsSorted
  <2>7. \A i \in 1..(m + 1) : i # m + 1 => i \in 1..m
    OBVIOUS
  <2>8. t \in [1..(m + 1) -> T]
    BY <2>5, <2>6, <2>7
  <2>9. ASSUME NEW i \in 1..(m + 1), NEW j \in 1..(m + 1), i < j PROVE IsBefore(t[i], t[j])
    <3>1. i \in 1..m /\ i # m + 1
      BY <2>9
    <3>2. t[i] = s[i] /\ s[i] \in T /\ s[i] # x
      BY <2>5, <2>6, <3>1
    <3>3. CASE j = m + 1
      <4>1. t[j] = x
        BY <2>5, <3>3
      <4> QED BY <2>2, <3>2, <4>1
    <3>4. CASE j # m + 1
      <4>1. j \in 1..m /\ t[j] = s[j]
        BY <2>5, <2>7, <3>4
      <4> QED BY <2>6, <2>9, <3>1, <3>2, <4>1
    <3> QED BY <3>3, <3>4
  <2>10. IsSorted(t, T)
    BY <2>8, <2>9 DEF IsSorted
  <2> QED BY <2>10
<1> HIDE DEF G
<1>4. Cardinality(S) \in G
  BY <1>1, <1>2, <1>3, NumberInduction
<1> QED BY <1>4 DEF G

\* Sorted lists the coins used, each once, by address.
LEMMA SortedLemma ==
  ASSUME GoodCoins, NEW used \in SUBSET DOMAIN coins
  PROVE  /\ Cardinality(used) \in Nat /\ IsFiniteSet(used)
         /\ Sorted(used) \in [1..Cardinality(used) -> used]
         /\ DOMAIN Sorted(used) = 1..Cardinality(used)
         /\ \A i, j \in 1..Cardinality(used) : Sorted(used)[i] = Sorted(used)[j] => i = j
         /\ {Sorted(used)[i] : i \in 1..Cardinality(used)} = used
<1>1. IsFiniteSet(used) /\ Cardinality(used) \in Nat
  BY FS_Subset, FS_CardinalityType DEF GoodCoins
<1>2. IsSorted(Sorted(used), used)
  BY SortedExists DEF Sorted, IsSorted, IsBefore
<1>3. PICK s : s = Sorted(used)
  OBVIOUS
<1>4. s \in [1..Cardinality(used) -> used] /\ \A i, j \in 1..Cardinality(used) : i < j => IsBefore(s[i], s[j])
  BY <1>2, <1>3 DEF IsSorted
<1>5. ASSUME NEW i \in 1..Cardinality(used), NEW j \in 1..Cardinality(used), s[i] = s[j] PROVE i = j
  <2>1. s[i] \in DOMAIN coins
    BY <1>4
  <2>2. s[i] \in Nat /\ coins[s[i]].address \in Nat
    BY <2>1 DEF GoodCoins
  <2>3. ~ IsBefore(s[i], s[j]) /\ ~ IsBefore(s[j], s[i])
    BY <1>5, <2>2 DEF IsBefore
  <2>4. ~ i < j /\ ~ j < i
    BY <1>4, <2>3
  <2> QED BY <1>1, <2>4
<1>6. \A x \in used : \E i \in 1..Cardinality(used) : s[i] = x
  BY <1>1, <1>4, <1>5, ListingOnto
<1>7. {s[i] : i \in 1..Cardinality(used)} = used
  BY <1>4, <1>6
<1> QED BY <1>1, <1>3, <1>4, <1>5, <1>7

-----------------------------------------------------------------------------
(* What addresses give of an amount, one after the other                   *)

\* A list of all elements of a finite set, each once
IsOrder(s, S) ==
  /\ IsFiniteSet(S) /\ s \in [1..Cardinality(S) -> S]
  /\ \A i, j \in 1..Cardinality(S) : s[i] = s[j] => i = j

\* What the addresses before the i-th have
HadBefore(order, stores, i) == SumOf([j \in DOMAIN order |-> stores[order[j]]], 1..(i - 1))

\* An order is finite, and has every element.
LEMMA OrderLemma ==
  ASSUME NEW s, NEW S, IsOrder(s, S)
  PROVE  /\ Cardinality(S) \in Nat /\ DOMAIN s = 1..Cardinality(S) /\ IsFiniteSet(DOMAIN s)
         /\ \A x \in S : \E i \in 1..Cardinality(S) : s[i] = x
         /\ {s[i] : i \in 1..Cardinality(S)} = S
<1>1. Cardinality(S) \in Nat /\ DOMAIN s = 1..Cardinality(S)
  BY FS_CardinalityType DEF IsOrder
<1>2. IsFiniteSet(1..Cardinality(S))
  BY <1>1, FS_Interval
<1>3. \A x \in S : \E i \in 1..Cardinality(S) : s[i] = x
  BY ListingOnto DEF IsOrder
<1> QED BY <1>1, <1>2, <1>3 DEF IsOrder

\* The ascending order of numbers is one.
LEMMA AscendingOrder ==
  ASSUME NEW S \in SUBSET Nat, IsFiniteSet(S)
  PROVE  IsOrder(Ascending(S), S)
<1>1. IsAscending(Ascending(S), S) /\ IsListing(Ascending(S), S)
  BY AscendingLemma
<1>2. Ascending(S) \in [1..Cardinality(S) -> S]
  BY <1>1 DEF IsAscending
<1>3. DOMAIN Ascending(S) = 1..Cardinality(S)
  BY <1>2
<1> QED BY <1>1, <1>2, <1>3 DEF IsOrder, IsListing

\* Amounts by address, and in the order of the addresses, sum up to the same.
LEMMA SumInOrder ==
  ASSUME NEW s, NEW S, IsOrder(s, S), NEW g, \A x \in S : g[x] \in Int
  PROVE  SumOf([j \in DOMAIN s |-> g[s[j]]], 1..Cardinality(S)) = SumOf(g, S)
<1>1. PICK I : I = 1..Cardinality(S)
  OBVIOUS
<1>2. IsFiniteSet(I) /\ DOMAIN s = I /\ {s[i] : i \in I} = S
  BY <1>1, OrderLemma
<1>3. PICK h : h = [j \in DOMAIN s |-> g[s[j]]]
  OBVIOUS
<1>4. \A i, j \in I : s[i] = s[j] => i = j
  BY <1>1 DEF IsOrder
<1>5. \A i \in I : s[i] \in S
  BY <1>1 DEF IsOrder
<1>6. \A i \in I : g[s[i]] \in Int /\ h[i] = g[s[i]]
  BY <1>2, <1>3, <1>5
<1>7. SumOf(h, I) = SumOf(g, {s[i] : i \in I})
  BY <1>2, <1>4, <1>6, SumImage
<1> QED BY <1>1, <1>2, <1>3, <1>7

\* Each address gives what is left of the amount after those before it, as far
\* as it has that; together they give the amount or all they have.
LEMMA GivenByLemma ==
  ASSUME NEW A, NEW order, IsOrder(order, A), NEW stores \in [A -> Nat], NEW v \in Nat
  PROVE  /\ GivenBy(order, stores, v) \in [A -> Nat]
         /\ \A a \in A : GivenBy(order, stores, v)[a] <= stores[a]
         /\ SumOf(stores, A) \in Nat /\ SumOf(GivenBy(order, stores, v), A) \in Nat
         /\ SumOf(GivenBy(order, stores, v), A) = Least(v, SumOf(stores, A))
         /\ \A i \in 1..Cardinality(A) :
              /\ HadBefore(order, stores, i) \in Nat
              /\ GivenBy(order, stores, v)[order[i]] = Least(Over(v, HadBefore(order, stores, i)), stores[order[i]])
<1>1. PICK N \in Nat : N = Cardinality(A)
  BY OrderLemma
<1>2. DOMAIN order = 1..N /\ order \in [1..N -> A] /\ \A i, j \in 1..N : order[i] = order[j] => i = j
  BY <1>1, OrderLemma DEF IsOrder
<1>3. PICK st : st = [j \in DOMAIN order |-> stores[order[j]]]
  OBVIOUS
<1>4. st \in [1..N -> Nat]
  BY <1>2, <1>3
<1>5. PICK given : given = Greedy(st, v)
  OBVIOUS
<1>6. /\ given \in [1..N -> Nat] /\ \A i \in 1..N : given[i] <= st[i]
      /\ SumOf(given, 1..N) = Least(v, SumOf(st, 1..N)) /\ SumOf(st, 1..N) \in Nat
  BY <1>4, <1>5, GreedyLemma
<1>7. PICK by : by = GivenBy(order, stores, v)
  OBVIOUS
<1>8. by = [a \in A |-> SumOf(given, {i \in 1..N : order[i] = a})]
  BY <1>2, <1>3, <1>5, <1>7 DEF GivenBy
<1>9. ASSUME NEW i \in 1..N PROVE by[order[i]] = given[i]
  <2>1. {j \in 1..N : order[j] = order[i]} = {i} /\ order[i] \in A
    BY <1>2
  <2>2. SumOf(given, {i}) = given[i]
    BY <1>6, SumOfOne
  <2> QED BY <1>8, <2>1, <2>2
<1>10. ASSUME NEW a \in A PROVE by[a] \in Nat /\ by[a] <= stores[a]
  <2>1. PICK i \in 1..N : order[i] = a
    BY <1>1, OrderLemma
  <2> QED BY <1>2, <1>3, <1>6, <1>9, <2>1
<1>11. by \in [A -> Nat]
  BY <1>8, <1>10
<1>12. SumOf(st, 1..N) = SumOf(stores, A)
  BY <1>1, <1>3, SumInOrder
<1>13. SumOf(given, 1..N) = SumOf(by, A)
  <2>1. PICK h : h = [j \in DOMAIN order |-> by[order[j]]]
    OBVIOUS
  <2>2. SumOf(h, 1..N) = SumOf(by, A)
    BY <1>1, <1>11, <2>1, SumInOrder
  <2>3. h = given
    BY <1>2, <1>6, <1>9, <2>1
  <2> QED BY <2>2, <2>3
<1>14. ASSUME NEW i \in 1..N
       PROVE  /\ HadBefore(order, stores, i) \in Nat
              /\ given[i] = Least(Over(v, HadBefore(order, stores, i)), stores[order[i]])
  <2>1. IsFiniteSet(1..(i - 1)) /\ 1..(i - 1) \subseteq 1..N
    <3>1. i - 1 \in Int /\ 1 \in Int
      OBVIOUS
    <3> QED BY <3>1, FS_Interval
  <2>2. SumOf(st, 1..(i - 1)) \in Nat
    BY <1>4, <2>1, SumNat
  <2>3. HadBefore(order, stores, i) = SumOf(st, 1..(i - 1))
    BY <1>3 DEF HadBefore
  <2>4. given[i] = Least(v - Least(v, SumOf(st, 1..(i - 1))), st[i])
    BY <1>4, <1>5 DEF Greedy
  <2> QED BY <1>2, <1>3, <2>2, <2>3, <2>4 DEF Over
<1>15. SumOf(by, A) \in Nat
  BY <1>6, <1>12, <1>13, LeastLemma
<1> QED BY <1>1, <1>6, <1>7, <1>9, <1>10, <1>11, <1>12, <1>13, <1>14, <1>15

\* A sum taken group by group: f[i] is the group of i.
LEMMA SumByGroup ==
  ASSUME NEW I, IsFiniteSet(I), NEW A, IsFiniteSet(A), NEW f, \A i \in I : f[i] \in A,
         NEW g, \A i \in I : g[i] \in Int
  PROVE  SumOf([a \in A |-> SumOf(g, {i \in I : f[i] = a})], A) = SumOf(g, I)
<1>1. PICK t : t = [a \in A |-> [i \in I |-> IF f[i] = a THEN g[i] ELSE 0]]
  OBVIOUS
<1>2. \A a \in A, i \in I : t[a][i] \in Int
  BY <1>1
<1>3. SumOf([a \in A |-> SumOf(t[a], I)], A) = SumOf([i \in I |-> SumOf([a \in A |-> t[a][i]], A)], I)
  BY <1>2, SumSwap
<1>4. ASSUME NEW a \in A PROVE SumOf(t[a], I) = SumOf(g, {i \in I : f[i] = a})
  <2>1. PICK P : P = {i \in I : f[i] = a}
    OBVIOUS
  <2>2. \A i \in I : g[i] \in Int /\ t[a][i] = IF i \in P THEN g[i] ELSE 0
    BY <1>1, <2>1
  <2>3. SumOf(t[a], I) = SumOf(g, I \intersect P)
    BY <2>2, SumPart
  <2>4. I \intersect P = P
    BY <2>1
  <2> QED BY <2>1, <2>3, <2>4
<1>5. ASSUME NEW i \in I PROVE SumOf([a \in A |-> t[a][i]], A) = g[i]
  <2>1. PICK h : h = [a \in A |-> t[a][i]]
    OBVIOUS
  <2>2. PICK k : k = [a \in A |-> g[i]]
    OBVIOUS
  <2>3. \A a \in A : k[a] \in Int /\ h[a] = IF a \in {f[i]} THEN k[a] ELSE 0
    BY <1>1, <2>1, <2>2
  <2>4. SumOf(h, A) = SumOf(k, A \intersect {f[i]})
    BY <2>3, SumPart
  <2>5. A \intersect {f[i]} = {f[i]} /\ k[f[i]] = g[i]
    BY <2>2
  <2>6. SumOf(k, {f[i]}) = g[i]
    BY <2>5, SumOfOne
  <2> QED BY <2>1, <2>4, <2>5, <2>6
<1>6. [a \in A |-> SumOf(t[a], I)] = [a \in A |-> SumOf(g, {i \in I : f[i] = a})]
  BY <1>4
<1>7. PICK c : c = [i \in I |-> SumOf([a \in A |-> t[a][i]], A)]
  OBVIOUS
<1>8. \A i \in I : g[i] \in Int /\ c[i] = g[i]
  BY <1>5, <1>7
<1>9. SumOf(c, I) = SumOf(g, I)
  BY <1>8, SumEqual
<1> QED BY <1>3, <1>6, <1>7, <1>9

-----------------------------------------------------------------------------
(* The plan of a withdrawal                                                *)

\* Coins that a call may use, and the levels
CanUse(kind, used) ==
  /\ GoodCoins /\ kind \in {"L", "R"} /\ used \in SUBSET DOMAIN coins /\ used # {}
  /\ peglevel.nSupplyNext \in Indexes /\ peglevel.nBuffer \in 0..peglevel.nSupplyNext

\* What of a coin counts is no more than the coin.
LEMMA AvailableLemma ==
  ASSUME peglevel.nSupplyNext \in Indexes, peglevel.nBuffer \in 0..peglevel.nSupplyNext, NEW f \in Fractions
  PROVE  /\ Total(f) \in Nat
         /\ \A kind \in {"L", "R"} : Available(kind, f) \in Nat /\ Available(kind, f) <= Total(f)
<1>1. \A i \in Indexes : f[i] \in Nat /\ f[i] \in Int
  BY AmountType
<1>2. peglevel.nSupplyNext \in 0..PegSize /\ peglevel.nSupplyNext - peglevel.nBuffer \in 0..PegSize
  BY PegSizeAssumption DEF Indexes
<1>3. \A e \in 0..PegSize : Low(f, e) \in Nat /\ High(f, e) \in Nat /\ Low(f, e) + High(f, e) = Total(f)
  BY <1>1, TotalNat, PartsLemma
<1> QED BY <1>1, <1>2, <1>3, TotalNat DEF Available

\* The addresses of the coins used.
LEMMA AddressesLemma ==
  ASSUME GoodCoins, NEW used \in SUBSET DOMAIN coins
  PROVE  /\ IsFiniteSet(used) /\ IsFiniteSet(AddressesOf(used)) /\ AddressesOf(used) \in SUBSET Nat
         /\ 0 \notin AddressesOf(used) /\ Payee \notin AddressesOf(used)
         /\ Cardinality(used) \in Nat /\ Cardinality(AddressesOf(used)) \in Nat
         /\ Cardinality(AddressesOf(used)) <= Cardinality(used)
         /\ \A c \in used : coins[c].address \in AddressesOf(used)
         /\ used # {} => AddressesOf(used) # {}
         /\ IsOrder(Ascending(AddressesOf(used)), AddressesOf(used))
<1>1. IsFiniteSet(used)
  BY FS_Subset DEF GoodCoins
<1>2. PICK f : f = [c \in used |-> coins[c].address]
  OBVIOUS
<1>3. AddressesOf(used) = {f[c] : c \in used} /\ \A c \in used : f[c] = coins[c].address
  BY <1>2 DEF AddressesOf
<1>4. f \in Surjection(used, {f[c] : c \in used})
  BY <1>2 DEF Surjection
<1>5. IsFiniteSet(AddressesOf(used)) /\ Cardinality(AddressesOf(used)) <= Cardinality(used)
  BY <1>1, <1>3, <1>4, FS_Surjection
<1>6. AddressesOf(used) \in SUBSET Nat /\ 0 \notin AddressesOf(used) /\ Payee \notin AddressesOf(used)
  BY DEF GoodCoins, AddressesOf
<1>7. Cardinality(used) \in Nat /\ Cardinality(AddressesOf(used)) \in Nat
  BY <1>1, <1>5, FS_CardinalityType
<1>8. IsOrder(Ascending(AddressesOf(used)), AddressesOf(used))
  BY <1>5, <1>6, AscendingOrder
<1>9. \A c \in used : coins[c].address \in AddressesOf(used)
  BY DEF AddressesOf
<1> QED BY <1>1, <1>5, <1>6, <1>7, <1>8, <1>9

\* What the coins at each address have: no more of it counts than there is.
LEMMA StoresLemma ==
  ASSUME NEW kind, NEW used, CanUse(kind, used), NEW A, A = AddressesOf(used), NEW k \in {"L", "R"}
  PROVE  /\ AvailableAt(k, used) \in [A -> Nat] /\ InputAt(used) \in [A -> Nat]
         /\ \A a \in A : AvailableAt(k, used)[a] <= InputAt(used)[a]
         /\ SumOf(AvailableAt(k, used), A) = SumOf([c \in used |-> Available(k, coins[c].fractions)], used)
         /\ SumOf(InputAt(used), A) = SumOf([c \in used |-> Total(coins[c].fractions)], used)
         /\ SumOf(InputAt(used), A) \in Nat
<1>1. used \in SUBSET DOMAIN coins /\ GoodCoins
  BY DEF CanUse
<1>2. IsFiniteSet(used) /\ IsFiniteSet(A) /\ \A c \in used : coins[c].address \in A
  BY <1>1, AddressesLemma
<1>3. PICK f : f = [c \in used |-> coins[c].address]
  OBVIOUS
<1>4. PICK g : g = [c \in used |-> Available(k, coins[c].fractions)]
  OBVIOUS
<1>5. PICK h : h = [c \in used |-> Total(coins[c].fractions)]
  OBVIOUS
<1>6. ASSUME NEW c \in used PROVE g[c] \in Nat /\ h[c] \in Nat /\ g[c] <= h[c] /\ f[c] \in A
  <2>1. coins[c].fractions \in Fractions
    BY <1>1 DEF GoodCoins
  <2>2. Available(k, coins[c].fractions) \in Nat /\ Total(coins[c].fractions) \in Nat
        /\ Available(k, coins[c].fractions) <= Total(coins[c].fractions)
    BY <2>1, AvailableLemma DEF CanUse
  <2> QED BY <1>2, <1>3, <1>4, <1>5, <2>2
<1>7. AvailableAt(k, used) = [a \in A |-> SumOf(g, {c \in used : f[c] = a})]
  <2>1. \A a : {c \in used : f[c] = a} = {c \in used : coins[c].address = a}
    BY <1>3
  <2> QED BY <1>4, <2>1 DEF AvailableAt
<1>8. InputAt(used) = [a \in A |-> SumOf(h, {c \in used : f[c] = a})]
  <2>1. \A a : {c \in used : f[c] = a} = {c \in used : coins[c].address = a}
    BY <1>3
  <2> QED BY <1>5, <2>1 DEF InputAt
<1>9. ASSUME NEW a \in A
      PROVE  /\ SumOf(g, {c \in used : f[c] = a}) \in Nat /\ SumOf(h, {c \in used : f[c] = a}) \in Nat
             /\ SumOf(g, {c \in used : f[c] = a}) <= SumOf(h, {c \in used : f[c] = a})
  <2>1. PICK U : U = {c \in used : f[c] = a}
    OBVIOUS
  <2>2. IsFiniteSet(U) /\ U \subseteq used
    BY <1>2, <2>1, FS_Subset
  <2>3. \A c \in U : g[c] \in Nat /\ h[c] \in Nat /\ g[c] \in Int /\ h[c] \in Int /\ g[c] <= h[c]
    BY <1>6, <2>2
  <2> QED BY <2>1, <2>2, <2>3, SumNat, SumMonotone
<1>10. /\ SumOf([a \in A |-> SumOf(g, {c \in used : f[c] = a})], A) = SumOf(g, used)
       /\ SumOf([a \in A |-> SumOf(h, {c \in used : f[c] = a})], A) = SumOf(h, used)
  <2>1. \A c \in used : g[c] \in Int /\ h[c] \in Int /\ f[c] \in A
    BY <1>6
  <2> QED BY <1>2, <2>1, SumByGroup
<1>11. SumOf(h, used) \in Nat
  BY <1>2, <1>6, SumNat
<1> QED BY <1>4, <1>5, <1>7, <1>8, <1>9, <1>10, <1>11

\* One order after another.
LEMMA OrderAfterOrder ==
  ASSUME NEW A, NEW s, IsOrder(s, A), NEW B, NEW t, IsOrder(t, B), A \intersect B = {}
  PROVE  IsOrder(s \o t, A \union B)
<1>1. PICK M \in Nat : M = Cardinality(A)
  BY OrderLemma
<1>2. PICK N \in Nat : N = Cardinality(B)
  BY OrderLemma
<1>3. IsFiniteSet(A \union B) /\ Cardinality(A \union B) = M + N
  <2>1. IsFiniteSet(A) /\ IsFiniteSet(B)
    BY DEF IsOrder
  <2>2. Cardinality(A \intersect B) = 0
    BY FS_EmptySet
  <2>3. /\ IsFiniteSet(A \union B)
        /\ Cardinality(A \union B) = Cardinality(A) + Cardinality(B) - Cardinality(A \intersect B)
    BY <2>1, FS_Union
  <2> QED BY <1>1, <1>2, <2>2, <2>3
<1>4. s \in [1..M -> A] /\ \A i, j \in 1..M : s[i] = s[j] => i = j
  BY <1>1 DEF IsOrder
<1>5. t \in [1..N -> B] /\ \A i, j \in 1..N : t[i] = t[j] => i = j
  BY <1>2 DEF IsOrder
<1>6. PICK D : D = A \union B
  OBVIOUS
<1>7. Len(s) = M /\ Len(t) = N
  BY <1>4, <1>5
<1>8. PICK u : u = s \o t
  OBVIOUS
<1>14. s \in Seq(D) /\ t \in Seq(D)
  BY <1>4, <1>5, <1>6
<1>15. u \in Seq(D) /\ Len(u) = Len(s) + Len(t)
  BY <1>8, <1>14
<1>9. u \in Seq(D) /\ Len(u) = M + N
  BY <1>7, <1>15
<1>10. \A i \in 1..(M + N) : u[i] = IF i <= M THEN s[i] ELSE t[i - M]
  <2>1. \A i \in 1..Len(u) : u[i] = IF i <= Len(s) THEN s[i] ELSE t[i - Len(s)]
    BY <1>8, <1>14, <1>15
  <2> QED BY <1>7, <1>9, <2>1
<1>11. \A i \in 1..(M + N) : (i <= M => i \in 1..M) /\ (i > M => i - M \in 1..N)
  OBVIOUS
<1>12. ASSUME NEW i \in 1..(M + N), NEW j \in 1..(M + N), u[i] = u[j] PROVE i = j
  <2>1. CASE i <= M /\ j <= M
    BY <1>4, <1>10, <1>11, <1>12, <2>1
  <2>2. CASE i > M /\ j > M
    <3>1. PICK p \in 1..N : p = i - M
      BY <1>11, <2>2
    <3>2. PICK q \in 1..N : q = j - M
      BY <1>11, <2>2
    <3>3. t[p] = t[q]
      BY <1>10, <1>12, <2>2, <3>1, <3>2
    <3>4. p = q
      BY <1>5, <3>3
    <3> QED BY <3>1, <3>2, <3>4
  <2>3. CASE i <= M /\ j > M
    <3>1. u[i] \in A /\ u[j] \in B
      BY <1>4, <1>5, <1>10, <1>11, <2>3
    <3> QED BY <1>12, <3>1
  <2>4. CASE i > M /\ j <= M
    <3>1. u[j] \in A /\ u[i] \in B
      BY <1>4, <1>5, <1>10, <1>11, <2>4
    <3> QED BY <1>12, <3>1
  <2> QED BY <2>1, <2>2, <2>3, <2>4
<1>13. u \in [1..(M + N) -> D]
  BY <1>9
<1> QED BY <1>3, <1>6, <1>8, <1>12, <1>13 DEF IsOrder

\* One address first, then the others in their order.
LEMMA FirstOrder ==
  ASSUME NEW S \in SUBSET Nat, IsFiniteSet(S), NEW x \in S
  PROVE  IsOrder(Ascending({x}) \o Ascending(S \ {x}), S)
<1>1. IsFiniteSet({x}) /\ IsFiniteSet(S \ {x})
  BY FS_Singleton, FS_Subset
<1>2. IsOrder(Ascending({x}), {x}) /\ IsOrder(Ascending(S \ {x}), S \ {x})
  BY <1>1, AscendingOrder
<1>3. {x} \intersect (S \ {x}) = {} /\ {x} \union (S \ {x}) = S
  OBVIOUS
<1>4. IsOrder(Ascending({x}) \o Ascending(S \ {x}), {x} \union (S \ {x}))
  BY <1>2, <1>3, OrderAfterOrder
<1> QED BY <1>3, <1>4

\* What stores have left adds up.
LEMMA LeftOfLemma ==
  ASSUME NEW A, IsFiniteSet(A), NEW stores \in [A -> Nat], NEW given \in [A -> Nat], \A a \in A : given[a] <= stores[a]
  PROVE  /\ LeftOf(stores, given) \in [A -> Nat]
         /\ \A a \in A : LeftOf(stores, given)[a] = stores[a] - given[a]
         /\ SumOf(LeftOf(stores, given), A) = SumOf(stores, A) - SumOf(given, A)
         /\ SumOf(LeftOf(stores, given), A) \in Nat /\ SumOf(stores, A) \in Nat /\ SumOf(given, A) \in Nat
<1>1. PICK l : l = LeftOf(stores, given)
  OBVIOUS
<1>2. l = [a \in A |-> stores[a] - given[a]]
  BY <1>1 DEF LeftOf
<1>3. l \in [A -> Nat] /\ \A a \in A : l[a] = stores[a] - given[a]
  BY <1>2
<1>4. \A a \in A : l[a] \in Int /\ given[a] \in Int /\ stores[a] = l[a] + given[a]
  BY <1>3
<1>5. SumOf(stores, A) = SumOf(l, A) + SumOf(given, A)
  BY <1>4, SumPlus
<1>6. SumOf(l, A) \in Nat /\ SumOf(stores, A) \in Nat /\ SumOf(given, A) \in Nat
  BY <1>3, SumNat
<1> QED BY <1>1, <1>3, <1>5, <1>6

\* The coins used, in order.
LEMMA SortedOrder ==
  ASSUME GoodCoins, NEW used \in SUBSET DOMAIN coins
  PROVE  IsOrder(Sorted(used), used)
BY SortedLemma DEF IsOrder

\* The plan for liquid takes it, as far as it is there, from the addresses that
\* have it.
LEMMA TakenLiquidLemma ==
  ASSUME NEW kind, NEW used, CanUse(kind, used), NEW amount \in Nat, NEW A, A = AddressesOf(used),
         NEW at, at = TakenLiquid(used, amount).at
  PROVE  /\ at \in [A -> Nat] /\ \A a \in A : at[a] <= AvailableAt("L", used)[a]
         /\ SumOf(at, A) = Least(amount, SumOf(AvailableAt("L", used), A))
         /\ TakenLiquid(used, amount).left = 0
<1>1. used \in SUBSET DOMAIN coins /\ GoodCoins
  BY DEF CanUse
<1>2. IsFiniteSet(used) /\ IsFiniteSet(A) /\ \A c \in used : coins[c].address \in A
  BY <1>1, AddressesLemma
<1>3. PICK s : s = Sorted(used)
  OBVIOUS
<1>4. PICK N \in Nat : N = Cardinality(used)
  BY <1>1, SortedLemma
<1>5. PICK I : I = 1..N
  OBVIOUS
<1>6. /\ IsOrder(s, used) /\ s \in [I -> used] /\ DOMAIN s = I /\ IsFiniteSet(I)
      /\ \A i, j \in I : s[i] = s[j] => i = j
      /\ {s[i] : i \in I} = used
  <2>1. IsOrder(s, used)
    BY <1>1, <1>3, SortedOrder
  <2>2. DOMAIN s = I /\ {s[i] : i \in I} = used /\ IsFiniteSet(DOMAIN s)
    BY <1>4, <1>5, <2>1, OrderLemma
  <2>3. s \in [I -> used] /\ \A i, j \in I : s[i] = s[j] => i = j
    BY <1>4, <1>5, <2>1 DEF IsOrder
  <2> QED BY <2>1, <2>2, <2>3
<1>7. PICK g : g = [c \in used |-> Available("L", coins[c].fractions)]
  OBVIOUS
<1>8. \A c \in used : g[c] \in Nat
  BY <1>1, <1>7, AvailableLemma DEF CanUse, GoodCoins
<1>9. PICK st : st = [i \in DOMAIN s |-> Available("L", coins[s[i]].fractions)]
  OBVIOUS
<1>10. st \in [I -> Nat] /\ \A i \in I : st[i] = g[s[i]]
  BY <1>6, <1>7, <1>8, <1>9
<1>11. PICK taken : taken = Greedy(st, amount)
  OBVIOUS
<1>12. /\ taken \in [I -> Nat] /\ \A i \in I : taken[i] <= st[i]
       /\ SumOf(taken, I) = Least(amount, SumOf(st, I))
  BY <1>4, <1>5, <1>10, <1>11, GreedyLemma
<1>13. PICK f : f = [i \in I |-> coins[s[i]].address]
  OBVIOUS
<1>14. \A i \in I : f[i] \in A /\ f[i] = coins[s[i]].address
  BY <1>2, <1>6, <1>13
<1>15. at = [a \in A |-> SumOf(taken, {i \in I : f[i] = a})] /\ TakenLiquid(used, amount).left = 0
  <2>1. \A a : {i \in I : f[i] = a} = {i \in I : coins[s[i]].address = a}
    BY <1>13
  <2>2. /\ TakenLiquid(used, amount).at
             = [a \in AddressesOf(used) |->
                  SumOf(Greedy([i \in DOMAIN Sorted(used) |-> Available("L", coins[Sorted(used)[i]].fractions)], amount),
                        {i \in DOMAIN Sorted(used) : coins[Sorted(used)[i]].address = a})]
        /\ TakenLiquid(used, amount).left = 0
    BY DEF TakenLiquid
  <2>3. at = [a \in A |-> SumOf(taken, {i \in DOMAIN s : coins[s[i]].address = a})]
    BY <1>3, <1>9, <1>11, <2>2
  <2>4. at = [a \in A |-> SumOf(taken, {i \in I : coins[s[i]].address = a})]
    BY <1>6, <2>3
  <2>5. \A a \in A : SumOf(taken, {i \in I : f[i] = a}) = SumOf(taken, {i \in I : coins[s[i]].address = a})
    BY <2>1
  <2>6. at = [a \in A |-> SumOf(taken, {i \in I : f[i] = a})]
    BY <2>4, <2>5
  <2> QED BY <2>2, <2>6
<1>16. SumOf(st, I) = SumOf(g, used)
  <2>1. [j \in DOMAIN s |-> g[s[j]]] = st
    BY <1>6, <1>10
  <2>2. \A c \in used : g[c] \in Int
    BY <1>8
  <2>3. SumOf([j \in DOMAIN s |-> g[s[j]]], 1..Cardinality(used)) = SumOf(g, used)
    BY <1>6, <2>2, SumInOrder
  <2> QED BY <1>4, <1>5, <2>1, <2>3
<1>17. SumOf(at, A) = SumOf(taken, I)
  <2>1. \A i \in I : taken[i] \in Int
    BY <1>12
  <2>2. SumOf([a \in A |-> SumOf(taken, {i \in I : f[i] = a})], A) = SumOf(taken, I)
    BY <1>2, <1>6, <1>14, <2>1, SumByGroup
  <2> QED BY <1>15, <2>2
<1>18. ASSUME NEW a \in A PROVE at[a] \in Nat /\ at[a] <= AvailableAt("L", used)[a]
  <2>1. PICK J : J = {i \in I : f[i] = a}
    OBVIOUS
  <2>2. IsFiniteSet(J) /\ J \subseteq I
    <3>1. J \subseteq I
      BY <2>1
    <3> QED BY <1>6, <3>1, FS_Subset
  <2>3. \A i \in J : taken[i] \in Nat /\ st[i] \in Nat /\ taken[i] \in Int /\ st[i] \in Int /\ taken[i] <= st[i]
    BY <1>10, <1>12, <2>2
  <2>4. SumOf(taken, J) \in Nat /\ SumOf(taken, J) <= SumOf(st, J)
    BY <2>2, <2>3, SumNat, SumMonotone
  <2>5. SumOf(st, J) = SumOf(g, {s[i] : i \in J})
    <3>1. \A i \in J : g[s[i]] \in Int /\ st[i] = g[s[i]]
      BY <1>10, <2>2, <2>3
    <3>2. \A i, j \in J : s[i] = s[j] => i = j
      BY <1>6, <2>2
    <3> QED BY <2>2, <3>1, <3>2, SumImage
  <2>6. {s[i] : i \in J} = {c \in used : coins[c].address = a}
    BY <1>6, <1>14, <2>1
  <2>7. AvailableAt("L", used)[a] = SumOf(g, {c \in used : coins[c].address = a})
    BY <1>7 DEF AvailableAt
  <2> QED BY <1>15, <2>1, <2>4, <2>5, <2>6, <2>7
<1>19. SumOf(AvailableAt("L", used), A) = SumOf(g, used)
  BY <1>7, StoresLemma
<1> QED BY <1>12, <1>15, <1>16, <1>17, <1>18, <1>19

\* The plan for reserve: the notaries', then the user's.
LastAddress(used) == coins[Sorted(used)[Cardinality(used)]].address
FrozenOrder(used) == Ascending({LastAddress(used)}) \o Ascending(AddressesOf(used) \ {LastAddress(used)})
Dust(used) == FreezeValue * Cardinality(used)
ForNotaries(used) == GivenBy(Ascending(AddressesOf(used)), AvailableAt("R", used), Dust(used))
Undusted(used) == LeftOf(AvailableAt("R", used), ForNotaries(used))
ForUser(used, amount) == GivenBy(FrozenOrder(used), Undusted(used), amount)

LEMMA TakenReserveIs ==
  ASSUME NEW used, NEW amount
  PROVE  /\ TakenReserve(used, amount).at
              = [a \in AddressesOf(used) |-> ForNotaries(used)[a] + ForUser(used, amount)[a]]
         /\ TakenReserve(used, amount).left
              = Dust(used) + amount - SumOf(ForNotaries(used), AddressesOf(used))
                  - SumOf(ForUser(used, amount), AddressesOf(used))
BY DEF TakenReserve, LastAddress, FrozenOrder, Dust, ForNotaries, Undusted, ForUser

\* The last coin's address is one of the addresses, and can be put first.
LEMMA FrozenOrderLemma ==
  ASSUME GoodCoins, NEW used \in SUBSET DOMAIN coins, used # {}
  PROVE  LastAddress(used) \in AddressesOf(used) /\ IsOrder(FrozenOrder(used), AddressesOf(used))
<1>1. Cardinality(used) \in Nat /\ IsFiniteSet(used) /\ Sorted(used) \in [1..Cardinality(used) -> used]
  BY SortedLemma
<1>2. Cardinality(used) # 0
  BY <1>1, FS_EmptySet
<1>3. Cardinality(used) \in 1..Cardinality(used)
  BY <1>1, <1>2
<1>4. Sorted(used)[Cardinality(used)] \in used
  BY <1>1, <1>3
<1>5. LastAddress(used) \in AddressesOf(used)
  BY <1>4 DEF LastAddress, AddressesOf
<1>6. AddressesOf(used) \in SUBSET Nat /\ IsFiniteSet(AddressesOf(used))
  BY AddressesLemma
<1> QED BY <1>5, <1>6, FirstOrder DEF FrozenOrder

\* It takes the dust and the amount, or all the reserve there is.
LEMMA TakenReserveLemma ==
  ASSUME NEW kind, NEW used, CanUse(kind, used), NEW amount \in Nat, NEW A, A = AddressesOf(used),
         NEW r, r = TakenReserve(used, amount)
  PROVE  /\ ForNotaries(used) \in [A -> Nat] /\ Undusted(used) \in [A -> Nat] /\ ForUser(used, amount) \in [A -> Nat]
         /\ \A a \in A : /\ ForNotaries(used)[a] <= AvailableAt("R", used)[a]
                         /\ Undusted(used)[a] = AvailableAt("R", used)[a] - ForNotaries(used)[a]
                         /\ ForUser(used, amount)[a] <= Undusted(used)[a]
         /\ Dust(used) \in Nat
         /\ r.at \in [A -> Nat] /\ \A a \in A : r.at[a] <= AvailableAt("R", used)[a]
         /\ \A a \in A : r.at[a] = ForNotaries(used)[a] + ForUser(used, amount)[a]
         /\ r.left \in Nat
         /\ SumOf(r.at, A) + r.left = Dust(used) + amount
         /\ r.left > 0 => SumOf(r.at, A) = SumOf(AvailableAt("R", used), A)
<1>1. used \in SUBSET DOMAIN coins /\ GoodCoins /\ used # {}
  BY DEF CanUse
<1>2. /\ IsFiniteSet(A) /\ IsOrder(Ascending(A), A) /\ Cardinality(used) \in Nat
  BY <1>1, AddressesLemma
<1>3. IsOrder(FrozenOrder(used), A)
  BY <1>1, FrozenOrderLemma
<1>4. PICK stores : stores = AvailableAt("R", used)
  OBVIOUS
<1>5. stores \in [A -> Nat]
  BY <1>4, StoresLemma
<1>6. PICK dust \in Nat : dust = Dust(used)
  <2>1. \A x, y \in Nat : x * y \in Nat
    OBVIOUS
  <2> QED BY <1>2, <2>1, FeeAssumption DEF Dust
<1>7. PICK g : g = ForNotaries(used)
  OBVIOUS
<1>8. g = GivenBy(Ascending(A), stores, dust)
  BY <1>4, <1>6, <1>7 DEF ForNotaries
<1>9. /\ g \in [A -> Nat] /\ \A a \in A : g[a] <= stores[a]
      /\ SumOf(stores, A) \in Nat /\ SumOf(g, A) = Least(dust, SumOf(stores, A))
  BY <1>2, <1>5, <1>8, GivenByLemma
<1>10. PICK l : l = LeftOf(stores, g)
  OBVIOUS
<1>11. /\ l \in [A -> Nat] /\ \A a \in A : l[a] = stores[a] - g[a]
       /\ SumOf(l, A) = SumOf(stores, A) - SumOf(g, A) /\ SumOf(l, A) \in Nat
  BY <1>2, <1>5, <1>9, <1>10, LeftOfLemma
<1>12. PICK u : u = ForUser(used, amount)
  OBVIOUS
<1>13. l = Undusted(used) /\ u = GivenBy(FrozenOrder(used), l, amount)
  BY <1>4, <1>7, <1>10, <1>12 DEF Undusted, ForUser
<1>14. /\ u \in [A -> Nat] /\ \A a \in A : u[a] <= l[a]
       /\ SumOf(u, A) = Least(amount, SumOf(l, A))
  BY <1>3, <1>11, <1>13, GivenByLemma
<1>15. PICK at : at = [a \in A |-> g[a] + u[a]]
  OBVIOUS
<1>16. r.at = at /\ r.left = dust + amount - SumOf(g, A) - SumOf(u, A)
  BY <1>6, <1>7, <1>12, <1>15, TakenReserveIs
<1>17. at \in [A -> Nat] /\ \A a \in A : at[a] = g[a] + u[a] /\ at[a] <= stores[a]
  BY <1>5, <1>9, <1>11, <1>14, <1>15
<1>18. SumOf(at, A) = SumOf(g, A) + SumOf(u, A)
  <2>1. \A a \in A : g[a] \in Int /\ u[a] \in Int /\ at[a] = g[a] + u[a]
    BY <1>9, <1>14, <1>17
  <2> QED BY <1>2, <2>1, SumPlus
<1>19. PICK S \in Nat : S = SumOf(stores, A)
  BY <1>9
<1>20. SumOf(g, A) = Least(dust, S) /\ SumOf(u, A) = Least(amount, S - Least(dust, S))
  BY <1>9, <1>11, <1>14, <1>19
<1>21. /\ r.left \in Nat /\ SumOf(at, A) + r.left = dust + amount
       /\ r.left > 0 => SumOf(at, A) = S
  BY <1>16, <1>18, <1>20 DEF Least
<1> QED BY <1>4, <1>6, <1>7, <1>9, <1>11, <1>12, <1>13, <1>14, <1>16, <1>17, <1>19, <1>21

\* What the outputs before the user's and the user's are worth is what the plan
\* takes, and has left to take from the change.
LEMMA TakenPlan ==
  ASSUME NEW kind, NEW used, CanUse(kind, used), NEW amount \in Nat, amount <= InputsAmount(kind, used),
         NEW A, A = AddressesOf(used), NEW t, t = Taken(kind, used, amount)
  PROVE  /\ t.at \in [A -> Nat] /\ \A a \in A : t.at[a] <= AvailableAt(kind, used)[a]
         /\ t.left \in Nat /\ (kind = "L" => t.left = 0)
         /\ SumOf(t.at, A) + t.left = amount + FreezeValue * (PayoutAt(kind, used) - 1)
<1>1. CASE kind = "L"
  <2>1. t = TakenLiquid(used, amount) /\ PayoutAt(kind, used) = 1
    BY <1>1 DEF Taken, PayoutAt
  <2>2. /\ t.at \in [A -> Nat] /\ \A a \in A : t.at[a] <= AvailableAt("L", used)[a]
        /\ SumOf(t.at, A) = Least(amount, SumOf(AvailableAt("L", used), A))
        /\ t.left = 0
    BY <2>1, TakenLiquidLemma
  <2>3. InputsAmount(kind, used) = SumOf(AvailableAt("L", used), A)
    <3>1. InputsAmount(kind, used) = SumOf([c \in used |-> Available("L", coins[c].fractions)], used)
      BY <1>1 DEF InputsAmount
    <3>2. SumOf(AvailableAt("L", used), A) = SumOf([c \in used |-> Available("L", coins[c].fractions)], used)
      BY StoresLemma
    <3> QED BY <3>1, <3>2
  <2>4. FreezeValue * (PayoutAt(kind, used) - 1) = 0
    BY <2>1, FeeAssumption
  <2>5. SumOf(AvailableAt("L", used), A) \in Nat
    <3>1. IsFiniteSet(A)
      BY AddressesLemma DEF CanUse
    <3>2. AvailableAt("L", used) \in [A -> Nat]
      BY StoresLemma
    <3> QED BY <3>1, <3>2, SumNat
  <2>6. SumOf(t.at, A) = amount
    BY <2>2, <2>3, <2>5, LeastLemma
  <2> QED BY <1>1, <2>2, <2>4, <2>6
<1>2. CASE kind = "R"
  <2>1. t = TakenReserve(used, amount) /\ PayoutAt(kind, used) = Cardinality(used) + 1
    BY <1>2 DEF Taken, PayoutAt
  <2>2. /\ t.at \in [A -> Nat] /\ \A a \in A : t.at[a] <= AvailableAt("R", used)[a]
        /\ t.left \in Nat /\ SumOf(t.at, A) + t.left = Dust(used) + amount
        /\ Dust(used) \in Nat
    BY <2>1, TakenReserveLemma
  <2>3. Cardinality(used) \in Nat
    BY AddressesLemma DEF CanUse
  <2>4. PayoutAt(kind, used) - 1 = Cardinality(used)
    BY <2>1, <2>3
  <2>5. FreezeValue * (PayoutAt(kind, used) - 1) = Dust(used)
    BY ONLY <2>4 DEF Dust
  <2>6. SumOf(t.at, A) \in Nat
    <3>1. IsFiniteSet(A)
      BY AddressesLemma DEF CanUse
    <3> QED BY <2>2, <3>1, SumNat
  <2> QED BY <1>2, <2>2, <2>5, <2>6
<1> QED BY <1>1, <1>2 DEF CanUse

\* Change and what is taken from it, per address and in all.
LEMMA PlanLemma ==
  ASSUME NEW kind, NEW used, CanUse(kind, used), NEW amount \in Nat, amount <= InputsAmount(kind, used),
         NEW A, A = AddressesOf(used), NEW p, p = PlannedChange(kind, used, amount),
         NEW in, in = SumOf([c \in used |-> Total(coins[c].fractions)], used),
         NEW due, due = amount + FreezeValue * (PayoutAt(kind, used) - 1)
  PROVE  /\ p.change \in [A -> Nat] /\ p.reduced \in [A -> Nat] /\ Untaken(kind, used, amount) \in [A -> Nat]
         /\ \A a \in A : /\ p.change[a] + p.reduced[a] = Untaken(kind, used, amount)[a]
                         /\ Untaken(kind, used, amount)[a] = InputAt(used)[a] - Taken(kind, used, amount).at[a]
         /\ in \in Nat /\ due \in Nat /\ Taken(kind, used, amount).left \in Nat
         /\ SumOf(Untaken(kind, used, amount), A) = in - due + Taken(kind, used, amount).left
         /\ SumOf(p.change, A) \in Nat /\ SumOf(p.reduced, A) \in Nat
         /\ SumOf(p.change, A) + SumOf(p.reduced, A) = SumOf(Untaken(kind, used, amount), A)
         /\ SumOf(p.reduced, A)
              = Least(Taken(kind, used, amount).left + FeeRet + 1, SumOf(Untaken(kind, used, amount), A))
<1>1. used \in SUBSET DOMAIN coins /\ GoodCoins /\ kind \in {"L", "R"}
  BY DEF CanUse
<1>2. IsFiniteSet(A) /\ IsOrder(Ascending(A), A)
  BY <1>1, AddressesLemma
<1>3. PICK t : t = Taken(kind, used, amount)
  OBVIOUS
<1>4. /\ t.at \in [A -> Nat] /\ \A a \in A : t.at[a] <= AvailableAt(kind, used)[a]
      /\ t.left \in Nat /\ SumOf(t.at, A) + t.left = due
  BY <1>3, TakenPlan
<1>5. PICK i : i = InputAt(used)
  OBVIOUS
<1>6. /\ i \in [A -> Nat] /\ \A a \in A : AvailableAt(kind, used)[a] \in Nat /\ AvailableAt(kind, used)[a] <= i[a]
      /\ SumOf(i, A) = in /\ in \in Nat
  <2>1. AvailableAt(kind, used) \in [A -> Nat] /\ i \in [A -> Nat]
    BY <1>1, <1>5, StoresLemma
  <2>2. \A a \in A : AvailableAt(kind, used)[a] <= i[a]
    BY <1>1, <1>5, StoresLemma
  <2>3. SumOf(i, A) = in /\ in \in Nat
    BY <1>1, <1>5, StoresLemma
  <2> QED BY <2>1, <2>2, <2>3
<1>7. PICK at : at = t.at
  OBVIOUS
<1>8. \A a \in A : at[a] <= i[a]
  BY <1>4, <1>6, <1>7
<1>9. PICK b : b = Untaken(kind, used, amount)
  OBVIOUS
<1>10. b = LeftOf(i, at)
  BY <1>3, <1>5, <1>7, <1>9 DEF Untaken
<1>11. /\ b \in [A -> Nat] /\ \A a \in A : b[a] = i[a] - at[a]
       /\ SumOf(b, A) = SumOf(i, A) - SumOf(at, A) /\ SumOf(at, A) \in Nat /\ SumOf(b, A) \in Nat
  BY <1>2, <1>4, <1>6, <1>7, <1>8, <1>10, LeftOfLemma
<1>12. t.left + FeeRet + 1 \in Nat
  BY <1>4, FeeAssumption
<1>13. PICK r : r = GivenBy(Ascending(A), b, t.left + FeeRet + 1)
  OBVIOUS
<1>14. p = [change |-> LeftOf(b, r), reduced |-> r]
  BY <1>3, <1>9, <1>13 DEF PlannedChange
<1>15. /\ r \in [A -> Nat] /\ \A a \in A : r[a] <= b[a]
       /\ SumOf(r, A) = Least(t.left + FeeRet + 1, SumOf(b, A)) /\ SumOf(r, A) \in Nat
  BY <1>2, <1>11, <1>12, <1>13, GivenByLemma
<1>16. PICK c : c = LeftOf(b, r)
  OBVIOUS
<1>17. /\ c \in [A -> Nat] /\ \A a \in A : c[a] = b[a] - r[a]
       /\ SumOf(c, A) = SumOf(b, A) - SumOf(r, A) /\ SumOf(c, A) \in Nat
  BY <1>2, <1>11, <1>15, <1>16, LeftOfLemma
<1>18. p.change = c /\ p.reduced = r
  BY <1>14, <1>16
<1>19. due \in Nat /\ SumOf(b, A) = in - due + t.left
  BY <1>4, <1>6, <1>7, <1>11
<1>20. \A a \in A : c[a] + r[a] = b[a]
  BY <1>11, <1>15, <1>17
<1> QED BY <1>3, <1>4, <1>5, <1>6, <1>7, <1>9, <1>11, <1>15, <1>17, <1>18, <1>19, <1>20

-----------------------------------------------------------------------------
(* The outputs of a withdrawal                                             *)

\* One sequence after another.
LEMMA ConcatLemma ==
  ASSUME NEW S, NEW s \in Seq(S), NEW t \in Seq(S), NEW u, u = s \o t
  PROVE  /\ u \in Seq(S) /\ Len(s) \in Nat /\ Len(t) \in Nat /\ Len(u) = Len(s) + Len(t)
         /\ \A i \in 1..Len(s) : i \in 1..Len(u) /\ u[i] = s[i]
         /\ \A i \in 1..Len(t) : i + Len(s) \in 1..Len(u) /\ u[i + Len(s)] = t[i]
         /\ \A i \in 1..Len(u) : i \in 1..Len(s) \/ i - Len(s) \in 1..Len(t)
<1>1. u \in Seq(S) /\ Len(u) = Len(s) + Len(t) /\ Len(s) \in Nat /\ Len(t) \in Nat
  OBVIOUS
<1>2. \A i \in 1..Len(u) : u[i] = IF i <= Len(s) THEN s[i] ELSE t[i - Len(s)]
  BY <1>1
<1>3. PICK M \in Nat, N \in Nat : M = Len(s) /\ N = Len(t)
  BY <1>1
<1>4. Len(u) = M + N
  BY <1>1, <1>3
<1>5. \A i \in 1..M : i \in 1..(M + N) /\ i <= M
  OBVIOUS
<1>6. \A i \in 1..N : i + M \in 1..(M + N) /\ ~ i + M <= M /\ (i + M) - M = i
  OBVIOUS
<1>7. \A i \in 1..(M + N) : i \in 1..M \/ i - M \in 1..N
  OBVIOUS
<1>8. \A i \in 1..M : i \in 1..(M + N) /\ u[i] = s[i]
  BY <1>2, <1>3, <1>4, <1>5
<1>9. \A i \in 1..N : i + M \in 1..(M + N) /\ u[i + M] = t[i]
  BY <1>2, <1>3, <1>4, <1>6
<1> QED BY <1>1, <1>3, <1>4, <1>7, <1>8, <1>9

\* Sequences and what they are made of.
LEMMA SeqLemma ==
  ASSUME NEW S, NEW s \in Seq(S)
  PROVE  Len(s) \in Nat /\ DOMAIN s = 1..Len(s) /\ IsFiniteSet(1..Len(s)) /\ \A i \in 1..Len(s) : s[i] \in S
<1>1. Len(s) \in Nat /\ DOMAIN s = 1..Len(s) /\ \A i \in 1..Len(s) : s[i] \in S
  OBVIOUS
<1> QED BY <1>1, FS_Interval

\* What outputs are worth, in two parts.
LEMMA ValueConcat ==
  ASSUME NEW s \in Seq(TxOuts), NEW t \in Seq(TxOuts)
  PROVE  Value(s \o t) = Value(s) + Value(t) /\ Value(s) \in Nat /\ Value(t) \in Nat
<1>1. PICK u : u = s \o t
  OBVIOUS
<1>2. PICK M \in Nat : M = Len(s)
  BY SeqLemma
<1>3. PICK N \in Nat : N = Len(t)
  BY SeqLemma
<1>4. /\ u \in Seq(TxOuts) /\ Len(u) = M + N
      /\ \A i \in 1..M : i \in 1..(M + N) /\ u[i] = s[i]
      /\ \A i \in 1..N : i + M \in 1..(M + N) /\ u[i + M] = t[i]
      /\ \A i \in 1..(M + N) : i \in 1..M \/ i - M \in 1..N
  BY <1>1, <1>2, <1>3, ConcatLemma
<1>5. /\ DOMAIN s = 1..M /\ DOMAIN t = 1..N /\ DOMAIN u = 1..(M + N)
      /\ IsFiniteSet(1..M) /\ IsFiniteSet(1..N)
  BY <1>2, <1>3, <1>4, SeqLemma
<1>6. PICK f : f = [i \in DOMAIN s |-> s[i].value]
  OBVIOUS
<1>7. PICK g : g = [i \in DOMAIN t |-> t[i].value]
  OBVIOUS
<1>8. PICK h : h = [i \in DOMAIN u |-> u[i].value]
  OBVIOUS
<1>9. (\A i \in 1..M : s[i] \in TxOuts) /\ (\A i \in 1..N : t[i] \in TxOuts)
  BY <1>2, <1>3, SeqLemma
<1>10. (\A i \in 1..M : f[i] \in Nat /\ h[i] = f[i]) /\ (\A i \in 1..N : g[i] \in Nat /\ h[i + M] = g[i])
  BY <1>4, <1>5, <1>6, <1>7, <1>8, <1>9 DEF TxOuts
<1>11. PICK sh : sh = [i \in 1..N |-> i + M]
  OBVIOUS
<1>12. PICK J : J = {sh[i] : i \in 1..N}
  OBVIOUS
<1>13. SumOf(g, 1..N) = SumOf(h, J)
  <2>1. PICK I : I = 1..N
    OBVIOUS
  <2>0. \A i \in I : sh[i] = i + M /\ i \in Nat
    BY <1>11, <2>1
  <2>2. \A i, j \in I : sh[i] = sh[j] => i = j
    BY <2>0
  <2>3. \A i \in I : h[sh[i]] \in Int /\ g[i] = h[sh[i]]
    BY <1>10, <1>11, <2>1
  <2>5. IsFiniteSet(I)
    BY <1>5, <2>1
  <2>4. SumOf(g, I) = SumOf(h, {sh[i] : i \in I})
    BY ONLY <2>2, <2>3, <2>5, SumImage
  <2> QED BY <1>12, <2>1, <2>4
<1>14. (1..M) \union J = 1..(M + N) /\ (1..M) \intersect J = {}
  <2>1. J = {i + M : i \in 1..N}
    BY <1>11, <1>12
  <2>2. \A x \in J : x \in 1..(M + N) /\ x \notin 1..M
    BY <2>1
  <2>3. \A x \in 1..(M + N) : x \in 1..M \/ x \in J
    <3> SUFFICES ASSUME NEW x \in 1..(M + N), x \notin 1..M PROVE x \in J
      OBVIOUS
    <3>1. x - M \in 1..N /\ x = (x - M) + M
      OBVIOUS
    <3> QED BY <2>1, <3>1
  <2>4. 1..M \subseteq 1..(M + N)
    OBVIOUS
  <2> QED BY <2>2, <2>3, <2>4
<1>15. SumOf(h, (1..M) \union J) = SumOf(h, 1..M) + SumOf(h, J)
  <2>1. IsFiniteSet(J)
    BY <1>5, <1>12, ImageFinite
  <2>2. \A x \in (1..M) \union J : h[x] \in Int
    <3>1. \A i \in 1..N : sh[i] = i + M
      BY <1>11
    <3>2. \A i \in 1..N : h[sh[i]] \in Int
      BY <1>10, <3>1
    <3>3. \A x \in J : h[x] \in Int
      BY <1>12, <3>2
    <3> QED BY <1>10, <3>3
  <2>3. PICK I : I = 1..M
    OBVIOUS
  <2>4. SumOf(h, I \union J) = SumOf(h, I) + SumOf(h, J)
    BY <1>5, <1>14, <2>1, <2>2, <2>3, SumUnion
  <2> QED BY <2>3, <2>4
<1>16. SumOf(h, 1..M) = SumOf(f, 1..M)
  <2>1. PICK I : I = 1..M
    OBVIOUS
  <2>2. \A x \in I : f[x] \in Int /\ h[x] = f[x]
    BY <1>10, <2>1
  <2>3. SumOf(h, I) = SumOf(f, I)
    BY <1>5, <2>1, <2>2, SumEqual
  <2> QED BY <2>1, <2>3
<1>17. Value(s) = SumOf(f, 1..M) /\ Value(t) = SumOf(g, 1..N) /\ Value(u) = SumOf(h, 1..(M + N))
  BY <1>5, <1>6, <1>7, <1>8 DEF Value
<1>18. SumOf(f, 1..M) \in Nat /\ SumOf(g, 1..N) \in Nat
  BY <1>5, <1>10, SumNat
<1> QED BY <1>1, <1>13, <1>14, <1>15, <1>16, <1>17, <1>18

\* The fields of an output.
LEMMA PayFields ==
  ASSUME NEW a, NEW v
  PROVE  Pay(a, v).address = a /\ Pay(a, v).value = v /\ Pay(a, v).notary = "" /\ Pay(a, v).refs = <<>>
  BY DEF Pay

\* An output that is worth more.
LEMMA PayMore ==
  ASSUME NEW a, NEW v, NEW y
  PROVE  [Pay(a, v) EXCEPT !.value = @ + y] = Pay(a, v + y)
<1>1. PICK r : r = Pay(a, v)
  OBVIOUS
<1>2. PICK w : w = v + y
  OBVIOUS
<1>3. r.value = v
  BY <1>1 DEF Pay
<1>4. PICK q, m : q = <<>> /\ m = ""
  OBVIOUS
<1>5. r = [address |-> a, value |-> v, notary |-> m, refs |-> q]
  BY <1>1, <1>4 DEF Pay
<1>6. [r EXCEPT !.value = w] = [address |-> a, value |-> w, notary |-> m, refs |-> q]
  BY ONLY <1>5
<1>7. Pay(a, w) = [address |-> a, value |-> w, notary |-> m, refs |-> q]
  BY <1>4 DEF Pay
<1>8. [r EXCEPT !.value = @ + y] = [r EXCEPT !.value = w]
  BY ONLY <1>2, <1>3
<1> QED BY ONLY <1>1, <1>2, <1>6, <1>7, <1>8

\* N outputs, each to an address of A that no other of them goes to
ToEach(e, A, values, N) ==
  /\ e \in Seq(TxOuts) /\ N \in Nat /\ Len(e) = N /\ Cardinality(A) \in Nat /\ N <= Cardinality(A)
  /\ \A j \in 1..N : e[j].address \in A /\ e[j] = Pay(e[j].address, values[e[j].address])
  /\ \A i, j \in 1..N : e[i].address = e[j].address => i = j
  /\ Value(e) = SumOf(values, A)

\* An output of its own to each address that gets something.
LEMMA PayEachLemma ==
  ASSUME NEW A \in SUBSET Nat, IsFiniteSet(A), NEW values \in [A -> Nat]
  PROVE  ToEach(PayEach(values), A, values, Cardinality({a \in A : values[a] > 0}))
<1>01. PICK P : P = {a \in A : values[a] > 0}
  OBVIOUS
<1>02. PICK e : e = PayEach(values)
  OBVIOUS
<1>1. P \subseteq A /\ P \in SUBSET Nat /\ IsFiniteSet(P)
  <2>1. P \subseteq A
    BY <1>01
  <2> QED BY <2>1, FS_Subset
<1>2. Cardinality(P) \in Nat /\ Cardinality(A) \in Nat /\ Cardinality(P) <= Cardinality(A)
  BY <1>1, FS_Subset, FS_CardinalityType
<1>3. PICK s : s = Ascending(P)
  OBVIOUS
<1>4. IsOrder(s, P)
  BY <1>1, <1>3, AscendingOrder
<1>5. PICK N \in Nat : N = Cardinality(P)
  BY <1>2
<1>6. DOMAIN s = 1..N /\ s \in [1..N -> P] /\ (\A x \in P : \E i \in 1..N : s[i] = x) /\ (\A i, j \in 1..N : s[i] = s[j] => i = j)
  <2>1. DOMAIN s = 1..Cardinality(P) /\ (\A x \in P : \E i \in 1..Cardinality(P) : s[i] = x)
    BY <1>4, OrderLemma
  <2>2. s \in [1..Cardinality(P) -> P] /\ (\A i, j \in 1..Cardinality(P) : s[i] = s[j] => i = j)
    BY <1>4 DEF IsOrder
  <2> QED BY <1>5, <2>1, <2>2
<1>7. P = {a \in DOMAIN values : values[a] > 0}
  BY <1>01
<1>8. e = [j \in DOMAIN s |-> Pay(s[j], values[s[j]])]
  BY <1>02, <1>3, <1>7 DEF PayEach
<1>9. e = [j \in 1..N |-> Pay(s[j], values[s[j]])]
  BY <1>6, <1>8
<1>10. \A a \in P : Pay(a, values[a]) \in TxOuts /\ Pay(a, values[a]).address = a /\ Pay(a, values[a]).value = values[a]
  <2>1. <<>> \in Seq(Nat)
    OBVIOUS
  <2>2. \A a \in P : a \in Nat /\ values[a] \in Nat
    BY <1>1
  <2> QED BY <2>1, <2>2 DEF Pay, TxOuts, Marks
<1>11. \A j \in 1..N : e[j] = Pay(s[j], values[s[j]]) /\ s[j] \in P
  BY <1>6, <1>9
<1>12. \A j \in 1..N : e[j] \in TxOuts /\ e[j].address = s[j] /\ e[j].value = values[s[j]]
  BY <1>10, <1>11
<1>13. e \in Seq(TxOuts) /\ Len(e) = N
  BY <1>9, <1>12
<1>14. Value(e) = SumOf(values, A)
  <2>1. DOMAIN e = DOMAIN s
    BY <1>8
  <2>2. PICK h : h = [j \in DOMAIN s |-> values[s[j]]]
    OBVIOUS
  <2>3. [i \in DOMAIN e |-> e[i].value] = h
    BY <1>6, <1>12, <2>1, <2>2
  <2>4. Value(e) = SumOf(h, DOMAIN e)
    BY <2>3 DEF Value
  <2>5. SumOf(h, 1..Cardinality(P)) = SumOf(values, P)
    <3>1. \A x \in P : values[x] \in Int
      BY <1>1
    <3> QED BY <1>4, <2>2, <3>1, SumInOrder
  <2>6. DOMAIN e = 1..Cardinality(P)
    BY <1>5, <1>6, <2>1
  <2>7. SumOf(values, A) = SumOf(values, A \intersect P)
    <3>1. \A x \in A : values[x] \in Int /\ values[x] = IF x \in P THEN values[x] ELSE 0
      BY <1>01
    <3>2. IsFiniteSet(A)
      OBVIOUS
    <3> QED BY ONLY <3>1, <3>2, SumPart
  <2>8. A \intersect P = P
    BY <1>1
  <2> QED BY <2>4, <2>5, <2>6, <2>7, <2>8
<1>15. \A j \in 1..N : e[j].address \in A /\ e[j] = Pay(e[j].address, values[e[j].address])
  BY <1>1, <1>11, <1>12
<1>16. \A i, j \in 1..N : e[i].address = e[j].address => i = j
  BY <1>6, <1>12
<1>17. ToEach(e, A, values, N)
  BY <1>2, <1>5, <1>13, <1>14, <1>15, <1>16 DEF ToEach
<1> QED BY ONLY <1>01, <1>02, <1>5, <1>17

\* The outputs with the whole fee: notaries, the user's, change, the exchange's notary
OutsTo(at, amount, c) ==
  [i \in 1..(at - 1) |-> Notary("F", FreezeValue, <<at, at, at>>)]
    \o <<Pay(Payee, amount)>> \o PayEach(c) \o <<Notary("XCH", 1, <<>>)>>

\* One output and what it is worth.
LEMMA OneOut ==
  ASSUME NEW o \in TxOuts
  PROVE  <<o>> \in Seq(TxOuts) /\ Len(<<o>>) = 1 /\ <<o>>[1] = o /\ Value(<<o>>) = o.value
<1>1. <<o>> \in Seq(TxOuts) /\ Len(<<o>>) = 1 /\ <<o>>[1] = o /\ DOMAIN <<o>> = {1}
  OBVIOUS
<1>2. PICK h : h = [i \in DOMAIN <<o>> |-> <<o>>[i].value]
  OBVIOUS
<1>3. h[1] = o.value /\ o.value \in Int
  BY <1>1, <1>2 DEF TxOuts
<1>4. SumOf(h, {1}) = o.value
  BY <1>3, SumOfOne
<1>5. Value(<<o>>) = SumOf(h, DOMAIN <<o>>)
  BY <1>2 DEF Value
<1> QED BY <1>1, <1>4, <1>5

\* The notaries before the user's output.
LEMMA NotaryOuts ==
  ASSUME NEW at \in Nat \ {0}, NEW s, s = [i \in 1..(at - 1) |-> Notary("F", FreezeValue, <<at, at, at>>)]
  PROVE  /\ s \in Seq(TxOuts) /\ Len(s) = at - 1
         /\ \A i \in 1..(at - 1) : s[i] = Notary("F", FreezeValue, <<at, at, at>>)
         /\ Value(s) = FreezeValue * (at - 1)
<1>1. PICK M \in Nat : M = at - 1
  OBVIOUS
<1>2. PICK o : o = Notary("F", FreezeValue, <<at, at, at>>)
  OBVIOUS
<1>3. o \in TxOuts /\ o.value = FreezeValue
  <2>1. <<at, at, at>> \in Seq(Nat)
    OBVIOUS
  <2>2. FreezeValue \in Nat
    BY FeeAssumption
  <2> QED BY <1>2, <2>1, <2>2 DEF Notary, TxOuts, Marks
<1>4. s = [i \in 1..M |-> o]
  BY <1>1, <1>2
<1>5. s \in Seq(TxOuts) /\ Len(s) = M /\ DOMAIN s = 1..M /\ \A i \in 1..M : s[i] = o
  <2>1. s \in [1..M -> TxOuts] /\ DOMAIN s = 1..M /\ \A i \in 1..M : s[i] = o
    BY ONLY <1>3, <1>4
  <2>2. s \in Seq(TxOuts)
    BY <1>1, <2>1, SeqDef
  <2>3. Len(s) = M
    BY ONLY <1>1, <2>1, <2>2, LenProperties
  <2> QED BY <2>1, <2>2, <2>3
<1>6. PICK h : h = [i \in DOMAIN s |-> s[i].value]
  OBVIOUS
<1>7. PICK I : I = 1..M
  OBVIOUS
<1>8. PICK ones : ones = [i \in I |-> 1]
  OBVIOUS
<1>9. \A i \in I : ones[i] \in Int /\ h[i] = FreezeValue * ones[i] /\ ones[i] = 1
  <2>1. \A i \in I : ones[i] = 1 /\ i \in DOMAIN s /\ s[i] = o
    BY <1>5, <1>7, <1>8
  <2>2. \A i \in I : h[i] = FreezeValue
    BY <1>3, <1>6, <2>1
  <2>3. FreezeValue * 1 = FreezeValue
    BY FeeAssumption
  <2> QED BY <2>1, <2>2, <2>3
<1>10. IsFiniteSet(I) /\ Cardinality(I) = M
  BY <1>1, <1>7, FS_Interval
<1>11. FreezeValue \in Int
  BY FeeAssumption
<1>12. SumOf(h, I) = FreezeValue * SumOf(ones, I)
  BY ONLY <1>9, <1>10, <1>11, SumScale
<1>13. SumOf(ones, I) = M
  BY ONLY <1>9, <1>10, SumCount
<1>14. Value(s) = SumOf(h, I)
  BY <1>5, <1>6, <1>7 DEF Value
<1>15. Value(s) = FreezeValue * M
  BY <1>12, <1>13, <1>14
<1> QED BY <1>1, <1>2, <1>5, <1>15

\* What they are, one after the other.
RawOuts(v, at, amount, A, c, K) ==
  /\ v \in Seq(TxOuts) /\ K \in Nat /\ Cardinality(A) \in Nat /\ K <= Cardinality(A) /\ Len(v) = at + K + 1
  /\ \A i \in 1..(at - 1) : v[i] = Notary("F", FreezeValue, <<at, at, at>>)
  /\ v[at] = Pay(Payee, amount) /\ v[at + K + 1] = Notary("XCH", 1, <<>>)
  /\ \A j \in 1..K : v[at + j] = PayEach(c)[j]
  /\ Value(v) = FreezeValue * (at - 1) + amount + SumOf(c, A) + 1

LEMMA OutsToLemma ==
  ASSUME NEW at \in Nat \ {0}, NEW amount \in Nat, NEW A \in SUBSET Nat, IsFiniteSet(A), NEW c \in [A -> Nat]
  PROVE  RawOuts(OutsTo(at, amount, c), at, amount, A, c, Cardinality({a \in A : c[a] > 0}))
<1>01. PICK K : K = Cardinality({a \in A : c[a] > 0})
  OBVIOUS
<1>02. PICK v : v = OutsTo(at, amount, c)
  OBVIOUS
<1>1. PICK s : s = [i \in 1..(at - 1) |-> Notary("F", FreezeValue, <<at, at, at>>)]
  OBVIOUS
<1>2. /\ s \in Seq(TxOuts) /\ Len(s) = at - 1 /\ Value(s) = FreezeValue * (at - 1)
      /\ \A i \in 1..(at - 1) : s[i] = Notary("F", FreezeValue, <<at, at, at>>)
  BY <1>1, NotaryOuts
<1>3. PICK u : u = Pay(Payee, amount)
  OBVIOUS
<1>4. u \in TxOuts /\ u.value = amount
  <2>1. <<>> \in Seq(Nat) /\ Payee \in Nat
    BY CoinsAssumption
  <2> QED BY <1>3, <2>1 DEF Pay, TxOuts, Marks
<1>5. PICK x : x = Notary("XCH", 1, <<>>)
  OBVIOUS
<1>6. x \in TxOuts /\ x.value = 1
  <2>1. <<>> \in Seq(Nat)
    OBVIOUS
  <2> QED BY <1>5, <2>1 DEF Notary, TxOuts, Marks
<1>7. PICK e : e = PayEach(c)
  OBVIOUS
<1>8. e \in Seq(TxOuts) /\ K \in Nat /\ Cardinality(A) \in Nat /\ Len(e) = K /\ K <= Cardinality(A) /\ Value(e) = SumOf(c, A)
  <2>1. ToEach(e, A, c, K)
    BY <1>01, <1>7, PayEachLemma
  <2> QED BY ONLY <2>1 DEF ToEach
<1>9. PICK s2 : s2 = s \o <<u>>
  OBVIOUS
<1>10. PICK s3 : s3 = s2 \o e
  OBVIOUS
<1>11. v = s3 \o <<x>>
  BY <1>02, <1>1, <1>3, <1>5, <1>7, <1>9, <1>10 DEF OutsTo
<1>12. <<u>> \in Seq(TxOuts) /\ Len(<<u>>) = 1 /\ <<u>>[1] = u /\ Value(<<u>>) = amount
  BY <1>4, OneOut
<1>13. <<x>> \in Seq(TxOuts) /\ Len(<<x>>) = 1 /\ <<x>>[1] = x /\ Value(<<x>>) = 1
  BY <1>6, OneOut
<1>14. /\ s2 \in Seq(TxOuts) /\ Len(s2) = at /\ \A i \in 1..(at - 1) : s2[i] = s[i]
       /\ s2[at] = u /\ Value(s2) = FreezeValue * (at - 1) + amount
  <2>1. PICK t : t = <<u>>
    OBVIOUS
  <2>2. /\ s2 \in Seq(TxOuts) /\ Len(s2) = Len(s) + Len(t)
        /\ \A i \in 1..Len(s) : s2[i] = s[i]
        /\ \A i \in 1..Len(t) : s2[i + Len(s)] = t[i]
    BY <1>2, <1>9, <1>12, <2>1, ConcatLemma
  <2>3. Value(s2) = Value(s) + Value(t)
    BY <1>2, <1>9, <1>12, <2>1, ValueConcat
  <2>4. 1 \in 1..Len(t) /\ t[1] = u /\ Len(t) = 1 /\ Value(t) = amount
    BY <1>12, <2>1
  <2>5. s2[1 + Len(s)] = u
    BY ONLY <2>2, <2>4
  <2>6. 1 + Len(s) = at /\ Len(s) + 1 = at
    BY <1>2
  <2>7. s2[at] = u
    BY ONLY <2>5, <2>6
  <2>8. Len(s2) = at
    BY ONLY <2>2, <2>4, <2>6
  <2> QED BY <1>2, <2>2, <2>3, <2>4, <2>7, <2>8
<1>15. /\ s3 \in Seq(TxOuts) /\ Len(s3) = at + K /\ \A i \in 1..at : s3[i] = s2[i]
       /\ \A j \in 1..K : s3[at + j] = e[j]
       /\ Value(s3) = FreezeValue * (at - 1) + amount + SumOf(c, A)
  <2>0. s2 \in Seq(TxOuts) /\ e \in Seq(TxOuts)
    BY <1>8, <1>14
  <2>1. /\ s3 \in Seq(TxOuts) /\ Len(s3) = Len(s2) + Len(e)
        /\ \A i \in 1..Len(s2) : s3[i] = s2[i]
        /\ \A i \in 1..Len(e) : s3[i + Len(s2)] = e[i]
    BY ONLY <1>10, <2>0, ConcatLemma
  <2>2. Value(s3) = Value(s2) + Value(e)
    BY <1>8, <1>10, <1>14, ValueConcat
  <2>6. Len(e) = K /\ Len(s2) = at
    BY <1>8, <1>14
  <2>3. \A i \in 1..K : s3[i + at] = e[i]
    BY ONLY <2>1, <2>6
  <2>4. \A i \in 1..K : i + at = at + i
    OBVIOUS
  <2>5. \A i \in 1..K : s3[at + i] = e[i]
    BY ONLY <2>3, <2>4
  <2>7. s3 \in Seq(TxOuts) /\ Len(s3) = at + K /\ \A i \in 1..at : s3[i] = s2[i]
    BY ONLY <2>1, <2>6
  <2>8. Value(s3) = FreezeValue * (at - 1) + amount + SumOf(c, A)
    BY <1>8, <1>14, <2>2
  <2> QED BY <2>5, <2>7, <2>8
<1>16. /\ v \in Seq(TxOuts) /\ Len(v) = at + K + 1 /\ \A i \in 1..(at + K) : v[i] = s3[i]
       /\ v[at + K + 1] = x
       /\ Value(v) = FreezeValue * (at - 1) + amount + SumOf(c, A) + 1
  <2>1. PICK t : t = <<x>>
    OBVIOUS
  <2>0. s3 \in Seq(TxOuts) /\ t \in Seq(TxOuts) /\ v = s3 \o t
    BY <1>11, <1>13, <1>15, <2>1
  <2>2. /\ v \in Seq(TxOuts) /\ Len(v) = Len(s3) + Len(t)
        /\ \A i \in 1..Len(s3) : v[i] = s3[i]
        /\ \A i \in 1..Len(t) : v[i + Len(s3)] = t[i]
    BY ONLY <2>0, ConcatLemma
  <2>3. Value(v) = Value(s3) + Value(t)
    BY <1>11, <1>13, <1>15, <2>1, ValueConcat
  <2>4. 1 \in 1..Len(t) /\ t[1] = x /\ Len(t) = 1 /\ Value(t) = 1
    BY <1>13, <2>1
  <2>5. v[1 + Len(s3)] = x
    BY ONLY <2>2, <2>4
  <2>6. 1 + Len(s3) = at + K + 1
    BY <1>8, <1>15
  <2>7. v[at + K + 1] = x
    BY ONLY <2>5, <2>6
  <2>8. v \in Seq(TxOuts) /\ Len(v) = at + K + 1 /\ \A i \in 1..(at + K) : v[i] = s3[i]
    BY <1>15, <2>2, <2>4
  <2>9. Value(v) = FreezeValue * (at - 1) + amount + SumOf(c, A) + 1
    BY <1>15, <2>3, <2>4
  <2> QED BY <2>7, <2>8, <2>9
<1>17. \A i \in 1..(at - 1) : i \in 1..at /\ i \in 1..(at + K)
  BY <1>8
<1>18. at \in 1..at /\ at \in 1..(at + K)
  BY <1>8
<1>19. \A j \in 1..K : at + j \in 1..(at + K)
  BY <1>8
<1>20. \A i \in 1..(at - 1) : v[i] = Notary("F", FreezeValue, <<at, at, at>>)
  <2>1. \A i \in 1..(at - 1) : v[i] = s[i]
    BY <1>14, <1>15, <1>16, <1>17
  <2> QED BY <1>2, <2>1
<1>21. v[at] = Pay(Payee, amount)
  BY <1>3, <1>14, <1>15, <1>16, <1>18
<1>22. \A j \in 1..K : v[at + j] = PayEach(c)[j]
  BY <1>7, <1>15, <1>16, <1>19
<1>23. RawOuts(v, at, amount, A, c, K)
  BY <1>5, <1>7, <1>8, <1>16, <1>20, <1>21, <1>22 DEF RawOuts
<1> QED BY ONLY <1>01, <1>02, <1>23

\* Outputs of a withdrawal: c is the change, own what comes after the exchange's
\* notary, which is at x
PaysOut(v, at, amount, A, c, own, x) ==
  /\ v \in Seq(TxOuts) /\ x \in Nat /\ at < x /\ x <= Len(v)
  /\ x <= at + Cardinality(A) + 1 /\ Len(v) <= x + Cardinality(A)
  /\ \A i \in 1..(at - 1) : v[i] = Notary("F", FreezeValue, <<at, at, at>>)
  /\ v[at] = Pay(Payee, amount) /\ v[x] = Notary("XCH", 1, <<>>)
  /\ \A o \in (at + 1)..(x - 1) : v[o].address \in A /\ v[o] = Pay(v[o].address, c[v[o].address])
  /\ \A o \in (x + 1)..Len(v) : v[o].address \in A /\ v[o] = Pay(v[o].address, own[v[o].address])
  /\ \A o, p \in (at + 1)..(x - 1) : v[o].address = v[p].address => o = p
  /\ \A o, p \in (x + 1)..Len(v) : v[o].address = v[p].address => o = p
  /\ Value(v) = FreezeValue * (at - 1) + amount + SumOf(c, A) + 1 + SumOf(own, A)

LEMMA PaysOutLemma ==
  ASSUME NEW at \in Nat \ {0}, NEW amount \in Nat, NEW A \in SUBSET Nat, IsFiniteSet(A), NEW c \in [A -> Nat],
         NEW own \in [A -> Nat], NEW v, v = OutsTo(at, amount, c) \o PayEach(own)
  PROVE  PaysOut(v, at, amount, A, c, own, at + Cardinality({a \in A : c[a] > 0}) + 1)
<1>1. PICK K : K = Cardinality({a \in A : c[a] > 0})
  OBVIOUS
<1>2. PICK s : s = OutsTo(at, amount, c)
  OBVIOUS
<1>3. /\ s \in Seq(TxOuts) /\ K \in Nat /\ Cardinality(A) \in Nat /\ K <= Cardinality(A) /\ Len(s) = at + K + 1
      /\ \A i \in 1..(at - 1) : s[i] = Notary("F", FreezeValue, <<at, at, at>>)
      /\ s[at] = Pay(Payee, amount) /\ s[at + K + 1] = Notary("XCH", 1, <<>>)
      /\ \A j \in 1..K : s[at + j] = PayEach(c)[j]
      /\ Value(s) = FreezeValue * (at - 1) + amount + SumOf(c, A) + 1
  <2>1. RawOuts(s, at, amount, A, c, K)
    BY <1>1, <1>2, OutsToLemma
  <2> QED BY ONLY <2>1 DEF RawOuts
<1>4. PICK e : e = PayEach(c)
  OBVIOUS
<1>5. PICK f : f = PayEach(own)
  OBVIOUS
<1>6. ToEach(e, A, c, K)
  BY <1>1, <1>4, PayEachLemma
<1>7. PICK J : ToEach(f, A, own, J)
  BY <1>5, PayEachLemma
<1>8. /\ f \in Seq(TxOuts) /\ Value(f) = SumOf(own, A) /\ J \in Nat /\ J = Len(f) /\ J <= Cardinality(A)
      /\ \A j \in 1..J : f[j].address \in A /\ f[j] = Pay(f[j].address, own[f[j].address])
      /\ \A i, j \in 1..J : f[i].address = f[j].address => i = j
  BY ONLY <1>7 DEF ToEach
<1>81. /\ \A j \in 1..K : e[j].address \in A /\ e[j] = Pay(e[j].address, c[e[j].address])
       /\ \A i, j \in 1..K : e[i].address = e[j].address => i = j
  BY ONLY <1>6 DEF ToEach
<1>9. PICK x \in Nat : x = at + K + 1
  BY <1>3
<1>10. /\ v \in Seq(TxOuts) /\ Len(v) = x + J
       /\ \A i \in 1..x : v[i] = s[i]
       /\ \A i \in 1..J : v[i + x] = f[i]
  <2>1. s \in Seq(TxOuts) /\ f \in Seq(TxOuts) /\ v = s \o f
    BY <1>2, <1>3, <1>5, <1>8
  <2>2. /\ v \in Seq(TxOuts) /\ Len(v) = Len(s) + Len(f)
        /\ \A i \in 1..Len(s) : v[i] = s[i]
        /\ \A i \in 1..Len(f) : v[i + Len(s)] = f[i]
    BY ONLY <2>1, ConcatLemma
  <2>3. Len(s) = x /\ Len(f) = J
    BY <1>3, <1>8, <1>9
  <2> QED BY ONLY <2>2, <2>3
<1>11. Value(v) = FreezeValue * (at - 1) + amount + SumOf(c, A) + 1 + SumOf(own, A)
  <2>1. s \in Seq(TxOuts) /\ f \in Seq(TxOuts) /\ v = s \o f
    BY <1>2, <1>3, <1>5, <1>8
  <2>2. Value(v) = Value(s) + Value(f)
    BY ONLY <2>1, ValueConcat
  <2> QED BY <1>3, <1>8, <2>2
<1>12. at < x /\ x <= Len(v) /\ x <= at + Cardinality(A) + 1 /\ Len(v) <= x + Cardinality(A)
  BY <1>3, <1>8, <1>9, <1>10
<1>13. \A i \in 1..(at - 1) : v[i] = Notary("F", FreezeValue, <<at, at, at>>)
  <2>1. \A i \in 1..(at - 1) : i \in 1..x
    BY <1>12
  <2> QED BY <1>3, <1>10, <2>1
<1>14. v[at] = Pay(Payee, amount) /\ v[x] = Notary("XCH", 1, <<>>)
  <2>1. at \in 1..x /\ x \in 1..x
    BY <1>12
  <2> QED BY <1>3, <1>9, <1>10, <2>1
<1>15. \A o \in (at + 1)..(x - 1) : o - at \in 1..K /\ v[o] = e[o - at]
  <2> TAKE o \in (at + 1)..(x - 1)
  <2>1. o - at \in 1..K /\ o \in 1..x /\ at + (o - at) = o
    BY <1>3, <1>9
  <2>2. s[at + (o - at)] = e[o - at]
    BY <1>3, <1>4, <2>1
  <2>3. v[o] = s[o]
    BY <1>10, <2>1
  <2> QED BY ONLY <2>1, <2>2, <2>3
<1>16. \A o \in (x + 1)..Len(v) : o - x \in 1..J /\ v[o] = f[o - x]
  <2> TAKE o \in (x + 1)..Len(v)
  <2>1. o - x \in 1..J /\ (o - x) + x = o
    BY <1>8, <1>10
  <2>2. v[(o - x) + x] = f[o - x]
    BY <1>10, <2>1
  <2> QED BY ONLY <2>1, <2>2
<1>17. \A o \in (at + 1)..(x - 1) : v[o].address \in A /\ v[o] = Pay(v[o].address, c[v[o].address])
  BY ONLY <1>81, <1>15
<1>18. \A o \in (x + 1)..Len(v) : v[o].address \in A /\ v[o] = Pay(v[o].address, own[v[o].address])
  BY ONLY <1>8, <1>16
<1>19. \A o, p \in (at + 1)..(x - 1) : v[o].address = v[p].address => o = p
  <2> SUFFICES ASSUME NEW o \in (at + 1)..(x - 1), NEW p \in (at + 1)..(x - 1), v[o].address = v[p].address PROVE o = p
    OBVIOUS
  <2>0. o - at \in 1..K /\ p - at \in 1..K /\ v[o] = e[o - at] /\ v[p] = e[p - at] /\ v[o].address = v[p].address
    BY <1>15
  <2>1. o - at = p - at
    BY ONLY <1>81, <2>0
  <2> QED BY <1>9, <2>1
<1>20. \A o, p \in (x + 1)..Len(v) : v[o].address = v[p].address => o = p
  <2> SUFFICES ASSUME NEW o \in (x + 1)..Len(v), NEW p \in (x + 1)..Len(v), v[o].address = v[p].address PROVE o = p
    OBVIOUS
  <2>0. o - x \in 1..J /\ p - x \in 1..J /\ v[o] = f[o - x] /\ v[p] = f[p - x] /\ v[o].address = v[p].address
    BY <1>16
  <2>1. o - x = p - x
    BY ONLY <1>8, <2>0
  <2>2. Len(v) \in Nat
    BY <1>10
  <2> QED BY <1>9, <2>1, <2>2
<1>21. PaysOut(v, at, amount, A, c, own, x)
  BY <1>9, <1>10, <1>11, <1>12, <1>13, <1>14, <1>17, <1>18, <1>19, <1>20 DEF PaysOut
<1> QED BY <1>1, <1>9, <1>21

\* The change with what is put onto it
WithOnto(c, onto) == [a \in DOMAIN c |-> IF c[a] > 0 THEN c[a] + onto[a] ELSE 0]

\* The outputs are those of the change with it.
LEMMA OntoOuts ==
  ASSUME NEW at \in Nat \ {0}, NEW amount \in Nat, NEW A \in SUBSET Nat, IsFiniteSet(A), NEW c \in [A -> Nat],
         NEW onto \in [A -> Nat]
  PROVE  /\ PutOnto(OutsTo(at, amount, c), at, onto) = OutsTo(at, amount, WithOnto(c, onto))
         /\ WithOnto(c, onto) \in [A -> Nat]
<1>01. PICK v : v = OutsTo(at, amount, c)
  OBVIOUS
<1>02. PICK d : d = WithOnto(c, onto)
  OBVIOUS
<1>03. PICK w : w = PutOnto(v, at, onto)
  OBVIOUS
<1>1. d \in [A -> Nat] /\ \A a \in A : /\ c[a] \in Nat /\ d[a] \in Nat
                                      /\ d[a] = IF c[a] > 0 THEN c[a] + onto[a] ELSE 0
  <2>1. d = [a \in A |-> IF c[a] > 0 THEN c[a] + onto[a] ELSE 0]
    BY <1>02 DEF WithOnto
  <2>2. \A a \in A : c[a] \in Nat /\ onto[a] \in Nat
    OBVIOUS
  <2> QED BY <2>1, <2>2
<1>2. PICK P : P = {a \in A : c[a] > 0}
  OBVIOUS
<1>3. P = {a \in A : d[a] > 0}
  <2>1. \A a \in A : c[a] > 0 <=> d[a] > 0
    <3>1. \A a \in A : onto[a] \in Nat
      OBVIOUS
    <3> QED BY <1>1, <3>1
  <2> QED BY <1>2, <2>1
<1>4. PICK K : K = Cardinality(P)
  OBVIOUS
<1>5. PICK u : u = OutsTo(at, amount, d)
  OBVIOUS
<1>6. RawOuts(v, at, amount, A, c, K)
  BY <1>01, <1>2, <1>4, OutsToLemma
<1>7. RawOuts(u, at, amount, A, d, K)
  <2>1. RawOuts(OutsTo(at, amount, d), at, amount, A, d, Cardinality({a \in A : d[a] > 0}))
    BY ONLY <1>1, OutsToLemma, at \in Nat \ {0}, amount \in Nat, A \in SUBSET Nat, IsFiniteSet(A)
  <2> QED BY ONLY <1>3, <1>4, <1>5, <2>1
<1>8. PICK s : s = Ascending(P)
  OBVIOUS
<1>9. PICK e : e = PayEach(c)
  OBVIOUS
<1>10. PICK f : f = PayEach(d)
  OBVIOUS
<1>11. e = [j \in DOMAIN s |-> Pay(s[j], c[s[j]])] /\ f = [j \in DOMAIN s |-> Pay(s[j], d[s[j]])]
  <2>1. P = {a \in DOMAIN c : c[a] > 0} /\ P = {a \in DOMAIN d : d[a] > 0}
    BY <1>1, <1>2, <1>3
  <2> QED BY <1>8, <1>9, <1>10, <2>1 DEF PayEach
<1>12. K \in Nat /\ DOMAIN s = 1..K /\ \A j \in 1..K : s[j] \in P
  <2>1. P \subseteq A
    BY <1>2
  <2>2. P \in SUBSET Nat /\ IsFiniteSet(P)
    BY <2>1, FS_Subset
  <2>3. IsOrder(s, P)
    BY <1>8, <2>2, AscendingOrder
  <2>4. DOMAIN s = 1..K /\ K \in Nat
    BY <1>4, <2>3, OrderLemma
  <2>5. s \in [1..K -> P]
    BY <1>4, <2>3 DEF IsOrder
  <2> QED BY <2>4, <2>5
<1>13. \A j \in 1..K : /\ e[j] = Pay(s[j], c[s[j]]) /\ f[j] = Pay(s[j], c[s[j]] + onto[s[j]])
  <2>1. \A j \in 1..K : e[j] = Pay(s[j], c[s[j]]) /\ f[j] = Pay(s[j], d[s[j]])
    BY <1>11, <1>12
  <2>2. \A a \in P : d[a] = c[a] + onto[a]
    BY <1>1, <1>2
  <2> QED BY <1>12, <2>1, <2>2
<1>14. /\ v \in Seq(TxOuts) /\ Len(v) = at + K + 1
       /\ \A i \in 1..(at - 1) : v[i] = Notary("F", FreezeValue, <<at, at, at>>)
       /\ v[at] = Pay(Payee, amount) /\ v[at + K + 1] = Notary("XCH", 1, <<>>)
       /\ \A j \in 1..K : v[at + j] = e[j]
  BY ONLY <1>6, <1>9 DEF RawOuts
<1>15. /\ u \in Seq(TxOuts) /\ Len(u) = at + K + 1
       /\ \A i \in 1..(at - 1) : u[i] = Notary("F", FreezeValue, <<at, at, at>>)
       /\ u[at] = Pay(Payee, amount) /\ u[at + K + 1] = Notary("XCH", 1, <<>>)
       /\ \A j \in 1..K : u[at + j] = f[j]
  BY ONLY <1>7, <1>10 DEF RawOuts
<1>16. DOMAIN v = 1..(at + K + 1) /\ DOMAIN u = 1..(at + K + 1) /\ u = [o \in 1..(at + K + 1) |-> u[o]]
  <2>1. DOMAIN v = 1..Len(v) /\ DOMAIN u = 1..Len(u) /\ u = [o \in 1..Len(u) |-> u[o]]
    BY ONLY <1>14, <1>15
  <2> QED BY ONLY <1>14, <1>15, <2>1
<1>17. \A o \in 1..(at + K + 1) : w[o] = u[o]
  <2> TAKE o \in 1..(at + K + 1)
  <2>1. w[o] = IF o > at /\ v[o].notary = "" THEN [v[o] EXCEPT !.value = @ + onto[v[o].address]] ELSE v[o]
    BY ONLY <1>16, <1>03, o \in 1..(at + K + 1) DEF PutOnto
  <2>2. CASE o <= at
    <3>0. ~ o > at
      BY <2>2
    <3>1. w[o] = v[o]
      BY ONLY <2>1, <3>0
    <3>2. o \in 1..(at - 1) \/ o = at
      BY <2>2
    <3> QED BY <1>14, <1>15, <3>1, <3>2
  <2>3. CASE o = at + K + 1
    <3>1. v[o].notary = "XCH"
      BY <1>14, <2>3 DEF Notary
    <3>2. w[o] = v[o]
      BY <2>1, <3>1
    <3> QED BY <1>14, <1>15, <2>3, <3>2
  <2>4. CASE o > at /\ o # at + K + 1
    <3>1. PICK j \in 1..K : o = at + j
      <4>1. o - at \in 1..K /\ o = at + (o - at)
        BY <1>12, <2>4
      <4> QED BY <4>1
    <3>2. v[o] = Pay(s[j], c[s[j]]) /\ u[o] = Pay(s[j], c[s[j]] + onto[s[j]])
      BY <1>13, <1>14, <1>15, <3>1
    <3>3. w[o] = [v[o] EXCEPT !.value = @ + onto[v[o].address]]
      <4>0. Pay(s[j], c[s[j]]).notary = ""
        BY ONLY DEF Pay
      <4>1. v[o].notary = ""
        BY ONLY <3>2, <4>0
      <4> QED BY ONLY <2>1, <2>4, <4>1
    <3>4. v[o].address = s[j]
      <4>0. Pay(s[j], c[s[j]]).address = s[j]
        BY PayFields
      <4> QED BY ONLY <3>2, <4>0
    <3>5. w[o] = [Pay(s[j], c[s[j]]) EXCEPT !.value = @ + onto[s[j]]]
      BY ONLY <3>2, <3>3, <3>4
    <3>6. [Pay(s[j], c[s[j]]) EXCEPT !.value = @ + onto[s[j]]] = Pay(s[j], c[s[j]] + onto[s[j]])
      BY PayMore
    <3> QED BY ONLY <3>2, <3>5, <3>6
  <2>5. o <= at \/ o = at + K + 1 \/ (o > at /\ o # at + K + 1)
    BY <1>12
  <2> QED BY ONLY <2>2, <2>3, <2>4, <2>5
<1>18. w = [o \in 1..(at + K + 1) |-> w[o]]
  BY <1>16, <1>03 DEF PutOnto
<1>19. w = u
  BY ONLY <1>16, <1>17, <1>18
<1> QED BY <1>01, <1>02, <1>03, <1>1, <1>5, <1>19

-----------------------------------------------------------------------------
(* What goes back of the fee                                               *)

NetFee(rawTx) == FeeRet - (FeeBase + FeePerCoin * (Len(rawTx.vin) + Len(rawTx.vout)))
OntoStores == [a \in DOMAIN call.plan.change |-> IF call.plan.change[a] > 0 THEN call.plan.reduced[a] ELSE 0]
OwnStores == [a \in DOMAIN call.plan.change |-> IF call.plan.change[a] > 0 THEN 0 ELSE call.plan.reduced[a]]
Onto(rawTx) == GivenBy(Ascending(AddressesOf(call.used)), OntoStores, NetFee(rawTx))
Own(rawTx) ==
  GivenBy(Ascending(AddressesOf(call.used)), OwnStores, NetFee(rawTx) - SumOf(Onto(rawTx), DOMAIN Onto(rawTx)))

LEMMA MaintenanceIs ==
  ASSUME NEW rawTx
  PROVE  WithMaintenance(rawTx)
           = [rawTx EXCEPT !.vout = PutOnto(rawTx.vout, call.at, Onto(rawTx)) \o PayEach(Own(rawTx))]
  BY DEF WithMaintenance, Onto, Own, OntoStores, OwnStores, NetFee

\* The fee covers the outputs and inputs there may be.
LEMMA FeeIsEnough ==
  ASSUME NEW kind \in {"L", "R"}, NEW N \in Nat, N <= MaxInputs[kind], NEW m \in Nat,
         m <= IF kind = "L" THEN 2 * N + 2 ELSE 3 * N + 2
  PROVE  FeeRet - (FeeBase + FeePerCoin * m) \in Nat
<1>1. FeeRet \in Nat /\ FeeBase \in Nat /\ FeePerCoin \in Nat /\ MaxInputs["L"] \in Nat /\ MaxInputs["R"] \in Nat
  BY FeeAssumption
<1>2. PICK top \in Nat : m <= top /\ FeeBase + FeePerCoin * top <= FeeRet
  <2>1. CASE kind = "L"
    <3>1. PICK top \in Nat : top = 2 * MaxInputs["L"] + 2
      BY <1>1
    <3>2. m <= top
      BY <1>1, <2>1, <3>1
    <3> QED BY <3>1, <3>2, FeeAssumption
  <2>2. CASE kind = "R"
    <3>1. PICK top \in Nat : top = 3 * MaxInputs["R"] + 2
      BY <1>1
    <3>2. m <= top
      BY <1>1, <2>2, <3>1
    <3> QED BY <3>1, <3>2, FeeAssumption
  <2> QED BY <2>1, <2>2
<1>3. FeePerCoin * m <= FeePerCoin * top /\ FeePerCoin * m \in Nat /\ FeePerCoin * top \in Nat
  <2>1. m * FeePerCoin \in Nat /\ m * FeePerCoin = FeePerCoin * m /\ FeePerCoin * m <= FeePerCoin * top
    BY <1>1, <1>2, ProductLemma
  <2>2. top * FeePerCoin \in Nat /\ top * FeePerCoin = FeePerCoin * top
    BY <1>1, <1>2, ProductLemma
  <2> QED BY <2>1, <2>2
<1> QED BY <1>1, <1>2, <1>3

\* A call that runs: its coins, the user's place and the plan
CallInv ==
  /\ call = [kind |-> call.kind, used |-> call.used, amount |-> call.amount, at |-> call.at,
             requested |-> call.requested, plan |-> call.plan, fees |-> call.fees]
  /\ CanUse(call.kind, call.used) /\ Cardinality(call.used) <= MaxInputs[call.kind]
  /\ call.amount \in Nat /\ FeeRet <= call.amount /\ call.amount <= InputsAmount(call.kind, call.used)
  /\ call.at = PayoutAt(call.kind, call.used)
  /\ call.plan = PlannedChange(call.kind, call.used, call.amount - FeeRet)
  /\ call.fees \in Fractions
  /\ call.used \subseteq known

\* What the user gets, and the addresses of the coins used
Payout == call.amount - FeeRet
CallAddresses == AddressesOf(call.used)

\* The plan of a call that runs.
LEMMA CallPlan ==
  ASSUME CallInv
  PROVE  /\ CallAddresses \in SUBSET Nat /\ IsFiniteSet(CallAddresses) /\ CallAddresses # {}
         /\ 0 \notin CallAddresses /\ Payee \notin CallAddresses
         /\ Payout \in Nat /\ call.at \in Nat \ {0} /\ Cardinality(call.used) \in Nat
         /\ call.plan.change \in [CallAddresses -> Nat] /\ call.plan.reduced \in [CallAddresses -> Nat]
         /\ \A a \in CallAddresses :
              call.plan.change[a] + call.plan.reduced[a] = Untaken(call.kind, call.used, Payout)[a]
         /\ Cardinality(CallAddresses) \in Nat /\ Cardinality(CallAddresses) <= Cardinality(call.used)
<1>1. CanUse(call.kind, call.used) /\ GoodCoins /\ call.used \in SUBSET DOMAIN coins /\ call.used # {} /\ call.kind \in {"L", "R"}
  BY DEF CallInv, CanUse
<1>2. /\ CallAddresses \in SUBSET Nat /\ IsFiniteSet(CallAddresses) /\ CallAddresses # {}
      /\ 0 \notin CallAddresses /\ Payee \notin CallAddresses /\ Cardinality(call.used) \in Nat
      /\ Cardinality(CallAddresses) \in Nat /\ Cardinality(CallAddresses) <= Cardinality(call.used)
  BY <1>1, AddressesLemma DEF CallAddresses
<1>3. Payout \in Nat /\ Payout <= call.amount
  BY FeeAssumption DEF CallInv, Payout
<1>4. PICK am \in Nat : am = InputsAmount(call.kind, call.used)
  <2>1. \A c \in call.used : coins[c].fractions \in Fractions
    BY <1>1 DEF GoodCoins
  <2>2. peglevel.nSupplyNext \in Indexes /\ peglevel.nBuffer \in 0..peglevel.nSupplyNext
    BY <1>1 DEF CanUse
  <2>3. \A c \in call.used : Total(coins[c].fractions) \in Nat /\ Available("L", coins[c].fractions) \in Nat
    BY <2>1, <2>2, AvailableLemma
  <2>4. PICK g : g = [c \in call.used |-> IF call.kind = "L" THEN Available("L", coins[c].fractions) ELSE Total(coins[c].fractions)]
    OBVIOUS
  <2>5. \A c \in call.used : g[c] \in Nat
    BY <2>3, <2>4
  <2>6. IsFiniteSet(call.used)
    BY <1>1, AddressesLemma
  <2>7. SumOf(g, call.used) \in Nat
    BY <2>5, <2>6, SumNat
  <2>8. InputsAmount(call.kind, call.used) = SumOf(g, call.used)
    BY <2>4 DEF InputsAmount
  <2> QED BY <2>7, <2>8
<1>5. Payout <= InputsAmount(call.kind, call.used)
  <2>1. call.amount <= am /\ call.amount \in Nat
    BY <1>4 DEF CallInv
  <2> QED BY <1>3, <1>4, <2>1
<1>6. call.plan = PlannedChange(call.kind, call.used, Payout)
  BY DEF CallInv, Payout
<1>7. /\ call.plan.change \in [CallAddresses -> Nat] /\ call.plan.reduced \in [CallAddresses -> Nat]
      /\ \A a \in CallAddresses :
           call.plan.change[a] + call.plan.reduced[a] = Untaken(call.kind, call.used, Payout)[a]
  <2>1. PICK A, p, in, due :
          /\ A = AddressesOf(call.used) /\ p = call.plan
          /\ in = SumOf([c \in call.used |-> Total(coins[c].fractions)], call.used)
          /\ due = Payout + FreezeValue * (PayoutAt(call.kind, call.used) - 1)
    OBVIOUS
  <2>2. /\ p.change \in [A -> Nat] /\ p.reduced \in [A -> Nat]
        /\ \A a \in A : p.change[a] + p.reduced[a] = Untaken(call.kind, call.used, Payout)[a]
    BY <1>1, <1>3, <1>5, <1>6, <2>1, PlanLemma
  <2> QED BY <2>1, <2>2 DEF CallAddresses
<1>8. call.at \in Nat \ {0}
  BY <1>2 DEF CallInv, PayoutAt
<1> QED BY <1>2, <1>3, <1>7, <1>8

\* What goes back of the fee goes where the plan took it from.
BackTo(c, own) ==
  /\ c \in [CallAddresses -> Nat] /\ own \in [CallAddresses -> Nat]
  /\ \A a \in CallAddresses : c[a] + own[a] <= Untaken(call.kind, call.used, Payout)[a]
  /\ SumOf(c, CallAddresses) + SumOf(own, CallAddresses) <= SumOf(call.plan.change, CallAddresses) + FeeRet

LEMMA MaintenanceLemma ==
  ASSUME CallInv, NEW r, Len(r.vin) = Cardinality(call.used), r.vout = OutsTo(call.at, Payout, call.plan.change)
  PROVE  \E c, own : /\ BackTo(c, own)
                     /\ WithMaintenance(r) = [r EXCEPT !.vout = OutsTo(call.at, Payout, c) \o PayEach(own)]
<1>1. PICK A : A = CallAddresses
  OBVIOUS
<1>2. PICK change, reduced : change = call.plan.change /\ reduced = call.plan.reduced
  OBVIOUS
<1>3. PICK N : N = Cardinality(call.used)
  OBVIOUS
<1>4. /\ A \in SUBSET Nat /\ IsFiniteSet(A) /\ Payout \in Nat /\ call.at \in Nat \ {0} /\ N \in Nat
      /\ change \in [A -> Nat] /\ reduced \in [A -> Nat]
      /\ \A a \in A : change[a] + reduced[a] = Untaken(call.kind, call.used, Payout)[a]
      /\ Cardinality(A) \in Nat /\ Cardinality(A) <= N
  BY <1>1, <1>2, <1>3, CallPlan
<1>5. PICK fee : fee = NetFee(r)
  OBVIOUS
<1>6. fee \in Nat /\ fee <= FeeRet
  <2>1. PICK K : RawOuts(r.vout, call.at, Payout, A, change, K)
    <3>1. PICK at, v : at = call.at /\ v = Payout
      OBVIOUS
    <3>2. at \in Nat \ {0} /\ v \in Nat /\ A \in SUBSET Nat /\ IsFiniteSet(A) /\ change \in [A -> Nat]
      BY <1>4, <3>1
    <3>3. RawOuts(OutsTo(at, v, change), at, v, A, change, Cardinality({a \in A : change[a] > 0}))
      BY ONLY <3>2, OutsToLemma
    <3>4. r.vout = OutsTo(at, v, change)
      BY <1>2, <3>1
    <3> QED BY ONLY <3>1, <3>3, <3>4
  <2>2. K \in Nat /\ K <= Cardinality(A) /\ Len(r.vout) = call.at + K + 1
    BY <2>1 DEF RawOuts
  <2>3. call.kind \in {"L", "R"} /\ N <= MaxInputs[call.kind] /\ call.at = IF call.kind = "L" THEN 1 ELSE N + 1
    BY <1>3 DEF CallInv, CanUse, PayoutAt
  <2>4. PICK m \in Nat : m = Len(r.vin) + Len(r.vout)
    BY <1>3, <1>4, <2>2
  <2>5. m <= IF call.kind = "L" THEN 2 * N + 2 ELSE 3 * N + 2
    <3>1. m = N + (call.at + K + 1) /\ K <= N
      BY <1>3, <1>4, <2>2, <2>4
    <3> QED BY <1>4, <2>2, <2>3, <3>1
  <2>6. FeeRet - (FeeBase + FeePerCoin * m) \in Nat
    BY <1>4, <2>3, <2>4, <2>5, FeeIsEnough
  <2>7. fee = FeeRet - (FeeBase + FeePerCoin * m)
    BY <1>5, <2>4 DEF NetFee
  <2>8. FeePerCoin * m \in Nat /\ FeeBase \in Nat /\ FeeRet \in Nat
    <3>1. FeePerCoin \in Nat /\ FeeBase \in Nat /\ FeeRet \in Nat
      BY FeeAssumption
    <3>2. m \in Nat /\ m <= m
      BY <2>4
    <3>3. m * FeePerCoin \in Nat /\ m * FeePerCoin = FeePerCoin * m
      BY ONLY <3>1, <3>2, ProductLemma, Zenon
    <3> QED BY ONLY <3>1, <3>3
  <2> QED BY <2>6, <2>7, <2>8
<1>7. PICK order : order = Ascending(A)
  OBVIOUS
<1>8. IsOrder(order, A)
  BY <1>4, <1>7, AscendingOrder
<1>9. PICK onto : onto = Onto(r)
  OBVIOUS
<1>10. PICK own : own = Own(r)
  OBVIOUS
<1>11. PICK s : s = OntoStores
  OBVIOUS
<1>12. PICK t : t = OwnStores
  OBVIOUS
<1>13. /\ s \in [A -> Nat] /\ t \in [A -> Nat]
       /\ \A a \in A : /\ s[a] = IF change[a] > 0 THEN reduced[a] ELSE 0
                       /\ t[a] = IF change[a] > 0 THEN 0 ELSE reduced[a]
  <2>1. DOMAIN call.plan.change = A
    BY <1>2, <1>4
  <2>2. s = [a \in A |-> IF change[a] > 0 THEN reduced[a] ELSE 0]
    BY <1>2, <1>11, <2>1 DEF OntoStores
  <2>3. t = [a \in A |-> IF change[a] > 0 THEN 0 ELSE reduced[a]]
    BY <1>2, <1>12, <2>1 DEF OwnStores
  <2>4. \A a \in A : change[a] \in Nat /\ reduced[a] \in Nat
    BY <1>4
  <2> QED BY <2>2, <2>3, <2>4
<1>14. /\ onto \in [A -> Nat] /\ \A a \in A : onto[a] <= s[a]
       /\ SumOf(onto, A) \in Nat /\ SumOf(onto, A) <= fee
  <2>1. onto = GivenBy(order, s, fee)
    BY <1>1, <1>5, <1>7, <1>9, <1>11 DEF Onto, CallAddresses
  <2>2. /\ onto \in [A -> Nat] /\ \A a \in A : onto[a] <= s[a]
        /\ SumOf(s, A) \in Nat /\ SumOf(onto, A) \in Nat /\ SumOf(onto, A) = Least(fee, SumOf(s, A))
    BY ONLY <1>6, <1>8, <1>13, <2>1, GivenByLemma
  <2> QED BY <1>6, <2>2, LeastLemma
<1>15. PICK rest \in Nat : rest = fee - SumOf(onto, A)
  BY <1>6, <1>14
<1>16. /\ own \in [A -> Nat] /\ \A a \in A : own[a] <= t[a]
       /\ SumOf(own, A) \in Nat /\ SumOf(own, A) <= rest
  <2>1. DOMAIN onto = A
    BY <1>14
  <2>2. own = GivenBy(order, t, rest)
    BY <1>1, <1>5, <1>7, <1>9, <1>10, <1>12, <1>15, <2>1 DEF Own, CallAddresses
  <2>3. /\ own \in [A -> Nat] /\ \A a \in A : own[a] <= t[a]
        /\ SumOf(t, A) \in Nat /\ SumOf(own, A) \in Nat /\ SumOf(own, A) = Least(rest, SumOf(t, A))
    BY ONLY <1>15, <1>8, <1>13, <2>2, GivenByLemma
  <2> QED BY <1>15, <2>3, LeastLemma
<1>17. PICK c : c = WithOnto(change, onto)
  OBVIOUS
<1>18. PutOnto(r.vout, call.at, onto) = OutsTo(call.at, Payout, c) /\ c \in [A -> Nat]
  <2>1. PICK at, v : at = call.at /\ v = Payout
    OBVIOUS
  <2>2. at \in Nat \ {0} /\ v \in Nat /\ A \in SUBSET Nat /\ IsFiniteSet(A) /\ change \in [A -> Nat] /\ onto \in [A -> Nat]
    BY <1>4, <1>14, <2>1
  <2>3. /\ PutOnto(OutsTo(at, v, change), at, onto) = OutsTo(at, v, WithOnto(change, onto))
        /\ WithOnto(change, onto) \in [A -> Nat]
    BY ONLY <2>2, OntoOuts
  <2>4. r.vout = OutsTo(at, v, change)
    BY <1>2, <2>1
  <2> QED BY ONLY <1>17, <2>1, <2>3, <2>4
<1>19. WithMaintenance(r) = [r EXCEPT !.vout = OutsTo(call.at, Payout, c) \o PayEach(own)]
  BY <1>9, <1>10, <1>18, MaintenanceIs
<1>20. \A a \in A : /\ c[a] = change[a] + onto[a] /\ change[a] \in Int /\ onto[a] \in Int
                    /\ c[a] + own[a] <= change[a] + reduced[a]
  <2> TAKE a \in A
  <2>1. c[a] = IF change[a] > 0 THEN change[a] + onto[a] ELSE 0
    BY <1>4, <1>17 DEF WithOnto
  <2>2. change[a] \in Nat /\ reduced[a] \in Nat /\ onto[a] \in Nat /\ own[a] \in Nat
    BY <1>4, <1>14, <1>16
  <2>3. onto[a] <= (IF change[a] > 0 THEN reduced[a] ELSE 0) /\ own[a] <= (IF change[a] > 0 THEN 0 ELSE reduced[a])
    BY <1>13, <1>14, <1>16
  <2> QED BY ONLY <2>1, <2>2, <2>3
<1>21. SumOf(c, A) = SumOf(change, A) + SumOf(onto, A)
  <2>1. IsFiniteSet(A)
    BY <1>4
  <2> QED BY ONLY <1>20, <2>1, SumPlus
<1>22. SumOf(change, A) \in Nat
  <2>1. \A a \in A : change[a] \in Nat
    BY <1>4
  <2> QED BY <1>4, <2>1, SumNat
<1>23. SumOf(c, A) + SumOf(own, A) <= SumOf(change, A) + FeeRet
  <2>1. FeeRet \in Nat
    BY FeeAssumption
  <2> QED BY <1>6, <1>14, <1>15, <1>16, <1>21, <1>22, <2>1
<1>24. \A a \in A : c[a] + own[a] <= Untaken(call.kind, call.used, Payout)[a]
  BY <1>4, <1>20
<1>25. BackTo(c, own)
  BY <1>1, <1>2, <1>16, <1>18, <1>23, <1>24 DEF BackTo
<1> QED BY <1>19, <1>25

-----------------------------------------------------------------------------
(* Balances                                                                *)

GoodBalance ==
  /\ balance = [fractions |-> balance.fractions, peglevel |-> balance.peglevel, nReserve |-> balance.nReserve,
                nLiquid |-> balance.nLiquid, nId |-> balance.nId]
  /\ balance.fractions \in Fractions /\ balance.nReserve \in Nat /\ balance.nLiquid \in Nat
  /\ balance.peglevel = peglevel /\ Effective(peglevel) \in Indexes
  /\ IsValid(balance)

\* A part of fractions: of the ones below e, or of those above, and of that at e
\* at most `last'
IsPartOf(part, f, e, kind, last) ==
  /\ part \in Fractions /\ \A i \in Indexes : part[i] <= f[i]
  /\ \A i \in Indexes : (kind = "L" /\ i < e) \/ (kind = "R" /\ i > e) => part[i] = 0
  /\ part[e] <= last

\* What may count of the fraction at the level
AtLevel(kind) ==
  LET e == Effective(peglevel)
      f == balance.fractions
  IN  IF kind = "L" THEN balance.nLiquid - High(f, e + 1) ELSE balance.nReserve - Low(f, e)

\* The parts of a balance are fractions it has.
LEMMA BalanceLemma ==
  ASSUME GoodBalance, NEW kind \in {"L", "R"}
  PROVE  IsPartOf(BalancePart(kind), balance.fractions, Effective(peglevel), kind, AtLevel(kind))
<1>1. PICK e : e = Effective(peglevel)
  OBVIOUS
<1>2. PICK f : f = balance.fractions
  OBVIOUS
<1>3. PICK q, r : q = balance.nLiquid /\ r = balance.nReserve
  OBVIOUS
<1>4. f \in Fractions /\ e \in Indexes /\ q \in Nat /\ r \in Nat /\ \A i \in Indexes : f[i] \in Nat
  BY <1>1, <1>2, <1>3 DEF GoodBalance, Fractions
<1>5. /\ Total(f) \in Nat /\ Low(f, e) \in Nat /\ High(f, e) \in Nat /\ High(f, e + 1) \in Nat
      /\ Low(f, e) + High(f, e) = Total(f)
      /\ High(f, e) = f[e] + High(f, e + 1)
  BY <1>4, PartsAtLevel
<1>6. /\ r + q = Total(f)
      /\ IF Partial(peglevel) THEN q >= High(f, e + 1) /\ r >= Low(f, e) ELSE q = High(f, e) /\ r = Low(f, e)
  BY <1>1, <1>2, <1>3 DEF GoodBalance, IsValid
<1>7. e \in 0..PegSize /\ e + 1 \in 0..PegSize /\ e \in Nat /\ \A i \in Indexes : i \in Nat
  BY <1>4, PegSizeAssumption DEF Indexes
<1>8. Total(HighPart(f, e + 1)) = High(f, e + 1) /\ Total(LowPart(f, e)) = Low(f, e)
  <2>1. \A i \in Indexes : f[i] \in Int
    BY <1>4
  <2> QED BY <1>7, <2>1, PartsLemma
<1>9. CASE kind = "L"
  <2>1. PICK part : part = BalancePart(kind)
    OBVIOUS
  <2>2. part = IF Partial(peglevel) THEN [HighPart(f, e + 1) EXCEPT ![e] = q - High(f, e + 1)] ELSE HighPart(f, e)
    BY <1>1, <1>2, <1>3, <1>8, <1>9, <2>1 DEF BalancePart, LiquidPart
  <2>3. \A i \in Indexes : /\ HighPart(f, e + 1)[i] = IF i >= e + 1 THEN f[i] ELSE 0
                           /\ HighPart(f, e)[i] = IF i >= e THEN f[i] ELSE 0
    BY DEF HighPart
  <2>4. HighPart(f, e + 1) \in Fractions /\ HighPart(f, e) \in Fractions
    BY <1>4, <1>7 DEF HighPart, Fractions
  <2>5. CASE Partial(peglevel)
    <3>1. q - High(f, e + 1) \in Nat /\ q - High(f, e + 1) <= f[e]
      BY <1>4, <1>5, <1>6, <2>5
    <3>2. PICK last \in Nat : last = q - High(f, e + 1)
      BY <3>1
    <3>3. part = [HighPart(f, e + 1) EXCEPT ![e] = last]
      BY <2>2, <2>5, <3>2
    <3>4. part \in Fractions /\ part[e] = last /\ \A i \in Indexes : i # e => part[i] = HighPart(f, e + 1)[i]
      BY <1>4, <2>4, <3>2, <3>3 DEF Fractions
    <3>5. last <= f[e] /\ last = AtLevel(kind)
      BY <1>1, <1>2, <1>3, <1>9, <3>1, <3>2 DEF AtLevel
    <3>6. \A i \in Indexes : part[i] <= f[i] /\ (i < e => part[i] = 0)
      BY <1>4, <1>7, <2>3, <3>4, <3>5
    <3> QED BY <1>1, <1>2, <1>7, <1>9, <2>1, <3>2, <3>4, <3>5, <3>6 DEF IsPartOf
  <2>6. CASE ~ Partial(peglevel)
    <3>1. part = HighPart(f, e)
      BY <2>2, <2>6
    <3>2. q - High(f, e + 1) = f[e]
      BY <1>4, <1>5, <1>6, <2>6
    <3>3. f[e] = AtLevel(kind)
      BY <1>1, <1>2, <1>3, <1>9, <3>2 DEF AtLevel
    <3>4. \A i \in Indexes : part[i] <= f[i] /\ (i < e => part[i] = 0)
      BY <1>4, <1>7, <2>3, <3>1
    <3> QED BY <1>1, <1>2, <1>4, <1>7, <1>9, <2>1, <2>4, <3>1, <3>3, <3>4 DEF IsPartOf
  <2> QED BY <2>5, <2>6
<1>10. CASE kind = "R"
  <2>1. PICK part : part = BalancePart(kind)
    OBVIOUS
  <2>2. part = IF Partial(peglevel) THEN [LowPart(f, e) EXCEPT ![e] = r - Low(f, e)] ELSE LowPart(f, e)
    BY <1>1, <1>2, <1>3, <1>8, <1>10, <2>1 DEF BalancePart, ReservePart
  <2>3. \A i \in Indexes : LowPart(f, e)[i] = IF i < e THEN f[i] ELSE 0
    BY DEF LowPart
  <2>4. LowPart(f, e) \in Fractions
    BY <1>4, <1>7 DEF LowPart, Fractions
  <2>5. PICK last \in Nat : last = r - Low(f, e) /\ last <= f[e]
    BY <1>4, <1>5, <1>6
  <2>6. last = AtLevel(kind)
    BY <1>1, <1>2, <1>3, <1>10, <2>5 DEF AtLevel
  <2>7. part \in Fractions /\ part[e] <= last /\ \A i \in Indexes : i # e => part[i] = LowPart(f, e)[i]
    <3>1. CASE Partial(peglevel)
      <4>1. part = [LowPart(f, e) EXCEPT ![e] = last]
        BY <2>2, <2>5, <3>1
      <4> QED BY <1>4, <2>4, <2>5, <4>1 DEF Fractions
    <3>2. CASE ~ Partial(peglevel)
      <4>1. part = LowPart(f, e) /\ part[e] = 0
        BY <1>4, <1>7, <2>2, <2>3, <3>2
      <4> QED BY <2>4, <2>5, <4>1
    <3> QED BY <3>1, <3>2
  <2>8. \A i \in Indexes : part[i] <= f[i] /\ (i > e => part[i] = 0)
    <3> TAKE i \in Indexes
    <3>1. f[i] \in Nat /\ i \in Nat /\ part[e] \in Nat
      BY <1>4, <1>7, <2>7 DEF Fractions
    <3> QED BY <1>7, <2>3, <2>5, <2>7, <3>1
  <2> QED BY <1>1, <1>2, <1>7, <1>10, <2>1, <2>6, <2>7, <2>8 DEF IsPartOf
<1> QED BY <1>9, <1>10

-----------------------------------------------------------------------------
(* The invariant of a session                                              *)

\* The plan depends on these variables.
LEMMA PlanSame ==
  ASSUME coins' = coins, peglevel' = peglevel, NEW kind, NEW used, NEW amount
  PROVE  /\ PlannedChange(kind, used, amount)' = PlannedChange(kind, used, amount)
         /\ Untaken(kind, used, amount)' = Untaken(kind, used, amount)
<1>1. ASSUME NEW k, NEW f PROVE Available(k, f)' = Available(k, f)
  BY DEF Available
<1>2. AddressesOf(used)' = AddressesOf(used)
  BY DEF AddressesOf
<1>3. Sorted(used)' = Sorted(used)
  BY DEF Sorted
<1>4. InputAt(used)' = InputAt(used)
  BY <1>2 DEF InputAt
<1>5. AvailableAt("R", used)' = AvailableAt("R", used)
  BY <1>1, <1>2 DEF AvailableAt
<1>6. TakenLiquid(used, amount)' = TakenLiquid(used, amount)
  BY <1>1, <1>2, <1>3 DEF TakenLiquid
<1>7. TakenReserve(used, amount)' = TakenReserve(used, amount)
  BY <1>2, <1>3, <1>5 DEF TakenReserve
<1>8. Taken(kind, used, amount)' = Taken(kind, used, amount)
  BY <1>6, <1>7 DEF Taken
<1>9. Untaken(kind, used, amount)' = Untaken(kind, used, amount)
  BY <1>4, <1>8 DEF Untaken
<1>10. PlannedChange(kind, used, amount)' = PlannedChange(kind, used, amount)
  BY <1>2, <1>8, <1>9 DEF PlannedChange
<1> QED BY <1>9, <1>10

\* What may be used depends on these variables.
LEMMA UseSame ==
  ASSUME coins' = coins, peglevel' = peglevel, NEW kind, NEW used
  PROVE  /\ CanUse(kind, used)' = CanUse(kind, used)
         /\ InputsAmount(kind, used)' = InputsAmount(kind, used)
         /\ AddressesOf(used)' = AddressesOf(used)
<1>1. ASSUME NEW k, NEW f PROVE Available(k, f)' = Available(k, f)
  BY DEF Available
<1>2. GoodCoins' = GoodCoins
  BY DEF GoodCoins
<1> QED BY <1>1, <1>2 DEF CanUse, InputsAmount, AddressesOf

\* A call depends on these.
LEMMA CallSame ==
  ASSUME CallInv, coins' = coins, peglevel' = peglevel, call' = call, known' = known
  PROVE  CallInv' /\ CallAddresses' = CallAddresses /\ Payout' = Payout
  BY UseSame, PlanSame DEF CallInv, PayoutAt, CallAddresses, Payout

\* The inputs of a withdrawal
InOf(c) == [address |-> coins[c].address, fractions |-> coins[c].fractions,
            mark |-> "", locked |-> FALSE, pass |-> FALSE, home |-> 0]
InsOf(used) == [i \in 1..Cardinality(used) |-> InOf(Sorted(used)[i])]

\* They are the coins used.
LEMMA InsLemma ==
  ASSUME GoodCoins, NEW used \in SUBSET DOMAIN coins
  PROVE  /\ InsOf(used) \in Seq(TxIns) /\ Len(InsOf(used)) = Cardinality(used) /\ Cardinality(used) \in Nat
         /\ DOMAIN InsOf(used) = 1..Cardinality(used)
         /\ \A i \in 1..Cardinality(used) : Sorted(used)[i] \in used /\ InsOf(used)[i] = InOf(Sorted(used)[i])
         /\ SumOver(FractionsOf(InsOf(used)), DOMAIN InsOf(used)) = SumOver(FractionsOf(coins), used)
<1>1. PICK N, s : N = Cardinality(used) /\ s = Sorted(used)
  OBVIOUS
<1>2. /\ N \in Nat /\ IsFiniteSet(used) /\ s \in [1..N -> used]
      /\ \A i, j \in 1..N : s[i] = s[j] => i = j
      /\ {s[i] : i \in 1..N} = used
  <2>1. /\ Cardinality(used) \in Nat /\ IsFiniteSet(used)
        /\ Sorted(used) \in [1..Cardinality(used) -> used]
        /\ \A i, j \in 1..Cardinality(used) : Sorted(used)[i] = Sorted(used)[j] => i = j
        /\ {Sorted(used)[i] : i \in 1..Cardinality(used)} = used
    BY SortedLemma, Zenon
  <2> QED BY ONLY <1>1, <2>1
<1>3. PICK v : v = InsOf(used)
  OBVIOUS
<1>4. v = [i \in 1..N |-> InOf(s[i])]
  BY <1>1, <1>3 DEF InsOf
<1>5. \A c \in used : InOf(c) \in TxIns /\ InOf(c).fractions = coins[c].fractions /\ coins[c].fractions \in Fractions
  <2>1. \A c \in used : coins[c].address \in Nat /\ coins[c].fractions \in Fractions
    BY DEF GoodCoins
  <2> QED BY <2>1 DEF InOf, TxIns, Marks
<1>6. \A i \in 1..N : s[i] \in used /\ v[i] = InOf(s[i])
  BY <1>2, <1>4
<1>7. v \in [1..N -> TxIns] /\ DOMAIN v = 1..N
  BY <1>4, <1>5, <1>6
<1>8. v \in Seq(TxIns)
  BY <1>2, <1>7, SeqDef
<1>9. Len(v) = N
  BY ONLY <1>2, <1>7, <1>8, LenProperties
<1>10. ASSUME NEW k \in Indexes
       PROVE  SumOver(FractionsOf(v), 1..N)[k] = SumOver(FractionsOf(coins), used)[k]
  <2>1. PICK I : I = 1..N
    OBVIOUS
  <2>2. PICK h : h = [i \in I |-> FractionsOf(v)[i][k]]
    OBVIOUS
  <2>3. PICK g : g = [c \in used |-> FractionsOf(coins)[c][k]]
    OBVIOUS
  <2>4. \A c \in used : g[c] = coins[c].fractions[k] /\ g[c] \in Int
    <3>1. \A c \in used : g[c] = coins[c].fractions[k]
      BY <2>3 DEF FractionsOf
    <3> QED BY <1>5, <3>1 DEF Fractions
  <2>5. \A i \in I : s[i] \in used /\ h[i] = coins[s[i]].fractions[k]
    BY <1>5, <1>6, <1>7, <2>1, <2>2 DEF FractionsOf
  <2>6. \A i \in I : g[s[i]] \in Int /\ h[i] = g[s[i]]
    BY <2>4, <2>5
  <2>7. IsFiniteSet(I)
    BY <1>2, <2>1, FS_Interval
  <2>8. \A i, j \in I : s[i] = s[j] => i = j
    BY <1>2, <2>1
  <2>9. SumOf(h, I) = SumOf(g, {s[i] : i \in I})
    BY ONLY <2>6, <2>7, <2>8, SumImage
  <2>10. SumOf(h, I) = SumOf(g, used)
    BY <1>2, <2>1, <2>9
  <2> QED BY <2>1, <2>2, <2>3, <2>10 DEF SumOver
<1>11. SumOver(FractionsOf(v), 1..N) = SumOver(FractionsOf(coins), used)
  BY <1>10 DEF SumOver
<1> QED BY <1>1, <1>3, <1>6, <1>7, <1>8, <1>9, <1>11, <1>2

\* A balance split at a good level is valid.
LEMMA SplitLemma ==
  ASSUME NEW f \in Fractions, NEW level, GoodLevel(level), NEW wide,
         Effective(wide) = Effective(level), wide.nShiftLastPart = level.nShiftLastPart,
         wide.nShiftLastTotal = level.nShiftLastTotal
  PROVE  /\ Split(f, wide, 0).nReserve \in Nat /\ Split(f, wide, 0).nLiquid \in Nat
         /\ IsValid(Split(f, wide, 0)) /\ Effective(wide) \in Indexes
<1>1. PICK e : e = Effective(wide)
  OBVIOUS
<1>2. e \in Indexes /\ e = Effective(level)
  BY <1>1, EffectiveLemma
<1>3. Partial(wide) <=> Partial(level)
  BY DEF Partial
<1>4. LastReserve(f, wide) = LastReserve(f, level)
  BY DEF LastReserve
<1>5. \A i \in Indexes : f[i] \in Nat /\ f[i] \in Int
  BY DEF Fractions
<1>6. PICK last : last = IF Partial(wide) THEN LastReserve(f, wide) ELSE 0
  OBVIOUS
<1>7. last \in Nat /\ last <= f[e]
  BY <1>2, <1>3, <1>4, <1>5, <1>6, LastReserveLemma
<1>8. PICK low : low = LevelLowPart(f, wide)
  OBVIOUS
<1>9. \A i \in Indexes : low[i] = IF i < e THEN f[i] ELSE IF i = e THEN last ELSE 0
  BY <1>1, <1>6, <1>8 DEF LevelLowPart
<1>10. PICK g : g = LowPart(f, e)
  OBVIOUS
<1>11. e \in Nat /\ e \in 0..PegSize /\ \A i \in Indexes : i \in Nat
  BY <1>2, PegSizeAssumption DEF Indexes
<1>12. \A i \in Indexes : g[i] = IF i < e THEN f[i] ELSE 0
  BY <1>10 DEF LowPart
<1>13. g[e] = 0 /\ low[e] = last
  BY <1>2, <1>9, <1>11, <1>12
<1>14. \A i \in Indexes : g[i] \in Int /\ (i # e => low[i] = g[i])
  BY <1>5, <1>9, <1>12
<1>15. Total(low) = Total(g) - g[e] + low[e]
  <2>1. low[e] \in Int
    BY <1>7, <1>13
  <2> QED BY ONLY <1>2, <1>14, <2>1, TotalExcept
<1>16. Total(g) = Low(f, e)
  BY <1>5, <1>10, <1>11, PartsLemma
<1>17. /\ Total(f) \in Nat /\ Low(f, e) \in Nat /\ High(f, e) \in Nat /\ High(f, e + 1) \in Nat
       /\ Low(f, e) + High(f, e) = Total(f)
       /\ High(f, e) = f[e] + High(f, e + 1)
  <2>1. \A i \in Indexes : f[i] \in Nat
    BY <1>5
  <2> QED BY ONLY <1>2, <2>1, PartsAtLevel
<1>18. Total(low) = Low(f, e) + last
  BY <1>7, <1>13, <1>15, <1>16, <1>17
<1>19. PICK b : b = Split(f, wide, 0)
  OBVIOUS
<1>20. b.fractions = f /\ b.peglevel = wide /\ b.nReserve = Total(low) /\ b.nLiquid = Total(f) - Total(low)
  BY <1>8, <1>19 DEF Split
<1>21. f[e] \in Nat
  BY <1>2, <1>5
<1>22. b.nReserve \in Nat /\ b.nLiquid \in Nat
  BY <1>7, <1>17, <1>18, <1>20, <1>21
<1>23. LevelIsValid(wide)
  BY <1>2, <1>1, PegSizeAssumption DEF LevelIsValid, Indexes
<1>24. b.nReserve + b.nLiquid = Total(f)
  BY <1>7, <1>17, <1>18, <1>20, <1>21
<1>25. IF Partial(wide) THEN b.nLiquid >= High(f, e + 1) /\ b.nReserve >= Low(f, e)
       ELSE b.nLiquid = High(f, e) /\ b.nReserve = Low(f, e)
  BY <1>6, <1>7, <1>17, <1>18, <1>20, <1>21
<1>26. IsValid(b)
  BY <1>1, <1>20, <1>23, <1>24, <1>25 DEF IsValid
<1> QED BY <1>1, <1>2, <1>19, <1>22, <1>26

\* The books of a session, its coins and the user's balance
SessionInv ==
  /\ GoodCoins /\ known \subseteq DOMAIN coins
  /\ exchange \in Fractions /\ notaries \in Fractions
  /\ pegshift \in [Indexes -> Int] /\ maintenance \in [Indexes -> Int]
  /\ GoodBalance /\ \A i \in Indexes : balance.fractions[i] <= exchange[i]
  /\ peglevel.nSupplyNext \in Indexes /\ peglevel.nBuffer \in 0..peglevel.nSupplyNext
  /\ \A i \in Indexes : SumAll(FractionsOf(coins))[i] + notaries[i] = exchange[i] + pegshift[i] + maintenance[i]

\* What coins hold together.
LEMMA CoinsSum ==
  ASSUME GoodCoins
  PROVE  /\ IsPool(FractionsOf(coins)) /\ DOMAIN FractionsOf(coins) = DOMAIN coins
         /\ \A c \in DOMAIN coins : FractionsOf(coins)[c] = coins[c].fractions
         /\ SumAll(FractionsOf(coins)) \in Fractions
<1>1. DOMAIN FractionsOf(coins) = DOMAIN coins /\ \A c \in DOMAIN coins : FractionsOf(coins)[c] = coins[c].fractions
  BY DEF FractionsOf
<1>2. IsPool(FractionsOf(coins))
  BY <1>1 DEF IsPool, GoodCoins
<1> QED BY <1>1, <1>2, PoolSum

\* A session starts with books that match the coins.
LEMMA InitSession ==
  ASSUME SessionInit, maintenance = Zero, notaries = Zero
  PROVE  SessionInv /\ step = "idle" /\ phase = "idle"
<1>1. PICK cs \in CoinSets, e \in Books, b \in Balances, l \in Levels :
        /\ coins = cs /\ known = DOMAIN cs
        /\ exchange = e
        /\ pegshift = Minus(SumAll(FractionsOf(cs)), e)
        /\ \A i \in Indexes : b[i] <= e[i]
        /\ \E level \in {CPegLevel(1, 0, l.nSupply, e, pegshift)} :
             /\ LevelIsValid(level)
             /\ peglevel = [f \in DOMAIN level \union {"nSupplyNext", "nBuffer"} |->
                              IF f \in DOMAIN level THEN level[f] ELSE l[f]]
        /\ balance = Split(b, peglevel, 0)
  BY DEF SessionInit
<1>2. e \in Fractions /\ b \in Fractions /\ l.nSupply \in Nat /\ l.nSupplyNext \in Indexes /\ l.nBuffer \in 0..l.nSupplyNext
  BY <1>1, BooksAssumption
<1>3. GoodCoins
  <2>1. cs \in Seq([address : Nat \ {0, Payee}, fractions : Fractions])
    BY <1>1, CoinsAssumption
  <2>2. PICK N : N = Len(cs)
    OBVIOUS
  <2>3. N \in Nat /\ DOMAIN cs = 1..N /\ IsFiniteSet(1..N) /\ \A c \in 1..N : cs[c] \in [address : Nat \ {0, Payee}, fractions : Fractions]
    BY <2>1, <2>2, SeqLemma
  <2> QED BY <1>1, <2>3 DEF GoodCoins
<1>4. PICK sum : sum = SumAll(FractionsOf(coins))
  OBVIOUS
<1>5. sum \in Fractions
  BY <1>3, <1>4, CoinsSum
<1>6. pegshift = [i \in Indexes |-> sum[i] - e[i]] /\ pegshift \in [Indexes -> Int]
  <2>1. pegshift = [i \in Indexes |-> sum[i] - e[i]]
    BY <1>1, <1>4 DEF Minus
  <2>2. \A i \in Indexes : sum[i] \in Nat /\ e[i] \in Nat
    BY <1>2, <1>5 DEF Fractions
  <2> QED BY <2>1, <2>2
<1>7. PICK level : /\ level = CPegLevel(1, 0, l.nSupply, e, pegshift) /\ LevelIsValid(level)
                   /\ peglevel = [f \in DOMAIN level \union {"nSupplyNext", "nBuffer"} |->
                                    IF f \in DOMAIN level THEN level[f] ELSE l[f]]
  BY <1>1
<1>8. GoodLevel(level)
  <2>1. PICK sup, d : sup = l.nSupply /\ d = pegshift
    OBVIOUS
  <2>2. sup \in Nat /\ d \in [Indexes -> Int] /\ level = CPegLevel(1, 0, sup, e, d)
    BY <1>2, <1>6, <1>7, <2>1
  <2>3. 1 \in Nat /\ 0 \in Nat
    OBVIOUS
  <2>4. LevelIsValid(CPegLevel(1, 0, sup, e, d)) => GoodLevel(CPegLevel(1, 0, sup, e, d))
    BY ONLY <1>2, <2>2, <2>3, LevelLemma
  <2> QED BY <1>7, <2>2, <2>4
<1>9. DOMAIN level = {"nCycle", "nCyclePrev", "nSupply", "nShift", "nShiftLastPart", "nShiftLastTotal"}
  <2>1. level \in PegLevels
    BY <1>8 DEF GoodLevel
  <2> QED BY <2>1 DEF PegLevels
<1>10. /\ peglevel.nSupply = level.nSupply /\ peglevel.nShift = level.nShift
       /\ peglevel.nShiftLastPart = level.nShiftLastPart /\ peglevel.nShiftLastTotal = level.nShiftLastTotal
       /\ peglevel.nSupplyNext = l.nSupplyNext /\ peglevel.nBuffer = l.nBuffer
  BY <1>7, <1>9
<1>11. Effective(peglevel) = Effective(level)
  BY <1>10 DEF Effective
<1>12. PICK wide : wide = peglevel
  OBVIOUS
<1>13. /\ Split(b, wide, 0).nReserve \in Nat /\ Split(b, wide, 0).nLiquid \in Nat
       /\ IsValid(Split(b, wide, 0)) /\ Effective(wide) \in Indexes
  <2>1. Effective(wide) = Effective(level) /\ wide.nShiftLastPart = level.nShiftLastPart
        /\ wide.nShiftLastTotal = level.nShiftLastTotal
    BY <1>10, <1>11, <1>12
  <2> QED BY ONLY <1>2, <1>8, <2>1, SplitLemma
<1>14. balance = Split(b, wide, 0)
  BY <1>1, <1>12
<1>15. balance = [fractions |-> balance.fractions, peglevel |-> balance.peglevel, nReserve |-> balance.nReserve,
                  nLiquid |-> balance.nLiquid, nId |-> balance.nId] /\ balance.fractions = b /\ balance.peglevel = peglevel
  BY <1>12, <1>14 DEF Split
<1>16. GoodBalance
  BY <1>2, <1>12, <1>13, <1>14, <1>15 DEF GoodBalance
<1>17. notaries \in Fractions /\ maintenance \in [Indexes -> Int] /\ \A i \in Indexes : notaries[i] = 0 /\ maintenance[i] = 0
  BY ZeroLemma DEF Fractions
<1>18. \A i \in Indexes : sum[i] + notaries[i] = exchange[i] + pegshift[i] + maintenance[i]
  <2> TAKE i \in Indexes
  <2>1. sum[i] \in Nat /\ e[i] \in Nat /\ pegshift[i] = sum[i] - e[i]
    BY <1>2, <1>5, <1>6 DEF Fractions
  <2> QED BY <1>1, <1>17, <2>1
<1>19. peglevel.nSupplyNext \in Indexes /\ peglevel.nBuffer \in 0..peglevel.nSupplyNext
  BY <1>2, <1>10
<1>20. known \subseteq DOMAIN coins /\ exchange \in Fractions /\ \A i \in Indexes : balance.fractions[i] <= exchange[i]
  BY <1>1, <1>2, <1>15
<1>21. step = "idle" /\ phase = "idle"
  BY DEF SessionInit
<1> QED BY <1>3, <1>4, <1>6, <1>16, <1>17, <1>18, <1>19, <1>20, <1>21 DEF SessionInv

\* The session depends on these variables.
LEMMA SessionSame ==
  ASSUME SessionInv, UNCHANGED books
  PROVE  SessionInv' /\ (AtLevel("L")' = AtLevel("L")) /\ (AtLevel("R")' = AtLevel("R"))
<1>1. GoodCoins'
  BY DEF SessionInv, books, GoodCoins
<1>2. GoodBalance'
  BY DEF SessionInv, books, GoodBalance
<1> QED BY <1>1, <1>2 DEF SessionInv, books, AtLevel

\* What the call asks for: a part of the user's balance
AskInv ==
  /\ call.requested \in Fractions /\ Total(call.requested) = call.amount
  /\ IsPartOf(call.requested, balance.fractions, Effective(peglevel), call.kind, AtLevel(call.kind))
  /\ call.amount <= BalanceAmount(call.kind)

\* The transaction of a call
TxOfCall ==
  /\ tx = [vin |-> InsOf(call.used), vout |-> tx.vout, reward |-> Null]
  /\ supply = peglevel.nSupplyNext - peglevel.nBuffer
  /\ step = "common" => tx.vout = OutsTo(call.at, Payout, call.plan.change)
  /\ step = "net" => \E c, own : BackTo(c, own) /\ tx.vout = OutsTo(call.at, Payout, c) \o PayEach(own)
  /\ phase = "done" => n > Len(tx.vout)

\* A call runs
Calling == SessionInv /\ CallInv /\ AskInv /\ TxOfCall /\ IInv /\ step \in {"common", "net"}
Idle == SessionInv /\ step = "idle" /\ phase = "idle"
WInv == step = "wallet" \/ Idle \/ Calling

\* A part of the balance can be asked for.
LEMMA AskLemma ==
  ASSUME GoodBalance, NEW kind \in {"L", "R"}, NEW amount \in Nat, amount <= Total(BalancePart(kind))
  PROVE  /\ RatioPart(BalancePart(kind), amount) \in Fractions
         /\ Total(RatioPart(BalancePart(kind), amount)) = amount
         /\ IsPartOf(RatioPart(BalancePart(kind), amount), balance.fractions, Effective(peglevel), kind, AtLevel(kind))
<1>1. PICK p, f, e, last : p = BalancePart(kind) /\ f = balance.fractions /\ e = Effective(peglevel) /\ last = AtLevel(kind)
  OBVIOUS
<1>2. IsPartOf(p, f, e, kind, last) /\ e \in Indexes
  BY <1>1, BalanceLemma DEF GoodBalance
<1>3. p \in Fractions
  BY <1>2 DEF IsPartOf
<1>4. PICK q : q = RatioPart(p, amount)
  OBVIOUS
<1>5. q \in Fractions /\ (\A i \in Indexes : q[i] <= p[i]) /\ Total(q) = Least(amount, Total(p))
  BY <1>3, <1>4, RatioPartIsExact
<1>6. Total(p) \in Nat /\ \A i \in Indexes : p[i] \in Nat /\ q[i] \in Nat /\ f[i] \in Nat
  <2>1. \A i \in Indexes : p[i] \in Nat /\ q[i] \in Nat
    BY <1>3, <1>5 DEF Fractions
  <2>2. \A i \in Indexes : f[i] \in Nat
    BY <1>1 DEF GoodBalance, Fractions
  <2> QED BY <2>1, <2>2, TotalNat
<1>7. amount <= Total(p)
  BY <1>1
<1>8. Total(q) = amount
  BY <1>5, <1>6, <1>7, LeastLemma
<1>9. last \in Int
  <2>1. High(f, e + 1) \in Nat /\ Low(f, e) \in Nat
    BY <1>2, <1>6, PartsAtLevel
  <2>2. balance.nLiquid \in Nat /\ balance.nReserve \in Nat
    BY DEF GoodBalance
  <2> QED BY <1>1, <2>1, <2>2 DEF AtLevel
<1>10. IsPartOf(q, f, e, kind, last)
  <2>1. \A i \in Indexes : q[i] <= f[i]
    <3> TAKE i \in Indexes
    <3>1. p[i] <= f[i] /\ q[i] <= p[i]
      BY <1>2, <1>5 DEF IsPartOf
    <3> QED BY <1>6, <3>1
  <2>2. \A i \in Indexes : (kind = "L" /\ i < e) \/ (kind = "R" /\ i > e) => q[i] = 0
    <3> SUFFICES ASSUME NEW i \in Indexes, (kind = "L" /\ i < e) \/ (kind = "R" /\ i > e) PROVE q[i] = 0
      OBVIOUS
    <3>1. p[i] = 0 /\ q[i] <= p[i]
      BY <1>2, <1>5 DEF IsPartOf
    <3> QED BY <1>6, <3>1
  <2>3. q[e] <= p[e]
    BY <1>2, <1>5
  <2>4. p[e] <= last
    BY <1>2 DEF IsPartOf
  <2>5. q[e] <= last
    BY <1>6, <1>2, <2>3, <2>4, <1>9
  <2> QED BY <1>5, <2>1, <2>2, <2>5 DEF IsPartOf
<1> QED BY <1>1, <1>4, <1>5, <1>8, <1>10

\* AskInv depends on these.
LEMMA AskSame ==
  ASSUME AskInv, UNCHANGED books, call'.requested = call.requested, call'.amount = call.amount,
         call'.kind = call.kind
  PROVE  AskInv'
<1>1. peglevel' = peglevel /\ balance' = balance
  BY DEF books
<1>2. AtLevel(call.kind)' = AtLevel(call.kind)
  BY <1>1 DEF AtLevel
<1>3. BalanceAmount(call.kind)' = BalanceAmount(call.kind)
  BY <1>1 DEF BalanceAmount
<1> QED BY <1>1, <1>2, <1>3 DEF AskInv

\* The inputs depend on the coins.
LEMMA InsSame ==
  ASSUME coins' = coins, NEW used
  PROVE  InsOf(used)' = InsOf(used)
<1>1. Sorted(used)' = Sorted(used)
  BY DEF Sorted
<1>2. ASSUME NEW c PROVE InOf(c)' = InOf(c)
  BY DEF InOf
<1> QED BY <1>1, <1>2 DEF InsOf

\* The parts of a call that its transaction depends on.
LEMMA BackSame ==
  ASSUME CallInv, coins' = coins, peglevel' = peglevel, known' = known, call'.used = call.used, call'.kind = call.kind,
         call'.plan = call.plan, call'.amount = call.amount, call'.at = call.at
  PROVE  /\ \A c, own : BackTo(c, own) => BackTo(c, own)'
         /\ InsOf(call.used)' = InsOf(call.used) /\ Payout' = Payout /\ CallAddresses' = CallAddresses
<1>1. CallAddresses' = CallAddresses
  BY UseSame DEF CallAddresses
<1>2. Payout' = Payout
  BY DEF Payout
<1>3. Untaken(call.kind, call.used, Payout)' = Untaken(call.kind, call.used, Payout)
  BY <1>2, PlanSame
<1>4. InsOf(call.used)' = InsOf(call.used)
  BY InsSame
<1>5. ASSUME NEW c, NEW own, BackTo(c, own) PROVE BackTo(c, own)'
  BY <1>1, <1>3, <1>5 DEF BackTo
<1> QED BY <1>1, <1>2, <1>4, <1>5

\* A step of the calculation.
LEMMA StepFacts ==
  ASSUME Next, IInv, tx.reward = Null
  PROVE  /\ tx' = tx /\ supply' = supply /\ phase \in {"inputs", "outputs"} /\ phase' \in {"inputs", "outputs", "done", "failed"}
         /\ phase' = "done" => Finish
<1>1. phase \in {"inputs", "outputs", "done", "failed"}
  BY DEF IInv
<1>2. CASE RefuseInput
  BY <1>2 DEF RefuseInput, Refuse
<1>3. CASE TakeInput
  BY <1>3 DEF TakeInput, Accepted, InputTaken
<1>4. CASE TakeColdInput
  BY <1>4 DEF TakeColdInput, Accepted, InputTaken
<1>5. CASE FreezeShared
  BY <1>5 DEF FreezeShared, Accepted, InputTaken
<1>6. CASE FreezeOne
  BY <1>6 DEF FreezeOne, Accepted, InputTaken
<1>7. CASE ShareLiquidity
  BY <1>7 DEF ShareLiquidity
<1>8. CASE PlainOutput
  <2>1. PICK none : none = ""
    BY Zenon
  <2>2. phase = "outputs" /\ FillOutput(ReserveSources(Output), Output.value, none)
    BY <1>8, <2>1, Zenon DEF PlainOutput
  <2> QED BY <2>2, FillFails
<1>9. CASE FrozenOutput
  BY <1>9 DEF FrozenOutput
<1>10. CASE SharedFrozenOutput
  BY <1>10, FillFails DEF SharedFrozenOutput
<1>11. CASE SharedVoluntaryOutput
  BY <1>11 DEF SharedVoluntaryOutput
<1>12. CASE SharedEmptyOutput
  <2>1. phase = "outputs" /\ UNCHANGED <<tx, supply, phase, pools, poolFrozen, frColdFees, fFreezeAll>>
    BY <1>12, Zenon DEF SharedEmptyOutput
  <2> QED BY <2>1
<1>13. CASE Finish
  BY <1>13 DEF Finish
<1>14. CASE CalculateStakingFractions
  <2>1. phase = "stake"
    BY <1>14, Zenon DEF CalculateStakingFractions
  <2> QED BY <1>1, <2>1
<1> QED BY <1>2, <1>3, <1>4, <1>5, <1>6, <1>7, <1>8, <1>9, <1>10, <1>11, <1>12, <1>13, <1>14 DEF Next

\* A step of the calculation of a withdrawal.
LEMMA CallingNext ==
  ASSUME Calling, Next, UNCHANGED <<step, books, call>>
  PROVE  Calling'
<1>1. tx.reward = Null
  BY DEF Calling, TxOfCall
<1>2. tx' = tx /\ supply' = supply /\ phase \in {"inputs", "outputs"} /\ (phase' = "done" => Finish)
  BY <1>1, StepFacts DEF Calling
<1>3. IInv'
  BY NextInv DEF Calling
<1>4. coins' = coins /\ peglevel' = peglevel /\ call' = call /\ step' = step /\ known' = known /\ UNCHANGED books
  BY DEF books
<1>5. SessionInv' /\ CallInv' /\ AskInv'
  BY <1>4, SessionSame, CallSame, AskSame DEF Calling
<1>6. /\ \A c, own : BackTo(c, own) => BackTo(c, own)'
      /\ InsOf(call.used)' = InsOf(call.used) /\ Payout' = Payout
  BY <1>4, BackSame DEF Calling
<1>7. phase' = "done" => n' > Len(tx'.vout)
  BY <1>2 DEF Finish
<1>8. /\ tx' = [vin |-> InsOf(call.used)', vout |-> tx'.vout, reward |-> Null]
      /\ supply' = peglevel'.nSupplyNext - peglevel'.nBuffer
  BY <1>2, <1>4, <1>6 DEF Calling, TxOfCall
<1>9. step' = "common" => tx'.vout = OutsTo(call'.at, Payout', call'.plan.change)
  BY <1>2, <1>4, <1>6 DEF Calling, TxOfCall
<1>10. step' = "net" => \E c, own : BackTo(c, own)' /\ tx'.vout = OutsTo(call'.at, Payout', c) \o PayEach(own)
  BY <1>2, <1>4, <1>6 DEF Calling, TxOfCall
<1>11. TxOfCall'
  BY <1>7, <1>8, <1>9, <1>10 DEF TxOfCall
<1> QED BY <1>3, <1>4, <1>5, <1>11 DEF Calling

\* The transaction of a withdrawal, as it is first made.
LEMMA RawTxLemma ==
  ASSUME NEW kind, NEW used, CanUse(kind, used), NEW amount
  PROVE  RawTx(kind, used, amount)
           = [vin |-> InsOf(used), vout |-> OutsTo(PayoutAt(kind, used), amount, PlannedChange(kind, used, amount).change),
              reward |-> Null]
<1>1. DOMAIN Sorted(used) = 1..Cardinality(used)
  BY SortedLemma DEF CanUse
<1>2. PICK s, I : s = Sorted(used) /\ I = 1..Cardinality(used)
  OBVIOUS
<1>3. PICK ins : ins = InsOf(used)
  OBVIOUS
<1>4. ins = [i \in I |-> InOf(s[i])]
  BY <1>2, <1>3 DEF InsOf
<1>5. PICK vout : vout = OutsTo(PayoutAt(kind, used), amount, PlannedChange(kind, used, amount).change)
  OBVIOUS
<1>6. RawTx(kind, used, amount) = [vin |-> [i \in DOMAIN s |-> InOf(s[i])], vout |-> vout, reward |-> Null]
  BY <1>2, <1>5, Zenon DEF RawTx, InOf, OutsTo
<1> QED BY <1>1, <1>2, <1>3, <1>4, <1>5, <1>6

\* The calculation of a good transaction starts.
LEMMA CalculateStarts ==
  ASSUME NEW vin \in Seq(TxIns), NEW vout \in Seq(TxOuts), Calculate([vin |-> vin, vout |-> vout, reward |-> Null]),
         peglevel.nSupplyNext \in Indexes, peglevel.nBuffer \in 0..peglevel.nSupplyNext
  PROVE  IInv'
<1>1. tx'.vin = vin /\ tx'.vout = vout
  BY DEF Calculate
<1>2. supply' = peglevel.nSupplyNext - peglevel.nBuffer
  BY DEF Calculate
<1>3. supply' \in Indexes
  <2>1. PICK a, b : a = peglevel.nSupplyNext /\ b = peglevel.nBuffer
    OBVIOUS
  <2>2. a \in Indexes /\ b \in 0..a /\ supply' = a - b
    BY <1>2, <2>1
  <2>3. a - b \in Indexes
    BY ONLY <2>2, PegSizeAssumption DEF Indexes
  <2> QED BY <2>2, <2>3
<1>4. TxInv'
  BY <1>1, <1>3 DEF TxInv
<1>5. Starting'
  BY <1>4 DEF Starting, Calculate
<1> QED BY <1>5, StartInv, PTL

\* What makes the outputs of a plan
PlanType ==
  /\ CallAddresses \in SUBSET Nat /\ IsFiniteSet(CallAddresses)
  /\ call.at \in Nat \ {0} /\ call.plan.change \in [CallAddresses -> Nat]
LEMMA PlanTyped == CallInv => PlanType
  BY CallPlan DEF PlanType

\* A call starts.
LEMMA PrepareCall ==
  ASSUME Idle, NEW kind \in {"L", "R"}, NEW used \in SUBSET known, NEW amount \in Amounts,
         PrepareWithdraw(kind, used, amount)
  PROVE  Calling'
<1>1. SessionInv /\ GoodCoins /\ GoodBalance /\ used \in SUBSET DOMAIN coins /\ used # {}
  BY DEF Idle, SessionInv, PrepareWithdraw
<1>2. CanUse(kind, used)
  BY <1>1 DEF CanUse, SessionInv
<1>3. /\ amount \in Nat /\ FeeRet \in Nat /\ FeeRet <= amount /\ amount - FeeRet \in Nat /\ amount <= InputsAmount(kind, used)
      /\ amount <= BalanceAmount(kind) /\ amount <= Total(BalancePart(kind)) /\ Cardinality(used) <= MaxInputs[kind]
  BY BooksAssumption, FeeAssumption DEF PrepareWithdraw
<1>4. coins' = coins /\ peglevel' = peglevel /\ known' = known /\ UNCHANGED books /\ step' = "common"
  BY DEF PrepareWithdraw, books
<1>5. PICK at, ask, plan : /\ at = PayoutAt(kind, used) /\ ask = RatioPart(BalancePart(kind), amount)
                           /\ plan = PlannedChange(kind, used, amount - FeeRet)
  OBVIOUS
<1>6. call' = [kind |-> kind, used |-> used, amount |-> amount, at |-> at, requested |-> ask, plan |-> plan, fees |-> Zero]
  BY <1>5 DEF PrepareWithdraw
<1>7. /\ call'.kind = kind /\ call'.used = used /\ call'.amount = amount /\ call'.at = at /\ call'.requested = ask
      /\ call'.plan = plan /\ call'.fees = Zero
      /\ call' = [kind |-> call'.kind, used |-> call'.used, amount |-> call'.amount, at |-> call'.at,
                  requested |-> call'.requested, plan |-> call'.plan, fees |-> call'.fees]
  BY <1>6
<1>8. SessionInv'
  BY <1>1, <1>4, SessionSame
<1>9. CanUse(kind, used)' /\ InputsAmount(kind, used)' = InputsAmount(kind, used)
  BY <1>2, <1>4, UseSame
<1>10. PlannedChange(kind, used, amount - FeeRet)' = plan
  BY <1>4, <1>5, PlanSame
<1>11. CallInv'
  <2>1. PayoutAt(call.kind, call.used)' = at
    BY <1>5, <1>7 DEF PayoutAt
  <2>2. CanUse(call.kind, call.used)' /\ InputsAmount(call.kind, call.used)' = InputsAmount(kind, used)
    BY <1>7, <1>9
  <2>3. PlannedChange(call.kind, call.used, call.amount - FeeRet)' = plan
    BY <1>7, <1>10
  <2> QED BY <1>3, <1>4, <1>7, <2>1, <2>2, <2>3, ZeroLemma DEF CallInv
<1>12. AskInv'
  <2>1. /\ ask \in Fractions /\ Total(ask) = amount
        /\ IsPartOf(ask, balance.fractions, Effective(peglevel), kind, AtLevel(kind))
    BY <1>1, <1>3, <1>5, AskLemma
  <2>2. balance' = balance
    BY <1>4 DEF books
  <2>3. AtLevel(kind)' = AtLevel(kind) /\ BalanceAmount(kind)' = BalanceAmount(kind)
    BY <1>4, <2>2 DEF AtLevel, BalanceAmount
  <2>4. AtLevel(call.kind)' = AtLevel(kind) /\ BalanceAmount(call.kind)' = BalanceAmount(kind)
    BY <1>7, <2>3
  <2> QED BY <1>3, <1>4, <1>7, <2>1, <2>2, <2>4 DEF AskInv
<1>13. PICK vin, vout : vin = InsOf(used) /\ vout = OutsTo(at, amount - FeeRet, plan.change)
  OBVIOUS
<1>14. RawTx(kind, used, amount - FeeRet) = [vin |-> vin, vout |-> vout, reward |-> Null]
  BY <1>2, <1>5, <1>13, RawTxLemma
<1>15. Calculate([vin |-> vin, vout |-> vout, reward |-> Null])
  BY <1>14 DEF PrepareWithdraw
<1>16. vin \in Seq(TxIns) /\ vout \in Seq(TxOuts)
  <2>1. vin \in Seq(TxIns)
    BY <1>1, <1>13, InsLemma
  <2>2. PlanType'
    BY <1>11, PlanTyped, PTL
  <2>3. /\ CallAddresses' \in SUBSET Nat /\ IsFiniteSet(CallAddresses')
        /\ at \in Nat \ {0} /\ plan.change \in [CallAddresses' -> Nat]
    BY <1>7, <2>2 DEF PlanType
  <2>4. PICK A, c, v : A = CallAddresses' /\ c = plan.change /\ v = amount - FeeRet
    OBVIOUS
  <2>5. RawOuts(OutsTo(at, v, c), at, v, A, c, Cardinality({a \in A : c[a] > 0}))
    BY <1>3, <2>3, <2>4, OutsToLemma
  <2> QED BY <1>13, <2>1, <2>4, <2>5 DEF RawOuts
<1>17. IInv'
  BY <1>1, <1>15, <1>16, CalculateStarts DEF SessionInv
<1>18. TxOfCall'
  <2>1. tx' = [vin |-> vin, vout |-> vout, reward |-> Null] /\ supply' = peglevel.nSupplyNext - peglevel.nBuffer
        /\ phase' = "inputs"
    BY <1>15 DEF Calculate
  <2>2. InsOf(call.used)' = vin
    BY <1>4, <1>7, <1>13, InsSame
  <2>3. Payout' = amount - FeeRet
    BY <1>7 DEF Payout
  <2>4. tx'.vout = vout
    BY <2>1
  <2>5. tx'.vout = OutsTo(call'.at, Payout', call'.plan.change)
    BY <1>7, <1>13, <2>3, <2>4
  <2> QED BY <1>4, <2>1, <2>2, <2>4, <2>5 DEF TxOfCall
<1> QED BY <1>4, <1>8, <1>11, <1>12, <1>17, <1>18 DEF Calling

\* The fee is made of fractions.
LEMMA FeeType ==
  ASSUME PoolInv
  PROVE  /\ txFeeFractions \in Fractions
         /\ \A k \in Indexes : txFeeFractions[k] = frCommonLiquidity[k] + frColdFees[k] + SumAll(poolReserves)[k]
<1>1. SumAll(poolReserves) \in Fractions
  BY PoolSum DEF PoolInv
<1>2. Plus(frCommonLiquidity, frColdFees) \in Fractions /\ \A k \in Indexes : Plus(frCommonLiquidity, frColdFees)[k] = frCommonLiquidity[k] + frColdFees[k]
  BY PlusLemma DEF PoolInv
<1> QED BY <1>1, <1>2, PlusLemma DEF txFeeFractions

\* The second calculation starts.
LEMMA MaintenanceCall ==
  ASSUME Calling, AddMaintenance
  PROVE  Calling'
<1>1. SessionInv /\ CallInv /\ AskInv /\ TxOfCall /\ IInv
  BY DEF Calling
<1>2. step = "common" /\ phase = "done" /\ step' = "net" /\ UNCHANGED books /\ Calculate(WithMaintenance(tx))
  BY DEF AddMaintenance
<1>3. coins' = coins /\ peglevel' = peglevel /\ known' = known
  BY <1>2 DEF books
<1>4. txFeeFractions \in Fractions
  BY <1>1, <1>2, FeeType DEF IInv, TxOfCall
<1>5. PICK fee : fee = txFeeFractions
  OBVIOUS
<1>6. call' = [call EXCEPT !.fees = fee]
  BY <1>5 DEF AddMaintenance
<1>7. PICK k, u, a, at, ask, plan, old :
        call = [kind |-> k, used |-> u, amount |-> a, at |-> at, requested |-> ask, plan |-> plan, fees |-> old]
  BY <1>1 DEF CallInv
<1>8. call' = [kind |-> k, used |-> u, amount |-> a, at |-> at, requested |-> ask, plan |-> plan, fees |-> fee]
  BY <1>6, <1>7
<1>9. /\ call'.kind = call.kind /\ call'.used = call.used /\ call'.amount = call.amount /\ call'.at = call.at
      /\ call'.requested = call.requested /\ call'.plan = call.plan /\ call'.fees = fee
      /\ call' = [kind |-> call'.kind, used |-> call'.used, amount |-> call'.amount, at |-> call'.at,
                  requested |-> call'.requested, plan |-> call'.plan, fees |-> call'.fees]
  BY <1>7, <1>8
<1>10. SessionInv' /\ AskInv'
  BY <1>1, <1>2, <1>9, SessionSame, AskSame
<1>11. CallInv'
  <2>1. CanUse(call.kind, call.used)' = CanUse(call.kind, call.used)
        /\ InputsAmount(call.kind, call.used)' = InputsAmount(call.kind, call.used)
    BY <1>3, <1>9, UseSame
  <2>2. PlannedChange(call.kind, call.used, call.amount - FeeRet)' = PlannedChange(call.kind, call.used, call.amount - FeeRet)
    BY <1>3, <1>9, PlanSame
  <2>3. PayoutAt(call.kind, call.used)' = PayoutAt(call.kind, call.used)
    BY <1>9 DEF PayoutAt
  <2> QED BY <1>1, <1>3, <1>4, <1>5, <1>9, <2>1, <2>2, <2>3 DEF CallInv
<1>12. /\ tx = [vin |-> InsOf(call.used), vout |-> tx.vout, reward |-> Null]
       /\ tx.vout = OutsTo(call.at, Payout, call.plan.change)
  BY <1>1, <1>2 DEF TxOfCall
<1>13. InsOf(call.used) \in Seq(TxIns) /\ Len(InsOf(call.used)) = Cardinality(call.used)
  BY <1>1, InsLemma DEF CallInv, CanUse
<1>14. PICK vin : vin = InsOf(call.used)
  OBVIOUS
<1>15. tx.vin = vin /\ tx = [vin |-> vin, vout |-> tx.vout, reward |-> Null]
  BY <1>12, <1>14
<1>16. PICK c, own : /\ BackTo(c, own)
                     /\ WithMaintenance(tx) = [tx EXCEPT !.vout = OutsTo(call.at, Payout, c) \o PayEach(own)]
  BY <1>1, <1>12, <1>13, <1>14, <1>15, MaintenanceLemma
<1>17. PICK vout : vout = OutsTo(call.at, Payout, c) \o PayEach(own)
  OBVIOUS
<1>18. WithMaintenance(tx) = [vin |-> vin, vout |-> vout, reward |-> Null]
  <2>1. WithMaintenance(tx) = [tx EXCEPT !.vout = vout]
    BY <1>16, <1>17
  <2>2. PICK w : w = tx.vout
    OBVIOUS
  <2>3. tx = [vin |-> vin, vout |-> w, reward |-> Null]
    BY <1>15, <2>2
  <2>4. [tx EXCEPT !.vout = vout] = [vin |-> vin, vout |-> vout, reward |-> Null]
    BY ONLY <2>3
  <2> QED BY <2>1, <2>4
<1>19. vout \in Seq(TxOuts)
  <2>1. PICK A, p, x : A = CallAddresses /\ p = Payout /\ x = call.at
    OBVIOUS
  <2>2. x \in Nat \ {0} /\ p \in Nat /\ A \in SUBSET Nat /\ IsFiniteSet(A) /\ c \in [A -> Nat] /\ own \in [A -> Nat]
    BY <1>1, <1>16, <2>1, CallPlan DEF BackTo
  <2>3. vout = OutsTo(x, p, c) \o PayEach(own)
    BY <1>17, <2>1
  <2>4. PaysOut(vout, x, p, A, c, own, x + Cardinality({a_1 \in A : c[a_1] > 0}) + 1)
    BY ONLY <2>2, <2>3, PaysOutLemma
  <2> QED BY <2>4 DEF PaysOut
<1>20. Calculate([vin |-> vin, vout |-> vout, reward |-> Null])
  BY <1>2, <1>18
<1>21. IInv'
  BY <1>1, <1>13, <1>14, <1>19, <1>20, CalculateStarts DEF SessionInv
<1>22. TxOfCall'
  <2>1. tx' = [vin |-> vin, vout |-> vout, reward |-> Null] /\ supply' = peglevel.nSupplyNext - peglevel.nBuffer
        /\ phase' = "inputs"
    BY <1>20 DEF Calculate
  <2>2. BackTo(c, own)' /\ InsOf(call.used)' = vin /\ Payout' = Payout
    BY <1>1, <1>3, <1>9, <1>14, <1>16, BackSame
  <2>3. tx'.vout = vout
    BY <2>1
  <2>4. tx'.vout = OutsTo(call'.at, Payout', c) \o PayEach(own)
    BY <1>9, <1>17, <2>2, <2>3
  <2> QED BY <1>2, <1>3, <2>1, <2>2, <2>3, <2>4 DEF TxOfCall
<1> QED BY <1>2, <1>10, <1>11, <1>21, <1>22 DEF Calling

\* An error changes nothing.
LEMMA FailCall ==
  ASSUME Calling, Fail
  PROVE  Idle'
  BY SessionSame DEF Calling, Fail, Return, Idle

-----------------------------------------------------------------------------
(* The books after a withdrawal                                            *)

\* Fractions of two sets that share nothing.
LEMMA SumOverUnion ==
  ASSUME NEW S, IsFiniteSet(S), NEW T, IsFiniteSet(T), S \intersect T = {}, NEW U, U = S \union T, NEW g,
         \A x \in U : g[x] \in Fractions
  PROVE  /\ SumOver(g, U) \in Fractions /\ SumOver(g, S) \in Fractions /\ SumOver(g, T) \in Fractions
         /\ \A k \in Indexes : SumOver(g, U)[k] = SumOver(g, S)[k] + SumOver(g, T)[k]
<1>1. IsFiniteSet(S \union T)
  BY FS_Union
<1>2. SumOver(g, S \union T) \in Fractions /\ SumOver(g, S) \in Fractions /\ SumOver(g, T) \in Fractions
  BY <1>1, SumOverAt
<1>3. ASSUME NEW k \in Indexes
      PROVE  SumOver(g, S \union T)[k] = SumOver(g, S)[k] + SumOver(g, T)[k]
  <2>1. PICK h : h = [x \in S \union T |-> g[x][k]]
    OBVIOUS
  <2>2. \A x \in S \union T : h[x] = g[x][k] /\ h[x] \in Int
    BY <2>1 DEF Fractions
  <2>3. SumOf(h, S \union T) = SumOf(h, S) + SumOf(h, T)
    BY ONLY <2>2, SumUnion, IsFiniteSet(S), IsFiniteSet(T), S \intersect T = {}
  <2>4. SumOf([x \in S |-> g[x][k]], S) = SumOf(h, S)
    <3>1. PICK u : u = [x \in S |-> g[x][k]]
      OBVIOUS
    <3>2. \A x \in S : h[x] \in Int /\ u[x] = h[x]
      BY <2>2, <3>1
    <3> QED BY <3>1, <3>2, SumEqual
  <2>5. SumOf([x \in T |-> g[x][k]], T) = SumOf(h, T)
    <3>1. PICK u : u = [x \in T |-> g[x][k]]
      OBVIOUS
    <3>2. \A x \in T : h[x] \in Int /\ u[x] = h[x]
      BY <2>2, <3>1
    <3> QED BY <3>1, <3>2, SumEqual
  <2> QED BY <2>1, <2>3, <2>4, <2>5 DEF SumOver
<1> QED BY <1>2, <1>3

\* J are the names s of I, different ones, and g has under them what h has.
AreNames(s, I, J, g, h) ==
  /\ IsFiniteSet(I) /\ (\A i, j \in I : s[i] = s[j] => i = j) /\ J = {s[i] : i \in I}
  /\ \A i \in I : g[s[i]] \in Fractions /\ h[i] = g[s[i]]

\* Fractions along different names.
LEMMA SumOverImage ==
  ASSUME NEW I, NEW J, NEW s, NEW g, NEW h, AreNames(s, I, J, g, h)
  PROVE  SumOver(g, J) = SumOver(h, I)
<1> USE DEF AreNames
<1>1. ASSUME NEW k \in Indexes
      PROVE  SumOf([x \in {s[i] : i \in I} |-> g[x][k]], {s[i] : i \in I}) = SumOf([x \in I |-> h[x][k]], I)
  <2>2. PICK u, v : u = [x \in J |-> g[x][k]] /\ v = [x \in I |-> h[x][k]]
    OBVIOUS
  <2>3. \A i \in I : u[s[i]] \in Int /\ v[i] = u[s[i]]
    BY <2>2 DEF Fractions
  <2>4. SumOf(v, I) = SumOf(u, {s[i] : i \in I})
    BY <2>3, SumImage
  <2> QED BY <2>2, <2>4
<1> QED BY <1>1 DEF SumOver

\* Coins D without those of U, and those of C numbered behind them.
Renumbers(D, U, C, M, f, g, h) ==
  /\ D \in SUBSET Nat /\ IsFiniteSet(D) /\ U \in SUBSET D /\ C \in SUBSET (Nat \ {0}) /\ IsFiniteSet(C)
  /\ M \in Nat /\ \A d \in D : d <= M /\ f[d] \in Fractions
  /\ \A o \in C : g[o] \in Fractions /\ h[M + o] = g[o]
  /\ \A d \in D \ U : h[d] = f[d]
Renumbering(D, U, C, M, f, g, h) ==
  /\ IsFiniteSet((D \ U) \union {M + o : o \in C}) /\ (D \ U) \union {M + o : o \in C} \subseteq Nat
  /\ SumOver(h, (D \ U) \union {M + o : o \in C}) \in Fractions
  /\ SumOver(f, D) \in Fractions /\ SumOver(f, U) \in Fractions /\ SumOver(g, C) \in Fractions
  /\ \A k \in Indexes : SumOver(h, (D \ U) \union {M + o : o \in C})[k]
                          = SumOver(f, D)[k] - SumOver(f, U)[k] + SumOver(g, C)[k]
LEMMA Renumbered ==
  ASSUME NEW D, NEW U, NEW C, NEW M, NEW f, NEW g, NEW h, Renumbers(D, U, C, M, f, g, h)
  PROVE  Renumbering(D, U, C, M, f, g, h)
<1> USE DEF Renumbers
<1>1. PICK s : s = [o \in C |-> M + o]
  OBVIOUS
<1>2. PICK N : N = {s[o] : o \in C}
  OBVIOUS
<1>3. N = {M + o : o \in C}
  BY <1>1, <1>2
<1>4. IsFiniteSet(N) /\ IsFiniteSet(D \ U) /\ IsFiniteSet(U)
  <2>1. IsFiniteSet(N)
    BY ONLY IsFiniteSet(C), <1>2, ImageFinite
  <2>2. IsFiniteSet(D \ U) /\ IsFiniteSet(U)
    BY ONLY IsFiniteSet(D), U \in SUBSET D, FS_Subset
  <2> QED BY <2>1, <2>2
<1>5. N \subseteq Nat /\ N \intersect (D \ U) = {}
  <2>1. \A o \in C : s[o] \in Nat /\ s[o] > M
    BY <1>1
  <2> QED BY <1>2, <2>1
<1>6. \A o, p \in C : s[o] = s[p] => o = p
  BY <1>1
<1>7. \A o \in C : h[s[o]] \in Fractions /\ g[o] = h[s[o]]
  BY <1>1
<1>8. SumOver(h, N) = SumOver(g, C)
  <2>1. AreNames(s, C, N, h, g)
    BY <1>2, <1>6, <1>7 DEF AreNames
  <2> QED BY ONLY <2>1, SumOverImage
<1>9. SumOver(h, D \ U) = SumOver(f, D \ U)
  BY SumOverSame
<1>10. PICK R : R = D \ U
  OBVIOUS
<1>11. \A x \in R \union N : h[x] \in Fractions
  BY <1>2, <1>7, <1>10
<1>12. /\ SumOver(h, R \union N) \in Fractions /\ SumOver(h, R) \in Fractions /\ SumOver(h, N) \in Fractions
       /\ \A k \in Indexes : SumOver(h, R \union N)[k] = SumOver(h, R)[k] + SumOver(h, N)[k]
  <2>1. IsFiniteSet(R) /\ IsFiniteSet(N) /\ R \intersect N = {}
    BY <1>4, <1>5, <1>10
  <2> QED BY ONLY <1>11, <2>1, SumOverUnion
<1>13. R \union U = D /\ R \intersect U = {}
  BY <1>10
<1>14. /\ SumOver(f, R \union U) \in Fractions /\ SumOver(f, U) \in Fractions
       /\ \A k \in Indexes : SumOver(f, R \union U)[k] = SumOver(f, R)[k] + SumOver(f, U)[k]
  <2>1. IsFiniteSet(R) /\ IsFiniteSet(U) /\ \A x \in R \union U : f[x] \in Fractions
    BY <1>4, <1>10, <1>13
  <2> QED BY ONLY <1>13, <2>1, SumOverUnion
<1>15. IsFiniteSet(R \union N) /\ R \union N \subseteq Nat
  BY <1>4, <1>5, <1>10, FS_Union
<1>16. SumOver(h, R) = SumOver(f, R) /\ SumOver(f, R) \in Fractions /\ SumOver(g, C) \in Fractions
       /\ SumOver(f, D) = SumOver(f, R \union U)
  BY <1>8, <1>9, <1>10, <1>12, <1>13
<1>17. \A k \in Indexes : SumOver(h, R \union N)[k] = SumOver(f, D)[k] - SumOver(f, U)[k] + SumOver(g, C)[k]
  <2> TAKE k \in Indexes
  <2>1. PICK a, b, c, d, e : a = SumOver(h, R \union N)[k] /\ b = SumOver(f, R)[k] /\ c = SumOver(g, C)[k]
                             /\ d = SumOver(f, D)[k] /\ e = SumOver(f, U)[k]
    OBVIOUS
  <2>2. a \in Nat /\ b \in Nat /\ c \in Nat /\ d \in Nat /\ e \in Nat
    BY <1>12, <1>14, <1>16, <2>1 DEF Fractions
  <2>3. a = b + c /\ d = b + e
    BY <1>8, <1>12, <1>14, <1>16, <2>1
  <2>4. a = d - e + c
    BY ONLY <2>2, <2>3
  <2> QED BY <2>1, <2>4
<1> QED BY <1>3, <1>10, <1>12, <1>14, <1>15, <1>16, <1>17 DEF Renumbering

\* The outputs of a call: x is the place of the exchange's notary.
LEMMA OutsOfCall ==
  ASSUME Calling
  PROVE  \E c, own, x : /\ BackTo(c, own) /\ PaysOut(tx.vout, call.at, Payout, CallAddresses, c, own, x)
                        /\ step = "common" => x = Len(tx.vout)
<1>1. CallInv /\ TxOfCall /\ step \in {"common", "net"}
  BY DEF Calling
<1>2. PICK A, p, at, v : A = CallAddresses /\ p = Payout /\ at = call.at /\ v = tx.vout
  OBVIOUS
<1>3. A \in SUBSET Nat /\ IsFiniteSet(A) /\ p \in Nat /\ at \in Nat \ {0}
  BY <1>1, <1>2, CallPlan
<1>4. CASE step = "net"
  <2>1. PICK c, own : BackTo(c, own) /\ v = OutsTo(at, p, c) \o PayEach(own)
    BY <1>1, <1>2, <1>4 DEF TxOfCall
  <2>2. c \in [A -> Nat] /\ own \in [A -> Nat]
    BY <1>2, <2>1 DEF BackTo
  <2>3. PaysOut(v, at, p, A, c, own, at + Cardinality({a \in A : c[a] > 0}) + 1)
    BY ONLY <1>3, <2>1, <2>2, PaysOutLemma
  <2> QED BY <1>2, <1>4, <2>1, <2>3
<1>5. CASE step = "common"
  <2>1. PICK c, own : c = call.plan.change /\ own = [a \in A |-> 0]
    OBVIOUS
  <2>2. c \in [A -> Nat] /\ own \in [A -> Nat] /\ \A a \in A : own[a] = 0
    BY <1>1, <1>2, <2>1, CallPlan
  <2>3. SumOf(own, A) = 0
    BY ONLY <1>3, <2>2, SumZero
  <2>4. BackTo(c, own)
    <3>1. \A a \in A : c[a] + own[a] <= Untaken(call.kind, call.used, Payout)[a]
      <4> TAKE a \in A
      <4>1. call.plan.change[a] + call.plan.reduced[a] = Untaken(call.kind, call.used, Payout)[a]
            /\ call.plan.change[a] \in Nat /\ call.plan.reduced[a] \in Nat
        BY <1>1, <1>2, CallPlan
      <4>2. PICK q, r, u : q = call.plan.change[a] /\ r = call.plan.reduced[a] /\ u = Untaken(call.kind, call.used, Payout)[a]
        OBVIOUS
      <4>3. q + 0 <= u
        BY <4>1, <4>2
      <4> QED BY <2>1, <2>2, <4>2, <4>3
    <3>2. SumOf(c, A) \in Nat
      BY ONLY <1>3, <2>2, SumNat
    <3>3. SumOf(c, A) + SumOf(own, A) <= SumOf(c, A) + FeeRet
      BY <2>3, <3>2, FeeAssumption
    <3> QED BY <1>2, <2>1, <2>2, <3>1, <3>3 DEF BackTo
  <2>5. PayEach(own) = <<>>
    <3>1. {a \in A : own[a] > 0} = {}
      BY <2>2
    <3>2. ToEach(PayEach(own), A, own, Cardinality({a \in A : own[a] > 0}))
      BY ONLY <1>3, <2>2, PayEachLemma
    <3>3. Cardinality({a \in A : own[a] > 0}) = 0
      BY <3>1, FS_EmptySet
    <3>4. PayEach(own) \in Seq(TxOuts) /\ Len(PayEach(own)) = 0
      BY <3>2, <3>3 DEF ToEach
    <3> QED BY <3>4, EmptySeq
  <2>6. v = OutsTo(at, p, c)
    BY <1>1, <1>2, <1>5, <2>1 DEF TxOfCall
  <2>7. PICK K : K = Cardinality({a \in A : c[a] > 0})
    OBVIOUS
  <2>8. RawOuts(v, at, p, A, c, K)
    BY ONLY <1>3, <2>2, <2>6, <2>7, OutsToLemma
  <2>9. v \in Seq(TxOuts) /\ Len(v) = at + K + 1
    BY <2>8 DEF RawOuts
  <2>10. v = OutsTo(at, p, c) \o PayEach(own)
    BY <2>5, <2>6, <2>9, ConcatEmptySeq
  <2>11. PaysOut(v, at, p, A, c, own, at + K + 1)
    BY ONLY <1>3, <2>2, <2>7, <2>10, PaysOutLemma
  <2> QED BY <1>2, <2>4, <2>9, <2>11
<1> QED BY <1>1, <1>4, <1>5

\* At the end outputs and fee are the coins used.
LEMMA DoneBooks ==
  ASSUME Calling, phase = "done"
  PROVE  /\ outs \in Seq(MadeOuts) /\ Len(outs) = Len(tx.vout) /\ Len(tx.vout) \in Nat
         /\ DOMAIN outs = 1..Len(tx.vout) /\ DOMAIN tx.vout = 1..Len(tx.vout)
         /\ txFeeFractions \in Fractions
         /\ \A o \in 1..Len(tx.vout) : FractionsOf(outs)[o] = outs[o].fractions /\ outs[o].fractions \in Fractions
         /\ \A k \in Indexes : SumOver(FractionsOf(outs), DOMAIN tx.vout)[k] + txFeeFractions[k]
                                 = SumOver(FractionsOf(coins), call.used)[k]
<1>1. CallInv /\ TxOfCall /\ IInv
  BY DEF Calling
<1>2. TxInv /\ PoolInv /\ FrozenInv /\ PhaseInv /\ BooksInv /\ n > Len(tx.vout)
  BY <1>1 DEF IInv, TxOfCall
<1>3. Len(tx.vout) \in Nat /\ DOMAIN tx.vout = 1..Len(tx.vout)
  BY <1>2, OutsLemma
<1>4. outs \in Seq(MadeOuts) /\ Len(outs) = Len(tx.vout)
  BY <1>2, <1>3 DEF PhaseInv
<1>5. /\ DOMAIN outs = 1..Len(tx.vout)
      /\ \A o \in 1..Len(tx.vout) : FractionsOf(outs)[o] = outs[o].fractions /\ outs[o].fractions \in Fractions
  BY <1>4, MadeLemma
<1>6. Aside = Zero
  <2>1. DOMAIN poolFrozen \ DOMAIN outs = {}
    BY <1>2, <1>3, <1>5 DEF FrozenInv, GoodFrozen
  <2> QED BY <2>1, SumOverEmpty DEF Aside
<1>7. Made = SumOver(FractionsOf(outs), DOMAIN tx.vout)
  BY <1>3, <1>5 DEF Made, SumAll, FractionsOf
<1>8. TakenSum = SumOver(FractionsOf(coins), call.used)
  <2>1. tx.vin = InsOf(call.used)
    BY <1>1 DEF TxOfCall
  <2>2. SumOver(FractionsOf(InsOf(call.used)), DOMAIN InsOf(call.used)) = SumOver(FractionsOf(coins), call.used)
    BY <1>1, InsLemma DEF CallInv, CanUse
  <2> QED BY <2>1, <2>2 DEF TakenSum, TakenIns
<1>9. /\ txFeeFractions \in Fractions
      /\ \A k \in Indexes : txFeeFractions[k] = frCommonLiquidity[k] + frColdFees[k] + Reserve[k]
  BY <1>2, FeeType DEF Reserve
<1>10. Liquid = frCommonLiquidity
  BY DEF Liquid
<1>11. Liquid \in Fractions /\ Reserve \in Fractions /\ Made \in Fractions /\ frColdFees \in Fractions
  BY <1>2, PlacesLemma
<1>12. \A k \in Indexes : Made[k] + txFeeFractions[k] = TakenSum[k]
  <2> TAKE k \in Indexes
  <2>1. Liquid[k] + Reserve[k] + Aside[k] + Made[k] + frColdFees[k] = TakenSum[k]
    BY <1>2 DEF BooksInv
  <2>2. Aside[k] = 0
    BY <1>6, ZeroLemma
  <2>3. Liquid[k] \in Nat /\ Reserve[k] \in Nat /\ Made[k] \in Nat /\ frColdFees[k] \in Nat
    BY <1>11 DEF Fractions
  <2>4. txFeeFractions[k] = Liquid[k] + frColdFees[k] + Reserve[k]
    BY <1>9, <1>10
  <2> QED BY <2>1, <2>2, <2>3, <2>4
<1> QED BY <1>3, <1>4, <1>5, <1>7, <1>8, <1>9, <1>12

\* The outputs that are notaries.
NotariesAt(v, at, A, x) ==
  /\ at \in 1..Len(v) /\ x \in 1..Len(v) /\ Len(v) \in Nat /\ at < x
  /\ \A o \in 1..Len(v) : v[o].notary # "" <=> o < at \/ o = x
  /\ \A o \in 1..Len(v) : o > at /\ o # x => v[o].address \in A
LEMMA NotaryKinds ==
  ASSUME NEW v, NEW at, NEW amount, NEW A, NEW c, NEW own, NEW x, PaysOut(v, at, amount, A, c, own, x), at \in Nat \ {0}
  PROVE  NotariesAt(v, at, A, x)
<1>1. v \in Seq(TxOuts) /\ x \in Nat /\ at < x /\ x <= Len(v)
  BY DEF PaysOut
<1>2. Len(v) \in Nat /\ at \in 1..Len(v) /\ x \in 1..Len(v)
  BY <1>1
<1>3. PICK none : none = ""
  BY Zenon
<1>4. \A a, w : Pay(a, w).notary = none
  BY <1>3, PayFields, Zenon
<1>5. \A o \in 1..Len(v) : o = at => v[o].notary = none
  BY <1>4 DEF PaysOut
<1>6. \A o \in 1..Len(v) : o > at /\ o # x => v[o].address \in A /\ v[o].notary = none
  <2> SUFFICES ASSUME NEW o \in 1..Len(v), o > at, o # x PROVE v[o].address \in A /\ v[o].notary = none
    OBVIOUS
  <2>1. o \in (at + 1)..(x - 1) \/ o \in (x + 1)..Len(v)
    BY <1>1, <1>2
  <2> QED BY <1>4, <2>1 DEF PaysOut
<1>7. \A k, w, r : Notary(k, w, r).notary = k
  BY DEF Notary
<1>8. PICK q : q = <<>>
  OBVIOUS
<1>9. v[x] = Notary("XCH", 1, q)
  BY <1>8 DEF PaysOut
<1>10. v[x].notary = "XCH"
  BY <1>7, <1>9
<1>11. \A o \in 1..Len(v) : o < at => v[o].notary = "F"
  <2> SUFFICES ASSUME NEW o \in 1..Len(v), o < at PROVE v[o].notary = "F"
    OBVIOUS
  <2>1. o \in 1..(at - 1)
    BY <1>2
  <2>2. v[o] = Notary("F", FreezeValue, <<at, at, at>>)
    BY <2>1 DEF PaysOut
  <2> QED BY <1>7, <2>2
<1>12. "XCH" # none /\ "F" # none
  BY ONLY <1>3, Zenon
<1>13. \A o \in 1..Len(v) : v[o].notary # none <=> o < at \/ o = x
  <2> TAKE o \in 1..Len(v)
  <2>1. o < at \/ o = at \/ o = x \/ (o > at /\ o # x)
    BY <1>2
  <2>2. at < x /\ o \in Nat /\ at \in Nat /\ x \in Nat
    BY <1>1, <1>2
  <2> QED BY <1>5, <1>6, <1>10, <1>11, <1>12, <2>1, <2>2
<1>14. \A o \in 1..Len(v) : v[o].notary # "" <=> o < at \/ o = x
  BY <1>3, <1>13, Zenon
<1> QED BY <1>1, <1>2, <1>6, <1>14, Zenon DEF NotariesAt

\* What a finished call leaves: the outputs behind the user's that are no
\* notaries are coins of the exchange.
Change == {o \in DOMAIN tx.vout : o # call.at /\ ~ IsNotary(o)}
Notaries == {o \in DOMAIN tx.vout : IsNotary(o)}

\* The user's output, the change and the notaries are the outputs.
LEMMA DoneOuts ==
  ASSUME Calling, phase = "done"
  PROVE  /\ call.at \in DOMAIN tx.vout /\ call.at \in Nat \ {0} /\ outs[call.at].fractions \in Fractions
         /\ IsFiniteSet(Change) /\ Change \subseteq Nat \ {0} /\ Change \subseteq DOMAIN tx.vout
         /\ \A o \in Change : /\ tx.vout[o].address \in CallAddresses
                              /\ FractionsOf(outs)[o] = outs[o].fractions /\ outs[o].fractions \in Fractions
         /\ HandedBack \subseteq Change
         /\ SumOver(FractionsOf(outs), Change) \in Fractions /\ SumOver(FractionsOf(outs), Notaries) \in Fractions
         /\ \A k \in Indexes :
              SumOver(FractionsOf(outs), Change)[k] + SumOver(FractionsOf(outs), Notaries)[k] + outs[call.at].fractions[k]
                + txFeeFractions[k] = SumOver(FractionsOf(coins), call.used)[k]
<1>1. PICK v, at, g, L, C, N : /\ v = tx.vout /\ at = call.at /\ g = FractionsOf(outs) /\ L = Len(v)
                               /\ C = Change /\ N = Notaries
  OBVIOUS
<1>2. PICK c, own, x : PaysOut(v, at, Payout, CallAddresses, c, own, x)
  BY <1>1, OutsOfCall
<1>3. at \in Nat \ {0}
  BY <1>1, CallPlan DEF Calling
<1>99. NotariesAt(v, at, CallAddresses, x)
  BY ONLY <1>2, <1>3, NotaryKinds
<1>4. /\ at \in 1..L /\ x \in 1..L /\ L \in Nat
      /\ \A o \in 1..L : o > at /\ o # x => v[o].address \in CallAddresses
  BY <1>1, <1>99, Zenon DEF NotariesAt
<1>0. \A o \in 1..L : v[o].notary # "" <=> o < at \/ o = x
  BY <1>1, <1>99, Zenon DEF NotariesAt
<1>5. /\ DOMAIN v = 1..L /\ \A o \in 1..L : g[o] = outs[o].fractions /\ outs[o].fractions \in Fractions
      /\ \A k \in Indexes : SumOver(g, 1..L)[k] + txFeeFractions[k] = SumOver(FractionsOf(coins), call.used)[k]
      /\ txFeeFractions \in Fractions
  BY <1>1, DoneBooks
<1>6. N = {o \in 1..L : o < at \/ o = x}
  <2>1. N = {o \in 1..L : v[o].notary # ""}
    BY <1>1, <1>5, Zenon DEF Notaries, IsNotary
  <2>2. PICK P : P = {o \in 1..L : v[o].notary # ""}
    BY Zenon
  <2>3. \A o \in 1..L : o \in P <=> o < at \/ o = x
    BY <1>0, <2>2, Zenon
  <2>4. P \subseteq 1..L /\ N = P
    BY <2>1, <2>2, Zenon
  <2> QED BY <2>3, <2>4
<1>7. C = {o \in 1..L : o # at /\ o \notin N}
  <2>1. \A o \in 1..L : o \in N <=> IsNotary(o)
    BY <1>1, <1>5, Zenon DEF Notaries
  <2> QED BY <1>1, <1>5, <2>1 DEF Change
<1>8. C \subseteq 1..L /\ N \subseteq 1..L /\ C \intersect N = {} /\ at \notin C /\ at \notin N /\ C \union N = (1..L) \ {at}
  BY <1>2, <1>3, <1>4, <1>6, <1>7 DEF PaysOut
<1>9. IsFiniteSet(1..L) /\ IsFiniteSet(C) /\ IsFiniteSet(N) /\ IsFiniteSet((1..L) \ {at})
  <2>1. PICK I, J : I = 1..L /\ J = (1..L) \ {at}
    OBVIOUS
  <2>2. IsFiniteSet(I)
    BY <1>4, <2>1, FS_Interval
  <2>3. C \subseteq I /\ N \subseteq I /\ J \subseteq I
    BY <1>8, <2>1
  <2>4. IsFiniteSet(C) /\ IsFiniteSet(N) /\ IsFiniteSet(J)
    BY ONLY <2>2, <2>3, FS_Subset
  <2> QED BY <2>1, <2>2, <2>4
<1>10. \A o \in C : v[o].address \in CallAddresses
  BY <1>3, <1>4, <1>6, <1>7
<1>11. HandedBack \subseteq C
  <2>1. \A o \in HandedBack : o \in 1..L /\ o > at /\ ~ IsNotary(o)
    BY <1>1, <1>3, <1>4 DEF HandedBack
  <2>2. \A o \in 1..L : o \in N <=> IsNotary(o)
    BY <1>1, <1>5, Zenon DEF Notaries
  <2> QED BY <1>3, <1>7, <2>1, <2>2
<1>12. \A o \in 1..L : g[o] \in Fractions
  BY <1>5
<1>13. /\ SumOver(g, (1..L) \ {at}) \in Fractions /\ SumOver(g, C) \in Fractions /\ SumOver(g, N) \in Fractions
       /\ \A k \in Indexes : SumOver(g, (1..L) \ {at})[k] = SumOver(g, C)[k] + SumOver(g, N)[k]
  <2>1. PICK R : R = (1..L) \ {at}
    OBVIOUS
  <2>2. R = C \union N /\ C \intersect N = {} /\ \A o \in R : g[o] \in Fractions
    BY <1>8, <1>12, <2>1
  <2>3. /\ SumOver(g, R) \in Fractions /\ SumOver(g, C) \in Fractions /\ SumOver(g, N) \in Fractions
        /\ \A k \in Indexes : SumOver(g, R)[k] = SumOver(g, C)[k] + SumOver(g, N)[k]
    <3>1. IsFiniteSet(C) /\ IsFiniteSet(N)
      BY <1>9
    <3>2. C \intersect N = {} /\ \A o \in C \union N : g[o] \in Fractions
      BY <2>2
    <3>3. /\ SumOver(g, C \union N) \in Fractions /\ SumOver(g, C) \in Fractions /\ SumOver(g, N) \in Fractions
          /\ \A k \in Indexes : SumOver(g, C \union N)[k] = SumOver(g, C)[k] + SumOver(g, N)[k]
      BY ONLY <3>1, <3>2, SumOverUnion
    <3>4. R = C \union N
      BY <2>2
    <3> QED BY ONLY <3>3, <3>4, Zenon
  <2> QED BY <2>1, <2>3
<1>14. SumOver(g, 1..L) = Plus(SumOver(g, (1..L) \ {at}), g[at])
  <2>1. PICK I : I = 1..L
    OBVIOUS
  <2>2. IsFiniteSet(I) /\ (\A o \in I : g[o] \in Fractions) /\ at \in I
    BY <1>4, <1>9, <1>12, <2>1
  <2>3. SumOver(g, I) = Plus(SumOver(g, I \ {at}), g[at])
    BY ONLY <2>2, SumOverRemove
  <2> QED BY <2>1, <2>3
<1>15. \A k \in Indexes : SumOver(g, C)[k] + SumOver(g, N)[k] + outs[at].fractions[k] + txFeeFractions[k]
                            = SumOver(FractionsOf(coins), call.used)[k]
  <2> TAKE k \in Indexes
  <2>1. PICK cc, nn, aa, ff, ss : /\ cc = SumOver(g, C)[k] /\ nn = SumOver(g, N)[k] /\ aa = g[at][k]
                                  /\ ff = txFeeFractions[k] /\ ss = SumOver(FractionsOf(coins), call.used)[k]
    OBVIOUS
  <2>2. cc \in Nat /\ nn \in Nat /\ aa \in Nat /\ ff \in Nat
    BY <1>4, <1>5, <1>12, <1>13, <2>1 DEF Fractions
  <2>3. SumOver(g, 1..L)[k] = (cc + nn) + aa
    <3>1. PICK r, y : r = SumOver(g, (1..L) \ {at}) /\ y = g[at]
      OBVIOUS
    <3>2. r \in Fractions /\ y \in Fractions /\ r[k] = cc + nn /\ y[k] = aa
      BY <1>4, <1>12, <1>13, <2>1, <3>1
    <3>3. Plus(r, y)[k] = r[k] + y[k]
      BY ONLY <3>2, PlusLemma, k \in Indexes
    <3> QED BY <1>14, <3>1, <3>2, <3>3
  <2>4. SumOver(g, 1..L)[k] + ff = ss
    BY <1>5, <2>1
  <2>5. cc + nn + aa + ff = ss
    BY ONLY <2>2, <2>3, <2>4
  <2> QED BY <1>4, <1>5, <2>1, <2>5
<1>16. C \subseteq Nat \ {0}
  BY <1>8
<1> QED BY <1>1, <1>3, <1>4, <1>5, <1>8, <1>9, <1>10, <1>11, <1>13, <1>15, <1>16

\* The number of the last coin.
LEMMA MaxLemma ==
  ASSUME NEW S \in SUBSET Nat, IsFiniteSet(S), S # {}
  PROVE  Max(S) \in Nat /\ \A y \in S : y <= Max(S)
<1>1. \E x \in S : \A y \in S : x >= y
  BY GreatestNumber
<1>2. Max(S) \in S /\ \A y \in S : Max(S) >= y
  BY <1>1 DEF Max
<1> QED BY <1>2

\* A function as it is made, at each place.
LEMMA NewCoins ==
  ASSUME Calling, Account
  PROVE  \E M : /\ M \in Nat /\ \A d \in DOMAIN coins : d <= M
                /\ DOMAIN coins' = (DOMAIN coins \ call.used) \union {M + o : o \in Change}
                /\ \A d \in DOMAIN coins \ call.used : coins'[d] = coins[d]
                /\ \A o \in Change : coins'[M + o].address = tx.vout[o].address /\ coins'[M + o].fractions = outs[o].fractions
                /\ known' = (known \ call.used) \union {M + o : o \in HandedBack}
<1>1. GoodCoins /\ call.used \in SUBSET DOMAIN coins /\ call.used # {}
  BY DEF Calling, CallInv, CanUse
<1>2. PICK M : M = Max(DOMAIN coins)
  OBVIOUS
<1>3. M \in Nat /\ \A d \in DOMAIN coins : d <= M
  <2>1. DOMAIN coins # {} /\ IsFiniteSet(DOMAIN coins) /\ DOMAIN coins \in SUBSET Nat
    BY <1>1 DEF GoodCoins
  <2> QED BY <1>2, <2>1, MaxLemma
<1>4. phase = "done"
  BY DEF Account
<1>5. Change \subseteq Nat \ {0}
  BY <1>4, DoneOuts
<1>6. /\ coins' = [c \in (DOMAIN coins \ call.used) \union {M + o : o \in Change} |->
                     IF c \in DOMAIN coins THEN coins[c]
                     ELSE [address |-> tx.vout[c - (M + 0)].address, fractions |-> outs[c - (M + 0)].fractions]]
      /\ known' = (known \ call.used) \union {M + o : o \in HandedBack}
  BY <1>2 DEF Account, Change
<1>7. \A o \in Change : M + o \notin DOMAIN coins /\ (M + o) - (M + 0) = o
  BY <1>3, <1>5
<1>8. \A d \in DOMAIN coins \ call.used : coins'[d] = coins[d]
  BY <1>6
<1>9. \A o \in Change : coins'[M + o].address = tx.vout[o].address /\ coins'[M + o].fractions = outs[o].fractions
  <2> TAKE o \in Change
  <2>1. PICK c : c = M + o
    OBVIOUS
  <2>2. c \notin DOMAIN coins /\ c - (M + 0) = o /\ c \in (DOMAIN coins \ call.used) \union {M + p : p \in Change}
    BY <1>7, <2>1
  <2>3. coins'[c] = [address |-> tx.vout[c - (M + 0)].address, fractions |-> outs[c - (M + 0)].fractions]
    BY <1>6, <2>2
  <2> QED BY <2>1, <2>2, <2>3
<1> QED BY <1>3, <1>6, <1>8, <1>9

\* The coins after a withdrawal.
LEMMA CoinsAfter ==
  ASSUME Calling, Account
  PROVE  /\ GoodCoins' /\ known' \subseteq DOMAIN coins'
         /\ \A k \in Indexes : SumAll(FractionsOf(coins'))[k]
              = SumAll(FractionsOf(coins))[k] - SumOver(FractionsOf(coins), call.used)[k] + SumOver(FractionsOf(outs), Change)[k]
<1>1. PICK M : /\ M \in Nat /\ \A d \in DOMAIN coins : d <= M
               /\ DOMAIN coins' = (DOMAIN coins \ call.used) \union {M + o : o \in Change}
               /\ \A d \in DOMAIN coins \ call.used : coins'[d] = coins[d]
               /\ \A o \in Change : coins'[M + o].address = tx.vout[o].address /\ coins'[M + o].fractions = outs[o].fractions
               /\ known' = (known \ call.used) \union {M + o : o \in HandedBack}
  BY NewCoins
<1>2. SessionInv /\ CallInv /\ GoodCoins /\ known \subseteq DOMAIN coins /\ phase = "done"
  BY DEF Calling, SessionInv, Account
<1>3. PICK D, U, C, f, g, h : /\ D = DOMAIN coins /\ U = call.used /\ C = Change
                              /\ f = FractionsOf(coins) /\ g = FractionsOf(outs) /\ h = FractionsOf(coins')
  OBVIOUS
<1>4. D \in SUBSET Nat /\ IsFiniteSet(D) /\ U \in SUBSET D /\ \A d \in D : f[d] \in Fractions /\ f[d] = coins[d].fractions
  BY <1>2, <1>3, CoinsSum DEF CallInv, CanUse, GoodCoins
<1>5. /\ C \in SUBSET (Nat \ {0}) /\ IsFiniteSet(C)
      /\ \A o \in C : g[o] \in Fractions /\ g[o] = outs[o].fractions /\ tx.vout[o].address \in CallAddresses
  BY <1>2, <1>3, DoneOuts
<1>6. PICK N, E : N = {M + o : o \in C} /\ E = DOMAIN coins'
  OBVIOUS
<1>7. E = (D \ U) \union N
  BY <1>1, <1>3, <1>6
<1>8. \A d \in E : h[d] = coins'[d].fractions
  BY <1>3, <1>6 DEF FractionsOf
<1>9. (\A d \in D \ U : h[d] = f[d]) /\ \A o \in C : h[M + o] = g[o]
  <2>1. \A d \in D \ U : h[d] = f[d]
    BY <1>1, <1>3, <1>4, <1>7, <1>8
  <2>2. ASSUME NEW o \in C PROVE h[M + o] = g[o]
    <3>1. M + o \in E
      BY <1>6, <1>7
    <3>2. coins'[M + o].fractions = outs[o].fractions
      BY <1>1, <1>3
    <3> QED BY <1>5, <1>8, <3>1, <3>2
  <2> QED BY <2>1, <2>2
<1>10. /\ IsFiniteSet(E) /\ E \subseteq Nat
       /\ \A k \in Indexes : SumOver(h, E)[k] = SumOver(f, D)[k] - SumOver(f, U)[k] + SumOver(g, C)[k]
  <2>1. (\A d \in D : f[d] \in Fractions) /\ (\A o \in C : g[o] \in Fractions) /\ M \in Nat /\ \A d \in D : d <= M
    BY <1>1, <1>3, <1>4, <1>5
  <2>2. /\ IsFiniteSet((D \ U) \union {M + o : o \in C}) /\ (D \ U) \union {M + o : o \in C} \subseteq Nat
        /\ \A k \in Indexes : SumOver(h, (D \ U) \union {M + o : o \in C})[k]
                                = SumOver(f, D)[k] - SumOver(f, U)[k] + SumOver(g, C)[k]
    <3>1. Renumbers(D, U, C, M, f, g, h)
      BY <1>4, <1>5, <1>9, <2>1 DEF Renumbers
    <3>2. Renumbering(D, U, C, M, f, g, h)
      BY ONLY <3>1, Renumbered
    <3> QED BY ONLY <3>2 DEF Renumbering
  <2> QED BY <1>6, <1>7, <2>2
<1>11. SumAll(h) = SumOver(h, E) /\ SumAll(f) = SumOver(f, D)
  BY <1>3, <1>6 DEF SumAll, FractionsOf
<1>12. \A d \in E : coins'[d].address \in Nat \ {0, Payee} /\ coins'[d].fractions \in Fractions
  <2>1. \A d \in D \ U : coins'[d].address \in Nat \ {0, Payee} /\ coins'[d].fractions \in Fractions
    BY <1>1, <1>2, <1>3 DEF GoodCoins
  <2>2. CallAddresses \in SUBSET Nat /\ 0 \notin CallAddresses /\ Payee \notin CallAddresses
    BY <1>2, CallPlan
  <2>3. \A o \in C : coins'[M + o].address \in Nat \ {0, Payee} /\ coins'[M + o].fractions \in Fractions
    <3> TAKE o \in C
    <3>1. coins'[M + o].address = tx.vout[o].address /\ coins'[M + o].fractions = outs[o].fractions
      BY <1>1, <1>3
    <3> QED BY <1>5, <2>2, <3>1
  <2> QED BY <1>6, <1>7, <2>1, <2>3
<1>13. GoodCoins'
  BY <1>6, <1>10, <1>12 DEF GoodCoins
<1>14. known' \subseteq E
  <2>1. HandedBack \subseteq C
    BY <1>2, <1>3, DoneOuts
  <2> QED BY <1>1, <1>2, <1>3, <1>6, <1>7, <2>1
<1> QED BY <1>3, <1>6, <1>10, <1>11, <1>13, <1>14

\* The call is accounted for: the books match the coins again.
LEMMA AccountCall ==
  ASSUME Calling, Account
  PROVE  Idle'
<1>1. SessionInv /\ CallInv /\ AskInv /\ phase = "done" /\ step = "net" /\ IsValid(NewBalance)
  BY DEF Calling, Account, AccountsMatch
<1>2. GoodCoins' /\ known' \subseteq DOMAIN coins'
  BY CoinsAfter
<1>3. /\ balance' = NewBalance /\ exchange' = Minus(exchange, call.requested) /\ pegshift' = Plus(pegshift, NewShift)
      /\ maintenance' = Plus(maintenance, Minus(call.fees, txFeeFractions))
      /\ notaries' = Plus(notaries, SumOver(FractionsOf(outs), Notaries))
      /\ peglevel' = peglevel
  BY DEF Account, Notaries
<1>4. PICK ask, fee, net, paid, spent, change, all, sum, new :
        /\ ask = call.requested /\ fee = call.fees /\ net = txFeeFractions /\ paid = outs[call.at].fractions
        /\ spent = SumOver(FractionsOf(outs), Notaries) /\ change = SumOver(FractionsOf(outs), Change)
        /\ all = SumOver(FractionsOf(coins), call.used)
        /\ sum = SumAll(FractionsOf(coins)) /\ new = SumAll(FractionsOf(coins'))
  OBVIOUS
<1>5. /\ ask \in Fractions /\ fee \in Fractions /\ net \in Fractions /\ paid \in Fractions /\ spent \in Fractions
      /\ change \in Fractions /\ sum \in Fractions /\ exchange \in Fractions /\ notaries \in Fractions
      /\ balance.fractions \in Fractions
      /\ \A k \in Indexes : pegshift[k] \in Int /\ maintenance[k] \in Int
  BY <1>1, <1>4, DoneOuts, DoneBooks, CoinsSum DEF AskInv, CallInv, SessionInv, GoodBalance
<1>6. /\ \A k \in Indexes : change[k] + spent[k] + paid[k] + net[k] = all[k]
      /\ \A k \in Indexes : new[k] = sum[k] - all[k] + change[k]
      /\ \A k \in Indexes : sum[k] + notaries[k] = exchange[k] + pegshift[k] + maintenance[k]
      /\ \A k \in Indexes : ask[k] <= balance.fractions[k] /\ balance.fractions[k] <= exchange[k]
  BY <1>1, <1>4, DoneOuts, CoinsAfter DEF SessionInv, AskInv, IsPartOf
<1>7. exchange' = Minus(exchange, ask) /\ notaries' = Plus(notaries, spent)
      /\ pegshift' = Plus(pegshift, Minus(ask, Plus(paid, fee))) /\ maintenance' = Plus(maintenance, Minus(fee, net))
  BY <1>3, <1>4 DEF NewShift, Processed
<1>8. \A k \in Indexes : /\ exchange'[k] = exchange[k] - ask[k] /\ notaries'[k] = notaries[k] + spent[k]
                         /\ pegshift'[k] = pegshift[k] + (ask[k] - (paid[k] + fee[k]))
                         /\ maintenance'[k] = maintenance[k] + (fee[k] - net[k])
  BY <1>7 DEF Plus, Minus
<1>9. \A k \in Indexes : /\ ask[k] \in Nat /\ fee[k] \in Nat /\ net[k] \in Nat /\ paid[k] \in Nat /\ spent[k] \in Nat
                         /\ change[k] \in Nat /\ sum[k] \in Nat /\ exchange[k] \in Nat /\ notaries[k] \in Nat
                         /\ balance.fractions[k] \in Nat
  BY <1>5 DEF Fractions
<1>10. /\ exchange' \in Fractions /\ notaries' \in Fractions /\ pegshift' \in [Indexes -> Int] /\ maintenance' \in [Indexes -> Int]
  <2>1. \A k \in Indexes : /\ exchange'[k] \in Nat /\ notaries'[k] \in Nat /\ pegshift'[k] \in Int /\ maintenance'[k] \in Int
    <3> TAKE k \in Indexes
    <3> QED BY <1>5, <1>6, <1>8, <1>9
  <2>2. /\ exchange' = [k \in Indexes |-> exchange'[k]] /\ notaries' = [k \in Indexes |-> notaries'[k]]
        /\ pegshift' = [k \in Indexes |-> pegshift'[k]] /\ maintenance' = [k \in Indexes |-> maintenance'[k]]
    BY <1>7 DEF Plus, Minus
  <2>3. exchange' \in [Indexes -> Nat] /\ notaries' \in [Indexes -> Nat]
        /\ pegshift' \in [Indexes -> Int] /\ maintenance' \in [Indexes -> Int]
    BY ONLY <2>1, <2>2
  <2> QED BY <2>3 DEF Fractions
<1>11. \A k \in Indexes : new[k] + notaries'[k] = exchange'[k] + pegshift'[k] + maintenance'[k]
  <2> TAKE k \in Indexes
  <2>1. PICK p, m, e, t : p = pegshift[k] /\ m = maintenance[k] /\ e = exchange[k] /\ t = notaries[k]
    OBVIOUS
  <2>2. PICK a, f, w, d, s, c, l, u : a = ask[k] /\ f = fee[k] /\ w = net[k] /\ d = paid[k] /\ s = spent[k]
                                      /\ c = change[k] /\ l = all[k] /\ u = sum[k]
    OBVIOUS
  <2>3. /\ p \in Int /\ m \in Int /\ e \in Nat /\ t \in Nat /\ a \in Nat /\ f \in Nat /\ w \in Nat /\ d \in Nat
        /\ s \in Nat /\ c \in Nat /\ u \in Nat
    BY <1>5, <1>9, <2>1, <2>2
  <2>4. c + s + d + w = l /\ u + t = e + p + m
    BY <1>6, <2>1, <2>2
  <2>5. (u - l + c) + (t + s) = (e - a) + (p + (a - (d + f))) + (m + (f - w))
    <3>1. l = c + s + d + w /\ u = e + p + m - t
      BY ONLY <2>3, <2>4
    <3> QED BY ONLY <2>3, <3>1
  <2> QED BY <1>6, <1>8, <2>1, <2>2, <2>5
<1>12. PICK nb : nb = NewBalance
  OBVIOUS
<1>13. PICK fr, lv, r, li, id : balance = [fractions |-> fr, peglevel |-> lv, nReserve |-> r, nLiquid |-> li, nId |-> id]
                                /\ fr = balance.fractions /\ lv = peglevel /\ r \in Nat /\ li \in Nat
  BY <1>1 DEF SessionInv, GoodBalance
<1>14. PICK tl, tr : /\ tl = (IF call.kind = "L" THEN call.amount ELSE 0) /\ tr = (IF call.kind = "R" THEN call.amount ELSE 0)
  OBVIOUS
<1>15. nb = [balance EXCEPT !.fractions = Minus(@, ask), !.nLiquid = @ - tl, !.nReserve = @ - tr]
  BY <1>4, <1>12, <1>14 DEF NewBalance
<1>16. nb = [fractions |-> Minus(fr, ask), peglevel |-> lv, nReserve |-> r - tr, nLiquid |-> li - tl, nId |-> id]
  BY <1>13, <1>15
<1>17. Minus(fr, ask) \in Fractions /\ \A k \in Indexes : Minus(fr, ask)[k] = fr[k] - ask[k]
  BY <1>5, <1>6, <1>13, MinusLemma
<1>18. r - tr \in Nat /\ li - tl \in Nat
  <2>1. call.amount \in Nat /\ call.kind \in {"L", "R"}
    BY <1>1 DEF CallInv, CanUse
  <2>2. call.amount <= (IF call.kind = "L" THEN li ELSE r)
    BY <1>1, <1>13 DEF AskInv, BalanceAmount
  <2> QED BY <1>13, <1>14, <2>1, <2>2
<1>19. \A k \in Indexes : nb.fractions[k] <= exchange'[k]
  <2> TAKE k \in Indexes
  <2>1. nb.fractions[k] = fr[k] - ask[k]
    BY <1>16, <1>17
  <2>2. fr[k] \in Nat /\ fr[k] <= exchange[k] /\ ask[k] \in Nat /\ exchange[k] \in Nat
    BY <1>6, <1>9, <1>13
  <2> QED BY <1>8, <2>1, <2>2
<1>20. Effective(peglevel) \in Indexes
  BY <1>1 DEF SessionInv, GoodBalance
<1>21. GoodBalance'
  <2>1. balance' = nb /\ IsValid(nb)
    BY <1>1, <1>3, <1>12
  <2>2. /\ nb = [fractions |-> nb.fractions, peglevel |-> nb.peglevel, nReserve |-> nb.nReserve, nLiquid |-> nb.nLiquid,
                 nId |-> nb.nId]
        /\ nb.fractions \in Fractions /\ nb.nReserve \in Nat /\ nb.nLiquid \in Nat /\ nb.peglevel = peglevel
    BY <1>13, <1>16, <1>17, <1>18
  <2>3. Effective(peglevel)' = Effective(peglevel)
    BY <1>3
  <2> QED BY <1>3, <1>20, <2>1, <2>2, <2>3 DEF GoodBalance
<1>22. SessionInv'
  <2>1. \A k \in Indexes : balance'.fractions[k] <= exchange'[k]
    BY <1>3, <1>12, <1>19
  <2>2. peglevel'.nSupplyNext \in Indexes /\ peglevel'.nBuffer \in 0..peglevel'.nSupplyNext
    BY <1>1, <1>3 DEF SessionInv
  <2>3. \A k \in Indexes : SumAll(FractionsOf(coins'))[k] + notaries'[k] = exchange'[k] + pegshift'[k] + maintenance'[k]
    BY <1>4, <1>11
  <2> QED BY <1>2, <1>10, <1>21, <2>1, <2>2, <2>3 DEF SessionInv
<1> QED BY <1>22 DEF Idle, Account, Return

-----------------------------------------------------------------------------
(* The books match the coins                                               *)

\* Without a transaction nothing is calculated.
LEMMA NoNext ==
  ASSUME phase \notin {"inputs", "outputs", "stake"}
  PROVE  ~ Next
<1>1. ~ (RefuseInput \/ TakeInput \/ TakeColdInput \/ FreezeShared \/ FreezeOne \/ ShareLiquidity \/ Finish)
  BY DEF RefuseInput, Refuse, TakeInput, TakeColdInput, FreezeShared, FreezeOne, Accepted, ShareLiquidity, Finish
<1>2. ~ (FrozenOutput \/ SharedFrozenOutput \/ SharedVoluntaryOutput)
  BY DEF FrozenOutput, SharedFrozenOutput, SharedVoluntaryOutput
<1>3. ~ (PlainOutput \/ SharedEmptyOutput)
  BY Zenon DEF PlainOutput, SharedEmptyOutput
<1>4. ~ CalculateStakingFractions
  BY Zenon DEF CalculateStakingFractions
<1> QED BY <1>1, <1>2, <1>3, <1>4 DEF Next

\* Where a withdrawal starts.
LEMMA InitWithdraw == WithdrawInit => WInv
<1> SUFFICES ASSUME WithdrawInit PROVE WInv
  OBVIOUS
<1>1. CASE SessionInit
  BY <1>1, InitSession DEF WithdrawInit, WInv, Idle
<1>2. CASE WalletInit
  BY <1>2 DEF WalletInit, WInv
<1> QED BY <1>1, <1>2 DEF WithdrawInit

\* Nothing of a call changes.
LEMMA CallingStutters ==
  ASSUME Calling, UNCHANGED wvars
  PROVE  Calling'
<1>1. UNCHANGED vars /\ step' = step /\ UNCHANGED books /\ call' = call
  BY DEF wvars
<1>2. coins' = coins /\ peglevel' = peglevel /\ known' = known /\ tx' = tx /\ supply' = supply /\ phase' = phase /\ n' = n
  BY <1>1 DEF books, vars
<1>3. IInv'
  BY <1>1, NextInv DEF Calling
<1>4. SessionInv' /\ CallInv' /\ AskInv'
  BY <1>1, <1>2, SessionSame, CallSame, AskSame DEF Calling
<1>5. /\ \A c, own : BackTo(c, own) => BackTo(c, own)'
      /\ InsOf(call.used)' = InsOf(call.used) /\ Payout' = Payout
  BY <1>1, <1>2, BackSame DEF Calling
<1>6. TxOfCall'
  <2>1. step' = "net" => \E c, own : BackTo(c, own)' /\ tx'.vout = OutsTo(call'.at, Payout', c) \o PayEach(own)
    BY <1>1, <1>2, <1>5 DEF Calling, TxOfCall
  <2>2. /\ tx' = [vin |-> InsOf(call.used)', vout |-> tx'.vout, reward |-> Null]
        /\ supply' = peglevel'.nSupplyNext - peglevel'.nBuffer
        /\ step' = "common" => tx'.vout = OutsTo(call'.at, Payout', call'.plan.change)
        /\ phase' = "done" => n' > Len(tx'.vout)
    BY <1>1, <1>2, <1>5 DEF Calling, TxOfCall
  <2> QED BY <2>1, <2>2 DEF TxOfCall
<1> QED BY <1>1, <1>3, <1>4, <1>6 DEF Calling

\* Every step of a session or of a wallet keeps the invariant.
LEMMA NextWithdraw == WInv /\ [WithdrawNext]_wvars => WInv'
<1> SUFFICES ASSUME WInv, [WithdrawNext]_wvars PROVE WInv'
  OBVIOUS
<1>1. CASE step = "wallet"
  <2>1. step' = "wallet"
    BY <1>1 DEF WithdrawNext, PrepareWithdraw, AddMaintenance, Account, Fail, wvars
  <2> QED BY <2>1 DEF WInv
<1>2. CASE Idle
  <2>1. phase = "idle" /\ step = "idle" /\ ~ Next
    BY <1>2, NoNext DEF Idle
  <2>2. CASE UNCHANGED wvars
    BY <1>2, <2>2, SessionSame DEF Idle, WInv, wvars, vars
  <2>3. CASE \E kind \in {"L", "R"}, used \in SUBSET known, amount \in Amounts : PrepareWithdraw(kind, used, amount)
    BY <1>2, <2>3, PrepareCall DEF WInv
  <2> QED BY <2>1, <2>2, <2>3 DEF WithdrawNext, AddMaintenance, Account, Fail
<1>3. CASE Calling
  <2>1. step # "idle"
    BY <1>3 DEF Calling
  <2>2. CASE UNCHANGED wvars
    BY <1>3, <2>2, CallingStutters DEF WInv
  <2>3. CASE Next /\ UNCHANGED <<step, books, call>>
    BY <1>3, <2>3, CallingNext DEF WInv
  <2>4. CASE AddMaintenance
    BY <1>3, <2>4, MaintenanceCall DEF WInv
  <2>5. CASE Account
    BY <1>3, <2>5, AccountCall DEF WInv
  <2>6. CASE Fail
    BY <1>3, <2>6, FailCall DEF WInv
  <2> QED BY <2>1, <2>2, <2>3, <2>4, <2>5, <2>6 DEF WithdrawNext, PrepareWithdraw
<1> QED BY <1>1, <1>2, <1>3 DEF WInv

\* What the invariant says of the books between two calls.
LEMMA InvMatches == WInv => BooksMatchCoins
<1> SUFFICES ASSUME WInv, step = "idle" PROVE BooksMatchCoins
  BY DEF BooksMatchCoins
<1>1. SessionInv
  BY DEF WInv, Idle, Calling
<1>2. PICK sum : sum = SumAll(FractionsOf(coins))
  OBVIOUS
<1>3. Plus(sum, notaries) = Plus(Plus(exchange, pegshift), maintenance)
  BY <1>1, <1>2 DEF SessionInv, Plus
<1>4. \A i \in Indexes : balance.fractions[i] \in 0..exchange[i]
  BY <1>1 DEF SessionInv, GoodBalance, Fractions
<1> QED BY <1>2, <1>3, <1>4 DEF BooksMatchCoins

\* Whatever an exchange withdraws for its users, of any coins, amounts and
\* levels, and whichever calls fail: its coins are, fraction by fraction, what
\* its books say, and the user's fractions stay within them.
THEOREM BooksMatchCoinsAlways == WithdrawSpec => []BooksMatchCoins
<1> QED BY InitWithdraw, NextWithdraw, InvMatches, PTL DEF WithdrawSpec

-----------------------------------------------------------------------------
(* What is paid                                                            *)

\* A transaction that freezes nothing
FreezesNothing ==
  /\ \A i \in DOMAIN tx.vin : tx.vin[i].mark # "C"
  /\ \A o \in DOMAIN tx.vout : tx.vout[o].notary \notin Freezes

\* One whose inputs all freeze the output that comes behind them
FreezesOnly(at) ==
  /\ at = Len(tx.vin) + 1 /\ at \in DOMAIN tx.vout /\ at > 1
  /\ \A i \in DOMAIN tx.vin : tx.vin[i].mark # "C" /\ tx.vout[i].notary = "F" /\ tx.vout[i].refs = <<at, at, at>>

\* That output is marked, and nothing else.
FrozenAlone(at) ==
  /\ fFreezeAll /\ DOMAIN poolFrozen = {at}
  /\ poolFrozen[at].mark = "F" /\ poolFrozen[at].fractions = Zero

\* No address has reserve any more.
Unreserved == \A a \in DOMAIN poolReserves : poolReserves[a] = Zero

\* The frozen output is reserve, or takes all of it, and leaves none to those behind it.
PaidReserve(at) ==
  /\ phase = "inputs" /\ n = 1 => poolFrozen = <<>>
  /\ phase # "inputs" \/ n # 1 => FrozenAlone(at)
  /\ phase # "inputs" /\ n > at =>
       /\ outs[at].mark = "F"
       /\ \/ Lower(outs[at].fractions, supply)
          \/ Unreserved /\ \A o \in (at + 1)..(n - 1) : Upper(outs[o].fractions, supply)

PaidInv ==
  phase # "failed" =>
    /\ ReserveInv
    /\ call.kind = "L" => poolFrozen = <<>>
    /\ call.kind = "R" => PaidReserve(call.at)

\* What the transaction of a withdrawal freezes.
LEMMA CallFreezes ==
  ASSUME Calling
  PROVE  /\ call.kind \in {"L", "R"} /\ call.at \in DOMAIN tx.vout /\ call.at \in Nat \ {0}
         /\ tx.vout[call.at].address = Payee /\ tx.vout[call.at].notary = ""
         /\ \A i \in DOMAIN tx.vin : tx.vin[i].address # Payee
         /\ call.kind = "L" => FreezesNothing
         /\ call.kind = "R" => FreezesOnly(call.at)
<1>1. CallInv /\ TxOfCall /\ GoodCoins /\ call.used \in SUBSET DOMAIN coins /\ call.used # {} /\ call.kind \in {"L", "R"}
  BY DEF Calling, CallInv, CanUse
<1>2. PICK v, at, A, K : v = tx.vout /\ at = call.at /\ A = CallAddresses /\ K = Cardinality(call.used)
  OBVIOUS
<1>3. at \in Nat \ {0} /\ K \in Nat /\ (call.kind = "L" => at = 1) /\ (call.kind = "R" => at = K + 1)
  BY <1>1, <1>2, CallPlan DEF CallInv, PayoutAt
<1>4. PICK c, own, x, p : p = Payout /\ PaysOut(v, at, p, A, c, own, x)
  BY <1>2, OutsOfCall
<1>5. NotariesAt(v, at, A, x)
  BY ONLY <1>3, <1>4, NotaryKinds
<1>6. at \in 1..Len(v) /\ x \in 1..Len(v) /\ Len(v) \in Nat /\ at < x /\ v \in Seq(TxOuts)
  <2>1. v \in Seq(TxOuts)
    BY <1>4 DEF PaysOut
  <2> QED BY <1>5, <2>1, Zenon DEF NotariesAt
<1>0. v[at] = Pay(Payee, p)
  BY <1>4 DEF PaysOut
<1>99. \A a, w : Pay(a, w).notary = "" /\ Pay(a, w).address = a
  BY PayFields, Zenon
<1>7. v[at].address = Payee
  <2>1. Pay(Payee, p).address = Payee
    BY ONLY <1>99, Zenon
  <2> QED BY ONLY <1>0, <2>1, Zenon
<1>8. v[at].notary = ""
  <2>1. Pay(Payee, p).notary = ""
    BY ONLY <1>99, Zenon
  <2> QED BY ONLY <1>0, <2>1, Zenon
<1>9. \A i \in 1..(at - 1) : v[i].notary = "F" /\ v[i].refs = <<at, at, at>>
  <2> TAKE i \in 1..(at - 1)
  <2>1. PICK r : r = <<at, at, at>>
    OBVIOUS
  <2>2. v[i] = Notary("F", FreezeValue, r)
    BY <1>4, <2>1 DEF PaysOut
  <2>3. Notary("F", FreezeValue, r).notary = "F" /\ Notary("F", FreezeValue, r).refs = r
    BY DEF Notary
  <2> QED BY <2>1, <2>2, <2>3
<1>10. v[x].notary = "XCH"
  <2>1. PICK r : r = <<>>
    OBVIOUS
  <2>2. v[x] = Notary("XCH", 1, r)
    BY <1>4, <2>1 DEF PaysOut
  <2>3. Notary("XCH", 1, r).notary = "XCH"
    BY DEF Notary
  <2> QED BY <2>2, <2>3
<1>11. /\ DOMAIN tx.vin = 1..K /\ Len(tx.vin) = K
       /\ \A i \in 1..K : tx.vin[i].mark # "C" /\ tx.vin[i].address # Payee
  <2>1. PICK ins : ins = InsOf(call.used)
    OBVIOUS
  <2>2. tx.vin = ins
    BY <1>1, <2>1 DEF TxOfCall
  <2>3. DOMAIN ins = 1..K /\ Len(ins) = K /\ \A i \in 1..K : Sorted(call.used)[i] \in call.used /\ ins[i] = InOf(Sorted(call.used)[i])
    BY <1>1, <1>2, <2>1, InsLemma
  <2>4. ASSUME NEW i \in 1..K PROVE ins[i].mark # "C" /\ ins[i].address # Payee
    <3>1. PICK d : d = Sorted(call.used)[i] /\ d \in call.used /\ ins[i] = InOf(d)
      BY <2>3
    <3>2. InOf(d).address = coins[d].address
      BY Zenon DEF InOf
    <3>3. InOf(d).mark # "C"
      <4>1. InOf(d).mark = ""
        BY Zenon DEF InOf
      <4> QED BY ONLY <4>1, Zenon
    <3>4. coins[d].address # Payee
      BY <1>1, <3>1 DEF GoodCoins
    <3> QED BY <3>1, <3>2, <3>3, <3>4
  <2> QED BY <2>2, <2>3, <2>4
<1>12. call.kind = "L" => FreezesNothing
  <2> SUFFICES ASSUME call.kind = "L" PROVE FreezesNothing
    OBVIOUS
  <2>1. ASSUME NEW o \in DOMAIN v PROVE v[o].notary \notin Freezes
    <3>1. o \in 1..Len(v) /\ at = 1
      BY <1>3, <1>6, <2>1
    <3>2. CASE o = x
      BY <1>10, <3>2 DEF Freezes
    <3>3. CASE o # x
      <4>1. v[o].notary = ""
        <5>1. ~ (o < at)
          BY <3>1
        <5> QED BY <1>5, <3>1, <3>3, <5>1, Zenon DEF NotariesAt
      <4>2. "" \notin Freezes
        BY Zenon DEF Freezes
      <4> QED BY <4>1, <4>2, Zenon
    <3> QED BY <3>2, <3>3
  <2> QED BY <1>2, <1>11, <2>1 DEF FreezesNothing
<1>13. call.kind = "R" => FreezesOnly(at)
  <2> SUFFICES ASSUME call.kind = "R" PROVE FreezesOnly(at)
    OBVIOUS
  <2>1. at = K + 1 /\ K > 0
    <3>1. K # 0
      <4>1. IsFiniteSet(call.used)
        BY <1>1, AddressesLemma
      <4> QED BY <1>1, <1>2, <4>1, FS_EmptySet
    <3> QED BY <1>3, <3>1
  <2>2. \A i \in 1..K : i \in 1..(at - 1)
    BY <1>3, <2>1
  <2>3. DOMAIN v = 1..Len(v)
    BY <1>6
  <2>4. PICK ins, r : ins = tx.vin /\ r = <<at, at, at>>
    OBVIOUS
  <2>5. at = Len(ins) + 1 /\ at \in DOMAIN v /\ at > 1
    BY <1>3, <1>6, <1>11, <2>1, <2>3, <2>4
  <2>6. \A i \in DOMAIN ins : ins[i].mark # "C" /\ v[i].notary = "F" /\ v[i].refs = r
    BY <1>9, <1>11, <2>2, <2>4
  <2> QED BY <1>2, <2>4, <2>5, <2>6 DEF FreezesOnly
<1>14. DOMAIN v = 1..Len(v)
  BY <1>6
<1> QED BY <1>1, <1>2, <1>3, <1>6, <1>7, <1>8, <1>11, <1>12, <1>13, <1>14, Zenon

\* Where nothing is frozen, an input is taken as it is.
LEMMA FreezesNone ==
  ASSUME Taking, FreezesNothing, TakeInput \/ TakeColdInput \/ FreezeShared \/ FreezeOne
  PROVE  poolFrozen' = poolFrozen
<1>1. n \in DOMAIN tx.vin
  BY InputLemma, TakenLemma DEF Taking
<1>2. ~ IsCold
  BY <1>1 DEF FreezesNothing, IsCold, Input
<1>3. ~ IsFreezing
  <2> SUFFICES ASSUME IsFreezing PROVE FALSE
    OBVIOUS
  <2>1. n \in DOMAIN tx.vout
    BY PlaceLemma DEF IsFreezing, Taking, PhaseInv
  <2> QED BY <2>1 DEF FreezesNothing, IsFreezing, Place
<1>4. TakeInput
  BY <1>2, <1>3 DEF TakeColdInput, FreezeShared, FreezeOne
<1> QED BY <1>4 DEF TakeInput

\* Where every input freezes the output behind them, it only marks that one.
LEMMA FreezesAlone ==
  ASSUME Taking, NEW at, FreezesOnly(at), n = 1 => poolFrozen = <<>>, n # 1 => FrozenAlone(at),
         TakeInput \/ TakeColdInput \/ FreezeShared \/ FreezeOne
  PROVE  FrozenAlone(at)' /\ n' # 1
<1>1. n \in DOMAIN tx.vin /\ n \in Nat \ {0} /\ DOMAIN tx.vin = 1..Len(tx.vin) /\ Len(tx.vin) \in Nat
  BY InputLemma, TakenLemma DEF Taking
<1>2. n \in DOMAIN tx.vout /\ n <= Len(tx.vout)
  <2>1. DOMAIN tx.vout = 1..Len(tx.vout) /\ Len(tx.vout) \in Nat
    BY OutsLemma DEF Taking
  <2> QED BY <1>1, <2>1 DEF FreezesOnly
<1>3. Place.notary = "F" /\ Place.refs = <<at, at, at>>
  BY <1>1 DEF FreezesOnly, Place
<1>4. ~ IsCold /\ IsFreezing
  BY <1>1, <1>2, <1>3 DEF FreezesOnly, IsCold, IsFreezing, Input, Freezes, HasPlace
<1>5. SharedFreeze
  <2>1. Len(<<at, at, at>>) > 1
    OBVIOUS
  <2> QED BY <1>3, <2>1 DEF SharedFreeze
<1>6. FreezeShared
  BY <1>4, <1>5 DEF TakeInput, TakeColdInput, FreezeOne
<1>7. ~ BadNotary /\ poolFrozen' = MarkedFrozen /\ fFreezeAll' = TRUE /\ n' = n + 1
  BY <1>6 DEF FreezeShared, Accepted, InputTaken
<1>8. Named = {at}
  <2>1. PICK r : r = <<at, at, at>>
    OBVIOUS
  <2>2. DOMAIN r = 1..3 /\ r[1] = at /\ r[2] = at /\ r[3] = at
    BY <2>1
  <2>3. \A i \in 1..3 : i = 1 \/ i = 2 \/ i = 3
    OBVIOUS
  <2>4. {r[i] : i \in DOMAIN r} = {at}
    BY <2>2, <2>3
  <2> QED BY <1>3, <2>1, <2>4 DEF Named
<1>9. PICK old : old = At(poolFrozen, at, Unfrozen)
  OBVIOUS
<1>10. DOMAIN poolFrozen \subseteq {at} /\ old.fractions = Zero
  <2>1. CASE n = 1
    <3>1. poolFrozen = <<>> /\ DOMAIN <<>> = {}
      BY <2>1, EmptyLemma
    <3>2. old = Unfrozen
      BY <1>9, <3>1 DEF At
    <3>3. Unfrozen.fractions = Zero
      BY Zenon DEF Unfrozen
    <3> QED BY <3>1, <3>2, <3>3
  <2>2. CASE n # 1
    BY <1>9, <2>2 DEF FrozenAlone, At
  <2> QED BY <2>1, <2>2
<1>11. /\ DOMAIN MarkedFrozen = {at} /\ MarkedFrozen[at].mark = "F" /\ MarkedFrozen[at].fractions = Zero
  <2>1. /\ DOMAIN MarkedFrozen = DOMAIN poolFrozen \union Named
        /\ \A o \in Named : /\ MarkedFrozen[o].mark = Place.notary
                            /\ MarkedFrozen[o].fractions = At(poolFrozen, o, Unfrozen).fractions
    <3>1. Taking /\ IsFreezing /\ ~ BadNotary
      BY <1>4, <1>7
    <3> QED BY ONLY <3>1, MarkedFacts, Zenon
  <2> QED BY <1>3, <1>8, <1>9, <1>10, <2>1
<1> QED BY <1>1, <1>7, <1>11 DEF FrozenAlone

\* What all parts have nothing of, their sum has nothing of.
LEMMA NoneInSum ==
  ASSUME NEW S, IsFiniteSet(S), NEW g, NEW k \in Indexes, \A x \in S : g[x][k] = 0
  PROVE  SumOver(g, S)[k] = 0
<1>1. PICK h : h = [x \in S |-> g[x][k]]
  OBVIOUS
<1>2. \A x \in S : h[x] = 0
  BY <1>1
<1>3. SumOf(h, S) = 0
  BY <1>2, SumZero
<1> QED BY <1>1, <1>3 DEF SumOver

\* A shared freeze draws on every reserve there is.
LEMMA FrozenSourcesAll ==
  ASSUME Making
  PROVE  \A a \in DOMAIN poolReserves : \E i \in DOMAIN FrozenSources : FrozenSources[i] = a
<1>1. PICK D, A, B : D = DOMAIN poolReserves /\ A = {poolFrozen[n].sAddress} \intersect D /\ B = D \ A
  OBVIOUS
<1>2. D \in SUBSET Nat /\ IsFiniteSet(D)
  BY <1>1 DEF Making, PoolInv, IsPool
<1>3. A \in SUBSET Nat /\ B \in SUBSET Nat /\ IsFiniteSet(A) /\ IsFiniteSet(B) /\ A \intersect B = {} /\ A \union B = D
  BY <1>1, <1>2, FS_Subset
<1>4. IsOrder(Ascending(A), A) /\ IsOrder(Ascending(B), B)
  BY ONLY <1>3, AscendingOrder
<1>5. PICK s, t : s = Ascending(A) /\ t = Ascending(B)
  OBVIOUS
<1>6. IsOrder(s \o t, A \union B)
  BY ONLY <1>3, <1>4, <1>5, OrderAfterOrder
<1>7. PICK u : u = s \o t
  OBVIOUS
<1>8. IsOrder(u, D)
  BY <1>3, <1>6, <1>7
<1>9. DOMAIN u = 1..Cardinality(D) /\ \A x \in D : \E i \in 1..Cardinality(D) : u[i] = x
  BY ONLY <1>8, OrderLemma
<1>10. FrozenSources = u
  BY <1>1, <1>5, <1>7 DEF FrozenSources
<1> QED BY <1>1, <1>9, <1>10

\* An output filled from reserves that suffice is reserve; one they do not
\* suffice for takes all of them.
LEMMA FilledOfReserve ==
  ASSUME Making, NEW sources, NEW mark, NEW N, NEW given, NEW moved, NEW rest, NEW liquid, NEW out,
         Filled(N, sources, Output.value, mark, given, moved, rest, liquid, out)
  PROVE  \/ Lower(out.fractions, supply)
         \/ \A i \in 1..N : poolReserves'[sources[i]] = Zero
<1>1. /\ N \in Nat /\ sources \in [1..N -> DOMAIN poolReserves] /\ given \in [1..N -> Nat]
      /\ \A i \in 1..N : given[i] <= Total(poolReserves[sources[i]]) /\ Total(moved[i]) = given[i]
      /\ SumOf(given, 1..N) = Least(Output.value, SumOf([i \in 1..N |-> Total(poolReserves[sources[i]])], 1..N))
      /\ Drawn(poolReserves, N, sources, moved, poolReserves') /\ SumOf(given, 1..N) \in Nat
      /\ rest \in Nat /\ rest = Output.value - SumOf(given, 1..N) /\ liquid = MovedPart(frCommonLiquidity, rest)
      /\ out.fractions = Plus(SumAll(moved), liquid)
  BY DEF Filled
<1>2. /\ IsPool(poolReserves) /\ (\A a \in DOMAIN poolReserves : Lower(poolReserves[a], supply))
      /\ frCommonLiquidity \in Fractions /\ supply \in Indexes /\ Output.value \in Nat
  BY MakingLemma DEF Making, PoolInv, TxInv
<1>3. /\ moved \in [1..N -> Fractions] /\ \A i \in 1..N : \A k \in Indexes : moved[i][k] <= poolReserves[sources[i]][k]
  BY <1>1 DEF Drawn
<1>4. PICK I, R : I = 1..N /\ R = [i \in 1..N |-> poolReserves[sources[i]]]
  OBVIOUS
<1>5. /\ IsFiniteSet(I) /\ \A i \in I : R[i] \in Fractions /\ Lower(R[i], supply) /\ moved[i] \in Fractions
      /\ \A i \in I : \A k \in Indexes : moved[i][k] <= R[i][k]
  <2>1. IsFiniteSet(I)
    BY <1>1, <1>4, IndexesFinite
  <2> QED BY <1>1, <1>2, <1>3, <1>4, <2>1 DEF IsPool
<1>6. CASE rest = 0
  <2>1. liquid = Zero
    <3>1. /\ liquid \in Fractions /\ Total(liquid) = Least(0, Total(frCommonLiquidity))
      BY <1>1, <1>2, <1>6, MovedPartLemma
    <3>2. Total(frCommonLiquidity) \in Nat
      BY <1>2, TotalNat DEF Fractions
    <3>3. Total(liquid) = 0
      BY <3>1, <3>2, LeastLemma
    <3> QED BY <3>1, <3>3, EmptyTotal
  <2>2. ASSUME NEW k \in Indexes, k >= supply PROVE out.fractions[k] = 0
    <3>1. \A i \in I : moved[i][k] = 0
      <4> TAKE i \in I
      <4>1. moved[i][k] <= R[i][k] /\ R[i][k] = 0 /\ moved[i][k] \in Nat
        BY <1>5, <2>2 DEF Lower, Fractions
      <4> QED BY <4>1
    <3>2. SumOver(moved, I)[k] = 0
      BY <1>5, <3>1, NoneInSum
    <3>3. SumAll(moved) = SumOver(moved, I)
      BY <1>3, <1>4 DEF SumAll
    <3>4. Plus(SumAll(moved), liquid)[k] = SumAll(moved)[k] + liquid[k] /\ liquid[k] = 0
      BY <2>1, ZeroLemma DEF Plus
    <3> QED BY <1>1, <3>2, <3>3, <3>4
  <2> QED BY <2>2 DEF Lower
<1>7. CASE rest # 0
  <2>1. PICK t : t = [i \in 1..N |-> Total(poolReserves[sources[i]])]
    OBVIOUS
  <2>2. \A i \in I : t[i] \in Nat /\ given[i] \in Nat /\ given[i] <= t[i] /\ t[i] = Total(R[i]) /\ Total(moved[i]) = given[i]
    <3>1. \A i \in I : Total(R[i]) \in Nat
      BY <1>5, TotalNat DEF Fractions
    <3> QED BY <1>1, <1>4, <2>1, <3>1
  <2>3. SumOf(t, I) \in Nat
    BY <1>5, <2>2, SumNat
  <2>4. SumOf(given, I) = SumOf(t, I)
    <3>1. PICK v, s, u : v = Output.value /\ s = SumOf(given, I) /\ u = SumOf(t, I)
      OBVIOUS
    <3>2. v \in Nat /\ s \in Nat /\ u \in Nat /\ s = Least(v, u) /\ rest = v - s
      BY <1>1, <1>2, <1>4, <2>1, <2>3, <3>1
    <3>3. u <= v
      <4>1. v <= u => s = v
        BY <3>2, LeastLemma
      <4>2. ~ (v <= u)
        BY <1>7, <3>2, <4>1
      <4> QED BY <3>2, <4>2
    <3>4. s = u
      BY <3>2, <3>3, LeastLemma
    <3> QED BY <3>1, <3>4
  <2>5. \A i \in I : given[i] = t[i]
    <3> TAKE i \in I
    <3>1. \A x \in I : given[x] \in Int /\ t[x] \in Int /\ given[x] <= t[x]
      BY <2>2
    <3>2. given[i] < t[i] => SumOf(given, I) < SumOf(t, I)
      BY ONLY <1>5, <3>1, SumMonotone, i \in I
    <3> QED BY <2>2, <2>3, <2>4, <3>2
  <2>6. ASSUME NEW i \in I PROVE poolReserves'[sources[i]] = Zero
    <3>1. poolReserves'[sources[i]] = Minus(R[i], moved[i])
      BY <1>1, <1>4, <2>6, DrawnLemma
    <3>2. Minus(R[i], moved[i]) \in Fractions /\ \A k \in Indexes : Minus(R[i], moved[i])[k] = R[i][k] - moved[i][k]
      BY <1>5, <2>6, MinusLemma
    <3>3. \A k \in Indexes : R[i][k] \in Int /\ moved[i][k] \in Int
      BY <1>5, <2>6, AmountType
    <3>4. Total(Minus(R[i], moved[i])) = Total(R[i]) - Total(moved[i])
      BY <3>2, <3>3, TotalMinus
    <3>5. Total(Minus(R[i], moved[i])) = 0
      BY <2>2, <2>5, <2>6, <3>4
    <3> QED BY <3>1, <3>2, <3>5, EmptyTotal
  <2> QED BY <1>4, <2>6
<1> QED BY <1>6, <1>7

\* The output all inputs freeze is made of reserve, or of all of it and liquid.
LEMMA FrozenIsPaid ==
  ASSUME Making, FrozenAlone(n), SharedFrozenOutput, phase' # "failed"
  PROVE  \E out : OutputStep(out) /\ out.mark = "F" /\ (Lower(out.fractions, supply) \/ Unreserved')
<1>1. PICK out : OutputStep(out) /\ PoolInv'
  BY SharedFrozenOutputStep DEF Made1
<1>2. FrozenQuota = Output.value
  <2>1. Cardinality(DOMAIN poolFrozen) = 1
    BY FS_Singleton DEF FrozenAlone
  <2> QED BY <2>1 DEF FrozenQuota
<1>3. PICK quota : quota = Output.value
  OBVIOUS
<1>4. IsListing(FrozenSources, DOMAIN poolReserves) /\ quota \in Nat /\ quota <= Output.value /\ FillOutput(FrozenSources, quota, "F")
  BY <1>2, <1>3, FrozenSourcesLemma, MakingLemma DEF SharedFrozenOutput
<1>5. PICK N, given, moved, rest, liquid, x : Filled(N, FrozenSources, quota, "F", given, moved, rest, liquid, x)
  BY <1>4, FillFacts
<1>6. outs' = Append(outs, x) /\ x.mark = "F" /\ DOMAIN FrozenSources = 1..N /\ N \in Nat
  BY <1>5 DEF Filled
<1>7. x = out
  BY <1>1, <1>6, LastMade
<1>8. Lower(out.fractions, supply) \/ \A i \in 1..N : poolReserves'[FrozenSources[i]] = Zero
  <2>1. PICK mark : Filled(N, FrozenSources, Output.value, mark, given, moved, rest, liquid, out)
    BY <1>3, <1>5, <1>7
  <2> QED BY <2>1, FilledOfReserve
<1>9. DOMAIN poolReserves' = DOMAIN poolReserves
  BY <1>5, FilledShrinks
<1>10. (\A i \in 1..N : poolReserves'[FrozenSources[i]] = Zero) => Unreserved'
  BY <1>6, <1>9, FrozenSourcesAll DEF Unreserved
<1> QED BY <1>1, <1>6, <1>7, <1>8, <1>10

\* Where there is no reserve, outputs are made of liquid.
LEMMA PlainIsLiquid ==
  ASSUME Making, PlainOutput, phase' # "failed", Unreserved
  PROVE  \E out : OutputStep(out) /\ Upper(out.fractions, supply) /\ Unreserved'
<1>1. PICK out : OutputStep(out) /\ PoolInv'
  BY PlainOutputStep DEF Made1
<1>0. PICK none : none = ""
  BY Zenon
<1>2. PICK sources, quota : sources = ReserveSources(Output) /\ quota = Output.value
  OBVIOUS
<1>3. IsListing(sources, DOMAIN poolReserves) /\ quota \in Nat /\ quota <= Output.value
  BY <1>2, ReserveSourcesLemma, MakingLemma
<1>4. FillOutput(sources, quota, none)
  BY <1>0, <1>2, Zenon DEF PlainOutput
<1>5. PICK N, given, moved, rest, liquid, x : Filled(N, sources, quota, none, given, moved, rest, liquid, x)
  BY <1>3, <1>4, FillFacts
<1>6. x = out
  BY <1>1, <1>5, LastMade DEF Filled
<1>7. /\ DOMAIN poolReserves' = DOMAIN poolReserves
      /\ \A a \in DOMAIN poolReserves : \A k \in Indexes : poolReserves'[a][k] <= poolReserves[a][k]
  BY <1>5, FilledShrinks
<1>8. Unreserved'
  <2>1. ASSUME NEW a \in DOMAIN poolReserves PROVE poolReserves'[a] = Zero
    <3>1. poolReserves'[a] \in Fractions
      BY <1>1, <1>7, <2>1 DEF PoolInv, IsPool
    <3>2. \A k \in Indexes : poolReserves'[a][k] = Zero[k]
      <4> TAKE k \in Indexes
      <4>1. poolReserves'[a][k] \in Nat /\ poolReserves'[a][k] <= poolReserves[a][k]
        BY <1>7, <2>1, <3>1 DEF Fractions
      <4>2. poolReserves[a][k] = 0 /\ Zero[k] = 0
        BY <2>1, ZeroLemma DEF Unreserved
      <4> QED BY <4>1, <4>2
    <3> QED BY <3>1, <3>2, ZeroLemma, SameFractions
  <2> QED BY <1>7, <2>1 DEF Unreserved
<1>9. Upper(out.fractions, supply)
  <2>1. /\ N \in Nat /\ sources \in [1..N -> DOMAIN poolReserves] /\ moved \in [1..N -> Fractions]
        /\ \A i \in 1..N : \A k \in Indexes : moved[i][k] <= poolReserves[sources[i]][k]
        /\ rest \in Nat /\ liquid = MovedPart(frCommonLiquidity, rest)
        /\ out.fractions = Plus(SumAll(moved), liquid)
    BY <1>5, <1>6 DEF Filled, Drawn
  <2>2. liquid \in Fractions /\ Upper(liquid, supply)
    BY <2>1, LiquidMoved
  <2>3. ASSUME NEW k \in Indexes, k < supply PROVE out.fractions[k] = 0
    <3>1. \A i \in 1..N : moved[i][k] = 0
      <4> TAKE i \in 1..N
      <4>1. poolReserves[sources[i]] = Zero
        BY <2>1 DEF Unreserved
      <4>2. moved[i][k] \in Nat /\ moved[i][k] <= 0
        BY <2>1, <4>1, ZeroLemma DEF Fractions
      <4> QED BY <4>2
    <3>2. IsFiniteSet(1..N)
      BY ONLY <2>1, IndexesFinite
    <3>3. SumAll(moved)[k] = 0
      <4>1. PICK I : I = 1..N
        OBVIOUS
      <4>2. SumOver(moved, I)[k] = 0
        BY <3>1, <3>2, <4>1, NoneInSum
      <4>3. SumAll(moved) = SumOver(moved, I)
        BY <2>1, <4>1 DEF SumAll
      <4> QED BY <4>2, <4>3
    <3>4. liquid[k] = 0
      BY <2>2, <2>3 DEF Upper
    <3> QED BY <2>1, <3>3, <3>4 DEF Plus
  <2> QED BY <2>3 DEF Upper
<1> QED BY <1>1, <1>8, <1>9

\* Every step of a withdrawal's calculation keeps what is paid.
LEMMA PaidNext ==
  ASSUME Calling, Calling', PaidInv, Next, UNCHANGED <<step, books, call>>
  PROVE  PaidInv'
<1> SUFFICES ASSUME phase' # "failed"
             PROVE  /\ ReserveInv' /\ (call.kind = "L" => poolFrozen' = <<>>)
                    /\ call.kind = "R" => PaidReserve(call.at)'
  BY DEF PaidInv
<1>1. IInv /\ IInv' /\ tx.reward = Null /\ tx'.reward = Null
  BY DEF Calling, TxOfCall
<1>2. tx' = tx /\ supply' = supply /\ phase \in {"inputs", "outputs"} /\ phase' \in {"inputs", "outputs", "done"} /\ call' = call
  BY <1>1, StepFacts
<1>3. TxInv /\ Sound /\ ReserveInv /\ (call.kind = "L" => poolFrozen = <<>>) /\ (call.kind = "R" => PaidReserve(call.at))
  BY <1>1, <1>2 DEF IInv, Sound, PaidInv
<1>4. ReserveInv'
  BY <1>1, <1>3, NextReserve
<1>0. call.at \in Nat /\ (call.kind = "L" => FreezesNothing) /\ (call.kind = "R" => FreezesOnly(call.at))
  BY CallFreezes, Zenon
<1>5. PICK at \in Nat : at = call.at
  BY <1>0
<1>6. (call.kind = "L" => FreezesNothing) /\ (call.kind = "R" => FreezesOnly(at) /\ PaidReserve(at))
  BY <1>0, <1>3, <1>5
<1>7. ~ RefuseInput
  BY DEF RefuseInput, Refuse
<1>8. ASSUME TakeInput \/ TakeColdInput \/ FreezeShared \/ FreezeOne
      PROVE  (call.kind = "L" => poolFrozen' = <<>>) /\ (call.kind = "R" => PaidReserve(at)')
  <2>1. phase = "inputs" /\ n <= Len(tx.vin)
    BY <1>8 DEF TakeInput, TakeColdInput, FreezeShared, FreezeOne, Accepted
  <2>2. Taking
    BY <1>3, <2>1 DEF Taking, Sound
  <2>3. phase' = "inputs"
    BY <1>3, <1>8, <2>1, InputsNext
  <2>4. call.kind = "R" => FrozenAlone(at)' /\ n' # 1
    BY <1>6, <1>8, <2>1, <2>2, FreezesAlone DEF PaidReserve
  <2> QED BY <1>3, <1>6, <1>8, <2>2, <2>3, <2>4, FreezesNone DEF PaidReserve
<1>9. ASSUME ShareLiquidity
      PROVE  (call.kind = "L" => poolFrozen' = <<>>) /\ (call.kind = "R" => PaidReserve(at)')
  <2>1. /\ phase = "inputs" /\ n > Len(tx.vin) /\ phase' = "outputs" /\ n' = 1
        /\ poolFrozen' = poolFrozen /\ fFreezeAll' = fFreezeAll
    BY <1>9 DEF ShareLiquidity
  <2>2. ASSUME call.kind = "R" PROVE PaidReserve(at)'
    <3>1. FreezesOnly(at) /\ PaidReserve(at)
      BY <1>6, <2>2
    <3>2. n # 1
      BY <2>1, <3>1 DEF FreezesOnly
    <3>3. FrozenAlone(at)'
      BY <2>1, <3>1, <3>2 DEF PaidReserve, FrozenAlone
    <3>4. ~ (n' > at)
      BY <2>1, <3>1 DEF FreezesOnly
    <3> QED BY <2>1, <3>3, <3>4 DEF PaidReserve
  <2> QED BY <1>3, <2>1, <2>2
<1>10. ASSUME Finish
       PROVE  (call.kind = "L" => poolFrozen' = <<>>) /\ (call.kind = "R" => PaidReserve(at)')
  <2>1. /\ phase = "outputs" /\ n' = n /\ phase' # "inputs" /\ outs' = outs
        /\ poolFrozen' = poolFrozen /\ fFreezeAll' = fFreezeAll /\ poolReserves' = poolReserves
    BY <1>10 DEF Finish, pools
  <2>2. call.kind = "R" => PaidReserve(at)'
    BY <1>2, <1>6, <2>1 DEF PaidReserve, FrozenAlone, Unreserved, Lower, Upper
  <2> QED BY <1>3, <2>1, <2>2
<1>11. ASSUME PlainOutput \/ FrozenOutput \/ SharedFrozenOutput \/ SharedVoluntaryOutput \/ SharedEmptyOutput
       PROVE  (call.kind = "L" => poolFrozen' = <<>>) /\ (call.kind = "R" => PaidReserve(at)')
  <2>1. phase = "outputs" /\ n <= Len(tx.vout)
    BY <1>11, Zenon DEF PlainOutput, FrozenOutput, SharedFrozenOutput, SharedVoluntaryOutput, SharedEmptyOutput
  <2>2. Making
    BY <1>3, <2>1 DEF Making, Sound
  <2>3. PICK out : OutputStep(out)
    BY <1>11, <2>2, PlainOutputStep, FrozenOutputStep, SharedFrozenOutputStep, SharedVoluntaryOutputStep,
       SharedEmptyOutputStep DEF Made1
  <2>4. n' = n + 1 /\ phase' = phase /\ poolFrozen' = poolFrozen /\ outs' = Append(outs, out)
    BY <2>3 DEF OutputStep
  <2>5. fFreezeAll' = fFreezeAll
    BY <1>11, Zenon DEF PlainOutput, FillOutput, Refuse, FrozenOutput, SharedFrozenOutput, SharedVoluntaryOutput, SharedEmptyOutput
  <2>6. n \in Nat \ {0} /\ outs \in Seq(MadeOuts) /\ Len(outs) = n - 1 /\ DOMAIN outs = 1..(n - 1)
    BY <2>2, MakingLemma
  <2>7. outs'[n] = out /\ \A o \in 1..(n - 1) : outs'[o] = outs[o]
    BY <2>4, <2>6
  <2>8. ASSUME call.kind = "R" PROVE PaidReserve(at)'
    <3>1. FreezesOnly(at) /\ PaidReserve(at) /\ FrozenAlone(at) /\ at > 1
      BY <1>6, <2>1, <2>8 DEF PaidReserve, FreezesOnly
    <3>2. FrozenAlone(at)'
      BY <2>4, <2>5, <3>1 DEF FrozenAlone
    <3>3. CASE n < at
      <4>1. ~ (n' > at)
        BY <2>4, <2>6, <3>3
      <4> QED BY <2>1, <2>4, <3>2, <4>1 DEF PaidReserve
    <3>4. CASE n = at
      <4>1. IsSharing /\ poolFrozen[n].mark = "F" /\ n \in DOMAIN poolFrozen /\ ~ IsSetAside
        BY <3>1, <3>4, ZeroTotal DEF FrozenAlone, IsSharing, IsSetAside
      <4>2. SharedFrozenOutput
        <5>1. "F" # "V" /\ "F" \in {"F", "V"}
          OBVIOUS
        <5> QED BY <1>11, <4>1, <5>1, Zenon DEF PlainOutput, FrozenOutput, SharedVoluntaryOutput, SharedEmptyOutput
      <4>3. FrozenAlone(n)
        BY <3>1, <3>4
      <4>4. PICK x : OutputStep(x) /\ x.mark = "F" /\ (Lower(x.fractions, supply) \/ Unreserved')
        BY <2>2, <4>2, <4>3, FrozenIsPaid
      <4>5. x = out
        BY <2>2, <2>3, <2>4, <4>4, LastMade
      <4>6. (at + 1)..(n' - 1) = {}
        BY <2>4, <2>6, <3>4
      <4>7. outs'[at].mark = "F" /\ (Lower(outs'[at].fractions, supply') \/ Unreserved')
        BY <1>2, <2>7, <3>4, <4>4, <4>5
      <4> QED BY <2>1, <2>4, <3>2, <4>6, <4>7 DEF PaidReserve, Lower
    <3>5. CASE n > at
      <4>1. /\ outs[at].mark = "F"
            /\ Lower(outs[at].fractions, supply) \/ (Unreserved /\ \A o \in (at + 1)..(n - 1) : Upper(outs[o].fractions, supply))
        BY <2>1, <3>1, <3>5 DEF PaidReserve
      <4>2. outs'[at] = outs[at]
        <5>1. at \in 1..(n - 1)
          BY <2>6, <3>1, <3>5
        <5> QED BY <2>7, <5>1
      <4>3. n \notin DOMAIN poolFrozen
        BY <2>6, <3>1, <3>5 DEF FrozenAlone
      <4>4. PlainOutput
        BY <1>11, <4>3, Zenon DEF FrozenOutput, SharedFrozenOutput, SharedVoluntaryOutput, SharedEmptyOutput, IsSetAside, IsSharing
      <4>5. CASE Lower(outs[at].fractions, supply)
        BY <1>2, <2>1, <2>4, <3>2, <4>1, <4>2, <4>5 DEF PaidReserve, Lower
      <4>6. CASE Unreserved /\ \A o \in (at + 1)..(n - 1) : Upper(outs[o].fractions, supply)
        <5>1. PICK x : OutputStep(x) /\ Upper(x.fractions, supply) /\ Unreserved'
          BY <2>2, <4>4, <4>6, PlainIsLiquid
        <5>2. x = out
          BY <2>2, <2>3, <2>4, <5>1, LastMade
        <5>3. \A o \in (at + 1)..n : Upper(outs'[o].fractions, supply)
          <6> TAKE o \in (at + 1)..n
          <6>1. CASE o = n
            BY <2>7, <5>1, <5>2, <6>1
          <6>2. CASE o # n
            <7>1. o \in 1..(n - 1) /\ o \in (at + 1)..(n - 1)
              BY <2>6, <3>1, <3>5, <6>2
            <7> QED BY <2>7, <4>6, <7>1
          <6> QED BY <6>1, <6>2
        <5>4. n' - 1 = n
          BY <2>4, <2>6
        <5> QED BY <1>2, <2>1, <2>4, <3>2, <4>1, <4>2, <5>1, <5>3, <5>4 DEF PaidReserve, Upper
      <4> QED BY <4>1, <4>5, <4>6
    <3> QED BY <2>6, <3>3, <3>4, <3>5
  <2> QED BY <1>3, <2>4, <2>8
<1>12. ~ CalculateStakingFractions
  BY <1>2, Zenon DEF CalculateStakingFractions
<1>13. (call.kind = "L" => poolFrozen' = <<>>) /\ (call.kind = "R" => PaidReserve(at)')
  BY <1>7, <1>8, <1>9, <1>10, <1>11, <1>12 DEF Next
<1>14. call.kind = "R" => PaidReserve(call.at)'
  BY <1>2, <1>5, <1>13 DEF PaidReserve, FrozenAlone
<1> QED BY <1>4, <1>13, <1>14

\* It holds when a calculation starts.
LEMMA PaidStart ==
  ASSUME Calling', NEW rawTx, Calculate(rawTx)
  PROVE  PaidInv'
<1>1. TxInv'
  <2>1. IInv' /\ tx'.reward = Null
    BY DEF Calling, TxOfCall
  <2> QED BY <2>1 DEF IInv
<1>2. Starting'
  BY <1>1 DEF Starting, Calculate
<1>3. ReserveInv'
  BY <1>2, StartReserve, PTL
<1>4. phase' = "inputs" /\ n' = 1 /\ poolFrozen' = <<>>
  BY DEF Calculate
<1>5. \A at : PaidReserve(at)'
  BY <1>4 DEF PaidReserve
<1> QED BY <1>3, <1>4, <1>5 DEF PaidInv

\* What is paid, through every call: a failed calculation ends it.
WPaid == WInv /\ (step \in {"common", "net"} => PaidInv)

LEMMA InitPaid == WithdrawInit => WPaid
<1> SUFFICES ASSUME WithdrawInit PROVE WPaid
  OBVIOUS
<1>1. step \notin {"common", "net"}
  BY DEF WithdrawInit, SessionInit, WalletInit
<1> QED BY <1>1, InitWithdraw DEF WPaid

LEMMA PaidStutters ==
  ASSUME Calling, Calling', PaidInv, UNCHANGED wvars
  PROVE  PaidInv'
<1> SUFFICES ASSUME phase' # "failed"
             PROVE  /\ ReserveInv' /\ (call.kind = "L" => poolFrozen' = <<>>)
                    /\ call.kind = "R" => PaidReserve(call.at)'
  BY DEF PaidInv, wvars
<1>1. vars' = vars /\ call' = call /\ IInv /\ IInv'
  BY DEF wvars, Calling
<1>2. PICK at : at = call.at
  OBVIOUS
<1>3. phase # "failed" /\ ReserveInv /\ (call.kind = "L" => poolFrozen = <<>>) /\ (call.kind = "R" => PaidReserve(at))
  BY <1>1, <1>2 DEF PaidInv, vars
<1>4. ReserveInv'
  BY <1>1, <1>3, NextReserve
<1>5. /\ phase' = phase /\ n' = n /\ outs' = outs /\ supply' = supply
      /\ poolReserves' = poolReserves /\ poolFrozen' = poolFrozen /\ fFreezeAll' = fFreezeAll
  BY <1>1 DEF vars, pools
<1>6. PaidReserve(at) => PaidReserve(at)'
  <2>1. FrozenAlone(at)' <=> FrozenAlone(at)
    BY <1>5 DEF FrozenAlone
  <2>2. Unreserved' <=> Unreserved
    BY <1>5 DEF Unreserved
  <2>3. \A f : Lower(f, supply) <=> Lower(f, supply')
    BY <1>5
  <2>4. \A f : Upper(f, supply) <=> Upper(f, supply')
    BY <1>5
  <2> QED BY <1>5, <2>1, <2>2, <2>3, <2>4 DEF PaidReserve
<1>7. call.kind = "R" => PaidReserve(call.at)'
  BY <1>1, <1>2, <1>3, <1>6 DEF PaidReserve, FrozenAlone
<1> QED BY <1>3, <1>4, <1>5, <1>7

LEMMA NextPaid == WPaid /\ [WithdrawNext]_wvars => WPaid'
<1> SUFFICES ASSUME WPaid, [WithdrawNext]_wvars, step' \in {"common", "net"} PROVE PaidInv'
  BY NextWithdraw DEF WPaid
<1>1. WInv /\ WInv'
  BY NextWithdraw DEF WPaid
<1>2. Calling'
  BY <1>1 DEF WInv, Idle
<1>3. CASE UNCHANGED wvars
  <2>1. step \in {"common", "net"}
    BY <1>3 DEF wvars
  <2>2. PaidInv /\ Calling
    BY <1>1, <2>1 DEF WPaid, WInv, Idle
  <2> QED BY <1>2, <1>3, <2>2, PaidStutters
<1>4. CASE Next /\ UNCHANGED <<step, books, call>>
  <2>1. step \in {"common", "net"}
    BY <1>4
  <2>2. PaidInv /\ Calling
    BY <1>1, <2>1 DEF WPaid, WInv, Idle
  <2> QED BY <1>2, <1>4, <2>2, PaidNext
<1>5. CASE \E kind \in {"L", "R"}, used \in SUBSET known, amount \in Amounts : PrepareWithdraw(kind, used, amount)
  BY <1>2, <1>5, PaidStart DEF PrepareWithdraw
<1>6. CASE AddMaintenance
  BY <1>2, <1>6, PaidStart DEF AddMaintenance
<1>7. CASE Account \/ Fail
  BY <1>7 DEF Account, Fail, Return
<1> QED BY <1>3, <1>4, <1>5, <1>6, <1>7 DEF WithdrawNext

\* Reserve has nothing from the supply index on.
LEMMA HighOfReserve ==
  ASSUME NEW f \in Fractions, NEW e \in Indexes, Lower(f, e)
  PROVE  High(f, e) = 0
<1>1. PICK S : S = e..(PegSize - 1)
  OBVIOUS
<1>2. S \subseteq Indexes /\ \A k \in S : k >= e
  BY <1>1, PegSizeAssumption DEF Indexes
<1>3. IsFiniteSet(S)
  BY <1>2, IndexesFinite, FS_Subset
<1>4. \A k \in S : f[k] = 0
  BY <1>2 DEF Lower
<1>5. SumOf(f, S) = 0
  BY <1>3, <1>4, SumZero
<1> QED BY <1>1, <1>5 DEF High, Between

\* An output that nothing freezes, to an address that brings nothing, is liquid.
LEMMA PaidLiquid ==
  ASSUME PhaseInv, phase # "inputs", HomeInv, NEW at \in Plain(Payee), \A i \in DOMAIN tx.vin : tx.vin[i].address # Payee
  PROVE  Upper(outs[at].fractions, supply)
<1>1. IsPool(FractionsOf(outs)) /\ DOMAIN FractionsOf(outs) = DOMAIN outs
  <2>1. outs \in Seq(MadeOuts)
    BY DEF PhaseInv
  <2>2. IsPool(FractionsOf(outs))
    BY <2>1, MadeLemma
  <2> QED BY <2>2 DEF FractionsOf
<1>2. Plain(Payee) \subseteq DOMAIN outs
  BY Zenon DEF Plain
<1>3. Upper(Spent(Payee), supply)
  <2>1. Payee \in Nat /\ Payee # Burn
    BY CoinsAssumption
  <2>2. Payee \notin DOMAIN poolReserves
    <3>1. TakenIns = DOMAIN tx.vin
      BY DEF TakenIns
    <3> QED BY <3>1, Zenon DEF HomeInv
  <2> QED BY <2>1, <2>2 DEF HomeInv
<1>4. PICK P, g : P = Plain(Payee) /\ g = FractionsOf(outs)
  OBVIOUS
<1>5. P \subseteq DOMAIN outs /\ at \in P
  BY <1>2, <1>4
<1>6. IsFiniteSet(P) /\ \A o \in P : g[o] \in Fractions
  BY <1>1, <1>4, <1>5, FS_Subset DEF IsPool
<1>7. \A k \in Indexes : g[at][k] <= SumOver(g, P)[k]
  BY <1>5, <1>6, SumOverAt
<1>8. g[at] = outs[at].fractions /\ g[at] \in Fractions
  BY <1>1, <1>4, <1>5 DEF FractionsOf, IsPool
<1>9. ASSUME NEW k \in Indexes, k < supply PROVE outs[at].fractions[k] = 0
  <2>1. SumOver(g, P)[k] = 0
    BY <1>3, <1>4, <1>9 DEF Spent, Upper
  <2>2. g[at][k] \in Nat
    BY <1>8, AmountType
  <2> QED BY <1>7, <1>8, <2>1, <2>2
<1> QED BY <1>9 DEF Upper

\* At the end of the second calculation it is what was asked for.
LEMMA InvPaid == WPaid => PaidAsAsked
<1> DEFINE change == {o \in DOMAIN outs : o # call.at /\ ~ IsNotary(o)}
<1> SUFFICES ASSUME WPaid, step = "net", phase = "done"
             PROVE  IF call.kind = "L" THEN Low(outs[call.at].fractions, supply) = 0
                    ELSE /\ outs[call.at].mark = "F"
                         /\ \/ High(outs[call.at].fractions, supply) = 0
                            \/ \A o \in change : Low(outs[o].fractions, supply) = 0
  BY DEF PaidAsAsked
<1>1. Calling /\ PaidInv
  BY DEF WPaid, WInv, Idle
<1>2. IInv /\ tx.reward = Null /\ n > Len(tx.vout)
  BY <1>1 DEF Calling, TxOfCall
<1>3. TxInv /\ PhaseInv /\ HomeInv /\ supply \in Indexes /\ (call.kind = "L" => poolFrozen = <<>>) /\ (call.kind = "R" => PaidReserve(call.at))
  <2>1. ReserveInv /\ (call.kind = "L" => poolFrozen = <<>>) /\ (call.kind = "R" => PaidReserve(call.at))
    BY <1>1 DEF PaidInv
  <2> QED BY <1>2, <2>1 DEF IInv, ReserveInv, TxInv
<1>4. PICK at : at = call.at
  OBVIOUS
<1>5. /\ at \in DOMAIN tx.vout /\ at \in Nat \ {0} /\ call.kind \in {"L", "R"}
      /\ tx.vout[at].address = Payee /\ \A i \in DOMAIN tx.vin : tx.vin[i].address # Payee
      /\ call.kind = "R" => FreezesOnly(at)
  BY <1>1, <1>4, CallFreezes, Zenon
<1>6. tx.vout[at].notary = ""
  BY <1>1, <1>4, CallFreezes, Zenon
<1>7. /\ outs \in Seq(MadeOuts) /\ Len(outs) = n - 1 /\ n \in Nat /\ DOMAIN outs = 1..(n - 1)
      /\ DOMAIN tx.vout = 1..Len(tx.vout) /\ Len(tx.vout) \in Nat /\ n = Len(tx.vout) + 1
      /\ DOMAIN tx.vin = 1..Len(tx.vin) /\ Len(tx.vin) \in Nat
  <2>1. outs \in Seq(MadeOuts) /\ Len(outs) = n - 1 /\ n <= Len(tx.vout) + 1 /\ n \in Nat
    BY <1>3 DEF PhaseInv
  <2>2. DOMAIN tx.vout = 1..Len(tx.vout) /\ Len(tx.vout) \in Nat
    BY <1>3, OutsLemma
  <2>3. DOMAIN outs = 1..Len(outs)
    BY <2>1
  <2>4. DOMAIN tx.vin = 1..Len(tx.vin) /\ Len(tx.vin) \in Nat
    BY <1>3 DEF TxInv
  <2> QED BY <1>2, <2>1, <2>2, <2>3, <2>4
<1>8. at \in DOMAIN outs /\ \A o \in DOMAIN outs : outs[o].fractions \in Fractions
  <2>1. at \in DOMAIN outs
    BY <1>5, <1>7
  <2>2. \A o \in 1..Len(outs) : outs[o].fractions \in Fractions
    BY <1>7, MadeLemma
  <2> QED BY <1>7, <2>1, <2>2
<1>9. CASE call.kind = "L"
  <2>0. at \in Plain(Payee)
    <3>1. DOMAIN poolFrozen = {}
      BY <1>3, <1>9, EmptyLemma
    <3> QED BY <1>5, <1>6, <1>8, <3>1, Zenon DEF Plain
  <2>1. Upper(outs[at].fractions, supply)
    <3>1. phase # "inputs"
      OBVIOUS
    <3> QED BY <1>3, <1>5, <2>0, <3>1, PaidLiquid
  <2>2. PICK f \in Fractions : f = outs[at].fractions
    BY <1>8
  <2>3. Low(f, supply) = 0
    BY <1>3, <2>1, <2>2, LowOfLiquid
  <2> QED BY <1>4, <1>9, <2>2, <2>3
<1>10. CASE call.kind = "R"
  <2>1. /\ outs[at].mark = "F"
        /\ Lower(outs[at].fractions, supply) \/ \A o \in (at + 1)..(n - 1) : Upper(outs[o].fractions, supply)
    BY <1>3, <1>4, <1>5, <1>7, <1>10 DEF PaidReserve
  <2>2. CASE Lower(outs[at].fractions, supply)
    <3>1. PICK f \in Fractions : f = outs[at].fractions
      BY <1>8
    <3>2. High(f, supply) = 0
      BY <1>3, <2>2, <3>1, HighOfReserve
    <3> QED BY <1>4, <1>10, <2>1, <3>1, <3>2
  <2>3. CASE \A o \in (at + 1)..(n - 1) : Upper(outs[o].fractions, supply)
    <3>1. ASSUME NEW o \in change PROVE Low(outs[o].fractions, supply) = 0
      <4>1. o \in DOMAIN outs /\ o # at /\ tx.vout[o].notary = ""
        BY <1>4, Zenon DEF IsNotary
      <4>2. ~ (o < at)
        <5> SUFFICES ASSUME o < at PROVE FALSE
          OBVIOUS
        <5>0. o \in 1..(n - 1)
          BY <1>7, <4>1, Zenon
        <5>1. o \in DOMAIN tx.vin
          BY ONLY <1>5, <1>7, <1>10, <5>0, o < at DEF FreezesOnly
        <5>2. tx.vout[o].notary = "F"
          BY ONLY <1>5, <1>10, <5>1 DEF FreezesOnly
        <5> QED BY <4>1, <5>2, Zenon
      <4>3. o \in (at + 1)..(n - 1)
        <5>1. o \in 1..(n - 1) /\ o # at
          BY <1>7, <4>1, Zenon
        <5> QED BY ONLY <5>1, <4>2, <1>5, <1>7
      <4>4. PICK f \in Fractions : f = outs[o].fractions
        BY <1>8, <4>1, Zenon
      <4>5. Upper(f, supply)
        BY <2>3, <4>3, <4>4
      <4>6. Low(f, supply) = 0
        BY <1>3, <4>5, LowOfLiquid
      <4> QED BY <4>4, <4>6
    <3>2. call.kind # "L"
      BY <1>10
    <3> HIDE DEF change
    <3> QED BY <1>4, <2>1, <3>1, <3>2
  <2> QED BY <2>1, <2>2, <2>3
<1> QED BY <1>5, <1>9, <1>10

\* Whatever the user withdraws, he is paid in what he asked for: a liquid
\* withdrawal in fractions that are liquid in the next interval, one of reserve
\* in a frozen output that has liquid only if no reserve is left for the change.
THEOREM PaidAsAskedAlways == WithdrawSpec => []PaidAsAsked
<1> QED BY InitPaid, NextPaid, InvPaid, PTL DEF WithdrawSpec

-----------------------------------------------------------------------------
(* What is left of stores that give                                        *)

\* The first numbers are finitely many.
LEMMA FirstFinite ==
  ASSUME NEW m \in Int
  PROVE  IsFiniteSet(1..m)
<1>1. 1 \in Int
  OBVIOUS
<1> QED BY <1>1, FS_Interval

\* What the i-th store gives.
LEMMA GivenAt ==
  ASSUME NEW A, NEW order, IsOrder(order, A), NEW stores \in [A -> Nat], NEW v \in Nat, NEW i \in 1..Cardinality(A)
  PROVE  /\ HadBefore(order, stores, i) \in Nat
         /\ GivenBy(order, stores, v)[order[i]] = Least(Over(v, HadBefore(order, stores, i)), stores[order[i]])
BY GivenByLemma

\* Of stores that have less, less is left.
LEMMA GivenLess ==
  ASSUME NEW A, NEW order, IsOrder(order, A), NEW s \in [A -> Nat], NEW p \in [A -> Nat],
         \A a \in A : s[a] <= p[a], NEW v \in Nat
  PROVE  \A a \in A : s[a] - GivenBy(order, s, v)[a] <= p[a] - GivenBy(order, p, v)[a]
<1> SUFFICES ASSUME NEW a \in A PROVE s[a] - GivenBy(order, s, v)[a] <= p[a] - GivenBy(order, p, v)[a]
  OBVIOUS
<1>1. PICK i \in 1..Cardinality(A) : order[i] = a
  BY OrderLemma
<1>2. PICK hs \in Nat : hs = HadBefore(order, s, i) /\ GivenBy(order, s, v)[a] = Least(Over(v, hs), s[a])
  <2>1. /\ HadBefore(order, s, i) \in Nat
        /\ GivenBy(order, s, v)[order[i]] = Least(Over(v, HadBefore(order, s, i)), s[order[i]])
    BY GivenAt
  <2> QED BY <1>1, <2>1
<1>3. PICK hp \in Nat : hp = HadBefore(order, p, i) /\ GivenBy(order, p, v)[a] = Least(Over(v, hp), p[a])
  <2>1. /\ HadBefore(order, p, i) \in Nat
        /\ GivenBy(order, p, v)[order[i]] = Least(Over(v, HadBefore(order, p, i)), p[order[i]])
    BY GivenAt
  <2> QED BY <1>1, <2>1
<1>4. hs <= hp
  <2>1. PICK g : g = [j \in DOMAIN order |-> s[order[j]]]
    OBVIOUS
  <2>2. PICK h : h = [j \in DOMAIN order |-> p[order[j]]]
    OBVIOUS
  <2>3. i \in Nat /\ i <= Cardinality(A) /\ Cardinality(A) \in Nat
    BY OrderLemma
  <2>4. IsFiniteSet(1..(i - 1)) /\ \A j \in 1..(i - 1) : j \in DOMAIN order /\ order[j] \in A
    <3>1. DOMAIN order = 1..Cardinality(A) /\ order \in [1..Cardinality(A) -> A]
      BY OrderLemma DEF IsOrder
    <3>2. i - 1 \in Int /\ \A j \in 1..(i - 1) : j \in 1..Cardinality(A)
      BY <2>3
    <3> QED BY <3>1, <3>2, FirstFinite
  <2>5. \A j \in 1..(i - 1) : g[j] \in Int /\ h[j] \in Int /\ g[j] <= h[j]
    BY <2>1, <2>2, <2>4
  <2>6. SumOf(g, 1..(i - 1)) <= SumOf(h, 1..(i - 1))
    BY <2>4, <2>5, SumMonotone
  <2> QED BY <1>2, <1>3, <2>1, <2>2, <2>6 DEF HadBefore
<1>5. PICK x \in Nat, y \in Nat : x = s[a] /\ y = p[a] /\ x <= y
  OBVIOUS
<1>6. x - Least(Over(v, hs), x) <= y - Least(Over(v, hp), y)
  BY <1>4, <1>5 DEF Over, Least
<1> QED BY <1>2, <1>3, <1>5, <1>6

\* What stores before the i-th give is the amount, or all they have.
LEMMA GivenBefore ==
  ASSUME NEW A, NEW order, IsOrder(order, A), NEW s \in [A -> Nat], NEW v \in Nat, NEW i \in 1..Cardinality(A)
  PROVE  HadBefore(order, GivenBy(order, s, v), i) = Least(v, HadBefore(order, s, i))
<1>1. PICK N \in Nat : N = Cardinality(A)
  BY OrderLemma
<1>2. DOMAIN order = 1..N /\ order \in [1..N -> A]
  BY <1>1, OrderLemma DEF IsOrder
<1>3. PICK by : by = GivenBy(order, s, v)
  OBVIOUS
<1>4. PICK st : st = [j \in 1..N |-> s[order[j]]]
  OBVIOUS
<1>5. PICK m : m = i - 1
  OBVIOUS
<1>6. m \in Nat /\ IsFiniteSet(1..m) /\ (\A j \in 1..m : j \in 1..N /\ st[j] \in Nat)
  <2>1. m \in Nat /\ m \in Int /\ \A j \in 1..m : j \in 1..N
    BY <1>1, <1>5
  <2>2. IsFiniteSet(1..m)
    BY <2>1, FirstFinite
  <2>3. \A j \in 1..N : st[j] \in Nat
    BY <1>2, <1>4
  <2> QED BY <2>1, <2>2, <2>3
<1>7. PICK tt : tt = [j \in 1..m |-> st[j]]
  OBVIOUS
<1>8. tt \in [1..m -> Nat] /\ \A j \in 1..m : tt[j] = st[j]
  BY <1>6, <1>7
<1>9. SumOf(Greedy(tt, v), 1..m) = Least(v, SumOf(tt, 1..m))
  BY <1>6, <1>8, GreedyLemma
<1>10. ASSUME NEW j \in Nat, j <= m PROVE SumOf(tt, 1..j) = SumOf(st, 1..j)
  <2>1. IsFiniteSet(1..j) /\ \A k \in 1..j : st[k] \in Int /\ tt[k] = st[k]
    <3>1. j \in Int /\ \A k \in 1..j : k \in 1..m
      BY <1>6, <1>10
    <3> QED BY <1>6, <1>8, <3>1, FirstFinite
  <2> QED BY <2>1, SumEqual
<1>11. SumOf(tt, 1..m) = HadBefore(order, s, i)
  <2>1. SumOf(tt, 1..m) = SumOf(st, 1..m)
    BY <1>6, <1>10
  <2> QED BY <1>2, <1>4, <1>5, <2>1 DEF HadBefore
<1>12. ASSUME NEW j \in 1..m PROVE Greedy(tt, v)[j] = by[order[j]] /\ by[order[j]] \in Int
  <2>1. j \in 1..Cardinality(A) /\ j - 1 \in Nat /\ j - 1 <= m
    BY <1>1, <1>6
  <2>2. SumOf(tt, 1..(j - 1)) = HadBefore(order, s, j)
    <3>1. SumOf(tt, 1..(j - 1)) = SumOf(st, 1..(j - 1))
      BY <1>10, <2>1
    <3> QED BY <1>2, <1>4, <3>1 DEF HadBefore
  <2>3. Greedy(tt, v)[j] = Least(v - Least(v, SumOf(tt, 1..(j - 1))), tt[j])
    BY <1>7 DEF Greedy
  <2>4. by[order[j]] = Least(Over(v, HadBefore(order, s, j)), s[order[j]])
    BY <1>3, <2>1, GivenByLemma
  <2>5. tt[j] = s[order[j]]
    BY <1>4, <1>6, <1>8
  <2>6. by \in [A -> Nat] /\ order[j] \in A
    BY <1>2, <1>3, <1>6, GivenByLemma
  <2> QED BY <2>2, <2>3, <2>4, <2>5, <2>6 DEF Over
<1>13. SumOf(Greedy(tt, v), 1..m) = HadBefore(order, by, i)
  <2>1. PICK h : h = [j \in DOMAIN order |-> by[order[j]]]
    OBVIOUS
  <2>2. PICK g : g = Greedy(tt, v)
    OBVIOUS
  <2>3. \A j \in 1..m : h[j] \in Int /\ g[j] = h[j]
    BY <1>2, <1>6, <1>12, <2>1, <2>2
  <2>4. SumOf(g, 1..m) = SumOf(h, 1..m)
    BY <1>6, <2>3, SumEqual
  <2> QED BY <1>5, <2>1, <2>2, <2>4 DEF HadBefore
<1> QED BY <1>3, <1>9, <1>11, <1>13

\* To give twice is to give both amounts at once.
LEMMA GivenTwice ==
  ASSUME NEW A, NEW order, IsOrder(order, A), NEW s \in [A -> Nat], NEW v \in Nat, NEW w \in Nat,
         NEW r, r = LeftOf(s, GivenBy(order, s, v))
  PROVE  \A a \in A : GivenBy(order, s, v)[a] + GivenBy(order, r, w)[a] = GivenBy(order, s, v + w)[a]
<1> SUFFICES ASSUME NEW a \in A
             PROVE  GivenBy(order, s, v)[a] + GivenBy(order, r, w)[a] = GivenBy(order, s, v + w)[a]
  OBVIOUS
<1>1. PICK by : by = GivenBy(order, s, v)
  OBVIOUS
<1>2. by \in [A -> Nat] /\ \A x \in A : by[x] <= s[x]
  BY <1>1, GivenByLemma
<1>3. r \in [A -> Nat] /\ \A x \in A : r[x] = s[x] - by[x]
  BY <1>1, <1>2 DEF LeftOf
<1>4. PICK i \in 1..Cardinality(A) : order[i] = a
  BY OrderLemma
<1>5. PICK h \in Nat : h = HadBefore(order, s, i)
  BY GivenByLemma
<1>6. HadBefore(order, by, i) = Least(v, h)
  BY <1>1, <1>5, GivenBefore
<1>7. HadBefore(order, r, i) = Over(h, v)
  <2>1. PICK gs : gs = [j \in DOMAIN order |-> s[order[j]]]
    OBVIOUS
  <2>2. PICK gb : gb = [j \in DOMAIN order |-> by[order[j]]]
    OBVIOUS
  <2>3. PICK gr : gr = [j \in DOMAIN order |-> r[order[j]]]
    OBVIOUS
  <2>4. i \in Nat /\ i <= Cardinality(A) /\ Cardinality(A) \in Nat
    BY OrderLemma
  <2>5. IsFiniteSet(1..(i - 1)) /\ \A j \in 1..(i - 1) : j \in DOMAIN order /\ order[j] \in A
    <3>1. DOMAIN order = 1..Cardinality(A) /\ order \in [1..Cardinality(A) -> A]
      BY OrderLemma DEF IsOrder
    <3>2. i - 1 \in Int /\ \A j \in 1..(i - 1) : j \in 1..Cardinality(A)
      BY <2>4
    <3> QED BY <3>1, <3>2, FirstFinite
  <2>6. ASSUME NEW j \in 1..(i - 1) PROVE gb[j] \in Int /\ gr[j] \in Int /\ gs[j] = gb[j] + gr[j]
    <3>1. PICK x \in A : j \in DOMAIN order /\ x = order[j]
      BY <2>5
    <3>2. gb[j] = by[x] /\ gr[j] = r[x] /\ gs[j] = s[x]
      BY <2>1, <2>2, <2>3, <3>1
    <3>3. by[x] \in Nat /\ r[x] \in Nat /\ s[x] \in Nat /\ r[x] = s[x] - by[x]
      BY <1>2, <1>3
    <3> QED BY <3>2, <3>3
  <2>7. SumOf(gs, 1..(i - 1)) = SumOf(gb, 1..(i - 1)) + SumOf(gr, 1..(i - 1))
    BY <2>5, <2>6, SumPlus
  <2>8. SumOf(gb, 1..(i - 1)) \in Int /\ SumOf(gr, 1..(i - 1)) \in Int
    <3>1. SumOf(gb, 1..(i - 1)) \in Int
      BY <2>5, <2>6, SumType
    <3>2. SumOf(gr, 1..(i - 1)) \in Int
      BY <2>5, <2>6, SumType
    <3> QED BY <3>1, <3>2
  <2>9. h = HadBefore(order, by, i) + HadBefore(order, r, i) /\ HadBefore(order, r, i) \in Int
    BY <1>5, <2>1, <2>2, <2>3, <2>7, <2>8 DEF HadBefore
  <2> QED BY <1>6, <2>9 DEF Over, Least
<1>8. by[a] = Least(Over(v, h), s[a])
  BY <1>1, <1>4, <1>5, GivenByLemma
<1>9. GivenBy(order, r, w)[a] = Least(Over(w, Over(h, v)), r[a])
  BY <1>3, <1>4, <1>7, GivenByLemma
<1>10. GivenBy(order, s, v + w)[a] = Least(Over(v + w, h), s[a])
  <2>1. PICK u \in Nat : u = v + w
    OBVIOUS
  <2>2. GivenBy(order, s, u)[a] = Least(Over(u, h), s[a])
    BY <1>4, <1>5, GivenByLemma
  <2> QED BY <2>1, <2>2
<1>11. PICK x \in Nat : x = s[a]
  OBVIOUS
<1>12. r[a] = x - by[a]
  BY <1>3, <1>11
<1>13. Least(Over(v, h), x) + Least(Over(w, Over(h, v)), x - Least(Over(v, h), x)) = Least(Over(v + w, h), x)
  BY <1>11 DEF Over, Least
<1> QED BY <1>1, <1>8, <1>9, <1>10, <1>11, <1>12, <1>13

-----------------------------------------------------------------------------
(* Outputs, to the unit                                                    *)

\* The reserve each address has, and what some addresses have together
Stores == [a \in DOMAIN poolReserves |-> Total(poolReserves[a])]
StoresOf(sources) == [i \in DOMAIN sources |-> Stores[sources[i]]]
Has(sources) == SumOf(StoresOf(sources), DOMAIN sources)

\* The amount kept of the liquid is the liquid there is, nothing is cold, and
\* every output made is worth its value.
Exact ==
  /\ nLiquidity = Total(Liquid) /\ frColdFees = Zero
  /\ \A o \in DOMAIN outs : Total(outs[o].fractions) = tx.vout[o].value

\* The total of fractions is a number.
LEMMA TotalIsNat ==
  ASSUME NEW f \in Fractions
  PROVE  Total(f) \in Nat
<1>1. \A k \in Indexes : f[k] \in Nat
  BY AmountType
<1> QED BY <1>1, TotalNat

\* Reserves are amounts.
LEMMA StoresType ==
  ASSUME PoolInv
  PROVE  Stores \in [DOMAIN poolReserves -> Nat] /\ IsFiniteSet(DOMAIN poolReserves)
<1>1. ASSUME NEW a \in DOMAIN poolReserves PROVE Total(poolReserves[a]) \in Nat
  <2>1. PICK f \in Fractions : f = poolReserves[a]
    BY DEF PoolInv, IsPool
  <2> QED BY <2>1, TotalIsNat
<1> QED BY <1>1 DEF Stores, PoolInv, IsPool

\* So are those of sources.
LEMMA SourcesLemma ==
  ASSUME PoolInv, NEW sources, IsListing(sources, DOMAIN poolReserves)
  PROVE  \E N \in Nat : /\ DOMAIN sources = 1..N /\ sources \in [1..N -> DOMAIN poolReserves]
                        /\ StoresOf(sources) \in [1..N -> Nat] /\ Has(sources) \in Nat
                        /\ StoresOf(sources) = [i \in 1..N |-> Total(poolReserves[sources[i]])]
                        /\ \A v \in Nat : SumOf(Greedy(StoresOf(sources), v), 1..N) = Least(v, Has(sources))
<1>1. PICK N \in Nat : sources \in [1..N -> DOMAIN poolReserves] /\ DOMAIN sources = 1..N
  <2>1. PICK s \in Seq(DOMAIN poolReserves) : s = sources
    BY DEF IsListing
  <2>2. Len(s) \in Nat /\ s \in [1..Len(s) -> DOMAIN poolReserves] /\ DOMAIN s = 1..Len(s)
    OBVIOUS
  <2> QED BY <2>1, <2>2
<1>2. PICK st : st = StoresOf(sources)
  OBVIOUS
<1>3. st \in [1..N -> Nat] /\ st = [i \in 1..N |-> Total(poolReserves[sources[i]])]
  <2>1. Stores \in [DOMAIN poolReserves -> Nat]
    BY StoresType
  <2> QED BY <1>1, <1>2, <2>1 DEF StoresOf, Stores
<1>4. SumOf(st, 1..N) \in Nat /\ \A v \in Nat : SumOf(Greedy(st, v), 1..N) = Least(v, SumOf(st, 1..N))
  BY <1>3, GreedyLemma
<1> QED BY <1>1, <1>2, <1>3, <1>4 DEF Has

\* An output that is refused has more beyond what its sources have than is liquid.
LEMMA FillRefused ==
  ASSUME Making, NEW sources, IsListing(sources, DOMAIN poolReserves), NEW mark,
         FillOutput(sources, Output.value, mark), phase' = "failed"
  PROVE  /\ Has(sources) \in Nat /\ Over(Output.value, Has(sources)) > nLiquidity
         /\ UNCHANGED <<tx, n, poolReserves, nLiquidity>>
<1>1. PICK N \in Nat : /\ DOMAIN sources = 1..N /\ Has(sources) \in Nat
                       /\ StoresOf(sources) = [i \in 1..N |-> Total(poolReserves[sources[i]])]
                       /\ \A v \in Nat : SumOf(Greedy(StoresOf(sources), v), 1..N) = Least(v, Has(sources))
  BY SourcesLemma DEF Making
<1>2. PICK v \in Nat : v = Output.value
  BY MakingLemma
<1>3. PICK stores : stores = StoresOf(sources)
  OBVIOUS
<1>4. stores = [i \in DOMAIN sources |-> Total(poolReserves[sources[i]])]
  BY <1>1, <1>3
<1>5. v - SumOf(Greedy(stores, v), DOMAIN sources) > nLiquidity /\ UNCHANGED <<tx, n, poolReserves, nLiquidity>>
  <2>1. FillOutput(sources, v, mark) /\ phase = "outputs"
    BY <1>2 DEF Making
  <2> QED BY <1>2, <1>4, <2>1 DEF FillOutput, Refuse, pools
<1> QED BY <1>1, <1>2, <1>3, <1>5 DEF Over

\* What a made output leaves of a reserve, position by position
LeavesStores(sources, v) ==
  /\ DOMAIN poolReserves' = DOMAIN poolReserves
  /\ \A i \in DOMAIN sources : Stores'[sources[i]] = Stores[sources[i]] - Greedy(StoresOf(sources), v)[i]
  /\ \A a \in DOMAIN poolReserves : (\A i \in DOMAIN sources : sources[i] # a) => Stores'[a] = Stores[a]

\* A step that makes an output exactly
MadeExactly(sources, v) ==
  /\ Has(sources) \in Nat /\ Over(v, Has(sources)) \in Nat
  /\ nLiquidity' = nLiquidity - Over(v, Has(sources)) /\ nLiquidity \in Nat /\ nLiquidity' \in Nat
  /\ LeavesStores(sources, v)
  /\ Exact'
  /\ n' = n + 1 /\ tx' = tx /\ supply' = supply /\ phase' = phase /\ poolFrozen' = poolFrozen

\* An output filled is worth its value.
LEMMA FillMade ==
  ASSUME Making, Exact, NEW sources, IsListing(sources, DOMAIN poolReserves), NEW mark,
         FillOutput(sources, Output.value, mark), phase' # "failed"
  PROVE  MadeExactly(sources, Output.value)
<1>1. PICK v \in Nat : v = Output.value
  BY MakingLemma
<1>2. PICK N \in Nat : /\ DOMAIN sources = 1..N /\ Has(sources) \in Nat /\ sources \in [1..N -> DOMAIN poolReserves]
                       /\ StoresOf(sources) = [i \in 1..N |-> Total(poolReserves[sources[i]])]
                       /\ \A u \in Nat : SumOf(Greedy(StoresOf(sources), u), 1..N) = Least(u, Has(sources))
  BY SourcesLemma DEF Making
<1>3. PICK st : st = StoresOf(sources)
  OBVIOUS
<1>4. PICK M, given, moved, rest, liquid, out : Filled(M, sources, v, mark, given, moved, rest, liquid, out)
  <2>1. v <= Output.value /\ FillOutput(sources, v, mark)
    BY <1>1
  <2> QED BY <2>1, FillFacts
<1>5. /\ M = N /\ given = Greedy(st, v) /\ given \in [1..N -> Nat] /\ \A i \in 1..N : Total(moved[i]) = given[i]
      /\ SumOf(given, 1..N) = Least(v, Has(sources))
      /\ rest \in Nat /\ rest = v - SumOf(given, 1..N) /\ ~ (rest > 0 /\ rest > nLiquidity)
      /\ liquid = MovedPart(frCommonLiquidity, rest) /\ out.fractions = Plus(SumAll(moved), liquid)
      /\ frCommonLiquidity' = Minus(frCommonLiquidity, liquid) /\ nLiquidity' = nLiquidity - rest
      /\ outs' = Append(outs, out) /\ frColdFees' = frColdFees
      /\ n' = n + 1 /\ tx' = tx /\ supply' = supply /\ phase' = phase /\ poolFrozen' = poolFrozen
  <2>1. M \in Nat /\ DOMAIN sources = 1..M
    BY <1>4 DEF Filled
  <2>2. M = N
    <3>1. 1..M = 1..N
      BY <1>2, <2>1
    <3>2. M <= N
      BY <3>1, <2>1
    <3>3. N <= M
      BY <3>1, <2>1
    <3> QED BY <2>1, <3>2, <3>3
  <2>3. given = Greedy([i \in 1..M |-> Total(poolReserves[sources[i]])], v)
    BY <1>4 DEF Filled
  <2>4. given = Greedy(st, v)
    BY <1>2, <1>3, <2>2, <2>3
  <2>5. SumOf(given, 1..N) = Least(v, Has(sources))
    BY <1>2, <1>3, <2>4
  <2> QED BY <1>1, <1>4, <2>2, <2>4, <2>5 DEF Filled
<1>6. Drawn(poolReserves, N, sources, moved, poolReserves')
  BY <1>4, <1>5 DEF Filled
<1>7. rest = Over(v, Has(sources))
  BY <1>5 DEF Over
<1>8. PICK g \in Fractions : g = frCommonLiquidity /\ Liquid = g
  BY DEF Making, PoolInv, Liquid
<1>9. nLiquidity = Total(g) /\ nLiquidity \in Nat /\ rest <= nLiquidity
  <2>1. nLiquidity = Total(g) /\ Total(g) \in Nat
    BY <1>8, TotalIsNat DEF Exact
  <2> QED BY <1>5, <2>1
<1>10. liquid \in Fractions /\ Total(liquid) = rest
  <2>1. MovedPart(g, rest) \in Fractions /\ Total(MovedPart(g, rest)) = Least(rest, Total(g))
    BY <1>5, MovedPartLemma
  <2>2. Least(rest, nLiquidity) = rest
    BY <1>5, <1>9, LeastLemma
  <2> QED BY <1>5, <1>8, <1>9, <2>1, <2>2
<1>11. Total(Minus(g, liquid)) = nLiquidity - rest
  <2>1. PICK l \in Fractions : l = liquid
    BY <1>10
  <2>2. \A i \in Indexes : g[i] \in Int /\ l[i] \in Int /\ Minus(g, l)[i] = g[i] - l[i]
    BY AmountType DEF Minus
  <2>3. Total(Minus(g, l)) = Total(g) - Total(l)
    BY <2>2, TotalMinus
  <2> QED BY <1>9, <1>10, <2>1, <2>3
<1>12. nLiquidity' = Total(Liquid)' /\ frColdFees' = Zero /\ nLiquidity' \in Nat
  <2>1. Liquid' = Minus(g, liquid)
    BY <1>5, <1>8 DEF Making, Liquid
  <2> QED BY <1>5, <1>9, <1>11, <2>1 DEF Exact
<1>13. moved \in [1..N -> Fractions] /\ IsFiniteSet(1..N)
  BY <1>6, FirstFinite DEF Drawn
<1>14. Total(out.fractions) = v
  <2>1. SumAll(moved) = SumOver(moved, 1..N)
    BY <1>13 DEF SumAll
  <2>2. Total(SumOver(moved, 1..N)) = SumOf([i \in 1..N |-> Total(moved[i])], 1..N)
    BY <1>13, TotalOfSum
  <2>3. [i \in 1..N |-> Total(moved[i])] = given
    BY <1>5
  <2>4. PICK r \in Fractions : r = SumAll(moved)
    BY <1>13, <2>1, SumOverAt
  <2>5. PICK l \in Fractions : l = liquid
    BY <1>10
  <2>6. \A i \in Indexes : r[i] \in Int /\ l[i] \in Int /\ Plus(r, l)[i] = r[i] + l[i]
    BY AmountType, PlusLemma
  <2>7. Total(Plus(r, l)) = Total(r) + Total(l)
    BY <2>6, TotalPlus
  <2>8. Total(r) = SumOf(given, 1..N)
    BY <2>1, <2>2, <2>3, <2>4
  <2>9. SumOf(given, 1..N) \in Nat
    BY <1>2, <1>5, LeastLemma
  <2> QED BY <1>5, <1>10, <2>4, <2>5, <2>7, <2>8, <2>9
<1>15. \A o \in DOMAIN outs' : Total(outs'[o].fractions) = tx'.vout[o].value
  <2>1. PICK q \in Seq(MadeOuts) : q = outs /\ Len(q) = n - 1 /\ n \in Nat \ {0}
    BY MakingLemma
  <2>2. /\ DOMAIN Append(q, out) = 1..n /\ Append(q, out)[n] = out
        /\ \A o \in 1..(n - 1) : Append(q, out)[o] = q[o] /\ o \in DOMAIN q
    BY <2>1
  <2>3. \A o \in DOMAIN q : Total(q[o].fractions) = tx.vout[o].value
    BY <2>1 DEF Exact
  <2>4. tx.vout[n].value = v
    BY <1>1 DEF Output
  <2> SUFFICES ASSUME NEW o \in 1..n PROVE Total(Append(q, out)[o].fractions) = tx.vout[o].value
    BY <1>5, <2>1, <2>2
  <2>5. CASE o = n
    BY <1>14, <2>2, <2>4, <2>5
  <2>6. CASE o # n
    <3>1. o \in 1..(n - 1)
      BY <2>1, <2>6
    <3> QED BY <2>2, <2>3, <3>1
  <2> QED BY <2>5, <2>6
<1>16. LeavesStores(sources, v)
  <2>1. /\ IsPool(poolReserves')
        /\ \A i \in 1..N : poolReserves'[sources[i]] = Minus(poolReserves[sources[i]], moved[i])
        /\ \A a \in DOMAIN poolReserves : a \notin {sources[i] : i \in 1..N} => poolReserves'[a] = poolReserves[a]
    BY <1>6, DrawnLemma
  <2>2. DOMAIN poolReserves' = DOMAIN poolReserves
    BY <1>6 DEF Drawn
  <2>3. ASSUME NEW i \in 1..N PROVE Stores'[sources[i]] = Stores[sources[i]] - given[i]
    <3>1. PICK f \in Fractions : f = poolReserves[sources[i]]
      BY <1>2 DEF Making, PoolInv, IsPool
    <3>2. PICK m \in Fractions : m = moved[i]
      BY <1>13
    <3>3. \A k \in Indexes : f[k] \in Int /\ m[k] \in Int /\ Minus(f, m)[k] = f[k] - m[k]
      BY AmountType DEF Minus
    <3>4. Total(Minus(f, m)) = Total(f) - Total(m)
      BY <3>3, TotalMinus
    <3>5. Stores[sources[i]] = Total(f) /\ Stores'[sources[i]] = Total(Minus(f, m))
      BY <1>2, <2>1, <2>2, <3>1, <3>2 DEF Stores
    <3> QED BY <1>5, <3>2, <3>4, <3>5
  <2>4. \A a \in DOMAIN poolReserves : (\A i \in 1..N : sources[i] # a) => Stores'[a] = Stores[a]
    BY <2>1, <2>2 DEF Stores
  <2> QED BY <1>2, <1>3, <1>5, <2>2, <2>3, <2>4 DEF LeavesStores
<1>17. Exact'
  BY <1>12, <1>15 DEF Exact
<1> QED BY <1>1, <1>2, <1>5, <1>7, <1>9, <1>12, <1>16, <1>17 DEF MadeExactly

\* Sources that are all there are give in their order.
LEMMA MadeInOrder ==
  ASSUME PoolInv, NEW D, D = DOMAIN poolReserves, NEW sources, IsOrder(sources, D), NEW v \in Nat, MadeExactly(sources, v)
  PROVE  /\ Has(sources) = SumOf(Stores, D) /\ DOMAIN poolReserves' = D
         /\ \A a \in D : Stores'[a] = Stores[a] - GivenBy(sources, Stores, v)[a]
<1>1. PICK s : s = Stores
  OBVIOUS
<1>2. s \in [D -> Nat] /\ IsFiniteSet(D)
  BY <1>1, StoresType
<1>3. PICK N \in Nat : N = Cardinality(D) /\ DOMAIN sources = 1..N /\ sources \in [1..N -> D]
  <2>1. Cardinality(D) \in Nat /\ DOMAIN sources = 1..Cardinality(D)
    BY OrderLemma
  <2>2. sources \in [1..Cardinality(D) -> D]
    BY DEF IsOrder
  <2> QED BY <2>1, <2>2
<1>4. PICK st : st = StoresOf(sources) /\ st = [i \in DOMAIN sources |-> s[sources[i]]]
  BY <1>1 DEF StoresOf
<1>5. Has(sources) = SumOf(s, D)
  <2>1. \A x \in D : s[x] \in Int
    BY <1>2
  <2>2. SumOf([j \in DOMAIN sources |-> s[sources[j]]], 1..Cardinality(D)) = SumOf(s, D)
    BY <2>1, SumInOrder
  <2> QED BY <1>3, <1>4, <2>2 DEF Has
<1>6. PICK g : g = Greedy(st, v)
  OBVIOUS
<1>7. ASSUME NEW i \in 1..N PROVE GivenBy(sources, s, v)[sources[i]] = g[i]
  <2>1. {j \in DOMAIN sources : sources[j] = sources[i]} = {i}
    BY <1>3 DEF IsOrder
  <2>2. GivenBy(sources, s, v)[sources[i]] = SumOf(g, {j \in DOMAIN sources : sources[j] = sources[i]})
    BY <1>2, <1>3, <1>4, <1>6 DEF GivenBy
  <2>3. g[i] \in Int
    <3>1. st \in [1..N -> Nat]
      BY <1>2, <1>3, <1>4
    <3>2. g \in [1..N -> Nat]
      BY <1>6, <3>1, GreedyLemma
    <3> QED BY <3>2
  <2> QED BY <2>1, <2>2, <2>3, SumOfOne
<1>8. DOMAIN poolReserves' = D /\ \A i \in 1..N : Stores'[sources[i]] = s[sources[i]] - g[i]
  BY <1>1, <1>3, <1>4, <1>6 DEF MadeExactly, LeavesStores
<1>9. ASSUME NEW a \in D PROVE Stores'[a] = s[a] - GivenBy(sources, s, v)[a]
  <2>1. PICK i \in 1..N : sources[i] = a
    BY <1>3, OrderLemma
  <2> QED BY <1>7, <1>8, <2>1
<1> QED BY <1>1, <1>5, <1>8, <1>9

\* One source gives what it has.
LEMMA MadeOfOwn ==
  ASSUME PoolInv, NEW a \in DOMAIN poolReserves, NEW v \in Nat, MadeExactly(<<a>>, v)
  PROVE  /\ Has(<<a>>) = Stores[a] /\ Stores'[a] = Stores[a] - Least(v, Stores[a])
         /\ \A b \in DOMAIN poolReserves : b # a => Stores'[b] = Stores[b]
<1>1. PICK s : s = Stores
  OBVIOUS
<1>2. PICK x \in Nat : x = s[a]
  BY <1>1, StoresType
<1>3. PICK q : q = <<a>>
  OBVIOUS
<1>4. DOMAIN q = {1} /\ q[1] = a
  BY <1>3
<1>5. PICK st : st = StoresOf(q) /\ DOMAIN st = {1} /\ st[1] = x
  <2>1. StoresOf(q) = [i \in DOMAIN q |-> s[q[i]]]
    BY <1>1 DEF StoresOf
  <2>2. DOMAIN StoresOf(q) = {1} /\ StoresOf(q)[1] = x
    BY <1>2, <1>4, <2>1
  <2> QED BY <2>2
<1>6. Has(q) = x
  <2>1. st[1] \in Int
    BY <1>5
  <2>2. SumOf(st, {1}) = st[1]
    BY <2>1, SumOfOne
  <2> QED BY <1>4, <1>5, <2>2 DEF Has
<1>7. Greedy(st, v)[1] = Least(v, x)
  <2>1. 1..(1 - 1) = {}
    OBVIOUS
  <2>2. SumOf(st, {}) = 0
    BY SumRecursion
  <2>3. Greedy(st, v)[1] = Least(v - Least(v, SumOf(st, 1..(1 - 1))), st[1])
    BY <1>5 DEF Greedy
  <2>4. Least(v, 0) = 0
    BY DEF Least
  <2>5. v - 0 = v
    OBVIOUS
  <2> QED BY <1>5, <2>1, <2>2, <2>3, <2>4, <2>5
<1>8. MadeExactly(q, v)
  BY <1>3
<1>9. Stores'[a] = s[a] - Greedy(st, v)[1]
  BY <1>1, <1>4, <1>5, <1>8 DEF MadeExactly, LeavesStores
<1>10. \A b \in DOMAIN poolReserves : b # a => Stores'[b] = s[b]
  BY <1>1, <1>4, <1>8 DEF MadeExactly, LeavesStores
<1> QED BY <1>1, <1>2, <1>3, <1>6, <1>7, <1>9, <1>10

\* Without sources all reserves stay.
LEMMA MadeOfNone ==
  ASSUME NEW v \in Nat, MadeExactly(<<>>, v)
  PROVE  Has(<<>>) = 0 /\ \A b \in DOMAIN poolReserves : Stores'[b] = Stores[b]
<1>1. PICK q : q = <<>>
  OBVIOUS
<1>2. DOMAIN q = {}
  BY <1>1
<1>3. Has(q) = 0
  BY <1>2, SumRecursion DEF Has
<1>4. MadeExactly(q, v)
  BY <1>1
<1> QED BY <1>1, <1>2, <1>3, <1>4 DEF MadeExactly, LeavesStores

-----------------------------------------------------------------------------
(* What is left for the outputs that follow                                *)

\* What the inputs brought is in the pools, or paid.
InPools ==
  /\ nLiquidity \in Nat /\ SumOf(Stores, DOMAIN poolReserves) \in Nat /\ SumOf(Values, 1..(n - 1)) \in Nat
  /\ ValueIn = nLiquidity + SumOf(Stores, DOMAIN poolReserves) + SumOf(Values, 1..(n - 1))
  /\ Total(txFeeFractions) = nLiquidity + SumOf(Stores, DOMAIN poolReserves)
  /\ IsPositive(txFeeFractions) /\ \A o \in DOMAIN outs : IsPositive(outs[o].fractions)
LEMMA LeftInPools ==
  ASSUME TxInv, PoolInv, FrozenInv, PhaseInv, BooksInv, Exact, Aside = Zero, phase = "outputs"
  PROVE  InPools
<1>1. outs \in Seq(MadeOuts) /\ Len(outs) = n - 1 /\ n <= Len(tx.vout) + 1 /\ n \in Nat \ {0}
  BY DEF PhaseInv
<1>2. DOMAIN tx.vout = 1..Len(tx.vout) /\ Len(tx.vout) \in Nat
  BY OutsLemma
<1>3. PICK D : D = 1..(n - 1)
  OBVIOUS
<1>4. D = DOMAIN outs /\ D \subseteq DOMAIN tx.vout /\ IsFiniteSet(D)
  <2>1. DOMAIN outs = 1..Len(outs)
    BY <1>1
  <2>2. n - 1 \in Int
    BY <1>1
  <2> QED BY <1>1, <1>2, <1>3, <2>1, <2>2, FirstFinite
<1>5. PICK made : made = FractionsOf(outs)
  OBVIOUS
<1>6. DOMAIN made = D /\ \A o \in D : made[o] = outs[o].fractions /\ made[o] \in Fractions
  <2>1. \A o \in 1..Len(outs) : FractionsOf(outs)[o] = outs[o].fractions /\ outs[o].fractions \in Fractions
    BY <1>1, MadeLemma
  <2> QED BY <1>1, <1>3, <1>4, <1>5, <2>1 DEF FractionsOf
<1>7. PICK M \in Fractions : M = Made
  BY PlacesLemma
<1>8. PICK values : values = Values
  OBVIOUS
<1>9. \A o \in D : values[o] = tx.vout[o].value /\ values[o] \in Nat
  BY <1>4, <1>8, PayTypes
<1>10. Total(M) = SumOf(values, D) /\ SumOf(values, D) \in Nat
  <2>1. M = SumOver(made, D)
    BY <1>5, <1>6, <1>7 DEF Made, SumAll
  <2>2. Total(SumOver(made, D)) = SumOf([o \in D |-> Total(made[o])], D)
    BY <1>4, <1>6, TotalOfSum
  <2>3. PICK g : g = [o \in D |-> Total(made[o])]
    OBVIOUS
  <2>4. \A o \in D : values[o] \in Int /\ g[o] = values[o]
    BY <1>4, <1>6, <1>9, <2>3 DEF Exact
  <2>5. SumOf(g, D) = SumOf(values, D)
    BY <1>4, <2>4, SumEqual
  <2>6. SumOf(values, D) \in Nat
    BY <1>4, <1>9, SumNat
  <2> QED BY <2>1, <2>2, <2>3, <2>5, <2>6
<1>11. PICK I \in Fractions : I = TakenSum
  BY PlacesLemma
<1>12. Total(I) = ValueIn
  <2>1. PICK T : T = DOMAIN tx.vin
    OBVIOUS
  <2>2. PICK ins : ins = FractionsOf(tx.vin)
    OBVIOUS
  <2>3. IsFiniteSet(T) /\ \A i \in T : ins[i] = tx.vin[i].fractions /\ ins[i] \in Fractions
    BY <2>1, <2>2, TakenLemma, PayTypes
  <2>4. I = SumOver(ins, T)
    BY <1>11, <2>1, <2>2 DEF TakenSum, TakenIns
  <2>5. Total(SumOver(ins, T)) = SumOf([i \in T |-> Total(ins[i])], T)
    BY <2>3, TotalOfSum
  <2>6. [i \in T |-> Total(ins[i])] = [i \in T |-> Total(tx.vin[i].fractions)]
    BY <2>3
  <2> QED BY <2>1, <2>4, <2>5, <2>6 DEF ValueIn
<1>13. PICK l \in Fractions : l = frCommonLiquidity
  BY DEF PoolInv
<1>14. PICK r \in Fractions : r = SumAll(poolReserves)
  BY PoolSum DEF PoolInv
<1>15. PICK fee \in Fractions : fee = txFeeFractions
  BY FeeType
<1>16. frColdFees = Zero /\ nLiquidity = Total(l)
  BY <1>13 DEF Exact, Liquid
<1>17. Total(r) = SumOf(Stores, DOMAIN poolReserves) /\ Total(r) \in Nat
  <2>1. PICK A : A = DOMAIN poolReserves
    OBVIOUS
  <2>2. IsFiniteSet(A) /\ \A a \in A : poolReserves[a] \in Fractions
    BY <2>1 DEF PoolInv, IsPool
  <2>3. Total(SumOver(poolReserves, A)) = SumOf([a \in A |-> Total(poolReserves[a])], A)
    BY <2>2, TotalOfSum
  <2> QED BY <1>14, <2>1, <2>3, TotalIsNat DEF SumAll, Stores
<1>18. \A k \in Indexes : l[k] \in Int /\ r[k] \in Int /\ M[k] \in Int /\ fee[k] = l[k] + r[k] /\ I[k] = fee[k] + M[k]
  <2> SUFFICES ASSUME NEW k \in Indexes
               PROVE  l[k] \in Int /\ r[k] \in Int /\ M[k] \in Int /\ fee[k] = l[k] + r[k] /\ I[k] = fee[k] + M[k]
    OBVIOUS
  <2>1. l[k] \in Int /\ r[k] \in Int /\ M[k] \in Int /\ fee[k] \in Int /\ Zero[k] = 0
    BY AmountType, ZeroLemma
  <2>2. fee[k] = l[k] + Zero[k] + r[k]
    BY <1>13, <1>14, <1>15, <1>16, FeeType
  <2>3. l[k] + r[k] + Zero[k] + M[k] + Zero[k] = I[k]
    BY <1>7, <1>11, <1>13, <1>14, <1>16 DEF BooksInv, Liquid, Reserve
  <2> QED BY <2>1, <2>2, <2>3
<1>19. Total(fee) = Total(l) + Total(r) /\ Total(I) = Total(fee) + Total(M)
  <2>1. Total(fee) = Total(l) + Total(r)
    BY <1>18, TotalPlus
  <2>2. \A k \in Indexes : fee[k] \in Int /\ M[k] \in Int /\ I[k] = fee[k] + M[k]
    BY <1>18
  <2>3. Total(I) = Total(fee) + Total(M)
    BY <2>2, TotalPlus
  <2> QED BY <2>1, <2>3
<1>20. Total(l) \in Nat
  BY TotalIsNat
<1>21. IsPositive(fee) /\ \A o \in D : IsPositive(made[o])
  BY <1>6, AmountType DEF IsPositive
<1> QED BY <1>3, <1>4, <1>6, <1>8, <1>10, <1>12, <1>15, <1>16, <1>17, <1>19, <1>20, <1>21 DEF InPools

-----------------------------------------------------------------------------
(* Plan and transaction                                                    *)

\* While the outputs are made nothing is set aside.
LEMMA NothingAside ==
  ASSUME Calling, PaidInv, phase = "outputs"
  PROVE  Aside = Zero
<1>1. PICK S : S = DOMAIN poolFrozen \ DOMAIN outs
  OBVIOUS
<1>2. PICK g : g = FractionsOf(poolFrozen)
  OBVIOUS
<1>3. IsFiniteSet(S) /\ \A o \in S : g[o] = Zero
  <2>1. call.kind \in {"L", "R"}
    BY CallFreezes, Zenon
  <2>2. CASE call.kind = "L"
    <3>1. poolFrozen = <<>>
      BY <2>2 DEF PaidInv
    <3>2. S = {}
      BY <1>1, <3>1, EmptyLemma
    <3> QED BY <3>2, FS_EmptySet
  <2>3. CASE call.kind = "R"
    <3>1. PICK at : at = call.at
      OBVIOUS
    <3>2. DOMAIN poolFrozen = {at} /\ poolFrozen[at].fractions = Zero
      BY <2>3, <3>1 DEF PaidInv, PaidReserve, FrozenAlone
    <3>3. S \subseteq {at} /\ IsFiniteSet({at})
      BY <1>1, <3>2, FS_Singleton
    <3> QED BY <1>2, <3>2, <3>3, FS_Subset DEF FractionsOf
  <2> QED BY <2>1, <2>2, <2>3
<1>4. \A k \in Indexes : SumOver(g, S)[k] = 0
  <2> SUFFICES ASSUME NEW k \in Indexes PROVE SumOver(g, S)[k] = 0
    OBVIOUS
  <2>1. \A o \in S : g[o][k] = 0
    BY <1>3, ZeroLemma
  <2> QED BY <1>3, <2>1, NoneInSum
<1>5. SumOver(g, S) = Zero
  BY <1>4 DEF SumOver, Zero
<1> QED BY <1>1, <1>2, <1>5 DEF Aside

\* What is summed up along the coins used, or along the inputs.
LEMMA InsSum ==
  ASSUME GoodCoins, NEW used \in SUBSET DOMAIN coins, NEW J \in SUBSET used, NEW g, \A c \in used : g[c] \in Int,
         NEW h, \A i \in 1..Cardinality(used) : h[i] = g[Sorted(used)[i]]
  PROVE  SumOf(h, {i \in 1..Cardinality(used) : Sorted(used)[i] \in J}) = SumOf(g, J)
<1>1. PICK s : s = Sorted(used)
  OBVIOUS
<1>2. PICK N \in Nat : N = Cardinality(used)
  BY SortedLemma
<1>3. s \in [1..N -> used] /\ (\A i, j \in 1..N : s[i] = s[j] => i = j) /\ {s[i] : i \in 1..N} = used
  BY <1>1, <1>2, SortedLemma
<1>4. PICK I : I = {i \in 1..N : s[i] \in J}
  OBVIOUS
<1>5. IsFiniteSet(I)
  <2>1. IsFiniteSet(1..N) /\ I \subseteq 1..N
    BY <1>4, FirstFinite
  <2> QED BY <2>1, FS_Subset
<1>6. {s[i] : i \in I} = J
  BY <1>3, <1>4
<1>7. (\A i, j \in I : s[i] = s[j] => i = j) /\ \A i \in I : g[s[i]] \in Int /\ h[i] = g[s[i]]
  BY <1>1, <1>2, <1>3, <1>4
<1>8. SumOf(h, I) = SumOf(g, {s[i] : i \in I})
  BY <1>5, <1>7, SumImage
<1> QED BY <1>1, <1>2, <1>4, <1>6, <1>8

\* The inputs of a call, and what they are worth.
LEMMA InsOfCall ==
  ASSUME Calling
  PROVE  /\ GoodCoins /\ call.used \in SUBSET DOMAIN coins /\ Cardinality(call.used) \in Nat
         /\ tx.vin = InsOf(call.used) /\ DOMAIN tx.vin = 1..Cardinality(call.used) /\ Len(tx.vin) = Cardinality(call.used)
         /\ \A i \in DOMAIN tx.vin : /\ Sorted(call.used)[i] \in call.used
                                     /\ tx.vin[i].address = coins[Sorted(call.used)[i]].address
                                     /\ tx.vin[i].fractions = coins[Sorted(call.used)[i]].fractions
         /\ ValueIn = SumOf([c \in call.used |-> Total(coins[c].fractions)], call.used)
         /\ supply = peglevel.nSupplyNext - peglevel.nBuffer
         /\ peglevel.nSupplyNext \in Indexes /\ peglevel.nBuffer \in 0..peglevel.nSupplyNext
<1>1. PICK used : used = call.used
  OBVIOUS
<1>2. GoodCoins /\ used \in SUBSET DOMAIN coins
  BY <1>1 DEF Calling, CallInv, CanUse
<1>3. PICK N \in Nat : N = Cardinality(used)
  BY <1>2, SortedLemma
<1>4. PICK s : s = Sorted(used)
  OBVIOUS
<1>5. /\ Len(InsOf(used)) = N /\ DOMAIN InsOf(used) = 1..N
      /\ \A i \in 1..N : s[i] \in used /\ InsOf(used)[i] = InOf(s[i])
  BY <1>2, <1>3, <1>4, InsLemma
<1>6. tx.vin = InsOf(used)
  BY <1>1 DEF Calling, TxOfCall
<1>7. /\ DOMAIN tx.vin = 1..N /\ Len(tx.vin) = N
      /\ \A i \in 1..N : s[i] \in used /\ tx.vin[i] = InOf(s[i])
  BY <1>5, <1>6
<1>8. \A c : InOf(c).address = coins[c].address /\ InOf(c).fractions = coins[c].fractions
  BY Zenon DEF InOf
<1>9. PICK g : g = [c \in used |-> Total(coins[c].fractions)]
  OBVIOUS
<1>10. PICK h : h = [i \in DOMAIN tx.vin |-> Total(tx.vin[i].fractions)]
  OBVIOUS
<1>11. \A c \in used : g[c] \in Int
  <2> SUFFICES ASSUME NEW c \in used PROVE g[c] \in Int
    OBVIOUS
  <2>1. PICK f \in Fractions : f = coins[c].fractions
    BY <1>2 DEF GoodCoins
  <2>2. Total(f) \in Nat
    BY TotalIsNat
  <2> QED BY <1>9, <2>1, <2>2
<1>12. \A i \in 1..Cardinality(used) : h[i] = g[Sorted(used)[i]]
  <2> SUFFICES ASSUME NEW i \in 1..N PROVE h[i] = g[s[i]]
    BY <1>3, <1>4
  <2>1. PICK c \in used : c = s[i] /\ tx.vin[i] = InOf(c)
    BY <1>7
  <2>2. h[i] = Total(tx.vin[i].fractions) /\ g[c] = Total(coins[c].fractions)
    BY <1>7, <1>9, <1>10
  <2>3. tx.vin[i].fractions = coins[c].fractions
    BY <1>8, <2>1, Zenon
  <2> QED BY <2>1, <2>2, <2>3
<1>13. SumOf(h, {i \in 1..Cardinality(used) : Sorted(used)[i] \in used}) = SumOf(g, used)
  BY <1>2, <1>11, <1>12, InsSum
<1>14. {i \in 1..Cardinality(used) : Sorted(used)[i] \in used} = DOMAIN tx.vin
  BY <1>3, <1>4, <1>7
<1>15. ValueIn = SumOf(g, used)
  BY <1>10, <1>13, <1>14 DEF ValueIn
<1>16. /\ supply = peglevel.nSupplyNext - peglevel.nBuffer
       /\ peglevel.nSupplyNext \in Indexes /\ peglevel.nBuffer \in 0..peglevel.nSupplyNext
  BY DEF Calling, TxOfCall, SessionInv
<1>17. \A i \in 1..N : /\ tx.vin[i].address = coins[s[i]].address /\ tx.vin[i].fractions = coins[s[i]].fractions
  BY <1>7, <1>8, Zenon
<1> QED BY <1>1, <1>2, <1>3, <1>4, <1>6, <1>7, <1>9, <1>15, <1>16, <1>17, Zenon

\* They are neither marked nor locked.
LEMMA InsPlain ==
  ASSUME Calling, NEW i \in DOMAIN tx.vin
  PROVE  tx.vin[i].mark = "" /\ tx.vin[i].locked = FALSE
<1>1. PICK used : used = call.used
  OBVIOUS
<1>2. GoodCoins /\ used \in SUBSET DOMAIN coins /\ tx.vin = InsOf(used)
  BY <1>1 DEF Calling, CallInv, CanUse, TxOfCall
<1>3. PICK c : tx.vin[i] = InOf(c)
  BY <1>2, InsLemma
<1>4. InOf(c).mark = "" /\ InOf(c).locked = FALSE
  BY Zenon DEF InOf
<1> QED BY <1>3, <1>4, Zenon

\* What the inputs can pay is a number.
LEMMA InputsNumber ==
  ASSUME NEW kind, NEW used, CanUse(kind, used)
  PROVE  InputsAmount(kind, used) \in Nat
<1>1. IsFiniteSet(used) /\ kind \in {"L", "R"}
  BY SortedLemma DEF CanUse
<1>2. PICK g : g = [c \in used |-> IF kind = "L" THEN Available("L", coins[c].fractions) ELSE Total(coins[c].fractions)]
  OBVIOUS
<1>3. \A c \in used : g[c] \in Nat
  <2> SUFFICES ASSUME NEW c \in used PROVE g[c] \in Nat
    OBVIOUS
  <2>1. PICK f \in Fractions : f = coins[c].fractions
    BY DEF CanUse, GoodCoins
  <2>2. Total(f) \in Nat /\ Available("L", f) \in Nat
    BY AvailableLemma DEF CanUse
  <2> QED BY <1>2, <2>1, <2>2
<1>4. SumOf(g, used) \in Nat
  BY <1>1, <1>3, SumNat
<1> QED BY <1>2, <1>4 DEF InputsAmount

\* The inputs can not pay for the notaries besides what is asked for.
Poor == ValueIn < call.amount + 1 + FreezeValue * (call.at - 1)
\* What the outputs up to the user's are worth, and what of it the change has to pay
Promised == Payout + FreezeValue * (call.at - 1)
LeftOver == Taken(call.kind, call.used, Payout).left
\* The plan fits what the inputs are worth.
PlanFits ==
  /\ ValueIn \in Nat /\ Promised \in Nat /\ LeftOver \in Nat
  /\ SumOf(call.plan.change, CallAddresses) \in Nat /\ SumOf(Untaken(call.kind, call.used, Payout), CallAddresses) \in Nat
  /\ SumOf(Untaken(call.kind, call.used, Payout), CallAddresses) = ValueIn - Promised + LeftOver
  /\ SumOf(call.plan.change, CallAddresses) + FeeRet + 1 + Promised = ValueIn
LEMMA PlanFitsLemma ==
  ASSUME Calling, ~ Poor
  PROVE  PlanFits
<1>1. PICK kind, used, A : kind = call.kind /\ used = call.used /\ A = CallAddresses
  OBVIOUS
<1>2. CanUse(kind, used) /\ call.amount \in Nat /\ FeeRet <= call.amount /\ call.amount <= InputsAmount(kind, used)
      /\ call.at = PayoutAt(kind, used) /\ call.plan = PlannedChange(kind, used, Payout) /\ A = AddressesOf(used)
  BY <1>1 DEF Calling, CallInv, Payout, CallAddresses
<1>3. PICK amount \in Nat : amount = Payout
  BY CallPlan DEF Calling
<1>4. FeeRet \in Nat /\ FreezeValue \in Nat /\ amount + FeeRet = call.amount
  BY <1>2, <1>3, FeeAssumption DEF Payout
<1>5. amount <= InputsAmount(kind, used)
  <2>1. InputsAmount(kind, used) \in Int
    BY <1>2, InputsNumber
  <2> QED BY <1>2, <1>4, <2>1
<1>6. PICK in : in = SumOf([c \in used |-> Total(coins[c].fractions)], used)
  OBVIOUS
<1>7. in = ValueIn
  BY <1>1, <1>6, InsOfCall
<1>8. PICK due : due = amount + FreezeValue * (PayoutAt(kind, used) - 1)
  OBVIOUS
<1>9. due = Promised
  BY <1>2, <1>3, <1>8 DEF Promised
<1>10. PICK p : p = PlannedChange(kind, used, amount)
  OBVIOUS
<1>11. PICK left : left = Taken(kind, used, amount).left
  OBVIOUS
<1>12. PICK before : before = Untaken(kind, used, amount)
  OBVIOUS
<1>13. /\ in \in Nat /\ due \in Nat /\ left \in Nat /\ SumOf(p.change, A) \in Nat /\ SumOf(p.reduced, A) \in Nat
       /\ SumOf(before, A) = in - due + left
       /\ SumOf(p.change, A) + SumOf(p.reduced, A) = SumOf(before, A)
       /\ SumOf(p.reduced, A) = Least(left + FeeRet + 1, SumOf(before, A))
  <2>1. /\ SumOf(before, A) = in - due + left /\ in \in Nat /\ due \in Nat /\ left \in Nat
        /\ SumOf(p.change, A) + SumOf(p.reduced, A) = SumOf(before, A)
        /\ SumOf(p.change, A) \in Nat /\ SumOf(p.reduced, A) \in Nat
        /\ SumOf(p.reduced, A) = Least(left + FeeRet + 1, SumOf(before, A))
    BY <1>2, <1>5, <1>6, <1>8, <1>10, <1>11, <1>12, PlanLemma
  <2> QED BY <2>1
<1>14. PICK d : d = FreezeValue * (call.at - 1)
  OBVIOUS
<1>15. due = amount + d /\ ~ (in < amount + FeeRet + 1 + d)
  BY <1>2, <1>4, <1>7, <1>8, <1>14 DEF Poor
<1>16. d \in Int
  BY <1>4, <1>14, CallPlan DEF Calling
<1>17. in >= due + FeeRet + 1
  BY <1>4, <1>13, <1>15, <1>16
<1>18. SumOf(before, A) >= left + FeeRet + 1 /\ SumOf(before, A) \in Nat
  BY <1>4, <1>13, <1>17
<1>19. SumOf(p.reduced, A) = left + FeeRet + 1
  BY <1>4, <1>13, <1>18 DEF Least
<1>20. SumOf(p.change, A) + FeeRet + 1 + due = in
  BY <1>4, <1>13, <1>19
<1> QED BY <1>1, <1>2, <1>3, <1>7, <1>9, <1>10, <1>11, <1>12, <1>13, <1>18, <1>20 DEF PlanFits, LeftOver

\* What the outputs are worth
OutsFit ==
  /\ Value(tx.vout) \in Nat /\ Value(tx.vout) <= ValueIn
  /\ step = "common" => ValueIn - Value(tx.vout) = FeeRet
LEMMA OutsFitLemma ==
  ASSUME Calling, ~ Poor
  PROVE  OutsFit
<1>1. PICK A : A = CallAddresses
  OBVIOUS
<1>2. PICK c : c = call.plan.change
  OBVIOUS
<1>3. PICK at \in Nat \ {0} : at = call.at
  BY CallPlan DEF Calling
<1>4. PICK amount \in Nat : amount = Payout
  BY CallPlan DEF Calling
<1>5. A \in SUBSET Nat /\ IsFiniteSet(A) /\ c \in [A -> Nat]
  BY <1>1, <1>2, CallPlan DEF Calling
<1>6. PICK d \in Nat : d = FreezeValue * (at - 1)
  <2>1. at - 1 \in Nat /\ FreezeValue \in Nat
    BY <1>3, FeeAssumption
  <2> QED BY <2>1
<1>7. PICK C \in Nat, in \in Nat : C = SumOf(c, A) /\ in = ValueIn /\ C + FeeRet + 1 + amount + d = in
  <2>1. PlanFits
    BY PlanFitsLemma
  <2>2. FeeRet \in Nat
    BY FeeAssumption
  <2> QED BY <1>1, <1>2, <1>3, <1>4, <1>6, <2>1, <2>2 DEF PlanFits, Promised
<1>8. FeeRet \in Nat
  BY FeeAssumption
<1>9. CASE step = "common"
  <2>1. tx.vout = OutsTo(at, amount, c)
    BY <1>2, <1>3, <1>4, <1>9 DEF Calling, TxOfCall
  <2>2. RawOuts(OutsTo(at, amount, c), at, amount, A, c, Cardinality({a \in A : c[a] > 0}))
    BY <1>5, OutsToLemma
  <2>3. Value(tx.vout) = d + amount + C + 1
    BY <1>6, <1>7, <2>1, <2>2 DEF RawOuts
  <2> QED BY <1>7, <1>8, <2>3 DEF OutsFit
<1>10. CASE step = "net"
  <2>1. PICK b, own : BackTo(b, own) /\ tx.vout = OutsTo(at, amount, b) \o PayEach(own)
    BY <1>3, <1>4, <1>10 DEF Calling, TxOfCall
  <2>2. b \in [A -> Nat] /\ own \in [A -> Nat] /\ SumOf(b, A) + SumOf(own, A) <= C + FeeRet
    BY <1>1, <1>2, <1>7, <2>1 DEF BackTo
  <2>3. PaysOut(tx.vout, at, amount, A, b, own, at + Cardinality({a \in A : b[a] > 0}) + 1)
    BY <1>5, <2>1, <2>2, PaysOutLemma
  <2>4. Value(tx.vout) = d + amount + SumOf(b, A) + 1 + SumOf(own, A)
    BY <1>6, <2>3 DEF PaysOut
  <2>5. SumOf(b, A) \in Nat /\ SumOf(own, A) \in Nat
    BY <1>5, <2>2, SumNat
  <2> QED BY <1>7, <1>8, <1>10, <2>2, <2>4, <2>5 DEF OutsFit
<1> QED BY <1>9, <1>10 DEF Calling

-----------------------------------------------------------------------------
(* The outputs of a call, one by one                                       *)

\* The sum of at most one amount.
LEMMA AtMostOne ==
  ASSUME NEW S, \A o, p \in S : o = p, NEW y \in Nat, NEW g, \A o \in S : g[o] = y
  PROVE  SumOf(g, S) \in Nat /\ SumOf(g, S) <= y /\ IsFiniteSet(S)
<1>1. CASE S = {}
  <2>1. SumOf(g, {}) = 0
    BY SumRecursion
  <2> QED BY <1>1, <2>1, FS_EmptySet
<1>2. CASE S # {}
  <2>1. PICK o : S = {o}
    BY <1>2
  <2>2. g[o] \in Int /\ g[o] = y
    BY <2>1
  <2>3. SumOf(g, {o}) = y
    BY <2>2, SumOfOne
  <2>4. SumOf(g, S) = y
    BY <2>1, <2>3
  <2>5. IsFiniteSet({o})
    BY FS_Singleton
  <2>6. IsFiniteSet(S)
    BY <2>1, <2>5
  <2>7. y <= y
    OBVIOUS
  <2> QED BY ONLY <2>4, <2>6, <2>7, y \in Nat
<1> QED BY <1>1, <1>2

\* Change and what comes after the exchange's notary send no more to an address
\* than they have for it.
LEMMA SentPlanned ==
  ASSUME TxInv, NEW at \in Nat \ {0}, NEW amount, NEW A, NEW c \in [A -> Nat], NEW own \in [A -> Nat], NEW x,
         PaysOut(tx.vout, at, amount, A, c, own, x), NEW a \in A,
         NEW S, S = {o \in DOMAIN tx.vout : o > at /\ o # x}
  PROVE  SentBy(a, S) \in Nat /\ SentBy(a, S) <= c[a] + own[a]
<1>1. PICK v : v = tx.vout
  OBVIOUS
<1>2. PICK L \in Nat : L = Len(v) /\ DOMAIN v = 1..L
  BY <1>1, OutsLemma
<1>3. x \in Nat /\ at < x /\ x <= L
  BY <1>1, <1>2 DEF PaysOut
<1>4. PICK g : g = Values
  OBVIOUS
<1>5. PICK T : T = {o \in (at + 1)..(x - 1) : v[o].address = a}
  OBVIOUS
<1>6. PICK U : U = {o \in (x + 1)..L : v[o].address = a}
  OBVIOUS
<1>7. \A o \in 1..L : g[o] = v[o].value
  BY <1>1, <1>2, <1>4, PayTypes
<1>8. SumOf(g, T) \in Nat /\ SumOf(g, T) <= c[a] /\ IsFiniteSet(T)
  <2>1. \A o, p \in T : o = p
    <3>1. \A o, p \in (at + 1)..(x - 1) : v[o].address = v[p].address => o = p
      BY <1>1, Zenon DEF PaysOut
    <3> QED BY ONLY <1>5, <3>1
  <2>2. ASSUME NEW o \in T PROVE g[o] = c[a]
    <3>5. \A p \in (at + 1)..(x - 1) : v[p] = Pay(v[p].address, c[v[p].address])
      BY <1>1, Zenon DEF PaysOut
    <3>6. at \in Nat
      OBVIOUS
    <3>7. o \in (at + 1)..(x - 1) /\ v[o].address = a
      BY ONLY <1>5, o \in T
    <3>8. o \in 1..L
      BY ONLY <1>2, <1>3, <3>6, <3>7
    <3>1. v[o] = Pay(a, c[a]) /\ o \in 1..L
      BY ONLY <3>5, <3>7, <3>8
    <3>2. PICK y : y = c[a]
      OBVIOUS
    <3>4. Pay(a, y).value = y
      BY PayFields, Zenon
    <3>3. v[o].value = c[a]
      BY ONLY <3>1, <3>2, <3>4
    <3> QED BY <1>7, <3>1, <3>3
  <2> QED BY <2>1, <2>2, AtMostOne
<1>9. SumOf(g, U) \in Nat /\ SumOf(g, U) <= own[a] /\ IsFiniteSet(U)
  <2>1. \A o, p \in U : o = p
    <3>1. \A o, p \in (x + 1)..Len(v) : v[o].address = v[p].address => o = p
      BY <1>1, Zenon DEF PaysOut
    <3> QED BY ONLY <1>2, <1>6, <3>1
  <2>2. ASSUME NEW o \in U PROVE g[o] = own[a]
    <3>5. \A p \in (x + 1)..Len(v) : v[p] = Pay(v[p].address, own[v[p].address])
      BY <1>1, Zenon DEF PaysOut
    <3>7. o \in (x + 1)..L /\ v[o].address = a
      BY ONLY <1>6, o \in U
    <3>8. o \in 1..L
      BY ONLY <1>2, <1>3, <3>7
    <3>1. v[o] = Pay(a, own[a]) /\ o \in 1..L
      BY ONLY <1>2, <3>5, <3>7, <3>8
    <3>2. PICK y : y = own[a]
      OBVIOUS
    <3>4. Pay(a, y).value = y
      BY PayFields, Zenon
    <3>3. v[o].value = own[a]
      BY ONLY <3>1, <3>2, <3>4
    <3> QED BY <1>7, <3>1, <3>3
  <2> QED BY <2>1, <2>2, AtMostOne
<1>10. {o \in S : tx.vout[o].address = a} = T \union U /\ T \intersect U = {}
  <2>1. at \in Nat /\ L \in Nat
    OBVIOUS
  <2>2. S = {o \in 1..L : o > at /\ o # x}
    BY <1>1, <1>2
  <2>3. \A o : o \in S <=> o \in (at + 1)..(x - 1) \/ o \in (x + 1)..L
    BY ONLY <1>3, <2>1, <2>2
  <2>4. \A o : o \in {p \in S : v[p].address = a} <=> o \in T \/ o \in U
    BY ONLY <1>5, <1>6, <2>3
  <2>5. \A o : ~ (o \in T /\ o \in U)
    BY ONLY <1>3, <1>5, <1>6, <2>1
  <2> QED BY <1>1, <2>4, <2>5
<1>11. \A o \in T \union U : g[o] \in Int
  <2>1. \A o \in 1..L : g[o] \in Int
    BY <1>1, <1>2, <1>4, PayTypes
  <2> QED BY <1>3, <1>5, <1>6, <2>1
<1>12. SumOf(g, T \union U) = SumOf(g, T) + SumOf(g, U)
  BY <1>8, <1>9, <1>10, <1>11, SumUnion
<1>13. SentBy(a, S) = SumOf(g, T \union U)
  BY <1>4, <1>10 DEF SentBy
<1> QED BY <1>8, <1>9, <1>12, <1>13

\* The outputs of a call: notaries, the user's at call.at, change and, at x, the
\* exchange's notary
CallOuts(x) ==
  /\ call.at \in Nat \ {0} /\ x \in Nat /\ call.at < x /\ x <= Len(tx.vout) /\ Len(tx.vout) \in Nat
  /\ DOMAIN tx.vout = 1..Len(tx.vout)
  /\ \A o \in 1..Len(tx.vout) : IsNotary(o) <=> o < call.at \/ o = x
  /\ \A o \in 1..Len(tx.vout) : o > call.at /\ o # x => tx.vout[o].address \in CallAddresses
  /\ \A o \in 1..(call.at - 1) : tx.vout[o] = Notary("F", FreezeValue, <<call.at, call.at, call.at>>)
  /\ tx.vout[call.at] = Pay(Payee, Payout) /\ tx.vout[x] = Notary("XCH", 1, <<>>)
  /\ step = "common" => x = Len(tx.vout)
  /\ \E c, own : BackTo(c, own) /\ PaysOut(tx.vout, call.at, Payout, CallAddresses, c, own, x)
LEMMA CallOutsLemma ==
  ASSUME Calling
  PROVE  \E x : CallOuts(x)
<1>1. PICK c, own, x : /\ BackTo(c, own) /\ PaysOut(tx.vout, call.at, Payout, CallAddresses, c, own, x)
                       /\ step = "common" => x = Len(tx.vout)
  BY OutsOfCall
<1>2. call.at \in Nat \ {0}
  BY CallPlan DEF Calling
<1>3. NotariesAt(tx.vout, call.at, CallAddresses, x)
  BY <1>1, <1>2, NotaryKinds
<1>4. DOMAIN tx.vout = 1..Len(tx.vout) /\ Len(tx.vout) \in Nat
  <2>1. TxInv
    BY DEF Calling, IInv, TxOfCall
  <2> QED BY <2>1, OutsLemma
<1>5. x \in Nat /\ call.at < x /\ x <= Len(tx.vout)
  BY <1>1 DEF PaysOut
<1>6. /\ \A o \in 1..(call.at - 1) : tx.vout[o] = Notary("F", FreezeValue, <<call.at, call.at, call.at>>)
      /\ tx.vout[call.at] = Pay(Payee, Payout) /\ tx.vout[x] = Notary("XCH", 1, <<>>)
  BY <1>1 DEF PaysOut
<1>7. /\ \A o \in 1..Len(tx.vout) : IsNotary(o) <=> o < call.at \/ o = x
      /\ \A o \in 1..Len(tx.vout) : o > call.at /\ o # x => tx.vout[o].address \in CallAddresses
  BY <1>3, Zenon DEF NotariesAt, IsNotary
<1> QED BY <1>1, <1>2, <1>4, <1>5, <1>6, <1>7, Zenon DEF CallOuts

-----------------------------------------------------------------------------
(* The inputs of a call                                                    *)

\* Each address has what its inputs brought.
ReservesKept == \A a \in Nat : Total(At(poolReserves, a, Zero)) = KeptBy(a, TakenIns)

\* What is set aside for the user's output of a reserve withdrawal: the last
\* input's address asked for it.
FrozenFor(a) ==
  LET f == poolFrozen[call.at] IN f.sAddress = a /\ f.fair = <<>> /\ ~ f.fIsColdOutput
FrozenLast ==
  call.kind = "R" /\ (phase # "inputs" \/ n # 1) =>
    FrozenFor(tx.vin[IF phase = "inputs" THEN n - 1 ELSE Len(tx.vin)].address)

\* An input that goes into the pools whole keeps what each address has.
LEMMA TakenWhole ==
  ASSUME Taking, ReservesKept, Exact, tx' = tx, supply' = supply, phase' = phase, outs' = outs, n' = n + 1,
         poolReserves' = ReserveWithInput, poolLiquidity' = LiquidityWithInput, frColdFees' = frColdFees,
         nLiquidity' = nLiquidity + High(Input.fractions, supply)
  PROVE  ReservesKept' /\ Exact'
<1>2. TxInv /\ phase = "inputs" /\ outs = <<>> /\ IsPool(poolReserves) /\ IsPool(poolLiquidity)
  BY DEF Taking, PhaseInv, PoolInv
<1>3. n \in 1..Len(tx.vin) /\ DOMAIN tx.vin = 1..Len(tx.vin) /\ Len(tx.vin) \in Nat
  BY <1>2, InputLemma, TakenLemma
<1>4. PICK T : T = 1..(n - 1)
  OBVIOUS
<1>5. T = TakenIns /\ T \union {n} = TakenIns' /\ T \in SUBSET DOMAIN tx.vin /\ n \in DOMAIN tx.vin \ T
  <2>1. T = TakenIns
    BY <1>2, <1>4 DEF TakenIns
  <2>2. TakenIns' = 1..((n + 1) - 1)
    BY <1>2 DEF TakenIns
  <2>3. T \union {n} = 1..((n + 1) - 1)
    BY <1>3, <1>4
  <2>4. T \in SUBSET DOMAIN tx.vin /\ n \in DOMAIN tx.vin \ T
    BY <1>3, <1>4
  <2> QED BY <2>1, <2>2, <2>3, <2>4
<1>8. PICK f \in Fractions : f = Input.fractions
  BY InputLemma
<1>9. PICK l \in Fractions : l = LowPart(f, supply)
  BY <1>8, InputLemma
<1>10. PICK h \in Fractions : h = HighPart(f, supply)
  BY <1>8, InputLemma
<1>11. PICK b \in Nat : b = Input.address
  BY InputLemma
<1>12. /\ Total(l) = Lows[n] /\ Total(h) = Highs[n] /\ Lows[n] \in Nat /\ Highs[n] \in Nat
       /\ High(Input.fractions, supply) = Highs[n] /\ tx.vin[n].address = b
  <2>1. supply \in 0..PegSize
    BY <1>2, PegSizeAssumption DEF TxInv, Indexes
  <2>2. \A k \in Indexes : f[k] \in Int
    BY AmountType
  <2>3. Total(LowPart(f, supply)) = Low(f, supply) /\ Total(HighPart(f, supply)) = High(f, supply)
    BY <2>1, <2>2, PartsLemma
  <2>4. Lows[n] = Low(f, supply) /\ Highs[n] = High(f, supply)
    BY <1>5, <1>8 DEF Lows, Highs, Input
  <2>5. Lows[n] \in Nat /\ Highs[n] \in Nat
    BY <1>2, <1>5, PayTypes
  <2> QED BY <1>8, <1>9, <1>10, <1>11, <2>3, <2>4, <2>5 DEF Input
<1>13. PICK r : r = ReserveWithInput
  OBVIOUS
<1>14. ASSUME NEW a \in Nat PROVE Total(At(r, a, Zero)) = KeptBy(a, T \union {n})
  <2>1. PICK k \in Nat : k = KeptBy(a, T)
    BY <1>2, <1>5, KeptLemma
  <2>2. KeptBy(a, T \union {n}) = k + IF b = a THEN Lows[n] ELSE 0
    BY <1>2, <1>5, <1>12, <2>1, KeptLemma
  <2>5. Total(At(poolReserves, a, Zero)) = k
    BY <1>5, <2>1 DEF ReservesKept
  <2>6. PICK map : map = poolReserves
    OBVIOUS
  <2>7. r = PutPlus(map, b, l)
    BY <1>8, <1>9, <1>11, <1>13, <2>6 DEF ReserveWithInput
  <2>8. /\ DOMAIN r = DOMAIN map \union {b} /\ \A c \in DOMAIN map : c # b => r[c] = map[c]
        /\ r[b] = Plus(At(map, b, Zero), l) /\ At(map, b, Zero) \in Fractions
    <3>1. IsPool(map)
      BY <1>2, <2>6
    <3>2. /\ DOMAIN PutPlus(map, b, l) = DOMAIN map \union {b}
          /\ \A c \in DOMAIN map : c # b => PutPlus(map, b, l)[c] = map[c]
          /\ PutPlus(map, b, l)[b] = Plus(At(map, b, Zero), l) /\ At(map, b, Zero) \in Fractions
      BY <3>1, PutPlusLemma
    <3> QED BY <2>7, <3>2
  <2>9. CASE a = b
    <3>1. PICK g \in Fractions : g = At(map, b, Zero)
      BY <2>8
    <3>2. \A j \in Indexes : g[j] \in Int /\ l[j] \in Int /\ Plus(g, l)[j] = g[j] + l[j]
      BY AmountType, PlusLemma
    <3>3. Total(Plus(g, l)) = Total(g) + Total(l)
      BY <3>2, TotalPlus
    <3>4. At(r, a, Zero) = Plus(g, l)
      BY <2>8, <2>9, <3>1 DEF At
    <3>5. Total(At(r, a, Zero)) = k + Lows[n]
      BY <1>12, <2>5, <2>6, <2>9, <3>1, <3>3, <3>4
    <3> QED BY <2>2, <2>9, <3>5
  <2>10. CASE a # b
    <3>1. At(r, a, Zero) = At(map, a, Zero)
      BY <2>8, <2>10 DEF At
    <3>2. KeptBy(a, T \union {n}) = k
      BY <2>2, <2>10
    <3> QED BY <2>5, <2>6, <3>1, <3>2
  <2> QED BY <2>9, <2>10
<1>19. PICK liquid : liquid = SumAll(LiquidityWithInput)
  OBVIOUS
<1>20. liquid = Liquid'
  BY <1>2, <1>19 DEF Liquid
<1>21. Total(liquid) = nLiquidity'
  <2>1. PICK map : map = poolLiquidity
    OBVIOUS
  <2>2. SumAll(PutPlus(map, b, h)) = Plus(SumAll(map), h)
    BY <1>2, <2>1, PutPlusLemma
  <2>3. PICK g \in Fractions : g = SumAll(map)
    BY <1>2, <2>1, PoolSum
  <2>4. liquid = Plus(g, h)
    BY <1>8, <1>10, <1>11, <1>19, <2>1, <2>2, <2>3 DEF LiquidityWithInput
  <2>5. \A j \in Indexes : g[j] \in Int /\ h[j] \in Int /\ Plus(g, h)[j] = g[j] + h[j]
    BY AmountType, PlusLemma
  <2>6. Total(Plus(g, h)) = Total(g) + Total(h)
    BY <2>5, TotalPlus
  <2>7. Total(g) = nLiquidity
    BY <1>2, <2>1, <2>3 DEF Exact, Liquid
  <2> QED BY <1>12, <2>4, <2>6, <2>7
<1>22. ReservesKept'
  <2>1. ASSUME NEW a \in Nat PROVE Total(At(poolReserves', a, Zero)) = KeptBy(a, TakenIns')
    BY <1>5, <1>13, <1>14
  <2>2. \A a : KeptBy(a, TakenIns)' = KeptBy(a, TakenIns')
    BY DEF KeptBy, Lows
  <2> QED BY <2>1, <2>2 DEF ReservesKept
<1>23. Exact'
  BY <1>2, <1>20, <1>21 DEF Exact
<1> QED BY <1>22, <1>23

\* An input of a liquid withdrawal is taken as it is.
LEMMA LiquidInput ==
  ASSUME Taking, FreezesNothing, \A i \in DOMAIN tx.vin : tx.vin[i].locked = FALSE
  PROVE  ~ RefuseInput /\ ~ TakeColdInput /\ ~ FreezeShared /\ ~ FreezeOne
<1>1. n \in DOMAIN tx.vin
  BY InputLemma, TakenLemma DEF Taking
<1>2. Input.locked = FALSE
  BY <1>1 DEF Input
<1>3. ~ IsCold
  BY <1>1 DEF FreezesNothing, IsCold, Input
<1>4. ~ IsFreezing
  <2> SUFFICES ASSUME IsFreezing PROVE FALSE
    OBVIOUS
  <2>1. n \in DOMAIN tx.vout
    BY PlaceLemma DEF IsFreezing, Taking, PhaseInv
  <2> QED BY <2>1 DEF FreezesNothing, IsFreezing, Place
<1>5. ~ (IsLocked \/ BadNotary \/ ShortNotary \/ ColdTaken \/ ColdCrossed)
  BY <1>2, <1>3, <1>4, Zenon DEF IsLocked, BadNotary, ShortNotary, ColdTaken, ColdCrossed
<1> QED BY <1>3, <1>4, <1>5, Zenon DEF RefuseInput, Refuse, TakeColdInput, FreezeShared, FreezeOne

\* The user's output is marked by an input.
MarkedBy(at, a) == poolFrozen[at].sAddress = a /\ poolFrozen[at].fair = <<>> /\ ~ poolFrozen[at].fIsColdOutput

\* An input of a reserve withdrawal marks the user's output.
LEMMA ReserveInput ==
  ASSUME Taking, NEW at, FreezesOnly(at), n = 1 => poolFrozen = <<>>,
         n # 1 => FrozenAlone(at) /\ \E a : MarkedBy(at, a),
         \A i \in DOMAIN tx.vin : tx.vin[i].locked = FALSE
  PROVE  /\ ~ RefuseInput /\ ~ TakeColdInput /\ ~ TakeInput /\ ~ FreezeOne
         /\ FreezeShared => \A a : a = Input.address => MarkedBy(at, a)'
<1>1. n \in DOMAIN tx.vin /\ n \in Nat \ {0} /\ DOMAIN tx.vin = 1..Len(tx.vin) /\ Len(tx.vin) \in Nat
  BY InputLemma, TakenLemma DEF Taking
<1>2. n \in DOMAIN tx.vout /\ n <= Len(tx.vout) /\ at \in DOMAIN tx.vout /\ at # n
  <2>1. DOMAIN tx.vout = 1..Len(tx.vout) /\ Len(tx.vout) \in Nat
    BY OutsLemma DEF Taking
  <2> QED BY <1>1, <2>1 DEF FreezesOnly
<1>3. Place.notary = "F" /\ Place.refs = <<at, at, at>>
  BY <1>1 DEF FreezesOnly, Place
<1>4. ~ IsCold /\ IsFreezing
  BY <1>1, <1>2, <1>3 DEF FreezesOnly, IsCold, IsFreezing, Input, Freezes, HasPlace
<1>5. SharedFreeze /\ Len(Place.refs) = 3 /\ Place.refs # <<>>
  <2>1. Len(<<at, at, at>>) > 1 /\ Len(<<at, at, at>>) = 3 /\ <<at, at, at>> # <<>>
    OBVIOUS
  <2> QED BY <1>3, <2>1 DEF SharedFreeze
<1>6. ~ TakeInput /\ ~ TakeColdInput /\ ~ FreezeOne
  BY <1>4, <1>5 DEF TakeInput, TakeColdInput, FreezeOne
<1>7. Named = {at}
  <2>1. PICK r : r = <<at, at, at>>
    OBVIOUS
  <2>2. DOMAIN r = 1..3 /\ r[1] = at /\ r[2] = at /\ r[3] = at
    BY <2>1
  <2>3. \A i \in 1..3 : i = 1 \/ i = 2 \/ i = 3
    OBVIOUS
  <2>4. {r[i] : i \in DOMAIN r} = {at}
    BY <2>2, <2>3
  <2> QED BY <1>3, <2>1, <2>4 DEF Named
<1>8. PICK old : old = At(poolFrozen, at, Unfrozen)
  OBVIOUS
<1>9. old \in FrozenOuts /\ old.fair = <<>> /\ ~ old.fIsColdOutput
  <2>1. CASE n = 1
    <3>1. poolFrozen = <<>> /\ DOMAIN <<>> = {}
      BY <2>1, EmptyLemma
    <3>2. old = Unfrozen
      BY <1>8, <3>1 DEF At
    <3>3. ~ Unfrozen.fIsColdOutput
      BY Zenon DEF Unfrozen
    <3> QED BY <3>2, <3>3, UnfrozenLemma
  <2>2. CASE n # 1
    <3>1. FrozenAlone(at) /\ \E a : MarkedBy(at, a)
      BY <2>2
    <3>2. at \in DOMAIN poolFrozen /\ old = poolFrozen[at]
      BY <1>8, <3>1 DEF FrozenAlone, At
    <3>3. poolFrozen[at] \in FrozenOuts
      BY <3>2 DEF Taking, FrozenInv, GoodFrozen
    <3> QED BY <3>1, <3>2, <3>3 DEF MarkedBy
  <2> QED BY <2>1, <2>2
<1>12. old.mark \in {"", "F"}
  <2>1. CASE n = 1
    <3>1. poolFrozen = <<>> /\ DOMAIN <<>> = {}
      BY <2>1, EmptyLemma
    <3>2. old = Unfrozen
      BY <1>8, <3>1 DEF At
    <3>3. Unfrozen.mark = ""
      BY Zenon DEF Unfrozen
    <3> QED BY <3>2, <3>3, Zenon
  <2>2. CASE n # 1
    <3>1. FrozenAlone(at)
      BY <2>2
    <3>2. at \in DOMAIN poolFrozen /\ old = poolFrozen[at]
      BY <1>8, <3>1 DEF FrozenAlone, At
    <3>3. old.mark = "F"
      BY <3>1, <3>2 DEF FrozenAlone
    <3> QED BY <3>3, Zenon
  <2> QED BY <2>1, <2>2, Zenon
<1>10. ~ RefuseInput
  <2>1. Input.locked = FALSE
    BY <1>1 DEF Input
  <2>2. ~ IsLocked
    BY <2>1 DEF IsLocked
  <2>3. ~ BadNotary
    <3>1. n \notin Named /\ Named \subseteq DOMAIN tx.vout
      BY <1>2, <1>7
    <3>2. \A o \in Named : ~ At(poolFrozen, o, Unfrozen).fIsColdOutput
      BY <1>7, <1>8, <1>9
    <3>3. \A o \in Named : At(poolFrozen, o, Unfrozen).mark \in {"", Place.notary}
      BY <1>3, <1>7, <1>8, <1>12, Zenon
    <3>4. Place.notary # "C"
      BY <1>3
    <3> QED BY <1>4, <1>5, <3>1, <3>2, <3>3, <3>4, Zenon DEF BadNotary
  <2>4. ~ ShortNotary /\ ~ ColdTaken /\ ~ ColdCrossed
    <3>1. Len(Place.refs) # 1
      BY <1>5
    <3> QED BY <1>4, <3>1, Zenon DEF ShortNotary, ColdTaken, ColdCrossed
  <2> QED BY <2>2, <2>3, <2>4 DEF RefuseInput, Refuse
<1>11. ASSUME FreezeShared, NEW a, a = Input.address PROVE MarkedBy(at, a)'
  <2>1. poolFrozen' = MarkedFrozen
    BY <1>11 DEF FreezeShared
  <2>2. PICK both : both = {Place.refs[1], Place.refs[2]}
    OBVIOUS
  <2>3. PICK pair : pair = (Len(Place.refs) = 2)
    OBVIOUS
  <2>4. MarkedFrozen[at] = [old EXCEPT !.nValue = tx.vout[at].value, !.sAddress = a, !.mark = Place.notary,
                                       !.fair = IF pair /\ at = Min(both) THEN <<at, Max(both)>> ELSE @]
    BY <1>7, <1>8, <1>11, <2>2, <2>3 DEF MarkedFrozen
  <2>5. ~ pair
    <3>1. Len(Place.refs) # 2
      BY <1>5
    <3> QED BY <2>3, <3>1, Zenon
  <2>6. MarkedFrozen[at].sAddress = a /\ MarkedFrozen[at].fair = <<>> /\ ~ MarkedFrozen[at].fIsColdOutput
    BY <1>9, <2>4, <2>5 DEF FrozenOuts
  <2> QED BY <2>1, <2>6 DEF MarkedBy
<1> QED BY <1>6, <1>10, <1>11

\* Every input of a call is taken, and leaves each address what it brought.
LEMMA InputsKept ==
  ASSUME Calling, PaidInv, Exact, FrozenLast, ReservesKept, phase = "inputs", n <= Len(tx.vin), Next,
         UNCHANGED <<step, books, call>>
  PROVE  phase' = "inputs" /\ Exact' /\ ReservesKept' /\ FrozenLast'
<1>1. IInv /\ tx.reward = Null
  BY DEF Calling, TxOfCall
<1>2. TxInv /\ Sound
  BY <1>1 DEF IInv, Sound
<1>3. Taking
  BY <1>2 DEF Taking, Sound
<1>4. (call.kind = "L" => FreezesNothing) /\ (call.kind = "R" => FreezesOnly(call.at)) /\ call.kind \in {"L", "R"}
  BY CallFreezes, Zenon
<1>5. \A i \in DOMAIN tx.vin : tx.vin[i].locked = FALSE
  BY InsPlain, Zenon
<1>6. (call.kind = "L" => poolFrozen = <<>>) /\ (call.kind = "R" => PaidReserve(call.at))
  BY DEF PaidInv
<1>7. n \in Nat \ {0}
  BY <1>3, InputLemma
<1>8. /\ ~ ShareLiquidity /\ ~ PlainOutput /\ ~ FrozenOutput /\ ~ SharedFrozenOutput /\ ~ SharedVoluntaryOutput
      /\ ~ SharedEmptyOutput /\ ~ Finish /\ ~ CalculateStakingFractions
  <2>1. ~ (n > Len(tx.vin))
    BY <1>3, <1>7, InputLemma DEF Taking, TxInv
  <2>2. phase # "outputs" /\ phase # "stake"
    OBVIOUS
  <2> QED BY <2>1, <2>2, Zenon DEF ShareLiquidity, PlainOutput, FrozenOutput, SharedFrozenOutput, SharedVoluntaryOutput,
                               SharedEmptyOutput, Finish, CalculateStakingFractions
<1>9. RefuseInput \/ TakeInput \/ TakeColdInput \/ FreezeShared \/ FreezeOne
  BY <1>8, Zenon DEF Next
<1>10. PICK a : a = Input.address
  OBVIOUS
<1>11. CASE call.kind = "L"
  <2>1. TakeInput
    BY <1>3, <1>4, <1>5, <1>9, <1>11, LiquidInput
  <2>2. /\ poolReserves' = ReserveWithInput /\ poolLiquidity' = LiquidityWithInput
        /\ nLiquidity' = nLiquidity + High(Input.fractions, supply)
        /\ n' = n + 1 /\ tx' = tx /\ supply' = supply /\ phase' = phase /\ outs' = outs /\ frColdFees' = frColdFees
    BY <2>1 DEF TakeInput, InputTaken
  <2>3. ReservesKept' /\ Exact'
    BY <1>3, <2>2, TakenWhole
  <2>4. call' # call \/ call'.kind # "R"
    BY <1>11
  <2>5. FrozenLast'
    BY <1>11 DEF FrozenLast
  <2> QED BY <2>2, <2>3, <2>5
<1>12. CASE call.kind = "R"
  <2>1. /\ FreezesOnly(call.at) /\ (n = 1 => poolFrozen = <<>>)
        /\ n # 1 => FrozenAlone(call.at) /\ MarkedBy(call.at, tx.vin[n - 1].address)
    BY <1>4, <1>6, <1>12 DEF PaidReserve, FrozenLast, FrozenFor, MarkedBy
  <2>2. PICK at : at = call.at
    OBVIOUS
  <2>3. /\ FreezesOnly(at) /\ (n = 1 => poolFrozen = <<>>)
        /\ n # 1 => FrozenAlone(at) /\ \E b : MarkedBy(at, b)
    BY <2>1, <2>2
  <2>4. /\ ~ RefuseInput /\ ~ TakeColdInput /\ ~ TakeInput /\ ~ FreezeOne
        /\ FreezeShared => \A b : b = Input.address => MarkedBy(at, b)'
    BY <1>3, <1>5, <2>3, ReserveInput
  <2>5. FreezeShared
    BY <1>9, <2>4
  <2>6. /\ poolReserves' = ReserveWithInput /\ poolLiquidity' = LiquidityWithInput
        /\ nLiquidity' = nLiquidity + High(Input.fractions, supply)
        /\ n' = n + 1 /\ tx' = tx /\ supply' = supply /\ phase' = phase /\ outs' = outs /\ frColdFees' = frColdFees
    BY <2>5 DEF FreezeShared, InputTaken
  <2>7. ReservesKept' /\ Exact'
    BY <1>3, <2>6, TakenWhole
  <2>8. MarkedBy(at, a)'
    BY <1>10, <2>4, <2>5
  <2>9. FrozenFor(a)'
    BY <2>2, <2>8 DEF MarkedBy, FrozenFor
  <2>10. tx'.vin[n' - 1].address = a
    BY <1>7, <1>10, <2>6 DEF Input
  <2>11. phase' = "inputs"
    BY <2>6
  <2>12. FrozenLast'
    BY <2>9, <2>10, <2>11 DEF FrozenLast, FrozenFor
  <2> QED BY <2>7, <2>11, <2>12
<1> QED BY <1>4, <1>11, <1>12

-----------------------------------------------------------------------------
(* What each address has for the outputs                                   *)

\* What the plan takes each address to have: what counts of its coins as
\* reserve, or is not liquid; and what m notaries leave of that
PlanFirst ==
  IF call.kind = "L" THEN LeftOf(InputAt(call.used), AvailableAt("L", call.used)) ELSE AvailableAt("R", call.used)
PlanStores(m) == LeftOf(PlanFirst, GivenBy(Ascending(CallAddresses), PlanFirst, FreezeValue * m))

\* There is no less reserve by a higher index.
LEMMA LowGrows ==
  ASSUME NEW f \in Fractions, NEW s \in Indexes, NEW t \in Indexes, s <= t
  PROVE  /\ Low(f, s) \in Nat /\ Low(f, t) \in Nat /\ High(f, s) \in Nat /\ Low(f, s) <= Low(f, t)
         /\ Low(f, s) + High(f, s) = Total(f)
<1>1. s \in 0..PegSize /\ t \in 0..PegSize
  BY PegSizeAssumption DEF Indexes
<1>2. \A k \in Indexes : f[k] \in Nat /\ f[k] \in Int
  BY AmountType
<1>3. Low(f, s) \in Nat /\ Low(f, t) \in Nat /\ High(f, s) \in Nat
  BY <1>1, <1>2, TotalNat
<1>4. Low(f, s) + High(f, s) = Total(f) /\ Total(LowPart(f, s)) = Low(f, s) /\ Total(LowPart(f, t)) = Low(f, t)
  BY <1>1, <1>2, PartsLemma
<1>5. PICK x : x = LowPart(f, s)
  OBVIOUS
<1>6. PICK y : y = LowPart(f, t)
  OBVIOUS
<1>7. \A k \in Indexes : x[k] \in Int /\ y[k] \in Int /\ x[k] <= y[k]
  BY <1>1, <1>2, <1>5, <1>6 DEF LowPart, Indexes
<1>8. SumOf(x, Indexes) <= SumOf(y, Indexes)
  BY <1>7, IndexesFinite, SumMonotone
<1>9. Total(x) = SumOf(x, Indexes) /\ Total(y) = SumOf(y, Indexes)
  BY <1>7, TotalType
<1> QED BY <1>3, <1>4, <1>5, <1>6, <1>8, <1>9

\* What the inputs of an address bring of reserve, coin by coin.
LEMMA KeptIs ==
  ASSUME Calling, NEW a
  PROVE  KeptBy(a, DOMAIN tx.vin)
           = SumOf([c \in call.used |-> Low(coins[c].fractions, supply)], {c \in call.used : coins[c].address = a})
<1>1. PICK used : used = call.used
  OBVIOUS
<1>2. /\ GoodCoins /\ used \in SUBSET DOMAIN coins /\ DOMAIN tx.vin = 1..Cardinality(used)
      /\ \A i \in DOMAIN tx.vin : /\ Sorted(used)[i] \in used
                                  /\ tx.vin[i].address = coins[Sorted(used)[i]].address
                                  /\ tx.vin[i].fractions = coins[Sorted(used)[i]].fractions
  BY <1>1, InsOfCall
<1>3. PICK g : g = [c \in used |-> Low(coins[c].fractions, supply)]
  OBVIOUS
<1>4. PICK h : h = Lows
  OBVIOUS
<1>5. PICK J : J = {c \in used : coins[c].address = a}
  OBVIOUS
<1>6. J \in SUBSET used
  BY <1>5
<1>7. supply \in Indexes
  BY DEF Calling, IInv, TxOfCall, TxInv
<1>8. \A c \in used : g[c] \in Int
  <2> SUFFICES ASSUME NEW c \in used PROVE g[c] \in Int
    OBVIOUS
  <2>1. PICK f \in Fractions : f = coins[c].fractions
    BY <1>2 DEF GoodCoins
  <2>3. PICK s \in Indexes : s = supply
    BY <1>7
  <2>4. s <= s
    BY DEF Indexes
  <2>2. Low(f, s) \in Nat
    BY <2>4, LowGrows
  <2> QED BY <1>3, <2>1, <2>2, <2>3
<1>9. \A i \in 1..Cardinality(used) : h[i] = g[Sorted(used)[i]]
  BY <1>2, <1>3, <1>4 DEF Lows
<1>10. SumOf(h, {i \in 1..Cardinality(used) : Sorted(used)[i] \in J}) = SumOf(g, J)
  BY <1>2, <1>6, <1>8, <1>9, InsSum
<1>11. {i \in 1..Cardinality(used) : Sorted(used)[i] \in J} = {i \in DOMAIN tx.vin : tx.vin[i].address = a}
  BY <1>2, <1>5
<1> QED BY <1>1, <1>3, <1>4, <1>5, <1>10, <1>11 DEF KeptBy

\* The plan's stores are numbers, and no more than what the addresses have.
LEMMA PlanFirstLemma ==
  ASSUME Calling
  PROVE  /\ PlanFirst \in [CallAddresses -> Nat] /\ InputAt(call.used) \in [CallAddresses -> Nat]
         /\ \A a \in CallAddresses : /\ PlanFirst[a] <= InputAt(call.used)[a]
                                     /\ KeptBy(a, DOMAIN tx.vin) <= PlanFirst[a]
<1>1. PICK used : used = call.used
  OBVIOUS
<1>2. PICK A : A = CallAddresses
  OBVIOUS
<1>3. PICK next : next = peglevel.nSupplyNext
  OBVIOUS
<1>4. GoodCoins /\ used \in SUBSET DOMAIN coins /\ IsFiniteSet(used) /\ A = AddressesOf(used)
  BY <1>1, <1>2, InsOfCall, SortedLemma DEF CallAddresses
<1>5. supply \in Indexes /\ next \in Indexes /\ supply = next - peglevel.nBuffer /\ supply <= next
  <2>1. supply = next - peglevel.nBuffer /\ next \in Indexes /\ peglevel.nBuffer \in 0..next
    BY <1>3, InsOfCall
  <2>2. supply \in Indexes
    BY DEF Calling, IInv, TxOfCall, TxInv
  <2>3. next \in Int
    BY <2>1 DEF Indexes
  <2> QED BY <2>1, <2>2, <2>3
<1>6. /\ \A k \in {"L", "R"} : AvailableAt(k, used) \in [A -> Nat] /\ \A a \in A : AvailableAt(k, used)[a] <= InputAt(used)[a]
      /\ InputAt(used) \in [A -> Nat]
  <2>1. CanUse(call.kind, used)
    BY <1>1 DEF Calling, CallInv
  <2> QED BY <1>4, <2>1, StoresLemma
<1>7. PICK low : low = [c \in used |-> Low(coins[c].fractions, supply)]
  OBVIOUS
<1>8. PICK high : high = [c \in used |-> Available("L", coins[c].fractions)]
  OBVIOUS
<1>9. PICK reserve : reserve = [c \in used |-> Available("R", coins[c].fractions)]
  OBVIOUS
<1>10. PICK worth : worth = [c \in used |-> Total(coins[c].fractions)]
  BY Zenon
<1>11. \A c \in used : /\ low[c] \in Int /\ high[c] \in Int /\ reserve[c] \in Int /\ worth[c] = low[c] + high[c]
                       /\ low[c] <= reserve[c]
  <2> SUFFICES ASSUME NEW c \in used
               PROVE  /\ low[c] \in Int /\ high[c] \in Int /\ reserve[c] \in Int /\ worth[c] = low[c] + high[c]
                      /\ low[c] <= reserve[c]
    OBVIOUS
  <2>1. PICK f \in Fractions : f = coins[c].fractions
    BY <1>4 DEF GoodCoins
  <2>2. /\ Low(f, supply) \in Nat /\ Low(f, next) \in Nat /\ High(f, supply) \in Nat /\ Low(f, supply) <= Low(f, next)
        /\ Low(f, supply) + High(f, supply) = Total(f)
    BY <1>5, LowGrows
  <2>3. Available("L", f) = High(f, supply) /\ Available("R", f) = Low(f, next)
    BY <1>3, <1>5 DEF Available
  <2>4. low[c] = Low(f, supply) /\ high[c] = High(f, supply) /\ reserve[c] = Low(f, next) /\ worth[c] = Total(f)
    BY <1>7, <1>8, <1>9, <1>10, <2>1, <2>3
  <2> QED BY <2>2, <2>4
<1>12. ASSUME NEW a \in A
       PROVE  PlanFirst[a] \in Nat /\ PlanFirst[a] <= InputAt(used)[a] /\ KeptBy(a, DOMAIN tx.vin) <= PlanFirst[a]
  <2>1. PICK J : J = {c \in used : coins[c].address = a}
    OBVIOUS
  <2>2. IsFiniteSet(J) /\ J \subseteq used
    BY <1>4, <2>1, FS_Subset
  <2>3. KeptBy(a, DOMAIN tx.vin) = SumOf(low, J)
    BY <1>1, <1>7, <2>1, KeptIs
  <2>4. AvailableAt("L", used)[a] = SumOf(high, J) /\ AvailableAt("R", used)[a] = SumOf(reserve, J) /\ InputAt(used)[a] = SumOf(worth, J)
    BY <1>4, <1>8, <1>9, <1>10, <2>1 DEF AvailableAt, InputAt
  <2>5. SumOf(worth, J) = SumOf(low, J) + SumOf(high, J)
    BY <1>11, <2>2, SumPlus
  <2>6. SumOf(low, J) <= SumOf(reserve, J)
    BY <1>11, <2>2, SumMonotone
  <2>7. SumOf(low, J) \in Int /\ SumOf(high, J) \in Int
    BY <1>11, <2>2, SumType
  <2>8. CASE call.kind = "L"
    <3>1. PlanFirst[a] = InputAt(used)[a] - AvailableAt("L", used)[a]
      BY <1>1, <1>6, <2>8 DEF PlanFirst, LeftOf
    <3>2. AvailableAt("L", used)[a] \in Nat /\ InputAt(used)[a] \in Nat /\ AvailableAt("L", used)[a] <= InputAt(used)[a]
      BY <1>6
    <3> QED BY <2>3, <2>4, <2>5, <2>7, <3>1, <3>2
  <2>9. CASE call.kind # "L"
    <3>1. PlanFirst[a] = AvailableAt("R", used)[a]
      BY <1>1, <2>9 DEF PlanFirst
    <3>2. AvailableAt("R", used)[a] \in Nat /\ AvailableAt("R", used)[a] <= InputAt(used)[a]
      BY <1>6
    <3> QED BY <2>3, <2>4, <2>6, <3>1, <3>2
  <2> QED BY <2>8, <2>9
<1>13. PlanFirst \in [A -> Nat]
  <2>1. DOMAIN PlanFirst = A /\ PlanFirst = [a \in A |-> PlanFirst[a]]
    <3>1. CASE call.kind = "L"
      <4>1. DOMAIN InputAt(used) = A
        BY <1>6
      <4> QED BY <1>1, <3>1, <4>1 DEF PlanFirst, LeftOf
    <3>2. CASE call.kind # "L"
      <4>1. AvailableAt("R", used) \in [A -> Nat]
        BY <1>6
      <4> QED BY <1>1, <3>2, <4>1 DEF PlanFirst
    <3> QED BY <3>1, <3>2
  <2> QED BY <1>12, <2>1
<1> QED BY <1>1, <1>2, <1>6, <1>12, <1>13

\* What the plan has at each address before it, and what a notary takes of that.
LEMMA PlanStoresLemma ==
  ASSUME Calling, NEW m \in Nat
  PROVE  /\ PlanStores(m) \in [CallAddresses -> Nat]
         /\ \A a \in CallAddresses :
              /\ PlanStores(0)[a] = PlanFirst[a]
              /\ PlanStores(m)[a] = PlanFirst[a] - GivenBy(Ascending(CallAddresses), PlanFirst, FreezeValue * m)[a]
              /\ PlanStores(m + 1)[a]
                   = PlanStores(m)[a] - GivenBy(Ascending(CallAddresses), PlanStores(m), FreezeValue)[a]
<1>1. PICK A : A = CallAddresses
  OBVIOUS
<1>2. PICK order : order = Ascending(A)
  OBVIOUS
<1>3. A \in SUBSET Nat /\ IsFiniteSet(A)
  BY <1>1, CallPlan DEF Calling
<1>4. IsOrder(order, A)
  BY <1>2, <1>3, AscendingOrder
<1>5. PICK s \in [A -> Nat] : s = PlanFirst
  BY <1>1, PlanFirstLemma
<1>6. FreezeValue \in Nat
  BY FeeAssumption
<1>7. ASSUME NEW v \in Nat
      PROVE  /\ GivenBy(order, s, v) \in [A -> Nat] /\ LeftOf(s, GivenBy(order, s, v)) \in [A -> Nat]
             /\ \A a \in A : LeftOf(s, GivenBy(order, s, v))[a] = s[a] - GivenBy(order, s, v)[a]
  <2>1. PICK g \in [A -> Nat] : g = GivenBy(order, s, v) /\ \A a \in A : g[a] <= s[a]
    BY <1>4, GivenByLemma
  <2>2. LeftOf(s, g) \in [A -> Nat] /\ \A a \in A : LeftOf(s, g)[a] = s[a] - g[a]
    <3>1. \A a \in A : g[a] <= s[a]
      BY <2>1
    <3>2. IsFiniteSet(A)
      BY <1>3
    <3> QED BY ONLY <3>1, <3>2, s \in [A -> Nat], g \in [A -> Nat], LeftOfLemma
  <2> QED BY <2>1, <2>2
<1>8. PICK v \in Nat : v = FreezeValue * m
  BY <1>6
<1>9. PICK p : p = LeftOf(s, GivenBy(order, s, v))
  OBVIOUS
<1>10. p = PlanStores(m) /\ p \in [A -> Nat] /\ \A a \in A : p[a] = s[a] - GivenBy(order, s, v)[a]
  <2>1. p = PlanStores(m)
    BY <1>1, <1>2, <1>5, <1>8, <1>9 DEF PlanStores
  <2> QED BY <1>7, <1>9, <2>1
<1>11. PICK w \in Nat : w = FreezeValue * (m + 1)
  BY <1>6
<1>12. w = v + FreezeValue
  BY <1>6, <1>8, <1>11
<1>13. PICK q : q = LeftOf(s, GivenBy(order, s, w))
  OBVIOUS
<1>14. q = PlanStores(m + 1) /\ \A a \in A : q[a] = s[a] - GivenBy(order, s, w)[a]
  <2>1. q = PlanStores(m + 1)
    BY <1>1, <1>2, <1>5, <1>11, <1>13 DEF PlanStores
  <2> QED BY <1>7, <1>13, <2>1
<1>15. \A a \in A : GivenBy(order, s, v)[a] + GivenBy(order, p, FreezeValue)[a] = GivenBy(order, s, v + FreezeValue)[a]
  BY <1>4, <1>6, <1>9, GivenTwice
<1>16. GivenBy(order, p, FreezeValue) \in [A -> Nat]
  BY <1>4, <1>6, <1>10, GivenByLemma
<1>17. ASSUME NEW a \in A PROVE q[a] = p[a] - GivenBy(order, p, FreezeValue)[a]
  <2>1. PICK x \in Nat : x = GivenBy(order, s, v)[a]
    BY <1>7
  <2>2. PICK y \in Nat : y = GivenBy(order, p, FreezeValue)[a]
    BY <1>16
  <2>3. GivenBy(order, s, w)[a] = x + y
    BY <1>12, <1>15, <2>1, <2>2
  <2>4. p[a] = s[a] - x /\ q[a] = s[a] - (x + y) /\ s[a] \in Nat
    BY <1>10, <1>14, <2>1, <2>3
  <2> QED BY <2>2, <2>4
<1>18. ASSUME NEW a \in A PROVE PlanStores(0)[a] = s[a]
  <2>1. FreezeValue * 0 = 0
    BY <1>6
  <2>2. PICK g \in [A -> Nat] : g = GivenBy(order, s, 0) /\ \A b \in A : g[b] <= s[b]
    BY <1>4, GivenByLemma
  <2>3. SumOf(g, A) = Least(0, SumOf(s, A)) /\ SumOf(s, A) \in Nat
    BY <1>4, <2>2, GivenByLemma
  <2>4. SumOf(g, A) = 0
    BY <2>3 DEF Least
  <2>5. g[a] <= SumOf(g, A)
    BY <1>3, SumNat
  <2>6. g[a] = 0
    BY <2>2, <2>4, <2>5
  <2>7. PlanStores(0) = LeftOf(s, g)
    BY <1>1, <1>2, <1>5, <2>1, <2>2 DEF PlanStores
  <2>8. LeftOf(s, g)[a] = s[a] - g[a]
    BY <1>18 DEF LeftOf
  <2> QED BY <2>6, <2>7, <2>8
<1> QED BY <1>1, <1>2, <1>5, <1>8, <1>10, <1>14, <1>17, <1>18

\* Until the user's output is made, no address has more than the plan has.
BeforePaid ==
  \A m \in Nat :
    phase = "outputs" /\ n = m + 1 /\ n <= call.at => \A a \in CallAddresses : Stores[a] <= PlanStores(m)[a]

\* The plan is the same while a call runs.
LEMMA PlanKept ==
  ASSUME UNCHANGED <<step, books, call>>, NEW m
  PROVE  PlanStores(m)' = PlanStores(m) /\ CallAddresses' = CallAddresses
<1>1. coins' = coins /\ peglevel' = peglevel /\ call' = call
  BY DEF books
<1>2. CallAddresses' = CallAddresses
  BY <1>1 DEF CallAddresses, AddressesOf
<1>3. PlanFirst' = PlanFirst
  <2>1. InputAt(call.used)' = InputAt(call.used)
    BY <1>1 DEF InputAt, AddressesOf
  <2>2. \A kind : AvailableAt(kind, call.used)' = AvailableAt(kind, call.used)
    BY <1>1 DEF AvailableAt, Available, AddressesOf
  <2> QED BY <1>1, <2>1, <2>2 DEF PlanFirst, LeftOf
<1>4. PlanStores(m)' = PlanStores(m)
  BY <1>2, <1>3 DEF PlanStores, LeftOf, GivenBy
<1> QED BY <1>2, <1>4

\* The addresses with reserve are those of the coins.
LEMMA StoresAddresses ==
  ASSUME Calling, PaidInv, phase # "failed", TakenIns = DOMAIN tx.vin
  PROVE  DOMAIN poolReserves = CallAddresses
<1>1. HomeInv
  BY DEF PaidInv, ReserveInv, Calling, TxOfCall
<1>2. DOMAIN poolReserves = {tx.vin[i].address : i \in DOMAIN tx.vin}
  BY <1>1 DEF HomeInv
<1>3. PICK used : used = call.used
  OBVIOUS
<1>4. /\ GoodCoins /\ used \in SUBSET DOMAIN coins /\ DOMAIN tx.vin = 1..Cardinality(used)
      /\ \A i \in DOMAIN tx.vin : Sorted(used)[i] \in used /\ tx.vin[i].address = coins[Sorted(used)[i]].address
  BY <1>3, InsOfCall
<1>5. {Sorted(used)[i] : i \in 1..Cardinality(used)} = used
  BY <1>4, SortedLemma
<1>6. {tx.vin[i].address : i \in DOMAIN tx.vin} = {coins[c].address : c \in used}
  BY <1>4, <1>5
<1> QED BY <1>2, <1>3, <1>6 DEF CallAddresses, AddressesOf

\* The outputs start with what the inputs brought.
LEMMA OutputsStart ==
  ASSUME Calling, PaidInv, Exact, FrozenLast, ReservesKept, ShareLiquidity, UNCHANGED <<step, books, call>>
  PROVE  phase' = "outputs" /\ n' = 1 /\ Exact' /\ FrozenLast' /\ BeforePaid'
<1>1. /\ phase = "inputs" /\ n > Len(tx.vin) /\ phase' = "outputs" /\ n' = 1 /\ frCommonLiquidity' = SumAll(poolLiquidity)
      /\ tx' = tx /\ supply' = supply /\ poolReserves' = poolReserves /\ nLiquidity' = nLiquidity
      /\ poolFrozen' = poolFrozen /\ frColdFees' = frColdFees /\ outs' = outs
  BY DEF ShareLiquidity
<1>2. TxInv /\ PhaseInv /\ PoolInv
  BY <1>1 DEF Calling, IInv, TxOfCall
<1>3. DOMAIN tx.vin = 1..Len(tx.vin) /\ Len(tx.vin) \in Nat
  BY <1>2, TakenLemma
<1>4. n \in Nat /\ n <= Len(tx.vin) + 1 /\ n - 1 = Len(tx.vin) /\ outs = <<>>
  BY <1>1, <1>2, <1>3 DEF PhaseInv
<1>5. TakenIns = DOMAIN tx.vin
  BY <1>1, <1>3, <1>4 DEF TakenIns
<1>6. Exact'
  BY <1>1, <1>4 DEF Exact, Liquid
<1>7. DOMAIN poolReserves = CallAddresses
  BY <1>1, <1>5, StoresAddresses
<1>8. ASSUME NEW a \in CallAddresses PROVE Stores[a] <= PlanStores(0)[a]
  <2>1. a \in Nat
    BY CallPlan DEF Calling
  <2>2. Total(At(poolReserves, a, Zero)) = KeptBy(a, DOMAIN tx.vin)
    BY <1>5, <2>1 DEF ReservesKept
  <2>3. Stores[a] = KeptBy(a, DOMAIN tx.vin)
    BY <1>7, <2>2 DEF Stores, At
  <2>4. KeptBy(a, DOMAIN tx.vin) <= PlanFirst[a]
    BY PlanFirstLemma
  <2>5. PlanStores(0)[a] = PlanFirst[a]
    BY PlanStoresLemma
  <2> QED BY <2>3, <2>4, <2>5
<1>9. FrozenLast'
  <2>1. SUFFICES ASSUME call.kind = "R"
                 PROVE  FrozenFor(tx.vin[Len(tx.vin)].address)
    BY <1>1 DEF FrozenLast, FrozenFor
  <2>2. call.at = Len(tx.vin) + 1 /\ call.at > 1
    BY <2>1, CallFreezes, Zenon DEF FreezesOnly
  <2>3. n # 1 /\ n - 1 = Len(tx.vin)
    BY <1>3, <1>4, <2>2
  <2> QED BY <1>1, <2>1, <2>3 DEF FrozenLast
<1>10. BeforePaid'
  <2>1. CallAddresses' = CallAddresses /\ PlanStores(0)' = PlanStores(0)
    BY PlanKept
  <2>2. Stores' = Stores
    BY <1>1 DEF Stores
  <2>3. \A a \in CallAddresses' : Stores'[a] <= PlanStores(0)'[a]
    BY <1>8, <2>1, <2>2
  <2>4. ASSUME NEW m \in Nat, n' = m + 1 PROVE m = 0
    BY <1>1, <2>4
  <2> QED BY <2>3, <2>4 DEF BeforePaid
<1> QED BY <1>1, <1>6, <1>9, <1>10

-----------------------------------------------------------------------------
(* The outputs of a call, step by step                                     *)

\* An output of a call is due; x is the place of the exchange's notary.
Giving(x) ==
  /\ Calling /\ PaidInv /\ Exact /\ FrozenLast /\ ~ Poor /\ phase = "outputs" /\ n <= Len(tx.vout) /\ CallOuts(x)

\* What holds then
GivingFacts(x) ==
  /\ Making /\ InPools /\ PlanFits /\ OutsFit
  /\ DOMAIN poolReserves = CallAddresses /\ CallAddresses \in SUBSET Nat /\ IsFiniteSet(CallAddresses)
  /\ 0 \notin CallAddresses /\ Payee \notin CallAddresses /\ Payee # Burn
  /\ Stores \in [CallAddresses -> Nat]
  /\ IsOrder(Ascending(CallAddresses), CallAddresses)
  /\ n \in Nat \ {0} /\ n \in 1..Len(tx.vout) /\ DOMAIN tx.vout = 1..Len(tx.vout)
  /\ Output.value \in Nat /\ Output.value <= nLiquidity + SumOf(Stores, CallAddresses)
LEMMA GivingLemma ==
  ASSUME NEW x, Giving(x)
  PROVE  GivingFacts(x)
<1>1. Calling /\ PaidInv /\ Exact /\ ~ Poor /\ phase = "outputs" /\ n <= Len(tx.vout) /\ CallOuts(x)
  BY DEF Giving
<1>2. TxInv /\ PoolInv /\ FrozenInv /\ PhaseInv /\ BooksInv
  BY <1>1 DEF Calling, IInv, TxOfCall
<1>3. Making
  BY <1>1, <1>2 DEF Making
<1>4. InPools
  <2>1. Aside = Zero
    BY <1>1, NothingAside
  <2> QED BY <1>1, <1>2, <2>1, LeftInPools
<1>5. PlanFits /\ OutsFit
  BY <1>1, PlanFitsLemma, OutsFitLemma
<1>6. DOMAIN poolReserves = CallAddresses
  <2>1. TakenIns = DOMAIN tx.vin
    BY <1>1 DEF TakenIns
  <2> QED BY <1>1, <2>1, StoresAddresses
<1>7. /\ CallAddresses \in SUBSET Nat /\ IsFiniteSet(CallAddresses) /\ 0 \notin CallAddresses /\ Payee \notin CallAddresses
      /\ Payee # Burn
  BY <1>1, CallPlan, CoinsAssumption DEF Calling
<1>8. Stores \in [CallAddresses -> Nat]
  BY <1>2, <1>6, StoresType
<1>9. IsOrder(Ascending(CallAddresses), CallAddresses)
  BY <1>7, AscendingOrder
<1>10. n \in Nat \ {0} /\ Output.value \in Nat /\ DOMAIN tx.vout = 1..Len(tx.vout) /\ Len(tx.vout) \in Nat
  BY <1>2, <1>3, MakingLemma, OutsLemma
<1>11. n \in 1..Len(tx.vout)
  BY <1>1, <1>10
<1>12. Output.value <= nLiquidity + SumOf(Stores, CallAddresses)
  <2>1. PICK g : g = Values
    OBVIOUS
  <2>2. PICK L \in Nat : L = Len(tx.vout)
    BY <1>10
  <2>3. \A o \in 1..L : g[o] \in Nat /\ g[o] = tx.vout[o].value
    BY <1>2, <1>10, <2>1, <2>2, PayTypes
  <2>4. Value(tx.vout) = SumOf(g, 1..L)
    BY <1>10, <2>1, <2>2 DEF Value, Values
  <2>5. PICK S, T : S = 1..(n - 1) /\ T = n..L
    OBVIOUS
  <2>6. IsFiniteSet(S) /\ IsFiniteSet(T) /\ S \intersect T = {} /\ S \union T = 1..L /\ n \in T
    <3>1. n \in Int /\ L \in Int /\ n - 1 \in Int
      BY <1>10, <2>2
    <3>2. IsFiniteSet(S)
      BY <2>5, <3>1, FirstFinite
    <3>3. IsFiniteSet(T)
      BY <2>5, <3>1, FS_Interval
    <3>4. S \intersect T = {} /\ S \union T = 1..L /\ n \in T
      BY <1>10, <1>11, <2>2, <2>5
    <3> QED BY <3>2, <3>3, <3>4
  <2>7. SumOf(g, 1..L) = SumOf(g, S) + SumOf(g, T)
    <3>1. \A o \in S \union T : g[o] \in Int
      BY <2>3, <2>6
    <3>2. SumOf(g, S \union T) = SumOf(g, S) + SumOf(g, T)
      BY <2>6, <3>1, SumUnion
    <3> QED BY <2>6, <3>2
  <2>8. SumOf(g, T) \in Nat /\ g[n] <= SumOf(g, T) /\ g[n] = Output.value
    <3>1. \A o \in T : g[o] \in Nat
      BY <2>3, <2>6
    <3> QED BY <1>11, <2>2, <2>3, <2>6, <3>1, SumNat DEF Output
  <2>9. PICK s \in Nat : s = SumOf(g, S)
    BY <1>4, <2>1, <2>5 DEF InPools
  <2>10. PICK st \in Nat : st = SumOf(Stores, CallAddresses)
    BY <1>4, <1>6 DEF InPools
  <2>11. ValueIn = nLiquidity + st + s /\ nLiquidity \in Nat /\ Value(tx.vout) <= ValueIn
    BY <1>4, <1>5, <1>6, <2>1, <2>5, <2>9, <2>10 DEF InPools, OutsFit
  <2>12. PICK v \in Nat, l \in Nat : v = Output.value /\ l = nLiquidity
    BY <1>10, <2>11
  <2>13. PICK r \in Nat : r = SumOf(g, T)
    BY <2>8
  <2>14. s + r <= l + st + s /\ v <= r
    BY <2>4, <2>7, <2>8, <2>9, <2>11, <2>12, <2>13
  <2> QED BY <2>10, <2>12, <2>14
<1> QED BY <1>3, <1>4, <1>5, <1>6, <1>7, <1>8, <1>9, <1>10, <1>11, <1>12 DEF GivingFacts

\* An output is filled from these sources.
Fills(sources) ==
  /\ IsListing(sources, DOMAIN poolReserves)
  /\ \E mark : FillOutput(sources, Output.value, mark)

\* The plain outputs of a call: notaries and the exchange's take any reserve,
\* the user's none, change its own.
LEMMA PlainFills ==
  ASSUME NEW x, Giving(x), PlainOutput
  PROVE  /\ n < call.at \/ n = x => Fills(Ascending(CallAddresses))
         /\ n = call.at => Fills(<<>>)
         /\ n > call.at /\ n # x => Output.address \in CallAddresses /\ Fills(<<Output.address>>)
<1>1. GivingFacts(x) /\ CallOuts(x)
  BY GivingLemma DEF Giving
<1>2. PICK a : a = Output.address
  OBVIOUS
<1>3. IsListing(ReserveSources(Output), DOMAIN poolReserves)
  BY <1>1, ReserveSourcesLemma DEF GivingFacts
<1>4. Fills(ReserveSources(Output))
  BY <1>3, Zenon DEF Fills, PlainOutput
<1>5. DOMAIN poolReserves = CallAddresses /\ 0 \notin CallAddresses /\ Payee \notin CallAddresses /\ Payee # Burn
  BY <1>1 DEF GivingFacts
<1>6. /\ n \in Nat /\ n \in 1..Len(tx.vout) /\ call.at \in Nat \ {0} /\ x \in Nat /\ call.at < x /\ x <= Len(tx.vout)
  BY <1>1 DEF GivingFacts, CallOuts
<1>7. ASSUME n < call.at PROVE Output.address = 0 /\ Output.notary = "F"
  <2>1. n \in 1..(call.at - 1)
    BY <1>6, <1>7
  <2>2. PICK r : r = <<call.at, call.at, call.at>>
    BY Zenon
  <2>3. Output = Notary("F", FreezeValue, r)
    BY <1>1, <2>1, <2>2 DEF CallOuts, Output
  <2> QED BY <2>3 DEF Notary
<1>8. ASSUME n = x PROVE Output.address = 0 /\ Output.notary = "XCH"
  <2>1. PICK r : r = <<>>
    BY Zenon
  <2>2. Output = Notary("XCH", 1, r)
    BY <1>1, <1>8, <2>1, Zenon DEF CallOuts, Output
  <2> QED BY <2>2 DEF Notary
<1>10. ASSUME n < call.at \/ n = x PROVE ReserveSources(Output) = Ascending(CallAddresses)
  <2>1. Output.address = 0
    BY <1>7, <1>8, <1>10, Zenon
  <2>2. Output.notary = "F" \/ Output.notary = "XCH"
    BY <1>7, <1>8, <1>10, Zenon
  <2>3. Output.notary \notin {"", "Z"}
    <3>1. "F" \notin {"", "Z"} /\ "XCH" \notin {"", "Z"}
      OBVIOUS
    <3> QED BY <2>2, <3>1, Zenon
  <2> QED BY <1>5, <2>1, <2>3, Zenon DEF ReserveSources
<1>11. ASSUME n = call.at PROVE ReserveSources(Output) = <<>>
  <2>1. Output = Pay(Payee, Payout)
    BY <1>1, <1>11, Zenon DEF CallOuts, Output
  <2>2. Output.address = Payee /\ Output.notary = ""
    BY <2>1, PayFields, Zenon
  <2>3. Output.notary \in {"", "Z"}
    BY <2>2, Zenon
  <2> QED BY <1>5, <2>2, <2>3, Zenon DEF ReserveSources
<1>12. ASSUME n > call.at, n # x PROVE Output.address \in CallAddresses
  BY <1>1, <1>6, <1>12, Zenon DEF CallOuts, Output
<1>13. ASSUME n > call.at, n # x PROVE ReserveSources(Output) = <<Output.address>>
  BY <1>5, <1>12, <1>13, Zenon DEF ReserveSources
<1> QED BY <1>4, <1>10, <1>11, <1>12, <1>13, Zenon

\* The user's reserve comes from the address of the last coin, then from the others.
LEMMA SharedFills ==
  ASSUME NEW x, Giving(x), call.kind = "R", n = call.at, SharedFrozenOutput
  PROVE  Fills(FrozenOrder(call.used))
<1>1. GivingFacts(x) /\ Calling /\ FrozenLast /\ phase = "outputs"
  BY GivingLemma DEF Giving
<1>2. Making /\ DOMAIN poolReserves = CallAddresses
  BY <1>1 DEF GivingFacts
<1>3. PICK l : l = tx.vin[Len(tx.vin)].address
  OBVIOUS
<1>4. poolFrozen[n].sAddress = l /\ poolFrozen[n].fair = <<>>
  <2>1. phase # "inputs"
    BY <1>1
  <2> QED BY <1>1, <1>3, <2>1 DEF FrozenLast, FrozenFor
<1>5. l = LastAddress(call.used) /\ l \in CallAddresses
  <2>1. PICK used : used = call.used
    OBVIOUS
  <2>2. /\ GoodCoins /\ used \in SUBSET DOMAIN coins /\ Cardinality(used) \in Nat
        /\ DOMAIN tx.vin = 1..Cardinality(used) /\ Len(tx.vin) = Cardinality(used)
        /\ \A i \in DOMAIN tx.vin : tx.vin[i].address = coins[Sorted(used)[i]].address
    BY <1>1, <2>1, InsOfCall
  <2>3. Len(tx.vin) + 1 > 1
    BY <1>1, CallFreezes, Zenon DEF FreezesOnly
  <2>4. Len(tx.vin) \in DOMAIN tx.vin
    BY <2>2, <2>3
  <2>5. l = LastAddress(used)
    BY <1>3, <2>2, <2>4 DEF LastAddress
  <2>6. used # {}
    BY <1>1, <2>1 DEF Calling, CallInv, CanUse
  <2> QED BY <2>1, <2>2, <2>5, <2>6, FrozenOrderLemma DEF CallAddresses
<1>6. FrozenSources = FrozenOrder(call.used)
  <2>1. {l} \intersect CallAddresses = {l}
    BY <1>5
  <2> QED BY <1>2, <1>4, <1>5, <2>1 DEF FrozenSources, FrozenOrder, CallAddresses
<1>7. FrozenQuota = Output.value
  BY <1>4 DEF FrozenQuota
<1>8. IsListing(FrozenSources, DOMAIN poolReserves)
  BY <1>2, FrozenSourcesLemma
<1>9. FillOutput(FrozenSources, FrozenQuota, "F")
  BY DEF SharedFrozenOutput
<1> QED BY <1>6, <1>7, <1>8, <1>9, Zenon DEF Fills

\* Where the outputs of a call come from
Sources(x) ==
  /\ n < call.at \/ n = x => Fills(Ascending(CallAddresses))
  /\ n = call.at => Fills(IF call.kind = "L" THEN <<>> ELSE FrozenOrder(call.used))
  /\ n > call.at /\ n # x => Output.address \in CallAddresses /\ Fills(<<Output.address>>)
LEMMA OutputFills ==
  ASSUME NEW x, Giving(x), Next
  PROVE  Sources(x)
<1>1. GivingFacts(x) /\ Calling /\ PaidInv /\ phase = "outputs" /\ n <= Len(tx.vout) /\ CallOuts(x)
  BY GivingLemma DEF Giving
<1>2. n \in Nat /\ Len(tx.vout) \in Nat /\ ~ (n > Len(tx.vout))
  <2>1. n \in Nat /\ Len(tx.vout) \in Nat
    BY <1>1 DEF GivingFacts, CallOuts
  <2> QED BY <1>1, <2>1
<1>3. PlainOutput \/ FrozenOutput \/ SharedFrozenOutput \/ SharedVoluntaryOutput \/ SharedEmptyOutput
  <2>1. phase # "inputs" /\ phase # "stake"
    BY <1>1
  <2> QED BY <1>2, <2>1, Zenon DEF Next, RefuseInput, TakeInput, TakeColdInput, FreezeShared, FreezeOne, Accepted, ShareLiquidity,
                              Finish, CalculateStakingFractions
<1>4. call.kind \in {"L", "R"} /\ phase # "failed" /\ phase # "inputs"
  <2>1. call.kind \in {"L", "R"}
    BY <1>1, CallFreezes, Zenon
  <2> QED BY <1>1, <2>1
<1>5. call.at \in Nat /\ x \in Nat /\ call.at < x
  BY <1>1 DEF CallOuts
<1>6. CASE n \notin DOMAIN poolFrozen /\ (call.kind = "R" => n # call.at)
  <2>1. PlainOutput
    BY <1>3, <1>6, Zenon DEF FrozenOutput, SharedFrozenOutput, SharedVoluntaryOutput, SharedEmptyOutput, IsSetAside, IsSharing
  <2>2. /\ n < call.at \/ n = x => Fills(Ascending(CallAddresses))
        /\ n = call.at => Fills(<<>>)
        /\ n > call.at /\ n # x => Output.address \in CallAddresses /\ Fills(<<Output.address>>)
    BY <2>1, PlainFills
  <2>3. n = call.at => call.kind = "L"
    BY <1>4, <1>6
  <2> QED BY <2>2, <2>3, Zenon DEF Sources
<1>7. CASE call.kind = "L"
  <2>1. poolFrozen = <<>>
    BY <1>1, <1>4, <1>7 DEF PaidInv
  <2>2. n \notin DOMAIN poolFrozen
    BY <2>1, EmptyLemma
  <2> QED BY <1>6, <1>7, <2>2
<1>8. CASE call.kind = "R"
  <2>1. FrozenAlone(call.at)
    BY <1>1, <1>4, <1>8 DEF PaidInv, PaidReserve
  <2>2. CASE n # call.at
    <3>1. n \notin DOMAIN poolFrozen
      BY <2>1, <2>2 DEF FrozenAlone
    <3> QED BY <1>6, <2>2, <3>1
  <2>3. CASE n = call.at
    <3>1. /\ n \in DOMAIN poolFrozen /\ fFreezeAll /\ Total(poolFrozen[n].fractions) = 0
          /\ poolFrozen[n].mark = "F"
      BY <2>1, <2>3, ZeroTotal DEF FrozenAlone
    <3>2. ~ IsSetAside
      BY <3>1 DEF IsSetAside
    <3>3. poolFrozen[n].mark # "V" /\ poolFrozen[n].mark \in {"F", "V"}
      BY <3>1
    <3>4. SharedFrozenOutput
      BY <1>3, <3>1, <3>2, <3>3, Zenon DEF PlainOutput, FrozenOutput, SharedVoluntaryOutput, SharedEmptyOutput
    <3>5. Fills(FrozenOrder(call.used))
      BY <1>8, <2>3, <3>4, SharedFills
    <3>6. ~ (n < call.at) /\ n # x /\ ~ (n > call.at) /\ call.kind # "L"
      BY <1>5, <1>8, <2>3
    <3> QED BY <3>5, <3>6, Zenon DEF Sources
  <2> QED BY <2>2, <2>3
<1> QED BY <1>4, <1>7, <1>8

\* What sources that are all the addresses have.
LEMMA HasAll ==
  ASSUME NEW A, Stores \in [A -> Nat], NEW sources, IsOrder(sources, A)
  PROVE  Has(sources) = SumOf(Stores, A)
<1>1. PICK g : g = Stores
  OBVIOUS
<1>2. DOMAIN sources = 1..Cardinality(A)
  BY OrderLemma
<1>3. \A a \in A : g[a] \in Int
  BY <1>1
<1>4. SumOf([j \in DOMAIN sources |-> g[sources[j]]], 1..Cardinality(A)) = SumOf(g, A)
  BY <1>3, SumInOrder
<1> QED BY <1>1, <1>2, <1>4 DEF Has, StoresOf

\* An output of a call is made of its sources, or refused if they do not suffice.
MadeOf(sources) == MadeExactly(sources, Output.value) /\ phase' = "outputs" /\ Exact' /\ FrozenLast'
RefusedOf(sources) ==
  /\ phase' = "failed" /\ Over(Output.value, Has(sources)) > nLiquidity /\ Has(sources) \in Nat
  /\ UNCHANGED <<tx, n, poolReserves, nLiquidity>>
LEMMA FillsEither ==
  ASSUME NEW x, Giving(x), UNCHANGED <<step, books, call>>, NEW sources, Fills(sources)
  PROVE  MadeOf(sources) \/ RefusedOf(sources)
<1>1. GivingFacts(x) /\ Exact /\ FrozenLast /\ phase = "outputs"
  BY GivingLemma DEF Giving
<1>2. Making
  BY <1>1 DEF GivingFacts
<1>3. PICK mark : FillOutput(sources, Output.value, mark) /\ IsListing(sources, DOMAIN poolReserves)
  BY Zenon DEF Fills
<1>4. CASE phase' = "failed"
  BY <1>2, <1>3, <1>4, FillRefused DEF RefusedOf
<1>5. CASE phase' # "failed"
  <2>1. MadeExactly(sources, Output.value)
    BY <1>1, <1>2, <1>3, <1>5, FillMade
  <2>2. phase' = "outputs" /\ tx' = tx /\ poolFrozen' = poolFrozen /\ Exact' /\ phase' # "inputs" /\ phase # "inputs"
    BY <1>1, <2>1 DEF MadeExactly
  <2>3. FrozenLast'
    BY <1>1, <2>2 DEF FrozenLast, FrozenFor
  <2> QED BY <2>1, <2>2, <2>3 DEF MadeOf
<1> QED BY <1>4, <1>5

\* One that may take all reserve is made.
LEMMA AllMade ==
  ASSUME NEW x, Giving(x), UNCHANGED <<step, books, call>>, NEW sources, Fills(sources), IsOrder(sources, CallAddresses)
  PROVE  /\ MadeOf(sources) /\ GivingFacts(x)
         /\ Has(sources) = SumOf(Stores, CallAddresses) /\ DOMAIN poolReserves' = CallAddresses
         /\ \A a \in CallAddresses : Stores'[a] = Stores[a] - GivenBy(sources, Stores, Output.value)[a]
<1>1. GivingFacts(x)
  BY GivingLemma
<1>2. PICK A : A = CallAddresses
  OBVIOUS
<1>3. Has(sources) = SumOf(Stores, A)
  BY <1>1, <1>2, HasAll DEF GivingFacts
<1>4. ~ RefusedOf(sources)
  <2>1. PICK v \in Nat : v = Output.value /\ v <= nLiquidity + SumOf(Stores, A)
    BY <1>1, <1>2 DEF GivingFacts
  <2>2. PICK h \in Nat : h = SumOf(Stores, A)
    BY <1>1, <1>2 DEF GivingFacts, InPools
  <2>3. PICK l \in Nat : l = nLiquidity
    BY <1>1 DEF GivingFacts, InPools
  <2>4. ~ (Over(v, h) > l)
    BY <2>1, <2>2, <2>3 DEF Over, Least
  <2> QED BY <1>3, <2>1, <2>2, <2>3, <2>4 DEF RefusedOf
<1>5. MadeOf(sources)
  BY <1>4, FillsEither
<1>6. PICK v \in Nat : v = Output.value
  BY <1>1 DEF GivingFacts
<1>7. MadeExactly(sources, v) /\ PoolInv /\ A = DOMAIN poolReserves
  BY <1>1, <1>2, <1>5, <1>6 DEF MadeOf, GivingFacts, Making
<1>8. DOMAIN poolReserves' = A /\ \A a \in A : Stores'[a] = Stores[a] - GivenBy(sources, Stores, v)[a]
  BY <1>2, <1>7, MadeInOrder
<1> QED BY <1>1, <1>2, <1>3, <1>5, <1>6, <1>8

\* A notary's output leaves no address more than the plan has.
LEMMA NotaryMade ==
  ASSUME NEW x, Giving(x), UNCHANGED <<step, books, call>>, Next, BeforePaid, n < call.at
  PROVE  phase' = "outputs" /\ n' = n + 1 /\ Exact' /\ FrozenLast' /\ BeforePaid'
<1>1. GivingFacts(x) /\ CallOuts(x) /\ Calling /\ phase = "outputs"
  BY GivingLemma DEF Giving
<1>2. PICK A : A = CallAddresses
  OBVIOUS
<1>3. PICK order : order = Ascending(A)
  OBVIOUS
<1>4. IsOrder(order, A) /\ Stores \in [A -> Nat]
  BY <1>1, <1>2, <1>3 DEF GivingFacts
<1>5. Fills(order)
  BY <1>2, <1>3, OutputFills, Zenon DEF Sources
<1>6. MadeOf(order) /\ \A a \in A : Stores'[a] = Stores[a] - GivenBy(order, Stores, Output.value)[a]
  BY <1>2, <1>4, <1>5, AllMade
<1>7. Output.value = FreezeValue /\ FreezeValue \in Nat
  <2>1. n \in 1..(call.at - 1)
    BY <1>1 DEF GivingFacts, CallOuts
  <2>2. PICK r : r = <<call.at, call.at, call.at>>
    OBVIOUS
  <2>3. Output = Notary("F", FreezeValue, r)
    BY <1>1, <2>1, <2>2 DEF CallOuts, Output
  <2>4. Output.value = FreezeValue
    BY <2>3 DEF Notary
  <2> QED BY <2>4, FeeAssumption
<1>8. PICK m \in Nat : n = m + 1
  <2>1. n \in Nat \ {0}
    BY <1>1 DEF GivingFacts
  <2>2. n - 1 \in Nat /\ n = (n - 1) + 1
    BY <2>1
  <2> QED BY <2>2
<1>9. \A a \in A : Stores[a] <= PlanStores(m)[a]
  <2>1. n <= call.at
    BY <1>1 DEF GivingFacts, CallOuts
  <2> QED BY <1>1, <1>2, <1>8, <2>1 DEF BeforePaid
<1>10. PICK s \in [A -> Nat], p \in [A -> Nat] : s = Stores /\ p = PlanStores(m)
  BY <1>1, <1>2, <1>4, <1>8, PlanStoresLemma
<1>11. \A a \in A : s[a] <= p[a]
  BY <1>9, <1>10
<1>12. \A a \in A : s[a] - GivenBy(order, s, FreezeValue)[a] <= p[a] - GivenBy(order, p, FreezeValue)[a]
  BY <1>4, <1>7, <1>11, GivenLess
<1>13. \A a \in A : PlanStores(m + 1)[a] = p[a] - GivenBy(order, p, FreezeValue)[a]
  BY <1>1, <1>2, <1>3, <1>8, <1>10, PlanStoresLemma
<1>14. \A a \in A : Stores'[a] <= PlanStores(m + 1)[a]
  BY <1>6, <1>7, <1>10, <1>12, <1>13
<1>15. n' = n + 1 /\ phase' = "outputs" /\ Exact' /\ FrozenLast'
  BY <1>6 DEF MadeOf, MadeExactly
<1>16. BeforePaid'
  <2>1. PICK k \in Nat : k = m + 1
    BY <1>8
  <2>2. CallAddresses' = A /\ PlanStores(k)' = PlanStores(k)
    BY <1>2, PlanKept
  <2>3. ASSUME NEW j \in Nat, n' = j + 1 PROVE j = k
    BY <1>8, <1>15, <2>1, <2>3
  <2> QED BY <1>14, <2>1, <2>2, <2>3 DEF BeforePaid
<1> QED BY <1>15, <1>16

-----------------------------------------------------------------------------
(* What is left behind the user's output                                   *)

\* What the plan takes of a call's addresses.
TakenFacts(A, U, t) ==
  /\ CanUse(call.kind, call.used) /\ Payout \in Nat /\ A = AddressesOf(call.used)
  /\ U \in [A -> Nat] /\ t.at \in [A -> Nat]
  /\ \A a \in A : U[a] = InputAt(call.used)[a] - t.at[a] /\ t.at[a] <= AvailableAt(call.kind, call.used)[a]
  /\ InputAt(call.used) \in [A -> Nat] /\ AvailableAt(call.kind, call.used) \in [A -> Nat]
  /\ t.left \in Nat /\ (call.kind = "L" => t.left = 0)
LEMMA CallTaken ==
  ASSUME Calling
  PROVE  TakenFacts(CallAddresses, Untaken(call.kind, call.used, Payout), Taken(call.kind, call.used, Payout))
<1>1. PICK kind, used, A : kind = call.kind /\ used = call.used /\ A = CallAddresses
  OBVIOUS
<1>2. CanUse(kind, used) /\ call.amount \in Nat /\ FeeRet <= call.amount /\ call.amount <= InputsAmount(kind, used)
      /\ A = AddressesOf(used) /\ kind \in {"L", "R"}
  BY <1>1 DEF Calling, CallInv, CallAddresses, CanUse
<1>3. PICK amount \in Nat : amount = Payout
  BY CallPlan DEF Calling
<1>4. FeeRet \in Nat /\ amount + FeeRet = call.amount
  BY <1>2, <1>3, FeeAssumption DEF Payout
<1>5. amount <= InputsAmount(kind, used)
  <2>1. InputsAmount(kind, used) \in Int
    BY <1>2, InputsNumber
  <2> QED BY <1>2, <1>4, <2>1
<1>6. PICK t : t = Taken(kind, used, amount)
  OBVIOUS
<1>7. PICK U : U = Untaken(kind, used, amount)
  OBVIOUS
<1>8. /\ t.at \in [A -> Nat] /\ \A a \in A : t.at[a] <= AvailableAt(kind, used)[a]
      /\ t.left \in Nat /\ (kind = "L" => t.left = 0)
  BY <1>2, <1>5, <1>6, TakenPlan
<1>9. U \in [A -> Nat] /\ \A a \in A : U[a] = InputAt(used)[a] - t.at[a]
  <2>1. PICK p : p = PlannedChange(kind, used, amount)
    OBVIOUS
  <2>2. PICK in : in = SumOf([c \in used |-> Total(coins[c].fractions)], used)
    OBVIOUS
  <2>3. PICK due : due = amount + FreezeValue * (PayoutAt(kind, used) - 1)
    OBVIOUS
  <2> QED BY <1>2, <1>5, <1>6, <1>7, <2>1, <2>2, <2>3, PlanLemma
<1>10. InputAt(used) \in [A -> Nat] /\ AvailableAt(kind, used) \in [A -> Nat]
  BY <1>2, StoresLemma
<1> QED BY <1>1, <1>2, <1>3, <1>6, <1>7, <1>8, <1>9, <1>10 DEF TakenFacts

\* Each address has no more reserve than the plan leaves it, and none if the
\* plan has to take from the change too.
Fits(st) ==
  \A a \in CallAddresses : st[a] <= Untaken(call.kind, call.used, Payout)[a] /\ (LeftOver > 0 => st[a] = 0)

\* So it is for liquid, which takes no reserve.
LEMMA LiquidFits ==
  ASSUME Calling, call.kind = "L", NEW st \in [CallAddresses -> Nat], \A a \in CallAddresses : st[a] <= PlanFirst[a]
  PROVE  Fits(st) /\ LeftOver = 0
<1>1. PICK A, U, t : /\ A = CallAddresses /\ U = Untaken(call.kind, call.used, Payout)
                     /\ t = Taken(call.kind, call.used, Payout)
  OBVIOUS
<1>2. TakenFacts(A, U, t)
  BY <1>1, CallTaken
<1>3. t.left = LeftOver
  BY <1>1 DEF LeftOver
<1>4. LeftOver = 0
  BY <1>2, <1>3 DEF TakenFacts
<1>5. PICK in \in [A -> Nat], l \in [A -> Nat] : in = InputAt(call.used) /\ l = AvailableAt("L", call.used)
  BY <1>2 DEF TakenFacts
<1>6. PlanFirst = LeftOf(in, l)
  BY <1>5 DEF PlanFirst
<1>7. ASSUME NEW a \in A PROVE st[a] <= U[a]
  <2>1. PlanFirst[a] = in[a] - l[a] /\ st[a] <= PlanFirst[a]
    BY <1>1, <1>5, <1>6 DEF LeftOf
  <2>2. U[a] = in[a] - t.at[a] /\ t.at[a] <= l[a] /\ t.at[a] \in Nat
    BY <1>2, <1>5 DEF TakenFacts
  <2> QED BY <1>1, <1>5, <2>1, <2>2
<1> QED BY <1>1, <1>4, <1>7 DEF Fits

\* And for reserve, which is all taken before the plan turns to the change.
LEMMA ReserveFits ==
  ASSUME Calling, call.kind = "R", NEW st \in [CallAddresses -> Nat], NEW p, p = PlanStores(call.at - 1),
         \A a \in CallAddresses : st[a] <= p[a] - GivenBy(FrozenOrder(call.used), p, Payout)[a]
  PROVE  Fits(st)
<1>1. PICK A, U, t : /\ A = CallAddresses /\ U = Untaken(call.kind, call.used, Payout)
                     /\ t = Taken(call.kind, call.used, Payout)
  OBVIOUS
<1>2. TakenFacts(A, U, t)
  BY <1>1, CallTaken
<1>3. t.left = LeftOver
  BY <1>1 DEF LeftOver
<1>4. PICK used : used = call.used
  OBVIOUS
<1>5. PICK amount \in Nat : amount = Payout
  BY <1>2 DEF TakenFacts
<1>6. t = TakenReserve(used, amount) /\ CanUse("R", used) /\ A = AddressesOf(used) /\ t.at \in [A -> Nat]
  BY <1>1, <1>2, <1>4, <1>5 DEF TakenFacts, Taken
<1>7. call.at - 1 = Cardinality(used) /\ Cardinality(used) \in Nat
  <2>1. call.at = Cardinality(used) + 1
    BY <1>4 DEF Calling, CallInv, PayoutAt
  <2>2. Cardinality(used) \in Nat
    BY <1>4, CallPlan DEF Calling
  <2> QED BY <2>1, <2>2
<1>8. p = Undusted(used)
  BY <1>4, <1>6, <1>7 DEF PlanStores, PlanFirst, Undusted, ForNotaries, Dust, CallAddresses
<1>9. PICK f, u, nt, r : f = ForUser(used, amount) /\ u = Undusted(used) /\ nt = ForNotaries(used) /\ r = AvailableAt("R", used)
  OBVIOUS
<1>10. /\ f \in [A -> Nat] /\ u \in [A -> Nat] /\ nt \in [A -> Nat]
       /\ \A a \in A : u[a] = r[a] - nt[a] /\ t.at[a] = nt[a] + f[a] /\ t.at[a] <= r[a]
       /\ t.left > 0 => SumOf(t.at, A) = SumOf(r, A)
  BY <1>6, <1>9, TakenReserveLemma
<1>11. r \in [A -> Nat] /\ IsFiniteSet(A)
  <2>1. IsFiniteSet(A)
    BY <1>1, CallPlan DEF Calling
  <2> QED BY <1>2, <1>4, <1>9, <2>1 DEF TakenFacts
<1>12. \A a \in A : st[a] <= u[a] - f[a]
  BY <1>1, <1>4, <1>5, <1>8, <1>9 DEF ForUser
<1>13. \A a \in A : st[a] <= r[a] - t.at[a]
  BY <1>1, <1>10, <1>11, <1>12
<1>14. PICK in \in [A -> Nat] : in = InputAt(used)
  BY <1>2, <1>4 DEF TakenFacts
<1>15. \A a \in A : r[a] <= in[a]
  BY <1>6, <1>9, <1>14, StoresLemma
<1>16. ASSUME NEW a \in A PROVE st[a] <= U[a]
  <2>1. U[a] = in[a] - t.at[a] /\ t.at[a] \in Nat
    BY <1>2, <1>4, <1>14 DEF TakenFacts
  <2> QED BY <1>1, <1>11, <1>13, <1>14, <1>15, <2>1
<1>17. ASSUME NEW a \in A, LeftOver > 0 PROVE st[a] = 0
  <2>1. SumOf(t.at, A) = SumOf(r, A)
    BY <1>3, <1>10, <1>17
  <2>2. PICK g : g = t.at
    OBVIOUS
  <2>3. \A b \in A : g[b] \in Int /\ r[b] \in Int /\ g[b] <= r[b]
    BY <1>6, <1>10, <1>11, <2>2
  <2>4. g[a] < r[a] => SumOf(g, A) < SumOf(r, A)
    BY <1>11, <2>3, SumMonotone
  <2>5. SumOf(g, A) \in Int /\ SumOf(r, A) \in Int
    <3>1. SumOf(g, A) \in Int
      BY <1>11, <2>3, SumType
    <3>2. SumOf(r, A) \in Int
      BY <1>11, <2>3, SumType
    <3> QED BY <3>1, <3>2
  <2>6. g[a] = r[a]
    BY <2>1, <2>2, <2>3, <2>4, <2>5
  <2> QED BY <1>1, <1>11, <1>13, <2>2, <2>6
<1> QED BY <1>1, <1>16, <1>17 DEF Fits

\* What the outputs up to the user's are worth.
LEMMA BeforeUser ==
  ASSUME NEW x, Giving(x), n = call.at
  PROVE  Output.value = Payout /\ nLiquidity + SumOf(Stores, CallAddresses) = ValueIn - Promised + Payout /\ Payout \in Nat
<1>1. GivingFacts(x) /\ CallOuts(x) /\ Calling
  BY GivingLemma DEF Giving
<1>2. Output.value = Payout
  <2>1. Output = Pay(Payee, Payout)
    BY <1>1 DEF CallOuts, Output
  <2> QED BY <2>1, PayFields, Zenon
<1>3. PICK at \in Nat \ {0} : at = call.at /\ at <= Len(tx.vout)
  BY <1>1 DEF CallOuts, GivingFacts
<1>4. PICK g : g = Values
  OBVIOUS
<1>5. PICK s : s = [i \in 1..(at - 1) |-> Notary("F", FreezeValue, <<at, at, at>>)]
  OBVIOUS
<1>6. Len(s) = at - 1 /\ Value(s) = FreezeValue * (at - 1) /\ DOMAIN s = 1..(at - 1)
  BY <1>3, <1>5, NotaryOuts
<1>7. PICK h : h = [i \in DOMAIN s |-> s[i].value]
  OBVIOUS
<1>8. SumOf(g, 1..(at - 1)) = SumOf(h, 1..(at - 1))
  <2>1. IsFiniteSet(1..(at - 1))
    BY <1>3, FirstFinite
  <2>2. ASSUME NEW i \in 1..(at - 1) PROVE g[i] = h[i] /\ h[i] \in Int
    <3>1. PICK r : r = <<at, at, at>>
      OBVIOUS
    <3>2. tx.vout[i] = Notary("F", FreezeValue, r) /\ s[i] = Notary("F", FreezeValue, r)
      BY <1>1, <1>3, <1>5, <3>1 DEF CallOuts
    <3>3. i \in DOMAIN tx.vout
      BY <1>1, <1>3 DEF GivingFacts, CallOuts
    <3>4. g[i] = tx.vout[i].value /\ h[i] = s[i].value
      BY <1>4, <1>6, <1>7, <3>3 DEF Values
    <3>5. g[i] = h[i]
      BY <3>2, <3>4
    <3>6. h[i] = FreezeValue
      BY <3>2, <3>4 DEF Notary
    <3> QED BY <3>5, <3>6, FeeAssumption
  <2> QED BY <2>1, <2>2, SumEqual
<1>9. SumOf(h, 1..(at - 1)) = FreezeValue * (at - 1)
  BY <1>6, <1>7 DEF Value
<1>10. PICK d : d = FreezeValue * (at - 1)
  OBVIOUS
<1>11. d \in Nat /\ SumOf(Values, 1..(n - 1)) = d
  BY <1>1, <1>3, <1>4, <1>8, <1>9, <1>10 DEF GivingFacts, InPools
<1>12. Payout \in Nat /\ Promised = Payout + d
  BY <1>1, <1>3, <1>10, CallPlan DEF Calling, Promised
<1>13. ValueIn = nLiquidity + SumOf(Stores, CallAddresses) + d /\ nLiquidity \in Nat /\ SumOf(Stores, CallAddresses) \in Nat
  BY <1>1, <1>11 DEF GivingFacts, InPools
<1> QED BY <1>2, <1>11, <1>12, <1>13

\* The user's output is made, and leaves the addresses what fits the plan.
UserLeaves(st) ==
  /\ st \in [CallAddresses -> Nat] /\ Stores' = st /\ Fits(st)
  /\ nLiquidity' \in Nat /\ nLiquidity' + SumOf(st, CallAddresses) = ValueIn - Promised
LEMMA UserOfLiquid ==
  ASSUME NEW x, Giving(x), UNCHANGED <<step, books, call>>, Next, BeforePaid, n = call.at, call.kind = "L"
  PROVE  MadeOf(<<>>) /\ \E st : UserLeaves(st)
<1>1. GivingFacts(x) /\ CallOuts(x) /\ Calling /\ phase = "outputs"
  BY GivingLemma DEF Giving
<1>2. PICK A : A = CallAddresses
  OBVIOUS
<1>3. PICK st \in [A -> Nat] : st = Stores
  BY <1>1, <1>2 DEF GivingFacts
<1>4. n = 0 + 1 /\ n <= call.at
  BY <1>1 DEF Calling, CallInv, PayoutAt
<1>5. \A a \in A : st[a] <= PlanFirst[a]
  <2>1. \A a \in A : st[a] <= PlanStores(0)[a]
    BY <1>1, <1>2, <1>3, <1>4 DEF BeforePaid
  <2> QED BY <1>1, <1>2, <2>1, PlanStoresLemma
<1>6. Fits(st) /\ LeftOver = 0
  BY <1>1, <1>2, <1>3, <1>5, LiquidFits
<1>7. PICK U \in [A -> Nat] : U = Untaken(call.kind, call.used, Payout)
  BY <1>1, <1>2, CallTaken DEF TakenFacts
<1>8. IsFiniteSet(A)
  BY <1>1, <1>2 DEF GivingFacts
<1>9. SumOf(st, A) <= SumOf(U, A) /\ SumOf(st, A) \in Nat
  <2>1. \A a \in A : st[a] \in Int /\ U[a] \in Int /\ st[a] <= U[a]
    BY <1>2, <1>3, <1>6, <1>7 DEF Fits
  <2>2. SumOf(st, A) <= SumOf(U, A)
    BY <1>8, <2>1, SumMonotone
  <2> QED BY <1>8, <2>2, SumNat
<1>10. SumOf(U, A) = ValueIn - Promised /\ ValueIn \in Nat /\ Promised \in Nat
  BY <1>1, <1>2, <1>6, <1>7 DEF GivingFacts, PlanFits
<1>11. nLiquidity + SumOf(st, A) = ValueIn - Promised + Payout /\ Payout \in Nat /\ Output.value = Payout /\ nLiquidity \in Nat
  BY <1>1, <1>2, <1>3, BeforeUser DEF GivingFacts, InPools
<1>12. Payout <= nLiquidity
  BY <1>9, <1>10, <1>11
<1>13. Fills(<<>>)
  BY OutputFills DEF Sources
<1>14. Has(<<>>) = 0
  <2>1. DOMAIN <<>> = {}
    BY EmptyLemma
  <2> QED BY <2>1, SumRecursion DEF Has
<1>15. MadeOf(<<>>)
  <2>1. ~ RefusedOf(<<>>)
    <3>1. ~ (Over(Payout, 0) > nLiquidity)
      BY <1>11, <1>12 DEF Over, Least
    <3> QED BY <1>11, <1>14, <3>1 DEF RefusedOf
  <2> QED BY <1>13, <2>1, FillsEither
<1>16. /\ DOMAIN poolReserves' = A /\ nLiquidity' = nLiquidity - Over(Payout, 0)
       /\ \A b \in A : Stores'[b] = st[b]
  <2>1. PICK v \in Nat : v = Payout
    BY <1>11
  <2>2. MadeExactly(<<>>, v)
    BY <1>11, <1>15, <2>1 DEF MadeOf
  <2>3. \A b \in DOMAIN poolReserves : Stores'[b] = Stores[b]
    BY <2>2, MadeOfNone
  <2> QED BY <1>1, <1>2, <1>3, <1>14, <2>1, <2>2, <2>3 DEF MadeExactly, LeavesStores, GivingFacts
<1>17. Stores' = st
  <2>1. Stores' = [a \in A |-> Stores'[a]]
    BY <1>16 DEF Stores
  <2>2. st = [a \in A |-> st[a]]
    OBVIOUS
  <2> QED BY <1>16, <2>1, <2>2
<1>18. nLiquidity' = nLiquidity - Payout
  BY <1>11, <1>16 DEF Over, Least
<1>19. nLiquidity' \in Nat /\ nLiquidity' + SumOf(st, A) = ValueIn - Promised
  BY <1>9, <1>10, <1>11, <1>12, <1>18
<1>20. UserLeaves(st)
  BY <1>2, <1>3, <1>6, <1>17, <1>19 DEF UserLeaves
<1> QED BY <1>15, <1>20

\* So it is in a reserve withdrawal, which may take of all reserve.
LEMMA UserOfReserve ==
  ASSUME NEW x, Giving(x), UNCHANGED <<step, books, call>>, Next, BeforePaid, n = call.at, call.kind = "R"
  PROVE  MadeOf(FrozenOrder(call.used)) /\ \E st : UserLeaves(st)
<1>1. GivingFacts(x) /\ CallOuts(x) /\ Calling /\ phase = "outputs"
  BY GivingLemma DEF Giving
<1>2. PICK A : A = CallAddresses
  OBVIOUS
<1>3. PICK order : order = FrozenOrder(call.used)
  OBVIOUS
<1>4. IsOrder(order, A)
  <2>1. GoodCoins /\ call.used \in SUBSET DOMAIN coins /\ call.used # {}
    BY <1>1 DEF Calling, CallInv, CanUse
  <2> QED BY <1>2, <1>3, <2>1, FrozenOrderLemma DEF CallAddresses
<1>5. Fills(order)
  BY <1>3, OutputFills DEF Sources
<1>6. PICK s \in [A -> Nat] : s = Stores
  BY <1>1, <1>2 DEF GivingFacts
<1>7. PICK v \in Nat : v = Payout /\ Output.value = v /\ nLiquidity + SumOf(s, A) = ValueIn - Promised + v
  BY <1>2, <1>6, BeforeUser
<1>8. /\ MadeOf(order) /\ Has(order) = SumOf(s, A) /\ DOMAIN poolReserves' = A
      /\ \A a \in A : Stores'[a] = s[a] - GivenBy(order, s, v)[a]
  BY <1>2, <1>4, <1>5, <1>6, <1>7, AllMade
<1>9. PICK m \in Nat : m = call.at - 1 /\ n = m + 1 /\ n <= call.at
  <2>1. call.at \in Nat \ {0}
    BY <1>1 DEF CallOuts
  <2> QED BY <2>1
<1>10. PICK p \in [A -> Nat] : p = PlanStores(m) /\ \A a \in A : s[a] <= p[a]
  <2>1. \A a \in A : s[a] <= PlanStores(m)[a]
    BY <1>1, <1>2, <1>6, <1>9 DEF BeforePaid
  <2> QED BY <1>1, <1>2, <2>1, PlanStoresLemma
<1>11. PICK by \in [A -> Nat] : /\ by = GivenBy(order, s, v) /\ \A a \in A : by[a] <= s[a]
                                /\ SumOf(by, A) = Least(v, SumOf(s, A))
  BY <1>4, GivenByLemma
<1>12. IsFiniteSet(A)
  BY <1>1, <1>2 DEF GivingFacts
<1>13. PICK st : st = LeftOf(s, by)
  OBVIOUS
<1>14. st \in [A -> Nat] /\ (\A a \in A : st[a] = s[a] - by[a]) /\ SumOf(st, A) = SumOf(s, A) - SumOf(by, A)
       /\ SumOf(s, A) \in Nat /\ SumOf(by, A) \in Nat
  <2>1. \A a \in A : by[a] <= s[a]
    BY <1>11
  <2> QED BY ONLY s \in [A -> Nat], by \in [A -> Nat], <1>12, <1>13, <2>1, LeftOfLemma
<1>15. Stores' = st
  <2>1. Stores' = [a \in A |-> Stores'[a]]
    BY <1>8 DEF Stores
  <2>2. st = [a \in A |-> st[a]]
    BY <1>14
  <2>3. \A a \in A : Stores'[a] = st[a]
    BY <1>8, <1>11, <1>14
  <2> QED BY <2>1, <2>2, <2>3
<1>16. \A a \in A : st[a] <= p[a] - GivenBy(order, p, v)[a]
  <2>1. \A a \in A : s[a] <= p[a]
    BY <1>10
  <2>2. \A a \in A : s[a] - GivenBy(order, s, v)[a] <= p[a] - GivenBy(order, p, v)[a]
    BY ONLY <1>4, s \in [A -> Nat], p \in [A -> Nat], v \in Nat, <2>1, GivenLess
  <2> QED BY <1>11, <1>14, <2>2
<1>17. Fits(st)
  BY <1>1, <1>2, <1>3, <1>7, <1>9, <1>10, <1>14, <1>16, ReserveFits
<1>18. nLiquidity' = nLiquidity - Over(v, SumOf(s, A)) /\ nLiquidity' \in Nat /\ nLiquidity \in Nat
  BY <1>7, <1>8 DEF MadeOf, MadeExactly
<1>19. nLiquidity' + SumOf(st, A) = ValueIn - Promised
  <2>1. PICK h \in Nat : h = SumOf(s, A)
    BY <1>14
  <2>2. ValueIn \in Nat /\ Promised \in Nat
    BY <1>1 DEF GivingFacts, PlanFits
  <2> QED BY <1>7, <1>11, <1>14, <1>18, <2>1, <2>2 DEF Over, Least
<1>20. UserLeaves(st)
  BY <1>2, <1>14, <1>15, <1>17, <1>18, <1>19 DEF UserLeaves
<1> QED BY <1>3, <1>8, <1>20

\* The outputs to the exchange's addresses from the k-th on, and what they need
\* beyond the reserve of their addresses
Awaiting(k) == {o \in DOMAIN tx.vout : o >= k /\ ~ IsNotary(o)}
Needs(S, st) == [a \in CallAddresses |-> Over(SentBy(a, S), st[a])]

\* The exchange's notary is among the outputs before the k-th.
NotaryPaid(k) == \E y \in (call.at + 1)..(k - 1) : IsNotary(y)

\* When the user's output is made, the liquid suffices for those that follow, but
\* for the unit the exchange's notary takes of the reserve.
AfterPaid ==
  \A k \in Nat :
    phase = "outputs" /\ n = k /\ k > call.at =>
      SumOf(Needs(Awaiting(k), Stores), CallAddresses) <= nLiquidity + (IF NotaryPaid(k) THEN 1 ELSE 0)

\* It is, behind its place.
LEMMA NotaryPaidIs ==
  ASSUME NEW x, CallOuts(x), NEW k \in Nat, k <= Len(tx.vout) + 1
  PROVE  NotaryPaid(k) <=> k > x
<1>1. call.at \in Nat \ {0} /\ x \in Nat /\ call.at < x /\ x <= Len(tx.vout) /\ Len(tx.vout) \in Nat
  BY DEF CallOuts
<1>2. \A o \in 1..Len(tx.vout) : IsNotary(o) <=> o < call.at \/ o = x
  BY DEF CallOuts
<1>3. ASSUME k > x PROVE NotaryPaid(k)
  <2>1. x \in (call.at + 1)..(k - 1) /\ x \in 1..Len(tx.vout)
    BY <1>1, <1>3
  <2>2. IsNotary(x)
    BY <1>2, <2>1
  <2> QED BY <2>1, <2>2 DEF NotaryPaid
<1>4. ASSUME NotaryPaid(k) PROVE k > x
  <2>1. PICK y \in (call.at + 1)..(k - 1) : IsNotary(y)
    BY <1>4 DEF NotaryPaid
  <2>2. y \in 1..Len(tx.vout) /\ ~ (y < call.at) /\ y < k
    BY <1>1, <2>1
  <2>3. y = x
    BY <1>2, <2>1, <2>2
  <2> QED BY <1>1, <2>2, <2>3
<1> QED BY <1>3, <1>4

\* How AfterPaid comes about
LEMMA AfterNext ==
  ASSUME NEW x, CallOuts(x), tx' = tx, UNCHANGED <<step, books, call>>, NEW j \in Nat, n' = j, j <= Len(tx.vout) + 1,
         NEW st, st = Stores', NEW l, l = nLiquidity',
         SumOf(Needs(Awaiting(j), st), CallAddresses) <= l + (IF j > x THEN 1 ELSE 0)
  PROVE  AfterPaid'
<1>1. CallAddresses' = CallAddresses /\ call' = call
  BY PlanKept
<1>2. \A y : IsNotary(y)' = IsNotary(y)
  BY Zenon DEF IsNotary
<1>3. Awaiting(j)' = Awaiting(j)
  <2>1. \A y : IsNotary(y)' <=> IsNotary(y)
    BY <1>2, Zenon
  <2> QED BY <2>1 DEF Awaiting
<1>4. NotaryPaid(j)' <=> NotaryPaid(j)
  <2>1. \A y : IsNotary(y)' <=> IsNotary(y)
    BY <1>2, Zenon
  <2> QED BY <1>1, <2>1 DEF NotaryPaid
<1>5. Needs(Awaiting(j), Stores)' = Needs(Awaiting(j), st)
  BY <1>1, <1>3 DEF Needs, SentBy, Values
<1>6. NotaryPaid(j) <=> j > x
  BY NotaryPaidIs
<1>7. SumOf(Needs(Awaiting(j), Stores)', CallAddresses') <= nLiquidity' + (IF NotaryPaid(j)' THEN 1 ELSE 0)
  <2>1. (IF NotaryPaid(j)' THEN 1 ELSE 0) = IF j > x THEN 1 ELSE 0
    BY <1>4, <1>6, Zenon
  <2> QED BY <1>1, <1>5, <2>1
<1> QED BY <1>7 DEF AfterPaid

\* What is due behind the user's output is liquid, or reserve of its address.
LEMMA UserMade ==
  ASSUME NEW x, Giving(x), UNCHANGED <<step, books, call>>, Next, BeforePaid, n = call.at
  PROVE  phase' = "outputs" /\ n' = n + 1 /\ Exact' /\ FrozenLast' /\ AfterPaid'
<1>1. GivingFacts(x) /\ CallOuts(x) /\ Calling
  BY GivingLemma DEF Giving
<1>2. PICK sources : MadeOf(sources) /\ \E st : UserLeaves(st)
  <2>1. call.kind \in {"L", "R"}
    BY <1>1, CallFreezes, Zenon
  <2>2. CASE call.kind = "L"
    BY <2>2, UserOfLiquid
  <2>3. CASE call.kind = "R"
    BY <2>3, UserOfReserve
  <2> QED BY <2>1, <2>2, <2>3
<1>3. phase' = "outputs" /\ n' = n + 1 /\ Exact' /\ FrozenLast' /\ tx' = tx
  BY <1>2 DEF MadeOf, MadeExactly
<1>4. PICK A : A = CallAddresses
  OBVIOUS
<1>5. PICK st \in [A -> Nat] : Stores' = st /\ Fits(st) /\ nLiquidity' \in Nat /\ nLiquidity' + SumOf(st, A) = ValueIn - Promised
  BY <1>2, <1>4 DEF UserLeaves
<1>6. PICK l \in Nat : l = nLiquidity'
  BY <1>5
<1>7. PICK j \in Nat : j = n + 1 /\ j = call.at + 1 /\ j <= x /\ j <= Len(tx.vout) + 1
  <2>1. call.at \in Nat /\ x \in Nat /\ call.at < x /\ x <= Len(tx.vout) /\ Len(tx.vout) \in Nat
    BY <1>1 DEF CallOuts
  <2> QED BY <2>1
<1>8. PICK S : S = Awaiting(j)
  OBVIOUS
<1>9. S = {o \in DOMAIN tx.vout : o > call.at /\ o # x}
  <2>1. call.at \in Nat /\ DOMAIN tx.vout = 1..Len(tx.vout) /\ \A o \in 1..Len(tx.vout) : IsNotary(o) <=> o < call.at \/ o = x
    BY <1>1 DEF CallOuts
  <2>2. \A o \in DOMAIN tx.vout : o >= j /\ ~ IsNotary(o) <=> o > call.at /\ o # x
    BY <1>7, <2>1
  <2> QED BY <1>8, <2>2 DEF Awaiting
<1>10. PICK c, own : BackTo(c, own) /\ PaysOut(tx.vout, call.at, Payout, A, c, own, x)
  BY <1>1, <1>4, Zenon DEF CallOuts
<1>11. PICK U \in [A -> Nat] : U = Untaken(call.kind, call.used, Payout)
  BY <1>1, <1>4, CallTaken DEF TakenFacts
<1>12. /\ c \in [A -> Nat] /\ own \in [A -> Nat] /\ \A a \in A : c[a] + own[a] <= U[a]
       /\ SumOf(c, A) + SumOf(own, A) <= SumOf(call.plan.change, A) + FeeRet
  BY <1>4, <1>10, <1>11 DEF BackTo
<1>13. \A a \in A : SentBy(a, S) \in Nat /\ SentBy(a, S) <= c[a] + own[a]
  <2>1. TxInv /\ call.at \in Nat \ {0}
    BY <1>1 DEF GivingFacts, Making, CallOuts
  <2>2. SUFFICES ASSUME NEW a \in A PROVE SentBy(a, S) \in Nat /\ SentBy(a, S) <= c[a] + own[a]
    OBVIOUS
  <2>3. PICK at \in Nat \ {0} : at = call.at
    BY <2>1
  <2>4. PICK amount : amount = Payout
    OBVIOUS
  <2>5. PaysOut(tx.vout, at, amount, A, c, own, x)
    BY <1>10, <2>3, <2>4
  <2>6. S = {o \in DOMAIN tx.vout : o > at /\ o # x}
    BY <1>9, <2>3
  <2>7. c \in [A -> Nat] /\ own \in [A -> Nat]
    BY <1>12
  <2>8. TxInv
    BY <2>1
  <2> QED BY ONLY <2>2, <2>3, <2>5, <2>6, <2>7, <2>8, SentPlanned
<1>14. IsFiniteSet(A) /\ ValueIn \in Nat /\ Promised \in Nat /\ LeftOver \in Nat
       /\ SumOf(U, A) = ValueIn - Promised + LeftOver
       /\ SumOf(call.plan.change, A) + FeeRet + 1 + Promised = ValueIn
  BY <1>1, <1>4, <1>11 DEF GivingFacts, PlanFits
<1>15. PICK g : g = Needs(S, st)
  OBVIOUS
<1>16. \A a \in A : g[a] = Over(SentBy(a, S), st[a])
  BY <1>4, <1>15 DEF Needs
<1>17. SumOf(g, A) <= l
  <2>1. CASE LeftOver = 0
    <3>1. PICK h : h = [a \in A |-> g[a] + st[a]]
      OBVIOUS
    <3>2. ASSUME NEW a \in A PROVE g[a] \in Int /\ st[a] \in Int /\ h[a] = g[a] + st[a] /\ h[a] \in Int /\ h[a] <= U[a] /\ U[a] \in Int
      <4>1. PICK sent \in Nat : sent = SentBy(a, S) /\ sent <= c[a] + own[a]
        BY <1>13
      <4>2. PICK u \in Nat, y \in Nat : u = U[a] /\ y = st[a] /\ y <= u
        BY <1>4, <1>5, <1>11 DEF Fits
      <4>3. sent <= u
        BY <1>12, <4>1, <4>2
      <4>4. g[a] = Over(sent, y)
        BY <1>16, <4>1, <4>2
      <4> QED BY <3>1, <4>2, <4>3, <4>4 DEF Over, Least
    <3>3. SumOf(h, A) = SumOf(g, A) + SumOf(st, A)
      <4>1. \A a \in A : g[a] \in Int /\ st[a] \in Int /\ h[a] = g[a] + st[a]
        BY <3>2
      <4>2. IsFiniteSet(A)
        BY <1>14
      <4> QED BY ONLY <4>1, <4>2, SumPlus
    <3>4. SumOf(h, A) <= SumOf(U, A)
      BY <1>14, <3>2, SumMonotone
    <3>5. SumOf(g, A) \in Int /\ SumOf(st, A) \in Int
      <4>1. SumOf(g, A) \in Int
        BY <1>14, <3>2, SumType
      <4>2. SumOf(st, A) \in Int
        BY <1>14, <3>2, SumType
      <4> QED BY <4>1, <4>2
    <3> QED BY <1>5, <1>6, <1>14, <2>1, <3>3, <3>4, <3>5
  <2>2. CASE LeftOver > 0
    <3>1. PICK h : h = [a \in A |-> c[a] + own[a]]
      OBVIOUS
    <3>2. ASSUME NEW a \in A PROVE g[a] \in Int /\ c[a] \in Int /\ own[a] \in Int /\ h[a] = c[a] + own[a] /\ h[a] \in Int /\ g[a] <= h[a]
                                   /\ st[a] = 0
      <4>1. PICK sent \in Nat : sent = SentBy(a, S) /\ sent <= c[a] + own[a]
        BY <1>13
      <4>2. st[a] = 0
        BY <1>4, <1>5, <2>2 DEF Fits
      <4>3. g[a] = Over(sent, 0)
        BY <1>16, <4>1, <4>2
      <4>4. c[a] \in Nat /\ own[a] \in Nat
        BY <1>12
      <4> QED BY <3>1, <4>1, <4>2, <4>3, <4>4 DEF Over, Least
    <3>3. SumOf(h, A) = SumOf(c, A) + SumOf(own, A)
      BY <1>14, <3>2, SumPlus
    <3>4. SumOf(g, A) <= SumOf(h, A)
      BY <1>14, <3>2, SumMonotone
    <3>5. SumOf(st, A) = 0
      BY <1>14, <3>2, SumZero
    <3>6. SumOf(g, A) \in Int /\ SumOf(h, A) \in Int
      <4>1. SumOf(g, A) \in Int
        BY <1>14, <3>2, SumType
      <4>2. SumOf(h, A) \in Int
        BY <1>14, <3>2, SumType
      <4> QED BY <4>1, <4>2
    <3>7. PICK y : y = SumOf(call.plan.change, A) + FeeRet
      OBVIOUS
    <3>8. y + 1 + Promised = ValueIn /\ SumOf(h, A) <= y /\ y \in Int
      <4>1. SumOf(call.plan.change, A) \in Nat /\ FeeRet \in Nat
        BY <1>1, <1>4, FeeAssumption DEF GivingFacts, PlanFits
      <4> QED BY <1>12, <1>14, <3>3, <3>7, <4>1
    <3>9. l = ValueIn - Promised
      BY <1>5, <1>6, <3>5
    <3> QED BY <1>14, <3>4, <3>6, <3>8, <3>9
  <2> QED BY <1>14, <2>1, <2>2
<1>18. SumOf(Needs(Awaiting(j), st), CallAddresses) <= l + (IF j > x THEN 1 ELSE 0)
  <2>1. SumOf(Needs(Awaiting(j), st), CallAddresses) <= l
    BY <1>4, <1>8, <1>15, <1>17
  <2>2. ~ (j > x)
    BY <1>1, <1>7 DEF CallOuts
  <2>4. l + 0 = l
    OBVIOUS
  <2> QED BY <2>1, <2>2, <2>4
<1>19. AfterPaid'
  <2>1. n' = j /\ st = Stores' /\ l = nLiquidity' /\ tx' = tx /\ CallOuts(x)
    BY <1>1, <1>3, <1>5, <1>6, <1>7
  <2> QED BY <1>7, <1>18, <2>1, AfterNext
<1> QED BY <1>3, <1>19

-----------------------------------------------------------------------------
(* Behind the user's output                                                *)

\* What is needed behind the user's output is counted by address.
Counted(x, A, st, S, g) ==
  /\ GivingFacts(x) /\ CallOuts(x) /\ Calling /\ phase = "outputs" /\ TxInv
  /\ A = CallAddresses /\ IsFiniteSet(A) /\ st \in [A -> Nat] /\ st = Stores
  /\ n > call.at /\ n \in 1..Len(tx.vout) /\ n \in Nat /\ call.at \in Nat
  /\ S = Awaiting(n) /\ S \in SUBSET DOMAIN tx.vout /\ g \in [A -> Nat]
  /\ \A a \in A : SentBy(a, S) \in Nat /\ g[a] = Over(SentBy(a, S), st[a])
  /\ SumOf(g, A) <= nLiquidity + (IF n > x THEN 1 ELSE 0) /\ SumOf(g, A) \in Nat /\ nLiquidity \in Nat
LEMMA CountedLemma ==
  ASSUME NEW x, Giving(x), AfterPaid, n > call.at
  PROVE  \E A, st, S, g : Counted(x, A, st, S, g)
<1>1. GivingFacts(x) /\ CallOuts(x) /\ Calling /\ phase = "outputs"
  BY GivingLemma DEF Giving
<1>2. TxInv /\ n \in Nat /\ n \in 1..Len(tx.vout) /\ Len(tx.vout) \in Nat
  BY <1>1 DEF GivingFacts, Making, CallOuts
<1>3. PICK A : A = CallAddresses
  OBVIOUS
<1>4. PICK st \in [A -> Nat] : st = Stores
  BY <1>1, <1>3 DEF GivingFacts
<1>5. PICK S \in SUBSET DOMAIN tx.vout : S = Awaiting(n)
  BY DEF Awaiting
<1>6. \A a \in A : SentBy(a, S) \in Nat
  BY <1>2, SentLemma
<1>7. PICK g : g = Needs(S, st)
  OBVIOUS
<1>8. g \in [A -> Nat] /\ \A a \in A : g[a] = Over(SentBy(a, S), st[a])
  <2>1. DOMAIN g = A /\ g = [a \in A |-> g[a]] /\ \A a \in A : g[a] = Over(SentBy(a, S), st[a])
    BY <1>3, <1>7 DEF Needs
  <2>2. ASSUME NEW a \in A PROVE g[a] \in Nat
    <3>1. PICK s \in Nat, k \in Nat : s = SentBy(a, S) /\ k = st[a]
      BY <1>4, <1>6
    <3> QED BY <2>1, <3>1, OverLemma
  <2> QED BY <2>1, <2>2
<1>9. IsFiniteSet(A) /\ nLiquidity \in Nat /\ call.at \in Nat
  BY <1>1, <1>3 DEF GivingFacts, InPools, CallOuts
<1>10. SumOf(g, A) \in Nat
  <2>1. \A a \in A : g[a] \in Nat
    BY <1>8
  <2> QED BY <1>9, <2>1, SumNat
<1>11. SumOf(g, A) <= nLiquidity + (IF n > x THEN 1 ELSE 0)
  <2>1. NotaryPaid(n) <=> n > x
    <3>1. n <= Len(tx.vout) + 1
      BY <1>2
    <3> QED BY <1>1, <1>2, <3>1, NotaryPaidIs
  <2>2. SumOf(g, A) <= nLiquidity + (IF NotaryPaid(n) THEN 1 ELSE 0)
    BY <1>1, <1>2, <1>3, <1>4, <1>5, <1>7 DEF AfterPaid
  <2>3. (IF NotaryPaid(n) THEN 1 ELSE 0) = IF n > x THEN 1 ELSE 0
    BY <2>1, Zenon
  <2> QED BY <2>2, <2>3
<1> QED BY <1>1, <1>2, <1>3, <1>4, <1>5, <1>6, <1>8, <1>9, <1>10, <1>11 DEF Counted

\* A change output takes of the reserve of its address first, and of what is
\* needed beyond the rest.
LEMMA ChangeNeeds ==
  ASSUME NEW u \in Nat, NEW v \in Nat, NEW s \in Nat
  PROVE  Over(u + v, s) = Over(u, s - Least(v, s)) + Over(v, s)
  BY DEF Over, Least

\* An output that is refused misses the unit of the exchange's notary.
MissesUnit ==
  /\ step = "net" /\ n <= Len(tx.vout) /\ NotaryPaid(n)
  /\ Output.value = Total(At(poolReserves, Output.address, Zero)) + nLiquidity + 1

\* What change is paid, and what the rest needs then
LEMMA ChangeCounted ==
  ASSUME NEW x, NEW A, NEW st, NEW S, NEW g, Counted(x, A, st, S, g), n # x
  PROVE  \E b \in A, v \in Nat :
           /\ b = Output.address /\ v = Output.value
           /\ \A r : r \in [A -> Nat] /\ r[b] = st[b] - Least(v, st[b]) /\ (\A a \in A : a # b => r[a] = st[a])
                     => SumOf(Needs(Awaiting(n + 1), r), A) = SumOf(g, A) - Over(v, st[b])
           /\ Over(v, st[b]) \in Nat /\ Over(v, st[b]) <= SumOf(g, A)
<1>1. GivingFacts(x) /\ CallOuts(x) /\ TxInv /\ A = CallAddresses /\ IsFiniteSet(A) /\ st \in [A -> Nat] /\ g \in [A -> Nat]
      /\ n \in Nat /\ call.at \in Nat /\ n > call.at /\ n \in 1..Len(tx.vout) /\ S = Awaiting(n)
      /\ \A a \in A : SentBy(a, S) \in Nat /\ g[a] = Over(SentBy(a, S), st[a])
  BY DEF Counted
<1>2. PICK b \in A, v \in Nat : b = Output.address /\ v = Output.value
  BY <1>1 DEF GivingFacts, CallOuts, Output
<1>3. PICK T \in SUBSET DOMAIN tx.vout : T = Awaiting(n + 1)
  BY DEF Awaiting
<1>4. S = T \union {n} /\ n \in DOMAIN tx.vout \ T
  <2>1. DOMAIN tx.vout = 1..Len(tx.vout) /\ \A o \in 1..Len(tx.vout) : IsNotary(o) <=> o < call.at \/ o = x
    BY <1>1 DEF CallOuts
  <2>2. ~ IsNotary(n)
    BY <1>1, <2>1
  <2>3. \A o \in 1..Len(tx.vout) : o >= n <=> o >= n + 1 \/ o = n
    BY <1>1
  <2>4. ~ (n >= n + 1)
    BY <1>1
  <2> QED BY <1>1, <1>3, <2>1, <2>2, <2>3, <2>4 DEF Awaiting
<1>5. ASSUME NEW a \in A
      PROVE  SentBy(a, T) \in Nat /\ SentBy(a, S) = SentBy(a, T) + IF b = a THEN v ELSE 0
  <2>1. /\ SentBy(a, T) \in Nat
        /\ \A o \in DOMAIN tx.vout \ T : SentBy(a, T \union {o}) = SentBy(a, T) + IF tx.vout[o].address = a THEN tx.vout[o].value ELSE 0
    BY <1>1, SentLemma
  <2> QED BY <1>2, <1>4, <2>1 DEF Output
<1>6. PICK u \in Nat, k \in Nat : u = SentBy(b, T) /\ k = st[b]
  BY <1>1, <1>5
<1>7. g[b] = Over(u + v, k)
  BY <1>1, <1>5, <1>6
<1>8. Over(u + v, k) = Over(u, k - Least(v, k)) + Over(v, k)
  BY ChangeNeeds
<1>9. Over(v, k) \in Nat /\ k - Least(v, k) \in Nat /\ Over(u, k - Least(v, k)) \in Nat
  <2>1. k - Least(v, k) \in Nat
    BY DEF Least
  <2> QED BY <2>1, OverLemma
<1>10. Over(v, k) <= SumOf(g, A) /\ SumOf(g, A) \in Nat
  <2>1. \A a \in A : g[a] \in Nat
    BY <1>1
  <2>2. g[b] <= SumOf(g, A) /\ SumOf(g, A) \in Nat
    BY <1>1, <2>1, SumNat
  <2> QED BY <1>7, <1>8, <1>9, <2>2
<1>11. ASSUME NEW r, r \in [A -> Nat], r[b] = k - Least(v, k), \A a \in A : a # b => r[a] = st[a]
       PROVE  SumOf(Needs(T, r), A) = SumOf(g, A) - Over(v, k)
  <2>1. PICK h : h = Needs(T, r)
    OBVIOUS
  <2>2. \A a \in A : h[a] = Over(SentBy(a, T), r[a])
    BY <1>1, <2>1 DEF Needs
  <2>3. h[b] = Over(u, k - Least(v, k)) /\ h[b] \in Int
    BY <1>6, <1>9, <1>11, <2>2
  <2>4. ASSUME NEW a \in A PROVE g[a] \in Int /\ (a # b => h[a] = g[a])
    <3>1. g[a] \in Nat
      BY <1>1
    <3>2. CASE a # b
      <4>1. SentBy(a, S) = SentBy(a, T)
        BY <1>5, <3>2
      <4> QED BY <1>1, <1>11, <2>2, <3>1, <3>2, <4>1
    <3> QED BY <3>1, <3>2
  <2>5. SumOf(h, A) = SumOf(g, A) - g[b] + h[b]
    <3>1. \A a \in A : g[a] \in Int /\ (a # b => h[a] = g[a])
      BY <2>4
    <3>2. IsFiniteSet(A) /\ b \in A /\ h[b] \in Int
      BY <1>1, <2>3
    <3> QED BY ONLY <3>1, <3>2, SumExcept
  <2> QED BY <1>7, <1>8, <1>9, <1>10, <2>1, <2>3, <2>5
<1> QED BY <1>2, <1>3, <1>6, <1>9, <1>10, <1>11

\* Change is made, or misses the unit of the exchange's notary.
LEMMA ChangeMade ==
  ASSUME NEW x, Giving(x), UNCHANGED <<step, books, call>>, Next, AfterPaid, n > call.at, n # x
  PROVE  \/ phase' = "outputs" /\ n' = n + 1 /\ Exact' /\ FrozenLast' /\ AfterPaid'
         \/ phase' = "failed" /\ MissesUnit'
<1>1. PICK A, st, S, g : Counted(x, A, st, S, g)
  BY CountedLemma
<1>2. PICK b \in A, v \in Nat :
        /\ b = Output.address /\ v = Output.value
        /\ \A r : r \in [A -> Nat] /\ r[b] = st[b] - Least(v, st[b]) /\ (\A a \in A : a # b => r[a] = st[a])
                  => SumOf(Needs(Awaiting(n + 1), r), A) = SumOf(g, A) - Over(v, st[b])
        /\ Over(v, st[b]) \in Nat /\ Over(v, st[b]) <= SumOf(g, A)
  BY <1>1, ChangeCounted
<1>3. /\ GivingFacts(x) /\ CallOuts(x) /\ Calling /\ A = CallAddresses /\ st \in [A -> Nat] /\ st = Stores
      /\ n \in Nat /\ n \in 1..Len(tx.vout) /\ Len(tx.vout) \in Nat /\ x \in Nat /\ A = DOMAIN poolReserves
      /\ SumOf(g, A) <= nLiquidity + (IF n > x THEN 1 ELSE 0) /\ SumOf(g, A) \in Nat /\ nLiquidity \in Nat
  BY <1>1 DEF Counted, CallOuts, GivingFacts
<1>4. PICK sources : sources = <<b>> /\ Fills(sources)
  BY <1>2, OutputFills DEF Sources
<1>5. PICK s \in Nat : s = st[b]
  BY <1>3
<1>6. Has(sources) = s
  <2>1. DOMAIN sources = {1} /\ sources[1] = b
    BY <1>4
  <2>2. PICK h : h = StoresOf(sources)
    OBVIOUS
  <2>3. h[1] = s
    BY <1>3, <1>5, <2>1, <2>2 DEF StoresOf
  <2>4. SumOf(h, {1}) = h[1]
    BY <2>3, SumOfOne
  <2> QED BY <2>1, <2>2, <2>3, <2>4 DEF Has
<1>7. CASE RefusedOf(sources)
  <2>1. phase' = "failed" /\ Over(v, s) > nLiquidity /\ UNCHANGED <<tx, n, poolReserves, nLiquidity>>
    BY <1>2, <1>6, <1>7 DEF RefusedOf
  <2>2. PICK o \in Nat, l \in Nat, t \in Nat : o = Over(v, s) /\ l = nLiquidity /\ t = SumOf(g, A) /\ o <= t
    BY <1>2, <1>3, <1>5
  <2>3. n > x /\ o = l + 1
    <3>1. t <= l + (IF n > x THEN 1 ELSE 0) /\ o > l
      BY <1>3, <2>1, <2>2
    <3>2. CASE n > x
      <4>1. t <= l + 1
        BY <3>1, <3>2
      <4> QED BY <2>2, <3>1, <3>2, <4>1
    <3>3. CASE ~ (n > x)
      <4>1. t <= l
        BY <3>1, <3>3
      <4> QED BY <2>2, <3>1, <4>1
    <3> QED BY <3>2, <3>3
  <2>4. v = s + l + 1
    BY <2>2, <2>3 DEF Over, Least
  <2>5. step = "net"
    <3>1. step \in {"common", "net"}
      BY <1>3 DEF Calling, CallInv
    <3>2. step = "common" => x = Len(tx.vout)
      BY <1>3 DEF CallOuts
    <3> QED BY <1>3, <2>3, <3>1, <3>2
  <2>6. Total(At(poolReserves, b, Zero)) = s
    BY <1>3, <1>5 DEF At, Stores
  <2>7. NotaryPaid(n)'
    <3>1. NotaryPaid(n)
      <4>1. n <= Len(tx.vout) + 1
        BY <1>3
      <4> QED BY <1>3, <2>3, <4>1, NotaryPaidIs
    <3>2. \A y : IsNotary(y)' = IsNotary(y)
      BY <2>1, Zenon DEF IsNotary
    <3>3. \A y : IsNotary(y)' <=> IsNotary(y)
      BY <3>2, Zenon
    <3> QED BY <2>1, <3>1, <3>3 DEF NotaryPaid
  <2>8. Output' = Output
    BY <2>1 DEF Output
  <2>9. MissesUnit'
    <3>1. step' = "net" /\ n' <= Len(tx'.vout)
      BY <1>3, <2>1, <2>5
    <3>2. Output'.value = v /\ Output'.address = b
      BY <1>2, <2>8
    <3>3. Total(At(poolReserves', Output'.address, Zero)) = s
      BY <2>1, <2>6, <3>2
    <3> QED BY <2>1, <2>2, <2>4, <2>7, <3>1, <3>2, <3>3 DEF MissesUnit
  <2> QED BY <2>1, <2>9
<1>8. CASE MadeOf(sources)
  <2>1. MadeExactly(sources, v) /\ phase' = "outputs" /\ Exact' /\ FrozenLast'
    BY <1>2, <1>8 DEF MadeOf
  <2>2. nLiquidity' = nLiquidity - Over(v, s) /\ n' = n + 1 /\ tx' = tx /\ DOMAIN poolReserves' = A
    BY <1>3, <1>6, <2>1 DEF MadeExactly, LeavesStores
  <2>3. Stores'[b] = Stores[b] - Least(v, Stores[b]) /\ \A a \in A : a # b => Stores'[a] = Stores[a]
    <3>1. PoolInv /\ b \in DOMAIN poolReserves
      BY <1>3 DEF GivingFacts, Making
    <3>2. MadeExactly(<<b>>, v)
      BY <1>4, <2>1
    <3> QED BY <1>3, <3>1, <3>2, MadeOfOwn
  <2>4. PICK r \in [A -> Nat] : r = Stores' /\ r[b] = s - Least(v, s) /\ \A a \in A : a # b => r[a] = st[a]
    <3>1. PICK r : r = Stores' /\ r = [a \in A |-> Stores'[a]]
      BY <2>2 DEF Stores
    <3>2. r[b] = s - Least(v, s) /\ \A a \in A : a # b => r[a] = st[a]
      BY <1>3, <1>5, <2>3, <3>1
    <3>3. \A a \in A : r[a] \in Nat
      <4>1. s - Least(v, s) \in Nat
        BY DEF Least
      <4> QED BY <1>3, <3>2, <4>1
    <3>4. r \in [A -> Nat]
      BY <3>1, <3>3
    <3> QED BY <3>1, <3>2, <3>4
  <2>5. SumOf(Needs(Awaiting(n + 1), r), A) = SumOf(g, A) - Over(v, s)
    BY <1>2, <1>5, <2>4
  <2>6. PICK j \in Nat : j = n + 1 /\ j <= Len(tx.vout) + 1
    BY <1>3
  <2>7. PICK l : l = nLiquidity'
    OBVIOUS
  <2>8. SumOf(Needs(Awaiting(j), r), CallAddresses) <= l + (IF j > x THEN 1 ELSE 0)
    <3>1. PICK o \in Nat, m \in Nat, t \in Nat : o = Over(v, s) /\ m = nLiquidity /\ t = SumOf(g, A)
      BY <1>2, <1>3, <1>5
    <3>2. n > x <=> j > x
      BY <1>3, <2>6
    <3>3. (IF n > x THEN 1 ELSE 0) = IF j > x THEN 1 ELSE 0
      BY <3>2
    <3>4. PICK i \in Nat : i = IF j > x THEN 1 ELSE 0
      OBVIOUS
    <3>5. t <= m + i
      BY <1>3, <3>1, <3>3, <3>4
    <3>6. t - o <= (m - o) + i
      BY <3>5
    <3>7. SumOf(Needs(Awaiting(j), r), CallAddresses) = t - o /\ l = m - o
      BY <1>3, <2>2, <2>5, <2>6, <2>7, <3>1
    <3> QED BY <3>4, <3>6, <3>7
  <2>9. n' = j /\ j <= Len(tx.vout) + 1 /\ tx' = tx /\ CallOuts(x)
    BY <1>3, <2>2, <2>6
  <2>10. AfterPaid'
    BY <2>4, <2>7, <2>8, <2>9, AfterNext
  <2> QED BY <2>1, <2>2, <2>10
<1> QED BY <1>4, <1>7, <1>8, FillsEither

\* The exchange's notary takes one unit of the reserve.
LEMMA ExchangeMade ==
  ASSUME NEW x, Giving(x), UNCHANGED <<step, books, call>>, Next, AfterPaid, n = x
  PROVE  phase' = "outputs" /\ n' = n + 1 /\ Exact' /\ FrozenLast' /\ AfterPaid'
<1>1. GivingFacts(x) /\ CallOuts(x)
  BY GivingLemma DEF Giving
<1>2. n > call.at /\ x \in Nat
  BY <1>1 DEF CallOuts
<1>3. PICK A, st, S, g : Counted(x, A, st, S, g)
  BY <1>2, CountedLemma
<1>4. /\ A = CallAddresses /\ IsFiniteSet(A) /\ st \in [A -> Nat] /\ st = Stores /\ g \in [A -> Nat] /\ S = Awaiting(n)
      /\ n \in Nat /\ n \in 1..Len(tx.vout) /\ Len(tx.vout) \in Nat
      /\ SumOf(g, A) <= nLiquidity /\ SumOf(g, A) \in Nat /\ nLiquidity \in Nat
      /\ \A a \in A : SentBy(a, S) \in Nat /\ g[a] = Over(SentBy(a, S), st[a])
  <2>1. SumOf(g, A) <= nLiquidity + (IF n > x THEN 1 ELSE 0) /\ nLiquidity \in Nat
    BY <1>3 DEF Counted
  <2>2. ~ (n > x)
    BY <1>2
  <2>3. (IF n > x THEN 1 ELSE 0) = 0
    BY <2>2
  <2>4. nLiquidity + 0 = nLiquidity
    BY <2>1
  <2>5. SumOf(g, A) <= nLiquidity
    BY <2>1, <2>3, <2>4
  <2>6. Len(tx.vout) \in Nat
    BY <1>1 DEF CallOuts
  <2> QED BY <1>3, <2>1, <2>5, <2>6 DEF Counted
<1>5. PICK order : order = Ascending(A) /\ IsOrder(order, A) /\ Fills(order)
  <2>1. IsOrder(Ascending(A), A)
    BY <1>1, <1>4 DEF GivingFacts
  <2> QED BY <1>4, <2>1, OutputFills DEF Sources
<1>6. Output.value = 1
  <2>1. Output = Notary("XCH", 1, <<>>)
    BY <1>1 DEF CallOuts, Output
  <2> QED BY <2>1 DEF Notary
<1>7. /\ MadeOf(order) /\ Has(order) = SumOf(st, A) /\ DOMAIN poolReserves' = A
      /\ \A a \in A : Stores'[a] = st[a] - GivenBy(order, st, 1)[a]
  BY <1>4, <1>5, <1>6, AllMade
<1>8. PICK by \in [A -> Nat] : /\ by = GivenBy(order, st, 1) /\ \A a \in A : by[a] <= st[a]
                               /\ SumOf(by, A) = Least(1, SumOf(st, A))
  <2>1. /\ GivenBy(order, st, 1) \in [A -> Nat] /\ \A a \in A : GivenBy(order, st, 1)[a] <= st[a]
        /\ SumOf(GivenBy(order, st, 1), A) = Least(1, SumOf(st, A))
    <3>1. PICK v \in Nat : v = 1
      OBVIOUS
    <3>2. /\ GivenBy(order, st, v) \in [A -> Nat] /\ \A a \in A : GivenBy(order, st, v)[a] <= st[a]
          /\ SumOf(GivenBy(order, st, v), A) = Least(v, SumOf(st, A))
      <4>1. IsOrder(order, A) /\ st \in [A -> Nat]
        BY <1>4, <1>5
      <4>2. v \in Nat
        OBVIOUS
      <4> QED BY ONLY <4>1, <4>2, GivenByLemma
    <3> QED BY ONLY <3>1, <3>2
  <2> QED BY ONLY <2>1
<1>9. PICK w \in Nat : w = SumOf(st, A)
  <2>1. \A a \in A : st[a] \in Nat
    BY <1>4
  <2> QED BY <1>4, <2>1, SumNat
<1>10. PICK r \in [A -> Nat] : r = Stores' /\ \A a \in A : r[a] = st[a] - by[a]
  <2>1. PICK r : r = Stores' /\ r = [a \in A |-> Stores'[a]]
    BY <1>7 DEF Stores
  <2>2. \A a \in A : r[a] = st[a] - by[a]
    BY <1>7, <1>8, <2>1
  <2>3. \A a \in A : r[a] \in Nat
    <3> SUFFICES ASSUME NEW a \in A PROVE r[a] \in Nat
      OBVIOUS
    <3>1. st[a] \in Nat /\ by[a] \in Nat /\ by[a] <= st[a] /\ r[a] = st[a] - by[a]
      BY <1>4, <1>8, <2>2
    <3> QED BY <3>1
  <2>4. r \in [A -> Nat]
    BY <2>1, <2>3
  <2> QED BY <2>1, <2>2, <2>4
<1>11. PICK j \in Nat : j = n + 1 /\ j = x + 1 /\ j <= Len(tx.vout) + 1
  BY <1>4
<1>12. Awaiting(j) = S
  <2>1. IsNotary(x) /\ DOMAIN tx.vout = 1..Len(tx.vout)
    BY <1>1, <1>4 DEF CallOuts
  <2>2. ASSUME NEW o \in DOMAIN tx.vout PROVE o >= n /\ ~ IsNotary(o) <=> o >= j /\ ~ IsNotary(o)
    <3>1. o >= n <=> o >= j \/ o = x
      BY <1>4, <1>11, <2>1
    <3>2. o >= j => o # x
      BY <1>4, <1>11, <2>1
    <3> QED BY <2>1, <3>1, <3>2
  <2> QED BY <1>4, <2>2 DEF Awaiting
<1>13. PICK h : h = Needs(S, r)
  OBVIOUS
<1>14. PICK k : k = [a \in A |-> g[a] + by[a]]
  OBVIOUS
<1>15. ASSUME NEW a \in A
       PROVE  g[a] \in Int /\ by[a] \in Int /\ k[a] = g[a] + by[a] /\ h[a] \in Int /\ k[a] \in Int /\ h[a] <= k[a]
  <2>1. PICK u \in Nat, y \in Nat, z \in Nat : u = SentBy(a, S) /\ y = st[a] /\ z = by[a] /\ z <= y
    BY <1>4, <1>8
  <2>2. g[a] = Over(u, y) /\ h[a] = Over(u, y - z)
    BY <1>4, <1>10, <1>13, <2>1 DEF Needs
  <2>3. Over(u, y - z) <= Over(u, y) + z /\ Over(u, y) \in Nat /\ Over(u, y - z) \in Nat
    BY <2>1 DEF Over, Least
  <2> QED BY <1>14, <2>1, <2>2, <2>3
<1>16. SumOf(k, A) = SumOf(g, A) + SumOf(by, A)
  <2>1. \A a \in A : g[a] \in Int /\ by[a] \in Int /\ k[a] = g[a] + by[a]
    BY <1>15
  <2> QED BY ONLY <1>4, <2>1, SumPlus
<1>17. SumOf(h, A) <= SumOf(k, A) /\ SumOf(h, A) \in Int
  <2>1. \A a \in A : h[a] \in Int /\ k[a] \in Int /\ h[a] <= k[a]
    BY <1>15
  <2>2. SumOf(h, A) <= SumOf(k, A)
    BY ONLY <1>4, <2>1, SumMonotone
  <2>3. SumOf(h, A) \in Int
    BY ONLY <1>4, <2>1, SumType
  <2> QED BY <2>2, <2>3
<1>18. nLiquidity' = nLiquidity - Over(1, w) /\ n' = n + 1 /\ tx' = tx /\ phase' = "outputs" /\ Exact' /\ FrozenLast'
  BY <1>6, <1>7, <1>9 DEF MadeOf, MadeExactly
<1>19. PICK l : l = nLiquidity'
  OBVIOUS
<1>20. SumOf(Needs(Awaiting(j), r), CallAddresses) <= l + (IF j > x THEN 1 ELSE 0)
  <2>1. PICK m \in Nat, t \in Nat, i \in Int : m = nLiquidity /\ t = SumOf(g, A) /\ i = SumOf(h, A) /\ t <= m
    BY <1>4, <1>17
  <2>2. i <= t + Least(1, w)
    BY <1>8, <1>9, <1>16, <1>17, <2>1
  <2>3. l = m - Over(1, w)
    BY <1>18, <1>19, <2>1
  <2>4. i <= l + 1
    BY <2>1, <2>2, <2>3 DEF Over, Least
  <2>5. j > x
    BY <1>2, <1>11
  <2>6. SumOf(Needs(Awaiting(j), r), CallAddresses) = i
    BY <1>4, <1>12, <1>13, <2>1
  <2> QED BY <2>4, <2>5, <2>6
<1>21. AfterPaid'
  <2>1. n' = j /\ j <= Len(tx.vout) + 1 /\ tx' = tx /\ CallOuts(x)
    BY <1>1, <1>11, <1>18
  <2> QED BY <1>10, <1>11, <1>19, <1>20, <2>1, AfterNext
<1> QED BY <1>18, <1>21

-----------------------------------------------------------------------------
(* Every step of a calculation                                             *)

\* A calculation that gets past its outputs has the totals right.
LEMMA FinishMade ==
  ASSUME Calling, PaidInv, Exact, FrozenLast, ~ Poor, Finish, UNCHANGED <<step, books, call>>
  PROVE  phase' = "done" /\ TotalsMatch' /\ Exact' /\ FrozenLast'
<1>1. phase = "outputs" /\ n > Len(tx.vout)
  BY DEF Finish
<1>2. TxInv /\ PoolInv /\ FrozenInv /\ PhaseInv /\ BooksInv
  BY <1>1 DEF Calling, IInv, TxOfCall
<1>3. InPools
  <2>1. Aside = Zero
    BY <1>1, NothingAside
  <2> QED BY <1>1, <1>2, <2>1, LeftInPools
<1>4. DOMAIN tx.vout = 1..Len(tx.vout) /\ Len(tx.vout) \in Nat
  BY <1>2, OutsLemma
<1>5. n = Len(tx.vout) + 1 /\ n \in Nat /\ n - 1 = Len(tx.vout)
  BY <1>1, <1>2, <1>4 DEF PhaseInv
<1>6. Value(tx.vout) = SumOf(Values, 1..(n - 1))
  BY <1>4, <1>5 DEF Value, Values
<1>7. TotalsMatch
  <2>1. PICK l \in Nat, s \in Nat, v \in Nat :
          /\ l = nLiquidity /\ s = SumOf(Stores, DOMAIN poolReserves) /\ v = SumOf(Values, 1..(n - 1))
          /\ ValueIn = l + s + v /\ Total(txFeeFractions) = l + s
    BY <1>3 DEF InPools
  <2>2. Total(txFeeFractions) = ValueIn - Value(tx.vout)
    BY <1>6, <2>1
  <2>3. IsPositive(txFeeFractions) /\ \A o \in DOMAIN outs : IsPositive(outs[o].fractions)
    BY <1>3 DEF InPools
  <2>4. \A o \in DOMAIN outs : Total(outs[o].fractions) = tx.vout[o].value
    BY DEF Exact
  <2> QED BY <2>2, <2>3, <2>4 DEF TotalsMatch
<1>8. phase' = "done" /\ UNCHANGED <<tx, supply, n, pools, poolFrozen, frColdFees, fFreezeAll, outs>>
  <2>1. phase' = IF TotalsMatch THEN "done" ELSE "failed"
    BY DEF Finish
  <2> QED BY <1>7, <2>1 DEF Finish
<1>9. /\ tx' = tx /\ n' = n /\ poolReserves' = poolReserves /\ poolFrozen' = poolFrozen /\ frColdFees' = frColdFees /\ outs' = outs
      /\ frCommonLiquidity' = frCommonLiquidity /\ nLiquidity' = nLiquidity /\ call' = call
  BY <1>8 DEF pools
<1>10. TotalsMatch'
  BY <1>7, <1>9 DEF TotalsMatch, txFeeFractions, ValueIn
<1>11. Exact'
  BY <1>1, <1>8, <1>9 DEF Exact, Liquid
<1>12. FrozenLast'
  BY <1>1, <1>8, <1>9 DEF FrozenLast, FrozenFor
<1> QED BY <1>8, <1>10, <1>11, <1>12

\* A calculation keeps to the plan: the totals are right so far, the addresses
\* have what the plan has for them, and the liquid suffices for the rest.
KeepsPlan ==
  /\ Exact /\ FrozenLast /\ BeforePaid /\ AfterPaid
  /\ phase = "inputs" => ReservesKept
  /\ phase = "done" => TotalsMatch

\* Every step of it does, or misses the unit of the exchange's notary.
LEMMA StepKeepsPlan ==
  ASSUME Calling, PaidInv, ~ Poor, KeepsPlan, Next, UNCHANGED <<step, books, call>>
  PROVE  IF phase' = "failed" THEN MissesUnit' ELSE KeepsPlan'
<1>1. IInv /\ tx.reward = Null /\ Exact /\ FrozenLast /\ BeforePaid /\ AfterPaid /\ (phase = "inputs" => ReservesKept)
  BY DEF Calling, TxOfCall, KeepsPlan
<1>2. phase \in {"inputs", "outputs"} /\ TxInv /\ PhaseInv
  BY <1>1, StepFacts DEF IInv
<1>3. call.at \in Nat \ {0} /\ call' = call
  BY CallPlan DEF Calling
<1>4. n \in Nat \ {0} /\ Len(tx.vin) \in Nat /\ Len(tx.vout) \in Nat
  BY <1>2, OutsLemma DEF PhaseInv, TxInv
<1>5. CASE phase = "inputs" /\ n <= Len(tx.vin)
  <2>1. phase' = "inputs" /\ Exact' /\ ReservesKept' /\ FrozenLast'
    BY <1>1, <1>5, InputsKept
  <2> QED BY <2>1 DEF KeepsPlan, BeforePaid, AfterPaid
<1>6. CASE phase = "inputs" /\ ~ (n <= Len(tx.vin))
  <2>1. ShareLiquidity
    <3>1. phase # "outputs" /\ phase # "stake"
      BY <1>6
    <3>2. ~ RefuseInput /\ ~ TakeInput /\ ~ TakeColdInput /\ ~ FreezeShared /\ ~ FreezeOne
      BY <1>6, Zenon DEF RefuseInput, TakeInput, TakeColdInput, FreezeShared, FreezeOne, Accepted
    <3>3. /\ ~ PlainOutput /\ ~ FrozenOutput /\ ~ SharedFrozenOutput /\ ~ SharedVoluntaryOutput /\ ~ SharedEmptyOutput
          /\ ~ Finish /\ ~ CalculateStakingFractions
      BY <3>1, Zenon DEF PlainOutput, FrozenOutput, SharedFrozenOutput, SharedVoluntaryOutput, SharedEmptyOutput,
                         Finish, CalculateStakingFractions
    <3> QED BY <3>2, <3>3, Zenon DEF Next
  <2>2. phase' = "outputs" /\ n' = 1 /\ Exact' /\ FrozenLast' /\ BeforePaid'
    BY <1>1, <1>6, <2>1, OutputsStart
  <2>3. AfterPaid'
    <3>1. ASSUME NEW k \in Nat, n' = k, k > call'.at PROVE FALSE
      BY <1>3, <2>2, <3>1
    <3> QED BY <3>1 DEF AfterPaid
  <2> QED BY <2>2, <2>3 DEF KeepsPlan
<1>7. CASE phase = "outputs" /\ n <= Len(tx.vout)
  <2>1. PICK x : Giving(x)
    <3>1. PICK x : CallOuts(x)
      BY CallOutsLemma
    <3> QED BY <1>1, <1>7, <3>1 DEF Giving
  <2>2. CASE n < call.at
    <3>1. phase' = "outputs" /\ n' = n + 1 /\ Exact' /\ FrozenLast' /\ BeforePaid'
      BY <1>1, <2>1, <2>2, NotaryMade
    <3>2. AfterPaid'
      <4>1. ASSUME NEW k \in Nat, n' = k, k > call'.at PROVE FALSE
        BY <1>3, <1>4, <2>2, <3>1, <4>1
      <4> QED BY <4>1 DEF AfterPaid
    <3> QED BY <3>1, <3>2 DEF KeepsPlan
  <2>3. ASSUME n >= call.at, n' = n + 1 PROVE BeforePaid'
    <3>1. ASSUME NEW m \in Nat, n' = m + 1, n' <= call'.at PROVE FALSE
      BY <1>3, <1>4, <2>3, <3>1
    <3> QED BY <3>1 DEF BeforePaid
  <2>4. CASE n = call.at
    <3>1. phase' = "outputs" /\ n' = n + 1 /\ Exact' /\ FrozenLast' /\ AfterPaid'
      BY <1>1, <2>1, <2>4, UserMade
    <3>2. n >= call.at
      BY <1>4, <2>4
    <3> QED BY <2>3, <3>1, <3>2 DEF KeepsPlan
  <2>5. CASE n > call.at
    <3>1. CASE phase' = "failed" /\ MissesUnit'
      BY <3>1
    <3>2. CASE phase' = "outputs" /\ n' = n + 1 /\ Exact' /\ FrozenLast' /\ AfterPaid'
      <4>1. n >= call.at
        BY <1>3, <1>4, <2>5
      <4> QED BY <2>3, <3>2, <4>1 DEF KeepsPlan
    <3>3. CASE n = x
      BY <1>1, <2>1, <2>5, <3>2, <3>3, ExchangeMade
    <3>4. CASE n # x
      BY <1>1, <2>1, <2>5, <3>1, <3>2, <3>4, ChangeMade
    <3> QED BY <3>3, <3>4
  <2> QED BY <1>3, <1>4, <2>2, <2>4, <2>5
<1>8. CASE phase = "outputs" /\ ~ (n <= Len(tx.vout))
  <2>1. Finish
    <3>1. phase # "inputs" /\ phase # "stake"
      BY <1>8
    <3>2. /\ ~ RefuseInput /\ ~ TakeInput /\ ~ TakeColdInput /\ ~ FreezeShared /\ ~ FreezeOne /\ ~ ShareLiquidity
          /\ ~ CalculateStakingFractions
      BY <3>1, Zenon DEF RefuseInput, TakeInput, TakeColdInput, FreezeShared, FreezeOne, Accepted, ShareLiquidity,
                         CalculateStakingFractions
    <3>3. ~ PlainOutput /\ ~ FrozenOutput /\ ~ SharedFrozenOutput /\ ~ SharedVoluntaryOutput /\ ~ SharedEmptyOutput
      BY <1>8, Zenon DEF PlainOutput, FrozenOutput, SharedFrozenOutput, SharedVoluntaryOutput, SharedEmptyOutput
    <3> QED BY <3>2, <3>3, Zenon DEF Next
  <2>2. phase' = "done" /\ TotalsMatch' /\ Exact' /\ FrozenLast'
    BY <1>1, <2>1, FinishMade
  <2> QED BY <2>2 DEF KeepsPlan, BeforePaid, AfterPaid
<1> QED BY <1>2, <1>5, <1>6, <1>7, <1>8

-----------------------------------------------------------------------------
(* The balance after a withdrawal                                          *)

\* What of a balance is left by level
LEMMA PartsLeft ==
  ASSUME NEW f \in Fractions, NEW ask, NEW e \in Indexes, NEW kind \in {"L", "R"}, NEW last \in Int,
         IsPartOf(ask, f, e, kind, last), NEW h, h = Minus(f, ask)
  PROVE  /\ Total(h) = Total(f) - Total(ask) /\ Total(ask) \in Nat
         /\ kind = "L" => /\ Low(h, e) = Low(f, e) /\ High(h, e) = High(f, e) - Total(ask)
                          /\ High(h, e + 1) <= High(f, e + 1) - Total(ask) + last
         /\ kind = "R" => /\ High(h, e + 1) = High(f, e + 1) /\ Low(h, e) <= Low(f, e) - Total(ask) + last
                          /\ last = 0 => High(h, e) = High(f, e) /\ Low(h, e) = Low(f, e) - Total(ask)
<1>1. /\ ask \in Fractions /\ \A i \in Indexes : ask[i] <= f[i]
      /\ \A i \in Indexes : (kind = "L" /\ i < e) \/ (kind = "R" /\ i > e) => ask[i] = 0
      /\ ask[e] <= last
  BY DEF IsPartOf
<1>2. h \in Fractions /\ \A i \in Indexes : h[i] = f[i] - ask[i]
  BY <1>1, MinusLemma
<1>3. \A i \in Indexes : f[i] \in Nat /\ ask[i] \in Nat /\ h[i] \in Nat
  BY <1>1, <1>2, AmountType
<1>4. AreSum(f, h, ask)
  BY <1>2, <1>3 DEF AreSum
<1>f. ASSUME NEW g \in Fractions
      PROVE  /\ Total(g) \in Nat /\ Low(g, e) \in Nat /\ High(g, e) \in Nat /\ High(g, e + 1) \in Nat /\ g[e] \in Nat
             /\ Low(g, e) + High(g, e) = Total(g) /\ High(g, e) = g[e] + High(g, e + 1)
  <2>1. \A i \in Indexes : g[i] \in Nat
    BY AmountType
  <2> QED BY ONLY e \in Indexes, <2>1, PartsAtLevel
<1>5. PICK tf \in Nat, lf \in Nat, hf \in Nat, uf \in Nat, xf \in Nat :
        /\ tf = Total(f) /\ lf = Low(f, e) /\ hf = High(f, e) /\ uf = High(f, e + 1) /\ xf = f[e] /\ lf + hf = tf /\ hf = xf + uf
  BY f \in Fractions, <1>f
<1>6. PICK ta \in Nat, la \in Nat, ha \in Nat, ua \in Nat, xa \in Nat :
        /\ ta = Total(ask) /\ la = Low(ask, e) /\ ha = High(ask, e) /\ ua = High(ask, e + 1) /\ xa = ask[e]
        /\ la + ha = ta /\ ha = xa + ua
  BY <1>1, <1>f
<1>7. PICK th \in Nat, lh \in Nat, hh \in Nat, uh \in Nat, xh \in Nat :
        /\ th = Total(h) /\ lh = Low(h, e) /\ hh = High(h, e) /\ uh = High(h, e + 1) /\ xh = h[e]
        /\ lh + hh = th /\ hh = xh + uh
  <2>1. h \in Fractions
    BY <1>2
  <2>2. /\ Total(h) \in Nat /\ Low(h, e) \in Nat /\ High(h, e) \in Nat /\ High(h, e + 1) \in Nat /\ h[e] \in Nat
        /\ Low(h, e) + High(h, e) = Total(h) /\ High(h, e) = h[e] + High(h, e + 1)
    BY ONLY <2>1, <1>f
  <2> QED BY ONLY <2>2
<1>8. lf = lh + la /\ hf = hh + ha /\ uf = uh + ua
  <2>1. /\ Low(f, e) = Low(h, e) + Low(ask, e) /\ High(f, e) = High(h, e) + High(ask, e)
        /\ High(f, e + 1) = High(h, e + 1) + High(ask, e + 1)
    BY ONLY <1>4, e \in Indexes, PartsPlus
  <2> QED BY <1>5, <1>6, <1>7, <2>1
<1>9. xa <= last
  BY <1>1, <1>6
<1>10. ASSUME kind = "L" PROVE la = 0
  <2>1. \A i \in Indexes : ask[i] \in Int /\ (i < e => ask[i] = 0)
    BY <1>1, <1>3, <1>10
  <2>2. Low(ask, e) = 0
    BY <2>1, LowZero
  <2> QED BY <1>6, <2>2
<1>11. ASSUME kind = "R" PROVE ua = 0
  <2>1. PICK S : S = (e + 1)..(PegSize - 1)
    OBVIOUS
  <2>2. S \subseteq Indexes /\ \A k \in S : k > e
    BY <2>1, PegSizeAssumption DEF Indexes
  <2>3. IsFiniteSet(S)
    BY <2>2, IndexesFinite, FS_Subset
  <2>4. \A k \in S : ask[k] = 0
    BY <1>1, <1>11, <2>2
  <2>5. SumOf(ask, S) = 0
    BY <2>3, <2>4, SumZero
  <2> QED BY <1>6, <2>1, <2>5 DEF High, Between
<1>12. th = tf - ta
  BY <1>5, <1>6, <1>7, <1>8
<1>13. CASE kind = "L"
  <2>1. lh = lf /\ hh = hf - ta /\ uh <= uf - ta + last
    BY <1>5, <1>6, <1>7, <1>8, <1>9, <1>10, <1>13
  <2> QED BY <1>5, <1>6, <1>7, <1>12, <1>13, <2>1
<1>14. CASE kind = "R"
  <2>1. uh = uf /\ lh <= lf - ta + last /\ (last = 0 => hh = hf /\ lh = lf - ta)
    BY <1>5, <1>6, <1>7, <1>8, <1>9, <1>11, <1>14
  <2> QED BY <1>5, <1>6, <1>7, <1>12, <1>14, <2>1
<1> QED BY <1>13, <1>14

\* The balance that is left is that of its level.
LEMMA BalanceLeft ==
  ASSUME Calling
  PROVE  IsValid(NewBalance)
<1>1. GoodBalance /\ AskInv /\ call.kind \in {"L", "R"} /\ call.amount \in Nat
  BY DEF Calling, SessionInv, CallInv, CanUse
<1>0. PICK kind \in {"L", "R"}, amount \in Nat : kind = call.kind /\ amount = call.amount
  BY <1>1
<1>2. PICK ask, e, last : /\ kind = call.kind /\ amount = call.amount
                         /\ ask = call.requested /\ e = Effective(peglevel) /\ last = AtLevel(kind)
  BY <1>0
<1>3. PICK fr, lv, r, li, id : balance = [fractions |-> fr, peglevel |-> lv, nReserve |-> r, nLiquid |-> li, nId |-> id]
                               /\ fr = balance.fractions /\ lv = peglevel /\ r \in Nat /\ li \in Nat
  BY <1>1 DEF GoodBalance
<1>4. fr \in Fractions /\ e \in Indexes /\ IsValid(balance)
  BY <1>1, <1>2, <1>3 DEF GoodBalance
<1>5. IsPartOf(ask, fr, e, kind, last) /\ Total(ask) = amount
  BY <1>1, <1>2, <1>3 DEF AskInv
<1>6. PICK total \in Nat, lf \in Nat, hf \in Nat, uf \in Nat :
        total = Total(fr) /\ lf = Low(fr, e) /\ hf = High(fr, e) /\ uf = High(fr, e + 1)
  <2>1. \A i \in Indexes : fr[i] \in Nat
    BY <1>4, AmountType
  <2> QED BY <1>4, <2>1, PartsAtLevel
<1>7. last = (IF kind = "L" THEN li - uf ELSE r - lf) /\ last \in Int
  BY <1>2, <1>3, <1>6 DEF AtLevel
<1>8. PICK h : h = Minus(fr, ask)
  OBVIOUS
<1>9. PICK tl \in Nat, tr \in Nat : /\ tl = (IF call.kind = "L" THEN call.amount ELSE 0)
                                    /\ tr = (IF call.kind = "R" THEN call.amount ELSE 0)
  BY <1>1
<1>10. NewBalance = [fractions |-> h, peglevel |-> lv, nReserve |-> r - tr, nLiquid |-> li - tl, nId |-> id]
  <2>1. NewBalance = [balance EXCEPT !.fractions = Minus(@, ask), !.nLiquid = @ - tl, !.nReserve = @ - tr]
    BY <1>2, <1>9 DEF NewBalance
  <2> QED BY <1>3, <1>8, <2>1
<1>11. /\ Total(h) = total - amount
       /\ kind = "L" => Low(h, e) = lf /\ High(h, e) = hf - amount /\ High(h, e + 1) <= uf - amount + last
       /\ kind = "R" => /\ High(h, e + 1) = uf /\ Low(h, e) <= lf - amount + last
                        /\ last = 0 => High(h, e) = hf /\ Low(h, e) = lf - amount
  BY <1>4, <1>5, <1>6, <1>7, <1>8, PartsLeft
<1>12. /\ LevelIsValid(lv) /\ r + li = total
       /\ Partial(lv) => li >= uf /\ r >= lf
       /\ ~ Partial(lv) => li = hf /\ r = lf
  <2>1. Effective(balance.peglevel) = e /\ balance.peglevel = lv /\ balance.nReserve = r /\ balance.nLiquid = li
    BY <1>2, <1>3
  <2> QED BY <1>3, <1>4, <1>6, <2>1 DEF IsValid
<1>13. /\ (r - tr) + (li - tl) = Total(h)
       /\ Partial(lv) => li - tl >= High(h, e + 1) /\ r - tr >= Low(h, e)
       /\ ~ Partial(lv) => li - tl = High(h, e) /\ r - tr = Low(h, e)
  <2>0. PICK lh \in Nat, hh \in Nat, uh \in Nat : lh = Low(h, e) /\ hh = High(h, e) /\ uh = High(h, e + 1)
    <3>1. h \in Fractions
      BY <1>4, <1>5, <1>8, MinusLemma DEF IsPartOf
    <3>2. \A i \in Indexes : h[i] \in Nat
      BY <3>1, AmountType
    <3> QED BY <1>4, <3>2, PartsAtLevel
  <2>1. CASE kind = "L"
    <3>1. tl = amount /\ tr = 0 /\ last = li - uf
      BY <1>2, <1>7, <1>9, <2>1
    <3>2. lh = lf /\ hh = hf - amount /\ uh <= uf - amount + last
      BY <1>11, <2>0, <2>1
    <3> QED BY <1>3, <1>11, <1>12, <2>0, <3>1, <3>2
  <2>2. CASE kind = "R"
    <3>1. tr = amount /\ tl = 0 /\ last = r - lf
      BY <1>2, <1>7, <1>9, <2>2
    <3>2. uh = uf /\ lh <= lf - amount + last /\ (last = 0 => hh = hf /\ lh = lf - amount)
      BY <1>11, <2>0, <2>2
    <3> QED BY <1>3, <1>11, <1>12, <2>0, <3>1, <3>2
  <2> QED BY <2>1, <2>2
<1>14. Effective(lv) = e
  BY <1>2, <1>3
<1> QED BY <1>10, <1>12, <1>13, <1>14 DEF IsValid

-----------------------------------------------------------------------------
(* Withdrawals succeed                                                     *)

\* A calculation starts by the plan.
LEMMA StartKeepsPlan ==
  ASSUME NEW rawTx, Calculate(rawTx)
  PROVE  KeepsPlan'
<1>1. /\ phase' = "inputs" /\ n' = 1 /\ poolReserves' = <<>> /\ poolLiquidity' = <<>> /\ nLiquidity' = 0 /\ frColdFees' = Zero
      /\ outs' = <<>>
  BY DEF Calculate
<1>2. DOMAIN <<>> = {} /\ SumAll(<<>>) = Zero /\ Total(Zero) = 0
  BY EmptyLemma, ZeroTotal
<1>3. Exact'
  BY <1>1, <1>2 DEF Exact, Liquid
<1>4. FrozenLast' /\ BeforePaid' /\ AfterPaid'
  BY <1>1 DEF FrozenLast, BeforePaid, AfterPaid
<1>5. ReservesKept'
  <2>1. TakenIns' = {}
    BY <1>1 DEF TakenIns
  <2>2. \A a \in Nat : Total(At(poolReserves', a, Zero)) = 0
    BY <1>1, <1>2 DEF At
  <2>3. \A g : SumOf(g, {}) = 0
    BY SumRecursion
  <2>4. \A a \in Nat : KeptBy(a, TakenIns)' = 0
    BY <2>1, <2>3 DEF KeptBy
  <2> QED BY <2>2, <2>4 DEF ReservesKept
<1> QED BY <1>1, <1>3, <1>4, <1>5 DEF KeepsPlan

\* Unless its inputs can not pay for it, a call keeps to the plan until it fails
\* for the unit of the exchange's notary; its first fee is the whole one.
SucInv ==
  step \in {"common", "net"} /\ ~ Poor =>
    /\ IF phase = "failed" THEN MissesUnit ELSE KeepsPlan
    /\ step = "net" => Total(call.fees) = FeeRet

\* It depends on these variables.
LEMMA SucStutters ==
  ASSUME SucInv, UNCHANGED wvars
  PROVE  SucInv'
<1>1. /\ step' = step /\ call' = call /\ coins' = coins /\ peglevel' = peglevel /\ tx' = tx /\ supply' = supply /\ phase' = phase
      /\ n' = n /\ poolReserves' = poolReserves /\ poolLiquidity' = poolLiquidity /\ frCommonLiquidity' = frCommonLiquidity
      /\ nLiquidity' = nLiquidity /\ poolFrozen' = poolFrozen /\ frColdFees' = frColdFees /\ outs' = outs
      /\ UNCHANGED <<step, books, call>>
  BY DEF wvars, vars, pools, books
<1>2. Poor' <=> Poor
  BY <1>1 DEF Poor, ValueIn
<1>3. \A y : IsNotary(y)' = IsNotary(y)
  BY <1>1, Zenon DEF IsNotary
<1>4. \A y : IsNotary(y)' <=> IsNotary(y)
  BY <1>3, Zenon
<1>5. \A k : NotaryPaid(k)' <=> NotaryPaid(k)
  BY <1>1, <1>4 DEF NotaryPaid
<1>6. MissesUnit => MissesUnit'
  <2>1. NotaryPaid(n)' <=> NotaryPaid(n)
    BY <1>1, <1>4 DEF NotaryPaid
  <2> QED BY <1>1, <2>1 DEF MissesUnit, Output
<1>7. CallAddresses' = CallAddresses /\ \A m : PlanStores(m)' = PlanStores(m)
  BY <1>1, PlanKept
<1>8. Exact => Exact'
  BY <1>1 DEF Exact, Liquid
<1>9. FrozenLast => FrozenLast'
  BY <1>1 DEF FrozenLast, FrozenFor
<1>10. BeforePaid => BeforePaid'
  <2>1. \A a : Stores'[a] = Stores[a]
    BY <1>1 DEF Stores
  <2> QED BY <1>1, <1>7, <2>1 DEF BeforePaid
<1>11. AfterPaid => AfterPaid'
  <2> SUFFICES ASSUME AfterPaid, NEW k \in Nat, phase' = "outputs", n' = k, k > call'.at
               PROVE  SumOf(Needs(Awaiting(k), Stores)', CallAddresses') <= nLiquidity' + (IF NotaryPaid(k)' THEN 1 ELSE 0)
    BY DEF AfterPaid
  <2>1. SumOf(Needs(Awaiting(k), Stores), CallAddresses) <= nLiquidity + (IF NotaryPaid(k) THEN 1 ELSE 0)
    BY <1>1 DEF AfterPaid
  <2>2. Awaiting(k)' = Awaiting(k)
    BY <1>1, <1>4 DEF Awaiting
  <2>3. Needs(Awaiting(k), Stores)' = Needs(Awaiting(k), Stores)
    BY <1>1, <1>7, <2>2 DEF Needs, SentBy, Values, Stores
  <2>4. (IF NotaryPaid(k)' THEN 1 ELSE 0) = IF NotaryPaid(k) THEN 1 ELSE 0
    BY <1>5, Zenon
  <2> QED BY <1>1, <1>7, <2>1, <2>3, <2>4
<1>12. ReservesKept => ReservesKept'
  BY <1>1 DEF ReservesKept, KeptBy, Lows, TakenIns
<1>13. TotalsMatch => TotalsMatch'
  BY <1>1 DEF TotalsMatch, txFeeFractions, ValueIn
<1>14. KeepsPlan => KeepsPlan'
  BY <1>1, <1>8, <1>9, <1>10, <1>11, <1>12, <1>13 DEF KeepsPlan
<1> QED BY <1>1, <1>2, <1>6, <1>14 DEF SucInv

\* The fee of the first calculation is the whole fee.
LEMMA WholeFee ==
  ASSUME Calling, ~ Poor, step = "common", TotalsMatch
  PROVE  Total(txFeeFractions) = FeeRet
<1>1. OutsFit
  BY OutsFitLemma
<1>2. ValueIn - Value(tx.vout) = FeeRet
  BY <1>1 DEF OutsFit
<1> QED BY <1>2 DEF TotalsMatch

\* When the first calculation is done, the second starts by the plan too.
LEMMA SucMaintenance ==
  ASSUME Calling, Calling', SucInv, AddMaintenance
  PROVE  SucInv'
<1>1. step = "common" /\ phase = "done" /\ Calculate(WithMaintenance(tx)) /\ UNCHANGED books
  BY DEF AddMaintenance
<1>2. KeepsPlan' /\ phase' = "inputs"
  <2>1. PICK rawTx : rawTx = WithMaintenance(tx)
    OBVIOUS
  <2>2. Calculate(rawTx)
    BY <1>1, <2>1
  <2> QED BY <2>2, StartKeepsPlan DEF Calculate
<1>3. PICK fee : fee = txFeeFractions
  OBVIOUS
<1>4. call' = [call EXCEPT !.fees = fee]
  BY <1>3 DEF AddMaintenance
<1>5. call = [kind |-> call.kind, used |-> call.used, amount |-> call.amount, at |-> call.at,
              requested |-> call.requested, plan |-> call.plan, fees |-> call.fees]
  BY DEF Calling, CallInv
<1>6. /\ call'.amount = call.amount /\ call'.at = call.at /\ call'.used = call.used /\ call'.fees = fee
      /\ call'.kind = call.kind /\ call'.plan = call.plan
  <2>1. PICK k, u, a, at, ask, plan, old :
          /\ call = [kind |-> k, used |-> u, amount |-> a, at |-> at, requested |-> ask, plan |-> plan, fees |-> old]
          /\ k = call.kind
    BY <1>5
  <2> QED BY <1>4, <2>1
<1>7. tx'.vin = tx.vin
  <2>1. tx.vin = InsOf(call.used) /\ tx'.vin = InsOf(call.used)'
    BY DEF Calling, TxOfCall
  <2>2. coins' = coins /\ peglevel' = peglevel /\ known' = known
    BY <1>1 DEF books
  <2>3. InsOf(call.used)' = InsOf(call.used)
    BY <1>6, <2>2, BackSame DEF Calling
  <2> QED BY <2>1, <2>3
<1>8. Poor' <=> Poor
  BY <1>6, <1>7 DEF Poor, ValueIn
<1>9. ASSUME ~ Poor PROVE Total(fee) = FeeRet
  <2>1. KeepsPlan
    BY <1>1, <1>9 DEF SucInv
  <2>2. TotalsMatch
    BY <1>1, <2>1 DEF KeepsPlan
  <2> QED BY <1>1, <1>3, <1>9, <2>2, WholeFee
<1>10. ~ Poor' => Total(call'.fees) = FeeRet
  BY <1>6, <1>8, <1>9
<1>11. phase' # "failed"
  BY <1>2
<1> QED BY <1>2, <1>10, <1>11 DEF SucInv

\* Every step keeps to the plan.
LEMMA NextSuc == WPaid /\ SucInv /\ [WithdrawNext]_wvars => SucInv'
<1> SUFFICES ASSUME WPaid, SucInv, [WithdrawNext]_wvars, step' \in {"common", "net"}
             PROVE  SucInv'
  BY DEF SucInv
<1>1. WInv /\ WInv'
  BY NextWithdraw DEF WPaid
<1>2. Calling'
  BY <1>1 DEF WInv, Idle
<1>3. CASE UNCHANGED wvars
  BY <1>3, SucStutters
<1>4. CASE Next /\ UNCHANGED <<step, books, call>>
  <2>1. step \in {"common", "net"}
    BY <1>4
  <2>2. PaidInv /\ Calling
    BY <1>1, <2>1 DEF WPaid, WInv, Idle
  <2>3. tx' = tx /\ phase # "failed"
    <3>1. IInv /\ tx.reward = Null
      BY <2>2 DEF Calling, TxOfCall
    <3>2. tx' = tx /\ phase \in {"inputs", "outputs"}
      BY <1>4, <3>1, StepFacts
    <3> QED BY <3>2
  <2>4. Poor' <=> Poor
    BY <1>4, <2>3 DEF Poor, ValueIn
  <2>5. ASSUME ~ Poor
        PROVE  (IF phase' = "failed" THEN MissesUnit' ELSE KeepsPlan') /\ (step = "net" => Total(call.fees) = FeeRet)
    <3>1. KeepsPlan /\ (step = "net" => Total(call.fees) = FeeRet)
      BY <2>1, <2>3, <2>5 DEF SucInv
    <3> QED BY <1>4, <2>2, <2>5, <3>1, StepKeepsPlan
  <2>6. step' = step /\ call' = call
    BY <1>4
  <2> QED BY <2>4, <2>5, <2>6 DEF SucInv
<1>5. CASE \E kind \in {"L", "R"}, used \in SUBSET known, amount \in Amounts : PrepareWithdraw(kind, used, amount)
  <2>1. PICK rawTx : Calculate(rawTx) /\ step' = "common"
    BY <1>5 DEF PrepareWithdraw
  <2>2. KeepsPlan' /\ phase' = "inputs"
    BY <2>1, StartKeepsPlan DEF Calculate
  <2>3. phase' # "failed" /\ step' # "net"
    BY <2>1, <2>2
  <2> QED BY <2>2, <2>3 DEF SucInv
<1>6. CASE AddMaintenance
  <2>1. step = "common" /\ Calling
    BY <1>1, <1>6 DEF AddMaintenance, WInv, Idle
  <2> QED BY <1>2, <1>6, <2>1, SucMaintenance
<1>7. CASE Account \/ Fail
  BY <1>7 DEF Account, Fail, Return
<1> QED BY <1>3, <1>4, <1>5, <1>6, <1>7 DEF WithdrawNext

\* When the second calculation is done the accounts match.
LEMMA AccountsDo ==
  ASSUME Calling, phase = "done", Exact, Total(call.fees) = FeeRet
  PROVE  AccountsMatch
<1>1. call.at \in DOMAIN tx.vout /\ outs[call.at].fractions \in Fractions
  BY DoneOuts
<1>2. call.fees \in Fractions /\ call.amount \in Nat /\ FeeRet \in Nat /\ Payout = call.amount - FeeRet
  BY FeeAssumption DEF Calling, CallInv, Payout
<1>3. call.at \in DOMAIN outs
  <2>1. TxInv /\ PhaseInv /\ n > Len(tx.vout)
    BY DEF Calling, IInv, TxOfCall
  <2>2. DOMAIN tx.vout = 1..Len(tx.vout) /\ Len(tx.vout) \in Nat
    BY <2>1, OutsLemma
  <2>3. outs \in Seq(MadeOuts) /\ Len(outs) = n - 1 /\ n <= Len(tx.vout) + 1 /\ n \in Nat
    BY <2>1 DEF PhaseInv
  <2>4. DOMAIN outs = 1..Len(outs)
    BY <2>3
  <2> QED BY <1>1, <2>1, <2>2, <2>3, <2>4
<1>4. Total(outs[call.at].fractions) = Payout
  <2>1. PICK x : CallOuts(x)
    BY CallOutsLemma
  <2>2. tx.vout[call.at] = Pay(Payee, Payout)
    BY <2>1 DEF CallOuts
  <2>3. Pay(Payee, Payout).value = Payout
    BY PayFields, Zenon
  <2>4. tx.vout[call.at].value = Payout
    BY <2>2, <2>3, Zenon
  <2> QED BY <1>3, <2>4 DEF Exact
<1>5. PICK f \in Fractions, g \in Fractions : f = outs[call.at].fractions /\ g = call.fees
  BY <1>1, <1>2
<1>6. Total(Processed) = Total(f) + Total(g)
  <2>1. \A i \in Indexes : f[i] \in Int /\ g[i] \in Int /\ Plus(f, g)[i] = f[i] + g[i]
    BY AmountType, PlusLemma
  <2>2. Total(Plus(f, g)) = Total(f) + Total(g)
    BY <2>1, TotalPlus
  <2> QED BY <1>5, <2>2 DEF Processed
<1>7. Total(Processed) = call.amount
  BY <1>2, <1>4, <1>5, <1>6
<1>8. IsValid(NewBalance)
  BY BalanceLeft
<1>9. Total(call.requested) = call.amount
  BY DEF Calling, AskInv
<1> QED BY <1>7, <1>8, <1>9 DEF AccountsMatch

\* What the invariant says of a call that fails
LEMMA InvSucceed == WPaid /\ SucInv => WithdrawalsSucceed
<1> SUFFICES ASSUME WPaid, SucInv, step \in {"common", "net"}, ~ Poor,
                    phase = "failed" \/ (step = "net" /\ phase = "done" /\ ~ AccountsMatch)
             PROVE  MissesUnit /\ phase = "failed"
  BY DEF WithdrawalsSucceed, Poor, MissesUnit, NotaryPaid
<1>1. Calling
  BY DEF WPaid, WInv, Idle
<1>2. (IF phase = "failed" THEN MissesUnit ELSE KeepsPlan) /\ (step = "net" => Total(call.fees) = FeeRet)
  BY DEF SucInv
<1>3. CASE phase = "failed"
  BY <1>2, <1>3
<1>4. CASE step = "net" /\ phase = "done" /\ ~ AccountsMatch
  <2>1. Exact /\ Total(call.fees) = FeeRet
    BY <1>2, <1>4 DEF KeepsPlan
  <2> QED BY <1>1, <1>4, <2>1, AccountsDo
<1> QED BY <1>3, <1>4

\* No call runs at the start.
LEMMA InitSuc == WithdrawInit => SucInv
<1> SUFFICES ASSUME WithdrawInit PROVE SucInv
  OBVIOUS
<1>1. step \notin {"common", "net"}
  BY DEF WithdrawInit, SessionInit, WalletInit
<1> QED BY <1>1 DEF SucInv

\* A withdrawal that passes the checks on balance and inputs is refused later
\* only if its inputs can not pay for the notaries besides, or if an output
\* behind the exchange's notary misses the one unit which that notary took: the
\* plan the exchange makes per address and the calculation of the network agree.
THEOREM WithdrawalsSucceedAlways == WithdrawSpec => []WithdrawalsSucceed
<1> QED BY InitPaid, NextPaid, InitSuc, NextSuc, InvSucceed, PTL DEF WithdrawSpec

=============================================================================
