-------------------------- MODULE TxFractions_proofs --------------------------
(***************************************************************************)
(* For every transaction, every number of fractions and every peg supply   *)
(* index: the fractions of the inputs are handed on whole, reserve stays   *)
(* with its address, cold coins go back or are frozen, a stake returns     *)
(* whole, and a payment is accepted exactly if there is liquid for it.     *)
(***************************************************************************)
EXTENDS TxFractions, PegFractions_proofs, SequenceTheorems

-----------------------------------------------------------------------------
(* Sums of fractions                                                       *)

\* A fraction is a number.
LEMMA AmountType == \A f \in Fractions : \A k \in Indexes : f[k] \in Nat /\ f[k] \in Int
  BY DEF Fractions

\* Fractions are added, taken away and split into fractions.
LEMMA FractionsLemma ==
  /\ Zero \in Fractions
  /\ \A f \in Fractions : (\A k \in Indexes : f[k] \in Nat) /\ f = [k \in Indexes |-> f[k]]
  /\ \A f, g \in Fractions : Plus(f, g) \in Fractions
  /\ \A f, g \in Fractions : (\A k \in Indexes : g[k] <= f[k]) => Minus(f, g) \in Fractions
  /\ \A f, g \in Fractions : (\A k \in Indexes : g[k] = f[k]) => g = f
  /\ \A f \in Fractions : \A e \in Int : LowPart(f, e) \in Fractions /\ HighPart(f, e) \in Fractions
  /\ \A f, g : \A k \in Indexes : Plus(f, g)[k] = f[k] + g[k] /\ Minus(f, g)[k] = f[k] - g[k] /\ Zero[k] = 0
  /\ \A f, e : \A k \in Indexes : /\ LowPart(f, e)[k] = IF k < e THEN f[k] ELSE 0
                                  /\ HighPart(f, e)[k] = IF k >= e THEN f[k] ELSE 0
<1>1. Indexes \subseteq Nat
  BY IndexesFinite
<1>2. Zero \in Fractions
  BY DEF Zero, Fractions
<1>3. \A f \in Fractions : (\A k \in Indexes : f[k] \in Nat) /\ f = [k \in Indexes |-> f[k]]
  BY DEF Fractions
<1>4. \A f, g \in Fractions : Plus(f, g) \in Fractions
  BY DEF Plus, Fractions
<1>5. \A f, g \in Fractions : (\A k \in Indexes : g[k] <= f[k]) => Minus(f, g) \in Fractions
  BY DEF Minus, Fractions
<1>6. \A f, g \in Fractions : (\A k \in Indexes : g[k] = f[k]) => g = f
  BY <1>3
<1>7. \A f \in Fractions : \A e \in Int : LowPart(f, e) \in Fractions /\ HighPart(f, e) \in Fractions
  BY <1>1 DEF LowPart, HighPart, Fractions
<1>8. \A f, g : \A k \in Indexes : Plus(f, g)[k] = f[k] + g[k] /\ Minus(f, g)[k] = f[k] - g[k] /\ Zero[k] = 0
  BY DEF Plus, Minus, Zero
<1>9. \A f, e : \A k \in Indexes : /\ LowPart(f, e)[k] = IF k < e THEN f[k] ELSE 0
                                   /\ HighPart(f, e)[k] = IF k >= e THEN f[k] ELSE 0
  BY DEF LowPart, HighPart
<1> QED BY <1>2, <1>3, <1>4, <1>5, <1>6, <1>7, <1>8, <1>9

\* Zero has nothing of any fraction.
LEMMA ZeroLemma == Zero \in Fractions /\ \A k \in Indexes : Zero[k] = 0
  BY DEF Zero, Fractions

\* Sums of fractions are taken fraction by fraction.
LEMMA PlusLemma ==
  \A f, g \in Fractions : Plus(f, g) \in Fractions /\ \A k \in Indexes : Plus(f, g)[k] = f[k] + g[k]
  BY DEF Plus, Fractions

\* So are differences, if no more is taken than is there.
LEMMA MinusLemma ==
  \A f, g \in Fractions : (\A k \in Indexes : g[k] <= f[k]) =>
    Minus(f, g) \in Fractions /\ \A k \in Indexes : Minus(f, g)[k] = f[k] - g[k]
  BY DEF Minus, Fractions

\* Fractions are equal if each of them is.
LEMMA SameFractions == \A f, g \in Fractions : (\A k \in Indexes : g[k] = f[k]) => g = f
  BY FractionsLemma

\* The sum of fractions, one index at a time.
LEMMA SumOverAt ==
  ASSUME NEW S, IsFiniteSet(S), NEW g, \A x \in S : g[x] \in Fractions
  PROVE  /\ SumOver(g, S) \in Fractions
         /\ \A k \in Indexes : \A x \in S : g[x][k] <= SumOver(g, S)[k]
<1> SUFFICES ASSUME NEW k \in Indexes
             PROVE  /\ SumOf([x \in S |-> g[x][k]], S) \in Nat
                    /\ \A x \in S : g[x][k] <= SumOf([x_1 \in S |-> g[x_1][k]], S)
  BY DEF SumOver, Fractions
<1>1. PICK h : h = [x \in S |-> g[x][k]]
  OBVIOUS
<1>2. \A x \in S : h[x] = g[x][k] /\ h[x] \in Nat
  BY <1>1, AmountType
<1>3. SumOf(h, S) \in Nat /\ \A x \in S : h[x] <= SumOf(h, S)
  BY <1>2, SumNat
<1> QED BY <1>1, <1>2, <1>3

\* The sum over nothing.
LEMMA SumOverEmpty == \A g : SumOver(g, {}) = Zero
<1> SUFFICES ASSUME NEW g, NEW k \in Indexes PROVE SumOf([x \in {} |-> g[x][k]], {}) = 0
  BY DEF SumOver, Zero
<1>1. PICK h : h = [x \in {} |-> g[x][k]]
  OBVIOUS
<1> QED BY <1>1, SumRecursion

\* A sum depends on what is summed only.
LEMMA SumOverSame ==
  ASSUME NEW S, NEW g, NEW h, \A x \in S : h[x] = g[x]
  PROVE  SumOver(h, S) = SumOver(g, S)
<1>1. \A k \in Indexes : [x \in S |-> h[x][k]] = [x \in S |-> g[x][k]]
  OBVIOUS
<1> QED BY <1>1 DEF SumOver

\* One element more.
LEMMA SumOverAdd ==
  ASSUME NEW S, IsFiniteSet(S), NEW g, NEW h, NEW x, x \notin S, h[x] \in Fractions,
         \A y \in S : g[y] \in Fractions /\ h[y] = g[y]
  PROVE  SumOver(h, S \union {x}) = Plus(SumOver(g, S), h[x])
<1>1. PICK T : T = S \union {x}
  OBVIOUS
<1>2. IsFiniteSet(T) /\ x \in T /\ T \ {x} = S /\ \A y \in T : h[y] \in Fractions
  BY <1>1, FS_AddElement
<1>3. ASSUME NEW k \in Indexes PROVE SumOver(h, T)[k] = SumOver(g, S)[k] + h[x][k]
  <2>1. PICK ht : ht = [y \in T |-> h[y][k]]
    OBVIOUS
  <2>2. PICK gs : gs = [y \in S |-> g[y][k]]
    OBVIOUS
  <2>3. SumOver(h, T)[k] = SumOf(ht, T) /\ SumOver(g, S)[k] = SumOf(gs, S)
    BY <2>1, <2>2 DEF SumOver
  <2>4. \A y \in T : ht[y] \in Int
    BY <1>2, <2>1, AmountType
  <2>5. \A y \in S : gs[y] \in Int /\ ht[y] = gs[y]
    BY <1>1, <2>1, <2>2, AmountType
  <2>6. SumOf(ht, T) = ht[x] + SumOf(ht, S)
    BY <1>2, <2>4, SumRemove
  <2>7. SumOf(ht, S) = SumOf(gs, S)
    BY <2>5, SumEqual
  <2>8. SumOf(gs, S) \in Int
    BY <2>5, SumType
  <2>9. ht[x] = h[x][k] /\ ht[x] \in Int
    BY <1>2, <2>1, <2>4
  <2> QED BY <2>3, <2>6, <2>7, <2>8, <2>9
<1>4. SumOver(h, T) = [k \in Indexes |-> SumOver(h, T)[k]]
  BY DEF SumOver
<1> QED BY <1>1, <1>3, <1>4 DEF Plus

\* The sum of one more.
LEMMA SumOverNext ==
  ASSUME NEW S, IsFiniteSet(S), NEW g, NEW x, x \notin S, g[x] \in Fractions, \A y \in S : g[y] \in Fractions
  PROVE  SumOver(g, S \union {x}) = Plus(SumOver(g, S), g[x])
<1>1. PICK h : h = g
  OBVIOUS
<1>2. \A y \in S : g[y] \in Fractions /\ h[y] = g[y]
  BY <1>1
<1>3. h[x] \in Fractions
  BY <1>1
<1>4. SumOver(h, S \union {x}) = Plus(SumOver(g, S), h[x])
  BY <1>2, <1>3, SumOverAdd, SMTT(30)
<1> QED BY <1>1, <1>4

\* One element less.
LEMMA SumOverRemove ==
  ASSUME NEW S, IsFiniteSet(S), NEW g, \A y \in S : g[y] \in Fractions, NEW x \in S
  PROVE  SumOver(g, S) = Plus(SumOver(g, S \ {x}), g[x])
<1>1. PICK T : T = S \ {x}
  OBVIOUS
<1>2. x \notin T /\ T \union {x} = S /\ IsFiniteSet(T) /\ \A y \in T : g[y] \in Fractions
  BY <1>1, FS_RemoveElement
<1> QED BY <1>1, <1>2, SumOverAdd

\* One element changed.
LEMMA SumOverExcept ==
  ASSUME NEW S, IsFiniteSet(S), NEW g, NEW h, NEW x \in S, h[x] \in Fractions,
         \A y \in S : g[y] \in Fractions /\ (y # x => h[y] = g[y])
  PROVE  /\ SumOver(g, S) \in Fractions /\ SumOver(h, S) \in Fractions
         /\ \A k \in Indexes : SumOver(h, S)[k] = SumOver(g, S)[k] - g[x][k] + h[x][k]
<1>1. PICK T : T = S \ {x}
  OBVIOUS
<1>2. IsFiniteSet(T) /\ \A y \in T : g[y] \in Fractions /\ h[y] = g[y]
  BY <1>1, FS_RemoveElement
<1>3. \A y \in S : h[y] \in Fractions
  OBVIOUS
<1>4. SumOver(g, S) = Plus(SumOver(g, T), g[x]) /\ SumOver(h, S) = Plus(SumOver(h, T), h[x])
  BY <1>1, <1>3, SumOverRemove
<1>5. SumOver(h, T) = SumOver(g, T) /\ SumOver(g, T) \in Fractions
  BY <1>2, SumOverSame, SumOverAt
<1>6. g[x] \in Fractions
  OBVIOUS
<1>7. SumOver(g, S) \in Fractions /\ SumOver(h, S) \in Fractions
  BY <1>3, SumOverAt
<1>8. ASSUME NEW k \in Indexes PROVE SumOver(h, S)[k] = SumOver(g, S)[k] - g[x][k] + h[x][k]
  <2>1. SumOver(g, S)[k] = SumOver(g, T)[k] + g[x][k] /\ SumOver(h, S)[k] = SumOver(g, T)[k] + h[x][k]
    BY <1>4, <1>5 DEF Plus
  <2>2. SumOver(g, T)[k] \in Int /\ g[x][k] \in Int /\ h[x][k] \in Int
    BY <1>5, <1>6, AmountType
  <2> QED BY <2>1, <2>2
<1> QED BY <1>7, <1>8

\* What is zero does not count.
LEMMA SumOverExtend ==
  ASSUME NEW T, IsFiniteSet(T), NEW S, S \subseteq T, NEW g, NEW h,
         \A x \in S : g[x] \in Fractions /\ h[x] = g[x], \A x \in T \ S : h[x] = Zero
  PROVE  SumOver(h, T) = SumOver(g, S)
<1>1. ASSUME NEW k \in Indexes PROVE SumOf([x \in T |-> h[x][k]], T) = SumOf([x \in S |-> g[x][k]], S)
  <2>1. PICK ht : ht = [x \in T |-> h[x][k]]
    OBVIOUS
  <2>2. PICK gs : gs = [x \in S |-> g[x][k]]
    OBVIOUS
  <2>3. \A x \in T : x \notin S => ht[x] = 0
    BY <2>1 DEF Zero
  <2>4. \A x \in S : ht[x] = gs[x] /\ gs[x] \in Int
    BY <2>1, <2>2, AmountType
  <2>5. \A x \in T : ht[x] \in Int /\ ht[x] = IF x \in S THEN ht[x] ELSE 0
    BY <2>3, <2>4
  <2>6. SumOf(ht, T) = SumOf(ht, T \intersect S) /\ T \intersect S = S
    BY <2>5, SumPart
  <2>7. IsFiniteSet(S)
    BY FS_Subset
  <2>8. SumOf(ht, S) = SumOf(gs, S)
    BY <2>4, <2>7, SumEqual
  <2> QED BY <2>1, <2>2, <2>6, <2>8
<1> QED BY <1>1 DEF SumOver

-----------------------------------------------------------------------------
(* Maps from addresses to fractions                                        *)

IsPool(map) ==
  /\ IsFiniteSet(DOMAIN map) /\ DOMAIN map \subseteq Nat
  /\ \A a \in DOMAIN map : map[a] \in Fractions

Lower(f, e) == \A k \in Indexes : k >= e => f[k] = 0
Upper(f, e) == \A k \in Indexes : k < e => f[k] = 0

\* Fractions added at an address.
LEMMA PutPlusLemma ==
  ASSUME NEW map, IsPool(map), NEW a \in Nat, NEW f \in Fractions
  PROVE  /\ IsPool(PutPlus(map, a, f))
         /\ DOMAIN PutPlus(map, a, f) = DOMAIN map \union {a}
         /\ \A b \in DOMAIN map : b # a => PutPlus(map, a, f)[b] = map[b]
         /\ PutPlus(map, a, f)[a] = Plus(At(map, a, Zero), f)
         /\ At(map, a, Zero) \in Fractions
         /\ SumAll(PutPlus(map, a, f)) = Plus(SumAll(map), f)
<1>1. PICK p : p = PutPlus(map, a, f)
  OBVIOUS
<1>2. /\ DOMAIN p = DOMAIN map \union {a}
      /\ \A b \in DOMAIN map : b # a => p[b] = map[b]
      /\ p[a] = Plus(At(map, a, Zero), f)
  BY <1>1 DEF PutPlus, Put
<1>3. At(map, a, Zero) \in Fractions
  BY FractionsLemma DEF At, IsPool
<1>4. p[a] \in Fractions /\ IsPool(p)
  <2>1. p[a] \in Fractions
    BY <1>2, <1>3, FractionsLemma
  <2>2. \A b \in DOMAIN p : p[b] \in Fractions
    BY <1>2, <2>1 DEF IsPool
  <2>3. IsFiniteSet(DOMAIN p) /\ DOMAIN p \subseteq Nat
    BY <1>2, FS_AddElement DEF IsPool
  <2> QED BY <2>1, <2>2, <2>3 DEF IsPool
<1>5. SumAll(p) = Plus(SumAll(map), f)
  <2>1. PICK S : S = DOMAIN map
    OBVIOUS
  <2>2. IsFiniteSet(S) /\ \A b \in S : map[b] \in Fractions
    BY <2>1 DEF IsPool
  <2>3. CASE a \in S
    <3>1. DOMAIN p = S /\ At(map, a, Zero) = map[a]
      BY <1>2, <2>1, <2>3 DEF At
    <3>2. /\ SumOver(map, S) \in Fractions /\ SumOver(p, S) \in Fractions
          /\ \A k \in Indexes : SumOver(p, S)[k] = SumOver(map, S)[k] - map[a][k] + p[a][k]
      BY <1>2, <1>4, <2>1, <2>2, <2>3, SumOverExcept
    <3>3. ASSUME NEW k \in Indexes PROVE SumOver(p, S)[k] = Plus(SumOver(map, S), f)[k]
      <4>1. p[a][k] = map[a][k] + f[k]
        BY <1>2, <3>1 DEF Plus
      <4>2. map[a][k] \in Int /\ f[k] \in Int /\ SumOver(map, S)[k] \in Int
        BY <2>2, <2>3, <3>2, AmountType
      <4>3. Plus(SumOver(map, S), f)[k] = SumOver(map, S)[k] + f[k]
        BY DEF Plus
      <4> QED BY <3>2, <4>1, <4>2, <4>3
    <3>4. Plus(SumOver(map, S), f) \in Fractions
      BY <3>2, FractionsLemma
    <3>5. SumOver(p, S) = Plus(SumOver(map, S), f)
      BY <3>2, <3>3, <3>4, FractionsLemma
    <3> QED BY <2>1, <3>1, <3>5 DEF SumAll
  <2>4. CASE a \notin S
    <3>1. DOMAIN p = S \union {a} /\ At(map, a, Zero) = Zero
      BY <1>2, <2>1, <2>4 DEF At
    <3>2. p[a] = f
      <4>1. \A k \in Indexes : Plus(Zero, f)[k] = f[k]
        BY AmountType DEF Plus, Zero
      <4>2. p[a] \in Fractions /\ \A k \in Indexes : p[a][k] = f[k]
        BY <1>2, <1>4, <3>1, <4>1
      <4> QED BY <4>2, FractionsLemma
    <3>3. SumOver(p, S \union {a}) = Plus(SumOver(map, S), p[a])
      BY <1>2, <1>4, <2>1, <2>2, <2>4, SumOverAdd
    <3> QED BY <2>1, <3>1, <3>2, <3>3 DEF SumAll
  <2> QED BY <2>3, <2>4
<1> QED BY <1>1, <1>2, <1>3, <1>4, <1>5

\* Fractions taken from an address.
LEMMA TakeFromPool ==
  ASSUME NEW map, IsPool(map), NEW a \in DOMAIN map, NEW f \in Fractions,
         \A k \in Indexes : f[k] <= map[a][k],
         NEW rest, DOMAIN rest = DOMAIN map, rest[a] = Minus(map[a], f),
         \A b \in DOMAIN map : b # a => rest[b] = map[b]
  PROVE  /\ IsPool(rest)
         /\ SumAll(map) \in Fractions /\ SumAll(rest) \in Fractions
         /\ \A k \in Indexes : SumAll(rest)[k] = SumAll(map)[k] - f[k]
<1>1. map[a] \in Fractions /\ rest[a] \in Fractions
  BY FractionsLemma DEF IsPool
<1>2. IsPool(rest)
  BY <1>1 DEF IsPool
<1>3. PICK S : S = DOMAIN map
  OBVIOUS
<1>4. /\ SumOver(map, S) \in Fractions /\ SumOver(rest, S) \in Fractions
      /\ \A k \in Indexes : SumOver(rest, S)[k] = SumOver(map, S)[k] - map[a][k] + rest[a][k]
  BY <1>1, <1>3, SumOverExcept DEF IsPool
<1>5. ASSUME NEW k \in Indexes PROVE SumOver(rest, S)[k] = SumOver(map, S)[k] - f[k]
  <2>1. rest[a][k] = map[a][k] - f[k]
    BY DEF Minus
  <2>2. map[a][k] \in Int /\ f[k] \in Int /\ SumOver(map, S)[k] \in Int
    BY <1>1, <1>4, AmountType
  <2> QED BY <1>4, <2>1, <2>2
<1> QED BY <1>2, <1>3, <1>4, <1>5 DEF SumAll

-----------------------------------------------------------------------------
(* Sources in order                                                        *)

\* The smaller of two amounts.
LEMMA LeastLemma ==
  \A a, b \in Nat : Least(a, b) \in Nat /\ Least(a, b) <= a /\ Least(a, b) <= b /\ (a <= b => Least(a, b) = a)
                    /\ (b <= a => Least(a, b) = b)
  BY DEF Least

\* The stores give what is asked for, as far as it is there, and no store more
\* than it has.
LEMMA GreedyLemma ==
  ASSUME NEW N \in Nat, NEW stores \in [1..N -> Nat], NEW amount \in Nat
  PROVE  /\ Greedy(stores, amount) \in [1..N -> Nat]
         /\ \A i \in 1..N : Greedy(stores, amount)[i] <= stores[i]
         /\ SumOf(stores, 1..N) \in Nat
         /\ SumOf(Greedy(stores, amount), 1..N) = Least(amount, SumOf(stores, 1..N))
<1>1. PICK g : g = Greedy(stores, amount)
  OBVIOUS
<1>2. \A m \in Nat : m <= N => /\ IsFiniteSet(1..m) /\ 1..m \subseteq 1..N
                               /\ SumOf(stores, 1..m) \in Nat
  <2> SUFFICES ASSUME NEW m \in Nat, m <= N
               PROVE  IsFiniteSet(1..m) /\ 1..m \subseteq 1..N /\ SumOf(stores, 1..m) \in Nat
    OBVIOUS
  <2>1. IsFiniteSet(1..m) /\ 1..m \subseteq 1..N
    BY FS_Interval
  <2>2. \A i \in 1..m : stores[i] \in Nat
    BY <2>1
  <2> QED BY <2>1, <2>2, SumNat
<1>3. \A i \in 1..N : i - 1 \in Nat /\ i - 1 <= N /\ SumOf(stores, 1..(i - 1)) \in Nat
  BY <1>2
<1>4. \A i \in 1..N : g[i] = Least(amount - Least(amount, SumOf(stores, 1..(i - 1))), stores[i])
  BY <1>1 DEF Greedy
<1>5. g \in [1..N -> Nat] /\ \A i \in 1..N : g[i] <= stores[i]
  <2>1. ASSUME NEW i \in 1..N PROVE g[i] \in Nat /\ g[i] <= stores[i]
    <3>1. PICK b \in Nat : b = SumOf(stores, 1..(i - 1))
      BY <1>3
    <3>2. amount - Least(amount, b) \in Nat
      BY DEF Least
    <3>3. PICK c \in Nat : c = amount - Least(amount, b)
      BY <3>2
    <3>4. PICK d \in Nat : d = stores[i]
      OBVIOUS
    <3>5. g[i] = Least(c, d)
      BY <1>4, <3>1, <3>3, <3>4
    <3> QED BY <3>4, <3>5 DEF Least
  <2>2. g = [i \in 1..N |-> g[i]]
    BY <1>1 DEF Greedy
  <2> QED BY <2>1, <2>2
<1> DEFINE G == {m \in Nat : m <= N => SumOf(g, 1..m) = Least(amount, SumOf(stores, 1..m))}
<1>6. 0 \in G
  <2>1. 1..0 = {}
    OBVIOUS
  <2>2. SumOf(g, 1..0) = 0 /\ SumOf(stores, 1..0) = 0
    BY <2>1, SumRecursion
  <2> QED BY <2>2 DEF Least
<1>7. ASSUME NEW m \in Nat, m \in G PROVE m + 1 \in G
  <2> SUFFICES ASSUME m + 1 <= N PROVE SumOf(g, 1..(m + 1)) = Least(amount, SumOf(stores, 1..(m + 1)))
    OBVIOUS
  <2>1. m + 1 \in 1..(m + 1) /\ (1..(m + 1)) \ {m + 1} = 1..m /\ m <= N /\ m + 1 \in 1..N /\ (m + 1) - 1 = m
    OBVIOUS
  <2>2. IsFiniteSet(1..(m + 1)) /\ 1..(m + 1) \subseteq 1..N
    BY <1>2
  <2>3. \A i \in 1..(m + 1) : g[i] \in Int /\ stores[i] \in Int
    BY <1>5, <2>2
  <2>4. /\ SumOf(g, 1..(m + 1)) = g[m + 1] + SumOf(g, 1..m)
        /\ SumOf(stores, 1..(m + 1)) = stores[m + 1] + SumOf(stores, 1..m)
    <3>1. PICK S : S = 1..(m + 1)
      OBVIOUS
    <3>2. m + 1 \in S /\ S \ {m + 1} = 1..m /\ IsFiniteSet(S) /\ \A i \in S : g[i] \in Int /\ stores[i] \in Int
      BY <2>1, <2>2, <2>3, <3>1
    <3>3. SumOf(g, S) = g[m + 1] + SumOf(g, S \ {m + 1}) /\ SumOf(stores, S) = stores[m + 1] + SumOf(stores, S \ {m + 1})
      BY <3>2, SumRemove
    <3> QED BY <3>1, <3>2, <3>3
  <2>5. SumOf(g, 1..m) = Least(amount, SumOf(stores, 1..m))
    BY <1>7, <2>1
  <2>6. PICK b \in Nat : b = SumOf(stores, 1..m)
    BY <1>2, <2>1
  <2>7. g[m + 1] = Least(amount - Least(amount, b), stores[m + 1]) /\ stores[m + 1] \in Nat
    BY <1>4, <2>1, <2>6
  <2>8. Least(amount - Least(amount, b), stores[m + 1]) + Least(amount, b) = Least(amount, stores[m + 1] + b)
    BY <2>7 DEF Least
  <2> QED BY <2>4, <2>5, <2>6, <2>7, <2>8
<1> HIDE DEF G
<1>8. N \in G
  BY <1>6, <1>7, NumberInduction
<1>9. SumOf(g, 1..N) = Least(amount, SumOf(stores, 1..N))
  BY <1>8 DEF G
<1> QED BY <1>1, <1>2, <1>5, <1>9

\* A finite set of numbers has a greatest one.
LEMMA GreatestNumber ==
  ASSUME NEW S \in SUBSET Nat, IsFiniteSet(S), S # {}
  PROVE  \E x \in S : \A y \in S : y <= x
<1> DEFINE G == {T \in SUBSET S : T # {} => \E x \in T : \A y \in T : y <= x}
<1>1. {} \in G
  OBVIOUS
<1>2. ASSUME NEW T \in SUBSET S, NEW z \in T, T \ {z} \in G PROVE T \in G
  <2>1. CASE T \ {z} = {}
    <3>1. \A y \in T : y = z
      BY <2>1
    <3> QED BY <3>1
  <2>2. CASE T \ {z} # {}
    <3>1. PICK x \in T \ {z} : \A y \in T \ {z} : y <= x
      BY <1>2, <2>2
    <3>2. x \in Nat /\ z \in Nat
      OBVIOUS
    <3>3. CASE z <= x
      BY <3>1, <3>2, <3>3
    <3>4. CASE x <= z
      <4>1. \A y \in T : y \in Nat /\ y <= z
        BY <3>1, <3>2, <3>4
      <4> QED BY <4>1
    <3> QED BY <3>2, <3>3, <3>4
  <2> QED BY <2>1, <2>2
<1> HIDE DEF G
<1>3. S \in G
  BY <1>1, <1>2, SubsetInduction
<1> QED BY <1>3 DEF G

IsAscending(s, S) == s \in [1..Cardinality(S) -> S] /\ \A i, j \in DOMAIN s : i < j => s[i] < s[j]

\* A finite set of numbers can be put in order.
LEMMA AscendingExists ==
  ASSUME NEW S \in SUBSET Nat, IsFiniteSet(S)
  PROVE  \E s : IsAscending(s, S)
<1> DEFINE G == {m \in Nat : \A T \in SUBSET S : Cardinality(T) = m => \E s : IsAscending(s, T)}
<1>1. \A T \in SUBSET S : IsFiniteSet(T) /\ Cardinality(T) \in Nat
  BY FS_Subset, FS_CardinalityType
<1>2. 0 \in G
  <2> SUFFICES ASSUME NEW T \in SUBSET S, Cardinality(T) = 0 PROVE \E s : IsAscending(s, T)
    OBVIOUS
  <2>1. [i \in 1..0 |-> 0] \in [1..0 -> T]
    OBVIOUS
  <2>2. IsAscending([i \in 1..0 |-> 0], T)
    BY <2>1 DEF IsAscending
  <2> QED BY <2>2
<1>3. ASSUME NEW m \in Nat, m \in G PROVE m + 1 \in G
  <2> SUFFICES ASSUME NEW T \in SUBSET S, Cardinality(T) = m + 1 PROVE \E s : IsAscending(s, T)
    OBVIOUS
  <2>1. T # {} /\ IsFiniteSet(T) /\ T \in SUBSET Nat
    BY <1>1, FS_EmptySet, m + 1 # 0
  <2>2. PICK x \in T : \A y \in T : y <= x
    BY <2>1, GreatestNumber
  <2>3. Cardinality(T \ {x}) = m
    <3>1. Cardinality(T \ {x}) = Cardinality(T) - 1
      BY <2>1, <2>2, FS_RemoveElement
    <3> QED BY <3>1
  <2>4. PICK s : IsAscending(s, T \ {x})
    BY <1>3, <2>3
  <2>5. PICK t : t = [i \in 1..(m + 1) |-> IF i = m + 1 THEN x ELSE s[i]]
    OBVIOUS
  <2>6. s \in [1..m -> T \ {x}] /\ \A i, j \in 1..m : i < j => s[i] < s[j]
    BY <2>3, <2>4 DEF IsAscending
  <2>7. \A i \in 1..(m + 1) : i # m + 1 => i \in 1..m
    OBVIOUS
  <2>8. t \in [1..(m + 1) -> T]
    BY <2>5, <2>6, <2>7
  <2>9. ASSUME NEW i \in 1..(m + 1), NEW j \in 1..(m + 1), i < j PROVE t[i] < t[j]
    <3>1. i \in 1..m /\ t[i] = s[i] /\ s[i] \in T \ {x} /\ s[i] \in Nat
      <4>1. i \in 1..m /\ i # m + 1
        BY <2>9
      <4>2. t[i] = s[i] /\ s[i] \in T \ {x}
        BY <2>5, <2>6, <4>1
      <4> QED BY <2>1, <4>1, <4>2
    <3>2. CASE j = m + 1
      <4>1. t[j] = x /\ x \in Nat /\ s[i] <= x /\ s[i] # x
        BY <2>1, <2>2, <2>5, <3>1, <3>2
      <4> QED BY <3>1, <4>1
    <3>3. CASE j # m + 1
      BY <2>5, <2>6, <2>7, <2>9, <3>1, <3>3
    <3> QED BY <3>2, <3>3
  <2>10. IsAscending(t, T)
    BY <2>8, <2>9 DEF IsAscending
  <2> QED BY <2>10
<1> HIDE DEF G
<1>4. Cardinality(S) \in G
  BY <1>1, <1>2, <1>3, NumberInduction
<1> QED BY <1>4 DEF G

\* A sequence of different elements of a set
IsListing(s, S) == s \in Seq(S) /\ \A i, j \in DOMAIN s : s[i] = s[j] => i = j

\* Ascending puts it in order, each element once.
LEMMA AscendingLemma ==
  ASSUME NEW S \in SUBSET Nat, IsFiniteSet(S)
  PROVE  IsAscending(Ascending(S), S) /\ IsListing(Ascending(S), S)
<1>1. Ascending(S) = CHOOSE s : IsAscending(s, S)
  <2>1. Ascending(S) = CHOOSE s \in [1..Cardinality(S) -> S] : \A i, j \in DOMAIN s : i < j => s[i] < s[j]
    BY DEF Ascending
  <2>2. IsAscending(Ascending(S), S)
    BY <2>1, AscendingExists DEF IsAscending
  <2> QED BY <2>1 DEF IsAscending
<1>2. IsAscending(Ascending(S), S)
  BY <1>1, AscendingExists
<1>3. PICK s : s = Ascending(S)
  OBVIOUS
<1>4. Cardinality(S) \in Nat /\ s \in [1..Cardinality(S) -> S] /\ \A i, j \in DOMAIN s : i < j => s[i] < s[j]
  BY <1>2, <1>3, FS_CardinalityType DEF IsAscending
<1>5. s \in Seq(S)
  BY <1>4
<1>6. ASSUME NEW i \in DOMAIN s, NEW j \in DOMAIN s, s[i] = s[j] PROVE i = j
  <2>1. i \in 1..Cardinality(S) /\ j \in 1..Cardinality(S)
    BY <1>4
  <2>3. s[i] \in S /\ s[j] \in S /\ i \in Int /\ j \in Int
    BY <1>4, <2>1
  <2>4. s[i] \in Nat /\ s[j] \in Nat
    BY <2>3
  <2>2. ~ i < j /\ ~ j < i
    BY <1>4, <1>6, <2>4
  <2> QED BY <2>2, <2>3
<1> QED BY <1>2, <1>3, <1>5, <1>6 DEF IsListing

\* What is moved is drawn from the sources of a map, and this is the rest.
Drawn(map, N, sources, moved, rest) ==
  /\ IsPool(map) /\ N \in Nat /\ sources \in [1..N -> DOMAIN map]
  /\ \A i, j \in 1..N : sources[i] = sources[j] => i = j
  /\ moved \in [1..N -> Fractions]
  /\ \A i \in 1..N : \A k \in Indexes : moved[i][k] <= map[sources[i]][k]
  /\ rest = [a \in DOMAIN map |-> Minus(map[a], SumOver(moved, {i \in 1..N : sources[i] = a}))]

\* What is drawn from a map and the rest are what the map held.
LEMMA DrawnLemma ==
  ASSUME NEW map, NEW N, NEW sources, NEW moved, NEW rest, Drawn(map, N, sources, moved, rest)
  PROVE  /\ IsPool(rest)
         /\ \A i \in 1..N : rest[sources[i]] = Minus(map[sources[i]], moved[i])
         /\ \A a \in DOMAIN map : a \notin {sources[i] : i \in 1..N} => rest[a] = map[a]
         /\ \A a \in DOMAIN map : \A k \in Indexes : rest[a][k] <= map[a][k]
         /\ SumAll(rest) \in Fractions /\ SumAll(map) \in Fractions /\ SumAll(moved) \in Fractions
         /\ \A k \in Indexes : SumAll(rest)[k] = SumAll(map)[k] - SumAll(moved)[k]
<1> DEFINE at(a) == {i \in 1..N : sources[i] = a}
           taken(a) == SumOver(moved, at(a))
<1> USE DEF Drawn
<1>0. /\ IsFiniteSet(1..N) /\ DOMAIN moved = 1..N /\ IsFiniteSet(DOMAIN map)
      /\ \A a \in DOMAIN map : map[a] \in Fractions
  BY FS_Interval DEF IsPool
<1>1. ASSUME NEW i \in 1..N
      PROVE  /\ at(sources[i]) = {i} /\ taken(sources[i]) = moved[i]
             /\ rest[sources[i]] = Minus(map[sources[i]], moved[i])
  <2>1. at(sources[i]) = {i}
    OBVIOUS
  <2>2. IsFiniteSet({}) /\ {} \union {i} = {i} /\ moved[i] \in Fractions
    BY FS_EmptySet
  <2>3. SumOver(moved, {i}) = Plus(SumOver(moved, {}), moved[i])
    BY <2>2, SumOverAdd
  <2>4. SumOver(moved, {i}) = moved[i]
    <3>1. \A k \in Indexes : Plus(Zero, moved[i])[k] = moved[i][k]
      BY <2>2, AmountType DEF Plus, Zero
    <3>2. Plus(Zero, moved[i]) \in Fractions
      BY <2>2, FractionsLemma
    <3> QED BY <2>2, <2>3, <3>1, <3>2, SumOverEmpty, FractionsLemma
  <2>5. sources[i] \in DOMAIN map
    OBVIOUS
  <2> QED BY <2>1, <2>4, <2>5
<1>2. ASSUME NEW a \in DOMAIN map, a \notin {sources[i] : i \in 1..N}
      PROVE  at(a) = {} /\ taken(a) = Zero /\ rest[a] = map[a]
  <2>1. at(a) = {}
    BY <1>2
  <2>2. taken(a) = Zero
    BY <2>1, SumOverEmpty
  <2>3. rest[a] = Minus(map[a], Zero) /\ map[a] \in Fractions
    BY <1>0, <2>2
  <2>4. \A k \in Indexes : Minus(map[a], Zero)[k] = map[a][k] /\ Zero[k] <= map[a][k]
    BY <2>3, AmountType DEF Minus, Zero
  <2>5. Minus(map[a], Zero) \in Fractions
    BY <2>3, <2>4, FractionsLemma
  <2> QED BY <2>1, <2>2, <2>3, <2>4, <2>5, FractionsLemma
<1>3. ASSUME NEW a \in DOMAIN map
      PROVE  /\ rest[a] \in Fractions /\ taken(a) \in Fractions
             /\ \A k \in Indexes : rest[a][k] = map[a][k] - taken(a)[k] /\ rest[a][k] <= map[a][k]
  <2>1. /\ taken(a) \in Fractions /\ \A k \in Indexes : taken(a)[k] <= map[a][k]
    <3>1. CASE a \in {sources[i] : i \in 1..N}
      <4>1. PICK i \in 1..N : a = sources[i]
        BY <3>1
      <4>2. taken(sources[i]) = moved[i] /\ moved[i] \in Fractions
        BY <1>1
      <4>3. \A k \in Indexes : moved[i][k] <= map[sources[i]][k]
        OBVIOUS
      <4>4. taken(a) = moved[i]
        BY <4>1, <4>2
      <4>5. \A k \in Indexes : moved[i][k] <= map[a][k]
        BY <4>1, <4>3
      <4>6. taken(a) \in Fractions
        BY <4>2, <4>4
      <4>7. \A k \in Indexes : taken(a)[k] <= map[a][k]
        BY <4>4, <4>5
      <4> QED BY <4>6, <4>7
    <3>2. CASE a \notin {sources[i] : i \in 1..N}
      <4>1. taken(a) = Zero
        BY <1>2, <3>2
      <4>2. \A k \in Indexes : Zero[k] = 0 /\ map[a][k] \in Nat
        BY <1>0, AmountType DEF Zero
      <4>3. Zero \in Fractions /\ \A k \in Indexes : Zero[k] <= map[a][k]
        BY <4>2, ZeroLemma
      <4> QED BY <4>1, <4>3
    <3> QED BY <3>1, <3>2
  <2>2. rest[a] = Minus(map[a], taken(a)) /\ map[a] \in Fractions
    BY <1>0
  <2> HIDE DEF taken
  <2>3. rest[a] \in Fractions
    BY <2>1, <2>2, FractionsLemma
  <2>4. \A k \in Indexes : rest[a][k] = map[a][k] - taken(a)[k]
    BY <2>2 DEF Minus
  <2>5. \A k \in Indexes : map[a][k] \in Nat /\ taken(a)[k] \in Nat
    BY <2>1, <2>2, AmountType
  <2> QED BY <2>1, <2>3, <2>4, <2>5
<1>4. IsPool(rest) /\ DOMAIN rest = DOMAIN map
  BY <1>3 DEF IsPool
<1>5. SumAll(rest) \in Fractions /\ SumAll(map) \in Fractions /\ SumAll(moved) \in Fractions
  BY <1>0, <1>4, SumOverAt DEF SumAll, IsPool
<1>6. ASSUME NEW k \in Indexes PROVE SumAll(rest)[k] = SumAll(map)[k] - SumAll(moved)[k]
  <2>1. PICK D : D = DOMAIN map
    OBVIOUS
  <2>2. PICK rk : rk = [a \in D |-> rest[a][k]]
    OBVIOUS
  <2>3. PICK mk : mk = [a \in D |-> map[a][k]]
    OBVIOUS
  <2>4. PICK vk : vk = [i \in 1..N |-> moved[i][k]]
    OBVIOUS
  <2>5. SumAll(rest)[k] = SumOf(rk, D) /\ SumAll(map)[k] = SumOf(mk, D) /\ SumAll(moved)[k] = SumOf(vk, 1..N)
    BY <1>0, <1>4, <2>1, <2>2, <2>3, <2>4 DEF SumAll, SumOver
  <2>6. PICK t : t = [a \in D |-> [i \in 1..N |-> IF sources[i] = a THEN vk[i] ELSE 0]]
    OBVIOUS
  <2>7. \A i \in 1..N : vk[i] = moved[i][k] /\ vk[i] \in Int
    BY <2>4, AmountType
  <2>8. \A a \in D, i \in 1..N : t[a][i] \in Int /\ t[a][i] = IF sources[i] = a THEN vk[i] ELSE 0
    BY <2>6, <2>7
  <2>9. PICK row : row = [a \in D |-> SumOf(t[a], 1..N)]
    OBVIOUS
  <2>10. PICK col : col = [i \in 1..N |-> SumOf([a \in D |-> t[a][i]], D)]
    OBVIOUS
  <2>11. SumOf(row, D) = SumOf(col, 1..N)
    <3>1. PICK I : I = 1..N
      OBVIOUS
    <3>2. IsFiniteSet(D) /\ IsFiniteSet(I) /\ \A a \in D, i \in I : t[a][i] \in Int
      BY <1>0, <2>1, <2>8, <3>1
    <3>3. SumOf([a \in D |-> SumOf(t[a], I)], D) = SumOf([i \in I |-> SumOf([a \in D |-> t[a][i]], D)], I)
      BY <3>2, SumSwap
    <3> QED BY <2>9, <2>10, <3>1, <3>3
  <2>12. ASSUME NEW a \in D PROVE row[a] = taken(a)[k]
    <3>1. row[a] = SumOf(t[a], 1..N)
      BY <2>9
    <3>2. \A i \in 1..N : vk[i] \in Int /\ t[a][i] = IF i \in at(a) THEN vk[i] ELSE 0
      BY <2>7, <2>8
    <3>3. (1..N) \intersect at(a) = at(a)
      OBVIOUS
    <3> HIDE DEF at
    <3>4. SumOf(t[a], 1..N) = SumOf(vk, at(a))
      <4>1. SumOf(t[a], 1..N) = SumOf(vk, (1..N) \intersect at(a))
        BY <1>0, <3>2, SumPart
      <4> QED BY <3>3, <4>1
    <3>5. PICK w : w = [i \in at(a) |-> moved[i][k]]
      OBVIOUS
    <3>6. taken(a)[k] = SumOf(w, at(a))
      BY <3>5 DEF SumOver
    <3>7. IsFiniteSet(at(a)) /\ \A i \in at(a) : vk[i] \in Int /\ w[i] = vk[i]
      <4>1. at(a) \subseteq 1..N
        BY <3>3
      <4>2. IsFiniteSet(at(a))
        BY <1>0, <4>1, FS_Subset
      <4> QED BY <2>7, <3>5, <4>1, <4>2
    <3> QED BY <3>1, <3>4, <3>6, <3>7, SumEqual
  <2>13. ASSUME NEW i \in 1..N PROVE col[i] = vk[i]
    <3>1. PICK c : c = [a \in D |-> t[a][i]]
      OBVIOUS
    <3>2. col[i] = SumOf(c, D)
      BY <2>10, <3>1
    <3>3. PICK z : z = [a \in D |-> vk[i]]
      OBVIOUS
    <3>4. PICK x \in D : x = sources[i]
      BY <2>1
    <3>5. PICK P : P = {x}
      OBVIOUS
    <3>6. \A a \in D : z[a] \in Int /\ c[a] = IF a \in P THEN z[a] ELSE 0
      BY <2>7, <2>8, <3>1, <3>3, <3>4, <3>5
    <3>7. SumOf(c, D) = SumOf(z, P)
      <4>1. IsFiniteSet(D)
        BY <1>0, <2>1
      <4>2. SumOf(c, D) = SumOf(z, D \intersect P)
        BY <3>6, <4>1, SumPart
      <4>3. D \intersect P = P
        BY <3>5
      <4> QED BY <4>2, <4>3
    <3>8. IsFiniteSet(P) /\ x \in P /\ P \ {x} = {}
      BY <3>5, FS_Singleton
    <3>9. \A y \in P : z[y] = vk[i] /\ z[y] \in Int
      BY <2>7, <3>3, <3>5
    <3>10. SumOf(z, P) = z[x] + SumOf(z, P \ {x})
      BY <3>8, <3>9, SumRemove
    <3>11. SumOf(z, P \ {x}) = 0
      BY <3>8, SumRecursion
    <3>12. z[x] = vk[i] /\ vk[i] \in Int
      BY <2>7, <3>8, <3>9
    <3>13. vk[i] + 0 = vk[i]
      BY <3>12
    <3> QED BY <3>2, <3>7, <3>10, <3>11, <3>12, <3>13
  <2>14. SumOf(col, 1..N) = SumOf(vk, 1..N)
    BY <1>0, <2>7, <2>13, SumEqual
  <2>15. \A a \in D : rk[a] \in Int /\ row[a] \in Int /\ mk[a] = rk[a] + row[a]
    <3> SUFFICES ASSUME NEW a \in D PROVE rk[a] \in Int /\ row[a] \in Int /\ mk[a] = rk[a] + row[a]
      OBVIOUS
    <3>1. rk[a] = rest[a][k] /\ mk[a] = map[a][k] /\ row[a] = taken(a)[k]
      BY <2>2, <2>3, <2>12
    <3>2. rest[a][k] \in Int /\ map[a][k] \in Int /\ taken(a)[k] \in Int /\ rest[a][k] = map[a][k] - taken(a)[k]
      BY <1>0, <1>3, <2>1, AmountType
    <3> QED BY <3>1, <3>2
  <2>16. SumOf(mk, D) = SumOf(rk, D) + SumOf(row, D)
    BY <1>0, <2>1, <2>15, SumPlus
  <2>17. SumOf(rk, D) \in Int /\ SumOf(row, D) \in Int
    BY <1>0, <2>1, <2>15, SumType
  <2> QED BY <2>5, <2>11, <2>14, <2>16, <2>17
<1> QED BY <1>1, <1>2, <1>3, <1>4, <1>5, <1>6

-----------------------------------------------------------------------------
(* The invariant of a transaction that is no coinstake, until it fails.    *)

\* What is set aside for an output, and what one is made of
FrozenOuts == [nValue : Nat, sAddress : Nat, mark : Marks, fractions : Fractions,
               fIsColdOutput : BOOLEAN, fair : Seq(Nat)]
MadeOuts == [mark : Marks, fractions : Fractions]

TxInv == tx.vin \in Seq(TxIns) /\ tx.vout \in Seq(TxOuts) /\ supply \in Indexes

PoolInv ==
  /\ IsPool(poolReserves) /\ \A a \in DOMAIN poolReserves : Lower(poolReserves[a], supply)
  /\ IsPool(poolLiquidity) /\ \A a \in DOMAIN poolLiquidity : Upper(poolLiquidity[a], supply)
  /\ frCommonLiquidity \in Fractions /\ Upper(frCommonLiquidity, supply)
  /\ frColdFees \in Fractions

\* An output that leaves another one its fair part knows that one, and the
\* reserve they share.
GoodFrozen(map, addresses) ==
  /\ IsFiniteSet(DOMAIN map) /\ DOMAIN map \subseteq DOMAIN tx.vout
  /\ \A o \in DOMAIN map :
       /\ map[o] \in FrozenOuts
       /\ map[o].nValue = tx.vout[o].value
       /\ map[o].fair # <<>> =>
            map[o].fair[1] = o /\ map[o].fair[2] \in DOMAIN map /\ map[o].sAddress \in addresses

FrozenInv == GoodFrozen(poolFrozen, DOMAIN poolReserves)

PhaseInv ==
  /\ n \in Nat \ {0}
  /\ phase = "inputs" => n <= Len(tx.vin) + 1 /\ outs = <<>>
  /\ phase # "inputs" => n <= Len(tx.vout) + 1 /\ outs \in Seq(MadeOuts) /\ Len(outs) = n - 1

TakenIns == IF phase = "inputs" THEN 1..(n - 1) ELSE DOMAIN tx.vin
TakenSum == SumOver(FractionsOf(tx.vin), TakenIns)
Liquid == IF phase = "inputs" THEN SumAll(poolLiquidity) ELSE frCommonLiquidity
Reserve == SumAll(poolReserves)
Aside == SumOver(FractionsOf(poolFrozen), DOMAIN poolFrozen \ DOMAIN outs)
Made == SumAll(FractionsOf(outs))

BooksInv ==
  \A k \in Indexes : Liquid[k] + Reserve[k] + Aside[k] + Made[k] + frColdFees[k] = TakenSum[k]

\* Nothing is stated of a coinstake.
IInv ==
  tx.reward = Null =>
    /\ TxInv
    /\ phase \in {"inputs", "outputs", "done", "failed"}
    /\ phase # "failed" => PoolInv /\ FrozenInv /\ PhaseInv /\ BooksInv

\* What is set aside is a map of fractions.
LEMMA FrozenLemma ==
  ASSUME FrozenInv, TxInv
  PROVE  /\ IsPool(FractionsOf(poolFrozen)) /\ DOMAIN FractionsOf(poolFrozen) = DOMAIN poolFrozen
         /\ \A o \in DOMAIN poolFrozen : /\ FractionsOf(poolFrozen)[o] = poolFrozen[o].fractions
                                         /\ poolFrozen[o].fractions \in Fractions
<1>1. DOMAIN tx.vout \subseteq Nat
  BY DEF TxInv
<1>2. \A o \in DOMAIN poolFrozen : poolFrozen[o].fractions \in Fractions
  BY DEF FrozenInv, GoodFrozen, FrozenOuts
<1> QED BY <1>1, <1>2 DEF FrozenInv, GoodFrozen, IsPool, FractionsOf

\* So is what a map of frozen outputs sets aside.
LEMMA FrozenPool ==
  ASSUME NEW map, IsFiniteSet(DOMAIN map), DOMAIN map \subseteq Nat, \A o \in DOMAIN map : map[o] \in FrozenOuts
  PROVE  /\ IsPool(FractionsOf(map)) /\ DOMAIN FractionsOf(map) = DOMAIN map
         /\ \A o \in DOMAIN map : FractionsOf(map)[o] = map[o].fractions /\ map[o].fractions \in Fractions
<1>1. \A o \in DOMAIN map : map[o].fractions \in Fractions
  BY DEF FrozenOuts
<1> QED BY <1>1 DEF IsPool, FractionsOf

\* What the outputs made hold are fractions.
LEMMA MadeLemma ==
  ASSUME outs \in Seq(MadeOuts)
  PROVE  /\ IsPool(FractionsOf(outs)) /\ DOMAIN FractionsOf(outs) = 1..Len(outs) /\ Len(outs) \in Nat
         /\ \A o \in 1..Len(outs) : FractionsOf(outs)[o] = outs[o].fractions /\ outs[o].fractions \in Fractions
<1>1. Len(outs) \in Nat /\ DOMAIN outs = 1..Len(outs) /\ \A o \in 1..Len(outs) : outs[o] \in MadeOuts
  OBVIOUS
<1>2. \A o \in 1..Len(outs) : outs[o].fractions \in Fractions
  BY <1>1 DEF MadeOuts
<1>3. IsFiniteSet(1..Len(outs)) /\ 1..Len(outs) \subseteq Nat
  BY <1>1, FS_Interval
<1> QED BY <1>1, <1>2, <1>3 DEF IsPool, FractionsOf

\* What the inputs brought are fractions.
LEMMA TakenLemma ==
  ASSUME TxInv
  PROVE  /\ IsPool(FractionsOf(tx.vin)) /\ DOMAIN FractionsOf(tx.vin) = 1..Len(tx.vin) /\ Len(tx.vin) \in Nat
         /\ \A i \in 1..Len(tx.vin) : /\ FractionsOf(tx.vin)[i] = tx.vin[i].fractions
                                      /\ tx.vin[i] \in TxIns /\ tx.vin[i].fractions \in Fractions
         /\ DOMAIN tx.vin = 1..Len(tx.vin)
<1>0. PICK v \in Seq(TxIns) : v = tx.vin
  BY DEF TxInv
<1>1. Len(v) \in Nat /\ DOMAIN v = 1..Len(v) /\ \A i \in 1..Len(v) : v[i] \in TxIns
  OBVIOUS
<1>2. \A i \in 1..Len(v) : v[i].fractions \in Fractions
  BY <1>1 DEF TxIns
<1>3. IsFiniteSet(1..Len(v)) /\ 1..Len(v) \subseteq Nat
  BY <1>1, FS_Interval
<1> QED BY <1>0, <1>1, <1>2, <1>3 DEF IsPool, FractionsOf

\* What a pool holds are fractions.
LEMMA PoolSum ==
  ASSUME NEW map, IsPool(map), NEW S, S \subseteq DOMAIN map
  PROVE  SumOver(map, S) \in Fractions /\ SumAll(map) \in Fractions
<1>1. IsFiniteSet(S) /\ \A x \in S : map[x] \in Fractions
  BY FS_Subset DEF IsPool
<1>2. IsFiniteSet(DOMAIN map) /\ \A x \in DOMAIN map : map[x] \in Fractions
  BY DEF IsPool
<1> QED BY <1>1, <1>2, SumOverAt DEF SumAll

\* Every place that can hold fractions holds fractions.
LEMMA PlacesLemma ==
  ASSUME TxInv, PoolInv, FrozenInv, PhaseInv
  PROVE  /\ Liquid \in Fractions /\ Reserve \in Fractions /\ Aside \in Fractions /\ Made \in Fractions
         /\ TakenSum \in Fractions /\ frColdFees \in Fractions
<1>1. Liquid \in Fractions /\ Reserve \in Fractions /\ frColdFees \in Fractions
  <2>1. SumAll(poolReserves) \in Fractions /\ SumAll(poolLiquidity) \in Fractions
    BY PoolSum DEF PoolInv
  <2> QED BY <2>1 DEF Liquid, Reserve, PoolInv
<1>2. Aside \in Fractions
  <2>1. PICK fr : fr = FractionsOf(poolFrozen)
    OBVIOUS
  <2>2. IsPool(fr) /\ DOMAIN poolFrozen \ DOMAIN outs \subseteq DOMAIN fr
    BY <2>1, FrozenLemma
  <2>3. SumOver(fr, DOMAIN poolFrozen \ DOMAIN outs) \in Fractions
    BY <2>2, PoolSum
  <2> QED BY <2>1, <2>3 DEF Aside
<1>3. outs \in Seq(MadeOuts)
  <2>1. <<>> \in Seq(MadeOuts)
    OBVIOUS
  <2>2. phase = "inputs" => outs = <<>>
    BY DEF PhaseInv
  <2>3. phase # "inputs" => outs \in Seq(MadeOuts)
    BY DEF PhaseInv
  <2> QED BY <2>1, <2>2, <2>3
<1>4. Made \in Fractions
  BY <1>3, MadeLemma, PoolSum DEF Made
<1>5. TakenIns \subseteq 1..Len(tx.vin)
  <2>1. CASE phase = "inputs"
    <3>1. TakenIns = 1..(n - 1) /\ n \in Nat /\ n <= Len(tx.vin) + 1 /\ Len(tx.vin) \in Nat
      BY <2>1, TakenLemma DEF TakenIns, PhaseInv
    <3> QED BY <3>1
  <2>2. CASE phase # "inputs"
    BY <2>2, TakenLemma DEF TakenIns
  <2> QED BY <2>1, <2>2
<1>6. TakenSum \in Fractions
  BY <1>5, TakenLemma, PoolSum DEF TakenSum
<1> QED BY <1>1, <1>2, <1>4, <1>6

-----------------------------------------------------------------------------
(* Inputs                                                                  *)

\* An input is due.
Taking == TxInv /\ PoolInv /\ FrozenInv /\ PhaseInv /\ phase = "inputs" /\ n <= Len(tx.vin)

\* The input at hand and its two parts.
LEMMA InputLemma ==
  ASSUME Taking
  PROVE  /\ n \in 1..Len(tx.vin) /\ Input \in TxIns
         /\ Input.fractions \in Fractions /\ Input.address \in Nat
         /\ LowPart(Input.fractions, supply) \in Fractions /\ HighPart(Input.fractions, supply) \in Fractions
         /\ Lower(LowPart(Input.fractions, supply), supply) /\ Upper(HighPart(Input.fractions, supply), supply)
         /\ \A k \in Indexes : LowPart(Input.fractions, supply)[k] + HighPart(Input.fractions, supply)[k]
                                 = Input.fractions[k]
<1>1. n \in 1..Len(tx.vin)
  BY TakenLemma DEF Taking, PhaseInv
<1>2. PICK i \in TxIns : i = Input
  BY <1>1, TakenLemma DEF Taking, Input
<1>3. PICK f \in Fractions : f = Input.fractions
  BY <1>2 DEF TxIns
<1>4. Input.address \in Nat
  BY <1>2 DEF TxIns
<1>5. supply \in Int /\ Indexes \subseteq Nat
  BY IndexesFinite DEF Taking, TxInv
<1>6. LowPart(f, supply) \in Fractions /\ HighPart(f, supply) \in Fractions
  BY <1>5, FractionsLemma
<1>7. \A k \in Indexes : f[k] \in Int /\ k \in Int
  BY <1>5, AmountType
<1>8. Lower(LowPart(f, supply), supply) /\ Upper(HighPart(f, supply), supply)
  BY <1>5, <1>7 DEF Lower, Upper, LowPart, HighPart
<1>9. \A k \in Indexes : LowPart(f, supply)[k] + HighPart(f, supply)[k] = f[k]
  BY <1>5, <1>7 DEF LowPart, HighPart
<1> QED BY <1>1, <1>2, <1>3, <1>4, <1>6, <1>8, <1>9

\* What holds of the pool at an address when a part is added to it.
LEMMA PoolWithLemma ==
  ASSUME NEW map, IsPool(map), NEW a \in Nat, NEW f \in Fractions, NEW p, p = PutPlus(map, a, f)
  PROVE  /\ IsPool(p) /\ a \in DOMAIN p /\ DOMAIN map \subseteq DOMAIN p /\ p[a] \in Fractions
         /\ SumAll(p) = Plus(SumAll(map), f)
         /\ \A k \in Indexes : f[k] <= p[a][k]
         /\ \A e : Lower(f, e) /\ (\A b \in DOMAIN map : Lower(map[b], e)) => \A b \in DOMAIN p : Lower(p[b], e)
         /\ \A e : Upper(f, e) /\ (\A b \in DOMAIN map : Upper(map[b], e)) => \A b \in DOMAIN p : Upper(p[b], e)
<1>1. /\ IsPool(p) /\ DOMAIN p = DOMAIN map \union {a}
      /\ \A b \in DOMAIN map : b # a => p[b] = map[b]
      /\ p[a] = Plus(At(map, a, Zero), f)
      /\ At(map, a, Zero) \in Fractions
      /\ SumAll(p) = Plus(SumAll(map), f)
  BY PutPlusLemma
<1>2. a \in DOMAIN p /\ DOMAIN map \subseteq DOMAIN p
  BY <1>1
<1>3. p[a] \in Fractions
  BY <1>1, <1>2 DEF IsPool
<1>4. PICK g \in Fractions : g = At(map, a, Zero)
  BY <1>1
<1>5. \A k \in Indexes : p[a][k] = g[k] + f[k]
  BY <1>1, <1>4, PlusLemma
<1>6. \A k \in Indexes : g[k] \in Nat /\ f[k] \in Nat
  BY AmountType
<1>7. \A k \in Indexes : f[k] <= p[a][k]
  BY <1>5, <1>6
<1>8. g = Zero \/ (a \in DOMAIN map /\ g = map[a])
  BY <1>4 DEF At
<1>9. ASSUME NEW e, Lower(f, e), \A b \in DOMAIN map : Lower(map[b], e), NEW b \in DOMAIN p PROVE Lower(p[b], e)
  <2>1. CASE b # a
    BY <1>1, <1>9, <2>1
  <2>2. CASE b = a
    <3>1. Lower(g, e)
      BY <1>8, <1>9, ZeroLemma DEF Lower
    <3> QED BY <1>5, <1>9, <2>2, <3>1 DEF Lower
  <2> QED BY <2>1, <2>2
<1>10. ASSUME NEW e, Upper(f, e), \A b \in DOMAIN map : Upper(map[b], e), NEW b \in DOMAIN p PROVE Upper(p[b], e)
  <2>1. CASE b # a
    BY <1>1, <1>10, <2>1
  <2>2. CASE b = a
    <3>1. Upper(g, e)
      BY <1>8, <1>10, ZeroLemma DEF Upper
    <3> QED BY <1>5, <1>10, <2>2, <3>1 DEF Upper
  <2> QED BY <2>1, <2>2
<1> QED BY <1>1, <1>2, <1>3, <1>7, <1>9, <1>10

\* The pools with both parts of an input, and what they hold together.
LEMMA WithInputLemma ==
  ASSUME Taking
  PROVE  /\ IsPool(ReserveWithInput) /\ IsPool(LiquidityWithInput)
         /\ Input.address \in DOMAIN ReserveWithInput /\ Input.address \in DOMAIN LiquidityWithInput
         /\ DOMAIN poolReserves \subseteq DOMAIN ReserveWithInput
         /\ \A a \in DOMAIN ReserveWithInput : Lower(ReserveWithInput[a], supply)
         /\ \A a \in DOMAIN LiquidityWithInput : Upper(LiquidityWithInput[a], supply)
         /\ \A k \in Indexes : /\ LowPart(Input.fractions, supply)[k] <= ReserveWithInput[Input.address][k]
                               /\ HighPart(Input.fractions, supply)[k] <= LiquidityWithInput[Input.address][k]
         /\ \A k \in Indexes :
              SumAll(ReserveWithInput)[k] + SumAll(LiquidityWithInput)[k]
                = SumAll(poolReserves)[k] + SumAll(poolLiquidity)[k] + Input.fractions[k]
<1>1. PICK a \in Nat : a = Input.address
  BY InputLemma
<1>2. PICK lo \in Fractions : lo = LowPart(Input.fractions, supply)
  BY InputLemma
<1>3. PICK hi \in Fractions : hi = HighPart(Input.fractions, supply)
  BY InputLemma
<1>4. Lower(lo, supply) /\ Upper(hi, supply) /\ \A k \in Indexes : lo[k] + hi[k] = Input.fractions[k]
  BY <1>2, <1>3, InputLemma
<1>5. ReserveWithInput = PutPlus(poolReserves, a, lo) /\ LiquidityWithInput = PutPlus(poolLiquidity, a, hi)
  BY <1>1, <1>2, <1>3 DEF ReserveWithInput, LiquidityWithInput
<1>6. IsPool(poolReserves) /\ IsPool(poolLiquidity)
  BY DEF Taking, PoolInv
<1>7. PICK r : r = ReserveWithInput
  OBVIOUS
<1>8. PICK l : l = LiquidityWithInput
  OBVIOUS
<1>9. /\ IsPool(r) /\ a \in DOMAIN r /\ DOMAIN poolReserves \subseteq DOMAIN r
      /\ SumAll(r) = Plus(SumAll(poolReserves), lo)
      /\ \A k \in Indexes : lo[k] <= r[a][k]
  BY <1>5, <1>6, <1>7, PoolWithLemma
<1>10. \A b \in DOMAIN r : Lower(r[b], supply)
  <2>1. \A b \in DOMAIN poolReserves : Lower(poolReserves[b], supply)
    BY DEF Taking, PoolInv
  <2> QED BY <1>4, <1>5, <1>6, <1>7, <2>1, PoolWithLemma
<1>11. /\ IsPool(l) /\ a \in DOMAIN l
       /\ SumAll(l) = Plus(SumAll(poolLiquidity), hi)
       /\ \A k \in Indexes : hi[k] <= l[a][k]
  BY <1>5, <1>6, <1>8, PoolWithLemma
<1>12. \A b \in DOMAIN l : Upper(l[b], supply)
  <2>1. \A b \in DOMAIN poolLiquidity : Upper(poolLiquidity[b], supply)
    BY DEF Taking, PoolInv
  <2> QED BY <1>4, <1>5, <1>6, <1>8, <2>1, PoolWithLemma
<1>13. ASSUME NEW k \in Indexes
       PROVE  SumAll(r)[k] + SumAll(l)[k] = SumAll(poolReserves)[k] + SumAll(poolLiquidity)[k] + Input.fractions[k]
  <2>1. SumAll(r)[k] = SumAll(poolReserves)[k] + lo[k] /\ SumAll(l)[k] = SumAll(poolLiquidity)[k] + hi[k]
    BY <1>9, <1>11 DEF Plus
  <2>2. SumAll(poolReserves) \in Fractions /\ SumAll(poolLiquidity) \in Fractions
    BY <1>6, PoolSum
  <2>3. SumAll(poolReserves)[k] \in Int /\ SumAll(poolLiquidity)[k] \in Int /\ lo[k] \in Int /\ hi[k] \in Int
    BY <2>2, AmountType
  <2> QED BY <1>4, <2>1, <2>3
<1> QED BY <1>1, <1>2, <1>3, <1>7, <1>8, <1>9, <1>10, <1>11, <1>12, <1>13

\* The inputs taken, with one more.
LEMMA TakenNext ==
  ASSUME Taking
  PROVE  SumOver(FractionsOf(tx.vin), 1..n) = Plus(SumOver(FractionsOf(tx.vin), 1..(n - 1)), Input.fractions)
<1>1. PICK v : v = FractionsOf(tx.vin)
  OBVIOUS
<1>2. PICK S : S = 1..(n - 1)
  OBVIOUS
<1>3. PICK x : x = n
  OBVIOUS
<1>4. n \in 1..Len(tx.vin) /\ Len(tx.vin) \in Nat
  BY InputLemma, TakenLemma DEF Taking
<1>5. \A i \in 1..Len(tx.vin) : v[i] \in Fractions
  BY <1>1, TakenLemma DEF Taking
<1>6. 1..n = S \union {x} /\ x \notin S /\ S \subseteq 1..Len(tx.vin)
  BY <1>2, <1>3, <1>4
<1>7. IsFiniteSet(S)
  BY <1>2, <1>4, FS_Interval
<1>8. v[x] \in Fractions /\ \A y \in S : v[y] \in Fractions
  BY <1>3, <1>4, <1>5, <1>6
<1>9. SumOver(v, S \union {x}) = Plus(SumOver(v, S), v[x])
  BY <1>6, <1>7, <1>8, SumOverNext
<1>10. v[x] = Input.fractions
  BY <1>1, <1>3, <1>4, TakenLemma DEF Taking, Input
<1> QED BY <1>1, <1>2, <1>6, <1>9, <1>10

\* What the places of fractions hold together while the inputs are taken
Held(reserves, liquidity, frozen, cold) ==
  [k \in Indexes |-> SumAll(reserves)[k] + SumAll(liquidity)[k] + SumAll(FractionsOf(frozen))[k] + cold[k]]

\* An input is taken: what it brings is in the pools, with what is set aside,
\* or in the cold fee.
InputStep ==
  /\ n' = n + 1 /\ tx' = tx /\ supply' = supply /\ phase' = phase /\ outs' = outs
  /\ frCommonLiquidity' = frCommonLiquidity
  /\ Held(poolReserves', poolLiquidity', poolFrozen', frColdFees')
       = Plus(Held(poolReserves, poolLiquidity, poolFrozen, frColdFees), Input.fractions)

\* While inputs are taken no output is made, and the places are the pools.
LEMMA HeldLemma ==
  ASSUME Taking
  PROVE  /\ Liquid = SumAll(poolLiquidity) /\ Reserve = SumAll(poolReserves)
         /\ Aside = SumAll(FractionsOf(poolFrozen)) /\ Made = Zero
<1>1. DOMAIN outs = {} /\ DOMAIN FractionsOf(outs) = {}
  BY DEF Taking, PhaseInv, FractionsOf
<1>2. DOMAIN poolFrozen \ DOMAIN outs = DOMAIN FractionsOf(poolFrozen)
  BY <1>1 DEF FractionsOf
<1>3. Aside = SumAll(FractionsOf(poolFrozen))
  BY <1>2 DEF Aside, SumAll
<1>4. Made = Zero
  BY <1>1, SumOverEmpty DEF Made, SumAll
<1> QED BY <1>3, <1>4 DEF Taking, Liquid, Reserve

\* A step that puts an input into its places keeps the books.
LEMMA InputBooks ==
  ASSUME Taking, InputStep, PoolInv', FrozenInv', BooksInv
  PROVE  TxInv' /\ PhaseInv' /\ BooksInv'
<1>1. TxInv'
  BY DEF Taking, InputStep, TxInv
<1>2. n \in Nat \ {0} /\ outs = <<>> /\ DOMAIN outs = {} /\ Len(tx.vin) \in Nat /\ n <= Len(tx.vin)
  BY TakenLemma DEF Taking, PhaseInv
<1>3. PhaseInv'
  BY <1>2 DEF PhaseInv, Taking, InputStep
<1>4. Aside' = SumAll(FractionsOf(poolFrozen')) /\ Made' = Zero
  <2>1. DOMAIN FractionsOf(poolFrozen') = DOMAIN poolFrozen'
    BY DEF FractionsOf
  <2>2. DOMAIN outs' = {} /\ DOMAIN FractionsOf(outs') = {}
    BY <1>2 DEF InputStep, FractionsOf
  <2>3. Made' = Zero
    BY <2>2, SumOverEmpty DEF Made, SumAll
  <2> QED BY <2>1, <2>2, <2>3 DEF Aside, SumAll
<1>5. Liquid' = SumAll(poolLiquidity') /\ Reserve' = SumAll(poolReserves')
  BY DEF Liquid, Reserve, Taking, InputStep
<1>6. TakenSum' = Plus(TakenSum, Input.fractions)
  <2>1. TakenSum = SumOver(FractionsOf(tx.vin), 1..(n - 1))
    BY DEF TakenSum, TakenIns, Taking
  <2>2. TakenIns' = 1..n
    BY <1>2 DEF TakenIns, Taking, InputStep
  <2>3. TakenSum' = SumOver(FractionsOf(tx.vin), 1..n)
    BY <2>2 DEF TakenSum, InputStep
  <2> QED BY <2>1, <2>3, TakenNext
<1>7. IsPool(poolReserves') /\ IsPool(poolLiquidity') /\ IsPool(FractionsOf(poolFrozen')) /\ frColdFees' \in Fractions
  <2>1. /\ IsFiniteSet(DOMAIN poolFrozen') /\ DOMAIN poolFrozen' \subseteq DOMAIN tx.vout
        /\ \A o \in DOMAIN poolFrozen' : poolFrozen'[o] \in FrozenOuts
    BY DEF FrozenInv, GoodFrozen, InputStep
  <2>2. DOMAIN tx.vout \subseteq Nat
    BY DEF Taking, TxInv
  <2>3. IsPool(FractionsOf(poolFrozen'))
    BY <2>1, <2>2, FrozenPool
  <2> QED BY <2>3 DEF PoolInv
<1>8. Liquid' \in Fractions /\ Reserve' \in Fractions /\ Aside' \in Fractions /\ Made' \in Fractions
  BY <1>4, <1>5, <1>7, PoolSum, ZeroLemma
<1>9. ASSUME NEW k \in Indexes
      PROVE  Liquid'[k] + Reserve'[k] + Aside'[k] + Made'[k] + frColdFees'[k] = TakenSum'[k]
  <2>1. Liquid[k] + Reserve[k] + Aside[k] + Made[k] + frColdFees[k] = TakenSum[k]
    BY DEF BooksInv
  <2>2. TakenSum'[k] = TakenSum[k] + Input.fractions[k]
    BY <1>6 DEF Plus
  <2>3. /\ Liquid[k] \in Int /\ Reserve[k] \in Int /\ Aside[k] \in Int /\ Made[k] \in Int
        /\ TakenSum[k] \in Int /\ frColdFees[k] \in Int
    BY PlacesLemma, AmountType DEF Taking
  <2>4. Input.fractions[k] \in Int
    BY InputLemma, AmountType
  <2>5. Liquid'[k] \in Int /\ Reserve'[k] \in Int /\ Aside'[k] \in Int /\ Made'[k] \in Int /\ frColdFees'[k] \in Int
    BY <1>7, <1>8, AmountType
  <2>6. Held(poolReserves', poolLiquidity', poolFrozen', frColdFees')[k]
          = Held(poolReserves, poolLiquidity, poolFrozen, frColdFees)[k] + Input.fractions[k]
    BY DEF InputStep, Plus
  <2>7. Reserve'[k] + Liquid'[k] + Aside'[k] + frColdFees'[k]
          = Reserve[k] + Liquid[k] + Aside[k] + frColdFees[k] + Input.fractions[k]
    BY <1>4, <1>5, <2>6, HeldLemma DEF Held
  <2>8. Made'[k] = 0 /\ Made[k] = 0
    BY <1>4, HeldLemma, ZeroLemma
  <2> QED BY <2>1, <2>2, <2>3, <2>4, <2>5, <2>7, <2>8
<1> QED BY <1>1, <1>3, <1>9 DEF BooksInv

\* More addresses with reserve do not matter to what is frozen.
LEMMA GoodFrozenMore ==
  ASSUME NEW map, NEW D, NEW E, D \subseteq E, GoodFrozen(map, D)
  PROVE  GoodFrozen(map, E)
  BY DEF GoodFrozen

\* The pools with an input, less what an output takes of it now
Deducted(part, r, l, a) ==
  /\ part \in Fractions /\ a = Input.address
  /\ DOMAIN r = DOMAIN ReserveWithInput /\ DOMAIN l = DOMAIN LiquidityWithInput
  /\ r[a] = Minus(ReserveWithInput[a], LowPart(part, supply))
  /\ l[a] = Minus(LiquidityWithInput[a], HighPart(part, supply))
  /\ \A b \in DOMAIN r : b # a => r[b] = ReserveWithInput[b]
  /\ \A b \in DOMAIN l : b # a => l[b] = LiquidityWithInput[b]
  /\ \A k \in Indexes : LowPart(part, supply)[k] <= ReserveWithInput[a][k]
  /\ \A k \in Indexes : HighPart(part, supply)[k] <= LiquidityWithInput[a][k]

\* What an output takes of its input leaves the pools by as much.
LEMMA DeductLemma ==
  ASSUME Taking, NEW part, NEW r, NEW l, NEW a, Deducted(part, r, l, a)
  PROVE  /\ IsPool(r) /\ \A b \in DOMAIN r : Lower(r[b], supply)
         /\ IsPool(l) /\ \A b \in DOMAIN l : Upper(l[b], supply)
         /\ \A k \in Indexes :
              SumAll(r)[k] + SumAll(l)[k]
                = SumAll(poolReserves)[k] + SumAll(poolLiquidity)[k] + Input.fractions[k] - part[k]
<1>1. PICK R : R = ReserveWithInput
  OBVIOUS
<1>2. PICK L : L = LiquidityWithInput
  OBVIOUS
<1>3. supply \in Int
  BY IndexesFinite DEF Taking, TxInv
<1>4. PICK lo \in Fractions : lo = LowPart(part, supply)
  BY <1>3, FractionsLemma DEF Deducted
<1>5. PICK hi \in Fractions : hi = HighPart(part, supply)
  BY <1>3, FractionsLemma DEF Deducted
<1>6. /\ IsPool(R) /\ IsPool(L) /\ a \in DOMAIN R /\ a \in DOMAIN L
      /\ \A b \in DOMAIN R : Lower(R[b], supply)
      /\ \A b \in DOMAIN L : Upper(L[b], supply)
  BY <1>1, <1>2, WithInputLemma DEF Deducted
<1>7. IsPool(r) /\ SumAll(R) \in Fractions /\ SumAll(r) \in Fractions /\ \A k \in Indexes : SumAll(r)[k] = SumAll(R)[k] - lo[k]
  BY <1>1, <1>4, <1>6, TakeFromPool DEF Deducted
<1>8. IsPool(l) /\ SumAll(L) \in Fractions /\ SumAll(l) \in Fractions /\ \A k \in Indexes : SumAll(l)[k] = SumAll(L)[k] - hi[k]
  BY <1>2, <1>5, <1>6, TakeFromPool DEF Deducted
<1>9. R[a] \in Fractions /\ L[a] \in Fractions
  BY <1>6 DEF IsPool
<1>10. \A k \in Indexes : lo[k] \in Nat /\ hi[k] \in Nat /\ R[a][k] \in Nat /\ L[a][k] \in Nat /\ part[k] \in Int /\ k \in Int
  BY <1>9, AmountType, IndexesFinite DEF Deducted
<1>11. \A k \in Indexes : lo[k] + hi[k] = part[k]
  BY <1>3, <1>4, <1>5, <1>10 DEF LowPart, HighPart
<1>12. ASSUME NEW b \in DOMAIN r PROVE Lower(r[b], supply)
  <2>1. CASE b # a
    BY <1>1, <1>6, <1>12, <2>1 DEF Deducted
  <2>2. CASE b = a
    <3>1. \A k \in Indexes : r[a][k] = R[a][k] - lo[k] /\ lo[k] <= R[a][k]
      BY <1>1, <1>4 DEF Minus, Deducted
    <3>2. Lower(R[a], supply)
      BY <1>6
    <3> QED BY <1>10, <2>2, <3>1, <3>2 DEF Lower
  <2> QED BY <2>1, <2>2
<1>13. ASSUME NEW b \in DOMAIN l PROVE Upper(l[b], supply)
  <2>1. CASE b # a
    BY <1>2, <1>6, <1>13, <2>1 DEF Deducted
  <2>2. CASE b = a
    <3>1. \A k \in Indexes : l[a][k] = L[a][k] - hi[k] /\ hi[k] <= L[a][k]
      BY <1>2, <1>5 DEF Minus, Deducted
    <3>2. Upper(L[a], supply)
      BY <1>6
    <3> QED BY <1>10, <2>2, <3>1, <3>2 DEF Upper
  <2> QED BY <2>1, <2>2
<1>14. ASSUME NEW k \in Indexes
       PROVE  SumAll(r)[k] + SumAll(l)[k]
                = SumAll(poolReserves)[k] + SumAll(poolLiquidity)[k] + Input.fractions[k] - part[k]
  <2>1. SumAll(R)[k] + SumAll(L)[k] = SumAll(poolReserves)[k] + SumAll(poolLiquidity)[k] + Input.fractions[k]
    BY <1>1, <1>2, WithInputLemma
  <2>2. SumAll(R)[k] \in Int /\ SumAll(L)[k] \in Int /\ lo[k] \in Int /\ hi[k] \in Int /\ part[k] \in Int
    BY <1>7, <1>8, <1>10, AmountType
  <2>3. PICK was : was = SumAll(poolReserves)[k] + SumAll(poolLiquidity)[k] + Input.fractions[k]
    OBVIOUS
  <2>4. SumAll(r)[k] = SumAll(R)[k] - lo[k] /\ SumAll(l)[k] = SumAll(L)[k] - hi[k] /\ lo[k] + hi[k] = part[k]
    BY <1>7, <1>8, <1>11
  <2>5. SumAll(r)[k] + SumAll(l)[k] = (SumAll(R)[k] + SumAll(L)[k]) - part[k]
    BY <2>2, <2>4
  <2>6. SumAll(R)[k] + SumAll(L)[k] = was
    BY <2>1, <2>3
  <2>7. SumAll(r)[k] + SumAll(l)[k] = was - part[k]
    BY <2>5, <2>6
  <2>8. SumAll(poolReserves)[k] \in Int /\ SumAll(poolLiquidity)[k] \in Int /\ Input.fractions[k] \in Int
    <3>1. SumAll(poolReserves) \in Fractions /\ SumAll(poolLiquidity) \in Fractions
      BY PoolSum DEF Taking, PoolInv
    <3> QED BY <3>1, InputLemma, AmountType
  <2> QED BY <2>2, <2>3, <2>7, <2>8
<1> QED BY <1>7, <1>8, <1>12, <1>13, <1>14

\* The output at the place of an input.
LEMMA PlaceLemma ==
  ASSUME TxInv, n \in Nat \ {0}, HasPlace
  PROVE  n \in DOMAIN tx.vout /\ Place \in TxOuts /\ Place.value \in Nat /\ Place.notary \in Marks /\ Place.refs \in Seq(Nat)
<1>1. PICK v \in Seq(TxOuts) : v = tx.vout
  BY DEF TxInv
<1>2. n \in DOMAIN v /\ v[n] \in TxOuts
  BY <1>1 DEF HasPlace
<1>3. \A p \in TxOuts : p.value \in Nat /\ p.notary \in Marks /\ p.refs \in Seq(Nat)
  BY DEF TxOuts
<1> QED BY <1>1, <1>2, <1>3 DEF Place

\* The outputs are numbered, finitely many.
LEMMA OutsLemma ==
  ASSUME TxInv
  PROVE  /\ DOMAIN tx.vout = 1..Len(tx.vout) /\ Len(tx.vout) \in Nat
         /\ DOMAIN tx.vout \subseteq Nat /\ IsFiniteSet(DOMAIN tx.vout)
         /\ \A o \in DOMAIN tx.vout : tx.vout[o] \in TxOuts /\ tx.vout[o].value \in Nat
<1>1. PICK v \in Seq(TxOuts) : v = tx.vout
  BY DEF TxInv
<1>2. DOMAIN v = 1..Len(v) /\ Len(v) \in Nat /\ DOMAIN v \subseteq Nat /\ \A o \in DOMAIN v : v[o] \in TxOuts
  OBVIOUS
<1>4. IsFiniteSet(DOMAIN v)
  BY <1>2, FS_Interval
<1>3. \A p \in TxOuts : p.value \in Nat
  BY DEF TxOuts
<1> QED BY <1>1, <1>2, <1>3, <1>4

\* An output that is not yet frozen.
LEMMA UnfrozenLemma ==
  Unfrozen \in FrozenOuts /\ Unfrozen.fair = <<>> /\ Unfrozen.fractions = Zero
<1>1. <<>> \in Seq(Nat) /\ "" \in Marks
  BY DEF Marks
<1>2. PICK fair \in Seq(Nat) : fair = <<>>
  BY <1>1
<1>3. PICK z \in Fractions : z = Zero
  BY ZeroLemma
<1>4. Unfrozen = [nValue |-> 0, sAddress |-> 0, mark |-> "", fractions |-> z, fIsColdOutput |-> FALSE, fair |-> fair]
  BY <1>2, <1>3 DEF Unfrozen
<1>5. Unfrozen \in FrozenOuts
  BY <1>1, <1>4 DEF FrozenOuts
<1> QED BY <1>2, <1>3, <1>4, <1>5

\* The least and the greatest of two numbers are among them.
LEMMA MinMaxLemma ==
  ASSUME NEW a \in Nat, NEW b \in Nat
  PROVE  Min({a, b}) \in {a, b} /\ Max({a, b}) \in {a, b}
<1>1. \E x \in {a, b} : \A y \in {a, b} : x <= y
  OBVIOUS
<1>2. \E x \in {a, b} : \A y \in {a, b} : x >= y
  OBVIOUS
<1> QED BY <1>1, <1>2 DEF Min, Max

\* The notary names outputs of the transaction.
LEMMA NamedLemma ==
  ASSUME Taking, IsFreezing, ~ BadNotary
  PROVE  /\ Named \subseteq DOMAIN tx.vout /\ IsFiniteSet(Named) /\ Place.refs \in Seq(Nat) /\ Place.refs # <<>>
         /\ Place.notary \in Marks
         /\ Len(Place.refs) \in Nat \ {0} /\ \A i \in 1..Len(Place.refs) : Place.refs[i] \in Named
<1>1. Place.refs \in Seq(Nat) /\ Place.notary \in Marks
  BY PlaceLemma DEF Taking, PhaseInv, IsFreezing
<1>2. Named \subseteq DOMAIN tx.vout /\ Place.refs # <<>>
  BY DEF BadNotary
<1>3. PICK s \in Seq(Nat) : s = Place.refs
  BY <1>1
<1>4. Named = {s[i] : i \in 1..Len(s)} /\ Len(s) \in Nat \ {0}
  BY <1>2, <1>3 DEF Named
<1>5. IsFiniteSet(DOMAIN tx.vout)
  BY OutsLemma DEF Taking
<1>6. IsFiniteSet(Named)
  BY <1>2, <1>5, FS_Subset
<1> QED BY <1>1, <1>2, <1>3, <1>4, <1>6

\* The outputs are marked; what they hold does not change.
LEMMA MarkedLemma ==
  ASSUME Taking, IsFreezing, ~ BadNotary
  PROVE  /\ GoodFrozen(MarkedFrozen, DOMAIN ReserveWithInput) /\ Named \subseteq DOMAIN MarkedFrozen
         /\ SumAll(FractionsOf(MarkedFrozen)) = SumAll(FractionsOf(poolFrozen))
<1>1. PICK m : m = MarkedFrozen
  OBVIOUS
<1>2. PICK N : N = Named
  OBVIOUS
<1>3. PICK old : old = [o \in DOMAIN poolFrozen \union N |-> At(poolFrozen, o, Unfrozen)]
  OBVIOUS
<1>4. PICK both : both = {Place.refs[1], Place.refs[2]}
  OBVIOUS
<1>5. PICK pair : pair = (Len(Place.refs) = 2)
  OBVIOUS
<1>6. PICK a : a = Input.address
  OBVIOUS
<1>7. /\ DOMAIN m = DOMAIN poolFrozen \union N
      /\ \A o \in DOMAIN m : o \notin N => m[o] = poolFrozen[o]
      /\ \A o \in N : m[o] = [old[o] EXCEPT !.nValue = tx.vout[o].value, !.sAddress = a, !.mark = Place.notary,
                                            !.fair = IF pair /\ o = Min(both) THEN <<o, Max(both)>> ELSE @]
  BY <1>1, <1>2, <1>3, <1>4, <1>5, <1>6 DEF MarkedFrozen
<1>8. N \subseteq DOMAIN tx.vout /\ IsFiniteSet(N) /\ N \subseteq Nat
  BY <1>2, NamedLemma, OutsLemma DEF Taking
<1>9. /\ IsFiniteSet(DOMAIN poolFrozen) /\ DOMAIN poolFrozen \subseteq DOMAIN tx.vout
      /\ \A o \in DOMAIN poolFrozen :
           /\ poolFrozen[o] \in FrozenOuts
           /\ poolFrozen[o].nValue = tx.vout[o].value
           /\ poolFrozen[o].fair # <<>> =>
                /\ poolFrozen[o].fair[1] = o
                /\ poolFrozen[o].fair[2] \in DOMAIN poolFrozen
                /\ poolFrozen[o].sAddress \in DOMAIN poolReserves
  BY DEF Taking, FrozenInv, GoodFrozen
<1>10. IsFiniteSet(DOMAIN m) /\ DOMAIN m \subseteq DOMAIN tx.vout
  <2>1. IsFiniteSet(DOMAIN poolFrozen \union N)
    BY <1>8, <1>9, FS_Union
  <2> QED BY <1>7, <1>8, <1>9, <2>1
<1>11. /\ DOMAIN poolReserves \subseteq DOMAIN ReserveWithInput
       /\ a \in DOMAIN ReserveWithInput /\ a \in Nat
  BY <1>6, WithInputLemma, InputLemma
<1>12. ASSUME NEW o \in N
       PROVE  /\ m[o] \in FrozenOuts /\ m[o].nValue = tx.vout[o].value /\ m[o].sAddress = a
              /\ m[o].fractions = old[o].fractions
              /\ m[o].fair # <<>> => m[o].fair[1] = o /\ m[o].fair[2] \in DOMAIN m
  <2>1. old[o] \in FrozenOuts /\ (old[o].fair # <<>> => old[o].fair[1] = o /\ old[o].fair[2] \in DOMAIN m)
    <3>1. CASE o \in DOMAIN poolFrozen
      <4>1. old[o] = poolFrozen[o]
        BY <1>3, <3>1 DEF At
      <4> QED BY <1>7, <1>9, <3>1, <4>1
    <3>2. CASE o \notin DOMAIN poolFrozen
      <4>1. old[o] = Unfrozen
        BY <1>3, <3>2 DEF At
      <4> QED BY <4>1, UnfrozenLemma
    <3> QED BY <3>1, <3>2
  <2>2. PICK p \in FrozenOuts : p = old[o]
    BY <2>1
  <2>3. PICK v \in Nat : v = tx.vout[o].value
    BY <1>8, OutsLemma DEF Taking
  <2>4. PICK mark \in Marks : mark = Place.notary
    BY NamedLemma DEF Marks
  <2>5. PICK fair \in Seq(Nat) : /\ fair = IF pair /\ o = Min(both) THEN <<o, Max(both)>> ELSE p.fair
                                 /\ fair # <<>> => fair[1] = o /\ fair[2] \in DOMAIN m
    <3>1. CASE pair /\ o = Min(both)
      <4>1. Len(Place.refs) = 2
        BY <1>5, <3>1
      <4>2. Place.refs[1] \in N /\ Place.refs[2] \in N
        BY <1>2, <4>1, NamedLemma
      <4>3. Max(both) \in N
        BY <1>4, <1>8, <4>2, MinMaxLemma
      <4>4. PICK q \in Nat : q = Max(both) /\ q \in DOMAIN m
        BY <1>7, <1>8, <4>3
      <4>5. o \in Nat
        BY <1>8
      <4>6. <<o, q>> \in Seq(Nat) /\ <<o, q>>[1] = o /\ <<o, q>>[2] = q
        BY <4>5
      <4> QED BY <3>1, <4>4, <4>6
    <3>2. CASE ~ (pair /\ o = Min(both))
      <4>1. p.fair \in Seq(Nat)
        BY DEF FrozenOuts
      <4> QED BY <2>1, <2>2, <3>2, <4>1
    <3> QED BY <3>1, <3>2
  <2>6. m[o] = [p EXCEPT !.nValue = v, !.sAddress = a, !.mark = mark, !.fair = fair]
    BY <1>7, <2>2, <2>3, <2>4, <2>5 DEF FrozenOuts
  <2>7. /\ m[o] \in FrozenOuts /\ m[o].nValue = v /\ m[o].sAddress = a
        /\ m[o].fractions = p.fractions /\ m[o].fair = fair
    BY <1>11, <2>6 DEF FrozenOuts
  <2> QED BY <2>2, <2>3, <2>5, <2>7
<1>13. GoodFrozen(m, DOMAIN ReserveWithInput)
  <2> SUFFICES ASSUME NEW o \in DOMAIN m
               PROVE  /\ m[o] \in FrozenOuts
                      /\ m[o].nValue = tx.vout[o].value
                      /\ m[o].fair # <<>> => /\ m[o].fair[1] = o
                                             /\ m[o].fair[2] \in DOMAIN m
                                             /\ m[o].sAddress \in DOMAIN ReserveWithInput
    BY <1>10 DEF GoodFrozen
  <2>1. CASE o \in N
    BY <1>11, <1>12, <2>1
  <2>2. CASE o \notin N
    <3>1. o \in DOMAIN poolFrozen /\ m[o] = poolFrozen[o]
      BY <1>7, <2>2
    <3>2. poolFrozen[o] \in FrozenOuts /\ poolFrozen[o].nValue = tx.vout[o].value
      BY <1>9, <3>1
    <3>3. poolFrozen[o].fair # <<>> => /\ poolFrozen[o].fair[1] = o
                                       /\ poolFrozen[o].fair[2] \in DOMAIN m
                                       /\ poolFrozen[o].sAddress \in DOMAIN ReserveWithInput
      BY <1>7, <1>9, <1>11, <3>1
    <3> QED BY <3>1, <3>2, <3>3
  <2> QED BY <2>1, <2>2
<1>14. SumAll(FractionsOf(m)) = SumAll(FractionsOf(poolFrozen))
  <2>1. PICK f : f = FractionsOf(poolFrozen)
    OBVIOUS
  <2>2. PICK g : g = FractionsOf(m)
    OBVIOUS
  <2>3. DOMAIN f = DOMAIN poolFrozen /\ DOMAIN g = DOMAIN m /\ DOMAIN f \subseteq DOMAIN g
    BY <1>7, <2>1, <2>2 DEF FractionsOf
  <2>4. ASSUME NEW o \in DOMAIN f PROVE f[o] \in Fractions /\ g[o] = f[o]
    <3>1. f[o] = poolFrozen[o].fractions /\ f[o] \in Fractions
      BY <2>1, <2>3, FrozenLemma DEF Taking
    <3>2. g[o] = m[o].fractions
      BY <2>2, <2>3 DEF FractionsOf
    <3>3. m[o].fractions = poolFrozen[o].fractions
      <4>1. CASE o \in N
        <5>1. old[o] = poolFrozen[o]
          BY <1>3, <2>3 DEF At
        <5> QED BY <1>12, <4>1, <5>1
      <4>2. CASE o \notin N
        BY <1>7, <2>3, <4>2
      <4> QED BY <4>1, <4>2
    <3> QED BY <3>1, <3>2, <3>3
  <2>5. ASSUME NEW o \in DOMAIN g \ DOMAIN f PROVE g[o] = Zero
    <3>1. o \in N /\ o \notin DOMAIN poolFrozen /\ o \in DOMAIN m
      BY <1>7, <2>3
    <3>2. old[o] = Unfrozen
      BY <1>3, <3>1 DEF At
    <3>3. m[o].fractions = Zero
      BY <1>12, <3>1, <3>2, UnfrozenLemma
    <3> QED BY <2>2, <3>1, <3>3 DEF FractionsOf
  <2>6. IsFiniteSet(DOMAIN g)
    BY <1>10, <2>3
  <2>7. PICK S : S = DOMAIN f
    OBVIOUS
  <2>8. PICK T : T = DOMAIN g
    OBVIOUS
  <2>9. SumOver(g, T) = SumOver(f, S)
    BY <2>3, <2>4, <2>5, <2>6, <2>7, <2>8, SumOverExtend
  <2> QED BY <2>1, <2>2, <2>7, <2>8, <2>9 DEF SumAll
<1> QED BY <1>1, <1>2, <1>7, <1>13, <1>14

\* What the pools do not get of an input is set aside or in the cold fee.
LEMMA HeldStep ==
  ASSUME Taking, NEW r, NEW l, NEW frozen, NEW cold, NEW part \in Fractions,
         IsPool(r), IsPool(l), IsPool(FractionsOf(frozen)), cold \in Fractions,
         \A k \in Indexes : SumAll(r)[k] + SumAll(l)[k]
                              = SumAll(poolReserves)[k] + SumAll(poolLiquidity)[k] + Input.fractions[k] - part[k],
         \A k \in Indexes : SumAll(FractionsOf(frozen))[k] + cold[k]
                              = SumAll(FractionsOf(poolFrozen))[k] + frColdFees[k] + part[k]
  PROVE  Held(r, l, frozen, cold) = Plus(Held(poolReserves, poolLiquidity, poolFrozen, frColdFees), Input.fractions)
<1>1. ASSUME NEW k \in Indexes
      PROVE  SumAll(r)[k] + SumAll(l)[k] + SumAll(FractionsOf(frozen))[k] + cold[k]
               = SumAll(poolReserves)[k] + SumAll(poolLiquidity)[k] + SumAll(FractionsOf(poolFrozen))[k] + frColdFees[k]
                   + Input.fractions[k]
  <2>1. SumAll(r) \in Fractions /\ SumAll(l) \in Fractions /\ SumAll(FractionsOf(frozen)) \in Fractions
    BY PoolSum
  <2>2. /\ SumAll(poolReserves) \in Fractions /\ SumAll(poolLiquidity) \in Fractions
        /\ SumAll(FractionsOf(poolFrozen)) \in Fractions /\ frColdFees \in Fractions
    BY PoolSum, FrozenLemma DEF Taking, PoolInv
  <2>3. Input.fractions \in Fractions
    BY InputLemma
  <2>4. SumAll(r)[k] \in Int /\ SumAll(l)[k] \in Int /\ SumAll(FractionsOf(frozen))[k] \in Int /\ cold[k] \in Int
    BY <2>1, AmountType
  <2>5. /\ SumAll(poolReserves)[k] \in Int /\ SumAll(poolLiquidity)[k] \in Int
        /\ SumAll(FractionsOf(poolFrozen))[k] \in Int /\ frColdFees[k] \in Int
    BY <2>2, AmountType
  <2>6. Input.fractions[k] \in Int /\ part[k] \in Int
    BY <2>3, AmountType
  <2> QED BY <2>4, <2>5, <2>6
<1> QED BY <1>1 DEF Held, Plus

\* The pools with an input hold as much more as it brings.
LEMMA WithInputHeld ==
  ASSUME Taking, NEW frozen, IsPool(FractionsOf(frozen)),
         SumAll(FractionsOf(frozen)) = SumAll(FractionsOf(poolFrozen))
  PROVE  Held(ReserveWithInput, LiquidityWithInput, frozen, frColdFees)
           = Plus(Held(poolReserves, poolLiquidity, poolFrozen, frColdFees), Input.fractions)
<1>1. IsPool(ReserveWithInput) /\ IsPool(LiquidityWithInput) /\ frColdFees \in Fractions
  BY WithInputLemma DEF Taking, PoolInv
<1>2. ASSUME NEW k \in Indexes
      PROVE  /\ SumAll(ReserveWithInput)[k] + SumAll(LiquidityWithInput)[k]
                  = SumAll(poolReserves)[k] + SumAll(poolLiquidity)[k] + Input.fractions[k] - Zero[k]
             /\ SumAll(FractionsOf(frozen))[k] + frColdFees[k]
                  = SumAll(FractionsOf(poolFrozen))[k] + frColdFees[k] + Zero[k]
  <2>1. SumAll(ReserveWithInput)[k] + SumAll(LiquidityWithInput)[k]
          = SumAll(poolReserves)[k] + SumAll(poolLiquidity)[k] + Input.fractions[k]
    BY WithInputLemma
  <2>2. /\ SumAll(poolReserves)[k] \in Int /\ SumAll(poolLiquidity)[k] \in Int
        /\ SumAll(FractionsOf(frozen))[k] \in Int /\ frColdFees[k] \in Int
        /\ Input.fractions[k] \in Int /\ Zero[k] = 0
    <3>1. SumAll(poolReserves) \in Fractions /\ SumAll(poolLiquidity) \in Fractions /\ Input.fractions \in Fractions
      BY PoolSum, InputLemma DEF Taking, PoolInv
    <3>2. SumAll(FractionsOf(frozen)) \in Fractions
      BY PoolSum
    <3> QED BY <1>1, <3>1, <3>2, AmountType, ZeroLemma
  <2> QED BY <2>1, <2>2
<1> QED BY <1>1, <1>2, HeldStep, ZeroLemma

\* What an input action must establish
Taken1 == PoolInv' /\ FrozenInv' /\ InputStep

\* An input without notary goes into the pools whole.
LEMMA TakeInputStep ==
  ASSUME Taking, TakeInput
  PROVE  Taken1
<1>1. /\ poolReserves' = ReserveWithInput /\ poolLiquidity' = LiquidityWithInput
      /\ tx' = tx /\ supply' = supply /\ phase' = phase /\ outs' = outs /\ n' = n + 1
      /\ frCommonLiquidity' = frCommonLiquidity /\ poolFrozen' = poolFrozen /\ frColdFees' = frColdFees
  BY DEF TakeInput, InputTaken
<1>2. PoolInv'
  BY <1>1, WithInputLemma DEF PoolInv, Taking
<1>3. FrozenInv'
  <2>1. GoodFrozen(poolFrozen, DOMAIN ReserveWithInput)
    BY WithInputLemma, GoodFrozenMore DEF Taking, FrozenInv
  <2> QED BY <1>1, <2>1 DEF FrozenInv, GoodFrozen
<1>4. Held(ReserveWithInput, LiquidityWithInput, poolFrozen, frColdFees)
        = Plus(Held(poolReserves, poolLiquidity, poolFrozen, frColdFees), Input.fractions)
  BY FrozenLemma, WithInputHeld DEF Taking
<1> QED BY <1>1, <1>2, <1>3, <1>4 DEF Taken1, InputStep

\* A notary with two outputs marks them and leaves the input in the pools.
LEMMA FreezeSharedStep ==
  ASSUME Taking, FreezeShared
  PROVE  Taken1
<1>1. /\ poolReserves' = ReserveWithInput /\ poolLiquidity' = LiquidityWithInput
      /\ tx' = tx /\ supply' = supply /\ phase' = phase /\ outs' = outs /\ n' = n + 1
      /\ frCommonLiquidity' = frCommonLiquidity /\ poolFrozen' = MarkedFrozen /\ frColdFees' = frColdFees
  BY DEF FreezeShared, InputTaken
<1>2. PoolInv'
  BY <1>1, WithInputLemma DEF PoolInv, Taking
<1>3. /\ GoodFrozen(MarkedFrozen, DOMAIN ReserveWithInput)
      /\ SumAll(FractionsOf(MarkedFrozen)) = SumAll(FractionsOf(poolFrozen))
  BY MarkedLemma DEF FreezeShared, Accepted
<1>4. FrozenInv'
  BY <1>1, <1>3 DEF FrozenInv, GoodFrozen
<1>5. IsPool(FractionsOf(MarkedFrozen))
  <2>1. /\ IsFiniteSet(DOMAIN MarkedFrozen) /\ DOMAIN MarkedFrozen \subseteq Nat
        /\ \A o \in DOMAIN MarkedFrozen : MarkedFrozen[o] \in FrozenOuts
    BY <1>3, OutsLemma DEF GoodFrozen, Taking
  <2> QED BY <2>1, FrozenPool
<1>6. Held(ReserveWithInput, LiquidityWithInput, MarkedFrozen, frColdFees)
        = Plus(Held(poolReserves, poolLiquidity, poolFrozen, frColdFees), Input.fractions)
  BY <1>3, <1>5, WithInputHeld
<1> QED BY <1>1, <1>2, <1>4, <1>6 DEF Taken1, InputStep

\* Fractions set aside for an output.
LEMMA FrozenAdd ==
  ASSUME NEW map, IsFiniteSet(DOMAIN map), DOMAIN map \subseteq Nat, \A o \in DOMAIN map : map[o] \in FrozenOuts,
         NEW more, NEW x \in Nat, NEW part \in Fractions,
         DOMAIN more = DOMAIN map \union {x}, \A o \in DOMAIN map : o # x => more[o] = map[o],
         more[x].fractions = Plus(At(map, x, Unfrozen).fractions, part)
  PROVE  /\ IsPool(FractionsOf(more))
         /\ SumAll(FractionsOf(more)) = Plus(SumAll(FractionsOf(map)), part)
<1>1. PICK f : f = FractionsOf(map)
  OBVIOUS
<1>2. PICK g : g = FractionsOf(more)
  OBVIOUS
<1>3. IsPool(f) /\ DOMAIN f = DOMAIN map /\ \A o \in DOMAIN map : f[o] = map[o].fractions
  BY <1>1, FrozenPool
<1>4. DOMAIN g = DOMAIN map \union {x} /\ g = [o \in DOMAIN g |-> g[o]] /\ \A o \in DOMAIN g : g[o] = more[o].fractions
  BY <1>2 DEF FractionsOf
<1>5. At(map, x, Unfrozen).fractions = At(f, x, Zero)
  BY <1>3, UnfrozenLemma DEF At
<1>6. \A o \in DOMAIN g : g[o] = IF o = x THEN Plus(At(f, x, Zero), part) ELSE f[o]
  BY <1>3, <1>4, <1>5
<1>7. g = PutPlus(f, x, part)
  BY <1>3, <1>4, <1>6 DEF PutPlus, Put
<1>8. PICK h : h = PutPlus(f, x, part)
  OBVIOUS
<1>9. IsPool(h) /\ SumAll(h) = Plus(SumAll(f), part)
  BY <1>3, <1>8, PutPlusLemma
<1> QED BY <1>1, <1>2, <1>7, <1>8, <1>9

\* RatioPart takes exactly the amount, of what there is.
LEMMA RatioPartLemma ==
  ASSUME NEW f \in Fractions, NEW part \in Nat
  PROVE  RatioPart(f, part) \in Fractions /\ \A k \in Indexes : RatioPart(f, part)[k] <= f[k]
  BY RatioPartIsExact

\* A part of the reserve, of the liquidity or of the input itself can be
\* deducted from the pools.
LEMMA PartFits ==
  ASSUME Taking, NEW value \in Nat, NEW a, a = Input.address, NEW part,
         \/ part = MovedPart(ReserveWithInput[a], value)
         \/ part = MovedPart(LiquidityWithInput[a], value)
         \/ part \in Fractions /\ \A k \in Indexes : part[k] <= Input.fractions[k]
  PROVE  /\ part \in Fractions
         /\ \A k \in Indexes : LowPart(part, supply)[k] <= ReserveWithInput[a][k]
         /\ \A k \in Indexes : HighPart(part, supply)[k] <= LiquidityWithInput[a][k]
<1>1. PICK R : R = ReserveWithInput[a]
  OBVIOUS
<1>2. PICK L : L = LiquidityWithInput[a]
  OBVIOUS
<1>3. PICK f \in Fractions : f = Input.fractions
  BY InputLemma
<1>4. /\ R \in Fractions /\ L \in Fractions /\ Lower(R, supply) /\ Upper(L, supply)
      /\ \A k \in Indexes : LowPart(f, supply)[k] <= R[k] /\ HighPart(f, supply)[k] <= L[k]
  <2>1. /\ IsPool(ReserveWithInput) /\ IsPool(LiquidityWithInput)
        /\ a \in DOMAIN ReserveWithInput /\ a \in DOMAIN LiquidityWithInput
    BY WithInputLemma
  <2>2. R \in Fractions /\ L \in Fractions
    BY <1>1, <1>2, <2>1 DEF IsPool
  <2>3. Lower(R, supply) /\ Upper(L, supply)
    BY <1>1, <1>2, <2>1, WithInputLemma
  <2> QED BY <1>1, <1>2, <1>3, <2>2, <2>3, WithInputLemma
<1>5. part \in Fractions /\ (\/ \A k \in Indexes : part[k] <= R[k]
                             \/ \A k \in Indexes : part[k] <= L[k]
                             \/ \A k \in Indexes : part[k] <= f[k])
  <2>1. CASE part = MovedPart(ReserveWithInput[a], value)
    BY <1>1, <1>4, <2>1, MovedPartLemma
  <2>2. CASE part = MovedPart(LiquidityWithInput[a], value)
    BY <1>2, <1>4, <2>2, MovedPartLemma
  <2>3. CASE part \in Fractions /\ \A k \in Indexes : part[k] <= Input.fractions[k]
    BY <1>3, <2>3
  <2> QED BY <2>1, <2>2, <2>3
<1>6. ASSUME NEW k \in Indexes
      PROVE  LowPart(part, supply)[k] <= R[k] /\ HighPart(part, supply)[k] <= L[k]
  <2>1. part[k] \in Nat /\ R[k] \in Nat /\ L[k] \in Nat /\ f[k] \in Nat /\ k \in Int /\ supply \in Int
    BY <1>4, <1>5, AmountType, IndexesFinite DEF Taking, TxInv
  <2>2. /\ LowPart(part, supply)[k] = IF k < supply THEN part[k] ELSE 0
        /\ HighPart(part, supply)[k] = IF k >= supply THEN part[k] ELSE 0
        /\ LowPart(f, supply)[k] = IF k < supply THEN f[k] ELSE 0
        /\ HighPart(f, supply)[k] = IF k >= supply THEN f[k] ELSE 0
    BY DEF LowPart, HighPart
  <2>3. LowPart(f, supply)[k] <= R[k] /\ HighPart(f, supply)[k] <= L[k]
    BY <1>4
  <2>4. (k >= supply => R[k] = 0) /\ (k < supply => L[k] = 0)
    BY <1>4 DEF Lower, Upper
  <2>5. part[k] <= R[k] \/ part[k] <= L[k] \/ part[k] <= f[k]
    BY <1>5
  <2>6. CASE k < supply
    <3>1. LowPart(part, supply)[k] = part[k] /\ HighPart(part, supply)[k] = 0 /\ L[k] = 0 /\ f[k] <= R[k]
      BY <2>1, <2>2, <2>3, <2>4, <2>6
    <3> QED BY <2>1, <2>5, <3>1
  <2>7. CASE k >= supply
    <3>1. LowPart(part, supply)[k] = 0 /\ HighPart(part, supply)[k] = part[k] /\ R[k] = 0 /\ f[k] <= L[k]
      BY <2>1, <2>2, <2>3, <2>4, <2>7
    <3> QED BY <2>1, <2>5, <3>1
  <2> QED BY <2>1, <2>6, <2>7
<1> QED BY <1>1, <1>2, <1>5, <1>6

\* What FreezeOne does: `part' goes from the input's address to output o.
FrozenOne(o, part) ==
  /\ o = Place.refs[1] /\ o \in Named /\ part \in Fractions
  /\ part = CASE Place.notary = "F" -> MovedPart(ReserveWithInput[Input.address], tx.vout[o].value)
              [] Place.notary = "C" -> RatioPart(Input.fractions, tx.vout[o].value)
              [] OTHER -> MovedPart(LiquidityWithInput[Input.address], tx.vout[o].value)
  /\ DOMAIN poolFrozen' = DOMAIN MarkedFrozen
  /\ \A p \in DOMAIN MarkedFrozen : p # o => poolFrozen'[p] = MarkedFrozen[p]
  /\ MarkedFrozen[o] \in FrozenOuts
  /\ poolFrozen'[o] = [MarkedFrozen[o] EXCEPT !.fractions = Plus(@, part)]
  /\ Deducted(part, poolReserves', poolLiquidity', Input.address)

\* FreezeOne takes it from what the address has with the input.
LEMMA FreezeOneFacts ==
  ASSUME Taking, FreezeOne
  PROVE  \E o, part : FrozenOne(o, part)
<1>1. PICK a : a = Input.address
  OBVIOUS
<1>2. PICK o : o = Place.refs[1]
  OBVIOUS
<1>3. PICK value : value = tx.vout[o].value
  OBVIOUS
<1>4. PICK part : part = CASE Place.notary = "F" -> MovedPart(ReserveWithInput[a], value)
                           [] Place.notary = "C" -> RatioPart(Input.fractions, value)
                           [] OTHER -> MovedPart(LiquidityWithInput[a], value)
  OBVIOUS
<1>5. /\ poolFrozen' = [MarkedFrozen EXCEPT ![o].fractions = Plus(@, part)]
      /\ poolReserves' = [ReserveWithInput EXCEPT ![a] = Minus(@, LowPart(part, supply))]
      /\ poolLiquidity' = [LiquidityWithInput EXCEPT ![a] = Minus(@, HighPart(part, supply))]
  BY <1>1, <1>2, <1>3, <1>4 DEF FreezeOne
<1>7. IsFreezing /\ ~ BadNotary
  BY DEF FreezeOne, Accepted
<1>8. o \in Named /\ o \in DOMAIN tx.vout /\ o \in Nat /\ value \in Nat
  <2>1. o \in Named
    BY <1>2, <1>7, NamedLemma
  <2>2. o \in DOMAIN tx.vout
    BY <1>7, <2>1, NamedLemma
  <2> QED BY <1>3, <2>1, <2>2, OutsLemma DEF Taking
<1>9. /\ part \in Fractions
      /\ \A k \in Indexes : LowPart(part, supply)[k] <= ReserveWithInput[a][k]
      /\ \A k \in Indexes : HighPart(part, supply)[k] <= LiquidityWithInput[a][k]
  <2>1. \/ part = MovedPart(ReserveWithInput[a], value)
        \/ part = MovedPart(LiquidityWithInput[a], value)
        \/ part = RatioPart(Input.fractions, value)
    BY <1>4
  <2>2. \/ part = MovedPart(ReserveWithInput[a], value)
        \/ part = MovedPart(LiquidityWithInput[a], value)
        \/ part \in Fractions /\ \A k \in Indexes : part[k] <= Input.fractions[k]
    BY <1>8, <2>1, InputLemma, RatioPartLemma
  <2> QED BY <1>1, <1>8, <2>2, PartFits
<1>10. Deducted(part, poolReserves', poolLiquidity', a)
  <2>1. a \in DOMAIN ReserveWithInput /\ a \in DOMAIN LiquidityWithInput
    BY <1>1, WithInputLemma
  <2> QED BY <1>1, <1>5, <1>9, <2>1 DEF Deducted
<1>13. PICK m : m = MarkedFrozen
  OBVIOUS
<1>14. GoodFrozen(m, DOMAIN ReserveWithInput) /\ o \in DOMAIN m
  BY <1>7, <1>8, <1>13, MarkedLemma
<1>15. /\ DOMAIN poolFrozen' = DOMAIN m
       /\ \A p \in DOMAIN m : p # o => poolFrozen'[p] = m[p]
       /\ poolFrozen'[o] = [m[o] EXCEPT !.fractions = Plus(@, part)]
  BY <1>5, <1>13, <1>14
<1>16. m[o] \in FrozenOuts
  BY <1>14 DEF GoodFrozen
<1>17. FrozenOne(o, part)
  BY <1>1, <1>2, <1>3, <1>4, <1>8, <1>9, <1>10, <1>13, <1>15, <1>16 DEF FrozenOne
<1> QED BY <1>17

\* A notary with one output sets its value aside, from the pools.
LEMMA FreezeOneStep ==
  ASSUME Taking, FreezeOne
  PROVE  Taken1
<1>1. PICK o, part : FrozenOne(o, part)
  BY FreezeOneFacts
<1>6. /\ tx' = tx /\ supply' = supply /\ phase' = phase /\ outs' = outs /\ n' = n + 1
      /\ frCommonLiquidity' = frCommonLiquidity /\ frColdFees' = frColdFees
  BY DEF FreezeOne, InputTaken
<1>7. IsFreezing /\ ~ BadNotary
  BY DEF FreezeOne, Accepted
<1>8. o \in Named /\ o \in Nat /\ part \in Fractions
  <2>1. o \in Named /\ part \in Fractions
    BY <1>1 DEF FrozenOne
  <2>2. o \in DOMAIN tx.vout
    BY <1>7, <2>1, NamedLemma
  <2> QED BY <2>1, <2>2, OutsLemma DEF Taking
<1>10. Deducted(part, poolReserves', poolLiquidity', Input.address)
  BY <1>1 DEF FrozenOne
<1>11. /\ IsPool(poolReserves') /\ \A b \in DOMAIN poolReserves' : Lower(poolReserves'[b], supply)
       /\ IsPool(poolLiquidity') /\ \A b \in DOMAIN poolLiquidity' : Upper(poolLiquidity'[b], supply)
       /\ \A k \in Indexes :
            SumAll(poolReserves')[k] + SumAll(poolLiquidity')[k]
              = SumAll(poolReserves)[k] + SumAll(poolLiquidity)[k] + Input.fractions[k] - part[k]
  BY <1>10, DeductLemma
<1>12. PoolInv'
  BY <1>6, <1>11 DEF PoolInv, Taking
<1>13. PICK m : m = MarkedFrozen
  OBVIOUS
<1>14. /\ GoodFrozen(m, DOMAIN ReserveWithInput) /\ o \in DOMAIN m
       /\ SumAll(FractionsOf(m)) = SumAll(FractionsOf(poolFrozen))
  BY <1>7, <1>8, <1>13, MarkedLemma
<1>15. /\ DOMAIN poolFrozen' = DOMAIN m
       /\ \A p \in DOMAIN m : p # o => poolFrozen'[p] = m[p]
       /\ poolFrozen'[o] = [m[o] EXCEPT !.fractions = Plus(@, part)]
  BY <1>1, <1>13 DEF FrozenOne
<1>16. m[o] \in FrozenOuts
  BY <1>14 DEF GoodFrozen
<1>17. /\ poolFrozen'[o] \in FrozenOuts /\ poolFrozen'[o].fractions = Plus(m[o].fractions, part)
       /\ poolFrozen'[o].nValue = m[o].nValue /\ poolFrozen'[o].fair = m[o].fair
       /\ poolFrozen'[o].sAddress = m[o].sAddress
  <2>1. PICK p \in FrozenOuts : p = m[o]
    BY <1>16
  <2>2. PICK f \in Fractions : f = Plus(p.fractions, part)
    BY <1>8, PlusLemma DEF FrozenOuts
  <2>3. poolFrozen'[o] = [p EXCEPT !.fractions = f]
    BY <1>15, <2>1, <2>2
  <2> QED BY <2>1, <2>2, <2>3 DEF FrozenOuts
<1>18. GoodFrozen(poolFrozen', DOMAIN ReserveWithInput)
  <2>1. IsFiniteSet(DOMAIN m) /\ DOMAIN m \subseteq DOMAIN tx.vout
    BY <1>14 DEF GoodFrozen
  <2>2. ASSUME NEW p \in DOMAIN m
        PROVE  /\ poolFrozen'[p] \in FrozenOuts
               /\ poolFrozen'[p].nValue = tx.vout[p].value
               /\ poolFrozen'[p].fair # <<>> =>
                    /\ poolFrozen'[p].fair[1] = p
                    /\ poolFrozen'[p].fair[2] \in DOMAIN m
                    /\ poolFrozen'[p].sAddress \in DOMAIN ReserveWithInput
    <3>1. /\ m[p] \in FrozenOuts
          /\ m[p].nValue = tx.vout[p].value
          /\ m[p].fair # <<>> =>
               m[p].fair[1] = p /\ m[p].fair[2] \in DOMAIN m /\ m[p].sAddress \in DOMAIN ReserveWithInput
      BY <1>14 DEF GoodFrozen
    <3>2. CASE p = o
      BY <1>17, <3>1, <3>2
    <3>3. CASE p # o
      BY <1>15, <3>1, <3>3
    <3> QED BY <3>2, <3>3
  <2> QED BY <1>15, <2>1, <2>2 DEF GoodFrozen
<1>19. FrozenInv'
  <2>1. DOMAIN poolReserves' = DOMAIN ReserveWithInput
    BY <1>1 DEF FrozenOne, Deducted
  <2> QED BY <1>6, <1>18, <2>1 DEF FrozenInv, GoodFrozen
<1>20. /\ IsPool(FractionsOf(poolFrozen'))
       /\ SumAll(FractionsOf(poolFrozen')) = Plus(SumAll(FractionsOf(m)), part)
  <2>1. IsFiniteSet(DOMAIN m) /\ DOMAIN m \subseteq Nat /\ \A p \in DOMAIN m : m[p] \in FrozenOuts
    BY <1>14, OutsLemma DEF GoodFrozen, Taking
  <2>2. At(m, o, Unfrozen) = m[o]
    BY <1>14 DEF At
  <2>3. DOMAIN poolFrozen' = DOMAIN m \union {o}
    BY <1>14, <1>15
  <2>4. PICK q : q = poolFrozen'
    OBVIOUS
  <2>5. /\ DOMAIN q = DOMAIN m \union {o} /\ \A p \in DOMAIN m : p # o => q[p] = m[p]
        /\ q[o].fractions = Plus(At(m, o, Unfrozen).fractions, part)
    BY <1>15, <1>17, <2>2, <2>3, <2>4
  <2>6. IsPool(FractionsOf(q)) /\ SumAll(FractionsOf(q)) = Plus(SumAll(FractionsOf(m)), part)
    BY <1>8, <2>1, <2>5, FrozenAdd
  <2> QED BY <2>4, <2>6
<1>21. ASSUME NEW k \in Indexes
       PROVE  SumAll(FractionsOf(poolFrozen'))[k] + frColdFees[k]
                = SumAll(FractionsOf(poolFrozen))[k] + frColdFees[k] + part[k]
  <2>1. SumAll(FractionsOf(poolFrozen'))[k] = SumAll(FractionsOf(poolFrozen))[k] + part[k]
    BY <1>14, <1>20 DEF Plus
  <2>2. SumAll(FractionsOf(poolFrozen)) \in Fractions /\ frColdFees \in Fractions
    BY FrozenLemma, PoolSum DEF Taking, PoolInv
  <2>3. SumAll(FractionsOf(poolFrozen))[k] \in Int /\ frColdFees[k] \in Int /\ part[k] \in Int
    BY <1>8, <2>2, AmountType
  <2> QED BY <2>1, <2>3
<1>22. frColdFees \in Fractions
  BY DEF Taking, PoolInv
<1>23. Held(poolReserves', poolLiquidity', poolFrozen', frColdFees)
         = Plus(Held(poolReserves, poolLiquidity, poolFrozen, frColdFees), Input.fractions)
  BY <1>8, <1>11, <1>20, <1>21, <1>22, HeldStep
<1> QED BY <1>6, <1>12, <1>19, <1>23 DEF Taken1, InputStep

\* What TakeColdInput does: `part' goes to the output at the input's place, the
\* rest to the fee.
ColdTakenAs(part) ==
  LET old == At(poolFrozen, n, Unfrozen)
  IN  /\ n \in DOMAIN tx.vout /\ Place.value \in Nat
      /\ part = RatioPart(Input.fractions, Place.value) /\ part \in Fractions
      /\ \A k \in Indexes : part[k] <= Input.fractions[k]
      /\ old \in FrozenOuts
      /\ DOMAIN poolFrozen' = DOMAIN poolFrozen \union {n}
      /\ \A o \in DOMAIN poolFrozen : o # n => poolFrozen'[o] = poolFrozen[o]
      /\ poolFrozen'[n] \in FrozenOuts
      /\ poolFrozen'[n].nValue = Place.value /\ poolFrozen'[n].sAddress = old.sAddress
      /\ poolFrozen'[n].fair = old.fair
      /\ poolFrozen'[n].fractions = Plus(old.fractions, part) /\ poolFrozen'[n].fIsColdOutput
      /\ poolFrozen'[n].mark = IF Place.address = Input.home THEN old.mark ELSE "F"
      /\ frColdFees' = Plus(frColdFees, Minus(Input.fractions, part))
      /\ Deducted(Input.fractions, poolReserves', poolLiquidity', Input.address)

\* The cold input leaves nothing to the pools.
LEMMA ColdFacts ==
  ASSUME Taking, TakeColdInput
  PROVE  \E part : ColdTakenAs(part)
<1>1. PICK a : a = Input.address
  OBVIOUS
<1>2. PICK f \in Fractions : f = Input.fractions
  BY InputLemma
<1>3. PICK part : part = RatioPart(f, Place.value)
  OBVIOUS
<1>4. PICK old : old = At(poolFrozen, n, Unfrozen)
  OBVIOUS
<1>6. PICK rec : rec = [old EXCEPT !.nValue = Place.value, !.fractions = Plus(@, part), !.fIsColdOutput = TRUE,
                                   !.mark = IF Place.address = Input.home THEN @ ELSE "F"]
  OBVIOUS
<1>7. /\ poolFrozen' = Put(poolFrozen, n, rec)
      /\ frColdFees' = Plus(frColdFees, Minus(f, part))
      /\ poolReserves' = Put(ReserveWithInput, a, Minus(ReserveWithInput[a], LowPart(f, supply)))
      /\ poolLiquidity' = Put(LiquidityWithInput, a, Minus(LiquidityWithInput[a], HighPart(f, supply)))
  BY <1>1, <1>2, <1>3, <1>4, <1>6 DEF TakeColdInput, ColdDeducted
<1>9. n \in DOMAIN tx.vout /\ n \in Nat /\ Place.value \in Nat
  <2>1. HasPlace /\ n \in Nat \ {0} /\ TxInv
    BY DEF TakeColdInput, IsCold, Taking, PhaseInv
  <2> QED BY <2>1, PlaceLemma
<1>10. part \in Fractions /\ \A k \in Indexes : part[k] <= f[k]
  BY <1>3, <1>9, RatioPartLemma
<1>12. Deducted(f, poolReserves', poolLiquidity', a)
  <2>1. a \in DOMAIN ReserveWithInput /\ a \in DOMAIN LiquidityWithInput
    BY <1>1, WithInputLemma
  <2>2. /\ \A k \in Indexes : LowPart(f, supply)[k] <= ReserveWithInput[a][k]
        /\ \A k \in Indexes : HighPart(f, supply)[k] <= LiquidityWithInput[a][k]
    BY <1>1, <1>2, WithInputLemma
  <2> QED BY <1>1, <1>7, <2>1, <2>2 DEF Deducted, Put
<1>15. old \in FrozenOuts
  BY <1>4, UnfrozenLemma DEF At, Taking, FrozenInv, GoodFrozen
<1>16. /\ rec \in FrozenOuts /\ rec.nValue = tx.vout[n].value /\ rec.fair = old.fair /\ rec.sAddress = old.sAddress
       /\ rec.fractions = Plus(old.fractions, part) /\ rec.fIsColdOutput
       /\ rec.mark = IF Place.address = Input.home THEN old.mark ELSE "F"
  <2>1. PICK p \in FrozenOuts : p = old
    BY <1>15
  <2>2. PICK g \in Fractions : g = Plus(p.fractions, part)
    BY <1>10, PlusLemma DEF FrozenOuts
  <2>3. PICK v \in Nat : v = Place.value
    BY <1>9
  <2>4. PICK m \in Marks : m = IF Place.address = Input.home THEN p.mark ELSE "F"
    BY DEF FrozenOuts, Marks
  <2>5. rec = [p EXCEPT !.nValue = v, !.fractions = g, !.fIsColdOutput = TRUE, !.mark = m]
    BY <1>6, <2>1, <2>2, <2>3, <2>4 DEF FrozenOuts
  <2>6. /\ rec \in FrozenOuts /\ rec.nValue = v /\ rec.fair = p.fair /\ rec.sAddress = p.sAddress
        /\ rec.fractions = g /\ rec.fIsColdOutput /\ rec.mark = m
    BY <2>5 DEF FrozenOuts
  <2> QED BY <2>1, <2>2, <2>3, <2>4, <2>6 DEF Place
<1>17. /\ DOMAIN poolFrozen' = DOMAIN poolFrozen \union {n} /\ poolFrozen'[n] = rec
       /\ \A o \in DOMAIN poolFrozen : o # n => poolFrozen'[o] = poolFrozen[o]
  BY <1>7 DEF Put
<1>18. ColdTakenAs(part)
  BY <1>1, <1>2, <1>3, <1>4, <1>7, <1>9, <1>10, <1>12, <1>15, <1>16, <1>17 DEF ColdTakenAs, Place
<1> QED BY <1>18

\* A cold input goes to the output at its place and to the cold fee.
LEMMA TakeColdInputStep ==
  ASSUME Taking, TakeColdInput
  PROVE  Taken1
<1>1. PICK part : ColdTakenAs(part)
  BY ColdFacts
<1>2. PICK f \in Fractions : f = Input.fractions
  BY InputLemma
<1>4. PICK old : old = At(poolFrozen, n, Unfrozen)
  OBVIOUS
<1>6. PICK rec : rec = poolFrozen'[n]
  OBVIOUS
<1>8. /\ tx' = tx /\ supply' = supply /\ phase' = phase /\ outs' = outs /\ n' = n + 1
      /\ frCommonLiquidity' = frCommonLiquidity
  BY DEF TakeColdInput, InputTaken
<1>9. n \in DOMAIN tx.vout /\ n \in Nat /\ frColdFees' = Plus(frColdFees, Minus(f, part))
  BY <1>1, <1>2 DEF ColdTakenAs, Taking, PhaseInv
<1>10. part \in Fractions /\ \A k \in Indexes : part[k] <= f[k]
  BY <1>1, <1>2 DEF ColdTakenAs
<1>11. Minus(f, part) \in Fractions /\ frColdFees \in Fractions /\ frColdFees' \in Fractions
  BY <1>9, <1>10, MinusLemma, PlusLemma DEF Taking, PoolInv
<1>12. Deducted(f, poolReserves', poolLiquidity', Input.address)
  BY <1>1, <1>2 DEF ColdTakenAs
<1>13. /\ IsPool(poolReserves') /\ \A b \in DOMAIN poolReserves' : Lower(poolReserves'[b], supply)
       /\ IsPool(poolLiquidity') /\ \A b \in DOMAIN poolLiquidity' : Upper(poolLiquidity'[b], supply)
       /\ \A k \in Indexes :
            SumAll(poolReserves')[k] + SumAll(poolLiquidity')[k]
              = SumAll(poolReserves)[k] + SumAll(poolLiquidity)[k] + Input.fractions[k] - f[k]
  BY <1>12, DeductLemma
<1>14. PoolInv'
  BY <1>8, <1>11, <1>13 DEF PoolInv, Taking
<1>15. old \in FrozenOuts /\ (old.fair # <<>> => n \in DOMAIN poolFrozen /\ old = poolFrozen[n])
  BY <1>4, UnfrozenLemma DEF At, Taking, FrozenInv, GoodFrozen
<1>16. /\ rec \in FrozenOuts /\ rec.nValue = tx.vout[n].value /\ rec.fair = old.fair /\ rec.sAddress = old.sAddress
       /\ rec.fractions = Plus(old.fractions, part)
  BY <1>1, <1>4, <1>6 DEF ColdTakenAs, Place
<1>17. PICK q : q = poolFrozen'
  OBVIOUS
<1>18. /\ DOMAIN q = DOMAIN poolFrozen \union {n} /\ q[n] = rec
       /\ \A p \in DOMAIN poolFrozen : p # n => q[p] = poolFrozen[p]
  BY <1>1, <1>6, <1>17 DEF ColdTakenAs
<1>19. /\ IsFiniteSet(DOMAIN poolFrozen) /\ DOMAIN poolFrozen \subseteq DOMAIN tx.vout
       /\ \A p \in DOMAIN poolFrozen : poolFrozen[p] \in FrozenOuts
  BY DEF Taking, FrozenInv, GoodFrozen
<1>20. DOMAIN poolReserves \subseteq DOMAIN poolReserves' /\ DOMAIN poolReserves' = DOMAIN ReserveWithInput
  <2>1. DOMAIN poolReserves \subseteq DOMAIN ReserveWithInput
    BY WithInputLemma
  <2> QED BY <1>12, <2>1 DEF Deducted
<1>21. GoodFrozen(q, DOMAIN poolReserves')
  <2>1. IsFiniteSet(DOMAIN q) /\ DOMAIN q \subseteq DOMAIN tx.vout
    BY <1>9, <1>18, <1>19, FS_AddElement
  <2>2. ASSUME NEW p \in DOMAIN q
        PROVE  /\ q[p] \in FrozenOuts
               /\ q[p].nValue = tx.vout[p].value
               /\ q[p].fair # <<>> => q[p].fair[1] = p /\ q[p].fair[2] \in DOMAIN q /\ q[p].sAddress \in DOMAIN poolReserves'
    <3>1. \A x \in DOMAIN poolFrozen :
            /\ poolFrozen[x].nValue = tx.vout[x].value
            /\ poolFrozen[x].fair # <<>> =>
                 /\ poolFrozen[x].fair[1] = x
                 /\ poolFrozen[x].fair[2] \in DOMAIN q
                 /\ poolFrozen[x].sAddress \in DOMAIN poolReserves'
      BY <1>18, <1>20 DEF Taking, FrozenInv, GoodFrozen
    <3>2. CASE p = n
      BY <1>15, <1>16, <1>18, <3>1, <3>2
    <3>3. CASE p # n
      <4>1. p \in DOMAIN poolFrozen /\ q[p] = poolFrozen[p]
        BY <1>18, <3>3
      <4> QED BY <1>19, <3>1, <4>1
    <3> QED BY <3>2, <3>3
  <2> QED BY <2>1, <2>2 DEF GoodFrozen
<1>22. FrozenInv'
  BY <1>8, <1>17, <1>21 DEF FrozenInv, GoodFrozen
<1>23. IsPool(FractionsOf(q)) /\ SumAll(FractionsOf(q)) = Plus(SumAll(FractionsOf(poolFrozen)), part)
  <2>1. DOMAIN poolFrozen \subseteq Nat
    BY <1>19, OutsLemma DEF Taking
  <2>2. PICK x : x = n
    OBVIOUS
  <2>3. /\ DOMAIN q = DOMAIN poolFrozen \union {x} /\ x \in Nat /\ \A p \in DOMAIN poolFrozen : p # x => q[p] = poolFrozen[p]
        /\ q[x].fractions = Plus(At(poolFrozen, x, Unfrozen).fractions, part)
    BY <1>4, <1>9, <1>16, <1>18, <2>2
  <2> QED BY <1>10, <1>19, <2>1, <2>3, FrozenAdd
<1>24. ASSUME NEW k \in Indexes
       PROVE  SumAll(FractionsOf(q))[k] + frColdFees'[k]
                = SumAll(FractionsOf(poolFrozen))[k] + frColdFees[k] + f[k]
  <2>1. SumAll(FractionsOf(q))[k] = SumAll(FractionsOf(poolFrozen))[k] + part[k]
    BY <1>23 DEF Plus
  <2>2. frColdFees'[k] = frColdFees[k] + (f[k] - part[k])
    BY <1>9 DEF Plus, Minus
  <2>3. SumAll(FractionsOf(poolFrozen)) \in Fractions
    BY FrozenLemma, PoolSum DEF Taking
  <2>4. SumAll(FractionsOf(poolFrozen))[k] \in Int /\ frColdFees[k] \in Int /\ part[k] \in Int /\ f[k] \in Int
    BY <1>10, <1>11, <2>3, AmountType
  <2> QED BY <2>1, <2>2, <2>4
<1>25. Held(poolReserves', poolLiquidity', q, frColdFees')
         = Plus(Held(poolReserves, poolLiquidity, poolFrozen, frColdFees), Input.fractions)
  BY <1>11, <1>13, <1>23, <1>24, HeldStep
<1> QED BY <1>8, <1>14, <1>17, <1>22, <1>25 DEF Taken1, InputStep

-----------------------------------------------------------------------------
(* Outputs                                                                 *)

\* An output is due.
Making == TxInv /\ PoolInv /\ FrozenInv /\ PhaseInv /\ phase = "outputs" /\ n <= Len(tx.vout)

\* What is set aside for it
Due == IF n \in DOMAIN poolFrozen THEN poolFrozen[n].fractions ELSE Zero

\* The output is made of what is set aside for it, of reserve and of liquidity.
OutputStep(out) ==
  /\ n' = n + 1 /\ tx' = tx /\ supply' = supply /\ phase' = phase
  /\ poolLiquidity' = poolLiquidity /\ poolFrozen' = poolFrozen /\ frColdFees' = frColdFees
  /\ out \in MadeOuts /\ outs' = Append(outs, out)
  /\ \A k \in Indexes : frCommonLiquidity'[k] + SumAll(poolReserves')[k] + out.fractions[k]
                          = frCommonLiquidity[k] + SumAll(poolReserves)[k] + Due[k]

\* The output at hand, and the pools it is made of.
LEMMA MakingLemma ==
  ASSUME Making
  PROVE  /\ n \in DOMAIN tx.vout /\ n \in Nat \ {0} /\ Output \in TxOuts /\ Output.value \in Nat
         /\ outs \in Seq(MadeOuts) /\ Len(outs) = n - 1 /\ DOMAIN outs = 1..(n - 1)
         /\ Due \in Fractions
<1>1. n \in DOMAIN tx.vout /\ n \in Nat \ {0}
  BY OutsLemma DEF Making, PhaseInv
<1>2. Output \in TxOuts /\ Output.value \in Nat
  BY <1>1, OutsLemma DEF Making, Output
<1>3. outs \in Seq(MadeOuts) /\ Len(outs) = n - 1 /\ DOMAIN outs = 1..(n - 1)
  <2>1. outs \in Seq(MadeOuts) /\ Len(outs) = n - 1
    BY DEF Making, PhaseInv
  <2> QED BY <2>1
<1>4. Due \in Fractions
  BY FrozenLemma, ZeroLemma DEF Due, Making
<1> QED BY <1>1, <1>2, <1>3, <1>4

\* The output is among the made ones, and no longer set aside.
LEMMA MadeStep ==
  ASSUME Making, NEW out \in MadeOuts, outs' = Append(outs, out), poolFrozen' = poolFrozen
  PROVE  /\ Made' = Plus(Made, out.fractions) /\ Aside = Plus(Aside', Due)
         /\ outs' \in Seq(MadeOuts) /\ Len(outs') = n
         /\ Made \in Fractions /\ Made' \in Fractions /\ Aside \in Fractions /\ Aside' \in Fractions
<1>1. /\ n \in Nat \ {0} /\ outs \in Seq(MadeOuts) /\ Len(outs) = n - 1 /\ DOMAIN outs = 1..(n - 1)
      /\ Due \in Fractions
  BY MakingLemma
<1>2. PICK nx : nx = outs'
  OBVIOUS
<1>3. PICK was : was = outs
  OBVIOUS
<1>4. was \in Seq(MadeOuts) /\ Len(was) = n - 1 /\ nx = Append(was, out)
  BY <1>1, <1>2, <1>3
<1>5. /\ nx \in Seq(MadeOuts) /\ Len(nx) = n
      /\ nx[n] = out /\ \A o \in 1..(n - 1) : nx[o] = was[o]
  BY <1>1, <1>4
<1>6. DOMAIN nx = 1..n
  BY <1>5
<1>7. out.fractions \in Fractions
  BY DEF MadeOuts
<1>8. PICK x : x = n
  OBVIOUS
<1>9. PICK S : S = 1..(n - 1)
  OBVIOUS
<1>10. IsFiniteSet(S) /\ x \notin S /\ 1..n = S \union {x}
  <2>1. n - 1 \in Int /\ 1 \in Int
    BY <1>1
  <2>2. IsFiniteSet(1..(n - 1))
    BY <2>1, FS_Interval
  <2>3. n \notin 1..(n - 1) /\ 1..n = 1..(n - 1) \union {n}
    BY <1>1
  <2> QED BY <1>8, <1>9, <2>2, <2>3
<1>11. PICK g : g = FractionsOf(was)
  OBVIOUS
<1>12. PICK h : h = FractionsOf(nx)
  OBVIOUS
<1>13. DOMAIN g = S /\ IsPool(g) /\ \A o \in S : g[o] = was[o].fractions /\ g[o] \in Fractions
  BY <1>1, <1>3, <1>9, <1>11, MadeLemma
<1>14. DOMAIN h = S \union {x} /\ h[x] = out.fractions /\ \A o \in S : h[o] = g[o]
  <2>1. DOMAIN h = S \union {x} /\ \A o \in S \union {x} : h[o] = nx[o].fractions
    BY <1>6, <1>10, <1>12 DEF FractionsOf
  <2> QED BY <1>5, <1>8, <1>9, <1>13, <2>1
<1>15. SumOver(h, S \union {x}) = Plus(SumOver(g, S), h[x])
  BY <1>7, <1>10, <1>13, <1>14, SumOverAdd
<1>16. Made = SumOver(g, S) /\ Made' = SumOver(h, S \union {x})
  BY <1>2, <1>3, <1>11, <1>12, <1>13, <1>14 DEF Made, SumAll
<1>17. Made' = Plus(Made, out.fractions) /\ Made \in Fractions /\ Made' \in Fractions
  <2>1. SumOver(g, S) \in Fractions
    BY <1>10, <1>13, SumOverAt
  <2> QED BY <1>7, <1>14, <1>15, <1>16, <2>1, PlusLemma
<1>18. PICK fr : fr = FractionsOf(poolFrozen)
  OBVIOUS
<1>19. PICK T : T = DOMAIN poolFrozen \ S
  OBVIOUS
<1>20. /\ IsFiniteSet(T) /\ IsFiniteSet(T \ {x}) /\ \A o \in T : fr[o] \in Fractions
  <2>1. IsPool(fr) /\ DOMAIN fr = DOMAIN poolFrozen
    BY <1>18, FrozenLemma DEF Making
  <2>2. IsFiniteSet(T) /\ \A o \in T : fr[o] \in Fractions
    BY <1>19, <2>1, FS_Subset DEF IsPool
  <2> QED BY <2>2, FS_RemoveElement
<1>21. Aside = SumOver(fr, T) /\ Aside' = SumOver(fr, T \ {x})
  <2>1. DOMAIN outs = S /\ DOMAIN outs' = S \union {x}
    BY <1>1, <1>2, <1>6, <1>9, <1>10
  <2>2. DOMAIN poolFrozen' \ DOMAIN outs' = T \ {x}
    BY <1>19, <2>1
  <2> QED BY <1>18, <1>19, <2>1, <2>2 DEF Aside
<1>22. Aside \in Fractions /\ Aside' \in Fractions
  BY <1>20, <1>21, SumOverAt
<1>23. Aside = Plus(Aside', Due)
  <2>1. CASE n \in DOMAIN poolFrozen
    <3>1. x \in T /\ fr[x] = Due
      BY <1>8, <1>10, <1>18, <1>19, <2>1 DEF Due, FractionsOf
    <3>2. SumOver(fr, T) = Plus(SumOver(fr, T \ {x}), fr[x])
      BY <1>20, <3>1, SumOverRemove
    <3> QED BY <1>21, <3>1, <3>2
  <2>2. CASE n \notin DOMAIN poolFrozen
    <3>1. T \ {x} = T /\ Due = Zero
      BY <1>8, <1>19, <2>2 DEF Due
    <3>2. Aside' = Aside
      BY <1>21, <3>1
    <3>3. \A k \in Indexes : Plus(Aside, Zero)[k] = Aside[k]
      BY <1>22, AmountType, ZeroLemma DEF Plus
    <3>4. Plus(Aside, Zero) \in Fractions
      BY <1>22, PlusLemma, ZeroLemma
    <3>5. Plus(Aside, Zero) = Aside
      BY <1>22, <3>3, <3>4, SameFractions
    <3> QED BY <3>1, <3>2, <3>5
  <2> QED BY <2>1, <2>2
<1> QED BY <1>2, <1>5, <1>17, <1>22, <1>23

\* A step that makes an output of what is there keeps the books.
LEMMA OutputBooks ==
  ASSUME Making, BooksInv, NEW out, OutputStep(out), PoolInv', FrozenInv'
  PROVE  TxInv' /\ PhaseInv' /\ BooksInv'
<1>1. TxInv'
  BY DEF Making, OutputStep, TxInv
<1>2. /\ Made' = Plus(Made, out.fractions) /\ Aside = Plus(Aside', Due)
      /\ outs' \in Seq(MadeOuts) /\ Len(outs') = n
      /\ Made \in Fractions /\ Made' \in Fractions /\ Aside \in Fractions /\ Aside' \in Fractions
  BY MadeStep DEF OutputStep
<1>3. n \in Nat \ {0} /\ n <= Len(tx.vout) /\ Len(tx.vout) \in Nat
  BY OutsLemma DEF Making, PhaseInv
<1>4. PhaseInv'
  <2>1. n' = n + 1 /\ tx' = tx /\ phase' = "outputs"
    BY DEF OutputStep, Making
  <2>2. n' \in Nat \ {0} /\ n' <= Len(tx'.vout) + 1 /\ Len(outs') = n' - 1
    BY <1>2, <1>3, <2>1
  <2> QED BY <1>2, <2>1, <2>2 DEF PhaseInv
<1>5. TakenSum' = TakenSum
  BY DEF TakenSum, TakenIns, OutputStep, Making
<1>6. /\ Liquid = frCommonLiquidity /\ Liquid' = frCommonLiquidity'
      /\ Reserve = SumAll(poolReserves) /\ Reserve' = SumAll(poolReserves')
  BY DEF Liquid, Reserve, OutputStep, Making
<1>7. Liquid' \in Fractions /\ Reserve' \in Fractions
  <2>1. IsPool(poolReserves') /\ frCommonLiquidity' \in Fractions
    BY DEF PoolInv
  <2> QED BY <1>6, <2>1, PoolSum
<1>8. ASSUME NEW k \in Indexes
      PROVE  Liquid'[k] + Reserve'[k] + Aside'[k] + Made'[k] + frColdFees'[k] = TakenSum'[k]
  <2>1. Liquid[k] + Reserve[k] + Aside[k] + Made[k] + frColdFees[k] = TakenSum[k]
    BY DEF BooksInv
  <2>2. /\ Liquid[k] \in Int /\ Reserve[k] \in Int /\ Aside[k] \in Int /\ Made[k] \in Int
        /\ TakenSum[k] \in Int /\ frColdFees[k] \in Int
    BY PlacesLemma, AmountType DEF Making
  <2>3. Liquid'[k] \in Int /\ Reserve'[k] \in Int /\ Aside'[k] \in Int /\ Made'[k] \in Int
    BY <1>2, <1>7, AmountType
  <2>4. out.fractions[k] \in Int /\ Due[k] \in Int
    <3>1. out.fractions \in Fractions
      BY DEF OutputStep, MadeOuts
    <3> QED BY <3>1, MakingLemma, AmountType
  <2>5. Made'[k] = Made[k] + out.fractions[k] /\ Aside[k] = Aside'[k] + Due[k]
    BY <1>2 DEF Plus
  <2>6. Liquid'[k] + Reserve'[k] + out.fractions[k] = Liquid[k] + Reserve[k] + Due[k]
    BY <1>6 DEF OutputStep
  <2>7. frColdFees'[k] = frColdFees[k] /\ TakenSum'[k] = TakenSum[k]
    BY <1>5 DEF OutputStep
  <2> QED BY <2>1, <2>2, <2>3, <2>4, <2>5, <2>6, <2>7
<1> QED BY <1>1, <1>4, <1>8 DEF BooksInv

\* The parts of the invariant that an output can disturb
Made1 == \E out : OutputStep(out) /\ PoolInv' /\ FrozenInv'

\* An output that was set aside is made of that.
LEMMA FrozenOutputStep ==
  ASSUME Making, FrozenOutput
  PROVE  Made1
<1>1. PICK out : out = [mark |-> poolFrozen[n].mark, fractions |-> poolFrozen[n].fractions]
  OBVIOUS
<1>2. /\ tx' = tx /\ supply' = supply /\ phase' = phase /\ n' = n + 1
      /\ poolReserves' = poolReserves /\ poolLiquidity' = poolLiquidity /\ frCommonLiquidity' = frCommonLiquidity
      /\ poolFrozen' = poolFrozen /\ frColdFees' = frColdFees /\ outs' = Append(outs, out)
  BY <1>1 DEF FrozenOutput, pools
<1>3. n \in DOMAIN poolFrozen
  BY DEF FrozenOutput, IsSetAside
<1>4. poolFrozen[n] \in FrozenOuts
  BY <1>3 DEF Making, FrozenInv, GoodFrozen
<1>5. poolFrozen[n].mark \in Marks /\ poolFrozen[n].fractions \in Fractions
  BY <1>4 DEF FrozenOuts
<1>6. out \in MadeOuts /\ out.fractions = Due
  BY <1>1, <1>3, <1>5 DEF MadeOuts, Due
<1>7. OutputStep(out)
  BY <1>2, <1>6 DEF OutputStep
<1>8. PoolInv' /\ FrozenInv'
  BY <1>2 DEF Making, PoolInv, FrozenInv, GoodFrozen
<1> QED BY <1>7, <1>8 DEF Made1

\* An output that shares a freeze has nothing set aside.
LEMMA SharingLemma ==
  ASSUME Making, IsSharing
  PROVE  Due = Zero
<1>1. Due \in Fractions /\ Total(Due) = 0
  BY MakingLemma DEF IsSharing, Due
<1>2. \A k \in Indexes : Due[k] \in Nat
  BY <1>1, AmountType
<1>3. \A k \in Indexes : Due[k] <= Total(Due)
  BY <1>2, TotalNat
<1>4. \A k \in Indexes : Due[k] = 0
  BY <1>1, <1>2, <1>3
<1> QED BY <1>1, <1>4, ZeroLemma, SameFractions

\* An output marked L or C gets nothing of a shared freeze.
LEMMA SharedEmptyOutputStep ==
  ASSUME Making, SharedEmptyOutput
  PROVE  Made1
<1>1. PICK out : out = [mark |-> "", fractions |-> Zero]
  OBVIOUS
<1>2. /\ tx' = tx /\ supply' = supply /\ phase' = phase /\ n' = n + 1
      /\ poolReserves' = poolReserves /\ poolLiquidity' = poolLiquidity /\ frCommonLiquidity' = frCommonLiquidity
      /\ poolFrozen' = poolFrozen /\ frColdFees' = frColdFees /\ outs' = Append(outs, out)
  BY <1>1 DEF SharedEmptyOutput, pools
<1>3. Due = Zero
  BY SharingLemma DEF SharedEmptyOutput
<1>4. out \in MadeOuts /\ out.fractions = Due
  BY <1>1, <1>3, ZeroLemma DEF MadeOuts, Marks
<1>5. OutputStep(out)
  BY <1>2, <1>4 DEF OutputStep
<1>6. PoolInv' /\ FrozenInv'
  BY <1>2 DEF Making, PoolInv, FrozenInv, GoodFrozen
<1> QED BY <1>5, <1>6 DEF Made1

\* Liquidity that is moved leaves liquidity.
LEMMA LiquidMoved ==
  ASSUME Making, NEW amount \in Nat, NEW liquid, liquid = MovedPart(frCommonLiquidity, amount)
  PROVE  /\ liquid \in Fractions /\ Minus(frCommonLiquidity, liquid) \in Fractions
         /\ Upper(Minus(frCommonLiquidity, liquid), supply)
         /\ \A k \in Indexes : Minus(frCommonLiquidity, liquid)[k] = frCommonLiquidity[k] - liquid[k]
         /\ Upper(liquid, supply) /\ Total(liquid) = Least(amount, Total(frCommonLiquidity))
<1>1. frCommonLiquidity \in Fractions /\ Upper(frCommonLiquidity, supply)
  BY DEF Making, PoolInv
<1>2. /\ liquid \in Fractions /\ \A k \in Indexes : liquid[k] <= frCommonLiquidity[k]
      /\ Total(liquid) = Least(amount, Total(frCommonLiquidity))
  BY <1>1, MovedPartLemma
<1>3. /\ Minus(frCommonLiquidity, liquid) \in Fractions
      /\ \A k \in Indexes : Minus(frCommonLiquidity, liquid)[k] = frCommonLiquidity[k] - liquid[k]
  BY <1>1, <1>2, MinusLemma
<1>4. \A k \in Indexes : frCommonLiquidity[k] \in Nat /\ liquid[k] \in Nat
  BY <1>1, <1>2, AmountType
<1>5. \A k \in Indexes : k < supply => frCommonLiquidity[k] = 0 /\ liquid[k] = 0
  BY <1>1, <1>2, <1>4 DEF Upper
<1>6. \A k \in Indexes : k < supply => Minus(frCommonLiquidity, liquid)[k] = 0
  BY <1>3, <1>5
<1> QED BY <1>2, <1>3, <1>5, <1>6 DEF Upper

\* An output that shares a voluntary freeze is made of liquidity.
LEMMA SharedVoluntaryOutputStep ==
  ASSUME Making, SharedVoluntaryOutput
  PROVE  Made1
<1>1. PICK liquid : liquid = MovedPart(frCommonLiquidity, Output.value)
  OBVIOUS
<1>2. PICK out : out = [mark |-> "V", fractions |-> liquid]
  OBVIOUS
<1>3. /\ tx' = tx /\ supply' = supply /\ phase' = phase /\ n' = n + 1
      /\ poolReserves' = poolReserves /\ poolLiquidity' = poolLiquidity
      /\ frCommonLiquidity' = Minus(frCommonLiquidity, liquid)
      /\ poolFrozen' = poolFrozen /\ frColdFees' = frColdFees /\ outs' = Append(outs, out)
  BY <1>1, <1>2 DEF SharedVoluntaryOutput
<1>4. Due = Zero
  BY SharingLemma DEF SharedVoluntaryOutput
<1>5. /\ liquid \in Fractions /\ Minus(frCommonLiquidity, liquid) \in Fractions
      /\ Upper(Minus(frCommonLiquidity, liquid), supply)
      /\ \A k \in Indexes : Minus(frCommonLiquidity, liquid)[k] = frCommonLiquidity[k] - liquid[k]
  BY <1>1, MakingLemma, LiquidMoved
<1>6. out \in MadeOuts /\ out.fractions = liquid
  BY <1>2, <1>5 DEF MadeOuts, Marks
<1>7. ASSUME NEW k \in Indexes
      PROVE  frCommonLiquidity'[k] + SumAll(poolReserves')[k] + out.fractions[k]
               = frCommonLiquidity[k] + SumAll(poolReserves)[k] + Due[k]
  <2>1. SumAll(poolReserves) \in Fractions /\ frCommonLiquidity \in Fractions
    BY PoolSum DEF Making, PoolInv
  <2>2. frCommonLiquidity[k] \in Int /\ liquid[k] \in Int /\ SumAll(poolReserves)[k] \in Int /\ Zero[k] = 0
    BY <1>5, <2>1, AmountType, ZeroLemma
  <2>3. frCommonLiquidity'[k] = frCommonLiquidity[k] - liquid[k] /\ SumAll(poolReserves')[k] = SumAll(poolReserves)[k]
    BY <1>3, <1>5
  <2> QED BY <1>4, <1>6, <2>2, <2>3
<1>8. OutputStep(out)
  BY <1>3, <1>6, <1>7 DEF OutputStep
<1>9. PoolInv' /\ FrozenInv'
  BY <1>3, <1>5 DEF Making, PoolInv, FrozenInv, GoodFrozen
<1> QED BY <1>8, <1>9 DEF Made1

\* What an output filled from the reserves of some addresses and from the
\* liquidity does: the reserves give up to the quota, the liquidity the rest.
Filled(N, sources, quota, mark, given, moved, rest, liquid, out) ==
  /\ N \in Nat /\ sources \in [1..N -> DOMAIN poolReserves] /\ DOMAIN sources = 1..N
  /\ given \in [1..N -> Nat]
  /\ \A i \in 1..N : given[i] <= Total(poolReserves[sources[i]]) /\ Total(moved[i]) = given[i]
  /\ given = Greedy([i \in 1..N |-> Total(poolReserves[sources[i]])], quota)
  /\ SumOf(given, 1..N) \in Nat
  /\ SumOf(given, 1..N) = Least(quota, SumOf([i \in 1..N |-> Total(poolReserves[sources[i]])], 1..N))
  /\ Drawn(poolReserves, N, sources, moved, poolReserves')
  /\ rest \in Nat /\ rest = Output.value - SumOf(given, 1..N)
  /\ ~ ((rest > 0 \/ sources = <<>>) /\ rest > nLiquidity)
  /\ liquid = MovedPart(frCommonLiquidity, rest)
  /\ out = [mark |-> mark, fractions |-> Plus(SumAll(moved), liquid)]
  /\ outs' = Append(outs, out)
  /\ frCommonLiquidity' = Minus(frCommonLiquidity, liquid) /\ nLiquidity' = nLiquidity - rest
  /\ n' = n + 1 /\ tx' = tx /\ supply' = supply /\ phase' = phase /\ poolLiquidity' = poolLiquidity
  /\ poolFrozen' = poolFrozen /\ frColdFees' = frColdFees

\* Filling an output that does not fail does that.
LEMMA FillFacts ==
  ASSUME Making, NEW sources, IsListing(sources, DOMAIN poolReserves),
         NEW quota \in Nat, quota <= Output.value, NEW mark,
         FillOutput(sources, quota, mark), phase' # "failed"
  PROVE  \E N, given, moved, rest, liquid, out : Filled(N, sources, quota, mark, given, moved, rest, liquid, out)
<1>1. PICK N \in Nat : /\ sources \in [1..N -> DOMAIN poolReserves] /\ DOMAIN sources = 1..N
                       /\ \A i, j \in 1..N : sources[i] = sources[j] => i = j
  <2>1. PICK s \in Seq(DOMAIN poolReserves) : s = sources
    BY DEF IsListing
  <2>2. Len(s) \in Nat /\ s \in [1..Len(s) -> DOMAIN poolReserves] /\ DOMAIN s = 1..Len(s)
    OBVIOUS
  <2> QED BY <2>1, <2>2 DEF IsListing
<1>2. PICK stores : stores = [i \in 1..N |-> Total(poolReserves[sources[i]])]
  OBVIOUS
<1>3. PICK given : given = Greedy(stores, quota)
  OBVIOUS
<1>4. PICK moved : moved = [i \in 1..N |-> MovedPart(poolReserves[sources[i]], given[i])]
  OBVIOUS
<1>5. PICK rest : rest = Output.value - SumOf(given, 1..N)
  OBVIOUS
<1>6. PICK liquid : liquid = MovedPart(frCommonLiquidity, rest)
  OBVIOUS
<1>7. PICK out : out = [mark |-> mark, fractions |-> Plus(SumAll(moved), liquid)]
  OBVIOUS
<1>8. /\ ~ ((rest > 0 \/ sources = <<>>) /\ rest > nLiquidity)
      /\ outs' = Append(outs, out)
      /\ poolReserves' = [a \in DOMAIN poolReserves |->
                            Minus(poolReserves[a], SumOver(moved, {i \in 1..N : sources[i] = a}))]
      /\ frCommonLiquidity' = Minus(frCommonLiquidity, liquid) /\ nLiquidity' = nLiquidity - rest
      /\ n' = n + 1
      /\ tx' = tx /\ supply' = supply /\ phase' = phase /\ poolLiquidity' = poolLiquidity
      /\ poolFrozen' = poolFrozen /\ frColdFees' = frColdFees
  BY <1>1, <1>2, <1>3, <1>4, <1>5, <1>6, <1>7 DEF FillOutput, Refuse
<1>9. IsPool(poolReserves) /\ \A i \in 1..N : poolReserves[sources[i]] \in Fractions
  BY <1>1 DEF Making, PoolInv, IsPool
<1>10. stores \in [1..N -> Nat]
  <2>1. \A i \in 1..N : Total(poolReserves[sources[i]]) \in Nat
    <3> SUFFICES ASSUME NEW i \in 1..N PROVE Total(poolReserves[sources[i]]) \in Nat
      OBVIOUS
    <3>1. PICK f \in Fractions : f = poolReserves[sources[i]]
      BY <1>9
    <3>2. \A k \in Indexes : f[k] \in Nat
      BY AmountType
    <3>3. Total(f) \in Nat
      BY <3>2, TotalNat
    <3> QED BY <3>1, <3>3
  <2> QED BY <1>2, <2>1
<1>11. /\ given \in [1..N -> Nat] /\ SumOf(stores, 1..N) \in Nat
       /\ \A i \in 1..N : given[i] <= stores[i]
       /\ SumOf(given, 1..N) = Least(quota, SumOf(stores, 1..N))
  BY <1>3, <1>10, GreedyLemma
<1>12. SumOf(given, 1..N) \in Nat /\ SumOf(given, 1..N) <= quota /\ rest \in Nat
  <2>1. SumOf(given, 1..N) \in Nat /\ SumOf(given, 1..N) <= quota
    BY <1>11, LeastLemma
  <2>2. Output.value \in Nat
    BY MakingLemma
  <2> QED BY <1>5, <2>1, <2>2
<1>13. /\ moved \in [1..N -> Fractions]
       /\ \A i \in 1..N : \A k \in Indexes : moved[i][k] <= poolReserves[sources[i]][k]
       /\ \A i \in 1..N : given[i] <= Total(poolReserves[sources[i]]) /\ Total(moved[i]) = given[i]
  <2> SUFFICES ASSUME NEW i \in 1..N
               PROVE  /\ moved[i] \in Fractions /\ \A k \in Indexes : moved[i][k] <= poolReserves[sources[i]][k]
                      /\ given[i] <= Total(poolReserves[sources[i]]) /\ Total(moved[i]) = given[i]
    BY <1>4
  <2>1. PICK f \in Fractions : f = poolReserves[sources[i]]
    BY <1>9
  <2>2. given[i] \in Nat /\ moved[i] = MovedPart(f, given[i]) /\ given[i] <= Total(f) /\ Total(f) \in Nat
    BY <1>2, <1>4, <1>10, <1>11, <2>1
  <2>3. Least(given[i], Total(f)) = given[i]
    BY <2>2, LeastLemma
  <2> QED BY <2>1, <2>2, <2>3, MovedPartLemma
<1>14. Drawn(poolReserves, N, sources, moved, poolReserves')
  BY <1>1, <1>8, <1>9, <1>13 DEF Drawn
<1>15. Filled(N, sources, quota, mark, given, moved, rest, liquid, out)
  BY <1>1, <1>2, <1>3, <1>5, <1>6, <1>7, <1>8, <1>11, <1>12, <1>13, <1>14 DEF Filled
<1> QED BY <1>15

\* An output filled from the reserves of some addresses and from the liquidity.
LEMMA FillStep ==
  ASSUME Making, Due = Zero, NEW sources, IsListing(sources, DOMAIN poolReserves),
         NEW quota \in Nat, quota <= Output.value, NEW mark \in Marks,
         FillOutput(sources, quota, mark), phase' # "failed"
  PROVE  Made1
<1>1. PICK N, given, moved, rest, liquid, out : Filled(N, sources, quota, mark, given, moved, rest, liquid, out)
  BY FillFacts
<1>8. /\ outs' = Append(outs, out)
      /\ DOMAIN poolReserves' = DOMAIN poolReserves
      /\ frCommonLiquidity' = Minus(frCommonLiquidity, liquid)
      /\ n' = n + 1
      /\ tx' = tx /\ supply' = supply /\ phase' = phase /\ poolLiquidity' = poolLiquidity
      /\ poolFrozen' = poolFrozen /\ frColdFees' = frColdFees
  BY <1>1 DEF Filled, Drawn
<1>14. PICK r : r = poolReserves'
  OBVIOUS
<1>15. /\ IsPool(r)
       /\ \A a \in DOMAIN poolReserves : \A k \in Indexes : r[a][k] <= poolReserves[a][k]
       /\ SumAll(r) \in Fractions /\ SumAll(poolReserves) \in Fractions /\ SumAll(moved) \in Fractions
       /\ \A k \in Indexes : SumAll(r)[k] = SumAll(poolReserves)[k] - SumAll(moved)[k]
  <2>1. PICK map : map = poolReserves
    OBVIOUS
  <2>2. Drawn(map, N, sources, moved, r)
    BY <1>1, <1>14, <2>1 DEF Filled
  <2>3. /\ IsPool(r)
        /\ \A a \in DOMAIN map : \A k \in Indexes : r[a][k] <= map[a][k]
        /\ SumAll(r) \in Fractions /\ SumAll(map) \in Fractions /\ SumAll(moved) \in Fractions
        /\ \A k \in Indexes : SumAll(r)[k] = SumAll(map)[k] - SumAll(moved)[k]
    BY <2>2, DrawnLemma
  <2> QED BY <2>1, <2>3
<1>16. DOMAIN r = DOMAIN poolReserves /\ \A a \in DOMAIN r : Lower(r[a], supply)
  <2>1. DOMAIN r = DOMAIN poolReserves
    BY <1>8, <1>14
  <2>2. ASSUME NEW a \in DOMAIN r, NEW k \in Indexes, k >= supply PROVE r[a][k] = 0
    <3>1. r[a][k] \in Nat
      BY <1>15, AmountType DEF IsPool
    <3>2. poolReserves[a][k] = 0
      BY <2>1, <2>2 DEF Making, PoolInv, Lower
    <3>3. r[a][k] <= poolReserves[a][k]
      BY <1>15, <2>1
    <3> QED BY <3>1, <3>2, <3>3
  <2> QED BY <2>1, <2>2 DEF Lower
<1>17. /\ liquid \in Fractions /\ Minus(frCommonLiquidity, liquid) \in Fractions
       /\ Upper(Minus(frCommonLiquidity, liquid), supply)
       /\ \A k \in Indexes : Minus(frCommonLiquidity, liquid)[k] = frCommonLiquidity[k] - liquid[k]
  BY <1>1, LiquidMoved DEF Filled
<1>18. out \in MadeOuts /\ out.fractions = Plus(SumAll(moved), liquid)
  <2>1. Plus(SumAll(moved), liquid) \in Fractions
    BY <1>15, <1>17, PlusLemma
  <2> QED BY <1>1, <2>1 DEF Filled, MadeOuts
<1>19. ASSUME NEW k \in Indexes
       PROVE  frCommonLiquidity'[k] + SumAll(poolReserves')[k] + out.fractions[k]
                = frCommonLiquidity[k] + SumAll(poolReserves)[k] + Due[k]
  <2>1. frCommonLiquidity \in Fractions
    BY DEF Making, PoolInv
  <2>2. /\ frCommonLiquidity[k] \in Int /\ liquid[k] \in Int /\ SumAll(poolReserves)[k] \in Int
        /\ SumAll(moved)[k] \in Int /\ Due[k] = 0
    BY <1>15, <1>17, <2>1, AmountType, ZeroLemma
  <2>3. frCommonLiquidity'[k] = frCommonLiquidity[k] - liquid[k]
    BY <1>8, <1>17
  <2>4. SumAll(poolReserves')[k] = SumAll(poolReserves)[k] - SumAll(moved)[k]
    BY <1>14, <1>15
  <2>5. out.fractions[k] = SumAll(moved)[k] + liquid[k]
    BY <1>18 DEF Plus
  <2> QED BY <2>2, <2>3, <2>4, <2>5
<1>20. OutputStep(out)
  BY <1>8, <1>18, <1>19 DEF OutputStep
<1>21. PoolInv'
  BY <1>8, <1>14, <1>15, <1>16, <1>17 DEF Making, PoolInv
<1>22. FrozenInv'
  BY <1>8, <1>14, <1>16 DEF Making, FrozenInv, GoodFrozen
<1> QED BY <1>20, <1>21, <1>22 DEF Made1

\* A plain output draws on reserves that exist, each once.
LEMMA ReserveSourcesLemma ==
  ASSUME Making
  PROVE  IsListing(ReserveSources(Output), DOMAIN poolReserves)
<1>1. PICK D : D = DOMAIN poolReserves
  OBVIOUS
<1>2. D \in SUBSET Nat /\ IsFiniteSet(D)
  BY <1>1 DEF Making, PoolInv, IsPool
<1>3. PICK a : a = Output.address
  OBVIOUS
<1>4. CASE a \in D
  <2>1. ReserveSources(Output) = <<a>>
    BY <1>1, <1>3, <1>4 DEF ReserveSources
  <2>2. IsListing(<<a>>, D)
    BY <1>4 DEF IsListing
  <2> QED BY <1>1, <2>1, <2>2
<1>5. CASE a \notin D
  <2>1. ReserveSources(Output) = Ascending(D) \/ ReserveSources(Output) = <<>>
    BY <1>1, <1>3, <1>5 DEF ReserveSources
  <2>2. IsListing(<<>>, D)
    BY DEF IsListing
  <2>3. IsListing(Ascending(D), D)
    BY <1>2, AscendingLemma
  <2> QED BY <1>1, <2>1, <2>2, <2>3
<1> QED BY <1>4, <1>5

\* So does one that shares a freeze.
LEMMA FrozenSourcesLemma ==
  ASSUME Making
  PROVE  IsListing(FrozenSources, DOMAIN poolReserves)
<1>1. PICK D : D = DOMAIN poolReserves
  OBVIOUS
<1>2. D \in SUBSET Nat /\ IsFiniteSet(D)
  BY <1>1 DEF Making, PoolInv, IsPool
<1>3. PICK A : A = {poolFrozen[n].sAddress} \intersect D
  OBVIOUS
<1>4. PICK B : B = D \ A
  OBVIOUS
<1>5. A \in SUBSET Nat /\ B \in SUBSET Nat /\ IsFiniteSet(A) /\ IsFiniteSet(B)
  BY <1>2, <1>3, <1>4, FS_Subset
<1>6. PICK s : s = Ascending(A)
  OBVIOUS
<1>7. PICK t : t = Ascending(B)
  OBVIOUS
<1>8. FrozenSources = s \o t
  BY <1>1, <1>3, <1>4, <1>6, <1>7 DEF FrozenSources
<1>9. IsListing(s, A) /\ IsListing(t, B)
  BY <1>5, <1>6, <1>7, AscendingLemma
<1>10. s \in Seq(A) /\ t \in Seq(B)
  BY <1>9 DEF IsListing
<1>11. /\ Len(s) \in Nat /\ Len(t) \in Nat /\ DOMAIN s = 1..Len(s) /\ DOMAIN t = 1..Len(t)
       /\ \A i \in 1..Len(s) : s[i] \in A
       /\ \A i \in 1..Len(t) : t[i] \in B
  BY <1>10
<1>12. PICK u : u = s \o t
  OBVIOUS
<1>13. s \in Seq(D) /\ t \in Seq(D)
  BY <1>3, <1>4, <1>10
<1>14. u \in Seq(D) /\ Len(u) = Len(s) + Len(t)
  BY <1>12, <1>13
<1>15. \A i \in 1..Len(u) : u[i] = IF i <= Len(s) THEN s[i] ELSE t[i - Len(s)]
  BY <1>12, <1>13, <1>14
<1>16. \A i \in 1..Len(u) : i > Len(s) => i - Len(s) \in 1..Len(t)
  <2>1. \A x, y, z \in Nat : z = x + y => \A i \in 1..z : i > x => i - x \in 1..y
    OBVIOUS
  <2>2. Len(u) \in Nat
    BY <1>11, <1>14
  <2> QED BY <1>11, <1>14, <2>1, <2>2
<1>17. ASSUME NEW i \in 1..Len(u), NEW j \in 1..Len(u), u[i] = u[j] PROVE i = j
  <2>1. CASE i <= Len(s) /\ j <= Len(s)
    <3>1. i \in DOMAIN s /\ j \in DOMAIN s /\ s[i] = s[j]
      BY <1>11, <1>15, <1>17, <2>1
    <3> QED BY <1>9, <3>1 DEF IsListing
  <2>2. CASE i > Len(s) /\ j > Len(s)
    <3>1. PICK p \in 1..Len(t) : p = i - Len(s)
      BY <1>16, <2>2
    <3>2. PICK q \in 1..Len(t) : q = j - Len(s)
      BY <1>16, <2>2
    <3>3. t[p] = t[q]
      BY <1>11, <1>15, <1>17, <2>2, <3>1, <3>2
    <3>4. p = q
      BY <1>9, <1>11, <3>3 DEF IsListing
    <3> QED BY <1>11, <3>1, <3>2, <3>4
  <2>3. CASE i <= Len(s) /\ j > Len(s)
    <3>1. u[i] \in A
      BY <1>11, <1>15, <2>3
    <3>2. u[j] \in B
      <4>1. PICK q \in 1..Len(t) : q = j - Len(s)
        BY <1>16, <2>3
      <4> QED BY <1>11, <1>15, <2>3, <4>1
    <3> QED BY <1>4, <1>17, <3>1, <3>2
  <2>4. CASE i > Len(s) /\ j <= Len(s)
    <3>1. u[j] \in A
      BY <1>11, <1>15, <2>4
    <3>2. u[i] \in B
      <4>1. PICK q \in 1..Len(t) : q = i - Len(s)
        BY <1>16, <2>4
      <4> QED BY <1>11, <1>15, <2>4, <4>1
    <3> QED BY <1>4, <1>17, <3>1, <3>2
  <2> QED BY <1>11, <1>14, <2>1, <2>2, <2>3, <2>4
<1>18. IsListing(u, D)
  BY <1>14, <1>17 DEF IsListing
<1> QED BY <1>1, <1>8, <1>12, <1>18

\* The fair part of a reserve is no more than the output asks for.
LEMMA FairShare ==
  ASSUME NEW r \in Nat, NEW v1 \in Nat, NEW v2 \in Nat, r <= v1 + v2, v1 + v2 > 0
  PROVE  r - RatioOf(r, v2, v1 + v2) \in Nat /\ r - RatioOf(r, v2, v1 + v2) <= v1
<1>1. PICK T \in Nat : T = v1 + v2
  OBVIOUS
<1>2. PICK q : q = RatioOf(r, v2, T)
  OBVIOUS
<1>3. q \in Nat /\ q <= r /\ T * q <= r * v2 /\ r * v2 < T * q + T
  BY <1>1, <1>2, RatioLemma
<1>4. r - q <= v1
  <2>1. CASE r <= v1
    BY <1>3, <2>1
  <2>2. CASE r > v1
    <3> SUFFICES ASSUME r - q > v1 PROVE FALSE
      BY <1>3
    <3>1. PICK e \in Nat : r = v1 + e
      <4>1. r - v1 \in Nat /\ r = v1 + (r - v1)
        BY <2>2
      <4> QED BY <4>1
    <3>2. q + 1 <= e /\ e <= v2 /\ q + 1 \in Nat
      BY <1>3, <3>1
    <3>3. T * (q + 1) <= T * e
      BY <3>2, ProductLemma
    <3>4. v1 * e <= v1 * v2
      BY <3>2, ProductLemma
    <3>5. T * e = v1 * e + v2 * e /\ r * v2 = v1 * v2 + e * v2 /\ T * (q + 1) = T * q + T
      BY <1>1, <1>3, <3>1
    <3>6. v2 * e = e * v2
      OBVIOUS
    <3>7. T * e \in Int /\ v1 * e \in Int /\ v2 * e \in Int /\ v1 * v2 \in Int /\ T * q \in Int
      BY <1>3
    <3> QED BY <1>3, <3>3, <3>4, <3>5, <3>6, <3>7
  <2> QED BY <2>1, <2>2
<1> QED BY <1>1, <1>2, <1>3, <1>4

\* What a shared freeze may take is an amount.
LEMMA QuotaLemma ==
  ASSUME Making, n \in DOMAIN poolFrozen
  PROVE  FrozenQuota \in Nat /\ FrozenQuota <= Output.value
<1>1. PICK f : f = poolFrozen[n].fair
  OBVIOUS
<1>2. PICK r : r = Total(poolReserves[poolFrozen[n].sAddress])
  OBVIOUS
<1>3. PICK v1 : v1 = poolFrozen[f[1]].nValue
  OBVIOUS
<1>4. PICK v2 : v2 = poolFrozen[f[2]].nValue
  OBVIOUS
<1>5. FrozenQuota = IF f # <<>> /\ Cardinality(DOMAIN poolFrozen) = 2 /\ r <= v1 + v2 /\ v1 + v2 > 0
                      THEN r - RatioOf(r, v2, v1 + v2) ELSE Output.value
  BY <1>1, <1>2, <1>3, <1>4 DEF FrozenQuota
<1>6. Output.value \in Nat
  BY MakingLemma
<1>7. CASE f # <<>> /\ r <= v1 + v2 /\ v1 + v2 > 0
  <2>1. f[1] = n /\ f[2] \in DOMAIN poolFrozen /\ poolFrozen[n].sAddress \in DOMAIN poolReserves
    BY <1>1, <1>7 DEF Making, FrozenInv, GoodFrozen
  <2>2. \A o \in DOMAIN poolFrozen : poolFrozen[o].nValue = tx.vout[o].value /\ o \in DOMAIN tx.vout
    BY DEF Making, FrozenInv, GoodFrozen
  <2>3. v1 = Output.value
    BY <1>3, <2>1, <2>2 DEF Output
  <2>4. v2 \in Nat
    BY <1>4, <2>1, <2>2, OutsLemma DEF Making
  <2>5. r \in Nat
    <3>1. PICK g \in Fractions : g = poolReserves[poolFrozen[n].sAddress]
      BY <2>1 DEF Making, PoolInv, IsPool
    <3>2. \A k \in Indexes : g[k] \in Nat
      BY AmountType
    <3> QED BY <1>2, <3>1, <3>2, TotalNat
  <2>6. r - RatioOf(r, v2, v1 + v2) \in Nat /\ r - RatioOf(r, v2, v1 + v2) <= v1
    BY <1>6, <1>7, <2>3, <2>4, <2>5, FairShare
  <2> QED BY <1>5, <1>6, <2>3, <2>6
<1>8. CASE ~ (f # <<>> /\ r <= v1 + v2 /\ v1 + v2 > 0)
  <2>1. FrozenQuota = Output.value
    BY <1>5, <1>8
  <2> QED BY <1>6, <2>1
<1> QED BY <1>7, <1>8

\* A plain output is made of reserve, then of liquidity.
LEMMA PlainOutputStep ==
  ASSUME Making, PlainOutput, phase' # "failed"
  PROVE  Made1
<1>1. Due = Zero
  BY DEF PlainOutput, Due
<1>2. Output.value \in Nat /\ Output.value <= Output.value /\ "" \in Marks
  BY MakingLemma DEF Marks
<1>3. FillOutput(ReserveSources(Output), Output.value, "")
  BY DEF PlainOutput
<1> QED BY <1>1, <1>2, <1>3, ReserveSourcesLemma, FillStep

\* So is one that shares a freeze, of its quota of reserve.
LEMMA SharedFrozenOutputStep ==
  ASSUME Making, SharedFrozenOutput, phase' # "failed"
  PROVE  Made1
<1>1. Due = Zero /\ n \in DOMAIN poolFrozen
  BY SharingLemma DEF SharedFrozenOutput, IsSharing
<1>2. FrozenQuota \in Nat /\ FrozenQuota <= Output.value /\ "F" \in Marks
  BY <1>1, QuotaLemma DEF Marks
<1>3. FillOutput(FrozenSources, FrozenQuota, "F")
  BY DEF SharedFrozenOutput
<1> QED BY <1>1, <1>2, <1>3, FrozenSourcesLemma, FillStep

\* An output that can not be filled fails the transaction.
LEMMA FillFails ==
  ASSUME NEW sources, NEW quota, NEW mark, FillOutput(sources, quota, mark)
  PROVE  tx' = tx /\ supply' = supply /\ (phase' = phase \/ phase' = "failed")
  BY DEF FillOutput, Refuse

-----------------------------------------------------------------------------
(* The other steps                                                         *)

\* The liquidity of all addresses is put together.
LEMMA ShareLiquidityStep ==
  ASSUME TxInv, PoolInv, FrozenInv, PhaseInv, BooksInv, ShareLiquidity
  PROVE  TxInv' /\ PoolInv' /\ FrozenInv' /\ PhaseInv' /\ BooksInv' /\ phase' = "outputs"
<1>1. /\ phase = "inputs" /\ n > Len(tx.vin) /\ phase' = "outputs" /\ n' = 1
      /\ frCommonLiquidity' = SumAll(poolLiquidity) /\ tx' = tx /\ supply' = supply
      /\ poolReserves' = poolReserves /\ poolLiquidity' = poolLiquidity /\ poolFrozen' = poolFrozen
      /\ frColdFees' = frColdFees /\ outs' = outs
  BY DEF ShareLiquidity
<1>2. TxInv' /\ FrozenInv'
  BY <1>1 DEF TxInv, FrozenInv, GoodFrozen
<1>3. SumAll(poolLiquidity) \in Fractions /\ Upper(SumAll(poolLiquidity), supply)
  <2>1. IsPool(poolLiquidity) /\ \A a \in DOMAIN poolLiquidity : Upper(poolLiquidity[a], supply)
    BY DEF PoolInv
  <2>2. SumAll(poolLiquidity) \in Fractions
    BY <2>1, PoolSum
  <2>3. ASSUME NEW k \in Indexes, k < supply PROVE SumAll(poolLiquidity)[k] = 0
    <3>1. PICK D : D = DOMAIN poolLiquidity
      OBVIOUS
    <3>2. PICK g : g = [a \in D |-> poolLiquidity[a][k]]
      OBVIOUS
    <3>3. SumAll(poolLiquidity)[k] = SumOf(g, D)
      BY <3>1, <3>2 DEF SumAll, SumOver
    <3>4. IsFiniteSet(D) /\ \A a \in D : g[a] = 0
      BY <2>1, <2>3, <3>1, <3>2 DEF Upper, IsPool
    <3> QED BY <3>3, <3>4, SumZero
  <2> QED BY <2>2, <2>3 DEF Upper
<1>4. PoolInv'
  BY <1>1, <1>3 DEF PoolInv
<1>5. outs = <<>> /\ n \in Nat /\ n <= Len(tx.vin) + 1 /\ Len(tx.vin) \in Nat /\ Len(tx.vout) \in Nat
  BY <1>1, TakenLemma, OutsLemma DEF PhaseInv
<1>6. PhaseInv'
  <2>1. <<>> \in Seq(MadeOuts) /\ Len(<<>>) = 0
    OBVIOUS
  <2>2. n' \in Nat \ {0} /\ n' <= Len(tx'.vout) + 1 /\ outs' \in Seq(MadeOuts) /\ Len(outs') = n' - 1
    BY <1>1, <1>5, <2>1
  <2> QED BY <1>1, <2>2 DEF PhaseInv
<1>7. BooksInv'
  <2>1. Liquid' = Liquid /\ Reserve' = Reserve /\ Aside' = Aside /\ Made' = Made
    BY <1>1 DEF Liquid, Reserve, Aside, Made
  <2>2. TakenIns' = TakenIns
    <3>1. TakenIns' = DOMAIN tx.vin
      BY <1>1 DEF TakenIns
    <3>2. TakenIns = 1..(n - 1) /\ n - 1 = Len(tx.vin)
      BY <1>1, <1>5 DEF TakenIns
    <3> QED BY <3>1, <3>2, TakenLemma
  <2>3. TakenSum' = TakenSum
    BY <1>1, <2>2 DEF TakenSum
  <2> QED BY <1>1, <2>1, <2>3 DEF BooksInv
<1> QED BY <1>1, <1>2, <1>4, <1>6, <1>7

\* The check of the totals leaves everything where it is.
LEMMA FinishStep ==
  ASSUME TxInv, PoolInv, FrozenInv, PhaseInv, BooksInv, Finish
  PROVE  TxInv' /\ PoolInv' /\ FrozenInv' /\ PhaseInv' /\ BooksInv' /\ phase' \in {"done", "failed"}
<1>1. /\ phase = "outputs" /\ phase' \in {"done", "failed"}
      /\ tx' = tx /\ supply' = supply /\ n' = n /\ poolReserves' = poolReserves /\ poolLiquidity' = poolLiquidity
      /\ frCommonLiquidity' = frCommonLiquidity /\ poolFrozen' = poolFrozen /\ frColdFees' = frColdFees /\ outs' = outs
  BY DEF Finish, pools
<1>2. phase' # "inputs"
  BY <1>1
<1>3. TxInv' /\ PoolInv' /\ FrozenInv'
  BY <1>1 DEF TxInv, PoolInv, FrozenInv, GoodFrozen
<1>4. PhaseInv'
  BY <1>1, <1>2 DEF PhaseInv
<1>5. Liquid' = Liquid /\ Reserve' = Reserve /\ Aside' = Aside /\ Made' = Made /\ TakenSum' = TakenSum
  BY <1>1, <1>2 DEF Liquid, Reserve, Aside, Made, TakenSum, TakenIns
<1>6. BooksInv'
  BY <1>1, <1>5 DEF BooksInv
<1> QED BY <1>1, <1>3, <1>4, <1>6

\* Nothing is held before the first input.
LEMMA EmptyLemma ==
  /\ IsPool(<<>>) /\ DOMAIN <<>> = {} /\ FractionsOf(<<>>) = <<>>
  /\ \A S : SumAll(<<>>) = Zero /\ SumOver(<<>>, {} \ S) = Zero
<1>1. DOMAIN <<>> = {}
  OBVIOUS
<1>2. IsPool(<<>>)
  BY <1>1, FS_EmptySet DEF IsPool
<1>3. DOMAIN FractionsOf(<<>>) = {} /\ FractionsOf(<<>>) = <<>>
  BY DEF FractionsOf
<1>4. SumAll(<<>>) = Zero
  BY <1>1, SumOverEmpty DEF SumAll
<1>5. \A S : {} \ S = {}
  OBVIOUS
<1> QED BY <1>1, <1>2, <1>3, <1>4, <1>5, SumOverEmpty

\* The calculation starts on a transaction that is no coinstake.
Starting ==
  /\ TxInv /\ phase = "inputs" /\ n = 1
  /\ poolReserves = <<>> /\ poolLiquidity = <<>> /\ frCommonLiquidity = Zero /\ nLiquidity = 0
  /\ poolFrozen = <<>> /\ frColdFees = Zero /\ fFreezeAll = FALSE /\ outs = <<>>

\* The invariant holds then.
LEMMA StartInv == Starting => IInv
<1> SUFFICES ASSUME Starting
             PROVE  TxInv /\ phase = "inputs" /\ PoolInv /\ FrozenInv /\ PhaseInv /\ BooksInv
  BY DEF IInv
<1>1. TxInv /\ phase = "inputs"
  BY DEF Starting
<1>2. /\ n = 1 /\ poolReserves = <<>> /\ poolLiquidity = <<>> /\ frCommonLiquidity = Zero /\ poolFrozen = <<>>
      /\ frColdFees = Zero /\ outs = <<>>
  BY DEF Starting
<1>3. PoolInv
  BY <1>2, EmptyLemma, ZeroLemma DEF PoolInv, Upper
<1>4. FrozenInv
  BY <1>2, EmptyLemma, FS_EmptySet DEF FrozenInv, GoodFrozen
<1>5. PhaseInv
  BY <1>1, <1>2, TakenLemma DEF PhaseInv
<1>6. BooksInv
  <2>1. Liquid = Zero /\ Reserve = Zero /\ Made = Zero
    BY <1>1, <1>2, EmptyLemma DEF Liquid, Reserve, Made
  <2>2. Aside = Zero
    BY <1>2, EmptyLemma DEF Aside
  <2>3. TakenIns = {}
    BY <1>1, <1>2 DEF TakenIns
  <2>4. TakenSum = Zero
    BY <2>3, SumOverEmpty DEF TakenSum
  <2> QED BY <1>2, <2>1, <2>2, <2>4, ZeroLemma DEF BooksInv
<1> QED BY <1>1, <1>3, <1>4, <1>5, <1>6

\* Before the first input there is nothing.
LEMMA InitInv == Init => IInv
<1>1. ASSUME Init, tx.reward = Null PROVE Starting
  <2>1. TxInv /\ phase = "inputs"
    BY <1>1, TransactionsAssumption, SuppliesAssumption DEF Init, TxInv
  <2> QED BY <1>1, <2>1 DEF Init, Starting
<1>2. tx.reward # Null => IInv
  BY DEF IInv
<1> QED BY <1>1, <1>2, StartInv

\* What holds while the transaction has not failed
Sound == PoolInv /\ FrozenInv /\ PhaseInv /\ BooksInv

\* Every way to take an input keeps the invariant.
LEMMA InputsNext ==
  ASSUME TxInv, Sound, phase = "inputs", TakeInput \/ TakeColdInput \/ FreezeShared \/ FreezeOne
  PROVE  tx' = tx /\ TxInv' /\ Sound' /\ phase' = "inputs"
<1>1. n <= Len(tx.vin)
  BY DEF TakeInput, TakeColdInput, FreezeShared, FreezeOne, Accepted
<1>2. Taking /\ BooksInv
  BY <1>1 DEF Sound, Taking
<1>3. Taken1
  BY <1>2, TakeInputStep, TakeColdInputStep, FreezeSharedStep, FreezeOneStep
<1>4. PoolInv' /\ FrozenInv' /\ InputStep
  BY <1>3 DEF Taken1
<1>5. TxInv' /\ PhaseInv' /\ BooksInv'
  BY <1>2, <1>4, InputBooks
<1> QED BY <1>4, <1>5 DEF Sound, InputStep

\* Every way to make an output keeps it, or fails.
LEMMA OutputsNext ==
  ASSUME TxInv, Sound, phase = "outputs",
         PlainOutput \/ FrozenOutput \/ SharedFrozenOutput \/ SharedVoluntaryOutput \/ SharedEmptyOutput
  PROVE  tx' = tx /\ TxInv' /\ (phase' = "failed" \/ (Sound' /\ phase' = "outputs"))
<1>1. n <= Len(tx.vout)
  BY DEF PlainOutput, FrozenOutput, SharedFrozenOutput, SharedVoluntaryOutput, SharedEmptyOutput
<1>2. Making /\ BooksInv
  BY <1>1 DEF Sound, Making
<1>3. CASE phase' = "failed"
  <2>1. PlainOutput \/ SharedFrozenOutput
    BY <1>3 DEF FrozenOutput, SharedVoluntaryOutput, SharedEmptyOutput
  <2>2. tx' = tx /\ supply' = supply
    BY <2>1, FillFails DEF PlainOutput, SharedFrozenOutput
  <2> QED BY <1>3, <2>2 DEF TxInv
<1>4. CASE phase' # "failed"
  <2>1. Made1
    BY <1>2, <1>4, PlainOutputStep, FrozenOutputStep, SharedFrozenOutputStep, SharedVoluntaryOutputStep,
       SharedEmptyOutputStep
  <2>2. PICK out : OutputStep(out) /\ PoolInv' /\ FrozenInv'
    BY <2>1 DEF Made1
  <2>3. TxInv' /\ PhaseInv' /\ BooksInv'
    BY <1>2, <2>2, OutputBooks
  <2>4. tx' = tx /\ phase' = "outputs"
    BY <2>2 DEF OutputStep
  <2> QED BY <2>2, <2>3, <2>4 DEF Sound
<1> QED BY <1>3, <1>4

\* Every step keeps it.
LEMMA NextInv == IInv /\ [Next]_vars => IInv'
<1> SUFFICES ASSUME IInv, [Next]_vars PROVE IInv'
  OBVIOUS
<1>1. CASE UNCHANGED vars
  <2>1. /\ tx' = tx /\ supply' = supply /\ phase' = phase /\ n' = n /\ poolReserves' = poolReserves
        /\ poolLiquidity' = poolLiquidity /\ frCommonLiquidity' = frCommonLiquidity /\ poolFrozen' = poolFrozen
        /\ frColdFees' = frColdFees /\ outs' = outs
    BY <1>1 DEF vars, pools
  <2>2. TxInv' = TxInv /\ PoolInv' = PoolInv /\ FrozenInv' = FrozenInv /\ PhaseInv' = PhaseInv /\ BooksInv' = BooksInv
    BY <2>1 DEF TxInv, PoolInv, FrozenInv, GoodFrozen, PhaseInv, BooksInv, Liquid, Reserve, Aside, Made, TakenSum, TakenIns
  <2> QED BY <2>1, <2>2 DEF IInv
<1>2. CASE Next
  <2>1. tx' = tx /\ supply' = supply
    BY <1>2, FillFails DEF Next, RefuseInput, Refuse, TakeInput, TakeColdInput, FreezeShared, FreezeOne, InputTaken,
       ShareLiquidity, PlainOutput, FrozenOutput, SharedFrozenOutput, SharedVoluntaryOutput, SharedEmptyOutput, Finish,
       CalculateStakingFractions
  <2> SUFFICES ASSUME tx.reward = Null
               PROVE  TxInv' /\ phase' \in {"inputs", "outputs", "done", "failed"} /\ (phase' # "failed" => Sound')
    BY <2>1 DEF IInv, Sound
  <2>2. TxInv /\ phase \in {"inputs", "outputs", "done", "failed"} /\ (phase # "failed" => Sound)
    BY DEF IInv, Sound
  <2>3. CASE RefuseInput
    BY <2>1, <2>2, <2>3 DEF RefuseInput, Refuse, TxInv
  <2>4. CASE TakeInput \/ TakeColdInput \/ FreezeShared \/ FreezeOne
    <3>1. phase = "inputs"
      BY <2>4 DEF TakeInput, TakeColdInput, FreezeShared, FreezeOne, Accepted
    <3>2. TxInv' /\ Sound' /\ phase' = "inputs"
      BY <2>2, <2>4, <3>1, InputsNext
    <3> QED BY <3>2
  <2>5. CASE ShareLiquidity
    <3>1. phase = "inputs"
      BY <2>5 DEF ShareLiquidity
    <3>2. TxInv' /\ Sound' /\ phase' = "outputs"
      BY <2>2, <2>5, <3>1, ShareLiquidityStep DEF Sound
    <3> QED BY <3>2
  <2>6. CASE PlainOutput \/ FrozenOutput \/ SharedFrozenOutput \/ SharedVoluntaryOutput \/ SharedEmptyOutput
    <3>1. phase = "outputs"
      BY <2>6 DEF PlainOutput, FrozenOutput, SharedFrozenOutput, SharedVoluntaryOutput, SharedEmptyOutput
    <3>2. TxInv' /\ (phase' = "failed" \/ (Sound' /\ phase' = "outputs"))
      BY <2>2, <2>6, <3>1, OutputsNext
    <3> QED BY <3>2
  <2>7. CASE Finish
    <3>1. phase = "outputs"
      BY <2>7 DEF Finish
    <3>2. TxInv' /\ Sound' /\ phase' \in {"done", "failed"}
      BY <2>2, <2>7, <3>1, FinishStep DEF Sound
    <3> QED BY <3>2
  <2>8. CASE CalculateStakingFractions
    BY <2>2, <2>8 DEF CalculateStakingFractions
  <2> QED BY <1>2, <2>3, <2>4, <2>5, <2>6, <2>7, <2>8 DEF Next
<1> QED BY <1>1, <1>2

\* The invariant gives the property.
LEMMA InvBalance == IInv => BooksBalance
<1> SUFFICES ASSUME IInv, tx.reward = Null, phase # "failed"
             PROVE  /\ Plus(Plus(Liquid, Reserve), Plus(Plus(Aside, Made), frColdFees)) = TakenSum
                    /\ IsPositive(Liquid) /\ IsPositive(frColdFees)
                    /\ \A a \in DOMAIN poolReserves : IsPositive(poolReserves[a])
  BY DEF BooksBalance, Liquid, Reserve, Aside, Made, TakenSum, TakenIns
<1>1. TxInv /\ PoolInv /\ FrozenInv /\ PhaseInv /\ BooksInv
  BY DEF IInv
<1>2. /\ Liquid \in Fractions /\ Reserve \in Fractions /\ Aside \in Fractions /\ Made \in Fractions
      /\ TakenSum \in Fractions /\ frColdFees \in Fractions
  BY <1>1, PlacesLemma
<1>3. \A f \in Fractions : IsPositive(f)
  BY AmountType DEF IsPositive
<1>4. \A a \in DOMAIN poolReserves : poolReserves[a] \in Fractions
  BY <1>1 DEF PoolInv, IsPool
<1>5. PICK all : all = Plus(Plus(Liquid, Reserve), Plus(Plus(Aside, Made), frColdFees))
  OBVIOUS
<1>6. all \in Fractions
  <2>1. Plus(Liquid, Reserve) \in Fractions /\ Plus(Aside, Made) \in Fractions
    BY <1>2, PlusLemma
  <2>2. Plus(Plus(Aside, Made), frColdFees) \in Fractions
    BY <1>2, <2>1, PlusLemma
  <2> QED BY <1>5, <2>1, <2>2, PlusLemma
<1>7. ASSUME NEW k \in Indexes PROVE all[k] = TakenSum[k]
  <2>1. all[k] = (Liquid[k] + Reserve[k]) + ((Aside[k] + Made[k]) + frColdFees[k])
    BY <1>5 DEF Plus
  <2>2. Liquid[k] + Reserve[k] + Aside[k] + Made[k] + frColdFees[k] = TakenSum[k]
    BY <1>1 DEF BooksInv
  <2>3. /\ Liquid[k] \in Int /\ Reserve[k] \in Int /\ Aside[k] \in Int /\ Made[k] \in Int
        /\ frColdFees[k] \in Int
    BY <1>2, AmountType
  <2> QED BY <2>1, <2>2, <2>3
<1>8. all = TakenSum
  BY <1>2, <1>6, <1>7, SameFractions
<1> QED BY <1>2, <1>3, <1>4, <1>5, <1>8

\* CalculateStandardFractions loses and creates nothing: at every step, and so
\* in the outputs and the fee at the end, each fraction of the inputs taken is
\* in exactly one place, for any transaction, any number of fractions and any
\* peg supply index.
THEOREM BooksBalanceAlways == Spec => []BooksBalance
<1>1. Init => IInv
  BY InitInv
<1>2. IInv /\ [Next]_vars => IInv'
  BY NextInv
<1>3. IInv => BooksBalance
  BY InvBalance
<1> QED BY <1>1, <1>2, <1>3, PTL DEF Spec

-----------------------------------------------------------------------------
(* Where the reserve goes                                                  *)

\* The outputs made that may hold no reserve but their own address's
Plain(a) ==
  {o \in DOMAIN outs \ DOMAIN poolFrozen : tx.vout[o].address = a /\ tx.vout[o].notary \in {"", "Z"}}
Spent(a) == SumOver(FractionsOf(outs), Plain(a))
Brought(a) == SumOver(FractionsOf(tx.vin), {i \in TakenIns : tx.vin[i].address = a})

\* What the plain outputs of an address and its pool hold of a fraction of the
\* reserve, its inputs brought.
HomeInv ==
  /\ DOMAIN poolReserves = {tx.vin[i].address : i \in TakenIns}
  /\ \A a \in DOMAIN poolReserves : \A k \in Indexes :
       k < supply => poolReserves[a][k] + Spent(a)[k] <= Brought(a)[k]
  /\ \A a \in Nat \ DOMAIN poolReserves : a # Burn => Upper(Spent(a), supply)

\* While inputs are taken nothing is spent.
LEMMA NothingSpent ==
  ASSUME outs = <<>>
  PROVE  \A a : Spent(a) = Zero
<1>1. DOMAIN outs = {}
  OBVIOUS
<1>2. \A a : Plain(a) = {}
  BY <1>1 DEF Plain
<1> QED BY <1>2, SumOverEmpty DEF Spent

\* What inputs brought are fractions.
LEMMA BroughtType ==
  ASSUME TxInv, NEW S, S \subseteq 1..Len(tx.vin)
  PROVE  IsFiniteSet(S) /\ SumOver(FractionsOf(tx.vin), S) \in Fractions
<1>1. /\ IsPool(FractionsOf(tx.vin)) /\ DOMAIN FractionsOf(tx.vin) = 1..Len(tx.vin)
  BY TakenLemma
<1>2. IsFiniteSet(1..Len(tx.vin))
  BY <1>1 DEF IsPool
<1> QED BY <1>1, <1>2, PoolSum, FS_Subset

\* An input brings its address as much reserve as the pool gets, or more.
LEMMA InputHome ==
  ASSUME Taking, HomeInv, n' = n + 1, tx' = tx, supply' = supply, phase' = phase, outs' = outs, PoolInv',
         DOMAIN poolReserves' = DOMAIN ReserveWithInput,
         \A a \in DOMAIN ReserveWithInput : \A k \in Indexes : poolReserves'[a][k] <= ReserveWithInput[a][k]
  PROVE  HomeInv'
<1>1. /\ n \in 1..Len(tx.vin) /\ Input.fractions \in Fractions /\ Input.address \in Nat
      /\ LowPart(Input.fractions, supply) \in Fractions /\ Len(tx.vin) \in Nat
  BY InputLemma, TakenLemma DEF Taking
<1>2. TakenIns = 1..(n - 1) /\ TakenIns' = 1..n /\ 1..n = 1..(n - 1) \union {n} /\ n \notin 1..(n - 1)
  BY <1>1 DEF TakenIns, Taking
<1>3. outs = <<>> /\ outs' = <<>>
  BY DEF Taking, PhaseInv
<1>4. \A a : Spent(a) = Zero /\ Spent(a)' = Zero
  <2>1. \A a : Spent(a) = Zero
    BY <1>3, NothingSpent
  <2>2. DOMAIN outs' = {}
    BY <1>3
  <2>3. \A a : Plain(a)' = {}
    BY <2>2 DEF Plain
  <2>4. \A a : Spent(a)' = Zero
    BY <2>3, SumOverEmpty DEF Spent
  <2> QED BY <2>1, <2>4
<1>5. PICK p : p = PutPlus(poolReserves, Input.address, LowPart(Input.fractions, supply))
  OBVIOUS
<1>6. IsPool(poolReserves) /\ p = ReserveWithInput
  BY <1>5 DEF ReserveWithInput, Taking, PoolInv
<1>7. /\ DOMAIN p = DOMAIN poolReserves \union {Input.address}
      /\ \A b \in DOMAIN poolReserves : b # Input.address => p[b] = poolReserves[b]
      /\ p[Input.address] = Plus(At(poolReserves, Input.address, Zero), LowPart(Input.fractions, supply))
      /\ At(poolReserves, Input.address, Zero) \in Fractions
  <2>1. PICK map : map = poolReserves
    OBVIOUS
  <2>2. PICK b \in Nat : b = Input.address
    BY <1>1
  <2>3. PICK f \in Fractions : f = LowPart(Input.fractions, supply)
    BY <1>1
  <2>4. /\ DOMAIN PutPlus(map, b, f) = DOMAIN map \union {b}
        /\ \A c \in DOMAIN map : c # b => PutPlus(map, b, f)[c] = map[c]
        /\ PutPlus(map, b, f)[b] = Plus(At(map, b, Zero), f)
        /\ At(map, b, Zero) \in Fractions
    BY <1>6, <2>1, PutPlusLemma
  <2> QED BY <1>5, <2>1, <2>2, <2>3, <2>4
<1>8. DOMAIN poolReserves' = {tx'.vin[i].address : i \in TakenIns'}
  <2>1. {tx.vin[i].address : i \in 1..n} = {tx.vin[i].address : i \in 1..(n - 1)} \union {tx.vin[n].address}
    BY <1>2
  <2>2. DOMAIN poolReserves = {tx.vin[i].address : i \in 1..(n - 1)}
    BY <1>2 DEF HomeInv
  <2> QED BY <1>2, <1>6, <1>7, <2>1, <2>2 DEF Input
<1>9. ASSUME NEW a \in DOMAIN poolReserves', NEW k \in Indexes, k < supply
      PROVE  poolReserves'[a][k] + Spent(a)'[k] <= Brought(a)'[k]
  <2>1. PICK S : S = {i \in 1..(n - 1) : tx.vin[i].address = a}
    OBVIOUS
  <2>2. S \subseteq 1..Len(tx.vin)
    BY <1>1, <2>1
  <2>3. PICK T : T = {i \in 1..n : tx.vin[i].address = a}
    OBVIOUS
  <2>4. PICK g : g = FractionsOf(tx.vin)
    OBVIOUS
  <2>5. Brought(a) = SumOver(g, S) /\ Brought(a)' = SumOver(g, T)
    BY <1>2, <2>1, <2>3, <2>4 DEF Brought
  <2>6. IsFiniteSet(S) /\ SumOver(g, S) \in Fractions
    BY <2>2, <2>4, BroughtType DEF Taking
  <2>7. SumOver(g, S)[k] \in Nat /\ p[a][k] \in Int
    <3>1. IsPool(p) /\ a \in DOMAIN p
      BY <1>6, WithInputLemma
    <3> QED BY <2>6, <3>1, AmountType DEF IsPool
  <2>8. poolReserves'[a][k] <= p[a][k] /\ poolReserves'[a][k] \in Int
    <3>1. poolReserves'[a] \in Fractions
      BY DEF PoolInv, IsPool
    <3> QED BY <1>6, <3>1, AmountType
  <2>9. Spent(a)'[k] = 0
    BY <1>4, ZeroLemma
  <2>10. a \in DOMAIN poolReserves => poolReserves[a][k] <= SumOver(g, S)[k]
    <3> SUFFICES ASSUME a \in DOMAIN poolReserves PROVE poolReserves[a][k] <= SumOver(g, S)[k]
      OBVIOUS
    <3>1. poolReserves[a][k] + Spent(a)[k] <= SumOver(g, S)[k]
      BY <1>9, <2>5 DEF HomeInv
    <3>2. poolReserves[a][k] \in Int /\ Spent(a)[k] = 0
      BY <1>4, <1>6, AmountType, ZeroLemma DEF IsPool
    <3> QED BY <2>7, <3>1, <3>2
  <2>11. p[a][k] <= SumOver(g, T)[k] /\ SumOver(g, T)[k] \in Int
    <3>1. CASE a = Input.address
      <4>1. T = S \union {n} /\ n \notin S
        BY <1>2, <2>1, <2>3, <3>1 DEF Input
      <4>2. g[n] = Input.fractions /\ \A y \in S : g[y] \in Fractions
        BY <1>1, <2>2, <2>4, TakenLemma DEF Input, Taking
      <4>3. SumOver(g, T) = Plus(SumOver(g, S), Input.fractions)
        BY <1>1, <2>6, <4>1, <4>2, SumOverNext
      <4>4. SumOver(g, T)[k] = SumOver(g, S)[k] + Input.fractions[k]
        BY <4>3 DEF Plus
      <4>5. p[a][k] = At(poolReserves, a, Zero)[k] + Input.fractions[k]
        BY <1>7, <1>9, <3>1 DEF Plus, LowPart
      <4>6. At(poolReserves, a, Zero)[k] <= SumOver(g, S)[k]
        BY <2>7, <2>10, ZeroLemma DEF At
      <4>7. At(poolReserves, a, Zero)[k] \in Int /\ Input.fractions[k] \in Int
        BY <1>1, <1>7, <3>1, AmountType
      <4> QED BY <2>7, <4>4, <4>5, <4>6, <4>7
    <3>2. CASE a # Input.address
      <4>1. T = S
        BY <1>2, <2>1, <2>3, <3>2 DEF Input
      <4>2. a \in DOMAIN poolReserves /\ p[a] = poolReserves[a]
        BY <1>6, <1>7, <3>2
      <4> QED BY <2>7, <2>10, <4>1, <4>2
    <3> QED BY <3>1, <3>2
  <2> QED BY <2>5, <2>7, <2>8, <2>9, <2>11
<1>10. \A a : Upper(Spent(a)', supply)
  BY <1>4, ZeroLemma DEF Upper
<1> QED BY <1>8, <1>9, <1>10 DEF HomeInv

\* An output that is made of what its address has.
Homely(out) ==
  /\ DOMAIN poolReserves' = DOMAIN poolReserves
  /\ \A a \in DOMAIN poolReserves : \A k \in Indexes : poolReserves'[a][k] <= poolReserves[a][k]
  /\ n \notin DOMAIN poolFrozen /\ Output.notary \in {"", "Z"} =>
       /\ Output.address \in DOMAIN poolReserves =>
            \A k \in Indexes : k < supply =>
              poolReserves'[Output.address][k] + out.fractions[k] <= poolReserves[Output.address][k]
       /\ Output.address \notin DOMAIN poolReserves /\ Output.address # Burn => Upper(out.fractions, supply)

\* The outputs made, with one more.
LEMMA PlainNext ==
  ASSUME Making, NEW out, OutputStep(out), NEW a
  PROVE  /\ Spent(a) \in Fractions
         /\ Spent(a)' = IF n \notin DOMAIN poolFrozen /\ Output.notary \in {"", "Z"} /\ Output.address = a
                          THEN Plus(Spent(a), out.fractions) ELSE Spent(a)
<1>1. /\ outs \in Seq(MadeOuts) /\ Len(outs) = n - 1 /\ DOMAIN outs = 1..(n - 1) /\ n \in Nat \ {0}
  BY MakingLemma
<1>2. /\ out \in MadeOuts /\ outs' = Append(outs, out) /\ tx' = tx /\ poolFrozen' = poolFrozen
  BY DEF OutputStep
<1>3. out.fractions \in Fractions
  BY <1>2 DEF MadeOuts
<1>4. /\ DOMAIN outs' = 1..n /\ outs'[n] = out /\ \A o \in 1..(n - 1) : outs'[o] = outs[o]
  BY <1>1, <1>2
<1>5. 1..n = 1..(n - 1) \union {n} /\ n \notin 1..(n - 1)
  BY <1>1
<1>6. PICK g : g = FractionsOf(outs)
  OBVIOUS
<1>7. PICK h : h = FractionsOf(outs')
  OBVIOUS
<1>8. PICK S : S = Plain(a)
  OBVIOUS
<1>9. S \subseteq 1..(n - 1) /\ n \notin S
  BY <1>1, <1>5, <1>8 DEF Plain
<1>10. IsFiniteSet(S)
  <2>1. IsFiniteSet(DOMAIN outs)
    BY <1>1, MadeLemma DEF IsPool, FractionsOf
  <2> QED BY <1>1, <1>9, <2>1, FS_Subset
<1>11. \A y \in S : g[y] \in Fractions /\ h[y] = g[y]
  <2>1. \A y \in 1..(n - 1) : g[y] = outs[y].fractions /\ h[y] = outs[y].fractions
    BY <1>1, <1>4, <1>5, <1>6, <1>7 DEF FractionsOf
  <2>2. \A y \in 1..(n - 1) : outs[y].fractions \in Fractions
    BY <1>1, MadeLemma
  <2> QED BY <1>9, <2>1, <2>2
<1>12. h[n] = out.fractions
  BY <1>4, <1>5, <1>7 DEF FractionsOf
<1>13. SumOver(g, S) \in Fractions
  BY <1>10, <1>11, SumOverAt
<1>14. Spent(a) = SumOver(g, S) /\ Spent(a)' = SumOver(h, Plain(a)')
  BY <1>6, <1>7, <1>8 DEF Spent
<1>15. CASE n \notin DOMAIN poolFrozen /\ Output.notary \in {"", "Z"} /\ Output.address = a
  <2>1. Plain(a)' = S \union {n}
    BY <1>1, <1>2, <1>4, <1>5, <1>8, <1>15 DEF Plain, Output
  <2>2. SumOver(h, S \union {n}) = Plus(SumOver(g, S), h[n])
    BY <1>3, <1>9, <1>10, <1>11, <1>12, SumOverAdd
  <2> QED BY <1>12, <1>13, <1>14, <1>15, <2>1, <2>2
<1>16. CASE ~ (n \notin DOMAIN poolFrozen /\ Output.notary \in {"", "Z"} /\ Output.address = a)
  <2>1. Plain(a)' = S
    BY <1>1, <1>2, <1>4, <1>5, <1>8, <1>16 DEF Plain, Output
  <2>2. SumOver(h, S) = SumOver(g, S)
    BY <1>11, SumOverSame
  <2> QED BY <1>13, <1>14, <1>16, <2>1, <2>2
<1> QED BY <1>15, <1>16

\* Such an output keeps every address to its own reserve.
LEMMA OutputHome ==
  ASSUME Making, HomeInv, NEW out, OutputStep(out), PoolInv', Homely(out)
  PROVE  HomeInv'
<1>1. /\ tx' = tx /\ supply' = supply /\ phase' = phase /\ out \in MadeOuts /\ DOMAIN poolReserves' = DOMAIN poolReserves
  BY DEF OutputStep, Homely
<1>2. out.fractions \in Fractions
  BY <1>1 DEF MadeOuts
<1>3. TakenIns' = TakenIns /\ phase # "inputs" /\ TakenIns = DOMAIN tx.vin
  BY <1>1 DEF TakenIns, Making
<1>4. \A a : Brought(a)' = Brought(a)
  BY <1>1, <1>3 DEF Brought
<1>5. DOMAIN poolReserves' = {tx'.vin[i].address : i \in TakenIns'}
  BY <1>1, <1>3 DEF HomeInv
<1>6. ASSUME NEW a \in DOMAIN poolReserves', NEW k \in Indexes, k < supply
      PROVE  poolReserves'[a][k] + Spent(a)'[k] <= Brought(a)'[k]
  <2>1. poolReserves[a] \in Fractions /\ poolReserves'[a] \in Fractions
    BY <1>1 DEF PoolInv, Making, IsPool
  <2>2. Spent(a) \in Fractions
    BY PlainNext
  <2>3. Brought(a) \in Fractions
    <3>1. {i \in TakenIns : tx.vin[i].address = a} \subseteq 1..Len(tx.vin)
      BY <1>3, TakenLemma DEF Making
    <3> QED BY <3>1, BroughtType DEF Brought, Making
  <2>4. /\ poolReserves[a][k] \in Int /\ poolReserves'[a][k] \in Int /\ Spent(a)[k] \in Int /\ Brought(a)[k] \in Int
        /\ out.fractions[k] \in Int
    BY <1>2, <2>1, <2>2, <2>3, AmountType
  <2>5. poolReserves[a][k] + Spent(a)[k] <= Brought(a)[k]
    BY <1>1, <1>6 DEF HomeInv
  <2>6. CASE n \notin DOMAIN poolFrozen /\ Output.notary \in {"", "Z"} /\ Output.address = a
    <3>1. Spent(a)' = Plus(Spent(a), out.fractions)
      BY <2>6, PlainNext
    <3>2. Spent(a)'[k] = Spent(a)[k] + out.fractions[k]
      BY <3>1 DEF Plus
    <3>3. poolReserves'[a][k] + out.fractions[k] <= poolReserves[a][k]
      BY <1>1, <1>6, <2>6 DEF Homely
    <3> QED BY <1>4, <2>4, <2>5, <3>2, <3>3
  <2>7. CASE ~ (n \notin DOMAIN poolFrozen /\ Output.notary \in {"", "Z"} /\ Output.address = a)
    <3>1. Spent(a)' = Spent(a)
      BY <2>7, PlainNext
    <3>2. poolReserves'[a][k] <= poolReserves[a][k]
      BY <1>1 DEF Homely
    <3> QED BY <1>4, <2>4, <2>5, <3>1, <3>2
  <2> QED BY <2>6, <2>7
<1>7. ASSUME NEW a \in Nat \ DOMAIN poolReserves', a # Burn
      PROVE  Upper(Spent(a)', supply)
  <2>1. Upper(Spent(a), supply)
    BY <1>1, <1>7 DEF HomeInv
  <2>2. CASE n \notin DOMAIN poolFrozen /\ Output.notary \in {"", "Z"} /\ Output.address = a
    <3>1. Spent(a)' = Plus(Spent(a), out.fractions)
      BY <2>2, PlainNext
    <3>2. Upper(out.fractions, supply)
      BY <1>1, <1>7, <2>2 DEF Homely
    <3> QED BY <2>1, <3>1, <3>2 DEF Upper, Plus
  <2>3. CASE ~ (n \notin DOMAIN poolFrozen /\ Output.notary \in {"", "Z"} /\ Output.address = a)
    BY <2>1, <2>3, PlainNext
  <2> QED BY <2>2, <2>3
<1> QED BY <1>1, <1>5, <1>6, <1>7 DEF HomeInv

\* The last output made.
LEMMA LastMade ==
  ASSUME Making, NEW out, NEW x, outs' = Append(outs, x), OutputStep(out)
  PROVE  out = x
<1>1. PICK s \in Seq(MadeOuts) : s = outs
  BY MakingLemma
<1>2. Append(s, x) = Append(s, out)
  BY <1>1 DEF OutputStep
<1>3. Append(s, x)[Len(s) + 1] = x /\ Append(s, out)[Len(s) + 1] = out
  OBVIOUS
<1> QED BY <1>2, <1>3

\* Filling an output takes from the reserves.
LEMMA FilledShrinks ==
  ASSUME NEW N, NEW sources, NEW quota, NEW mark, NEW given, NEW moved, NEW rest, NEW liquid, NEW out,
         Filled(N, sources, quota, mark, given, moved, rest, liquid, out)
  PROVE  /\ DOMAIN poolReserves' = DOMAIN poolReserves
         /\ \A a \in DOMAIN poolReserves : \A k \in Indexes : poolReserves'[a][k] <= poolReserves[a][k]
<1>1. PICK r : r = poolReserves'
  OBVIOUS
<1>2. PICK map : map = poolReserves
  OBVIOUS
<1>3. Drawn(map, N, sources, moved, r)
  BY <1>1, <1>2 DEF Filled
<1>4. DOMAIN r = DOMAIN map
  BY <1>3 DEF Drawn
<1>5. \A a \in DOMAIN map : \A k \in Indexes : r[a][k] <= map[a][k]
  BY <1>3, DrawnLemma
<1> QED BY <1>1, <1>2, <1>4, <1>5

\* An output filled from its own address, or from the liquidity alone.
LEMMA FilledFromHome ==
  ASSUME Making, NEW sources, NEW quota, NEW mark, NEW N, NEW given, NEW moved, NEW rest, NEW liquid, NEW out,
         Filled(N, sources, quota, mark, given, moved, rest, liquid, out)
  PROVE  /\ liquid \in Fractions /\ Upper(liquid, supply)
         /\ sources = <<>> => out.fractions = Plus(Zero, liquid)
         /\ \A a \in Nat : sources = <<a>> =>
              /\ N = 1 /\ a \in DOMAIN poolReserves /\ moved[1] \in Fractions
              /\ poolReserves'[a] = Minus(poolReserves[a], moved[1])
              /\ \A b \in DOMAIN poolReserves : b # a => poolReserves'[b] = poolReserves[b]
              /\ out.fractions = Plus(moved[1], liquid)
<1>1. /\ N \in Nat /\ DOMAIN sources = 1..N /\ sources \in [1..N -> DOMAIN poolReserves]
      /\ out.fractions = Plus(SumAll(moved), liquid) /\ rest \in Nat /\ liquid = MovedPart(frCommonLiquidity, rest)
  BY DEF Filled
<1>2. liquid \in Fractions /\ Upper(liquid, supply)
  BY <1>1, LiquidMoved
<1>3. moved \in [1..N -> Fractions]
  BY DEF Filled, Drawn
<1>4. ASSUME sources = <<>> PROVE out.fractions = Plus(Zero, liquid)
  <2>1. 1..N = {}
    BY <1>1, <1>4
  <2>2. DOMAIN moved = {}
    BY <1>3, <2>1
  <2>3. SumAll(moved) = Zero
    BY <2>2, SumOverEmpty DEF SumAll
  <2> QED BY <1>1, <2>3
<1>5. ASSUME NEW a \in Nat, sources = <<a>>
      PROVE  /\ N = 1 /\ a \in DOMAIN poolReserves /\ moved[1] \in Fractions
             /\ poolReserves'[a] = Minus(poolReserves[a], moved[1])
             /\ \A b \in DOMAIN poolReserves : b # a => poolReserves'[b] = poolReserves[b]
             /\ out.fractions = Plus(moved[1], liquid)
  <2>1. DOMAIN sources = 1..1 /\ sources[1] = a
    BY <1>5
  <2>2. N = 1
    <3>1. 1..N = 1..1
      BY <1>1, <2>1
    <3>2. 1 \in 1..N /\ (N >= 1 => N \in 1..N)
      BY <1>1, <3>1
    <3> QED BY <1>1, <3>1, <3>2
  <2>3. a \in DOMAIN poolReserves /\ moved[1] \in Fractions /\ DOMAIN moved = {1}
    BY <1>1, <1>3, <2>1, <2>2
  <2>4. PICK map : map = poolReserves
    OBVIOUS
  <2>5. PICK r : r = poolReserves'
    OBVIOUS
  <2>6. Drawn(map, N, sources, moved, r)
    BY <2>4, <2>5 DEF Filled
  <2>7. /\ \A i \in 1..N : r[sources[i]] = Minus(map[sources[i]], moved[i])
        /\ \A b \in DOMAIN map : b \notin {sources[i] : i \in 1..N} => r[b] = map[b]
        /\ SumAll(moved) \in Fractions
    BY <2>6, DrawnLemma
  <2>8. SumAll(moved) = moved[1]
    <3>1. SumOver(moved, {} \union {1}) = Plus(SumOver(moved, {}), moved[1])
      BY <2>3, FS_EmptySet, SumOverNext
    <3>2. SumOver(moved, {}) = Zero /\ {} \union {1} = {1}
      BY SumOverEmpty
    <3>3. SumAll(moved) = Plus(Zero, moved[1])
      BY <2>3, <3>1, <3>2 DEF SumAll
    <3>4. \A k \in Indexes : SumAll(moved)[k] = moved[1][k]
      BY <2>3, <3>3, ZeroLemma, AmountType DEF Plus
    <3> QED BY <2>3, <2>7, <3>4, SameFractions
  <2>9. r[a] = Minus(map[a], moved[1]) /\ \A b \in DOMAIN map : b # a => r[b] = map[b]
    <3>1. 1 \in 1..N /\ {sources[i] : i \in 1..N} = {a}
      BY <2>1, <2>2
    <3> QED BY <2>1, <2>7, <3>1
  <2> QED BY <1>1, <2>2, <2>3, <2>4, <2>5, <2>8, <2>9
<1> QED BY <1>2, <1>4, <1>5

\* A plain output keeps to the reserve of its address.
LEMMA PlainOutputHome ==
  ASSUME Making, PlainOutput, phase' # "failed", NEW out, OutputStep(out)
  PROVE  Homely(out)
<1>1. PICK sources : sources = ReserveSources(Output)
  OBVIOUS
<1>2. /\ IsListing(sources, DOMAIN poolReserves) /\ Output.value \in Nat
      /\ FillOutput(sources, Output.value, "") /\ Output.value <= Output.value
      /\ Output.address \in Nat
  <2>1. Output \in TxOuts /\ Output.value \in Nat
    BY MakingLemma
  <2>2. Output.address \in Nat
    BY <2>1 DEF TxOuts
  <2>3. FillOutput(sources, Output.value, "")
    BY <1>1 DEF PlainOutput
  <2>4. IsListing(sources, DOMAIN poolReserves)
    BY <1>1, ReserveSourcesLemma
  <2>5. Output.value <= Output.value
    BY <2>1
  <2> QED BY <2>1, <2>2, <2>3, <2>4, <2>5
<1>3. PICK N, given, moved, rest, liquid, x : Filled(N, sources, Output.value, "", given, moved, rest, liquid, x)
  BY <1>2, FillFacts
<1>4. x = out
  BY <1>3, LastMade DEF Filled
<1>5. /\ DOMAIN poolReserves' = DOMAIN poolReserves
      /\ \A a \in DOMAIN poolReserves : \A k \in Indexes : poolReserves'[a][k] <= poolReserves[a][k]
  BY <1>3, FilledShrinks
<1>6. /\ liquid \in Fractions /\ Upper(liquid, supply)
      /\ sources = <<>> => out.fractions = Plus(Zero, liquid)
      /\ \A a \in Nat : sources = <<a>> =>
           /\ N = 1 /\ a \in DOMAIN poolReserves /\ moved[1] \in Fractions
           /\ poolReserves'[a] = Minus(poolReserves[a], moved[1])
           /\ \A b \in DOMAIN poolReserves : b # a => poolReserves'[b] = poolReserves[b]
           /\ out.fractions = Plus(moved[1], liquid)
  <2>1. PICK quota : quota = Output.value
    OBVIOUS
  <2>2. Filled(N, sources, quota, "", given, moved, rest, liquid, out)
    BY <1>3, <1>4, <2>1
  <2>3. PICK mark : Filled(N, sources, quota, mark, given, moved, rest, liquid, out)
    BY <2>2
  <2> QED BY <2>3, FilledFromHome
<1>7. ASSUME Output.address \in DOMAIN poolReserves, NEW k \in Indexes, k < supply
      PROVE  poolReserves'[Output.address][k] + out.fractions[k] <= poolReserves[Output.address][k]
  <2>1. PICK a \in Nat : a = Output.address
    BY <1>2
  <2>2. sources = <<a>>
    BY <1>1, <1>7, <2>1 DEF ReserveSources
  <2>3. poolReserves'[a][k] = poolReserves[a][k] - moved[1][k] /\ out.fractions[k] = moved[1][k] + liquid[k]
    <3>1. poolReserves'[a] = Minus(poolReserves[a], moved[1]) /\ out.fractions = Plus(moved[1], liquid)
      BY <1>6, <2>2
    <3> QED BY <3>1 DEF Plus, Minus
  <2>4. poolReserves[a][k] \in Int /\ moved[1][k] \in Int /\ liquid[k] = 0
    <3>1. poolReserves[a] \in Fractions /\ moved[1] \in Fractions
      BY <1>6, <1>7, <2>1, <2>2 DEF Making, PoolInv, IsPool
    <3> QED BY <1>6, <1>7, <3>1, AmountType DEF Upper
  <2> QED BY <2>1, <2>3, <2>4
<1>8. ASSUME Output.notary \in {"", "Z"}, Output.address \notin DOMAIN poolReserves, Output.address # Burn
      PROVE  Upper(out.fractions, supply)
  <2>1. sources = <<>>
    BY <1>1, <1>8 DEF ReserveSources
  <2> QED BY <1>6, <2>1, ZeroLemma DEF Upper, Plus
<1> QED BY <1>5, <1>7, <1>8 DEF Homely

\* So does every other output: what is filled from all reserves is frozen.
LEMMA OtherOutputsHome ==
  ASSUME Making, FrozenOutput \/ SharedFrozenOutput \/ SharedVoluntaryOutput \/ SharedEmptyOutput,
         phase' # "failed", NEW out, OutputStep(out)
  PROVE  Homely(out)
<1>1. n \in DOMAIN poolFrozen
  BY DEF FrozenOutput, SharedFrozenOutput, SharedVoluntaryOutput, SharedEmptyOutput, IsSetAside, IsSharing
<1>2. \A a \in DOMAIN poolReserves : \A k \in Indexes : poolReserves[a][k] \in Int
  BY AmountType DEF Making, PoolInv, IsPool
<1>3. CASE poolReserves' = poolReserves
  <2>1. \A a \in DOMAIN poolReserves : \A k \in Indexes : poolReserves'[a][k] <= poolReserves[a][k]
    BY <1>2, <1>3
  <2> QED BY <1>1, <1>3, <2>1 DEF Homely
<1>4. CASE SharedFrozenOutput
  <2>1. /\ IsListing(FrozenSources, DOMAIN poolReserves) /\ FrozenQuota \in Nat /\ FrozenQuota <= Output.value
        /\ FillOutput(FrozenSources, FrozenQuota, "F")
    BY <1>1, <1>4, FrozenSourcesLemma, QuotaLemma DEF SharedFrozenOutput
  <2>2. PICK N, given, moved, rest, liquid, x : Filled(N, FrozenSources, FrozenQuota, "F", given, moved, rest, liquid, x)
    BY <2>1, FillFacts
  <2>3. /\ DOMAIN poolReserves' = DOMAIN poolReserves
        /\ \A a \in DOMAIN poolReserves : \A k \in Indexes : poolReserves'[a][k] <= poolReserves[a][k]
    BY <2>2, FilledShrinks
  <2> QED BY <1>1, <2>3 DEF Homely
<1> QED BY <1>3, <1>4 DEF FrozenOutput, SharedVoluntaryOutput, SharedEmptyOutput, pools

\* What marking does to an output a notary names.
LEMMA MarkedFacts ==
  ASSUME Taking, IsFreezing, ~ BadNotary
  PROVE  /\ DOMAIN MarkedFrozen = DOMAIN poolFrozen \union Named
         /\ \A o \in DOMAIN poolFrozen : o \notin Named => MarkedFrozen[o] = poolFrozen[o]
         /\ \A o \in Named : LET old == At(poolFrozen, o, Unfrozen)
                             IN  /\ old \in FrozenOuts /\ ~ old.fIsColdOutput /\ old.mark \in {"", Place.notary}
                                 /\ MarkedFrozen[o].mark = Place.notary
                                 /\ MarkedFrozen[o].fractions = old.fractions
                                 /\ MarkedFrozen[o].fIsColdOutput = old.fIsColdOutput
<1>1. PICK m : m = MarkedFrozen
  OBVIOUS
<1>2. PICK both : both = {Place.refs[1], Place.refs[2]}
  OBVIOUS
<1>3. PICK pair : pair = (Len(Place.refs) = 2)
  OBVIOUS
<1>4. /\ DOMAIN m = DOMAIN poolFrozen \union Named
      /\ \A o \in DOMAIN m : o \notin Named => m[o] = poolFrozen[o]
      /\ \A o \in Named : m[o] = [At(poolFrozen, o, Unfrozen) EXCEPT
                                    !.nValue = tx.vout[o].value, !.sAddress = Input.address, !.mark = Place.notary,
                                    !.fair = IF pair /\ o = Min(both) THEN <<o, Max(both)>> ELSE @]
  BY <1>1, <1>2, <1>3 DEF MarkedFrozen
<1>5. ASSUME NEW o \in Named
      PROVE  LET old == At(poolFrozen, o, Unfrozen)
             IN  /\ old \in FrozenOuts /\ ~ old.fIsColdOutput /\ old.mark \in {"", Place.notary}
                 /\ m[o].mark = Place.notary
                 /\ m[o].fractions = old.fractions
                 /\ m[o].fIsColdOutput = old.fIsColdOutput
  <2>1. PICK p : p = At(poolFrozen, o, Unfrozen)
    OBVIOUS
  <2>2. p \in FrozenOuts
    BY <2>1, UnfrozenLemma DEF At, Taking, FrozenInv, GoodFrozen
  <2>3. ~ p.fIsColdOutput /\ p.mark \in {"", Place.notary}
    BY <2>1 DEF BadNotary
  <2>4. m[o] = [p EXCEPT !.nValue = tx.vout[o].value, !.sAddress = Input.address, !.mark = Place.notary,
                         !.fair = IF pair /\ o = Min(both) THEN <<o, Max(both)>> ELSE @]
    BY <1>4, <2>1
  <2>5. m[o].mark = Place.notary /\ m[o].fractions = p.fractions /\ m[o].fIsColdOutput = p.fIsColdOutput
    BY <2>2, <2>4 DEF FrozenOuts
  <2> QED BY <2>1, <2>2, <2>3, <2>5
<1> QED BY <1>1, <1>4, <1>5

\* The reserve a deduction leaves is no more than there was.
LEMMA DeductShrinks ==
  ASSUME Taking, NEW part, NEW r, NEW l, NEW a, Deducted(part, r, l, a)
  PROVE  /\ DOMAIN r = DOMAIN ReserveWithInput
         /\ \A b \in DOMAIN ReserveWithInput : \A k \in Indexes : r[b][k] <= ReserveWithInput[b][k]
<1>1. DOMAIN r = DOMAIN ReserveWithInput
  BY DEF Deducted
<1>2. IsPool(ReserveWithInput)
  BY WithInputLemma
<1>3. ASSUME NEW b \in DOMAIN ReserveWithInput, NEW k \in Indexes PROVE r[b][k] <= ReserveWithInput[b][k]
  <2>1. ReserveWithInput[b][k] \in Int
    BY <1>2, AmountType DEF IsPool
  <2>2. CASE b = a
    <3>1. r[b][k] = ReserveWithInput[b][k] - LowPart(part, supply)[k]
      BY <2>2 DEF Deducted, Minus
    <3>2. LowPart(part, supply)[k] \in Nat
      <4>1. part[k] \in Nat
        BY AmountType DEF Deducted
      <4> QED BY <4>1 DEF LowPart
    <3> QED BY <2>1, <3>1, <3>2
  <2>3. CASE b # a
    <3>1. r[b] = ReserveWithInput[b]
      BY <1>1, <2>3 DEF Deducted
    <3> QED BY <2>1, <3>1
  <2> QED BY <2>2, <2>3
<1> QED BY <1>1, <1>3

\* Every way to take an input keeps the reserve of an address within what its
\* inputs brought.
LEMMA InputsHome ==
  ASSUME Taking, HomeInv, PoolInv', TakeInput \/ TakeColdInput \/ FreezeShared \/ FreezeOne
  PROVE  HomeInv'
<1>1. n' = n + 1 /\ tx' = tx /\ supply' = supply /\ phase' = phase /\ outs' = outs
  BY DEF TakeInput, TakeColdInput, FreezeShared, FreezeOne, InputTaken
<1>2. /\ DOMAIN poolReserves' = DOMAIN ReserveWithInput
      /\ \A a \in DOMAIN ReserveWithInput : \A k \in Indexes : poolReserves'[a][k] <= ReserveWithInput[a][k]
  <2>1. CASE TakeInput \/ FreezeShared
    <3>1. poolReserves' = ReserveWithInput
      BY <2>1 DEF TakeInput, FreezeShared
    <3>2. IsPool(ReserveWithInput)
      BY WithInputLemma
    <3>3. \A a \in DOMAIN ReserveWithInput : \A k \in Indexes : ReserveWithInput[a][k] \in Int
      BY <3>2, AmountType DEF IsPool
    <3> QED BY <3>1, <3>3
  <2>2. CASE TakeColdInput
    <3>1. PICK part : ColdTakenAs(part)
      BY <2>2, ColdFacts
    <3>2. Deducted(Input.fractions, poolReserves', poolLiquidity', Input.address)
      BY <3>1 DEF ColdTakenAs
    <3> QED BY <3>2, DeductShrinks
  <2>3. CASE FreezeOne
    <3>1. PICK o, part : FrozenOne(o, part)
      BY <2>3, FreezeOneFacts
    <3>2. Deducted(part, poolReserves', poolLiquidity', Input.address)
      BY <3>1 DEF FrozenOne
    <3> QED BY <3>2, DeductShrinks
  <2> QED BY <2>1, <2>2, <2>3
<1> QED BY <1>1, <1>2, InputHome

\* What L and V set aside, or make an output of, is liquid; a frozen output
\* without mark is a cold one.
LiquidFrozen(map) ==
  \A o \in DOMAIN map :
    /\ map[o].mark \in {"L", "V"} => Upper(map[o].fractions, supply)
    /\ map[o].mark = "" => map[o].fIsColdOutput
LiquidInv ==
  /\ LiquidFrozen(poolFrozen)
  /\ \A o \in DOMAIN outs : outs[o].mark \in {"L", "V"} => Upper(outs[o].fractions, supply)

\* Marking outputs L or V leaves them liquid.
LEMMA MarkedLiquid ==
  ASSUME Taking, IsFreezing, ~ BadNotary, LiquidFrozen(poolFrozen)
  PROVE  LiquidFrozen(MarkedFrozen)
<1> SUFFICES ASSUME NEW o \in DOMAIN MarkedFrozen
             PROVE  /\ MarkedFrozen[o].mark \in {"L", "V"} => Upper(MarkedFrozen[o].fractions, supply)
                    /\ MarkedFrozen[o].mark = "" => MarkedFrozen[o].fIsColdOutput
  BY DEF LiquidFrozen
<1>1. CASE o \notin Named
  <2>1. o \in DOMAIN poolFrozen /\ MarkedFrozen[o] = poolFrozen[o]
    BY <1>1, MarkedFacts
  <2> QED BY <2>1 DEF LiquidFrozen
<1>2. CASE o \in Named
  <2>1. PICK old : old = At(poolFrozen, o, Unfrozen)
    OBVIOUS
  <2>2. /\ ~ old.fIsColdOutput /\ old.mark \in {"", Place.notary}
        /\ MarkedFrozen[o].mark = Place.notary /\ MarkedFrozen[o].fractions = old.fractions
    BY <1>2, <2>1, MarkedFacts
  <2>3. Place.notary # ""
    BY DEF IsFreezing, Freezes
  <2>4. CASE o \in DOMAIN poolFrozen
    <3>1. old = poolFrozen[o]
      BY <2>1, <2>4 DEF At
    <3>2. old.mark = Place.notary
      BY <2>2, <2>4, <3>1 DEF LiquidFrozen
    <3> QED BY <2>2, <2>3, <2>4, <3>1, <3>2 DEF LiquidFrozen
  <2>5. CASE o \notin DOMAIN poolFrozen
    <3>1. old = Unfrozen
      BY <2>1, <2>5 DEF At
    <3>2. old.fractions = Zero
      BY <3>1, UnfrozenLemma
    <3> QED BY <2>2, <2>3, <3>2, ZeroLemma DEF Upper
  <2> QED BY <2>4, <2>5
<1> QED BY <1>1, <1>2

\* Fractions with nothing in all have nothing of any.
LEMMA EmptyTotal ==
  ASSUME NEW f \in Fractions, Total(f) = 0
  PROVE  f = Zero
<1>1. \A k \in Indexes : f[k] \in Nat
  BY AmountType
<1>2. \A k \in Indexes : f[k] <= Total(f)
  BY <1>1, TotalNat
<1>3. \A k \in Indexes : f[k] = 0
  BY <1>1, <1>2
<1> QED BY <1>3, ZeroLemma, SameFractions

\* Nothing is taken for nothing.
LEMMA RatioPartOfNothing ==
  ASSUME NEW f \in Fractions
  PROVE  RatioPart(f, 0) = Zero
<1>1. PICK g : g = RatioPart(f, 0)
  OBVIOUS
<1>2. g \in Fractions /\ Total(g) = Least(0, Total(f))
  BY <1>1, RatioPartIsExact
<1>3. Total(f) \in Nat
  BY TotalNat DEF Fractions
<1>4. Total(g) = 0
  BY <1>2, <1>3, LeastLemma
<1> QED BY <1>1, <1>2, <1>4, EmptyTotal

\* Every way to take an input keeps what L and V set aside liquid.  A cold
\* input at a place they marked finds an output worth nothing.
LEMMA InputsLiquid ==
  ASSUME Taking, LiquidInv, TakeInput \/ TakeColdInput \/ FreezeShared \/ FreezeOne
  PROVE  LiquidInv'
<1>1. supply' = supply /\ outs' = outs
  BY DEF TakeInput, TakeColdInput, FreezeShared, FreezeOne, InputTaken
<1>2. LiquidFrozen(poolFrozen) /\ outs = <<>>
  BY DEF LiquidInv, Taking, PhaseInv
<1>3. LiquidFrozen(poolFrozen')
  <2>1. CASE TakeInput
    BY <1>2, <2>1 DEF TakeInput
  <2>2. CASE FreezeShared
    BY <1>2, <2>2, MarkedLiquid DEF FreezeShared, Accepted
  <2>3. CASE FreezeOne
    <3>1. PICK o, part : FrozenOne(o, part)
      BY <2>3, FreezeOneFacts
    <3>2. IsFreezing /\ ~ BadNotary
      BY <2>3 DEF FreezeOne, Accepted
    <3>3. PICK m : m = MarkedFrozen
      OBVIOUS
    <3>4. /\ LiquidFrozen(m) /\ o \in DOMAIN m /\ m[o].mark = Place.notary /\ m[o] \in FrozenOuts
          /\ Place.notary # "" /\ Place.notary \in Freezes
      <4>1. o \in Named
        BY <3>1 DEF FrozenOne
      <4>2. o \in DOMAIN m /\ m[o].mark = Place.notary
        BY <3>2, <3>3, <4>1, MarkedFacts
      <4>3. m[o] \in FrozenOuts
        BY <3>1, <3>3 DEF FrozenOne
      <4>4. Place.notary # "" /\ Place.notary \in Freezes
        BY <3>2 DEF IsFreezing, Freezes
      <4> QED BY <1>2, <3>2, <3>3, <4>2, <4>3, <4>4, MarkedLiquid
    <3>5. /\ DOMAIN poolFrozen' = DOMAIN m /\ \A p \in DOMAIN m : p # o => poolFrozen'[p] = m[p]
          /\ poolFrozen'[o] = [m[o] EXCEPT !.fractions = Plus(@, part)]
      BY <3>1, <3>3 DEF FrozenOne
    <3>6. poolFrozen'[o].mark = m[o].mark /\ poolFrozen'[o].fractions = Plus(m[o].fractions, part)
      BY <3>4, <3>5 DEF FrozenOuts
    <3>7. m[o].mark \in {"L", "V"} => Upper(part, supply)
      <4> SUFFICES ASSUME m[o].mark \in {"L", "V"} PROVE Upper(part, supply)
        OBVIOUS
      <4>1. PICK a : a = Input.address
        OBVIOUS
      <4>2. part = MovedPart(LiquidityWithInput[a], tx.vout[o].value)
        BY <3>1, <3>4, <4>1 DEF FrozenOne
      <4>3. /\ LiquidityWithInput[a] \in Fractions /\ Upper(LiquidityWithInput[a], supply)
        BY <4>1, WithInputLemma DEF IsPool
      <4>4. tx.vout[o].value \in Nat
        <5>1. o \in DOMAIN tx.vout
          BY <3>1, <3>2, NamedLemma DEF FrozenOne
        <5> QED BY <5>1, OutsLemma DEF Taking
      <4>5. PICK f \in Fractions : f = LiquidityWithInput[a]
        BY <4>3
      <4>6. part \in Fractions /\ \A k \in Indexes : part[k] <= f[k]
        BY <4>2, <4>4, <4>5, MovedPartLemma
      <4>7. \A k \in Indexes : part[k] \in Nat /\ (k < supply => f[k] = 0)
        BY <4>3, <4>5, <4>6, AmountType DEF Upper
      <4> QED BY <4>6, <4>7 DEF Upper
    <3>8. ASSUME NEW p \in DOMAIN poolFrozen'
          PROVE  /\ poolFrozen'[p].mark \in {"L", "V"} => Upper(poolFrozen'[p].fractions, supply)
                 /\ poolFrozen'[p].mark = "" => poolFrozen'[p].fIsColdOutput
      <4>1. CASE p # o
        BY <3>4, <3>5, <3>8, <4>1 DEF LiquidFrozen
      <4>2. CASE p = o
        <5>1. poolFrozen'[p].mark # ""
          BY <3>4, <3>6, <4>2
        <5>2. ASSUME poolFrozen'[p].mark \in {"L", "V"} PROVE Upper(poolFrozen'[p].fractions, supply)
          <6>1. Upper(part, supply) /\ Upper(m[o].fractions, supply)
            BY <3>4, <3>6, <3>7, <4>2, <5>2 DEF LiquidFrozen
          <6> QED BY <3>6, <4>2, <6>1 DEF Upper, Plus
        <5> QED BY <5>1, <5>2
      <4> QED BY <4>1, <4>2
    <3> QED BY <3>8 DEF LiquidFrozen
  <2>4. CASE TakeColdInput
    <3>1. PICK part : ColdTakenAs(part)
      BY <2>4, ColdFacts
    <3>2. PICK old : old = At(poolFrozen, n, Unfrozen)
      OBVIOUS
    <3>3. /\ part = RatioPart(Input.fractions, Place.value) /\ n \in DOMAIN tx.vout /\ Place.value \in Nat
          /\ DOMAIN poolFrozen' = DOMAIN poolFrozen \union {n}
          /\ \A o \in DOMAIN poolFrozen : o # n => poolFrozen'[o] = poolFrozen[o]
          /\ poolFrozen'[n].fractions = Plus(old.fractions, part) /\ poolFrozen'[n].fIsColdOutput
          /\ poolFrozen'[n].mark = IF Place.address = Input.home THEN old.mark ELSE "F"
      BY <3>1, <3>2 DEF ColdTakenAs
    <3>4. ASSUME poolFrozen'[n].mark \in {"L", "V"} PROVE Upper(poolFrozen'[n].fractions, supply)
      <4>1. old.mark \in {"L", "V"}
        BY <3>3, <3>4
      <4>2. n \in DOMAIN poolFrozen /\ old = poolFrozen[n]
        BY <3>2, <4>1 DEF At, Unfrozen
      <4>3. Upper(old.fractions, supply)
        BY <1>2, <4>1, <4>2 DEF LiquidFrozen
      <4>4. old.nValue = Place.value
        BY <4>2 DEF Taking, FrozenInv, GoodFrozen, Place
      <4>5. ~ (old.nValue > 0)
        BY <2>4, <3>2 DEF TakeColdInput, Accepted, ColdTaken
      <4>6. Place.value = 0
        BY <3>3, <4>4, <4>5
      <4>7. part = Zero
        BY <3>3, <4>6, InputLemma, RatioPartOfNothing
      <4> QED BY <3>3, <4>3, <4>7, ZeroLemma DEF Upper, Plus
    <3> QED BY <1>2, <3>3, <3>4 DEF LiquidFrozen
  <2> QED BY <2>1, <2>2, <2>3, <2>4
<1>4. DOMAIN outs' = {}
  BY <1>1, <1>2
<1> QED BY <1>1, <1>3, <1>4 DEF LiquidInv, LiquidFrozen

\* An output made keeps the others' marks.
LEMMA OutputLiquid ==
  ASSUME Making, LiquidInv, NEW out, OutputStep(out), out.mark \in {"L", "V"} => Upper(out.fractions, supply)
  PROVE  LiquidInv'
<1>1. outs \in Seq(MadeOuts) /\ Len(outs) = n - 1 /\ DOMAIN outs = 1..(n - 1) /\ n \in Nat \ {0}
  BY MakingLemma
<1>2. outs' = Append(outs, out) /\ supply' = supply /\ poolFrozen' = poolFrozen
  BY DEF OutputStep
<1>3. /\ DOMAIN outs' = 1..n /\ outs'[n] = out /\ \A o \in 1..(n - 1) : outs'[o] = outs[o]
  BY <1>1, <1>2
<1>4. ASSUME NEW o \in DOMAIN outs', outs'[o].mark \in {"L", "V"} PROVE Upper(outs'[o].fractions, supply)
  <2>1. CASE o = n
    BY <1>3, <1>4, <2>1
  <2>2. CASE o # n
    <3>1. o \in 1..(n - 1)
      BY <1>1, <1>3, <2>2
    <3> QED BY <1>1, <1>3, <1>4, <3>1 DEF LiquidInv
  <2> QED BY <2>1, <2>2
<1>5. LiquidFrozen(poolFrozen)
  BY DEF LiquidInv
<1> QED BY <1>2, <1>4, <1>5 DEF LiquidInv, LiquidFrozen

\* Outputs marked L or V are made of liquidity.
LEMMA OutputsLiquid ==
  ASSUME Making, LiquidInv, phase' # "failed", NEW out, OutputStep(out),
         PlainOutput \/ FrozenOutput \/ SharedFrozenOutput \/ SharedVoluntaryOutput \/ SharedEmptyOutput
  PROVE  out.mark \in {"L", "V"} => Upper(out.fractions, supply)
<1>1. CASE PlainOutput \/ SharedFrozenOutput
  <2>1. PICK sources, quota, mark : FillOutput(sources, quota, mark) /\ mark \in {"", "F"}
    BY <1>1 DEF PlainOutput, SharedFrozenOutput
  <2>2. PICK f : outs' = Append(outs, [mark |-> mark, fractions |-> f])
    BY <2>1 DEF FillOutput, Refuse
  <2>3. out = [mark |-> mark, fractions |-> f]
    BY <2>2, LastMade
  <2> QED BY <2>1, <2>3
<1>2. CASE FrozenOutput
  <2>1. outs' = Append(outs, [mark |-> poolFrozen[n].mark, fractions |-> poolFrozen[n].fractions])
    BY <1>2 DEF FrozenOutput
  <2>2. out = [mark |-> poolFrozen[n].mark, fractions |-> poolFrozen[n].fractions]
    BY <2>1, LastMade
  <2>3. n \in DOMAIN poolFrozen
    BY <1>2 DEF FrozenOutput, IsSetAside
  <2> QED BY <2>2, <2>3 DEF LiquidInv, LiquidFrozen
<1>3. CASE SharedVoluntaryOutput
  <2>1. PICK liquid : liquid = MovedPart(frCommonLiquidity, Output.value)
    OBVIOUS
  <2>2. outs' = Append(outs, [mark |-> "V", fractions |-> liquid])
    BY <1>3, <2>1 DEF SharedVoluntaryOutput
  <2>3. out = [mark |-> "V", fractions |-> liquid]
    BY <2>2, LastMade
  <2>4. Output.value \in Nat
    BY MakingLemma
  <2>5. Upper(liquid, supply)
    BY <2>1, <2>4, LiquidMoved
  <2> QED BY <2>3, <2>5
<1>4. CASE SharedEmptyOutput
  <2>1. outs' = Append(outs, [mark |-> "", fractions |-> Zero])
    BY <1>4 DEF SharedEmptyOutput
  <2>2. out = [mark |-> "", fractions |-> Zero]
    BY <2>1, LastMade
  <2> QED BY <2>2
<1> QED BY <1>1, <1>2, <1>3, <1>4

\* Together, on top of IInv
ReserveInv == tx.reward = Null /\ phase # "failed" => HomeInv /\ LiquidInv

\* It holds before the first input.
LEMMA StartReserve == Starting => ReserveInv
<1> SUFFICES ASSUME Starting PROVE HomeInv /\ LiquidInv
  BY DEF ReserveInv
<1>1. /\ phase = "inputs" /\ n = 1 /\ poolReserves = <<>> /\ poolFrozen = <<>> /\ outs = <<>>
  BY DEF Starting
<1>2. DOMAIN <<>> = {}
  OBVIOUS
<1>3. TakenIns = {}
  BY <1>1 DEF TakenIns
<1>4. \A a : Spent(a) = Zero
  BY <1>1, NothingSpent
<1>5. HomeInv
  BY <1>1, <1>2, <1>3, <1>4, ZeroLemma DEF HomeInv, Upper
<1>6. LiquidInv
  BY <1>1, <1>2 DEF LiquidInv, LiquidFrozen
<1> QED BY <1>5, <1>6

\* So it does at the start of a behaviour.
LEMMA InitReserve == Init => ReserveInv
<1> SUFFICES ASSUME Init, tx.reward = Null PROVE ReserveInv
  BY DEF ReserveInv
<1>1. TxInv
  BY InitInv DEF IInv
<1>2. Starting
  BY <1>1 DEF Init, Starting
<1> QED BY <1>2, StartReserve

\* ReserveInv depends on these variables.
LEMMA ReserveSame ==
  ASSUME ReserveInv, tx' = tx, supply' = supply, poolReserves' = poolReserves, poolFrozen' = poolFrozen, outs' = outs,
         phase # "failed", TakenIns' = TakenIns
  PROVE  ReserveInv'
<1>1. ASSUME tx.reward = Null PROVE HomeInv' /\ LiquidInv'
  <2>1. HomeInv /\ LiquidInv
    BY <1>1 DEF ReserveInv
  <2>2. \A a : Spent(a)' = Spent(a) /\ Brought(a)' = Brought(a)
    BY DEF Spent, Plain, Brought
  <2>3. HomeInv'
    BY <2>1, <2>2 DEF HomeInv, Upper
  <2>4. LiquidInv'
    BY <2>1 DEF LiquidInv, LiquidFrozen, Upper
  <2> QED BY <2>3, <2>4
<1> QED BY <1>1 DEF ReserveInv

\* Every step keeps it.
LEMMA NextReserve == IInv /\ IInv' /\ ReserveInv /\ [Next]_vars => ReserveInv'
<1> SUFFICES ASSUME IInv, IInv', ReserveInv, [Next]_vars, tx'.reward = Null, phase' # "failed" PROVE ReserveInv'
  BY DEF ReserveInv
<1>1. CASE UNCHANGED vars
  <2>1. /\ tx' = tx /\ supply' = supply /\ poolReserves' = poolReserves /\ poolFrozen' = poolFrozen /\ outs' = outs
        /\ phase' = phase /\ n' = n
    BY <1>1 DEF vars, pools
  <2>2. TakenIns' = TakenIns /\ phase # "failed"
    BY <2>1 DEF TakenIns
  <2> QED BY <2>1, <2>2, ReserveSame
<1>2. CASE Next
  <2>1. tx' = tx /\ supply' = supply
    BY <1>2, FillFails DEF Next, RefuseInput, Refuse, TakeInput, TakeColdInput, FreezeShared, FreezeOne, InputTaken,
       ShareLiquidity, PlainOutput, FrozenOutput, SharedFrozenOutput, SharedVoluntaryOutput, SharedEmptyOutput, Finish,
       CalculateStakingFractions
  <2>2. TxInv /\ phase \in {"inputs", "outputs", "done", "failed"} /\ (phase # "failed" => Sound) /\ PoolInv'
    BY <2>1 DEF IInv, Sound
  <2>3. ~ RefuseInput
    BY DEF RefuseInput, Refuse
  <2>4. CASE TakeInput \/ TakeColdInput \/ FreezeShared \/ FreezeOne
    <3>1. phase = "inputs" /\ n <= Len(tx.vin)
      BY <2>4 DEF TakeInput, TakeColdInput, FreezeShared, FreezeOne, Accepted
    <3>2. Taking
      BY <2>2, <3>1 DEF Taking, Sound
    <3>3. HomeInv /\ LiquidInv
      BY <2>1, <3>1 DEF ReserveInv
    <3>4. HomeInv'
      BY <2>2, <2>4, <3>2, <3>3, InputsHome
    <3>5. LiquidInv'
      BY <2>4, <3>2, <3>3, InputsLiquid
    <3> QED BY <3>4, <3>5 DEF ReserveInv
  <2>5. CASE ShareLiquidity \/ Finish
    <3>1. /\ phase # "failed" /\ poolReserves' = poolReserves /\ poolFrozen' = poolFrozen /\ outs' = outs
      BY <2>5 DEF ShareLiquidity, Finish, pools
    <3>2. TakenIns' = TakenIns
      <4>1. DOMAIN tx.vin = 1..Len(tx.vin) /\ Len(tx.vin) \in Nat
        BY <2>2, TakenLemma
      <4>2. CASE ShareLiquidity
        <5>1. n = Len(tx.vin) + 1
          BY <2>2, <4>1, <4>2 DEF ShareLiquidity, Sound, PhaseInv
        <5>2. 1..(n - 1) = DOMAIN tx.vin
          BY <4>1, <5>1
        <5> QED BY <2>1, <4>2, <5>2 DEF ShareLiquidity, TakenIns
      <4>3. CASE Finish
        BY <2>1, <4>3 DEF Finish, TakenIns
      <4> QED BY <2>5, <4>2, <4>3
    <3> QED BY <2>1, <3>1, <3>2, ReserveSame
  <2>6. CASE PlainOutput \/ FrozenOutput \/ SharedFrozenOutput \/ SharedVoluntaryOutput \/ SharedEmptyOutput
    <3>1. phase = "outputs" /\ n <= Len(tx.vout)
      BY <2>6 DEF PlainOutput, FrozenOutput, SharedFrozenOutput, SharedVoluntaryOutput, SharedEmptyOutput
    <3>2. Making
      BY <2>2, <3>1 DEF Making, Sound
    <3>3. HomeInv /\ LiquidInv
      BY <2>1, <3>1 DEF ReserveInv
    <3>4. Made1
      BY <2>6, <3>2, PlainOutputStep, FrozenOutputStep, SharedFrozenOutputStep, SharedVoluntaryOutputStep,
         SharedEmptyOutputStep
    <3>5. PICK out : OutputStep(out)
      BY <3>4 DEF Made1
    <3>6. Homely(out)
      BY <2>6, <3>2, <3>5, PlainOutputHome, OtherOutputsHome
    <3>7. HomeInv'
      BY <2>2, <3>2, <3>3, <3>5, <3>6, OutputHome
    <3>8. out.mark \in {"L", "V"} => Upper(out.fractions, supply)
      BY <2>6, <3>2, <3>3, <3>5, OutputsLiquid
    <3>9. LiquidInv'
      BY <3>2, <3>3, <3>5, <3>8, OutputLiquid
    <3> QED BY <3>7, <3>9 DEF ReserveInv
  <2>7. CASE CalculateStakingFractions
    BY <2>2, <2>7 DEF CalculateStakingFractions
  <2> QED BY <1>2, <2>3, <2>4, <2>5, <2>6, <2>7 DEF Next
<1> QED BY <1>1, <1>2

\* What is below the supply index is compared fraction by fraction.
LEMMA LowMonotone ==
  ASSUME NEW f \in Fractions, NEW g \in Fractions, supply \in Indexes, \A k \in Indexes : k < supply => f[k] <= g[k]
  PROVE  Low(f, supply) <= Low(g, supply)
<1>1. \A k \in Indexes : f[k] \in Int /\ g[k] \in Int
  BY AmountType
<1>2. PICK S : S = 0..(supply - 1)
  OBVIOUS
<1>3. S \subseteq Indexes /\ \A k \in S : k < supply
  BY <1>2, PegSizeAssumption DEF Indexes
<1>4. IsFiniteSet(S)
  BY <1>3, IndexesFinite, FS_Subset
<1>5. \A k \in S : f[k] \in Int /\ g[k] \in Int /\ f[k] <= g[k]
  BY <1>1, <1>3
<1>6. SumOf(f, S) <= SumOf(g, S)
  BY <1>4, <1>5, SumMonotone
<1> QED BY <1>2, <1>6 DEF Low, Between

\* Liquid has nothing below the supply index.
LEMMA LowOfLiquid ==
  ASSUME NEW f \in Fractions, supply \in Indexes, Upper(f, supply)
  PROVE  Low(f, supply) = 0
<1>1. PICK S : S = 0..(supply - 1)
  OBVIOUS
<1>2. S \subseteq Indexes /\ \A k \in S : k < supply
  BY <1>1, PegSizeAssumption DEF Indexes
<1>3. IsFiniteSet(S)
  BY <1>2, IndexesFinite, FS_Subset
<1>4. \A k \in S : f[k] = 0
  BY <1>2 DEF Upper
<1>5. SumOf(f, S) = 0
  BY <1>3, <1>4, SumZero
<1> QED BY <1>1, <1>5 DEF Low, Between

\* At the end it says what the property does.
LEMMA ReserveInvHome == IInv /\ ReserveInv => ReserveStaysHome
<1> SUFFICES ASSUME IInv, ReserveInv, phase = "done", tx.reward = Null
             PROVE  LET plain(a) == {o \in DOMAIN outs \ DOMAIN poolFrozen :
                                       tx.vout[o].address = a /\ tx.vout[o].notary \in {"", "Z"}}
                        brought(a) == SumOver(FractionsOf(tx.vin), {i \in DOMAIN tx.vin : tx.vin[i].address = a})
                    IN  /\ \A a \in {tx.vout[o].address : o \in DOMAIN outs} \ ({Burn} \ InputAddresses) :
                             Low(SumOver(FractionsOf(outs), plain(a)), supply) <= Low(brought(a), supply)
                        /\ \A o \in DOMAIN outs : outs[o].mark \in {"L", "V"} => Low(outs[o].fractions, supply) = 0
  BY DEF ReserveStaysHome
<1>1. TxInv /\ PoolInv /\ PhaseInv /\ HomeInv /\ LiquidInv /\ supply \in Indexes
  BY DEF IInv, ReserveInv, TxInv
<1>2. TakenIns = DOMAIN tx.vin /\ DOMAIN tx.vin = 1..Len(tx.vin)
  BY <1>1, TakenLemma DEF TakenIns
<1>3. /\ outs \in Seq(MadeOuts) /\ DOMAIN outs \subseteq DOMAIN tx.vout
      /\ IsPool(FractionsOf(outs)) /\ DOMAIN FractionsOf(outs) = DOMAIN outs
  <2>1. outs \in Seq(MadeOuts) /\ Len(outs) = n - 1 /\ n <= Len(tx.vout) + 1 /\ n \in Nat
    BY <1>1 DEF PhaseInv
  <2>2. DOMAIN tx.vout = 1..Len(tx.vout) /\ Len(tx.vout) \in Nat
    BY <1>1, OutsLemma
  <2>3. DOMAIN outs = 1..Len(outs)
    BY <2>1
  <2> QED BY <2>1, <2>2, <2>3, MadeLemma
<1>4. \A a : /\ Spent(a) \in Fractions /\ Brought(a) \in Fractions
             /\ Brought(a) = SumOver(FractionsOf(tx.vin), {i \in DOMAIN tx.vin : tx.vin[i].address = a})
  <2> SUFFICES ASSUME NEW a
               PROVE  /\ Spent(a) \in Fractions /\ Brought(a) \in Fractions
                      /\ Brought(a) = SumOver(FractionsOf(tx.vin), {i \in DOMAIN tx.vin : tx.vin[i].address = a})
    OBVIOUS
  <2>1. Plain(a) \subseteq DOMAIN outs
    BY DEF Plain
  <2>2. Spent(a) \in Fractions
    BY <1>3, <2>1, PoolSum DEF Spent
  <2>3. Brought(a) = SumOver(FractionsOf(tx.vin), {i \in DOMAIN tx.vin : tx.vin[i].address = a})
    BY <1>2 DEF Brought
  <2>4. {i \in DOMAIN tx.vin : tx.vin[i].address = a} \subseteq 1..Len(tx.vin)
    BY <1>2
  <2> QED BY <1>1, <2>2, <2>3, <2>4, BroughtType
<1>5. ASSUME NEW a \in {tx.vout[o].address : o \in DOMAIN outs} \ ({Burn} \ InputAddresses)
      PROVE  Low(Spent(a), supply) <= Low(Brought(a), supply)
  <2>1. a \in Nat /\ (a = Burn => a \in InputAddresses)
    BY <1>1, <1>3, OutsLemma DEF TxOuts
  <2>2. DOMAIN poolReserves = InputAddresses
    BY <1>1, <1>2 DEF HomeInv, InputAddresses
  <2>3. ASSUME NEW k \in Indexes, k < supply PROVE Spent(a)[k] <= Brought(a)[k]
    <3>1. Spent(a)[k] \in Nat /\ Brought(a)[k] \in Nat
      BY <1>4, AmountType
    <3>2. CASE a \in DOMAIN poolReserves
      <4>1. poolReserves[a][k] + Spent(a)[k] <= Brought(a)[k]
        BY <1>1, <2>3, <3>2 DEF HomeInv
      <4>2. poolReserves[a][k] \in Nat
        BY <1>1, <3>2, AmountType DEF PoolInv, IsPool
      <4> QED BY <3>1, <4>1, <4>2
    <3>3. CASE a \notin DOMAIN poolReserves
      <4>1. Spent(a)[k] = 0
        BY <1>1, <2>1, <2>2, <2>3, <3>3 DEF HomeInv, Upper
      <4> QED BY <3>1, <4>1
    <3> QED BY <3>2, <3>3
  <2>4. PICK f \in Fractions : f = Spent(a)
    BY <1>4
  <2>5. PICK g \in Fractions : g = Brought(a)
    BY <1>4
  <2>6. Low(f, supply) <= Low(g, supply)
    BY <1>1, <2>3, <2>4, <2>5, LowMonotone
  <2> QED BY <2>4, <2>5, <2>6
<1>6. ASSUME NEW o \in DOMAIN outs, outs[o].mark \in {"L", "V"} PROVE Low(outs[o].fractions, supply) = 0
  <2>1. PICK f \in Fractions : f = outs[o].fractions
    BY <1>3, MadeLemma DEF FractionsOf
  <2>2. Upper(f, supply)
    BY <1>1, <1>6, <2>1 DEF LiquidInv
  <2>3. Low(f, supply) = 0
    BY <1>1, <2>2, LowOfLiquid
  <2> QED BY <2>1, <2>3
<1> QED BY <1>4, <1>5, <1>6 DEF Spent, Plain

\* Reserve is spent by its own address: for any transaction, its plain outputs
\* to an address hold no more of it than the inputs of that address brought,
\* and outputs frozen by L or V none at all.
THEOREM ReserveStaysHomeAlways == Spec => []ReserveStaysHome
<1>1. Init => IInv /\ ReserveInv
  BY InitInv, InitReserve
<1>2. IInv /\ ReserveInv /\ [Next]_vars => (IInv /\ ReserveInv)'
  BY NextInv, NextReserve
<1>3. IInv /\ ReserveInv => ReserveStaysHome
  BY ReserveInvHome
<1> QED BY <1>1, <1>2, <1>3, PTL DEF Spec

-----------------------------------------------------------------------------
(* Cold coins                                                              *)

\* The cold inputs taken that have an output at their place
ColdIns == {i \in TakenIns \intersect DOMAIN tx.vout : tx.vin[i].mark = "C"}

\* What each of them gives that output
ColdParts == [i \in DOMAIN tx.vin |-> RatioPart(tx.vin[i].fractions, tx.vout[i].value)]

\* The places of cold inputs hold their part, and nothing else has it.
ColdPlaces ==
  \A i \in ColdIns :
    /\ i \in DOMAIN poolFrozen
    /\ poolFrozen[i].fIsColdOutput /\ poolFrozen[i].fractions = ColdParts[i]
    /\ tx.vout[i].value > 0 => poolFrozen[i].mark = IF tx.vout[i].address = tx.vin[i].home THEN "" ELSE "F"

\* What they do not give their outputs is the cold fee.
ColdFeeRest == Plus(SumOver(ColdParts, ColdIns), frColdFees) = SumOver(FractionsOf(tx.vin), ColdIns)

\* An output for which coins are set aside is made of them.
AsideMade ==
  \A o \in DOMAIN outs \intersect DOMAIN poolFrozen :
    Total(poolFrozen[o].fractions) # 0 =>
      outs[o].fractions = poolFrozen[o].fractions /\ outs[o].mark = poolFrozen[o].mark

\* What the last check has seen
Checked ==
  phase = "done" => /\ DOMAIN outs = DOMAIN tx.vout
                    /\ \A o \in DOMAIN outs : Total(outs[o].fractions) = tx.vout[o].value

ColdInv == tx.reward = Null /\ phase # "failed" => ColdPlaces /\ ColdFeeRest /\ AsideMade /\ Checked

\* A taken input adds its index, if it is cold and has a place.
LEMMA ColdInsNext ==
  ASSUME Taking, n' = n + 1, tx' = tx, phase' = phase
  PROVE  /\ ColdIns' = IF IsCold THEN ColdIns \union {n} ELSE ColdIns
         /\ n \notin ColdIns /\ ColdIns \subseteq 1..(n - 1) /\ ColdIns \subseteq DOMAIN tx.vin
         /\ IsFiniteSet(ColdIns) /\ ColdParts' = ColdParts
<1>1. n \in Nat \ {0} /\ phase = "inputs" /\ n \in 1..Len(tx.vin) /\ DOMAIN tx.vin = 1..Len(tx.vin) /\ Len(tx.vin) \in Nat
  BY InputLemma, TakenLemma DEF Taking, PhaseInv
<1>2. TakenIns = 1..(n - 1) /\ TakenIns' = 1..n
  <2>1. TakenIns' = 1..(n' - 1) /\ n' - 1 = n
    BY <1>1 DEF TakenIns
  <2> QED BY <1>1, <2>1 DEF TakenIns
<1>3. TakenIns' = TakenIns \union {n} /\ n \notin TakenIns /\ TakenIns \subseteq DOMAIN tx.vin /\ IsFiniteSet(TakenIns)
  <2>1. 1..n = 1..(n - 1) \union {n} /\ n \notin 1..(n - 1) /\ 1..(n - 1) \subseteq 1..Len(tx.vin)
    BY <1>1
  <2>2. IsFiniteSet(1..(n - 1))
    BY <1>1, FS_Interval
  <2> QED BY <1>1, <1>2, <2>1, <2>2
<1>4. DOMAIN tx.vout = 1..Len(tx.vout) /\ Len(tx.vout) \in Nat
  BY OutsLemma DEF Taking
<1>5. IsCold <=> n \in DOMAIN tx.vout /\ tx.vin[n].mark = "C"
  BY <1>1, <1>4 DEF IsCold, HasPlace, Input
<1>6. ColdIns \subseteq TakenIns
  BY DEF ColdIns
<1>7. ColdIns' = {i \in (TakenIns \union {n}) \intersect DOMAIN tx.vout : tx.vin[i].mark = "C"}
  BY <1>3 DEF ColdIns
<1>8. ColdIns' = IF IsCold THEN ColdIns \union {n} ELSE ColdIns
  BY <1>5, <1>7 DEF ColdIns
<1>9. ColdParts' = ColdParts
  BY DEF ColdParts
<1> QED BY <1>2, <1>3, <1>6, <1>8, <1>9, FS_Subset

\* What cold inputs give and keep are fractions.
LEMMA ColdPartsType ==
  ASSUME TxInv, NEW i \in DOMAIN tx.vin \intersect DOMAIN tx.vout
  PROVE  /\ ColdParts[i] \in Fractions /\ ColdParts[i] = RatioPart(tx.vin[i].fractions, tx.vout[i].value)
         /\ tx.vin[i].fractions \in Fractions /\ FractionsOf(tx.vin)[i] = tx.vin[i].fractions
         /\ tx.vout[i].value \in Nat /\ Total(tx.vin[i].fractions) \in Nat
         /\ Total(ColdParts[i]) = Least(tx.vout[i].value, Total(tx.vin[i].fractions))
<1>1. PICK f \in Fractions : f = tx.vin[i].fractions
  BY TakenLemma
<1>2. PICK v \in Nat : v = tx.vout[i].value
  BY OutsLemma
<1>3. ColdParts[i] = RatioPart(f, v)
  BY <1>1, <1>2 DEF ColdParts
<1>4. Total(f) \in Nat
  BY TotalNat DEF Fractions
<1>5. FractionsOf(tx.vin)[i] = tx.vin[i].fractions
  BY DEF FractionsOf
<1> QED BY <1>1, <1>2, <1>3, <1>4, <1>5, RatioPartIsExact

\* A notary leaves the places of cold inputs alone.
LEMMA MarkedCold ==
  ASSUME Taking, ColdPlaces, IsFreezing, ~ BadNotary
  PROVE  /\ ~ IsCold
         /\ \A i \in ColdIns : i \in DOMAIN poolFrozen /\ i \notin Named /\ i \in DOMAIN MarkedFrozen
                               /\ MarkedFrozen[i] = poolFrozen[i]
<1>1. ~ IsCold
  BY DEF BadNotary, IsFreezing, Freezes
<1>2. ASSUME NEW i \in ColdIns
      PROVE  i \in DOMAIN poolFrozen /\ i \notin Named /\ i \in DOMAIN MarkedFrozen /\ MarkedFrozen[i] = poolFrozen[i]
  <2>1. i \in DOMAIN poolFrozen /\ poolFrozen[i].fIsColdOutput
    BY DEF ColdPlaces
  <2>2. At(poolFrozen, i, Unfrozen) = poolFrozen[i]
    BY <2>1 DEF At
  <2>3. i \notin Named
    BY <2>1, <2>2 DEF BadNotary
  <2> QED BY <2>1, <2>3, MarkedFacts
<1> QED BY <1>1, <1>2

\* Inputs that are not cold leave cold coins alone.
LEMMA OtherInputsCold ==
  ASSUME Taking, ColdPlaces, ColdFeeRest, TakeInput \/ FreezeShared \/ FreezeOne
  PROVE  ColdPlaces' /\ ColdFeeRest'
<1>1. n' = n + 1 /\ tx' = tx /\ phase' = phase /\ frColdFees' = frColdFees
  BY DEF TakeInput, FreezeShared, FreezeOne, InputTaken
<1>2. ~ IsCold /\ \A i \in ColdIns : i \in DOMAIN poolFrozen' /\ poolFrozen'[i] = poolFrozen[i]
  <2>1. CASE TakeInput
    BY <2>1 DEF TakeInput, ColdPlaces
  <2>2. CASE FreezeShared
    <3>1. IsFreezing /\ ~ BadNotary /\ poolFrozen' = MarkedFrozen
      BY <2>2 DEF FreezeShared, Accepted
    <3> QED BY <3>1, MarkedCold
  <2>3. CASE FreezeOne
    <3>1. IsFreezing /\ ~ BadNotary
      BY <2>3 DEF FreezeOne, Accepted
    <3>2. PICK o, part : FrozenOne(o, part)
      BY <2>3, FreezeOneFacts
    <3>3. /\ o \in Named /\ DOMAIN poolFrozen' = DOMAIN MarkedFrozen
          /\ \A p \in DOMAIN MarkedFrozen : p # o => poolFrozen'[p] = MarkedFrozen[p]
      BY <3>2 DEF FrozenOne
    <3> QED BY <3>1, <3>3, MarkedCold
  <2> QED BY <2>1, <2>2, <2>3
<1>3. ColdIns' = ColdIns /\ ColdParts' = ColdParts
  BY <1>1, <1>2, ColdInsNext
<1>4. ColdPlaces'
  BY <1>1, <1>2, <1>3 DEF ColdPlaces
<1> QED BY <1>1, <1>3, <1>4 DEF ColdFeeRest

\* A cold input finds its place empty, and unmarked if the output has a value.
LEMMA ColdInputCold ==
  ASSUME Taking, ColdPlaces, ColdFeeRest, TakeColdInput
  PROVE  ColdPlaces' /\ ColdFeeRest'
<1>1. n' = n + 1 /\ tx' = tx /\ phase' = phase /\ IsCold /\ ~ ColdTaken
  BY DEF TakeColdInput, Accepted, InputTaken
<1>2. PICK part : ColdTakenAs(part)
  BY ColdFacts
<1>3. PICK old : old = At(poolFrozen, n, Unfrozen)
  OBVIOUS
<1>4. /\ n \in DOMAIN tx.vout /\ part = RatioPart(Input.fractions, Place.value) /\ part \in Fractions
      /\ \A k \in Indexes : part[k] <= Input.fractions[k]
      /\ old \in FrozenOuts /\ DOMAIN poolFrozen' = DOMAIN poolFrozen \union {n}
      /\ \A o \in DOMAIN poolFrozen : o # n => poolFrozen'[o] = poolFrozen[o]
      /\ poolFrozen'[n].fractions = Plus(old.fractions, part) /\ poolFrozen'[n].fIsColdOutput
      /\ poolFrozen'[n].mark = IF Place.address = Input.home THEN old.mark ELSE "F"
      /\ frColdFees' = Plus(frColdFees, Minus(Input.fractions, part))
  BY <1>2, <1>3 DEF ColdTakenAs
<1>5. n \in DOMAIN tx.vin
  BY InputLemma, TakenLemma DEF Taking
<1>6. ColdParts[n] = part
  BY <1>4, <1>5 DEF ColdParts, Input, Place
<1>7. /\ ColdIns' = ColdIns \union {n} /\ n \notin ColdIns /\ ColdIns \subseteq DOMAIN tx.vin
      /\ IsFiniteSet(ColdIns) /\ ColdParts' = ColdParts
  BY <1>1, ColdInsNext
<1>8. poolFrozen'[n].fractions = part
  <2>1. PICK f \in Fractions : f = old.fractions
    BY <1>4 DEF FrozenOuts
  <2>2. Total(f) = 0
    BY <1>1, <1>3, <2>1 DEF ColdTaken
  <2>3. f = Zero
    BY <2>2, EmptyTotal
  <2>4. Plus(f, part) \in Fractions /\ \A k \in Indexes : Plus(f, part)[k] = part[k]
    BY <1>4, <2>3, PlusLemma, ZeroLemma, AmountType DEF Plus
  <2>5. Plus(f, part) = part
    BY <1>4, <2>4, SameFractions
  <2> QED BY <1>4, <2>1, <2>5
<1>9. tx.vout[n].value > 0 => poolFrozen'[n].mark = IF tx.vout[n].address = tx.vin[n].home THEN "" ELSE "F"
  <2> SUFFICES ASSUME tx.vout[n].value > 0
               PROVE  poolFrozen'[n].mark = IF tx.vout[n].address = tx.vin[n].home THEN "" ELSE "F"
    OBVIOUS
  <2>1. n \in DOMAIN poolFrozen => old.nValue = tx.vout[n].value
    BY <1>3 DEF At, Taking, FrozenInv, GoodFrozen
  <2>2. n \notin DOMAIN poolFrozen
    <3>1. ~ (old.nValue > 0)
      BY <1>1, <1>3 DEF ColdTaken
    <3> QED BY <2>1, <3>1
  <2>3. old.mark = ""
    BY <1>3, <2>2 DEF At, Unfrozen
  <2> QED BY <1>4, <2>3 DEF Place, Input
<1>10. ColdPlaces'
  <2>1. tx' = tx
    BY <1>1
  <2> SUFFICES ASSUME NEW i \in ColdIns'
               PROVE  /\ i \in DOMAIN poolFrozen'
                      /\ poolFrozen'[i].fIsColdOutput /\ poolFrozen'[i].fractions = ColdParts[i]
                      /\ tx.vout[i].value > 0 =>
                           poolFrozen'[i].mark = IF tx.vout[i].address = tx.vin[i].home THEN "" ELSE "F"
    BY <1>7, <2>1 DEF ColdPlaces
  <2>2. CASE i = n
    BY <1>4, <1>6, <1>8, <1>9, <2>2
  <2>3. CASE i # n
    <3>1. i \in ColdIns
      BY <1>7, <2>3
    <3>2. i \in DOMAIN poolFrozen /\ poolFrozen'[i] = poolFrozen[i]
      BY <1>4, <2>3, <3>1 DEF ColdPlaces
    <3> QED BY <1>4, <3>1, <3>2 DEF ColdPlaces
  <2> QED BY <2>2, <2>3
<1>11. ColdFeeRest'
  <2>1. PICK S : S = ColdIns
    OBVIOUS
  <2>2. PICK g : g = ColdParts
    OBVIOUS
  <2>3. PICK h : h = FractionsOf(tx.vin)
    OBVIOUS
  <2>4. PICK x : x = n
    OBVIOUS
  <2>5. PICK f \in Fractions : f = Input.fractions
    BY InputLemma
  <2>6. \A i \in DOMAIN tx.vin \intersect DOMAIN tx.vout : g[i] \in Fractions /\ h[i] \in Fractions
    BY <2>2, <2>3, ColdPartsType DEF Taking
  <2>7. S \subseteq DOMAIN tx.vin \intersect DOMAIN tx.vout
    BY <1>7, <2>1 DEF ColdIns
  <2>8. g[x] = part /\ h[x] = f
    BY <1>5, <1>6, <2>2, <2>3, <2>4, <2>5 DEF FractionsOf, Input
  <2>9. /\ IsFiniteSet(S) /\ x \notin S /\ g[x] \in Fractions /\ h[x] \in Fractions
        /\ (\A i \in S : g[i] \in Fractions) /\ (\A i \in S : h[i] \in Fractions)
    BY <1>4, <1>7, <2>1, <2>4, <2>6, <2>7, <2>8
  <2>10. SumOver(g, S \union {x}) = Plus(SumOver(g, S), part) /\ SumOver(h, S \union {x}) = Plus(SumOver(h, S), f)
    <3>1. SumOver(g, S \union {x}) = Plus(SumOver(g, S), g[x])
      BY <2>9, SumOverNext
    <3>2. SumOver(h, S \union {x}) = Plus(SumOver(h, S), h[x])
      BY <2>9, SumOverNext
    <3> QED BY <2>8, <3>1, <3>2
  <2>11. SumOver(g, S) \in Fractions /\ SumOver(h, S) \in Fractions /\ frColdFees \in Fractions
    <3>1. SumOver(g, S) \in Fractions
      BY <2>9, SumOverAt
    <3>2. SumOver(h, S) \in Fractions
      BY <2>9, SumOverAt
    <3> QED BY <3>1, <3>2 DEF Taking, PoolInv
  <2>12. Plus(SumOver(g, S), frColdFees) = SumOver(h, S)
    BY <2>1, <2>2, <2>3 DEF ColdFeeRest
  <2>13. PICK a \in Fractions : a = SumOver(g, S)
    BY <2>11
  <2>14. PICK c \in Fractions : c = frColdFees
    BY <2>11
  <2>15. Plus(Plus(a, part), Plus(c, Minus(f, part))) = Plus(Plus(a, c), f)
    <3>1. ASSUME NEW k \in Indexes
          PROVE  Plus(Plus(a, part), Plus(c, Minus(f, part)))[k] = Plus(Plus(a, c), f)[k]
      <4>1. a[k] \in Int /\ part[k] \in Int /\ c[k] \in Int /\ f[k] \in Int
        BY <1>4, AmountType
      <4>2. Plus(Plus(a, part), Plus(c, Minus(f, part)))[k] = (a[k] + part[k]) + (c[k] + (f[k] - part[k]))
        BY DEF Plus, Minus
      <4>3. Plus(Plus(a, c), f)[k] = (a[k] + c[k]) + f[k]
        BY DEF Plus
      <4> QED BY <4>1, <4>2, <4>3
    <3> QED BY <3>1 DEF Plus
  <2>16. Plus(SumOver(g, S \union {x}), frColdFees') = SumOver(h, S \union {x})
    BY <1>4, <2>5, <2>10, <2>12, <2>13, <2>14, <2>15
  <2> QED BY <1>1, <1>7, <2>1, <2>2, <2>3, <2>4, <2>16 DEF ColdFeeRest
<1> QED BY <1>10, <1>11

\* Coins set aside make their output, whatever else is shared.
LEMMA OutputsAside ==
  ASSUME Making, AsideMade, NEW out, OutputStep(out), phase' # "failed",
         PlainOutput \/ FrozenOutput \/ SharedFrozenOutput \/ SharedVoluntaryOutput \/ SharedEmptyOutput
  PROVE  AsideMade'
<1>1. outs \in Seq(MadeOuts) /\ Len(outs) = n - 1 /\ DOMAIN outs = 1..(n - 1) /\ n \in Nat \ {0}
  BY MakingLemma
<1>2. outs' = Append(outs, out) /\ poolFrozen' = poolFrozen
  BY DEF OutputStep
<1>3. DOMAIN outs' = 1..n /\ outs'[n] = out /\ \A o \in 1..(n - 1) : outs'[o] = outs[o]
  BY <1>1, <1>2
<1>4. ASSUME n \in DOMAIN poolFrozen, Total(poolFrozen[n].fractions) # 0
      PROVE  out.fractions = poolFrozen[n].fractions /\ out.mark = poolFrozen[n].mark
  <2>1. FrozenOutput
    BY <1>4 DEF PlainOutput, SharedFrozenOutput, SharedVoluntaryOutput, SharedEmptyOutput, IsSharing
  <2>2. outs' = Append(outs, [mark |-> poolFrozen[n].mark, fractions |-> poolFrozen[n].fractions])
    BY <2>1 DEF FrozenOutput
  <2>3. out = [mark |-> poolFrozen[n].mark, fractions |-> poolFrozen[n].fractions]
    BY <2>2, LastMade
  <2> QED BY <2>3
<1>5. ASSUME NEW o \in DOMAIN outs' \intersect DOMAIN poolFrozen, Total(poolFrozen[o].fractions) # 0
      PROVE  outs'[o].fractions = poolFrozen[o].fractions /\ outs'[o].mark = poolFrozen[o].mark
  <2>1. CASE o = n
    BY <1>3, <1>4, <1>5, <2>1
  <2>2. CASE o # n
    <3>1. o \in 1..(n - 1)
      BY <1>1, <1>3, <2>2
    <3> QED BY <1>1, <1>3, <1>5, <3>1 DEF AsideMade
  <2> QED BY <2>1, <2>2
<1> QED BY <1>2, <1>5 DEF AsideMade

\* Before the first input there is nothing cold.
LEMMA InitCold == Init => ColdInv
<1> SUFFICES ASSUME Init, tx.reward = Null PROVE ColdPlaces /\ ColdFeeRest /\ AsideMade /\ Checked
  BY DEF ColdInv
<1>1. /\ phase = "inputs" /\ n = 1 /\ poolFrozen = <<>> /\ outs = <<>> /\ frColdFees = Zero
  BY DEF Init
<1>2. DOMAIN <<>> = {}
  OBVIOUS
<1>3. ColdIns = {}
  BY <1>1 DEF ColdIns, TakenIns
<1>4. Plus(Zero, Zero) = Zero
  BY DEF Plus, Zero
<1>5. ColdFeeRest
  BY <1>1, <1>3, <1>4, SumOverEmpty DEF ColdFeeRest
<1> QED BY <1>1, <1>2, <1>3, <1>5 DEF ColdPlaces, AsideMade, Checked

\* Cold coins are where they were if no input is taken.
LEMMA ColdSame ==
  ASSUME ColdPlaces, ColdFeeRest, tx' = tx, poolFrozen' = poolFrozen, frColdFees' = frColdFees, TakenIns' = TakenIns
  PROVE  ColdPlaces' /\ ColdFeeRest'
<1>1. ColdIns' = ColdIns /\ ColdParts' = ColdParts
  BY DEF ColdIns, ColdParts
<1>2. ColdPlaces'
  BY <1>1 DEF ColdPlaces
<1> QED BY <1>1, <1>2 DEF ColdFeeRest

\* Every step keeps it.
LEMMA NextCold == IInv /\ ColdInv /\ [Next]_vars => ColdInv'
<1> SUFFICES ASSUME IInv, ColdInv, [Next]_vars, tx'.reward = Null, phase' # "failed"
             PROVE  ColdPlaces' /\ ColdFeeRest' /\ AsideMade' /\ Checked'
  BY DEF ColdInv
<1>1. CASE UNCHANGED vars
  <2>1. /\ tx' = tx /\ poolFrozen' = poolFrozen /\ outs' = outs /\ phase' = phase /\ n' = n /\ frColdFees' = frColdFees
    BY <1>1 DEF vars, pools
  <2>2. TakenIns' = TakenIns /\ ColdPlaces /\ ColdFeeRest /\ AsideMade /\ Checked
    BY <2>1 DEF TakenIns, ColdInv
  <2>3. ColdPlaces' /\ ColdFeeRest'
    BY <2>1, <2>2, ColdSame
  <2> QED BY <2>1, <2>2, <2>3 DEF AsideMade, Checked
<1>2. CASE Next
  <2>1. tx' = tx
    BY <1>2, FillFails DEF Next, RefuseInput, Refuse, TakeInput, TakeColdInput, FreezeShared, FreezeOne, InputTaken,
       ShareLiquidity, PlainOutput, FrozenOutput, SharedFrozenOutput, SharedVoluntaryOutput, SharedEmptyOutput, Finish,
       CalculateStakingFractions
  <2>2. TxInv /\ phase \in {"inputs", "outputs", "done", "failed"} /\ (phase # "failed" => Sound)
    BY <2>1 DEF IInv, Sound
  <2>3. phase # "failed" => ColdPlaces /\ ColdFeeRest /\ AsideMade
    BY <2>1 DEF ColdInv
  <2>4. ~ RefuseInput
    BY DEF RefuseInput, Refuse
  <2>5. CASE TakeInput \/ TakeColdInput \/ FreezeShared \/ FreezeOne
    <3>1. phase = "inputs" /\ n <= Len(tx.vin) /\ phase' = "inputs" /\ outs' = outs
      BY <2>5 DEF TakeInput, TakeColdInput, FreezeShared, FreezeOne, Accepted, InputTaken
    <3>2. Taking
      BY <2>2, <3>1 DEF Taking, Sound
    <3>3. ColdPlaces' /\ ColdFeeRest'
      BY <2>3, <2>5, <3>1, <3>2, ColdInputCold, OtherInputsCold
    <3>4. DOMAIN outs' = {}
      BY <3>1, <3>2 DEF Taking, PhaseInv
    <3> QED BY <3>1, <3>3, <3>4 DEF AsideMade, Checked
  <2>6. CASE ShareLiquidity
    <3>1. /\ phase = "inputs" /\ phase' = "outputs" /\ poolFrozen' = poolFrozen /\ frColdFees' = frColdFees
          /\ outs' = outs
      BY <2>6 DEF ShareLiquidity
    <3>2. DOMAIN tx.vin = 1..Len(tx.vin) /\ Len(tx.vin) \in Nat
      BY <2>2, TakenLemma
    <3>3. n = Len(tx.vin) + 1
      BY <2>2, <2>6, <3>2 DEF ShareLiquidity, Sound, PhaseInv
    <3>4. 1..(n - 1) = DOMAIN tx.vin
      BY <3>2, <3>3
    <3>5. TakenIns' = TakenIns
      BY <2>1, <3>1, <3>4 DEF TakenIns
    <3>6. ColdPlaces' /\ ColdFeeRest'
      BY <2>1, <2>3, <3>1, <3>5, ColdSame
    <3> QED BY <2>3, <3>1, <3>6 DEF AsideMade, Checked
  <2>7. CASE PlainOutput \/ FrozenOutput \/ SharedFrozenOutput \/ SharedVoluntaryOutput \/ SharedEmptyOutput
    <3>1. phase = "outputs" /\ n <= Len(tx.vout)
      BY <2>7 DEF PlainOutput, FrozenOutput, SharedFrozenOutput, SharedVoluntaryOutput, SharedEmptyOutput
    <3>2. Making
      BY <2>2, <3>1 DEF Making, Sound
    <3>3. Made1
      BY <2>7, <3>2, PlainOutputStep, FrozenOutputStep, SharedFrozenOutputStep, SharedVoluntaryOutputStep,
         SharedEmptyOutputStep
    <3>4. PICK out : OutputStep(out)
      BY <3>3 DEF Made1
    <3>5. phase' = "outputs" /\ poolFrozen' = poolFrozen /\ frColdFees' = frColdFees
      BY <3>1, <3>4 DEF OutputStep
    <3>6. TakenIns' = TakenIns
      BY <2>1, <3>1, <3>5 DEF TakenIns
    <3>7. ColdPlaces' /\ ColdFeeRest'
      BY <2>1, <2>3, <3>1, <3>5, <3>6, ColdSame
    <3>8. AsideMade'
      BY <2>3, <2>7, <3>1, <3>2, <3>4, OutputsAside
    <3> QED BY <3>5, <3>7, <3>8 DEF Checked
  <2>8. CASE Finish
    <3>1. /\ phase = "outputs" /\ n > Len(tx.vout) /\ phase' = "done" /\ TotalsMatch /\ poolFrozen' = poolFrozen
          /\ frColdFees' = frColdFees /\ outs' = outs
      BY <2>8 DEF Finish
    <3>2. TakenIns' = TakenIns
      BY <2>1, <3>1 DEF TakenIns
    <3>3. ColdPlaces' /\ ColdFeeRest'
      BY <2>1, <2>3, <3>1, <3>2, ColdSame
    <3>4. DOMAIN tx.vout = 1..Len(tx.vout) /\ Len(tx.vout) \in Nat
      BY <2>2, OutsLemma
    <3>5. n \in Nat /\ n <= Len(tx.vout) + 1 /\ outs \in Seq(MadeOuts) /\ Len(outs) = n - 1
      BY <2>2, <3>1 DEF Sound, PhaseInv
    <3>6. Len(outs) = Len(tx.vout) /\ DOMAIN outs = 1..Len(outs)
      BY <3>1, <3>4, <3>5
    <3>7. \A o \in DOMAIN outs : Total(outs[o].fractions) = tx.vout[o].value
      BY <3>1 DEF TotalsMatch
    <3>8. Checked'
      BY <2>1, <3>1, <3>4, <3>6, <3>7 DEF Checked
    <3> QED BY <2>3, <3>1, <3>3, <3>8 DEF AsideMade
  <2>9. CASE CalculateStakingFractions
    BY <2>2, <2>9 DEF CalculateStakingFractions
  <2> QED BY <1>2, <2>4, <2>5, <2>6, <2>7, <2>8, <2>9 DEF Next
<1> QED BY <1>1, <1>2

\* At the end it says what the property does: an output without coins is worth
\* nothing, and so is the part of its cold input.
LEMMA ColdInvReturns == IInv /\ ColdInv => ColdReturnsOrFreezes
<1> SUFFICES ASSUME IInv, ColdInv, phase = "done", tx.reward = Null PROVE ColdReturnsOrFreezes
  BY DEF ColdReturnsOrFreezes
<1>1. TxInv /\ PhaseInv /\ ColdPlaces /\ ColdFeeRest /\ AsideMade /\ Checked
  BY DEF IInv, ColdInv
<1>2. /\ DOMAIN outs = DOMAIN tx.vout /\ \A o \in DOMAIN outs : Total(outs[o].fractions) = tx.vout[o].value
  BY <1>1 DEF Checked
<1>3. PICK cold : cold = {i \in DOMAIN tx.vin : tx.vin[i].mark = "C" /\ i \in DOMAIN outs /\ Total(tx.vin[i].fractions) > 0}
  OBVIOUS
<1>4. ColdIns = {i \in DOMAIN tx.vin \intersect DOMAIN tx.vout : tx.vin[i].mark = "C"}
  BY DEF ColdIns, TakenIns
<1>5. /\ cold \subseteq ColdIns /\ ColdIns \subseteq DOMAIN tx.vin \intersect DOMAIN tx.vout /\ IsFiniteSet(ColdIns)
      /\ \A i \in cold : Total(tx.vin[i].fractions) > 0
      /\ \A i \in ColdIns \ cold : ~ (Total(tx.vin[i].fractions) > 0)
  <2>1. IsFiniteSet(DOMAIN tx.vout)
    BY <1>1, OutsLemma
  <2>2. cold \subseteq ColdIns /\ ColdIns \subseteq DOMAIN tx.vout
    BY <1>2, <1>3, <1>4
  <2> QED BY <1>2, <1>3, <1>4, <2>1, <2>2, FS_Subset
<1>6. \A o \in DOMAIN outs : outs[o].fractions \in Fractions
  <2>1. PICK s \in Seq(MadeOuts) : s = outs
    BY <1>1 DEF PhaseInv
  <2>2. \A o \in DOMAIN s : s[o] \in MadeOuts
    OBVIOUS
  <2> QED BY <2>1, <2>2 DEF MadeOuts
<1>7. ASSUME NEW i \in cold
      PROVE  /\ outs[i].fractions = ColdParts[i] /\ outs[i].fractions \in Fractions
             /\ Total(outs[i].fractions) > 0 => outs[i].mark = IF tx.vout[i].address = tx.vin[i].home THEN "" ELSE "F"
  <2>1. i \in DOMAIN outs /\ i \in ColdIns /\ i \in DOMAIN tx.vin \intersect DOMAIN tx.vout
    BY <1>2, <1>5
  <2>2. PICK p : p = ColdParts[i]
    OBVIOUS
  <2>3. PICK v \in Nat : v = tx.vout[i].value
    BY <1>1, <2>1, ColdPartsType
  <2>4. PICK t \in Nat : t = Total(tx.vin[i].fractions)
    BY <1>1, <2>1, ColdPartsType
  <2>5. p \in Fractions /\ Total(p) = Least(v, t) /\ t > 0
    BY <1>1, <1>5, <2>1, <2>2, <2>3, <2>4, ColdPartsType
  <2>6. PICK g \in Fractions : g = outs[i].fractions
    BY <1>6, <2>1
  <2>7. Total(g) = v
    BY <1>2, <2>1, <2>3, <2>6
  <2>8. /\ i \in DOMAIN poolFrozen /\ poolFrozen[i].fractions = p
        /\ v > 0 => poolFrozen[i].mark = IF tx.vout[i].address = tx.vin[i].home THEN "" ELSE "F"
    BY <1>1, <2>1, <2>2, <2>3 DEF ColdPlaces
  <2>9. CASE v = 0
    <3>1. Total(p) = 0 /\ Total(g) = 0
      BY <2>5, <2>7, <2>9, LeastLemma
    <3>2. p = Zero
      BY <2>5, <3>1, EmptyTotal
    <3>3. g = Zero
      BY <3>1, EmptyTotal
    <3> QED BY <2>2, <2>6, <3>1, <3>2, <3>3
  <2>10. CASE v > 0
    <3>1. Total(p) # 0
      BY <2>5, <2>10 DEF Least
    <3>2. outs[i].fractions = p /\ outs[i].mark = poolFrozen[i].mark
      BY <1>1, <2>1, <2>8, <3>1 DEF AsideMade
    <3>3. outs[i].mark = IF tx.vout[i].address = tx.vin[i].home THEN "" ELSE "F"
      BY <2>8, <2>10, <3>2
    <3> QED BY <2>2, <2>5, <3>2, <3>3
  <2>11. v = 0 \/ v > 0
    BY <2>3
  <2> QED BY <2>9, <2>10, <2>11
<1>8. ASSUME NEW i \in ColdIns \ cold PROVE ColdParts[i] = Zero /\ tx.vin[i].fractions = Zero
  <2>1. i \in DOMAIN tx.vin \intersect DOMAIN tx.vout
    BY <1>5
  <2>2. PICK f \in Fractions : f = tx.vin[i].fractions
    BY <1>1, <2>1, ColdPartsType
  <2>3. PICK p \in Fractions : p = ColdParts[i]
    BY <1>1, <2>1, ColdPartsType
  <2>4. PICK v \in Nat : v = tx.vout[i].value
    BY <1>1, <2>1, ColdPartsType
  <2>5. Total(f) \in Nat /\ Total(p) = Least(v, Total(f))
    BY <1>1, <2>1, <2>2, <2>3, <2>4, ColdPartsType
  <2>6. Total(f) = 0
    BY <1>5, <2>2, <2>5
  <2>7. Total(p) = 0
    BY <2>5, <2>6 DEF Least
  <2>8. f = Zero
    BY <2>6, EmptyTotal
  <2>9. p = Zero
    BY <2>7, EmptyTotal
  <2> QED BY <2>2, <2>3, <2>8, <2>9
<1>9. SumOver(ColdParts, ColdIns) = SumOver(FractionsOf(outs), cold)
  <2>1. PICK g : g = FractionsOf(outs)
    OBVIOUS
  <2>2. PICK T : T = ColdIns
    OBVIOUS
  <2>3. PICK h : h = ColdParts
    OBVIOUS
  <2>4. \A i \in cold : g[i] = outs[i].fractions
    BY <1>2, <1>5, <2>1 DEF FractionsOf
  <2>5. /\ IsFiniteSet(T) /\ cold \subseteq T /\ (\A i \in cold : g[i] \in Fractions /\ h[i] = g[i])
        /\ \A i \in T \ cold : h[i] = Zero
    BY <1>5, <1>7, <1>8, <2>2, <2>3, <2>4
  <2>6. SumOver(h, T) = SumOver(g, cold)
    BY <2>5, SumOverExtend
  <2> QED BY <2>1, <2>2, <2>3, <2>6
<1>10. SumOver(FractionsOf(tx.vin), ColdIns) = SumOver(FractionsOf(tx.vin), cold)
  <2>1. PICK g : g = FractionsOf(tx.vin)
    OBVIOUS
  <2>2. PICK T : T = ColdIns
    OBVIOUS
  <2>3. \A i \in T : g[i] = tx.vin[i].fractions /\ g[i] \in Fractions
    BY <1>1, <1>5, <2>1, <2>2, ColdPartsType
  <2>4. /\ IsFiniteSet(T) /\ cold \subseteq T /\ (\A i \in cold : g[i] \in Fractions /\ g[i] = g[i])
        /\ \A i \in T \ cold : g[i] = Zero
    BY <1>5, <1>8, <2>2, <2>3
  <2>5. SumOver(g, T) = SumOver(g, cold)
    BY <2>4, SumOverExtend
  <2> QED BY <2>1, <2>2, <2>5
<1>11. Plus(SumOver(FractionsOf(outs), cold), frColdFees) = SumOver(FractionsOf(tx.vin), cold)
  BY <1>1, <1>9, <1>10 DEF ColdFeeRest
<1> QED BY <1>3, <1>7, <1>11 DEF ColdReturnsOrFreezes

\* Cold coins go back or are frozen: for any transaction, the coins of its cold
\* inputs are in the outputs at their places and in the fee, and such an output
\* is unmarked if it goes home and frozen if not.
THEOREM ColdReturnsOrFreezesAlways == Spec => []ColdReturnsOrFreezes
<1>1. Init => IInv /\ ColdInv
  BY InitInv, InitCold
<1>2. IInv /\ ColdInv /\ [Next]_vars => (IInv /\ ColdInv)'
  BY NextInv, NextCold
<1>3. IInv /\ ColdInv => ColdReturnsOrFreezes
  BY ColdInvReturns
<1> QED BY <1>1, <1>2, <1>3, PTL DEF Spec

-----------------------------------------------------------------------------
(* Stakes                                                                  *)

\* What is left of `start' when outputs 1 to o, but for the stake's, have taken
\* their values from it
Handed(left, L, stake, vout, start) ==
  left = [o \in 0..L |-> IF o = 0 THEN start
                         ELSE IF o = stake THEN left[o - 1]
                         ELSE Minus(left[o - 1], MovedPart(left[o - 1], vout[o].value))]

\* There is such a function.
LEMMA HandedExists ==
  ASSUME NEW L \in Nat, NEW stake, NEW vout, NEW start
  PROVE  \E left : Handed(left, L, stake, vout, start)
<1> DEFINE G == {m \in Nat : \E left : Handed(left, m, stake, vout, start)}
<1>1. 0 \in G
  <2>1. PICK f : f = [o \in 0..0 |-> start]
    OBVIOUS
  <2>2. f = [o \in 0..0 |-> IF o = 0 THEN start ELSE IF o = stake THEN f[o - 1]
                            ELSE Minus(f[o - 1], MovedPart(f[o - 1], vout[o].value))]
    BY <2>1
  <2> QED BY <2>2 DEF Handed
<1>2. ASSUME NEW m \in Nat, m \in G PROVE m + 1 \in G
  <2>1. PICK f : Handed(f, m, stake, vout, start)
    BY <1>2
  <2>2. PICK last : last = IF m + 1 = stake THEN f[m] ELSE Minus(f[m], MovedPart(f[m], vout[m + 1].value))
    OBVIOUS
  <2>3. PICK g : g = [o \in 0..(m + 1) |-> IF o = m + 1 THEN last ELSE f[o]]
    OBVIOUS
  <2>4. \A o \in 0..m : f[o] = IF o = 0 THEN start ELSE IF o = stake THEN f[o - 1]
                               ELSE Minus(f[o - 1], MovedPart(f[o - 1], vout[o].value))
    BY <2>1 DEF Handed
  <2>5. ASSUME NEW o \in 0..(m + 1)
        PROVE  g[o] = IF o = 0 THEN start ELSE IF o = stake THEN g[o - 1]
                      ELSE Minus(g[o - 1], MovedPart(g[o - 1], vout[o].value))
    <3>1. CASE o = m + 1
      <4>1. g[o] = last /\ o # 0 /\ o - 1 = m /\ g[m] = f[m]
        BY <2>3, <3>1
      <4> QED BY <2>2, <3>1, <4>1
    <3>2. CASE o # m + 1
      <4>1. o \in 0..m /\ g[o] = f[o] /\ (o # 0 => g[o - 1] = f[o - 1])
        BY <2>3, <3>2
      <4> QED BY <2>4, <4>1
    <3> QED BY <3>1, <3>2
  <2>6. g = [o \in 0..(m + 1) |-> g[o]]
    BY <2>3
  <2>7. Handed(g, m + 1, stake, vout, start)
    BY <2>5, <2>6 DEF Handed
  <2> QED BY <2>7
<1> HIDE DEF G
<1>3. L \in G
  BY <1>1, <1>2, NumberInduction
<1> QED BY <1>3 DEF G

\* The outputs up to m and the ones that follow, without the stake's
Before(stake, m) == (1..m) \ {stake}
After(stake, L, m) == ((m + 1)..L) \ {stake}

\* Up to m everything handed out comes from `start', and there is enough left.
Handing(left, L, stake, value, start, m) ==
  /\ left[m] \in Fractions
  /\ SumOf(value, After(stake, L, m)) <= Total(left[m])
  /\ \A k \in Indexes : SumOf([o \in 1..L |-> left[o - 1][k] - left[o][k]], Before(stake, m)) + left[m][k] = start[k]

\* What an output is handed
HandedOut(left, value, o) ==
  /\ Minus(left[o - 1], left[o]) \in Fractions
  /\ Total(Minus(left[o - 1], left[o])) = value[o]

\* One output more.
LEMMA HandStep ==
  ASSUME NEW L \in Nat, NEW stake \in 1..L, NEW value \in [1..L -> Nat], NEW start \in Fractions, NEW left,
         NEW vout, Handed(left, L, stake, vout, start), \A o \in 1..L : value[o] = vout[o].value,
         NEW m \in 1..L, Handing(left, L, stake, value, start, m - 1),
         \A k \in Indexes : \A o \in 0..(m - 1) : left[o][k] \in Int
  PROVE  Handing(left, L, stake, value, start, m) /\ (m # stake => HandedOut(left, value, m))
<1>1. PICK f \in Fractions : f = left[m - 1]
  BY DEF Handing
<1>2. PICK g : g = left[m]
  OBVIOUS
<1>3. PICK part : part = MovedPart(f, value[m])
  OBVIOUS
<1>4. g = IF m = stake THEN f ELSE Minus(f, part)
  BY <1>1, <1>2, <1>3 DEF Handed
<1>5. m \in Nat /\ value[m] \in Nat /\ Total(f) \in Nat
  BY TotalNat DEF Fractions
<1>6. part \in Fractions /\ (\A k \in Indexes : part[k] <= f[k]) /\ Total(part) = Least(value[m], Total(f))
  BY <1>3, <1>5, MovedPartLemma
<1>7. /\ IsFiniteSet(After(stake, L, m - 1)) /\ IsFiniteSet(After(stake, L, m))
      /\ IsFiniteSet(Before(stake, m - 1)) /\ IsFiniteSet(Before(stake, m))
      /\ After(stake, L, m - 1) \subseteq 1..L /\ Before(stake, m) \subseteq 1..L
  <2>1. IsFiniteSet(1..L)
    BY FS_Interval
  <2>2. /\ After(stake, L, m - 1) \subseteq 1..L /\ After(stake, L, m) \subseteq 1..L
        /\ Before(stake, m - 1) \subseteq 1..L /\ Before(stake, m) \subseteq 1..L
    BY DEF After, Before
  <2> QED BY <2>1, <2>2, FS_Subset
<1>8. SumOf(value, After(stake, L, m - 1)) \in Nat /\ SumOf(value, After(stake, L, m)) \in Nat
  <2>1. \A x \in After(stake, L, m - 1) : value[x] \in Nat
    BY <1>7
  <2>2. After(stake, L, m) \subseteq After(stake, L, m - 1)
    BY DEF After
  <2>3. \A x \in After(stake, L, m) : value[x] \in Nat
    BY <2>1, <2>2
  <2> QED BY <1>7, <2>1, <2>3, SumNat
<1>9. SumOf(value, After(stake, L, m - 1)) <= Total(f)
  BY <1>1 DEF Handing
<1>10. ASSUME NEW k \in Indexes
       PROVE  SumOf([o \in 1..L |-> left[o - 1][k] - left[o][k]], Before(stake, m - 1)) + f[k] = start[k]
  BY <1>1 DEF Handing
<1>11. CASE m = stake
  <2>1. After(stake, L, m) = After(stake, L, m - 1) /\ Before(stake, m) = Before(stake, m - 1)
    BY <1>11 DEF After, Before
  <2>2. g = f
    BY <1>4, <1>11
  <2> QED BY <1>1, <1>2, <1>9, <1>10, <1>11, <2>1, <2>2 DEF Handing
<1>12. CASE m # stake
  <2>1. /\ m \in After(stake, L, m - 1) /\ After(stake, L, m - 1) \ {m} = After(stake, L, m)
        /\ m \in Before(stake, m) /\ Before(stake, m) \ {m} = Before(stake, m - 1)
    BY <1>12 DEF After, Before
  <2>2. SumOf(value, After(stake, L, m - 1)) = value[m] + SumOf(value, After(stake, L, m))
    <3>1. \A x \in After(stake, L, m - 1) : value[x] \in Int
      BY <1>7
    <3>2. PICK S : S = After(stake, L, m - 1)
      OBVIOUS
    <3>3. SumOf(value, S) = value[m] + SumOf(value, S \ {m})
      BY <1>7, <2>1, <3>1, <3>2, SumRemove
    <3> QED BY <2>1, <3>2, <3>3
  <2>3. Total(part) = value[m]
    BY <1>5, <1>6, <1>8, <1>9, <2>2 DEF Least
  <2>4. g = Minus(f, part) /\ g \in Fractions
    BY <1>4, <1>6, <1>12, MinusLemma
  <2>5. Total(g) = Total(f) - Total(part)
    <3>1. \A k \in Indexes : f[k] \in Int /\ part[k] \in Int /\ g[k] = f[k] - part[k]
      BY <1>6, <2>4, AmountType DEF Minus
    <3> QED BY <3>1, TotalMinus
  <2>6. SumOf(value, After(stake, L, m)) <= Total(g)
    BY <1>5, <1>8, <1>9, <2>2, <2>3, <2>5
  <2>7. Minus(f, g) = part
    <3>1. \A k \in Indexes : f[k] \in Int /\ part[k] \in Int /\ g[k] = f[k] - part[k]
      BY <1>6, <2>4, AmountType DEF Minus
    <3>2. \A k \in Indexes : g[k] <= f[k] /\ f[k] - g[k] = part[k]
      <4> SUFFICES ASSUME NEW k \in Indexes PROVE g[k] <= f[k] /\ f[k] - g[k] = part[k]
        OBVIOUS
      <4>1. part[k] \in Nat
        BY <1>6, AmountType
      <4> QED BY <3>1, <4>1
    <3>3. Minus(f, g) \in Fractions /\ \A k \in Indexes : Minus(f, g)[k] = part[k]
      BY <2>4, <3>2, MinusLemma DEF Minus
    <3> QED BY <1>6, <3>3, SameFractions
  <2>8. HandedOut(left, value, m)
    BY <1>1, <1>2, <1>6, <2>3, <2>7 DEF HandedOut
  <2>9. ASSUME NEW k \in Indexes
        PROVE  SumOf([o \in 1..L |-> left[o - 1][k] - left[o][k]], Before(stake, m)) + g[k] = start[k]
    <3>1. PICK r : r = [o \in 1..L |-> left[o - 1][k] - left[o][k]]
      OBVIOUS
    <3>2. f[k] \in Int /\ g[k] \in Int /\ start[k] \in Int
      BY <2>4, AmountType
    <3>3. \A o \in 1..m : r[o] \in Int
      <4>1. \A o \in 0..m : left[o][k] \in Int
        <5>1. \A o \in 0..m : o = m \/ o \in 0..(m - 1)
          BY <1>5
        <5> QED BY <1>2, <3>2, <5>1
      <4>2. \A o \in 1..m : o \in 0..m /\ o - 1 \in 0..m /\ o \in 1..L
        BY <1>5
      <4> QED BY <3>1, <4>1, <4>2
    <3>4. PICK S : S = Before(stake, m)
      OBVIOUS
    <3>5. \A o \in S : r[o] \in Int
      BY <3>3, <3>4 DEF Before
    <3>6. SumOf(r, S) = r[m] + SumOf(r, S \ {m})
      BY <1>7, <2>1, <3>4, <3>5, SumRemove
    <3>7. r[m] = f[k] - g[k]
      BY <1>1, <1>2, <3>1
    <3>8. SumOf(r, S \ {m}) + f[k] = start[k]
      BY <1>10, <2>1, <3>1, <3>4
    <3>9. SumOf(r, S \ {m}) \in Int
      BY <1>7, <2>1, <3>4, <3>5, SumType
    <3>10. SumOf(r, S) + g[k] = start[k]
      BY <3>2, <3>6, <3>7, <3>8, <3>9
    <3> QED BY <3>1, <3>4, <3>10
  <2>10. Handing(left, L, stake, value, start, m)
    BY <1>2, <2>4, <2>6, <2>9 DEF Handing
  <2> QED BY <2>8, <2>10
<1> QED BY <1>11, <1>12

\* All outputs.
LEMMA HandAll ==
  ASSUME NEW L \in Nat, NEW stake \in 1..L, NEW value \in [1..L -> Nat], NEW start \in Fractions, NEW left,
         NEW vout, Handed(left, L, stake, vout, start), \A o \in 1..L : value[o] = vout[o].value,
         SumOf(value, (1..L) \ {stake}) <= Total(start)
  PROVE  /\ Handing(left, L, stake, value, start, L)
         /\ \A o \in (1..L) \ {stake} : HandedOut(left, value, o)
         /\ \A o \in 0..L : left[o] \in Fractions
<1> DEFINE G == {m \in Nat : m <= L => /\ \A j \in 0..m : Handing(left, L, stake, value, start, j)
                                       /\ \A j \in 1..m : j # stake => HandedOut(left, value, j)}
<1>1. 0 \in G
  <2>1. left[0] = start
    BY DEF Handed
  <2>2. Before(stake, 0) = {} /\ After(stake, L, 0) = (1..L) \ {stake}
    BY DEF Before, After
  <2>3. \A k \in Indexes : start[k] \in Int /\ 0 + start[k] = start[k]
    BY AmountType
  <2>4. ASSUME NEW k \in Indexes
        PROVE  SumOf([o \in 1..L |-> left[o - 1][k] - left[o][k]], Before(stake, 0)) + left[0][k] = start[k]
    <3>1. SumOf([o \in 1..L |-> left[o - 1][k] - left[o][k]], {}) = 0
      BY SumRecursion
    <3> QED BY <2>1, <2>2, <2>3, <3>1
  <2>5. Handing(left, L, stake, value, start, 0)
    BY <2>1, <2>2, <2>4 DEF Handing
  <2>6. \A j \in 0..0 : j = 0
    OBVIOUS
  <2> QED BY <2>5, <2>6
<1>2. ASSUME NEW m \in Nat, m \in G PROVE m + 1 \in G
  <2> SUFFICES ASSUME m + 1 <= L
               PROVE  /\ \A j \in 0..(m + 1) : Handing(left, L, stake, value, start, j)
                      /\ \A j \in 1..(m + 1) : j # stake => HandedOut(left, value, j)
    <3>1. m + 1 \in Nat
      OBVIOUS
    <3> QED BY <3>1
  <2>1. /\ \A j \in 0..m : Handing(left, L, stake, value, start, j)
        /\ \A j \in 1..m : j # stake => HandedOut(left, value, j)
    BY <1>2
  <2>2. PICK x : x = m + 1
    OBVIOUS
  <2>3. x \in 1..L /\ x - 1 = m /\ m \in 0..m
    BY <2>2
  <2>4. Handing(left, L, stake, value, start, x - 1)
    BY <2>1, <2>3
  <2>5. \A k \in Indexes : \A o \in 0..(x - 1) : left[o][k] \in Int
    BY <2>1, <2>3, AmountType DEF Handing
  <2>6. Handing(left, L, stake, value, start, x) /\ (x # stake => HandedOut(left, value, x))
    BY <2>3, <2>4, <2>5, HandStep
  <2>7. \A j \in 0..(m + 1) : j = x \/ j \in 0..m
    BY <2>2
  <2>8. \A j \in 1..(m + 1) : j = x \/ j \in 1..m
    BY <2>2
  <2> QED BY <2>1, <2>6, <2>7, <2>8
<1>3. L \in G
  <2> HIDE DEF G
  <2> QED BY <1>1, <1>2, NumberInduction
<1>4. /\ \A j \in 0..L : Handing(left, L, stake, value, start, j)
      /\ \A j \in 1..L : j # stake => HandedOut(left, value, j)
  BY <1>3
<1>5. L \in 0..L
  OBVIOUS
<1> QED BY <1>4, <1>5 DEF Handing

\* A coinstake, its stake and its reward
Staking ==
  /\ tx.vin \in Seq(TxIns) /\ tx.vin # <<>> /\ tx.vout \in Seq(TxOuts)
  /\ tx.reward \in Fractions

\* The output the stake returns to is the first that can.
LEMMA StakeOutLemma ==
  ASSUME Staking, StakeAllowed
  PROVE  StakeOut \in DOMAIN tx.vout /\ ReturnsStake(StakeOut)
<1>1. DOMAIN tx.vout = 1..Len(tx.vout) /\ Len(tx.vout) \in Nat
  BY DEF Staking
<1>2. PICK S : S = {o \in DOMAIN tx.vout : ReturnsStake(o)}
  OBVIOUS
<1>3. S \subseteq Nat /\ S # {}
  BY <1>1, <1>2 DEF StakeAllowed
<1>4. PICK o \in S : \A p \in S : o <= p
  BY <1>3, LeastNumber
<1>5. o \in DOMAIN tx.vout /\ ReturnsStake(o) /\ \A p \in 1..(o - 1) : ~ ReturnsStake(p)
  <2>1. ASSUME NEW p \in 1..(o - 1), ReturnsStake(p) PROVE FALSE
    <3>1. o \in 1..Len(tx.vout)
      BY <1>1, <1>2, <1>4
    <3>2. p \in 1..Len(tx.vout) /\ p < o
      BY <1>1, <3>1
    <3>3. p \in S
      BY <1>1, <1>2, <2>1, <3>2
    <3> QED BY <1>4, <3>1, <3>2, <3>3
  <2> QED BY <1>2, <1>4, <2>1
<1> QED BY <1>5 DEF StakeOut

\* What the coinstake's outputs get of the reward: their values, and the stake's
\* output what it is worth beyond the stake.
LEMMA RewardLemma ==
  ASSUME Staking, StakeAllowed
  PROVE  /\ \A o \in DOMAIN tx.vout : RewardOf[o] \in Fractions
         /\ \A o \in DOMAIN tx.vout : o # StakeOut => Total(RewardOf[o]) = tx.vout[o].value
         /\ Total(StakeIn.fractions) + Total(RewardOf[StakeOut]) = tx.vout[StakeOut].value
         /\ \A k \in Indexes : SumOf([o \in DOMAIN tx.vout |-> RewardOf[o][k]], DOMAIN tx.vout) <= tx.reward[k]
         /\ DOMAIN RewardOf = DOMAIN tx.vout
<1>1. PICK L \in Nat : L = Len(tx.vout) /\ DOMAIN tx.vout = 1..L
  BY DEF Staking
<1>2. \A o \in 1..L : tx.vout[o].value \in Nat
  <2>1. \A o \in 1..L : tx.vout[o] \in TxOuts
    BY <1>1 DEF Staking
  <2> QED BY <2>1 DEF TxOuts
<1>3. PICK value : value = [o \in 1..L |-> tx.vout[o].value]
  OBVIOUS
<1>4. PICK so : so = StakeOut
  OBVIOUS
<1>5. PICK s \in Fractions : s = StakeIn.fractions
  <2>1. 1 \in DOMAIN tx.vin
    BY DEF Staking
  <2>2. tx.vin[1] \in TxIns
    BY <2>1 DEF Staking
  <2> QED BY <2>2 DEF StakeIn, TxIns
<1>6. PICK reward \in Fractions : reward = tx.reward
  BY DEF Staking
<1>7. value \in [1..L -> Nat] /\ so \in 1..L /\ Total(s) <= value[so] /\ value[so] \in Nat
  BY <1>1, <1>2, <1>3, <1>4, <1>5, StakeOutLemma DEF ReturnsStake
<1>8. Total(s) \in Nat /\ Total(reward) \in Nat
  BY TotalNat DEF Fractions
<1>9. /\ SumOf(value, 1..L) = value[so] + SumOf(value, (1..L) \ {so})
      /\ SumOf(value, 1..L) <= Total(s) + Total(reward) /\ SumOf(value, (1..L) \ {so}) \in Nat
  <2>1. IsFiniteSet(1..L) /\ IsFiniteSet((1..L) \ {so})
    <3>1. IsFiniteSet(1..L)
      BY FS_Interval
    <3> QED BY <3>1, FS_RemoveElement
  <2>2. \A o \in 1..L : value[o] \in Int /\ value[o] \in Nat
    BY <1>7
  <2>3. SumOf(value, 1..L) = value[so] + SumOf(value, (1..L) \ {so})
    BY <1>7, <2>1, <2>2, SumRemove
  <2>4. \A o \in (1..L) \ {so} : value[o] \in Nat
    BY <2>2
  <2>5. SumOf(value, (1..L) \ {so}) \in Nat
    BY <2>1, <2>4, SumNat
  <2>6. SumOf(value, 1..L) = Value(tx.vout)
    BY <1>1, <1>3 DEF Value
  <2> QED BY <1>5, <1>6, <2>3, <2>5, <2>6 DEF StakeAllowed
<1>10. PICK more \in Nat : more = value[so] - Total(s)
  BY <1>7, <1>8
<1>11. PICK stakes : stakes = MovedPart(reward, more)
  OBVIOUS
<1>12. /\ stakes \in Fractions /\ \A k \in Indexes : stakes[k] <= reward[k]
       /\ Total(stakes) = more
  <2>1. more <= Total(reward)
    BY <1>7, <1>8, <1>9, <1>10
  <2>2. Least(more, Total(reward)) = more
    BY <1>8, <2>1, LeastLemma
  <2> QED BY <1>11, <2>2, MovedPartLemma
<1>13. PICK start \in Fractions : start = Minus(reward, stakes)
  BY <1>12, MinusLemma
<1>14. SumOf(value, (1..L) \ {so}) <= Total(start)
  <2>1. \A k \in Indexes : reward[k] \in Int /\ stakes[k] \in Int /\ start[k] = reward[k] - stakes[k]
    BY <1>12, <1>13, AmountType DEF Minus
  <2>2. Total(start) = Total(reward) - Total(stakes)
    BY <2>1, TotalMinus
  <2> QED BY <1>7, <1>8, <1>9, <1>10, <1>12, <2>2
<1>15. PICK left : left = CHOOSE f : Handed(f, Len(tx.vout), so, tx.vout, start)
  OBVIOUS
<1>16. Handed(left, L, so, tx.vout, start)
  BY <1>1, <1>15, HandedExists
<1>17. RewardOf = [o \in 1..L |-> IF o = so THEN stakes ELSE Minus(left[o - 1], left[o])]
  <2>1. PICK st : st = MovedPart(tx.reward, tx.vout[StakeOut].value - Total(StakeIn.fractions))
    OBVIOUS
  <2>2. PICK lf : lf = CHOOSE f : Handed(f, Len(tx.vout), StakeOut, tx.vout, Minus(tx.reward, st))
    OBVIOUS
  <2>3. RewardOf = [o \in DOMAIN tx.vout |-> IF o = StakeOut THEN st ELSE Minus(lf[o - 1], lf[o])]
    BY <2>1, <2>2 DEF RewardOf, Handed
  <2>4. st = stakes
    BY <1>3, <1>4, <1>5, <1>6, <1>7, <1>10, <1>11, <2>1
  <2>5. lf = left
    BY <1>4, <1>6, <1>13, <1>15, <2>2, <2>4
  <2> QED BY <1>1, <1>4, <2>3, <2>4, <2>5
<1>18. /\ Handing(left, L, so, value, start, L)
       /\ \A o \in (1..L) \ {so} : HandedOut(left, value, o)
       /\ \A o \in 0..L : left[o] \in Fractions
  <2>1. \A o \in 1..L : value[o] = tx.vout[o].value
    BY <1>3
  <2> QED BY <1>7, <1>14, <1>16, <2>1, HandAll
<1>19. \A o \in 1..L : RewardOf[o] \in Fractions /\ (o # so => Total(RewardOf[o]) = tx.vout[o].value)
  <2> SUFFICES ASSUME NEW o \in 1..L PROVE RewardOf[o] \in Fractions /\ (o # so => Total(RewardOf[o]) = tx.vout[o].value)
    OBVIOUS
  <2>1. CASE o = so
    BY <1>12, <1>17, <2>1
  <2>2. CASE o # so
    <3>1. HandedOut(left, value, o) /\ RewardOf[o] = Minus(left[o - 1], left[o])
      BY <1>17, <1>18, <2>2
    <3> QED BY <1>3, <3>1 DEF HandedOut
  <2> QED BY <2>1, <2>2
<1>20. Total(s) + Total(RewardOf[so]) = tx.vout[so].value
  BY <1>3, <1>7, <1>8, <1>10, <1>12, <1>17
<1>21. ASSUME NEW k \in Indexes
       PROVE  SumOf([o \in 1..L |-> RewardOf[o][k]], 1..L) <= reward[k]
  <2>1. PICK r : r = [o \in 1..L |-> RewardOf[o][k]]
    OBVIOUS
  <2>2. PICK d : d = [o \in 1..L |-> left[o - 1][k] - left[o][k]]
    OBVIOUS
  <2>3. \A o \in 1..L : r[o] \in Int
    BY <1>19, <2>1, AmountType
  <2>4. IsFiniteSet(1..L) /\ IsFiniteSet((1..L) \ {so})
    <3>1. IsFiniteSet(1..L)
      BY FS_Interval
    <3> QED BY <3>1, FS_RemoveElement
  <2>5. SumOf(r, 1..L) = r[so] + SumOf(r, (1..L) \ {so})
    BY <1>7, <2>3, <2>4, SumRemove
  <2>6. r[so] = stakes[k]
    BY <1>7, <1>17, <2>1
  <2>7. \A o \in (1..L) \ {so} : d[o] = r[o] /\ r[o] \in Int
    BY <1>17, <2>1, <2>2, <2>3 DEF Minus
  <2>8. SumOf(d, (1..L) \ {so}) = SumOf(r, (1..L) \ {so})
    BY <2>4, <2>7, SumEqual
  <2>9. SumOf(d, (1..L) \ {so}) + left[L][k] = start[k]
    BY <1>18, <2>2 DEF Handing, Before
  <2>10. left[L][k] \in Nat /\ start[k] = reward[k] - stakes[k] /\ reward[k] \in Int /\ stakes[k] \in Int
    <3>1. left[L] \in Fractions
      BY <1>18
    <3> QED BY <1>12, <1>13, <3>1, AmountType DEF Minus
  <2>11. SumOf(r, (1..L) \ {so}) \in Int
    <3>1. \A o \in (1..L) \ {so} : r[o] \in Int
      BY <2>3
    <3> QED BY <2>4, <3>1, SumType
  <2>12. SumOf(r, 1..L) <= reward[k]
    BY <2>5, <2>6, <2>8, <2>9, <2>10, <2>11
  <2> QED BY <2>1, <2>12
<1> QED BY <1>1, <1>4, <1>5, <1>6, <1>17, <1>19, <1>20, <1>21

\* The outputs of an accepted coinstake.
LEMMA StakeStep ==
  ASSUME Staking, CalculateStakingFractions, StakeAllowed
  PROVE  StakeReturns'
<1>1. PICK D : D = DOMAIN tx.vout
  OBVIOUS
<1>2. PICK so : so = StakeOut
  OBVIOUS
<1>3. PICK s \in Fractions : s = StakeIn.fractions
  <2>1. 1 \in DOMAIN tx.vin
    BY DEF Staking
  <2>2. tx.vin[1] \in TxIns
    BY <2>1 DEF Staking
  <2> QED BY <2>2 DEF StakeIn, TxIns
<1>4. PICK R : R = RewardOf
  OBVIOUS
<1>5. PICK made : made = outs'
  OBVIOUS
<1>6. /\ tx' = tx
      /\ made = [o \in D |-> IF o = so THEN [mark |-> StakeIn.mark, fractions |-> Plus(s, R[o])]
                             ELSE [mark |-> "", fractions |-> R[o]]]
  BY <1>1, <1>2, <1>3, <1>4, <1>5 DEF CalculateStakingFractions
<1>7. /\ \A o \in D : R[o] \in Fractions
      /\ \A o \in D : o # so => Total(R[o]) = tx.vout[o].value
      /\ Total(s) + Total(R[so]) = tx.vout[so].value
      /\ \A k \in Indexes : SumOf([o \in D |-> R[o][k]], D) <= tx.reward[k]
  BY <1>1, <1>2, <1>3, <1>4, RewardLemma
<1>8. so \in D /\ tx.vout[so].address = StakeIn.address
  BY <1>1, <1>2, StakeOutLemma DEF ReturnsStake
<1>9. IsFiniteSet(D) /\ tx.reward \in Fractions
  <2>1. D = 1..Len(tx.vout) /\ Len(tx.vout) \in Nat
    BY <1>1 DEF Staking
  <2> QED BY <2>1, FS_Interval DEF Staking
<1>10. /\ DOMAIN made = D /\ made[so].mark = StakeIn.mark /\ made[so].fractions = Plus(s, R[so])
       /\ \A o \in D : o # so => made[o].fractions = R[o]
  BY <1>6, <1>8
<1>11. ASSUME NEW o \in D
       PROVE  /\ made[o].fractions \in Fractions /\ Total(made[o].fractions) = tx.vout[o].value
              /\ IsPositive(made[o].fractions)
  <2>1. made[o].fractions \in Fractions /\ Total(made[o].fractions) = tx.vout[o].value
    <3>1. CASE o = so
      <4>1. PICK r \in Fractions : r = R[so]
        BY <1>7, <1>8
      <4>2. PICK h \in Fractions : h = Plus(s, r)
        BY PlusLemma
      <4>3. \A k \in Indexes : s[k] \in Int /\ r[k] \in Int /\ h[k] = s[k] + r[k]
        BY <4>2, AmountType DEF Plus
      <4>4. Total(h) = Total(s) + Total(r)
        BY <4>3, TotalPlus
      <4> QED BY <1>7, <1>10, <3>1, <4>1, <4>2, <4>4
    <3>2. CASE o # so
      BY <1>7, <1>10, <3>2
    <3> QED BY <3>1, <3>2
  <2>2. \A k \in Indexes : made[o].fractions[k] \in Nat
    BY <2>1, AmountType
  <2>3. \A x \in Nat : x >= 0
    OBVIOUS
  <2> QED BY <2>1, <2>2, <2>3 DEF IsPositive
<1>12. ASSUME NEW k \in Indexes PROVE made[so].fractions[k] >= s[k]
  <2>1. made[so].fractions[k] = s[k] + R[so][k]
    BY <1>10 DEF Plus
  <2>2. s[k] \in Nat /\ R[so][k] \in Nat
    BY <1>7, <1>8, AmountType
  <2> QED BY <2>1, <2>2
<1>13. ASSUME NEW k \in Indexes PROVE SumAll(FractionsOf(made))[k] <= s[k] + tx.reward[k]
  <2>1. PICK r : r = [o \in D |-> R[o][k]]
    OBVIOUS
  <2>2. PICK h : h = [o \in D |-> FractionsOf(made)[o][k]]
    OBVIOUS
  <2>3. DOMAIN FractionsOf(made) = D /\ \A o \in D : FractionsOf(made)[o] = made[o].fractions
    BY <1>10 DEF FractionsOf
  <2>4. SumAll(FractionsOf(made))[k] = SumOf(h, D)
    BY <2>2, <2>3 DEF SumAll, SumOver
  <2>5. \A o \in D : r[o] \in Int
    BY <1>7, <2>1, AmountType
  <2>6. s[k] \in Int /\ tx.reward[k] \in Int
    BY <1>9, AmountType
  <2>7. h[so] = s[k] + r[so]
    BY <1>8, <1>10, <2>1, <2>2, <2>3 DEF Plus
  <2>8. \A o \in D : o # so => h[o] = r[o]
    BY <1>10, <2>1, <2>2, <2>3
  <2>9. h[so] \in Int /\ r[so] \in Int
    BY <1>8, <2>5, <2>6, <2>7
  <2>10. SumOf(h, D) = SumOf(r, D) - r[so] + h[so]
    BY <1>8, <1>9, <2>5, <2>8, <2>9, SumExcept
  <2>11. SumOf(r, D) \in Int /\ SumOf(r, D) <= tx.reward[k]
    BY <1>7, <1>9, <2>1, <2>5, SumType
  <2>12. SumOf(h, D) <= s[k] + tx.reward[k]
    BY <2>6, <2>7, <2>9, <2>10, <2>11
  <2> QED BY <2>4, <2>12
<1>14. StakeIn' = StakeIn /\ outs' = made
  BY <1>5, <1>6 DEF StakeIn
<1>15. \E o \in DOMAIN made : /\ tx.vout[o].address = StakeIn.address
                              /\ made[o].mark = StakeIn.mark
                              /\ \A k \in Indexes : made[o].fractions[k] >= StakeIn.fractions[k]
  BY <1>3, <1>8, <1>10, <1>12
<1>16. \E o \in DOMAIN outs' : /\ tx'.vout[o].address = StakeIn'.address
                               /\ outs'[o].mark = StakeIn'.mark
                               /\ \A k \in Indexes : outs'[o].fractions[k] >= StakeIn'.fractions[k]
  BY <1>6, <1>14, <1>15
<1>17. \A k \in Indexes : SumAll(FractionsOf(outs'))[k] <= StakeIn'.fractions[k] + tx'.reward[k]
  BY <1>3, <1>6, <1>13, <1>14
<1>18. \A o \in DOMAIN outs' : Total(outs'[o].fractions) = tx'.vout[o].value /\ IsPositive(outs'[o].fractions)
  BY <1>6, <1>10, <1>11, <1>14
<1> QED BY <1>16, <1>17, <1>18 DEF StakeReturns

\* A coinstake takes one step; its outputs stay as that step makes them.
StakeInv == tx.reward # Null => Staking /\ phase \in {"stake", "done", "failed"} /\ StakeReturns

\* Staking returns the stake: for any coinstake, the output at the stake's
\* address holds all of it, fraction by fraction, every output is worth its
\* value, and all of them together are no more than stake and reward.
THEOREM StakeReturnsAlways == Spec => []StakeReturns
<1>1. Init => StakeInv
  <2> SUFFICES ASSUME Init, tx.reward # Null PROVE Staking /\ phase = "stake" /\ StakeReturns
    BY DEF StakeInv
  <2>1. phase = "stake"
    BY DEF Init
  <2>2. PICK family \in Transactions : tx \in family
    BY DEF Init
  <2>3. Staking
    BY <2>2, TransactionsAssumption DEF Staking
  <2> QED BY <2>1, <2>3 DEF StakeReturns
<1>2. StakeInv /\ [Next]_vars => StakeInv'
  <2> SUFFICES ASSUME StakeInv, [Next]_vars, tx'.reward # Null
               PROVE  Staking' /\ phase' \in {"stake", "done", "failed"} /\ StakeReturns'
    BY DEF StakeInv
  <2>1. tx' = tx
    BY FillFails DEF Next, RefuseInput, Refuse, TakeInput, TakeColdInput, FreezeShared, FreezeOne, InputTaken,
       ShareLiquidity, PlainOutput, FrozenOutput, SharedFrozenOutput, SharedVoluntaryOutput, SharedEmptyOutput, Finish,
       CalculateStakingFractions, vars
  <2>2. Staking /\ phase \in {"stake", "done", "failed"} /\ StakeReturns
    BY <2>1 DEF StakeInv
  <2>3. Staking'
    BY <2>1, <2>2 DEF Staking
  <2>4. CASE UNCHANGED vars
    <3>1. phase' = phase /\ outs' = outs
      BY <2>4 DEF vars
    <3> QED BY <2>1, <2>2, <2>3, <3>1 DEF StakeReturns, StakeIn
  <2>5. CASE Next
    <3>1. CalculateStakingFractions
      BY <2>2, <2>5 DEF Next, RefuseInput, TakeInput, TakeColdInput, FreezeShared, FreezeOne, Accepted,
         ShareLiquidity, PlainOutput, FrozenOutput, SharedFrozenOutput, SharedVoluntaryOutput, SharedEmptyOutput, Finish
    <3>2. CASE StakeAllowed
      <4>1. phase' = "done"
        BY <3>1, <3>2 DEF CalculateStakingFractions
      <4> QED BY <2>2, <2>3, <3>1, <3>2, <4>1, StakeStep
    <3>3. CASE ~ StakeAllowed
      <4>1. phase' = "failed"
        BY <3>1, <3>3 DEF CalculateStakingFractions
      <4> QED BY <2>3, <4>1 DEF StakeReturns
    <3> QED BY <3>2, <3>3
  <2> QED BY <2>4, <2>5
<1>3. StakeInv => StakeReturns
  BY DEF StakeInv, StakeReturns
<1> QED BY <1>1, <1>2, <1>3, PTL DEF Spec

-----------------------------------------------------------------------------
(* Payments                                                                *)

OutAddresses == {tx.vout[o].address : o \in DOMAIN tx.vout}
Values == [o \in DOMAIN tx.vout |-> tx.vout[o].value]
Lows == [i \in DOMAIN tx.vin |-> Low(tx.vin[i].fractions, supply)]
Highs == [i \in DOMAIN tx.vin |-> High(tx.vin[i].fractions, supply)]

\* What the outputs of S send to an address, and the reserve the inputs of T have there
SentBy(a, S) == SumOf(Values, {o \in S : tx.vout[o].address = a})
KeptBy(a, T) == SumOf(Lows, {i \in T : tx.vin[i].address = a})

\* What an amount is over another one
Over(x, y) == x - Least(x, y)

\* What the outputs of S need beyond the reserve of the inputs of T, by address
Beyond(S, T) == [a \in OutAddresses |-> Over(SentBy(a, S), KeptBy(a, T))]

\* A payment halfway: each address has its reserve less what was sent to it, and
\* what was sent beyond the reserves is taken from the liquid of all inputs.
PayInv ==
  /\ poolFrozen = <<>>
  /\ \A a \in Nat : Total(At(poolReserves, a, Zero)) = Over(KeptBy(a, TakenIns), SentBy(a, DOMAIN outs))
  /\ nLiquidity = SumOf(Highs, TakenIns) - SumOf(Beyond(DOMAIN outs, TakenIns), OutAddresses)
  /\ Total(Liquid) = nLiquidity
  /\ \A o \in DOMAIN outs : Total(outs[o].fractions) = tx.vout[o].value
  /\ phase = "done" => IsPayable

PaymentInv == IsPayment => IF phase = "failed" THEN ~ IsPayable ELSE PayInv

\* Over and under.
LEMMA OverLemma ==
  ASSUME NEW s \in Nat, NEW k \in Nat, NEW v \in Nat
  PROVE  /\ Over(s, k) \in Nat /\ Over(0, k) = 0 /\ Over(k, 0) = k
         /\ Over(s + v, k) = Over(s, k) + Over(v, Over(k, s))
         /\ Over(k, s + v) = Over(k, s) - Least(v, Over(k, s))
         /\ Over(s, k) <= Over(s + v, k)
<1>1. \A x, y \in Nat : (x < y => Over(x, y) = 0) /\ (~ (x < y) => Over(x, y) = x - y)
  BY DEF Over, Least
<1>2. Over(0, k) = 0 /\ Over(k, 0) = k
  BY <1>1
<1>3. s + v \in Nat
  OBVIOUS
<1>4. CASE s < k
  <2>1. Over(s, k) = 0 /\ Over(k, s) = k - s /\ k - s \in Nat
    BY <1>1, <1>4
  <2>2. PICK r \in Nat : r = k - s
    BY <2>1
  <2>3. CASE v < r
    <3>1. Over(v, r) = 0 /\ Least(v, r) = v
      BY <1>1, <2>3 DEF Least
    <3>2. s + v < k
      BY <2>2, <2>3
    <3>3. Over(s + v, k) = 0 /\ Over(k, s + v) = k - (s + v)
      BY <1>1, <1>3, <3>2
    <3> QED BY <1>2, <2>1, <2>2, <3>1, <3>3
  <2>4. CASE ~ (v < r)
    <3>1. Over(v, r) = v - r /\ Least(v, r) = r
      BY <1>1, <2>4 DEF Least
    <3>2. ~ (s + v < k)
      BY <2>2, <2>4
    <3>3. Over(s + v, k) = (s + v) - k
      BY <1>1, <1>3, <3>2
    <3>4. Over(k, s + v) = 0
      <4>1. CASE k < s + v
        BY <1>1, <1>3, <4>1
      <4>2. CASE ~ (k < s + v)
        BY <1>1, <1>3, <3>2, <4>2
      <4> QED BY <4>1, <4>2
    <3> QED BY <1>2, <2>1, <2>2, <2>4, <3>1, <3>3, <3>4
  <2> QED BY <2>3, <2>4
<1>5. CASE ~ (s < k)
  <2>1. Over(s, k) = s - k
    BY <1>1, <1>5
  <2>2. Over(k, s) = 0
    <3>1. CASE k < s
      BY <1>1, <3>1
    <3>2. CASE ~ (k < s)
      BY <1>1, <1>5, <3>2
    <3> QED BY <3>1, <3>2
  <2>3. Over(v, 0) = v /\ Least(v, 0) = 0
    BY <1>1 DEF Least
  <2>4. Over(s + v, k) = (s + v) - k
    BY <1>1, <1>3, <1>5
  <2>5. Over(k, s + v) = 0
    <3>1. CASE k < s + v
      BY <1>1, <1>3, <3>1
    <3>2. CASE ~ (k < s + v)
      BY <1>1, <1>3, <1>5, <3>2
    <3> QED BY <3>1, <3>2
  <2> QED BY <1>2, <1>5, <2>1, <2>2, <2>3, <2>4, <2>5
<1> QED BY <1>4, <1>5

\* The amounts of a payment are numbers.
LEMMA PayTypes ==
  ASSUME TxInv
  PROVE  /\ IsFiniteSet(OutAddresses) /\ OutAddresses \subseteq Nat
         /\ \A o \in DOMAIN tx.vout : /\ Values[o] = tx.vout[o].value /\ Values[o] \in Nat
                                      /\ tx.vout[o].address \in OutAddresses
         /\ \A i \in DOMAIN tx.vin : Lows[i] \in Nat /\ Highs[i] \in Nat
         /\ IsFiniteSet(DOMAIN tx.vin) /\ IsFiniteSet(DOMAIN tx.vout)
<1>1. DOMAIN tx.vout = 1..Len(tx.vout) /\ IsFiniteSet(DOMAIN tx.vout)
  BY OutsLemma
<1>2. DOMAIN tx.vin = 1..Len(tx.vin) /\ Len(tx.vin) \in Nat
  BY TakenLemma
<1>3. \A o \in DOMAIN tx.vout : tx.vout[o] \in TxOuts /\ tx.vout[o].value \in Nat /\ tx.vout[o].address \in Nat
  BY OutsLemma DEF TxOuts
<1>4. IsFiniteSet(OutAddresses)
  <2>1. PICK D : D = DOMAIN tx.vout
    OBVIOUS
  <2>2. PICK f : f = [o \in D |-> tx.vout[o].address]
    OBVIOUS
  <2>3. OutAddresses = {f[o] : o \in D}
    BY <2>1, <2>2 DEF OutAddresses
  <2>4. f \in Surjection(D, {f[o] : o \in D})
    BY <2>2 DEF Surjection
  <2> QED BY <1>1, <2>1, <2>3, <2>4, FS_Surjection
<1>5. ASSUME NEW i \in DOMAIN tx.vin PROVE Lows[i] \in Nat /\ Highs[i] \in Nat
  <2>1. PICK f \in Fractions : f = tx.vin[i].fractions
    BY <1>2, TakenLemma
  <2>2. supply \in 0..PegSize
    BY PegSizeAssumption DEF TxInv, Indexes
  <2>3. \A k \in Indexes : f[k] \in Nat
    BY AmountType
  <2>4. Low(f, supply) \in Nat /\ High(f, supply) \in Nat
    BY <2>2, <2>3, TotalNat
  <2> QED BY <2>1, <2>4 DEF Lows, Highs
<1>6. IsFiniteSet(DOMAIN tx.vin)
  BY <1>2, FS_Interval
<1>7. OutAddresses \subseteq Nat /\ \A o \in DOMAIN tx.vout : tx.vout[o].address \in OutAddresses
  BY <1>3 DEF OutAddresses
<1>8. \A o \in DOMAIN tx.vout : Values[o] = tx.vout[o].value
  BY DEF Values
<1> QED BY <1>1, <1>3, <1>4, <1>5, <1>6, <1>7, <1>8

\* What is sent to an address, output by output.
LEMMA SentLemma ==
  ASSUME TxInv, NEW a, NEW S \in SUBSET DOMAIN tx.vout
  PROVE  /\ SentBy(a, S) \in Nat /\ SentBy(a, {}) = 0
         /\ \A o \in DOMAIN tx.vout \ S : SentBy(a, S \union {o})
                                            = SentBy(a, S) + IF tx.vout[o].address = a THEN tx.vout[o].value ELSE 0
         /\ SentBy(a, S) <= SentBy(a, DOMAIN tx.vout)
<1>1. PICK g : g = Values
  OBVIOUS
<1>2. PICK D : D = DOMAIN tx.vout
  OBVIOUS
<1>3. IsFiniteSet(D) /\ \A o \in D : g[o] = tx.vout[o].value /\ g[o] \in Nat
  BY <1>1, <1>2, PayTypes
<1>4. PICK P : P = {o \in D : tx.vout[o].address = a}
  OBVIOUS
<1>5. \A U \in SUBSET D : SentBy(a, U) = SumOf(g, U \intersect P)
  <2> SUFFICES ASSUME NEW U \in SUBSET D PROVE SentBy(a, U) = SumOf(g, U \intersect P)
    OBVIOUS
  <2>1. {o \in U : tx.vout[o].address = a} = U \intersect P
    BY <1>4
  <2> QED BY <1>1, <2>1 DEF SentBy
<1>6. \A U \in SUBSET D : IsFiniteSet(U \intersect P) /\ \A o \in U \intersect P : g[o] \in Nat
  BY <1>3, FS_Subset
<1>7. \A U \in SUBSET D : SentBy(a, U) \in Nat
  <2> SUFFICES ASSUME NEW U \in SUBSET D PROVE SentBy(a, U) \in Nat
    OBVIOUS
  <2>1. PICK X : X = U \intersect P
    OBVIOUS
  <2>2. SumOf(g, X) \in Nat
    BY <1>6, <2>1, SumNat
  <2> QED BY <1>5, <2>1, <2>2
<1>8. SentBy(a, {}) = 0
  <2>1. {} \intersect P = {} /\ {} \in SUBSET D
    OBVIOUS
  <2> QED BY <1>5, <2>1, SumRecursion
<1>9. ASSUME NEW o \in D \ S
      PROVE  SentBy(a, S \union {o}) = SentBy(a, S) + IF tx.vout[o].address = a THEN tx.vout[o].value ELSE 0
  <2>1. S \in SUBSET D /\ S \union {o} \in SUBSET D
    BY <1>2, <1>9
  <2>2. CASE o \in P
    <3>1. PICK X : X = (S \union {o}) \intersect P
      OBVIOUS
    <3>2. o \in X /\ X \ {o} = S \intersect P /\ IsFiniteSet(X) /\ \A x \in X : g[x] \in Int
      BY <1>6, <2>1, <2>2, <3>1
    <3>3. SumOf(g, X) = g[o] + SumOf(g, X \ {o})
      BY <3>2, SumRemove
    <3>4. SentBy(a, S \union {o}) = g[o] + SentBy(a, S)
      BY <1>5, <2>1, <3>1, <3>2, <3>3
    <3>5. g[o] = tx.vout[o].value /\ g[o] \in Nat /\ tx.vout[o].address = a /\ SentBy(a, S) \in Nat
      BY <1>3, <1>4, <1>7, <2>1, <2>2
    <3> QED BY <3>4, <3>5
  <2>3. CASE o \notin P
    <3>1. (S \union {o}) \intersect P = S \intersect P /\ tx.vout[o].address # a
      BY <1>4, <2>3
    <3>2. SentBy(a, S \union {o}) = SentBy(a, S) /\ SentBy(a, S) \in Nat
      BY <1>5, <1>7, <2>1, <3>1
    <3> QED BY <3>1, <3>2
  <2> QED BY <2>2, <2>3
<1>10. SentBy(a, S) <= SentBy(a, D)
  <2>1. PICK X : X = S \intersect P
    OBVIOUS
  <2>2. PICK Y : Y = P \ S
    OBVIOUS
  <2>3. /\ X \union Y = D \intersect P /\ X \intersect Y = {} /\ IsFiniteSet(X) /\ IsFiniteSet(Y)
        /\ (\A x \in X \union Y : g[x] \in Int) /\ \A x \in Y : g[x] \in Nat
    <3>1. IsFiniteSet(D \intersect P) /\ P \subseteq D
      BY <1>4, <1>6
    <3>2. X \union Y = D \intersect P /\ X \intersect Y = {} /\ X \subseteq D \intersect P /\ Y \subseteq D \intersect P
      BY <1>2, <2>1, <2>2, <3>1
    <3> QED BY <1>3, <3>1, <3>2, FS_Subset
  <2>4. SumOf(g, X \union Y) = SumOf(g, X) + SumOf(g, Y)
    BY <2>3, SumUnion
  <2>5. SumOf(g, Y) \in Nat
    BY <2>3, SumNat
  <2>6. SentBy(a, S) = SumOf(g, X) /\ SentBy(a, D) = SumOf(g, X \union Y) /\ SentBy(a, S) \in Nat
    BY <1>2, <1>5, <1>7, <2>1, <2>3
  <2> QED BY <2>4, <2>5, <2>6
<1> QED BY <1>2, <1>7, <1>8, <1>9, <1>10

\* What an address keeps, input by input.
LEMMA KeptLemma ==
  ASSUME TxInv, NEW a, NEW T \in SUBSET DOMAIN tx.vin
  PROVE  /\ KeptBy(a, T) \in Nat /\ KeptBy(a, {}) = 0
         /\ \A i \in DOMAIN tx.vin \ T : KeptBy(a, T \union {i})
                                           = KeptBy(a, T) + IF tx.vin[i].address = a THEN Lows[i] ELSE 0
<1>1. PICK g : g = Lows
  OBVIOUS
<1>2. PICK D : D = DOMAIN tx.vin
  OBVIOUS
<1>3. IsFiniteSet(D) /\ \A o \in D : g[o] \in Nat
  BY <1>1, <1>2, PayTypes
<1>4. PICK P : P = {o \in D : tx.vin[o].address = a}
  OBVIOUS
<1>5. \A U \in SUBSET D : KeptBy(a, U) = SumOf(g, U \intersect P)
  <2> SUFFICES ASSUME NEW U \in SUBSET D PROVE KeptBy(a, U) = SumOf(g, U \intersect P)
    OBVIOUS
  <2>1. {o \in U : tx.vin[o].address = a} = U \intersect P
    BY <1>4
  <2> QED BY <1>1, <2>1 DEF KeptBy
<1>6. \A U \in SUBSET D : IsFiniteSet(U \intersect P) /\ \A o \in U \intersect P : g[o] \in Nat
  BY <1>3, FS_Subset
<1>7. \A U \in SUBSET D : KeptBy(a, U) \in Nat
  <2> SUFFICES ASSUME NEW U \in SUBSET D PROVE KeptBy(a, U) \in Nat
    OBVIOUS
  <2>1. PICK X : X = U \intersect P
    OBVIOUS
  <2>2. SumOf(g, X) \in Nat
    BY <1>6, <2>1, SumNat
  <2> QED BY <1>5, <2>1, <2>2
<1>8. KeptBy(a, {}) = 0
  <2>1. {} \intersect P = {} /\ {} \in SUBSET D
    OBVIOUS
  <2> QED BY <1>5, <2>1, SumRecursion
<1>9. ASSUME NEW o \in D \ T
      PROVE  KeptBy(a, T \union {o}) = KeptBy(a, T) + IF tx.vin[o].address = a THEN g[o] ELSE 0
  <2>1. T \in SUBSET D /\ T \union {o} \in SUBSET D
    BY <1>2, <1>9
  <2>2. CASE o \in P
    <3>1. PICK X : X = (T \union {o}) \intersect P
      OBVIOUS
    <3>2. o \in X /\ X \ {o} = T \intersect P /\ IsFiniteSet(X) /\ \A x \in X : g[x] \in Int
      BY <1>6, <2>1, <2>2, <3>1
    <3>3. SumOf(g, X) = g[o] + SumOf(g, X \ {o})
      BY <3>2, SumRemove
    <3>4. KeptBy(a, T \union {o}) = g[o] + KeptBy(a, T)
      BY <1>5, <2>1, <3>1, <3>2, <3>3
    <3>5. g[o] \in Nat /\ tx.vin[o].address = a /\ KeptBy(a, T) \in Nat
      BY <1>3, <1>4, <1>7, <2>1, <2>2
    <3> QED BY <3>4, <3>5
  <2>3. CASE o \notin P
    <3>1. (T \union {o}) \intersect P = T \intersect P /\ tx.vin[o].address # a
      BY <1>4, <2>3
    <3>2. KeptBy(a, T \union {o}) = KeptBy(a, T) /\ KeptBy(a, T) \in Nat
      BY <1>5, <1>7, <2>1, <3>1
    <3> QED BY <3>1, <3>2
  <2> QED BY <2>2, <2>3
<1> QED BY <1>1, <1>2, <1>7, <1>8, <1>9

\* What is beyond the reserves, output by output.
LEMMA BeyondLemma ==
  ASSUME TxInv, NEW S \in SUBSET DOMAIN tx.vout, NEW T \in SUBSET DOMAIN tx.vin
  PROVE  /\ SumOf(Beyond(S, T), OutAddresses) \in Nat
         /\ SumOf(Beyond({}, T), OutAddresses) = 0
         /\ SumOf(Beyond(S, T), OutAddresses) <= SumOf(Beyond(DOMAIN tx.vout, T), OutAddresses)
         /\ \A o \in DOMAIN tx.vout \ S :
              LET a == tx.vout[o].address
              IN  SumOf(Beyond(S \union {o}, T), OutAddresses)
                    = SumOf(Beyond(S, T), OutAddresses) + Over(tx.vout[o].value, Over(KeptBy(a, T), SentBy(a, S)))
<1>1. PICK A : A = OutAddresses
  OBVIOUS
<1>2. IsFiniteSet(A)
  BY <1>1, PayTypes
<1>3. \A U : \A a \in A : Beyond(U, T)[a] = Over(SentBy(a, U), KeptBy(a, T))
  BY <1>1 DEF Beyond
<1>4. \A U \in SUBSET DOMAIN tx.vout : \A a \in A : Beyond(U, T)[a] \in Nat
  <2> SUFFICES ASSUME NEW U \in SUBSET DOMAIN tx.vout, NEW a \in A PROVE Beyond(U, T)[a] \in Nat
    OBVIOUS
  <2>1. PICK s \in Nat : s = SentBy(a, U)
    BY SentLemma
  <2>2. PICK k \in Nat : k = KeptBy(a, T)
    BY KeptLemma
  <2>3. Over(s, k) \in Nat
    BY OverLemma
  <2> QED BY <1>3, <2>1, <2>2, <2>3
<1>5. ASSUME NEW U \in SUBSET DOMAIN tx.vout PROVE SumOf(Beyond(U, T), A) \in Nat
  <2>1. PICK g : g = Beyond(U, T)
    OBVIOUS
  <2>2. \A a \in A : g[a] \in Nat
    BY <1>4, <2>1
  <2>3. SumOf(g, A) \in Nat
    BY <1>2, <2>2, SumNat
  <2> QED BY <2>1, <2>3
<1>6. SumOf(Beyond({}, T), A) = 0
  <2>1. PICK g : g = Beyond({}, T)
    OBVIOUS
  <2>2. ASSUME NEW a \in A PROVE g[a] = 0
    <3>1. PICK k \in Nat : k = KeptBy(a, T)
      BY KeptLemma
    <3>2. SentBy(a, {}) = 0
      BY SentLemma
    <3>3. Over(0, k) = 0
      BY OverLemma
    <3> QED BY <1>3, <2>1, <3>1, <3>2, <3>3
  <2>3. SumOf(g, A) = 0
    BY <1>2, <2>2, SumZero
  <2> QED BY <2>1, <2>3
<1>7. SumOf(Beyond(S, T), A) <= SumOf(Beyond(DOMAIN tx.vout, T), A)
  <2>1. PICK g : g = Beyond(S, T)
    OBVIOUS
  <2>2. PICK h : h = Beyond(DOMAIN tx.vout, T)
    OBVIOUS
  <2>3. ASSUME NEW a \in A PROVE g[a] \in Int /\ h[a] \in Int /\ g[a] <= h[a]
    <3>1. PICK s \in Nat : s = SentBy(a, S)
      BY SentLemma
    <3>2. PICK t \in Nat : t = SentBy(a, DOMAIN tx.vout)
      BY SentLemma
    <3>3. PICK k \in Nat : k = KeptBy(a, T)
      BY KeptLemma
    <3>4. s <= t
      BY <3>1, <3>2, SentLemma
    <3>5. PICK v \in Nat : t = s + v
      <4>1. t - s \in Nat /\ t = s + (t - s)
        BY <3>4
      <4> QED BY <4>1
    <3>6. Over(s, k) <= Over(s + v, k)
      BY OverLemma
    <3>7. g[a] = Over(s, k) /\ h[a] = Over(t, k) /\ g[a] \in Nat /\ h[a] \in Nat
      BY <1>3, <1>4, <2>1, <2>2, <3>1, <3>2, <3>3
    <3> QED BY <3>5, <3>6, <3>7
  <2>4. SumOf(g, A) <= SumOf(h, A)
    BY <1>2, <2>3, SumMonotone
  <2> QED BY <2>1, <2>2, <2>4
<1>8. ASSUME NEW o \in DOMAIN tx.vout \ S, NEW a, a = tx.vout[o].address
      PROVE  SumOf(Beyond(S \union {o}, T), A)
               = SumOf(Beyond(S, T), A) + Over(tx.vout[o].value, Over(KeptBy(a, T), SentBy(a, S)))
  <2>1. PICK g : g = Beyond(S, T)
    OBVIOUS
  <2>2. PICK h : h = Beyond(S \union {o}, T)
    OBVIOUS
  <2>3. PICK v \in Nat : v = tx.vout[o].value
    BY OutsLemma
  <2>4. PICK s \in Nat : s = SentBy(a, S)
    BY SentLemma
  <2>5. PICK k \in Nat : k = KeptBy(a, T)
    BY KeptLemma
  <2>6. a \in A
    BY <1>1, <1>8, PayTypes
  <2>7. SentBy(a, S \union {o}) = s + v /\ \A b : b # a => SentBy(b, S \union {o}) = SentBy(b, S)
    <3>1. SentBy(a, S \union {o}) = s + v
      BY <1>8, <2>3, <2>4, SentLemma
    <3>2. ASSUME NEW b, b # a PROVE SentBy(b, S \union {o}) = SentBy(b, S)
      <4>1. SentBy(b, S \union {o}) = SentBy(b, S) + 0 /\ SentBy(b, S) \in Nat
        BY <1>8, <3>2, SentLemma
      <4> QED BY <4>1
    <3> QED BY <3>1, <3>2
  <2>8. g[a] = Over(s, k) /\ h[a] = Over(s + v, k) /\ \A b \in A : g[b] \in Int /\ (b # a => h[b] = g[b])
    <3>1. g[a] = Over(s, k) /\ h[a] = Over(s + v, k)
      BY <1>3, <2>1, <2>2, <2>4, <2>5, <2>6, <2>7
    <3>2. \A b \in A : g[b] \in Nat
      BY <1>4, <2>1
    <3>3. \A b \in A : b # a => h[b] = g[b]
      BY <1>3, <2>1, <2>2, <2>7
    <3> QED BY <3>1, <3>2, <3>3
  <2>9. /\ Over(s + v, k) = Over(s, k) + Over(v, Over(k, s)) /\ Over(s, k) \in Nat /\ Over(k, s) \in Nat
        /\ Over(s + v, k) \in Nat
    <3>1. Over(s + v, k) = Over(s, k) + Over(v, Over(k, s)) /\ Over(s, k) \in Nat
      BY OverLemma
    <3>2. PICK w \in Nat : w = s + v
      OBVIOUS
    <3>3. Over(w, k) \in Nat
      BY OverLemma
    <3>4. Over(k, s) \in Nat
      BY OverLemma
    <3> QED BY <3>1, <3>2, <3>3, <3>4
  <2>10. Over(v, Over(k, s)) \in Nat
    BY <2>9, OverLemma
  <2>11. SumOf(h, A) = SumOf(g, A) - g[a] + h[a]
    BY <1>2, <2>6, <2>8, <2>9, SumExcept
  <2>12. SumOf(g, A) \in Nat
    BY <1>5, <2>1
  <2>13. SumOf(h, A) = SumOf(g, A) + Over(v, Over(k, s))
    BY <2>8, <2>9, <2>10, <2>11, <2>12
  <2> QED BY <2>1, <2>2, <2>3, <2>4, <2>5, <2>13
<1> QED BY <1>1, <1>5, <1>6, <1>7, <1>8

\* IsPayable in these terms.
LEMMA PayableIs ==
  IsPayable <=> SumOf(Beyond(DOMAIN tx.vout, DOMAIN tx.vin), OutAddresses) <= SumOf(Highs, DOMAIN tx.vin)
  BY DEF IsPayable, Beyond, Over, SentBy, KeptBy, Values, Lows, Highs, OutAddresses

\* PayInv after a step, in terms of the transaction.
LEMMA PayNext ==
  ASSUME tx' = tx, supply' = supply, NEW T, T = TakenIns', NEW S, S = DOMAIN outs', poolFrozen' = <<>>,
         NEW liquid, liquid = Liquid',
         \A a \in Nat : Total(At(poolReserves', a, Zero)) = Over(KeptBy(a, T), SentBy(a, S)),
         nLiquidity' = SumOf(Highs, T) - SumOf(Beyond(S, T), OutAddresses), Total(liquid) = nLiquidity',
         \A o \in S : Total(outs'[o].fractions) = tx.vout[o].value, phase' = "done" => IsPayable
  PROVE  PayInv'
<1>1. Values' = Values /\ Lows' = Lows /\ Highs' = Highs /\ OutAddresses' = OutAddresses
  BY DEF Values, Lows, Highs, OutAddresses
<1>2. \A a : SentBy(a, DOMAIN outs)' = SentBy(a, S) /\ KeptBy(a, TakenIns)' = KeptBy(a, T)
  BY <1>1 DEF SentBy, KeptBy
<1>3. Beyond(DOMAIN outs, TakenIns)' = Beyond(S, T)
  BY <1>1, <1>2 DEF Beyond
<1>4. IsPayable' = IsPayable
  BY DEF IsPayable
<1>5. \A a \in Nat : Total(At(poolReserves, a, Zero))' = Over(KeptBy(a, TakenIns), SentBy(a, DOMAIN outs))'
  <2> SUFFICES ASSUME NEW a \in Nat
               PROVE  Total(At(poolReserves, a, Zero))' = Over(KeptBy(a, TakenIns), SentBy(a, DOMAIN outs))'
    OBVIOUS
  <2>1. Total(At(poolReserves, a, Zero))' = Total(At(poolReserves', a, Zero))
    BY DEF At
  <2>2. Over(KeptBy(a, TakenIns), SentBy(a, DOMAIN outs))' = Over(KeptBy(a, T), SentBy(a, S))
    BY <1>2 DEF Over
  <2> QED BY <2>1, <2>2
<1> QED BY <1>1, <1>3, <1>4, <1>5 DEF PayInv

\* Every input of a payment is taken as it is.
LEMMA PayInputPlain ==
  ASSUME Taking, IsPayment
  PROVE  ~ IsCold /\ ~ IsFreezing /\ ~ RefuseInput
<1>1. n \in DOMAIN tx.vin
  BY InputLemma, TakenLemma DEF Taking
<1>2. Input.mark = ""
  BY <1>1 DEF IsPayment, Input
<1>3. ~ IsCold
  BY <1>2 DEF IsCold
<1>4. ~ IsFreezing
  <2> SUFFICES ASSUME IsFreezing PROVE FALSE
    OBVIOUS
  <2>1. n \in DOMAIN tx.vout
    BY PlaceLemma DEF IsFreezing, Taking, PhaseInv
  <2>2. Place.notary = ""
    BY <2>1 DEF IsPayment, Place
  <2> QED BY <2>2 DEF IsFreezing, Freezes
<1>5. ~ (IsLocked \/ BadNotary \/ ShortNotary \/ ColdTaken \/ ColdCrossed)
  BY <1>2, <1>3, <1>4 DEF IsLocked, BadNotary, ShortNotary, ColdTaken, ColdCrossed
<1> QED BY <1>3, <1>4, <1>5 DEF RefuseInput, Refuse

\* It adds to the reserve of its address and to the liquid of all.
LEMMA PayInput ==
  ASSUME Taking, PayInv, TakeInput
  PROVE  PayInv'
<1>1. /\ poolReserves' = ReserveWithInput /\ poolLiquidity' = LiquidityWithInput
      /\ tx' = tx /\ supply' = supply /\ phase' = phase /\ outs' = outs /\ n' = n + 1 /\ poolFrozen' = poolFrozen
      /\ nLiquidity' = nLiquidity + High(Input.fractions, supply)
  BY DEF TakeInput, InputTaken
<1>2. TxInv /\ phase = "inputs" /\ outs = <<>> /\ IsPool(poolReserves) /\ IsPool(poolLiquidity)
  BY DEF Taking, PhaseInv, PoolInv
<1>3. n \in 1..Len(tx.vin) /\ DOMAIN tx.vin = 1..Len(tx.vin) /\ Len(tx.vin) \in Nat
  BY <1>2, InputLemma, TakenLemma
<1>4. PICK T : T = 1..(n - 1)
  OBVIOUS
<1>5. T = TakenIns /\ T \union {n} = TakenIns' /\ T \in SUBSET DOMAIN tx.vin /\ n \in DOMAIN tx.vin \ T
  <2>1. T = TakenIns
    BY <1>2, <1>4 DEF TakenIns
  <2>2. TakenIns' = 1..((n + 1) - 1)
    BY <1>1, <1>2 DEF TakenIns
  <2>3. T \union {n} = 1..((n + 1) - 1)
    BY <1>3, <1>4
  <2>4. T \in SUBSET DOMAIN tx.vin /\ n \in DOMAIN tx.vin \ T
    BY <1>3, <1>4
  <2> QED BY <2>1, <2>2, <2>3, <2>4
<1>6. PICK S : S = DOMAIN outs
  OBVIOUS
<1>7. S = {} /\ S = DOMAIN outs'
  BY <1>1, <1>2, <1>6
<1>8. PICK f \in Fractions : f = Input.fractions
  BY InputLemma
<1>9. PICK l \in Fractions : l = LowPart(f, supply)
  BY <1>8, InputLemma
<1>10. PICK h \in Fractions : h = HighPart(f, supply)
  BY <1>8, InputLemma
<1>11. PICK b \in Nat : b = Input.address
  BY InputLemma
<1>12. /\ Total(l) = Lows[n] /\ Total(h) = Highs[n] /\ Lows[n] \in Nat /\ Highs[n] \in Nat
       /\ High(Input.fractions, supply) = Highs[n] /\ tx.vin[n].address = b
  <2>1. supply \in 0..PegSize
    BY <1>2, PegSizeAssumption DEF TxInv, Indexes
  <2>2. \A k \in Indexes : f[k] \in Int
    BY AmountType
  <2>3. Total(LowPart(f, supply)) = Low(f, supply) /\ Total(HighPart(f, supply)) = High(f, supply)
    BY <2>1, <2>2, PartsLemma
  <2>4. Lows[n] = Low(f, supply) /\ Highs[n] = High(f, supply)
    BY <1>5, <1>8 DEF Lows, Highs, Input
  <2>5. Lows[n] \in Nat /\ Highs[n] \in Nat
    BY <1>2, <1>5, PayTypes
  <2> QED BY <1>8, <1>9, <1>10, <1>11, <2>3, <2>4, <2>5 DEF Input
<1>13. PICK r : r = ReserveWithInput
  OBVIOUS
<1>14. ASSUME NEW a \in Nat PROVE Total(At(r, a, Zero)) = Over(KeptBy(a, T \union {n}), SentBy(a, S))
  <2>1. PICK k \in Nat : k = KeptBy(a, T)
    BY <1>2, <1>5, KeptLemma
  <2>2. KeptBy(a, T \union {n}) = k + IF b = a THEN Lows[n] ELSE 0
    BY <1>2, <1>5, <1>12, <2>1, KeptLemma
  <2>3. SentBy(a, S) = 0
    BY <1>2, <1>7, SentLemma
  <2>4. Over(k, 0) = k /\ Over(k + Lows[n], 0) = k + Lows[n]
    <3>1. PICK m \in Nat : m = k + Lows[n]
      BY <1>12
    <3>2. Over(k, 0) = k
      BY OverLemma
    <3>3. Over(m, 0) = m
      BY OverLemma
    <3> QED BY <3>1, <3>2, <3>3
  <2>5. Total(At(poolReserves, a, Zero)) = k
    BY <1>5, <1>6, <2>1, <2>3, <2>4 DEF PayInv
  <2>6. PICK map : map = poolReserves
    OBVIOUS
  <2>7. r = PutPlus(map, b, l)
    BY <1>8, <1>9, <1>11, <1>13, <2>6 DEF ReserveWithInput
  <2>8. /\ DOMAIN r = DOMAIN map \union {b} /\ \A c \in DOMAIN map : c # b => r[c] = map[c]
        /\ r[b] = Plus(At(map, b, Zero), l) /\ At(map, b, Zero) \in Fractions
    <3>1. IsPool(map)
      BY <1>2, <2>6
    <3>2. /\ DOMAIN PutPlus(map, b, l) = DOMAIN map \union {b}
          /\ \A c \in DOMAIN map : c # b => PutPlus(map, b, l)[c] = map[c]
          /\ PutPlus(map, b, l)[b] = Plus(At(map, b, Zero), l) /\ At(map, b, Zero) \in Fractions
      BY <3>1, PutPlusLemma
    <3> QED BY <2>7, <3>2
  <2>9. CASE a = b
    <3>1. PICK g \in Fractions : g = At(map, b, Zero)
      BY <2>8
    <3>2. \A j \in Indexes : g[j] \in Int /\ l[j] \in Int /\ Plus(g, l)[j] = g[j] + l[j]
      BY AmountType, PlusLemma
    <3>3. Total(Plus(g, l)) = Total(g) + Total(l)
      BY <3>2, TotalPlus
    <3>4. At(r, a, Zero) = Plus(g, l)
      BY <2>8, <2>9, <3>1 DEF At
    <3>5. Total(At(r, a, Zero)) = k + Lows[n]
      BY <1>12, <2>5, <2>6, <2>9, <3>1, <3>3, <3>4
    <3> QED BY <2>2, <2>3, <2>4, <2>9, <3>5
  <2>10. CASE a # b
    <3>1. At(r, a, Zero) = At(map, a, Zero)
      BY <2>8, <2>10 DEF At
    <3>2. KeptBy(a, T \union {n}) = k
      BY <2>2, <2>10
    <3> QED BY <2>3, <2>4, <2>5, <2>6, <3>1, <3>2
  <2> QED BY <2>9, <2>10
<1>15. /\ SumOf(Highs, T) \in Nat /\ SumOf(Highs, T \union {n}) = SumOf(Highs, T) + Highs[n]
  <2>1. PICK g : g = Highs
    OBVIOUS
  <2>2. PICK U : U = T \union {n}
    OBVIOUS
  <2>3. IsFiniteSet(U) /\ IsFiniteSet(T) /\ n \in U /\ U \ {n} = T /\ \A i \in U : g[i] \in Nat
    <3>1. IsFiniteSet(DOMAIN tx.vin) /\ \A i \in DOMAIN tx.vin : g[i] \in Nat
      BY <1>2, <2>1, PayTypes
    <3>2. U \subseteq DOMAIN tx.vin /\ T \subseteq DOMAIN tx.vin /\ n \in U /\ U \ {n} = T
      BY <1>5, <2>2
    <3> QED BY <3>1, <3>2, FS_Subset
  <2>4. SumOf(g, U) = g[n] + SumOf(g, U \ {n})
    <3>1. \A i \in U : g[i] \in Int
      BY <2>3
    <3> QED BY <2>3, <3>1, SumRemove
  <2>5. SumOf(g, T) \in Nat
    BY <2>3, SumNat
  <2> QED BY <1>12, <2>1, <2>2, <2>3, <2>4, <2>5
<1>16. SumOf(Beyond(S, T), OutAddresses) = 0 /\ SumOf(Beyond(S, T \union {n}), OutAddresses) = 0
  <2>1. T \union {n} \in SUBSET DOMAIN tx.vin
    BY <1>5
  <2> QED BY <1>2, <1>5, <1>7, <2>1, BeyondLemma
<1>17. nLiquidity = SumOf(Highs, T)
  BY <1>5, <1>6, <1>15, <1>16 DEF PayInv
<1>18. nLiquidity' = SumOf(Highs, T \union {n}) - SumOf(Beyond(S, T \union {n}), OutAddresses)
  BY <1>1, <1>12, <1>15, <1>16, <1>17
<1>19. PICK liquid : liquid = SumAll(LiquidityWithInput)
  OBVIOUS
<1>20. liquid = Liquid'
  BY <1>1, <1>2, <1>19 DEF Liquid
<1>21. Total(liquid) = nLiquidity'
  <2>1. PICK map : map = poolLiquidity
    OBVIOUS
  <2>2. SumAll(PutPlus(map, b, h)) = Plus(SumAll(map), h)
    BY <1>2, <2>1, PutPlusLemma
  <2>3. PICK g \in Fractions : g = SumAll(map)
    BY <1>2, <2>1, PoolSum
  <2>4. liquid = Plus(g, h)
    BY <1>8, <1>10, <1>11, <1>19, <2>1, <2>2, <2>3 DEF LiquidityWithInput
  <2>5. \A j \in Indexes : g[j] \in Int /\ h[j] \in Int /\ Plus(g, h)[j] = g[j] + h[j]
    BY AmountType, PlusLemma
  <2>6. Total(Plus(g, h)) = Total(g) + Total(h)
    BY <2>5, TotalPlus
  <2>7. Total(g) = nLiquidity
    BY <1>2, <2>1, <2>3 DEF PayInv, Liquid
  <2> QED BY <1>1, <1>12, <2>4, <2>6, <2>7
<1>22. poolFrozen' = <<>>
  BY <1>1 DEF PayInv
<1>23. \A a \in Nat : Total(At(poolReserves', a, Zero)) = Over(KeptBy(a, T \union {n}), SentBy(a, S))
  BY <1>1, <1>13, <1>14
<1>24. PICK U : U = T \union {n}
  OBVIOUS
<1>25. (\A o \in S : Total(outs'[o].fractions) = tx.vout[o].value) /\ (phase' = "done" => IsPayable)
  BY <1>1, <1>2, <1>7
<1>26. U = TakenIns' /\ \A a \in Nat : Total(At(poolReserves', a, Zero)) = Over(KeptBy(a, U), SentBy(a, S))
  BY <1>5, <1>23, <1>24
<1>27. nLiquidity' = SumOf(Highs, U) - SumOf(Beyond(S, U), OutAddresses)
  BY <1>18, <1>24
<1> QED BY <1>1, <1>7, <1>20, <1>21, <1>22, <1>25, <1>26, <1>27, PayNext

\* Nothing adds up to nothing.
LEMMA ZeroTotal == Total(Zero) = 0
<1>1. PICK z : z = Zero
  OBVIOUS
<1>2. \A i \in Indexes : z[i] \in Int /\ z[i] = 0
  BY <1>1, ZeroLemma
<1>3. Total(z) = SumOf(z, Indexes)
  BY <1>2, TotalType
<1>4. SumOf(z, Indexes) = 0
  BY <1>2, IndexesFinite, SumZero
<1> QED BY <1>1, <1>3, <1>4

\* The sum of one number.
LEMMA SumOfOne ==
  ASSUME NEW g, NEW x, g[x] \in Int
  PROVE  SumOf(g, {x}) = g[x]
<1>1. IsFiniteSet({x}) /\ x \in {x} /\ \A y \in {x} : g[y] \in Int
  BY FS_Singleton
<1>2. SumOf(g, {x}) = g[x] + SumOf(g, {x} \ {x})
  BY <1>1, SumRemove
<1>3. SumOf(g, {}) = 0 /\ {x} \ {x} = {}
  BY SumRecursion
<1> QED BY <1>2, <1>3

\* The output of a payment draws on the reserve of its own address.
LEMMA PayStores ==
  ASSUME Making, IsPayment, NEW a, a = Output.address, NEW sources, sources = ReserveSources(Output), NEW R,
         R = Total(At(poolReserves, a, Zero))
  PROVE  /\ a \in Nat /\ R \in Nat /\ At(poolReserves, a, Zero) \in Fractions
         /\ a \in DOMAIN poolReserves => sources = <<a>>
         /\ a \notin DOMAIN poolReserves => sources = <<>>
         /\ \A N \in Nat : DOMAIN sources = 1..N => SumOf([i \in 1..N |-> Total(poolReserves[sources[i]])], 1..N) = R
<1>1. n \in DOMAIN tx.vout /\ Output \in TxOuts
  BY MakingLemma
<1>2. a \in Nat /\ a # Burn /\ Output.notary = ""
  <2>1. a \in Nat
    BY <1>1 DEF TxOuts
  <2>2. tx.vout[n].notary = "" /\ tx.vout[n].address # Burn
    BY <1>1 DEF IsPayment
  <2> QED BY <2>1, <2>2 DEF Output
<1>3. At(poolReserves, a, Zero) \in Fractions
  BY ZeroLemma DEF Making, PoolInv, IsPool, At
<1>4. R \in Nat
  <2>1. PICK f \in Fractions : f = At(poolReserves, a, Zero)
    BY <1>3
  <2>2. \A k \in Indexes : f[k] \in Nat
    BY AmountType
  <2>3. Total(f) \in Nat
    BY <2>2, TotalNat
  <2> QED BY <2>1, <2>3
<1>5. a \in DOMAIN poolReserves => sources = <<a>>
  BY DEF ReserveSources
<1>6. a \notin DOMAIN poolReserves => sources = <<>>
  BY <1>2 DEF ReserveSources
<1>7. ASSUME NEW N \in Nat, DOMAIN sources = 1..N
      PROVE  SumOf([i \in 1..N |-> Total(poolReserves[sources[i]])], 1..N) = R
  <2>1. PICK g : g = [i \in 1..N |-> Total(poolReserves[sources[i]])]
    OBVIOUS
  <2>2. CASE a \in DOMAIN poolReserves
    <3>1. DOMAIN sources = 1..1 /\ sources[1] = a
      BY <1>5, <2>2
    <3>2. 1..N = {1}
      <4>1. 1..N = 1..1
        BY <1>7, <3>1
      <4>2. 1..1 = {1}
        OBVIOUS
      <4> QED BY <4>1, <4>2
    <3>3. g[1] = R
      BY <2>1, <2>2, <3>1, <3>2 DEF At
    <3>7. SumOf(g, {1}) = R
      <4>1. g[1] \in Int
        BY <1>4, <3>3
      <4>2. SumOf(g, {1}) = g[1]
        BY <4>1, SumOfOne
      <4> QED BY <3>3, <4>2
    <3> QED BY <2>1, <3>2, <3>7
  <2>3. CASE a \notin DOMAIN poolReserves
    <3>1. 1..N = {}
      BY <1>6, <1>7, <2>3
    <3>2. SumOf(g, {}) = 0
      BY SumRecursion
    <3>3. Total(Zero) = 0
      BY ZeroTotal
    <3>4. R = 0
      BY <2>3, <3>3 DEF At
    <3> QED BY <2>1, <3>1, <3>2, <3>4
  <2> QED BY <2>2, <2>3
<1> QED BY <1>2, <1>3, <1>4, <1>5, <1>6, <1>7

\* An output it can not fill has more beyond the reserves than is liquid.
LEMMA PayRefused ==
  ASSUME Making, IsPayment, PlainOutput, phase' = "failed", NEW R, R = Total(At(poolReserves, Output.address, Zero))
  PROVE  Over(Output.value, R) > nLiquidity
<1>1. PICK sources : sources = ReserveSources(Output)
  OBVIOUS
<1>2. IsListing(sources, DOMAIN poolReserves)
  BY <1>1, ReserveSourcesLemma
<1>3. PICK N \in Nat : sources \in [1..N -> DOMAIN poolReserves] /\ DOMAIN sources = 1..N
  <2>1. PICK s \in Seq(DOMAIN poolReserves) : s = sources
    BY <1>2 DEF IsListing
  <2>2. Len(s) \in Nat /\ s \in [1..Len(s) -> DOMAIN poolReserves] /\ DOMAIN s = 1..Len(s)
    OBVIOUS
  <2> QED BY <2>1, <2>2
<1>4. PICK v \in Nat : v = Output.value
  BY MakingLemma
<1>5. PICK stores : stores = [i \in 1..N |-> Total(poolReserves[sources[i]])]
  OBVIOUS
<1>6. SumOf(stores, 1..N) = R
  <2>1. PICK a : a = Output.address
    OBVIOUS
  <2>2. R = Total(At(poolReserves, a, Zero))
    BY <2>1
  <2>3. \A M \in Nat : DOMAIN sources = 1..M => SumOf([i \in 1..M |-> Total(poolReserves[sources[i]])], 1..M) = R
    BY <1>1, <2>1, <2>2, PayStores
  <2> QED BY <1>3, <1>5, <2>3
<1>7. stores \in [1..N -> Nat]
  <2>1. \A i \in 1..N : Total(poolReserves[sources[i]]) \in Nat
    <3> SUFFICES ASSUME NEW i \in 1..N PROVE Total(poolReserves[sources[i]]) \in Nat
      OBVIOUS
    <3>1. PICK f \in Fractions : f = poolReserves[sources[i]]
      BY <1>3 DEF Making, PoolInv, IsPool
    <3>2. \A k \in Indexes : f[k] \in Nat
      BY AmountType
    <3>3. Total(f) \in Nat
      BY <3>2, TotalNat
    <3> QED BY <3>1, <3>3
  <2> QED BY <1>5, <2>1
<1>8. SumOf(Greedy(stores, v), 1..N) = Least(v, R)
  BY <1>6, <1>7, GreedyLemma
<1>9. v - SumOf(Greedy(stores, v), 1..N) > nLiquidity
  <2>1. FillOutput(sources, v, "") /\ phase = "outputs"
    BY <1>1, <1>4 DEF PlainOutput
  <2> QED BY <1>3, <1>4, <1>5, <2>1 DEF FillOutput
<1> QED BY <1>4, <1>8, <1>9 DEF Over

\* What a filled output takes.
LEMMA PayFilled ==
  ASSUME Making, IsPayment, PlainOutput, phase' # "failed", NEW a, a = Output.address, NEW R,
         R = Total(At(poolReserves, a, Zero)), NEW v, v = Output.value
  PROVE  \E rest, liquid, out :
           /\ rest \in Nat /\ rest = Over(v, R) /\ (rest > 0 => ~ rest > nLiquidity)
           /\ liquid = MovedPart(frCommonLiquidity, rest)
           /\ frCommonLiquidity' = Minus(frCommonLiquidity, liquid) /\ nLiquidity' = nLiquidity - rest
           /\ outs' = Append(outs, out) /\ Total(out.fractions) = Least(v, R) + Total(liquid)
           /\ Total(At(poolReserves', a, Zero)) = R - Least(v, R)
           /\ \A b \in Nat : b # a => At(poolReserves', b, Zero) = At(poolReserves, b, Zero)
           /\ tx' = tx /\ supply' = supply /\ phase' = phase /\ poolFrozen' = poolFrozen
<1>1. PICK sources : sources = ReserveSources(Output)
  OBVIOUS
<1>2. /\ a \in Nat /\ R \in Nat /\ At(poolReserves, a, Zero) \in Fractions
      /\ a \in DOMAIN poolReserves => sources = <<a>>
      /\ a \notin DOMAIN poolReserves => sources = <<>>
      /\ \A N \in Nat : DOMAIN sources = 1..N => SumOf([i \in 1..N |-> Total(poolReserves[sources[i]])], 1..N) = R
  BY <1>1, PayStores
<1>3. v \in Nat /\ v <= Output.value /\ IsListing(sources, DOMAIN poolReserves) /\ FillOutput(sources, v, "")
  <2>1. v \in Nat
    BY MakingLemma
  <2>2. IsListing(sources, DOMAIN poolReserves)
    BY <1>1, ReserveSourcesLemma
  <2>3. FillOutput(sources, v, "")
    BY <1>1 DEF PlainOutput
  <2>4. v <= Output.value
    BY <2>1
  <2> QED BY <2>1, <2>2, <2>3, <2>4
<1>4. PICK N, given, moved, rest, liquid, out : Filled(N, sources, v, "", given, moved, rest, liquid, out)
  BY <1>3, FillFacts
<1>5. PICK mark : Filled(N, sources, v, mark, given, moved, rest, liquid, out)
  BY <1>4
<1>6. /\ N \in Nat /\ DOMAIN sources = 1..N /\ given \in [1..N -> Nat] /\ \A i \in 1..N : Total(moved[i]) = given[i]
      /\ SumOf(given, 1..N) = Least(v, SumOf([i \in 1..N |-> Total(poolReserves[sources[i]])], 1..N))
      /\ rest \in Nat /\ rest = v - SumOf(given, 1..N) /\ ~ ((rest > 0 \/ sources = <<>>) /\ rest > nLiquidity)
      /\ liquid = MovedPart(frCommonLiquidity, rest)
      /\ frCommonLiquidity' = Minus(frCommonLiquidity, liquid) /\ nLiquidity' = nLiquidity - rest
      /\ outs' = Append(outs, out)
      /\ tx' = tx /\ supply' = supply /\ phase' = phase /\ poolFrozen' = poolFrozen
  BY <1>5 DEF Filled
<1>7. SumOf(given, 1..N) = Least(v, R)
  BY <1>2, <1>6
<1>8. rest = Over(v, R)
  BY <1>6, <1>7 DEF Over
<1>9. /\ liquid \in Fractions
      /\ sources = <<>> => out.fractions = Plus(Zero, liquid)
      /\ sources = <<a>> =>
           /\ N = 1 /\ moved[1] \in Fractions
           /\ poolReserves'[a] = Minus(poolReserves[a], moved[1])
           /\ \A b \in DOMAIN poolReserves : b # a => poolReserves'[b] = poolReserves[b]
           /\ out.fractions = Plus(moved[1], liquid)
  BY <1>2, <1>5, FilledFromHome
<1>10. DOMAIN poolReserves' = DOMAIN poolReserves
  BY <1>5, FilledShrinks
<1>11. Least(v, R) \in Nat
  BY <1>2, <1>3, LeastLemma
<1>12. /\ Total(out.fractions) = Least(v, R) + Total(liquid) /\ Total(At(poolReserves', a, Zero)) = R - Least(v, R)
       /\ \A b \in Nat : b # a => At(poolReserves', b, Zero) = At(poolReserves, b, Zero)
  <2>0. \A k \in Indexes : liquid[k] \in Int
    BY <1>9, AmountType
  <2>1. CASE a \in DOMAIN poolReserves
    <3>1. sources = <<a>> /\ N = 1
      BY <1>2, <1>9, <2>1
    <3>2. PICK m \in Fractions : m = moved[1]
      BY <1>9, <3>1
    <3>3. Total(m) = Least(v, R)
      <4>1. 1..N = {1}
        BY <3>1
      <4>2. given[1] \in Int
        <5>1. 1 \in 1..N
          BY <4>1
        <5>2. given[1] \in Nat
          BY <1>6, <5>1
        <5> QED BY <5>2
      <4>3. SumOf(given, {1}) = given[1]
        BY <4>2, SumOfOne
      <4>5. given[1] = Least(v, R)
        BY <1>7, <4>1, <4>3
      <4>6. Total(moved[1]) = given[1]
        BY <1>6, <4>1
      <4> QED BY <3>2, <4>5, <4>6
    <3>4. PICK f \in Fractions : f = poolReserves[a]
      BY <1>2, <2>1 DEF At
    <3>5. \A k \in Indexes : f[k] \in Int /\ m[k] \in Int
      BY AmountType
    <3>6. \A k \in Indexes : Minus(f, m)[k] = f[k] - m[k] /\ Plus(m, liquid)[k] = m[k] + liquid[k]
      BY DEF Minus, Plus
    <3>7. Total(Minus(f, m)) = Total(f) - Total(m)
      BY <3>5, <3>6, TotalMinus
    <3>8. Total(Plus(m, liquid)) = Total(m) + Total(liquid)
      BY <2>0, <3>5, <3>6, TotalPlus
    <3>9. Total(f) = R /\ At(poolReserves', a, Zero) = Minus(f, m)
      BY <1>9, <1>10, <2>1, <3>1, <3>2, <3>4 DEF At
    <3>10. out.fractions = Plus(m, liquid)
      BY <1>9, <3>1, <3>2
    <3>11. \A b \in Nat : b # a => At(poolReserves', b, Zero) = At(poolReserves, b, Zero)
      BY <1>9, <1>10, <3>1 DEF At
    <3> QED BY <3>3, <3>7, <3>8, <3>9, <3>10, <3>11
  <2>2. CASE a \notin DOMAIN poolReserves
    <3>1. sources = <<>>
      BY <1>2, <2>2
    <3>2. Total(Zero) = 0
      BY ZeroTotal
    <3>3. R = 0 /\ Least(v, R) = 0
      <4>1. R = 0
        BY <2>2, <3>2 DEF At
      <4>2. Least(v, 0) = 0
        <5>1. v \in Nat
          BY <1>3
        <5> QED BY <5>1, LeastLemma
      <4> QED BY <4>1, <4>2
    <3>4. PICK r : r = poolReserves'
      OBVIOUS
    <3>5. PICK map : map = poolReserves
      OBVIOUS
    <3>6. Drawn(map, N, sources, moved, r)
      BY <1>5, <3>4, <3>5 DEF Filled
    <3>7. \A b \in DOMAIN map : b \notin {sources[i] : i \in 1..N} => r[b] = map[b]
      BY <3>6, DrawnLemma
    <3>8. 1..N = {}
      BY <1>6, <3>1
    <3>9. \A b \in DOMAIN map : r[b] = map[b]
      BY <3>7, <3>8
    <3>10. \A b : At(poolReserves', b, Zero) = At(poolReserves, b, Zero)
      BY <1>10, <3>4, <3>5, <3>9 DEF At
    <3>11. PICK z \in Fractions : z = Zero
      BY ZeroLemma
    <3>12. \A k \in Indexes : z[k] \in Int /\ Plus(z, liquid)[k] = z[k] + liquid[k]
      BY AmountType DEF Plus
    <3>13. Total(Plus(z, liquid)) = Total(z) + Total(liquid)
      BY <2>0, <3>12, TotalPlus
    <3>14. Total(out.fractions) = 0 + Total(liquid)
      BY <1>9, <3>1, <3>2, <3>11, <3>13
    <3>15. Total(At(poolReserves', a, Zero)) = R - Least(v, R)
      <4>1. At(poolReserves', a, Zero) = At(poolReserves, a, Zero)
        BY <3>10
      <4>2. Total(At(poolReserves', a, Zero)) = R
        BY <4>1
      <4> QED BY <3>3, <4>2
    <3> QED BY <3>3, <3>10, <3>14, <3>15
  <2> QED BY <2>1, <2>2
<1>13. rest > 0 => ~ rest > nLiquidity
  BY <1>6
<1> QED BY <1>6, <1>8, <1>12, <1>13

\* It is covered by the reserve of its address and by the liquid of all.
LEMMA PayOutput ==
  ASSUME Making, IsPayment, PayInv, PlainOutput, phase' # "failed"
  PROVE  PayInv'
<1>1. TxInv /\ phase = "outputs" /\ frCommonLiquidity \in Fractions
  BY DEF Making, PoolInv
<1>2. n \in DOMAIN tx.vout /\ n \in Nat \ {0} /\ outs \in Seq(MadeOuts) /\ Len(outs) = n - 1 /\ DOMAIN outs = 1..(n - 1)
  BY MakingLemma
<1>3. PICK S : S = DOMAIN outs
  OBVIOUS
<1>4. S \in SUBSET DOMAIN tx.vout /\ n \in DOMAIN tx.vout \ S
  <2>1. DOMAIN tx.vout = 1..Len(tx.vout) /\ Len(tx.vout) \in Nat
    BY <1>1, OutsLemma
  <2> QED BY <1>2, <1>3, <2>1
<1>5. PICK T : T = DOMAIN tx.vin
  OBVIOUS
<1>6. PICK a \in Nat : a = Output.address
  BY MakingLemma DEF TxOuts
<1>7. PICK v \in Nat : v = Output.value
  BY MakingLemma
<1>8. tx.vout[n].address = a /\ tx.vout[n].value = v
  BY <1>6, <1>7 DEF Output
<1>9. PICK R : R = Total(At(poolReserves, a, Zero))
  OBVIOUS
<1>10. PICK rest, liquid, out :
           /\ rest \in Nat /\ rest = Over(v, R) /\ (rest > 0 => ~ rest > nLiquidity)
           /\ liquid = MovedPart(frCommonLiquidity, rest)
           /\ frCommonLiquidity' = Minus(frCommonLiquidity, liquid) /\ nLiquidity' = nLiquidity - rest
           /\ outs' = Append(outs, out) /\ Total(out.fractions) = Least(v, R) + Total(liquid)
           /\ Total(At(poolReserves', a, Zero)) = R - Least(v, R)
           /\ \A b \in Nat : b # a => At(poolReserves', b, Zero) = At(poolReserves, b, Zero)
           /\ tx' = tx /\ supply' = supply /\ phase' = phase /\ poolFrozen' = poolFrozen
  BY <1>6, <1>7, <1>9, PayFilled
<1>11. PICK s \in Nat : s = SentBy(a, S)
  BY <1>1, <1>4, SentLemma
<1>12. PICK k \in Nat : k = KeptBy(a, T)
  BY <1>1, <1>5, KeptLemma
<1>13. T = TakenIns /\ T = TakenIns'
  BY <1>1, <1>5, <1>10 DEF TakenIns
<1>14. R = Over(k, s) /\ R \in Nat
  <2>1. R = Over(k, s)
    BY <1>3, <1>9, <1>11, <1>12, <1>13 DEF PayInv
  <2>2. Over(k, s) \in Nat
    BY OverLemma
  <2> QED BY <2>1, <2>2
<1>15. PICK g \in Fractions : g = frCommonLiquidity
  BY <1>1
<1>16. Total(g) = nLiquidity /\ nLiquidity \in Nat
  <2>1. Total(g) = nLiquidity
    BY <1>1, <1>15 DEF PayInv, Liquid
  <2>2. \A i \in Indexes : g[i] \in Nat
    BY AmountType
  <2>3. Total(g) \in Nat
    BY <2>2, TotalNat
  <2> QED BY <2>1, <2>3
<1>17. rest <= nLiquidity
  BY <1>10, <1>16
<1>18. liquid \in Fractions /\ Total(liquid) = rest
  <2>1. rest \in Nat /\ liquid = MovedPart(g, rest)
    BY <1>10, <1>15
  <2>2. MovedPart(g, rest) \in Fractions /\ Total(MovedPart(g, rest)) = Least(rest, Total(g))
    BY <2>1, MovedPartLemma
  <2>3. Least(rest, nLiquidity) = rest
    BY <1>16, <1>17, <2>1, LeastLemma
  <2> QED BY <1>16, <2>1, <2>2, <2>3
<1>19. Total(Minus(g, liquid)) = nLiquidity - rest
  <2>1. PICK l \in Fractions : l = liquid
    BY <1>18
  <2>2. \A i \in Indexes : g[i] \in Int /\ l[i] \in Int /\ Minus(g, l)[i] = g[i] - l[i]
    BY AmountType DEF Minus
  <2>3. Total(Minus(g, l)) = Total(g) - Total(l)
    BY <2>2, TotalMinus
  <2> QED BY <1>16, <1>18, <2>1, <2>3
<1>20. Total(out.fractions) = v
  <2>1. Least(v, R) \in Nat
    BY <1>14, LeastLemma
  <2>2. rest = v - Least(v, R)
    BY <1>10 DEF Over
  <2>3. Total(out.fractions) = Least(v, R) + rest
    BY <1>10, <1>18
  <2> QED BY <2>1, <2>2, <2>3
<1>21. PICK U : U = S \union {n}
  OBVIOUS
<1>22. U = DOMAIN outs' /\ \A o \in U : Total(outs'[o].fractions) = tx.vout[o].value
  <2>1. PICK q \in Seq(MadeOuts) : q = outs
    BY <1>2
  <2>2. Len(q) = n - 1 /\ DOMAIN q = 1..(n - 1) /\ n \in Nat \ {0}
    BY <1>2, <2>1
  <2>3. /\ DOMAIN Append(q, out) = 1..n /\ Append(q, out)[n] = out
        /\ \A o \in 1..(n - 1) : Append(q, out)[o] = q[o]
    BY <2>2
  <2>4. U = 1..n /\ S = 1..(n - 1)
    BY <1>3, <1>21, <2>1, <2>2
  <2>5. \A o \in S : Total(outs[o].fractions) = tx.vout[o].value
    BY <1>3 DEF PayInv
  <2>6. outs' = Append(q, out)
    BY <1>10, <2>1
  <2>7. ASSUME NEW o \in U PROVE Total(outs'[o].fractions) = tx.vout[o].value
    <3>1. CASE o = n
      BY <1>8, <1>20, <2>3, <2>6, <3>1
    <3>2. CASE o \in S
      <4>1. outs'[o] = outs[o]
        BY <2>1, <2>3, <2>4, <2>6, <3>2
      <4> QED BY <2>5, <3>2, <4>1
    <3> QED BY <1>21, <3>1, <3>2
  <2> QED BY <2>3, <2>4, <2>6, <2>7
<1>23. ASSUME NEW b \in Nat PROVE Total(At(poolReserves', b, Zero)) = Over(KeptBy(b, T), SentBy(b, U))
  <2>1. SentBy(b, S) \in Nat /\ SentBy(b, U) = SentBy(b, S) + IF a = b THEN v ELSE 0
    BY <1>1, <1>4, <1>8, <1>21, SentLemma
  <2>2. CASE b = a
    <3>1. SentBy(b, U) = s + v
      BY <1>11, <2>1, <2>2
    <3>2. Over(k, s + v) = Over(k, s) - Least(v, Over(k, s))
      BY OverLemma
    <3>3. Total(At(poolReserves', a, Zero)) = R - Least(v, R)
      BY <1>10
    <3> QED BY <1>12, <1>14, <2>2, <3>1, <3>2, <3>3
  <2>3. CASE b # a
    <3>1. SentBy(b, U) = SentBy(b, S)
      BY <2>1, <2>3
    <3>2. Total(At(poolReserves, b, Zero)) = Over(KeptBy(b, T), SentBy(b, S))
      BY <1>3, <1>13 DEF PayInv
    <3>3. At(poolReserves', b, Zero) = At(poolReserves, b, Zero)
      BY <1>10, <2>3
    <3> QED BY <3>1, <3>2, <3>3
  <2> QED BY <2>2, <2>3
<1>24. nLiquidity' = SumOf(Highs, T) - SumOf(Beyond(U, T), OutAddresses)
  <2>1. nLiquidity = SumOf(Highs, T) - SumOf(Beyond(S, T), OutAddresses)
    BY <1>3, <1>13 DEF PayInv
  <2>2. SumOf(Beyond(S, T), OutAddresses) \in Nat
    BY <1>1, <1>4, <1>5, BeyondLemma
  <2>3. SumOf(Beyond(U, T), OutAddresses) = SumOf(Beyond(S, T), OutAddresses) + Over(v, Over(k, s))
    <3>1. LET c == tx.vout[n].address
          IN  SumOf(Beyond(S \union {n}, T), OutAddresses)
                = SumOf(Beyond(S, T), OutAddresses) + Over(tx.vout[n].value, Over(KeptBy(c, T), SentBy(c, S)))
      BY <1>1, <1>4, <1>5, BeyondLemma
    <3> QED BY <1>8, <1>11, <1>12, <1>21, <3>1
  <2>4. SumOf(Highs, T) \in Nat
    <3>1. PICK h : h = Highs
      OBVIOUS
    <3>2. IsFiniteSet(T) /\ \A i \in T : h[i] \in Nat
      BY <1>1, <1>5, <3>1, PayTypes
    <3>3. SumOf(h, T) \in Nat
      BY <3>2, SumNat
    <3> QED BY <3>1, <3>3
  <2>5. nLiquidity' = nLiquidity - rest /\ rest = Over(v, Over(k, s)) /\ rest \in Nat
    BY <1>10, <1>14
  <2> QED BY <2>1, <2>2, <2>3, <2>4, <2>5
<1>25. PICK lq : lq = Minus(g, liquid)
  OBVIOUS
<1>26. lq = Liquid' /\ Total(lq) = nLiquidity'
  <2>1. lq = Liquid'
    BY <1>1, <1>10, <1>15, <1>25 DEF Liquid
  <2>2. Total(lq) = nLiquidity - rest
    BY <1>19, <1>25
  <2> QED BY <1>10, <2>1, <2>2
<1>27. poolFrozen' = <<>> /\ (phase' = "done" => IsPayable) /\ tx' = tx /\ supply' = supply
  BY <1>1, <1>10 DEF PayInv
<1> QED BY <1>13, <1>22, <1>23, <1>24, <1>26, <1>27, PayNext

\* A payment that fails on the way needs more than is liquid.
LEMMA PayFails ==
  ASSUME Making, IsPayment, PayInv, PlainOutput, phase' = "failed"
  PROVE  ~ IsPayable
<1>1. TxInv /\ phase = "outputs"
  BY DEF Making
<1>2. n \in DOMAIN tx.vout /\ n \in Nat \ {0} /\ DOMAIN outs = 1..(n - 1)
  BY MakingLemma
<1>3. PICK S : S = DOMAIN outs
  OBVIOUS
<1>4. S \in SUBSET DOMAIN tx.vout /\ n \in DOMAIN tx.vout \ S
  <2>1. DOMAIN tx.vout = 1..Len(tx.vout) /\ Len(tx.vout) \in Nat
    BY <1>1, OutsLemma
  <2> QED BY <1>2, <1>3, <2>1
<1>5. PICK T : T = DOMAIN tx.vin
  OBVIOUS
<1>6. PICK a \in Nat : a = Output.address
  BY MakingLemma DEF TxOuts
<1>7. PICK v \in Nat : v = Output.value
  BY MakingLemma
<1>8. PICK R : R = Total(At(poolReserves, Output.address, Zero))
  OBVIOUS
<1>9. Over(v, R) > nLiquidity
  BY <1>7, <1>8, PayRefused
<1>10. PICK s \in Nat : s = SentBy(a, S)
  BY <1>1, <1>4, SentLemma
<1>11. PICK k \in Nat : k = KeptBy(a, T)
  BY <1>1, <1>5, KeptLemma
<1>12. T = TakenIns
  BY <1>1, <1>5 DEF TakenIns
<1>13. R = Over(k, s)
  BY <1>3, <1>6, <1>8, <1>10, <1>11, <1>12 DEF PayInv
<1>14. PICK U : U = S \union {n}
  OBVIOUS
<1>15. SumOf(Beyond(U, T), OutAddresses) = SumOf(Beyond(S, T), OutAddresses) + Over(v, R)
  <2>1. LET c == tx.vout[n].address
        IN  SumOf(Beyond(S \union {n}, T), OutAddresses)
              = SumOf(Beyond(S, T), OutAddresses) + Over(tx.vout[n].value, Over(KeptBy(c, T), SentBy(c, S)))
    BY <1>1, <1>4, <1>5, BeyondLemma
  <2>2. tx.vout[n].address = a /\ tx.vout[n].value = v
    BY <1>6, <1>7 DEF Output
  <2> QED BY <1>10, <1>11, <1>13, <1>14, <2>1, <2>2
<1>16. SumOf(Beyond(S, T), OutAddresses) \in Nat
  BY <1>1, <1>4, <1>5, BeyondLemma
<1>17. /\ SumOf(Beyond(U, T), OutAddresses) <= SumOf(Beyond(DOMAIN tx.vout, T), OutAddresses)
       /\ SumOf(Beyond(U, T), OutAddresses) \in Nat
  <2>1. U \in SUBSET DOMAIN tx.vout
    BY <1>4, <1>14
  <2> QED BY <1>1, <1>5, <2>1, BeyondLemma
<1>18. SumOf(Beyond(DOMAIN tx.vout, T), OutAddresses) \in Nat
  BY <1>1, <1>5, BeyondLemma
<1>19. nLiquidity = SumOf(Highs, T) - SumOf(Beyond(S, T), OutAddresses)
  BY <1>3, <1>12 DEF PayInv
<1>20. SumOf(Highs, T) \in Nat
  <2>1. PICK h : h = Highs
    OBVIOUS
  <2>2. IsFiniteSet(T) /\ \A i \in T : h[i] \in Nat
    BY <1>1, <1>5, <2>1, PayTypes
  <2>3. SumOf(h, T) \in Nat
    BY <2>2, SumNat
  <2> QED BY <2>1, <2>3
<1>21. Over(v, R) \in Nat
  <2>1. Over(k, s) \in Nat
    BY OverLemma
  <2> QED BY <1>13, <2>1, OverLemma
<1>22. ~ SumOf(Beyond(DOMAIN tx.vout, T), OutAddresses) <= SumOf(Highs, T)
  BY <1>9, <1>15, <1>16, <1>17, <1>18, <1>19, <1>20, <1>21
<1> QED BY <1>5, <1>22, PayableIs

\* Totals of sums are sums of totals.
LEMMA TotalOfSum ==
  ASSUME NEW S, IsFiniteSet(S), NEW g, \A x \in S : g[x] \in Fractions
  PROVE  Total(SumOver(g, S)) = SumOf([x \in S |-> Total(g[x])], S)
<1>1. \A x \in S, k \in Indexes : g[x][k] \in Int
  BY AmountType
<1>2. SumOf([x \in S |-> SumOf(g[x], Indexes)], S) = SumOf([k \in Indexes |-> SumOf([x \in S |-> g[x][k]], S)], Indexes)
  BY <1>1, IndexesFinite, SumSwap
<1>3. PICK f \in Fractions : f = SumOver(g, S)
  BY SumOverAt
<1>4. Total(f) = SumOf(f, Indexes)
  <2>1. \A k \in Indexes : f[k] \in Int
    BY AmountType
  <2> QED BY <2>1, TotalType
<1>5. f = [k \in Indexes |-> SumOf([x \in S |-> g[x][k]], S)]
  BY <1>3 DEF SumOver
<1>6. ASSUME NEW x \in S PROVE SumOf(g[x], Indexes) = Total(g[x])
  <2>1. PICK h \in Fractions : h = g[x]
    OBVIOUS
  <2>2. \A k \in Indexes : h[k] \in Int
    BY AmountType
  <2>3. Total(h) = SumOf(h, Indexes)
    BY <2>2, TotalType
  <2> QED BY <2>1, <2>3
<1>7. [x \in S |-> SumOf(g[x], Indexes)] = [x \in S |-> Total(g[x])]
  BY <1>6
<1> QED BY <1>2, <1>3, <1>4, <1>5, <1>7

\* At the end of a payment the totals match.
LEMMA PayTotals ==
  ASSUME TxInv, PoolInv, FrozenInv, PhaseInv, BooksInv, PayInv, phase = "outputs", n > Len(tx.vout)
  PROVE  TotalsMatch /\ IsPayable
<1>1. /\ outs \in Seq(MadeOuts) /\ Len(outs) = n - 1 /\ n = Len(tx.vout) + 1
      /\ DOMAIN tx.vout = 1..Len(tx.vout) /\ Len(tx.vout) \in Nat
  <2>1. DOMAIN tx.vout = 1..Len(tx.vout) /\ Len(tx.vout) \in Nat
    BY OutsLemma
  <2>2. outs \in Seq(MadeOuts) /\ Len(outs) = n - 1 /\ n <= Len(tx.vout) + 1 /\ n \in Nat
    BY DEF PhaseInv
  <2> QED BY <2>1, <2>2
<1>2. PICK D : D = DOMAIN tx.vout
  OBVIOUS
<1>3. D = DOMAIN outs /\ D = 1..Len(outs)
  <2>1. DOMAIN outs = 1..Len(outs)
    BY <1>1
  <2>2. Len(outs) = Len(tx.vout)
    BY <1>1
  <2> QED BY <1>1, <1>2, <2>1, <2>2
<1>4. PICK T : T = DOMAIN tx.vin
  OBVIOUS
<1>5. T = TakenIns /\ T = 1..Len(tx.vin)
  BY <1>4, TakenLemma DEF TakenIns
<1>6. IsFiniteSet(D) /\ IsFiniteSet(T)
  BY <1>2, <1>4, PayTypes
<1>7. PICK made : made = FractionsOf(outs)
  OBVIOUS
<1>8. PICK ins : ins = FractionsOf(tx.vin)
  OBVIOUS
<1>9. \A o \in D : made[o] = outs[o].fractions /\ made[o] \in Fractions
  <2>1. \A o \in 1..Len(outs) : FractionsOf(outs)[o] = outs[o].fractions /\ outs[o].fractions \in Fractions
    BY <1>1, MadeLemma
  <2> QED BY <1>3, <1>7, <2>1
<1>10. \A i \in T : ins[i] = tx.vin[i].fractions /\ ins[i] \in Fractions
  BY <1>5, <1>8, TakenLemma
<1>11. PICK M \in Fractions : M = Made
  BY PlacesLemma
<1>12. PICK I \in Fractions : I = TakenSum
  BY PlacesLemma
<1>13. Total(M) = SumOf([o \in D |-> Total(made[o])], D)
  <2>1. DOMAIN made = D
    BY <1>3, <1>7 DEF FractionsOf
  <2>2. M = SumOver(made, D)
    BY <1>7, <1>11, <2>1 DEF Made, SumAll
  <2>3. Total(SumOver(made, D)) = SumOf([o \in D |-> Total(made[o])], D)
    BY <1>6, <1>9, TotalOfSum
  <2> QED BY <2>2, <2>3
<1>14. Total(I) = SumOf([i \in T |-> Total(ins[i])], T)
  <2>1. I = SumOver(ins, T)
    BY <1>5, <1>8, <1>12 DEF TakenSum
  <2>2. Total(SumOver(ins, T)) = SumOf([i \in T |-> Total(ins[i])], T)
    BY <1>6, <1>10, TotalOfSum
  <2> QED BY <2>1, <2>2
<1>15. Total(M) = Value(tx.vout)
  <2>1. \A o \in D : Total(made[o]) = tx.vout[o].value
    BY <1>3, <1>9 DEF PayInv
  <2>2. [o \in D |-> Total(made[o])] = [o \in D |-> tx.vout[o].value]
    BY <2>1
  <2> QED BY <1>2, <1>13, <2>2 DEF Value
<1>16. Total(I) = ValueIn
  <2>1. [i \in T |-> Total(ins[i])] = [i \in T |-> Total(tx.vin[i].fractions)]
    BY <1>10
  <2> QED BY <1>4, <1>14, <2>1 DEF ValueIn
<1>17. PICK fee : fee = txFeeFractions
  OBVIOUS
<1>18. PICK l \in Fractions : l = frCommonLiquidity
  BY DEF PoolInv
<1>19. PICK c \in Fractions : c = frColdFees
  BY DEF PoolInv
<1>20. PICK r \in Fractions : r = SumAll(poolReserves)
  BY PoolSum DEF PoolInv
<1>21. fee \in Fractions /\ \A k \in Indexes : fee[k] = l[k] + c[k] + r[k]
  <2>1. PICK lc \in Fractions : lc = Plus(l, c)
    BY PlusLemma
  <2>2. \A k \in Indexes : lc[k] = l[k] + c[k]
    BY <2>1, PlusLemma
  <2>3. Plus(lc, r) \in Fractions /\ \A k \in Indexes : Plus(lc, r)[k] = lc[k] + r[k]
    BY PlusLemma
  <2>4. fee = Plus(lc, r)
    BY <1>17, <1>18, <1>19, <1>20, <2>1 DEF txFeeFractions
  <2> QED BY <2>2, <2>3, <2>4
<1>22. Aside = Zero
  <2>1. poolFrozen = <<>>
    BY DEF PayInv
  <2>2. DOMAIN poolFrozen \ DOMAIN outs = {}
    BY <2>1
  <2>3. SumOver(FractionsOf(poolFrozen), {}) = Zero
    BY SumOverEmpty
  <2> QED BY <2>2, <2>3 DEF Aside
<1>23. \A k \in Indexes : fee[k] \in Int /\ M[k] \in Int /\ I[k] = fee[k] + M[k]
  <2> SUFFICES ASSUME NEW k \in Indexes PROVE fee[k] \in Int /\ M[k] \in Int /\ I[k] = fee[k] + M[k]
    OBVIOUS
  <2>1. l[k] \in Int /\ c[k] \in Int /\ r[k] \in Int /\ M[k] \in Int /\ fee[k] \in Int /\ Zero[k] = 0
    BY <1>21, AmountType, ZeroLemma
  <2>2. l[k] + r[k] + Zero[k] + M[k] + c[k] = I[k]
    BY <1>11, <1>12, <1>18, <1>19, <1>20, <1>22 DEF BooksInv, Liquid, Reserve
  <2> QED BY <1>21, <2>1, <2>2
<1>24. Total(I) = Total(fee) + Total(M)
  BY <1>23, TotalPlus
<1>25. Total(fee) \in Int /\ Total(M) \in Int
  <2>1. \A k \in Indexes : fee[k] \in Int
    BY <1>23
  <2>2. \A k \in Indexes : M[k] \in Int
    BY <1>23
  <2>3. Total(fee) \in Int
    BY <2>1, TotalType
  <2>4. Total(M) \in Int
    BY <2>2, TotalType
  <2> QED BY <2>3, <2>4
<1>26. Total(txFeeFractions) = ValueIn - Value(tx.vout)
  <2>1. Total(fee) = Total(I) - Total(M)
    BY <1>24, <1>25
  <2> QED BY <1>15, <1>16, <1>17, <2>1
<1>27. IsPositive(txFeeFractions)
  BY <1>17, <1>21, AmountType DEF IsPositive
<1>28. \A o \in DOMAIN outs : Total(outs[o].fractions) = tx.vout[o].value /\ IsPositive(outs[o].fractions)
  <2> SUFFICES ASSUME NEW o \in DOMAIN outs
               PROVE  Total(outs[o].fractions) = tx.vout[o].value /\ IsPositive(outs[o].fractions)
    OBVIOUS
  <2>1. PICK f \in Fractions : f = outs[o].fractions
    BY <1>3, <1>9
  <2>2. \A k \in Indexes : f[k] \in Nat
    BY AmountType
  <2>3. IsPositive(f)
    BY <2>2 DEF IsPositive
  <2> QED BY <2>1, <2>3 DEF PayInv
<1>29. IsPayable
  <2>1. nLiquidity = SumOf(Highs, T) - SumOf(Beyond(D, T), OutAddresses)
    BY <1>3, <1>5 DEF PayInv
  <2>2. nLiquidity \in Nat
    <3>1. Total(l) = nLiquidity
      BY <1>18 DEF PayInv, Liquid
    <3>2. \A k \in Indexes : l[k] \in Nat
      BY AmountType
    <3>3. Total(l) \in Nat
      BY <3>2, TotalNat
    <3> QED BY <3>1, <3>3
  <2>3. SumOf(Beyond(D, T), OutAddresses) \in Nat
    BY <1>2, <1>4, BeyondLemma
  <2>4. SumOf(Highs, T) \in Nat
    <3>1. PICK h : h = Highs
      OBVIOUS
    <3>2. IsFiniteSet(T) /\ \A i \in T : h[i] \in Nat
      BY <1>4, <3>1, PayTypes
    <3>3. SumOf(h, T) \in Nat
      BY <3>2, SumNat
    <3> QED BY <3>1, <3>3
  <2>5. SumOf(Beyond(D, T), OutAddresses) <= SumOf(Highs, T)
    BY <2>1, <2>2, <2>3, <2>4
  <2> QED BY <1>2, <1>4, <2>5, PayableIs
<1> QED BY <1>26, <1>27, <1>28, <1>29 DEF TotalsMatch

\* PayInv depends on these variables.
LEMMA PaySame ==
  ASSUME PayInv, tx' = tx, supply' = supply, poolFrozen' = poolFrozen, poolReserves' = poolReserves, outs' = outs,
         nLiquidity' = nLiquidity, TakenIns' = TakenIns, Liquid' = Liquid, phase' = "done" => IsPayable
  PROVE  PayInv'
<1>1. PICK T : T = TakenIns
  OBVIOUS
<1>2. PICK S : S = DOMAIN outs
  OBVIOUS
<1>3. PICK liquid : liquid = Liquid
  OBVIOUS
<1>4. T = TakenIns' /\ S = DOMAIN outs' /\ liquid = Liquid' /\ poolFrozen' = <<>>
  BY <1>1, <1>2, <1>3 DEF PayInv
<1>5. \A a \in Nat : Total(At(poolReserves', a, Zero)) = Over(KeptBy(a, T), SentBy(a, S))
  BY <1>1, <1>2 DEF PayInv
<1>6. /\ nLiquidity' = SumOf(Highs, T) - SumOf(Beyond(S, T), OutAddresses) /\ Total(liquid) = nLiquidity'
      /\ \A o \in S : Total(outs'[o].fractions) = tx.vout[o].value
  BY <1>1, <1>2, <1>3 DEF PayInv
<1> QED BY <1>4, <1>5, <1>6, PayNext

\* A payment starts with nothing.
LEMMA InitPay == Init /\ IInv => PaymentInv
<1> SUFFICES ASSUME Init, IInv, IsPayment PROVE PayInv
  BY DEF PaymentInv, Init, IsPayment
<1>1. /\ phase = "inputs" /\ n = 1 /\ poolReserves = <<>> /\ poolLiquidity = <<>> /\ poolFrozen = <<>> /\ outs = <<>>
      /\ nLiquidity = 0
  BY DEF Init, IsPayment
<1>2. TxInv
  BY DEF IInv, IsPayment
<1>3. DOMAIN <<>> = {} /\ SumAll(<<>>) = Zero
  BY EmptyLemma
<1>4. TakenIns = {} /\ DOMAIN outs = {} /\ Liquid = Zero
  BY <1>1, <1>3 DEF TakenIns, Liquid
<1>5. ASSUME NEW a \in Nat PROVE Total(At(poolReserves, a, Zero)) = Over(KeptBy(a, {}), SentBy(a, {}))
  <2>1. KeptBy(a, {}) = 0
    BY <1>2, KeptLemma
  <2>2. SentBy(a, {}) = 0
    BY <1>2, SentLemma
  <2>3. Over(0, 0) = 0
    BY OverLemma
  <2>4. At(poolReserves, a, Zero) = Zero
    BY <1>1, <1>3 DEF At
  <2> QED BY <2>1, <2>2, <2>3, <2>4, ZeroTotal
<1>6. nLiquidity = SumOf(Highs, {}) - SumOf(Beyond({}, {}), OutAddresses)
  <2>1. SumOf(Highs, {}) = 0
    BY SumRecursion
  <2>2. SumOf(Beyond({}, {}), OutAddresses) = 0
    <3>1. {} \in SUBSET DOMAIN tx.vin /\ {} \in SUBSET DOMAIN tx.vout
      OBVIOUS
    <3> QED BY <1>2, <3>1, BeyondLemma
  <2> QED BY <1>1, <2>1, <2>2
<1> QED BY <1>1, <1>4, <1>5, <1>6, ZeroTotal DEF PayInv

\* Every step of a payment keeps it.
LEMMA NextPay == IInv /\ PaymentInv /\ [Next]_vars => PaymentInv'
<1> SUFFICES ASSUME IInv, PaymentInv, [Next]_vars PROVE PaymentInv'
  OBVIOUS
<1>1. CASE UNCHANGED vars
  <2>1. /\ tx' = tx /\ supply' = supply /\ phase' = phase /\ n' = n /\ poolReserves' = poolReserves
        /\ poolLiquidity' = poolLiquidity /\ frCommonLiquidity' = frCommonLiquidity /\ nLiquidity' = nLiquidity
        /\ poolFrozen' = poolFrozen /\ outs' = outs
    BY <1>1 DEF vars, pools
  <2>2. IsPayment' = IsPayment /\ IsPayable' = IsPayable /\ TakenIns' = TakenIns /\ Liquid' = Liquid
    BY <2>1 DEF IsPayment, IsPayable, TakenIns, Liquid
  <2>3. PayInv => PayInv'
    <3>1. PayInv => (phase' = "done" => IsPayable)
      BY <2>1 DEF PayInv
    <3> QED BY <2>1, <2>2, <3>1, PaySame
  <2> QED BY <2>1, <2>2, <2>3 DEF PaymentInv
<1>2. CASE Next
  <2>1. tx' = tx /\ supply' = supply
    BY <1>2, FillFails DEF Next, RefuseInput, Refuse, TakeInput, TakeColdInput, FreezeShared, FreezeOne, InputTaken,
       ShareLiquidity, PlainOutput, FrozenOutput, SharedFrozenOutput, SharedVoluntaryOutput, SharedEmptyOutput, Finish,
       CalculateStakingFractions
  <2>2. IsPayment' = IsPayment /\ IsPayable' = IsPayable
    BY <2>1 DEF IsPayment, IsPayable
  <2> SUFFICES ASSUME IsPayment PROVE IF phase' = "failed" THEN ~ IsPayable ELSE PayInv'
    BY <2>2 DEF PaymentInv
  <2>3. TxInv /\ phase \in {"inputs", "outputs", "done", "failed"} /\ (phase # "failed" => Sound)
    BY DEF IInv, Sound, IsPayment
  <2>4. phase # "failed" => PayInv
    BY DEF PaymentInv
  <2>5. CASE RefuseInput \/ TakeInput \/ TakeColdInput \/ FreezeShared \/ FreezeOne
    <3>1. phase = "inputs" /\ n <= Len(tx.vin)
      BY <2>5 DEF RefuseInput, TakeInput, TakeColdInput, FreezeShared, FreezeOne, Accepted
    <3>2. Taking
      BY <2>3, <3>1 DEF Taking, Sound
    <3>3. ~ IsCold /\ ~ IsFreezing /\ ~ RefuseInput
      BY <3>2, PayInputPlain
    <3>4. TakeInput
      BY <2>5, <3>3 DEF TakeColdInput, FreezeShared, FreezeOne
    <3>5. phase' = "inputs"
      BY <3>1, <3>4 DEF TakeInput, InputTaken
    <3>6. PayInv'
      BY <2>4, <3>1, <3>2, <3>4, PayInput
    <3> QED BY <3>5, <3>6
  <2>6. CASE ShareLiquidity
    <3>1. /\ phase = "inputs" /\ phase' = "outputs" /\ frCommonLiquidity' = SumAll(poolLiquidity)
          /\ poolReserves' = poolReserves /\ nLiquidity' = nLiquidity /\ poolFrozen' = poolFrozen /\ outs' = outs
      BY <2>6 DEF ShareLiquidity
    <3>2. TakenIns' = TakenIns
      <4>1. DOMAIN tx.vin = 1..Len(tx.vin) /\ Len(tx.vin) \in Nat
        BY <2>3, TakenLemma
      <4>2. n = Len(tx.vin) + 1
        BY <2>3, <2>6, <4>1 DEF ShareLiquidity, Sound, PhaseInv
      <4>3. 1..(n - 1) = DOMAIN tx.vin
        BY <4>1, <4>2
      <4> QED BY <2>1, <3>1, <4>3 DEF TakenIns
    <3>3. Liquid' = Liquid
      BY <3>1 DEF Liquid
    <3>4. PayInv'
      BY <2>1, <2>4, <3>1, <3>2, <3>3, PaySame
    <3> QED BY <3>1, <3>4
  <2>7. CASE PlainOutput \/ FrozenOutput \/ SharedFrozenOutput \/ SharedVoluntaryOutput \/ SharedEmptyOutput
    <3>1. phase = "outputs" /\ n <= Len(tx.vout)
      BY <2>7 DEF PlainOutput, FrozenOutput, SharedFrozenOutput, SharedVoluntaryOutput, SharedEmptyOutput
    <3>2. Making /\ PayInv
      BY <2>3, <2>4, <3>1 DEF Making, Sound
    <3>3. n \notin DOMAIN poolFrozen
      <4>1. poolFrozen = <<>> /\ DOMAIN <<>> = {}
        BY <3>2, EmptyLemma DEF PayInv
      <4> QED BY <4>1
    <3>4. PlainOutput
      BY <2>7, <3>3 DEF FrozenOutput, SharedFrozenOutput, SharedVoluntaryOutput, SharedEmptyOutput, IsSetAside, IsSharing
    <3>5. phase' = "failed" => ~ IsPayable
      BY <3>2, <3>4, PayFails
    <3>6. phase' # "failed" => PayInv'
      BY <3>2, <3>4, PayOutput
    <3> QED BY <3>5, <3>6
  <2>8. CASE Finish
    <3>1. /\ phase = "outputs" /\ n > Len(tx.vout) /\ phase' = IF TotalsMatch THEN "done" ELSE "failed"
          /\ poolReserves' = poolReserves /\ nLiquidity' = nLiquidity /\ poolFrozen' = poolFrozen /\ outs' = outs
          /\ frCommonLiquidity' = frCommonLiquidity
      BY <2>8 DEF Finish, pools
    <3>2. TotalsMatch /\ IsPayable
      BY <2>3, <2>4, <3>1, PayTotals DEF Sound
    <3>3. phase' = "done"
      BY <3>1, <3>2
    <3>4. TakenIns' = TakenIns /\ Liquid' = Liquid
      BY <2>1, <3>1, <3>3 DEF TakenIns, Liquid
    <3>5. PayInv'
      BY <2>1, <2>4, <3>1, <3>2, <3>4, PaySame
    <3> QED BY <3>3, <3>5
  <2>9. CASE CalculateStakingFractions
    BY <2>3, <2>9 DEF CalculateStakingFractions
  <2> QED BY <1>2, <2>5, <2>6, <2>7, <2>8, <2>9 DEF Next
<1> QED BY <1>1, <1>2

\* CalculateStandardFractions accepts a payment exactly if what leaves its
\* addresses, or exceeds their reserve, is covered by the liquid of all inputs,
\* in whatever order inputs and outputs stand.
THEOREM PaymentsNeedLiquidityAlways == Spec => []PaymentsNeedLiquidity
<1>1. Init => IInv /\ PaymentInv
  BY InitInv, InitPay
<1>2. (IInv /\ PaymentInv) /\ [Next]_vars => (IInv /\ PaymentInv)'
  BY NextInv, NextPay
<1>3. IInv /\ PaymentInv => PaymentsNeedLiquidity
  BY DEF PaymentInv, PayInv, PaymentsNeedLiquidity
<1> QED BY <1>1, <1>2, <1>3, PTL DEF Spec
=============================================================================
