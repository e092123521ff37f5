------------------------- MODULE PegFractions_proofs -------------------------
(***************************************************************************)
(* What the operators on fractions compute, for every PegSize and every    *)
(* amount: totals, shares of an amount, and the parts of a peg level.      *)
(***************************************************************************)
EXTENDS PegFractions, Sums_proofs

---------------------------------------------------------------------------
(* Totals and parts of fractions *)

\* There are finitely many fractions, and 0 is the first of them.
LEMMA IndexesFinite ==
  /\ IsFiniteSet(Indexes) /\ Indexes \subseteq Nat /\ 0 \in Indexes
  /\ \A a, b \in Int : IsFiniteSet(a..b)
  /\ \A S \in SUBSET Indexes : IsFiniteSet(S)
<1>1. IsFiniteSet(Indexes) /\ \A a, b \in Int : IsFiniteSet(a..b)
  BY FS_Interval, PegSizeAssumption DEF Indexes
<1>2. Indexes \subseteq Nat /\ 0 \in Indexes
  BY PegSizeAssumption DEF Indexes
<1>3. \A S \in SUBSET Indexes : IsFiniteSet(S)
  BY <1>1, FS_Subset
<1> QED BY <1>1, <1>2, <1>3

\* Totals of integers are integers.
LEMMA TotalType ==
  ASSUME NEW f, \A i \in Indexes : f[i] \in Int
  PROVE  /\ Total(f) = SumOf(f, Indexes)
         /\ Total(f) \in Int
         /\ \A e \in 0..PegSize : Low(f, e) \in Int /\ High(f, e) \in Int
<1>1. Total(f) = SumOf(f, Indexes)
  BY DEF Total, Between, Indexes
<1>2. \A e \in 0..PegSize : 0..(e - 1) \in SUBSET Indexes /\ e..(PegSize - 1) \in SUBSET Indexes
  BY PegSizeAssumption DEF Indexes
<1>3. \A S \in SUBSET Indexes : SumOf(f, S) \in Int
  BY IndexesFinite, SumType
<1> QED BY <1>1, <1>2, <1>3 DEF Low, High, Between

\* Totals of amounts that are nowhere negative: no fraction is more than all.
LEMMA TotalNat ==
  ASSUME NEW f, \A i \in Indexes : f[i] \in Nat
  PROVE  /\ Total(f) \in Nat
         /\ \A i \in Indexes : f[i] <= Total(f)
         /\ \A e \in 0..PegSize : Low(f, e) \in Nat /\ High(f, e) \in Nat
<1>0. IsFiniteSet(Indexes) /\ Total(f) = SumOf(f, Indexes)
  BY IndexesFinite, TotalType
<1>1. Total(f) \in Nat /\ \A i \in Indexes : f[i] <= Total(f)
  BY <1>0, SumNat
<1>2. \A e \in 0..PegSize : 0..(e - 1) \in SUBSET Indexes /\ e..(PegSize - 1) \in SUBSET Indexes
  BY PegSizeAssumption DEF Indexes
<1>3. \A S \in SUBSET Indexes : SumOf(f, S) \in Nat
  BY IndexesFinite, SumNat
<1> QED BY <1>1, <1>2, <1>3 DEF Low, High, Between

\* Total adds up.
LEMMA TotalPlus ==
  ASSUME NEW f, NEW g, NEW h, \A i \in Indexes : f[i] \in Int /\ g[i] \in Int /\ h[i] = f[i] + g[i]
  PROVE  Total(h) = Total(f) + Total(g)
<1>1. SumOf(h, Indexes) = SumOf(f, Indexes) + SumOf(g, Indexes)
  BY IndexesFinite, SumPlus
<1>2. \A i \in Indexes : h[i] \in Int
  OBVIOUS
<1> QED BY <1>1, <1>2, TotalType

\* Total subtracts.
LEMMA TotalMinus ==
  ASSUME NEW f, NEW g, NEW h, \A i \in Indexes : f[i] \in Int /\ g[i] \in Int /\ h[i] = f[i] - g[i]
  PROVE  Total(h) = Total(f) - Total(g)
<1>1. \A i \in Indexes : h[i] \in Int /\ f[i] = h[i] + g[i]
  OBVIOUS
<1>2. Total(f) = Total(h) + Total(g)
  BY <1>1, TotalPlus
<1>3. Total(f) \in Int /\ Total(g) \in Int /\ Total(h) \in Int
  BY <1>1, TotalType
<1> QED BY <1>2, <1>3

\* Total of fractions that differ at one place.
LEMMA TotalExcept ==
  ASSUME NEW f, NEW h, NEW e \in Indexes, h[e] \in Int,
         \A i \in Indexes : f[i] \in Int /\ (i # e => h[i] = f[i])
  PROVE  Total(h) = Total(f) - f[e] + h[e]
<1>0. IsFiniteSet(Indexes)
  BY IndexesFinite
<1>1. SumOf(h, Indexes) = SumOf(f, Indexes) - f[e] + h[e]
  BY <1>0, SumExcept
<1>2. \A i \in Indexes : h[i] \in Int
  OBVIOUS
<1> QED BY <1>1, <1>2, TotalType

\* Equal fractions have equal totals.
LEMMA TotalEqual ==
  ASSUME NEW f, NEW h, \A i \in Indexes : f[i] \in Int /\ h[i] = f[i]
  PROVE  Total(h) = Total(f)
<1>1. SumOf(h, Indexes) = SumOf(f, Indexes)
  BY IndexesFinite, SumEqual
<1> QED BY <1>1, TotalType

\* A sum of neighbours grows by the next one.
LEMMA BetweenStep ==
  ASSUME NEW f, \A i \in Indexes : f[i] \in Int,
         NEW s \in Indexes, NEW t \in Indexes, s <= t
  PROVE  /\ Between(f, s, s) = 0
         /\ Between(f, s, t) \in Int
         /\ Between(f, s, t + 1) = Between(f, s, t) + f[t]
<1>1. Between(f, s, s) = 0
  <2>1. s..(s - 1) = {}
    BY IndexesFinite
  <2> QED BY <2>1, SumRecursion DEF Between
<1>2. /\ s..((t + 1) - 1) \in SUBSET Indexes
      /\ t \in s..((t + 1) - 1)
      /\ (s..((t + 1) - 1)) \ {t} = s..(t - 1)
  BY IndexesFinite, PegSizeAssumption DEF Indexes
<1>3. IsFiniteSet(s..((t + 1) - 1)) /\ IsFiniteSet(s..(t - 1)) /\ s..(t - 1) \in SUBSET Indexes
  BY <1>2, IndexesFinite
<1>4. SumOf(f, s..(t - 1)) \in Int
  BY <1>3, SumType
<1>5. SumOf(f, s..((t + 1) - 1)) = f[t] + SumOf(f, s..(t - 1))
  <2>1. PICK S : S = s..((t + 1) - 1)
    OBVIOUS
  <2>2. IsFiniteSet(S) /\ t \in S /\ (\A i \in S : f[i] \in Int) /\ S \ {t} = s..(t - 1)
    BY <1>2, <1>3, <2>1
  <2>3. SumOf(f, S) = f[t] + SumOf(f, S \ {t})
    BY <2>2, SumRemove
  <2> QED BY <2>1, <2>2, <2>3
<1>6. f[t] \in Int
  OBVIOUS
<1> QED BY <1>1, <1>4, <1>5, <1>6 DEF Between

\* Reserve and liquid part of fractions add up to them.
LEMMA PartsLemma ==
  ASSUME NEW f, \A i \in Indexes : f[i] \in Int, NEW e \in 0..PegSize
  PROVE  /\ Total(LowPart(f, e)) = Low(f, e)
         /\ Total(HighPart(f, e)) = High(f, e)
         /\ Low(f, e) + High(f, e) = Total(f)
<1> DEFINE l == LowPart(f, e)
           h == HighPart(f, e)
<1>1. /\ Indexes \intersect (0..(e - 1)) = 0..(e - 1)
      /\ Indexes \intersect (e..(PegSize - 1)) = e..(PegSize - 1)
  BY PegSizeAssumption DEF Indexes
<1>2. \A i \in Indexes : /\ l[i] = IF i \in 0..(e - 1) THEN f[i] ELSE 0
                         /\ h[i] = IF i \in e..(PegSize - 1) THEN f[i] ELSE 0
                         /\ l[i] \in Int /\ h[i] \in Int /\ f[i] = l[i] + h[i]
  BY PegSizeAssumption DEF Indexes, LowPart, HighPart
<1> HIDE DEF l, h
<1>0. IsFiniteSet(Indexes)
  BY IndexesFinite
<1>3. SumOf(l, Indexes) = SumOf(f, Indexes \intersect (0..(e - 1)))
  <2>1. PICK P : P = 0..(e - 1)
    OBVIOUS
  <2>2. \A i \in Indexes : f[i] \in Int /\ l[i] = IF i \in P THEN f[i] ELSE 0
    BY <1>2, <2>1
  <2>3. SumOf(l, Indexes) = SumOf(f, Indexes \intersect P)
    BY <1>0, <2>2, SumPart
  <2> QED BY <2>1, <2>3
<1>4. SumOf(h, Indexes) = SumOf(f, Indexes \intersect (e..(PegSize - 1)))
  <2>1. PICK P : P = e..(PegSize - 1)
    OBVIOUS
  <2>2. \A i \in Indexes : f[i] \in Int /\ h[i] = IF i \in P THEN f[i] ELSE 0
    BY <1>2, <2>1
  <2>3. SumOf(h, Indexes) = SumOf(f, Indexes \intersect P)
    BY <1>0, <2>2, SumPart
  <2> QED BY <2>1, <2>3
<1>5. Total(l) = Low(f, e) /\ Total(h) = High(f, e)
  BY <1>1, <1>2, <1>3, <1>4, TotalType DEF Low, High, Between
<1>6. Total(f) = Total(l) + Total(h)
  BY <1>2, TotalPlus
<1>7. Total(l) \in Int /\ Total(h) \in Int
  BY <1>2, TotalType
<1> QED BY <1>5, <1>6, <1>7 DEF l, h

\* The fraction at a level and those above it.
LEMMA HighStep ==
  ASSUME NEW f, \A i \in Indexes : f[i] \in Int, NEW e \in Indexes
  PROVE  High(f, e) = f[e] + High(f, e + 1)
<1>1. /\ e..(PegSize - 1) \in SUBSET Indexes
      /\ e \in e..(PegSize - 1)
      /\ (e..(PegSize - 1)) \ {e} = (e + 1)..(PegSize - 1)
  BY PegSizeAssumption DEF Indexes
<1>2. IsFiniteSet(e..(PegSize - 1)) /\ \A i \in e..(PegSize - 1) : f[i] \in Int
  BY <1>1, IndexesFinite
<1>3. SumOf(f, e..(PegSize - 1)) = f[e] + SumOf(f, (e..(PegSize - 1)) \ {e})
  BY <1>1, <1>2, SumRemove
<1> QED BY <1>1, <1>3 DEF High, Between

---------------------------------------------------------------------------
(* Shares of an amount *)

\* Products grow with their factors.
LEMMA ProductLemma ==
  ASSUME NEW a \in Nat, NEW b \in Nat, NEW c \in Nat, a <= b
  PROVE  /\ a * c \in Nat /\ a * c = c * a
         /\ c * a <= c * b
<1>1. \A x, y \in Nat : x * y \in Nat /\ x * y = y * x
  OBVIOUS
<1>2. PICK d \in Nat : b = a + d
  <2>1. b - a \in Nat /\ b = a + (b - a)
    OBVIOUS
  <2> QED BY <2>1
<1>3. c * b = c * a + c * d
  BY <1>2
<1> QED BY <1>1, <1>3

\* The quotient that \div computes.
LEMMA DivLemma ==
  ASSUME NEW a \in Nat, NEW b \in Nat \ {0}
  PROVE  /\ a \div b \in Nat
         /\ b * (a \div b) <= a
         /\ a < b * (a \div b) + b
OBVIOUS

\* What RatioOf of one amount is: a natural number, no more than the amount or
\* than the part asked for, and less than one short of the exact share.
LEMMA RatioLemma ==
  ASSUME NEW value \in Nat, NEW part \in Nat, NEW total \in Nat
  PROVE  LET q == RatioOf(value, part, total) IN
         /\ q \in Nat
         /\ part <= total => q <= value
         /\ value <= total => q <= part
         /\ part < total /\ value > 0 => q < value
         /\ part <= total /\ total > 0 => total * q <= value * part /\ value * part < total * q + total
<1> DEFINE q == RatioOf(value, part, total)
<1>1. CASE part = 0 \/ total = 0
  <2>1. q = 0
    BY <1>1 DEF RatioOf
  <2>2. value * 0 = 0 /\ total * 0 = 0
    OBVIOUS
  <2> QED BY <1>1, <2>1, <2>2
<1>2. CASE part # 0 /\ total # 0
  <2>0. value * part \in Nat
    BY ProductLemma
  <2>1. q \in Nat /\ total * q <= value * part /\ value * part < total * q + total
    <3>1. q = (value * part) \div total
      BY <1>2 DEF RatioOf
    <3> QED BY <1>2, <2>0, <3>1, DivLemma
  <2> HIDE DEF q
  <2>2. \A x, y \in Nat : x < y => total * x + total <= total * y
    <3> SUFFICES ASSUME NEW x \in Nat, NEW y \in Nat, x + 1 <= y PROVE total * x + total <= total * y
      OBVIOUS
    <3>1. total * (x + 1) <= total * y
      BY ProductLemma, x + 1 \in Nat
    <3>2. total * (x + 1) = total * x + total
      OBVIOUS
    <3> QED BY <3>1, <3>2
  <2>3. total * value \in Nat /\ total * part \in Nat /\ total * q \in Nat
    BY <2>1, ProductLemma
  <2>4. ASSUME part <= total PROVE value * part <= total * value
    <3>1. value * part <= value * total
      BY <2>4, ProductLemma
    <3> QED BY <3>1
  <2>5. ASSUME value <= total PROVE value * part <= total * part
    <3>1. part * value <= part * total
      BY <2>5, ProductLemma
    <3>2. part * value = value * part /\ part * total = total * part
      OBVIOUS
    <3> QED BY <3>1, <3>2
  <2>6. ASSUME part <= total PROVE q <= value
    <3>1. value < q => total * value + total <= total * q
      BY <2>1, <2>2
    <3> QED BY <1>2, <2>0, <2>1, <2>3, <2>4, <2>6, <3>1
  <2>7. ASSUME value <= total PROVE q <= part
    <3>1. part < q => total * part + total <= total * q
      BY <2>1, <2>2
    <3> QED BY <1>2, <2>0, <2>1, <2>3, <2>5, <2>7, <3>1
  <2>8. ASSUME part < total, value > 0 PROVE q < value
    <3>1. q <= value
      BY <2>6, <2>8
    <3>2. ASSUME q = value PROVE FALSE
      <4>1. part + 1 \in Nat /\ part + 1 <= total
        BY <2>8
      <4>2. value * (part + 1) <= value * total
        BY <4>1, ProductLemma
      <4>3. value * (part + 1) = value * part + value /\ value * total = total * value
        OBVIOUS
      <4> QED BY <2>0, <2>1, <2>3, <2>8, <3>2, <4>2, <4>3
    <3> QED BY <2>1, <3>1, <3>2
  <2> QED BY <2>1, <2>6, <2>7, <2>8 DEF q
<1> QED BY <1>1, <1>2

\* The ones given to the lowest elements of a finite set of indexes, up to a
\* count, are as many as counted.
LEMMA LowestLemma ==
  ASSUME NEW more \in SUBSET Indexes, NEW missing \in Nat, missing <= Cardinality(more)
  PROVE  Cardinality({i \in more : Cardinality({j \in more : j < i}) < missing}) = missing
<1> DEFINE upTo(k) == {j \in more : j < k}
           few(i) == Cardinality(upTo(i)) < missing
           given(k) == {i \in upTo(k) : few(i)}
           N == {k \in Nat : Cardinality(given(k)) = Least(missing, Cardinality(upTo(k)))}
<1>0. more \subseteq Nat
  BY IndexesFinite
<1>1. \A k : IsFiniteSet(upTo(k)) /\ Cardinality(upTo(k)) \in Nat
  <2>1. \A k : upTo(k) \in SUBSET Indexes
    OBVIOUS
  <2> HIDE DEF upTo
  <2> QED BY <2>1, IndexesFinite, FS_CardinalityType
<1>2. \A k : IsFiniteSet(given(k)) /\ Cardinality(given(k)) \in Nat
  <2>1. \A k : given(k) \in SUBSET Indexes
    <3> HIDE DEF few
    <3> QED OBVIOUS
  <2> HIDE DEF given
  <2> QED BY <2>1, IndexesFinite, FS_CardinalityType
<1>3. /\ \A k, j : j \in upTo(k) <=> j \in more /\ j < k
      /\ \A k, j : j \in given(k) <=> j \in upTo(k) /\ few(j)
  <2> HIDE DEF few
  <2> QED OBVIOUS
<1>4. \A k : few(k) <=> Cardinality(upTo(k)) < missing
  OBVIOUS
<1>5. {i \in more : Cardinality({j \in more : j < i}) < missing} = {i \in more : few(i)}
  OBVIOUS
<1> HIDE DEF upTo, given, few
<1>6. 0 \in N
  <2>1. upTo(0) = {}
    <3>1. \A j \in more : ~(j < 0)
      BY <1>0
    <3> QED BY <3>1 DEF upTo
  <2>2. given(0) = {}
    BY <1>3, <2>1
  <2> QED BY <2>1, <2>2, FS_EmptySet DEF Least
<1>7. ASSUME NEW k \in Nat, k \in N PROVE k + 1 \in N
  <2>0. Cardinality(given(k)) = Least(missing, Cardinality(upTo(k)))
    BY <1>7
  <2> SUFFICES Cardinality(given(k + 1)) = Least(missing, Cardinality(upTo(k + 1)))
    OBVIOUS
  <2> HIDE DEF N
  <2>1. CASE k \notin more
    <3>1. upTo(k + 1) = upTo(k)
      <4>1. \A j \in more : j < k + 1 <=> j < k
        BY <1>0, <2>1
      <4> QED BY <4>1 DEF upTo
    <3>2. given(k + 1) = given(k)
      BY <1>3, <3>1
    <3> QED BY <2>0, <3>1, <3>2
  <2>2. CASE k \in more
    <3>1. upTo(k + 1) = upTo(k) \union {k} /\ k \notin upTo(k)
      <4>1. (\A j \in more : j < k + 1 <=> j < k \/ j = k) /\ ~(k < k)
        BY <1>0
      <4> QED BY <2>2, <4>1 DEF upTo
    <3>2. Cardinality(upTo(k + 1)) = Cardinality(upTo(k)) + 1
      BY <1>1, <3>1, FS_AddElement
    <3>3. CASE few(k)
      <4>1. given(k + 1) = given(k) \union {k} /\ k \notin given(k)
        BY <3>1, <3>3 DEF given
      <4>2. Cardinality(given(k + 1)) = Cardinality(given(k)) + 1
        BY <1>2, <4>1, FS_AddElement
      <4> QED BY <1>1, <1>4, <2>0, <3>2, <3>3, <4>2 DEF Least
    <3>4. CASE ~few(k)
      <4>1. given(k + 1) = given(k)
        BY <3>1, <3>4 DEF given
      <4> QED BY <1>1, <1>4, <2>0, <3>2, <3>4, <4>1 DEF Least
    <3> QED BY <3>3, <3>4
  <2> QED BY <2>1, <2>2
<1>8. PegSize \in N
  <2> HIDE DEF N
  <2>1. Nat \subseteq N
    BY <1>6, <1>7, NumberInduction
  <2> QED BY <2>1, PegSizeAssumption
<1>9. upTo(PegSize) = more
  <2>1. \A i \in Indexes : i < PegSize
    BY PegSizeAssumption DEF Indexes
  <2> QED BY <2>1 DEF upTo
<1>10. Cardinality(given(PegSize)) = missing
  <2>1. Cardinality(more) \in Nat
    BY IndexesFinite, FS_CardinalityType
  <2> QED BY <1>8, <1>9, <2>1 DEF Least
<1>11. given(PegSize) = {i \in more : few(i)}
  BY <1>3, <1>9
<1> QED BY <1>5, <1>10, <1>11

\* The sum of ones at some of the fractions is the number of those.
LEMMA CountLemma ==
  ASSUME NEW P \in SUBSET Indexes, NEW ones, \A i \in Indexes : ones[i] = IF i \in P THEN 1 ELSE 0
  PROVE  SumOf(ones, Indexes) = Cardinality(P)
<1> DEFINE one == [i \in Indexes |-> 1]
<1>1. \A i \in Indexes : one[i] = 1 /\ one[i] \in Int
  OBVIOUS
<1> HIDE DEF one
<1>2. \A i \in Indexes : one[i] \in Int /\ ones[i] = IF i \in P THEN one[i] ELSE 0
  BY <1>1
<1>3. IsFiniteSet(Indexes) /\ IsFiniteSet(P) /\ Indexes \intersect P = P
  BY IndexesFinite
<1>4. SumOf(ones, Indexes) = SumOf(one, Indexes \intersect P)
  BY <1>2, <1>3, SumPart
<1>5. SumOf(one, P) = Cardinality(P)
  BY <1>1, <1>3, SumCount
<1> QED BY <1>3, <1>4, <1>5

\* What rounding down took from the shares can be given back one by one: there
\* are at least as many fractions that have more as coins are missing.
LEMMA MissingLemma ==
  ASSUME NEW f \in Fractions, NEW part \in Nat, part <= Total(f), NEW share, NEW more,
         share = [i \in Indexes |-> RatioOf(f[i], part, Total(f))],
         more = {i \in Indexes : share[i] < f[i]}
  PROVE  /\ \A i \in Indexes : share[i] \in Nat /\ share[i] <= f[i]
         /\ part - Total(share) \in Nat
         /\ part - Total(share) <= Cardinality(more)
<1>0. \A i \in Indexes : f[i] \in Nat
  BY DEF Fractions
<1>1. PICK total : total = Total(f)
  OBVIOUS
<1>2. total \in Nat /\ part <= total
  BY <1>0, <1>1, TotalNat
<1>3. \A i \in Indexes : share[i] = RatioOf(f[i], part, total)
  BY <1>1
<1>4. \A i \in Indexes : /\ share[i] \in Nat /\ share[i] <= f[i]
                         /\ total > 0 => /\ total * share[i] <= f[i] * part
                                         /\ f[i] * part < total * share[i] + total
  BY <1>0, <1>2, <1>3, RatioLemma
<1>5. Total(share) \in Nat /\ Cardinality(more) \in Nat
  BY <1>4, TotalNat, IndexesFinite, FS_CardinalityType
<1>6. CASE total = 0
  <2>1. part = 0
    BY <1>2, <1>6
  <2>2. \A i \in Indexes : f[i] <= 0
    BY <1>0, <1>1, <1>6, TotalNat
  <2>3. \A i \in Indexes : share[i] = 0
    BY <1>0, <1>4, <2>2
  <2>4. SumOf(share, Indexes) = 0
    BY <2>3, IndexesFinite, SumZero
  <2>5. Total(share) = 0
    BY <1>4, <2>4, TotalType
  <2> QED BY <1>4, <1>5, <2>1, <2>5
<1>7. CASE total > 0
  <2> DEFINE exact == [i \in Indexes |-> part * f[i]]
             down == [i \in Indexes |-> total * share[i]]
             ones == [i \in Indexes |-> IF i \in more THEN 1 ELSE 0]
             up == [i \in Indexes |-> total * ones[i]]
             sum == [i \in Indexes |-> down[i] + up[i]]
  <2>1. \A i \in Indexes : /\ part * f[i] \in Int /\ total * share[i] \in Int
                           /\ f[i] * part = part * f[i]
    BY <1>0, <1>2, <1>4
  <2>2. \A i \in Indexes : /\ exact[i] \in Int /\ exact[i] = part * f[i]
                           /\ down[i] \in Int /\ down[i] = total * share[i]
                           /\ ones[i] \in Int /\ up[i] = total * ones[i]
                           /\ up[i] \in Int /\ up[i] = (IF i \in more THEN total ELSE 0)
                           /\ sum[i] \in Int /\ sum[i] = down[i] + up[i]
    BY <1>2, <2>1
  <2>3. \A i \in Indexes : ones[i] \in Int /\ ones[i] = IF i \in more THEN 1 ELSE 0
    OBVIOUS
  <2> HIDE DEF exact, down, ones, up, sum
  <2>4. \A i \in Indexes : down[i] <= exact[i] /\ exact[i] <= sum[i]
    <3> SUFFICES ASSUME NEW i \in Indexes PROVE down[i] <= exact[i] /\ exact[i] <= sum[i]
      OBVIOUS
    <3>1. down[i] <= exact[i] /\ exact[i] < down[i] + total
      BY <1>4, <1>7, <2>1, <2>2
    <3>2. CASE i \in more
      BY <1>2, <2>2, <3>1, <3>2
    <3>3. CASE i \notin more
      <4>1. share[i] = f[i]
        BY <1>0, <1>4, <3>3
      <4>2. part * f[i] <= total * f[i]
        <5>1. f[i] * part <= f[i] * total
          BY <1>0, <1>2, ProductLemma
        <5>2. f[i] * part = part * f[i] /\ f[i] * total = total * f[i]
          BY <1>0, <1>2, ProductLemma
        <5> QED BY <5>1, <5>2
      <4> QED BY <2>2, <3>1, <3>3, <4>1, <4>2
    <3> QED BY <3>2, <3>3
  <2>0. IsFiniteSet(Indexes) /\ part \in Int /\ total \in Int
    BY <1>2, IndexesFinite
  <2>5. SumOf(exact, Indexes) = part * SumOf(f, Indexes)
    <3>1. \A i \in Indexes : f[i] \in Int /\ exact[i] = part * f[i]
      BY <1>0, <2>2
    <3> QED BY <2>0, <3>1, SumScale
  <2>6. SumOf(down, Indexes) = total * SumOf(share, Indexes)
    <3>1. \A i \in Indexes : share[i] \in Int /\ down[i] = total * share[i]
      BY <1>4, <2>2
    <3> QED BY <2>0, <3>1, SumScale
  <2>7. SumOf(up, Indexes) = total * SumOf(ones, Indexes)
    <3>1. \A i \in Indexes : ones[i] \in Int /\ up[i] = total * ones[i]
      BY <2>2
    <3> QED BY <2>0, <3>1, SumScale
  <2>8. SumOf(ones, Indexes) = Cardinality(more)
    <3>1. more \in SUBSET Indexes
      OBVIOUS
    <3> QED BY <2>3, <3>1, CountLemma
  <2>9. SumOf(sum, Indexes) = SumOf(down, Indexes) + SumOf(up, Indexes)
    BY <2>0, <2>2, SumPlus
  <2>10. /\ SumOf(down, Indexes) <= SumOf(exact, Indexes)
         /\ SumOf(exact, Indexes) <= SumOf(sum, Indexes)
    <3>1. \A i \in Indexes : down[i] \in Int /\ exact[i] \in Int /\ down[i] <= exact[i]
      BY <2>2, <2>4
    <3>2. \A i \in Indexes : exact[i] \in Int /\ sum[i] \in Int /\ exact[i] <= sum[i]
      BY <2>2, <2>4
    <3>3. SumOf(down, Indexes) <= SumOf(exact, Indexes)
      BY <2>0, <3>1, SumMonotone
    <3>4. SumOf(exact, Indexes) <= SumOf(sum, Indexes)
      BY <2>0, <3>2, SumMonotone
    <3> QED BY <3>3, <3>4
  <2>11. SumOf(f, Indexes) = total /\ SumOf(share, Indexes) = Total(share)
    BY <1>0, <1>1, <1>4, TotalType
  <2>12. /\ total * Total(share) <= part * total
         /\ part * total <= total * Total(share) + total * Cardinality(more)
    BY <2>5, <2>6, <2>7, <2>8, <2>9, <2>10, <2>11
  <2>13. part * total = total * part
    BY <1>2
  <2>14. \A x, y \in Nat : x > y => total * x >= total * y + total
    <3> SUFFICES ASSUME NEW x \in Nat, NEW y \in Nat, y + 1 <= x PROVE total * x >= total * y + total
      OBVIOUS
    <3>1. y + 1 \in Nat /\ total * (y + 1) <= total * x
      BY <1>2, ProductLemma
    <3>2. total * (y + 1) = total * y + total
      BY <1>2
    <3> QED BY <3>1, <3>2
  <2>15. total * part \in Nat /\ total * Total(share) \in Nat /\ total * (Total(share) + Cardinality(more)) \in Nat
    BY <1>2, <1>5, ProductLemma
  <2>16. Total(share) <= part
    BY <1>2, <1>5, <1>7, <2>12, <2>13, <2>14, <2>15
  <2>17. total * Total(share) + total * Cardinality(more) = total * (Total(share) + Cardinality(more))
    BY <1>2, <1>5
  <2>18. part <= Total(share) + Cardinality(more)
    <3>1. Total(share) + Cardinality(more) \in Nat
      BY <1>5
    <3> QED BY <1>2, <1>7, <2>12, <2>13, <2>14, <2>15, <2>17, <3>1
  <2> QED BY <1>4, <1>5, <2>16, <2>18
<1> QED BY <1>2, <1>6, <1>7

\* CFractions::RatioPart gives exactly the amount asked for, or all if that is
\* less, and of no fraction more than it has: rounding neither makes coins nor
\* loses any, whatever the fractions and the amount.
THEOREM RatioPartIsExact ==
  ASSUME NEW f \in Fractions, NEW part \in Nat
  PROVE  /\ RatioPart(f, part) \in Fractions
         /\ \A i \in Indexes : RatioPart(f, part)[i] <= f[i]
         /\ Total(RatioPart(f, part)) = Least(part, Total(f))
<1>0. \A i \in Indexes : f[i] \in Nat
  BY DEF Fractions
<1>1. Total(f) \in Nat
  BY <1>0, TotalNat
<1>2. CASE part > Total(f)
  <2>1. RatioPart(f, part) = f
    BY <1>2 DEF RatioPart
  <2> QED BY <1>0, <1>1, <1>2, <2>1 DEF Least
<1>3. CASE part <= Total(f)
  <2>1. PICK share : share = [i \in Indexes |-> RatioOf(f[i], part, Total(f))]
    OBVIOUS
  <2>2. PICK more : more = {i \in Indexes : share[i] < f[i]}
    OBVIOUS
  <2>3. /\ \A i \in Indexes : share[i] \in Nat /\ share[i] <= f[i]
        /\ part - Total(share) \in Nat
        /\ part - Total(share) <= Cardinality(more)
    BY <1>3, <2>1, <2>2, MissingLemma
  <2>4. PICK missing \in Nat : missing = part - Total(share)
    BY <2>3
  <2> DEFINE Low1(i) == Cardinality({j \in more : j < i}) < missing
             ones == [i \in Indexes |-> IF i \in more /\ Low1(i) THEN 1 ELSE 0]
             chosen == {i \in more : Low1(i)}
  <2>5. RatioPart(f, part) = [i \in Indexes |-> share[i] + ones[i]]
    <3>1. ~(part > Total(f))
      BY <1>1, <1>3
    <3>2. RatioPart(f, part) = [i \in Indexes |-> share[i] + IF i \in more /\ Low1(i) THEN 1 ELSE 0]
      BY <2>1, <2>2, <2>4, <3>1, Zenon DEF RatioPart
    <3> HIDE DEF Low1
    <3> QED BY <3>2
  <2>6. chosen \in SUBSET Indexes /\ Cardinality(chosen) = missing
    <3>1. more \in SUBSET Indexes
      BY <2>2
    <3> QED BY <2>3, <2>4, <3>1, LowestLemma
  <2>7. \A i \in Indexes : ones[i] \in Int /\ ones[i] = (IF i \in chosen THEN 1 ELSE 0) /\ (ones[i] = 1 => i \in more)
                             /\ ones[i] \in {0, 1}
    <3> HIDE DEF Low1
    <3> QED OBVIOUS
  <2> HIDE DEF ones, chosen
  <2>8. SumOf(ones, Indexes) = missing
    BY <2>6, <2>7, CountLemma
  <2>9. PICK r : r = RatioPart(f, part)
    OBVIOUS
  <2>10. \A i \in Indexes : r[i] = share[i] + ones[i]
    BY <2>5, <2>9
  <2>11. \A i \in Indexes : r[i] \in Nat /\ r[i] <= f[i]
    BY <1>0, <2>2, <2>3, <2>7, <2>10
  <2>12. r \in Fractions
    BY <2>5, <2>9, <2>11 DEF Fractions
  <2>13. Total(r) = Total(share) + Total(ones)
    BY <2>3, <2>7, <2>10, TotalPlus
  <2>14. Total(ones) = missing /\ Total(share) \in Int
    BY <2>3, <2>7, <2>8, TotalType
  <2>15. Total(r) = part
    BY <2>4, <2>13, <2>14
  <2> QED BY <1>1, <1>3, <2>9, <2>11, <2>12, <2>15 DEF Least
<1> QED BY <1>1, <1>2, <1>3

\* What MoveRatioPartTo moves is what was asked for, as far as it is there.
LEMMA MovedPartLemma ==
  ASSUME NEW f \in Fractions, NEW amount \in Nat
  PROVE  /\ MovedPart(f, amount) \in Fractions
         /\ \A i \in Indexes : MovedPart(f, amount)[i] <= f[i]
         /\ Total(MovedPart(f, amount)) = Least(amount, Total(f))
<1>1. Total(f) \in Nat
  BY TotalNat DEF Fractions
<1>2. Least(amount, Total(f)) \in Nat /\ Least(Least(amount, Total(f)), Total(f)) = Least(amount, Total(f))
  BY <1>1 DEF Least
<1> QED BY <1>2, RatioPartIsExact DEF MovedPart

---------------------------------------------------------------------------
(* Peg levels *)

\* A level that splits fractions in two: it is within them, and takes the last
\* one in part, not whole.
GoodLevel(level) ==
  /\ level \in PegLevels
  /\ LevelIsValid(level)
  /\ level.nShiftLastPart > 0 => level.nShiftLastPart < level.nShiftLastTotal

\* A set of numbers has a least one.
LEMMA LeastNumber ==
  ASSUME NEW S \in SUBSET Nat, S # {}
  PROVE  \E n \in S : \A m \in S : n <= m
<1> DEFINE G == {n \in Nat : \A m \in S : n <= m}
<1> SUFFICES ASSUME \A n \in S : \E m \in S : m < n PROVE FALSE
  OBVIOUS
<1>1. 0 \in G
  OBVIOUS
<1>2. ASSUME NEW n \in Nat, n \in G PROVE n + 1 \in G
  <2>1. n \notin S
    BY <1>2
  <2> QED BY <1>2, <2>1
<1> HIDE DEF G
<1>3. Nat \subseteq G
  BY <1>1, <1>2, NumberInduction
<1>4. PICK m : m \in S
  OBVIOUS
<1>5. m + 1 \in G /\ m \in Nat
  BY <1>3, <1>4
<1> QED BY <1>4, <1>5 DEF G

\* The walk of CPegLevel ends within the fractions and never takes more than
\* the missing liquid: the level is well formed, and if it is valid the part it
\* takes of the last fraction is less than that.
LEMMA LevelLemma ==
  ASSUME NEW cycle \in Nat, NEW cyclePrev \in Nat, NEW supply \in Nat,
         NEW f \in Fractions, NEW d \in [Indexes -> Int]
  PROVE  LET level == CPegLevel(cycle, cyclePrev, supply, f, d) IN
         /\ level \in PegLevels
         /\ level.nCycle = cycle /\ level.nCyclePrev = cyclePrev
         /\ LevelIsValid(level) => GoodLevel(level)
         /\ LevelIsValid(level) /\ Partial(level) => level.nShiftLastTotal = f[Effective(level)]
<1>0. (\A i \in Indexes : f[i] \in Nat) /\ Indexes \subseteq Nat
  BY IndexesFinite DEF Fractions
<1>1. PICK s : s = Least(supply, PegSize - 1)
  OBVIOUS
<1>2. s \in Indexes /\ s \in Nat /\ s < PegSize /\ s \in 0..PegSize
  BY <1>1, PegSizeAssumption DEF Least, Indexes
<1>3. PICK diff : diff = High(f, s) - High(Plus(f, d), s)
  OBVIOUS
<1>4. diff \in Int
  <2>1. \A i \in Indexes : f[i] \in Int /\ Plus(f, d)[i] \in Int
    BY <1>0 DEF Plus
  <2> QED BY <1>2, <1>3, <2>1, TotalType
<1> DEFINE left(n) == diff - Between(f, s, s + n)
           stops(n) == \/ s + n = PegSize
                       \/ left(n) = 0
                       \/ f[s + n] > left(n)
           shift == IF diff <= 0 THEN 0
                    ELSE CHOOSE n \in 0..(PegSize - s) : stops(n) /\ \A m \in 0..(n - 1) : ~stops(m)
           level == CPegLevel(cycle, cyclePrev, supply, f, d)
<1>5. level = [nCycle |-> cycle, nCyclePrev |-> cyclePrev, nSupply |-> s, nShift |-> shift,
               nShiftLastPart |-> IF diff <= 0 THEN 0 ELSE left(shift),
               nShiftLastTotal |-> IF diff > 0 /\ s + shift < PegSize /\ left(shift) > 0
                                   THEN f[s + shift] ELSE 0]
  BY <1>1, <1>3 DEF CPegLevel
<1>6. CASE diff <= 0
  <2>1. level = [nCycle |-> cycle, nCyclePrev |-> cyclePrev, nSupply |-> s, nShift |-> 0,
                 nShiftLastPart |-> 0, nShiftLastTotal |-> 0]
    <3>1. ~(diff > 0)
      BY <1>4, <1>6
    <3> HIDE DEF left, level
    <3> QED BY <1>5, <1>6, <3>1
  <2> HIDE DEF level
  <2>2. level \in PegLevels
    BY <1>2, <2>1 DEF PegLevels
  <2> QED BY <2>1, <2>2 DEF level, GoodLevel, Partial
<1>7. CASE diff > 0
  <2>0. ~(diff <= 0)
    BY <1>4, <1>7
  <2>1. \E n \in 0..(PegSize - s) : stops(n) /\ \A m \in 0..(n - 1) : ~stops(m)
    <3> DEFINE S == {n \in 0..(PegSize - s) : stops(n)}
    <3>1. PegSize - s \in S
      <4>1. PegSize - s \in 0..(PegSize - s) /\ s + (PegSize - s) = PegSize
        BY <1>2, PegSizeAssumption
      <4> HIDE DEF left
      <4> QED BY <4>1
    <3>2. S \in SUBSET Nat /\ S # {}
      <4> HIDE DEF stops
      <4> QED BY <1>2, <3>1, PegSizeAssumption
    <3>3. PICK n \in S : \A m \in S : n <= m
      <4> HIDE DEF S
      <4> QED BY <3>2, LeastNumber
    <3>4. n \in 0..(PegSize - s) /\ stops(n)
      <4> HIDE DEF stops
      <4> QED BY <3>3
    <3>5. ASSUME NEW m \in 0..(n - 1) PROVE ~stops(m)
      <4> HIDE DEF stops
      <4>1. m \in 0..(PegSize - s) /\ m < n /\ m \in Nat /\ n \in Nat
        BY <1>2, <3>4, PegSizeAssumption
      <4> QED BY <3>3, <4>1
    <3> HIDE DEF stops
    <3> QED BY <3>4, <3>5
  <2>2. shift \in 0..(PegSize - s) /\ stops(shift) /\ \A m \in 0..(shift - 1) : ~stops(m)
    <3> HIDE DEF stops
    <3> QED BY <2>0, <2>1
  <2>3. PICK n : n = shift
    OBVIOUS
  <2>4. n \in 0..(PegSize - s) /\ stops(n) /\ (\A m \in 0..(n - 1) : ~stops(m)) /\ n \in Nat
    <3> HIDE DEF stops, shift
    <3> QED BY <1>2, <2>2, <2>3, PegSizeAssumption
  <2>5. \A m \in 0..(n - 1) : /\ left(m) \in Int /\ f[s + m] \in Nat
                              /\ left(m + 1) = left(m) - f[s + m]
    <3> SUFFICES ASSUME NEW m \in 0..(n - 1)
                 PROVE  left(m) \in Int /\ f[s + m] \in Nat /\ left(m + 1) = left(m) - f[s + m]
      OBVIOUS
    <3>1. s + m \in Indexes /\ s <= s + m /\ (s + m) + 1 = s + (m + 1)
      BY <1>2, <2>4, PegSizeAssumption DEF Indexes
    <3>2. Between(f, s, s + m) \in Int /\ Between(f, s, (s + m) + 1) = Between(f, s, s + m) + f[s + m]
      BY <1>0, <1>2, <3>1, BetweenStep
    <3>3. f[s + m] \in Nat
      BY <1>0, <3>1
    <3> QED BY <1>4, <3>1, <3>2, <3>3
  <2>6. left(n) \in Nat
    <3> DEFINE G == {m \in Nat : m <= n => left(m) \in Nat}
    <3>1. 0 \in G
      <4>1. s + 0 = s
        BY <1>2
      <4>2. Between(f, s, s) = 0
        BY <1>0, <1>2, BetweenStep
      <4> QED BY <1>4, <1>7, <4>1, <4>2
    <3>2. ASSUME NEW m \in Nat, m \in G PROVE m + 1 \in G
      <4> SUFFICES ASSUME m + 1 <= n PROVE left(m + 1) \in Nat
        BY <3>2
      <4>1. m \in 0..(n - 1) /\ m <= n
        BY <2>4
      <4>2. left(m) \in Nat
        BY <3>2, <4>1
      <4>3. f[s + m] <= left(m)
        <5>1. f[s + m] \in Nat /\ left(m) \in Int
          BY <2>5, <4>1
        <5>2. ~(f[s + m] > left(m))
          BY <2>4, <4>1
        <5> HIDE DEF left
        <5> QED BY <5>1, <5>2
      <4>4. left(m + 1) = left(m) - f[s + m] /\ f[s + m] \in Nat
        BY <2>5, <4>1
      <4> HIDE DEF left
      <4> QED BY <4>2, <4>3, <4>4
    <3> HIDE DEF G
    <3>3. Nat \subseteq G
      BY <3>1, <3>2, NumberInduction
    <3> QED BY <2>4, <3>3 DEF G
  <2>7. ASSUME s + n < PegSize
        PROVE  s + n \in Indexes /\ f[s + n] \in Nat /\ (left(n) > 0 => f[s + n] > left(n))
    <3>1. s + n \in Indexes /\ s + n # PegSize
      BY <1>2, <2>4, <2>7, PegSizeAssumption DEF Indexes
    <3>2. left(n) = 0 \/ f[s + n] > left(n)
      BY <2>4, <3>1
    <3>3. f[s + n] \in Nat
      BY <1>0, <3>1
    <3> HIDE DEF left
    <3> QED BY <2>6, <3>1, <3>2, <3>3
  <2>8. PICK v : v = left(n)
    OBVIOUS
  <2>9. level = [nCycle |-> cycle, nCyclePrev |-> cyclePrev, nSupply |-> s, nShift |-> n,
                 nShiftLastPart |-> v,
                 nShiftLastTotal |-> IF s + n < PegSize /\ v > 0 THEN f[s + n] ELSE 0]
    <3> HIDE DEF left, shift, level
    <3> QED BY <1>5, <1>7, <2>0, <2>3, <2>8
  <2>10. /\ v \in Nat
         /\ s + n < PegSize => f[s + n] \in Nat /\ (v > 0 => f[s + n] > v)
    BY <2>6, <2>7, <2>8
  <2> HIDE DEF left, shift, level
  <2>11. level \in PegLevels
    BY <1>2, <2>4, <2>9, <2>10 DEF PegLevels
  <2>12. Effective(level) = s + n
    BY <2>9 DEF Effective
  <2>13. ASSUME s + n < PegSize
         PROVE  /\ level.nShiftLastPart > 0 => level.nShiftLastPart < level.nShiftLastTotal
                /\ Partial(level) => level.nShiftLastTotal = f[s + n]
    BY <2>9, <2>10, <2>13 DEF Partial
  <2> QED BY <2>9, <2>11, <2>12, <2>13 DEF level, GoodLevel, LevelIsValid
<1> QED BY <1>4, <1>6, <1>7

\* Of the last fraction a good level takes no more than it has.
LEMMA LastReserveLemma ==
  ASSUME NEW f \in Fractions, NEW level, GoodLevel(level), Partial(level)
  PROVE  /\ LastReserve(f, level) \in Nat
         /\ LastReserve(f, level) <= f[Effective(level)]
         /\ f[Effective(level)] * level.nShiftLastPart <= level.nShiftLastTotal * LastReserve(f, level)
<1> DEFINE v == f[Effective(level)]
           q == RatioOf(v, level.nShiftLastPart, level.nShiftLastTotal)
<1>1. /\ level.nShiftLastPart \in Nat /\ level.nShiftLastTotal \in Nat
      /\ level.nShiftLastPart < level.nShiftLastTotal /\ level.nShiftLastTotal > 0
  BY DEF GoodLevel, PegLevels, Partial
<1>2. v \in Nat
  <2>1. Effective(level) \in Indexes
    BY PegSizeAssumption DEF GoodLevel, PegLevels, LevelIsValid, Effective, Indexes
  <2> QED BY <2>1 DEF Fractions
<1>3. /\ q \in Nat /\ q <= v
      /\ v * level.nShiftLastPart < level.nShiftLastTotal * q + level.nShiftLastTotal
  <2>1. PICK p \in Nat, t \in Nat : p = level.nShiftLastPart /\ t = level.nShiftLastTotal
    BY <1>1
  <2>2. q = RatioOf(v, p, t) /\ p <= t /\ t > 0
    BY <1>1, <2>1
  <2> HIDE DEF v, q
  <2>3. q \in Nat /\ q <= v /\ v * p < t * q + t
    BY <1>2, <2>2, RatioLemma
  <2> QED BY <2>1, <2>3
<1>4. LastReserve(f, level) = IF q < v THEN q + 1 ELSE q
  BY DEF LastReserve
<1> HIDE DEF v, q
<1>5. LastReserve(f, level) \in Nat /\ LastReserve(f, level) <= v
  BY <1>2, <1>3, <1>4
<1>6. v * level.nShiftLastPart <= level.nShiftLastTotal * LastReserve(f, level)
  <2>1. CASE q < v
    <3>1. level.nShiftLastTotal * (q + 1) = level.nShiftLastTotal * q + level.nShiftLastTotal
      BY <1>1, <1>3
    <3>2. v * level.nShiftLastPart \in Nat /\ level.nShiftLastTotal * q \in Nat
      BY <1>1, <1>2, <1>3, ProductLemma
    <3> QED BY <1>1, <1>3, <1>4, <2>1, <3>1, <3>2
  <2>2. CASE ~(q < v)
    <3>1. LastReserve(f, level) = v
      BY <1>2, <1>3, <1>4, <2>2
    <3>2. v * level.nShiftLastPart <= v * level.nShiftLastTotal
      BY <1>1, <1>2, ProductLemma
    <3>3. v * level.nShiftLastTotal = level.nShiftLastTotal * v
      BY <1>1, <1>2
    <3> QED BY <3>1, <3>2, <3>3
  <2> QED BY <2>1, <2>2
<1> QED BY <1>5, <1>6 DEF v

\* The fraction at a good level is one of the fractions.
LEMMA EffectiveLemma ==
  ASSUME NEW level, GoodLevel(level)
  PROVE  /\ Effective(level) \in Indexes
         /\ Effective(level) \in Nat
         /\ Effective(level) \in 0..PegSize
         /\ Effective(level) + 1 \in 0..PegSize
         /\ level.nShiftLastPart \in Nat /\ level.nShiftLastTotal \in Nat
         /\ Partial(level) <=> level.nShiftLastPart > 0
BY PegSizeAssumption DEF GoodLevel, PegLevels, LevelIsValid, Effective, Indexes, Partial

\* The parts of fractions at a level.
LEMMA PartsAtLevel ==
  ASSUME NEW f, \A i \in Indexes : f[i] \in Nat, NEW e \in Indexes
  PROVE  /\ Total(f) \in Nat /\ Low(f, e) \in Nat /\ High(f, e) \in Nat /\ High(f, e + 1) \in Nat
         /\ Low(f, e) + High(f, e) = Total(f)
         /\ High(f, e) = f[e] + High(f, e + 1)
<1>1. e \in 0..PegSize /\ e + 1 \in 0..PegSize /\ \A i \in Indexes : f[i] \in Int
  BY PegSizeAssumption DEF Indexes
<1> QED BY <1>1, TotalNat, PartsLemma, HighStep

\* Fractions that agree below a level have the same reserve there.
LEMMA LowEqual ==
  ASSUME NEW f, NEW g, NEW e \in Indexes,
         \A i \in Indexes : f[i] \in Int /\ g[i] \in Int /\ (i < e => g[i] = f[i])
  PROVE  Low(g, e) = Low(f, e)
<1>1. e \in 0..PegSize
  BY PegSizeAssumption DEF Indexes
<1>2. Total(LowPart(f, e)) = Low(f, e) /\ Total(LowPart(g, e)) = Low(g, e)
  BY <1>1, PartsLemma
<1>3. \A i \in Indexes : LowPart(f, e)[i] \in Int /\ LowPart(g, e)[i] = LowPart(f, e)[i]
  BY DEF LowPart
<1>4. Total(LowPart(g, e)) = Total(LowPart(f, e))
  BY <1>3, TotalEqual
<1> QED BY <1>2, <1>4

\* Fractions that are 0 below a level have no reserve there.
LEMMA LowZero ==
  ASSUME NEW f, NEW e \in Indexes, \A i \in Indexes : f[i] \in Int /\ (i < e => f[i] = 0)
  PROVE  Low(f, e) = 0
<1>1. e \in 0..PegSize
  BY PegSizeAssumption DEF Indexes
<1>2. Total(LowPart(f, e)) = Low(f, e)
  BY <1>1, PartsLemma
<1>3. \A i \in Indexes : LowPart(f, e)[i] = 0
  BY DEF LowPart
<1>4. IsFiniteSet(Indexes) /\ \A i \in Indexes : LowPart(f, e)[i] \in Int
  BY <1>3, IndexesFinite
<1>5. SumOf(LowPart(f, e), Indexes) = 0
  BY <1>3, <1>4, SumZero
<1> QED BY <1>2, <1>4, <1>5, TotalType

\* h is the sum of the fractions f and g.
AreSum(h, f, g) == \A i \in Indexes : f[i] \in Int /\ g[i] \in Int /\ h[i] = f[i] + g[i]

\* Parts of a sum of fractions are the sums of the parts.
LEMMA PartsPlus ==
  ASSUME NEW f, NEW g, NEW h, NEW e \in Indexes, AreSum(h, f, g)
  PROVE  /\ Low(h, e) = Low(f, e) + Low(g, e)
         /\ High(h, e) = High(f, e) + High(g, e)
         /\ High(h, e + 1) = High(f, e + 1) + High(g, e + 1)
<1>0. \A i \in Indexes : f[i] \in Int /\ g[i] \in Int /\ h[i] \in Int /\ h[i] = f[i] + g[i]
  BY DEF AreSum
<1>1. e \in 0..PegSize /\ e + 1 \in 0..PegSize
  BY PegSizeAssumption DEF Indexes
<1>2. Low(h, e) = Low(f, e) + Low(g, e)
  <2>1. \A i \in Indexes : /\ LowPart(f, e)[i] \in Int /\ LowPart(g, e)[i] \in Int
                           /\ LowPart(h, e)[i] = LowPart(f, e)[i] + LowPart(g, e)[i]
    BY <1>0 DEF LowPart
  <2>2. Total(LowPart(h, e)) = Total(LowPart(f, e)) + Total(LowPart(g, e))
    BY <2>1, TotalPlus
  <2> QED BY <1>0, <1>1, <2>2, PartsLemma
<1>3. ASSUME NEW k \in 0..PegSize PROVE High(h, k) = High(f, k) + High(g, k)
  <2>1. \A i \in Indexes : /\ HighPart(f, k)[i] \in Int /\ HighPart(g, k)[i] \in Int
                           /\ HighPart(h, k)[i] = HighPart(f, k)[i] + HighPart(g, k)[i]
    BY <1>0 DEF HighPart
  <2>2. Total(HighPart(h, k)) = Total(HighPart(f, k)) + Total(HighPart(g, k))
    BY <2>1, TotalPlus
  <2> QED BY <1>0, <1>1, <2>2, PartsLemma
<1> QED BY <1>1, <1>2, <1>3
=============================================================================
